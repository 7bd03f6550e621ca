------------------------------ MODULE Lifespan ------------------------------
(***************************************************************************)
(* The life of the server process (src/app/lifespan.py, resources.py,      *)
(* graph/mcp_tools.py): what startup opens, step by step, what shutdown    *)
(* closes, and what is left when one of the steps raises.                  *)
(*                                                                         *)
(* A step is what the coroutine does from one await to the next.  Startup  *)
(* says what the built server has; here it is built and taken down.        *)
(***************************************************************************)
EXTENDS Startup

CONSTANT Configurations   \* the settings and surroundings to start in

ASSUME ConfigurationsAssumption == Configurations \subseteq Settings \X Surroundings

VARIABLES
  settings,   \* app.state.settings
  found,      \* what startup finds around it
  at,         \* the await the process is in
  open,       \* what was opened and not closed
  session     \* the MCP session of the bridge: none, up, or lost (its server is gone)

lifeVars == <<settings, found, at, open, session>>

Openable == {"tracer", "http", "bridge"}

LifeTypeOK ==
  /\ <<settings, found>> \in Configurations
  /\ at \in {"boot", "reranker", "connect", "list_tools", "serving", "draining",
             "close_bridge", "close_http", "exited", "aborted", "crashed"}
  /\ open \subseteq Openable
  /\ session \in {"none", "up", "lost"}

\* create_app has run: tracing is installed or it is not.
LifeInit ==
  /\ \E configuration \in Configurations :
       settings = configuration[1] /\ found = configuration[2]
  /\ at = "boot"
  /\ open \in {{}, {"tracer"}}
  /\ session = "none"

-----------------------------------------------------------------------------
(***************************************************************************)
(* Startup: everything up to yield.                                        *)
(***************************************************************************)
OverMcp == settings.tools_backend = "mcp"

\* An exception before yield ends the process; finally has not been entered.
Crash == at' = "crashed" /\ UNCHANGED <<settings, found, open, session>>

\* _apply_secret_policy, then the HTTP client; the reranker loads in a thread.
Boot ==
  /\ at = "boot" /\ SecretsSuffice(settings)
  /\ at' = "reranker" /\ open' = open \cup {"http"}
  /\ UNCHANGED <<settings, found, session>>

\* The process refuses to start without its secrets.
RefuseToBoot == at = "boot" /\ ~SecretsSuffice(settings) /\ Crash

\* The store, the models and, in process, the tools; over MCP the bridge connects next.
RerankerLoads ==
  /\ at = "reranker" /\ CorpusSuffices(settings, found)
  /\ at' = IF OverMcp THEN "connect" ELSE "serving"
  /\ UNCHANGED <<settings, found, open, session>>

\* The weights cannot be had, or the corpus cannot.
RerankerFails == at = "reranker" /\ Crash

\* Mutant: requests are served while the session is being opened.
Connects_Serving ==
  /\ at = "connect" /\ BridgeOpens(settings, found)
  /\ at' = "serving"
  /\ UNCHANGED <<settings, found, open, session>>

\* MCPToolBridge.__aenter__ returns.
Connects ==
  /\ at = "connect" /\ BridgeOpens(settings, found)
  /\ at' = "list_tools" /\ open' = open \cup {"bridge"} /\ session' = "up"
  /\ UNCHANGED <<settings, found>>

ConnectFails == at = "connect" /\ Crash

\* MCPToolBridge.load_tools returns; graph, sessions, cache, service and readiness
\* are built without a pause, and the server accepts requests.
ListsTools ==
  /\ at = "list_tools" /\ session = "up"
  /\ at' = "serving"
  /\ UNCHANGED <<settings, found, open, session>>

ListFails == at = "list_tools" /\ Crash

\* The MCP server goes away.
SessionLost ==
  /\ session = "up" /\ session' = "lost"
  /\ UNCHANGED <<settings, found, at, open>>

-----------------------------------------------------------------------------
(***************************************************************************)
(* Shutdown: the finally clause.                                           *)
(***************************************************************************)

\* The process is told to stop; the server accepts no more requests.
StopRequested ==
  /\ at = "serving" /\ at' = "draining"
  /\ UNCHANGED <<settings, found, open, session>>

\* Mutant: a session that was lost is waited for.
Finally_SessionUp ==
  /\ at = "draining" /\ ("bridge" \in open => session = "up")
  /\ at' = IF "bridge" \in open THEN "close_bridge" ELSE "close_http"
  /\ UNCHANGED <<settings, found, open, session>>

\* The server has drained and lets lifespan go on after its yield.
Finally ==
  /\ at = "draining"
  /\ at' = IF "bridge" \in open THEN "close_bridge" ELSE "close_http"
  /\ UNCHANGED <<settings, found, open, session>>

BridgeCloses ==
  /\ at = "close_bridge"
  /\ at' = "close_http" /\ open' = open \ {"bridge"} /\ session' = "none"
  /\ UNCHANGED <<settings, found>>

\* Its __aexit__ raises, and what comes after it is not reached.
BridgeCloseFails ==
  /\ at = "close_bridge"
  /\ at' = "aborted"
  /\ UNCHANGED <<settings, found, open, session>>

\* http.aclose returns, and the tracer provider flushes what it holds.
HttpCloses ==
  /\ at = "close_http"
  /\ at' = "exited" /\ open' = open \ {"http", "tracer"}
  /\ UNCHANGED <<settings, found, session>>

StartupStep ==
  \/ Boot \/ RefuseToBoot \/ RerankerLoads \/ RerankerFails
  \/ Connects \/ ConnectFails \/ ListsTools \/ ListFails

ShutdownStep == BridgeCloses \/ BridgeCloseFails \/ HttpCloses

-----------------------------------------------------------------------------
(***************************************************************************)
(* Properties.                                                             *)
(***************************************************************************)

\* lifespan.py:6-7: the resources are "built once when the server starts, stored on
\* app.state, and closed cleanly on shutdown".
ClosedCleanly == at \in {"exited", "aborted"} => open = {}

\* readiness.py:3-4: one check per dependency, "MCP session connected" among them.
SessionIsReported == at = "serving" /\ session = "lost" => ~IsReady(settings, found)
=============================================================================
