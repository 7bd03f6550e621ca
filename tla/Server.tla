------------------------------- MODULE Server -------------------------------
(***************************************************************************)
(* The process and its requests: Lifespan around HttpSurface, as uvicorn   *)
(* runs them.  Requests arrive only while it serves; told to stop, it      *)
(* waits for those in flight before the lifespan takes anything down.      *)
(***************************************************************************)
EXTENDS Lifespan, HttpSurface

vars == <<settings, found, at, open, session, api_key, request, hits, admitted>>

TypeOK == LifeTypeOK /\ HttpTypeOK

Init == LifeInit /\ HttpInit

\* What the process does by itself.
Lives ==
  /\ StartupStep \/ SessionLost \/ StopRequested \/ ShutdownStep
  /\ UNCHANGED httpVars

Drained ==
  /\ \A r \in Requests : ~InFlight(r)
  /\ Finally /\ UNCHANGED httpVars

Accept(r) ==
  /\ at = "serving"
  /\ \E asked \in Asks \cup Others : Arrive(r, asked)
  /\ UNCHANGED lifeVars

Handle(r) ==
  /\ Proceed(r) \/ AnswerReady(r, IsReady(settings, found))
  /\ UNCHANGED lifeVars

\* While it drains, the server cuts its streams.
Stream(r) == EndStream(r) /\ UNCHANGED lifeVars

Next ==
  \/ Lives \/ Drained
  \/ \E r \in Requests : Accept(r) \/ Handle(r) \/ Stream(r)
  \/ \E c \in Clients : WindowEnds(c) /\ UNCHANGED lifeVars

Spec == Init /\ [][Next]_vars

\* What the server does without its client: the service answers in time
\* (AskService!RequestsEnd), and only the body of a question is waited for.
Responds(r) == Handle(r) /\ ~Reading(r, "ask")

\* The process goes on where nothing outside it is waited for; a stream ends, or is
\* cut.  Nothing is assumed of a client's body, nor of closing an MCP session.
FairSpec ==
  /\ Spec
  /\ WF_vars(HttpCloses /\ UNCHANGED httpVars) /\ WF_vars(Drained)
  /\ \A r \in Requests : WF_vars(Responds(r)) /\ WF_vars(Stream(r))

-----------------------------------------------------------------------------
(***************************************************************************)
(* Properties of the composition.                                          *)
(***************************************************************************)

\* What startup opened is there as long as a request may use it, and gone when the
\* process has exited by itself, in whatever state its session was: only a step of
\* startup that fails, or a bridge that cannot be closed, leaves anything behind
\* (lifespan.py:46-59, :104-113).
HeldWhileNeeded ==
  /\ \A r \in Requests : InFlight(r) => "http" \in open /\ (OverMcp => "bridge" \in open)
  /\ "bridge" \in open <=> session # "none"
  /\ at = "exited" => open = {}

\* No question is read for ever: its client sends the body or breaks off.
BodiesArrive == \A r \in Requests : []<>~Reading(r, "ask")

\* MCPToolBridge.__aexit__ returns or raises, also when its server is gone.
BridgeLetsGo == []<>(at # "close_bridge")

\* A process that is told to stop ends, whatever is answered, streamed or raised
\* meanwhile and in whatever state its session is, if the two things it waits for
\* without a limit come to an end: the body of a question it reads, for uvicorn is
\* started without --timeout-graceful-shutdown, and the __aexit__ of its bridge
\* (lifespan.py:104-113).
StopEnds == BodiesArrive /\ BridgeLetsGo => (at = "draining" ~> at \in {"exited", "aborted"})
=============================================================================
