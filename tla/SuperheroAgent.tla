---------------------------- MODULE SuperheroAgent ----------------------------
(***************************************************************************)
(* The superhero branch for one sub-query (graph/nodes/superhero_agent.py):*)
(* a tool-calling agent is tried on one provider after the other; its tools*)
(* share one call budget (graph/tools.py); the evidence is what the tools  *)
(* returned to the provider that answered, whatever its model says.        *)
(*                                                                         *)
(* The agent is LangChain's create_agent: a model step, then one superstep *)
(* that runs all tool calls of the reply in parallel, then the model again,*)
(* within a recursion limit.  Which calls a model makes is arbitrary.  The *)
(* order of providers, and which of them are skipped, is ModelFailover's.  *)
(***************************************************************************)
EXTENDS Startup, Naturals, SequencesExt

CONSTANTS
  Providers,
  NoProvider,      \* before the first one is tried
  MaxAgentSteps,   \* max_agent_steps: the call budget
  MaxParallel,     \* most tool calls in one reply
  Heroes           \* ids of characters

ASSUME MaxAgentStepsAssumption == MaxAgentSteps \in Nat \ {0}
ASSUME NoProviderAssumption == NoProvider \notin Providers
ASSUME MaxParallelAssumption == MaxParallel \in Nat \ {0}

VARIABLES
  deps,         \* what startup provided: models, tools, tools that ask (never changes)
  at,           \* what runs: a model, its tool calls, the failover, nothing
  provider,     \* the provider whose agent runs or answered
  tried,        \* the providers whose agent was started
  remaining,    \* what is left of the call budget
  supersteps,   \* supersteps of this provider's agent
  round,        \* the tool calls of the model's last reply
  transcript,   \* the results of this provider's agent, round by round
  evidence,     \* character -> the record cited for it
  gap,          \* a caveat was returned
  outcome,
  called        \* tool calls let through to the tools so far (history)

agent == <<provider, supersteps, transcript>>
result == <<evidence, gap, outcome>>
vars == <<deps, at, agent, tried, remaining, round, result, called>>

-----------------------------------------------------------------------------
\* "found": summaries of a search; "record": one full record; "error": a tool
\* error, or no match; "refused": by the budget; "invalid": by the arguments'
\* schema.
Results == [is : {"found", "record", "error", "refused", "invalid"}, heroes : SUBSET Heroes]

Without(kind) == [is |-> kind, heroes |-> {}]

\* The calls a model can make: a search, a character by id, bad arguments.
ToolCalls == {"search", "invalid"} \cup Heroes

Calls == [tool : ToolCalls, is : {"asked", "running", "returned"}, result : Results]

Asked(tool) ==
  IF tool = "invalid"
  THEN [tool |-> tool, is |-> "returned", result |-> Without("invalid")]
  ELSE [tool |-> tool, is |-> "asked", result |-> Without("error")]

\* What search_superheroes and get_superhero may return, failures as data: also over
\* MCP, where a result that is_error, and a server without a token, are tool errors.
ReturnsOf(tool) ==
  {Without("error")} \cup
  IF ~deps.asks THEN {}
  ELSE IF tool = "search"
  THEN {[is |-> "found", heroes |-> S] : S \in (SUBSET Heroes) \ {{}}}
  ELSE {[is |-> "record", heroes |-> {tool}]}

\* Mutant: no room for the reply that is refused.
RecursionLimit_Tight == 2 * MaxAgentSteps + 2

RecursionLimit == 2 * MaxAgentSteps + 4

TypeOK ==
  /\ deps \in [models : BOOLEAN, tools : BOOLEAN, asks : BOOLEAN]
  /\ at \in {"start", "failover", "model", "tools", "END"}
  /\ provider \in Providers \cup {NoProvider}
  /\ tried \subseteq Providers
  /\ remaining \in 0..MaxAgentSteps
  /\ supersteps \in 0..RecursionLimit
  /\ round \in Seq(Calls) /\ Len(round) <= MaxParallel
  /\ transcript \in Seq(Seq(Results))
  /\ DOMAIN evidence \subseteq Heroes
  /\ \A h \in DOMAIN evidence : evidence[h] \in {"summary", "full"}
  /\ gap \in BOOLEAN
  /\ outcome \in {"none", "unconfigured", "no_model", "unavailable", "answered"}
  /\ called \in Nat

Init ==
  /\ deps \in Servers({"models", "tools", "asks"})
  /\ at = "start"
  /\ provider = NoProvider /\ tried = {}
  /\ remaining = MaxAgentSteps
  /\ supersteps = 0 /\ round = <<>> /\ transcript = <<>>
  /\ evidence = <<>> /\ gap = FALSE /\ outcome = "none"
  /\ called = 0

-----------------------------------------------------------------------------
(***************************************************************************)
(* The node, and the failover over the providers' agents.                  *)
(***************************************************************************)
Finish(how, found, incomplete) ==
  /\ at' = "END"
  /\ outcome' = how /\ evidence' = found /\ gap' = incomplete
  /\ UNCHANGED <<deps, agent, tried, remaining, round, called>>

Unconfigured == at = "start" /\ ~deps.tools /\ Finish("unconfigured", <<>>, TRUE)

NoModel == at = "start" /\ deps.tools /\ ~deps.models /\ Finish("no_model", <<>>, FALSE)

\* The budgeted tools are made once, before the failover.
Begin ==
  /\ at = "start" /\ deps.tools /\ deps.models
  /\ at' = "failover"
  /\ UNCHANGED <<deps, agent, tried, remaining, round, result, called>>

\* The next provider starts from the question, with what is left of the budget.
Try(p) ==
  /\ at = "failover"
  /\ p \notin tried
  /\ tried' = tried \cup {p}
  /\ at' = "model"
  /\ provider' = p /\ supersteps' = 0 /\ transcript' = <<>>
  /\ UNCHANGED <<deps, remaining, round, result, called>>

\* All providers failed, or were skipped and one of them was tried in the end.
GiveUp == at = "failover" /\ tried # {} /\ Finish("unavailable", <<>>, TRUE)

\* A model call or a tool raised: the parallel calls are cancelled.
ProviderFails ==
  /\ at \in {"model", "tools"}
  /\ at' = "failover"
  /\ round' = <<>>
  /\ UNCHANGED <<deps, agent, tried, remaining, result, called>>

-----------------------------------------------------------------------------
(***************************************************************************)
(* The agent: model steps and rounds of parallel tool calls.               *)
(***************************************************************************)
CallsTools ==
  /\ at = "model" /\ supersteps < RecursionLimit
  /\ \E n \in 1..MaxParallel : \E tools \in [1..n -> ToolCalls] :
       round' = [i \in 1..n |-> Asked(tools[i])]
  /\ at' = "tools"
  /\ supersteps' = supersteps + 1
  /\ UNCHANGED <<deps, provider, transcript, tried, remaining, result, called>>

\* GraphRecursionError, an exception like any other to the failover.
CutOff ==
  /\ at = "model" /\ supersteps = RecursionLimit
  /\ at' = "failover"
  /\ UNCHANGED <<deps, agent, tried, remaining, round, result, called>>

SetCall(i, is, returned) ==
  round' = [round EXCEPT ![i].is = is, ![i].result = returned]

\* Mutant: the budget is taken without a look at it.
LetThrough_Unchecked(i) ==
  /\ at = "tools" /\ round[i].is = "asked"
  /\ remaining' = remaining - 1
  /\ called' = called + 1
  /\ SetCall(i, "running", round[i].result)
  /\ UNCHANGED <<deps, at, agent, tried, result>>

\* with_call_budget: the check and the decrement have no await between them.
LetThrough(i) ==
  /\ at = "tools" /\ round[i].is = "asked" /\ remaining > 0
  /\ remaining' = remaining - 1
  /\ called' = called + 1
  /\ SetCall(i, "running", round[i].result)
  /\ UNCHANGED <<deps, at, agent, tried, result>>

Refuse(i) ==
  /\ at = "tools" /\ round[i].is = "asked" /\ remaining = 0
  /\ SetCall(i, "returned", Without("refused"))
  /\ UNCHANGED <<deps, at, agent, tried, remaining, result, called>>

Returns(i) ==
  /\ at = "tools" /\ round[i].is = "running"
  /\ \E returned \in ReturnsOf(round[i].tool) : SetCall(i, "returned", returned)
  /\ UNCHANGED <<deps, at, agent, tried, remaining, result, called>>

\* The tool messages are appended in the order of the calls, however they ended.
RoundEnds ==
  /\ at = "tools"
  /\ \A i \in DOMAIN round : round[i].is = "returned"
  /\ transcript' = Append(transcript, [i \in DOMAIN round |-> round[i].result])
  /\ round' = <<>>
  /\ at' = "model"
  /\ supersteps' = supersteps + 1
  /\ UNCHANGED <<deps, provider, tried, remaining, result, called>>

-----------------------------------------------------------------------------
(***************************************************************************)
(* evidence_from_messages.                                                 *)
(***************************************************************************)
Messages == FlattenSeq(transcript)

\* Mutant: whatever came last is cited.
Absorb_LastWins(cited, message) ==
  [h \in DOMAIN cited \cup message.heroes |->
     IF h \in message.heroes THEN (IF message.is = "record" THEN "full" ELSE "summary")
                             ELSE cited[h]]

\* setdefault for the summaries of a search, assignment for a full record.
Absorb(cited, message) ==
  [h \in DOMAIN cited \cup message.heroes |->
     IF message.is = "record" /\ h \in message.heroes THEN "full"
     ELSE IF h \in DOMAIN cited THEN cited[h] ELSE "summary"]

\* The message list is walked from its head.
Cited(messages) ==
  LET cited[n \in 0..Len(messages)] ==
        IF n = 0 THEN <<>> ELSE Absorb(cited[n - 1], messages[n])
  IN  cited[Len(messages)]

Evidence == Cited(Messages)

\* Errors become notes and caveats; a message that is no JSON is passed over.
HasErrors == \E m \in ToSet(Messages) : m.is \in {"error", "refused"}

\* The model's text is discarded.
Answers ==
  /\ at = "model" /\ supersteps < RecursionLimit
  /\ Finish("answered", Evidence, HasErrors)

AgentStep ==
  \/ CallsTools \/ CutOff \/ Answers \/ RoundEnds
  \/ \E i \in DOMAIN round : LetThrough(i) \/ Refuse(i) \/ Returns(i)

Ended == at = "END" /\ UNCHANGED vars

Next ==
  \/ Unconfigured \/ NoModel \/ Begin \/ GiveUp \/ ProviderFails
  \/ \E p \in Providers : Try(p)
  \/ AgentStep
  \/ Ended

Spec == Init /\ [][Next]_vars

-----------------------------------------------------------------------------
(***************************************************************************)
(* Properties.                                                             *)
(***************************************************************************)

HasRefusal(results) == \E i \in DOMAIN results : results[i].is = "refused"

WasRefused ==
  \/ \E r \in DOMAIN transcript : HasRefusal(transcript[r])
  \/ \E i \in DOMAIN round : round[i].result.is = "refused"

\* However many calls a reply makes at once, and whichever providers take over,
\* one sub-query makes at most max_agent_steps calls of the tools, and no call is
\* refused before that many were made (tools.py:75-81, superhero_agent.py:51).
WithinBudget ==
  /\ called <= MaxAgentSteps
  /\ WasRefused => called = MaxAgentSteps

\* A character is cited iff a tool returned it to the provider that answered,
\* with the full record iff one was returned, in whatever order the searches
\* and lookups came (superhero_agent.py:85-111).
EvidenceIsFetched ==
  outcome = "answered" =>
    \A h \in Heroes :
      LET about == {m \in ToSet(Messages) : h \in m.heroes}
      IN  /\ h \in DOMAIN evidence <=> about # {}
          /\ h \in DOMAIN evidence =>
               (evidence[h] = "full" <=> \E m \in about : m.is = "record")

HasCall(results) == \E m \in ToSet(results) : m.is # "invalid"

\* tools.py:8-10: the refusals end the loop before the recursion limit does, so
\* that the evidence gathered is not lost.  A run is cut off only when its model
\* called tools again after a refusal, or wasted a whole reply on bad arguments.
NeverCutOff ==
  (at = "model" /\ supersteps = RecursionLimit) =>
    \/ \E r \in 1..(Len(transcript) - 1) : HasRefusal(transcript[r])
    \/ \E r \in 1..Len(transcript) : ~HasCall(transcript[r])

\* tools.py:70: "together, they accept at most ``max_calls`` calls per run": the agent
\* of each provider is a run of its own.
EachRunHasItsBudget == [][\A p \in Providers : provider' = p /\ provider # p => remaining' = MaxAgentSteps]_vars
=============================================================================
