------------------------------ MODULE AskGraph ------------------------------
(***************************************************************************)
(* The LangGraph run that answers one question (src/app/graph): plan,      *)
(* dispatch the sub-queries that can start, gather what the branches       *)
(* found, resolve and dispatch the ones that waited, write the answer,     *)
(* check it against its evidence, rewrite it if a claim is unsupported.    *)
(*                                                                         *)
(* One action is one node together with the conditional edge that follows  *)
(* it.  The branches of a wave run in parallel and finish in any order;    *)
(* LangGraph applies their writes in the order they were sent once all of  *)
(* them have finished.  A model call answers, or fails when every provider *)
(* has failed (call_with_failover); what a model answers is arbitrary.     *)
(***************************************************************************)
EXTENDS Startup, SanitizePlan

CONSTANTS
  MaxSubQueries,      \* max_sub_queries
  MaxRegenerations,   \* max_regenerations
  MaxItems,           \* most evidence items one branch returns
  RawPlans            \* what the planner may return: [intent, subs]

ASSUME MaxSubQueriesAssumption == MaxSubQueries \in Nat \ {0}
ASSUME MaxRegenerationsAssumption == MaxRegenerations \in Nat
ASSUME MaxItemsAssumption == MaxItems \in Nat
ASSUME FallbackNameAssumption == 1 \in Names

\* A sub-query as the planner writes it (SubQuery before sanitising).
RawSubQueries == [id : Nat, blank : BOOLEAN, source : Sources, deps : SUBSET Nat]

ASSUME RawPlansAssumption ==
  \A raw \in RawPlans :
    /\ raw.intent \in Intents
    /\ raw.subs \in Seq(RawSubQueries)

MAX_WAVES == 2

VARIABLES
  deps,           \* what startup provided: models, store, tools (never changes)
  at,             \* the node that runs next
  plan, ready, pending, wave,
  branch,         \* position -> the branch of that sub-query
  evidence,       \* every item gathered, in the order it was appended
  caveats,        \* positions whose branch left a gap the reader must know of
  answer, citations, cited_evidence,
  grounded, grounding_issues, regenerations,
  degraded, degraded_reason,
  supersteps      \* LangGraph supersteps taken so far

planning == <<plan, ready, pending, wave>>
gathered == <<branch, evidence, caveats>>
answering == <<answer, citations, cited_evidence>>
checking == <<grounded, grounding_issues, regenerations>>
degradation == <<degraded, degraded_reason>>
vars == <<deps, at, planning, gathered, answering, checking, degradation, supersteps>>

-----------------------------------------------------------------------------
Positions == 1..MaxSubQueries

\* "branches" stands for the parallel retrieve_documents and superhero_agent.
Nodes == {"analyze_query", "respond_directly", "branches", "collect",
          "resolve_dependencies", "synthesize", "check_grounding", "END"}

SubQueries == [id : Names, source : Sources, deps : SUBSET Names]

Items == [sub : Names, position : Positions, rank : 1..MaxItems]

\* A branch: not sent, running, finished with its writes, or writes applied.
Branches == [is : {"idle", "running", "finished", "merged"}, items : 0..MaxItems, gap : BOOLEAN]

Idle == [is |-> "idle", items |-> 0, gap |-> FALSE]

Running == [is |-> "running", items |-> 0, gap |-> FALSE]

\* The state before analyze_query has written a plan.
Unplanned == EmptyPlan("none")

NoAnswer == [kind |-> "none", caveats |-> {}, draft |-> 0]

\* kind: no answer text, the fixed texts, a text a model wrote, an empty one.
\* draft: at which superstep it was written (a history component).
Answers == [kind : {"none", "direct", "no_evidence", "written", "blank"},
            caveats : SUBSET Positions, draft : Nat]

\* "unset" is Python's None.  about: the draft the verdict is about (history).
NoVerdict == [is |-> "unset", about |-> 0]

Verdicts == [is : {"unset", "true", "false"}, about : Nat]

InPlan == DOMAIN plan.subs

Tick == supersteps' = supersteps + 1

-----------------------------------------------------------------------------
(***************************************************************************)
(* Nodes and edges of build.py.                                            *)
(***************************************************************************)

\* Mutant: a second wave starts from a clean sheet.
Send_Afresh(positions) == [p \in Positions |-> IF p \in positions THEN Running ELSE Idle]

\* _sends_for: one branch per ready sub-query.
Send(positions) == [p \in Positions |-> IF p \in positions THEN Running ELSE branch[p]]

\* _route_after_plan, on the plan and the ready list the node just wrote.
RouteAfterPlan(newPlan, newReady) ==
  IF newPlan.intent # "answerable" \/ newReady = {} THEN "respond_directly" ELSE "branches"

RouteAfterCollect(waiting, waveNow) ==
  IF waiting # {} /\ waveNow < MAX_WAVES THEN "resolve_dependencies" ELSE "synthesize"

\* Mutant: one rewrite fewer than configured.
RouteAfterGrounding_OffByOne(verdict, count) ==
  IF verdict = "false" /\ count < MaxRegenerations THEN "synthesize" ELSE "END"

RouteAfterGrounding(verdict, count) ==
  IF verdict = "false" /\ count <= MaxRegenerations THEN "synthesize" ELSE "END"

TypeOK ==
  /\ deps \in [models : BOOLEAN, store : BOOLEAN, tools : BOOLEAN]
  /\ at \in Nodes
  /\ plan.intent \in Intents \cup {"none"}
  /\ InPlan \subseteq Positions
  /\ plan.subs \in [InPlan -> SubQueries]
  /\ ready \subseteq Positions /\ pending \subseteq Positions
  /\ wave \in 1..MAX_WAVES
  /\ branch \in [Positions -> Branches]
  /\ evidence \in Seq(Items)
  /\ caveats \subseteq Positions
  /\ answer \in Answers
  /\ citations \subseteq Nat
  /\ DOMAIN cited_evidence \in {1..n : n \in 0..Len(evidence)}
  /\ grounded \in Verdicts /\ grounding_issues \in BOOLEAN /\ regenerations \in Nat
  /\ degraded \in BOOLEAN
  /\ degraded_reason \subseteq {"planner", "synthesis"}
  /\ supersteps \in Nat

Init ==
  /\ deps \in Servers({"models", "store", "tools"})
  /\ at = "analyze_query"
  /\ plan = Unplanned /\ ready = {} /\ pending = {} /\ wave = 1
  /\ branch = [p \in Positions |-> Idle]
  /\ evidence = <<>> /\ caveats = {}
  /\ answer = NoAnswer /\ citations = {} /\ cited_evidence = <<>>
  /\ grounded = NoVerdict /\ grounding_issues = FALSE /\ regenerations = 0
  /\ degraded = FALSE /\ degraded_reason = {}
  /\ supersteps = 0

-----------------------------------------------------------------------------
(***************************************************************************)
(* analyze_query.                                                          *)
(***************************************************************************)
\* Mutant: every sub-query is ready at once.
CanStart_Everything(subs) == DOMAIN subs

CanStart(subs) == {p \in DOMAIN subs : subs[p].deps = {}}

Fallback == [intent |-> "answerable",
             subs |-> [p \in {1} |-> [id |-> 1, source |-> "dataset", deps |-> {}]]]

\* The plan the node settles on, the sub-queries that start and those that wait.
WritePlan(newPlan, starting) ==
  /\ plan' = newPlan
  /\ ready' = starting
  /\ pending' = DOMAIN newPlan.subs \ starting
  /\ wave' = 1
  /\ at' = RouteAfterPlan(newPlan, starting)
  /\ branch' = Send(IF at' = "branches" THEN starting ELSE {})
  /\ Tick
  /\ UNCHANGED <<deps, evidence, caveats, answering, checking>>

AnalyzeQuery ==
  /\ at = "analyze_query"
  /\ deps.models
  /\ \E raw \in RawPlans : \E newPlan \in SanitizedPlans(raw, MaxSubQueries) :
       WritePlan(newPlan, CanStart(newPlan.subs))
  /\ degraded' = FALSE
  /\ degraded_reason' = {}

\* No model, or every provider failed: search the corpus with the question.
AnalyzeQueryDegraded ==
  /\ at = "analyze_query"
  /\ WritePlan(Fallback, {1})
  /\ degraded' = TRUE
  /\ degraded_reason' = {"planner"}

RespondDirectly ==
  /\ at = "respond_directly"
  /\ answer' = [kind |-> "direct", caveats |-> {}, draft |-> supersteps]
  /\ citations' = {} /\ cited_evidence' = <<>>
  /\ grounded' = NoVerdict /\ grounding_issues' = FALSE
  /\ at' = "END"
  /\ Tick
  /\ UNCHANGED <<deps, planning, gathered, regenerations, degradation>>

-----------------------------------------------------------------------------
(***************************************************************************)
(* The branches: what each may return, its end, the merge of its writes.   *)
(***************************************************************************)
Outcome(items, gap) == [is |-> "finished", items |-> items, gap |-> gap]

Outcomes == {Outcome(n, gap) : n \in 0..MaxItems, gap \in BOOLEAN}

\* No corpus or a failed search is a gap; otherwise the graded or top passages.
DatasetOutcomes ==
  {o \in Outcomes : /\ o.gap => o.items = 0
                    /\ ~deps.store => o.gap}

\* No tools or no provider is a gap, so is a tool error; no model is not.
HeroOutcomes ==
  {o \in Outcomes : /\ ~deps.tools => o = Outcome(0, TRUE)
                    /\ deps.tools /\ ~deps.models => o = Outcome(0, FALSE)}

FinishBranch(p, source, outcomes) ==
  /\ at = "branches"
  /\ branch[p].is = "running"
  /\ plan.subs[p].source = source
  /\ \E outcome \in outcomes : branch' = [branch EXCEPT ![p] = outcome]
  /\ UNCHANGED <<deps, at, planning, evidence, caveats, answering, checking,
                 degradation, supersteps>>

RetrieveDocuments(p) == FinishBranch(p, "dataset", DatasetOutcomes)

SuperheroAgent(p) == FinishBranch(p, "superhero", HeroOutcomes)

Finished == {p \in Positions : branch[p].is = "finished"}

ItemsOf(p) ==
  [r \in 1..branch[p].items |-> [sub |-> plan.subs[p].id, position |-> p, rank |-> r]]

\* Mutant: the second wave's evidence replaces the first's.
WithItemsOf_LastWave(p) ==
  IF wave = 2 /\ \A e \in {evidence[k] : k \in DOMAIN evidence} : e.position \notin ready
  THEN ItemsOf(p)
  ELSE evidence \o ItemsOf(p)

WithItemsOf(p) == evidence \o ItemsOf(p)

\* The reducers of GraphState (operator.add), one branch after the other.
Merge(p) ==
  /\ at = "branches"
  /\ \A q \in Positions : branch[q].is # "running"
  /\ p \in Finished /\ \A q \in Finished : p <= q
  /\ branch' = [branch EXCEPT ![p].is = "merged"]
  /\ evidence' = WithItemsOf(p)
  /\ caveats' = caveats \cup (IF branch[p].gap THEN {p} ELSE {})
  /\ IF Finished = {p} THEN at' = "collect" /\ Tick ELSE UNCHANGED <<at, supersteps>>
  /\ UNCHANGED <<deps, planning, answering, checking, degradation>>

Collect ==
  /\ at = "collect"
  /\ at' = RouteAfterCollect(pending, wave)
  /\ Tick
  /\ UNCHANGED <<deps, planning, gathered, answering, checking, degradation>>

\* Rewritten by a model or run as written: either way every pending sub-query
\* is sent (_dispatch_ready).
ResolveDependencies ==
  /\ at = "resolve_dependencies"
  /\ ready' = pending
  /\ pending' = {}
  /\ wave' = wave + 1
  /\ at' = IF ready' = {} THEN "synthesize" ELSE "branches"
  /\ branch' = Send(ready')
  /\ Tick
  /\ UNCHANGED <<deps, plan, evidence, caveats, answering, checking, degradation>>

-----------------------------------------------------------------------------
(***************************************************************************)
(* synthesize.                                                             *)
(***************************************************************************)

\* Mutant: evidence keeps the order in which it arrived.
Precedes_Arrival(i, j) == i < j

\* order_evidence: by the place of the sub-query in the plan, then by arrival.
Precedes(i, j) ==
  LET place(k) == LastNamed(plan.subs, evidence[k].sub)
  IN  place(i) < place(j) \/ (place(i) = place(j) /\ i < j)

LabelOf(i) == Cardinality({j \in DOMAIN evidence : Precedes(j, i)}) + 1

OrderedEvidence ==
  [label \in 1..Len(evidence) |-> evidence[CHOOSE i \in DOMAIN evidence : LabelOf(i) = label]]

\* clean_citations: labels the model made up are dropped.
CleanCitations(used) == used \cap (1..Len(evidence))

\* Mutant: the gaps are left to the metadata.
ShownCaveats_Never == {}

\* Appended only when the draft is not a rewrite driven by grounding issues.
ShownCaveats == IF grounding_issues THEN {} ELSE caveats

WriteAnswer(kind, shown, used, cited) ==
  /\ answer' = [kind |-> kind, caveats |-> shown, draft |-> supersteps]
  /\ citations' = used
  /\ cited_evidence' = cited

SynthesizeNothing ==
  /\ evidence = <<>>
  /\ WriteAnswer("no_evidence", caveats, {}, <<>>)
  /\ UNCHANGED degradation

\* No model, or every provider failed: the sources without an answer.
SynthesizeDegraded ==
  /\ evidence # <<>>
  /\ WriteAnswer("none", {}, {}, OrderedEvidence)
  /\ degraded' = TRUE
  /\ degraded_reason' = degraded_reason \cup {"synthesis"}

\* The model uses any labels, real or not; its text may come out empty.
SynthesizeText ==
  /\ evidence # <<>>
  /\ deps.models
  /\ \E used \in SUBSET (1..Len(evidence) + 1), empty \in BOOLEAN :
       /\ empty => CleanCitations(used) = {}
       /\ WriteAnswer(IF empty /\ ShownCaveats = {} THEN "blank" ELSE "written",
                      ShownCaveats, CleanCitations(used), OrderedEvidence)
  /\ UNCHANGED degradation

Synthesize ==
  /\ at = "synthesize"
  /\ SynthesizeNothing \/ SynthesizeDegraded \/ SynthesizeText
  /\ at' = "check_grounding"
  /\ Tick
  /\ UNCHANGED <<deps, planning, gathered, checking>>

-----------------------------------------------------------------------------
(***************************************************************************)
(* check_grounding.                                                        *)
(***************************************************************************)
Checkable == deps.models /\ answer.kind \notin {"none", "blank"} /\ cited_evidence # <<>>

\* Mutant: an answer that is not checked keeps the verdict of the one before.
NotChecked_KeepsVerdict == UNCHANGED checking

\* Nothing to check, or every provider failed.
NotChecked ==
  /\ grounded' = NoVerdict
  /\ grounding_issues' = FALSE
  /\ UNCHANGED regenerations

Supported ==
  /\ Checkable
  /\ grounded' = [is |-> "true", about |-> answer.draft]
  /\ grounding_issues' = FALSE
  /\ UNCHANGED regenerations

\* The list of unsupported claims may be empty all the same.
Unsupported ==
  /\ Checkable
  /\ grounded' = [is |-> "false", about |-> answer.draft]
  /\ grounding_issues' \in BOOLEAN
  /\ regenerations' = regenerations + 1

CheckGrounding ==
  /\ at = "check_grounding"
  /\ NotChecked \/ Supported \/ Unsupported
  /\ at' = RouteAfterGrounding(grounded'.is, regenerations')
  /\ Tick
  /\ UNCHANGED <<deps, planning, gathered, answering, degradation>>

-----------------------------------------------------------------------------
Next ==
  \/ AnalyzeQuery \/ AnalyzeQueryDegraded \/ RespondDirectly
  \/ \E p \in Positions : RetrieveDocuments(p) \/ SuperheroAgent(p) \/ Merge(p)
  \/ Collect \/ ResolveDependencies
  \/ Synthesize \/ CheckGrounding

Spec == Init /\ [][Next]_vars

\* Every call a node awaits has a timeout of its own, so a run goes on until END.
FairSpec == Spec /\ WF_vars(Next)

-----------------------------------------------------------------------------
(***************************************************************************)
(* Properties.                                                             *)
(***************************************************************************)
Answering == at \in {"synthesize", "check_grounding"}

Done == at = "END"

Before(p, q) == LastNamed(plan.subs, plan.subs[p].id) < LastNamed(plan.subs, plan.subs[q].id)

\* No answer is written before every planned sub-query has been run and merged,
\* in whichever wave, and nothing that was not planned has run
\* (build.py:142-168).
AllGathered ==
  Answering =>
    /\ pending = {}
    /\ \A p \in Positions : branch[p].is = (IF p \in InPlan THEN "merged" ELSE "idle")

\* An answer is written from what every branch returned, each item once and none
\* lost to a later wave; the gaps are exactly the branches that had one
\* (state.py:29-36).
EvidenceComplete ==
  Answering =>
    /\ \A p \in InPlan : \A r \in 1..MaxItems :
         Cardinality({k \in DOMAIN evidence : evidence[k].position = p /\ evidence[k].rank = r})
           = (IF r <= branch[p].items THEN 1 ELSE 0)
    /\ caveats = {p \in InPlan : branch[p].gap}

\* A sub-query that needs another's answer is not sent until every sub-query
\* that needed none has been merged (analyze_query.py:54-55, build.py:166-168).
DependentsWait ==
  [][\A p \in Positions :
       (branch[p].is = "idle" /\ branch'[p].is = "running" /\ plan'.subs[p].deps # {}) =>
         \A q \in DOMAIN plan'.subs : plan'.subs[q].deps = {} => branch[q].is = "merged"]_vars

\* Each label of the answer stands for one source, the sources are all the
\* evidence, in the order of the plan and then of retrieval: the same question
\* with the same findings gets the same labels (synthesize.py:3-9, 82-96).
CitationsResolve ==
  /\ citations \subseteq DOMAIN cited_evidence
  /\ cited_evidence # <<>> =>
       /\ DOMAIN cited_evidence = DOMAIN evidence
       /\ \A k \in DOMAIN evidence : \E l \in DOMAIN cited_evidence : cited_evidence[l] = evidence[k]
       /\ \A l, m \in DOMAIN cited_evidence :
            LET x == cited_evidence[l] y == cited_evidence[m]
            IN  Before(x.position, y.position) \/ (x.position = y.position /\ x.rank < y.rank)
                  => l < m

\* A shipped verdict is about the answer that ships, never about an earlier
\* draft, and an answer ships as ungrounded only when every allowed rewrite has
\* been spent (check_grounding.py:33-65, build.py:171-177).
VerdictIsAboutThisAnswer ==
  Done =>
    /\ grounded.is # "unset" =>
         answer.kind = "written" /\ cited_evidence # <<>> /\ grounded.about = answer.draft
    /\ grounded.is = "false" <=> regenerations = MaxRegenerations + 1

\* The reader is told what is missing.  degraded is set exactly when the planner
\* or the writer was unavailable, its reason names each one, an answer is missing
\* only in the second case, and without a model no text is passed off as a
\* model's; an answer that was not rewritten names every branch that left a gap,
\* and no other (analyze_query.py:76-86, synthesize.py:44-48, 70-71, 99-109).
ReaderIsTold ==
  Done =>
    /\ degraded <=> degraded_reason # {}
    /\ answer.kind = "none" <=> "synthesis" \in degraded_reason
    /\ "planner" \in degraded_reason => plan = Fallback
    /\ ~deps.models => "planner" \in degraded_reason /\ answer.kind \in {"none", "no_evidence"}
    /\ regenerations = 0 /\ answer.kind \in {"written", "no_evidence"} => answer.caveats = caveats

\* Two waves, one answer and the allowed rewrites: a run ends well before
\* LangGraph's recursion limit of 25 supersteps would abort it.
BoundedRun == supersteps <= 8 + 2 * MaxRegenerations

\* What schemas.py:26 says of depends_on: the "answers are needed before this
\* one can be asked".
DependenciesAnswered ==
  [][\A p \in Positions :
       (branch[p].is = "idle" /\ branch'[p].is = "running") =>
         \A d \in plan'.subs[p].deps :
           \E q \in DOMAIN plan'.subs : plan'.subs[q].id = d /\ branch[q].is = "merged"]_vars

\* What state.py:30-34 says of caveats: they are what the person reading the
\* answer needs to know, appended to the answer text.
CaveatsReachReader ==
  Done /\ answer.kind \in {"written", "no_evidence"} => answer.caveats = caveats

-----------------------------------------------------------------------------
(***************************************************************************)
(* The run implements ScatterGather.                                       *)
(***************************************************************************)
Stage ==
  CASE at = "analyze_query" -> "plan"
    [] at \in {"branches", "collect", "resolve_dependencies"} -> "gather"
    [] at \in {"respond_directly", "synthesize", "check_grounding"} -> "answer"
    [] at = "END" -> "done"

Gathered == {p \in Positions : branch[p].is = "merged"}

SG == INSTANCE ScatterGather WITH
        Questions <- Positions, asked <- InPlan, gathered <- Gathered, stage <- Stage

ImplementsScatterGather == SG!FairSpec
=============================================================================
