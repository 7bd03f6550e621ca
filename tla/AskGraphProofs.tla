--------------------------- MODULE AskGraphProofs ---------------------------
(***************************************************************************)
(* Proofs about AskGraph, for every cap, retry limit and set of plans.     *)
(***************************************************************************)
EXTENDS AskGraph, MCSanitizePlan, FunctionTheorems, FiniteSetTheorems, WellFoundedInduction, TLAPS

(***************************************************************************)
(* Where a run stands in its waves: which sub-queries wait, which were     *)
(* sent, and how far their branches are.                                   *)
(***************************************************************************)
WaveInv ==
  /\ at = "analyze_query" =>
       InPlan = {} /\ pending = {} /\ wave = 1 /\ branch = [p \in Positions |-> Idle]
  /\ pending \subseteq {p \in InPlan : plan.subs[p].deps # {}}
  /\ \A p \in Positions : branch[p].is = "idle" <=> p \notin InPlan \ pending
  /\ at # "branches" => \A p \in Positions : branch[p].is \in {"idle", "merged"}
  /\ pending # {} => wave = 1 /\ at \in {"branches", "collect", "resolve_dependencies"}
  /\ at = "resolve_dependencies" => pending # {}

(***************************************************************************)
(* How many supersteps lead to each node, given the rewrites so far.       *)
(***************************************************************************)
StepInv ==
  /\ at = "analyze_query" => supersteps = 0
  /\ at = "respond_directly" => supersteps = 1
  /\ at = "branches" => supersteps <= 3 * wave - 2
  /\ at = "collect" => supersteps <= 3 * wave - 1
  /\ at = "resolve_dependencies" => supersteps <= 3
  /\ at = "synthesize" => supersteps <= 6 + 2 * regenerations
  /\ at = "check_grounding" => supersteps <= 7 + 2 * regenerations
  /\ at = "END" => supersteps <= 8 + 2 * MaxRegenerations
  /\ at # "END" => regenerations <= MaxRegenerations
  /\ at \notin {"synthesize", "check_grounding", "END"} => regenerations = 0

(***************************************************************************)
(* What the last verdict says, and of which draft.                         *)
(***************************************************************************)
VerdictInv ==
  /\ at = "check_grounding" /\ cited_evidence # <<>> =>
       answer.kind \in {"none", "blank", "written"}
  /\ VerdictIsAboutThisAnswer

(***************************************************************************)
(* What sanitize_plan returns has the shape the graph relies on, whatever  *)
(* the model wrote.                                                        *)
(***************************************************************************)
LEMMA SanitizedShape ==
  ASSUME NEW raw \in RawPlans, NEW p \in SanitizedPlans(raw, MaxSubQueries)
  PROVE  /\ p.intent \in Intents
         /\ DOMAIN p.subs \subseteq Positions
         /\ p.subs \in [DOMAIN p.subs -> SubQueries]
         /\ p.intent = "answerable" => CanStart(p.subs) # {}
         /\ p.intent # "answerable" => DOMAIN p.subs = {}
<1> USE MaxSubQueriesAssumption, NamesAssumption DEF Intents
<1>1. raw.intent \in Intents /\ raw.subs \in Seq(RawSubQueries)
  BY RawPlansAssumption
<1>2. ASSUME NEW intent \in Intents, p = EmptyPlan(intent), intent # "answerable"
      PROVE  /\ p.intent \in Intents
             /\ DOMAIN p.subs \subseteq Positions
             /\ p.subs \in [DOMAIN p.subs -> SubQueries]
             /\ p.intent # "answerable"
             /\ DOMAIN p.subs = {}
  BY <1>2 DEF EmptyPlan
<1>3. CASE raw.intent # "answerable" \/ Kept(raw.subs, MaxSubQueries) = {}
  BY <1>1, <1>2, <1>3 DEF SanitizedPlans
<1>4. CASE raw.intent = "answerable" /\ Kept(raw.subs, MaxSubQueries) # {}
  <2>1. PICK ids \in CleanIds(raw.subs, MaxSubQueries) :
          p = [intent |-> "answerable", subs |-> CleanSubs(raw.subs, ids)]
    BY <1>4 DEF SanitizedPlans
  <2>2. /\ ids \in [Kept(raw.subs, MaxSubQueries) -> Names]
        /\ DOMAIN ids = Kept(raw.subs, MaxSubQueries)
    BY DEF CleanIds
  <2>3. DOMAIN ids \subseteq Positions /\ DOMAIN ids \subseteq 1..Len(raw.subs) /\ DOMAIN ids # {}
    BY <1>1, <1>4, <2>2 DEF Kept, Positions
  <2> DEFINE filtered == [i \in DOMAIN ids |->
                            [id |-> ids[i], source |-> raw.subs[i].source,
                             deps |-> KnownDeps(raw.subs, ids, i)]]
             cleared == [i \in DOMAIN ids |-> [filtered[i] EXCEPT !.deps = {}]]
  <2>4. ASSUME NEW i \in DOMAIN ids
        PROVE  /\ ids[i] \in Names
               /\ raw.subs[i].source \in Sources
               /\ KnownDeps(raw.subs, ids, i) \subseteq Names
    <3>1. \A j \in DOMAIN ids : ids[j] \in Names
      BY <2>2
    <3>2. raw.subs[i] \in RawSubQueries
      BY <1>1, <2>3
    <3>3. KnownDeps(raw.subs, ids, i) \subseteq Names
      BY <3>1 DEF KnownDeps
    <3> QED
      BY <3>1, <3>2, <3>3 DEF RawSubQueries
  <2>5. filtered \in [DOMAIN ids -> SubQueries]
    BY <2>4 DEF SubQueries
  <2>6. cleared \in [DOMAIN ids -> SubQueries]
    BY <2>5 DEF SubQueries
  <2>7. CleanSubs(raw.subs, ids) = cleared \/
        (CleanSubs(raw.subs, ids) = filtered /\ ~AllBlocked(filtered))
    BY DEF CleanSubs
  <2>8. CanStart(cleared) # {}
    BY <2>3, <2>6 DEF CanStart, SubQueries
  <2>9. ~AllBlocked(filtered) => CanStart(filtered) # {}
    BY DEF CanStart, AllBlocked
  <2> QED
    BY <2>1, <2>3, <2>5, <2>6, <2>7, <2>8, <2>9
<1> QED
  BY <1>3, <1>4, <1>1

-----------------------------------------------------------------------------
(***************************************************************************)
(* Type correctness.                                                       *)
(***************************************************************************)
LEMMA SendType ==
  ASSUME branch \in [Positions -> Branches], NEW S
  PROVE  Send(S) \in [Positions -> Branches]
BY MaxItemsAssumption DEF Send, Running, Branches

LEMMA FallbackShape ==
  /\ Fallback.intent = "answerable"
  /\ DOMAIN Fallback.subs = {1} /\ {1} \subseteq Positions
  /\ Fallback.subs \in [{1} -> SubQueries]
  /\ Fallback.subs[1].deps = {}
BY MaxSubQueriesAssumption, FallbackNameAssumption
   DEF Fallback, Positions, SubQueries, Sources

LEMMA OrderedDomain ==
  ASSUME evidence \in Seq(Items)
  PROVE  DOMAIN OrderedEvidence = 1..Len(evidence) /\ Len(evidence) \in Nat
BY DEF OrderedEvidence

LEMMA InitInvariant == Init => TypeOK /\ WaveInv
<1> USE MaxSubQueriesAssumption, MaxItemsAssumption
<1> SUFFICES ASSUME Init PROVE TypeOK /\ WaveInv
  OBVIOUS
<1>1. plan.intent \in Intents \cup {"none"} /\ InPlan = {} /\ plan.subs \in [InPlan -> SubQueries]
  BY DEF Init, Unplanned, EmptyPlan, InPlan
<1>2. branch \in [Positions -> Branches] /\ \A p \in Positions : branch[p].is = "idle"
  BY DEF Init, Idle, Branches
<1>3. answer \in Answers /\ grounded \in Verdicts
  BY DEF Init, NoAnswer, Answers, NoVerdict, Verdicts
<1>4. DOMAIN cited_evidence \in {1..n : n \in 0..Len(evidence)}
  BY DEF Init
<1>5. TypeOK
  <2>1. evidence \in Seq(Items) /\ caveats \subseteq Positions /\ citations \subseteq Nat
    BY DEF Init
  <2>2. at \in Nodes /\ wave \in 1..MAX_WAVES /\ ready \subseteq Positions /\ pending \subseteq Positions
    BY DEF Init, Nodes, MAX_WAVES
  <2>4. deps \in [models : BOOLEAN, store : BOOLEAN, tools : BOOLEAN]
    <3>1. PICK start \in Started : deps = [part \in {"models", "store", "tools"} |-> Build(start[1], start[2])[part]]
      BY DEF Init, Servers
    <3>2. start[1] \in Settings /\ start[2] \in Surroundings
      BY DEF Started
    <3>3. /\ Build(start[1], start[2])["models"] = start[1].gemini_api_key
          /\ Build(start[1], start[2])["store"] = start[2].paragraphs
          /\ Build(start[1], start[2])["tools"] = HasHeroTools(start[1], start[2])
      BY DEF Build
    <3>4. start[1].gemini_api_key \in BOOLEAN /\ start[1].superhero_api_token \in BOOLEAN
      BY <3>2 DEF Settings
    <3>5. start[2].paragraphs \in BOOLEAN
      BY <3>2 DEF Surroundings
    <3>6. HasHeroTools(start[1], start[2]) \in BOOLEAN
      BY DEF HasHeroTools
    <3> QED
      BY <3>1, <3>3, <3>4, <3>5, <3>6
  <2>3. /\ grounding_issues \in BOOLEAN /\ regenerations \in Nat
        /\ degraded \in BOOLEAN /\ degraded_reason \subseteq {"planner", "synthesis"}
        /\ supersteps \in Nat
    BY DEF Init
  <2> QED
    BY <1>1, <1>2, <1>3, <1>4, <2>1, <2>2, <2>3, <2>4 DEF TypeOK
<1>6. WaveInv
  BY <1>1, <1>2 DEF Init, WaveInv
<1> QED
  BY <1>5, <1>6

\* The types after a plan has been written, by a model or by the fallback.
LEMMA WritePlanType ==
  ASSUME TypeOK, NEW newPlan, NEW starting,
         newPlan.intent \in Intents,
         DOMAIN newPlan.subs \subseteq Positions,
         newPlan.subs \in [DOMAIN newPlan.subs -> SubQueries],
         starting \subseteq Positions,
         WritePlan(newPlan, starting),
         degraded' \in BOOLEAN, degraded_reason' \subseteq {"planner", "synthesis"}
  PROVE  TypeOK'
<1>1. branch' \in [Positions -> Branches]
  BY SendType DEF WritePlan, TypeOK
<1>2. at' \in Nodes
  BY DEF WritePlan, RouteAfterPlan, Nodes
<1> QED
  BY <1>1, <1>2 DEF WritePlan, TypeOK, Tick, MAX_WAVES, answering, checking, InPlan

LEMMA TypeStep == TypeOK /\ WaveInv /\ [Next]_vars => TypeOK'
<1> USE MaxSubQueriesAssumption, MaxRegenerationsAssumption, MaxItemsAssumption
<1> SUFFICES ASSUME TypeOK, WaveInv, [Next]_vars PROVE TypeOK'
  OBVIOUS
<1>1. CASE AnalyzeQuery
  <2>1. PICK raw \in RawPlans : \E newPlan \in SanitizedPlans(raw, MaxSubQueries) :
          WritePlan(newPlan, CanStart(newPlan.subs))
    BY <1>1 DEF AnalyzeQuery
  <2>2. PICK newPlan \in SanitizedPlans(raw, MaxSubQueries) :
          WritePlan(newPlan, CanStart(newPlan.subs))
    BY <2>1
  <2>3. CanStart(newPlan.subs) \subseteq Positions
    BY SanitizedShape DEF CanStart
  <2> QED
    BY <1>1, <2>2, <2>3, SanitizedShape, WritePlanType DEF AnalyzeQuery
<1>2. CASE AnalyzeQueryDegraded
  BY <1>2, FallbackShape, WritePlanType DEF AnalyzeQueryDegraded, Intents
<1>3. CASE RespondDirectly
  <2>1. answer' \in Answers /\ grounded' \in Verdicts
    BY <1>3 DEF RespondDirectly, Answers, NoVerdict, Verdicts, TypeOK
  <2>2. DOMAIN cited_evidence' \in {1..n : n \in 0..Len(evidence')}
    <3>1. cited_evidence' = <<>> /\ 0 \in 0..Len(evidence')
      BY <1>3 DEF RespondDirectly, gathered, TypeOK
    <3>2. DOMAIN <<>> = 1..0
      OBVIOUS
    <3> QED
      BY <3>1, <3>2
  <2>3. citations' \subseteq Nat /\ grounding_issues' \in BOOLEAN /\ regenerations' \in Nat
    BY <1>3 DEF RespondDirectly, TypeOK
  <2>4. at' \in Nodes /\ supersteps' \in Nat
    BY <1>3 DEF RespondDirectly, TypeOK, Tick, Nodes
  <2>5. UNCHANGED <<deps, planning, gathered, degradation>>
    BY <1>3 DEF RespondDirectly
  <2> QED
    BY <2>1, <2>2, <2>3, <2>4, <2>5 DEF TypeOK, planning, gathered, degradation, InPlan
<1>4. ASSUME NEW p \in Positions, RetrieveDocuments(p) \/ SuperheroAgent(p)
      PROVE  TypeOK'
  <2>1. PICK outcome \in DatasetOutcomes \cup HeroOutcomes :
          branch' = [branch EXCEPT ![p] = outcome]
    BY <1>4 DEF RetrieveDocuments, SuperheroAgent, FinishBranch
  <2>2. outcome \in Branches
    <3>1. \A n \in 0..MaxItems, gap \in BOOLEAN : Outcome(n, gap) \in Branches
      BY DEF Outcome, Branches
    <3>2. outcome \in Outcomes
      BY DEF DatasetOutcomes, HeroOutcomes
    <3> QED
      BY <3>1, <3>2 DEF Outcomes
  <2>3. branch' \in [Positions -> Branches]
    BY <2>1, <2>2 DEF TypeOK
  <2> QED
    BY <1>4, <2>3
       DEF RetrieveDocuments, SuperheroAgent, FinishBranch, TypeOK, planning, answering,
           checking, degradation, InPlan
<1>5. ASSUME NEW p \in Positions, Merge(p)
      PROVE  TypeOK'
  <2>1. branch[p] \in Branches /\ branch[p].items \in 0..MaxItems
    BY DEF TypeOK, Branches
  <2>2. branch' \in [Positions -> Branches]
    BY <1>5, <2>1 DEF Merge, TypeOK, Branches
  <2>3. p \in InPlan /\ plan.subs[p].id \in Names
    BY <1>5 DEF Merge, Finished, WaveInv, TypeOK, SubQueries
  <2>4. ItemsOf(p) \in Seq(Items)
    <3>1. ItemsOf(p) \in [1..branch[p].items -> Items]
      BY <2>1, <2>3 DEF ItemsOf, Items
    <3> QED
      BY <2>1, <3>1
  <2>5. evidence' \in Seq(Items) /\ Len(evidence) <= Len(evidence')
    BY <1>5, <2>4 DEF Merge, WithItemsOf, TypeOK
  <2>6. DOMAIN cited_evidence' \in {1..n : n \in 0..Len(evidence')}
    BY <1>5, <2>5 DEF Merge, TypeOK, answering
  <2>7. at' \in Nodes /\ supersteps' \in Nat
    BY <1>5 DEF Merge, Tick, TypeOK, Nodes
  <2> QED
    BY <1>5, <2>2, <2>5, <2>6, <2>7
       DEF Merge, TypeOK, planning, answering, checking, degradation, InPlan
<1>6. CASE Collect
  BY <1>6 DEF Collect, RouteAfterCollect, TypeOK, Tick, Nodes, planning, gathered, answering,
              checking, degradation, InPlan
<1>7. CASE ResolveDependencies
  <2>1. branch' \in [Positions -> Branches]
    BY <1>7, SendType DEF ResolveDependencies, TypeOK
  <2>2. wave' \in 1..MAX_WAVES /\ at' \in Nodes
    BY <1>7 DEF ResolveDependencies, WaveInv, MAX_WAVES, Nodes
  <2> QED
    BY <1>7, <2>1, <2>2
       DEF ResolveDependencies, TypeOK, Tick, answering, checking, degradation, InPlan
<1>8. CASE Synthesize
  <2>1. PICK kind \in {"none", "no_evidence", "written", "blank"}, shown \in SUBSET Positions,
             used \in SUBSET Nat, cited \in {<<>>, OrderedEvidence} :
          WriteAnswer(kind, shown, used, cited)
    <3>1. CASE SynthesizeNothing
      BY <3>1 DEF SynthesizeNothing, TypeOK
    <3>2. CASE SynthesizeDegraded
      BY <3>2 DEF SynthesizeDegraded
    <3>3. CASE SynthesizeText
      <4>1. ShownCaveats \subseteq Positions
        BY DEF ShownCaveats, TypeOK
      <4>2. \A used : CleanCitations(used) \subseteq Nat
        BY OrderedDomain DEF CleanCitations, TypeOK
      <4> QED
        BY <3>3, <4>1, <4>2 DEF SynthesizeText
    <3> QED
      BY <1>8, <3>1, <3>2, <3>3 DEF Synthesize
  <2>2. answer' \in Answers /\ citations' \subseteq Nat
    BY <2>1 DEF WriteAnswer, Answers, TypeOK
  <2>3. DOMAIN cited_evidence' \in {1..n : n \in 0..Len(evidence)}
    BY <2>1, OrderedDomain DEF WriteAnswer, TypeOK
  <2>4. degraded' \in BOOLEAN /\ degraded_reason' \subseteq {"planner", "synthesis"}
    BY <1>8 DEF Synthesize, SynthesizeNothing, SynthesizeDegraded, SynthesizeText,
                degradation, TypeOK
  <2> QED
    BY <1>8, <2>2, <2>3, <2>4
       DEF Synthesize, TypeOK, Tick, Nodes, planning, gathered, checking, InPlan
<1>9. CASE CheckGrounding
  <2>1. grounded' \in Verdicts /\ grounding_issues' \in BOOLEAN /\ regenerations' \in Nat
    <3>1. answer.draft \in Nat /\ regenerations \in Nat
      BY DEF TypeOK, Answers
    <3>2. CASE NotChecked
      BY <3>1, <3>2 DEF NotChecked, Verdicts, NoVerdict
    <3>3. CASE Supported
      BY <3>1, <3>3 DEF Supported, Verdicts
    <3>4. CASE Unsupported
      BY <3>1, <3>4 DEF Unsupported, Verdicts
    <3> QED
      BY <1>9, <3>2, <3>3, <3>4 DEF CheckGrounding
  <2> QED
    BY <1>9, <2>1
       DEF CheckGrounding, RouteAfterGrounding, TypeOK, Tick, Nodes, planning, gathered,
           answering, degradation, InPlan
<1>10. CASE UNCHANGED vars
  BY <1>10 DEF vars, TypeOK, planning, gathered, answering, checking, degradation, InPlan
<1> QED
  BY <1>1, <1>2, <1>3, <1>4, <1>5, <1>6, <1>7, <1>8, <1>9, <1>10 DEF Next

-----------------------------------------------------------------------------
(***************************************************************************)
(* The waves.                                                              *)
(***************************************************************************)
LEMMA WriteWave ==
  ASSUME TypeOK, WaveInv, at = "analyze_query", NEW newPlan,
         newPlan.intent \in Intents,
         DOMAIN newPlan.subs \subseteq Positions,
         newPlan.subs \in [DOMAIN newPlan.subs -> SubQueries],
         newPlan.intent = "answerable" => CanStart(newPlan.subs) # {},
         newPlan.intent # "answerable" => DOMAIN newPlan.subs = {},
         WritePlan(newPlan, CanStart(newPlan.subs))
  PROVE  WaveInv'
<1> DEFINE starting == CanStart(newPlan.subs)
<1>1. /\ plan' = newPlan /\ wave' = 1
      /\ pending' = DOMAIN newPlan.subs \ starting
      /\ pending' \subseteq {p \in DOMAIN newPlan.subs : newPlan.subs[p].deps # {}}
      /\ starting \subseteq DOMAIN newPlan.subs
  BY DEF WritePlan, CanStart
<1>2. CASE starting = {}
  <2>1. DOMAIN newPlan.subs = {} /\ at' = "respond_directly"
    BY <1>2 DEF WritePlan, RouteAfterPlan
  <2>2. \A p \in Positions : branch'[p] = Idle
    BY <2>1 DEF WritePlan, Send, WaveInv
  <2> QED
    BY <1>1, <2>1, <2>2 DEF WaveInv, InPlan, Idle
<1>3. CASE starting # {}
  <2>1. at' = "branches"
    <3>1. newPlan.intent = "answerable"
      BY <1>1, <1>3
    <3> QED
      BY <1>3, <3>1 DEF WritePlan, RouteAfterPlan
  <2>2. \A p \in Positions : branch'[p] = IF p \in starting THEN Running ELSE Idle
    BY <2>1 DEF WritePlan, Send, WaveInv
  <2> QED
    BY <1>1, <2>1, <2>2 DEF WaveInv, InPlan, Idle, Running
<1> QED
  BY <1>2, <1>3

LEMMA WaveStep == TypeOK /\ WaveInv /\ [Next]_vars => WaveInv'
<1> USE MaxSubQueriesAssumption
<1> SUFFICES ASSUME TypeOK, WaveInv, [Next]_vars PROVE WaveInv'
  OBVIOUS
<1>1. CASE AnalyzeQuery
  <2>1. PICK raw \in RawPlans : \E newPlan \in SanitizedPlans(raw, MaxSubQueries) :
          WritePlan(newPlan, CanStart(newPlan.subs))
    BY <1>1 DEF AnalyzeQuery
  <2>2. PICK newPlan \in SanitizedPlans(raw, MaxSubQueries) :
          WritePlan(newPlan, CanStart(newPlan.subs))
    BY <2>1
  <2> QED
    BY <1>1, <2>2, SanitizedShape, WriteWave DEF AnalyzeQuery
<1>2. CASE AnalyzeQueryDegraded
  <2>1. CanStart(Fallback.subs) = {1}
    BY FallbackShape DEF CanStart
  <2> QED
    BY <1>2, <2>1, FallbackShape, WriteWave DEF AnalyzeQueryDegraded, Intents
<1>3. CASE RespondDirectly
  BY <1>3 DEF RespondDirectly, WaveInv, planning, gathered, InPlan
<1>4. ASSUME NEW p \in Positions, RetrieveDocuments(p) \/ SuperheroAgent(p)
      PROVE  WaveInv'
  <2>1. PICK outcome \in DatasetOutcomes \cup HeroOutcomes :
          branch' = [branch EXCEPT ![p] = outcome]
    BY <1>4 DEF RetrieveDocuments, SuperheroAgent, FinishBranch
  <2>2. outcome.is = "finished" /\ branch[p].is = "running" /\ at = "branches"
    BY <1>4 DEF RetrieveDocuments, SuperheroAgent, FinishBranch, DatasetOutcomes, HeroOutcomes,
                Outcomes, Outcome
  <2>3. \A q \in Positions : branch'[q].is = "idle" <=> branch[q].is = "idle"
    BY <2>1, <2>2 DEF TypeOK
  <2> QED
    BY <1>4, <2>2, <2>3
       DEF RetrieveDocuments, SuperheroAgent, FinishBranch, WaveInv, planning, InPlan
<1>5. ASSUME NEW p \in Positions, Merge(p)
      PROVE  WaveInv'
  <2>1. /\ at = "branches" /\ branch[p].is = "finished"
        /\ branch' = [branch EXCEPT ![p].is = "merged"]
        /\ \A q \in Positions : branch[q].is # "running"
    BY <1>5 DEF Merge, Finished
  <2>2. /\ branch'[p].is = "merged"
        /\ \A q \in Positions \ {p} : branch'[q] = branch[q]
    BY <2>1 DEF TypeOK, Branches
  <2>3. at' = "branches" \/ (at' = "collect" /\ Finished = {p})
    BY <1>5, <2>1 DEF Merge
  <2>4. at' = "collect" => \A q \in Positions : branch'[q].is \in {"idle", "merged"}
    <3> SUFFICES ASSUME at' = "collect", NEW q \in Positions, q # p
                 PROVE  branch[q].is \in {"idle", "merged"}
      BY <2>2
    <3>1. branch[q].is \in {"idle", "running", "finished", "merged"}
      BY DEF TypeOK, Branches
    <3>2. branch[q].is # "finished"
      BY <2>3 DEF Finished
    <3> QED
      BY <2>1, <3>1, <3>2
  <2> QED
    BY <1>5, <2>1, <2>2, <2>3, <2>4 DEF Merge, WaveInv, planning, InPlan
<1>6. CASE Collect
  BY <1>6 DEF Collect, RouteAfterCollect, WaveInv, planning, gathered, InPlan, MAX_WAVES, TypeOK
<1>7. CASE ResolveDependencies
  <2>1. pending # {} /\ pending \subseteq InPlan /\ at' = "branches"
    BY <1>7 DEF ResolveDependencies, WaveInv
  <2>2. \A p \in Positions : branch'[p] = IF p \in pending THEN Running ELSE branch[p]
    BY <1>7 DEF ResolveDependencies, Send
  <2> QED
    BY <1>7, <2>1, <2>2 DEF ResolveDependencies, WaveInv, InPlan, Running
<1>8. CASE Synthesize
  BY <1>8 DEF Synthesize, WaveInv, planning, gathered, InPlan
<1>9. CASE CheckGrounding
  BY <1>9 DEF CheckGrounding, RouteAfterGrounding, WaveInv, planning, gathered, InPlan
<1>10. CASE UNCHANGED vars
  BY <1>10 DEF vars, WaveInv, planning, gathered, InPlan
<1> QED
  BY <1>1, <1>2, <1>3, <1>4, <1>5, <1>6, <1>7, <1>8, <1>9, <1>10 DEF Next

LEMMA BaseInvariant == Spec => [](TypeOK /\ WaveInv)
<1>1. TypeOK /\ WaveInv /\ [Next]_vars => (TypeOK /\ WaveInv)'
  BY TypeStep, WaveStep
<1> QED
  BY InitInvariant, <1>1, PTL DEF Spec

\* The state of a run keeps its type (state.py:18-47).
THEOREM TypeCorrect == Spec => []TypeOK
BY BaseInvariant, PTL

\* No answer is begun before every planned sub-query has been run and merged,
\* and no unplanned one ever runs, for every cap and every plan a model may
\* write (build.py:142-168).
THEOREM GatheredBeforeAnswer == Spec => []AllGathered
<1>1. TypeOK /\ WaveInv => AllGathered
  BY DEF TypeOK, WaveInv, AllGathered, Answering, Branches, InPlan
<1> QED
  BY BaseInvariant, <1>1, PTL

-----------------------------------------------------------------------------
(***************************************************************************)
(* The length of a run.                                                    *)
(***************************************************************************)
LEMMA StepStep == TypeOK /\ WaveInv /\ StepInv /\ [Next]_vars => StepInv'
<1> USE MaxRegenerationsAssumption
<1> SUFFICES ASSUME TypeOK, WaveInv, StepInv, [Next]_vars PROVE StepInv'
  OBVIOUS
<1>1. supersteps \in Nat /\ regenerations \in Nat /\ wave \in 1..2
  BY DEF TypeOK, MAX_WAVES
<1>2. ASSUME NEW newPlan, NEW starting, at = "analyze_query", WritePlan(newPlan, starting)
      PROVE  StepInv'
  BY <1>1, <1>2 DEF WritePlan, RouteAfterPlan, Tick, StepInv, checking
<1>3. CASE AnalyzeQuery
  BY <1>2, <1>3 DEF AnalyzeQuery
<1>4. CASE AnalyzeQueryDegraded
  BY <1>2, <1>4 DEF AnalyzeQueryDegraded
<1>5. CASE RespondDirectly
  BY <1>1, <1>5 DEF RespondDirectly, StepInv, Tick
<1>6. ASSUME NEW p \in Positions, RetrieveDocuments(p) \/ SuperheroAgent(p)
      PROVE  StepInv'
  BY <1>6 DEF RetrieveDocuments, SuperheroAgent, FinishBranch, StepInv, planning, checking
<1>7. ASSUME NEW p \in Positions, Merge(p)
      PROVE  StepInv'
  BY <1>1, <1>7 DEF Merge, StepInv, planning, checking, Tick
<1>8. CASE Collect
  <2>1. at' \in {"resolve_dependencies", "synthesize"} /\ (at' = "resolve_dependencies" => wave = 1)
    BY <1>1, <1>8 DEF Collect, RouteAfterCollect, MAX_WAVES
  <2> QED
    BY <1>1, <1>8, <2>1 DEF Collect, StepInv, planning, checking, Tick
<1>9. CASE ResolveDependencies
  <2>1. wave' = 2 /\ at' = "branches"
    BY <1>9 DEF ResolveDependencies, WaveInv
  <2> QED
    BY <1>1, <1>9, <2>1 DEF ResolveDependencies, StepInv, checking, Tick
<1>10. CASE Synthesize
  BY <1>1, <1>10 DEF Synthesize, StepInv, checking, Tick
<1>11. CASE CheckGrounding
  <2>1. CASE NotChecked \/ Supported
    <3>1. at' = "END" /\ regenerations' = regenerations
      BY <1>11, <2>1
         DEF CheckGrounding, NotChecked, Supported, NoVerdict, RouteAfterGrounding
    <3> QED
      BY <1>1, <1>11, <3>1 DEF CheckGrounding, StepInv, Tick
  <2>2. CASE Unsupported
    <3>1. /\ regenerations' = regenerations + 1
          /\ at' = IF regenerations + 1 <= MaxRegenerations THEN "synthesize" ELSE "END"
      BY <1>11, <2>2 DEF CheckGrounding, Unsupported, RouteAfterGrounding
    <3> QED
      BY <1>1, <1>11, <3>1 DEF CheckGrounding, StepInv, Tick
  <2> QED
    BY <1>11, <2>1, <2>2 DEF CheckGrounding
<1>12. CASE UNCHANGED vars
  BY <1>12 DEF vars, StepInv, planning, checking
<1> QED
  BY <1>3, <1>4, <1>5, <1>6, <1>7, <1>8, <1>9, <1>10, <1>11, <1>12 DEF Next

LEMMA StepInvariant == Spec => []StepInv
<1>1. Init => StepInv
  BY MaxRegenerationsAssumption DEF Init, StepInv
<1> QED
  BY BaseInvariant, <1>1, StepStep, PTL DEF Spec

\* Whatever the models answer, a run is over within 8 supersteps and two more
\* for each allowed rewrite (build.py:111-134, 171-177).
THEOREM RunIsBounded == Spec => []BoundedRun
<1>1. TypeOK /\ StepInv => BoundedRun
  BY MaxRegenerationsAssumption DEF TypeOK, StepInv, BoundedRun, Nodes, MAX_WAVES
<1> QED
  BY BaseInvariant, StepInvariant, <1>1, PTL

-----------------------------------------------------------------------------
(***************************************************************************)
(* A run is finite: supersteps and branches only ever go forward.          *)
(***************************************************************************)
Returned == {p \in Positions : branch[p].is \in {"finished", "merged"}}

Merged == {p \in Positions : branch[p].is = "merged"}

\* What has been done so far: supersteps taken, branches returned, writes applied.
Work == supersteps + Cardinality(Returned) + Cardinality(Merged)

WorkLimit == 8 + 2 * MaxRegenerations + 2 * MaxSubQueries

LEMMA SetsOfPositions ==
  ASSUME NEW S \in SUBSET Positions
  PROVE  IsFiniteSet(S) /\ Cardinality(S) \in Nat /\ Cardinality(S) <= MaxSubQueries
<1>1. IsFiniteSet(Positions) /\ Cardinality(Positions) = MaxSubQueries
  BY FS_Interval, MaxSubQueriesAssumption DEF Positions
<1> QED
  BY <1>1, FS_Subset, FS_CardinalityType

\* A step that takes back no branch does not undo work.
LEMMA WorkGrows ==
  ASSUME TypeOK, supersteps' \in Nat, supersteps' >= supersteps,
         Returned \subseteq Returned', Merged \subseteq Merged'
  PROVE  /\ Work \in Nat /\ Work' \in Nat
         /\ supersteps' > supersteps \/ Returned # Returned' \/ Merged # Merged' => Work' > Work
<1>1. Returned' \in SUBSET Positions /\ Merged' \in SUBSET Positions
  BY DEF Returned, Merged
<1>2. /\ Cardinality(Returned) \in Nat /\ Cardinality(Returned') \in Nat
      /\ Cardinality(Returned) <= Cardinality(Returned')
      /\ Cardinality(Returned) = Cardinality(Returned') => Returned' = Returned
  BY <1>1, SetsOfPositions, FS_Subset
<1>3. /\ Cardinality(Merged) \in Nat /\ Cardinality(Merged') \in Nat
      /\ Cardinality(Merged) <= Cardinality(Merged')
      /\ Cardinality(Merged) = Cardinality(Merged') => Merged' = Merged
  BY <1>1, SetsOfPositions, FS_Subset
<1>4. supersteps \in Nat
  BY DEF TypeOK
<1> QED
  BY <1>2, <1>3, <1>4 DEF Work

LEMMA EveryStepIsWork == TypeOK /\ WaveInv /\ Next => Work' \in Nat /\ Work' > Work
<1> SUFFICES ASSUME TypeOK, WaveInv, Next PROVE Work' \in Nat /\ Work' > Work
  OBVIOUS
<1>1. supersteps \in Nat
  BY DEF TypeOK
<1>2. ASSUME Tick, Returned \subseteq Returned', Merged \subseteq Merged'
      PROVE  Work' \in Nat /\ Work' > Work
  BY <1>1, <1>2, WorkGrows DEF Tick
<1>3. ASSUME Tick, branch' = branch PROVE Work' \in Nat /\ Work' > Work
  BY <1>2, <1>3 DEF Returned, Merged
<1>4. CASE AnalyzeQuery \/ AnalyzeQueryDegraded
  <2>1. Tick /\ at = "analyze_query"
    BY <1>4 DEF AnalyzeQuery, AnalyzeQueryDegraded, WritePlan
  <2>2. Returned = {} /\ Merged = {}
    BY <2>1 DEF WaveInv, Returned, Merged, Idle
  <2> QED
    BY <1>2, <2>1, <2>2
<1>5. ASSUME NEW p \in Positions, RetrieveDocuments(p) \/ SuperheroAgent(p)
      PROVE  Work' \in Nat /\ Work' > Work
  <2>1. PICK outcome \in DatasetOutcomes \cup HeroOutcomes :
          branch' = [branch EXCEPT ![p] = outcome]
    BY <1>5 DEF RetrieveDocuments, SuperheroAgent, FinishBranch
  <2>2. /\ outcome.is = "finished" /\ branch[p].is = "running" /\ supersteps' = supersteps
    BY <1>5 DEF RetrieveDocuments, SuperheroAgent, FinishBranch, DatasetOutcomes, HeroOutcomes,
                Outcomes, Outcome
  <2>3. /\ branch'[p].is = "finished"
        /\ \A q \in Positions \ {p} : branch'[q] = branch[q]
    BY <2>1, <2>2 DEF TypeOK
  <2>4. p \notin Returned /\ p \notin Merged /\ p \in Returned'
    BY <2>2, <2>3 DEF Returned, Merged
  <2>5. Returned \subseteq Returned' /\ Merged \subseteq Merged'
    BY <2>3, <2>4 DEF Returned, Merged
  <2> QED
    BY <1>1, <2>2, <2>4, <2>5, WorkGrows
<1>6. ASSUME NEW p \in Positions, Merge(p)
      PROVE  Work' \in Nat /\ Work' > Work
  <2>1. /\ branch[p].is = "finished" /\ branch' = [branch EXCEPT ![p].is = "merged"]
        /\ Tick \/ supersteps' = supersteps
    BY <1>6 DEF Merge, Finished
  <2>2. /\ branch'[p].is = "merged"
        /\ \A q \in Positions \ {p} : branch'[q] = branch[q]
    BY <2>1 DEF TypeOK, Branches
  <2>3. p \notin Merged /\ p \in Merged'
    BY <2>1, <2>2 DEF Merged
  <2>4. Returned \subseteq Returned' /\ Merged \subseteq Merged'
    BY <2>2 DEF Returned, Merged
  <2>5. supersteps' \in Nat /\ supersteps' >= supersteps
    BY <1>1, <2>1 DEF Tick
  <2> QED
    BY <2>3, <2>4, <2>5, WorkGrows
<1>7. CASE ResolveDependencies
  <2>1. Tick /\ \A p \in Positions : branch'[p] = IF p \in pending THEN Running ELSE branch[p]
    BY <1>7 DEF ResolveDependencies, Send
  <2>2. \A p \in pending : branch[p].is = "idle"
    BY DEF WaveInv, TypeOK
  <2>3. Returned \subseteq Returned' /\ Merged \subseteq Merged'
    BY <2>1, <2>2 DEF Returned, Merged
  <2> QED
    BY <1>2, <2>1, <2>3
<1>8. CASE RespondDirectly \/ Collect \/ Synthesize \/ CheckGrounding
  <2>1. Tick /\ branch' = branch
    BY <1>8 DEF RespondDirectly, Collect, Synthesize, CheckGrounding, gathered
  <2> QED
    BY <1>3, <2>1
<1> QED
  BY <1>4, <1>5, <1>6, <1>7, <1>8 DEF Next

\* No run goes on for ever, for plans of any size and any limit on rewrites: every step
\* of the graph adds to its work, and the work stays below a limit known beforehand.
\* That a run which can go on does, and that it can until END, is the part of the
\* refinement that TLC checks under FairSpec (build.py:111-177).
THEOREM RunsAreFinite ==
  Spec => [](Work \in Nat /\ Work <= WorkLimit) /\ [][Work' > Work]_vars
<1>1. TypeOK /\ BoundedRun => Work \in Nat /\ Work <= WorkLimit
  <2> SUFFICES ASSUME TypeOK, BoundedRun PROVE Work \in Nat /\ Work <= WorkLimit
    OBVIOUS
  <2>1. Returned \in SUBSET Positions /\ Merged \in SUBSET Positions
    BY DEF Returned, Merged
  <2>2. /\ Cardinality(Returned) \in Nat /\ Cardinality(Returned) <= MaxSubQueries
        /\ Cardinality(Merged) \in Nat /\ Cardinality(Merged) <= MaxSubQueries
    BY <2>1, SetsOfPositions
  <2>3. supersteps \in Nat /\ supersteps <= 8 + 2 * MaxRegenerations
    BY DEF TypeOK, BoundedRun
  <2> QED
    BY <2>2, <2>3, MaxSubQueriesAssumption, MaxRegenerationsAssumption DEF Work, WorkLimit
<1>2. TypeOK /\ WaveInv /\ [Next]_vars => [Work' > Work]_vars
  BY EveryStepIsWork
<1> QED
  BY BaseInvariant, RunIsBounded, <1>1, <1>2, PTL DEF Spec

-----------------------------------------------------------------------------
(***************************************************************************)
(* The verdict.                                                            *)
(***************************************************************************)
LEMMA VerdictStep == TypeOK /\ StepInv /\ VerdictInv /\ [Next]_vars => VerdictInv'
<1> USE MaxRegenerationsAssumption
<1> SUFFICES ASSUME TypeOK, StepInv, VerdictInv, [Next]_vars PROVE VerdictInv'
  OBVIOUS
<1> USE DEF VerdictInv, VerdictIsAboutThisAnswer, Done
<1>1. ASSUME NEW newPlan, NEW starting, WritePlan(newPlan, starting)
      PROVE  VerdictInv'
  BY <1>1 DEF WritePlan, RouteAfterPlan
<1>2. CASE AnalyzeQuery
  BY <1>1, <1>2 DEF AnalyzeQuery
<1>3. CASE AnalyzeQueryDegraded
  BY <1>1, <1>3 DEF AnalyzeQueryDegraded
<1>4. CASE RespondDirectly
  BY <1>4 DEF RespondDirectly, NoVerdict, StepInv
<1>5. ASSUME NEW p \in Positions, RetrieveDocuments(p) \/ SuperheroAgent(p)
      PROVE  VerdictInv'
  BY <1>5 DEF RetrieveDocuments, SuperheroAgent, FinishBranch
<1>6. ASSUME NEW p \in Positions, Merge(p)
      PROVE  VerdictInv'
  BY <1>6 DEF Merge
<1>7. CASE Collect \/ ResolveDependencies
  BY <1>7 DEF Collect, RouteAfterCollect, ResolveDependencies
<1>8. CASE Synthesize
  <2>1. cited_evidence' = <<>> \/ answer'.kind \in {"none", "blank", "written"}
    BY <1>8 DEF Synthesize, SynthesizeNothing, SynthesizeDegraded, SynthesizeText, WriteAnswer
  <2> QED
    BY <1>8, <2>1 DEF Synthesize
<1>9. CASE CheckGrounding
  <2>1. /\ regenerations \in Nat /\ regenerations <= MaxRegenerations
        /\ answer' = answer /\ cited_evidence' = cited_evidence /\ at = "check_grounding"
    BY <1>9 DEF CheckGrounding, StepInv, TypeOK, answering
  <2>2. CASE NotChecked
    BY <1>9, <2>1, <2>2 DEF CheckGrounding, NotChecked, NoVerdict, RouteAfterGrounding
  <2>3. CASE Supported
    BY <1>9, <2>1, <2>3 DEF CheckGrounding, Supported, Checkable, RouteAfterGrounding
  <2>4. CASE Unsupported
    BY <1>9, <2>1, <2>4 DEF CheckGrounding, Unsupported, Checkable, RouteAfterGrounding
  <2> QED
    BY <1>9, <2>2, <2>3, <2>4 DEF CheckGrounding
<1>10. CASE UNCHANGED vars
  BY <1>10 DEF vars, answering, checking
<1> QED
  BY <1>2, <1>3, <1>4, <1>5, <1>6, <1>7, <1>8, <1>9, <1>10 DEF Next

\* A verdict ships only with the draft it is about, and "ungrounded" only after
\* exactly MaxRegenerations rewrites (check_grounding.py:33-65).
THEOREM VerdictIsFresh == Spec => []VerdictIsAboutThisAnswer
<1>1. Init => VerdictInv
  BY DEF Init, VerdictInv, VerdictIsAboutThisAnswer, Done
<1>2. VerdictInv => VerdictIsAboutThisAnswer
  BY DEF VerdictInv
<1> QED
  BY BaseInvariant, StepInvariant, <1>1, <1>2, VerdictStep, PTL DEF Spec

-----------------------------------------------------------------------------
(***************************************************************************)
(* The order of the waves, and the refinement of ScatterGather.            *)
(***************************************************************************)
LEMMA WritePlanBranches ==
  ASSUME TypeOK, WaveInv, at = "analyze_query", NEW newPlan, NEW starting,
         starting \subseteq Positions, WritePlan(newPlan, starting)
  PROVE  /\ \A p \in Positions : branch'[p].is = "running" => p \in starting
         /\ Gathered = {} /\ Gathered' = {}
         /\ plan' = newPlan
         /\ Stage = "plan"
         /\ Stage' = IF at' = "branches" THEN "gather" ELSE "answer"
<1>1. \A p \in Positions : branch[p] = Idle
  BY DEF WaveInv
<1>2. \A p \in Positions : branch'[p] = Idle \/ (p \in starting /\ branch'[p] = Running)
  BY <1>1 DEF WritePlan, Send
<1>3. plan' = newPlan /\ at' \in {"branches", "respond_directly"}
  BY DEF WritePlan, RouteAfterPlan
<1> QED
  BY <1>1, <1>2, <1>3 DEF Gathered, Stage, Idle, Running

\* For both ways a plan is written.
LEMMA PlanWritten ==
  ASSUME TypeOK, WaveInv, AnalyzeQuery \/ AnalyzeQueryDegraded
  PROVE  \E newPlan :
           /\ at = "analyze_query"
           /\ DOMAIN newPlan.subs \subseteq Positions
           /\ newPlan.intent # "answerable" => DOMAIN newPlan.subs = {}
           /\ newPlan.intent = "answerable" => CanStart(newPlan.subs) # {}
           /\ WritePlan(newPlan, CanStart(newPlan.subs))
<1>1. CASE AnalyzeQuery
  <2>1. PICK raw \in RawPlans : \E newPlan \in SanitizedPlans(raw, MaxSubQueries) :
          WritePlan(newPlan, CanStart(newPlan.subs))
    BY <1>1 DEF AnalyzeQuery
  <2>2. PICK newPlan \in SanitizedPlans(raw, MaxSubQueries) :
          WritePlan(newPlan, CanStart(newPlan.subs))
    BY <2>1
  <2> QED
    BY <1>1, <2>2, SanitizedShape DEF AnalyzeQuery
<1>2. CASE AnalyzeQueryDegraded
  <2>1. CanStart(Fallback.subs) = {1}
    BY FallbackShape DEF CanStart
  <2> QED
    BY <1>2, <2>1, FallbackShape DEF AnalyzeQueryDegraded
<1> QED
  BY <1>1, <1>2

LEMMA RefinementStep ==
  TypeOK /\ WaveInv /\ [Next]_vars => [SG!Next]_(SG!vars)
<1> SUFFICES ASSUME TypeOK, WaveInv, [Next]_vars PROVE [SG!Next]_(SG!vars)
  OBVIOUS
<1> USE DEF SG!Next, SG!vars
<1>1. CASE AnalyzeQuery \/ AnalyzeQueryDegraded
  <2>1. PICK newPlan :
           /\ at = "analyze_query"
           /\ DOMAIN newPlan.subs \subseteq Positions
           /\ newPlan.intent # "answerable" => DOMAIN newPlan.subs = {}
           /\ newPlan.intent = "answerable" => CanStart(newPlan.subs) # {}
           /\ WritePlan(newPlan, CanStart(newPlan.subs))
    BY <1>1, PlanWritten
  <2>2. CanStart(newPlan.subs) \subseteq DOMAIN newPlan.subs
    BY DEF CanStart
  <2>3. at' = "branches" <=> DOMAIN newPlan.subs # {}
    BY <2>1, <2>2 DEF WritePlan, RouteAfterPlan
  <2>4. /\ Gathered = {} /\ Gathered' = {} /\ InPlan' = DOMAIN newPlan.subs /\ Stage = "plan"
        /\ Stage' = IF DOMAIN newPlan.subs = {} THEN "answer" ELSE "gather"
    BY <2>1, <2>2, <2>3, WritePlanBranches DEF InPlan
  <2>5. SG!Split(DOMAIN newPlan.subs)
    BY <2>4 DEF SG!Split
  <2> QED
    BY <2>1, <2>5
<1>2. CASE RespondDirectly
  <2>1. SG!GiveAnswer
    BY <1>2 DEF RespondDirectly, SG!GiveAnswer, Stage, planning, gathered, Gathered, InPlan
  <2> QED
    BY <2>1
<1>3. ASSUME NEW p \in Positions, RetrieveDocuments(p) \/ SuperheroAgent(p)
      PROVE  UNCHANGED SG!vars
  <2>1. PICK outcome \in DatasetOutcomes \cup HeroOutcomes :
          branch' = [branch EXCEPT ![p] = outcome]
    BY <1>3 DEF RetrieveDocuments, SuperheroAgent, FinishBranch
  <2>2. outcome.is = "finished" /\ branch[p].is = "running"
    BY <1>3 DEF RetrieveDocuments, SuperheroAgent, FinishBranch, DatasetOutcomes, HeroOutcomes,
                Outcomes, Outcome
  <2>3. Gathered' = Gathered
    BY <2>1, <2>2 DEF TypeOK, Gathered
  <2> QED
    BY <1>3, <2>3
       DEF RetrieveDocuments, SuperheroAgent, FinishBranch, planning, InPlan, Stage
<1>4. ASSUME NEW p \in Positions, Merge(p)
      PROVE  SG!Gather(p)
  <2>1. /\ at = "branches" /\ branch[p].is = "finished"
        /\ branch' = [branch EXCEPT ![p].is = "merged"]
        /\ plan' = plan /\ at' \in {"branches", "collect"}
    BY <1>4 DEF Merge, Finished, planning
  <2>2. /\ branch'[p].is = "merged"
        /\ \A q \in Positions \ {p} : branch'[q] = branch[q]
    BY <2>1 DEF TypeOK, Branches
  <2>3. Gathered' = Gathered \cup {p} /\ p \notin Gathered
    BY <2>1, <2>2 DEF Gathered
  <2>4. p \in InPlan
    BY <2>1 DEF WaveInv
  <2> QED
    BY <2>1, <2>3, <2>4 DEF SG!Gather, Stage, InPlan
<1>5. CASE Collect
  <2>1. /\ at = "collect" /\ plan' = plan /\ branch' = branch
        /\ at' = IF pending # {} /\ wave < MAX_WAVES THEN "resolve_dependencies" ELSE "synthesize"
    BY <1>5 DEF Collect, RouteAfterCollect, planning, gathered
  <2>2. CASE at' = "resolve_dependencies"
    BY <2>1, <2>2 DEF Stage, Gathered, InPlan
  <2>3. CASE at' = "synthesize"
    <3>1. pending = {}
      BY <2>1, <2>3 DEF WaveInv, MAX_WAVES
    <3>2. Gathered = InPlan
      BY <2>1, <3>1 DEF WaveInv, Gathered, TypeOK, InPlan
    <3>3. SG!BeginAnswer
      BY <2>1, <2>3, <3>2 DEF SG!BeginAnswer, Stage, Gathered, InPlan
    <3> QED
      BY <3>3
  <2> QED
    BY <2>1, <2>2, <2>3
<1>6. CASE ResolveDependencies
  <2>1. pending # {} /\ at' = "branches" /\ plan' = plan /\ at = "resolve_dependencies"
    BY <1>6 DEF ResolveDependencies, WaveInv
  <2>2. \A p \in Positions : branch'[p] = IF p \in pending THEN Running ELSE branch[p]
    BY <1>6 DEF ResolveDependencies, Send
  <2>3. \A p \in pending : p \in Positions => branch[p].is = "idle"
    BY DEF WaveInv
  <2>4. Gathered' = Gathered
    BY <2>2, <2>3 DEF Gathered, Running
  <2> QED
    BY <2>1, <2>4 DEF Stage, InPlan
<1>7. CASE Synthesize
  BY <1>7 DEF Synthesize, Stage, planning, gathered, Gathered, InPlan
<1>8. CASE CheckGrounding
  <2>1. at' = "synthesize" \/ at' = "END"
    BY <1>8 DEF CheckGrounding, RouteAfterGrounding
  <2>2. /\ at = "check_grounding" /\ plan' = plan /\ branch' = branch
    BY <1>8 DEF CheckGrounding, planning, gathered
  <2>3. CASE at' = "END"
    <3>1. SG!GiveAnswer
      BY <2>2, <2>3 DEF SG!GiveAnswer, Stage, Gathered, InPlan
    <3> QED
      BY <3>1
  <2> QED
    BY <2>1, <2>2, <2>3 DEF Stage, Gathered, InPlan
<1>9. CASE UNCHANGED vars
  BY <1>9 DEF vars, Stage, planning, gathered, Gathered, InPlan
<1> QED
  BY <1>1, <1>2, <1>3, <1>4, <1>5, <1>6, <1>7, <1>8, <1>9 DEF Next

\* The run of the graph is a run of ScatterGather: split once, gather each part
\* once, answer only when every part is in (build.py:73-177).
THEOREM RunScattersAndGathers == Spec => SG!Spec
<1>1. Init => SG!Init
  BY DEF Init, SG!Init, Stage, Gathered, InPlan, Unplanned, EmptyPlan, Idle
<1> QED
  BY BaseInvariant, <1>1, RefinementStep, PTL DEF Spec, SG!Spec

\* Only the second wave holds sub-queries that depend on others, and it starts
\* when the first has been merged (analyze_query.py:54-55, build.py:166-168).
THEOREM DependentsComeSecond == Spec => DependentsWait
<1> DEFINE Waits ==
      \A p \in Positions :
       (branch[p].is = "idle" /\ branch'[p].is = "running" /\ plan'.subs[p].deps # {}) =>
         \A q \in DOMAIN plan'.subs : plan'.subs[q].deps = {} => branch[q].is = "merged"
<1>1. ASSUME TypeOK, WaveInv, [Next]_vars
      PROVE  Waits
  <2>1. CASE AnalyzeQuery \/ AnalyzeQueryDegraded
    <3>1. PICK newPlan :
             /\ at = "analyze_query"
             /\ DOMAIN newPlan.subs \subseteq Positions
             /\ WritePlan(newPlan, CanStart(newPlan.subs))
      BY <1>1, <2>1, PlanWritten
    <3>2. \A p \in Positions : branch'[p].is = "running" => plan'.subs[p].deps = {}
      BY <1>1, <3>1, WritePlanBranches DEF CanStart
    <3> QED
      BY <3>2
  <2>2. CASE ResolveDependencies
    <3>1. \A q \in InPlan : plan.subs[q].deps = {} => branch[q].is = "merged"
      BY <1>1, <2>2 DEF ResolveDependencies, WaveInv, TypeOK
    <3> QED
      BY <2>2, <3>1 DEF ResolveDependencies, InPlan
  <2>3. ASSUME NEW p \in Positions, RetrieveDocuments(p) \/ SuperheroAgent(p)
        PROVE  Waits
    <3>1. PICK outcome \in DatasetOutcomes \cup HeroOutcomes :
            branch' = [branch EXCEPT ![p] = outcome]
      BY <2>3 DEF RetrieveDocuments, SuperheroAgent, FinishBranch
    <3>2. outcome.is = "finished"
      BY DEF DatasetOutcomes, HeroOutcomes, Outcomes, Outcome
    <3> QED
      BY <1>1, <3>1, <3>2 DEF TypeOK
  <2>4. ASSUME NEW p \in Positions, Merge(p)
        PROVE  Waits
    BY <1>1, <2>4 DEF Merge, TypeOK, Branches
  <2>5. CASE RespondDirectly \/ Collect \/ Synthesize \/ CheckGrounding \/ UNCHANGED vars
    BY <2>5 DEF RespondDirectly, Collect, Synthesize, CheckGrounding, vars, gathered
  <2> QED
    BY <1>1, <2>1, <2>2, <2>3, <2>4, <2>5 DEF Next
<1> QED
  BY BaseInvariant, <1>1, PTL DEF Spec, DependentsWait

-----------------------------------------------------------------------------
(***************************************************************************)
(* What the reader is told of what was unavailable.                        *)
(***************************************************************************)
ToldInv ==
  /\ degraded <=> degraded_reason # {}
  /\ "planner" \in degraded_reason => plan = Fallback /\ at # "respond_directly"
  /\ at # "analyze_query" /\ ~deps.models => "planner" \in degraded_reason
  /\ at \notin {"check_grounding", "END"} => "synthesis" \notin degraded_reason
  /\ at \in {"check_grounding", "END"} =>
       /\ answer.kind = "none" <=> "synthesis" \in degraded_reason
       /\ ~deps.models => answer.kind \in {"none", "no_evidence"}
       /\ regenerations = 0 /\ answer.kind \in {"written", "no_evidence"} => answer.caveats = caveats
  /\ regenerations = 0 => ~grounding_issues
  /\ at = "analyze_query" => degraded_reason = {}

LEMMA ToldStep == TypeOK /\ StepInv /\ ToldInv /\ [Next]_vars => ToldInv'
<1> USE MaxRegenerationsAssumption
<1> SUFFICES ASSUME TypeOK, StepInv, ToldInv, [Next]_vars PROVE ToldInv'
  OBVIOUS
<1>1. CASE AnalyzeQuery
  <2>1. /\ at' \in {"respond_directly", "branches"} /\ deps.models /\ deps' = deps
        /\ degraded' = FALSE /\ degraded_reason' = {} /\ UNCHANGED checking
    BY <1>1 DEF AnalyzeQuery, WritePlan, RouteAfterPlan
  <2> QED
    BY <2>1 DEF ToldInv, checking
<1>2. CASE AnalyzeQueryDegraded
  <2>1. /\ at' = "branches" /\ plan' = Fallback
        /\ degraded' = TRUE /\ degraded_reason' = {"planner"} /\ UNCHANGED checking
    BY <1>2 DEF AnalyzeQueryDegraded, WritePlan, RouteAfterPlan, Fallback
  <2> QED
    BY <2>1 DEF ToldInv, checking
<1>3. CASE RespondDirectly
  <2>1. /\ at = "respond_directly" /\ at' = "END" /\ answer'.kind = "direct" /\ ~grounding_issues'
        /\ UNCHANGED <<deps, plan, degraded, degraded_reason>>
    BY <1>3 DEF RespondDirectly, planning, degradation
  <2> QED
    BY <2>1 DEF ToldInv
<1>4. ASSUME \/ \E p \in Positions : RetrieveDocuments(p) \/ SuperheroAgent(p) \/ Merge(p)
             \/ Collect \/ ResolveDependencies
      PROVE  ToldInv'
  <2>1. /\ at \in {"branches", "collect", "resolve_dependencies"}
        /\ at' \in {"branches", "collect", "resolve_dependencies", "synthesize"}
        /\ UNCHANGED <<deps, plan, checking, degradation>>
    BY <1>4 DEF RetrieveDocuments, SuperheroAgent, FinishBranch, Merge, Collect, RouteAfterCollect,
                ResolveDependencies, planning
  <2> QED
    BY <2>1 DEF ToldInv, checking, degradation
<1>5. CASE Synthesize
  <2>1. /\ at = "synthesize" /\ at' = "check_grounding" /\ caveats' = caveats
        /\ UNCHANGED <<deps, plan, grounding_issues, regenerations>>
        /\ "synthesis" \notin degraded_reason
    BY <1>5 DEF Synthesize, planning, gathered, checking, ToldInv
  <2>2. CASE SynthesizeNothing
    <3>1. answer'.kind = "no_evidence" /\ answer'.caveats = caveats /\ UNCHANGED <<degraded, degraded_reason>>
      BY <2>2 DEF SynthesizeNothing, WriteAnswer, degradation
    <3> QED
      BY <2>1, <3>1 DEF ToldInv
  <2>3. CASE SynthesizeDegraded
    <3>1. answer'.kind = "none" /\ degraded' = TRUE /\ degraded_reason' = degraded_reason \cup {"synthesis"}
      BY <2>3 DEF SynthesizeDegraded, WriteAnswer
    <3> QED
      BY <2>1, <3>1 DEF ToldInv
  <2>4. CASE SynthesizeText
    <3>1. /\ answer'.kind \in {"blank", "written"} /\ answer'.caveats = ShownCaveats /\ deps.models
          /\ UNCHANGED <<degraded, degraded_reason>>
      BY <2>4 DEF SynthesizeText, WriteAnswer, degradation
    <3>2. regenerations = 0 => ShownCaveats = caveats
      BY DEF ToldInv, ShownCaveats
    <3> QED
      BY <2>1, <3>1, <3>2 DEF ToldInv
  <2> QED
    BY <1>5, <2>2, <2>3, <2>4 DEF Synthesize
<1>6. CASE CheckGrounding
  <2>1. /\ at = "check_grounding" /\ at' \in {"synthesize", "END"}
        /\ UNCHANGED <<deps, plan, caveats, answer, degraded, degraded_reason>>
    BY <1>6 DEF CheckGrounding, RouteAfterGrounding, planning, gathered, answering, degradation
  <2>2. at' = "synthesize" => answer.kind # "none"
    BY <1>6 DEF CheckGrounding, RouteAfterGrounding, NotChecked, NoVerdict, Supported, Unsupported, Checkable
  <2>3. regenerations \in Nat /\ (regenerations' = regenerations \/ regenerations' = regenerations + 1)
    BY <1>6 DEF CheckGrounding, NotChecked, Supported, Unsupported, TypeOK
  <2>4. regenerations' = 0 => regenerations = 0 /\ ~grounding_issues'
    BY <1>6, <2>3 DEF CheckGrounding, NotChecked, Supported, Unsupported
  <2> QED
    BY <2>1, <2>2, <2>4 DEF ToldInv
<1>7. CASE UNCHANGED vars
  BY <1>7 DEF vars, ToldInv, planning, gathered, answering, checking, degradation
<1> QED
  BY <1>1, <1>2, <1>3, <1>4, <1>5, <1>6, <1>7 DEF Next

\* For every plan, every bound and whatever is unavailable when, a finished run says
\* so: degraded, its reasons, a missing answer and the caveats of an answer that was
\* not rewritten agree with what happened (analyze_query.py:76-86,
\* synthesize.py:44-48, 70-71, 99-109).
THEOREM NothingIsHidden == Spec => []ReaderIsTold
<1>1. Init => ToldInv
  BY DEF Init, ToldInv
<1>2. ToldInv => ReaderIsTold
  BY DEF ToldInv, ReaderIsTold, Done
<1> QED
  BY BaseInvariant, StepInvariant, <1>1, <1>2, ToldStep, PTL DEF Spec

-----------------------------------------------------------------------------
(***************************************************************************)
(* The evidence is what the merged branches returned.                      *)
(***************************************************************************)

\* An item is one of a merged branch, under its sub-query's name; the items of a
\* branch stand in the order of their ranks, none twice, none missing.
EvidenceInv ==
  /\ \A k \in DOMAIN evidence :
       /\ branch[evidence[k].position].is = "merged"
       /\ evidence[k].rank <= branch[evidence[k].position].items
       /\ evidence[k].sub = plan.subs[evidence[k].position].id
  /\ \A k, m \in DOMAIN evidence :
       evidence[k].position = evidence[m].position /\ k < m => evidence[k].rank < evidence[m].rank
  /\ \A p \in Positions : branch[p].is = "merged" =>
       \A r \in 1..branch[p].items : \E k \in DOMAIN evidence : evidence[k].position = p /\ evidence[k].rank = r
  /\ caveats = {p \in Positions : branch[p].is = "merged" /\ branch[p].gap}

LEMMA ItemTyped ==
  ASSUME TypeOK, NEW k \in DOMAIN evidence
  PROVE  evidence[k].sub \in Names /\ evidence[k].position \in Positions /\ evidence[k].rank \in Nat
         /\ evidence[k].rank >= 1
<1>1. evidence[k] \in Items
  BY DEF TypeOK
<1> QED
  BY <1>1, MaxItemsAssumption DEF Items

\* What the invariant speaks of stays as it is when no branch is merged.
LEMMA EvidenceKept ==
  ASSUME TypeOK, EvidenceInv, UNCHANGED <<evidence, caveats>>,
         \A p \in Positions : branch[p].is = "merged" => plan'.subs[p] = plan.subs[p],
         \A p \in Positions : (branch[p].is = "merged" /\ branch'[p] = branch[p])
                              \/ (branch[p].is # "merged" /\ branch'[p].is # "merged")
  PROVE  EvidenceInv'
<1>1. \A k \in DOMAIN evidence : evidence[k].position \in Positions
  BY ItemTyped
<1> QED
  BY <1>1 DEF EvidenceInv

LEMMA MergeKeepsEvidence ==
  ASSUME TypeOK, WaveInv, EvidenceInv, NEW p \in Positions, Merge(p)
  PROVE  EvidenceInv'
<1> DEFINE n == Len(evidence)
           items == branch[p].items
           name == plan.subs[p].id
<1>1. /\ branch' = [branch EXCEPT ![p].is = "merged"] /\ branch[p].is = "finished"
      /\ evidence' = evidence \o ItemsOf(p) /\ plan' = plan
      /\ caveats' = caveats \cup (IF branch[p].gap THEN {p} ELSE {})
  BY DEF Merge, Finished, WithItemsOf, planning
<1>2. branch[p] \in Branches /\ items \in 0..MaxItems /\ n \in Nat /\ items \in Nat /\ evidence \in Seq(Items)
  BY MaxItemsAssumption DEF TypeOK, Branches
<1>3. /\ branch'[p].is = "merged" /\ branch'[p].items = items /\ branch'[p].gap = branch[p].gap
      /\ \A q \in Positions \ {p} : branch'[q] = branch[q]
  BY <1>1, <1>2 DEF TypeOK, Branches
<1>4. p \in InPlan /\ name \in Names
  BY <1>1 DEF WaveInv, TypeOK, SubQueries
<1>5. /\ ItemsOf(p) \in Seq(Items) /\ Len(ItemsOf(p)) = items
      /\ \A r \in 1..items : ItemsOf(p)[r].sub = name /\ ItemsOf(p)[r].position = p /\ ItemsOf(p)[r].rank = r
  <2>1. ItemsOf(p) = [r \in 1..items |-> [sub |-> name, position |-> p, rank |-> r]]
    BY DEF ItemsOf
  <2>2. \A r \in 1..items : [sub |-> name, position |-> p, rank |-> r] \in Items
    BY <1>2, <1>4, MaxItemsAssumption DEF Items
  <2> HIDE DEF items, name
  <2>3. ItemsOf(p) \in [1..items -> Items]
    BY <2>1, <2>2
  <2>4. \A r \in 1..items : ItemsOf(p)[r].sub = name /\ ItemsOf(p)[r].position = p /\ ItemsOf(p)[r].rank = r
    BY <2>1
  <2> QED
    BY <1>2, <2>3, <2>4
<1> HIDE DEF items, name
<1>6. /\ DOMAIN evidence = 1..n /\ DOMAIN evidence' = 1..(n + items)
      /\ \A k \in 1..n : evidence'[k] = evidence[k]
      /\ \A r \in 1..items : evidence'[n + r] = ItemsOf(p)[r]
  BY <1>1, <1>2, <1>5
<1> HIDE DEF n
<1>7. \A k \in 1..(n + items) : k \in 1..n \/ \E r \in 1..items : k = n + r
  <2> SUFFICES ASSUME NEW k \in 1..(n + items), k \notin 1..n PROVE \E r \in 1..items : k = n + r
    OBVIOUS
  <2>1. k - n \in 1..items /\ k = n + (k - n)
    BY <1>2
  <2> QED
    BY <2>1
<1>8. \A k \in 1..n : evidence[k].position \in Positions \ {p}
  BY <1>1, <1>6, ItemTyped DEF EvidenceInv
<1>9. \A k \in DOMAIN evidence' :
        /\ branch'[evidence'[k].position].is = "merged"
        /\ evidence'[k].rank <= branch'[evidence'[k].position].items
        /\ evidence'[k].sub = plan'.subs[evidence'[k].position].id
  <2>1. ASSUME NEW k \in 1..n
        PROVE  /\ branch'[evidence'[k].position].is = "merged"
               /\ evidence'[k].rank <= branch'[evidence'[k].position].items
               /\ evidence'[k].sub = plan'.subs[evidence'[k].position].id
    <3>1. evidence'[k] = evidence[k] /\ branch'[evidence[k].position] = branch[evidence[k].position]
      BY <1>3, <1>6, <1>8
    <3> QED
      BY <1>1, <1>6, <3>1 DEF EvidenceInv
  <2>2. ASSUME NEW r \in 1..items
        PROVE  /\ branch'[evidence'[n + r].position].is = "merged"
               /\ evidence'[n + r].rank <= branch'[evidence'[n + r].position].items
               /\ evidence'[n + r].sub = plan'.subs[evidence'[n + r].position].id
    <3>1. evidence'[n + r].sub = name /\ evidence'[n + r].position = p /\ evidence'[n + r].rank = r
      BY <1>5, <1>6
    <3> QED
      BY <1>1, <1>2, <1>3, <3>1 DEF name
  <2> QED
    BY <1>6, <1>7, <2>1, <2>2
<1>10. ASSUME NEW k \in DOMAIN evidence', NEW m \in DOMAIN evidence',
              evidence'[k].position = evidence'[m].position, k < m
       PROVE  evidence'[k].rank < evidence'[m].rank
  <2>1. CASE k \in 1..n /\ m \in 1..n
    BY <1>6, <1>10, <2>1 DEF EvidenceInv
  <2>2. CASE k \notin 1..n
    <3>1. PICK r \in 1..items : k = n + r
      BY <1>6, <1>7, <2>2
    <3>2. m \notin 1..n
      BY <1>2, <1>10, <3>1
    <3>3. PICK t \in 1..items : m = n + t
      BY <1>6, <1>7, <3>2
    <3>4. r < t
      BY <1>2, <1>10, <3>1, <3>3
    <3> QED
      BY <1>5, <1>6, <3>1, <3>3, <3>4
  <2>3. CASE k \in 1..n /\ m \notin 1..n
    <3>1. PICK t \in 1..items : m = n + t
      BY <1>6, <1>7, <2>3
    <3> QED
      BY <1>5, <1>6, <1>8, <1>10, <2>3, <3>1
  <2> QED
    BY <2>1, <2>2, <2>3
<1>11. ASSUME NEW q \in Positions, branch'[q].is = "merged", NEW r \in 1..branch'[q].items
       PROVE  \E k \in DOMAIN evidence' : evidence'[k].position = q /\ evidence'[k].rank = r
  <2>1. CASE q = p
    <3>1. r \in 1..items /\ n + r \in 1..(n + items)
      BY <1>2, <1>3, <1>11, <2>1
    <3> QED
      BY <1>5, <1>6, <2>1, <3>1
  <2>2. CASE q # p
    <3>1. PICK k \in DOMAIN evidence : evidence[k].position = q /\ evidence[k].rank = r
      BY <1>3, <1>11, <2>2 DEF EvidenceInv
    <3>2. k \in 1..(n + items)
      BY <1>2, <1>6
    <3> QED
      BY <1>6, <3>1, <3>2
  <2> QED
    BY <2>1, <2>2
<1>12. caveats' = {q \in Positions : branch'[q].is = "merged" /\ branch'[q].gap}
  BY <1>1, <1>3 DEF EvidenceInv
<1> QED
  BY <1>9, <1>10, <1>11, <1>12 DEF EvidenceInv

LEMMA EvidenceStep == TypeOK /\ WaveInv /\ EvidenceInv /\ [Next]_vars => EvidenceInv'
<1> SUFFICES ASSUME TypeOK, WaveInv, EvidenceInv, [Next]_vars PROVE EvidenceInv'
  OBVIOUS
<1>1. CASE AnalyzeQuery \/ AnalyzeQueryDegraded
  <2>1. PICK newPlan : at = "analyze_query" /\ WritePlan(newPlan, CanStart(newPlan.subs))
                       /\ DOMAIN newPlan.subs \subseteq Positions
    BY <1>1, PlanWritten
  <2>2. CanStart(newPlan.subs) \subseteq Positions
    BY <2>1 DEF CanStart
  <2>3. Gathered = {} /\ Gathered' = {} /\ UNCHANGED <<evidence, caveats>>
    BY <2>1, <2>2, WritePlanBranches DEF WritePlan
  <2> QED
    BY <2>3, EvidenceKept DEF Gathered
<1>2. ASSUME NEW p \in Positions, RetrieveDocuments(p) \/ SuperheroAgent(p)
      PROVE  EvidenceInv'
  <2>1. PICK outcome \in DatasetOutcomes \cup HeroOutcomes :
          branch' = [branch EXCEPT ![p] = outcome]
    BY <1>2 DEF RetrieveDocuments, SuperheroAgent, FinishBranch
  <2>2. outcome.is = "finished" /\ branch[p].is = "running" /\ UNCHANGED <<plan, evidence, caveats>>
    BY <1>2 DEF RetrieveDocuments, SuperheroAgent, FinishBranch, DatasetOutcomes, HeroOutcomes,
                Outcomes, Outcome, planning
  <2>3. \A q \in Positions : branch'[q] = IF q = p THEN outcome ELSE branch[q]
    BY <2>1 DEF TypeOK
  <2> QED
    BY <2>2, <2>3, EvidenceKept
<1>3. ASSUME NEW p \in Positions, Merge(p) PROVE EvidenceInv'
  BY <1>3, MergeKeepsEvidence
<1>4. CASE ResolveDependencies
  <2>1. /\ \A p \in Positions : branch'[p] = IF p \in pending THEN Running ELSE branch[p]
        /\ UNCHANGED <<plan, evidence, caveats>>
    BY <1>4 DEF ResolveDependencies, Send
  <2>2. \A p \in Positions : p \in pending => branch[p].is = "idle"
    BY DEF WaveInv
  <2> QED
    BY <2>1, <2>2, EvidenceKept DEF Running
<1>5. CASE RespondDirectly \/ Collect \/ Synthesize \/ CheckGrounding \/ UNCHANGED vars
  <2>1. UNCHANGED <<plan, branch, evidence, caveats>>
    BY <1>5 DEF RespondDirectly, Collect, Synthesize, CheckGrounding, vars, planning, gathered
  <2> QED
    BY <2>1, EvidenceKept
<1> QED
  BY <1>1, <1>2, <1>3, <1>4, <1>5 DEF Next

LEMMA EvidenceInvariant == Spec => []EvidenceInv
<1>1. Init => EvidenceInv
  BY DEF Init, EvidenceInv, Idle
<1> QED
  BY BaseInvariant, <1>1, EvidenceStep, PTL DEF Spec

\* For plans of any size and branches that return any number of items: the answer is
\* written from everything the branches returned, each item once, whichever wave it
\* came from, and the gaps are those of the branches that had one
\* (state.py:29-36).
THEOREM NothingIsLost == Spec => []EvidenceComplete
<1>1. ASSUME TypeOK, WaveInv, EvidenceInv, Answering PROVE EvidenceComplete
  <2>1. \A p \in Positions : p \in InPlan <=> branch[p].is = "merged"
    BY <1>1 DEF TypeOK, WaveInv, Answering, Branches, InPlan
  <2>2. InPlan \subseteq Positions /\ evidence \in Seq(Items)
    BY <1>1 DEF TypeOK
  <2>3. caveats = {p \in InPlan : branch[p].gap}
    BY <1>1, <2>1, <2>2 DEF EvidenceInv
  <2>4. ASSUME NEW p \in InPlan, NEW r \in 1..MaxItems
        PROVE  Cardinality({k \in DOMAIN evidence : evidence[k].position = p /\ evidence[k].rank = r})
                 = (IF r <= branch[p].items THEN 1 ELSE 0)
    <3> DEFINE those == {k \in DOMAIN evidence : evidence[k].position = p /\ evidence[k].rank = r}
    <3>1. branch[p].items \in Nat /\ p \in Positions /\ branch[p].is = "merged" /\ r \in Nat /\ r >= 1
      BY <1>1, <2>1, <2>2, MaxItemsAssumption DEF TypeOK, Branches
    <3>2. CASE r <= branch[p].items
      <4>1. PICK k \in DOMAIN evidence : evidence[k].position = p /\ evidence[k].rank = r
        BY <1>1, <3>1, <3>2 DEF EvidenceInv
      <4>2. \A m \in those : m = k
        <5> SUFFICES ASSUME NEW m \in those, m # k PROVE FALSE
          OBVIOUS
        <5>1. m \in Nat /\ k \in Nat
          BY <2>2
        <5>2. m < k \/ k < m
          BY <5>1
        <5>3. evidence[m].rank < evidence[k].rank \/ evidence[k].rank < evidence[m].rank
          BY <1>1, <4>1, <5>2 DEF EvidenceInv
        <5> QED
          BY <3>1, <4>1, <5>3
      <4>3. those = {k}
        BY <4>1, <4>2
      <4> QED
        BY <3>2, <4>3, FS_Singleton
    <3>3. CASE ~(r <= branch[p].items)
      <4>1. those = {}
        BY <1>1, <3>1, <3>3 DEF EvidenceInv
      <4> QED
        BY <3>3, <4>1, FS_EmptySet
    <3> QED
      BY <3>2, <3>3
  <2> QED
    BY <1>1, <2>3, <2>4 DEF EvidenceComplete
<1>2. TypeOK /\ WaveInv /\ EvidenceInv => EvidenceComplete
  BY <1>1 DEF EvidenceComplete
<1> QED
  BY BaseInvariant, EvidenceInvariant, <1>2, PTL

-----------------------------------------------------------------------------
(***************************************************************************)
(* The labels of the answer.                                               *)
(***************************************************************************)
Less == {pair \in Nat \X Nat : pair[1] < pair[2]}

LEMMA LessIsWellFounded == IsWellFoundedOn(Less, Nat)
<1>1. OpToRel(<, Nat) = Less
  BY DEF OpToRel, Less
<1> QED
  BY <1>1, NatLessThanWellFounded

LEMMA GreatestExists ==
  ASSUME NEW n \in Nat, NEW S \in SUBSET (1..n), S # {}
  PROVE  \E g \in S : \A i \in S : i <= g
<1> DEFINE T == {n - i : i \in S}
<1>1. T \subseteq Nat /\ T # {}
  <2>1. \A i \in S : n - i \in Nat
    OBVIOUS
  <2> QED
    BY <2>1, Zenon
<1>2. PICK t \in T : \A u \in T : <<u, t>> \notin Less
  BY <1>1, LessIsWellFounded, WFMin
<1>3. PICK g \in S : t = n - g
  OBVIOUS
<1>4. ASSUME NEW i \in S PROVE i <= g
  <2>1. n - i \in T /\ n - i \in Nat /\ n - g \in Nat
    BY <1>1
  <2>2. ~(n - i < n - g)
    BY <1>2, <1>3, <2>1 DEF Less
  <2> QED
    BY <2>2
<1> QED
  BY <1>4

\* The place in the plan of an item's sub-query.
Place(k) == LastNamed(plan.subs, evidence[k].sub)

LEMMA PlaceTyped ==
  ASSUME TypeOK, WaveInv, EvidenceInv, NEW k \in DOMAIN evidence
  PROVE  /\ Place(k) \in Nat
         /\ Place(k) = LastNamed(plan.subs, plan.subs[evidence[k].position].id)
<1> DEFINE name == evidence[k].sub
           named == {i \in InPlan : plan.subs[i].id = name}
<1>1. evidence[k].position \in Positions /\ name = plan.subs[evidence[k].position].id
  BY ItemTyped DEF EvidenceInv
<1>2. evidence[k].position \in InPlan
  BY <1>1 DEF EvidenceInv, WaveInv
<1>3. named # {} /\ named \subseteq 1..MaxSubQueries
  BY <1>1, <1>2 DEF TypeOK, Positions
<1>4. PICK g \in named : \A i \in named : i <= g
  BY <1>3, MaxSubQueriesAssumption, GreatestExists
<1> HIDE DEF name
<1>5. /\ LastNamed(plan.subs, name) \in DOMAIN plan.subs
  BY <1>4 DEF LastNamed, InPlan
<1> QED
  BY <1>1, <1>3, <1>5, MaxSubQueriesAssumption DEF Place, name, TypeOK, Positions, InPlan

LEMMA PrecedesIsOrder ==
  ASSUME TypeOK, WaveInv, EvidenceInv
  PROVE  /\ \A i \in DOMAIN evidence : ~Precedes(i, i)
         /\ \A i, j, k \in DOMAIN evidence : Precedes(i, j) /\ Precedes(j, k) => Precedes(i, k)
         /\ \A i, j \in DOMAIN evidence : i = j \/ Precedes(i, j) \/ Precedes(j, i)
<1>1. \A i \in DOMAIN evidence : Place(i) \in Nat /\ i \in Nat
  BY PlaceTyped DEF TypeOK
<1>2. \A i, j : Precedes(i, j) <=> Place(i) < Place(j) \/ (Place(i) = Place(j) /\ i < j)
  BY DEF Precedes, Place
<1> QED
  BY <1>1, <1>2

\* The items before an item.
BeforeItem(i) == {j \in DOMAIN evidence : Precedes(j, i)}

LEMMA LabelsAreOneToOne ==
  ASSUME TypeOK, WaveInv, EvidenceInv
  PROVE  /\ \A i \in DOMAIN evidence : LabelOf(i) \in 1..Len(evidence)
         /\ \A i, j \in DOMAIN evidence : Precedes(i, j) => LabelOf(i) < LabelOf(j)
         /\ \A l \in 1..Len(evidence) : \E i \in DOMAIN evidence : LabelOf(i) = l
<1> DEFINE n == Len(evidence)
<1>1. n \in Nat /\ DOMAIN evidence = 1..n
  BY DEF TypeOK
<1>2. IsFiniteSet(1..n) /\ Cardinality(1..n) = n
  <2>1. 1 \in Int /\ n \in Int /\ (1 > n => n = 0)
    BY <1>1
  <2> HIDE DEF n
  <2> QED
    BY <1>1, <2>1, FS_Interval
<1>3. \A i \in 1..n : IsFiniteSet(BeforeItem(i)) /\ Cardinality(BeforeItem(i)) \in Nat
  <2> SUFFICES ASSUME NEW i \in 1..n PROVE IsFiniteSet(BeforeItem(i)) /\ Cardinality(BeforeItem(i)) \in Nat
    OBVIOUS
  <2>1. BeforeItem(i) \in SUBSET (1..n)
    BY <1>1 DEF BeforeItem
  <2> QED
    BY <1>2, <2>1, FS_Subset, FS_CardinalityType
<1>4. \A i \in 1..n : LabelOf(i) = Cardinality(BeforeItem(i)) + 1
  BY DEF LabelOf, BeforeItem
<1>5. ASSUME NEW i \in 1..n PROVE LabelOf(i) \in 1..n
  <2>1. BeforeItem(i) \in SUBSET ((1..n) \ {i})
    BY <1>1, PrecedesIsOrder DEF BeforeItem
  <2>2. IsFiniteSet((1..n) \ {i}) /\ Cardinality((1..n) \ {i}) = n - 1
    BY <1>2, FS_RemoveElement
  <2>3. Cardinality(BeforeItem(i)) <= n - 1
    BY <2>1, <2>2, FS_Subset
  <2> QED
    BY <1>1, <1>3, <1>4, <2>3
<1>6. ASSUME NEW i \in 1..n, NEW j \in 1..n, Precedes(i, j) PROVE LabelOf(i) < LabelOf(j)
  <2>1. BeforeItem(i) \cup {i} \in SUBSET BeforeItem(j) /\ i \notin BeforeItem(i)
    BY <1>1, <1>6, PrecedesIsOrder DEF BeforeItem
  <2>2. Cardinality(BeforeItem(i) \cup {i}) = Cardinality(BeforeItem(i)) + 1
    BY <1>3, <2>1, FS_AddElement
  <2>3. Cardinality(BeforeItem(i)) + 1 <= Cardinality(BeforeItem(j))
    BY <1>3, <2>1, <2>2, FS_Subset
  <2> QED
    BY <1>3, <1>4, <2>3
<1> DEFINE label == [i \in 1..n |-> LabelOf(i)]
<1>7. label \in [1..n -> 1..n]
  BY <1>5
<1>8. \A i, j \in 1..n : label[i] = label[j] => i = j
  <2> SUFFICES ASSUME NEW i \in 1..n, NEW j \in 1..n, i # j PROVE LabelOf(i) # LabelOf(j)
    OBVIOUS
  <2>1. LabelOf(i) < LabelOf(j) \/ LabelOf(j) < LabelOf(i)
    BY <1>1, <1>6, PrecedesIsOrder
  <2>2. LabelOf(i) \in Nat /\ LabelOf(j) \in Nat
    BY <1>1, <1>5
  <2> QED
    BY <2>1, <2>2
<1>9. label \in Injection(1..n, 1..n)
  BY <1>7, <1>8, Fun_IsInj
<1>10. label \in Surjection(1..n, 1..n)
  BY <1>2, <1>9, FS_Injection
<1>11. \A l \in 1..n : \E i \in 1..n : label[i] = l
  BY <1>10, Zenon DEF Surjection
<1> QED
  BY <1>1, <1>5, <1>6, <1>11

\* The item a label stands for.
LEMMA LabelStandsFor ==
  ASSUME TypeOK, WaveInv, EvidenceInv, NEW l \in 1..Len(evidence)
  PROVE  \E i \in DOMAIN evidence : LabelOf(i) = l /\ OrderedEvidence[l] = evidence[i]
BY LabelsAreOneToOne DEF OrderedEvidence

\* What is cited is all the evidence, in order.
CitedInv ==
  /\ at \in {"analyze_query", "branches", "collect", "resolve_dependencies"} =>
       cited_evidence = <<>> /\ citations = {}
  /\ citations \subseteq DOMAIN cited_evidence
  /\ cited_evidence # <<>> => cited_evidence = OrderedEvidence

LEMMA CitedStep == TypeOK /\ CitedInv /\ [Next]_vars => CitedInv'
<1> SUFFICES ASSUME TypeOK, CitedInv, [Next]_vars PROVE CitedInv'
  OBVIOUS
<1>1. UNCHANGED <<plan, evidence>> => UNCHANGED OrderedEvidence
  BY DEF OrderedEvidence, LabelOf, Precedes
<1>2. CASE AnalyzeQuery \/ AnalyzeQueryDegraded
  <2>1. at = "analyze_query" /\ UNCHANGED <<citations, cited_evidence>>
    BY <1>2 DEF AnalyzeQuery, AnalyzeQueryDegraded, WritePlan, answering
  <2> QED
    BY <2>1 DEF CitedInv
<1>3. CASE RespondDirectly
  BY <1>3 DEF RespondDirectly, CitedInv
<1>4. ASSUME \/ \E p \in Positions : RetrieveDocuments(p) \/ SuperheroAgent(p) \/ Merge(p)
             \/ Collect \/ ResolveDependencies
      PROVE  CitedInv'
  <2>1. at \in {"branches", "collect", "resolve_dependencies"} /\ UNCHANGED <<citations, cited_evidence>>
    BY <1>4 DEF RetrieveDocuments, SuperheroAgent, FinishBranch, Merge, Collect, ResolveDependencies, answering
  <2> QED
    BY <2>1 DEF CitedInv
<1>5. CASE Synthesize
  <2>1. at' = "check_grounding" /\ UNCHANGED <<plan, evidence>>
    BY <1>5 DEF Synthesize, planning, gathered
  <2>2. \/ citations' = {} /\ cited_evidence' = <<>>
        \/ citations' \subseteq 1..Len(evidence) /\ cited_evidence' = OrderedEvidence
    BY <1>5 DEF Synthesize, SynthesizeNothing, SynthesizeDegraded, SynthesizeText, WriteAnswer, CleanCitations
  <2> QED
    BY <1>1, <2>1, <2>2, OrderedDomain DEF CitedInv, TypeOK
<1>6. CASE CheckGrounding \/ UNCHANGED vars
  <2>1. /\ UNCHANGED <<plan, evidence, citations, cited_evidence>>
        /\ at' = at \/ at' \in {"synthesize", "END"}
    BY <1>6 DEF CheckGrounding, RouteAfterGrounding, vars, planning, gathered, answering
  <2> QED
    BY <1>1, <2>1 DEF CitedInv
<1> QED
  BY <1>2, <1>3, <1>4, <1>5, <1>6 DEF Next

\* For plans of any size and any evidence: the labels are the numbers of all the
\* items, one each, in the order of the plan and then of retrieval, and an answer
\* cites no other label (synthesize.py:3-9, 82-96).
THEOREM LabelsResolve == Spec => []CitationsResolve
<1>1. Init => CitedInv
  BY DEF Init, CitedInv
<1>2. ASSUME TypeOK, WaveInv, EvidenceInv, CitedInv PROVE CitationsResolve
  <2> SUFFICES ASSUME cited_evidence # <<>>
               PROVE  /\ DOMAIN cited_evidence = DOMAIN evidence
                      /\ \A k \in DOMAIN evidence : \E l \in DOMAIN cited_evidence : cited_evidence[l] = evidence[k]
                      /\ \A l, m \in DOMAIN cited_evidence :
                           LET x == cited_evidence[l] y == cited_evidence[m]
                           IN  Before(x.position, y.position) \/ (x.position = y.position /\ x.rank < y.rank)
                                 => l < m
    BY <1>2 DEF CitationsResolve, CitedInv
  <2>1. /\ cited_evidence = OrderedEvidence /\ DOMAIN cited_evidence = 1..Len(evidence)
        /\ DOMAIN evidence = 1..Len(evidence)
    BY <1>2, OrderedDomain DEF CitedInv, TypeOK
  <2>2. ASSUME NEW k \in DOMAIN evidence PROVE \E l \in DOMAIN cited_evidence : cited_evidence[l] = evidence[k]
    <3>1. LabelOf(k) \in 1..Len(evidence)
      BY <1>2, LabelsAreOneToOne
    <3>2. PICK i \in DOMAIN evidence : LabelOf(i) = LabelOf(k) /\ OrderedEvidence[LabelOf(k)] = evidence[i]
      BY <1>2, <3>1, LabelStandsFor
    <3>3. i = k
      <4>1. LabelOf(i) \in Nat /\ LabelOf(k) \in Nat
        BY <1>2, <2>1, LabelsAreOneToOne
      <4> QED
        BY <1>2, <3>2, <4>1, LabelsAreOneToOne, PrecedesIsOrder
    <3> QED
      BY <2>1, <3>1, <3>2, <3>3
  <2>3. ASSUME NEW l \in DOMAIN cited_evidence, NEW m \in DOMAIN cited_evidence,
               \/ Before(cited_evidence[l].position, cited_evidence[m].position)
               \/ /\ cited_evidence[l].position = cited_evidence[m].position
                  /\ cited_evidence[l].rank < cited_evidence[m].rank
        PROVE  l < m
    <3>1. PICK i \in DOMAIN evidence : LabelOf(i) = l /\ cited_evidence[l] = evidence[i]
      BY <1>2, <2>1, LabelStandsFor
    <3>2. PICK j \in DOMAIN evidence : LabelOf(j) = m /\ cited_evidence[m] = evidence[j]
      BY <1>2, <2>1, LabelStandsFor
    <3>3. /\ Place(i) = LastNamed(plan.subs, plan.subs[evidence[i].position].id) /\ Place(i) \in Nat
          /\ Place(j) = LastNamed(plan.subs, plan.subs[evidence[j].position].id) /\ Place(j) \in Nat
      BY <1>2, PlaceTyped
    <3>4. CASE Before(evidence[i].position, evidence[j].position)
      <4>1. Place(i) < Place(j)
        BY <3>3, <3>4 DEF Before
      <4> QED
        BY <1>2, <3>1, <3>2, <4>1, LabelsAreOneToOne DEF Precedes, Place
    <3>5. CASE evidence[i].position = evidence[j].position /\ evidence[i].rank < evidence[j].rank
      <4>1. Place(i) = Place(j) /\ i \in Nat /\ j \in Nat /\ evidence[i].rank \in Nat /\ evidence[j].rank \in Nat
        BY <1>2, <2>1, <3>3, <3>5, ItemTyped
      <4>2. ~(j < i) /\ i # j
        BY <1>2, <3>5, <4>1 DEF EvidenceInv
      <4>3. i < j
        BY <4>1, <4>2
      <4> QED
        BY <1>2, <3>1, <3>2, <4>1, <4>3, LabelsAreOneToOne DEF Precedes, Place
    <3> QED
      BY <2>3, <3>1, <3>2, <3>4, <3>5
  <2> QED
    BY <2>1, <2>2, <2>3
<1>3. TypeOK /\ WaveInv /\ EvidenceInv /\ CitedInv => CitationsResolve
  BY <1>2
<1> QED
  BY BaseInvariant, EvidenceInvariant, <1>1, <1>3, CitedStep, PTL DEF Spec

-----------------------------------------------------------------------------
(***************************************************************************)
(* What sanitize_plan makes of a plan, for every list of sub-queries and   *)
(* every cap.  _has_cycle's rounds and the loop over the ids are recursive *)
(* functions: what they compute is proved by induction on the round and on *)
(* the position.                                                           *)
(***************************************************************************)
\* Induction as a fact about sets of numbers: the set has 0 and every successor.
LEMMA Induction ==
  ASSUME NEW S \in SUBSET Nat, 0 \in S, \A n \in S : n + 1 \in S
  PROVE  S = Nat
<1> DEFINE R == OpToRel(<, Nat)
           Left == Nat \ S
<1>1. IsWellFoundedOn(R, Nat)
  BY NatLessThanWellFounded
<1> HIDE DEF R
<1>2. ASSUME Left # {} PROVE FALSE
  <2>1. PICK x \in Left : \A y \in Left : ~(<<y, x>> \in R)
    BY <1>1, <1>2, WFMin
  <2>2. x \in Nat /\ x # 0
    OBVIOUS
  <2>3. x - 1 \in Nat /\ x - 1 < x
    BY <2>2
  <2>4. <<x - 1, x>> \in R
    BY <2>2, <2>3 DEF R, OpToRel
  <2>5. x - 1 \in S
    BY <2>1, <2>3, <2>4
  <2>6. (x - 1) + 1 \in S
    BY <2>5
  <2> QED
    BY <2>2, <2>6
<1> QED
  BY <1>2

\* _has_cycle's rounds over finitely many sub-queries: nothing is resolved at first,
\* each round adds what the one before it freed.
LEMMA RoundsAre ==
  ASSUME NEW subs, IsFiniteSet(DOMAIN subs)
  PROVE  /\ Cardinality(Ids(subs)) \in Nat /\ IsFiniteSet(Ids(subs))
         /\ Rounds(subs)[0] = {}
         /\ \A k \in 1..Cardinality(Ids(subs)) :
              Rounds(subs)[k] = Rounds(subs)[k - 1] \cup
                Freed(subs, Rounds(subs)[k - 1])
<1> DEFINE N == Cardinality(Ids(subs))
           At(f, k) == IF k = 0 THEN {} ELSE f[k - 1] \cup Freed(subs, f[k - 1])
           Solves(f, m) == f = [k \in 0..m |-> At(f, k)]
           Solvable == {m \in Nat : \E f : Solves(f, m)}
           rounds == CHOOSE f : Solves(f, N)
<1>1. IsFiniteSet(Ids(subs)) /\ N \in Nat
  <2> DEFINE idOf == [i \in DOMAIN subs |-> subs[i].id]
  <2>1. idOf \in Surjection(DOMAIN subs, Ids(subs))
    BY DEF Surjection, Ids
  <2> HIDE DEF idOf
  <2> QED
    BY <2>1, FS_Surjection, FS_CardinalityType
<1>2. 0 \in Solvable
  <2>1. Solves([k \in 0..0 |-> {}], 0)
    OBVIOUS
  <2> HIDE DEF Solves
  <2> QED
    BY <2>1
<1>3. ASSUME NEW m \in Solvable PROVE m + 1 \in Solvable
  <2>1. PICK f : Solves(f, m)
    OBVIOUS
  <2> DEFINE g == [k \in 0..(m + 1) |-> IF k <= m THEN f[k] ELSE f[m] \cup Freed(subs, f[m])]
  <2> HIDE DEF At
  <2>2. m \in Nat /\ \A k \in 0..m : f[k] = At(f, k)
    BY <2>1
  <2>3. \A k \in 0..(m + 1) : g[k] = At(g, k)
    <3> SUFFICES ASSUME NEW k \in 0..(m + 1) PROVE g[k] = At(g, k)
      OBVIOUS
    <3>1. CASE k = 0
      <4>1. 0 \in 0..m /\ 0 <= m
        BY <2>2
      <4> QED
        BY <2>2, <3>1, <4>1 DEF At
    <3>2. CASE k \in 1..m
      <4>1. k \in 0..m /\ k - 1 \in 0..m /\ k # 0 /\ k <= m /\ k - 1 <= m
        BY <2>2, <3>2
      <4>2. g[k] = f[k] /\ g[k - 1] = f[k - 1]
        BY <2>2, <4>1
      <4> QED
        BY <2>2, <4>1, <4>2 DEF At
    <3>3. CASE k = m + 1
      <4>1. k # 0 /\ k - 1 = m /\ ~(k <= m) /\ m \in 0..(m + 1) /\ m <= m
        BY <2>2, <3>3
      <4>2. g[k] = f[m] \cup Freed(subs, f[m]) /\ g[m] = f[m]
        BY <4>1
      <4> QED
        BY <4>1, <4>2 DEF At
    <3> QED
      BY <2>2, <3>1, <3>2, <3>3
  <2>4. g = [k \in 0..(m + 1) |-> At(g, k)]
    BY <2>3
  <2> HIDE DEF g
  <2>5. Solves(g, m + 1)
    BY <2>4
  <2> HIDE DEF Solves
  <2> QED
    BY <2>2, <2>5
<1>4. Solvable = Nat
  <2>1. Solvable \in SUBSET Nat
    OBVIOUS
  <2> HIDE DEF Solvable
  <2> QED
    BY <2>1, <1>2, <1>3, Induction
<1>5. Solves(rounds, N)
  <2>1. \E f : Solves(f, N)
    BY <1>1, <1>4
  <2> HIDE DEF Solves
  <2> QED
    BY <2>1
<1>6. Rounds(subs) = rounds
  BY DEF Rounds
<1> HIDE DEF rounds, N, At
<1>7. \A k \in 0..N : rounds[k] = At(rounds, k)
  BY <1>5
<1>8. 0 \in 0..N /\ \A k \in 1..N : k \in 0..N /\ k # 0
  BY <1>1
<1>9. rounds[0] = {} /\ \A k \in 1..N : rounds[k] = rounds[k - 1] \cup Freed(subs, rounds[k - 1])
  BY <1>7, <1>8 DEF At
<1> QED
  BY <1>1, <1>6, <1>9 DEF N

\* With unique ids the dict {sq.id: deps} keeps every sub-query.
LEMMA LastNamedIsIt ==
  ASSUME NEW subs, IdsUnique(subs), NEW i \in DOMAIN subs, DOMAIN subs \subseteq Nat
  PROVE  LastNamed(subs, subs[i].id) = i
BY DEF LastNamed, IdsUnique

\* What is resolved in as many rounds as there are ids waits for no one in a circle.
LEMMA ResolvedIsAcyclic ==
  ASSUME NEW subs, IsFiniteSet(DOMAIN subs), DOMAIN subs \subseteq Nat, IdsUnique(subs), ~HasCycle(subs)
  PROVE  Acyclic(subs)
<1> SUFFICES ASSUME NEW S \in (SUBSET DOMAIN subs) \ {{}}
             PROVE  \E i \in S : \A j \in S : subs[j].id \notin subs[i].deps
  BY DEF Acyclic
<1> SUFFICES ASSUME \A i \in S : \E j \in S : subs[j].id \in subs[i].deps
             PROVE  FALSE
  OBVIOUS
<1> DEFINE N == Cardinality(Ids(subs))
           R == Rounds(subs)
           Held(k) == \A i \in S : subs[i].id \notin R[k]
           K == {k \in Nat : k <= N => Held(k)}
<1>1. /\ N \in Nat /\ R[0] = {}
      /\ \A k \in 1..N : R[k] = R[k - 1] \cup Freed(subs, R[k - 1])
  BY RoundsAre
<1>2. \A i \in S : LastNamed(subs, subs[i].id) = i
  BY LastNamedIsIt
<1> HIDE DEF R, N
<1>3. 0 \in K
  BY <1>1
<1>4. ASSUME NEW k \in K PROVE k + 1 \in K
  <2> SUFFICES ASSUME k + 1 <= N, NEW i \in S, subs[i].id \in R[k + 1] PROVE FALSE
    OBVIOUS
  <2>1. k + 1 \in 1..N /\ (k + 1) - 1 = k /\ Held(k)
    BY <1>1
  <2>2. R[k + 1] = R[k] \cup Freed(subs, R[k])
    BY <1>1, <2>1
  <2>3. subs[i].id \in Freed(subs, R[k])
    BY <2>1, <2>2
  <2>4. subs[i].deps \subseteq R[k]
    BY <1>2, <2>3 DEF Freed
  <2>5. PICK j \in S : subs[j].id \in subs[i].deps
    OBVIOUS
  <2> QED
    BY <2>1, <2>4, <2>5
<1>5. K = Nat
  <2>1. K \in SUBSET Nat
    OBVIOUS
  <2> HIDE DEF K
  <2> QED
    BY <2>1, <1>3, <1>4, Induction
<1>6. Held(N)
  BY <1>1, <1>5
<1>7. R[N] = Ids(subs)
  BY DEF HasCycle, R, N
<1> QED
  BY <1>6, <1>7 DEF Ids

\* After as many rounds as there are ids a further round would resolve nothing: this is
\* where the loop of _has_cycle, which goes on while it makes progress, has ended.
LEMMA RoundsSettle ==
  ASSUME NEW subs, IsFiniteSet(DOMAIN subs)
  PROVE  LET last == Rounds(subs)[Cardinality(Ids(subs))]
         IN  last \subseteq Ids(subs) /\ Freed(subs, last) \subseteq last
<1> DEFINE N == Cardinality(Ids(subs))
           R == Rounds(subs)
           Settled(k) == Freed(subs, R[k]) \subseteq R[k]
           Gained(k) == R[k] \subseteq Ids(subs) /\ (Settled(k) \/ Cardinality(R[k]) >= k)
           K == {k \in Nat : k <= N => Gained(k)}
<1>1. /\ N \in Nat /\ IsFiniteSet(Ids(subs)) /\ R[0] = {}
      /\ \A k \in 1..N : R[k] = R[k - 1] \cup Freed(subs, R[k - 1])
  BY RoundsAre
<1> HIDE DEF R, N
<1>2. 0 \in K
  <2>1. Cardinality(R[0]) = 0
    BY <1>1, FS_EmptySet
  <2> QED
    BY <1>1, <2>1
<1>3. ASSUME NEW k \in K PROVE k + 1 \in K
  <2> SUFFICES ASSUME k + 1 <= N PROVE Gained(k + 1)
    OBVIOUS
  <2>1. k + 1 \in 1..N /\ (k + 1) - 1 = k /\ Gained(k)
    BY <1>1
  <2>2. R[k + 1] = R[k] \cup Freed(subs, R[k])
    BY <1>1, <2>1
  <2>3. R[k + 1] \subseteq Ids(subs) /\ IsFiniteSet(R[k]) /\ IsFiniteSet(R[k + 1])
    BY <1>1, <2>1, <2>2, FS_Subset DEF Freed
  <2>4. CASE Settled(k)
    <3>1. R[k + 1] = R[k]
      BY <2>2, <2>4
    <3> QED
      BY <2>3, <2>4, <3>1
  <2>5. CASE ~Settled(k)
    <3>1. PICK n \in Freed(subs, R[k]) : n \notin R[k]
      BY <2>5
    <3>2. R[k] \cup {n} \subseteq R[k + 1]
      BY <2>2
    <3>3. Cardinality(R[k] \cup {n}) = Cardinality(R[k]) + 1
      BY <2>3, <3>1, FS_AddElement
    <3>4. Cardinality(R[k] \cup {n}) <= Cardinality(R[k + 1])
      BY <2>3, <3>2, FS_Subset
    <3>5. Cardinality(R[k]) \in Nat /\ Cardinality(R[k + 1]) \in Nat /\ k \in Nat
      BY <2>3, FS_CardinalityType
    <3>6. Cardinality(R[k + 1]) >= k + 1
      BY <2>1, <2>5, <3>3, <3>4, <3>5
    <3> QED
      BY <2>3, <3>6
  <2> QED
    BY <2>4, <2>5
<1>4. K = Nat
  <2>1. K \in SUBSET Nat
    OBVIOUS
  <2> HIDE DEF K
  <2> QED
    BY <2>1, <1>2, <1>3, Induction
<1>5. Gained(N)
  BY <1>1, <1>4
<1>6. Settled(N)
  <2>1. CASE Cardinality(R[N]) >= N
    <3>1. R[N] = Ids(subs)
      BY <1>1, <1>5, <2>1, FS_Subset, FS_CardinalityType DEF N
    <3> QED
      BY <3>1 DEF Freed
  <2> QED
    BY <1>5, <2>1
<1> QED
  BY <1>5, <1>6 DEF R, N

\* Conversely, sub-queries that wait for no one in a circle, and only for one
\* another, are all resolved: while some are not, one more can be.
LEMMA AcyclicIsResolved ==
  ASSUME NEW subs, IsFiniteSet(DOMAIN subs), DOMAIN subs \subseteq Nat, IdsUnique(subs),
         \A i \in DOMAIN subs : subs[i].deps \subseteq Ids(subs), Acyclic(subs)
  PROVE  ~HasCycle(subs)
<1> DEFINE last == Rounds(subs)[Cardinality(Ids(subs))]
<1>1. last \subseteq Ids(subs) /\ Freed(subs, last) \subseteq last
  BY RoundsSettle
<1>2. \A i \in DOMAIN subs : LastNamed(subs, subs[i].id) = i
  BY LastNamedIsIt
<1> HIDE DEF last
<1>3. ASSUME last # Ids(subs) PROVE FALSE
  <2> DEFINE S == {i \in DOMAIN subs : subs[i].id \notin last}
  <2>1. S \in (SUBSET DOMAIN subs) \ {{}}
    BY <1>1, <1>3 DEF Ids
  <2>2. PICK i \in S : \A j \in S : subs[j].id \notin subs[i].deps
    BY <2>1 DEF Acyclic
  <2>3. subs[i].deps \subseteq last
    BY <2>2 DEF Ids
  <2>4. subs[i].id \in Freed(subs, last)
    BY <1>2, <2>3 DEF Freed, Ids
  <2> QED
    BY <1>1, <2>4
<1> QED
  BY <1>3 DEF HasCycle, last

\* A good plan keeps its ids: by induction on the position, no earlier sub-query
\* holds the id that the one at this position wants.
LEMMA GoodIdsAreKept ==
  ASSUME NEW subs \in Seq(RawSubQueries), IdsUnique(subs),
         NEW ids, DOMAIN ids = DOMAIN subs,
         \A i \in DOMAIN subs : subs[i].id # 0,
         \A i \in DOMAIN ids : TakesId(subs, ids, i)
  PROVE  \A i \in DOMAIN subs : ids[i] = subs[i].id
<1> DEFINE K == {k \in Nat : \A i \in DOMAIN subs : i <= k => ids[i] = subs[i].id}
<1>1. DOMAIN subs = 1..Len(subs) /\ Len(subs) \in Nat
  OBVIOUS
<1>2. 0 \in K
  BY <1>1
<1>3. ASSUME NEW k \in K PROVE k + 1 \in K
  <2> SUFFICES ASSUME k + 1 \in DOMAIN subs PROVE ids[k + 1] = subs[k + 1].id
    BY <1>1
  <2>1. WantedId(subs[k + 1], k + 1) = subs[k + 1].id
    BY DEF WantedId
  <2>2. \A j \in DOMAIN ids : j < k + 1 => ids[j] = subs[j].id
    BY <1>1
  <2>3. ~\E j \in DOMAIN ids : j < k + 1 /\ ids[j] = subs[k + 1].id
    BY <1>1, <2>2 DEF IdsUnique
  <2> QED
    BY <2>1, <2>3 DEF TakesId
<1>4. K = Nat
  <2>1. K \in SUBSET Nat
    OBVIOUS
  <2> HIDE DEF K
  <2> QED
    BY <2>1, <1>2, <1>3, Induction
<1>5. Len(subs) \in K
  BY <1>1, <1>4
<1> QED
  BY <1>1, <1>5

\* What the loop and the repair of dependencies leave, before cycles are looked for.
Filtered(subs, ids) ==
  [i \in DOMAIN ids |->
     [id |-> ids[i], source |-> subs[i].source, deps |-> KnownDeps(subs, ids, i)]]

Cleared(subs, ids) == [i \in DOMAIN ids |-> [Filtered(subs, ids)[i] EXCEPT !.deps = {}]]

LEMMA CleanSubsAre ==
  ASSUME NEW subs, NEW ids
  PROVE  CleanSubs(subs, ids) =
           IF HasCycle(Filtered(subs, ids)) \/ AllBlocked(Filtered(subs, ids))
           THEN Cleared(subs, ids) ELSE Filtered(subs, ids)
BY DEF CleanSubs, Filtered, Cleared

\* The positions that survive are finitely many, no more than the cap.
LEMMA KeptIsCapped ==
  ASSUME NEW subs \in Seq(RawSubQueries), NEW cap \in Nat
  PROVE  /\ Kept(subs, cap) \subseteq 1..Len(subs) /\ Kept(subs, cap) \subseteq Nat
         /\ IsFiniteSet(Kept(subs, cap))
         /\ Cardinality(Kept(subs, cap)) <= cap
<1>1. Kept(subs, cap) \subseteq 1..cap /\ Kept(subs, cap) \subseteq 1..Len(subs)
  BY DEF Kept
<1>2. IsFiniteSet(1..cap) /\ Cardinality(1..cap) = cap
  BY FS_Interval
<1> QED
  BY <1>1, <1>2, FS_Subset

\* What comes out can be executed: either the deps left are acyclic, by _has_cycle,
\* or they were all dropped.
LEMMA CleanIsExecutable ==
  ASSUME NEW subs \in Seq(RawSubQueries), NEW cap \in Nat,
         NEW clean \in SanitizedPlans([intent |-> "answerable", subs |-> subs], cap)
  PROVE  Executable(clean, cap)
<1> DEFINE W == clean.subs
<1> USE DEF Executable
<1>1. CASE Kept(subs, cap) = {}
  <2>1. clean.intent # "answerable" /\ DOMAIN W = {}
    BY <1>1 DEF SanitizedPlans, EmptyPlan
  <2> QED
    BY <2>1, FS_EmptySet DEF Acyclic
<1>2. CASE Kept(subs, cap) # {}
  <2>1. PICK ids \in CleanIds(subs, cap) :
          clean = [intent |-> "answerable", subs |-> CleanSubs(subs, ids)]
    BY <1>2 DEF SanitizedPlans
  <2>2. DOMAIN ids = Kept(subs, cap)
    BY DEF CleanIds
  <2> DEFINE F == Filtered(subs, ids)
             C == Cleared(subs, ids)
  <2>3. /\ clean.intent = "answerable" /\ DOMAIN W = DOMAIN ids
        /\ W = C \/ (W = F /\ ~HasCycle(F) /\ ~AllBlocked(F))
    BY <2>1, CleanSubsAre DEF Filtered, Cleared
  <2>4. Cardinality(DOMAIN W) <= cap /\ IsFiniteSet(DOMAIN W) /\ DOMAIN W \subseteq Nat
    BY <2>2, <2>3, KeptIsCapped
  <2>5. CASE W = C
    <3>1. \A i \in DOMAIN W : W[i].deps = {}
      BY <2>3, <2>5 DEF Cleared, Filtered
    <3>2. DOMAIN W # {}
      BY <1>2, <2>2, <2>3
    <3>3. Acyclic(W)
      <4> HIDE DEF W
      <4> QED
        BY <3>1 DEF Acyclic
    <3> QED
      BY <2>3, <2>4, <3>1, <3>2, <3>3
  <2>6. CASE W = F /\ ~HasCycle(F) /\ ~AllBlocked(F)
    <3>1. \A i \in DOMAIN W : \A d \in W[i].deps :
            (\E j \in DOMAIN W : W[j].id = d) /\ d # W[i].id
      BY <2>3, <2>6 DEF Filtered, KnownDeps
    <3>2. \E i \in DOMAIN W : W[i].deps = {}
      BY <2>6 DEF AllBlocked
    <3>3. IdsUnique(W) => Acyclic(W)
      BY <2>4, <2>6, ResolvedIsAcyclic
    <3> QED
      BY <2>3, <2>4, <3>1, <3>2, <3>3
  <2> QED
    BY <2>3, <2>5, <2>6
<1> QED
  BY <1>1, <1>2

\* In a plan without circles nobody waits for itself and somebody waits for no one.
LEMMA AcyclicStarts ==
  ASSUME NEW subs \in Seq(RawSubQueries), subs # <<>>, Acyclic(subs),
         \A i \in DOMAIN subs : subs[i].deps \subseteq Ids(subs)
  PROVE  /\ \A i \in DOMAIN subs : subs[i].id \notin subs[i].deps
         /\ \E i \in DOMAIN subs : subs[i].deps = {}
<1>1. ASSUME NEW i \in DOMAIN subs PROVE subs[i].id \notin subs[i].deps
  <2>1. {i} \in (SUBSET DOMAIN subs) \ {{}}
    OBVIOUS
  <2>2. PICK k \in {i} : \A j \in {i} : subs[j].id \notin subs[k].deps
    BY <2>1 DEF Acyclic
  <2> QED
    BY <2>2
<1>2. \E i \in DOMAIN subs : subs[i].deps = {}
  <2>1. DOMAIN subs \in (SUBSET DOMAIN subs) \ {{}}
    OBVIOUS
  <2>2. PICK i \in DOMAIN subs : \A j \in DOMAIN subs : subs[j].id \notin subs[i].deps
    BY <2>1 DEF Acyclic
  <2>3. subs[i].deps = {}
    BY <2>2 DEF Ids
  <2> QED
    BY <2>3
<1> QED
  BY <1>1, <1>2

\* A good plan comes out as it went in: its ids and its deps are kept, and neither
\* _has_cycle nor the check that something can start finds fault with it.
LEMMA GoodGoesThrough ==
  ASSUME NEW subs \in Seq(RawSubQueries), NEW cap \in Nat,
         NEW clean \in SanitizedPlans([intent |-> "answerable", subs |-> subs], cap),
         IsGood(subs, cap)
  PROVE  IsAsWritten(subs, clean)
<1>1. /\ subs # <<>> /\ Len(subs) <= cap
      /\ \A i \in DOMAIN subs : ~subs[i].blank /\ subs[i].id # 0
      /\ IdsUnique(subs) /\ Acyclic(subs)
      /\ \A i \in DOMAIN subs : subs[i].deps \subseteq Ids(subs)
  BY DEF IsGood
<1>2. \A i \in DOMAIN subs : \A d \in subs[i].deps : \E j \in DOMAIN subs : subs[j].id = d
  BY <1>1 DEF Ids
<1>3. /\ \A i \in DOMAIN subs : subs[i].id \notin subs[i].deps
      /\ \E i \in DOMAIN subs : subs[i].deps = {}
  BY <1>1, AcyclicStarts
<1>4. Kept(subs, cap) = DOMAIN subs /\ Kept(subs, cap) # {}
  <2>1. \A i \in 1..Len(subs) : i <= cap /\ ~subs[i].blank
    BY <1>1
  <2>2. Kept(subs, cap) = 1..Len(subs)
    BY <2>1 DEF Kept
  <2>3. DOMAIN subs = 1..Len(subs)
    OBVIOUS
  <2>4. DOMAIN subs # {}
    BY <1>3
  <2> QED
    BY <2>2, <2>3, <2>4
<1>5. PICK ids \in CleanIds(subs, cap) :
        clean = [intent |-> "answerable", subs |-> CleanSubs(subs, ids)]
  BY <1>4 DEF SanitizedPlans
<1>6. DOMAIN ids = DOMAIN subs /\ \A i \in DOMAIN ids : TakesId(subs, ids, i)
  BY <1>4 DEF CleanIds
<1>7. \A i \in DOMAIN subs : ids[i] = subs[i].id
  BY <1>1, <1>6, GoodIdsAreKept
<1> DEFINE F == Filtered(subs, ids)
<1>8. DOMAIN F = DOMAIN subs /\ \A i \in DOMAIN subs : F[i].id = subs[i].id /\ F[i].deps = subs[i].deps
  <2>1. ASSUME NEW i \in DOMAIN subs PROVE KnownDeps(subs, ids, i) = subs[i].deps
    BY <1>2, <1>3, <1>6, <1>7 DEF KnownDeps
  <2> QED
    BY <1>6, <1>7, <2>1 DEF Filtered
<1> HIDE DEF F
<1>9. ~HasCycle(F)
  <2>1. IdsUnique(F)
    BY <1>1, <1>8 DEF IdsUnique
  <2>2. \A i \in DOMAIN F : F[i].deps \subseteq Ids(F)
    BY <1>1, <1>8 DEF Ids
  <2>3. Acyclic(F)
    BY <1>1, <1>8 DEF Acyclic
  <2>4. IsFiniteSet(DOMAIN F) /\ DOMAIN F \subseteq Nat
    BY <1>4, <1>8, KeptIsCapped
  <2> QED
    BY <2>1, <2>2, <2>3, <2>4, AcyclicIsResolved
<1>10. ~AllBlocked(F)
  BY <1>3, <1>8 DEF AllBlocked
<1>11. clean.subs = F
  BY <1>5, <1>9, <1>10, CleanSubsAre DEF F
<1> QED
  BY <1>8, <1>11 DEF IsAsWritten

\* Whatever list of sub-queries a model writes and whatever the cap: the plan that
\* sanitize_plan returns can be executed, and a good one is returned as it was written.
THEOREM PlansAreSanitised ==
  ASSUME NEW subs \in Seq(RawSubQueries), NEW cap \in Nat,
         NEW clean \in SanitizedPlans([intent |-> "answerable", subs |-> subs], cap)
  PROVE  Executable(clean, cap) /\ (IsGood(subs, cap) => IsAsWritten(subs, clean))
BY CleanIsExecutable, GoodGoesThrough

\* The same of the plans the run writes, for every length and every cap: whatever is
\* added to a plan, what sanitize_plan makes of it stays sanitised.
THEOREM WrittenPlansAreSanitised == Writing => []Sanitised
<1> DEFINE Inv == /\ written \in Seq(RawSubQueries) /\ limit \in Nat
                  /\ cleaned \in SanitizedPlans(Answerable(written), limit)
<1>1. NothingWritten => Inv
  BY WritingAssumption DEF NothingWritten
<1>2. Inv /\ [WriteMore]_writing => Inv'
  <2> SUFFICES ASSUME Inv, [WriteMore]_writing PROVE Inv'
    OBVIOUS
  <2>1. ASSUME NEW sub \in RawSubs, WriteSubQuery(sub) PROVE Inv'
    <3>1. sub \in RawSubQueries
      <4>1. CASE sub = BlankSub
        BY <4>1 DEF BlankSub, RawSubQueries, Sources
      <4>2. CASE sub # BlankSub
        <5>1. PICK n \in 0..MaxPlan, d \in SUBSET (1..MaxPlan) :
                sub = [id |-> n, blank |-> FALSE, source |-> "dataset", deps |-> d]
          BY <2>1, <4>2 DEF RawSubs
        <5>2. n \in Nat /\ d \in SUBSET Nat
          BY WritingAssumption
        <5> QED
          BY <5>1, <5>2 DEF RawSubQueries, Sources
      <4> QED
        BY <4>1, <4>2
    <3>2. written' \in Seq(RawSubQueries)
      BY <2>1, <3>1 DEF WriteSubQuery
    <3> QED
      BY <2>1, <3>2 DEF WriteSubQuery, Answerable
  <2>2. CASE UNCHANGED writing
    BY <2>2 DEF writing, Answerable
  <2> QED
    BY <2>1, <2>2 DEF WriteMore
<1>3. Inv => Sanitised
  BY PlansAreSanitised DEF Sanitised, Answerable
<1> QED
  BY <1>1, <1>2, <1>3, PTL DEF Writing

\* The names sanitize_plan can need for a list: what the model wrote, and q<position>.
NamesSuffice(subs) ==
  \A i \in DOMAIN subs : i \in Names /\ (subs[i].id # 0 => subs[i].id \in Names)

\* The loop over the sub-queries comes to exactly one assignment of ids.
THEOREM IdsAreGivenOnce ==
  ASSUME NEW subs \in Seq(RawSubQueries), NEW cap \in Nat, NamesSuffice(subs)
  PROVE  \E ids \in CleanIds(subs, cap) : \A other \in CleanIds(subs, cap) : other = ids
<1> DEFINE D == Kept(subs, cap)
           Upto(k) == {i \in D : i <= k}
           Given(ids, k) == /\ ids \in [Upto(k) -> Names]
                            /\ \A i \in Upto(k) : TakesId(subs, ids, i)
           Some == {k \in Nat : \E ids : Given(ids, k)}
<1>1. D \subseteq DOMAIN subs /\ DOMAIN subs = 1..Len(subs) /\ Len(subs) \in Nat /\ D \subseteq Nat
  BY KeptIsCapped
<1> HIDE DEF D
<1>2. 0 \in Some
  <2>1. Upto(0) = {}
    BY <1>1
  <2>2. Given([i \in {} |-> 0], 0)
    BY <2>1
  <2> HIDE DEF Given
  <2> QED
    BY <2>2
<1>3. ASSUME NEW k \in Some PROVE k + 1 \in Some
  <2>1. PICK ids : Given(ids, k)
    OBVIOUS
  <2> DEFINE want == WantedId(subs[k + 1], k + 1)
             next == IF \E j \in Upto(k) : ids[j] = want THEN k + 1 ELSE want
             more == [i \in Upto(k + 1) |-> IF i <= k THEN ids[i] ELSE next]
  <2>2. k \in Nat /\ Upto(k) \subseteq Upto(k + 1) /\ Upto(k + 1) \subseteq Upto(k) \cup {k + 1}
    BY <1>1
  <2>3. \A i \in Upto(k) : i <= k /\ more[i] = ids[i]
    BY <2>2
  <2>4. ASSUME k + 1 \in D PROVE next \in Names /\ more[k + 1] = next
    <3>1. k + 1 \in DOMAIN subs /\ k + 1 \in Upto(k + 1) /\ ~(k + 1 <= k)
      BY <1>1, <2>2, <2>4
    <3>2. want \in Names /\ k + 1 \in Names
      BY <3>1 DEF NamesSuffice, WantedId
    <3> QED
      BY <3>1, <3>2
  <2>5. \A i \in Upto(k + 1) : more[i] \in Names
    BY <2>1, <2>2, <2>3, <2>4
  <2>6. ASSUME NEW i \in Upto(k + 1) PROVE TakesId(subs, more, i)
    <3>1. CASE i \in Upto(k)
      <4>1. TakesId(subs, ids, i)
        BY <2>1, <3>1
      <4>2. DOMAIN ids = Upto(k) /\ DOMAIN more = Upto(k + 1)
        BY <2>1
      <4>3. \A j \in Upto(k + 1) : j < i => j \in Upto(k)
        BY <1>1, <2>2, <3>1
      <4> HIDE DEF more
      <4>4. \A j \in Nat : (j \in DOMAIN more /\ j < i) <=> (j \in DOMAIN ids /\ j < i)
        BY <2>2, <4>2, <4>3
      <4> QED
        BY <1>1, <2>3, <3>1, <4>1, <4>2, <4>3, <4>4 DEF TakesId
    <3>2. CASE i = k + 1
      <4>1. k + 1 \in D /\ DOMAIN more = Upto(k + 1)
        BY <3>2
      <4>2. more[k + 1] = next
        BY <2>4, <4>1
      <4>3. \A j \in Upto(k + 1) : j < k + 1 <=> j \in Upto(k)
        BY <1>1, <2>2
      <4> HIDE DEF more
      <4> QED
        BY <2>2, <2>3, <3>2, <4>1, <4>2, <4>3 DEF TakesId
    <3> QED
      BY <2>2, <3>1, <3>2
  <2>7. Given(more, k + 1)
    BY <2>5, <2>6
  <2> HIDE DEF Given
  <2> QED
    BY <2>2, <2>7
<1>4. Some = Nat
  <2>1. Some \in SUBSET Nat
    OBVIOUS
  <2> HIDE DEF Some
  <2> QED
    BY <2>1, <1>2, <1>3, Induction
<1>5. Upto(Len(subs)) = D
  BY <1>1
<1>6. PICK ids : Given(ids, Len(subs))
  BY <1>1, <1>4
<1>7. ids \in CleanIds(subs, cap)
  BY <1>5, <1>6 DEF CleanIds, D
<1>8. ASSUME NEW other \in CleanIds(subs, cap) PROVE other = ids
  <2> DEFINE Same == {k \in Nat : \A i \in D : i <= k => other[i] = ids[i]}
  <2>1. /\ DOMAIN ids = D /\ DOMAIN other = D
        /\ ids = [i \in D |-> ids[i]] /\ other = [i \in D |-> other[i]]
        /\ \A i \in D : TakesId(subs, ids, i) /\ TakesId(subs, other, i)
    BY <1>7 DEF CleanIds, D
  <2>2. 0 \in Same
    BY <1>1
  <2>3. ASSUME NEW k \in Same PROVE k + 1 \in Same
    <3> SUFFICES ASSUME k + 1 \in D PROVE other[k + 1] = ids[k + 1]
      BY <1>1
    <3>1. \A j \in D : j < k + 1 => other[j] = ids[j]
      BY <1>1
    <3> QED
      BY <2>1, <3>1 DEF TakesId
  <2>4. Same = Nat
    <3>1. Same \in SUBSET Nat
      OBVIOUS
    <3> HIDE DEF Same
    <3> QED
      BY <3>1, <2>2, <2>3, Induction
  <2>5. Len(subs) \in Same
    BY <1>1, <2>4
  <2>6. \A i \in D : other[i] = ids[i]
    BY <1>1, <2>5
  <2> QED
    BY <2>1, <2>6
<1> QED
  BY <1>7, <1>8

\* No sub-query is written under the name q<n> of another one's position.
NamesNoOtherPosition(subs) ==
  \A i, n \in DOMAIN subs : subs[i].id = n => n = i

\* The promise "ids are unique" (analyze_query.py:4) can only fail through a name of
\* the form q<n>: whenever no sub-query carries the name of another's position, the ids
\* that the loop hands out differ, however often the model repeats an id of its own.
THEOREM OtherwiseIdsDiffer ==
  ASSUME NEW subs \in Seq(RawSubQueries), NEW cap \in Nat, NamesNoOtherPosition(subs),
         NEW ids \in CleanIds(subs, cap)
  PROVE  \A i, j \in DOMAIN ids : ids[i] = ids[j] => i = j
<1>1. /\ DOMAIN ids \subseteq DOMAIN subs /\ DOMAIN ids \subseteq Nat
      /\ \A i \in DOMAIN ids : TakesId(subs, ids, i)
  BY KeptIsCapped DEF CleanIds
<1>2. ASSUME NEW i \in DOMAIN ids, NEW j \in DOMAIN ids, i < j PROVE ids[i] # ids[j]
  <2>1. CASE ids[j] = WantedId(subs[j], j) /\ ~\E k \in DOMAIN ids : k < j /\ ids[k] = ids[j]
    BY <1>2, <2>1
  <2>2. CASE ids[j] = j
    <3>1. ids[i] = i \/ ids[i] = subs[i].id
      BY <1>1 DEF TakesId, WantedId
    <3> QED
      BY <1>1, <1>2, <2>2, <3>1 DEF NamesNoOtherPosition
  <2> QED
    BY <1>1, <2>1, <2>2 DEF TakesId
<1> QED
  BY <1>1, <1>2

-----------------------------------------------------------------------------
(***************************************************************************)
(* The plan the graph executes, the model's or the node's own.             *)
(***************************************************************************)
\* A plan without sub-queries, and the one sub-query asked when no model answers.
LEMMA SmallPlansExecute ==
  /\ \A intent : intent # "answerable" => Executable(EmptyPlan(intent), MaxSubQueries)
  /\ Executable(Fallback, MaxSubQueries)
<1>1. ASSUME NEW intent, intent # "answerable" PROVE Executable(EmptyPlan(intent), MaxSubQueries)
  <2>1. DOMAIN EmptyPlan(intent).subs = {} /\ EmptyPlan(intent).intent # "answerable"
    BY <1>1 DEF EmptyPlan
  <2>2. Cardinality({}) <= MaxSubQueries
    BY FS_EmptySet, MaxSubQueriesAssumption
  <2>3. Acyclic(EmptyPlan(intent).subs)
    BY <2>1 DEF Acyclic
  <2> QED
    BY <2>1, <2>2, <2>3 DEF Executable
<1>2. Executable(Fallback, MaxSubQueries)
  <2>1. DOMAIN Fallback.subs = {1} /\ Fallback.subs[1].deps = {} /\ Fallback.intent = "answerable"
    BY DEF Fallback
  <2>2. Cardinality({1}) <= MaxSubQueries
    <3>1. Cardinality({1}) = 1
      BY FS_Singleton
    <3> QED
      BY <3>1, MaxSubQueriesAssumption
  <2>3. Acyclic(Fallback.subs)
    BY <2>1 DEF Acyclic
  <2> QED
    BY <2>1, <2>2, <2>3 DEF Executable
<1> QED
  BY <1>1, <1>2

LEMMA SanitizedExecutes ==
  ASSUME NEW raw \in RawPlans, NEW p \in SanitizedPlans(raw, MaxSubQueries)
  PROVE  Executable(p, MaxSubQueries)
<1>1. raw.intent \in Intents /\ raw.subs \in Seq(RawSubQueries)
  BY RawPlansAssumption
<1>2. CASE raw.intent # "answerable"
  BY <1>2, SmallPlansExecute DEF SanitizedPlans
<1>3. CASE raw.intent = "answerable"
  <2>1. p \in SanitizedPlans([intent |-> "answerable", subs |-> raw.subs], MaxSubQueries)
    BY <1>3 DEF SanitizedPlans
  <2> QED
    BY <1>1, <2>1, PlansAreSanitised, MaxSubQueriesAssumption
<1> QED
  BY <1>2, <1>3

PlanExecutes == at # "analyze_query" => Executable(plan, MaxSubQueries)

\* Once analyze_query has run, the graph holds a plan it can execute to the end: no
\* more sub-queries than the cap, each waiting only for others of the plan, and, as
\* long as their ids differ, never in a circle (analyze_query.py:64-130).
THEOREM GraphHoldsAnExecutablePlan == Spec => []PlanExecutes
<1>1. Init => PlanExecutes
  BY DEF Init, PlanExecutes
<1>2. PlanExecutes /\ [Next]_vars => PlanExecutes'
  <2> SUFFICES ASSUME PlanExecutes, [Next]_vars PROVE PlanExecutes'
    OBVIOUS
  <2>1. CASE AnalyzeQuery
    <3>1. PICK raw \in RawPlans : \E newPlan \in SanitizedPlans(raw, MaxSubQueries) :
            plan' = newPlan
      BY <2>1 DEF AnalyzeQuery, WritePlan
    <3>2. Executable(plan', MaxSubQueries)
      BY <3>1, SanitizedExecutes
    <3> QED
      BY <3>2 DEF PlanExecutes
  <2>2. CASE AnalyzeQueryDegraded
    <3>1. plan' = Fallback
      BY <2>2 DEF AnalyzeQueryDegraded, WritePlan
    <3>2. Executable(plan', MaxSubQueries)
      BY <3>1, SmallPlansExecute
    <3> QED
      BY <3>2 DEF PlanExecutes
  <2>3. ASSUME plan' = plan, at # "analyze_query" \/ at' = at PROVE PlanExecutes'
    BY <2>3 DEF PlanExecutes
  <2>4. CASE \/ RespondDirectly \/ Collect \/ ResolveDependencies \/ Synthesize \/ CheckGrounding
             \/ \E p \in Positions : RetrieveDocuments(p) \/ SuperheroAgent(p) \/ Merge(p)
    BY <2>3, <2>4
       DEF RespondDirectly, Collect, ResolveDependencies, Synthesize, CheckGrounding,
           RetrieveDocuments, SuperheroAgent, FinishBranch, Merge, planning
  <2>5. CASE UNCHANGED vars
    BY <2>3, <2>5 DEF vars, planning
  <2> QED
    BY <2>1, <2>2, <2>4, <2>5 DEF Next
<1> QED
  BY <1>1, <1>2, PTL DEF Spec
=============================================================================
