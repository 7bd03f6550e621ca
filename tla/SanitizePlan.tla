---------------------------- MODULE SanitizePlan ----------------------------
(***************************************************************************)
(* sanitize_plan of the analyze_query node: what the graph does to the     *)
(* plan a model returns before it executes any of it.                      *)
(*                                                                         *)
(* A raw plan is [intent, subs], subs a sequence of records                *)
(*    id      the name the model gave, 0 for a blank one; the name "q<n>", *)
(*            which the code also makes up itself, is the number n         *)
(*    blank   whether the text is blank after strip()                      *)
(*    source  "dataset" or "superhero"                                     *)
(*    deps    the set of names in depends_on                               *)
(*                                                                         *)
(* A clean plan is [intent, subs], subs a function from the positions that *)
(* survive (positions of the raw plan, so their order is the plan's order) *)
(* to [id, source, deps].  A position stands for the question asked there: *)
(* wording is not modelled.                                                *)
(***************************************************************************)
EXTENDS Naturals, Sequences, FiniteSets

CONSTANT Names        \* the numbers n such that a plan may use the id "q<n>"

ASSUME NamesAssumption == Names \subseteq Nat \ {0}

Intents == {"answerable", "out_of_scope", "chitchat"}
Sources == {"dataset", "superhero"}

(***************************************************************************)
(* The loop over plan.sub_queries[:max_sub_queries].                       *)
(***************************************************************************)

\* Mutant: the cap is not applied.
Kept_NoCap(subs, cap) == {i \in 1..Len(subs) : ~subs[i].blank}

\* Positions within the cap whose text is not blank.
Kept(subs, cap) == {i \in 1..Len(subs) : i <= cap /\ ~subs[i].blank}

WantedId(sub, i) == IF sub.id = 0 THEN i ELSE sub.id

\* Each sub-query, in plan order, takes the id it wants unless an earlier one
\* holds it, and is called q<position> in that case.
TakesId(subs, ids, i) ==
  LET want  == WantedId(subs[i], i)
      taken == \E j \in DOMAIN ids : j < i /\ ids[j] = want
  IN  ids[i] = IF taken THEN i ELSE want

\* The ids the loop hands out (exactly one assignment when the names suffice).
CleanIds(subs, cap) ==
  {ids \in [Kept(subs, cap) -> Names] : \A i \in DOMAIN ids : TakesId(subs, ids, i)}

(***************************************************************************)
(* Dependencies: only on known ids, never on oneself.                      *)
(***************************************************************************)
\* Mutant: a name the cap cut off is still waited for.
KnownDeps_OfRawPlan(subs, ids, i) ==
  {d \in subs[i].deps : d # ids[i] /\ \E j \in 1..Len(subs) : WantedId(subs[j], j) = d}

KnownDeps(subs, ids, i) ==
  {d \in subs[i].deps : d # ids[i] /\ \E j \in DOMAIN ids : ids[j] = d}

\* The dict {sq.id: set(sq.depends_on)}: the last sub-query of an id wins.
LastNamed(subs, name) ==
  CHOOSE i \in DOMAIN subs :
    /\ subs[i].id = name
    /\ \A j \in DOMAIN subs : subs[j].id = name => j <= i

Ids(subs) == {subs[i].id : i \in DOMAIN subs}

\* What waits for nothing but the ids already resolved.
Freed(subs, done) == {n \in Ids(subs) : subs[LastNamed(subs, n)].deps \subseteq done}

\* What is resolved after each round.
Rounds(subs) ==
  LET resolved[k \in 0..Cardinality(Ids(subs))] ==
        IF k = 0 THEN {} ELSE resolved[k - 1] \cup Freed(subs, resolved[k - 1])
  IN  resolved

\* _has_cycle: as many rounds as there are ids do not resolve them all.
HasCycle(subs) == Rounds(subs)[Cardinality(Ids(subs))] # Ids(subs)

AllBlocked(subs) == \A i \in DOMAIN subs : subs[i].deps # {}

(***************************************************************************)
(* The whole function.  A plan that is not answerable loses its            *)
(* sub-queries; one with nothing left to ask becomes out of scope.         *)
(***************************************************************************)
EmptyPlan(intent) == [intent |-> intent, subs |-> <<>>]

CleanSubs(subs, ids) ==
  LET filtered == [i \in DOMAIN ids |->
                     [id |-> ids[i], source |-> subs[i].source,
                      deps |-> KnownDeps(subs, ids, i)]]
  IN  IF HasCycle(filtered) \/ AllBlocked(filtered)
      THEN [i \in DOMAIN ids |-> [filtered[i] EXCEPT !.deps = {}]]
      ELSE filtered

SanitizedPlans(plan, cap) ==
  IF plan.intent # "answerable" THEN {EmptyPlan(plan.intent)}
  ELSE IF Kept(plan.subs, cap) = {} THEN {EmptyPlan("out_of_scope")}
  ELSE {[intent |-> "answerable", subs |-> CleanSubs(plan.subs, ids)] :
          ids \in CleanIds(plan.subs, cap)}

-----------------------------------------------------------------------------
(***************************************************************************)
(* What the promises about a plan are stated with.                         *)
(***************************************************************************)
IdsUnique(subs) == \A i, j \in DOMAIN subs : subs[i].id = subs[j].id => i = j

\* Reference definition: no set of sub-queries in which each waits for another
\* member of the set.
Acyclic(subs) ==
  \A S \in (SUBSET DOMAIN subs) \ {{}} :
    \E i \in S : \A j \in S : subs[j].id \notin subs[i].deps

\* An executable plan: within the cap, every dependency names another planned
\* sub-query, the plan is answerable exactly when some sub-query can start at once,
\* so the first wave is never empty; and with unique ids the dependencies that are
\* left form no cycle, by the reference definition rather than by _has_cycle's rounds.
Executable(plan, cap) ==
  /\ Cardinality(DOMAIN plan.subs) <= cap
  /\ \A i \in DOMAIN plan.subs : \A d \in plan.subs[i].deps :
       (\E j \in DOMAIN plan.subs : plan.subs[j].id = d) /\ d # plan.subs[i].id
  /\ plan.intent = "answerable" <=> \E i \in DOMAIN plan.subs : plan.subs[i].deps = {}
  /\ IdsUnique(plan.subs) => Acyclic(plan.subs)

\* A list within the cap whose texts are not blank, whose ids are distinct and whose
\* dependencies are known and acyclic.
IsGood(subs, cap) ==
  /\ subs # <<>> /\ Len(subs) <= cap
  /\ \A i \in DOMAIN subs : ~subs[i].blank /\ subs[i].id # 0
  /\ IdsUnique(subs)
  /\ \A i \in DOMAIN subs : subs[i].deps \subseteq Ids(subs)
  /\ Acyclic(subs)

\* The plan is what the model wrote.
IsAsWritten(subs, plan) ==
  /\ DOMAIN plan.subs = DOMAIN subs
  /\ \A i \in DOMAIN subs : plan.subs[i].id = subs[i].id /\ plan.subs[i].deps = subs[i].deps
=============================================================================
