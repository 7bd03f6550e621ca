--------------------------- MODULE MCSanitizePlan ---------------------------
(***************************************************************************)
(* Every plan a model may return, up to MaxPlan sub-queries, one sub-query *)
(* longer at each step, and what sanitize_plan makes of it.                *)
(***************************************************************************)
EXTENDS SanitizePlan

CONSTANTS MaxPlan,      \* longest raw plan
          Caps          \* values of max_sub_queries

ASSUME WritingAssumption == MaxPlan \in Nat /\ Caps \subseteq Nat

VARIABLES written,      \* the sub-queries the model wrote so far
          limit,        \* max_sub_queries
          cleaned       \* what sanitize_plan makes of them

writing == <<written, limit, cleaned>>

BlankSub == [id |-> 0, blank |-> TRUE, source |-> "dataset", deps |-> {}]

RawSubs ==
  {BlankSub} \cup
  {[id |-> n, blank |-> FALSE, source |-> "dataset", deps |-> d] :
     n \in 0..MaxPlan, d \in SUBSET (1..MaxPlan)}

Answerable(subs) == [intent |-> "answerable", subs |-> subs]

NothingWritten ==
  /\ written = <<>>
  /\ limit \in Caps
  /\ cleaned \in SanitizedPlans(Answerable(written), limit)

WriteSubQuery(sub) ==
  /\ Len(written) < MaxPlan
  /\ written' = Append(written, sub)
  /\ cleaned' \in SanitizedPlans(Answerable(written'), limit)
  /\ UNCHANGED limit

WriteMore == \E sub \in RawSubs : WriteSubQuery(sub)

Writing == NothingWritten /\ [][WriteMore]_writing

-----------------------------------------------------------------------------
\* sanitize_plan does what it must, so that its plan can be executed to the end, and
\* no more: a good plan goes through unchanged (analyze_query.py:89-130).
Sanitised ==
  /\ Executable(cleaned, limit)
  /\ IsGood(written, limit) => IsAsWritten(written, cleaned)

(***************************************************************************)
(* What analyze_query.py:4 promises of every sanitised plan: "ids are      *)
(* unique".  The id q<position> given to a sub-query whose own id is taken *)
(* may be taken as well.                                                   *)
(***************************************************************************)
IdsAreUnique == IdsUnique(cleaned.subs)
=============================================================================
