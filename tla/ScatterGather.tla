--------------------------- MODULE ScatterGather ----------------------------
(***************************************************************************)
(* What a run of the graph promises, without its waves, retries and        *)
(* failures: a question is split once, each part is gathered once, the     *)
(* answer is begun only when every part is in, and it is given.            *)
(***************************************************************************)
EXTENDS FiniteSets

CONSTANT Questions

VARIABLES asked,      \* the parts the question was split into
          gathered,   \* the parts whose findings are in
          stage       \* "plan", "gather", "answer", "done"

vars == <<asked, gathered, stage>>

Init == asked = {} /\ gathered = {} /\ stage = "plan"

Split(parts) ==
  /\ stage = "plan"
  /\ asked' = parts
  /\ stage' = IF parts = {} THEN "answer" ELSE "gather"
  /\ UNCHANGED gathered

Gather(q) ==
  /\ stage = "gather"
  /\ q \in asked \ gathered
  /\ gathered' = gathered \cup {q}
  /\ UNCHANGED <<asked, stage>>

BeginAnswer ==
  /\ stage = "gather"
  /\ gathered = asked
  /\ stage' = "answer"
  /\ UNCHANGED <<asked, gathered>>

GiveAnswer ==
  /\ stage = "answer"
  /\ stage' = "done"
  /\ UNCHANGED <<asked, gathered>>

Next ==
  \/ \E parts \in SUBSET Questions : Split(parts)
  \/ \E q \in Questions : Gather(q)
  \/ BeginAnswer \/ GiveAnswer

Spec == Init /\ [][Next]_vars

FairSpec == Spec /\ WF_vars(Next)
=============================================================================
