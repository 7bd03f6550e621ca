-------------------------- MODULE MCModelFailover --------------------------
(* ModelFailover on two providers. *)
EXTENDS ModelFailover, TLC

Callers == Permutations(Calls)

OneEach == [p \in Providers |-> 1]
=============================================================================
