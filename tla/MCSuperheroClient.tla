------------------------- MODULE MCSuperheroClient -------------------------
(* SuperheroClient on small sets of callers and keys. *)
EXTENDS SuperheroClient, TLC

Callers == Permutations(Calls)
=============================================================================
