-------------------------- MODULE MCRetrieveDocuments --------------------------
(***************************************************************************)
(* The corpus branch over corpora of up to five paragraphs.                *)
(***************************************************************************)
EXTENDS RetrieveDocuments, TLC

AnyOrder == Permutations(Paragraphs)
=============================================================================
