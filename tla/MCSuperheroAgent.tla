--------------------------- MODULE MCSuperheroAgent ---------------------------
(***************************************************************************)
(* The superhero branch over two providers, with replies of several calls. *)
(***************************************************************************)
EXTENDS SuperheroAgent

CONSTANTS gemini1, gemini2, batman

Gemini == {gemini1, gemini2}

Found == {batman}
=============================================================================
