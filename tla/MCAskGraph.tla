----------------------------- MODULE MCAskGraph -----------------------------
(***************************************************************************)
(* Small instances of AskGraph: plans over two or three sub-queries that   *)
(* use both sources, chains of dependencies and clashing ids.              *)
(***************************************************************************)
EXTENDS AskGraph

Sub(id, source, d) == [id |-> id, blank |-> FALSE, source |-> source, deps |-> d]

Plan(subs) == [intent |-> "answerable", subs |-> subs]

\* One or two parts: independent, dependent, mutually dependent, renamed; a
\* third one that the cap cuts off; nothing left to ask.
SmallPlans ==
  {[intent |-> "chitchat", subs |-> <<>>],
   Plan(<<Sub(1, "dataset", {}), Sub(2, "superhero", {})>>),
   Plan(<<Sub(2, "superhero", {1}), Sub(1, "dataset", {})>>),
   Plan(<<Sub(1, "superhero", {2}), Sub(2, "dataset", {1})>>),
   Plan(<<Sub(2, "dataset", {}), Sub(0, "superhero", {})>>),
   Plan(<<Sub(1, "dataset", {}), Sub(2, "superhero", {1}), Sub(3, "dataset", {2}), Sub(4, "dataset", {})>>),
   Plan(<<Sub(3, "superhero", {1, 2}), Sub(1, "dataset", {}), Sub(2, "dataset", {})>>),
   Plan(<<[Sub(1, "dataset", {}) EXCEPT !.blank = TRUE]>>)}
=============================================================================
