---------------------------- MODULE MCCorpusBuild ----------------------------
EXTENDS CorpusBuild, TLC

CONSTANTS A, B, A1, m1, m2

\* Two corpora of the same size: the shape of their vectors is the same; and the
\* first half of one of them, which its file may be cut to.
MCCorpora == {A, B, A1}
MCSize == [c \in Corpora |-> IF c = A1 THEN 1 ELSE 2]
MCCuts == [c \in Corpora |-> IF c = A THEN {A1} ELSE {}]

\* Two days of quota.
MCWanted == [mode |-> "full", corpus |-> A, model |-> m1]

\* The second model is only tried on the first corpus.
MCCommands ==
  {command \in AllCommands : command.corpus # A1 /\ (command.model = m2 => command.corpus = A)}
MCFullCommands == [mode : {"full"}, corpus : {A, B}, model : {m1}]
=============================================================================
