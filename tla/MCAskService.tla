---------------------------- MODULE MCAskService ----------------------------
(* AskService with a few requests, of two questions and two sessions. *)
EXTENDS AskService, TLC

CONSTANTS q1, q2, s1, s2

OneSpelling == [q \in Questions |-> q]

Body(q, s, stream) == [question |-> q, session |-> s, stream |-> stream]

\* Each way through the service, and two each of the questions and the sessions.
AFewBodies ==
  {Body(q1, NoSession, FALSE), Body(q2, NoSession, FALSE), Body(q1, NoSession, TRUE),
   Body(q1, s1, FALSE), Body(q1, s1, TRUE), Body(q1, s2, FALSE)}

Anything == [answer : BOOLEAN, degraded : BOOLEAN, gap : BOOLEAN]

NoGaps == [answer : BOOLEAN, degraded : BOOLEAN, gap : {FALSE}]

Clients == Permutations(Requests)
=============================================================================
