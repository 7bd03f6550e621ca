---------------------------- MODULE Conversations ----------------------------
(***************************************************************************)
(* What the ask service promises of its memory, however its requests       *)
(* overlap, fail, time out or are abandoned.  A session is a bounded log   *)
(* of turns; a question text is a slot for an answer that was given to     *)
(* nobody in particular; either may be forgotten at any moment.  A request *)
(* is told what its session remembers when it is asked; its answer is      *)
(* remembered in one instant, once, while it is open; an answer that is    *)
(* recalled is the one its slot holds; a request without an answer leaves  *)
(* no trace.                                                               *)
(***************************************************************************)
EXTENDS Integers, Sequences

CONSTANTS Requests, Keys, Sessions, NoSession, NoRequest, MaxTurns

VARIABLES
  status,     \* request -> new, open or over
  asked,      \* request -> the slot and the session it asked in
  told,       \* request -> the turns it was told
  answered,   \* request -> the request whose answer it got
  log,        \* session -> the turns it remembers, oldest first
  slot        \* key -> the request whose answer is there

vars == <<status, asked, told, answered, log, slot>>

NotAsked == [key |-> NoRequest, session |-> NoSession]

Init ==
  /\ status = [r \in Requests |-> "new"]
  /\ asked = [r \in Requests |-> NotAsked]
  /\ told = [r \in Requests |-> <<>>]
  /\ answered = [r \in Requests |-> NoRequest]
  /\ log = [s \in Sessions |-> <<>>]
  /\ slot = [k \in Keys |-> NoRequest]

Turns(s) == IF s = NoSession THEN <<>> ELSE log[s]

Asks(r, k, s, next) ==
  /\ status[r] = "new"
  /\ status' = [status EXCEPT ![r] = next]
  /\ asked' = [asked EXCEPT ![r] = [key |-> k, session |-> s]]

Ask(r, k, s) ==
  /\ Asks(r, k, s, "open")
  /\ told' = [told EXCEPT ![r] = Turns(s)]
  /\ UNCHANGED <<answered, log, slot>>

\* Refused as it arrives.
Refuse(r, k, s) == Asks(r, k, s, "over") /\ UNCHANGED <<told, answered, log, slot>>

\* Answered as it arrives, out of the slot.
Recall(r, k) ==
  /\ Asks(r, k, NoSession, "over")
  /\ slot[k] # NoRequest
  /\ answered' = [answered EXCEPT ![r] = slot[k]]
  /\ UNCHANGED <<told, log, slot>>

Closes(r) ==
  /\ status[r] = "open"
  /\ status' = [status EXCEPT ![r] = "over"]
  /\ UNCHANGED <<asked, told>>

Fail(r) == Closes(r) /\ UNCHANGED <<answered, log, slot>>

\* The last MaxTurns of the turns.
Last(turns) ==
  IF Len(turns) <= MaxTurns THEN turns ELSE SubSeq(turns, Len(turns) - MaxTurns + 1, Len(turns))

\* What is remembered may take the place of something else.
Answer(r) ==
  /\ Closes(r)
  /\ answered' = [answered EXCEPT ![r] = r]
  /\ \/ UNCHANGED <<log, slot>>
     \/ /\ asked[r].session # NoSession
        /\ \E S \in SUBSET Sessions : log' = [s \in Sessions |->
             IF s = asked[r].session THEN Last(Append(log[s], r)) ELSE IF s \in S THEN <<>> ELSE log[s]]
        /\ UNCHANGED slot
     \/ /\ asked[r].session = NoSession
        /\ \E K \in SUBSET Keys : slot' = [k \in Keys |->
             IF k = asked[r].key THEN r ELSE IF k \in K THEN NoRequest ELSE slot[k]]
        /\ UNCHANGED log

Forget ==
  /\ \E S \in SUBSET Sessions : log' = [s \in Sessions |-> IF s \in S THEN <<>> ELSE log[s]]
  /\ \E K \in SUBSET Keys : slot' = [k \in Keys |-> IF k \in K THEN NoRequest ELSE slot[k]]
  /\ UNCHANGED <<status, asked, told, answered>>

Next ==
  \/ \E r \in Requests :
       \/ \E k \in Keys : Recall(r, k)
       \/ \E k \in Keys, s \in Sessions \cup {NoSession} : Ask(r, k, s) \/ Refuse(r, k, s)
       \/ Fail(r) \/ Answer(r)
  \/ Forget

Spec == Init /\ [][Next]_vars
=============================================================================
