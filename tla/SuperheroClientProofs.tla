------------------------ MODULE SuperheroClientProofs ------------------------
(***************************************************************************)
(* Theorems about SuperheroClient for any callers, keys and bounds.  The   *)
(* inductive invariant joins the breaker's fields to the calls in flight.  *)
(***************************************************************************)
EXTENDS SuperheroClient, TLAPS

\* Since a probe was let through, at least as much time has passed as since the
\* breaker was last opened, unless that probe is still out.
WindowAfterProbe == ~IsClosed /\ ~probing => since_probe >= open_for

BreakerInv == BreakerTypeOK /\ OpenIffFailing /\ WindowAfterProbe

IInv == TypeOK /\ OpenIffFailing /\ WindowAfterProbe /\ ProbeIsInFlight

\* What a call does to the breaker: one of its methods, or nothing.
BreakerStep ==
  \/ UNCHANGED breaker
  \/ PassAsProbe
  \/ RecordSuccess
  \/ RecordFailure
  \/ BreakerAges

-----------------------------------------------------------------------------
\* Each method keeps the breaker's own invariant, whoever calls it and when.
LEMMA BreakerStepKeepsInv ==
  ASSUME BreakerInv, BreakerStep
  PROVE  BreakerInv'
<1> USE ThresholdAssumption, RecoveryAssumption
        DEF BreakerInv, BreakerTypeOK, OpenIffFailing, WindowAfterProbe, IsClosed, HalfOpen, NotOpened
<1>1. CASE UNCHANGED breaker
  BY <1>1 DEF breaker
<1>2. CASE PassAsProbe
  BY <1>2 DEF PassAsProbe
<1>3. CASE RecordSuccess
  <2>1. failures' = 0 /\ open_for' = -1 /\ probing' = FALSE /\ since_probe' = since_probe
    BY <1>3 DEF RecordSuccess
  <2>2. BreakerTypeOK'
    <3>1. failures' \in 0..Threshold
      BY <2>1
    <3>2. open_for' \in {NotOpened} \cup 0..Recovery
      BY <2>1
    <3>3. since_probe' \in 0..Recovery
      BY <2>1
    <3> QED
      BY <2>1, <3>1, <3>2, <3>3
  <2>3. failures' # Threshold
    BY <2>1
  <2> QED
    BY <2>1, <2>2, <2>3
<1>4. CASE RecordFailure
  <2>1. CASE probing \/ failures + 1 >= Threshold
    <3>1. failures' = Threshold
      BY <1>4, <2>1 DEF RecordFailure, UpTo
    <3>2. open_for' = 0 /\ probing' = FALSE /\ since_probe' = since_probe
      BY <1>4, <2>1 DEF RecordFailure
    <3>3. BreakerTypeOK'
      <4>1. failures' \in 0..Threshold
        BY <3>1
      <4>2. open_for' \in {NotOpened} \cup 0..Recovery
        BY <3>2
      <4>3. since_probe' \in 0..Recovery
        BY <3>2
      <4> QED
        BY <3>2, <4>1, <4>2, <4>3
    <3>4. open_for' # NotOpened
      BY <3>2
    <3> QED
      BY <3>1, <3>2, <3>3, <3>4
  <2>2. CASE ~(probing \/ failures + 1 >= Threshold)
    <3>1. failures' = failures + 1 /\ failures' < Threshold
      BY <1>4, <2>2 DEF RecordFailure, UpTo
    <3>2. open_for' = open_for /\ probing' = probing /\ since_probe' = since_probe
      BY <1>4, <2>2 DEF RecordFailure
    <3> QED
      BY <3>1, <3>2
  <2> QED
    BY <2>1, <2>2
<1>5. CASE BreakerAges
  BY <1>5 DEF BreakerAges, UpTo
<1> QED
  BY <1>1, <1>2, <1>3, <1>4, <1>5 DEF BreakerStep

\* Every step of the client is one of the breaker's steps.
LEMMA NextIsBreakerStep ==
  ASSUME [Next]_vars
  PROVE  BreakerStep
<1>1. CASE UNCHANGED vars
  BY <1>1 DEF vars, BreakerStep
<1>2. CASE Tick \/ UpstreamTurns
  BY <1>2 DEF Tick, UpstreamTurns, BreakerStep
<1>3. ASSUME NEW c \in Calls, Progress(c) \/ Abandon(c)
      PROVE  BreakerStep
  BY <1>3
     DEF Progress, ReadCache, Answered, Rejected, Misread, Malformed, Retried, GaveUp, Escaped,
         Abandon, Succeeds, Fails, Unreported, BreakerStep
<1>4. ASSUME NEW c \in Calls, NEW k \in Keys, Search(c, k) \/ Get(c, k)
      PROVE  BreakerStep
  BY <1>4 DEF Search, Get, Request, PassClosed, BreakerStep
<1> QED
  BY <1>1, <1>2, <1>3, <1>4 DEF Next

-----------------------------------------------------------------------------
LEMMA CallTypes ==
  ASSUME TypeOK, NEW c \in Calls
  PROVE  /\ call[c].at = "reading" => call[c].key \in IdKeys
         /\ IsFetching(c) => call[c] \in Fetching
BY DEF TypeOK, Idle, Reading, Fetching, IsFetching

LEMMA EndsIsTyped ==
  ASSUME TypeOK, NEW c \in Calls,
         NEW result \in Results, Ends(c, result)
  PROVE  call' \in [Calls -> Idle \cup Reading \cup Fetching]
BY DEF TypeOK, Ends, Idle, Results

LEMMA StoredIsTyped ==
  ASSUME TypeOK, NEW k \in Keys, cache' \in Stored(k)
  PROVE  cache' \in [Keys -> 0..Ttl]
<1>1. PICK gone \in Keys :
        cache' = [j \in Keys |-> IF j = k THEN Ttl ELSE IF j = gone THEN 0 ELSE cache[j]]
  BY DEF Stored
<1> QED
  BY <1>1, TtlAssumption DEF TypeOK

LEMMA RequestIsTyped ==
  ASSUME TypeOK, NEW c \in Calls, NEW k \in Keys, Request(c, k)
  PROVE  call' \in [Calls -> Idle \cup Reading \cup Fetching]
<1>1. ASSUME NEW probe \in BOOLEAN, LetThrough(c, k, probe)
      PROVE  call' \in [Calls -> Idle \cup Reading \cup Fetching]
  BY <1>1, MaxAttemptsAssumption DEF LetThrough, TypeOK, Fetching
<1> QED
  BY <1>1, EndsIsTyped DEF Request, Results

LEMMA BreakerTyped ==
  ASSUME IInv, [Next]_vars
  PROVE  BreakerInv'
BY BreakerStepKeepsInv, NextIsBreakerStep DEF IInv, BreakerInv, TypeOK

\* The types of what is not the breaker's.
LEMMA NextKeepsTypes ==
  ASSUME TypeOK, [Next]_vars, BreakerTypeOK'
  PROVE  TypeOK'
<1>1. CASE UNCHANGED vars
  BY <1>1 DEF vars, TypeOK
<1>2. CASE Tick
  BY <1>2, TtlAssumption DEF Tick, TypeOK
<1>3. CASE UpstreamTurns
  BY <1>3 DEF UpstreamTurns, TypeOK
<1>4. ASSUME NEW c \in Calls, NEW k \in Keys, Search(c, k) \/ Get(c, k)
      PROVE  TypeOK'
  <2>1. CASE Search(c, k)
    BY <2>1, EndsIsTyped, RequestIsTyped DEF Search, TypeOK, Results
  <2>2. CASE Get(c, k)
    BY <2>2, RequestIsTyped DEF Get, TypeOK, Reading
  <2> QED
    BY <1>4, <2>1, <2>2
<1>5. ASSUME NEW c \in Calls, Progress(c) \/ Abandon(c)
      PROVE  TypeOK'
  <2> DEFINE k == call[c].key
  <2>1. CASE ReadCache(c)
    BY <2>1, EndsIsTyped DEF ReadCache, TypeOK, Results
  <2>2. CASE Answered(c)
    <3>1. k \in Keys
      BY <2>2, CallTypes DEF Answered, Fetching
    <3> QED
      BY <2>2, <3>1, EndsIsTyped, StoredIsTyped DEF Answered, Succeeds, TypeOK, Results
  <2>3. CASE Rejected(c) \/ Misread(c) \/ Malformed(c) \/ GaveUp(c)
    BY <2>3, EndsIsTyped
       DEF Rejected, Misread, Malformed, GaveUp, Succeeds, Fails, TypeOK, Results
  <2>4. CASE Retried(c)
    <3>1. call[c] \in Fetching
      BY <2>4, CallTypes DEF Retried
    <3>2. [call[c] EXCEPT !.attempt = @ + 1] \in Fetching
      BY <2>4, <3>1, MaxAttemptsAssumption DEF Retried, Fetching
    <3> QED
      BY <2>4, <3>1, <3>2 DEF Retried, TypeOK
  <2>5. CASE Escaped(c) \/ Abandon(c)
    BY <2>5, EndsIsTyped DEF Escaped, Abandon, Unreported, TypeOK, Results
  <2> QED
    BY <1>5, <2>1, <2>2, <2>3, <2>4, <2>5 DEF Progress
<1> QED
  BY <1>1, <1>2, <1>3, <1>4, <1>5 DEF Next

-----------------------------------------------------------------------------
\* A probe in flight stays there until its call, or a late one, has reported, or
\* it is lost, and then it stays lost until some call reports.
LEMMA NextKeepsProbe ==
  ASSUME IInv, [Next]_vars
  PROVE  ProbeIsInFlight'
<1> SUFFICES ASSUME probing', ~lost'
             PROVE  (\E c \in Calls : IsFetching(c) /\ call[c].probe)'
  BY DEF ProbeIsInFlight
<1> USE DEF IInv, IsFetching
<1>1. CASE UNCHANGED vars \/ Tick \/ UpstreamTurns
  BY <1>1 DEF vars, breaker, Tick, BreakerAges, UpstreamTurns, ProbeIsInFlight
<1>2. ASSUME NEW d \in Calls, NEW k \in Keys, Search(d, k) \/ Get(d, k)
      PROVE  (\E c \in Calls : IsFetching(c) /\ call[c].probe)'
  <2>1. CASE PassAsProbe /\ LetThrough(d, k, TRUE)
    BY <2>1 DEF LetThrough, TypeOK
  <2>2. CASE UNCHANGED breaker
    <3>1. PICK c \in Calls : IsFetching(c) /\ call[c].probe
      BY <1>2, <2>2 DEF Search, Get, breaker, ProbeIsInFlight
    <3>2. c # d
      BY <1>2, <3>1 DEF Search, Get
    <3>3. \E new : call' = [call EXCEPT ![d] = new]
      BY <1>2 DEF Search, Get, Request, LetThrough, Ends
    <3>4. call'[c] = call[c]
      BY <3>2, <3>3 DEF TypeOK
    <3> QED
      BY <3>1, <3>4
  <2> QED
    BY <1>2, <2>1, <2>2 DEF Search, Get, Request, PassClosed
<1>3. ASSUME NEW d \in Calls, NEW result, Unreported(d), Ends(d, result)
      PROVE  (\E c \in Calls : IsFetching(c) /\ call[c].probe)'
  <2>1. PICK c \in Calls : IsFetching(c) /\ call[c].probe
    BY <1>3 DEF Unreported, breaker, ProbeIsInFlight
  <2>2. probing /\ ~(lost \/ (probing /\ call[d].probe))
    BY <1>3 DEF Unreported, breaker
  <2>3. c # d
    BY <2>1, <2>2
  <2>4. call'[c] = call[c]
    BY <1>3, <2>3 DEF Ends, TypeOK
  <2> QED
    BY <2>1, <2>4
<1>4. ASSUME NEW d \in Calls, Progress(d)
      PROVE  (\E c \in Calls : IsFetching(c) /\ call[c].probe)'
  <2>1. CASE ReadCache(d)
    <3>1. PICK c \in Calls : IsFetching(c) /\ call[c].probe
      BY <2>1 DEF ReadCache, breaker, ProbeIsInFlight
    <3>2. c # d /\ call'[c] = call[c]
      BY <2>1, <3>1 DEF ReadCache, Ends
    <3> QED
      BY <3>1, <3>2
  <2>2. CASE Retried(d)
    <3>1. PICK c \in Calls : IsFetching(c) /\ call[c].probe
      BY <2>2 DEF Retried, breaker, ProbeIsInFlight
    <3>2. call[d] \in Fetching
      BY <2>2, CallTypes DEF Retried
    <3>3. call'[c].at = call[c].at /\ call'[c].probe = call[c].probe
      BY <2>2, <3>1, <3>2 DEF Retried, TypeOK, Fetching
    <3> QED
      BY <3>1, <3>3
  <2>3. CASE Answered(d) \/ Rejected(d) \/ Misread(d)
    BY <2>3 DEF Answered, Rejected, Misread, Succeeds, RecordSuccess
  <2>4. CASE Malformed(d) \/ GaveUp(d)
    BY <2>4 DEF Malformed, GaveUp, Fails, RecordFailure
  <2>5. CASE Escaped(d)
    BY <1>3, <2>5 DEF Escaped
  <2> QED
    BY <1>4, <2>1, <2>2, <2>3, <2>4, <2>5 DEF Progress
<1>5. ASSUME NEW d \in Calls, Abandon(d)
      PROVE  (\E c \in Calls : IsFetching(c) /\ call[c].probe)'
  BY <1>3, <1>5 DEF Abandon
<1> QED
  BY <1>1, <1>2, <1>4, <1>5 DEF Next

-----------------------------------------------------------------------------
LEMMA InitIsSound == Init => IInv
<1> SUFFICES ASSUME Init PROVE IInv
  OBVIOUS
<1> USE DEF Init, BreakerInit
<1>1. BreakerTypeOK
  <2>1. failures \in 0..Threshold
    BY ThresholdAssumption
  <2>2. open_for \in {NotOpened} \cup 0..Recovery
    BY RecoveryAssumption
  <2>3. since_probe \in 0..Recovery
    BY RecoveryAssumption
  <2> QED
    BY <2>1, <2>2, <2>3 DEF BreakerTypeOK
<1>2. TypeOK
  <2>1. cache \in [Keys -> 0..Ttl]
    BY TtlAssumption
  <2>2. call \in [Calls -> Idle]
    BY DEF Idle, Results
  <2> QED
    BY <1>1, <2>1, <2>2 DEF TypeOK
<1>3. failures # Threshold
  BY ThresholdAssumption
<1> QED
  BY <1>2, <1>3 DEF IInv, OpenIffFailing, WindowAfterProbe, ProbeIsInFlight, IsClosed

LEMMA NextIsSound == IInv /\ [Next]_vars => IInv'
<1> SUFFICES ASSUME IInv, [Next]_vars PROVE IInv'
  OBVIOUS
<1>1. BreakerInv'
  BY BreakerTyped
<1>2. TypeOK'
  BY <1>1, NextKeepsTypes DEF BreakerInv, IInv
<1> QED
  BY <1>1, <1>2, NextKeepsProbe DEF BreakerInv, IInv

LEMMA Sound == Spec => []IInv
BY InitIsSound, NextIsSound, PTL DEF Spec

\* Every reachable state of the client and its breaker is of the declared types.
THEOREM TypeCorrect == Spec => []TypeOK
<1>1. IInv => TypeOK
  BY DEF IInv
<1> QED
  BY <1>1, Sound, PTL

\* For every threshold and any interleaving of callers, the breaker is open
\* exactly when the failures since the last success have reached the threshold
\* (circuit_breaker.py:57-68).
THEOREM OpensExactlyAtThreshold == Spec => []OpenIffFailing
<1>1. IInv => OpenIffFailing
  BY DEF IInv
<1> QED
  BY <1>1, Sound, PTL

\* For any callers, a breaker that waits for a probe has one in flight, unless the
\* probe was cancelled or ended by an exception that escapes _request and no call
\* has reported since (circuit_breaker.py:47-68, superhero.py:229-271).
THEOREM ProbeReports == Spec => []ProbeIsInFlight
<1>1. IInv => ProbeIsInFlight
  BY DEF IInv
<1> QED
  BY <1>1, Sound, PTL

\* For every window and any callers, no two probes are let through within one
\* window (circuit_breaker.py:24).
THEOREM OneProbePerWindow == Spec => ProbesAreSpaced
<1>1. IInv /\ [Next]_vars => [PassAsProbe => since_probe = Recovery]_vars
  BY RecoveryAssumption
     DEF IInv, TypeOK, BreakerTypeOK, WindowAfterProbe, PassAsProbe, HalfOpen, IsClosed, NotOpened
<1> QED
  BY <1>1, Sound, PTL DEF Spec, ProbesAreSpaced
=============================================================================
