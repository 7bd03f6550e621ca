--------------------------- MODULE SuperheroClient ---------------------------
(***************************************************************************)
(* SuperheroClient (src/app/tools/superhero.py): calls of search and get   *)
(* by several questions at once, over one cache with a time to live, one   *)
(* circuit breaker and an upstream that answers, refuses, breaks or hangs  *)
(* until the HTTP timeout.                                                 *)
(*                                                                         *)
(* The coroutines share one event loop: a call is atomic from one await to *)
(* the next, and the only await is the HTTP request.  An answer or the end *)
(* of one attempt is one step.  The question's deadline or a client that   *)
(* went away cancels a call at its await; an exception that is neither a   *)
(* TransportError nor a bad status ends it without a report as well.       *)
(***************************************************************************)
EXTENDS CircuitBreaker, FiniteSets

CONSTANTS
  Calls,         \* concurrent callers
  SearchKeys,    \* cache keys of search
  IdKeys,        \* cache keys of get
  MaxAttempts,   \* max_retries + 1
  Ttl,           \* cache_ttl_s, in units of time
  CacheSize      \* cache_size

ASSUME MaxAttemptsAssumption == MaxAttempts \in Nat \ {0}
ASSUME TtlAssumption == Ttl \in Nat \ {0}
ASSUME CacheSizeAssumption == CacheSize \in Nat \ {0}

VARIABLES
  healthy,     \* the upstream answers every request well-formed
  cache,       \* key -> time left to live; 0 when absent
  call,        \* caller -> its call
  lost         \* a probe ended unreported while the breaker was probing, and
               \* the breaker has heard of no call since (history)

vars == <<breaker, healthy, cache, call, lost>>

Keys == SearchKeys \cup IdKeys

\* none yet, data, an AppError, get's KeyError, another exception, or cancelled.
Results == {"none", "data", "app_error", "key_error", "error", "cancelled"}

Idle == [at : {"idle"}, result : Results]

\* get found the key and is about to read it.
Reading == [at : {"reading"}, key : IdKeys]

\* An HTTP attempt is awaited; probe: the breaker let it through as a probe.
Fetching == [at : {"fetching"}, key : Keys, attempt : 1..MaxAttempts, probe : BOOLEAN]

TypeOK ==
  /\ BreakerTypeOK
  /\ healthy \in BOOLEAN
  /\ cache \in [Keys -> 0..Ttl]
  /\ call \in [Calls -> Idle \cup Reading \cup Fetching]
  /\ lost \in BOOLEAN

Init ==
  /\ BreakerInit
  /\ healthy \in BOOLEAN
  /\ cache = [k \in Keys |-> 0]
  /\ call = [c \in Calls |-> [at |-> "idle", result |-> "none"]]
  /\ lost = FALSE

-----------------------------------------------------------------------------
Ends(c, result) == call' = [call EXCEPT ![c] = [at |-> "idle", result |-> result]]

\* The beginning of _request: the breaker lets the call through, or not.
LetThrough(c, k, probe) ==
  call' = [call EXCEPT ![c] = [at |-> "fetching", key |-> k, attempt |-> 1, probe |-> probe]]

Request(c, k) ==
  \/ PassClosed /\ LetThrough(c, k, FALSE)
  \/ PassAsProbe /\ LetThrough(c, k, TRUE)
  \/ Refuses /\ Ends(c, "app_error") /\ UNCHANGED breaker

Search(c, k) ==
  /\ call[c].at = "idle" /\ k \in SearchKeys
  /\ IF cache[k] > 0 THEN Ends(c, "data") /\ UNCHANGED breaker ELSE Request(c, k)
  /\ UNCHANGED <<healthy, cache, lost>>

\* get asks whether the key is there first, and reads it afterwards: the clock
\* may move in between.
Get(c, k) ==
  /\ call[c].at = "idle" /\ k \in IdKeys
  /\ IF cache[k] > 0
     THEN call' = [call EXCEPT ![c] = [at |-> "reading", key |-> k]] /\ UNCHANGED breaker
     ELSE Request(c, k)
  /\ UNCHANGED <<healthy, cache, lost>>

ReadCache(c) ==
  /\ call[c].at = "reading"
  /\ Ends(c, IF cache[call[c].key] > 0 THEN "data" ELSE "key_error")
  /\ UNCHANGED <<breaker, healthy, cache, lost>>

-----------------------------------------------------------------------------
IsFetching(c) == call[c].at = "fetching"

\* The call reports to the breaker: whatever became of its probe is forgotten.
Succeeds == RecordSuccess /\ lost' = FALSE
Fails == RecordFailure /\ lost' = FALSE

\* The call ends without a word to the breaker.
Unreported(c) == lost' = (lost \/ (probing /\ call[c].probe)) /\ UNCHANGED breaker

\* The caches that may follow from storing k: a full one gives up another entry.
Stored(k) ==
  LET present == {j \in Keys : cache[j] > 0}
      out == IF Cardinality(present \cup {k}) > CacheSize THEN present \ {k} ELSE {k}
  IN  {[j \in Keys |-> IF j = k THEN Ttl ELSE IF j = gone THEN 0 ELSE cache[j]] : gone \in out}

\* Records, or a well-formed "not found": both are stored.
Answered(c) ==
  /\ IsFetching(c)
  /\ Succeeds
  /\ cache' \in Stored(call[c].key)
  /\ Ends(c, "data")
  /\ UNCHANGED healthy

\* Access denied or another error in a well-formed body.
Rejected(c) ==
  /\ IsFetching(c)
  /\ Succeeds
  /\ Ends(c, "app_error")
  /\ UNCHANGED <<healthy, cache>>

\* An object, but not of hero records: search and get raise after the success
\* was recorded, and store nothing.
Misread(c) ==
  /\ IsFetching(c) /\ ~healthy
  /\ Succeeds
  /\ Ends(c, "error")
  /\ UNCHANGED <<healthy, cache>>

\* Another status than 200, no JSON, or not an object: not retried.
Malformed(c) ==
  /\ IsFetching(c) /\ ~healthy
  /\ Fails
  /\ Ends(c, "app_error")
  /\ UNCHANGED <<healthy, cache>>

\* Mutant: the attempts are never used up.
Retried_NoLimit(c) ==
  /\ IsFetching(c) /\ ~healthy
  /\ call' = [call EXCEPT ![c].attempt = @ + 1]
  /\ UNCHANGED <<breaker, healthy, cache, lost>>

\* A transport error, 429 or 5xx with attempts left: another attempt.
Retried(c) ==
  /\ IsFetching(c) /\ ~healthy
  /\ call[c].attempt < MaxAttempts
  /\ call' = [call EXCEPT ![c].attempt = @ + 1]
  /\ UNCHANGED <<breaker, healthy, cache, lost>>

\* Mutant: giving up on a retried call is not recorded.
GaveUp_Unrecorded(c) ==
  /\ IsFetching(c) /\ ~healthy
  /\ call[c].attempt = MaxAttempts
  /\ Ends(c, "app_error")
  /\ UNCHANGED <<breaker, healthy, cache, lost>>

GaveUp(c) ==
  /\ IsFetching(c) /\ ~healthy
  /\ call[c].attempt = MaxAttempts
  /\ Fails
  /\ Ends(c, "app_error")
  /\ UNCHANGED <<healthy, cache>>

\* Another exception of the HTTP client, which neither except clause of _request
\* catches and no attempt repeats: a body that cannot be decoded, too many
\* redirects.
Escaped(c) ==
  /\ IsFetching(c) /\ ~healthy
  /\ Unreported(c)
  /\ Ends(c, "error")
  /\ UNCHANGED <<healthy, cache>>

Progress(c) ==
  \/ ReadCache(c)
  \/ Answered(c) \/ Rejected(c) \/ Misread(c)
  \/ Malformed(c) \/ Retried(c) \/ GaveUp(c) \/ Escaped(c)

\* Cancelled at the await: CancelledError passes both except clauses.
Abandon(c) ==
  /\ IsFetching(c)
  /\ Unreported(c)
  /\ Ends(c, "cancelled")
  /\ UNCHANGED <<healthy, cache>>

-----------------------------------------------------------------------------
\* One unit of time: the breaker's window and the entries' lives.
Tick ==
  /\ BreakerAges
  /\ cache' = [k \in Keys |-> IF cache[k] > 0 THEN cache[k] - 1 ELSE 0]
  /\ UNCHANGED <<healthy, call, lost>>

UpstreamTurns == healthy' = ~healthy /\ UNCHANGED <<breaker, cache, call, lost>>

\* No other coroutine runs between the two looks at the cache in get.
LoopIsFree(c) == \A d \in Calls : call[d].at = "reading" => d = c

Next ==
  \/ \E c \in Calls :
       /\ LoopIsFree(c)
       /\ \/ \E k \in Keys : Search(c, k) \/ Get(c, k)
          \/ Progress(c)
          \/ Abandon(c)
  \/ Tick
  \/ UpstreamTurns

Spec == Init /\ [][Next]_vars

\* Time passes, every HTTP attempt ends (the client has a timeout) and the event
\* loop serves a ready coroutine when it is free, again and again; nothing
\* makes callers call, cancels them or heals the upstream.
FairSpec == Spec /\ WF_vars(Tick) /\ \A c \in Calls : SF_vars(LoopIsFree(c) /\ Progress(c))

-----------------------------------------------------------------------------
(***************************************************************************)
(* Properties.                                                             *)
(***************************************************************************)

\* The breaker is open exactly when the failures since the last success have
\* reached the threshold, and only an open one is probing, whatever late
\* answers arrive while it is (circuit_breaker.py:57-68).
OpenIffFailing ==
  /\ ~IsClosed <=> failures = Threshold
  /\ probing => HalfOpen

\* "probe once per recovery window" (circuit_breaker.py:24): two probes are never
\* let through within one window, even when calls from before the breaker opened
\* fail or succeed in between.
ProbesAreSpaced == [][PassAsProbe => since_probe = Recovery]_vars

\* The breaker waits for a probe only while one is in flight: every end of a
\* call but cancellation and an exception that escapes _request takes the mark
\* back (superhero.py:236-263).  After such an end a report of any other call
\* does, and until it comes the breaker waits for nobody.
ProbeIsInFlight ==
  probing /\ ~lost => \E c \in Calls : IsFetching(c) /\ call[c].probe

\* Once the upstream stays healthy and no probe is lost any more, the breaker
\* closes as long as somebody asks when it would let a probe through: failed
\* probes, late failures, refused calls, and probes lost before whose mark a late
\* report took back, do not keep it open (circuit_breaker.py:3-7).
AskedAsProbe == \E c \in Calls, k \in SearchKeys : LoopIsFree(c) /\ Search(c, k) /\ PassAsProbe

Recovers == (<>[](healthy /\ ~lost) /\ SF_vars(AskedAsProbe)) => <>[]IsClosed

\* circuit_breaker.py:5-6: after the window "a single probe call is let through".
\* With no call in flight, a half-open breaker lets the next one through.
HalfOpenLetsProbeThrough ==
  HalfOpen /\ (\A c \in Calls : ~IsFetching(c)) => ~Refuses

\* test_circuit_breaker.py:56: "no second call while the probe is in flight".
SingleProbe ==
  HalfOpen => Cardinality({c \in Calls : IsFetching(c) /\ call[c].probe}) <= 1

\* superhero.py:16-17: failures are "returned as data", so the tool functions
\* need only AppErrors to be raised to them.
FailuresAreData ==
  \A c \in Calls : call[c].at = "idle" => call[c].result \notin {"key_error", "error"}
=============================================================================
