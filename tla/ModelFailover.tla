---------------------------- MODULE ModelFailover ----------------------------
(***************************************************************************)
(* call_with_failover and RateBudget (src/app/llm/providers.py): concurrent*)
(* calls walk one ordered list of providers, skip the ones whose budget is *)
(* spent, fall over to the next on any exception, and as a last resort     *)
(* wait for the skipped provider that frees soonest.                       *)
(*                                                                         *)
(* Between two awaits (a model call, the sleep) a coroutine runs alone, so *)
(* the walk from one candidate to the next call is one step.  Clock values *)
(* are kept as what is left of them: a recorded start as the time until it *)
(* leaves the window, a block as the time until it ends.                   *)
(***************************************************************************)
EXTENDS Integers, Sequences, FiniteSets

CONSTANTS
  Calls,       \* concurrent calls of call_with_failover
  Last,        \* providers are 1..Last, in failover order
  Budgeted,    \* the providers with a RateBudget
  Limit,       \* provider -> per_minute
  Window,      \* the 60 seconds, in units of time
  MaxWait,     \* _MAX_BUDGET_WAIT_S
  Failures,    \* the kinds of failure that happen
  RetryIn,     \* the seconds a rate limit may ask to wait
  DailyBlock   \* _DAILY_QUOTA_BLOCK_S

Providers == 1..Last

ASSUME LastAssumption == Last \in Nat \ {0}
ASSUME BudgetedAssumption == Budgeted \subseteq Providers
ASSUME LimitAssumption == Limit \in [Providers -> Nat \ {0}]
ASSUME WindowAssumption == Window \in Nat \ {0}
ASSUME MaxWaitAssumption == MaxWait \in Nat
ASSUME FailuresAssumption == Failures \subseteq {"per_day", "rate_limit", "unhealthy", "this_call"}
ASSUME BlocksAssumption == RetryIn \subseteq Nat /\ DailyBlock \in Nat

VARIABLES
  starts,    \* provider -> what its budget recorded, oldest first
  sent,      \* provider -> the calls really begun, oldest first (history)
  blocked,   \* provider -> time its block lasts
  call,      \* caller -> its call
  overtaken  \* caller -> it waits, and its wait was cut at MaxWait or another call
             \* has used or parked the provider it waits for since (history)

vars == <<starts, sent, blocked, call, overtaken>>

\* A call: the provider it is at or waits for (0 for none), the candidates
\* skipped and failed so far, the sleep that is left.
CallRecords ==
  [at : {"idle", "calling", "waiting", "last"}, provider : 0..Last,
   skipped : SUBSET Providers, failed : SUBSET Providers, wait : 0..MaxWait,
   result : {"none", "answered", "unavailable", "cancelled"}]

NoCall == [at |-> "idle", provider |-> 0, skipped |-> {}, failed |-> {}, wait |-> 0,
           result |-> "none"]

TypeOK ==
  /\ starts \in [Providers -> Seq(1..Window)]
  /\ sent \in [Providers -> Seq(1..Window)]
  /\ blocked \in [Providers -> Nat]
  /\ call \in [Calls -> CallRecords]
  /\ overtaken \in [Calls -> BOOLEAN]

Init ==
  /\ starts = [p \in Providers |-> <<>>]
  /\ sent = [p \in Providers |-> <<>>]
  /\ blocked = [p \in Providers |-> 0]
  /\ call = [c \in Calls |-> NoCall]
  /\ overtaken = [c \in Calls |-> FALSE]

-----------------------------------------------------------------------------
(***************************************************************************)
(* RateBudget.                                                             *)
(***************************************************************************)
AtMost(limit, n) == IF n < limit THEN n ELSE limit
AtLeast(limit, n) == IF n > limit THEN n ELSE limit

\* try_acquire would say yes; a provider without a budget always accepts.
Accepts(p) == p \in Budgeted => blocked[p] = 0 /\ Len(starts[p]) < Limit[p]

\* try_acquire records the start when it says yes.
Recorded(p) ==
  IF p \in Budgeted /\ Accepts(p) THEN [starts EXCEPT ![p] = Append(@, Window)] ELSE starts

Sent(p) == IF p \in Budgeted THEN [sent EXCEPT ![p] = Append(@, Window)] ELSE sent

BlockFor(p, seconds) ==
  IF p \in Budgeted /\ seconds # 0 THEN [blocked EXCEPT ![p] = AtLeast(seconds, @)] ELSE blocked

\* What parks a provider, and for how long; 0 for None.  A rate limit that names
\* no wait, and an unhealthy provider, are given the 60 seconds of the window.
FailureBlockSeconds(failure) ==
  CASE failure = "per_day" -> {DailyBlock}
    [] failure = "rate_limit" -> {seconds + 1 : seconds \in RetryIn} \cup {Window}
    [] failure = "unhealthy" -> {Window}
    [] failure = "this_call" -> {0}

\* Mutant: the block is forgotten.
SecondsUntilFree_NoBlock(p) == IF Len(starts[p]) >= Limit[p] THEN Head(starts[p]) ELSE 0

SecondsUntilFree(p) ==
  AtLeast(blocked[p], IF Len(starts[p]) >= Limit[p] THEN Head(starts[p]) ELSE 0)

\* Mutant: a start never leaves the window.
Older_Kept(window) == [i \in 1..Len(window) |-> window[i] - 1]

\* _prune, at every unit of time.
Older(window) ==
  LET gone == Cardinality({i \in DOMAIN window : window[i] = 1})
  IN  [i \in 1..(Len(window) - gone) |-> window[i + gone] - 1]

-----------------------------------------------------------------------------
(***************************************************************************)
(* call_with_failover.                                                     *)
(***************************************************************************)
Foremost(S) == CHOOSE p \in S : \A q \in S : p <= q

Soonest(skipped) ==
  Foremost({p \in skipped : \A q \in skipped : SecondsUntilFree(p) <= SecondsUntilFree(q)})

Becomes(c, at, p, skipped, failed, wait, result) ==
  call' = [call EXCEPT ![c] = [at |-> at, provider |-> p, skipped |-> skipped,
                               failed |-> failed, wait |-> wait, result |-> result]]

\* The candidates from i on that would accept a call now.
FreeFrom(i) == {p \in Providers : p >= i /\ Accepts(p)}

From(i) == {p \in Providers : p >= i}

\* The next candidate with room is called; those before it are skipped.
CallNext(c, i, skipped, failed) ==
  /\ FreeFrom(i) # {}
  /\ LET p == Foremost(FreeFrom(i))
     IN  /\ Becomes(c, "calling", p, skipped \cup (From(i) \ From(p)), failed, 0, "none")
         /\ starts' = Recorded(p)
         /\ sent' = Sent(p)

\* The candidates are used up: wait for one that was skipped.
WaitForBudget(c, i, skipped, failed) ==
  /\ FreeFrom(i) = {}
  /\ skipped \cup From(i) # {}
  /\ LET p == Soonest(skipped \cup From(i))
     IN  Becomes(c, "waiting", p, skipped \cup From(i), failed, AtMost(MaxWait, SecondsUntilFree(p)), "none")
  /\ UNCHANGED <<starts, sent>>

\* None was skipped, all have failed.
GiveUp(c, i, skipped, failed) ==
  /\ skipped \cup From(i) = {}
  /\ Becomes(c, "idle", 0, skipped, failed, 0, "unavailable")
  /\ UNCHANGED <<starts, sent>>

Walk(c, i, skipped, failed) ==
  \/ CallNext(c, i, skipped, failed)
  \/ WaitForBudget(c, i, skipped, failed)
  \/ GiveUp(c, i, skipped, failed)

Begin(c) ==
  /\ call[c].at = "idle"
  /\ Walk(c, 1, {}, {})
  /\ UNCHANGED blocked

Answered(c) ==
  /\ call[c].at \in {"calling", "last"}
  /\ Becomes(c, "idle", call[c].provider, call[c].skipped, call[c].failed, 0, "answered")
  /\ UNCHANGED <<starts, sent, blocked>>

\* Mutant: after a failure the walk starts over.
Failed_FromTheTop(c) ==
  /\ call[c].at = "calling"
  /\ Walk(c, 1, call[c].skipped, call[c].failed \cup {call[c].provider})
  /\ \E failure \in Failures : \E seconds \in FailureBlockSeconds(failure) :
       blocked' = BlockFor(call[c].provider, seconds)

\* Any exception: park the provider if it says so, try the next candidate.
Failed(c) ==
  /\ call[c].at = "calling"
  /\ Walk(c, call[c].provider + 1, call[c].skipped, call[c].failed \cup {call[c].provider})
  /\ \E failure \in Failures : \E seconds \in FailureBlockSeconds(failure) :
       blocked' = BlockFor(call[c].provider, seconds)

\* The sleep is over: the answer of try_acquire is not looked at.
CallAnyway(c) ==
  /\ call[c].at = "waiting" /\ call[c].wait = 0
  /\ starts' = Recorded(call[c].provider)
  /\ sent' = Sent(call[c].provider)
  /\ call' = [call EXCEPT ![c].at = "last"]
  /\ UNCHANGED blocked

\* The last resort failed; nobody is parked, whatever the exception says.
FailedAnyway(c) ==
  /\ call[c].at = "last"
  /\ Becomes(c, "idle", 0, call[c].skipped, call[c].failed \cup {call[c].provider}, 0, "unavailable")
  /\ UNCHANGED <<starts, sent, blocked>>

\* The question's deadline cancels the coroutine at its await.
Cancelled(c) ==
  /\ call[c].at # "idle"
  /\ Becomes(c, "idle", 0, call[c].skipped, call[c].failed, 0, "cancelled")
  /\ UNCHANGED <<starts, sent, blocked>>

\* The walk looks at the clock before it sleeps; what other calls do to the
\* provider's budget while it sleeps, it does not see.
Overtakes(c) ==
  LET used == {p \in Providers : starts'[p] # starts[p] \/ blocked'[p] # blocked[p]}
  IN  overtaken' = [d \in Calls |->
        IF d = c
        THEN call'[c].at = "waiting" /\ SecondsUntilFree(call'[c].provider) > MaxWait
        ELSE overtaken[d] \/ (call[d].at = "waiting" /\ call[d].provider \in used)]

Tick ==
  /\ starts' = [p \in Providers |-> Older(starts[p])]
  /\ sent' = [p \in Providers |-> Older(sent[p])]
  /\ blocked' = [p \in Providers |-> IF blocked[p] > 0 THEN blocked[p] - 1 ELSE 0]
  /\ call' = [c \in Calls |-> [call[c] EXCEPT !.wait = IF @ > 0 THEN @ - 1 ELSE 0]]
  /\ UNCHANGED overtaken

Progress(c) ==
  /\ Answered(c) \/ Failed(c) \/ CallAnyway(c) \/ FailedAnyway(c)
  /\ Overtakes(c)

Next ==
  \/ \E c \in Calls : Progress(c) \/ ((Begin(c) \/ Cancelled(c)) /\ Overtakes(c))
  \/ Tick

Spec == Init /\ [][Next]_vars

\* Time passes, every model call has a timeout and every sleep ends; nothing
\* makes a caller begin or cancels it.
FairSpec == Spec /\ WF_vars(Tick) /\ \A c \in Calls : WF_vars(Progress(c))

-----------------------------------------------------------------------------
(***************************************************************************)
(* Properties.                                                             *)
(***************************************************************************)

\* Whatever other calls do to the budgets meanwhile, a provider is called in its
\* turn only when each one before it has failed or been skipped; a call waits only
\* when no provider is left to try, and gives up only when each has failed it or,
\* all but one of them, was out of budget (providers.py:195-236).
InFailoverOrder ==
  \A c \in Calls :
    LET k == call[c] IN
      /\ k.at = "calling" => k.skipped \cup k.failed = {p \in Providers : p < k.provider}
      /\ k.at \in {"waiting", "last"} =>
           k.skipped \cup k.failed = Providers /\ k.provider \in k.skipped \ k.failed
      /\ k.result = "unavailable" =>
           /\ k.skipped \cup k.failed = Providers
           /\ k.skipped # {} => k.skipped \cap k.failed # {}

\* A call that slept until the time seconds_until_free had named finds room, so
\* that its last resort is within the budget and recorded in it (providers.py:214-224):
\* try_acquire refuses it only if the sleep was cut at _MAX_BUDGET_WAIT_S, or
\* another call took the slot, or parked the provider, while it slept.
WaitedLongEnough ==
  \A c \in Calls :
    call[c].at = "waiting" /\ call[c].wait = 0 /\ ~overtaken[c] => Accepts(call[c].provider)

\* A call ends: each candidate is tried at most once, and one more at the end.
CallsEnd == \A c \in Calls : call[c].at # "idle" ~> call[c].at = "idle"

\* providers.py:52: "at most ``per_minute`` call starts in any 60 seconds".  A last
\* resort that is refused is sent and not recorded, so the next call in its turn
\* may exceed the limit as well.
WindowRespected == \A p \in Budgeted : Len(sent[p]) <= Limit[p]

\* providers.py:109: "Rate limits and unhealthy responses say something about the
\* provider, so they park it" (with Failures = {"per_day", "rate_limit", "unhealthy"}).
FailuresPark ==
  [][\A c \in Calls :
       (call[c].at \in {"calling", "last"} /\ call[c].provider \in Budgeted
          /\ call'[c].failed # call[c].failed) => blocked'[call[c].provider] > 0]_vars
=============================================================================
