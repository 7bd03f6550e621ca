--------------------------- MODULE CircuitBreaker ---------------------------
(***************************************************************************)
(* The circuit breaker in front of an external service                     *)
(* (src/app/tools/circuit_breaker.py): its three fields, the state derived *)
(* from them, and one action per method.  Whoever calls it composes these  *)
(* actions with its own; no method awaits, so each is one step.            *)
(*                                                                         *)
(* Time passes in units of which Recovery make recovery_s.  Only whether   *)
(* recovery_s has elapsed matters, so the time since _opened_at is kept    *)
(* and stops at Recovery; so does the failure count at Threshold.          *)
(***************************************************************************)
EXTENDS Integers

CONSTANTS
  Threshold,   \* failure_threshold
  Recovery     \* recovery_s, in units of time

ASSUME ThresholdAssumption == Threshold \in Nat \ {0}
ASSUME RecoveryAssumption == Recovery \in Nat \ {0}

VARIABLES
  failures,     \* _failures, up to Threshold
  open_for,     \* time since _opened_at, up to Recovery; NotOpened for None
  probing,      \* _probing
  since_probe   \* time since a probe was last let through, up to Recovery (history)

breaker == <<failures, open_for, probing, since_probe>>

NotOpened == -1

UpTo(limit, n) == IF n < limit THEN n ELSE limit

BreakerTypeOK ==
  /\ failures \in 0..Threshold
  /\ open_for \in {NotOpened} \cup 0..Recovery
  /\ probing \in BOOLEAN
  /\ since_probe \in 0..Recovery

BreakerInit ==
  /\ failures = 0
  /\ open_for = NotOpened
  /\ probing = FALSE
  /\ since_probe = Recovery

-----------------------------------------------------------------------------
IsClosed == open_for = NotOpened

HalfOpen == open_for = Recovery

\* allow() answers yes, without more when closed, taking the probe when half-open.
PassClosed == IsClosed /\ UNCHANGED breaker

PassAsProbe ==
  /\ HalfOpen /\ ~probing
  /\ probing' = TRUE
  /\ since_probe' = 0
  /\ UNCHANGED <<failures, open_for>>

\* allow() answers no.
Refuses == ~IsClosed /\ ~(HalfOpen /\ ~probing)

\* Mutant: the breaker closes but remembers the failures.
RecordSuccess_KeepsCount ==
  /\ open_for' = NotOpened
  /\ probing' = FALSE
  /\ UNCHANGED <<failures, since_probe>>

RecordSuccess ==
  /\ failures' = 0
  /\ open_for' = NotOpened
  /\ probing' = FALSE
  /\ UNCHANGED since_probe

\* Mutant: a failed probe does not start another window.
RecordFailure_WindowOnce ==
  /\ failures' = UpTo(Threshold, failures + 1)
  /\ IF probing \/ failures + 1 >= Threshold
     THEN /\ open_for' = IF open_for = NotOpened THEN 0 ELSE open_for
          /\ probing' = FALSE
     ELSE UNCHANGED <<open_for, probing>>
  /\ UNCHANGED since_probe

\* Mutant: a failed probe stays in flight for ever.
RecordFailure_ProbeStays ==
  /\ failures' = UpTo(Threshold, failures + 1)
  /\ IF probing \/ failures + 1 >= Threshold THEN open_for' = 0 ELSE UNCHANGED open_for
  /\ UNCHANGED <<probing, since_probe>>

RecordFailure ==
  /\ failures' = UpTo(Threshold, failures + 1)
  /\ IF probing \/ failures + 1 >= Threshold
     THEN open_for' = 0 /\ probing' = FALSE
     ELSE UNCHANGED <<open_for, probing>>
  /\ UNCHANGED since_probe

\* One unit of time.
BreakerAges ==
  /\ open_for' = IF IsClosed THEN NotOpened ELSE UpTo(Recovery, open_for + 1)
  /\ since_probe' = UpTo(Recovery, since_probe + 1)
  /\ UNCHANGED <<failures, probing>>
=============================================================================
