------------------------------- MODULE Retry -------------------------------
(***************************************************************************)
(* RetryPolicy.decide with the predicate retryIdleTimeoutsOnly, and a      *)
(* caller that does what it says.  Delays are counted in 1/JitterParts of  *)
(* the clock's unit, to keep the jittered ones whole; of the generator's   *)
(* range its ends and its middle are drawn.                                *)
(***************************************************************************)
EXTENDS Integers

CONSTANTS
  MaxAttempts,
  InitialDelay,
  BackoffFactor,
  MaxDelay,
  Jitter,        \* in JitterParts
  JitterParts

RetryAssumption ==
  /\ MaxAttempts \in Nat \ {0} /\ BackoffFactor \in Nat \ {0}
  /\ InitialDelay \in Nat /\ MaxDelay \in Nat
  /\ JitterParts \in Nat \ {0} /\ Jitter \in 0..JitterParts

Failures == {"idle", "run", "other"}

VARIABLES
  attempt,    \* the attempt in progress, or the last one
  decision,   \* "none" before the first failure
  failure,    \* what the last attempt failed of
  delay,      \* before the next attempt
  made        \* attempts begun (history)

vars == <<attempt, decision, failure, delay, made>>

TypeOK ==
  /\ attempt \in 1..(MaxAttempts + 1)
  /\ decision \in {"none", "retry", "not_retryable", "exhausted", "succeeded"}
  /\ failure \in Failures \cup {"none"}
  /\ delay \in Nat /\ made \in Nat

Init ==
  /\ attempt = 1 /\ made = 1
  /\ decision = "none" /\ failure = "none"
  /\ delay = 0

-----------------------------------------------------------------------------
Raw[n \in 1..MaxAttempts] == IF n = 1 THEN InitialDelay ELSE Raw[n - 1] * BackoffFactor

Capped(n) == IF Raw[n] < MaxDelay THEN Raw[n] ELSE MaxDelay

\* fault: the cap forgets the jitter's share, and the backoff
DelayForUncapped(n, draw) == Raw[n] * (JitterParts - Jitter + draw * Jitter)

(* draw: 0, 1 or 2 halves of the generator's range                         *)
DelayFor(n, draw) == Capped(n) * (JitterParts - Jitter + draw * Jitter)

RetryOn(f) == f = "idle"

\* fault: the budget is looked at first
DecisionBudgetFirst(f) ==
  IF attempt >= MaxAttempts THEN "exhausted"
  ELSE IF ~RetryOn(f) THEN "not_retryable" ELSE "retry"

Decision(f) ==
  IF ~RetryOn(f) THEN "not_retryable"
  ELSE IF attempt >= MaxAttempts THEN "exhausted" ELSE "retry"

Trying == decision \in {"none", "retry"} /\ made = attempt

Fail(f) ==
  /\ Trying
  /\ decision' = Decision(f)
  /\ failure' = f
  /\ \E draw \in 0..2 :
       /\ attempt' = IF Decision(f) = "retry" THEN attempt + 1 ELSE attempt
       /\ delay' = IF Decision(f) = "retry" THEN DelayFor(attempt, draw) ELSE 0
  /\ UNCHANGED made

(* The caller waits and tries again.                                       *)
Again ==
  /\ decision = "retry" /\ made < attempt
  /\ made' = attempt
  /\ delay' = 0
  /\ UNCHANGED <<attempt, decision, failure>>

Succeed ==
  /\ Trying
  /\ decision' = "succeeded"
  /\ UNCHANGED <<attempt, failure, delay, made>>

Done == decision \notin {"none", "retry"} /\ UNCHANGED vars

Next == (\E f \in Failures : Fail(f)) \/ Again \/ Succeed \/ Done

Spec == Init /\ [][Next]_vars

-----------------------------------------------------------------------------
(* Giving up says why, also when both reasons hold at once: a budget that  *)
(* ran out is named only for a failure another attempt could have mended,  *)
(* and only once it was all used; no retry follows any other failure.      *)
GivesUpForTheRightReason ==
  /\ made <= MaxAttempts
  /\ decision = "exhausted" => failure = "idle" /\ made = MaxAttempts
  /\ decision = "not_retryable" => failure # "idle"
  /\ decision = "retry" => failure = "idle"

(* The wait is never longer than the ceiling and the jitter on it, however *)
(* many attempts have failed.  (It may be longer than the ceiling.)        *)
WaitIsBounded == delay <= MaxDelay * (JitterParts + Jitter)
=============================================================================
