--------------------------- MODULE CircuitBreaker ---------------------------
(***************************************************************************)
(* src/lib/trustshell/harness/circuit-breaker.ts: the breaker of one       *)
(* expert, shared by concurrent callers.  Experts share nothing, so one    *)
(* record is enough.                                                       *)
(*                                                                         *)
(* execute() awaits primary(): what happens before the await is Admit or   *)
(* Divert, what happens after it is Succeed or Fail, and anything may run  *)
(* in between.  The fallback touches no breaker state and is left out, so  *)
(* a diverted call is over at once.                                        *)
(*                                                                         *)
(* sinceOpened is now - openedAt, counted while open up to ResetTimeout,   *)
(* and failureCount stops at Threshold: the code compares both, no more.   *)
(***************************************************************************)
EXTENDS Integers

CONSTANTS
  Callers,            \* concurrent users of the breaker
  Routed,             \* those that ask isOpen and record, as the simulator does
  Threshold,          \* cfg.thresholdFailures
  ResetTimeout,       \* cfg.resetTimeoutMs, in clock ticks
  SuccessesToClose    \* cfg.successesToClose

BreakerAssumption ==
  /\ Routed \subseteq Callers
  /\ Threshold \in Nat \ {0}
  /\ ResetTimeout \in Nat \ {0}
  /\ SuccessesToClose \in Nat \ {0}

VARIABLES
  state,           \* r.state
  failureCount,    \* r.failureCount
  successCount,    \* r.successCount
  probeInFlight,   \* r.probeInFlight
  sinceOpened,     \* now - r.openedAt
  running,         \* the callers whose primary() has not settled
  up,              \* whether the expert is answering (environment)
  probes,          \* running calls admitted in this half-open period (history)
  strays,          \* a call that held no claim settled in this period (history)
  streak           \* failures recorded since the last success (history)

record == <<state, failureCount, successCount, probeInFlight, sinceOpened>>
history == <<probes, strays, streak>>
vars == <<record, running, up, history>>

BreakerStates == {"closed", "open", "half_open"}

AtMost(n, limit) == IF n > limit THEN limit ELSE n

Init ==
  /\ state = "closed"
  /\ failureCount = 0
  /\ successCount = 0
  /\ probeInFlight = FALSE
  /\ sinceOpened = 0
  /\ running = {}
  /\ up = TRUE
  /\ probes = {}
  /\ strays = FALSE
  /\ streak = 0

-----------------------------------------------------------------------------
(* maybeHalfOpen opens every operation: the record as it is after it.      *)

Ripe == state = "open" /\ sinceOpened >= ResetTimeout

StateNow == IF Ripe THEN "half_open" ELSE state

\* fault: every operation zeroes the successes
SuccessesForgotten == 0

SuccessesNow == IF Ripe THEN 0 ELSE successCount

ProbeNow == probeInFlight /\ ~Ripe

IsOpen == StateNow = "open" \/ (StateNow = "half_open" /\ ProbeNow)

(* The history starts afresh with each half-open period.                   *)
HalfOpenHistory(P, s) ==
  /\ probes' = IF state' = "half_open" THEN P ELSE {}
  /\ strays' = (state' = "half_open" /\ s)

-----------------------------------------------------------------------------
(* The calls.                                                              *)

\* fault: the probe is let through unclaimed
SlotNotClaimed == ProbeNow

(* The probe slot after claimProbe has let a call through.                 *)
SlotClaimed == ProbeNow \/ StateNow = "half_open"

(* execute up to the await: isOpen, then claimProbe.                       *)
Admit(c) ==
  /\ c \in Callers \ (Routed \cup running)
  /\ ~IsOpen
  /\ state' = StateNow
  /\ successCount' = SuccessesNow
  /\ probeInFlight' = SlotClaimed
  /\ sinceOpened' = IF Ripe THEN 0 ELSE sinceOpened
  /\ running' = running \cup {c}
  /\ HalfOpenHistory(probes \cup {c}, strays)
  /\ UNCHANGED <<failureCount, up, streak>>

(* The router's gate: isOpen, and then the task is dispatched.             *)
Dispatch(c) ==
  /\ c \in Routed \ running
  /\ ~IsOpen
  /\ state' = StateNow
  /\ successCount' = SuccessesNow
  /\ probeInFlight' = ProbeNow
  /\ sinceOpened' = IF Ripe THEN 0 ELSE sinceOpened
  /\ running' = running \cup {c}
  /\ HalfOpenHistory(probes \cup {c}, strays)
  /\ UNCHANGED <<failureCount, up, streak>>

(* state(), view(), and every call that is turned away.                    *)
Divert ==
  /\ state' = StateNow
  /\ successCount' = SuccessesNow
  /\ probeInFlight' = ProbeNow
  /\ sinceOpened' = IF Ripe THEN 0 ELSE sinceOpened
  /\ HalfOpenHistory(probes, strays)
  /\ UNCHANGED <<failureCount, running, up, streak>>

(* Does a success recorded now close the breaker?                          *)
Closes == StateNow # "half_open" \/ SuccessesNow + 1 >= SuccessesToClose

\* fault: closing keeps the failure count
FailuresKept == failureCount

FailuresAfterSuccess == IF Closes THEN 0 ELSE failureCount

\* fault: a result does not give the slot back
SlotKept == ProbeNow

(* Any result gives the slot back, whoever's it is.                        *)
SlotReleased == FALSE

(* recordSuccess                                                           *)
Succeed(c) ==
  /\ c \in running
  /\ up
  /\ probeInFlight' = SlotReleased
  /\ state' = IF Closes THEN "closed" ELSE "half_open"
  /\ failureCount' = FailuresAfterSuccess
  /\ successCount' = IF StateNow = "half_open"
                     THEN SuccessesNow + 1 ELSE SuccessesNow
  /\ sinceOpened' = 0
  /\ running' = running \ {c}
  /\ HalfOpenHistory(probes \ {c}, strays \/ c \notin probes \ Routed)
  /\ streak' = 0
  /\ UNCHANGED up

(* Does a failure recorded now open it?                                    *)
Opens == StateNow = "half_open" \/ failureCount + 1 >= Threshold

(* recordFailure                                                           *)
Fail(c) ==
  /\ c \in running
  /\ ~up
  /\ probeInFlight' = SlotReleased
  /\ state' = IF Opens THEN "open" ELSE StateNow
  /\ failureCount' = AtMost(failureCount + 1, Threshold)
  /\ successCount' = IF Opens THEN 0 ELSE SuccessesNow
  /\ sinceOpened' = IF Opens THEN 0 ELSE sinceOpened
  /\ running' = running \ {c}
  /\ HalfOpenHistory({}, FALSE)
  /\ streak' = AtMost(streak + 1, Threshold)
  /\ UNCHANGED up

-----------------------------------------------------------------------------
(* The operator, the clock and the expert itself.                          *)

Trip ==
  /\ ~up
  /\ state' = "open"
  /\ sinceOpened' = 0
  /\ successCount' = 0
  /\ probeInFlight' = FALSE
  /\ HalfOpenHistory({}, FALSE)
  /\ UNCHANGED <<failureCount, running, up, streak>>

Reset ==
  /\ state' = "closed"
  /\ failureCount' = 0
  /\ successCount' = 0
  /\ probeInFlight' = FALSE
  /\ sinceOpened' = 0
  /\ HalfOpenHistory({}, FALSE)
  /\ streak' = 0
  /\ UNCHANGED <<running, up>>

Tick ==
  /\ state = "open"
  /\ sinceOpened' = AtMost(sinceOpened + 1, ResetTimeout)
  /\ UNCHANGED <<state, failureCount, successCount, probeInFlight, running, up, history>>

ExpertChanges ==
  /\ up' = ~up
  /\ UNCHANGED <<record, running, history>>

Settle(c) == Succeed(c) \/ Fail(c)

Next ==
  \/ \E c \in Callers : Admit(c) \/ Dispatch(c) \/ Settle(c)
  \/ Divert
  \/ Trip
  \/ Reset
  \/ Tick
  \/ ExpertChanges

Spec == Init /\ [][Next]_vars

(* The clock runs, callers keep calling, and every primary() settles.      *)
Fairness ==
  /\ WF_vars(Tick)
  /\ \A c \in Callers : WF_vars(Admit(c) \/ Dispatch(c)) /\ WF_vars(Settle(c))

FairSpec == Spec /\ Fairness

-----------------------------------------------------------------------------
(* Types of the record, the calls and the history. *)
TypeOK ==
  /\ state \in BreakerStates
  /\ failureCount \in 0..Threshold
  /\ successCount \in 0..SuccessesToClose
  /\ probeInFlight \in BOOLEAN
  /\ sinceOpened \in 0..ResetTimeout
  /\ running \subseteq Callers
  /\ up \in BOOLEAN
  /\ probes \subseteq running
  /\ strays \in BOOLEAN
  /\ streak \in 0..Threshold

(* "HALF-OPEN ADMITS ONE PROBE AT A TIME" (circuit-breaker.ts 14).         *)
OneProbeAtATime == \A c, d \in probes : c = d

(* An open breaker that has not waited its reset timeout is not closed by  *)
(* the result of a call (circuit-breaker.ts 31: resetTimeoutMs is "How     *)
(* long an open breaker waits before admitting a probe").                  *)
ResetTimeoutIsWaited ==
  [][state = "open" /\ sinceOpened < ResetTimeout /\ running' # running
       => state' # "closed"]_vars

(* Once the expert answers for good, its breaker ends up closed for good.  *)
Recovers == <>[]up => <>[](state = "closed")

(* A claimed probe slot always belongs to a call that is still running, in *)
(* a breaker that is half-open: no sequence of trips, resets and late      *)
(* results leaves the slot taken by nobody, which would turn every caller  *)
(* away for good.                                                          *)
ClaimHasAnOwner ==
  probeInFlight => state = "half_open" /\ probes # {}

(* While only calls that claimed the slot settle, half-open admits one     *)
(* call of execute at a time.                                              *)
OneProbeUnlessStray ==
  ~strays => \A c, d \in probes \ Routed : c = d

(* The probe slot is taken by one call that will give it back.             *)
ProbeSlotIsSound == ClaimHasAnOwner /\ OneProbeUnlessStray

(* A closed breaker counts the failures since the last success, and is     *)
(* below its threshold: what opens it is that many failures in a row, with *)
(* no success in between, whatever half-open periods came before.          *)
ClosedCountsTheStreak ==
  state = "closed" => failureCount = streak /\ failureCount < Threshold
=============================================================================
