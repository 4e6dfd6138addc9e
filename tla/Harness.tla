------------------------------- MODULE Harness -------------------------------
(***************************************************************************)
(* The components of the harness that share no state, side by side: a step *)
(* of the harness is a step of one of them, whichever comes.  A property   *)
(* of a component is its own, under its own name; a property of several is *)
(* one that they keep together.                                            *)
(***************************************************************************)
EXTENDS Integers

CONSTANTS
  Callers, Routed, Threshold, ResetTimeout, SuccessesToClose,        \* CircuitBreaker
  Attempts, RunTimeout, IdleTimeout,                                 \* TimeoutPolicy
  Criteria, Scores, Floor, NoFloor, MaxVerdicts,                     \* CriteriaScoring
  Configs, Default, Charges, LastTime, MaxAccrued,                   \* LeakyBucket
  MaxAttempts, InitialDelay, BackoffFactor, MaxDelay, Jitter, JitterParts,   \* Retry
  Confidences, MarginFloor, EarnedFloor, ConfidenceFloor,
  CapPart, CapWhole, MaxDecisions,                                   \* Escalation
  Validators, Weight, BarPart, BarWhole, MinValidators, FaultTolerance,      \* Quorum3f
  Ranked, Merit, Order, ColdUntil, MaxObservations,                  \* Router
  Ids, Processes, MaxOutcomes,                                       \* DurableLedger
  CallTimeout, Experts, BaseSlots, MinSlots, MaxSlots, Warmup, Latencies,
  Workers, AbortGrace,                                               \* Dispatch
  Specs, Mistyped, Entries, Grants, Ceiling, Target, LastDay, MaxChanges     \* HarnessProfile

VARIABLES
  state, failureCount, successCount, probeInFlight, sinceOpened, running, up,
  probes, strays, streak,
  inFlight, age, idle, progressAge, abandoned, settled, begun, finished, reported,
  firstBreach,
  verdicts, byId,
  now, config, tokens, lastRefillAt, spent, accrued, promise,
  attempt, decision, failure, delay, made,
  decisions, escalations, denied, reasons, uncertain,
  votes,
  earned, observations, closed, selected,
  table, ledger, loaded, doing, records, total, foreign, torn,
  calls, callAge, callIdle, callProgressAge, lost, landed, callBegun, callFinished,
  callReported, callFirstBreach,
  claimed, stranded, errors, samples, ewma, baseline,
  phase, live, swept, aborts, placed, working,
  layers, grants, today

breakerVars == <<state, failureCount, successCount, probeInFlight, sinceOpened, running, up,
                 probes, strays, streak>>
timeoutVars == <<inFlight, age, idle, progressAge, abandoned, settled, begun, finished,
                 reported, firstBreach>>
scoringVars == <<verdicts, byId>>
bucketVars == <<now, config, tokens, lastRefillAt, spent, accrued, promise>>
retryVars == <<attempt, decision, failure, delay, made>>
escalationVars == <<decisions, escalations, denied, reasons, uncertain>>
routerVars == <<earned, observations, closed, selected>>
reputationVars == <<table, ledger, loaded, doing, records, total, foreign, torn>>
dispatchVars == <<calls, callAge, callIdle, callProgressAge, lost, landed, callBegun,
                  callFinished, callReported, callFirstBreach,
                  claimed, stranded, errors, samples, ewma, baseline,
                  phase, live, swept, aborts, placed, working>>
profileVars == <<layers, grants, today>>
vars == <<breakerVars, timeoutVars, scoringVars, bucketVars, retryVars, escalationVars,
          votes, routerVars, reputationVars, dispatchVars, profileVars>>

Breaker == INSTANCE CircuitBreaker
Timeouts == INSTANCE TimeoutPolicy
Scoring == INSTANCE CriteriaScoring
Bucket == INSTANCE LeakyBucket
Retrying == INSTANCE Retry
Escalating == INSTANCE Escalation WITH Scores <- Confidences
Quorum == INSTANCE Quorum3f
Routing == INSTANCE Router WITH Experts <- Ranked
Reputation == INSTANCE DurableLedger
Profile == INSTANCE HarnessProfile

(* Its own policy and its own attempts, apart from those of Timeouts.      *)
Dispatching == INSTANCE Dispatch WITH
  RunTimeout <- CallTimeout,
  inFlight <- calls, age <- callAge, idle <- callIdle, progressAge <- callProgressAge,
  abandoned <- lost, settled <- landed, begun <- callBegun, finished <- callFinished,
  reported <- callReported, firstBreach <- callFirstBreach

ASSUME HarnessAssumption ==
  /\ Breaker!BreakerAssumption /\ Timeouts!TimeoutAssumption /\ Scoring!ScoringAssumption
  /\ Bucket!BucketAssumption /\ Retrying!RetryAssumption /\ Escalating!EscalationAssumption
  /\ Quorum!QuorumAssumption /\ Routing!RouterAssumption /\ Reputation!LedgerAssumption
  /\ Dispatching!DispatchAssumption /\ Profile!ProfileAssumption

Init ==
  /\ Breaker!Init /\ Timeouts!Init /\ Scoring!Init /\ Bucket!Init /\ Retrying!Init
  /\ Escalating!Init /\ Quorum!Init /\ Routing!Init /\ Reputation!Init
  /\ Dispatching!Init /\ Profile!Init

(* All but one stand still.                                                *)
Only(part) ==
  /\ part # "breaker" => UNCHANGED breakerVars
  /\ part # "timeouts" => UNCHANGED timeoutVars
  /\ part # "scoring" => UNCHANGED scoringVars
  /\ part # "bucket" => UNCHANGED bucketVars
  /\ part # "retry" => UNCHANGED retryVars
  /\ part # "escalation" => UNCHANGED escalationVars
  /\ part # "quorum" => UNCHANGED votes
  /\ part # "router" => UNCHANGED routerVars
  /\ part # "reputation" => UNCHANGED reputationVars
  /\ part # "dispatch" => UNCHANGED dispatchVars
  /\ part # "profile" => UNCHANGED profileVars

Step(part) ==
  \/ part = "breaker" /\ Only("breaker") /\ Breaker!Next
  \/ part = "timeouts" /\ Only("timeouts") /\ Timeouts!Next
  \/ part = "scoring" /\ Only("scoring") /\ Scoring!Next
  \/ part = "bucket" /\ Only("bucket") /\ Bucket!Next
  \/ part = "retry" /\ Only("retry") /\ Retrying!Next
  \/ part = "escalation" /\ Only("escalation") /\ Escalating!Next
  \/ part = "quorum" /\ Only("quorum") /\ Quorum!Next
  \/ part = "router" /\ Only("router") /\ Routing!Next
  \/ part = "reputation" /\ Only("reputation") /\ Reputation!Next
  \/ part = "dispatch" /\ Only("dispatch") /\ Dispatching!Next
  \/ part = "profile" /\ Only("profile") /\ Profile!Next

Parts == {"breaker", "timeouts", "scoring", "bucket", "retry", "escalation", "quorum",
          "router", "reputation", "dispatch", "profile"}

Next == \E part \in Parts : Step(part)

Spec == Init /\ [][Next]_vars

-----------------------------------------------------------------------------
(* The types of every component's state.                                   *)
TypeOK ==
  /\ Breaker!TypeOK /\ Timeouts!TypeOK /\ Scoring!TypeOK /\ Bucket!TypeOK /\ Retrying!TypeOK
  /\ Escalating!TypeOK /\ Quorum!TypeOK /\ Routing!TypeOK /\ Reputation!TypeOK
  /\ Dispatching!TypeOK /\ Profile!TypeOK

(* CircuitBreaker: the probe slot is taken by one call that will give it   *)
(* back.                                                                   *)
ProbeSlotIsSound == Breaker!ProbeSlotIsSound

(* CircuitBreaker: what opens a closed breaker is a streak of failures.    *)
ClosedCountsTheStreak == Breaker!ClosedCountsTheStreak

(* CircuitBreaker: an expert that came back is used again.                 *)
Recovers == Breaker!Recovers

(* TimeoutPolicy: one report and one settlement for each attempt given up  *)
(* on.                                                                     *)
GivenUpOnce == Timeouts!GivenUpOnce

(* TimeoutPolicy: the ledger blames the deadline that passed first.        *)
BlamesTheFirstDeadline == Timeouts!BlamesTheFirstDeadline

(* CriteriaScoring: neither an absent verdict nor a failed one is made up  *)
(* for by the rest.                                                        *)
NothingIsAveraged == Scoring!NothingIsAveraged

(* What bounds a caller does what it says: the bucket lets through what    *)
(* the burst and the time bring and keeps its retry-after; a retry waits   *)
(* no longer than the ceiling and its jitter, and gives up for the reason  *)
(* that holds; escalations stay under the cap, and every signal of doubt   *)
(* is answered by a panel or a denial.                                     *)
LimitsAreKept ==
  /\ Bucket!NoFreeCapacity /\ Bucket!RetryAfterIsKept
  /\ Retrying!WaitIsBounded /\ Retrying!GivesUpForTheRightReason
  /\ Escalating!SpendStaysUnderTheCap /\ Escalating!EverySignalIsAnswered

(* HarnessProfile: an agent only tightens, power is earned, and the        *)
(* organisation's ceiling is kept.                                         *)
ProfilesDoNotEscalate ==
  Profile!AgentsOnlyTighten /\ Profile!PowerIsEarned /\ Profile!CeilingIsKept

(* Quorum3f: one validator does not turn a commit into a rejection.        *)
OneFaultFlipsNothing == Quorum!OneFaultFlipsNothing

(* Router: an expert without a record gets one.                            *)
EveryNewcomerGetsARecord == Routing!EveryNewcomerGetsARecord

(* DurableLedger: only a stale holder takes observations back.             *)
RecordsAreKept == Reputation!HistoryIsErasedOnlyByStaleHolders

(* Dispatch: governor and policy agree on every slot, and what an expert   *)
(* works on is claimed or stranded.  DurableLedger: nobody claims          *)
(* observations that were not made.                                        *)
LedgersTellTheTruth ==
  Dispatching!LedgersAgree /\ Dispatching!NoPhantomSlot /\ Reputation!NothingIsInvented

(* Dispatch: no expert is handed a call it has no slot for.                *)
NeverOverloaded == Dispatching!NeverOverloaded

(* TimeoutPolicy and Dispatch: a call that only sends heartbeats leaves    *)
(* the fleet, and the slot lost to a hung call comes back.                 *)
NothingHangsForEver == Timeouts!HeartbeatsBuyNoTime /\ Dispatching!StrandedSlotsComeBack
=============================================================================
