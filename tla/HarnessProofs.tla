---------------------------- MODULE HarnessProofs ---------------------------
(***************************************************************************)
(* The harness as a whole: every component's specification is a part of    *)
(* its own, so that what the components keep it keeps.                     *)
(***************************************************************************)
EXTENDS FleetProofs, JudgementProofs

-----------------------------------------------------------------------------
(***************************************************************************)
(* A step of the harness is a step of a component or leaves it as it is,   *)
(* so that every component's specification is kept.                        *)
(***************************************************************************)


LEMMA BreakerIsAPart == Spec => Breaker!Spec
<1>1. Init => Breaker!Init
  BY DEF Init
<1>2. [Next]_vars => [Breaker!Next]_Breaker!vars
  BY DEF Next, Parts, Step, Only, vars, breakerVars, Breaker!vars, Breaker!record,
         Breaker!history
<1> QED BY <1>1, <1>2, PTL DEF Spec, Breaker!Spec

LEMMA TimeoutsIsAPart == Spec => Timeouts!Spec
<1>1. Init => Timeouts!Init
  BY DEF Init
<1>2. [Next]_vars => [Timeouts!Next]_Timeouts!vars
  BY DEF Next, Parts, Step, Only, vars, timeoutVars, Timeouts!vars, Timeouts!clocks,
         Timeouts!ledger, Timeouts!history
<1> QED BY <1>1, <1>2, PTL DEF Spec, Timeouts!Spec

LEMMA ScoringIsAPart == Spec => Scoring!Spec
<1>1. Init => Scoring!Init
  BY DEF Init
<1>2. [Next]_vars => [Scoring!Next]_Scoring!vars
  BY DEF Next, Parts, Step, Only, vars, scoringVars, Scoring!vars
<1> QED BY <1>1, <1>2, PTL DEF Spec, Scoring!Spec

LEMMA BucketIsAPart == Spec => Bucket!Spec
<1>1. Init => Bucket!Init
  BY DEF Init
<1>2. [Next]_vars => [Bucket!Next]_Bucket!vars
  BY DEF Next, Parts, Step, Only, vars, bucketVars, Bucket!vars, Bucket!bucket
<1> QED BY <1>1, <1>2, PTL DEF Spec, Bucket!Spec

LEMMA RetryingIsAPart == Spec => Retrying!Spec
<1>1. Init => Retrying!Init
  BY DEF Init
<1>2. [Next]_vars => [Retrying!Next]_Retrying!vars
  BY DEF Next, Parts, Step, Only, vars, retryVars, Retrying!vars
<1> QED BY <1>1, <1>2, PTL DEF Spec, Retrying!Spec

LEMMA EscalatingIsAPart == Spec => Escalating!Spec
<1>1. Init => Escalating!Init
  BY DEF Init
<1>2. [Next]_vars => [Escalating!Next]_Escalating!vars
  BY DEF Next, Parts, Step, Only, vars, escalationVars, Escalating!vars
<1> QED BY <1>1, <1>2, PTL DEF Spec, Escalating!Spec

LEMMA QuorumIsAPart == Spec => Quorum!Spec
<1>1. Init => Quorum!Init
  BY DEF Init
<1>2. [Next]_vars => [Quorum!Next]_Quorum!vars
  BY DEF Next, Parts, Step, Only, vars, Quorum!vars
<1> QED BY <1>1, <1>2, PTL DEF Spec, Quorum!Spec

LEMMA RoutingIsAPart == Spec => Routing!Spec
<1>1. Init => Routing!Init
  BY DEF Init
<1>2. [Next]_vars => [Routing!Next]_Routing!vars
  BY DEF Next, Parts, Step, Only, vars, routerVars, Routing!vars
<1> QED BY <1>1, <1>2, PTL DEF Spec, Routing!Spec

LEMMA ReputationIsAPart == Spec => Reputation!Spec
<1>1. Init => Reputation!Init
  BY DEF Init
<1>2. [Next]_vars => [Reputation!Next]_Reputation!vars
  BY DEF Next, Parts, Step, Only, vars, reputationVars, Reputation!vars,
         Reputation!memory
<1> QED BY <1>1, <1>2, PTL DEF Spec, Reputation!Spec

LEMMA DispatchingIsAPart == Spec => Dispatching!Spec
<1>1. Init => Dispatching!Init
  BY DEF Init
<1>2. [Next]_vars => [Dispatching!Next]_Dispatching!vars
  BY DEF Next, Parts, Step, Only, vars, dispatchVars, Dispatching!vars,
         Dispatching!timeoutVars, Dispatching!capacityVars, Dispatching!loopVars
<1> QED BY <1>1, <1>2, PTL DEF Spec, Dispatching!Spec

LEMMA ProfileIsAPart == Spec => Profile!Spec
<1>1. Init => Profile!Init
  BY DEF Init
<1>2. [Next]_vars => [Profile!Next]_Profile!vars
  BY DEF Next, Parts, Step, Only, vars, profileVars, Profile!vars
<1> QED BY <1>1, <1>2, PTL DEF Spec, Profile!Spec

-----------------------------------------------------------------------------
(* TypeOK: the state of every component has its type.                      *)
THEOREM HarnessTypeCorrect == Spec => []TypeOK
BY BreakerIsAPart, TimeoutsIsAPart, ScoringIsAPart, BucketIsAPart, RetryingIsAPart,
   EscalatingIsAPart, QuorumIsAPart, RoutingIsAPart, ReputationIsAPart,
   DispatchingIsAPart, ProfileIsAPart, BreakerTypeCorrect, TimeoutsTypeCorrect,
   ScoringTypeCorrect, BucketTypeCorrect, RetryingTypeCorrect, EscalatingTypeCorrect,
   QuorumTypeCorrect, RoutingTypeCorrect, ReputationTypeCorrect,
   DispatchingTypeCorrect, ProfileTypeCorrect, PTL DEF TypeOK

(* ProbeSlotIsSound: the probe slot of a half-open breaker is taken by     *)
(* one call that will give it back.                                        *)
THEOREM HarnessProbeSlot == Spec => []ProbeSlotIsSound
BY BreakerIsAPart, ProbeSlot, PTL DEF ProbeSlotIsSound

(* ClosedCountsTheStreak: what opens a closed breaker is a streak of       *)
(* failures.                                                               *)
THEOREM HarnessStreak == Spec => []ClosedCountsTheStreak
BY BreakerIsAPart, TripsOnAStreak, PTL DEF ClosedCountsTheStreak

(* GivenUpOnce: an attempt that was given up on is reported once and       *)
(* settled once.                                                           *)
THEOREM HarnessGivesUpOnce == Spec => []GivenUpOnce
BY TimeoutsIsAPart, OnceEach, PTL DEF GivenUpOnce

(* BlamesTheFirstDeadline: of two deadlines that passed, the first is      *)
(* reported.                                                               *)
THEOREM HarnessBlame == Spec => []BlamesTheFirstDeadline
BY TimeoutsIsAPart, BlameIsRight, PTL DEF BlamesTheFirstDeadline

(* NothingIsAveraged: one failed criterion fails the work, however good    *)
(* the rest is, and VERIFIED takes a verdict on each.                      *)
THEOREM HarnessNoAverage == Spec => []NothingIsAveraged
BY ScoringIsAPart, NoAverage, PTL DEF NothingIsAveraged

(* LimitsAreKept: the bucket, the retries and the escalation budget bound  *)
(* a caller as they say.                                                   *)
THEOREM HarnessLimits == Spec => []LimitsAreKept
BY BucketIsAPart, RetryingIsAPart, EscalatingIsAPart, TheLimitLimits, WaitingHelps,
   TheWaitIsBounded, TheReasonIsRight, TheCapHolds, SignalsAreAnswered, PTL DEF
   LimitsAreKept

(* LedgersTellTheTruth: the governor and the timeout policy agree on       *)
(* every slot, and no observation is invented.                             *)
THEOREM HarnessLedgers == Spec => []LedgersTellTheTruth
BY DispatchingIsAPart, ReputationIsAPart, NoDrift, WorkIsClaimed,
   NothingIsCountedTwice, PTL DEF LedgersTellTheTruth

(* ProfilesDoNotEscalate: an agent tightens its profile only, power is     *)
(* covered by a grant that counts, and the ceiling outranks it.            *)
THEOREM HarnessProfiles == Spec => []ProfilesDoNotEscalate
BY ProfileIsAPart, AgentsCannotLoosen, NoPowerWithoutEvidence, TheCeilingOutranks, PTL
   DEF ProfilesDoNotEscalate

(* OneFaultFlipsNothing: no validator within the shared weight turns a     *)
(* commit into a rejection.                                                *)
THEOREM HarnessQuorum == Spec => OneFaultFlipsNothing
BY QuorumIsAPart, OneFaultIsNotEnough, PTL DEF OneFaultFlipsNothing

(* RecordsAreKept: a row of the reputation table loses observations only   *)
(* to a holder that is stale or whose load was torn.                       *)
THEOREM HarnessRecords == Spec => RecordsAreKept
BY ReputationIsAPart, OnlyStaleHoldersErase, PTL DEF RecordsAreKept

(* NeverOverloaded: an expert is handed a call only when it has a slot     *)
(* for it.                                                                 *)
THEOREM HarnessRoom == Spec => NeverOverloaded
BY DispatchingIsAPart, RoomForEveryCall, PTL DEF NeverOverloaded
=============================================================================
