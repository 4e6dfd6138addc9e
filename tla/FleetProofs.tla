----------------------------- MODULE FleetProofs ----------------------------
(***************************************************************************)
(* What stands between a caller and an expert: the breaker, the timeouts,  *)
(* the dispatcher, the rate limit, the retries and the router, for any     *)
(* values of their constants.                                              *)
(***************************************************************************)
EXTENDS Harness, Sequences, FiniteSums

-----------------------------------------------------------------------------
(***************************************************************************)
(* The breaker's invariants, for any callers and any thresholds.           *)
(***************************************************************************)

LEMMA BreakerConstants ==
  /\ Routed \subseteq Callers
  /\ Threshold \in Nat \ {0}
  /\ ResetTimeout \in Nat \ {0}
  /\ SuccessesToClose \in Nat \ {0}
BY HarnessAssumption DEF Breaker!BreakerAssumption

(* A probe that is running while nothing stray has settled still owns the  *)
(* claim: that is why a second one is refused.                             *)
ProbesAreClaimed == ~strays /\ probes \ Routed # {} => probeInFlight

(* Between half-open periods there is no history of one.                   *)
HistoryIsOfThisPeriod == state # "half_open" => probes = {} /\ ~strays

(* In half-open a success too few has been counted to close the breaker.   *)
SuccessesStillMissing == state = "half_open" => successCount < SuccessesToClose

BreakerIInv ==
  /\ Breaker!TypeOK
  /\ SuccessesStillMissing
  /\ HistoryIsOfThisPeriod
  /\ Breaker!ClaimHasAnOwner
  /\ Breaker!ClosedCountsTheStreak
  /\ ProbesAreClaimed
  /\ Breaker!OneProbeUnlessStray

(* TypeOK in two halves, for provers that do arithmetic or Booleans.       *)
Counts ==
  /\ state \in Breaker!BreakerStates
  /\ failureCount \in 0..Threshold
  /\ successCount \in 0..SuccessesToClose
  /\ sinceOpened \in 0..ResetTimeout
  /\ streak \in 0..Threshold

Flags ==
  /\ probeInFlight \in BOOLEAN
  /\ running \subseteq Callers
  /\ up \in BOOLEAN
  /\ probes \subseteq running
  /\ strays \in BOOLEAN

LEMMA BreakerTypeHalves == Breaker!TypeOK <=> Counts /\ Flags
BY DEF Breaker!TypeOK, Counts, Flags

LEMMA BreakerInitEstablishes == Breaker!Init => BreakerIInv
<1> SUFFICES ASSUME Breaker!Init PROVE BreakerIInv
  OBVIOUS
<1>1. Counts /\ SuccessesStillMissing /\ Breaker!ClosedCountsTheStreak
  BY BreakerConstants
     DEF Breaker!Init, Counts, Breaker!BreakerStates, SuccessesStillMissing,
        Breaker!ClosedCountsTheStreak
<1>2. Flags
  BY DEF Breaker!Init, Flags
<1>3. /\ HistoryIsOfThisPeriod /\ Breaker!ClaimHasAnOwner
      /\ ProbesAreClaimed /\ Breaker!OneProbeUnlessStray
  BY DEF Breaker!Init, HistoryIsOfThisPeriod, Breaker!ClaimHasAnOwner, ProbesAreClaimed,
         Breaker!OneProbeUnlessStray
<1> QED BY <1>1, <1>2, <1>3, BreakerTypeHalves DEF BreakerIInv

LEMMA CountsStep ==
  Counts /\ SuccessesStillMissing /\ [Breaker!Next]_Breaker!vars =>
    Counts' /\ SuccessesStillMissing'
<1> SUFFICES ASSUME Counts, SuccessesStillMissing, [Breaker!Next]_Breaker!vars
             PROVE  Counts' /\ SuccessesStillMissing'
  OBVIOUS
<1> USE BreakerConstants DEF Counts, SuccessesStillMissing, Breaker!BreakerStates
<1>1. ASSUME NEW c \in Callers, Breaker!Admit(c) \/ Breaker!Dispatch(c)
      PROVE  Counts' /\ SuccessesStillMissing'
  <2>1. /\ state' = Breaker!StateNow
        /\ successCount' = Breaker!SuccessesNow
        /\ sinceOpened' = IF Breaker!Ripe THEN 0 ELSE sinceOpened
        /\ UNCHANGED <<failureCount, streak>>
    BY <1>1 DEF Breaker!Admit, Breaker!Dispatch
  <2> QED BY <2>1 DEF Breaker!StateNow, Breaker!SuccessesNow, Breaker!Ripe
<1>2. CASE Breaker!Divert
  <2>1. /\ state' = Breaker!StateNow
        /\ successCount' = Breaker!SuccessesNow
        /\ sinceOpened' = IF Breaker!Ripe THEN 0 ELSE sinceOpened
        /\ UNCHANGED <<failureCount, streak>>
    BY <1>2 DEF Breaker!Divert
  <2> QED BY <2>1 DEF Breaker!StateNow, Breaker!SuccessesNow, Breaker!Ripe
<1>3. ASSUME NEW c \in Callers, Breaker!Succeed(c)
      PROVE  Counts' /\ SuccessesStillMissing'
  <2>1. /\ state' = IF Breaker!Closes THEN "closed" ELSE "half_open"
        /\ failureCount' = Breaker!FailuresAfterSuccess
        /\ successCount' = IF Breaker!StateNow = "half_open"
                           THEN Breaker!SuccessesNow + 1 ELSE Breaker!SuccessesNow
        /\ sinceOpened' = 0 /\ streak' = 0
    BY <1>3 DEF Breaker!Succeed
  <2>2. successCount' \in 0..SuccessesToClose
    BY <2>1 DEF Breaker!StateNow, Breaker!SuccessesNow, Breaker!Ripe
  <2>3. SuccessesStillMissing'
    BY <2>1 DEF Breaker!Closes, Breaker!StateNow, Breaker!SuccessesNow, Breaker!Ripe
  <2> QED BY <2>1, <2>2, <2>3 DEF Breaker!FailuresAfterSuccess
<1>4. ASSUME NEW c \in Callers, Breaker!Fail(c)
      PROVE  Counts' /\ SuccessesStillMissing'
  <2>1. /\ state' = IF Breaker!Opens THEN "open" ELSE Breaker!StateNow
        /\ failureCount' = Breaker!AtMost(failureCount + 1, Threshold)
        /\ successCount' = IF Breaker!Opens THEN 0 ELSE Breaker!SuccessesNow
        /\ sinceOpened' = IF Breaker!Opens THEN 0 ELSE sinceOpened
        /\ streak' = Breaker!AtMost(streak + 1, Threshold)
    BY <1>4 DEF Breaker!Fail
  <2> QED BY <2>1 DEF Breaker!Opens, Breaker!StateNow, Breaker!SuccessesNow, Breaker!Ripe,
             Breaker!AtMost
<1>5. CASE Breaker!Trip \/ Breaker!Reset
  <2>1. /\ state' \in {"open", "closed"}
        /\ successCount' = 0 /\ sinceOpened' = 0
        /\ failureCount' \in {0, failureCount} /\ streak' \in {0, streak}
    BY <1>5 DEF Breaker!Trip, Breaker!Reset
  <2> QED BY <2>1
<1>6. CASE Breaker!Tick
  <2>1. /\ sinceOpened' = Breaker!AtMost(sinceOpened + 1, ResetTimeout)
        /\ UNCHANGED <<state, failureCount, successCount, streak>>
    BY <1>6 DEF Breaker!Tick, Breaker!history
  <2> QED BY <2>1 DEF Breaker!AtMost
<1>7. CASE Breaker!ExpertChanges \/ UNCHANGED Breaker!vars
  <2>1. UNCHANGED <<state, failureCount, successCount, sinceOpened, streak>>
    BY <1>7 DEF Breaker!ExpertChanges, Breaker!vars, Breaker!record, Breaker!history
  <2> QED BY <2>1
<1> QED BY <1>1, <1>2, <1>3, <1>4, <1>5, <1>6, <1>7 DEF Breaker!Next, Breaker!Settle

LEMMA FlagsStep == Flags /\ [Breaker!Next]_Breaker!vars => Flags'
<1> SUFFICES ASSUME Flags, [Breaker!Next]_Breaker!vars PROVE Flags'
  OBVIOUS
<1> USE DEF Flags, Breaker!HalfOpenHistory
<1>1. ASSUME NEW c \in Callers, Breaker!Admit(c) PROVE Flags'
  BY <1>1 DEF Breaker!Admit, Breaker!SlotClaimed, Breaker!ProbeNow
<1>2. ASSUME NEW c \in Callers, Breaker!Dispatch(c) PROVE Flags'
  BY <1>2 DEF Breaker!Dispatch, Breaker!ProbeNow
<1>3. CASE Breaker!Divert
  BY <1>3 DEF Breaker!Divert, Breaker!ProbeNow
<1>4. ASSUME NEW c \in Callers, Breaker!Succeed(c) PROVE Flags'
  BY <1>4 DEF Breaker!Succeed, Breaker!SlotReleased
<1>5. ASSUME NEW c \in Callers, Breaker!Fail(c) PROVE Flags'
  BY <1>5 DEF Breaker!Fail, Breaker!SlotReleased
<1>6. CASE Breaker!Trip \/ Breaker!Reset
  BY <1>6 DEF Breaker!Trip, Breaker!Reset
<1>7. CASE Breaker!Tick \/ Breaker!ExpertChanges \/ UNCHANGED Breaker!vars
  BY <1>7 DEF Breaker!Tick, Breaker!ExpertChanges, Breaker!vars, Breaker!record,
     Breaker!history
<1> QED BY <1>1, <1>2, <1>3, <1>4, <1>5, <1>6, <1>7 DEF Breaker!Next, Breaker!Settle

LEMMA StreakStep ==
  Counts /\ Breaker!ClosedCountsTheStreak /\ [Breaker!Next]_Breaker!vars =>
    Breaker!ClosedCountsTheStreak'
<1> SUFFICES ASSUME Counts, Breaker!ClosedCountsTheStreak, [Breaker!Next]_Breaker!vars
             PROVE  Breaker!ClosedCountsTheStreak'
  OBVIOUS
<1> USE BreakerConstants DEF Counts, Breaker!BreakerStates, Breaker!ClosedCountsTheStreak
<1>1. ASSUME NEW c \in Callers, Breaker!Admit(c) \/ Breaker!Dispatch(c)
      PROVE  Breaker!ClosedCountsTheStreak'
  <2>1. state' = Breaker!StateNow /\ UNCHANGED <<failureCount, streak>>
    BY <1>1 DEF Breaker!Admit, Breaker!Dispatch
  <2> QED BY <2>1 DEF Breaker!StateNow
<1>2. CASE Breaker!Divert
  <2>1. state' = Breaker!StateNow /\ UNCHANGED <<failureCount, streak>>
    BY <1>2 DEF Breaker!Divert
  <2> QED BY <2>1 DEF Breaker!StateNow
<1>3. ASSUME NEW c \in Callers, Breaker!Succeed(c) PROVE Breaker!ClosedCountsTheStreak'
  <2>1. /\ state' = IF Breaker!Closes THEN "closed" ELSE "half_open"
        /\ failureCount' = Breaker!FailuresAfterSuccess /\ streak' = 0
    BY <1>3 DEF Breaker!Succeed
  <2> QED BY <2>1 DEF Breaker!FailuresAfterSuccess
<1>4. ASSUME NEW c \in Callers, Breaker!Fail(c) PROVE Breaker!ClosedCountsTheStreak'
  <2>1. /\ state' = IF Breaker!Opens THEN "open" ELSE Breaker!StateNow
        /\ failureCount' = Breaker!AtMost(failureCount + 1, Threshold)
        /\ streak' = Breaker!AtMost(streak + 1, Threshold)
    BY <1>4 DEF Breaker!Fail
  <2> QED BY <2>1 DEF Breaker!Opens, Breaker!StateNow, Breaker!Ripe, Breaker!AtMost
<1>5. CASE Breaker!Trip \/ Breaker!Reset
  <2>1. state' = "open" \/ (failureCount' = 0 /\ streak' = 0)
    BY <1>5 DEF Breaker!Trip, Breaker!Reset
  <2> QED BY <2>1
<1>6. CASE Breaker!Tick \/ Breaker!ExpertChanges \/ UNCHANGED Breaker!vars
  <2>1. UNCHANGED <<state, failureCount, streak>>
    BY <1>6 DEF Breaker!Tick, Breaker!ExpertChanges, Breaker!vars, Breaker!record,
       Breaker!history
  <2> QED BY <2>1
<1> QED BY <1>1, <1>2, <1>3, <1>4, <1>5, <1>6 DEF Breaker!Next, Breaker!Settle

(* The history and the claim move together.                                *)
ProbeInv ==
  /\ HistoryIsOfThisPeriod
  /\ Breaker!ClaimHasAnOwner
  /\ ProbesAreClaimed
  /\ Breaker!OneProbeUnlessStray

LEMMA ProbeStep == BreakerIInv /\ [Breaker!Next]_Breaker!vars => ProbeInv'
<1> SUFFICES ASSUME BreakerIInv, [Breaker!Next]_Breaker!vars PROVE ProbeInv'
  OBVIOUS
<1> USE DEF BreakerIInv, ProbeInv, Breaker!TypeOK, Breaker!BreakerStates,
      HistoryIsOfThisPeriod,
            Breaker!ClaimHasAnOwner, ProbesAreClaimed, Breaker!OneProbeUnlessStray,
            Breaker!HalfOpenHistory
<1>1. ASSUME NEW c \in Callers, Breaker!Admit(c) PROVE ProbeInv'
  BY <1>1 DEF Breaker!Admit, Breaker!IsOpen, Breaker!SlotClaimed, Breaker!StateNow,
     Breaker!ProbeNow, Breaker!Ripe
<1>2. ASSUME NEW c \in Callers, Breaker!Dispatch(c) PROVE ProbeInv'
  BY <1>2 DEF Breaker!Dispatch, Breaker!IsOpen, Breaker!StateNow, Breaker!ProbeNow,
     Breaker!Ripe
<1>3. CASE Breaker!Divert
  BY <1>3 DEF Breaker!Divert, Breaker!StateNow, Breaker!ProbeNow, Breaker!Ripe
<1>4. ASSUME NEW c \in Callers, Breaker!Succeed(c) PROVE ProbeInv'
  BY <1>4 DEF Breaker!Succeed, Breaker!SlotReleased
<1>5. ASSUME NEW c \in Callers, Breaker!Fail(c) PROVE ProbeInv'
  BY <1>5 DEF Breaker!Fail, Breaker!SlotReleased, Breaker!Opens, Breaker!StateNow,
     Breaker!Ripe
<1>6. CASE Breaker!Trip \/ Breaker!Reset
  BY <1>6 DEF Breaker!Trip, Breaker!Reset
<1>7. CASE Breaker!Tick \/ Breaker!ExpertChanges \/ UNCHANGED Breaker!vars
  BY <1>7 DEF Breaker!Tick, Breaker!ExpertChanges, Breaker!vars, Breaker!record,
     Breaker!history
<1> QED BY <1>1, <1>2, <1>3, <1>4, <1>5, <1>6, <1>7 DEF Breaker!Next, Breaker!Settle

(* The strengthened invariant holds in every reachable state.              *)
THEOREM BreakerInvariance == Breaker!Spec => []BreakerIInv
<1>1. Breaker!Init => BreakerIInv
  BY BreakerInitEstablishes
<1>2. BreakerIInv /\ [Breaker!Next]_Breaker!vars => BreakerIInv'
  <2> SUFFICES ASSUME BreakerIInv, [Breaker!Next]_Breaker!vars PROVE BreakerIInv'
    OBVIOUS
  <2>1. Counts' /\ SuccessesStillMissing' /\ Flags' /\ Breaker!ClosedCountsTheStreak'
    BY BreakerTypeHalves, CountsStep, FlagsStep, StreakStep DEF BreakerIInv
  <2>2. Breaker!TypeOK'
    BY <2>1 DEF Breaker!TypeOK, Counts, Flags
  <2> QED BY <2>1, <2>2, ProbeStep DEF BreakerIInv, ProbeInv
<1> QED BY <1>1, <1>2, PTL DEF Breaker!Spec

(* The record, the calls and the history keep their types.                 *)
THEOREM BreakerTypeCorrect == Breaker!Spec => []Breaker!TypeOK
<1>1. BreakerIInv => Breaker!TypeOK
  BY DEF BreakerIInv
<1> QED BY <1>1, BreakerInvariance, PTL

(* The half-open slot is never left claimed with no probe running: the     *)
(* breaker cannot lock an expert out for good.                             *)
THEOREM NoLeakedClaim == Breaker!Spec => []Breaker!ClaimHasAnOwner
<1>1. BreakerIInv => Breaker!ClaimHasAnOwner
  BY DEF BreakerIInv
<1> QED BY <1>1, BreakerInvariance, PTL

(* Among callers of execute, half-open admits one at a time as long as no  *)
(* call that did not claim the slot settles in it.                         *)
THEOREM OneProbe == Breaker!Spec => []Breaker!OneProbeUnlessStray
<1>1. BreakerIInv => Breaker!OneProbeUnlessStray
  BY DEF BreakerIInv
<1> QED BY <1>1, BreakerInvariance, PTL

(* A closed breaker opens only on a run of failures with no success in it. *)
THEOREM TripsOnAStreak == Breaker!Spec => []Breaker!ClosedCountsTheStreak
<1>1. BreakerIInv => Breaker!ClosedCountsTheStreak
  BY DEF BreakerIInv
<1> QED BY <1>1, BreakerInvariance, PTL

(* The slot has an owner, and with no stray result it has one at a time.   *)
THEOREM ProbeSlot == Breaker!Spec => []Breaker!ProbeSlotIsSound
<1>1. BreakerIInv => Breaker!ProbeSlotIsSound
  BY DEF BreakerIInv, Breaker!ProbeSlotIsSound
<1> QED BY <1>1, BreakerInvariance, PTL

-----------------------------------------------------------------------------
(***************************************************************************)
(* The timeout policy's invariants, for any attempts and any deadlines.    *)
(***************************************************************************)

LEMMA TimeoutConstants == RunTimeout \in Nat \ {0} /\ IdleTimeout \in 1..RunTimeout
BY HarnessAssumption DEF Timeouts!TimeoutAssumption

(* The component counts with the library's definition.                     *)
LEMMA TimeoutsCardinality == \A S : Timeouts!Cardinality(S) = Cardinality(S)
BY DEF Timeouts!Cardinality, Cardinality, Timeouts!IsFiniteSet, IsFiniteSet

(* Attempts in flight, finished and given up on are kept apart.            *)
TimeoutsApart ==
  /\ IsFiniteSet(begun)
  /\ inFlight \subseteq begun
  /\ finished \subseteq begun
  /\ inFlight \cap finished = {}
  /\ DOMAIN abandoned \subseteq begun \ (inFlight \cup finished)

(* The three clocks of an attempt are one clock read three ways, up to the *)
(* age at which they stop.                                                 *)
ClocksAgree ==
  \A a \in Attempts :
    /\ a \notin begun => age[a] = 0 /\ idle[a] = 0 /\ progressAge[a] = 0
    /\ progressAge[a] <= age[a]
    /\ age[a] < RunTimeout => idle[a] = Timeouts!AtMost(age[a] - progressAge[a], IdleTimeout)
    /\ age[a] = RunTimeout =>
         idle[a] >= Timeouts!AtMost(RunTimeout - progressAge[a], IdleTimeout)

(* What the clocks still show tells which deadline passed first.           *)
BreachIsLegible ==
  \A a \in Attempts :
    /\ a \notin begun => firstBreach[a] = "none"
    /\ a \in inFlight =>
         firstBreach[a] = IF Timeouts!RunBreached(a) \/ Timeouts!IdleBreached(a)
           THEN Timeouts!KindOf(a) ELSE "none"

Types ==
  /\ inFlight \subseteq Attempts
  /\ age \in [Attempts -> 0..RunTimeout]
  /\ idle \in [Attempts -> 0..IdleTimeout]
  /\ progressAge \in [Attempts -> 0..RunTimeout]
  /\ begun \subseteq Attempts
  /\ finished \subseteq Attempts
  /\ reported \in [Attempts -> Nat]
  /\ firstBreach \in [Attempts -> Timeouts!Kinds \cup {"none"}]

LedgerTypes ==
  /\ DOMAIN abandoned \subseteq Attempts
  /\ abandoned \in [DOMAIN abandoned -> Timeouts!Kinds]
  /\ settled \in [Timeouts!Dispositions -> Nat]

LEMMA TimeoutsTypeHalves == Timeouts!TypeOK <=> Types /\ LedgerTypes
BY DEF Timeouts!TypeOK, Types, LedgerTypes

TimeoutsIInv ==
  /\ Types
  /\ LedgerTypes
  /\ TimeoutsApart
  /\ ClocksAgree
  /\ BreachIsLegible
  /\ Timeouts!SurfacedOnce
  /\ Timeouts!BlamesTheFirstDeadline
  /\ Timeouts!AbandonedAreAccountedFor

LEMMA ExpiredInFlight == Timeouts!Expired \subseteq inFlight
BY DEF Timeouts!Expired

LEMMA TimeoutsInitEstablishes == Timeouts!Init => TimeoutsIInv
<1> SUFFICES ASSUME Timeouts!Init PROVE TimeoutsIInv
  OBVIOUS
<1> USE TimeoutConstants DEF Timeouts!Init
<1>1. Types /\ LedgerTypes
  BY DEF Types, LedgerTypes, Timeouts!Kinds, Timeouts!Dispositions
<1>2. TimeoutsApart
  BY FS_EmptySet DEF TimeoutsApart
<1>3. ClocksAgree /\ BreachIsLegible
  BY DEF ClocksAgree, BreachIsLegible, Timeouts!AtMost
<1>4. Timeouts!SurfacedOnce /\ Timeouts!BlamesTheFirstDeadline
  BY DEF Timeouts!SurfacedOnce, Timeouts!BlamesTheFirstDeadline
<1>5. Timeouts!AbandonedAreAccountedFor
  <2>1. begun \ (inFlight \cup finished) = {} /\ DOMAIN abandoned = {}
    OBVIOUS
  <2>2. Cardinality({}) = 0
    BY FS_EmptySet
  <2> QED BY <2>1, <2>2, TimeoutsCardinality
            DEF Timeouts!AbandonedAreAccountedFor, Timeouts!Dispositions
<1> QED BY <1>1, <1>2, <1>3, <1>4, <1>5 DEF TimeoutsIInv

LEMMA TypesStep == Types /\ [Timeouts!Next]_Timeouts!vars => Types'
<1> SUFFICES ASSUME Types, [Timeouts!Next]_Timeouts!vars PROVE Types'
  OBVIOUS
<1> USE TimeoutConstants DEF Types, Timeouts!clocks, Timeouts!ledger, Timeouts!history
<1>1. ASSUME NEW a \in Attempts, Timeouts!Begin(a) PROVE Types'
  BY <1>1 DEF Timeouts!Begin
<1>2. ASSUME NEW a \in Attempts, Timeouts!Heartbeat(a) PROVE Types'
  BY <1>2 DEF Timeouts!Heartbeat, Timeouts!AgeAfterHeartbeat, Timeouts!Kinds
<1>3. ASSUME NEW a \in Attempts, Timeouts!Complete(a) PROVE Types'
  BY <1>3 DEF Timeouts!Complete
<1>4. ASSUME NEW a \in Attempts, NEW d \in Timeouts!Dispositions, Timeouts!Settle(a, d)
      PROVE  Types'
  BY <1>4 DEF Timeouts!Settle
<1>5. CASE Timeouts!Sweep
  BY <1>5 DEF Timeouts!Sweep, Timeouts!InFlightAfterSweep
<1>6. CASE Timeouts!Tick
  BY <1>6 DEF Timeouts!Tick, Timeouts!AtMost, Timeouts!Kinds
<1>7. CASE UNCHANGED Timeouts!vars
  BY <1>7 DEF Timeouts!vars
<1> QED BY <1>1, <1>2, <1>3, <1>4, <1>5, <1>6, <1>7 DEF Timeouts!Next

LEMMA LedgerTypesStep == Types /\ LedgerTypes /\ [Timeouts!Next]_Timeouts!vars => LedgerTypes'
<1> SUFFICES ASSUME Types, LedgerTypes, [Timeouts!Next]_Timeouts!vars PROVE LedgerTypes'
  OBVIOUS
<1> USE DEF LedgerTypes, Timeouts!ledger, Timeouts!history, Timeouts!clocks
<1>1. ASSUME NEW a \in Attempts, NEW d \in Timeouts!Dispositions, Timeouts!SettleLedger(a, d)
      PROVE  LedgerTypes'
  BY <1>1 DEF Timeouts!SettleLedger
<1>2. ASSUME NEW a \in Attempts, Timeouts!Complete(a) PROVE LedgerTypes'
  <2>1. "returned_late" \in Timeouts!Dispositions
    BY DEF Timeouts!Dispositions
  <2> QED BY <1>1, <1>2, <2>1 DEF Timeouts!Complete
<1>3. CASE Timeouts!Sweep
  BY <1>3, ExpiredInFlight DEF Timeouts!Sweep, Timeouts!KindOf, Timeouts!Kinds, Types
<1>4. CASE UNCHANGED Timeouts!ledger
  BY <1>4
<1> QED BY <1>1, <1>2, <1>3, <1>4
          DEF Timeouts!Next, Timeouts!Begin, Timeouts!Heartbeat, Timeouts!Settle,
             Timeouts!Tick, Timeouts!vars

LEMMA ApartStep == TimeoutsApart /\ [Timeouts!Next]_Timeouts!vars => TimeoutsApart'
<1> SUFFICES ASSUME TimeoutsApart, [Timeouts!Next]_Timeouts!vars PROVE TimeoutsApart'
  OBVIOUS
<1> USE DEF TimeoutsApart, Timeouts!clocks, Timeouts!ledger, Timeouts!history
<1>1. ASSUME NEW a \in Attempts, Timeouts!Begin(a) PROVE TimeoutsApart'
  BY <1>1, FS_AddElement DEF Timeouts!Begin
<1>2. ASSUME NEW a \in Attempts, NEW d \in Timeouts!Dispositions, Timeouts!SettleLedger(a, d)
      PROVE  DOMAIN abandoned' \subseteq DOMAIN abandoned
  BY <1>2 DEF Timeouts!SettleLedger
<1>3. ASSUME NEW a \in Attempts, Timeouts!Complete(a) PROVE TimeoutsApart'
  <2>1. "returned_late" \in Timeouts!Dispositions
    BY DEF Timeouts!Dispositions
  <2> QED BY <1>2, <1>3, <2>1 DEF Timeouts!Complete
<1>4. ASSUME NEW a \in Attempts, NEW d \in Timeouts!Dispositions, Timeouts!Settle(a, d)
      PROVE  TimeoutsApart'
  BY <1>2, <1>4 DEF Timeouts!Settle
<1>5. CASE Timeouts!Sweep
  BY <1>5, ExpiredInFlight DEF Timeouts!Sweep, Timeouts!InFlightAfterSweep
<1>6. ASSUME NEW a \in Attempts, Timeouts!Heartbeat(a) PROVE TimeoutsApart'
  BY <1>6 DEF Timeouts!Heartbeat
<1>7. CASE Timeouts!Tick \/ UNCHANGED Timeouts!vars
  BY <1>7 DEF Timeouts!Tick, Timeouts!vars
<1> QED BY <1>1, <1>3, <1>4, <1>5, <1>6, <1>7 DEF Timeouts!Next

LEMMA ClocksStep ==
  Types /\ TimeoutsApart /\ ClocksAgree /\ [Timeouts!Next]_Timeouts!vars => ClocksAgree'
<1> SUFFICES ASSUME Types, TimeoutsApart, ClocksAgree, [Timeouts!Next]_Timeouts!vars
             PROVE  ClocksAgree'
  OBVIOUS
<1> USE TimeoutConstants DEF Types, TimeoutsApart, ClocksAgree, Timeouts!clocks,
      Timeouts!ledger, Timeouts!history
<1>1. ASSUME NEW a \in Attempts, Timeouts!Begin(a) PROVE ClocksAgree'
  BY <1>1 DEF Timeouts!Begin
<1>2. ASSUME NEW a \in Attempts, Timeouts!Heartbeat(a) PROVE ClocksAgree'
  <2> SUFFICES ASSUME NEW b \in Attempts
               PROVE  /\ b \notin begun => age[b]' = 0 /\ idle[b]' = 0 /\ progressAge[b]' = 0
                      /\ progressAge[b]' <= age[b]'
                      /\ age[b]' < RunTimeout =>
                           idle[b]' = Timeouts!AtMost(age[b]' - progressAge[b]', IdleTimeout)
                      /\ age[b]' = RunTimeout =>
                           idle[b]' >= Timeouts!AtMost(RunTimeout - progressAge[b]', IdleTimeout)
    BY <1>2 DEF Timeouts!Heartbeat
  <2>1. age[b]' = age[b]
    BY <1>2 DEF Timeouts!Heartbeat, Timeouts!AgeAfterHeartbeat
  <2>2. CASE b = a
    BY <1>2, <2>1, <2>2 DEF Timeouts!Heartbeat, Timeouts!AtMost
  <2>3. CASE b # a
    BY <1>2, <2>1, <2>3 DEF Timeouts!Heartbeat
  <2> QED BY <2>2, <2>3
<1>3. CASE Timeouts!Tick
  <2> SUFFICES ASSUME NEW b \in Attempts
               PROVE  /\ b \notin begun => age[b]' = 0 /\ idle[b]' = 0 /\ progressAge[b]' = 0
                      /\ progressAge[b]' <= age[b]'
                      /\ age[b]' < RunTimeout =>
                           idle[b]' = Timeouts!AtMost(age[b]' - progressAge[b]', IdleTimeout)
                      /\ age[b]' = RunTimeout =>
                           idle[b]' >= Timeouts!AtMost(RunTimeout - progressAge[b]', IdleTimeout)
    BY <1>3 DEF Timeouts!Tick
  <2>1. /\ age[b]' = IF b \in inFlight THEN Timeouts!AtMost(age[b] + 1, RunTimeout)
             ELSE age[b]
        /\ idle[b]' = IF b \in inFlight THEN Timeouts!AtMost(idle[b] + 1, IdleTimeout)
             ELSE idle[b]
        /\ progressAge[b]' = progressAge[b]
    BY <1>3 DEF Timeouts!Tick
  <2> QED BY <2>1 DEF Timeouts!AtMost
<1>4. CASE UNCHANGED Timeouts!clocks /\ begun' = begun
  BY <1>4
<1> QED BY <1>1, <1>2, <1>3, <1>4
          DEF Timeouts!Next, Timeouts!Complete, Timeouts!Settle, Timeouts!Sweep, Timeouts!vars

LEMMA BreachStep ==
  Types /\ TimeoutsApart /\ ClocksAgree /\ BreachIsLegible /\ [Timeouts!Next]_Timeouts!vars =>
    BreachIsLegible'
<1> SUFFICES ASSUME Types, TimeoutsApart, ClocksAgree, BreachIsLegible,
                    [Timeouts!Next]_Timeouts!vars
             PROVE  BreachIsLegible'
  OBVIOUS
<1> USE TimeoutConstants
    DEF Types, TimeoutsApart, BreachIsLegible, Timeouts!RunBreached, Timeouts!IdleBreached,
       Timeouts!KindOf, Timeouts!clocks, Timeouts!ledger, Timeouts!history
<1>1. ASSUME NEW a \in Attempts, Timeouts!Begin(a) PROVE BreachIsLegible'
  BY <1>1 DEF Timeouts!Begin, ClocksAgree
<1>2. ASSUME NEW a \in Attempts, Timeouts!Heartbeat(a) PROVE BreachIsLegible'
  <2> SUFFICES ASSUME NEW b \in Attempts, b \in inFlight
               PROVE  firstBreach[b]' =
                        IF Timeouts!RunBreached(b)' \/ Timeouts!IdleBreached(b)'
                          THEN Timeouts!KindOf(b)' ELSE "none"
    BY <1>2 DEF Timeouts!Heartbeat
  <2>1. CASE b = a
    <3>1. /\ age[b]' = age[b] /\ idle[b]' = 0
          /\ firstBreach[b]' = IF age[b] >= RunTimeout THEN "run" ELSE "none"
      BY <1>2, <2>1 DEF Timeouts!Heartbeat, Timeouts!AgeAfterHeartbeat
    <3> QED BY <3>1
  <2>2. CASE b # a
    <3>1. /\ age[b]' = age[b] /\ idle[b]' = idle[b] /\ progressAge[b]' = progressAge[b]
          /\ firstBreach[b]' = firstBreach[b]
      BY <1>2, <2>2 DEF Timeouts!Heartbeat, Timeouts!AgeAfterHeartbeat
    <3> QED BY <3>1
  <2> QED BY <2>1, <2>2
<1>3. CASE Timeouts!Tick
  <2> SUFFICES ASSUME NEW b \in Attempts
               PROVE  /\ b \notin begun => firstBreach[b]' = "none"
                      /\ b \in inFlight => firstBreach[b]' =
                           IF Timeouts!RunBreached(b)' \/ Timeouts!IdleBreached(b)'
                             THEN Timeouts!KindOf(b)' ELSE "none"
    BY <1>3 DEF Timeouts!Tick
  <2>1. CASE b \notin inFlight
    BY <1>3, <2>1 DEF Timeouts!Tick
  <2>2. CASE b \in inFlight
    <3>1. /\ age[b]' = Timeouts!AtMost(age[b] + 1, RunTimeout)
          /\ idle[b]' = Timeouts!AtMost(idle[b] + 1, IdleTimeout)
          /\ progressAge[b]' = progressAge[b]
      BY <1>3, <2>2 DEF Timeouts!Tick
    <3>2. firstBreach[b]' = IF firstBreach[b] # "none" THEN firstBreach[b]
                            ELSE IF idle[b]' = IdleTimeout THEN "idle"
                            ELSE IF age[b]' = RunTimeout THEN "run" ELSE "none"
      BY <1>3, <2>2, <3>1 DEF Timeouts!Tick
    <3>3. /\ progressAge[b] <= age[b]
          /\ age[b] < RunTimeout =>
               idle[b] = Timeouts!AtMost(age[b] - progressAge[b], IdleTimeout)
          /\ age[b] = RunTimeout =>
               idle[b] >= Timeouts!AtMost(RunTimeout - progressAge[b], IdleTimeout)
      BY DEF ClocksAgree
    <3>4. /\ age[b] \in 0..RunTimeout /\ idle[b] \in 0..IdleTimeout
          /\ progressAge[b] \in 0..RunTimeout
      OBVIOUS
    <3>5. firstBreach[b] = IF age[b] >= RunTimeout \/ idle[b] >= IdleTimeout
                           THEN Timeouts!KindOf(b) ELSE "none"
      BY <2>2
    <3>6. b \in begun
      BY <2>2
    <3> QED BY <3>1, <3>2, <3>3, <3>4, <3>5, <3>6 DEF Timeouts!AtMost
  <2> QED BY <2>1, <2>2
<1>4. CASE UNCHANGED <<Timeouts!clocks, firstBreach, begun>> /\ inFlight' \subseteq inFlight
  BY <1>4
<1>5. ASSUME NEW a \in Attempts, NEW d \in Timeouts!Dispositions, Timeouts!Settle(a, d)
      PROVE  BreachIsLegible'
  BY <1>4, <1>5 DEF Timeouts!Settle
<1>6. ASSUME NEW a \in Attempts, Timeouts!Complete(a) PROVE BreachIsLegible'
  BY <1>4, <1>6 DEF Timeouts!Complete
<1>7. CASE Timeouts!Sweep \/ UNCHANGED Timeouts!vars
  BY <1>4, <1>7 DEF Timeouts!Sweep, Timeouts!InFlightAfterSweep, Timeouts!vars
<1> QED BY <1>1, <1>2, <1>3, <1>5, <1>6, <1>7 DEF Timeouts!Next

LEMMA SurfacedStep ==
  Types /\ TimeoutsApart /\ Timeouts!SurfacedOnce /\ [Timeouts!Next]_Timeouts!vars =>
    Timeouts!SurfacedOnce'
<1> SUFFICES ASSUME Types, TimeoutsApart, Timeouts!SurfacedOnce, [Timeouts!Next]_Timeouts!vars
             PROVE  Timeouts!SurfacedOnce'
  OBVIOUS
<1> USE DEF Types, TimeoutsApart, Timeouts!SurfacedOnce, Timeouts!clocks, Timeouts!ledger,
      Timeouts!history
<1>1. ASSUME NEW a \in Attempts, Timeouts!Begin(a) PROVE Timeouts!SurfacedOnce'
  BY <1>1 DEF Timeouts!Begin
<1>2. ASSUME NEW a \in Attempts, Timeouts!Complete(a) PROVE Timeouts!SurfacedOnce'
  BY <1>2 DEF Timeouts!Complete
<1>3. CASE Timeouts!Sweep
  BY <1>3, ExpiredInFlight DEF Timeouts!Sweep, Timeouts!InFlightAfterSweep
<1>4. CASE UNCHANGED <<inFlight, begun, finished, reported>>
  BY <1>4
<1> QED BY <1>1, <1>2, <1>3, <1>4
          DEF Timeouts!Next, Timeouts!Heartbeat, Timeouts!Settle, Timeouts!Tick, Timeouts!vars

LEMMA BlameStep ==
  /\ Types /\ TimeoutsApart /\ BreachIsLegible /\ Timeouts!BlamesTheFirstDeadline
  /\ [Timeouts!Next]_Timeouts!vars
  => Timeouts!BlamesTheFirstDeadline'
<1> SUFFICES ASSUME Types, TimeoutsApart, BreachIsLegible, Timeouts!BlamesTheFirstDeadline,
                    [Timeouts!Next]_Timeouts!vars
             PROVE  Timeouts!BlamesTheFirstDeadline'
  OBVIOUS
<1> USE DEF Types, TimeoutsApart, Timeouts!BlamesTheFirstDeadline, Timeouts!clocks,
      Timeouts!ledger, Timeouts!history
<1>1. ASSUME NEW a \in Attempts, NEW d \in Timeouts!Dispositions, Timeouts!SettleLedger(a, d),
             firstBreach' = firstBreach
      PROVE  Timeouts!BlamesTheFirstDeadline'
  BY <1>1 DEF Timeouts!SettleLedger
<1>2. ASSUME NEW a \in Attempts, Timeouts!Complete(a) PROVE Timeouts!BlamesTheFirstDeadline'
  <2>1. "returned_late" \in Timeouts!Dispositions
    BY DEF Timeouts!Dispositions
  <2> QED BY <1>1, <1>2, <2>1 DEF Timeouts!Complete
<1>3. ASSUME NEW a \in Attempts, NEW d \in Timeouts!Dispositions, Timeouts!Settle(a, d)
      PROVE  Timeouts!BlamesTheFirstDeadline'
  BY <1>1, <1>3 DEF Timeouts!Settle
<1>4. CASE Timeouts!Sweep
  <2>1. \A a \in Timeouts!Expired : firstBreach[a] = Timeouts!KindOf(a)
    BY DEF Timeouts!Expired, BreachIsLegible
  <2> QED BY <1>4, <2>1 DEF Timeouts!Sweep
<1>5. ASSUME NEW a \in Attempts, Timeouts!Heartbeat(a) PROVE Timeouts!BlamesTheFirstDeadline'
  BY <1>5 DEF Timeouts!Heartbeat
<1>6. CASE Timeouts!Tick
  BY <1>6 DEF Timeouts!Tick
<1>7. CASE UNCHANGED <<abandoned, firstBreach>>
  BY <1>7
<1> QED BY <1>2, <1>3, <1>4, <1>5, <1>6, <1>7 DEF Timeouts!Next, Timeouts!Begin, Timeouts!vars

GivenUp == begun \ (inFlight \cup finished)
Settlements ==
  settled["confirmed_dead"] + settled["returned_late"] + settled["presumed_dead"]

LEMMA GivenUpIsFinite ==
  TimeoutsApart =>
    IsFiniteSet(GivenUp) /\ IsFiniteSet(DOMAIN abandoned) /\ IsFiniteSet(Timeouts!Expired)
BY FS_Subset, ExpiredInFlight DEF TimeoutsApart, GivenUp

(* One settlement takes at most one attempt off the ledger and counts it.  *)
LEMMA SettlementCounts ==
  ASSUME LedgerTypes, TimeoutsApart, NEW a \in Attempts, NEW d \in Timeouts!Dispositions,
         Timeouts!SettleLedger(a, d)
  PROVE  Cardinality(DOMAIN abandoned') + Settlements' =
           Cardinality(DOMAIN abandoned) + Settlements
<1>1. DOMAIN abandoned' = DOMAIN abandoned \ {a}
  BY DEF Timeouts!SettleLedger
<1>2. IsFiniteSet(DOMAIN abandoned)
  BY GivenUpIsFinite
<1>3. CASE a \in DOMAIN abandoned
  <2>1. settled' = [settled EXCEPT ![d] = @ + 1]
    BY <1>3 DEF Timeouts!SettleLedger
  <2>2. Settlements' = Settlements + 1
    BY <2>1 DEF Settlements, LedgerTypes, Timeouts!Dispositions
  <2>3. Cardinality(DOMAIN abandoned') = Cardinality(DOMAIN abandoned) - 1
    BY <1>1, <1>2, <1>3, FS_RemoveElement
  <2>4. Cardinality(DOMAIN abandoned) \in Nat /\ Settlements \in Nat
    BY <1>2, FS_CardinalityType DEF Settlements, LedgerTypes, Timeouts!Dispositions
  <2> QED BY <2>2, <2>3, <2>4
<1>4. CASE a \notin DOMAIN abandoned
  <2>1. DOMAIN abandoned' = DOMAIN abandoned /\ settled' = settled
    BY <1>1, <1>4 DEF Timeouts!SettleLedger
  <2> QED BY <2>1 DEF Settlements
<1> QED BY <1>3, <1>4

LEMMA AccountStep ==
  Types /\ LedgerTypes /\ TimeoutsApart /\ Timeouts!AbandonedAreAccountedFor
    /\ [Timeouts!Next]_Timeouts!vars
    => Timeouts!AbandonedAreAccountedFor'
<1> SUFFICES ASSUME Types, LedgerTypes, TimeoutsApart, Timeouts!AbandonedAreAccountedFor,
                    [Timeouts!Next]_Timeouts!vars
             PROVE  Timeouts!AbandonedAreAccountedFor'
  OBVIOUS
<1> DEFINE Balanced == Cardinality(GivenUp) = Cardinality(DOMAIN abandoned) + Settlements
<1>1. Balanced
  <2>1. Settlements = settled["confirmed_dead"] + settled["returned_late"]
                        + settled["presumed_dead"]
    BY DEF Settlements
  <2>2. Cardinality(DOMAIN abandoned) \in Nat
    BY GivenUpIsFinite, FS_CardinalityType
  <2> QED BY <2>1, <2>2, TimeoutsCardinality
         DEF Timeouts!AbandonedAreAccountedFor, GivenUp, LedgerTypes, Timeouts!Dispositions
<1>2. TimeoutsApart'
  BY ApartStep
<1>3. SUFFICES Balanced'
  <2>1. LedgerTypes'
    BY LedgerTypesStep
  <2>2. Cardinality(DOMAIN abandoned)' \in Nat
    BY <1>2, FS_CardinalityType, FS_Subset DEF TimeoutsApart
  <2> QED BY <1>2, <1>3, <2>1, <2>2, TimeoutsCardinality
          DEF Timeouts!AbandonedAreAccountedFor, GivenUp, Settlements, LedgerTypes,
             Timeouts!Dispositions, TimeoutsApart
<1>4. ASSUME GivenUp' = GivenUp, UNCHANGED Timeouts!ledger PROVE Balanced'
  <2>1. DOMAIN abandoned' = DOMAIN abandoned /\ Settlements' = Settlements
    BY <1>4 DEF Timeouts!ledger, Settlements
  <2> QED BY <1>1, <1>4, <2>1
<1>5. ASSUME NEW a \in Attempts, NEW d \in Timeouts!Dispositions, Timeouts!SettleLedger(a, d),
             GivenUp' = GivenUp
      PROVE  Balanced'
  <2> HIDE DEF Settlements
  <2> QED BY <1>1, <1>5, SettlementCounts
<1>6. ASSUME NEW a \in Attempts, Timeouts!Begin(a) PROVE Balanced'
  <2>1. GivenUp' = GivenUp /\ UNCHANGED Timeouts!ledger
    BY <1>6 DEF Timeouts!Begin, GivenUp, TimeoutsApart, Timeouts!history, Timeouts!ledger
  <2> QED BY <1>4, <2>1
<1>7. ASSUME NEW a \in Attempts, Timeouts!Complete(a) PROVE Balanced'
  <2>1. CASE a \in inFlight
    <3>1. GivenUp' = GivenUp /\ UNCHANGED Timeouts!ledger
      BY <1>7, <2>1 DEF Timeouts!Complete, GivenUp, TimeoutsApart
    <3> QED BY <1>4, <3>1
  <2>2. CASE a \notin inFlight
    <3>1. GivenUp' = GivenUp /\ Timeouts!SettleLedger(a, "returned_late")
      BY <1>7, <2>2 DEF Timeouts!Complete, GivenUp
    <3> QED BY <1>5, <3>1 DEF Timeouts!Dispositions
  <2> QED BY <2>1, <2>2
<1>8. ASSUME NEW a \in Attempts, NEW d \in Timeouts!Dispositions, Timeouts!Settle(a, d)
      PROVE  Balanced'
  <2>1. GivenUp' = GivenUp /\ Timeouts!SettleLedger(a, d)
    BY <1>8 DEF Timeouts!Settle, GivenUp, Timeouts!history
  <2> QED BY <1>5, <2>1
<1>9. CASE Timeouts!Sweep
  <2>1. GivenUp' = GivenUp \cup Timeouts!Expired /\ GivenUp \cap Timeouts!Expired = {}
    BY <1>9, ExpiredInFlight
      DEF Timeouts!Sweep, Timeouts!InFlightAfterSweep, GivenUp, TimeoutsApart
  <2>2. DOMAIN abandoned' =
          DOMAIN abandoned \cup Timeouts!Expired /\ DOMAIN abandoned \cap Timeouts!Expired =
            {}
    BY <1>9, ExpiredInFlight DEF Timeouts!Sweep, TimeoutsApart
  <2>3. Settlements' = Settlements
    BY <1>9 DEF Timeouts!Sweep, Settlements
  <2>4. /\ Cardinality(GivenUp') = Cardinality(GivenUp) + Cardinality(Timeouts!Expired)
        /\ Cardinality(DOMAIN abandoned') =
             Cardinality(DOMAIN abandoned) + Cardinality(Timeouts!Expired)
    <3>1. \A S, T : IsFiniteSet(S) /\ IsFiniteSet(T) /\ S \cap T = {} =>
                       Cardinality(S \cup T) = Cardinality(S) + Cardinality(T)
      <4> TAKE S, T
      <4> HAVE IsFiniteSet(S) /\ IsFiniteSet(T) /\ S \cap T = {}
      <4>1. Cardinality(S \cup T) = Cardinality(S) + Cardinality(T) - Cardinality({})
        BY FS_Union
      <4>2. Cardinality({}) = 0 /\ Cardinality(S) \in Nat /\ Cardinality(T) \in Nat
        BY FS_EmptySet, FS_CardinalityType
      <4> QED BY <4>1, <4>2
    <3> HIDE DEF Balanced
    <3>2. Cardinality(GivenUp \cup Timeouts!Expired) =
            Cardinality(GivenUp) + Cardinality(Timeouts!Expired)
      BY <3>1, <2>1, GivenUpIsFinite
    <3>3. Cardinality(DOMAIN abandoned \cup Timeouts!Expired)
            = Cardinality(DOMAIN abandoned) + Cardinality(Timeouts!Expired)
      BY <3>1, <2>2, GivenUpIsFinite
    <3> QED BY <3>2, <3>3, <2>1, <2>2
  <2>5. /\ Cardinality(GivenUp) \in Nat /\ Cardinality(DOMAIN abandoned) \in Nat
        /\ Cardinality(Timeouts!Expired) \in Nat /\ Settlements \in Nat
    BY GivenUpIsFinite, FS_CardinalityType DEF Settlements, LedgerTypes, Timeouts!Dispositions
  <2> QED BY <1>1, <2>3, <2>4, <2>5
<1>10. ASSUME UNCHANGED <<inFlight, begun, finished, abandoned, settled>> PROVE Balanced'
  BY <1>4, <1>10 DEF GivenUp, Timeouts!ledger
<1> QED BY <1>6, <1>7, <1>8, <1>9, <1>10
        DEF Timeouts!Next, Timeouts!Heartbeat, Timeouts!Tick, Timeouts!vars, Timeouts!clocks,
           Timeouts!ledger, Timeouts!history

(* The strengthened invariant holds in every reachable state.              *)
THEOREM TimeoutsInvariance == Timeouts!Spec => []TimeoutsIInv
<1>1. Timeouts!Init => TimeoutsIInv
  BY TimeoutsInitEstablishes
<1>2. TimeoutsIInv /\ [Timeouts!Next]_Timeouts!vars => TimeoutsIInv'
  BY TypesStep, LedgerTypesStep, ApartStep, ClocksStep, BreachStep, SurfacedStep,
     BlameStep, AccountStep DEF TimeoutsIInv
<1> QED BY <1>1, <1>2, PTL DEF Timeouts!Spec

(* The policy's state and its history keep their types.                    *)
THEOREM TimeoutsTypeCorrect == Timeouts!Spec => []Timeouts!TypeOK
<1>1. TimeoutsIInv => Timeouts!TypeOK
  BY TimeoutsTypeHalves DEF TimeoutsIInv
<1> QED BY <1>1, TimeoutsInvariance, PTL

(* An attempt that expires is reported by exactly one sweep, and no other  *)
(* attempt is ever reported.                                               *)
THEOREM ReportedOnce == Timeouts!Spec => []Timeouts!SurfacedOnce
<1>1. TimeoutsIInv => Timeouts!SurfacedOnce
  BY DEF TimeoutsIInv
<1> QED BY <1>1, TimeoutsInvariance, PTL

(* Every attempt that was given up on is on the ledger or was settled, and *)
(* none was settled twice.                                                 *)
THEOREM LedgerBalances == Timeouts!Spec => []Timeouts!AbandonedAreAccountedFor
<1>1. TimeoutsIInv => Timeouts!AbandonedAreAccountedFor
  BY DEF TimeoutsIInv
<1> QED BY <1>1, TimeoutsInvariance, PTL

(* However late the sweep, it names the deadline that passed first.        *)
THEOREM BlameIsRight == Timeouts!Spec => []Timeouts!BlamesTheFirstDeadline
<1>1. TimeoutsIInv => Timeouts!BlamesTheFirstDeadline
  BY DEF TimeoutsIInv
<1> QED BY <1>1, TimeoutsInvariance, PTL

(* One report and one settlement for each attempt given up on.             *)
THEOREM OnceEach == Timeouts!Spec => []Timeouts!GivenUpOnce
<1>1. TimeoutsIInv => Timeouts!GivenUpOnce
  BY DEF TimeoutsIInv, Timeouts!GivenUpOnce
<1> QED BY <1>1, TimeoutsInvariance, PTL

-----------------------------------------------------------------------------
(***************************************************************************)
(* The dispatcher keeps its governor and its policy in agreement, for any  *)
(* attempts, experts, limits and latencies.                                *)
(*                                                                         *)
(* Both ledgers are counts of one partition of the attempts: in flight and *)
(* given up on, and those the loop has yet to handle on neither side for   *)
(* the policy and still on the first for the governor.                     *)
(***************************************************************************)

LEMMA DispatchConstants ==
  /\ CallTimeout \in Nat \ {0} /\ IdleTimeout \in 1..CallTimeout
  /\ MinSlots \in Nat \ {0} /\ BaseSlots \in Nat /\ MaxSlots \in Nat
  /\ Warmup \in Nat /\ Latencies \subseteq Nat
  /\ AbortGrace \in Nat \ {0}
BY HarnessAssumption DEF Dispatching!DispatchAssumption, Dispatching!Capacity!CapacityConfig

(* The component counts with the library's definition.                     *)
LEMMA DispatchCardinality == \A S : Dispatching!Cardinality(S) = Cardinality(S)
BY DEF Dispatching!Cardinality, Cardinality, Dispatching!IsFiniteSet, IsFiniteSet

-----------------------------------------------------------------------------
(* How many of A a function sends to e, and what one more or one less of   *)
(* them does to that.                                                      *)
Count(f, e, A) == Cardinality({a \in A : f[a] = e})

LEMMA CountType ==
  ASSUME NEW f, NEW e, NEW A, IsFiniteSet(A)
  PROVE  Count(f, e, A) \in Nat
BY FS_Subset, FS_CardinalityType, {a \in A : f[a] = e} \subseteq A DEF Count

LEMMA CountOfNone == ASSUME NEW f, NEW e PROVE Count(f, e, {}) = 0
<1>1. {a \in {} : f[a] = e} = {}
  OBVIOUS
<1> QED BY <1>1, FS_EmptySet DEF Count

LEMMA CountWith ==
  ASSUME NEW f, NEW g, NEW e, NEW A, IsFiniteSet(A), NEW a, a \notin A,
         \A b \in A : g[b] = f[b]
  PROVE  Count(g, e, A \cup {a}) = IF g[a] = e THEN Count(f, e, A) + 1 ELSE Count(f, e, A)
<1> DEFINE S == {b \in A : f[b] = e}
<1>1. IsFiniteSet(S) /\ a \notin S
  BY FS_Subset, S \subseteq A
<1>2. CASE g[a] = e
  <2>1. {b \in A \cup {a} : g[b] = e} = S \cup {a}
    BY <1>2
  <2> HIDE DEF S
  <2>2. Cardinality(S \cup {a}) = Cardinality(S) + 1
    BY <1>1, FS_AddElement
  <2> QED BY <1>2, <2>1, <2>2 DEF Count, S
<1>3. CASE g[a] # e
  <2>1. {b \in A \cup {a} : g[b] = e} = S
    BY <1>3
  <2> QED BY <1>3, <2>1 DEF Count
<1> QED BY <1>2, <1>3

LEMMA CountWithout ==
  ASSUME NEW f, NEW e, NEW A, IsFiniteSet(A), NEW a \in A
  PROVE  Count(f, e, A \ {a}) = IF f[a] = e THEN Count(f, e, A) - 1 ELSE Count(f, e, A)
<1> DEFINE B == A \ {a}
<1>1. IsFiniteSet(B) /\ a \notin B /\ B \cup {a} = A
  BY FS_Subset, B \subseteq A
<1>2. Count(f, e, B) \in Nat
  BY <1>1, CountType
<1> HIDE DEF B
<1>3. Count(f, e, B \cup {a}) = IF f[a] = e THEN Count(f, e, B) + 1 ELSE Count(f, e, B)
  BY <1>1, CountWith
<1>4. CASE f[a] = e
  <2>1. Count(f, e, A) = Count(f, e, B) + 1
    BY <1>1, <1>3, <1>4
  <2> QED BY <1>2, <1>4, <2>1 DEF B
<1>5. CASE f[a] # e
  <2>1. Count(f, e, A) = Count(f, e, B)
    BY <1>1, <1>3, <1>5
  <2> QED BY <1>5, <2>1 DEF B
<1> QED BY <1>4, <1>5

LEMMA CountOfBoth ==
  ASSUME NEW f, NEW e, NEW A, NEW B, IsFiniteSet(A), IsFiniteSet(B)
  PROVE  Count(f, e, A \cup B) <= Count(f, e, A) + Count(f, e, B)
<1> DEFINE S == {a \in A : f[a] = e}
           T == {a \in B : f[a] = e}
<1>1. IsFiniteSet(S) /\ IsFiniteSet(T)
  BY FS_Subset, S \subseteq A, T \subseteq B
<1>2. {a \in A \cup B : f[a] = e} = S \cup T
  OBVIOUS
<1> HIDE DEF S, T
<1>3. Cardinality(S \cup T) = Cardinality(S) + Cardinality(T) - Cardinality(S \cap T)
  BY <1>1, FS_Union
<1>4. Cardinality(S) \in Nat /\ Cardinality(T) \in Nat /\ Cardinality(S \cap T) \in Nat
  BY <1>1, FS_Intersection, FS_CardinalityType
<1>5. /\ Count(f, e, A) = Cardinality(S) /\ Count(f, e, B) = Cardinality(T)
      /\ Count(f, e, A \cup B) = Cardinality(S \cup T)
  BY <1>2 DEF Count, S, T
<1> QED BY <1>3, <1>4, <1>5

-----------------------------------------------------------------------------
(* What the dispatcher holds against its experts, and what it gave up on.  *)
Held == calls \cup swept
Gone == DOMAIN lost \ swept

Balanced ==
  \A e \in Experts :
    claimed[e] = Count(placed, e, Held) /\ stranded[e] = Count(placed, e, Gone)

(* The attempts the policy knows are kept apart.                           *)
DispatchingApart ==
  /\ IsFiniteSet(callBegun) /\ callBegun \subseteq Attempts
  /\ calls \subseteq callBegun
  /\ callFinished \subseteq callBegun
  /\ calls \cap callFinished = {}
  /\ DOMAIN lost \subseteq callBegun \ (calls \cup callFinished)

(* The loop's own books are about the same attempts as the policy's.       *)
Books ==
  /\ swept \subseteq DOMAIN lost
  /\ phase # "sweep" => swept = {}
  /\ DOMAIN live = Held
  /\ DOMAIN aborts = Gone
  /\ DOMAIN placed = callBegun
  /\ \A a \in Held : live[a] = placed[a]
  /\ working = calls \cup DOMAIN lost

DispatchingIInv == Dispatching!TypeOK /\ DispatchingApart /\ Books /\ Balanced

LEMMA BalancedIsAgreement == Balanced <=> Dispatching!LedgersAgree
BY DispatchCardinality DEF Balanced, Dispatching!LedgersAgree, Count, Dispatching!At, Held,
   Gone

LEMMA BooksAreFinite == DispatchingApart /\ Books => IsFiniteSet(Held) /\ IsFiniteSet(Gone)
<1> SUFFICES ASSUME DispatchingApart, Books
             PROVE  Held \subseteq callBegun /\ Gone \subseteq callBegun
  BY FS_Subset DEF DispatchingApart
<1> QED BY DEF DispatchingApart, Books, Held, Gone

LEMMA DispatchingInitEstablishes == Dispatching!Init => DispatchingIInv
<1> SUFFICES ASSUME Dispatching!Init PROVE DispatchingIInv
  OBVIOUS
<1> USE DEF Dispatching!Init, Dispatching!Timeouts!Init, Dispatching!Capacity!Init,
      Dispatching!Empty
<1>1. Dispatching!TypeOK
  BY DispatchConstants DEF Dispatching!TypeOK, Dispatching!Phases,
     Dispatching!Capacity!Unknown
<1>2. DispatchingApart
  BY FS_EmptySet DEF DispatchingApart
<1>3. Held = {} /\ Gone = {}
  BY DEF Held, Gone
<1>4. Books
  BY <1>3 DEF Books
<1>5. Balanced
  BY <1>3, CountOfNone DEF Balanced
<1> QED BY <1>1, <1>2, <1>4, <1>5 DEF DispatchingIInv

-----------------------------------------------------------------------------
(* The governor's part of a step.                                          *)
Claims == claimed \in [Experts -> Nat] /\ stranded \in [Experts -> Nat]

Ratings ==
  /\ errors \in [Experts -> Nat]
  /\ samples \in [Experts -> 0..Warmup]
  /\ ewma \in [Experts -> Nat \cup {Dispatching!Capacity!Unknown}]
  /\ baseline \in [Experts -> Nat \cup {Dispatching!Capacity!Unknown}]

LoopTypes ==
  /\ phase \in Dispatching!Phases
  /\ live \in [DOMAIN live -> Experts] /\ DOMAIN live \subseteq Attempts
  /\ swept \subseteq Attempts
  /\ aborts \in [DOMAIN aborts -> 0..AbortGrace] /\ DOMAIN aborts \subseteq Attempts
  /\ placed \in [DOMAIN placed -> Experts] /\ DOMAIN placed \subseteq Attempts
  /\ working \subseteq Attempts

LEMMA TypeParts == Dispatching!TypeOK <=> Claims /\ Ratings /\ LoopTypes
BY DEF Dispatching!TypeOK, Claims, Ratings, LoopTypes

LEMMA ObservePreserves ==
  ASSUME Ratings, NEW e \in Experts, NEW ok \in BOOLEAN, Dispatching!Capacity!Observe(e, ok)
  PROVE  Ratings'
<1> USE DispatchConstants DEF Ratings, Dispatching!Capacity!Unknown
<1>1. errors' \in [Experts -> Nat]
  <2>1. Dispatching!Capacity!ErrorLimit \in Nat
    BY DEF Dispatching!Capacity!ErrorLimit
  <2> QED BY <2>1 DEF Dispatching!Capacity!Observe, Dispatching!Capacity!Least
<1>2. samples' \in [Experts -> 0..Warmup]
  BY DEF Dispatching!Capacity!Observe, Dispatching!Capacity!Least
<1>3. PICK latency \in Latencies : \E s \in Dispatching!Capacity!Smoothed(e, latency) :
        /\ ewma' = [ewma EXCEPT ![e] = s]
        /\ baseline' = [baseline EXCEPT ![e] =
             IF baseline[e] = Dispatching!Capacity!Unknown /\ samples'[e] >= Warmup THEN s
               ELSE baseline[e]]
  BY DEF Dispatching!Capacity!Observe
<1>4. PICK s \in Dispatching!Capacity!Smoothed(e, latency) :
        /\ ewma' = [ewma EXCEPT ![e] = s]
        /\ baseline' = [baseline EXCEPT ![e] =
             IF baseline[e] = Dispatching!Capacity!Unknown /\ samples'[e] >= Warmup THEN s
               ELSE baseline[e]]
  BY <1>3
<1>5. s \in Nat
  BY DEF Dispatching!Capacity!Smoothed, Dispatching!Capacity!Least, Dispatching!Capacity!Most
<1> QED BY <1>1, <1>2, <1>4, <1>5

LEMMA AcquireClaims ==
  ASSUME Claims, NEW e \in Experts, Dispatching!Capacity!Acquire(e)
  PROVE  /\ Claims' /\ UNCHANGED Dispatching!Capacity!rating
         /\ \A x \in Experts : claimed'[x] = IF x = e THEN claimed[x] + 1 ELSE claimed[x]
         /\ UNCHANGED stranded
BY DEF Claims, Dispatching!Capacity!Acquire

LEMMA ReleaseClaims ==
  ASSUME Claims, NEW e \in Experts, claimed[e] > 0, Dispatching!Capacity!Release(e)
  PROVE  /\ Claims' /\ UNCHANGED Dispatching!Capacity!rating
         /\ \A x \in Experts : claimed'[x] = IF x = e THEN claimed[x] - 1 ELSE claimed[x]
         /\ UNCHANGED stranded
BY DEF Claims, Dispatching!Capacity!Release, Dispatching!Capacity!Most

LEMMA StrandClaims ==
  ASSUME Claims, NEW e \in Experts, claimed[e] > 0, Dispatching!Capacity!Strand(e)
  PROVE  /\ Claims'
         /\ \A x \in Experts : claimed'[x] = IF x = e THEN claimed[x] - 1 ELSE claimed[x]
         /\ \A x \in Experts : stranded'[x] = IF x = e THEN stranded[x] + 1 ELSE stranded[x]
<1>1. Dispatching!Capacity!Least(1, claimed[e]) = 1
  BY DEF Claims, Dispatching!Capacity!Least
<1>2. /\ claimed' = [claimed EXCEPT ![e] = @ - 1]
      /\ stranded' = [stranded EXCEPT ![e] = @ + 1]
  BY <1>1 DEF Dispatching!Capacity!Strand
<1> QED BY <1>2 DEF Claims

LEMMA ReclaimClaims ==
  ASSUME Claims, NEW e \in Experts, stranded[e] > 0, Dispatching!Capacity!Reclaim(e)
  PROVE  /\ Claims' /\ UNCHANGED Dispatching!Capacity!rating /\ UNCHANGED claimed
         /\ \A x \in Experts : stranded'[x] = IF x = e THEN stranded[x] - 1 ELSE stranded[x]
BY DEF Claims, Dispatching!Capacity!Reclaim, Dispatching!Capacity!StrandedAfterReclaim,
   Dispatching!Capacity!Most

(* An attempt that is held, or given up on, is counted.                    *)
LEMMA HeldIsCounted ==
  ASSUME DispatchingIInv, NEW a \in Attempts
  PROVE  /\ a \in Held \cup Gone => placed[a] \in Experts
         /\ a \in Held => claimed[placed[a]] > 0
         /\ a \in Gone => stranded[placed[a]] > 0
<1>1. IsFiniteSet(Held) /\ IsFiniteSet(Gone)
  BY BooksAreFinite DEF DispatchingIInv
<1>2. a \in Held \cup Gone => placed[a] \in Experts
  BY DEF DispatchingIInv, Books, DispatchingApart, Dispatching!TypeOK, Held, Gone
<1>3. ASSUME NEW A, IsFiniteSet(A), a \in A PROVE Count(placed, placed[a], A) > 0
  <2>1. Count(placed, placed[a], A \ {a}) = Count(placed, placed[a], A) - 1
    BY <1>3, CountWithout
  <2>2. Count(placed, placed[a], A \ {a}) \in Nat
    BY <1>3, CountType, FS_Subset, A \ {a} \subseteq A
  <2>3. Count(placed, placed[a], A) \in Nat
    BY <1>3, CountType
  <2> QED BY <2>1, <2>2, <2>3
<1> QED BY <1>1, <1>2, <1>3 DEF DispatchingIInv, Balanced

-----------------------------------------------------------------------------
(* One lemma for each step of the loop.                                    *)
LEMMA LandAbortPreserves ==
  ASSUME DispatchingIInv, NEW a \in Attempts, Dispatching!LandAbort(a) PROVE DispatchingIInv'
<1>1. /\ phase = "land" /\ swept = {} /\ a \in Gone /\ Gone = DOMAIN lost
      /\ UNCHANGED <<phase, live, swept, placed, calls, callBegun, callFinished>>
      /\ Dispatching!Capacity!Reclaim(placed[a])
      /\ lost' = [b \in DOMAIN lost \ {a} |-> lost[b]]
      /\ aborts' = [b \in DOMAIN aborts \ {a} |-> aborts[b]] /\ working' = working \ {a}
  BY DEF Dispatching!LandAbort, Dispatching!Due, DispatchingIInv, Books, Gone,
     Dispatching!Without, Dispatching!Timeouts!Settle, Dispatching!Timeouts!SettleLedger,
         Dispatching!Timeouts!history
<1>2. Held' = Held /\ Gone' = Gone \ {a}
  BY <1>1 DEF Held, Gone
<1>3. placed[a] \in Experts /\ stranded[placed[a]] > 0
  BY <1>1, HeldIsCounted
<1>4. Claims /\ Ratings /\ LoopTypes
  BY TypeParts DEF DispatchingIInv
<1>5. /\ Claims' /\ UNCHANGED <<Dispatching!Capacity!rating, claimed>>
      /\ \A x \in Experts :
           stranded'[x] = IF x = placed[a] THEN stranded[x] - 1 ELSE stranded[x]
  BY <1>1, <1>3, <1>4, ReclaimClaims
<1>6. Dispatching!TypeOK'
  <2>1. Ratings'
    BY <1>4, <1>5 DEF Ratings, Dispatching!Capacity!rating
  <2>2. LoopTypes'
    BY <1>1, <1>4 DEF LoopTypes
  <2> QED BY <1>5, <2>1, <2>2, TypeParts, PTL
<1>7. DispatchingApart'
  BY <1>1 DEF DispatchingIInv, DispatchingApart
<1>8. Books'
  BY <1>1, <1>2 DEF DispatchingIInv, Books, DispatchingApart, Held, Gone
<1>9. Balanced'
  <2>1. IsFiniteSet(Gone)
    BY BooksAreFinite DEF DispatchingIInv
  <2>2. \A e \in Experts : Count(placed, e, Gone \ {a})
          = IF placed[a] = e THEN Count(placed, e, Gone) - 1 ELSE Count(placed, e, Gone)
    BY <1>1, <2>1, CountWithout
  <2> QED BY <1>1, <1>2, <1>5, <2>2 DEF DispatchingIInv, Balanced
<1> QED BY <1>6, <1>7, <1>8, <1>9 DEF DispatchingIInv

LEMMA RetirePreserves ==
  ASSUME DispatchingIInv, NEW a \in Attempts, Dispatching!Retire(a) PROVE DispatchingIInv'
<1>1. /\ phase = "retire" /\ swept = {} /\ a \in calls /\ a \in Held /\ live[a] = placed[a]
      /\ UNCHANGED <<phase, swept, aborts, placed, callBegun, lost>>
      /\ calls' = calls \ {a} /\ callFinished' = callFinished \cup {a}
      /\ Dispatching!Capacity!Release(placed[a])
      /\ live' = [b \in DOMAIN live \ {a} |-> live[b]] /\ working' = working \ {a}
  BY DEF Dispatching!Retire, DispatchingIInv, Books, Held, Dispatching!Without,
     Dispatching!Timeouts!Complete, Dispatching!Timeouts!ledger
<1>2. Held' = Held \ {a} /\ Gone' = Gone /\ a \notin DOMAIN lost
  BY <1>1 DEF Held, Gone, DispatchingIInv, DispatchingApart
<1>3. placed[a] \in Experts /\ claimed[placed[a]] > 0
  BY <1>1, HeldIsCounted
<1>4. Claims /\ Ratings /\ LoopTypes
  BY TypeParts DEF DispatchingIInv
<1>5. /\ Claims' /\ UNCHANGED <<Dispatching!Capacity!rating, stranded>>
      /\ \A x \in Experts : claimed'[x] = IF x = placed[a] THEN claimed[x] - 1 ELSE claimed[x]
  BY <1>1, <1>3, <1>4, ReleaseClaims
<1>6. Dispatching!TypeOK'
  <2>1. Ratings'
    BY <1>4, <1>5 DEF Ratings, Dispatching!Capacity!rating
  <2>2. LoopTypes'
    BY <1>1, <1>4 DEF LoopTypes
  <2> QED BY <1>5, <2>1, <2>2, TypeParts, PTL
<1>7. DispatchingApart'
  BY <1>1 DEF DispatchingIInv, DispatchingApart
<1>8. Books'
  BY <1>1, <1>2 DEF DispatchingIInv, Books, DispatchingApart, Held, Gone
<1>9. Balanced'
  <2>1. IsFiniteSet(Held)
    BY BooksAreFinite DEF DispatchingIInv
  <2>2. \A e \in Experts : Count(placed, e, Held \ {a})
          = IF placed[a] = e THEN Count(placed, e, Held) - 1 ELSE Count(placed, e, Held)
    BY <1>1, <2>1, CountWithout
  <2> QED BY <1>1, <1>2, <1>5, <2>2 DEF DispatchingIInv, Balanced
<1> QED BY <1>6, <1>7, <1>8, <1>9 DEF DispatchingIInv

(* What the sweep reports stays held until it is handled.                  *)
LEMMA SweepHungPreserves ==
  ASSUME DispatchingIInv, Dispatching!SweepHung PROVE DispatchingIInv'
<1> DEFINE E == Dispatching!Timeouts!Expired
<1>1. /\ phase = "retire" /\ phase' = "sweep" /\ swept = {} /\ swept' = E
      /\ UNCHANGED <<live, aborts, placed, working, callBegun, callFinished, claimed, stranded,
                     errors, samples, ewma, baseline>>
      /\ calls' = calls \ E /\ DOMAIN lost' = DOMAIN lost \cup E
      /\ E \subseteq calls
  BY DEF Dispatching!SweepHung, DispatchingIInv, Books, Dispatching!Timeouts!Sweep,
     Dispatching!Timeouts!InFlightAfterSweep,
         Dispatching!Timeouts!Expired, Dispatching!capacityVars
<1> HIDE DEF E
<1>2. Held' = Held /\ Gone' = Gone
  BY <1>1 DEF Held, Gone, DispatchingIInv, DispatchingApart
<1>3. Dispatching!TypeOK'
  <2>1. phase' \in Dispatching!Phases /\ swept' \subseteq Attempts
    BY <1>1 DEF Dispatching!Phases, DispatchingIInv, DispatchingApart
  <2> QED BY <1>1, <2>1 DEF DispatchingIInv, Dispatching!TypeOK
<1>4. DispatchingApart'
  BY <1>1 DEF DispatchingIInv, DispatchingApart
<1>5. Books'
  BY <1>1, <1>2 DEF DispatchingIInv, Books, Held, Gone
<1>6. Balanced'
  BY <1>1, <1>2 DEF DispatchingIInv, Balanced
<1> QED BY <1>3, <1>4, <1>5, <1>6 DEF DispatchingIInv

(* A call that is handled changes sides.                                   *)
LEMMA HandlePreserves ==
  ASSUME DispatchingIInv, NEW a \in Attempts, Dispatching!Handle(a) PROVE DispatchingIInv'
<1>1. /\ phase = "sweep" /\ a \in swept /\ a \in Held /\ a \notin Gone
      /\ a \notin calls /\ a \in DOMAIN lost
      /\ UNCHANGED <<calls, callBegun, callFinished, lost, phase, placed, working>>
      /\ Dispatching!Capacity!Observe(placed[a], FALSE)
      /\ Dispatching!Capacity!Strand(placed[a])
      /\ live' = [b \in DOMAIN live \ {a} |-> live[b]]
      /\ aborts' = [b \in DOMAIN aborts \cup {a} |-> IF b = a THEN AbortGrace ELSE aborts[b]]
      /\ swept' = swept \ {a}
  BY DEF Dispatching!Handle, Dispatching!Grace, DispatchingIInv, Books, DispatchingApart,
     Held, Gone, Dispatching!Without, Dispatching!With, Dispatching!timeoutVars
<1>2. Held' = Held \ {a} /\ Gone' = Gone \cup {a}
  BY <1>1 DEF Held, Gone
<1>3. placed[a] \in Experts /\ claimed[placed[a]] > 0
  BY <1>1, HeldIsCounted
<1>4. Claims /\ Ratings /\ LoopTypes
  BY TypeParts DEF DispatchingIInv
<1>5. /\ Claims'
      /\ \A x \in Experts : claimed'[x] = IF x = placed[a] THEN claimed[x] - 1 ELSE claimed[x]
      /\ \A x \in Experts :
           stranded'[x] = IF x = placed[a] THEN stranded[x] + 1 ELSE stranded[x]
  BY <1>1, <1>3, <1>4, StrandClaims
<1>6. Dispatching!TypeOK'
  <2>1. Ratings'
    BY <1>1, <1>3, <1>4, ObservePreserves
  <2>2. LoopTypes'
    BY <1>1, <1>4, DispatchConstants DEF LoopTypes
  <2> QED BY <1>5, <2>1, <2>2, TypeParts, PTL
<1>7. DispatchingApart'
  BY <1>1 DEF DispatchingIInv, DispatchingApart
<1>8. Books'
  BY <1>1, <1>2 DEF DispatchingIInv, Books, Held, Gone
<1>9. Balanced'
  <2>1. IsFiniteSet(Held) /\ IsFiniteSet(Gone) /\ a \in Held /\ a \notin Gone
    BY <1>1, BooksAreFinite DEF DispatchingIInv
  <2>2. \A e \in Experts : Count(placed, e, Held \ {a})
          = IF placed[a] = e THEN Count(placed, e, Held) - 1 ELSE Count(placed, e, Held)
    BY <2>1, CountWithout
  <2>3. \A e \in Experts : Count(placed, e, Gone \cup {a})
          = IF placed[a] = e THEN Count(placed, e, Gone) + 1 ELSE Count(placed, e, Gone)
    BY <2>1, CountWith
  <2>4. Balanced
    BY DEF DispatchingIInv
  <2>5. UNCHANGED placed
    BY <1>1
  <2> SUFFICES ASSUME NEW e \in Experts
               PROVE  claimed'[e] = Count(placed, e, Held') /\ stranded'[e] =
                        Count(placed, e, Gone')
    BY <2>5 DEF Balanced
  <2>6. claimed'[e] = Count(placed, e, Held')
    BY <1>2, <1>5, <2>2, <2>4 DEF Balanced
  <2>7. stranded'[e] = Count(placed, e, Gone')
    BY <1>2, <1>5, <2>3, <2>4 DEF Balanced
  <2> QED BY <2>6, <2>7
<1> QED BY <1>6, <1>7, <1>8, <1>9 DEF DispatchingIInv

LEMMA AdmitPreserves ==
  ASSUME DispatchingIInv, NEW a \in Attempts, NEW e \in Experts, Dispatching!Admit(a, e)
  PROVE  DispatchingIInv'
<1>1. /\ phase = "admit" /\ swept = {} /\ a \notin callBegun /\ a \notin Held /\ a \notin Gone
      /\ UNCHANGED <<phase, swept, aborts, lost, callFinished>>
      /\ calls' = calls \cup {a} /\ callBegun' = callBegun \cup {a}
      /\ Dispatching!Capacity!Acquire(e)
      /\ live' = [b \in DOMAIN live \cup {a} |-> IF b = a THEN e ELSE live[b]]
      /\ placed' = [b \in DOMAIN placed \cup {a} |-> IF b = a THEN e ELSE placed[b]]
      /\ working' = working \cup {a}
  BY DEF Dispatching!Admit, DispatchingIInv, Books, DispatchingApart, Held, Gone,
     Dispatching!With, Dispatching!Timeouts!Begin, Dispatching!Timeouts!ledger
<1>2. Held' = Held \cup {a} /\ Gone' = Gone
  BY <1>1 DEF Held, Gone
<1>3. Claims /\ Ratings /\ LoopTypes
  BY TypeParts DEF DispatchingIInv
<1>4. /\ Claims' /\ UNCHANGED <<Dispatching!Capacity!rating, stranded>>
      /\ \A x \in Experts : claimed'[x] = IF x = e THEN claimed[x] + 1 ELSE claimed[x]
  BY <1>1, <1>3, AcquireClaims
<1>5. Dispatching!TypeOK'
  <2>1. Ratings'
    BY <1>3, <1>4 DEF Ratings, Dispatching!Capacity!rating
  <2>2. LoopTypes'
    BY <1>1, <1>3 DEF LoopTypes
  <2> QED BY <1>4, <2>1, <2>2, TypeParts, PTL
<1>6. DispatchingApart'
  BY <1>1, FS_AddElement DEF DispatchingIInv, DispatchingApart
<1>7. placed'[a] = e /\ \A b \in Held \cup Gone : placed'[b] = placed[b]
  BY <1>1 DEF DispatchingIInv, Books, DispatchingApart, Held, Gone
<1>8. Books'
  BY <1>1, <1>2, <1>7 DEF DispatchingIInv, Books, Held, Gone
<1>9. Balanced'
  <2>1. IsFiniteSet(Held) /\ IsFiniteSet(Gone)
    BY BooksAreFinite DEF DispatchingIInv
  <2>2. \A x \in Experts : Count(placed', x, Held \cup {a})
          = IF placed'[a] = x THEN Count(placed, x, Held) + 1 ELSE Count(placed, x, Held)
    <3> DEFINE g == placed'
               A == Held
    <3>1. IsFiniteSet(A) /\ a \notin A /\ \A b \in A : g[b] = placed[b]
      BY <1>1, <1>7, <2>1
    <3> HIDE DEF g, A
    <3>2. \A x : Count(g, x, A \cup {a})
            = IF g[a] = x THEN Count(placed, x, A) + 1 ELSE Count(placed, x, A)
      BY <3>1, CountWith
    <3> QED BY <3>2 DEF g, A
  <2>3. \A x \in Experts : Count(placed', x, Gone) = Count(placed, x, Gone)
    <3> SUFFICES ASSUME NEW x \in Experts
                 PROVE  {b \in Gone : placed'[b] = x} = {b \in Gone : placed[b] = x}
      BY DEF Count
    <3> QED BY <1>7
  <2> QED BY <1>2, <1>4, <1>7, <2>2, <2>3 DEF DispatchingIInv, Balanced
<1> QED BY <1>5, <1>6, <1>8, <1>9 DEF DispatchingIInv

(* What moves neither attempts nor claims.                                 *)
LEMMA QuietPreserves ==
  ASSUME DispatchingIInv, Ratings', phase' \in Dispatching!Phases,
         phase' # "sweep" => swept = {},
         aborts' \in [DOMAIN aborts -> 0..AbortGrace],
         UNCHANGED <<claimed, stranded, live, swept, placed, working, calls, callBegun, callFinished,
                     lost>>
  PROVE  DispatchingIInv'
<1>1. Claims /\ LoopTypes
  BY TypeParts DEF DispatchingIInv
<1>2. Claims' /\ LoopTypes'
  BY <1>1 DEF Claims, LoopTypes
<1>3. Dispatching!TypeOK'
  BY <1>2, TypeParts, PTL
<1>4. Held' = Held /\ Gone' = Gone
  BY DEF Held, Gone
<1>5. DispatchingApart' /\ Books'
  BY <1>4 DEF DispatchingIInv, DispatchingApart, Books
<1>6. Balanced'
  BY <1>4 DEF DispatchingIInv, Balanced
<1> QED BY <1>3, <1>5, <1>6 DEF DispatchingIInv

LEMMA NextPreserves ==
  DispatchingIInv /\ [Dispatching!Next]_Dispatching!vars => DispatchingIInv'
<1> SUFFICES ASSUME DispatchingIInv, [Dispatching!Next]_Dispatching!vars
             PROVE  DispatchingIInv'
  OBVIOUS
<1>1. Ratings /\ LoopTypes
  BY TypeParts DEF DispatchingIInv
<1>2. phase \in Dispatching!Phases /\ (phase # "sweep" => swept = {})
  BY <1>1 DEF DispatchingIInv, Books, LoopTypes
<1>3. ASSUME UNCHANGED <<errors, samples, ewma, baseline>> PROVE Ratings'
  BY <1>1, <1>3 DEF Ratings
<1>4. CASE Dispatching!Turn
  <2>1. aborts' \in [DOMAIN aborts -> 0..AbortGrace]
    BY <1>1, <1>4, DispatchConstants DEF Dispatching!Turn, LoopTypes
  <2>2. phase' = "land"
          /\ UNCHANGED <<errors, samples, ewma, baseline, claimed, stranded, live,
               swept, placed, working, calls, callBegun, callFinished, lost>>
    BY <1>4 DEF Dispatching!Turn, Dispatching!Timeouts!Tick, Dispatching!Timeouts!ledger,
       Dispatching!capacityVars
  <2> QED BY <1>2, <1>3, <1>4, <2>1, <2>2, QuietPreserves
            DEF Dispatching!Phases, Dispatching!Turn
<1>5. CASE Dispatching!StartRetiring \/ Dispatching!StartAdmitting
  <2>1. /\ phase' \in Dispatching!Phases /\ swept = {}
        /\ UNCHANGED <<errors, samples, ewma, baseline, aborts, claimed, stranded, live,
               swept, placed, working, calls, callBegun, callFinished, lost>>
    BY <1>2, <1>5
      DEF Dispatching!StartRetiring, Dispatching!StartAdmitting, Dispatching!Phases,
         Dispatching!timeoutVars, Dispatching!capacityVars
  <2> QED BY <1>1, <1>3, <2>1, QuietPreserves DEF LoopTypes
<1>6. ASSUME NEW e \in Experts, Dispatching!Observed(e) \/ Dispatching!Rebaselined(e)
      PROVE  DispatchingIInv'
  <2>1. Ratings'
    <3>1. CASE Dispatching!Observed(e)
      BY <1>1, <3>1, ObservePreserves DEF Dispatching!Observed
    <3>2. CASE Dispatching!Rebaselined(e)
      BY <1>1, <3>2 DEF Dispatching!Rebaselined, Dispatching!Capacity!Rebaseline, Ratings
    <3> QED BY <1>6, <3>1, <3>2
  <2>2. UNCHANGED <<claimed, stranded, phase, aborts, live, swept, placed, working, calls, callBegun,
                    callFinished, lost>>
    BY <1>6 DEF Dispatching!Observed, Dispatching!Rebaselined,
       Dispatching!Capacity!Rebaseline, Dispatching!timeoutVars, Dispatching!loopVars
  <2> QED BY <1>1, <1>2, <2>1, <2>2, QuietPreserves DEF LoopTypes
<1>7. CASE UNCHANGED Dispatching!vars
  <2>1. UNCHANGED <<errors, samples, ewma, baseline, claimed, stranded, phase, aborts, live, swept,
                    placed, working, calls, callBegun, callFinished, lost>>
    BY <1>7 DEF Dispatching!vars, Dispatching!timeoutVars, Dispatching!capacityVars,
       Dispatching!loopVars
  <2> QED BY <1>1, <1>2, <1>3, <2>1, QuietPreserves DEF LoopTypes
<1> QED
  BY <1>4, <1>5, <1>6, <1>7, LandAbortPreserves, RetirePreserves, SweepHungPreserves,
     HandlePreserves, AdmitPreserves DEF Dispatching!Next, Dispatching!Loop

THEOREM DispatchingInvariance == Dispatching!Spec => []DispatchingIInv
<1> QED BY DispatchingInitEstablishes, NextPreserves, PTL DEF Dispatching!Spec

(* For every expert the governor counts as claimed the attempts the policy *)
(* has in flight, and as stranded those it gave up on and has not heard    *)
(* of: a leak in either ledger would drift from the other.                 *)
THEOREM NoDrift == Dispatching!Spec => []Dispatching!LedgersAgree
<1>1. DispatchingIInv => Dispatching!LedgersAgree
  BY BalancedIsAgreement DEF DispatchingIInv
<1> QED BY <1>1, DispatchingInvariance, PTL

LEMMA WorkIsCounted == DispatchingIInv => Dispatching!NoPhantomSlot
<1> SUFFICES ASSUME DispatchingIInv, NEW e \in Experts
             PROVE  Count(placed, e, working) <= claimed[e] + stranded[e]
  BY DispatchCardinality DEF Dispatching!NoPhantomSlot, Count, Dispatching!At
<1>1. working = Held \cup Gone
  BY DEF DispatchingIInv, Books, Held, Gone
<1>2. Count(placed, e, Held \cup Gone) <= Count(placed, e, Held) + Count(placed, e, Gone)
  BY BooksAreFinite, CountOfBoth DEF DispatchingIInv
<1> QED BY <1>1, <1>2 DEF DispatchingIInv, Balanced

(* What an expert really works on, the calls that were given up on         *)
(* included, is covered by what is claimed against it.                     *)
THEOREM WorkIsClaimed == Dispatching!Spec => []Dispatching!NoPhantomSlot
<1> QED BY WorkIsCounted, DispatchingInvariance, PTL

LEMMA SlotsType ==
  ASSUME Ratings, NEW e \in Experts PROVE Dispatching!Capacity!SlotsOf(e) \in Int
<1> USE DispatchConstants
<1>1. ASSUME NEW n \in Int PROVE Dispatching!Capacity!Clamp(n) \in Int
  BY <1>1 DEF Dispatching!Capacity!Clamp, Dispatching!Capacity!Most,
     Dispatching!Capacity!Least
<1>2. CASE baseline[e] # Dispatching!Capacity!Unknown
        /\ ewma[e] # Dispatching!Capacity!Unknown
  <2> DEFINE usual == Dispatching!Capacity!Most(1, baseline[e])
             slow == Dispatching!Capacity!Most(usual, ewma[e])
  <2>1. usual \in Nat \ {0} /\ slow \in Nat \ {0}
    BY <1>2 DEF Ratings, Dispatching!Capacity!Most
  <2>2. errors[e] \in Nat
    BY DEF Ratings
  <2> HIDE DEF usual, slow
  <2>3. slow * (1 + errors[e]) \in Nat \ {0} /\ BaseSlots * usual \in Nat
    BY <2>1, <2>2
  <2>4. (BaseSlots * usual) \div (slow * (1 + errors[e])) \in Int
    BY <2>3
  <2> QED BY <1>1, <1>2, <2>4 DEF Dispatching!Capacity!SlotsOf, usual, slow
<1> QED BY <1>2 DEF Dispatching!Capacity!SlotsOf

(* A slot is claimed only while the expert's real work leaves one.         *)
THEOREM RoomForEveryCall == Dispatching!Spec => Dispatching!NeverOverloaded
<1>1. DispatchingIInv /\ [Dispatching!Next]_Dispatching!vars =>
        [\A e \in Experts : claimed'[e] > claimed[e] =>
                                Dispatching!Cardinality(Dispatching!At(e, working))
                                  < Dispatching!Capacity!SlotsOf(e)]_Dispatching!vars
  <2> SUFFICES ASSUME DispatchingIInv, Dispatching!Next, NEW e \in Experts,
                      claimed'[e] > claimed[e]
               PROVE  Cardinality(Dispatching!At(e, working))
                        < Dispatching!Capacity!SlotsOf(e)
    BY DispatchCardinality
  <2>1. Claims
    BY TypeParts DEF DispatchingIInv
  <2>2. PICK a \in Attempts, x \in Experts : Dispatching!Admit(a, x)
    <3>1. ASSUME NEW b \in Attempts, Dispatching!LandAbort(b) PROVE FALSE
      BY <2>1, <3>1 DEF Dispatching!LandAbort, Dispatching!Capacity!Reclaim, Claims
    <3>2. ASSUME NEW b \in Attempts, Dispatching!Handle(b) PROVE FALSE
      <4>1. placed[b] \in Experts /\ claimed[placed[b]] > 0
        BY <3>2, HeldIsCounted DEF Dispatching!Handle, Held
      <4> QED BY <2>1, <3>2, <4>1, StrandClaims DEF Dispatching!Handle, Claims
    <3>3. ASSUME NEW b \in Attempts, Dispatching!Retire(b) PROVE FALSE
      <4>1. b \in Held /\ live[b] = placed[b]
        BY <3>3 DEF Dispatching!Retire, DispatchingIInv, Books
      <4>2. placed[b] \in Experts /\ claimed[placed[b]] > 0
        BY <4>1, HeldIsCounted
      <4> QED BY <2>1, <3>3, <4>1, <4>2, ReleaseClaims DEF Dispatching!Retire, Claims
    <3>4. ASSUME UNCHANGED claimed PROVE FALSE
      BY <2>1, <3>4 DEF Claims
    <3> QED BY <3>1, <3>2, <3>3, <3>4
              DEF Dispatching!Next, Dispatching!Loop, Dispatching!Turn,
                 Dispatching!StartRetiring, Dispatching!StartAdmitting, Dispatching!SweepHung,
           Dispatching!Observed, Dispatching!Rebaselined, Dispatching!Capacity!Rebaseline,
           Dispatching!capacityVars
  <2>3. Dispatching!Capacity!Acquire(x) /\ x = e
    BY <2>1, <2>2, AcquireClaims DEF Dispatching!Admit, Claims
  <2>4. claimed[e] + stranded[e] < Dispatching!Capacity!SlotsOf(e)
    BY <2>3 DEF Dispatching!Capacity!Acquire, Dispatching!Capacity!HasRoom,
       Dispatching!Capacity!Committed
  <2>5. Cardinality(Dispatching!At(e, working)) <= claimed[e] + stranded[e]
    BY WorkIsCounted, DispatchCardinality DEF Dispatching!NoPhantomSlot
  <2>6. Cardinality(Dispatching!At(e, working)) \in Nat
    <3>1. Dispatching!At(e, working) \subseteq callBegun
      BY DEF DispatchingIInv, Books, DispatchingApart, Dispatching!At
    <3> QED BY <3>1, FS_Subset, FS_CardinalityType DEF DispatchingIInv, DispatchingApart
  <2>7. Dispatching!Capacity!SlotsOf(e) \in Int
    BY SlotsType, TypeParts DEF DispatchingIInv
  <2> QED BY <2>1, <2>4, <2>5, <2>6, <2>7 DEF Claims
<1> QED BY <1>1, DispatchingInvariance, PTL DEF Dispatching!Spec, Dispatching!NeverOverloaded

(* The loop's books and the governor's keep their types.                   *)
THEOREM DispatchingTypeCorrect == Dispatching!Spec => []Dispatching!TypeOK
<1>1. DispatchingIInv => Dispatching!TypeOK
  BY DEF DispatchingIInv
<1> QED BY <1>1, DispatchingInvariance, PTL

-----------------------------------------------------------------------------
(***************************************************************************)
(* The bucket, for any limits, charges and clock.                          *)
(***************************************************************************)

LEMMA BucketConstants ==
  /\ Default \in Configs /\ LastTime \in Nat
  /\ \A c \in Configs : c.capacity \in Nat /\ c.rate \in Nat /\ c.rate > 0
  /\ \A n \in Charges : n \in Nat
BY HarnessAssumption DEF Bucket!BucketAssumption

(* What the clock has brought since the last refill, before the cap.       *)
Elapsed == IF now <= lastRefillAt THEN 0 ELSE now - lastRefillAt
Brought == Elapsed * config.rate

(* What was let through and what may be, also after the next refill.       *)
Conserved == spent + tokens + Brought <= accrued

(* A promise that stands is made with the tokens there are by its time.    *)
Promised ==
  /\ promise \in [tokens : Nat, at : Int]
  /\ promise.tokens > 0 =>
       /\ now >= lastRefillAt /\ promise.tokens <= config.capacity
       /\ \/ tokens >= promise.tokens
          \/ tokens + (promise.at - lastRefillAt) * config.rate >= promise.tokens

BucketIInv == Bucket!TypeOK /\ Conserved /\ Promised

(* A product that SMT is not asked to reason about more than it has to.    *)
LEMMA ElapsedTime ==
  ASSUME Bucket!TypeOK
  PROVE  /\ Elapsed \in Nat /\ Brought \in Nat
         /\ config.rate \in Nat /\ config.rate > 0 /\ config.capacity \in Nat
         /\ now \in Nat /\ lastRefillAt \in Nat /\ now <= LastTime
         /\ Bucket!Refilled = IF now <= lastRefillAt THEN tokens
                       ELSE Bucket!Lesser(config.capacity, tokens + Brought)
         /\ now = lastRefillAt => Brought = 0
<1>1. /\ now \in Nat /\ lastRefillAt \in Nat /\ now <= LastTime
      /\ config.rate \in Nat /\ config.rate > 0 /\ config.capacity \in Nat
  BY BucketConstants DEF Bucket!TypeOK
<1>2. Elapsed \in Nat
  BY <1>1 DEF Elapsed
<1>3. Brought \in Nat
  BY <1>1, <1>2 DEF Brought
<1>4. now = lastRefillAt => Brought = 0
  BY <1>1 DEF Brought, Elapsed
<1>5. Bucket!Refilled = IF now <= lastRefillAt THEN tokens
                 ELSE Bucket!Lesser(config.capacity, tokens + Brought)
  BY DEF Bucket!Refilled, Brought, Elapsed
<1> QED BY <1>1, <1>2, <1>3, <1>4, <1>5

(* A refill takes from what was brought, and keeps what was promised.      *)
LEMMA RefillIsCovered ==
  ASSUME BucketIInv
  PROVE  /\ Bucket!Refilled \in Nat /\ spent + Bucket!Refilled <= accrued
         /\ promise.tokens > 0 =>
              \/ Bucket!Refilled >= promise.tokens
              \/ Bucket!Refilled + (promise.at - now) * config.rate >= promise.tokens
<1>1. /\ tokens \in Nat /\ spent \in Nat /\ accrued \in Nat
      /\ promise.tokens \in Nat /\ promise.at \in Int
  BY DEF BucketIInv, Bucket!TypeOK, Promised
<1>2. Bucket!TypeOK
  BY DEF BucketIInv
<1>3. Bucket!Refilled \in Nat /\ Bucket!Refilled <= tokens + Brought
  BY <1>1, <1>2, ElapsedTime DEF Bucket!Lesser
<1>4. spent + Bucket!Refilled <= accrued
  BY <1>1, <1>2, <1>3, ElapsedTime DEF BucketIInv, Conserved
<1>5. ASSUME promise.tokens > 0
      PROVE  \/ Bucket!Refilled >= promise.tokens
             \/ Bucket!Refilled + (promise.at - now) * config.rate >= promise.tokens
  <2>1. /\ now >= lastRefillAt /\ promise.tokens <= config.capacity
        /\ \/ tokens >= promise.tokens
           \/ tokens + (promise.at - lastRefillAt) * config.rate >= promise.tokens
    BY <1>5 DEF BucketIInv, Promised
  <2>2. Brought = (now - lastRefillAt) * config.rate
    BY <1>2, <2>1, ElapsedTime DEF Brought, Elapsed
  <2>3. (promise.at - lastRefillAt) * config.rate
          = (now - lastRefillAt) * config.rate + (promise.at - now) * config.rate
    BY <1>1, <1>2, ElapsedTime
  <2>4. (now - lastRefillAt) * config.rate \in Int /\ (promise.at - now) * config.rate \in Int
    BY <1>1, <1>2, ElapsedTime
  <2>5. CASE now <= lastRefillAt
    <3>1. Bucket!Refilled = tokens /\ now = lastRefillAt
      BY <1>2, <2>1, <2>5, ElapsedTime
    <3> QED BY <2>1, <3>1
  <2>6. CASE ~(now <= lastRefillAt)
    <3>1. Bucket!Refilled = Bucket!Lesser(config.capacity, tokens + Brought)
      BY <1>2, <2>6, ElapsedTime
    <3>2. CASE config.capacity < tokens + Brought
      <4>1. Bucket!Refilled = config.capacity
        BY <3>1, <3>2 DEF Bucket!Lesser
      <4> QED BY <2>1, <4>1
    <3>3. CASE ~(config.capacity < tokens + Brought)
      <4>1. Bucket!Refilled = tokens + Brought
        BY <3>1, <3>3 DEF Bucket!Lesser
      <4>2. Brought \in Nat
        BY <1>2, ElapsedTime
      <4> QED BY <1>1, <2>1, <2>2, <2>3, <2>4, <4>1, <4>2
    <3> QED BY <3>2, <3>3
  <2> QED BY <2>5, <2>6
<1> QED BY <1>3, <1>4, <1>5

(* Who waits until the promised time finds the tokens there.               *)
LEMMA PromiseIsKept == BucketIInv => Bucket!RetryAfterIsKept
<1>1. SUFFICES ASSUME BucketIInv, promise.tokens > 0, now >= promise.at
               PROVE  Bucket!Refilled >= promise.tokens
  BY DEF Bucket!RetryAfterIsKept
<1>2. /\ Bucket!Refilled \in Nat /\ promise.tokens \in Nat /\ promise.at \in Int
      /\ config.rate \in Nat /\ now \in Nat
  BY <1>1, RefillIsCovered, ElapsedTime DEF BucketIInv, Promised
<1>3. (now - promise.at) * config.rate \in Nat
  BY <1>1, <1>2
<1>4. (promise.at - now) * config.rate = -((now - promise.at) * config.rate)
  BY <1>2
<1> QED BY <1>1, <1>2, <1>3, <1>4, RefillIsCovered

LEMMA LimitHolds == BucketIInv => Bucket!NoFreeCapacity
<1>1. SUFFICES ASSUME BucketIInv PROVE spent + tokens <= accrued
  BY DEF Bucket!NoFreeCapacity
<1>2. Brought \in Nat
  BY <1>1, ElapsedTime DEF BucketIInv
<1>3. tokens \in Nat /\ spent \in Nat /\ accrued \in Nat /\ spent + tokens + Brought
        <= accrued
  BY <1>1 DEF BucketIInv, Bucket!TypeOK, Conserved
<1> QED BY <1>2, <1>3

LEMMA BucketInitEstablishes == Bucket!Init => BucketIInv
<1>1. SUFFICES ASSUME Bucket!Init PROVE BucketIInv
  OBVIOUS
<1>2. Bucket!TypeOK
  BY <1>1, BucketConstants DEF Bucket!Init, Bucket!TypeOK
<1>3. Conserved
  BY <1>1, <1>2, ElapsedTime DEF Bucket!Init, Conserved, Bucket!TypeOK
<1>4. Promised
  BY <1>1 DEF Bucket!Init, Promised, Bucket!NoPromise
<1> QED BY <1>2, <1>3, <1>4 DEF BucketIInv

(* Every operation but a tick leaves nothing brought and not yet refilled. *)
LEMMA AnchoredIsConserved ==
  ASSUME Bucket!TypeOK', lastRefillAt' = now', spent' + tokens' <= accrued'
  PROVE  Conserved'
<1>1. PICK r \in Int, n \in Int : r = config'.rate /\ n = now'
  BY BucketConstants DEF Bucket!TypeOK
<1>2. n <= n /\ 0 * r = 0
  BY <1>1
<1>3. Elapsed' = IF now' <= lastRefillAt' THEN 0 ELSE now' - lastRefillAt'
  BY DEF Elapsed
<1>4. Elapsed' = 0
  BY <1>1, <1>2, <1>3
<1>5. Brought' = 0
  BY <1>1, <1>2, <1>4 DEF Brought
<1>6. spent' \in Nat /\ tokens' \in Nat /\ accrued' \in Nat
  BY DEF Bucket!TypeOK
<1>7. PICK s \in Nat, k \in Nat, a \in Nat : s = spent' /\ k = tokens' /\ a = accrued'
  BY <1>6
<1>8. s + k + 0 <= a
  <2>1. s + k <= a
    BY <1>7
  <2> QED BY <2>1
<1>9. spent' + tokens' + Brought' <= accrued'
  BY <1>5, <1>7, <1>8
<1> QED BY <1>9 DEF Conserved

LEMMA NoPromiseIsKept == ASSUME promise' = Bucket!NoPromise PROVE Promised'
BY DEF Promised, Bucket!NoPromise

LEMMA ConfigurePreserves ==
  ASSUME BucketIInv, NEW c \in Configs, Bucket!Configure(c) PROVE BucketIInv'
<1>1. /\ config' = c /\ tokens' = Bucket!Lesser(tokens, c.capacity) /\ lastRefillAt' = now
      /\ promise' = Bucket!NoPromise /\ UNCHANGED <<now, spent, accrued>>
  BY DEF Bucket!Configure, Bucket!TokensAfterConfigure
<1>2. tokens' \in Nat /\ tokens' <= tokens
  BY <1>1, BucketConstants DEF BucketIInv, Bucket!TypeOK, Bucket!Lesser
<1>3. Bucket!TypeOK'
  BY <1>1, <1>2 DEF BucketIInv, Bucket!TypeOK
<1>4. spent' + tokens' <= accrued'
  BY <1>1, <1>2, LimitHolds DEF Bucket!NoFreeCapacity, BucketIInv, Bucket!TypeOK
<1> QED BY <1>1, <1>3, <1>4, AnchoredIsConserved, NoPromiseIsKept DEF BucketIInv

(* The time named is long enough: rounding up loses nothing.               *)
LEMMA RoundedUp ==
  ASSUME NEW d \in Nat, NEW r \in Nat, r > 0
  PROVE  /\ (d + r - 1) \div r \in Int
         /\ ((d + r - 1) \div r) * r >= d
<1>1. d + r - 1 \in Nat
  OBVIOUS
<1>2. PICK q \in Int : q = (d + r - 1) \div r
  BY <1>1
<1>3. d + r - 1 = r * q + ((d + r - 1) % r) /\ (d + r - 1) % r \in 0..(r - 1)
  BY <1>1, <1>2
<1>4. r * q >= d /\ r * q = q * r
  BY <1>3
<1> QED BY <1>2, <1>4

LEMMA TryConsumePreserves ==
  ASSUME BucketIInv, NEW n \in Charges, Bucket!TryConsume(n) PROVE BucketIInv'
<1>1. lastRefillAt' = now /\ UNCHANGED <<now, config, accrued>> /\ n \in Nat
  BY BucketConstants DEF Bucket!TryConsume
<1>2. CASE Bucket!Admit(n)
  <2>1. Bucket!Refilled >= n /\ tokens' = Bucket!Refilled - n /\ spent' =
          spent + n /\ promise' = Bucket!NoPromise
    BY <1>2 DEF Bucket!Admit
  <2>2. Bucket!TypeOK'
    BY <1>1, <2>1, RefillIsCovered DEF BucketIInv, Bucket!TypeOK
  <2>3. spent' + tokens' <= accrued'
    BY <1>1, <2>1, RefillIsCovered DEF BucketIInv, Bucket!TypeOK
  <2> QED BY <1>1, <2>1, <2>2, <2>3, AnchoredIsConserved, NoPromiseIsKept DEF BucketIInv
<1>3. CASE Bucket!Refuse(n)
  <2>1. /\ Bucket!Refilled < n /\ tokens' = Bucket!Refilled /\ UNCHANGED spent
        /\ promise' = IF n > config.capacity THEN promise
                      ELSE [tokens |-> n, at |-> now + Bucket!RetryAfter(n - Bucket!Refilled)]
    BY <1>3 DEF Bucket!Refuse
  <2>2. Bucket!TypeOK'
    BY <1>1, <2>1, RefillIsCovered DEF BucketIInv, Bucket!TypeOK
  <2>3. spent' + tokens' <= accrued'
    BY <1>1, <2>1, RefillIsCovered DEF BucketIInv, Bucket!TypeOK
  <2>4. ASSUME n > config.capacity PROVE Promised'
    <3>1. PICK w \in Int : w = (promise.at - now) * config.rate
      BY ElapsedTime DEF BucketIInv, Promised
    <3>2. /\ promise' = promise /\ now' = now /\ lastRefillAt' = now /\ config' = config
          /\ tokens' = Bucket!Refilled
      BY <1>1, <2>1, <2>4
    <3>3. promise.tokens > 0 => promise.tokens <= config.capacity
      BY DEF BucketIInv, Promised
    <3>4. promise.tokens > 0 =>
            Bucket!Refilled >= promise.tokens \/ Bucket!Refilled + w >= promise.tokens
      BY <3>1, RefillIsCovered
    <3>5. now \in Nat /\ promise \in [tokens : Nat, at : Int]
      BY ElapsedTime DEF BucketIInv, Promised
    <3> QED BY <3>1, <3>2, <3>3, <3>4, <3>5 DEF Promised
  <2>5. ASSUME ~(n > config.capacity) PROVE Promised'
    <3>1. /\ Bucket!Refilled \in Nat /\ now \in Nat /\ config.rate \in Nat /\ config.rate > 0
          /\ config.capacity \in Nat
      BY RefillIsCovered, ElapsedTime DEF BucketIInv
    <3>2. PICK d \in Nat : d = n - Bucket!Refilled
      BY <1>1, <2>1, <3>1
    <3>3. PICK w \in Int : w = Bucket!RetryAfter(d) /\ w * config.rate >= d
      BY <3>1, RoundedUp DEF Bucket!RetryAfter
    <3>4. promise' = [tokens |-> n, at |-> now + w]
      BY <2>1, <2>5, <3>2, <3>3
    <3>5. promise'.tokens = n /\ promise'.at - lastRefillAt' = w
      BY <1>1, <3>1, <3>4
    <3>6. tokens' + w * config.rate >= n
      BY <1>1, <2>1, <3>1, <3>2, <3>3
    <3>7. promise' \in [tokens : Nat, at : Int]
      BY <1>1, <3>1, <3>4
    <3> QED BY <1>1, <2>5, <3>1, <3>5, <3>6, <3>7 DEF Promised
  <2> QED BY <1>1, <2>2, <2>3, <2>4, <2>5, AnchoredIsConserved DEF BucketIInv
<1> QED BY <1>2, <1>3 DEF Bucket!TryConsume

LEMMA RefundPreserves ==
  ASSUME BucketIInv, NEW n \in Charges, Bucket!Refund(n) PROVE BucketIInv'
<1>1. /\ n \in Nat /\ n <= spent
      /\ tokens' = Bucket!Lesser(config.capacity, Bucket!Refilled + n)
      /\ lastRefillAt' = now /\ spent' = spent - n
      /\ UNCHANGED <<now, config, accrued, promise>>
  BY BucketConstants DEF Bucket!Refund
<1>2. /\ config.capacity \in Nat /\ Bucket!Refilled \in Nat /\ now \in Nat
      /\ config.rate \in Nat
  BY RefillIsCovered, ElapsedTime DEF BucketIInv
<1>3. tokens' \in Nat /\ tokens' <= Bucket!Refilled + n
  BY <1>1, <1>2 DEF Bucket!Lesser
<1>4. Bucket!TypeOK'
  BY <1>1, <1>3 DEF BucketIInv, Bucket!TypeOK
<1>5. spent' + tokens' <= accrued'
  BY <1>1, <1>2, <1>3, RefillIsCovered DEF BucketIInv, Bucket!TypeOK
<1>6. Promised'
  <2>1. promise \in [tokens : Nat, at : Int] /\ promise.tokens \in Nat /\ promise.at \in Int
    BY DEF BucketIInv, Promised
  <2>2. SUFFICES ASSUME promise.tokens > 0
                 PROVE  /\ promise.tokens <= config.capacity
                        /\ \/ tokens' >= promise.tokens
                           \/ tokens' + (promise.at - now) * config.rate >= promise.tokens
    BY <1>1, <1>2, <2>1 DEF Promised
  <2>3. promise.tokens <= config.capacity
    BY <2>2 DEF BucketIInv, Promised
  <2>4. tokens' = config.capacity \/ tokens' >= Bucket!Refilled
    BY <1>1, <1>2 DEF Bucket!Lesser
  <2>5. PICK w \in Int : w = (promise.at - now) * config.rate
    BY <1>2, <2>1
  <2>6. Bucket!Refilled >= promise.tokens \/ Bucket!Refilled + w >= promise.tokens
    BY <2>2, <2>5, RefillIsCovered
  <2>7. tokens' >= promise.tokens \/ tokens' + w >= promise.tokens
    BY <1>2, <1>3, <2>1, <2>3, <2>4, <2>6
  <2> QED BY <2>3, <2>5, <2>7
<1> QED BY <1>1, <1>4, <1>5, <1>6, AnchoredIsConserved DEF BucketIInv

LEMMA TickPreserves == ASSUME BucketIInv, Bucket!Tick PROVE BucketIInv'
<1>1. /\ now < LastTime /\ now' = now + 1 /\ accrued' = accrued + config.rate
      /\ UNCHANGED <<config, tokens, lastRefillAt, spent, promise>>
  BY DEF Bucket!Tick, Bucket!bucket
<1>2. /\ now \in Nat /\ lastRefillAt \in Nat /\ config.rate \in Nat /\ Brought \in Nat
      /\ tokens \in Nat /\ spent \in Nat /\ accrued \in Nat /\ Elapsed \in Nat
  BY ElapsedTime DEF BucketIInv, Bucket!TypeOK
<1>3. Bucket!TypeOK'
  BY <1>1, <1>2, BucketConstants DEF BucketIInv, Bucket!TypeOK
<1>4. Brought' <= Brought + config.rate /\ Brought' \in Nat
  <2>1. Elapsed' = Elapsed \/ Elapsed' = Elapsed + 1
    BY <1>1, <1>2 DEF Elapsed
  <2>2. Brought' = Elapsed' * config.rate
    BY <1>1 DEF Brought
  <2>3. (Elapsed + 1) * config.rate = Brought + config.rate
    <3>1. PICK e \in Nat, k \in Nat : e = Elapsed /\ k = config.rate
      BY <1>2
    <3>2. (e + 1) * k = e * k + k
      OBVIOUS
    <3> QED BY <3>1, <3>2 DEF Brought
  <2>4. Brought' = Brought \/ Brought' = Brought + config.rate
    BY <2>1, <2>2, <2>3 DEF Brought
  <2> QED BY <1>2, <2>4
<1>5. Conserved'
  BY <1>1, <1>2, <1>4 DEF BucketIInv, Conserved
<1>6. Promised'
  BY <1>1, <1>2 DEF BucketIInv, Promised
<1> QED BY <1>3, <1>5, <1>6 DEF BucketIInv

LEMMA StepBackPreserves == ASSUME BucketIInv, Bucket!StepBack PROVE BucketIInv'
<1>1. /\ now > 0 /\ now' = now - 1 /\ promise' = Bucket!NoPromise
      /\ UNCHANGED <<config, tokens, lastRefillAt, spent, accrued>>
  BY DEF Bucket!StepBack, Bucket!bucket
<1>2. /\ now \in Nat /\ lastRefillAt \in Nat /\ config.rate \in Nat /\ Brought \in Nat
      /\ tokens \in Nat /\ spent \in Nat /\ accrued \in Nat /\ Elapsed \in Nat
  BY ElapsedTime DEF BucketIInv, Bucket!TypeOK
<1>3. Bucket!TypeOK'
  <2>1. now' \in 0..LastTime
    BY <1>1, <1>2, BucketConstants DEF BucketIInv, Bucket!TypeOK
  <2> QED BY <1>1, <2>1 DEF BucketIInv, Bucket!TypeOK
<1>4. Brought' <= Brought /\ Brought' \in Nat
  <2>1. Elapsed' = Elapsed \/ (Elapsed' = Elapsed - 1 /\ Elapsed > 0)
    BY <1>1, <1>2 DEF Elapsed
  <2>2. Brought' = Elapsed' * config.rate
    BY <1>1 DEF Brought
  <2>3. (Elapsed - 1) * config.rate = Brought - config.rate
    <3>1. PICK e \in Nat, k \in Nat : e = Elapsed /\ k = config.rate
      BY <1>2
    <3>2. (e - 1) * k = e * k - k
      OBVIOUS
    <3> QED BY <3>1, <3>2 DEF Brought
  <2>4. Brought' = Brought \/ Brought' = Brought - config.rate
    BY <2>1, <2>2, <2>3 DEF Brought
  <2>5. Brought' \in Nat
    BY <1>3, ElapsedTime, <1>1, <1>2, <2>1, <2>2
  <2> QED BY <1>2, <2>4, <2>5
<1>5. Conserved'
  <2>1. spent + tokens + Brought <= accrued
    BY DEF BucketIInv, Conserved
  <2>2. PICK b \in Nat, c \in Nat : b = Brought /\ c = Brought'
    BY <1>2, <1>4
  <2>3. PICK s \in Nat, k \in Nat, a \in Nat : s = spent /\ k = tokens /\ a = accrued
    BY <1>2
  <2>4. c <= b /\ s + k + b <= a
    BY <1>4, <2>1, <2>2, <2>3
  <2>5. s + k + c <= a
    BY <2>4
  <2> QED BY <1>1, <2>2, <2>3, <2>5 DEF Conserved
<1> QED BY <1>1, <1>3, <1>5, NoPromiseIsKept DEF BucketIInv

LEMMA BucketStepPreserves == ASSUME BucketIInv, [Bucket!Next]_Bucket!vars PROVE BucketIInv'
<1>1. CASE \E c \in Configs : Bucket!Configure(c)
  BY <1>1, ConfigurePreserves
<1>2. CASE \E n \in Charges : Bucket!TryConsume(n)
  BY <1>2, TryConsumePreserves
<1>3. CASE \E n \in Charges : Bucket!Refund(n)
  BY <1>3, RefundPreserves
<1>4. CASE Bucket!Tick
  BY <1>4, TickPreserves
<1>5. CASE Bucket!StepBack
  BY <1>5, StepBackPreserves
<1>6. CASE UNCHANGED Bucket!vars
  BY <1>6 DEF Bucket!vars, Bucket!bucket, BucketIInv, Bucket!TypeOK, Conserved, Promised,
     Brought, Elapsed
<1> QED BY <1>1, <1>2, <1>3, <1>4, <1>5, <1>6 DEF Bucket!Next

THEOREM BucketInvariance == Bucket!Spec => []BucketIInv
<1>1. BucketIInv /\ [Bucket!Next]_Bucket!vars => BucketIInv'
  BY BucketStepPreserves
<1> QED BY <1>1, BucketInitEstablishes, PTL DEF Bucket!Spec

(* The clock is within its bound, and the tokens are counted.              *)
THEOREM BucketTypeCorrect == Bucket!Spec => []Bucket!TypeOK
<1>1. BucketIInv => Bucket!TypeOK
  BY DEF BucketIInv
<1> QED BY <1>1, BucketInvariance, PTL

(* No more is let through than the burst and what the time brought.        *)
THEOREM TheLimitLimits == Bucket!Spec => []Bucket!NoFreeCapacity
BY BucketInvariance, LimitHolds, PTL

(* A refused caller that waits as it is told to is admitted.               *)
THEOREM WaitingHelps == Bucket!Spec => []Bucket!RetryAfterIsKept
BY BucketInvariance, PromiseIsKept, PTL

-----------------------------------------------------------------------------
(***************************************************************************)
(* The retries, for any budget, delays and jitter.                         *)
(***************************************************************************)

LEMMA RetryConstants ==
  /\ MaxAttempts \in Nat /\ MaxAttempts >= 1 /\ BackoffFactor \in Nat
  /\ InitialDelay \in Nat /\ MaxDelay \in Nat
  /\ JitterParts \in Nat /\ Jitter \in Nat /\ Jitter <= JitterParts
BY HarnessAssumption DEF Retrying!RetryAssumption

(* The delays of the first k attempts.                                     *)
Delays(k, f) ==
  /\ f \in [1..k -> Nat]
  /\ f = [n \in 1..k |-> IF n = 1 THEN InitialDelay ELSE f[n - 1] * BackoffFactor]

(* There are such delays: the least k without them would have k - 1 with.  *)
LEMMA DelaysExist == \A k \in 1..MaxAttempts : \E f : Delays(k, f)
<1> DEFINE Without == {k \in 1..MaxAttempts : ~\E f : Delays(k, f)}
<1>1. SUFFICES ASSUME Without # {} PROVE FALSE
  OBVIOUS
<1>2. IsFiniteSet(Without) /\ \A k \in Without : k \in Int
  <2>1. IsFiniteSet(1..MaxAttempts)
    BY RetryConstants, FS_Interval
  <2>2. Without \subseteq 1..MaxAttempts
    OBVIOUS
  <2>3. \A k \in Without : k \in Int
    BY RetryConstants
  <2> HIDE DEF Without
  <2> QED BY <2>1, <2>2, <2>3, FS_Subset
<1>3. PICK k \in Without : \A j \in Without : k <= j
  <2> HIDE DEF Without
  <2> QED BY <1>1, <1>2, LeastExists
<1>4. k \in 1..MaxAttempts /\ k \in Nat /\ k >= 1 /\ ~\E f : Delays(k, f)
  BY <1>3, RetryConstants
<1>5. CASE k = 1
  <2> DEFINE f == [n \in 1..1 |-> InitialDelay]
  <2>1. \A n \in 1..1 : n = 1
    OBVIOUS
  <2>2. f = [n \in 1..1 |-> IF n = 1 THEN InitialDelay ELSE f[n - 1] * BackoffFactor]
    BY <2>1
  <2>3. f \in [1..1 -> Nat]
    BY RetryConstants
  <2>4. Delays(1, f)
    <3> HIDE DEF f
    <3> QED BY <2>2, <2>3 DEF Delays
  <2> QED BY <1>4, <1>5, <2>4
<1>6. CASE k > 1
  <2>1. k - 1 \in 1..MaxAttempts /\ k - 1 \notin Without
    BY <1>3, <1>4, <1>6, RetryConstants
  <2>2. PICK g : Delays(k - 1, g)
    BY <2>1
  <2> DEFINE f == [n \in 1..k |-> IF n = 1 THEN InitialDelay ELSE g[n - 1] * BackoffFactor]
  <2>3. \A n \in 1..k : n # 1 => n - 1 \in 1..(k - 1) /\ n - 1 \in 1..k
    BY <1>4
  <2>4. g \in [1..(k - 1) -> Nat]
    BY <2>2 DEF Delays
  <2>5. \A n \in 1..k : f[n] \in Nat
    BY <2>3, <2>4, RetryConstants
  <2>6. \A n \in 1..(k - 1) : g[n] = IF n = 1 THEN InitialDelay ELSE g[n - 1] * BackoffFactor
    BY <2>2 DEF Delays
  <2>7. \A n \in 1..(k - 1) : n \in 1..k /\ f[n] = g[n]
    BY <1>4, <2>6
  <2>8. \A n \in 1..k : f[n] = IF n = 1 THEN InitialDelay ELSE f[n - 1] * BackoffFactor
    BY <2>3, <2>7
  <2>9. Delays(k, f)
    <3>1. f = [n \in 1..k |-> f[n]]
      OBVIOUS
    <3> HIDE DEF f
    <3>2. f = [n \in 1..k |-> IF n = 1 THEN InitialDelay ELSE f[n - 1] * BackoffFactor]
      BY <2>8, <3>1
    <3> QED BY <2>5, <3>1, <3>2 DEF Delays
  <2> QED BY <1>4, <2>9
<1> QED BY <1>4, <1>5, <1>6

LEMMA RawIsANumber == Retrying!Raw \in [1..MaxAttempts -> Nat]
<1> DEFINE Grows(f) ==
      f = [n \in 1..MaxAttempts |-> IF n = 1 THEN InitialDelay ELSE f[n - 1] * BackoffFactor]
<1>1. Retrying!Raw = CHOOSE f : Grows(f)
  BY DEF Retrying!Raw
<1>2. \E f : Grows(f)
  <2>1. MaxAttempts \in 1..MaxAttempts
    BY RetryConstants
  <2>2. PICK f : Delays(MaxAttempts, f)
    BY <2>1, DelaysExist
  <2>3. Grows(f)
    BY <2>2 DEF Delays
  <2> QED BY <2>3, Zenon
<1>3. Grows(Retrying!Raw)
  <2> HIDE DEF Grows
  <2> QED BY <1>1, <1>2
<1>4. PICK f : Delays(MaxAttempts, f)
  BY DelaysExist, RetryConstants
(* The least attempt at which Raw and f differ would follow an equal one.  *)
<1> DEFINE Differ == {n \in 1..MaxAttempts : Retrying!Raw[n] # f[n]}
<1>5. ASSUME Differ # {} PROVE FALSE
  <2>1. IsFiniteSet(Differ) /\ \A n \in Differ : n \in Int
    <3>1. IsFiniteSet(1..MaxAttempts)
      BY RetryConstants, FS_Interval
    <3>2. Differ \subseteq 1..MaxAttempts
      OBVIOUS
    <3>3. \A n \in Differ : n \in Int
      BY RetryConstants
    <3> HIDE DEF Differ
    <3> QED BY <3>1, <3>2, <3>3, FS_Subset
  <2>2. PICK n \in Differ : \A m \in Differ : n <= m
    <3> HIDE DEF Differ
    <3> QED BY <1>5, <2>1, LeastExists
  <2>3. n \in 1..MaxAttempts /\ Retrying!Raw[n] # f[n]
    BY <2>2
  <2>4. Retrying!Raw[n] = IF n = 1 THEN InitialDelay ELSE Retrying!Raw[n - 1] * BackoffFactor
    BY <1>3, <2>3
  <2>5. f[n] = IF n = 1 THEN InitialDelay ELSE f[n - 1] * BackoffFactor
    BY <1>4, <2>3 DEF Delays
  <2>6. n # 1 => n - 1 \in 1..MaxAttempts /\ n - 1 \notin Differ
    BY <2>2, <2>3, RetryConstants
  <2>7. n # 1 => Retrying!Raw[n - 1] = f[n - 1]
    BY <2>6
  <2> QED BY <2>3, <2>4, <2>5, <2>7
<1>6. \A n \in 1..MaxAttempts : Retrying!Raw[n] = f[n]
  BY <1>5
<1>7. \A n \in 1..MaxAttempts : Retrying!Raw[n] \in Nat
  BY <1>4, <1>6 DEF Delays
<1>8. Retrying!Raw = [n \in 1..MaxAttempts |-> Retrying!Raw[n]]
  <2>1. Retrying!Raw = [n \in 1..MaxAttempts |->
                 IF n = 1 THEN InitialDelay ELSE Retrying!Raw[n - 1] * BackoffFactor]
    BY <1>3
  <2> QED BY <2>1
<1> QED BY <1>7, <1>8

(* An attempt is begun only after a failure that another could mend.       *)
Reasoned ==
  /\ made \in 1..MaxAttempts /\ attempt \in {made, made + 1}
  /\ attempt = made + 1 <=> decision = "retry" /\ made < attempt
  /\ decision = "none" => attempt = made
  /\ attempt <= MaxAttempts

RetryingIInv == Retrying!TypeOK /\ Reasoned /\ Retrying!GivesUpForTheRightReason
  /\ Retrying!WaitIsBounded

LEMMA RetryingInitEstablishes == Retrying!Init => RetryingIInv
<1>1. SUFFICES ASSUME Retrying!Init PROVE RetryingIInv
  OBVIOUS
<1>2. Retrying!TypeOK
  BY <1>1, RetryConstants DEF Retrying!Init, Retrying!TypeOK
<1>3. Reasoned
  BY <1>1, RetryConstants DEF Retrying!Init, Reasoned
<1>4. Retrying!GivesUpForTheRightReason
  BY <1>1, RetryConstants DEF Retrying!Init, Retrying!GivesUpForTheRightReason
<1>5. Retrying!WaitIsBounded
  BY <1>1, RetryConstants DEF Retrying!Init, Retrying!WaitIsBounded
<1> QED BY <1>2, <1>3, <1>4, <1>5 DEF RetryingIInv

(* The cap is applied before the jitter.                                   *)
LEMMA DelayIsBounded ==
  ASSUME NEW n \in 1..MaxAttempts, NEW draw \in 0..2
  PROVE  Retrying!DelayFor(n, draw) \in Nat /\ Retrying!DelayFor(n, draw)
           <= MaxDelay * (JitterParts + Jitter)
<1>1. Retrying!Raw[n] \in Nat /\ MaxDelay \in Nat /\ JitterParts \in Nat /\ Jitter \in Nat
      /\ Jitter <= JitterParts
  BY RawIsANumber, RetryConstants
<1>2. Retrying!Capped(n) \in Nat /\ Retrying!Capped(n) <= MaxDelay
  BY <1>1 DEF Retrying!Capped
<1>3. PICK c \in Nat, j \in Nat, p \in Nat, m \in Nat :
        c = Retrying!Capped(n) /\ j = Jitter /\ p = JitterParts /\ m = MaxDelay
  BY <1>1, <1>2
<1>4. c <= m /\ j <= p
  BY <1>1, <1>2, <1>3
<1>5. PICK w \in Nat : w = p - j + draw * j /\ w <= p + j
  <2>1. CASE draw = 0
    BY <1>4, <2>1
  <2>2. CASE draw = 1
    BY <1>4, <2>2
  <2>3. CASE draw = 2
    BY <1>4, <2>3
  <2> QED BY <2>1, <2>2, <2>3
<1>6. c * w \in Nat /\ c * w <= m * w /\ m * w <= m * (p + j)
  BY <1>4, <1>5
<1>7. c * w <= m * (p + j)
  <2>1. m * w \in Nat /\ m * (p + j) \in Nat
    OBVIOUS
  <2> QED BY <1>6, <2>1
<1> QED BY <1>3, <1>5, <1>6, <1>7 DEF Retrying!DelayFor

LEMMA FailPreserves ==
  ASSUME RetryingIInv, NEW f \in Retrying!Failures, Retrying!Fail(f) PROVE RetryingIInv'
<1>1. PICK draw \in 0..2 :
        /\ attempt' = IF Retrying!Decision(f) = "retry" THEN attempt + 1 ELSE attempt
        /\ delay' = IF Retrying!Decision(f) = "retry" THEN Retrying!DelayFor(attempt, draw)
             ELSE 0
  BY DEF Retrying!Fail
<1>2. /\ decision \in {"none", "retry"} /\ made = attempt
      /\ decision' = Retrying!Decision(f) /\ failure' = f /\ made' = made
  BY DEF Retrying!Fail, Retrying!Trying
<1>3. made \in 1..MaxAttempts /\ MaxAttempts \in Nat /\ attempt \in 1..MaxAttempts
  BY <1>2, RetryConstants DEF RetryingIInv, Reasoned
<1>4. Retrying!Decision(f) = IF f # "idle" THEN "not_retryable"
                    ELSE IF attempt >= MaxAttempts THEN "exhausted" ELSE "retry"
  BY DEF Retrying!Decision, Retrying!RetryOn
<1>5. Retrying!DelayFor(attempt, draw) \in Nat
      /\ Retrying!DelayFor(attempt, draw) <= MaxDelay * (JitterParts + Jitter)
  BY <1>3, DelayIsBounded
<1>6. MaxDelay * (JitterParts + Jitter) \in Nat
  BY RetryConstants
<1>7. Retrying!TypeOK'
  <2>1. attempt' \in 1..(MaxAttempts + 1) /\ made' \in Nat
    BY <1>1, <1>2, <1>3
  <2>2. decision' \in {"none", "retry", "not_retryable", "exhausted", "succeeded"}
    BY <1>2, <1>4
  <2>3. delay' \in Nat
    BY <1>1, <1>5
  <2> QED BY <1>2, <2>1, <2>2, <2>3 DEF Retrying!TypeOK
<1>8. Reasoned'
  BY <1>1, <1>2, <1>3, <1>4 DEF Reasoned
<1>9. Retrying!GivesUpForTheRightReason'
  BY <1>2, <1>3, <1>4 DEF Retrying!GivesUpForTheRightReason
<1>10. Retrying!WaitIsBounded'
  BY <1>1, <1>5, <1>6 DEF Retrying!WaitIsBounded
<1> QED BY <1>7, <1>8, <1>9, <1>10 DEF RetryingIInv

LEMMA OtherStepsPreserve ==
  ASSUME RetryingIInv, Retrying!Again \/ Retrying!Succeed \/ UNCHANGED Retrying!vars
  PROVE  RetryingIInv'
<1>1. MaxDelay * (JitterParts + Jitter) \in Nat /\ MaxAttempts \in Nat
  BY RetryConstants
<1>2. made \in 1..MaxAttempts
  BY DEF RetryingIInv, Reasoned
<1>3. CASE Retrying!Again
  <2>1. /\ decision = "retry" /\ made < attempt /\ made' = attempt /\ delay' = 0
        /\ UNCHANGED <<attempt, decision, failure>>
    BY <1>3 DEF Retrying!Again
  <2>2. attempt \in 1..MaxAttempts
    BY <1>1, <1>2 DEF RetryingIInv, Reasoned
  <2>3. Retrying!TypeOK'
    BY <2>1, <2>2, <1>1 DEF RetryingIInv, Retrying!TypeOK
  <2>4. Reasoned'
    BY <1>1, <2>1, <2>2 DEF Reasoned
  <2>5. Retrying!GivesUpForTheRightReason'
    BY <1>1, <2>1, <2>2 DEF RetryingIInv, Retrying!GivesUpForTheRightReason
  <2>6. Retrying!WaitIsBounded'
    BY <1>1, <2>1 DEF Retrying!WaitIsBounded
  <2> QED BY <2>3, <2>4, <2>5, <2>6 DEF RetryingIInv
<1>4. CASE Retrying!Succeed
  <2>1. /\ decision' = "succeeded" /\ made = attempt
        /\ UNCHANGED <<attempt, failure, delay, made>>
    BY <1>4 DEF Retrying!Succeed, Retrying!Trying
  <2> QED BY <1>1, <1>2, <2>1
          DEF RetryingIInv, Retrying!TypeOK, Reasoned, Retrying!GivesUpForTheRightReason,
             Retrying!WaitIsBounded
<1>5. CASE UNCHANGED Retrying!vars
  BY <1>5 DEF Retrying!vars, RetryingIInv, Retrying!TypeOK, Reasoned,
     Retrying!GivesUpForTheRightReason, Retrying!WaitIsBounded
<1> QED BY <1>3, <1>4, <1>5

LEMMA RetryingStepPreserves ==
  ASSUME RetryingIInv, [Retrying!Next]_Retrying!vars PROVE RetryingIInv'
BY FailPreserves, OtherStepsPreserve DEF Retrying!Next, Retrying!Done

THEOREM RetryingInvariance == Retrying!Spec => []RetryingIInv
<1>1. RetryingIInv /\ [Retrying!Next]_Retrying!vars => RetryingIInv'
  BY RetryingStepPreserves
<1> QED BY <1>1, RetryingInitEstablishes, PTL DEF Retrying!Spec

(* The attempts stay within the budget, and the delays are numbers.        *)
THEOREM RetryingTypeCorrect == Retrying!Spec => []Retrying!TypeOK
<1>1. RetryingIInv => Retrying!TypeOK
  BY DEF RetryingIInv
<1> QED BY <1>1, RetryingInvariance, PTL

(* Giving up names the reason that holds.                                  *)
THEOREM TheReasonIsRight == Retrying!Spec => []Retrying!GivesUpForTheRightReason
<1>1. RetryingIInv => Retrying!GivesUpForTheRightReason
  BY DEF RetryingIInv
<1> QED BY <1>1, RetryingInvariance, PTL

(* No wait is longer than the ceiling and its jitter.                      *)
THEOREM TheWaitIsBounded == Retrying!Spec => []Retrying!WaitIsBounded
<1>1. RetryingIInv => Retrying!WaitIsBounded
  BY DEF RetryingIInv
<1> QED BY <1>1, RetryingInvariance, PTL

-----------------------------------------------------------------------------
(***************************************************************************)
(* The router, for any experts and merits.                                 *)
(***************************************************************************)

(* A recorded outcome moves a score by a step within its scale, a count    *)
(* stays within its bound, and only an expert that may be is selected.     *)
THEOREM RoutingTypeCorrect == Routing!Spec => []Routing!TypeOK
<1>1. MaxObservations \in Nat
  BY HarnessAssumption DEF Routing!RouterAssumption
<1>2. Routing!Init => Routing!TypeOK
  BY <1>1 DEF Routing!Init, Routing!TypeOK, Routing!Prior
<1>3. Routing!TypeOK /\ [Routing!Next]_Routing!vars => Routing!TypeOK'
  <2>1. SUFFICES ASSUME Routing!TypeOK, [Routing!Next]_Routing!vars PROVE Routing!TypeOK'
    OBVIOUS
  <2>2. CASE \E exploring \in BOOLEAN : Routing!Route(exploring)
    BY <2>1, <2>2 DEF Routing!Route, Routing!Candidates, Routing!TypeOK
  <2>3. ASSUME NEW e \in Ranked, Routing!Record(e) PROVE Routing!TypeOK'
    <3>1. PICK s \in 0..2 : earned' = [earned EXCEPT ![e] = s]
      BY <2>3 DEF Routing!Record
    <3>2. /\ observations' = [observations EXCEPT ![e] =
               IF observations[e] < MaxObservations THEN observations[e] + 1
               ELSE observations[e]]
          /\ selected' = Routing!Nobody /\ UNCHANGED closed
      BY <2>3 DEF Routing!Record
    <3>3. observations[e] \in 0..MaxObservations
      BY <2>1 DEF Routing!TypeOK
    <3>4. (IF observations[e] < MaxObservations THEN observations[e] + 1
           ELSE observations[e]) \in 0..MaxObservations
      BY <1>1, <3>3
    <3> QED BY <2>1, <3>1, <3>2, <3>4 DEF Routing!TypeOK
  <2>4. ASSUME NEW e \in Ranked, Routing!GatesMove(e) PROVE Routing!TypeOK'
    BY <2>1, <2>4 DEF Routing!GatesMove, Routing!TypeOK
  <2>5. CASE UNCHANGED Routing!vars
    BY <2>1, <2>5 DEF Routing!vars, Routing!TypeOK
  <2> QED BY <2>1, <2>2, <2>3, <2>4, <2>5 DEF Routing!Next
<1> QED BY <1>2, <1>3, PTL DEF Routing!Spec
=============================================================================
