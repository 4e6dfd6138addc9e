--------------------------- MODULE TimeoutPolicy ---------------------------
(***************************************************************************)
(* src/lib/trustshell/harness/timeout.ts: the policy that notices hung     *)
(* attempts and keeps the ledger of those that were given up on.           *)
(*                                                                         *)
(* The policy has no timer: a caller polls sweep.  Completions and         *)
(* settlements come from callers that may be late or repeat themselves, so *)
(* both are tried on attempts the policy no longer knows.                  *)
(*                                                                         *)
(* Times are relative and stop where the code cannot tell them apart any   *)
(* more: age at RunTimeout, idle at IdleTimeout, and progressAge, the age  *)
(* at the last heartbeat, at RunTimeout.                                   *)
(***************************************************************************)
EXTENDS Integers, FiniteSets

CONSTANTS
  Attempts,      \* attempt ids; the code's seq never repeats one
  RunTimeout,    \* cfg.runTimeoutMs, in clock ticks
  IdleTimeout    \* cfg.idleTimeoutMs, in clock ticks

TimeoutAssumption ==
  /\ RunTimeout \in Nat \ {0}
  /\ IdleTimeout \in 1..RunTimeout

VARIABLES
  inFlight,       \* this.attempts
  age,            \* now - startedAt
  idle,           \* now - lastProgressAt
  progressAge,    \* lastProgressAt - startedAt
  abandoned,      \* this.abandoned: attempt -> the expiry that ended it
  settled,        \* this.settled
  begun,          \* attempts begun so far (history)
  finished,       \* attempts completed in time (history)
  reported,       \* how often sweep reported each attempt (history)
  firstBreach     \* the deadline that passed first and still stands (history)

clocks == <<age, idle, progressAge>>
ledger == <<abandoned, settled>>
history == <<begun, finished, reported, firstBreach>>
vars == <<inFlight, clocks, ledger, history>>

Kinds == {"run", "idle"}
Dispositions == {"confirmed_dead", "returned_late", "presumed_dead"}

AtMost(n, limit) == IF n > limit THEN limit ELSE n

Init ==
  /\ inFlight = {}
  /\ age = [a \in Attempts |-> 0]
  /\ idle = [a \in Attempts |-> 0]
  /\ progressAge = [a \in Attempts |-> 0]
  /\ abandoned = [a \in {} |-> "run"]
  /\ settled = [d \in Dispositions |-> 0]
  /\ begun = {}
  /\ finished = {}
  /\ reported = [a \in Attempts |-> 0]
  /\ firstBreach = [a \in Attempts |-> "none"]

Begin(a) ==
  /\ a \notin begun
  /\ inFlight' = inFlight \cup {a}
  /\ begun' = begun \cup {a}
  /\ UNCHANGED <<clocks, ledger, finished, reported, firstBreach>>

-----------------------------------------------------------------------------
(* Calls about one attempt, known to the policy or not.                    *)

\* fault: a heartbeat extends the run deadline too
AgeRestarted(a) == 0

AgeAfterHeartbeat(a) == age[a]

Heartbeat(a) ==
  /\ a \in inFlight
  /\ idle' = [idle EXCEPT ![a] = 0]
  /\ progressAge' = [progressAge EXCEPT ![a] = age[a]]
  /\ age' = [age EXCEPT ![a] = AgeAfterHeartbeat(a)]
  /\ firstBreach' = [firstBreach EXCEPT ![a] =
                       IF age[a] >= RunTimeout THEN "run" ELSE "none"]
  /\ UNCHANGED <<inFlight, ledger, begun, finished, reported>>

\* fault: a settlement of anything is counted
SettleUnchecked(a, d) ==
  /\ abandoned' = [b \in DOMAIN abandoned \ {a} |-> abandoned[b]]
  /\ settled' = [settled EXCEPT ![d] = @ + 1]

(* settle: counted once, and only for an attempt in the ledger.            *)
SettleLedger(a, d) ==
  /\ abandoned' = [b \in DOMAIN abandoned \ {a} |-> abandoned[b]]
  /\ settled' = IF a \in DOMAIN abandoned
                THEN [settled EXCEPT ![d] = @ + 1] ELSE settled

Settle(a, d) ==
  /\ SettleLedger(a, d)
  /\ UNCHANGED <<inFlight, clocks, history>>

(* complete: of an attempt in flight, of one given up on, of neither.      *)
Complete(a) ==
  /\ a \in begun
  /\ inFlight' = inFlight \ {a}
  /\ IF a \in inFlight
     THEN finished' = finished \cup {a} /\ UNCHANGED ledger
     ELSE SettleLedger(a, "returned_late") /\ UNCHANGED finished
  /\ UNCHANGED <<clocks, begun, reported, firstBreach>>

-----------------------------------------------------------------------------
(* expiryFor and sweep.                                                    *)

RunBreached(a) == age[a] >= RunTimeout
IdleBreached(a) == idle[a] >= IdleTimeout

Expired == {a \in inFlight : RunBreached(a) \/ IdleBreached(a)}

\* fault: the run deadline wins whenever it has passed
KindByRun(a) == IF RunBreached(a) THEN "run" ELSE "idle"

\* fault: deadlines that pass together are blamed on neither
KindUnlessTied(a) ==
  IF IdleBreached(a) /\ (RunBreached(a) => progressAge[a] + IdleTimeout < RunTimeout)
  THEN "idle"
  ELSE IF RunBreached(a) /\ progressAge[a] + IdleTimeout > RunTimeout
  THEN "run" ELSE "none"

(* When both have passed: idleDeadline <= runDeadline.                     *)
KindOf(a) ==
  IF IdleBreached(a) /\ (RunBreached(a) => progressAge[a] + IdleTimeout <= RunTimeout)
  THEN "idle" ELSE "run"

\* fault: a reported attempt stays in flight
StillInFlight == inFlight

InFlightAfterSweep == inFlight \ Expired

Sweep ==
  /\ inFlight' = InFlightAfterSweep
  /\ abandoned' = [a \in DOMAIN abandoned \cup Expired |->
                     IF a \in Expired THEN KindOf(a) ELSE abandoned[a]]
  /\ reported' = [a \in Attempts |-> IF a \in Expired THEN reported[a] + 1 ELSE reported[a]]
  /\ UNCHANGED <<clocks, settled, begun, finished, firstBreach>>

-----------------------------------------------------------------------------

Tick ==
  LET older(a) == AtMost(age[a] + 1, RunTimeout)
      quieter(a) == AtMost(idle[a] + 1, IdleTimeout)
  IN
  /\ age' = [a \in Attempts |-> IF a \in inFlight THEN older(a) ELSE age[a]]
  /\ idle' = [a \in Attempts |-> IF a \in inFlight THEN quieter(a) ELSE idle[a]]
  /\ firstBreach' = [a \in Attempts |->
       IF a \notin inFlight \/ firstBreach[a] # "none" THEN firstBreach[a]
       ELSE IF quieter(a) = IdleTimeout THEN "idle"
       ELSE IF older(a) = RunTimeout THEN "run"
       ELSE "none"]
  /\ UNCHANGED <<inFlight, progressAge, ledger, begun, finished, reported>>

Next ==
  \/ \E a \in Attempts : Begin(a) \/ Heartbeat(a) \/ Complete(a)
  \/ \E a \in Attempts, d \in Dispositions : Settle(a, d)
  \/ Sweep
  \/ Tick

Spec == Init /\ [][Next]_vars

(* The clock runs and somebody polls.  Nothing is asked of the experts:    *)
(* they may send heartbeats for ever and never complete.                   *)
Fairness == WF_vars(Tick) /\ WF_vars(Sweep)

FairSpec == Spec /\ Fairness

-----------------------------------------------------------------------------
(* Types of the policy's state and of its history. *)
TypeOK ==
  /\ inFlight \subseteq Attempts
  /\ age \in [Attempts -> 0..RunTimeout]
  /\ idle \in [Attempts -> 0..IdleTimeout]
  /\ progressAge \in [Attempts -> 0..RunTimeout]
  /\ DOMAIN abandoned \subseteq Attempts
  /\ abandoned \in [DOMAIN abandoned -> Kinds]
  /\ settled \in [Dispositions -> Nat]
  /\ begun \subseteq Attempts
  /\ finished \subseteq Attempts
  /\ reported \in [Attempts -> Nat]
  /\ firstBreach \in [Attempts -> Kinds \cup {"none"}]

(* The run deadline "cannot be talked out of firing": an attempt that      *)
(* sends heartbeats and never finishes still leaves the fleet.             *)
HeartbeatsBuyNoTime ==
  \A a \in Attempts : a \in inFlight ~> a \notin inFlight

(* "An expiry is surfaced exactly once": whatever the order of sweeps,     *)
(* heartbeats and late completions, an attempt is reported once when it    *)
(* expires and never otherwise, so one hang is one failure to whoever      *)
(* counts them (timeout.ts 330-332).                                       *)
SurfacedOnce ==
  \A a \in Attempts :
    reported[a] = IF a \in begun \ (inFlight \cup finished) THEN 1 ELSE 0

(* The leak gauge is exact: attempts that were given up on are the ones in *)
(* the ledger and the ones settled, each settled once, whoever settles it  *)
(* and however often (timeout.ts 38-62, 247-257).                          *)
AbandonedAreAccountedFor ==
  /\ DOMAIN abandoned \subseteq begun \ (inFlight \cup finished)
  /\ Cardinality(begun \ (inFlight \cup finished)) =
       Cardinality(DOMAIN abandoned)
         + settled["confirmed_dead"] + settled["returned_late"] + settled["presumed_dead"]

(* One report and one settlement for each attempt given up on.             *)
GivenUpOnce == SurfacedOnce /\ AbandonedAreAccountedFor

(* The ledger blames the deadline that really passed first, however late   *)
(* the sweep that found it and whatever passed in the meantime.            *)
BlamesTheFirstDeadline ==
  \A a \in DOMAIN abandoned : abandoned[a] = firstBreach[a]
=============================================================================
