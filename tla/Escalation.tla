----------------------------- MODULE Escalation -----------------------------
(***************************************************************************)
(* EscalationPolicy: which tasks are worth a panel, and how often that may *)
(* be said yes to (harness/escalate.ts).  Scores and floors are small      *)
(* integers, 0 a floor that is not armed; the cap is a fraction.           *)
(***************************************************************************)
EXTENDS Integers, FiniteSets

CONSTANTS
  Scores,
  MarginFloor, EarnedFloor, ConfidenceFloor,
  CapPart, CapWhole,   \* maxEscalationRate = CapPart / CapWhole
  MaxDecisions         \* bound

EscalationAssumption ==
  /\ Scores \subseteq Nat
  /\ MarginFloor \in Nat /\ EarnedFloor \in Nat /\ ConfidenceFloor \in Nat
  /\ CapWhole \in Nat \ {0} /\ CapPart \in 0..CapWhole
  /\ MaxDecisions \in Nat

NoRunnerUp == -1
Reasons == {"thin_margin", "low_earned", "low_confidence"}
Signals == [topEarned : Scores, runnerUp : Scores \cup {NoRunnerUp}, topConfidence : Scores]

VARIABLES
  decisions, escalations, denied,
  reasons,      \* escalations by the reason that fired
  uncertain     \* decisions whose uncertainty was above 0 (history)

vars == <<decisions, escalations, denied, reasons, uncertain>>

TypeOK ==
  /\ {decisions, escalations, denied, uncertain} \subseteq 0..MaxDecisions
  /\ reasons \in [Reasons -> 0..MaxDecisions]

Init ==
  /\ decisions = 0 /\ escalations = 0 /\ denied = 0 /\ uncertain = 0
  /\ reasons = [r \in Reasons |-> 0]

-----------------------------------------------------------------------------
ThinMargin(s) == s.runnerUp # NoRunnerUp /\ s.topEarned - s.runnerUp < MarginFloor

\* fault: the leader's lead is not asked about
ReasonWithoutMargin(s) ==
  IF s.topEarned < EarnedFloor THEN "low_earned"
  ELSE IF s.topConfidence < ConfidenceFloor THEN "low_confidence" ELSE "none"

(* A floor of 0 is under every score, but a margin may be negative.        *)
Reason(s) ==
  IF MarginFloor > 0 /\ ThinMargin(s) THEN "thin_margin"
  ELSE IF s.topEarned < EarnedFloor THEN "low_earned"
  ELSE IF s.topConfidence < ConfidenceFloor THEN "low_confidence"
  ELSE "none"

(* uncertaintyOf: the largest shortfall, of which only the sign is kept.   *)
Uncertain(s) ==
  \/ MarginFloor > 0 /\ s.runnerUp # NoRunnerUp /\ MarginFloor - (s.topEarned - s.runnerUp) > 0
  \/ EarnedFloor > 0 /\ EarnedFloor - s.topEarned > 0
  \/ ConfidenceFloor > 0 /\ ConfidenceFloor - s.topConfidence > 0

\* fault: the rate before this escalation is compared
OverCapBefore(n) == escalations * CapWhole > CapPart * n

(* The rate with this escalation in it, at the nth decision.               *)
OverCap(n) == (escalations + 1) * CapWhole > CapPart * n

Decide(s) ==
  /\ decisions < MaxDecisions
  /\ decisions' = decisions + 1
  /\ uncertain' = IF Uncertain(s) THEN uncertain + 1 ELSE uncertain
  /\ \/ /\ Reason(s) = "none"
        /\ UNCHANGED <<escalations, denied, reasons>>
     \/ /\ Reason(s) # "none" /\ OverCap(decisions + 1)
        /\ denied' = denied + 1
        /\ UNCHANGED <<escalations, reasons>>
     \/ /\ Reason(s) # "none" /\ ~OverCap(decisions + 1)
        /\ escalations' = escalations + 1
        /\ reasons' = [reasons EXCEPT ![Reason(s)] = @ + 1]
        /\ UNCHANGED denied

Reset ==
  /\ decisions > 0
  /\ decisions' = 0 /\ escalations' = 0 /\ denied' = 0 /\ uncertain' = 0
  /\ reasons' = [r \in Reasons |-> 0]

Next == (\E s \in Signals : Decide(s)) \/ Reset

Spec == Init /\ [][Next]_vars

-----------------------------------------------------------------------------
(* However the signals come, and however far apart, the share of panels is *)
(* never above the cap ("lets the cap be exceeded by exactly one", 239).     *)
SpendStaysUnderTheCap == escalations * CapWhole <= CapPart * decisions

(* The two ways of looking at a task agree: an uncertainty above 0 means   *)
(* that a signal fired, and every signal is a panel or a denial.           *)
EverySignalIsAnswered ==
  /\ uncertain = escalations + denied
  /\ escalations = reasons["thin_margin"] + reasons["low_earned"] + reasons["low_confidence"]
=============================================================================
