------------------------------ MODULE Payment ------------------------------
(***************************************************************************)
(* POST /api/trustrails/pay: concurrent payments of one agent, each a      *)
(* chain of gates in front of a transfer and a chain of writes behind it.  *)
(*                                                                         *)
(* The gates before the vote (authentication, thresholds, signatures, the  *)
(* contracted evaluator) keep nothing and are one choice.  The limits are  *)
(* stored in the agent's row and moved by nobody here.  The vote of a      *)
(* payment that was only observed is taken later; BftQueue is its detail.  *)
(***************************************************************************)
EXTENDS Integers, FiniteSets, FiniteSetsExt

CONSTANTS
  Requests,
  Amount,      \* [Requests -> Nat \ {0}], each within the limit per transaction
  DailyLimit,
  MaxScore     \* REPID_MAX; the score starts at 0, and a reward adds 1

PaymentAssumption ==
  /\ Amount \in [Requests -> Nat \ {0}]
  /\ DailyLimit \in Nat
  /\ MaxScore \in Nat

Settlements == {"none", "simulated", "submitted", "confirmed"}
Answers == {"denied", "failed", "approved", "crashed"}

VARIABLES
  enforcing,   \* BFT_ENFORCEMENT_MODE is enforce
  stage,       \* how far each request is
  evaluated,   \* bftProof.evaluated: the vote was taken before the transfer
  settlement,  \* what the executor returned
  moved,       \* payments whose transfer took place
  bft,         \* the receipt's bft_passed, "none" without a receipt
  queued,      \* payments in bft_payment_evaluations, still to be voted on
  claimed,     \* receipts with repid_reward_at
  score,       \* repid_score of the agent's row
  read,        \* the score updateRepID read, per request
  unseen,      \* payments under way or made that validate did not count (history)
  credited,    \* payments whose reward was written (history)
  overlapped   \* two requests were at updateRepID at a time (history)

receiptVars == <<bft, queued, claimed>>
scoreVars == <<score, read, credited, overlapped>>
vars == <<enforcing, stage, evaluated, settlement, moved, receiptVars, scoreVars, unseen>>

TypeOK ==
  /\ enforcing \in BOOLEAN
  /\ stage \in [Requests -> {"new", "validated", "authorized", "executed", "recorded",
                             "enqueued", "claimed", "read"} \cup Answers]
  /\ evaluated \in [Requests -> BOOLEAN]
  /\ settlement \in [Requests -> Settlements]
  /\ bft \in [Requests -> {"none", "null", "true", "false"}]
  /\ moved \cup queued \cup claimed \cup credited \subseteq Requests
  /\ score \in 0..MaxScore /\ read \in [Requests -> 0..MaxScore]
  /\ unseen \in [Requests -> SUBSET Requests]
  /\ overlapped \in BOOLEAN

Init ==
  /\ enforcing \in BOOLEAN
  /\ stage = [p \in Requests |-> "new"]
  /\ evaluated = [p \in Requests |-> FALSE]
  /\ settlement = [p \in Requests |-> "none"]
  /\ bft = [p \in Requests |-> "none"]
  /\ moved = {} /\ queued = {} /\ claimed = {} /\ credited = {}
  /\ score = 0
  /\ read = [p \in Requests |-> 0]
  /\ unseen = [p \in Requests |-> {}]
  /\ overlapped = FALSE

Go(p, s) == stage' = [stage EXCEPT ![p] = s]
Total(ps) == MapThenSumSet(LAMBDA p : Amount[p], ps)

-----------------------------------------------------------------------------
(* getDailySpend: receipts whose vote passed, whatever their settlement.   *)
Counted == {p \in Requests : bft[p] = "true"}

Unreadable == -1

\* fault: a spend that cannot be read is no spend
SpendOrNothing == {Total(Counted), 0}

SpendSeen == {Total(Counted), Unreadable}

WithinDaily(p, spent) == spent # Unreadable /\ spent + Amount[p] <= DailyLimit

Validate(p) ==
  /\ stage[p] = "new"
  /\ \E spent \in SpendSeen : Go(p, IF WithinDaily(p, spent) THEN "validated" ELSE "denied")
  /\ unseen' = [unseen EXCEPT ![p] =
       {q \in Requests \ {p} : stage[q] \notin {"new", "denied"} /\ q \notin Counted}]
  /\ UNCHANGED <<enforcing, evaluated, settlement, moved, receiptVars, scoreVars>>

(* The threshold, the two signatures of a large amount, the contracted     *)
(* evaluation and the panel: each may refuse.  A panel that throws does    *)
(* not, and neither does one that only observes: neither has voted.        *)
Authorize(p) ==
  /\ stage[p] = "validated"
  /\ \/ Go(p, "denied") /\ UNCHANGED evaluated
     \/ Go(p, "authorized") /\ \E e \in {FALSE, enforcing} : evaluated' = [evaluated EXCEPT ![p] = e]
  /\ UNCHANGED <<enforcing, settlement, moved, receiptVars, scoreVars, unseen>>

(* The executor never throws.  An error of the RPC is reported as          *)
(* simulated, whether or not the transaction was broadcast before it.      *)
Execute(p) ==
  /\ stage[p] = "authorized"
  /\ \E s \in Settlements \ {"none"}, m \in BOOLEAN :
       /\ s = "confirmed" => m
       /\ settlement' = [settlement EXCEPT ![p] = s]
       /\ moved' = IF m THEN moved \cup {p} ELSE moved
  /\ Go(p, "executed")
  /\ UNCHANGED <<enforcing, evaluated, receiptVars, scoreVars, unseen>>

-----------------------------------------------------------------------------
\* fault: the result of the insert is discarded
StageWithoutReceiptIgnored == "recorded"

StageWithoutReceipt == "failed"

WriteReceipt(p) ==
  /\ stage[p] = "executed"
  /\ \/ /\ bft' = [bft EXCEPT ![p] = IF evaluated[p] THEN "true" ELSE "null"]
        /\ Go(p, "recorded")
     \/ /\ Go(p, StageWithoutReceipt)
        /\ UNCHANGED bft
  /\ UNCHANGED <<enforcing, evaluated, settlement, moved, queued, claimed, scoreVars, unseen>>

(* A row that could not be queued is only logged.                          *)
Enqueue(p) ==
  /\ stage[p] = "recorded"
  /\ \/ ~evaluated[p] /\ queued' = queued \cup {p}
     \/ UNCHANGED queued
  /\ Go(p, "enqueued")
  /\ UNCHANGED <<enforcing, evaluated, settlement, moved, bft, claimed, scoreVars, unseen>>

(* The drain of BftQueue, as far as the receipt shows it.                  *)
Vote(p) ==
  /\ p \in queued
  /\ queued' = queued \ {p}
  /\ \E v \in {"null", "true", "false"} : bft' = [bft EXCEPT ![p] = v]
  /\ UNCHANGED <<enforcing, stage, evaluated, settlement, moved, claimed, scoreVars, unseen>>

-----------------------------------------------------------------------------
\* fault: a vote that was not taken earns as one that passed
EarnedUnlessRefused(p) == settlement[p] = "confirmed"

(* rewardFor                                                               *)
Earned(p) == evaluated[p] /\ settlement[p] = "confirmed"

(* RewardLedger.claim, where repid_reward_at is null.                      *)
Claim(p) ==
  /\ stage[p] = "enqueued"
  /\ \/ /\ Earned(p) /\ p \notin claimed
        /\ claimed' = claimed \cup {p}
        /\ Go(p, "claimed")
     \/ Go(p, "approved") /\ UNCHANGED claimed
  /\ UNCHANGED <<enforcing, evaluated, settlement, moved, bft, queued, scoreVars, unseen>>

ReadScore(p) ==
  /\ stage[p] = "claimed"
  /\ \/ /\ read' = [read EXCEPT ![p] = score]
        /\ overlapped' = (overlapped \/ \E q \in Requests : stage[q] = "read")
        /\ Go(p, "read")
     \/ Go(p, "failed") /\ UNCHANGED <<read, overlapped>>
  /\ UNCHANGED <<enforcing, evaluated, settlement, moved, receiptVars, score, credited, unseen>>

\* fault: the score counts the payments instead of what was read
NewScoreOfClaims(p) == Cardinality(claimed)

NewScore(p) == IF read[p] + 1 > MaxScore THEN MaxScore ELSE read[p] + 1

(* The error of the update is not looked at.                               *)
WriteScore(p) ==
  /\ stage[p] = "read"
  /\ \/ score' = NewScore(p) /\ credited' = credited \cup {p}
     \/ UNCHANGED <<score, credited>>
  /\ Go(p, "approved")
  /\ UNCHANGED <<enforcing, evaluated, settlement, moved, receiptVars, read, overlapped, unseen>>

Crash(p) ==
  /\ stage[p] \notin {"new"} \cup Answers
  /\ Go(p, "crashed")
  /\ UNCHANGED <<enforcing, evaluated, settlement, moved, receiptVars, scoreVars, unseen>>

Idle ==
  /\ \A p \in Requests : stage[p] \in Answers
  /\ queued = {}
  /\ UNCHANGED vars

Next ==
  \/ \E p \in Requests :
       \/ Validate(p) \/ Authorize(p) \/ Execute(p) \/ WriteReceipt(p) \/ Enqueue(p) \/ Vote(p)
       \/ Claim(p) \/ ReadScore(p) \/ WriteScore(p) \/ Crash(p)
  \/ Idle

Spec == Init /\ [][Next]_vars

-----------------------------------------------------------------------------
(* More than the daily limit is moved only by payments of which one was    *)
(* validated while another that moved was not counted: in flight, still    *)
(* without a verdict, refused by a later vote, or its receipt lost.        *)
OverspendNeedsBlindness ==
  Total(moved) > DailyLimit => \E p, q \in moved : q \in unseen[p]

(* The score rises only for a payment that was voted on, moved and is      *)
(* recorded, and once for each ("two concurrent replays cannot both win"). *)
RewardIsEarned ==
  /\ \A p \in credited :
       /\ evaluated[p] /\ p \in moved /\ settlement[p] = "confirmed"
       /\ p \in claimed /\ bft[p] = "true"
  /\ score <= Cardinality(credited)

(* No reward is lost but by two at a time, or at the top of the scale.     *)
RewardsAddUp ==
  ~overlapped => \/ score = Cardinality(credited)
                 \/ score = MaxScore /\ score < Cardinality(credited)

(* "A receipt that was not stored is not a receipt": approved means there  *)
(* is one, a denial moved nothing, and what moved without a receipt was    *)
(* answered as a failure or not at all.                                    *)
AnswerKnowsTheReceipt ==
  \A p \in Requests :
    /\ stage[p] = "approved" => bft[p] # "none"
    /\ stage[p] = "denied" => p \notin moved /\ bft[p] = "none"
=============================================================================
