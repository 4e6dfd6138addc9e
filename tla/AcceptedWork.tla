---------------------------- MODULE AcceptedWork ----------------------------
(***************************************************************************)
(* runAcceptedWork: a doer submits, one drawn auditor judges each agreed   *)
(* criterion through a ladder of tiers, and the rounds go on until the     *)
(* work is accepted or given up (identity/spine.ts, staged-judge.ts,       *)
(* contracted-evaluator.ts, acceptance-loop.ts).                           *)
(*                                                                         *)
(* Drawing, signing and the doer's run are a round's beginning, and may    *)
(* throw; AgentLoop and CriteriaScoring are the run and the floors in      *)
(* detail.  A panel that is split says NOT_CHECKED.                        *)
(***************************************************************************)
EXTENDS Integers, Sequences, FiniteSets, SequencesExt

CONSTANTS
  Floor,           \* the agreed criteria in order: each one's minScore, 0 for none
  Tiers,           \* how many; the last is the strongest
  Scores,
  Digests,         \* of what may be submitted
  MaxRejections,
  MaxRounds

WorkAssumption ==
  /\ Floor \in Seq(Nat) /\ Floor # <<>>
  /\ Tiers \in Nat \ {0} /\ MaxRejections \in Nat \ {0} /\ MaxRounds \in Nat \ {0}
  /\ Scores \subseteq Nat

NoScore == -1
NoDigest == "none"
Outcomes == {"FAILED", "NOT_CHECKED", "VERIFIED"}
Opinion == [outcome : Outcomes, score : Scores \cup {NoScore}, referred : BOOLEAN]
Terminal == {"ACCEPTED", "EXHAUSTED", "STALLED", "ABANDONED"}

VARIABLES
  status,     \* state.status
  rounds,     \* each with its submissionDigest and verdict, and whether a tier
              \* said FAILED in it (history)
  turn,       \* "doer", "judging"; "over" and "thrown" when the call ended
  digest,     \* what is being judged
  scores,     \* of the criteria answered: outcome, score and the tier that decided
  tier,       \* that is asked about the next criterion
  doubts      \* "defect", "referral": what some tier of the round said (history)

roundVars == <<digest, scores, tier, doubts>>
vars == <<status, rounds, turn, roundVars>>

TypeOK ==
  /\ status \in {"NOT_STARTED", "REVISE"} \cup Terminal
  /\ rounds \in Seq([digest : Digests, verdict : {"ACCEPTED", "REJECTED", "NOT_CHECKED"},
                     defect : BOOLEAN])
  /\ turn \in {"doer", "judging", "over", "thrown"}
  /\ digest \in Digests \cup {NoDigest}
  /\ scores \in Seq([outcome : Outcomes, score : Scores \cup {NoScore}, by : 1..Tiers])
  /\ Len(scores) <= Len(Floor)
  /\ tier \in 1..Tiers
  /\ doubts \subseteq {"defect", "referral"}

Init ==
  /\ status = "NOT_STARTED" /\ rounds = <<>> /\ turn = "doer"
  /\ digest = NoDigest /\ scores = <<>> /\ tier = 1 /\ doubts = {}

-----------------------------------------------------------------------------
Submit(d) ==
  /\ turn = "doer" /\ Len(rounds) <= MaxRounds   \* bound
  /\ turn' = "judging"
  /\ digest' = d /\ scores' = <<>> /\ tier' = 1 /\ doubts' = {}
  /\ UNCHANGED <<status, rounds>>

(* attempt returned null: the state stays as it is.                        *)
NothingToSubmit ==
  /\ turn = "doer"
  /\ turn' = "over"
  /\ UNCHANGED <<status, rounds, roundVars>>

(* The draw does not verify, there is no key for the checker, the run      *)
(* threw, or the beacon moved and drew another auditor.                    *)
Throw ==
  /\ turn = "judging"
  /\ turn' = "thrown"
  /\ UNCHANGED <<status, rounds, roundVars>>

-----------------------------------------------------------------------------
Weakened(o) == IF o.referred /\ o.outcome = "VERIFIED" THEN "NOT_CHECKED" ELSE o.outcome

\* fault: whatever a tier could establish ends it
DecidesWhenEstablished(o) == Weakened(o) # "NOT_CHECKED" \/ o.referred \/ tier = Tiers

Decides(o) == Weakened(o) = "FAILED" \/ o.referred \/ tier = Tiers

Score(outcome, score) ==
  /\ scores' = Append(scores, [outcome |-> outcome, score |-> score, by |-> tier])
  /\ tier' = 1

Escalate == tier' = tier + 1 /\ UNCHANGED scores

Judging == turn = "judging" /\ Len(scores) < Len(Floor)

TierAnswers(o) ==
  /\ Judging
  /\ IF Decides(o) THEN Score(Weakened(o), o.score) ELSE Escalate
  /\ doubts' = doubts \cup (IF o.outcome = "FAILED" THEN {"defect"} ELSE {})
                      \cup (IF o.referred THEN {"referral"} ELSE {})
  /\ UNCHANGED <<status, rounds, turn, digest>>

\* fault: nobody could judge it, so it is not good enough
OutageOutcomeFailed == "FAILED"

OutageOutcome == "NOT_CHECKED"

TierThrows ==
  /\ Judging
  /\ IF tier = Tiers THEN Score(OutageOutcome, NoScore) ELSE Escalate
  /\ UNCHANGED <<status, rounds, turn, digest, doubts>>

-----------------------------------------------------------------------------
(* The outcome of the signed verdict: the weakest answer, without floors.  *)
VerdictOutcome ==
  LET given == {s.outcome : s \in Range(scores)} IN
  IF "FAILED" \in given THEN "FAILED"
  ELSE IF "NOT_CHECKED" \in given THEN "NOT_CHECKED" ELSE "VERIFIED"

(* roundVerdictFor, of a verdict that was signed and can be read.          *)
RoundVerdict ==
  CASE VerdictOutcome = "VERIFIED" -> "ACCEPTED"
    [] VerdictOutcome = "FAILED" -> "REJECTED"
    [] OTHER -> "NOT_CHECKED"

Rejected(rs) == {i \in DOMAIN rs : rs[i].verdict = "REJECTED"}

(* The last two that were rejected; an outage between two submissions of   *)
(* the same bytes is passed over.                                          *)
Stalled(rs) ==
  \E i, j \in Rejected(rs) :
    {k \in Rejected(rs) : k > i} = {j} /\ rs[i].digest = rs[j].digest

\* fault: only rejections end it
AcceptanceWithoutCeiling(rs) ==
  IF \E r \in Range(rs) : r.verdict = "ACCEPTED" THEN "ACCEPTED"
  ELSE IF Stalled(rs) THEN "STALLED"
  ELSE IF Cardinality(Rejected(rs)) >= MaxRejections THEN "EXHAUSTED" ELSE "REVISE"

(* evaluateAcceptance                                                      *)
Acceptance(rs) ==
  IF \E r \in Range(rs) : r.verdict = "ACCEPTED" THEN "ACCEPTED"
  ELSE IF Stalled(rs) THEN "STALLED"
  ELSE IF Cardinality(Rejected(rs)) >= MaxRejections THEN "EXHAUSTED"
  ELSE IF Len(rs) >= MaxRounds THEN "ABANDONED" ELSE "REVISE"

CloseWith(verdict) ==
  LET rs == Append(rounds, [digest |-> digest, verdict |-> verdict,
                            defect |-> "defect" \in doubts])
  IN /\ rounds' = rs
     /\ status' = Acceptance(rs)
     /\ turn' = IF Acceptance(rs) \in Terminal THEN "over" ELSE "doer"
     /\ UNCHANGED roundVars

CloseRound ==
  /\ turn = "judging" /\ Len(scores) = Len(Floor)
  /\ CloseWith(RoundVerdict)

(* The run ended before it came to be judged, or its verdict could not be  *)
(* signed or cannot be read.                                               *)
CloseUnjudged ==
  /\ turn = "judging" /\ Len(scores) \in {0, Len(Floor)} /\ tier = 1
  /\ CloseWith("NOT_CHECKED")

Ended == turn \in {"over", "thrown"} /\ UNCHANGED vars

Next ==
  \/ \E d \in Digests : Submit(d)
  \/ \E o \in Opinion : TierAnswers(o)
  \/ TierThrows \/ CloseRound \/ CloseUnjudged \/ NothingToSubmit \/ Throw
  \/ Ended

Spec == Init /\ [][Next]_vars

-----------------------------------------------------------------------------
(* Accepted work was certified, every criterion of it, by the strongest    *)
(* tier, and no tier of the round found a defect or asked for a human      *)
(* ("FAILED is final; VERIFIED escalates").                                *)
DeliveredWasCertified ==
  status = "ACCEPTED" =>
    /\ Len(scores) = Len(Floor) /\ doubts = {}
    /\ \A s \in Range(scores) : s.outcome = "VERIFIED" /\ s.by = Tiers

(* "An outage cannot condemn": the doer's budget is spent, and a stall     *)
(* found, on rounds in which somebody judged the work and found it wanting.*)
OutageBlamesNobody ==
  \A i \in DOMAIN rounds : rounds[i].verdict = "REJECTED" => rounds[i].defect

(* No round is asked for that no budget covers, neither of rejections nor  *)
(* of rounds, and none after the same bytes were rejected twice: a judge   *)
(* that is down does not keep the loop going for ever.                     *)
BudgetsEndTheLoop ==
  turn \in {"doer", "judging"} =>
    /\ Len(rounds) < MaxRounds
    /\ Cardinality(Rejected(rounds)) < MaxRejections
    /\ ~Stalled(rounds)

(* What is delivered meets the contract, as verifyVerdict finds it: a      *)
(* checker that reports VERIFIED under an agreed floor is overruled        *)
(* (work-contract.ts 412-416).                                             *)
DeliveredMeetsTheContract ==
  status = "ACCEPTED" =>
    \A i \in DOMAIN Floor : Floor[i] > 0 => scores[i].score >= Floor[i]
=============================================================================
