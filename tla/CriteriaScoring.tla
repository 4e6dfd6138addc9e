-------------------------- MODULE CriteriaScoring --------------------------
(***************************************************************************)
(* scoreCriteria of src/lib/trustshell/harness/loop.ts: the judge's        *)
(* verdicts, read one after the other, fold to one outcome for the run.    *)
(* A criterion may carry a floor, a judge may give no usable score, leave  *)
(* a criterion out, or give several verdicts for one.                      *)
(*                                                                         *)
(* Scores are whole numbers here; only their order against a floor is      *)
(* used.  NoScore is a score that is absent or not a number in [0, 1].     *)
(***************************************************************************)
EXTENDS Integers, Sequences, SequencesExt

CONSTANTS
  Criteria,      \* the ids agreed
  Scores,        \* the usable scores
  Floor,         \* [Criteria -> Scores \cup {NoFloor}], criterion.minScore
  NoFloor,
  MaxVerdicts    \* bound: verdicts given

ScoringAssumption ==
  /\ Scores \subseteq Nat
  /\ NoFloor \notin Scores
  /\ Floor \in [Criteria -> Scores \cup {NoFloor}]
  /\ MaxVerdicts \in Nat

NoScore == -1

Outcomes == {"FAILED", "NOT_CHECKED", "VERIFIED"}
Verdict == [id : Criteria, outcome : Outcomes, score : Scores \cup {NoScore}]

(* No verdict yet for a criterion.                                         *)
Absent == [outcome |-> "none", score |-> NoScore]

VARIABLES
  verdicts,     \* the evaluation, in the order the judge wrote it (history)
  byId          \* the verdict kept for each criterion

Strength(o) == CASE o = "FAILED" -> 0 [] o = "NOT_CHECKED" -> 1 [] o = "VERIFIED" -> 2

WeakerOutcome(a, b) == IF Strength(a) <= Strength(b) THEN a ELSE b

\* fault: a floor without a score is passed over
FloorPassedOver(c, v) ==
  IF Floor[c] # NoFloor /\ v.score # NoScore /\ v.score < Floor[c] THEN "FAILED" ELSE "VERIFIED"

FloorOutcome(c, v) ==
  CASE Floor[c] = NoFloor -> "VERIFIED"
    [] Floor[c] # NoFloor /\ v.score = NoScore -> "NOT_CHECKED"
    [] Floor[c] # NoFloor /\ v.score # NoScore /\ v.score < Floor[c] -> "FAILED"
    [] OTHER -> "VERIFIED"

CriterionOutcome(c, v) ==
  IF v = Absent THEN "NOT_CHECKED" ELSE WeakerOutcome(v.outcome, FloorOutcome(c, v))

(* The fold over the criteria is the weakest of their outcomes.            *)
Weakest(os) == CHOOSE o \in os : \A p \in os : Strength(o) <= Strength(p)

OutcomeOf(kept) ==
  Weakest({"VERIFIED"} \cup {CriterionOutcome(c, kept[c]) : c \in Criteria})

vars == <<verdicts, byId>>

Init ==
  /\ verdicts = <<>>
  /\ byId = [c \in Criteria |-> Absent]

\* fault: the last verdict wins
Latest(kept, v) == TRUE

(* A verdict no stronger than the one kept replaces it, ties included.     *)
Replaces(kept, v) ==
  kept[v.id] = Absent \/ WeakerOutcome(v.outcome, kept[v.id].outcome) = v.outcome

Keep(kept, v) ==
  IF Replaces(kept, v)
  THEN [kept EXCEPT ![v.id] = [outcome |-> v.outcome, score |-> v.score]]
  ELSE kept

Read(v) ==
  /\ Len(verdicts) < MaxVerdicts
  /\ verdicts' = Append(verdicts, v)
  /\ byId' = Keep(byId, v)

Next == \E v \in Verdict : Read(v)

Spec == Init /\ [][Next]_vars

-----------------------------------------------------------------------------
(* What was read, and what is kept of it.                                  *)
TypeOK ==
  /\ verdicts \in Seq(Verdict) /\ Len(verdicts) <= MaxVerdicts
  /\ byId \in [Criteria -> {Absent} \cup [outcome : Outcomes, score : Scores \cup {NoScore}]]

(* A judge that contradicts itself is read the same in whatever order it   *)
(* wrote ("last-write-wins would make the outcome depend on array order",  *)
(* loop.ts:1214-1216).                                                     *)
OrderIsImmaterial ==
  \A k \in 1..(Len(verdicts) - 1) :
    LET swapped == [verdicts EXCEPT ![k] = verdicts[k + 1], ![k + 1] = verdicts[k]]
    IN OutcomeOf(FoldLeft(Keep, [c \in Criteria |-> Absent], swapped)) = OutcomeOf(byId)

(* VERIFIED is returned only when every agreed criterion was judged, never *)
(* judged otherwise, and has a score at its floor or above.                *)
VerifiedMeansAll ==
  OutcomeOf(byId) = "VERIFIED" =>
    \A c \in Criteria :
      LET about == {i \in DOMAIN verdicts : verdicts[i].id = c} IN
      /\ about # {}
      /\ \A i \in about : verdicts[i].outcome = "VERIFIED"
      /\ Floor[c] # NoFloor => \E i \in about : verdicts[i].score >= Floor[c]

(* A single criterion that failed fails the run: nothing pays for it       *)
(* ("NO AVERAGING", loop.ts:1205-1208).                                    *)
OneFailureFails ==
  (\E i \in DOMAIN verdicts : verdicts[i].outcome = "FAILED") => OutcomeOf(byId) = "FAILED"

(* Neither an absent verdict nor a failed one is made up for by the rest.  *)
NothingIsAveraged == VerifiedMeansAll /\ OneFailureFails
=============================================================================
