------------------------------ MODULE Quorum3f ------------------------------
(***************************************************************************)
(* QuorumEvaluator.evaluate: a weighted supermajority over the votes of    *)
(* one round (harness/quorum.ts).  The evaluator keeps nothing; the state  *)
(* is the round's votes, of which any validator's may be another, so that  *)
(* a step relates the outcomes of two rounds that differ in one validator. *)
(***************************************************************************)
EXTENDS Integers, FiniteSets, FiniteSetsExt

CONSTANTS
  Validators,
  Weight,           \* [Validators -> Nat], earned scores within 0..BPS_MAX
  BarPart, BarWhole,   \* supermajority, above 1/2 and below 1
  MinValidators,
  FaultTolerance

QuorumAssumption ==
  /\ IsFiniteSet(Validators) /\ Weight \in [Validators -> Nat]
  /\ BarPart \in Nat /\ BarWhole \in Nat
  /\ 2 * BarPart > BarWhole /\ BarPart < BarWhole
  /\ MinValidators \in Nat /\ FaultTolerance \in Nat

VARIABLE votes   \* [Validators -> what it voted]; "twice" for more than one vote

vars == <<votes>>

Verdicts == {"none", "approve", "reject", "abstain", "twice"}

TypeOK == votes \in [Validators -> Verdicts]

Init == votes = [v \in Validators |-> "none"]

-----------------------------------------------------------------------------
(* An equivocator's votes are all dropped.                                 *)
Side(vs, verdict) == {v \in Validators : vs[v] = verdict}
WeightOf(ws) == MapThenSumSet(LAMBDA v : Weight[v], ws)
Deciding(vs) == Side(vs, "approve") \cup Side(vs, "reject")

\* fault: more than half is enough
ClearsTheBarByHalf(w, all) == 2 * w > all

ClearsTheBar(w, all) == BarWhole * w > BarPart * all

Outcome(vs) ==
  LET all == WeightOf(Deciding(vs))
      n == Cardinality(Deciding(vs))
  IN IF n < MinValidators THEN "INDETERMINATE"
     ELSE IF FaultTolerance > 0 /\ n < 3 * FaultTolerance + 1 THEN "INDETERMINATE"
     ELSE IF all = 0 THEN "INDETERMINATE"
     ELSE IF ClearsTheBar(WeightOf(Side(vs, "approve")), all) THEN "COMMIT"
     ELSE IF ClearsTheBar(WeightOf(Side(vs, "reject")), all) THEN "REJECT"
     ELSE "INDETERMINATE"

VoteOtherwise(v) ==
  \E verdict \in Verdicts \ {votes[v]} : votes' = [votes EXCEPT ![v] = verdict]

Next == \E v \in Validators : VoteOtherwise(v)

Spec == Init /\ [][Next]_vars

-----------------------------------------------------------------------------
(* One validator, by voting, not voting, abstaining, changing its vote or  *)
(* voting twice, does not turn a commit into a rejection or the other way, *)
(* if it holds no more of the deciding weight than two rounds that clear   *)
(* the bar have to share (a third, at two thirds).  A heavier one can.     *)
OneFaultFlipsNothing ==
  [][\A v \in Validators :
       /\ votes'[v] # votes[v]
       /\ \A vs \in {votes, votes'} :
            BarWhole * Weight[v] <= (2 * BarPart - BarWhole) * WeightOf(Deciding(vs))
       => {Outcome(votes), Outcome(votes')} # {"COMMIT", "REJECT"}]_vars
=============================================================================
