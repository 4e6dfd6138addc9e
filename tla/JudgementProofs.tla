--------------------------- MODULE JudgementProofs --------------------------
(***************************************************************************)
(* What decides and what is remembered: the judge's fold, the quorum, the  *)
(* escalation to a panel, the reputation ledger and the harness profile,   *)
(* for any values of their constants.                                      *)
(***************************************************************************)
EXTENDS Harness, Sequences, FiniteSums

-----------------------------------------------------------------------------
(***************************************************************************)
(* What the fold over a judge's verdicts returns, for any criteria, scores *)
(* and floors, and any number of verdicts in any order.                    *)
(***************************************************************************)

LEMMA ScoringConstants ==
  /\ Scores \subseteq Nat
  /\ NoFloor \notin Scores
  /\ Floor \in [Criteria -> Scores \cup {NoFloor}]
  /\ MaxVerdicts \in Nat
BY HarnessAssumption DEF Scoring!ScoringAssumption

Kept == [outcome : Scoring!Outcomes \cup {"none"}, score : Scores \cup {Scoring!NoScore}]

ScoringTypes ==
  /\ verdicts \in Seq(Scoring!Verdict) /\ Len(verdicts) <= MaxVerdicts
  /\ byId \in [Criteria -> Kept]

(* What is kept for a criterion is one of the verdicts given on it, and    *)
(* none of those is weaker.                                                *)
KeptIsTheWeakest ==
  /\ \A c \in Criteria : byId[c].outcome = "none" => byId[c] = Scoring!Absent
  /\ \A c \in Criteria : byId[c].outcome # "none" =>
       \E i \in DOMAIN verdicts :
         /\ verdicts[i].id = c
         /\ verdicts[i].outcome = byId[c].outcome
         /\ verdicts[i].score = byId[c].score
  /\ \A i \in DOMAIN verdicts :
       /\ byId[verdicts[i].id].outcome # "none"
       /\ Scoring!Strength(byId[verdicts[i].id].outcome)
            <= Scoring!Strength(verdicts[i].outcome)

ScoringIInv == ScoringTypes /\ KeptIsTheWeakest

LEMMA StrengthFacts ==
  /\ Scoring!Strength("FAILED") = 0
  /\ Scoring!Strength("NOT_CHECKED") = 1
  /\ Scoring!Strength("VERIFIED") = 2
  /\ \A o \in Scoring!Outcomes : Scoring!Strength(o) \in 0..2
  /\ \A o \in Scoring!Outcomes : Scoring!Strength(o) = 0 <=> o = "FAILED"
  /\ \A o \in Scoring!Outcomes : Scoring!Strength(o) = 2 <=> o = "VERIFIED"
BY DEF Scoring!Strength, Scoring!Outcomes

LEMMA WeakerFacts ==
  ASSUME NEW a \in Scoring!Outcomes, NEW b \in Scoring!Outcomes
  PROVE  /\ Scoring!WeakerOutcome(a, b) \in {a, b}
         /\ Scoring!WeakerOutcome(a, b) = a => Scoring!Strength(a) <= Scoring!Strength(b)
         /\ Scoring!WeakerOutcome(a, b) = b => Scoring!Strength(b) <= Scoring!Strength(a)
         /\ Scoring!WeakerOutcome(a, b) = "VERIFIED" <=> a = "VERIFIED" /\ b = "VERIFIED"
         /\ a = "FAILED" => Scoring!WeakerOutcome(a, b) = "FAILED"
BY StrengthFacts DEF Scoring!WeakerOutcome, Scoring!Outcomes

(* A set of outcomes has a weakest one.                                    *)
LEMMA WeakestFacts ==
  ASSUME NEW os \in SUBSET Scoring!Outcomes, os # {}
  PROVE  Scoring!Weakest(os) \in os /\ \A p \in os :
           Scoring!Strength(Scoring!Weakest(os)) <= Scoring!Strength(p)
<1>1. \E o \in os : \A p \in os : Scoring!Strength(o) <= Scoring!Strength(p)
  <2>1. CASE "FAILED" \in os
    BY <2>1, StrengthFacts
  <2>2. CASE "FAILED" \notin os /\ "NOT_CHECKED" \in os
    BY <2>2, StrengthFacts DEF Scoring!Outcomes
  <2>3. CASE "FAILED" \notin os /\ "NOT_CHECKED" \notin os
    <3>1. \A p \in os : p = "VERIFIED"
      BY <2>3 DEF Scoring!Outcomes
    <3> QED BY <3>1, StrengthFacts
  <2> QED BY <2>1, <2>2, <2>3
<1> QED BY <1>1 DEF Scoring!Weakest

LEMMA FloorIsAnOutcome ==
  ASSUME NEW c \in Criteria, NEW v \in Kept
  PROVE  Scoring!FloorOutcome(c, v) \in Scoring!Outcomes
BY DEF Scoring!FloorOutcome, Scoring!Outcomes

LEMMA CriterionIsAnOutcome ==
  ASSUME NEW c \in Criteria, NEW v \in Kept,
         v = Scoring!Absent \/ v.outcome \in Scoring!Outcomes
  PROVE  Scoring!CriterionOutcome(c, v) \in Scoring!Outcomes
<1>1. CASE v = Scoring!Absent
  BY <1>1 DEF Scoring!CriterionOutcome, Scoring!Outcomes
<1>2. CASE v # Scoring!Absent
  BY <1>2, FloorIsAnOutcome, WeakerFacts DEF Scoring!CriterionOutcome
<1> QED BY <1>1, <1>2

-----------------------------------------------------------------------------

LEMMA ScoringInitEstablishes == Scoring!Init => ScoringIInv
<1> SUFFICES ASSUME Scoring!Init PROVE ScoringIInv
  OBVIOUS
<1>1. Scoring!Absent \in Kept
  BY DEF Scoring!Absent, Kept
<1>2. ScoringTypes
  BY <1>1, ScoringConstants DEF Scoring!Init, ScoringTypes
<1>3. KeptIsTheWeakest
  BY DEF Scoring!Init, KeptIsTheWeakest, Scoring!Absent
<1> QED BY <1>2, <1>3 DEF ScoringIInv

LEMMA ScoringTypesStep == ScoringTypes /\ [Scoring!Next]_Scoring!vars => ScoringTypes'
<1> SUFFICES ASSUME ScoringTypes, [Scoring!Next]_Scoring!vars PROVE ScoringTypes'
  OBVIOUS
<1>1. ASSUME NEW v \in Scoring!Verdict, Scoring!Read(v) PROVE ScoringTypes'
  <2>1. [outcome |-> v.outcome, score |-> v.score] \in Kept
    BY <1>1 DEF Scoring!Verdict, Kept
  <2>2. v.id \in Criteria
    BY <1>1 DEF Scoring!Verdict
  <2>3. byId' \in [Criteria -> Kept]
    BY <1>1, <2>1, <2>2 DEF Scoring!Read, Scoring!Keep, ScoringTypes
  <2>4. verdicts' \in Seq(Scoring!Verdict) /\ Len(verdicts') <= MaxVerdicts
    BY <1>1, ScoringConstants DEF Scoring!Read, ScoringTypes
  <2> QED BY <2>3, <2>4 DEF ScoringTypes
<1>2. CASE UNCHANGED Scoring!vars
  BY <1>2 DEF Scoring!vars, ScoringTypes
<1> QED BY <1>1, <1>2 DEF Scoring!Next

LEMMA WeakestStep ==
  ScoringTypes /\ KeptIsTheWeakest /\ [Scoring!Next]_Scoring!vars => KeptIsTheWeakest'
<1> SUFFICES ASSUME ScoringTypes, KeptIsTheWeakest, [Scoring!Next]_Scoring!vars
             PROVE  KeptIsTheWeakest'
  OBVIOUS
<1>1. ASSUME NEW v \in Scoring!Verdict, Scoring!Read(v) PROVE KeptIsTheWeakest'
  <2> DEFINE n == Len(verdicts)
  <2>1. /\ DOMAIN verdicts = 1..n /\ n \in Nat
        /\ DOMAIN verdicts' = 1..(n + 1)
        /\ \A i \in 1..n : verdicts'[i] = verdicts[i]
        /\ verdicts'[n + 1] = v
        /\ \A i \in 1..n : verdicts[i] \in Scoring!Verdict
    BY <1>1 DEF Scoring!Read, ScoringTypes
  <2>2. v.id \in Criteria /\ v.outcome \in Scoring!Outcomes
    BY DEF Scoring!Verdict
  <2>3. \A c \in Criteria \ {v.id} : byId'[c] = byId[c]
    BY <1>1, <2>2 DEF Scoring!Read, Scoring!Keep, ScoringTypes
  <2>4. byId[v.id].outcome \in Scoring!Outcomes \cup {"none"}
    BY <2>2 DEF ScoringTypes, Kept
  <2>5. CASE Scoring!Replaces(byId, v)
    <3>1. byId'[v.id] = [outcome |-> v.outcome, score |-> v.score]
      BY <1>1, <2>2, <2>5 DEF Scoring!Read, Scoring!Keep, ScoringTypes
    <3>2. byId[v.id].outcome # "none" =>
            Scoring!Strength(v.outcome) <= Scoring!Strength(byId[v.id].outcome)
      <4>1. byId[v.id].outcome # "none" =>
              Scoring!WeakerOutcome(v.outcome, byId[v.id].outcome) = v.outcome
        BY <2>5 DEF Scoring!Replaces, Scoring!Absent
      <4> QED BY <4>1, <2>2, <2>4, WeakerFacts
    <3>3. \A c \in Criteria : byId'[c].outcome # "none" =>
            \E i \in DOMAIN verdicts' :
              /\ verdicts'[i].id = c
              /\ verdicts'[i].outcome = byId'[c].outcome
              /\ verdicts'[i].score = byId'[c].score
      <4> TAKE c \in Criteria
      <4>1. CASE c = v.id
        BY <4>1, <3>1, <2>1
      <4>2. CASE c # v.id
        BY <4>2, <2>1, <2>3 DEF KeptIsTheWeakest
      <4> QED BY <4>1, <4>2
    <3>4. \A i \in DOMAIN verdicts' :
            /\ byId'[verdicts'[i].id].outcome # "none"
            /\ Scoring!Strength(byId'[verdicts'[i].id].outcome)
                 <= Scoring!Strength(verdicts'[i].outcome)
      <4> TAKE i \in DOMAIN verdicts'
      <4>1. CASE i = n + 1
        BY <4>1, <3>1, <2>1, <2>2, StrengthFacts DEF Scoring!Outcomes
      <4>2. CASE i \in 1..n /\ verdicts[i].id = v.id
        <5>1. /\ byId[v.id].outcome # "none"
              /\ Scoring!Strength(byId[v.id].outcome) <= Scoring!Strength(verdicts[i].outcome)
          BY <4>2, <2>1 DEF KeptIsTheWeakest
        <5>2. byId[v.id].outcome \in Scoring!Outcomes
                /\ verdicts[i].outcome \in Scoring!Outcomes
          BY <5>1, <4>2, <2>1, <2>4 DEF Scoring!Verdict
        <5>3. Scoring!Strength(v.outcome) <= Scoring!Strength(verdicts[i].outcome)
          BY <5>1, <5>2, <3>2, <2>2, StrengthFacts
        <5> QED BY <5>3, <4>2, <3>1, <2>1, <2>2 DEF Scoring!Outcomes
      <4>3. CASE i \in 1..n /\ verdicts[i].id # v.id
        <5>1. verdicts[i].id \in Criteria
          BY <4>3, <2>1 DEF Scoring!Verdict
        <5> QED BY <5>1, <4>3, <2>1, <2>3 DEF KeptIsTheWeakest
      <4> QED BY <4>1, <4>2, <4>3, <2>1
    <3>5. \A c \in Criteria : byId'[c].outcome = "none" => byId'[c] = Scoring!Absent
      <4> TAKE c \in Criteria
      <4>1. CASE c = v.id
        BY <4>1, <3>1, <2>2 DEF Scoring!Outcomes
      <4>2. CASE c # v.id
        BY <4>2, <2>3 DEF KeptIsTheWeakest, Scoring!Absent
      <4> QED BY <4>1, <4>2
    <3> QED BY <3>3, <3>4, <3>5 DEF KeptIsTheWeakest, Scoring!Absent
  <2>6. CASE ~Scoring!Replaces(byId, v)
    <3>1. byId' = byId
      BY <1>1, <2>6 DEF Scoring!Read, Scoring!Keep
    <3>2. byId[v.id].outcome \in Scoring!Outcomes
      BY <2>2, <2>4, <2>6 DEF Scoring!Replaces, KeptIsTheWeakest
    <3>3. Scoring!Strength(byId[v.id].outcome) <= Scoring!Strength(v.outcome)
      <4>1. Scoring!WeakerOutcome(v.outcome, byId[v.id].outcome) # v.outcome
        BY <2>6 DEF Scoring!Replaces
      <4> QED BY <4>1, <3>2, <2>2, WeakerFacts
    <3>4. \A i \in DOMAIN verdicts' :
            /\ byId'[verdicts'[i].id].outcome # "none"
            /\ Scoring!Strength(byId'[verdicts'[i].id].outcome)
                 <= Scoring!Strength(verdicts'[i].outcome)
      <4> TAKE i \in DOMAIN verdicts'
      <4>1. CASE i = n + 1
        BY <4>1, <3>1, <3>2, <3>3, <2>1 DEF Scoring!Outcomes
      <4>2. CASE i \in 1..n
        BY <4>2, <3>1, <2>1 DEF KeptIsTheWeakest
      <4> QED BY <4>1, <4>2, <2>1
    <3>5. \A c \in Criteria : byId'[c].outcome # "none" =>
            \E i \in DOMAIN verdicts' :
              /\ verdicts'[i].id = c
              /\ verdicts'[i].outcome = byId'[c].outcome
              /\ verdicts'[i].score = byId'[c].score
      BY <3>1, <2>1 DEF KeptIsTheWeakest
    <3>6. \A c \in Criteria : byId'[c].outcome = "none" => byId'[c] = Scoring!Absent
      BY <3>1 DEF KeptIsTheWeakest, Scoring!Absent
    <3> QED BY <3>4, <3>5, <3>6 DEF KeptIsTheWeakest, Scoring!Absent
  <2> QED BY <2>5, <2>6
<1>2. CASE UNCHANGED Scoring!vars
  BY <1>2 DEF Scoring!vars, KeptIsTheWeakest
<1> QED BY <1>1, <1>2 DEF Scoring!Next

THEOREM ScoringInvariance == Scoring!Spec => []ScoringIInv
<1>1. ScoringIInv /\ [Scoring!Next]_Scoring!vars => ScoringIInv'
  BY ScoringTypesStep, WeakestStep DEF ScoringIInv
<1> QED BY ScoringInitEstablishes, <1>1, PTL DEF Scoring!Spec

(* TypeOK.                                                                 *)
THEOREM ScoringTypeCorrect == Scoring!Spec => []Scoring!TypeOK
<1>1. ScoringIInv => Scoring!TypeOK
  <2> SUFFICES ASSUME ScoringIInv PROVE Scoring!TypeOK
    OBVIOUS
  <2>1. \A c \in Criteria :
          byId[c] \in {Scoring!Absent} \cup [outcome : Scoring!Outcomes, score :
            Scores \cup {Scoring!NoScore}]
    BY DEF ScoringIInv, ScoringTypes, Kept, KeptIsTheWeakest
  <2> QED BY <2>1 DEF ScoringIInv, ScoringTypes, Scoring!TypeOK
<1> QED BY <1>1, ScoringInvariance, PTL

-----------------------------------------------------------------------------

(* What the run's outcome says of each criterion.                          *)
LEMMA OutcomeFacts ==
  ASSUME ScoringIInv
  PROVE  /\ Scoring!OutcomeOf(byId) = "VERIFIED" =>
              \A c \in Criteria : Scoring!CriterionOutcome(c, byId[c]) = "VERIFIED"
         /\ \A c \in Criteria :
              Scoring!CriterionOutcome(c, byId[c]) = "FAILED" =>
                Scoring!OutcomeOf(byId) = "FAILED"
<1> DEFINE os == {"VERIFIED"} \cup {Scoring!CriterionOutcome(c, byId[c]) : c \in Criteria}
<1>1. \A c \in Criteria : Scoring!CriterionOutcome(c, byId[c]) \in Scoring!Outcomes
  <2> TAKE c \in Criteria
  <2>1. byId[c] \in Kept /\ (byId[c] = Scoring!Absent \/ byId[c].outcome \in Scoring!Outcomes)
    BY DEF ScoringIInv, ScoringTypes, Kept, KeptIsTheWeakest
  <2> QED BY <2>1, CriterionIsAnOutcome
<1>2. os \in SUBSET Scoring!Outcomes /\ os # {}
  BY <1>1 DEF Scoring!Outcomes
<1>3. Scoring!OutcomeOf(byId) = Scoring!Weakest(os)
  BY DEF Scoring!OutcomeOf
<1>4. Scoring!Weakest(os) \in Scoring!Outcomes /\ \A p \in os :
        Scoring!Strength(Scoring!Weakest(os)) <= Scoring!Strength(p)
  <2> HIDE DEF os
  <2> QED BY <1>2, WeakestFacts
<1>5. \A c \in Criteria : Scoring!CriterionOutcome(c, byId[c]) \in os
  OBVIOUS
<1> HIDE DEF os
<1>6. ASSUME NEW c \in Criteria
      PROVE  Scoring!Strength(Scoring!OutcomeOf(byId))
               <= Scoring!Strength(Scoring!CriterionOutcome(c, byId[c]))
  BY <1>3, <1>4, <1>5
<1> QED BY <1>1, <1>3, <1>4, <1>6, StrengthFacts

(* A run is VERIFIED only by criteria each judged so, never otherwise, and *)
(* at their floors (scoreCriteria, loop.ts 1212-1278).                     *)
THEOREM AllOfThem == Scoring!Spec => []Scoring!VerifiedMeansAll
<1>1. ScoringIInv => Scoring!VerifiedMeansAll
  <2> SUFFICES ASSUME ScoringIInv, Scoring!OutcomeOf(byId) = "VERIFIED", NEW c \in Criteria
               PROVE  LET about == {i \in DOMAIN verdicts : verdicts[i].id = c} IN
                      /\ about # {}
                      /\ \A i \in about : verdicts[i].outcome = "VERIFIED"
                      /\ Floor[c] # NoFloor => \E i \in about : verdicts[i].score >= Floor[c]
    BY DEF Scoring!VerifiedMeansAll
  <2> DEFINE about == {i \in DOMAIN verdicts : verdicts[i].id = c}
  <2>1. Scoring!CriterionOutcome(c, byId[c]) = "VERIFIED"
    BY OutcomeFacts
  <2>2. byId[c] # Scoring!Absent
    BY <2>1 DEF Scoring!CriterionOutcome
  <2>3. byId[c] \in Kept /\ byId[c].outcome \in Scoring!Outcomes
    BY <2>2 DEF ScoringIInv, ScoringTypes, Kept, KeptIsTheWeakest
  <2>4. byId[c].outcome = "VERIFIED" /\ Scoring!FloorOutcome(c, byId[c]) = "VERIFIED"
    BY <2>1, <2>2, <2>3, FloorIsAnOutcome, WeakerFacts DEF Scoring!CriterionOutcome
  <2>5. PICK k \in about : verdicts[k].score = byId[c].score
    BY <2>4 DEF ScoringIInv, KeptIsTheWeakest
  <2>6. ASSUME NEW i \in about PROVE verdicts[i].outcome = "VERIFIED"
    <3>0. verdicts[i] \in Scoring!Verdict
      BY DEF ScoringIInv, ScoringTypes
    <3>1. verdicts[i].outcome \in Scoring!Outcomes
      BY <3>0 DEF Scoring!Verdict
    <3>2. Scoring!Strength(byId[c].outcome) <= Scoring!Strength(verdicts[i].outcome)
      BY DEF ScoringIInv, KeptIsTheWeakest
    <3> QED BY <3>1, <3>2, <2>4, StrengthFacts
  <2>7. Floor[c] # NoFloor => verdicts[k].score >= Floor[c]
    <3> SUFFICES ASSUME Floor[c] # NoFloor PROVE verdicts[k].score >= Floor[c]
      OBVIOUS
    <3>1. Floor[c] \in Nat
      BY ScoringConstants
    <3>2. byId[c].score \in Nat
      BY <2>3, <2>4, ScoringConstants DEF Kept, Scoring!FloorOutcome
    <3>3. ~(byId[c].score < Floor[c])
      BY <2>4, <3>2 DEF Scoring!FloorOutcome, Scoring!NoScore
    <3> QED BY <3>1, <3>2, <3>3, <2>5
  <2> QED BY <2>5, <2>6, <2>7
<1> QED BY ScoringInvariance, <1>1, PTL

(* One verdict FAILED fails the run, whatever else was said.               *)
THEOREM NothingPaysForAFailure == Scoring!Spec => []Scoring!OneFailureFails
<1>1. ScoringIInv => Scoring!OneFailureFails
  <2> SUFFICES ASSUME ScoringIInv, NEW i \in DOMAIN verdicts, verdicts[i].outcome = "FAILED"
               PROVE  Scoring!OutcomeOf(byId) = "FAILED"
    BY DEF Scoring!OneFailureFails
  <2> DEFINE c == verdicts[i].id
  <2>0. verdicts[i] \in Scoring!Verdict
    BY DEF ScoringIInv, ScoringTypes
  <2>1. c \in Criteria
    BY <2>0 DEF Scoring!Verdict
  <2>2. byId[c] \in Kept /\ byId[c].outcome \in Scoring!Outcomes /\ byId[c] # Scoring!Absent
    BY <2>1 DEF ScoringIInv, ScoringTypes, Kept, KeptIsTheWeakest, Scoring!Absent
  <2>3. byId[c].outcome = "FAILED"
    <3>1. Scoring!Strength(byId[c].outcome) <= Scoring!Strength("FAILED")
      BY DEF ScoringIInv, KeptIsTheWeakest
    <3> QED BY <3>1, <2>2, StrengthFacts
  <2> HIDE DEF c
  <2>4. Scoring!CriterionOutcome(c, byId[c]) = "FAILED"
    BY <2>1, <2>2, <2>3, FloorIsAnOutcome, WeakerFacts DEF Scoring!CriterionOutcome
  <2> QED BY <2>1, <2>4, OutcomeFacts
<1> QED BY ScoringInvariance, <1>1, PTL

(* Neither an absent verdict nor a failed one is made up for by the rest.  *)
THEOREM NoAverage == Scoring!Spec => []Scoring!NothingIsAveraged
<1>1. Scoring!VerifiedMeansAll /\ Scoring!OneFailureFails => Scoring!NothingIsAveraged
  BY DEF Scoring!NothingIsAveraged
<1> QED BY <1>1, AllOfThem, NothingPaysForAFailure, PTL

-----------------------------------------------------------------------------
(***************************************************************************)
(* The quorum, for any validators, weights and bar above one half.         *)
(***************************************************************************)

LEMMA QuorumConstants ==
  /\ IsFiniteSet(Validators) /\ Weight \in [Validators -> Nat]
  /\ BarPart \in Nat /\ BarWhole \in Nat
  /\ BarPart < BarWhole /\ BarWhole < 2 * BarPart
<1>1. Quorum!QuorumAssumption
  BY HarnessAssumption
<1>2. IsFiniteSet(Validators)
  BY <1>1 DEF Quorum!QuorumAssumption, Quorum!IsFiniteSet, IsFiniteSet
<1> QED BY <1>1, <1>2 DEF Quorum!QuorumAssumption

LEMMA WeightIsSum == \A S : Quorum!WeightOf(S) = Sum(Weight, S)
BY DEF Quorum!WeightOf, Sum, MapThenSumSet, MapThenFoldSet, Quorum!MapThenSumSet,
   Quorum!MapThenFoldSet

LEMMA WeightsAreNumbers ==
  ASSUME NEW S, S \subseteq Validators
  PROVE  IsFiniteSet(S) /\ Quorum!WeightOf(S) \in Nat
<1>1. IsFiniteSet(S)
  BY QuorumConstants, FS_Subset
<1>2. \A x \in S : Weight[x] \in Nat
  BY QuorumConstants
<1> QED BY <1>1, <1>2, SumType, WeightIsSum

(* What decides weighs what approves and what rejects.                     *)
LEMMA DecidingIsBothSides ==
  ASSUME NEW vs
  PROVE  /\ Quorum!WeightOf(Quorum!Side(vs, "approve")) \in Nat
         /\ Quorum!WeightOf(Quorum!Side(vs, "reject")) \in Nat
         /\ Quorum!WeightOf(Quorum!Deciding(vs))
              = Quorum!WeightOf(Quorum!Side(vs, "approve")) + Quorum!WeightOf(Quorum!Side(vs, "reject"))
<1>1. /\ Quorum!Side(vs, "approve") \subseteq Quorum!Deciding(vs)
      /\ Quorum!Deciding(vs) \subseteq Validators
      /\ Quorum!Side(vs, "reject") \subseteq Validators
      /\ Quorum!Side(vs, "approve") \subseteq Validators
      /\ Quorum!Deciding(vs) \ Quorum!Side(vs, "approve") = Quorum!Side(vs, "reject")
  BY DEF Quorum!Deciding, Quorum!Side
<1>2. \A x \in Quorum!Deciding(vs) : Weight[x] \in Nat
  BY <1>1, QuorumConstants
<1>3. IsFiniteSet(Quorum!Deciding(vs))
  BY <1>1, WeightsAreNumbers
<1>4. Sum(Weight, Quorum!Deciding(vs))
        = Sum(Weight, Quorum!Side(vs, "approve")) + Sum(Weight, Quorum!Side(vs, "reject"))
  BY <1>1, <1>2, <1>3, SumOfBoth
<1> QED BY <1>1, <1>4, WeightsAreNumbers, WeightIsSum

(* A side is the others on it, and v if it is.                             *)
OthersOn(vs, side, v) == Quorum!WeightOf(Quorum!Side(vs, side) \ {v})
BallotOn(vs, side, v) == IF vs[v] = side THEN Weight[v] ELSE 0

LEMMA SideOfOthers ==
  ASSUME NEW vs, NEW side, NEW v \in Validators
  PROVE  /\ Quorum!WeightOf(Quorum!Side(vs, side)) =
              OthersOn(vs, side, v) + BallotOn(vs, side, v)
         /\ OthersOn(vs, side, v) \in Nat /\ BallotOn(vs, side, v) \in {0, Weight[v]}
<1> DEFINE S == Quorum!Side(vs, side)
<1>1. S \subseteq Validators /\ (v \in S <=> vs[v] = side)
  BY DEF Quorum!Side
<1>2. OthersOn(vs, side, v) = Quorum!WeightOf(S \ {v})
  BY DEF OthersOn
<1> HIDE DEF S
<1>3. IsFiniteSet(S) /\ Quorum!WeightOf(S) \in Nat /\ \A x \in S : Weight[x] \in Nat
  BY <1>1, WeightsAreNumbers, QuorumConstants
<1>4. S \ {v} \subseteq Validators
  BY <1>1
<1>5. Quorum!WeightOf(S \ {v}) \in Nat
  BY <1>4, WeightsAreNumbers
<1>6. Quorum!WeightOf(S) = Quorum!WeightOf(S \ {v}) + BallotOn(vs, side, v)
  <2>1. CASE vs[v] = side
    <3>1. Sum(Weight, S) = Weight[v] + Sum(Weight, S \ {v})
      BY <1>1, <1>3, <2>1, SumWithout
    <3>2. Weight[v] \in Nat /\ BallotOn(vs, side, v) = Weight[v]
      BY <2>1, QuorumConstants DEF BallotOn
    <3> QED BY <1>5, <3>1, <3>2, WeightIsSum
  <2>2. CASE vs[v] # side
    <3>1. S \ {v} = S /\ BallotOn(vs, side, v) = 0
      BY <1>1, <2>2 DEF BallotOn
    <3> QED BY <1>3, <3>1
  <2> QED BY <2>1, <2>2
<1>7. BallotOn(vs, side, v) \in {0, Weight[v]}
  BY DEF BallotOn
<1> QED BY <1>2, <1>5, <1>6, <1>7 DEF S

(* The arithmetic of two rounds whose outcomes contradict each other: b    *)
(* and c are the weights of the others that approve and reject, w of the   *)
(* one that votes otherwise.                                               *)
LEMMA TwoBarsShareAThird ==
  ASSUME NEW p \in Nat, NEW q \in Nat, p < q, q < 2 * p,
         NEW b \in Nat, NEW c \in Nat, NEW w \in Nat,
         (q - p) * (b + w) > p * c, (q - p) * (c + w) > p * b,
         q * w <= (2 * p - q) * (b + c + w)
  PROVE  FALSE
<1>1. (q - p) * (b + w) = q * b + q * w - p * b - p * w
  OBVIOUS
<1>2. (q - p) * (c + w) = q * c + q * w - p * c - p * w
  OBVIOUS
<1>3. (2 * p - q) * (b + c + w)
        = 2 * (p * b) + 2 * (p * c) + 2 * (p * w) - q * b - q * c - q * w
  OBVIOUS
<1>4. PICK pb \in Nat, pc \in Nat, pw \in Nat, qb \in Nat, qc \in Nat, qw \in Nat :
        /\ pb = p * b /\ pc = p * c /\ pw = p * w /\ qb = q * b /\ qc = q * c /\ qw = q * w
  OBVIOUS
<1>5. /\ qb + qw - pb - pw > pc /\ qc + qw - pc - pw > pb
      /\ qw <= 2 * pb + 2 * pc + 2 * pw - qb - qc - qw
  BY <1>1, <1>2, <1>3, <1>4
<1> QED BY <1>5

(* A side that clears the bar does so at best with all of w on it.         *)
LEMMA ClearedWithOne ==
  ASSUME NEW p \in Nat, NEW q \in Nat, p < q,
         NEW b \in Nat, NEW c \in Nat, NEW w \in Nat,
         NEW x \in {0, w}, NEW y \in {0, w},
         q * (b + x) > p * (b + x + c + y)
  PROVE  (q - p) * (b + w) > p * c
<1>1. q * (b + x) = q * b + q * x
  OBVIOUS
<1>2. p * (b + x + c + y) = p * b + p * x + p * c + p * y
  OBVIOUS
<1>3. (q - p) * (b + w) = q * b + q * w - p * b - p * w
  OBVIOUS
<1>4. (q - p) * w \in Nat /\ (q - p) * w = q * w - p * w
  OBVIOUS
<1>5. p * y \in Nat /\ p * b \in Nat /\ p * c \in Nat /\ q * b \in Nat /\ q * w \in Nat
      /\ p * w \in Nat
  OBVIOUS
<1>6. CASE x = 0
  <2>1. q * x = 0 /\ p * x = 0
    BY <1>6
  <2>2. q * b > p * b + p * c + p * y
    BY <1>1, <1>2, <1>5, <2>1
  <2> QED BY <1>3, <1>4, <1>5, <2>2
<1>7. CASE x = w
  <2>1. q * b + q * w > p * b + p * w + p * c + p * y
    BY <1>1, <1>2, <1>5, <1>7
  <2> QED BY <1>3, <1>5, <2>1
<1> QED BY <1>6, <1>7

(* What an outcome says of the weights.                                    *)
LEMMA OutcomeTellsWeights ==
  ASSUME NEW vs
  PROVE  /\ Quorum!Outcome(vs) = "COMMIT" =>
              BarWhole * Quorum!WeightOf(Quorum!Side(vs, "approve"))
                > BarPart * Quorum!WeightOf(Quorum!Deciding(vs))
         /\ Quorum!Outcome(vs) = "REJECT" =>
              BarWhole * Quorum!WeightOf(Quorum!Side(vs, "reject"))
                > BarPart * Quorum!WeightOf(Quorum!Deciding(vs))
BY DEF Quorum!Outcome, Quorum!ClearsTheBar

(* What the others and v weigh on each side of two rounds that differ in   *)
(* the vote of v alone.                                                    *)
LEMMA WeightsOfTwoRounds ==
  ASSUME NEW vs, NEW us, NEW v \in Validators,
         \A u \in Validators \ {v} : us[u] = vs[u]
  PROVE  /\ Quorum!WeightOf(Quorum!Side(vs, "approve")) =
              OthersOn(vs, "approve", v) + BallotOn(vs, "approve", v)
         /\ Quorum!WeightOf(Quorum!Side(vs, "reject")) =
              OthersOn(vs, "reject", v) + BallotOn(vs, "reject", v)
         /\ Quorum!WeightOf(Quorum!Side(us, "approve")) =
              OthersOn(vs, "approve", v) + BallotOn(us, "approve", v)
         /\ Quorum!WeightOf(Quorum!Side(us, "reject")) =
              OthersOn(vs, "reject", v) + BallotOn(us, "reject", v)
         /\ OthersOn(vs, "approve", v) \in Nat /\ OthersOn(vs, "reject", v) \in Nat
         /\ BallotOn(vs, "approve", v) \in {0, Weight[v]}
         /\ BallotOn(vs, "reject", v) \in {0, Weight[v]}
         /\ BallotOn(us, "approve", v) \in {0, Weight[v]}
         /\ BallotOn(us, "reject", v) \in {0, Weight[v]}
         /\ BallotOn(vs, "approve", v) = 0 \/ BallotOn(vs, "reject", v) = 0
<1>1. /\ OthersOn(us, "approve", v) = OthersOn(vs, "approve", v)
      /\ OthersOn(us, "reject", v) = OthersOn(vs, "reject", v)
  <2>1. /\ Quorum!Side(us, "approve") \ {v} = Quorum!Side(vs, "approve") \ {v}
        /\ Quorum!Side(us, "reject") \ {v} = Quorum!Side(vs, "reject") \ {v}
    BY DEF Quorum!Side
  <2> QED BY <2>1 DEF OthersOn
<1>2. BallotOn(vs, "approve", v) = 0 \/ BallotOn(vs, "reject", v) = 0
  BY DEF BallotOn
<1> QED BY <1>1, <1>2, SideOfOthers

(* Where the vote of v alone differs, and v weighs no more than the two    *)
(* bars share, one round does not commit what the other rejects.           *)
LEMMA OneVoteDoesNotContradict ==
  ASSUME NEW vs, NEW us, NEW v \in Validators,
         \A u \in Validators \ {v} : us[u] = vs[u]
  PROVE  ~ /\ BarWhole * Weight[v]
                <= (2 * BarPart - BarWhole) * Quorum!WeightOf(Quorum!Deciding(vs))
           /\ Quorum!Outcome(vs) = "COMMIT"
           /\ Quorum!Outcome(us) = "REJECT"
<1>1. PICK b \in Nat, c \in Nat :
        b = OthersOn(vs, "approve", v) /\ c = OthersOn(vs, "reject", v)
  BY SideOfOthers
<1>2. PICK w \in Nat, p \in Nat, q \in Nat : w = Weight[v] /\ p = BarPart /\ q = BarWhole
  BY QuorumConstants
<1>3. p < q /\ q < 2 * p
  BY <1>2, QuorumConstants
<1>4. PICK x \in {0, w}, y \in {0, w}, s \in {0, w}, t \in {0, w} :
        /\ Quorum!WeightOf(Quorum!Side(vs, "approve")) = b + x
        /\ Quorum!WeightOf(Quorum!Side(vs, "reject")) = c + y
        /\ Quorum!WeightOf(Quorum!Side(us, "approve")) = b + s
        /\ Quorum!WeightOf(Quorum!Side(us, "reject")) = c + t
        /\ x = 0 \/ y = 0
  BY <1>1, <1>2, WeightsOfTwoRounds
<1>5. /\ Quorum!WeightOf(Quorum!Deciding(vs)) = (b + x) + (c + y)
      /\ Quorum!WeightOf(Quorum!Deciding(us)) = (b + s) + (c + t)
  BY <1>4, DecidingIsBothSides
<1> SUFFICES ASSUME BarWhole * Weight[v]
                      <= (2 * BarPart - BarWhole) * Quorum!WeightOf(Quorum!Deciding(vs)),
                   Quorum!Outcome(vs) = "COMMIT", Quorum!Outcome(us) = "REJECT"
             PROVE  FALSE
  OBVIOUS
<1>6. q * (b + x) > p * ((b + x) + (c + y)) /\ q * (c + t) > p * ((b + s) + (c + t))
  BY <1>2, <1>4, <1>5, OutcomeTellsWeights
<1>7. (q - p) * (b + w) > p * c
  <2>1. (b + x) + (c + y) = b + x + c + y
    OBVIOUS
  <2> QED BY <1>3, <1>6, <2>1, ClearedWithOne
<1>8. (q - p) * (c + w) > p * b
  <2>1. (b + s) + (c + t) = c + t + b + s
    OBVIOUS
  <2> QED BY <1>3, <1>6, <2>1, ClearedWithOne
<1>9. q * w <= (2 * p - q) * (b + c + w)
  <2>1. q * w <= (2 * p - q) * ((b + x) + (c + y))
    BY <1>2, <1>5
  <2>2. PICK k \in Nat, m \in Nat, n \in Nat :
          k = 2 * p - q /\ m = (b + x) + (c + y) /\ n = b + c + w /\ m <= n
    <3>1. x \in Nat /\ y \in Nat /\ x + y <= w
      BY <1>4
    <3>2. (b + x) + (c + y) = b + c + (x + y)
      BY <3>1
    <3>3. 2 * p - q \in Nat
      BY <1>3
    <3>4. (b + x) + (c + y) \in Nat /\ b + c + w \in Nat
      BY <3>1
    <3>5. PICK z \in Nat : z = x + y /\ z <= w
      BY <3>1
    <3>6. b + c + z <= b + c + w
      BY <3>5
    <3>7. (b + x) + (c + y) <= b + c + w
      BY <3>2, <3>5, <3>6
    <3> QED BY <3>3, <3>4, <3>7
  <2>3. k * m <= k * n /\ k * m \in Nat /\ k * n \in Nat
    BY <2>2
  <2>4. q * w <= k * m /\ q * w \in Nat
    BY <2>1, <2>2
  <2> QED BY <2>2, <2>3, <2>4
<1> QED BY <1>3, <1>7, <1>8, <1>9, TwoBarsShareAThird

THEOREM QuorumTypeCorrect == Quorum!Spec => []Quorum!TypeOK
<1>1. Quorum!Init => Quorum!TypeOK
  BY DEF Quorum!Init, Quorum!TypeOK, Quorum!Verdicts
<1>2. Quorum!TypeOK /\ [Quorum!Next]_Quorum!vars => Quorum!TypeOK'
  BY DEF Quorum!TypeOK, Quorum!Next, Quorum!VoteOtherwise, Quorum!vars
<1> QED BY <1>1, <1>2, PTL DEF Quorum!Spec

(* One validator of no more than the common weight contradicts no outcome. *)
THEOREM OneFaultIsNotEnough == Quorum!Spec => Quorum!OneFaultFlipsNothing
<1>1. Quorum!TypeOK /\ [Quorum!Next]_Quorum!vars =>
        [\A v \in Validators :
           /\ votes'[v] # votes[v]
           /\ \A vs \in {votes, votes'} :
                BarWhole * Weight[v]
                  <= (2 * BarPart - BarWhole) * Quorum!WeightOf(Quorum!Deciding(vs))
           => {Quorum!Outcome(votes), Quorum!Outcome(votes')} # {"COMMIT", "REJECT"}]_Quorum!vars
  <2>1. SUFFICES ASSUME Quorum!TypeOK, Quorum!Next, NEW v \in Validators,
                        votes'[v] # votes[v],
                        \A vs \in {votes, votes'} :
                          BarWhole * Weight[v]
                            <= (2 * BarPart - BarWhole) * Quorum!WeightOf(Quorum!Deciding(vs)),
                        {Quorum!Outcome(votes), Quorum!Outcome(votes')} = {"COMMIT", "REJECT"}
                 PROVE  FALSE
    BY DEF Quorum!vars
  <2>2. PICK vs, us : vs = votes /\ us = votes'
    OBVIOUS
  <2>3. \A u \in Validators \ {v} : us[u] = vs[u]
    BY <2>1, <2>2 DEF Quorum!Next, Quorum!VoteOtherwise, Quorum!TypeOK
  <2>4. /\ BarWhole * Weight[v]
             <= (2 * BarPart - BarWhole) * Quorum!WeightOf(Quorum!Deciding(vs))
        /\ BarWhole * Weight[v]
             <= (2 * BarPart - BarWhole) * Quorum!WeightOf(Quorum!Deciding(us))
    BY <2>1, <2>2
  <2>5. \/ Quorum!Outcome(vs) = "COMMIT" /\ Quorum!Outcome(us) = "REJECT"
        \/ Quorum!Outcome(us) = "COMMIT" /\ Quorum!Outcome(vs) = "REJECT"
    <3>1. {Quorum!Outcome(vs), Quorum!Outcome(us)} = {"COMMIT", "REJECT"}
      BY <2>1, <2>2
    <3> QED BY <3>1
  <2> QED BY <2>3, <2>4, <2>5, OneVoteDoesNotContradict
<1> QED BY <1>1, QuorumTypeCorrect, PTL DEF Quorum!Spec, Quorum!OneFaultFlipsNothing

-----------------------------------------------------------------------------
(***************************************************************************)
(* Escalation, for any floors, scores and cap: the spend stays under the   *)
(* cap and every signal is answered.                                       *)
(***************************************************************************)

LEMMA EscalationConstants ==
  /\ \A x \in Confidences : x \in Nat
  /\ MarginFloor \in Nat /\ EarnedFloor \in Nat /\ ConfidenceFloor \in Nat
  /\ CapWhole \in Nat /\ CapPart \in Nat /\ MaxDecisions \in Nat
BY HarnessAssumption DEF Escalating!EscalationAssumption

(* No counter is ahead of the decisions, and no reason of the escalations. *)
Counters ==
  /\ {decisions, escalations, denied, uncertain} \subseteq Nat
  /\ uncertain <= decisions /\ decisions <= MaxDecisions
  /\ reasons \in [Escalating!Reasons -> Nat]

EscalatingIInv == Counters /\ Escalating!EverySignalIsAnswered
  /\ Escalating!SpendStaysUnderTheCap

LEMMA CountersBoundTypes == EscalatingIInv => Escalating!TypeOK
<1>1. SUFFICES ASSUME EscalatingIInv PROVE Escalating!TypeOK
  OBVIOUS
<1>2. /\ decisions \in Nat /\ escalations \in Nat /\ denied \in Nat /\ uncertain \in Nat
      /\ uncertain <= decisions /\ decisions <= MaxDecisions /\ MaxDecisions \in Nat
      /\ reasons["thin_margin"] \in Nat /\ reasons["low_earned"] \in Nat
      /\ reasons["low_confidence"] \in Nat
  BY <1>1, EscalationConstants DEF EscalatingIInv, Counters, Escalating!Reasons
<1>3. /\ uncertain = escalations + denied
      /\ escalations =
           reasons["thin_margin"] + reasons["low_earned"] + reasons["low_confidence"]
  BY <1>1 DEF EscalatingIInv, Escalating!EverySignalIsAnswered
<1>4. /\ decisions \in 0..MaxDecisions /\ escalations \in 0..MaxDecisions
      /\ denied \in 0..MaxDecisions /\ uncertain \in 0..MaxDecisions
  BY <1>2, <1>3
<1>5. \A r \in Escalating!Reasons : reasons[r] \in 0..MaxDecisions
  BY <1>2, <1>3 DEF Escalating!Reasons
<1>6. reasons \in [Escalating!Reasons -> 0..MaxDecisions]
  BY <1>1, <1>5 DEF EscalatingIInv, Counters
<1> QED BY <1>4, <1>6 DEF Escalating!TypeOK

LEMMA EscalatingInitEstablishes == Escalating!Init => EscalatingIInv
<1>1. SUFFICES ASSUME Escalating!Init PROVE EscalatingIInv
  OBVIOUS
<1>2. Counters
  BY <1>1, EscalationConstants DEF Escalating!Init, Counters
<1>3. Escalating!EverySignalIsAnswered
  BY <1>1 DEF Escalating!Init, Escalating!EverySignalIsAnswered, Escalating!Reasons
<1>4. Escalating!SpendStaysUnderTheCap
  BY <1>1, EscalationConstants DEF Escalating!Init, Escalating!SpendStaysUnderTheCap
<1> QED BY <1>2, <1>3, <1>4 DEF EscalatingIInv

(* The floors and the uncertainty ask the same three questions.            *)
LEMMA UncertainIsSignalled ==
  ASSUME NEW s \in Escalating!Signals
  PROVE  /\ Escalating!Uncertain(s) <=> Escalating!Reason(s) # "none"
         /\ Escalating!Reason(s) \in Escalating!Reasons \cup {"none"}
<1>1. /\ s.topEarned \in Nat /\ s.topConfidence \in Nat /\ s.runnerUp \in Int
  BY EscalationConstants DEF Escalating!Signals, Escalating!NoRunnerUp
<1>2. Escalating!Reason(s) # "none" <=>
        \/ MarginFloor > 0 /\ Escalating!ThinMargin(s)
        \/ s.topEarned < EarnedFloor \/ s.topConfidence < ConfidenceFloor
  BY DEF Escalating!Reason
<1>3. Escalating!Uncertain(s) <=>
        \/ MarginFloor > 0 /\ Escalating!ThinMargin(s)
        \/ s.topEarned < EarnedFloor \/ s.topConfidence < ConfidenceFloor
  BY <1>1, EscalationConstants DEF Escalating!Uncertain, Escalating!ThinMargin
<1>4. Escalating!Reason(s) \in Escalating!Reasons \cup {"none"}
  BY DEF Escalating!Reason, Escalating!Reasons
<1> QED BY <1>2, <1>3, <1>4

LEMMA DecidePreserves ==
  ASSUME EscalatingIInv, NEW s \in Escalating!Signals, Escalating!Decide(s)
  PROVE  EscalatingIInv'
<1>1. /\ decisions \in Nat /\ escalations \in Nat /\ denied \in Nat /\ uncertain \in Nat
      /\ uncertain <= decisions /\ decisions < MaxDecisions
      /\ MaxDecisions \in Nat /\ CapPart \in Nat /\ CapWhole \in Nat
      /\ reasons \in [Escalating!Reasons -> Nat]
      /\ decisions' = decisions + 1
      /\ uncertain' = IF Escalating!Reason(s) # "none" THEN uncertain + 1 ELSE uncertain
  BY EscalationConstants, UncertainIsSignalled DEF EscalatingIInv, Counters, Escalating!Decide
<1>2. /\ uncertain = escalations + denied
      /\ escalations =
           reasons["thin_margin"] + reasons["low_earned"] + reasons["low_confidence"]
      /\ escalations * CapWhole <= CapPart * decisions
  BY DEF EscalatingIInv, Escalating!EverySignalIsAnswered, Escalating!SpendStaysUnderTheCap
<1>3. CapPart * (decisions + 1) = CapPart * decisions + CapPart
  BY <1>1
<1>4. CapPart * decisions \in Nat /\ escalations * CapWhole \in Nat
  BY <1>1
<1>5. CASE Escalating!Reason(s) = "none" /\ UNCHANGED <<escalations, denied, reasons>>
  <2>1. Counters'
    BY <1>1, <1>5 DEF Counters
  <2>2. Escalating!EverySignalIsAnswered'
    BY <1>1, <1>2, <1>5 DEF Escalating!EverySignalIsAnswered
  <2>3. Escalating!SpendStaysUnderTheCap'
    BY <1>1, <1>2, <1>3, <1>4, <1>5 DEF Escalating!SpendStaysUnderTheCap
  <2> QED BY <2>1, <2>2, <2>3 DEF EscalatingIInv
<1>6. CASE Escalating!Reason(s) # "none" /\ denied' =
        denied + 1 /\ UNCHANGED <<escalations, reasons>>
  <2>1. Counters'
    BY <1>1, <1>6 DEF Counters
  <2>2. Escalating!EverySignalIsAnswered'
    BY <1>1, <1>2, <1>6 DEF Escalating!EverySignalIsAnswered
  <2>3. Escalating!SpendStaysUnderTheCap'
    BY <1>1, <1>2, <1>3, <1>4, <1>6 DEF Escalating!SpendStaysUnderTheCap
  <2> QED BY <2>1, <2>2, <2>3 DEF EscalatingIInv
<1>7. CASE /\ Escalating!Reason(s) # "none" /\ ~Escalating!OverCap(decisions + 1)
           /\ escalations' = escalations + 1
           /\ reasons' = [reasons EXCEPT ![Escalating!Reason(s)] = @ + 1]
           /\ UNCHANGED denied
  <2>1. Escalating!Reason(s) \in Escalating!Reasons
    BY <1>7, UncertainIsSignalled
  <2>2. Counters'
    BY <1>1, <1>7, <2>1 DEF Counters
  <2>3. Escalating!EverySignalIsAnswered'
    <3>1. reasons'["thin_margin"] + reasons'["low_earned"] + reasons'["low_confidence"]
            = reasons["thin_margin"] + reasons["low_earned"] + reasons["low_confidence"] + 1
      BY <1>1, <1>7, <2>1 DEF Escalating!Reasons
    <3> QED BY <1>1, <1>2, <1>7, <3>1 DEF Escalating!EverySignalIsAnswered
  <2>4. Escalating!SpendStaysUnderTheCap'
    <3>1. (escalations + 1) * CapWhole \in Nat /\ CapPart * (decisions + 1) \in Nat
      BY <1>1
    <3>2. ~((escalations + 1) * CapWhole > CapPart * (decisions + 1))
      BY <1>7 DEF Escalating!OverCap
    <3>3. (escalations + 1) * CapWhole <= CapPart * (decisions + 1)
      BY <3>1, <3>2
    <3> QED BY <1>1, <1>7, <3>3 DEF Escalating!SpendStaysUnderTheCap
  <2> QED BY <2>2, <2>3, <2>4 DEF EscalatingIInv
<1> QED BY <1>5, <1>6, <1>7 DEF Escalating!Decide

LEMMA ResetPreserves == ASSUME EscalatingIInv, Escalating!Reset PROVE EscalatingIInv'
<1>1. Counters'
  BY EscalationConstants DEF Escalating!Reset, Counters
<1>2. Escalating!EverySignalIsAnswered'
  BY DEF Escalating!Reset, Escalating!EverySignalIsAnswered, Escalating!Reasons
<1>3. Escalating!SpendStaysUnderTheCap'
  BY EscalationConstants DEF Escalating!Reset, Escalating!SpendStaysUnderTheCap
<1> QED BY <1>1, <1>2, <1>3 DEF EscalatingIInv

LEMMA EscalatingStepPreserves ==
  ASSUME EscalatingIInv, [Escalating!Next]_Escalating!vars PROVE EscalatingIInv'
<1>1. CASE \E s \in Escalating!Signals : Escalating!Decide(s)
  BY <1>1, DecidePreserves
<1>2. CASE Escalating!Reset
  BY <1>2, ResetPreserves
<1>3. CASE UNCHANGED Escalating!vars
  BY <1>3 DEF Escalating!vars, EscalatingIInv, Counters, Escalating!EverySignalIsAnswered,
     Escalating!SpendStaysUnderTheCap
<1> QED BY <1>1, <1>2, <1>3 DEF Escalating!Next

THEOREM EscalatingInvariance == Escalating!Spec => []EscalatingIInv
<1>1. EscalatingIInv /\ [Escalating!Next]_Escalating!vars => EscalatingIInv'
  BY EscalatingStepPreserves
<1> QED BY <1>1, EscalatingInitEstablishes, PTL DEF Escalating!Spec

(* The counters are numbers within the bound.                              *)
THEOREM EscalatingTypeCorrect == Escalating!Spec => []Escalating!TypeOK
BY EscalatingInvariance, CountersBoundTypes, PTL

(* However the signals come, the share of panels stays under the cap.      *)
THEOREM TheCapHolds == Escalating!Spec => []Escalating!SpendStaysUnderTheCap
<1>1. EscalatingIInv => Escalating!SpendStaysUnderTheCap
  BY DEF EscalatingIInv
<1> QED BY <1>1, EscalatingInvariance, PTL

(* Every signal of doubt is a panel or a denial, and no other task is.     *)
THEOREM SignalsAreAnswered == Escalating!Spec => []Escalating!EverySignalIsAnswered
<1>1. EscalatingIInv => Escalating!EverySignalIsAnswered
  BY DEF EscalatingIInv
<1> QED BY <1>1, EscalatingInvariance, PTL

-----------------------------------------------------------------------------
(***************************************************************************)
(* The reputation ledger and its rows, for any processes and ids.          *)
(***************************************************************************)

(* What is carried between two awaits was observed, too.                   *)
NothingCarriedIsInvented ==
  \A p \in Processes, i \in Ids : records[p][i] <= total[i]

(* A ledger that may be saved, and was not torn, knows of each id all that *)
(* its row has, unless another process wrote the id since it read.         *)
FreshKnowsTheRow ==
  \A p \in Processes, i \in Ids : i \notin foreign[p] =>
    /\ doing[p] = "loading" => table[i] <= records[p][i]
    /\ loaded[p] = "true" /\ doing[p] # "loading" /\ p \notin torn =>
         table[i] <= ledger[p][i]
    /\ doing[p] = "saving" /\ p \notin torn =>
         table[i] <= records[p][i] /\ records[p][i] <= ledger[p][i]

OnlyTheLoadedSave == \A p \in Processes : doing[p] = "saving" => loaded[p] = "true"

ReputationIInv ==
  /\ Reputation!TypeOK /\ Reputation!NothingIsInvented /\ NothingCarriedIsInvented
  /\ FreshKnowsTheRow /\ OnlyTheLoadedSave

LEMMA ReputationInitEstablishes == Reputation!Init => ReputationIInv
BY HarnessAssumption DEF Reputation!LedgerAssumption, Reputation!Init, ReputationIInv,
   Reputation!TypeOK, Reputation!NothingIsInvented,
   NothingCarriedIsInvented, FreshKnowsTheRow, OnlyTheLoadedSave, Reputation!NoRecords,
   Reputation!Counts

(* The parts of TypeOK, a number at a time.                                *)
LEMMA CountsAreNumbers ==
  ASSUME Reputation!TypeOK, NEW p \in Processes, NEW i \in Ids
  PROVE  /\ MaxOutcomes \in Nat
         /\ table[i] \in 0..MaxOutcomes /\ total[i] \in 0..MaxOutcomes
         /\ ledger[p] \in Reputation!Counts /\ records[p] \in Reputation!Counts
         /\ ledger[p][i] \in 0..MaxOutcomes /\ records[p][i] \in 0..MaxOutcomes
<1>1. ledger[p] \in Reputation!Counts /\ records[p] \in Reputation!Counts
  BY DEF Reputation!TypeOK
<1> QED BY <1>1, HarnessAssumption
          DEF Reputation!LedgerAssumption, Reputation!TypeOK, Reputation!Counts

LEMMA NoRecordsIsCounts == Reputation!NoRecords \in Reputation!Counts
BY HarnessAssumption DEF Reputation!LedgerAssumption, Reputation!NoRecords, Reputation!Counts

LEMMA RecordPreserves ==
  ASSUME ReputationIInv, NEW p \in Processes, NEW i \in Ids, Reputation!Record(p, i)
  PROVE  ReputationIInv'
<1>1. /\ total[i] < MaxOutcomes
      /\ ledger' = [ledger EXCEPT ![p][i] = ledger[p][i] + 1]
      /\ total' = [total EXCEPT ![i] = total[i] + 1]
      /\ UNCHANGED <<table, loaded, doing, records, foreign, torn>>
  BY DEF Reputation!Record
<1>2. Reputation!TypeOK
  BY DEF ReputationIInv
<1>3. \A q \in Processes, j \in Ids :
        /\ table[j] \in Nat /\ total[j] \in Nat /\ ledger[q][j] \in Nat
        /\ records[q][j] \in Nat
        /\ table[j] <= total[j] /\ ledger[q][j] <= total[j] /\ records[q][j] <= total[j]
  BY <1>2, CountsAreNumbers
    DEF ReputationIInv, Reputation!NothingIsInvented, NothingCarriedIsInvented
<1>4. \A j \in Ids : total'[j] = IF j = i THEN total[j] + 1 ELSE total[j]
  BY <1>1, <1>2 DEF Reputation!TypeOK, Reputation!Counts
<1>5. \A q \in Processes, j \in Ids :
        ledger'[q][j] = IF q = p /\ j = i THEN ledger[q][j] + 1 ELSE ledger[q][j]
  <2>1. \A q \in Processes : ledger[q] \in Reputation!Counts
    BY <1>2 DEF Reputation!TypeOK
  <2> QED BY <1>1, <1>2, <2>1 DEF Reputation!TypeOK, Reputation!Counts
<1>6. total[i] + 1 \in 0..MaxOutcomes /\ ledger[p][i] + 1 \in 0..MaxOutcomes
  BY <1>1, <1>2, <1>3, CountsAreNumbers
<1>7. Reputation!TypeOK'
  <2>1. total' \in Reputation!Counts
    BY <1>1, <1>2, <1>6 DEF Reputation!TypeOK, Reputation!Counts
  <2>2. [ledger[p] EXCEPT ![i] = ledger[p][i] + 1] \in Reputation!Counts
    BY <1>2, <1>6, CountsAreNumbers DEF Reputation!Counts
  <2>3. ledger' = [ledger EXCEPT ![p] = [ledger[p] EXCEPT ![i] = ledger[p][i] + 1]]
    BY <1>1
  <2>4. ledger' \in [Processes -> Reputation!Counts]
    BY <1>2, <2>2, <2>3 DEF Reputation!TypeOK
  <2> QED BY <1>1, <1>2, <2>1, <2>4 DEF Reputation!TypeOK
<1>8. Reputation!NothingIsInvented'
  BY <1>1, <1>3, <1>4, <1>5 DEF Reputation!NothingIsInvented
<1>9. NothingCarriedIsInvented'
  BY <1>1, <1>3, <1>4 DEF NothingCarriedIsInvented
<1>10. FreshKnowsTheRow'
  BY <1>1, <1>3, <1>5 DEF ReputationIInv, FreshKnowsTheRow
<1>11. OnlyTheLoadedSave'
  BY <1>1 DEF ReputationIInv, OnlyTheLoadedSave
<1> QED BY <1>7, <1>8, <1>9, <1>10, <1>11 DEF ReputationIInv

(* What one process does to what it holds, and the others keep.            *)
LEMMA BecomeIsItsOwn ==
  ASSUME Reputation!TypeOK, NEW p \in Processes, NEW activity, NEW carried,
         Reputation!Become(p, activity, carried)
  PROVE  \A q \in Processes :
           /\ doing'[q] = IF q = p THEN activity ELSE doing[q]
           /\ records'[q] = IF q = p THEN carried ELSE records[q]
BY DEF Reputation!Become, Reputation!TypeOK

LEMMA BecomeTypes ==
  ASSUME Reputation!TypeOK, NEW p \in Processes,
         NEW activity \in {"idle", "loading", "saving"},
         NEW carried \in Reputation!Counts, Reputation!Become(p, activity, carried)
  PROVE  /\ doing' \in [Processes -> {"idle", "loading", "saving"}]
         /\ records' \in [Processes -> Reputation!Counts]
BY DEF Reputation!Become, Reputation!TypeOK

LEMMA ReadPreserves ==
  ASSUME ReputationIInv, NEW p \in Processes, Reputation!Read(p) PROVE ReputationIInv'
<1>1. /\ doing[p] = "idle" /\ Reputation!Become(p, "loading", table)
      /\ foreign' = [foreign EXCEPT ![p] = {}]
      /\ UNCHANGED <<table, ledger, loaded, total, torn>>
  BY DEF Reputation!Read
<1>2. Reputation!TypeOK /\ table \in Reputation!Counts
  BY DEF ReputationIInv, Reputation!TypeOK
<1>3. \A q \in Processes :
        /\ doing'[q] = IF q = p THEN "loading" ELSE doing[q]
        /\ records'[q] = IF q = p THEN table ELSE records[q]
        /\ foreign'[q] = IF q = p THEN {} ELSE foreign[q]
  BY <1>1, <1>2, BecomeIsItsOwn DEF Reputation!TypeOK
<1>4. Reputation!TypeOK'
  BY <1>1, <1>2, BecomeTypes DEF Reputation!TypeOK
<1>5. Reputation!NothingIsInvented' /\ NothingCarriedIsInvented' /\ OnlyTheLoadedSave'
  BY <1>1, <1>3
    DEF ReputationIInv, Reputation!NothingIsInvented, NothingCarriedIsInvented,
       OnlyTheLoadedSave
<1>6. FreshKnowsTheRow'
  <2>1. \A i \in Ids : table[i] <= table[i]
    BY <1>2, HarnessAssumption DEF Reputation!LedgerAssumption, Reputation!Counts
  <2> QED BY <1>1, <1>3, <2>1 DEF ReputationIInv, FreshKnowsTheRow
<1> QED BY <1>4, <1>5, <1>6 DEF ReputationIInv

LEMMA LoadFailsPreserves ==
  ASSUME ReputationIInv, NEW p \in Processes, Reputation!LoadFails(p) PROVE ReputationIInv'
<1>1. /\ loaded' = [loaded EXCEPT ![p] = "false"]
      /\ Reputation!Become(p, "idle", Reputation!NoRecords)
      /\ UNCHANGED <<table, ledger, total, foreign, torn>>
  BY DEF Reputation!LoadFails
<1>2. Reputation!TypeOK
  BY DEF ReputationIInv
<1>3. \A q \in Processes :
        /\ doing'[q] = IF q = p THEN "idle" ELSE doing[q]
        /\ records'[q] = IF q = p THEN Reputation!NoRecords ELSE records[q]
        /\ loaded'[q] = IF q = p THEN "false" ELSE loaded[q]
  BY <1>1, <1>2, BecomeIsItsOwn DEF Reputation!TypeOK
<1>4. Reputation!TypeOK'
  BY <1>1, <1>2, BecomeTypes, NoRecordsIsCounts DEF Reputation!TypeOK
<1>5. \A i \in Ids : Reputation!NoRecords[i] <= total[i]
  BY <1>2, CountsAreNumbers DEF Reputation!NoRecords, Reputation!TypeOK, Reputation!Counts
<1>6. Reputation!NothingIsInvented' /\ NothingCarriedIsInvented' /\ OnlyTheLoadedSave'
  BY <1>1, <1>3, <1>5
     DEF ReputationIInv, Reputation!NothingIsInvented, NothingCarriedIsInvented,
        OnlyTheLoadedSave
<1>7. FreshKnowsTheRow'
  BY <1>1, <1>3 DEF ReputationIInv, FreshKnowsTheRow
<1> QED BY <1>4, <1>6, <1>7 DEF ReputationIInv

LEMMA HydratePreserves ==
  ASSUME ReputationIInv, NEW p \in Processes, Reputation!Hydrate(p) PROVE ReputationIInv'
<1>1. /\ doing[p] = "loading" /\ ledger' = [ledger EXCEPT ![p] = records[p]]
      /\ loaded' = [loaded EXCEPT ![p] = "true"] /\ torn' = torn \ {p}
      /\ Reputation!Become(p, "idle", Reputation!NoRecords)
      /\ UNCHANGED <<table, total, foreign>>
  BY DEF Reputation!Hydrate, Reputation!Merged
<1>2. Reputation!TypeOK /\ records[p] \in Reputation!Counts
  BY DEF ReputationIInv, Reputation!TypeOK
<1>3. \A q \in Processes :
        /\ doing'[q] = IF q = p THEN "idle" ELSE doing[q]
        /\ records'[q] = IF q = p THEN Reputation!NoRecords ELSE records[q]
        /\ loaded'[q] = IF q = p THEN "true" ELSE loaded[q]
        /\ ledger'[q] = IF q = p THEN records[p] ELSE ledger[q]
  BY <1>1, <1>2, BecomeIsItsOwn DEF Reputation!TypeOK
<1>4. Reputation!TypeOK'
  BY <1>1, <1>2, BecomeTypes, NoRecordsIsCounts DEF Reputation!TypeOK
<1>5. \A i \in Ids : Reputation!NoRecords[i] <= total[i]
  BY <1>2, CountsAreNumbers DEF Reputation!NoRecords, Reputation!TypeOK, Reputation!Counts
<1>6. Reputation!NothingIsInvented' /\ NothingCarriedIsInvented' /\ OnlyTheLoadedSave'
  BY <1>1, <1>3, <1>5
     DEF ReputationIInv, Reputation!NothingIsInvented, NothingCarriedIsInvented,
        OnlyTheLoadedSave
<1>7. FreshKnowsTheRow'
  BY <1>1, <1>3 DEF ReputationIInv, FreshKnowsTheRow
<1> QED BY <1>4, <1>6, <1>7 DEF ReputationIInv

LEMMA HydrateThrowsPreserves ==
  ASSUME ReputationIInv, NEW p \in Processes, Reputation!HydrateThrows(p)
  PROVE  ReputationIInv'
<1>1. PICK kept \in SUBSET Ids :
        ledger' = [ledger EXCEPT ![p] = [i \in Ids |-> IF i \in kept THEN records[p][i]
          ELSE 0]]
  BY DEF Reputation!HydrateThrows
<1>2. /\ doing[p] = "loading" /\ torn' = torn \cup {p}
      /\ Reputation!Become(p, "idle", Reputation!NoRecords)
      /\ UNCHANGED <<table, loaded, total, foreign>>
  BY DEF Reputation!HydrateThrows
<1>3. PICK half : half = [i \in Ids |-> IF i \in kept THEN records[p][i] ELSE 0]
  OBVIOUS
<1>4. Reputation!TypeOK /\ half \in Reputation!Counts
  BY <1>3, CountsAreNumbers, HarnessAssumption
    DEF ReputationIInv, Reputation!Counts, Reputation!LedgerAssumption
<1>5. \A i \in Ids : Reputation!NoRecords[i] <= total[i] /\ half[i] <= total[i]
  <2>1. \A i \in Ids : Reputation!NoRecords[i] = 0 /\ (half[i] = records[p][i] \/ half[i] = 0)
    BY <1>3 DEF Reputation!NoRecords
  <2>2. \A i \in Ids : 0 <= total[i] /\ records[p][i] <= total[i]
    BY <1>4, CountsAreNumbers DEF ReputationIInv, NothingCarriedIsInvented
  <2> QED BY <2>1, <2>2
<1>6. \A q \in Processes :
        /\ doing'[q] = IF q = p THEN "idle" ELSE doing[q]
        /\ records'[q] = IF q = p THEN Reputation!NoRecords ELSE records[q]
        /\ ledger'[q] = IF q = p THEN half ELSE ledger[q]
  BY <1>1, <1>2, <1>3, <1>4, BecomeIsItsOwn DEF Reputation!TypeOK
<1>7. Reputation!TypeOK'
  <2>1. ledger' \in [Processes -> Reputation!Counts]
    BY <1>1, <1>3, <1>4 DEF Reputation!TypeOK
  <2> QED BY <1>2, <1>4, <2>1, BecomeTypes, NoRecordsIsCounts DEF Reputation!TypeOK
<1>8. Reputation!NothingIsInvented' /\ NothingCarriedIsInvented' /\ OnlyTheLoadedSave'
  BY <1>2, <1>5, <1>6
     DEF ReputationIInv, Reputation!NothingIsInvented, NothingCarriedIsInvented,
        OnlyTheLoadedSave
<1>9. FreshKnowsTheRow'
  BY <1>2, <1>6 DEF ReputationIInv, FreshKnowsTheRow
<1> QED BY <1>7, <1>8, <1>9 DEF ReputationIInv

LEMMA PersistPreserves ==
  ASSUME ReputationIInv, NEW p \in Processes, Reputation!Persist(p) PROVE ReputationIInv'
<1>1. /\ doing[p] = "idle" /\ loaded[p] = "true" /\ Reputation!Become(p, "saving", ledger[p])
      /\ UNCHANGED <<table, ledger, loaded, total, foreign, torn>>
  BY DEF Reputation!Persist, Reputation!MayPersist
<1>2. Reputation!TypeOK /\ ledger[p] \in Reputation!Counts
  BY DEF ReputationIInv, Reputation!TypeOK
<1>3. \A q \in Processes :
        /\ doing'[q] = IF q = p THEN "saving" ELSE doing[q]
        /\ records'[q] = IF q = p THEN ledger[p] ELSE records[q]
  BY <1>1, <1>2, BecomeIsItsOwn
<1>4. Reputation!TypeOK'
  BY <1>1, <1>2, BecomeTypes DEF Reputation!TypeOK
<1>5. Reputation!NothingIsInvented' /\ NothingCarriedIsInvented' /\ OnlyTheLoadedSave'
  BY <1>1, <1>3
    DEF ReputationIInv, Reputation!NothingIsInvented, NothingCarriedIsInvented,
       OnlyTheLoadedSave
<1>6. FreshKnowsTheRow'
  <2>1. \A i \in Ids : ledger[p][i] <= ledger[p][i]
    BY <1>2, CountsAreNumbers
  <2> QED BY <1>1, <1>3, <2>1 DEF ReputationIInv, FreshKnowsTheRow
<1> QED BY <1>4, <1>5, <1>6 DEF ReputationIInv

LEMMA WritePreserves ==
  ASSUME ReputationIInv, NEW p \in Processes, Reputation!Write(p) PROVE ReputationIInv'
<1>1. /\ doing[p] = "saving" /\ Reputation!Become(p, "idle", Reputation!NoRecords)
      /\ UNCHANGED <<ledger, loaded, total, torn>>
  BY DEF Reputation!Write
<1>2. Reputation!TypeOK
  BY DEF ReputationIInv
<1>3. \A q \in Processes :
        /\ doing'[q] = IF q = p THEN "idle" ELSE doing[q]
        /\ records'[q] = IF q = p THEN Reputation!NoRecords ELSE records[q]
  BY <1>1, <1>2, BecomeIsItsOwn
<1>4. \A i \in Ids : Reputation!NoRecords[i] <= total[i]
  BY <1>2, CountsAreNumbers DEF Reputation!NoRecords, Reputation!TypeOK, Reputation!Counts
<1>5. NothingCarriedIsInvented' /\ OnlyTheLoadedSave'
  BY <1>1, <1>3, <1>4 DEF ReputationIInv, NothingCarriedIsInvented, OnlyTheLoadedSave
<1>6. CASE UNCHANGED <<table, foreign>>
  <2>1. Reputation!TypeOK'
    BY <1>1, <1>2, <1>6, BecomeTypes, NoRecordsIsCounts DEF Reputation!TypeOK
  <2>2. Reputation!NothingIsInvented' /\ FreshKnowsTheRow'
    BY <1>1, <1>3, <1>6 DEF ReputationIInv, Reputation!NothingIsInvented, FreshKnowsTheRow
  <2> QED BY <1>5, <2>1, <2>2 DEF ReputationIInv
<1>7. CASE /\ table' = [i \in Ids |-> IF records[p][i] > 0 THEN records[p][i] ELSE table[i]]
           /\ foreign' = [q \in Processes |->
                IF q = p THEN foreign[q] ELSE foreign[q] \cup {i \in Ids : records[p][i] > 0}]
  <2>1. \A i \in Ids : table'[i] = IF records[p][i] > 0 THEN records[p][i] ELSE table[i]
    BY <1>7
  <2>2. \A q \in Processes, i \in Ids : i \notin foreign'[q] =>
          i \notin foreign[q] /\ (q # p => ~(records[p][i] > 0))
    BY <1>7
  <2>3. Reputation!TypeOK'
    <3>1. table' \in Reputation!Counts
      BY <1>2, <1>7, CountsAreNumbers DEF Reputation!TypeOK, Reputation!Counts
    <3>2. foreign' \in [Processes -> SUBSET Ids]
      BY <1>2, <1>7 DEF Reputation!TypeOK
    <3> QED BY <1>1, <1>2, <3>1, <3>2, BecomeTypes, NoRecordsIsCounts DEF Reputation!TypeOK
  <2>4. Reputation!NothingIsInvented'
    BY <1>1, <2>1 DEF ReputationIInv, Reputation!NothingIsInvented, NothingCarriedIsInvented
  <2>5. FreshKnowsTheRow'
    <3>1. ASSUME NEW q \in Processes, NEW i \in Ids, i \notin foreign'[q], q # p
          PROVE  table'[i] = table[i]
      BY <2>1, <2>2, <3>1
    <3>2. ASSUME NEW i \in Ids, i \notin foreign'[p], p \notin torn
          PROVE  table'[i] <= ledger[p][i]
      <4>1. table[i] <= ledger[p][i] /\ records[p][i] <= ledger[p][i]
        BY <1>1, <2>2, <3>2 DEF ReputationIInv, FreshKnowsTheRow, OnlyTheLoadedSave
      <4> QED BY <2>1, <4>1
    <3> QED BY <1>1, <1>3, <2>2, <3>1, <3>2 DEF ReputationIInv, FreshKnowsTheRow
  <2> QED BY <1>5, <2>3, <2>4, <2>5 DEF ReputationIInv
<1> QED BY <1>6, <1>7 DEF Reputation!Write

LEMMA RestartPreserves ==
  ASSUME ReputationIInv, NEW p \in Processes, Reputation!Restart(p) PROVE ReputationIInv'
<1>1. /\ ledger' = [ledger EXCEPT ![p] = Reputation!NoRecords]
      /\ loaded' = [loaded EXCEPT ![p] = "null"] /\ torn' = torn \ {p}
      /\ Reputation!Become(p, "idle", Reputation!NoRecords)
      /\ UNCHANGED <<table, total, foreign>>
  BY DEF Reputation!Restart
<1>2. Reputation!TypeOK
  BY DEF ReputationIInv
<1>3. \A q \in Processes :
        /\ doing'[q] = IF q = p THEN "idle" ELSE doing[q]
        /\ records'[q] = IF q = p THEN Reputation!NoRecords ELSE records[q]
        /\ loaded'[q] = IF q = p THEN "null" ELSE loaded[q]
        /\ ledger'[q] = IF q = p THEN Reputation!NoRecords ELSE ledger[q]
  BY <1>1, <1>2, BecomeIsItsOwn DEF Reputation!TypeOK
<1>4. Reputation!TypeOK'
  BY <1>1, <1>2, BecomeTypes, NoRecordsIsCounts DEF Reputation!TypeOK
<1>5. \A i \in Ids : Reputation!NoRecords[i] <= total[i]
  BY <1>2, CountsAreNumbers DEF Reputation!NoRecords, Reputation!TypeOK, Reputation!Counts
<1>6. Reputation!NothingIsInvented' /\ NothingCarriedIsInvented' /\ OnlyTheLoadedSave'
  BY <1>1, <1>3, <1>5
     DEF ReputationIInv, Reputation!NothingIsInvented, NothingCarriedIsInvented,
        OnlyTheLoadedSave
<1>7. FreshKnowsTheRow'
  BY <1>1, <1>3 DEF ReputationIInv, FreshKnowsTheRow
<1> QED BY <1>4, <1>6, <1>7 DEF ReputationIInv

LEMMA ReputationStepPreserves ==
  ASSUME ReputationIInv, [Reputation!Next]_Reputation!vars PROVE ReputationIInv'
<1>1. CASE UNCHANGED Reputation!vars
  BY <1>1 DEF Reputation!vars, Reputation!memory, ReputationIInv, Reputation!TypeOK,
     Reputation!NothingIsInvented, NothingCarriedIsInvented,
              FreshKnowsTheRow, OnlyTheLoadedSave
<1> QED BY <1>1, RecordPreserves, ReadPreserves, LoadFailsPreserves, HydratePreserves,
           HydrateThrowsPreserves, PersistPreserves, WritePreserves, RestartPreserves
        DEF Reputation!Next

THEOREM ReputationInvariance == Reputation!Spec => []ReputationIInv
<1>1. ReputationIInv /\ [Reputation!Next]_Reputation!vars => ReputationIInv'
  BY ReputationStepPreserves
<1> QED BY <1>1, ReputationInitEstablishes, PTL DEF Reputation!Spec

(* The rows, the ledgers and what is carried between them are counts.      *)
THEOREM ReputationTypeCorrect == Reputation!Spec => []Reputation!TypeOK
<1>1. ReputationIInv => Reputation!TypeOK
  BY DEF ReputationIInv
<1> QED BY <1>1, ReputationInvariance, PTL

(* Nobody claims more observations than were made.                         *)
THEOREM NothingIsCountedTwice == Reputation!Spec => []Reputation!NothingIsInvented
<1>1. ReputationIInv => Reputation!NothingIsInvented
  BY DEF ReputationIInv
<1> QED BY <1>1, ReputationInvariance, PTL

(* A row loses observations only to the save of a process that did not     *)
(* know of them, or whose hydrate was torn.                                *)
THEOREM OnlyStaleHoldersErase ==
  Reputation!Spec => Reputation!HistoryIsErasedOnlyByStaleHolders
<1>1. ReputationIInv /\ [Reputation!Next]_Reputation!vars =>
        [\A i \in Ids : table'[i] < table[i] =>
           \E p \in Processes :
             doing[p] = "saving" /\ (i \in foreign[p] \/ p \in torn)]_Reputation!vars
  <2>1. SUFFICES ASSUME ReputationIInv, Reputation!Next, NEW i \in Ids, table'[i] < table[i]
                 PROVE  \E p \in Processes :
                          doing[p] = "saving" /\ (i \in foreign[p] \/ p \in torn)
    BY DEF Reputation!vars
  <2>2. table[i] \in Nat /\ table' # table
    BY <2>1, HarnessAssumption
      DEF ReputationIInv, Reputation!TypeOK, Reputation!Counts, Reputation!LedgerAssumption
  <2>3. PICK p \in Processes : Reputation!Write(p)
    BY <2>1, <2>2
      DEF Reputation!Next, Reputation!Record, Reputation!Read, Reputation!LoadFails,
         Reputation!Hydrate, Reputation!HydrateThrows, Reputation!Persist, Reputation!Restart
  <2>4. /\ doing[p] = "saving"
        /\ table' = [j \in Ids |-> IF records[p][j] > 0 THEN records[p][j] ELSE table[j]]
    BY <2>2, <2>3 DEF Reputation!Write
  <2>5. table'[i] = records[p][i] /\ records[p][i] < table[i]
    BY <2>1, <2>2, <2>4
  <2>6. records[p][i] \in Nat
    BY CountsAreNumbers, <2>1 DEF ReputationIInv
  <2>7. ~(table[i] <= records[p][i])
    BY <2>2, <2>5, <2>6
  <2>8. i \in foreign[p] \/ p \in torn
    BY <2>1, <2>4, <2>7 DEF ReputationIInv, FreshKnowsTheRow
  <2> QED BY <2>4, <2>8
<1> QED BY <1>1, ReputationInvariance, PTL
          DEF Reputation!Spec, Reputation!HistoryIsErasedOnlyByStaleHolders

-----------------------------------------------------------------------------
(***************************************************************************)
(* The profile, for any settings, declarations and grants.                 *)
(***************************************************************************)

LEMMA SpecsAreBounded ==
  ASSUME NEW k \in DOMAIN Specs
  PROVE  /\ Specs[k].min \in Int /\ Specs[k].default \in Int /\ Specs[k].max \in Int
         /\ Specs[k].min <= Specs[k].default /\ Specs[k].default <= Specs[k].max
BY HarnessAssumption DEF Profile!ProfileAssumption

LEMMA CeilingSpecs ==
  /\ Ceiling \in DOMAIN Specs /\ Target \in DOMAIN Specs
  /\ Specs[Ceiling].authority = "org"
  /\ Specs[Ceiling].safe = "lower" /\ Specs[Target].safe = "lower"
BY HarnessAssumption DEF Profile!ProfileAssumption

LEMMA ValuesAreNumbers ==
  /\ \A e \in Entries : e.value = Mistyped \/ e.value \in Int
  /\ \A g \in Grants : g.value = Mistyped \/ g.value \in Int
  /\ \A e \in Entries : e = [key |-> e.key, value |-> e.value]
BY HarnessAssumption DEF Profile!ProfileAssumption

(* A layer holds values of its settings, as it was given them.             *)
LayersAreFunctions ==
  /\ layers = [l \in Profile!Layers |-> layers[l]]
  /\ \A l \in Profile!Layers : layers[l] = [k \in DOMAIN layers[l] |-> layers[l][k]]

ProfileIInv == Profile!TypeOK /\ LayersAreFunctions

LEMMA ProfileInitEstablishes == Profile!Init => ProfileIInv
<1>1. SUFFICES ASSUME Profile!Init PROVE ProfileIInv
  OBVIOUS
<1>2. LastDay \in Nat
  BY HarnessAssumption DEF Profile!ProfileAssumption
<1>3. \A l \in Profile!Layers : layers[l] = <<>> /\ DOMAIN layers[l] = {}
  BY <1>1 DEF Profile!Init
<1>4. Profile!TypeOK
  BY <1>1, <1>2, <1>3 DEF Profile!Init, Profile!TypeOK
<1>5. LayersAreFunctions
  BY <1>1, <1>3 DEF Profile!Init, LayersAreFunctions
<1> QED BY <1>4, <1>5 DEF ProfileIInv

LEMMA ProfileStepPreserves ==
  ASSUME ProfileIInv, [Profile!Next]_Profile!vars PROVE ProfileIInv'
<1>1. ASSUME NEW l \in Profile!Layers, Profile!Declare(l) PROVE ProfileIInv'
  <2>1. PICK e \in Entries :
          layers' = [layers EXCEPT ![l] =
            [k \in DOMAIN layers[l] \cup {e.key} |-> IF k = e.key THEN e.value
              ELSE layers[l][k]]]
    BY <1>1 DEF Profile!Declare
  <2>2. PICK given :
          given = [k \in DOMAIN layers[l] \cup {e.key} |->
                     IF k = e.key THEN e.value ELSE layers[l][k]]
    OBVIOUS
  <2>3. \A m \in Profile!Layers : layers'[m] = IF m = l THEN given ELSE layers[m]
    BY <2>1, <2>2 DEF ProfileIInv, LayersAreFunctions
  <2>4. \A k \in DOMAIN given : [key |-> k, value |-> given[k]] \in Entries
    <3>1. [key |-> e.key, value |-> e.value] \in Entries
      BY ValuesAreNumbers
    <3> QED BY <2>2, <3>1 DEF ProfileIInv, Profile!TypeOK
  <2>5. Profile!TypeOK'
    BY <1>1, <2>3, <2>4 DEF ProfileIInv, Profile!TypeOK, Profile!Declare
  <2>6. given = [k \in DOMAIN given |-> given[k]]
    BY <2>2
  <2>7. LayersAreFunctions'
    BY <2>1, <2>3, <2>6 DEF ProfileIInv, LayersAreFunctions
  <2> QED BY <2>5, <2>7 DEF ProfileIInv
<1>2. CASE Profile!Grant
  BY <1>2 DEF Profile!Grant, ProfileIInv, Profile!TypeOK, LayersAreFunctions
<1>3. CASE Profile!Tick
  BY <1>3, HarnessAssumption
    DEF Profile!ProfileAssumption, Profile!Tick, ProfileIInv, Profile!TypeOK,
       LayersAreFunctions
<1>4. CASE UNCHANGED Profile!vars
  BY <1>4 DEF Profile!vars, ProfileIInv, Profile!TypeOK, LayersAreFunctions
<1> QED BY <1>1, <1>2, <1>3, <1>4 DEF Profile!Next

THEOREM ProfileInvariance == Profile!Spec => []ProfileIInv
<1>1. ProfileIInv /\ [Profile!Next]_Profile!vars => ProfileIInv'
  BY ProfileStepPreserves
<1> QED BY <1>1, ProfileInitEstablishes, PTL DEF Profile!Spec

(* What is declared and granted is what may be.                            *)
THEOREM ProfileTypeCorrect == Profile!Spec => []Profile!TypeOK
<1>1. ProfileIInv => Profile!TypeOK
  BY DEF ProfileIInv
<1> QED BY <1>1, ProfileInvariance, PTL

-----------------------------------------------------------------------------
(* A setting of k that may stand: a number within its bounds.              *)
Stands(k, setting) ==
  setting.value \in Int /\ Specs[k].min <= setting.value /\ setting.value <= Specs[k].max

Declarations(from) ==
  \A l \in Profile!Layers : \A k \in DOMAIN from[l] :
    from[l][k] = Mistyped \/ from[l][k] \in Int

LEMMA ClampIsWithin ==
  ASSUME NEW k \in DOMAIN Specs, NEW v \in Int
  PROVE  /\ Profile!Clamp(Specs[k], v) \in Int
         /\ Specs[k].min <= Profile!Clamp(Specs[k], v)
         /\ Profile!Clamp(Specs[k], v) <= Specs[k].max
         /\ Specs[k].min <= v => Profile!Clamp(Specs[k], v) <= v
         /\ v <= Specs[k].max => v <= Profile!Clamp(Specs[k], v)
         /\ Profile!Clamp(Specs[k], v) > Specs[k].min => Profile!Clamp(Specs[k], v) <= v
BY SpecsAreBounded DEF Profile!Clamp

LEMMA AfterStands ==
  ASSUME NEW k \in DOMAIN Specs, NEW layer \in Profile!Layers, NEW from, Declarations(from),
         NEW before, Stands(k, before)
  PROVE  Stands(k, Profile!After(layer, from, k, before))
<1>1. CASE k \in DOMAIN from[layer] /\ Profile!Accepts(layer, k, from[layer][k], before.value)
  <2>1. from[layer][k] \in Int
    BY <1>1 DEF Profile!Accepts, Declarations
  <2>2. Profile!After(layer, from, k, before).value = Profile!Clamp(Specs[k], from[layer][k])
    BY <1>1 DEF Profile!After
  <2> QED BY <2>1, <2>2, ClampIsWithin DEF Stands
<1>2. CASE ~(k \in DOMAIN from[layer]
        /\ Profile!Accepts(layer, k, from[layer][k], before.value))
  BY <1>2 DEF Profile!After
<1> QED BY <1>1, <1>2

LEMMA DeclaredStands ==
  ASSUME NEW k \in DOMAIN Specs, NEW from, Declarations(from)
  PROVE  Stands(k, Profile!DeclaredByOthers(from, k)) /\ Stands(k, Profile!Declared(from, k))
<1> DEFINE none == [value |-> Specs[k].default, source |-> "default"]
           vendor == Profile!After("vendor", from, k, none)
           org == Profile!After("org", from, k, vendor)
<1>1. Stands(k, none)
  BY SpecsAreBounded DEF Stands
<1> HIDE DEF none
<1>2. Stands(k, vendor)
  BY <1>1, AfterStands DEF Profile!Layers
<1> HIDE DEF vendor
<1>3. Stands(k, org)
  BY <1>2, AfterStands DEF Profile!Layers
<1> HIDE DEF org
<1>4. Stands(k, Profile!After("user", from, k, org))
  BY <1>3, AfterStands DEF Profile!Layers
<1>5. Profile!DeclaredByOthers(from, k) = Profile!After("user", from, k, org)
  BY DEF Profile!DeclaredByOthers, org, vendor, none
<1>6. Stands(k, Profile!DeclaredByOthers(from, k))
  BY <1>4, <1>5
<1>7. Stands(k, Profile!After("agent", from, k, Profile!DeclaredByOthers(from, k)))
  BY <1>6, AfterStands DEF Profile!Layers
<1> QED BY <1>6, <1>7 DEF Profile!Declared

LEMMA LayersAreDeclarations == ProfileIInv => Declarations(layers)
<1>1. SUFFICES ASSUME ProfileIInv, NEW l \in Profile!Layers, NEW k \in DOMAIN layers[l]
               PROVE  layers[l][k] = Mistyped \/ layers[l][k] \in Int
  BY DEF Declarations
<1>2. PICK e \in Entries : e = [key |-> k, value |-> layers[l][k]]
  BY <1>1 DEF ProfileIInv, Profile!TypeOK
<1>3. e.value = layers[l][k]
  BY <1>2
<1> QED BY <1>3, ValuesAreNumbers

(* The grants that count, and the one of them that does.                   *)
Counting(k) == {i \in DOMAIN grants : Profile!Counts(grants[i], k)}

LEMMA LastOfCounting ==
  ASSUME ProfileIInv, NEW k, Counting(k) # {}
  PROVE  /\ Profile!Max(Counting(k)) \in Counting(k)
         /\ grants[Profile!Max(Counting(k))] \in Grants
         /\ grants[Profile!Max(Counting(k))].value \in Int
<1>1. grants \in Seq(Grants) /\ DOMAIN grants = 1..Len(grants) /\ Len(grants) \in Nat
  BY DEF ProfileIInv, Profile!TypeOK
<1>2. Counting(k) \subseteq 1..Len(grants)
  BY <1>1 DEF Counting
<1>3. IsFiniteSet(Counting(k)) /\ \A i \in Counting(k) : i \in Int
  <2>1. IsFiniteSet(1..Len(grants))
    BY <1>1, FS_Interval
  <2> QED BY <1>1, <1>2, <2>1, FS_Subset
<1>4. \E m \in Counting(k) : \A i \in Counting(k) : m >= i
  BY <1>3, GreatestExists
<1>5. PICK m \in Counting(k) : m = Profile!Max(Counting(k))
  BY <1>4 DEF Profile!Max
<1>6. grants[m] \in Grants /\ grants[m].value # Mistyped
  BY <1>1, <1>2, <1>5 DEF Counting, Profile!Counts
<1> QED BY <1>5, <1>6, ValuesAreNumbers

LEMMA EarnedIs ==
  ASSUME NEW from, NEW k
  PROVE  /\ Counting(k) = {} => Profile!Earned(from, k) = Profile!Declared(from, k)
         /\ Counting(k) # {} => Profile!Earned(from, k) =
              [value |-> Profile!Clamp(Specs[k], grants[Profile!Max(Counting(k))].value),
               source |-> "earned"]
BY DEF Profile!Earned, Counting

LEMMA EarnedStands ==
  ASSUME ProfileIInv, NEW k \in DOMAIN Specs, NEW from, Declarations(from)
  PROVE  Stands(k, Profile!Earned(from, k))
<1>1. CASE Counting(k) = {}
  BY <1>1, EarnedIs, DeclaredStands
<1>2. CASE Counting(k) # {}
  <2>1. PICK v \in Int : v = grants[Profile!Max(Counting(k))].value
    BY <1>2, LastOfCounting
  <2>2. Profile!Earned(from, k).value = Profile!Clamp(Specs[k], v)
    BY <1>2, <2>1, EarnedIs
  <2> QED BY <2>2, ClampIsWithin DEF Stands
<1> QED BY <1>1, <1>2

-----------------------------------------------------------------------------
(* An organisation's ceiling is what it declared: users and agents may not *)
(* write it, and it is not earned.                                         *)
LEMMA CeilingIsDeclared ==
  ASSUME ProfileIInv, "org" \in Profile!Layers, Ceiling \in DOMAIN layers["org"],
         layers["org"][Ceiling] # Mistyped
  PROVE  Profile!Earned(layers, Ceiling)
           = [value |-> Profile!Clamp(Specs[Ceiling], layers["org"][Ceiling]), source |-> "org"]
<1>1. Profile!WritableBy[Specs[Ceiling].authority] = {"vendor", "org"}
  BY CeilingSpecs DEF Profile!WritableBy
<1>2. \A before, v :
        ~Profile!Accepts("user", Ceiling, v, before)
          /\ ~Profile!Accepts("agent", Ceiling, v, before)
  BY <1>1 DEF Profile!Accepts
<1>3. \A before : Profile!After("user", layers, Ceiling, before) = before
                  /\ Profile!After("agent", layers, Ceiling, before) = before
  BY <1>2 DEF Profile!After
<1>4. \A before : Profile!Accepts("org", Ceiling, layers["org"][Ceiling], before)
  BY <1>1 DEF Profile!Accepts
<1>5. \A before : Profile!After("org", layers, Ceiling, before)
                    = [value |-> Profile!Clamp(Specs[Ceiling], layers["org"][Ceiling]), source |-> "org"]
  BY <1>4 DEF Profile!After
<1>6. Profile!Declared(layers, Ceiling)
        = [value |-> Profile!Clamp(Specs[Ceiling], layers["org"][Ceiling]), source |-> "org"]
  BY <1>3, <1>5 DEF Profile!Declared, Profile!DeclaredByOthers
<1>7. Counting(Ceiling) = {}
  BY CeilingSpecs DEF Counting, Profile!Counts
<1> QED BY <1>6, <1>7, EarnedIs

LEMMA CeilingCuts == ProfileIInv => Profile!CeilingIsKept
<1>1. SUFFICES ASSUME ProfileIInv, Ceiling \in DOMAIN layers["org"],
                      layers["org"][Ceiling] # Mistyped
               PROVE  Profile!Resolved(layers, Target).value
                        <= Profile!Clamp(Specs[Ceiling], layers["org"][Ceiling])
  BY DEF Profile!CeilingIsKept
<1>2. "org" \in Profile!Layers
  BY DEF Profile!Layers
<1>3. PICK c : c = Profile!Clamp(Specs[Ceiling], layers["org"][Ceiling])
  OBVIOUS
<1>4. /\ Profile!Earned(layers, Ceiling).value = c
      /\ Profile!Earned(layers, Ceiling).source = "org"
  BY <1>1, <1>2, <1>3, CeilingIsDeclared
<1>5. c \in Int
  BY <1>1, <1>4, EarnedStands, LayersAreDeclarations, CeilingSpecs DEF Stands
<1>6. PICK setting : setting = Profile!Earned(layers, Target)
  OBVIOUS
<1>7. setting.value \in Int
  BY <1>1, <1>6, EarnedStands, LayersAreDeclarations, CeilingSpecs DEF Stands
<1>8. Profile!Resolved(layers, Target) =
        IF setting.value > c THEN [value |-> c, source |-> setting.source] ELSE setting
  BY <1>4, <1>6 DEF Profile!Resolved
<1>9. CASE setting.value > c
  BY <1>3, <1>5, <1>8, <1>9
<1>10. CASE ~(setting.value > c)
  BY <1>3, <1>5, <1>7, <1>8, <1>10
<1> QED BY <1>9, <1>10

(* A value is at most what was earned or declared, and less only for the   *)
(* ceiling.                                                                *)
LEMMA ResolvedIsCut ==
  ASSUME ProfileIInv, NEW k \in DOMAIN Specs, NEW from, Declarations(from)
  PROVE  /\ Profile!Earned(from, k).value \in Int
         /\ Profile!Earned(from, Ceiling).value \in Int
         /\ Profile!Resolved(from, k).value =
              IF /\ k = Target /\ Profile!Earned(from, Ceiling).source # "default"
                 /\ Profile!Earned(from, k).value > Profile!Earned(from, Ceiling).value
              THEN Profile!Earned(from, Ceiling).value ELSE Profile!Earned(from, k).value
         /\ Profile!Resolved(from, k).value <= Profile!Earned(from, k).value
<1>1. Profile!Earned(from, k).value \in Int /\ Profile!Earned(from, Ceiling).value \in Int
  BY EarnedStands, CeilingSpecs DEF Stands
<1>2. PICK setting, ceiling :
        setting = Profile!Earned(from, k) /\ ceiling = Profile!Earned(from, Ceiling)
  OBVIOUS
<1>3. Profile!Resolved(from, k) =
        IF k = Target /\ ceiling.source # "default" /\ setting.value > ceiling.value
        THEN [value |-> ceiling.value, source |-> setting.source] ELSE setting
  BY <1>2 DEF Profile!Resolved
<1>4. Profile!Resolved(from, k).value =
        IF k = Target /\ ceiling.source # "default" /\ setting.value > ceiling.value
        THEN ceiling.value ELSE setting.value
  BY <1>3
<1> QED BY <1>1, <1>2, <1>4

LEMMA PowerTakesAGrant == ProfileIInv => Profile!PowerIsEarned
<1>1. SUFFICES ASSUME ProfileIInv, NEW k \in DOMAIN Specs, Specs[k].authority = "earned",
                      Profile!Resolved(layers, k).value > Specs[k].default
               PROVE  \E i \in DOMAIN grants :
                        /\ grants[i].key = k /\ grants[i].backed /\ today < grants[i].expires
                        /\ Profile!Resolved(layers, k).value <= grants[i].value
  BY DEF Profile!PowerIsEarned
<1>2. Declarations(layers)
  BY <1>1, LayersAreDeclarations
<1>3. PICK r \in Int, d \in Int :
        r = Profile!Resolved(layers, k).value /\ d = Specs[k].default /\ r > d
  BY <1>1, <1>2, ResolvedIsCut, SpecsAreBounded
<1>4. PICK s \in Int : s = Profile!Earned(layers, k).value /\ r <= s
  BY <1>1, <1>2, <1>3, ResolvedIsCut
<1>5. ASSUME Counting(k) = {} PROVE FALSE
  <2>1. \A layer, v, before : ~Profile!Accepts(layer, k, v, before)
    BY <1>1 DEF Profile!Accepts, Profile!WritableBy
  <2>2. \A layer, before : Profile!After(layer, layers, k, before) = before
    BY <2>1 DEF Profile!After
  <2>3. Profile!Declared(layers, k).value = Specs[k].default
    BY <2>2 DEF Profile!Declared, Profile!DeclaredByOthers
  <2>4. s = d
    BY <1>3, <1>4, <1>5, <2>3, EarnedIs
  <2> QED BY <1>3, <1>4, <2>4
<1>6. PICK i \in Counting(k) : i = Profile!Max(Counting(k)) /\ grants[i].value \in Int
  BY <1>1, <1>5, LastOfCounting
<1>7. PICK v \in Int : v = grants[i].value
  BY <1>6
<1>8. s = Profile!Clamp(Specs[k], v)
  BY <1>4, <1>5, <1>6, <1>7, EarnedIs
<1>9. s <= v
  <2>1. s > Specs[k].min
    BY <1>3, <1>4, SpecsAreBounded
  <2> QED BY <1>8, <2>1, ClampIsWithin
<1>10. r <= v
  BY <1>3, <1>4, <1>7, <1>9
<1>11. i \in DOMAIN grants /\ Profile!Counts(grants[i], k)
  BY <1>6 DEF Counting
<1> QED BY <1>3, <1>7, <1>10, <1>11 DEF Profile!Counts

(* An agent's declaration replaces what the others made of a setting by    *)
(* something as cautious, and sets what they did not only tighter.         *)
LEMMA AgentTightens ==
  ASSUME NEW k \in DOMAIN Specs, NEW from, Declarations(from)
  PROVE  /\ ~Profile!Loosens(Specs[k], Profile!DeclaredByOthers(from, k).value, Profile!Declared(from, k).value)
         /\ Profile!DeclaredByOthers(from, k).source # "default" =>
              Profile!Declared(from, k).source # "default"
<1>1. PICK before : before = Profile!DeclaredByOthers(from, k)
  OBVIOUS
<1>2. /\ before.value \in Int
      /\ Specs[k].min <= before.value /\ before.value <= Specs[k].max
  BY <1>1, DeclaredStands DEF Stands
<1>3. CASE k \in DOMAIN from["agent"]
        /\ Profile!Accepts("agent", k, from["agent"][k], before.value)
  <2>1. PICK v \in Int : v = from["agent"][k]
    BY <1>3 DEF Profile!Accepts, Declarations, Profile!Layers
  <2>2. ~Profile!Loosens(Specs[k], before.value, v)
    BY <1>3, <2>1 DEF Profile!Accepts
  <2>3. Profile!Declared(from, k) = [value |-> Profile!Clamp(Specs[k], v), source |-> "agent"]
    BY <1>1, <1>3, <2>1 DEF Profile!Declared, Profile!After
  <2>4. ~Profile!Loosens(Specs[k], before.value, Profile!Clamp(Specs[k], v))
    <3>1. PICK b \in Int, c \in Int, lo \in Int, hi \in Int :
            /\ b = before.value /\ c = Profile!Clamp(Specs[k], v)
            /\ lo = Specs[k].min /\ hi = Specs[k].max
      BY <1>2, ClampIsWithin, SpecsAreBounded
    <3>2. c = IF v < lo THEN lo ELSE IF v > hi THEN hi ELSE v
      BY <3>1 DEF Profile!Clamp
    <3>3. lo <= b /\ b <= hi
      BY <1>2, <3>1
    <3>4. CASE Specs[k].safe = "lower"
      <4>1. ~(v > b)
        BY <2>2, <3>1, <3>4 DEF Profile!Loosens
      <4>2. ~(c > b)
        BY <3>2, <3>3, <4>1
      <4> QED BY <3>1, <3>4, <4>2 DEF Profile!Loosens
    <3>5. CASE Specs[k].safe = "higher"
      <4>1. ~(v < b)
        BY <2>2, <3>1, <3>5 DEF Profile!Loosens
      <4>2. ~(c < b)
        BY <3>2, <3>3, <4>1
      <4> QED BY <3>1, <3>5, <4>2 DEF Profile!Loosens
    <3>6. CASE Specs[k].safe # "lower" /\ Specs[k].safe # "higher"
      BY <3>6 DEF Profile!Loosens
    <3> QED BY <3>4, <3>5, <3>6
  <2> QED BY <1>1, <2>3, <2>4
<1>4. CASE ~(k \in DOMAIN from["agent"]
        /\ Profile!Accepts("agent", k, from["agent"][k], before.value))
  <2>1. Profile!Declared(from, k) = before
    BY <1>1, <1>4 DEF Profile!Declared, Profile!After
  <2>2. ~Profile!Loosens(Specs[k], before.value, before.value)
    BY <1>2 DEF Profile!Loosens
  <2> QED BY <1>1, <2>1, <2>2
<1> QED BY <1>3, <1>4

LEMMA AgentIsHeld == ProfileIInv => Profile!AgentsOnlyTighten
<1>1. SUFFICES ASSUME ProfileIInv, NEW k \in DOMAIN Specs
               PROVE  ~Profile!Loosens(Specs[k], Profile!Resolved([layers EXCEPT !["agent"] =
                        <<>>], k).value,
                                         Profile!Resolved(layers, k).value)
  BY DEF Profile!AgentsOnlyTighten
<1>2. PICK without : without = [layers EXCEPT !["agent"] = <<>>]
  OBVIOUS
<1>3. /\ without["agent"] = <<>> /\ DOMAIN without["agent"] = {}
      /\ \A l \in Profile!Layers \ {"agent"} : without[l] = layers[l]
  BY <1>1, <1>2 DEF ProfileIInv, LayersAreFunctions, Profile!Layers
<1>4. Declarations(layers) /\ Declarations(without)
  BY <1>1, <1>3, LayersAreDeclarations DEF Declarations
<1>5. \A key : Profile!DeclaredByOthers(without, key) = Profile!DeclaredByOthers(layers, key)
  BY <1>3 DEF Profile!DeclaredByOthers, Profile!After, Profile!Layers
<1>6. \A key : Profile!Declared(without, key) = Profile!DeclaredByOthers(layers, key)
  BY <1>3, <1>5 DEF Profile!Declared, Profile!After
<1>7. ASSUME NEW key \in DOMAIN Specs
      PROVE  /\ ~Profile!Loosens(Specs[key], Profile!Earned(without, key).value, Profile!Earned(layers, key).value)
             /\ Profile!Earned(without, key).source # "default" =>
                  Profile!Earned(layers, key).source # "default"
  <2>1. CASE Counting(key) = {}
    BY <1>4, <1>6, <2>1, EarnedIs, AgentTightens
  <2>2. CASE Counting(key) # {}
    <3>1. Profile!Earned(without, key) = Profile!Earned(layers, key)
      BY <2>2, EarnedIs
    <3>2. Profile!Earned(layers, key).value \in Int
      BY <1>1, <1>4, EarnedStands DEF Stands
    <3> QED BY <3>1, <3>2 DEF Profile!Loosens
  <2> QED BY <2>1, <2>2
<1>8. CASE k # Target
  <2>1. /\ Profile!Resolved(without, k).value = Profile!Earned(without, k).value
        /\ Profile!Resolved(layers, k).value = Profile!Earned(layers, k).value
    BY <1>1, <1>4, <1>8, ResolvedIsCut
  <2> QED BY <1>2, <1>7, <2>1
<1>9. CASE k = Target
  <2>1. PICK s \in Int, t \in Int, c \in Int, d \in Int :
          /\ s = Profile!Earned(without, k).value /\ t = Profile!Earned(layers, k).value
          /\ c = Profile!Earned(without, Ceiling).value
          /\ d = Profile!Earned(layers, Ceiling).value
    BY <1>1, <1>4, ResolvedIsCut
  <2>2. PICK x, y :
          /\ x = Profile!Resolved(without, k).value /\ y = Profile!Resolved(layers, k).value
    OBVIOUS
  <2>3. PICK a \in BOOLEAN, b \in BOOLEAN :
          /\ a <=> Profile!Earned(without, Ceiling).source # "default"
          /\ b <=> Profile!Earned(layers, Ceiling).source # "default"
    OBVIOUS
  <2>4. /\ x = IF a /\ s > c THEN c ELSE s
        /\ y = IF b /\ t > d THEN d ELSE t
    <3>1. x = IF a /\ s > c THEN c ELSE s
      BY <1>1, <1>4, <1>9, <2>1, <2>2, <2>3, ResolvedIsCut
    <3>2. y = IF b /\ t > d THEN d ELSE t
      BY <1>1, <1>4, <1>9, <2>1, <2>2, <2>3, ResolvedIsCut
    <3> QED BY <3>1, <3>2
  <2>5. t <= s
    <3>1. ~(t > s)
      BY <1>7, <1>9, <2>1, CeilingSpecs DEF Profile!Loosens
    <3> QED BY <3>1
  <2>6. d <= c /\ (a => b)
    <3>1. ~(d > c) /\ (a => b)
      BY <1>7, <2>1, <2>3, CeilingSpecs DEF Profile!Loosens
    <3> QED BY <3>1
  <2>7. ~(y > x)
    BY <2>4, <2>5, <2>6
  <2> QED BY <1>2, <1>9, <2>2, <2>7, CeilingSpecs DEF Profile!Loosens
<1> QED BY <1>8, <1>9

(* The profile is as cautious as the one without the agent's layer.        *)
THEOREM AgentsCannotLoosen == Profile!Spec => []Profile!AgentsOnlyTighten
BY ProfileInvariance, AgentIsHeld, PTL

(* What is above the floor is covered by a grant that counts.              *)
THEOREM NoPowerWithoutEvidence == Profile!Spec => []Profile!PowerIsEarned
BY ProfileInvariance, PowerTakesAGrant, PTL

(* The organisation's ceiling outranks what was earned.                    *)
THEOREM TheCeilingOutranks == Profile!Spec => []Profile!CeilingIsKept
BY ProfileInvariance, CeilingCuts, PTL
=============================================================================
