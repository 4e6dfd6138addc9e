------------------------------- MODULE Router -------------------------------
(***************************************************************************)
(* TrustRouter.route over the reputation of its experts: hard gates, then  *)
(* a ranking in which one draw may put the experts without a record first  *)
(* (harness/router.ts, and harness/reputation.ts for what it ranks by).    *)
(*                                                                         *)
(* Breaker, capacity and bucket are a set of experts closed for now, which *)
(* moves as it will; Dispatch and LeakyBucket are their detail.  Of a      *)
(* score only its place against the prior and the floor is kept, and an    *)
(* outcome moves it by a step at most; similarity and congestion are one   *)
(* fixed number.                                                           *)
(***************************************************************************)
EXTENDS Integers, FiniteSets

CONSTANTS
  Experts,
  Merit,            \* [Experts -> Nat]: similarity less congestion
  Order,            \* [Experts -> Nat], one to one: the ids, for ties
  ColdUntil,        \* observations at which confidence reaches coldStartConfidence
  MaxObservations   \* bound of the count

RouterAssumption ==
  /\ Merit \in [Experts -> Nat]
  /\ Order \in [Experts -> Nat] /\ \A e, f \in Experts : Order[e] = Order[f] => e = f
  /\ ColdUntil \in Nat \ {0} /\ MaxObservations \in Nat /\ MaxObservations >= ColdUntil

Prior == 1
TrustFloor == 1    \* trustFloor, the lowest score that passes it
Nobody == "nobody"

VARIABLES
  earned,         \* earnedScore: 0 under the floor, 1 at the prior, 2 above
  observations,
  closed,         \* experts behind a gate other than the trust floor
  selected        \* the expert at the task, Nobody between tasks

vars == <<earned, observations, closed, selected>>

TypeOK ==
  /\ earned \in [Experts -> 0..2]
  /\ observations \in [Experts -> 0..MaxObservations]
  /\ closed \subseteq Experts
  /\ selected \in Experts \cup {Nobody}

Init ==
  /\ earned = [e \in Experts |-> Prior]
  /\ observations = [e \in Experts |-> 0]
  /\ closed = Experts
  /\ selected = Nobody

-----------------------------------------------------------------------------
ColdStart(e) == observations[e] < ColdUntil

BelowTrustFloor(e) == ~ColdStart(e) /\ earned[e] < TrustFloor

Candidates == {e \in Experts : e \notin closed /\ ~BelowTrustFloor(e)}

(* Without evidence a newcomer is not below the middle; its prior is that. *)
Final(e) == Merit[e] + earned[e]

\* fault: exploration is one of the terms of the sum
AheadByOneTerm(exploring, e, f) ==
  LET bonus(x) == IF exploring /\ ColdStart(x) THEN 1 ELSE 0
  IN Final(e) + bonus(e) > Final(f) + bonus(f)
     \/ (Final(e) + bonus(e) = Final(f) + bonus(f) /\ Order[e] < Order[f])

Ahead(exploring, e, f) ==
  IF exploring /\ ColdStart(e) # ColdStart(f) THEN ColdStart(e)
  ELSE Final(e) > Final(f) \/ (Final(e) = Final(f) /\ Order[e] < Order[f])

Route(exploring) ==
  /\ selected = Nobody
  /\ \E e \in Candidates :
       /\ \A f \in Candidates \ {e} : Ahead(exploring, e, f)
       /\ selected' = e
  /\ UNCHANGED <<earned, observations, closed>>

(* ReputationLedger.record of the task's outcome.                          *)
Record(e) ==
  /\ selected = e
  /\ \E s \in (0..2) \cap ((earned[e] - 1)..(earned[e] + 1)) :
       earned' = [earned EXCEPT ![e] = s]
  /\ observations' = [observations EXCEPT ![e] = IF @ < MaxObservations THEN @ + 1 ELSE @]
  /\ selected' = Nobody
  /\ UNCHANGED closed

GatesMove(e) ==
  /\ closed' = IF e \in closed THEN closed \ {e} ELSE closed \cup {e}
  /\ UNCHANGED <<earned, observations, selected>>

Next ==
  \/ \E exploring \in BOOLEAN : Route(exploring)
  \/ \E e \in Experts : Record(e) \/ GatesMove(e)

Spec == Init /\ [][Next]_vars

(* A task ends, and the draw of one in ten comes up again and again while  *)
(* a given expert is a candidate.  The gates may do as they like.          *)
Fairness ==
  /\ WF_vars(\E e \in Experts : Record(e))
  /\ \A e \in Experts : SF_vars(Route(TRUE) /\ e \in Candidates)

-----------------------------------------------------------------------------
(* No expert is left out for want of a record: each that is open to a task *)
(* again and again comes out of its cold start, whatever it earns on the   *)
(* way (the floor would be "self-fulfilling", router.ts 164-166).          *)
EveryNewcomerGetsARecord ==
  \A e \in Experts :
    []<>(selected = Nobody /\ e \notin closed) => <>~ColdStart(e)
=============================================================================
