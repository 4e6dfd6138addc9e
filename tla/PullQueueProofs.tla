-------------------------- MODULE PullQueueProofs --------------------------
(***************************************************************************)
(* The queue's invariants, for any tasks, workers, priorities and limits.  *)
(***************************************************************************)
EXTENDS PullQueue, TLAPS

(* The four invariants are inductive only together: freshness of a lease   *)
(* name needs the types, the retry budget needs that an entry is in one    *)
(* place, and what an ack removes needs that leases are not shared.        *)
IInv ==
  /\ TypeOK
  /\ NothingLostOrDoubled
  /\ RetryBudget
  /\ LeaseNamesItsTask

-----------------------------------------------------------------------------
(* Entries under different leases differ, so ending the leases in L moves  *)
(* exactly the entries of L out of the map.                                *)
LEMMA EndedAndKeptAreApart ==
  ASSUME NothingLostOrDoubled, NEW L \in SUBSET DOMAIN leased
  PROVE  /\ EntriesOf(L) \cap EntriesOf(DOMAIN leased \ L) = {}
         /\ EntriesOf(L) \cup EntriesOf(DOMAIN leased \ L) = EntriesOf(DOMAIN leased)
BY DEF NothingLostOrDoubled, EntriesOf

(* What the map holds after only the leases in K are kept.                 *)
LEMMA KeptEntries ==
  ASSUME NEW K \in SUBSET DOMAIN leased, KeepLeases(K)
  PROVE  /\ DOMAIN leased' = K
         /\ \A l \in K : leased'[l] = leased[l]
         /\ EntriesOf(DOMAIN leased)' = EntriesOf(K)
BY DEF KeepLeases, EntriesOf

(* Giving up any set of leases, as reclaimExpired and nack do, keeps every *)
(* entry in one place and within its budget.                               *)
LEMMA GivingUpLeases ==
  ASSUME TypeOK, NothingLostOrDoubled, RetryBudget,
         NEW L \in SUBSET DOMAIN leased,
         FailEntries(EntriesOf(L)), KeepLeases(DOMAIN leased \ L),
         UNCHANGED <<attempts, owed>>
  PROVE  /\ pending' \subseteq Entries /\ dead' \subseteq Entries
         /\ DOMAIN leased' \subseteq LeaseIds
         /\ leased' \in [DOMAIN leased' -> Entries]
         /\ NothingLostOrDoubled'
         /\ RetryBudget'
<1> DEFINE E == EntriesOf(L)
           K == DOMAIN leased \ L
<1>1. E \subseteq Entries /\ EntriesOf(DOMAIN leased) \subseteq Entries
  BY DEF EntriesOf, TypeOK
<1>2. /\ E \cap EntriesOf(K) = {}
      /\ E \cup EntriesOf(K) = EntriesOf(DOMAIN leased)
  BY EndedAndKeptAreApart
<1>3. /\ DOMAIN leased' = K
      /\ \A l \in K : leased'[l] = leased[l]
      /\ EntriesOf(DOMAIN leased)' = EntriesOf(K)
  BY KeptEntries
<1>4. pending' = pending \cup (E \ Spent(E)) /\ dead' = dead \cup Spent(E)
  BY DEF FailEntries
<1>5. /\ Spent(E) \subseteq E
      /\ \A e \in Spent(E) : attempts[e] >= MaxAttempts
      /\ \A e \in E \ Spent(E) : ~(attempts[e] >= MaxAttempts)
  BY DEF Spent
<1>6. NothingLostOrDoubled'
  <2>1. owed' = pending' \cup EntriesOf(DOMAIN leased)' \cup dead'
    BY <1>2, <1>3, <1>4, <1>5 DEF NothingLostOrDoubled
  <2>2. /\ pending' \cap EntriesOf(DOMAIN leased)' = {}
        /\ pending' \cap dead' = {}
        /\ dead' \cap EntriesOf(DOMAIN leased)' = {}
    BY <1>2, <1>3, <1>4, <1>5 DEF NothingLostOrDoubled
  <2>3. \A k, l \in DOMAIN leased' : leased'[k] = leased'[l] => k = l
    BY <1>3 DEF NothingLostOrDoubled
  <2> QED BY <2>1, <2>2, <2>3 DEF NothingLostOrDoubled
<1>7. RetryBudget'
  <2>1. \A e \in E : attempts[e] \in 1..MaxAttempts
    BY <1>2 DEF RetryBudget
  <2>2. \A e \in pending' : attempts'[e] < MaxAttempts
    BY <1>1, <1>4, <1>5, <2>1, QueueAssumption DEF RetryBudget, TypeOK
  <2>3. \A e \in dead' : attempts'[e] = MaxAttempts
    BY <1>1, <1>4, <1>5, <2>1, QueueAssumption DEF RetryBudget, TypeOK
  <2>4. \A e \in EntriesOf(DOMAIN leased)' : attempts'[e] \in 1..MaxAttempts
    BY <1>2, <1>3 DEF RetryBudget
  <2> QED BY <2>2, <2>3, <2>4 DEF RetryBudget
<1>8. leased' = [l \in K |-> leased[l]]
  BY DEF KeepLeases
<1> QED
  BY <1>1, <1>3, <1>4, <1>5, <1>6, <1>7, <1>8 DEF TypeOK

(* A name that is free stays apart from every lease anybody knows.         *)
LEMMA FreshLeaseIsFresh ==
  ASSUME LeaseIds \ InUse # {}
  PROVE  /\ FreshLease \in LeaseIds
         /\ FreshLease \notin DOMAIN leased
         /\ \A w \in Workers : \A x \in holds[w] : x.id # FreshLease
<1>1. FreshLease \in LeaseIds /\ FreshLease \notin InUse
  BY DEF FreshLease
<1> QED BY <1>1 DEF InUse

(* Dropping leases from the map and from the workers' hands leaves the     *)
(* rest named as before.                                                   *)
LEMMA FewerLeasesStillNamed ==
  ASSUME LeaseNamesItsTask,
         DOMAIN leased' \subseteq DOMAIN leased,
         \A l \in DOMAIN leased' : leased'[l] = leased[l],
         \A w \in Workers : holds'[w] \subseteq holds[w]
  PROVE  LeaseNamesItsTask'
BY DEF LeaseNamesItsTask

-----------------------------------------------------------------------------
LEMMA InitEstablishes == Init => IInv
<1> SUFFICES ASSUME Init PROVE IInv
  OBVIOUS
<1>1. DOMAIN leased = {} /\ EntriesOf(DOMAIN leased) = {}
  BY DEF Init, EntriesOf
<1>2. leased \in [DOMAIN leased -> Entries]
  BY <1>1 DEF Init
<1>3. TypeOK
  BY <1>1, <1>2 DEF Init, TypeOK
<1>4. NothingLostOrDoubled /\ RetryBudget /\ LeaseNamesItsTask
  BY <1>1 DEF Init, NothingLostOrDoubled, RetryBudget, LeaseNamesItsTask
<1> QED BY <1>3, <1>4 DEF IInv

LEMMA EnqueuePreserves ==
  ASSUME IInv, NEW e \in Entries, Enqueue(e)
  PROVE  IInv'
<1> USE DEF IInv
<1>1. TypeOK'
  BY DEF Enqueue, TypeOK
<1>2. EntriesOf(DOMAIN leased)' = EntriesOf(DOMAIN leased)
  BY DEF Enqueue, EntriesOf
<1>3. e \notin pending /\ e \notin dead /\ e \notin EntriesOf(DOMAIN leased)
  BY DEF Enqueue, NothingLostOrDoubled
<1>4. NothingLostOrDoubled'
  BY <1>2, <1>3 DEF Enqueue, NothingLostOrDoubled
<1>5. RetryBudget'
  <2>1. attempts'[e] = 0 /\ \A f \in Entries \ {e} : attempts'[f] = attempts[f]
    BY DEF Enqueue, TypeOK
  <2>2. EntriesOf(DOMAIN leased) \subseteq Entries \ {e}
    BY <1>3 DEF EntriesOf, TypeOK
  <2> QED
    BY <1>2, <1>3, <2>1, <2>2, QueueAssumption DEF Enqueue, RetryBudget, TypeOK
<1>6. LeaseNamesItsTask'
  BY DEF Enqueue, LeaseNamesItsTask
<1> QED BY <1>1, <1>4, <1>5, <1>6

(* Reclaiming is giving up the expired leases. *)
LEMMA ReclaimPreserves ==
  ASSUME IInv, ReclaimExpired, UNCHANGED <<attempts, older, thisMs, holds, owed>>,
         ttl' \in [Entries -> Nat]
  PROVE  IInv'
<1> USE DEF IInv
<1>1. Expired \in SUBSET DOMAIN leased /\ Live = DOMAIN leased \ Expired
  BY DEF Expired, Live
<1>2. FailEntries(EntriesOf(Expired)) /\ KeepLeases(DOMAIN leased \ Expired)
  BY <1>1 DEF ReclaimExpired
<1>3. /\ pending' \subseteq Entries /\ dead' \subseteq Entries
      /\ DOMAIN leased' \subseteq LeaseIds
      /\ leased' \in [DOMAIN leased' -> Entries]
      /\ NothingLostOrDoubled'
      /\ RetryBudget'
  BY <1>1, <1>2, GivingUpLeases
<1>4. TypeOK'
  BY <1>3 DEF TypeOK
<1>5. LeaseNamesItsTask'
  BY <1>1, <1>2, KeptEntries, FewerLeasesStillNamed
<1> QED BY <1>3, <1>4, <1>5

LEMMA NackPreserves ==
  ASSUME IInv, NEW w \in Workers, Nack(w)
  PROVE  IInv'
<1> USE DEF IInv
<1>1. PICK x \in holds[w] :
        LET ended == Expired \cup (Live \cap {x.id}) IN
        /\ FailEntries(EntriesOf(ended))
        /\ KeepLeases(DOMAIN leased \ ended)
        /\ ttl' = [e \in Entries |-> IF e \in EntriesOf(ended) THEN 0 ELSE ttl[e]]
        /\ holds' = [holds EXCEPT ![w] = @ \ {x}]
        /\ UNCHANGED <<attempts, older, thisMs, owed>>
  BY DEF Nack
<1> DEFINE ended == Expired \cup (Live \cap {x.id})
<1>2. ended \in SUBSET DOMAIN leased
  BY DEF Expired, Live
<1>3. /\ pending' \subseteq Entries /\ dead' \subseteq Entries
      /\ DOMAIN leased' \subseteq LeaseIds
      /\ leased' \in [DOMAIN leased' -> Entries]
      /\ NothingLostOrDoubled'
      /\ RetryBudget'
  BY <1>1, <1>2, GivingUpLeases
<1>4. TypeOK'
  BY <1>1, <1>3 DEF TypeOK
<1>5. \A v \in Workers : holds'[v] \subseteq holds[v]
  BY <1>1 DEF TypeOK
<1>6. LeaseNamesItsTask'
  BY <1>1, <1>2, <1>5, KeptEntries, FewerLeasesStillNamed
<1> QED BY <1>3, <1>4, <1>6

LEMMA AckPreserves ==
  ASSUME IInv, NEW w \in Workers, Ack(w)
  PROVE  IInv'
<1> USE DEF IInv
<1>1. PICK x \in holds[w] :
        LET settled == EntriesOf(Live \cap {x.id}) IN
        /\ FailEntries(EntriesOf(Expired))
        /\ KeepLeases(Live \ {x.id})
        /\ ttl' = [e \in Entries |-> IF e \in settled THEN 0 ELSE ttl[e]]
        /\ older' = {p \in older : p[1] \notin settled /\ p[2] \notin settled}
        /\ thisMs' = thisMs \ settled
        /\ owed' = owed \ settled
        /\ attempts' = [e \in Entries |-> IF e \in settled THEN 0 ELSE attempts[e]]
        /\ holds' = [holds EXCEPT ![w] = @ \ {x}]
  BY DEF Ack
<1> DEFINE S == Live \cap {x.id}
           K == Live \ {x.id}
           settled == EntriesOf(S)
           E == EntriesOf(Expired)
<1>2. /\ Expired \subseteq DOMAIN leased
      /\ K \in SUBSET DOMAIN leased /\ S \in SUBSET DOMAIN leased
      /\ DOMAIN leased = K \cup S \cup Expired
      /\ K \cap S = {} /\ K \cap Expired = {} /\ S \cap Expired = {}
  BY DEF Expired, Live
<1>3. /\ EntriesOf(DOMAIN leased) = EntriesOf(K) \cup settled \cup E
      /\ EntriesOf(K) \cap settled = {}
      /\ EntriesOf(K) \cap E = {}
      /\ settled \cap E = {}
  BY <1>2 DEF NothingLostOrDoubled, EntriesOf
<1>4. /\ DOMAIN leased' = K
      /\ \A l \in K : leased'[l] = leased[l]
      /\ EntriesOf(DOMAIN leased)' = EntriesOf(K)
  BY <1>1, <1>2, KeptEntries
<1>5. pending' = pending \cup (E \ Spent(E)) /\ dead' = dead \cup Spent(E)
  BY <1>1 DEF FailEntries
<1>6. /\ Spent(E) \subseteq E
      /\ \A e \in Spent(E) : attempts[e] >= MaxAttempts
      /\ \A e \in E \ Spent(E) : ~(attempts[e] >= MaxAttempts)
  BY DEF Spent
<1>7. EntriesOf(DOMAIN leased) \subseteq Entries
  BY DEF EntriesOf, TypeOK
<1>8. TypeOK'
  <2>1. leased' = [l \in K |-> leased[l]]
    BY <1>1 DEF KeepLeases
  <2>2. /\ DOMAIN leased' \subseteq LeaseIds
        /\ leased' \in [DOMAIN leased' -> Entries]
    BY <1>2, <2>1 DEF TypeOK
  <2>3. pending' \subseteq Entries /\ dead' \subseteq Entries
    BY <1>3, <1>5, <1>6, <1>7 DEF TypeOK
  <2>4. ttl' \in [Entries -> Nat] /\ attempts' \in [Entries -> Nat]
    BY <1>1 DEF TypeOK
  <2>5. holds' \in [Workers -> SUBSET Lease]
    BY <1>1 DEF TypeOK
  <2>6. older' \subseteq Entries \X Entries /\ thisMs' \subseteq Entries
        /\ owed' \subseteq Entries
    BY <1>1 DEF TypeOK
  <2> QED BY <2>2, <2>3, <2>4, <2>5, <2>6 DEF TypeOK
<1>a. /\ owed' = owed \ settled
      /\ \A e \in Entries \ settled : attempts'[e] = attempts[e]
  BY <1>1
<1> HIDE DEF S, K, settled, E
<1>9. NothingLostOrDoubled'
  <2>1. owed' = pending' \cup EntriesOf(DOMAIN leased)' \cup dead'
    <3>1. settled \cap (pending \cup dead) = {}
      BY <1>3 DEF NothingLostOrDoubled
    <3>2. E = (E \ Spent(E)) \cup Spent(E)
      BY <1>6
    <3>3. owed = pending \cup (EntriesOf(K) \cup settled \cup E) \cup dead
      BY <1>3 DEF NothingLostOrDoubled
    <3> QED
      BY <1>a, <1>3, <1>4, <1>5, <3>1, <3>2, <3>3
  <2>2. /\ pending' \cap EntriesOf(DOMAIN leased)' = {}
        /\ pending' \cap dead' = {}
        /\ dead' \cap EntriesOf(DOMAIN leased)' = {}
    BY <1>3, <1>4, <1>5, <1>6 DEF NothingLostOrDoubled
  <2>3. \A k, l \in DOMAIN leased' : leased'[k] = leased'[l] => k = l
    BY <1>2, <1>4 DEF NothingLostOrDoubled
  <2> QED BY <2>1, <2>2, <2>3 DEF NothingLostOrDoubled
<1>10. RetryBudget'
  <2>1. \A e \in Entries \ settled : attempts'[e] = attempts[e]
    BY <1>a
  <2>2. settled \cap (pending \cup dead \cup E \cup EntriesOf(K)) = {}
    BY <1>3 DEF NothingLostOrDoubled
  <2>3. \A e \in E : attempts[e] \in 1..MaxAttempts
    BY <1>3 DEF RetryBudget
  <2>4. \A e \in pending' : attempts'[e] < MaxAttempts
    BY <1>3, <1>5, <1>6, <1>7, <2>1, <2>2, <2>3, QueueAssumption DEF RetryBudget, TypeOK
  <2>5. \A e \in dead' : attempts'[e] = MaxAttempts
    BY <1>3, <1>5, <1>6, <1>7, <2>1, <2>2, <2>3, QueueAssumption DEF RetryBudget, TypeOK
  <2>6. \A e \in EntriesOf(DOMAIN leased)' : attempts'[e] \in 1..MaxAttempts
    BY <1>3, <1>4, <1>7, <2>1, <2>2 DEF RetryBudget
  <2> QED BY <2>4, <2>5, <2>6 DEF RetryBudget
<1>11. LeaseNamesItsTask'
  <2>1. \A v \in Workers : holds'[v] \subseteq holds[v]
    BY <1>1 DEF TypeOK
  <2> QED BY <1>2, <1>4, <2>1, FewerLeasesStillNamed
<1> QED BY <1>8, <1>9, <1>10, <1>11

LEMMA PullPreserves ==
  ASSUME IInv, NEW w \in Workers, Pull(w)
  PROVE  IInv'
<1> USE DEF IInv
<1> DEFINE new == FreshLease
           E == EntriesOf(Expired)
<1>1. PICK e \in PendingReclaimed :
        /\ pending' = PendingReclaimed \ {e}
        /\ leased' = [l \in Live \cup {new} |-> IF l = new THEN e ELSE leased[l]]
        /\ attempts' = [attempts EXCEPT ![e] = @ + 1]
        /\ ttl' = [ttl EXCEPT ![e] = VisibilityTimeout]
        /\ holds' = [holds EXCEPT ![w] = @ \cup {[id |-> new, task |-> e]}]
  BY DEF Pull
<1>2. dead' = dead \cup Spent(E) /\ UNCHANGED <<older, thisMs, owed>>
  BY DEF Pull
<1>3. /\ new \in LeaseIds
      /\ new \notin DOMAIN leased
      /\ \A v \in Workers : \A x \in holds[v] : x.id # new
  BY FreshLeaseIsFresh DEF Pull
<1>4. Expired \in SUBSET DOMAIN leased /\ Live = DOMAIN leased \ Expired
  BY DEF Expired, Live
<1>5. /\ EntriesOf(DOMAIN leased) = E \cup EntriesOf(Live)
      /\ E \cap EntriesOf(Live) = {}
  BY <1>4, EndedAndKeptAreApart
<1>6. /\ Spent(E) \subseteq E
      /\ \A f \in Spent(E) : attempts[f] >= MaxAttempts
      /\ \A f \in E \ Spent(E) : ~(attempts[f] >= MaxAttempts)
  BY DEF Spent
<1>7. PendingReclaimed = pending \cup (E \ Spent(E))
  BY DEF PendingReclaimed
<1>8. EntriesOf(DOMAIN leased) \subseteq Entries /\ e \in Entries
  BY <1>1, <1>5, <1>7 DEF EntriesOf, TypeOK
<1>9. e \notin EntriesOf(Live) /\ e \notin dead'
  BY <1>1, <1>2, <1>5, <1>6, <1>7 DEF NothingLostOrDoubled
<1>10. EntriesOf(DOMAIN leased)' = EntriesOf(Live) \cup {e}
  <2>1. \A l \in Live : leased'[l] = leased[l]
    BY <1>1, <1>3, <1>4
  <2>2. DOMAIN leased' = Live \cup {new} /\ leased'[new] = e
    BY <1>1
  <2> QED BY <2>1, <2>2 DEF EntriesOf
<1>11. TypeOK'
  <2>1. \A l \in Live : leased[l] \in Entries
    BY <1>4 DEF TypeOK
  <2>2. /\ DOMAIN leased' \subseteq LeaseIds
        /\ leased' \in [DOMAIN leased' -> Entries]
    BY <1>1, <1>3, <1>4, <1>8, <2>1 DEF TypeOK
  <2>3. pending' \subseteq Entries /\ dead' \subseteq Entries
    BY <1>1, <1>2, <1>5, <1>6, <1>7, <1>8 DEF TypeOK
  <2>4. ttl' \in [Entries -> Nat] /\ attempts' \in [Entries -> Nat]
    BY <1>1, <1>8, QueueAssumption DEF TypeOK
  <2>5. holds' \in [Workers -> SUBSET Lease]
    BY <1>1, <1>3, <1>8 DEF TypeOK, Lease
  <2> QED BY <1>2, <2>2, <2>3, <2>4, <2>5 DEF TypeOK
<1>12. NothingLostOrDoubled'
  <2>1. owed' = pending' \cup EntriesOf(DOMAIN leased)' \cup dead'
    <3>1. E = (E \ Spent(E)) \cup Spent(E)
      BY <1>6
    <3>2. owed = pending \cup (E \cup EntriesOf(Live)) \cup dead
      BY <1>5 DEF NothingLostOrDoubled
    <3>3. pending' = (pending \cup (E \ Spent(E))) \ {e} /\ e \in pending \cup E
      BY <1>1, <1>6, <1>7
    <3> HIDE DEF E
    <3> QED BY <1>2, <1>9, <1>10, <3>1, <3>2, <3>3
  <2>2. /\ pending' \cap EntriesOf(DOMAIN leased)' = {}
        /\ pending' \cap dead' = {}
        /\ dead' \cap EntriesOf(DOMAIN leased)' = {}
    BY <1>1, <1>2, <1>5, <1>6, <1>7, <1>9, <1>10,
       ZenonT(60) DEF NothingLostOrDoubled
  <2>3. \A k, l \in DOMAIN leased' : leased'[k] = leased'[l] => k = l
    <3>1. \A l \in Live : leased[l] # e
      BY <1>9 DEF EntriesOf
    <3> QED BY <1>1, <1>4, <3>1 DEF NothingLostOrDoubled
  <2> QED BY <2>1, <2>2, <2>3 DEF NothingLostOrDoubled
<1>13. RetryBudget'
  <2>1. attempts'[e] = attempts[e] + 1
        /\ \A f \in Entries \ {e} : attempts'[f] = attempts[f]
    BY <1>1, <1>8 DEF TypeOK
  <2>2. \A f \in PendingReclaimed : attempts[f] \in Nat /\ attempts[f] < MaxAttempts
    BY <1>5, <1>6, <1>7, <1>8, QueueAssumption DEF RetryBudget, TypeOK
  <2>3. \A f \in pending' : attempts'[f] < MaxAttempts
    BY <1>1, <1>5, <1>7, <1>8, <2>1, <2>2 DEF TypeOK
  <2>4. attempts'[e] \in 1..MaxAttempts
    BY <1>1, <2>1, <2>2, QueueAssumption
  <2>5. \A f \in EntriesOf(DOMAIN leased)' : attempts'[f] \in 1..MaxAttempts
    BY <1>5, <1>8, <1>9, <1>10, <2>1, <2>4 DEF RetryBudget
  <2>6. \A f \in dead' : attempts'[f] = MaxAttempts
    <3>1. \A f \in dead' : f \in Entries \ {e}
      BY <1>2, <1>5, <1>6, <1>8, <1>9 DEF TypeOK
    <3>2. \A f \in Spent(E) : attempts[f] = MaxAttempts
      BY <1>5, <1>6, <1>8, QueueAssumption DEF RetryBudget, TypeOK
    <3> QED BY <1>2, <2>1, <3>1, <3>2 DEF RetryBudget
  <2> QED BY <2>3, <2>5, <2>6 DEF RetryBudget
<1>14. LeaseNamesItsTask'
  <2> DEFINE mine == [id |-> new, task |-> e]
  <2>1. \A v \in Workers : holds'[v] = IF v = w THEN holds[v] \cup {mine} ELSE holds[v]
    BY <1>1 DEF TypeOK
  <2>2. \A v \in Workers : \A x \in holds'[v] :
          x.id \in DOMAIN leased' => leased'[x.id] = x.task
    BY <1>1, <1>3, <1>4, <2>1 DEF LeaseNamesItsTask
  <2>3. \A u, v \in Workers : \A x \in holds'[u], y \in holds'[v] :
          x.id = y.id => u = v /\ x = y
    <3>1. mine.id = new
      OBVIOUS
    <3>2. \A v \in Workers : \A z \in holds'[v] :
            z \in holds[v] \/ (v = w /\ z = mine)
      BY <2>1
    <3> HIDE DEF mine, new
    <3>3. SUFFICES ASSUME NEW u \in Workers, NEW v \in Workers,
                          NEW x \in holds'[u], NEW y \in holds'[v], x.id = y.id
                   PROVE  u = v /\ x = y
      OBVIOUS
    <3>4. CASE x \in holds[u] /\ y \in holds[v]
      BY <3>3, <3>4 DEF LeaseNamesItsTask
    <3>5. CASE x \in holds[u] /\ v = w /\ y = mine
      BY <1>3, <3>1, <3>3, <3>5
    <3>6. CASE u = w /\ x = mine /\ y \in holds[v]
      BY <1>3, <3>1, <3>3, <3>6
    <3>7. CASE u = w /\ x = mine /\ v = w /\ y = mine
      BY <3>7
    <3> QED BY <3>2, <3>4, <3>5, <3>6, <3>7
  <2> QED BY <2>2, <2>3 DEF LeaseNamesItsTask
<1> QED BY <1>11, <1>12, <1>13, <1>14

LEMMA QuietPreserves ==
  ASSUME IInv, Tick \/ \E w \in Workers : Crash(w)
  PROVE  IInv'
<1> USE DEF IInv
<1>1. /\ UNCHANGED <<pending, leased, dead, attempts, owed>>
      /\ \A v \in Workers : holds'[v] \subseteq holds[v]
  BY DEF Tick, Crash, TypeOK
<1>2. TypeOK'
  <2>1. CASE Tick
    BY <2>1 DEF Tick, TypeOK
  <2>2. ASSUME NEW w \in Workers, Crash(w) PROVE TypeOK'
    BY <2>2 DEF Crash, TypeOK
  <2> QED BY <2>1, <2>2
<1>3. EntriesOf(DOMAIN leased)' = EntriesOf(DOMAIN leased)
  BY <1>1 DEF EntriesOf
<1>4. NothingLostOrDoubled' /\ RetryBudget'
  BY <1>1, <1>3 DEF NothingLostOrDoubled, RetryBudget
<1>5. LeaseNamesItsTask'
  BY <1>1, FewerLeasesStillNamed
<1> QED BY <1>2, <1>4, <1>5

LEMMA NextPreserves == IInv /\ [Next]_vars => IInv'
<1> SUFFICES ASSUME IInv, [Next]_vars PROVE IInv'
  OBVIOUS
<1>1. ASSUME NEW e \in Entries, Enqueue(e) PROVE IInv'
  BY <1>1, EnqueuePreserves
<1>2. ASSUME NEW w \in Workers, Pull(w) PROVE IInv'
  BY <1>2, PullPreserves
<1>3. ASSUME NEW w \in Workers, PullNothing(w) PROVE IInv'
  BY <1>3, ReclaimPreserves DEF PullNothing, IInv, TypeOK
<1>4. ASSUME NEW w \in Workers, Ack(w) PROVE IInv'
  BY <1>4, AckPreserves
<1>5. ASSUME NEW w \in Workers, Nack(w) PROVE IInv'
  BY <1>5, NackPreserves
<1>6. ASSUME NEW w \in Workers, Heartbeat(w) PROVE IInv'
  <2>1. ReclaimExpired /\ UNCHANGED <<attempts, older, thisMs, holds, owed>>
    BY <1>6 DEF Heartbeat
  <2>2. ttl' \in [Entries -> Nat]
    BY <1>6, QueueAssumption DEF Heartbeat, IInv, TypeOK
  <2> QED BY <2>1, <2>2, ReclaimPreserves
<1>7. CASE Inspect
  BY <1>7, ReclaimPreserves DEF Inspect, IInv, TypeOK
<1>8. CASE Tick \/ \E w \in Workers : Crash(w)
  BY <1>8, QuietPreserves
<1>9. CASE UNCHANGED vars
  <2>1. EntriesOf(DOMAIN leased)' = EntriesOf(DOMAIN leased)
    BY <1>9 DEF vars, EntriesOf
  <2> QED
    BY <1>9, <2>1 DEF vars, IInv, TypeOK, NothingLostOrDoubled, RetryBudget,
                      LeaseNamesItsTask
<1> QED
  BY <1>1, <1>2, <1>3, <1>4, <1>5, <1>6, <1>7, <1>8, <1>9 DEF Next

(* The conjunction of the invariants holds in every reachable state.       *)
THEOREM Invariance == Spec => []IInv
<1>1. Init => IInv
  BY InitEstablishes
<1>2. IInv /\ [Next]_vars => IInv'
  BY NextPreserves
<1> QED BY <1>1, <1>2, PTL DEF Spec

-----------------------------------------------------------------------------
(* The queue's fields and the workers' leases keep their types.            *)
THEOREM TypeCorrect == Spec => []TypeOK
<1>1. IInv => TypeOK
  BY DEF IInv
<1> QED BY <1>1, Invariance, PTL

(* At-least-once: an accepted task is in exactly one place until its ack.  *)
THEOREM AtLeastOnceDelivery == Spec => []NothingLostOrDoubled
<1>1. IInv => NothingLostOrDoubled
  BY DEF IInv
<1> QED BY <1>1, Invariance, PTL

(* No task is delivered more often than maxAttempts, and one that is dead- *)
(* lettered was delivered exactly that often.                              *)
THEOREM BoundedRetry == Spec => []RetryBudget
<1>1. IInv => RetryBudget
  BY DEF IInv
<1> QED BY <1>1, Invariance, PTL

(* A lease a worker still holds never names another worker's task.         *)
THEOREM LeasesAreNotConfused == Spec => []LeaseNamesItsTask
<1>1. IInv => LeaseNamesItsTask
  BY DEF IInv
<1> QED BY <1>1, Invariance, PTL

-----------------------------------------------------------------------------
(* No step but the holder's own answer ends a lease that has time left.    *)
THEOREM LiveLeasesAreSafe == Spec => OnlyHolderEndsLiveLease
<1> DEFINE Safe == \A l \in DOMAIN leased :
              ttl[leased[l]] > 0 /\ l \notin DOMAIN leased' =>
                \E w \in Workers : \E x \in holds[w] : x.id = l /\ x \notin holds'[w]
<1>1. IInv /\ [Next]_vars => [Safe]_vars
  <2> SUFFICES ASSUME IInv, Next PROVE Safe
    OBVIOUS
  <2>1. Live \subseteq DOMAIN leased /\ Live \cap Expired = {}
    BY DEF Live
  <2>0. \A l \in DOMAIN leased : ttl[leased[l]] > 0 => l \in Live
    BY DEF Live, Expired
  <2>2. ASSUME NEW w \in Workers, NEW x \in holds[w],
               holds' = [holds EXCEPT ![w] = @ \ {x}],
               Live \ {x.id} \subseteq DOMAIN leased'
        PROVE  Safe
    BY <2>0, <2>2 DEF IInv, TypeOK
  <2>3. ASSUME NEW w \in Workers, Ack(w) PROVE Safe
    <3>1. PICK x \in holds[w] :
            /\ KeepLeases(Live \ {x.id})
            /\ holds' = [holds EXCEPT ![w] = @ \ {x}]
      BY <2>3 DEF Ack
    <3> QED BY <2>2, <3>1 DEF KeepLeases
  <2>4. ASSUME NEW w \in Workers, Nack(w) PROVE Safe
    <3>1. PICK x \in holds[w] :
            /\ KeepLeases(DOMAIN leased \ (Expired \cup (Live \cap {x.id})))
            /\ holds' = [holds EXCEPT ![w] = @ \ {x}]
      BY <2>4 DEF Nack
    <3> QED BY <2>1, <2>2, <3>1 DEF KeepLeases
  <2>5. ASSUME Live \subseteq DOMAIN leased' PROVE Safe
    BY <2>0, <2>5
  <2>6. ASSUME NEW w \in Workers,
               Pull(w) \/ PullNothing(w) \/ Heartbeat(w) \/ Crash(w)
        PROVE  Safe
    <3>1. Live \subseteq DOMAIN leased'
      BY <2>1, <2>6 DEF Pull, PullNothing, Heartbeat, Crash, ReclaimExpired, KeepLeases
    <3> QED BY <2>5, <3>1
  <2>7. CASE Inspect \/ Tick \/ \E e \in Entries : Enqueue(e)
    <3>1. Live \subseteq DOMAIN leased'
      BY <2>1, <2>7 DEF Inspect, Tick, Enqueue, ReclaimExpired, KeepLeases
    <3> QED BY <2>5, <3>1
  <2> QED
    BY <2>3, <2>4, <2>6, <2>7 DEF Next
<1> QED BY <1>1, Invariance, PTL DEF Spec, OnlyHolderEndsLiveLease

-----------------------------------------------------------------------------
(* The queue implements AtLeastOnce.  Where an entry is in its life can be *)
(* read off any one of the three places, since it is in at most one.       *)
LEMMA Stages ==
  NothingLostOrDoubled =>
    \A e \in Entries :
      /\ Life[e] = "waiting" <=> e \in pending
      /\ Life[e] = "working" <=> e \in EntriesOf(DOMAIN leased)
      /\ Life[e] = "dead" <=> e \in dead
      /\ Life[e] = "absent" <=> e \notin owed
BY DEF Life, NothingLostOrDoubled

(* What becomes of entries when those of E are given up and nothing else   *)
(* happens to them: they go back, are buried or rest where they were.      *)
LEMMA GivenUpEntriesMove ==
  ASSUME IInv, IInv',
         NEW E \in SUBSET EntriesOf(DOMAIN leased), NEW S,
         \A e \in Entries \ S :
           /\ e \in pending' <=> e \in pending \/ e \in E \ Spent(E)
           /\ e \in dead' <=> e \in dead \/ e \in Spent(E)
           /\ e \in EntriesOf(DOMAIN leased)' <=> e \in EntriesOf(DOMAIN leased) \ E
           /\ attempts'[e] = attempts[e]
  PROVE  \A e \in Entries \ S :
           /\ Promise!GiveBack(e) \/ Promise!Bury(e) \/ Promise!Rest(e)
           /\ ~Promise!Accept(e) /\ ~Promise!Deliver(e) /\ ~Promise!Finish(e)
<1> SUFFICES ASSUME NEW e \in Entries \ S
             PROVE  /\ Promise!GiveBack(e) \/ Promise!Bury(e) \/ Promise!Rest(e)
                    /\ ~Promise!Accept(e) /\ ~Promise!Deliver(e) /\ ~Promise!Finish(e)
  OBVIOUS
<1>1. /\ Life[e] = "waiting" <=> e \in pending
      /\ Life[e] = "working" <=> e \in EntriesOf(DOMAIN leased)
      /\ Life[e] = "dead" <=> e \in dead
      /\ Life[e] = "absent" <=> e \notin owed
  BY Stages DEF IInv
<1>2. /\ Life'[e] = "waiting" <=> e \in pending'
      /\ Life'[e] = "working" <=> e \in EntriesOf(DOMAIN leased)'
      /\ Life'[e] = "dead" <=> e \in dead'
      /\ Life'[e] = "absent" <=> e \notin owed'
  BY DEF Life, NothingLostOrDoubled, IInv
<1>3. /\ owed = pending \cup EntriesOf(DOMAIN leased) \cup dead
      /\ owed' = pending' \cup EntriesOf(DOMAIN leased)' \cup dead'
  BY DEF IInv, NothingLostOrDoubled
<1>4. attempts[e] \in Nat /\ attempts'[e] = attempts[e]
  BY DEF IInv, TypeOK
<1>5. Promise!GiveBack(e) \/ Promise!Bury(e) \/ Promise!Rest(e)
  <2>1. CASE e \in E \ Spent(E)
    <3>1. attempts[e] < MaxAttempts
      BY <1>4, <2>1, QueueAssumption DEF Spent
    <3> QED BY <1>1, <1>2, <1>4, <2>1, <3>1 DEF Promise!GiveBack
  <2>2. CASE e \in Spent(E)
    <3>1. e \in E /\ attempts[e] = MaxAttempts
      BY <1>4, <2>2, QueueAssumption DEF Spent, IInv, RetryBudget
    <3> QED BY <1>1, <1>2, <1>4, <2>2, <3>1 DEF Promise!Bury
  <2>3. CASE e \notin E
    <3>1. e \notin Spent(E)
      BY <2>3 DEF Spent
    <3>2. Life'[e] = Life[e]
      BY <1>1, <1>2, <1>3, <2>3, <3>1
    <3> QED BY <1>4, <3>2 DEF Promise!Rest
  <2> QED BY <2>1, <2>2, <2>3
<1>6. ~Promise!Deliver(e)
  BY <1>4 DEF Promise!Deliver
<1>7. ~Promise!Accept(e)
  BY <1>1, <1>2, <1>3 DEF Promise!Accept
<1>8. ~Promise!Finish(e)
  BY <1>1, <1>2, <1>3 DEF Promise!Finish, Spent
<1> QED BY <1>5, <1>6, <1>7, <1>8

(* One entry may be accepted, delivered or finished while the others move  *)
(* as above; that is a step of AtLeastOnce.                                *)
LEMMA AtMostOneAdvances ==
  ASSUME IInv, IInv',
         NEW E \in SUBSET EntriesOf(DOMAIN leased), NEW S \in SUBSET Entries,
         \A e, f \in S : e = f,
         \A e \in S : Promise!Accept(e) \/ Promise!Deliver(e) \/ Promise!Finish(e),
         \A e \in Entries \ S :
           /\ e \in pending' <=> e \in pending \/ e \in E \ Spent(E)
           /\ e \in dead' <=> e \in dead \/ e \in Spent(E)
           /\ e \in EntriesOf(DOMAIN leased)' <=> e \in EntriesOf(DOMAIN leased) \ E
           /\ attempts'[e] = attempts[e]
  PROVE  Promise!Next
<1>1. \A e \in Entries \ S :
        /\ Promise!GiveBack(e) \/ Promise!Bury(e) \/ Promise!Rest(e)
        /\ ~Promise!Accept(e) /\ ~Promise!Deliver(e) /\ ~Promise!Finish(e)
  BY GivenUpEntriesMove
<1>2. DOMAIN Life' = Entries /\ DOMAIN attempts' = Entries
  BY DEF Life, IInv, TypeOK
<1>3. \A e \in Entries :
        \/ Promise!Accept(e) \/ Promise!Deliver(e) \/ Promise!Finish(e)
        \/ Promise!GiveBack(e) \/ Promise!Bury(e) \/ Promise!Rest(e)
  BY <1>1
<1>4. \A e, f \in Entries :
        /\ Promise!Accept(e) \/ Promise!Deliver(e) \/ Promise!Finish(e)
        /\ Promise!Accept(f) \/ Promise!Deliver(f) \/ Promise!Finish(f)
        => e = f
  BY <1>1
<1> QED BY <1>2, <1>3, <1>4 DEF Promise!Next

(* Ending the leases of L, and nothing else, is a step of AtLeastOnce.     *)
LEMMA GivingUpIsAStep ==
  ASSUME IInv, IInv', NEW L \in SUBSET DOMAIN leased,
         FailEntries(EntriesOf(L)), KeepLeases(DOMAIN leased \ L), UNCHANGED attempts
  PROVE  Promise!Next
<1> DEFINE E == EntriesOf(L)
<1>1. /\ E \cap EntriesOf(DOMAIN leased \ L) = {}
      /\ E \cup EntriesOf(DOMAIN leased \ L) = EntriesOf(DOMAIN leased)
  BY EndedAndKeptAreApart DEF IInv
<1>2. EntriesOf(DOMAIN leased)' = EntriesOf(DOMAIN leased) \ E
  BY <1>1, KeptEntries
<1>3. pending' = pending \cup (E \ Spent(E)) /\ dead' = dead \cup Spent(E)
  BY DEF FailEntries
<1>4. E \in SUBSET EntriesOf(DOMAIN leased)
  BY <1>1
<1> HIDE DEF E
<1> QED BY <1>2, <1>3, <1>4, AtMostOneAdvances, {} \in SUBSET Entries

LEMMA ReclaimIsAStep ==
  ASSUME IInv, IInv', ReclaimExpired, UNCHANGED attempts
  PROVE  Promise!Next
<1>1. Expired \in SUBSET DOMAIN leased /\ Live = DOMAIN leased \ Expired
  BY DEF Expired, Live
<1> QED BY <1>1, GivingUpIsAStep DEF ReclaimExpired

LEMMA NackIsAStep ==
  ASSUME IInv, IInv', NEW w \in Workers, Nack(w)
  PROVE  Promise!Next
<1>1. PICK x \in holds[w] :
        LET ended == Expired \cup (Live \cap {x.id}) IN
        /\ FailEntries(EntriesOf(ended))
        /\ KeepLeases(DOMAIN leased \ ended)
        /\ UNCHANGED attempts
  BY DEF Nack
<1>2. Expired \cup (Live \cap {x.id}) \in SUBSET DOMAIN leased
  BY DEF Expired, Live
<1> QED BY <1>1, <1>2, GivingUpIsAStep

LEMMA EnqueueIsAStep ==
  ASSUME IInv, IInv', NEW e \in Entries, Enqueue(e)
  PROVE  Promise!Next
<1>1. EntriesOf(DOMAIN leased)' = EntriesOf(DOMAIN leased)
  BY DEF Enqueue, EntriesOf
<1>2. pending' = pending \cup {e} /\ dead' = dead /\ e \notin owed
  BY DEF Enqueue
<1>3. Life[e] = "absent" /\ Life'[e] = "waiting"
  BY <1>2, Stages DEF Life, IInv
<1>4. attempts'[e] = 0 /\ \A f \in Entries \ {e} : attempts'[f] = attempts[f]
  BY DEF Enqueue, IInv, TypeOK
<1>5. Promise!Accept(e)
  BY <1>3, <1>4 DEF Promise!Accept
<1> DEFINE S == {e}
           E == {}
<1>6. \A f \in Entries \ S :
        /\ f \in pending' <=> f \in pending \/ f \in E \ Spent(E)
        /\ f \in dead' <=> f \in dead \/ f \in Spent(E)
        /\ f \in EntriesOf(DOMAIN leased)' <=> f \in EntriesOf(DOMAIN leased) \ E
        /\ attempts'[f] = attempts[f]
  BY <1>1, <1>2, <1>4 DEF Spent
<1>7. S \in SUBSET Entries /\ (\A f, g \in S : f = g) /\ \A f \in S : Promise!Accept(f)
  BY <1>5
<1>8. E \in SUBSET EntriesOf(DOMAIN leased)
  OBVIOUS
<1> HIDE DEF S, E
<1> QED BY <1>6, <1>7, <1>8, AtMostOneAdvances

LEMMA AckIsAStep ==
  ASSUME IInv, IInv', NEW w \in Workers, Ack(w)
  PROVE  Promise!Next
<1>1. PICK x \in holds[w] :
        LET settled == EntriesOf(Live \cap {x.id}) IN
        /\ FailEntries(EntriesOf(Expired))
        /\ KeepLeases(Live \ {x.id})
        /\ owed' = owed \ settled
        /\ attempts' = [e \in Entries |-> IF e \in settled THEN 0 ELSE attempts[e]]
  BY DEF Ack
<1> DEFINE A == Live \cap {x.id}
           K == Live \ {x.id}
           S == EntriesOf(A)
           E == EntriesOf(Expired)
<1>2. /\ Expired \subseteq DOMAIN leased
      /\ K \in SUBSET DOMAIN leased /\ A \in SUBSET DOMAIN leased
      /\ DOMAIN leased = K \cup A \cup Expired
      /\ K \cap A = {} /\ K \cap Expired = {} /\ A \cap Expired = {}
  BY DEF Expired, Live
<1>3. /\ EntriesOf(DOMAIN leased) = EntriesOf(K) \cup S \cup E
      /\ EntriesOf(K) \cap S = {} /\ EntriesOf(K) \cap E = {} /\ S \cap E = {}
  BY <1>2 DEF IInv, NothingLostOrDoubled, EntriesOf
<1>4. EntriesOf(DOMAIN leased)' = EntriesOf(K)
  BY <1>1, <1>2, KeptEntries
<1>5. pending' = pending \cup (E \ Spent(E)) /\ dead' = dead \cup Spent(E)
  BY <1>1 DEF FailEntries
<1>6. \A e, f \in S : e = f
  BY DEF EntriesOf
<1>7. S \in SUBSET Entries
  BY <1>2 DEF EntriesOf, IInv, TypeOK
<1>8. /\ \A e \in S : attempts'[e] = 0
      /\ \A e \in Entries \ S : attempts'[e] = attempts[e]
      /\ owed' = owed \ S
  BY <1>1, <1>7
<1> HIDE DEF A, K, S, E
<1>9. \A e \in S : Promise!Finish(e)
  <2> SUFFICES ASSUME NEW e \in S PROVE Promise!Finish(e)
    OBVIOUS
  <2>1. Life[e] = "working"
    BY <1>3, <1>7, Stages DEF IInv
  <2>2. Life'[e] = "absent"
    BY <1>7, <1>8 DEF Life, IInv, NothingLostOrDoubled
  <2> QED BY <1>8, <2>1, <2>2 DEF Promise!Finish
<1>10. \A e \in Entries \ S :
         /\ e \in pending' <=> e \in pending \/ e \in E \ Spent(E)
         /\ e \in dead' <=> e \in dead \/ e \in Spent(E)
         /\ e \in EntriesOf(DOMAIN leased)' <=> e \in EntriesOf(DOMAIN leased) \ E
         /\ attempts'[e] = attempts[e]
  BY <1>3, <1>4, <1>5, <1>8
<1> QED BY <1>3, <1>6, <1>7, <1>9, <1>10, AtMostOneAdvances

LEMMA PullIsAStep ==
  ASSUME IInv, IInv', NEW w \in Workers, Pull(w)
  PROVE  Promise!Next
<1> DEFINE E == EntriesOf(Expired)
           new == FreshLease
<1>1. PICK e \in PendingReclaimed :
        /\ pending' = PendingReclaimed \ {e}
        /\ leased' = [l \in Live \cup {new} |-> IF l = new THEN e ELSE leased[l]]
        /\ attempts' = [attempts EXCEPT ![e] = @ + 1]
  BY DEF Pull
<1>2. dead' = dead \cup Spent(E) /\ PendingReclaimed = pending \cup (E \ Spent(E))
  BY DEF Pull, PendingReclaimed
<1>3. new \notin DOMAIN leased
  BY FreshLeaseIsFresh DEF Pull
<1>4. Expired \in SUBSET DOMAIN leased /\ Live = DOMAIN leased \ Expired
  BY DEF Expired, Live
<1>5. /\ EntriesOf(DOMAIN leased) = E \cup EntriesOf(Live)
      /\ E \cap EntriesOf(Live) = {}
      /\ EntriesOf(DOMAIN leased) \subseteq Entries
  <2>1. EntriesOf(DOMAIN leased) \subseteq Entries
    BY DEF IInv, EntriesOf, TypeOK
  <2> QED BY <1>4, <2>1, EndedAndKeptAreApart DEF IInv
<1>6. EntriesOf(DOMAIN leased)' = EntriesOf(Live) \cup {e}
  <2>1. /\ DOMAIN leased' = Live \cup {new} /\ leased'[new] = e
        /\ \A l \in Live : leased'[l] = leased[l]
    BY <1>1, <1>3, <1>4
  <2> QED BY <2>1 DEF EntriesOf
<1>7. e \in Entries /\ e \in pending \cup (E \ Spent(E))
  <2>1. pending \subseteq Entries /\ E \subseteq Entries
    BY <1>5 DEF IInv, TypeOK
  <2> QED BY <1>1, <1>2, <2>1
<1>8. /\ attempts'[e] = attempts[e] + 1 /\ attempts[e] \in Nat
      /\ \A f \in Entries \ {e} : attempts'[f] = attempts[f]
  BY <1>1, <1>7 DEF IInv, TypeOK
<1>9. attempts[e] < MaxAttempts
  BY <1>7, <1>8, QueueAssumption DEF IInv, RetryBudget, Spent
<1> HIDE DEF E, new
<1>10. Life[e] \in {"waiting", "working"} /\ Life'[e] = "working"
  <2>1. Life[e] = "waiting" \/ Life[e] = "working"
    BY <1>5, <1>7, Stages DEF IInv
  <2>2. e \in EntriesOf(DOMAIN leased)'
    BY <1>6
  <2>3. e \notin pending' /\ e \notin dead'
    BY <2>2 DEF IInv, NothingLostOrDoubled
  <2> QED BY <1>7, <2>1, <2>2, <2>3 DEF Life
<1>11. Promise!Deliver(e)
  BY <1>8, <1>9, <1>10 DEF Promise!Deliver
<1> DEFINE S == {e}
<1>12. \A f \in Entries \ S :
         /\ f \in pending' <=> f \in pending \/ f \in E \ Spent(E)
         /\ f \in dead' <=> f \in dead \/ f \in Spent(E)
         /\ f \in EntriesOf(DOMAIN leased)' <=> f \in EntriesOf(DOMAIN leased) \ E
         /\ attempts'[f] = attempts[f]
  BY <1>1, <1>2, <1>5, <1>6, <1>8
<1>13. S \in SUBSET Entries /\ (\A f, g \in S : f = g) /\ \A f \in S : Promise!Deliver(f)
  BY <1>7, <1>11
<1>14. E \in SUBSET EntriesOf(DOMAIN leased)
  BY <1>5
<1> HIDE DEF S
<1> QED BY <1>12, <1>13, <1>14, AtMostOneAdvances

(* The queue implements the promise of AtLeastOnce: its steps are the      *)
(* promise's steps, or change neither an entry's life nor its tries.       *)
THEOREM ImplementsAtLeastOnce == Spec => KeepsPromise
<1>1. Init => Promise!Init
  <2> SUFFICES ASSUME Init PROVE Promise!Init
    OBVIOUS
  <2>1. pending = {} /\ dead = {} /\ EntriesOf(DOMAIN leased) = {}
    BY DEF Init, EntriesOf
  <2>2. Life = [e \in Entries |-> "absent"]
    BY <2>1 DEF Life
  <2>3. attempts \in [Entries -> {0}]
    BY DEF Init
  <2> QED BY <2>2, <2>3 DEF Promise!Init
<1>2. IInv /\ IInv' /\ [Next]_vars => [Promise!Next]_(Promise!vars)
  <2> SUFFICES ASSUME IInv, IInv', [Next]_vars PROVE [Promise!Next]_(Promise!vars)
    OBVIOUS
  <2>1. ASSUME NEW e \in Entries, Enqueue(e) PROVE Promise!Next
    BY <2>1, EnqueueIsAStep
  <2>2. ASSUME NEW w \in Workers, Pull(w) PROVE Promise!Next
    BY <2>2, PullIsAStep
  <2>3. ASSUME NEW w \in Workers, Ack(w) PROVE Promise!Next
    BY <2>3, AckIsAStep
  <2>4. ASSUME NEW w \in Workers, Nack(w) PROVE Promise!Next
    BY <2>4, NackIsAStep
  <2>5. ASSUME Inspect \/ \E w \in Workers : PullNothing(w) \/ Heartbeat(w)
        PROVE  Promise!Next
    <3>1. ReclaimExpired /\ UNCHANGED attempts
      BY <2>5 DEF Inspect, PullNothing, Heartbeat
    <3> QED BY <3>1, ReclaimIsAStep
  <2>6. ASSUME Tick \/ (\E w \in Workers : Crash(w)) \/ UNCHANGED vars
        PROVE  UNCHANGED Promise!vars
    <3>1. UNCHANGED <<pending, leased, dead, attempts>>
      BY <2>6 DEF Tick, Crash, vars
    <3>2. EntriesOf(DOMAIN leased)' = EntriesOf(DOMAIN leased)
      BY <3>1 DEF EntriesOf
    <3> QED BY <3>1, <3>2 DEF Promise!vars, Life
  <2> QED BY <2>1, <2>2, <2>3, <2>4, <2>5, <2>6 DEF Next
<1> QED BY <1>1, <1>2, Invariance, PTL DEF Spec, KeepsPromise, Promise!Spec

=============================================================================
