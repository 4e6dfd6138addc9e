--------------------------- MODULE ServicesProofs ---------------------------
(***************************************************************************)
(* What the services keep, for any values of their constants: first each   *)
(* component by its own specification, then the services, of which every   *)
(* component's specification is a part.                                    *)
(***************************************************************************)
EXTENDS IdentityProofs, FiniteSums

-----------------------------------------------------------------------------
(***************************************************************************)
(* The mailbox's triage, for any messages, workers and lease.              *)
(*                                                                         *)
(* A message nobody claimed again after its lease is in the hands of the   *)
(* one worker whose claim dated it, and its lease outlives that worker.    *)
(***************************************************************************)

LEMMA TriageConstants ==
  /\ Triage!Nobody \notin Messages /\ IsFiniteSet(Triagers)
  /\ ReclaimAfter \in Nat /\ WorkTime \in 1..ReclaimAfter
BY ServicesAssumption, Triage!IsFiniteSet(Triagers) <=> IsFiniteSet(Triagers)
   DEF Triage!TriageAssumption, Triage!IsFiniteSet, IsFiniteSet

LEMMA TriageCardinality == \A S : Triage!Cardinality(S) = Cardinality(S)
BY DEF Triage!Cardinality, Cardinality, Triage!IsFiniteSet, IsFiniteSet

LEMMA AtIsFinite ==
  \A m : /\ IsFiniteSet(Triage!At(m)) /\ Cardinality(Triage!At(m)) \in Nat
         /\ Cardinality(Triage!At(m)) <= Cardinality(Triagers)
         /\ Cardinality(Triagers) \in Nat
<1> TAKE m
<1>1. Triage!At(m) \subseteq Triagers
  BY DEF Triage!At
<1> QED BY <1>1, TriageConstants, FS_Subset, FS_CardinalityType

TriageTypes ==
  /\ status \in [Messages -> {"unsent", "unread", "read", "reading", "triaged"}]
  /\ readFor \in [Messages -> Triage!Never..(ReclaimAfter + 1)]
  /\ reply \in [Messages -> Triage!HalOutcomes \cup {Triage!Nobody}]
  /\ task \in [Triagers -> Messages \cup {Triage!Nobody}]
  /\ working \in [Triagers -> 0..WorkTime]
  /\ keptOld \subseteq Messages
  /\ replies \in [Messages -> Nat]

(* Until the first reply a message has had none, and those who may still   *)
(* reply are the workers at it.                                            *)
RepliesAreOwed ==
  \A m \in Messages :
    /\ reply[m] = Triage!Nobody => replies[m] = 0
    /\ replies[m] + Cardinality(Triage!At(m)) <= Cardinality(Triagers)

(* The date of a message with an only claim is that claim's.               *)
LeaseIsTheirs ==
  \A m \in Messages \ keptOld : \A w \in Triagers :
    task[w] = m => /\ status[m] = "reading" /\ reply[m] = Triage!Nobody
                   /\ readFor[m] = working[w]
                   /\ \A v \in Triagers : task[v] = m => v = w

ClaimedIsDated ==
  \A m \in Messages \ keptOld :
    /\ replies[m] <= 1
    /\ replies[m] = 1 => reply[m] # Triage!Nobody

TriageIInv == TriageTypes /\ RepliesAreOwed /\ LeaseIsTheirs /\ ClaimedIsDated

LEMMA TriageIInvTypes == TriageIInv => Triage!TypeOK
<1> SUFFICES ASSUME TriageIInv PROVE Triage!TypeOK
  OBVIOUS
<1>1. ASSUME NEW m \in Messages PROVE replies[m] \in 0..Cardinality(Triagers)
  <2>1. /\ Cardinality(Triage!At(m)) \in Nat /\ Cardinality(Triagers) \in Nat
        /\ Cardinality(Triage!At(m)) <= Cardinality(Triagers)
    BY AtIsFinite
  <2>2. replies[m] \in Nat /\ replies[m] + Cardinality(Triage!At(m)) <= Cardinality(Triagers)
    BY DEF TriageIInv, TriageTypes, RepliesAreOwed
  <2> QED BY <2>1, <2>2
<1>2. replies \in [Messages -> 0..Triage!Cardinality(Triagers)]
  BY <1>1, TriageCardinality DEF TriageIInv, TriageTypes
<1> QED BY <1>2 DEF TriageIInv, TriageTypes, Triage!TypeOK

LEMMA TriageInitEstablishes == Triage!Init => TriageIInv
<1> SUFFICES ASSUME Triage!Init PROVE TriageIInv
  OBVIOUS
<1>1. TriageTypes
  BY TriageConstants DEF Triage!Init, TriageTypes, Triage!Never
<1>2. ASSUME NEW m \in Messages
      PROVE  /\ reply[m] = Triage!Nobody => replies[m] = 0
             /\ replies[m] + Cardinality(Triage!At(m)) <= Cardinality(Triagers)
  <2>1. /\ Cardinality(Triage!At(m)) \in Nat /\ Cardinality(Triagers) \in Nat
        /\ Cardinality(Triage!At(m)) <= Cardinality(Triagers)
    BY AtIsFinite
  <2>2. replies[m] = 0
    BY DEF Triage!Init
  <2> QED BY <2>1, <2>2
<1>3. LeaseIsTheirs /\ ClaimedIsDated
  BY TriageConstants DEF Triage!Init, LeaseIsTheirs, ClaimedIsDated
<1>4. RepliesAreOwed
  BY <1>2 DEF RepliesAreOwed
<1> QED BY <1>1, <1>3, <1>4 DEF TriageIInv

-----------------------------------------------------------------------------
LEMMA SendPreserves == ASSUME TriageIInv, NEW m \in Messages, Triage!Send(m) PROVE TriageIInv'
<1> USE DEF TriageIInv
<1>1. PICK s \in {"unread", "read"} : status' = [status EXCEPT ![m] = s]
  BY DEF Triage!Send
<1>2. UNCHANGED <<readFor, reply, task, working, keptOld, replies>> /\ status[m] = "unsent"
  BY DEF Triage!Send
<1>3. TriageTypes'
  BY <1>1, <1>2 DEF TriageTypes
<1>4. RepliesAreOwed'
  BY <1>2 DEF RepliesAreOwed, Triage!At
<1>5. LeaseIsTheirs' /\ ClaimedIsDated'
  BY <1>1, <1>2 DEF LeaseIsTheirs, ClaimedIsDated, TriageTypes
<1> QED BY <1>3, <1>4, <1>5

LEMMA TriageClaimPreserves ==
  ASSUME TriageIInv, NEW w \in Triagers, NEW m \in Messages, Triage!Claim(w, m)
  PROVE  TriageIInv'
<1> USE DEF TriageIInv
<1>1. /\ task[w] = Triage!Nobody /\ Triage!Eligible(m)
      /\ status' = [status EXCEPT ![m] = "reading"]
      /\ readFor' = [readFor EXCEPT ![m] = IF @ = Triage!Never THEN 0 ELSE @]
      /\ keptOld' = IF readFor[m] = Triage!Never \/ Triage!At(m) # {} THEN keptOld
           ELSE keptOld \cup {m}
      /\ task' = [task EXCEPT ![w] = m]
      /\ working' = [working EXCEPT ![w] = 0]
      /\ UNCHANGED <<reply, replies>>
  BY DEF Triage!Claim
<1>2. TriageTypes'
  BY <1>1, TriageConstants DEF TriageTypes, Triage!Never
<1>3. reply[m] = Triage!Nobody /\ replies[m] = 0
  BY <1>1 DEF Triage!Eligible, RepliesAreOwed
<1>4. \A n \in Messages :
        Triage!At(n)' = IF n = m THEN Triage!At(m) \cup {w} ELSE Triage!At(n)
  BY <1>1, TriageConstants DEF Triage!At, TriageTypes
<1>5. RepliesAreOwed'
  <2>1. /\ Cardinality(Triage!At(m)') \in Nat
        /\ Cardinality(Triage!At(m)') <= Cardinality(Triagers)
        /\ Cardinality(Triagers) \in Nat
    <3>1. Triage!At(m)' \subseteq Triagers
      BY DEF Triage!At
    <3> QED BY <3>1, TriageConstants, FS_Subset, FS_CardinalityType
  <2>2. replies' = replies /\ reply' = reply
    BY <1>1
  <2>3. \A n \in Messages : n # m => Triage!At(n)' = Triage!At(n)
    BY <1>4
  <2> QED BY <1>3, <2>1, <2>2, <2>3 DEF RepliesAreOwed
(* A message that is free to claim and has a worker, or was dated, is not  *)
(* among those whose lease is theirs.                                      *)
<1>6. m \notin keptOld' => m \notin keptOld /\ Triage!At(m) = {} /\ readFor[m] = Triage!Never
  <2> SUFFICES ASSUME m \notin keptOld'
               PROVE  m \notin keptOld /\ Triage!At(m) = {} /\ readFor[m] = Triage!Never
    OBVIOUS
  <2>1. m \notin keptOld /\ (readFor[m] = Triage!Never \/ Triage!At(m) # {})
    BY <1>1
  <2>2. ASSUME NEW v \in Triagers, task[v] = m PROVE FALSE
    <3>1. status[m] = "reading" /\ readFor[m] = working[v]
      BY <2>1, <2>2 DEF LeaseIsTheirs
    <3>2. working[v] <= ReclaimAfter /\ working[v] \in Nat
      BY TriageConstants DEF TriageTypes
    <3> QED BY <1>1, <3>1, <3>2, TriageConstants DEF Triage!Eligible
  <2>3. Triage!At(m) = {}
    BY <2>2 DEF Triage!At
  <2> QED BY <2>1, <2>3
<1>7. keptOld \subseteq keptOld'
  BY <1>1
<1>8. LeaseIsTheirs'
  <2> SUFFICES ASSUME NEW n \in Messages \ keptOld', NEW v \in Triagers, task'[v] = n
               PROVE  /\ status'[n] = "reading" /\ reply'[n] = Triage!Nobody
                      /\ readFor'[n] = working'[v]
                      /\ \A u \in Triagers : task'[u] = n => u = v
    BY DEF LeaseIsTheirs
  <2>1. CASE n = m
    <3>1. readFor[m] = Triage!Never /\ \A u \in Triagers : task[u] # m
      BY <1>6, <2>1 DEF Triage!At
    <3>2. v = w /\ \A u \in Triagers : task'[u] = n => u = w
      BY <1>1, <2>1, <3>1 DEF TriageTypes
    <3> QED BY <1>1, <1>3, <2>1, <3>1, <3>2 DEF TriageTypes
  <2>2. CASE n # m
    <3>1. v # w /\ task[v] = n /\ n \notin keptOld
      BY <1>1, <1>7, <2>2 DEF TriageTypes
    <3>2. \A u \in Triagers : task'[u] = n => task[u] = n
      BY <1>1, <2>2 DEF TriageTypes
    <3> QED BY <1>1, <2>2, <3>1, <3>2 DEF LeaseIsTheirs, TriageTypes
  <2> QED BY <2>1, <2>2
<1>9. ClaimedIsDated'
  BY <1>1, <1>7 DEF ClaimedIsDated
<1> QED BY <1>2, <1>5, <1>8, <1>9

LEMMA ReplyPreserves ==
  ASSUME TriageIInv, NEW w \in Triagers, NEW m \in Messages, Triage!Reply(w, m)
  PROVE  TriageIInv'
<1> USE DEF TriageIInv
<1>1. PICK o \in Triage!HalOutcomes : reply' = [reply EXCEPT ![m] = o]
  BY DEF Triage!Reply
<1>2. /\ task[w] = m
      /\ status' = [status EXCEPT ![m] = "triaged"]
      /\ replies' = [replies EXCEPT ![m] = @ + 1]
      /\ task' = [task EXCEPT ![w] = Triage!Nobody]
      /\ working' = [working EXCEPT ![w] = 0]
      /\ UNCHANGED <<readFor, keptOld>>
  BY DEF Triage!Reply
<1>3. TriageTypes'
  BY <1>1, <1>2, TriageConstants DEF TriageTypes
<1>4. o # Triage!Nobody
  BY DEF Triage!HalOutcomes, Triage!Nobody
<1>5. \A n \in Messages : Triage!At(n)' = IF n = m THEN Triage!At(m) \ {w} ELSE Triage!At(n)
  BY <1>2, TriageConstants DEF Triage!At, TriageTypes
<1>6. w \in Triage!At(m)
  BY <1>2 DEF Triage!At
<1>7. RepliesAreOwed'
  <2> SUFFICES ASSUME NEW n \in Messages
               PROVE  /\ reply'[n] = Triage!Nobody => replies'[n] = 0
                      /\ replies'[n] + Cardinality(Triage!At(n)') <= Cardinality(Triagers)
    BY DEF RepliesAreOwed
  <2>1. /\ reply[n] = Triage!Nobody => replies[n] = 0
        /\ replies[n] + Cardinality(Triage!At(n)) <= Cardinality(Triagers)
        /\ replies[n] \in Nat
    BY DEF RepliesAreOwed, TriageTypes
  <2>2. CASE n = m
    <3>1. Cardinality(Triage!At(n)') = Cardinality(Triage!At(m)) - 1
      BY <1>5, <1>6, <2>2, AtIsFinite, FS_RemoveElement
    <3>2. replies'[n] = replies[m] + 1 /\ reply'[n] = o
      BY <1>1, <1>2, <2>2 DEF TriageTypes
    <3> QED BY <1>4, <2>1, <2>2, <3>1, <3>2, AtIsFinite
  <2>3. CASE n # m
    <3>1. Triage!At(n)' = Triage!At(n)
      BY <1>5, <2>3
    <3>2. replies'[n] = replies[n] /\ reply'[n] = reply[n]
      BY <1>1, <1>2, <2>3 DEF TriageTypes
    <3> QED BY <2>1, <3>1, <3>2
  <2> QED BY <2>2, <2>3
<1>8. LeaseIsTheirs'
  <2> SUFFICES ASSUME NEW n \in Messages \ keptOld, NEW v \in Triagers, task'[v] = n
               PROVE  /\ status'[n] = "reading" /\ reply'[n] = Triage!Nobody
                      /\ readFor'[n] = working'[v]
                      /\ \A u \in Triagers : task'[u] = n => u = v
    BY <1>2 DEF LeaseIsTheirs
  <2>1. v # w /\ task[v] = n
    BY <1>2, TriageConstants DEF TriageTypes
  <2>2. n # m
    BY <1>2, <2>1 DEF LeaseIsTheirs
  <2>3. \A u \in Triagers : task'[u] = n => task[u] = n
    BY <1>2, TriageConstants DEF TriageTypes
  <2> QED BY <1>1, <1>2, <2>1, <2>2, <2>3 DEF LeaseIsTheirs, TriageTypes
<1>9. ClaimedIsDated'
  <2> SUFFICES ASSUME NEW n \in Messages \ keptOld
               PROVE  replies'[n] <= 1 /\ (replies'[n] = 1 => reply'[n] # Triage!Nobody)
    BY <1>2 DEF ClaimedIsDated
  <2>1. CASE n = m
    <3>1. reply[m] = Triage!Nobody /\ replies[m] = 0
      BY <1>2, <2>1 DEF LeaseIsTheirs, RepliesAreOwed
    <3> QED BY <1>1, <1>2, <1>4, <2>1, <3>1 DEF TriageTypes
  <2>2. CASE n # m
    BY <1>1, <1>2, <2>2 DEF ClaimedIsDated, TriageTypes
  <2> QED BY <2>1, <2>2
<1> QED BY <1>3, <1>7, <1>8, <1>9

LEMMA StrandPreserves ==
  ASSUME TriageIInv, NEW w \in Triagers, Triage!Strand(w) PROVE TriageIInv'
<1> USE DEF TriageIInv
<1>1. /\ task[w] # Triage!Nobody
      /\ task' = [task EXCEPT ![w] = Triage!Nobody]
      /\ working' = [working EXCEPT ![w] = 0]
      /\ UNCHANGED <<status, readFor, reply, keptOld, replies>>
  BY DEF Triage!Strand, Triage!rows
<1>2. TriageTypes'
  BY <1>1, TriageConstants DEF TriageTypes
<1>3. RepliesAreOwed'
  <2> SUFFICES ASSUME NEW n \in Messages
               PROVE  replies[n] + Cardinality(Triage!At(n)') <= Cardinality(Triagers)
    BY <1>1 DEF RepliesAreOwed
  <2>1. Triage!At(n)' \subseteq Triage!At(n)
    BY <1>1, TriageConstants DEF Triage!At, TriageTypes
  <2>2. Cardinality(Triage!At(n)') \in Nat /\ Cardinality(Triage!At(n)')
          <= Cardinality(Triage!At(n))
    BY <2>1, AtIsFinite, FS_Subset, FS_CardinalityType
  <2> QED BY <2>2, AtIsFinite DEF RepliesAreOwed, TriageTypes
<1>4. \A v \in Triagers : v # w => task'[v] = task[v] /\ working'[v] = working[v]
  BY <1>1 DEF TriageTypes
<1>5. task'[w] = Triage!Nobody
  BY <1>1 DEF TriageTypes
<1>6. LeaseIsTheirs'
  BY <1>1, <1>4, <1>5, TriageConstants DEF LeaseIsTheirs
<1>7. ClaimedIsDated'
  BY <1>1 DEF ClaimedIsDated
<1> QED BY <1>2, <1>3, <1>6, <1>7

LEMMA ReadInInboxPreserves ==
  ASSUME TriageIInv, NEW m \in Messages, Triage!ReadInInbox(m) PROVE TriageIInv'
<1> USE DEF TriageIInv
<1>1. /\ status[m] = "unread"
      /\ status' = [status EXCEPT ![m] = "read"]
      /\ readFor' = [readFor EXCEPT ![m] = IF @ = Triage!Never THEN 0 ELSE @]
      /\ UNCHANGED <<reply, task, working, keptOld, replies>>
  BY DEF Triage!ReadInInbox
<1>2. TriageTypes'
  BY <1>1, TriageConstants DEF TriageTypes, Triage!Never
<1>3. RepliesAreOwed'
  BY <1>1 DEF RepliesAreOwed, Triage!At
<1>4. LeaseIsTheirs'
  BY <1>1 DEF LeaseIsTheirs, TriageTypes
<1>5. ClaimedIsDated'
  BY <1>1 DEF ClaimedIsDated
<1> QED BY <1>2, <1>3, <1>4, <1>5

LEMMA TickPreserves == ASSUME TriageIInv, Triage!Tick PROVE TriageIInv'
<1> USE DEF TriageIInv
<1>1. /\ \A w \in Triagers : task[w] # Triage!Nobody => working[w] < WorkTime
      /\ readFor' = [m \in Messages |->
           IF readFor[m] \in 0..ReclaimAfter THEN readFor[m] + 1 ELSE readFor[m]]
      /\ working' = [w \in Triagers |-> IF task[w] = Triage!Nobody THEN 0 ELSE working[w] + 1]
      /\ UNCHANGED <<status, reply, task, keptOld, replies>>
  BY DEF Triage!Tick
<1>2. TriageTypes'
  <2>1. \A m \in Messages : readFor'[m] \in Triage!Never..(ReclaimAfter + 1)
    BY <1>1, TriageConstants DEF TriageTypes, Triage!Never
  <2>2. \A w \in Triagers : working'[w] \in 0..WorkTime
    BY <1>1, TriageConstants DEF TriageTypes
  <2> QED BY <1>1, <2>1, <2>2 DEF TriageTypes
<1>3. RepliesAreOwed'
  BY <1>1 DEF RepliesAreOwed, Triage!At
<1>4. \A m \in Messages, w \in Triagers :
        task[w] = m /\ readFor[m] = working[w] => readFor'[m] = working'[w]
  BY <1>1, TriageConstants DEF TriageTypes
<1>5. LeaseIsTheirs'
  BY <1>1, <1>4 DEF LeaseIsTheirs
<1>6. ClaimedIsDated'
  BY <1>1 DEF ClaimedIsDated
<1> QED BY <1>2, <1>3, <1>5, <1>6

LEMMA TriageNextPreserves == TriageIInv /\ [Triage!Next]_Triage!vars => TriageIInv'
<1> SUFFICES ASSUME TriageIInv, [Triage!Next]_Triage!vars PROVE TriageIInv'
  OBVIOUS
<1>1. CASE UNCHANGED Triage!vars
  BY <1>1 DEF Triage!vars, TriageIInv, TriageTypes, RepliesAreOwed, Triage!At, LeaseIsTheirs,
     ClaimedIsDated
<1>2. CASE Triage!Drained
  BY <1>1, <1>2 DEF Triage!Drained
<1> QED BY <1>1, <1>2, SendPreserves, TriageClaimPreserves, ReplyPreserves, StrandPreserves,
           ReadInInboxPreserves, TickPreserves DEF Triage!Next

THEOREM TriageInvariance == Triage!Spec => []TriageIInv
<1> QED BY TriageInitEstablishes, TriageNextPreserves, PTL DEF Triage!Spec

(* TypeOK.                                                                 *)
THEOREM TriageTypeCorrect == Triage!Spec => []Triage!TypeOK
<1> QED BY TriageInvariance, TriageIInvTypes, PTL

(* OneWorkerPerFreshClaim: a claim that dated its message is not over      *)
(* before the worker is.                                                   *)
THEOREM FreshClaimsAreExclusive == Triage!Spec => []Triage!OneWorkerPerFreshClaim
<1>1. TriageIInv => Triage!OneWorkerPerFreshClaim
  <2> SUFFICES ASSUME TriageIInv, NEW m \in Messages \ keptOld
               PROVE  Triage!Cardinality(Triage!At(m)) <= 1
    BY DEF Triage!OneWorkerPerFreshClaim
  <2>0. Triage!Cardinality(Triage!At(m)) = Cardinality(Triage!At(m))
    BY TriageCardinality
  <2>1. CASE Triage!At(m) = {}
    BY <2>0, <2>1, FS_EmptySet
  <2>2. CASE Triage!At(m) # {}
    <3>1. PICK w \in Triagers : task[w] = m
      BY <2>2 DEF Triage!At
    <3>2. Triage!At(m) = {w}
      BY <3>1 DEF TriageIInv, LeaseIsTheirs, Triage!At
    <3>3. Cardinality({w}) = 1
      BY FS_Singleton, Zenon
    <3> QED BY <2>0, <3>2, <3>3
  <2> QED BY <2>1, <2>2
<1> QED BY <1>1, TriageInvariance, PTL

(* FirstReplyStands: under such a claim there is one reply.                *)
THEOREM OneReplyEach == Triage!Spec => []Triage!FirstReplyStands
<1>1. TriageIInv => Triage!FirstReplyStands
  BY DEF TriageIInv, ClaimedIsDated, Triage!FirstReplyStands
<1> QED BY <1>1, TriageInvariance, PTL

-----------------------------------------------------------------------------
(***************************************************************************)
(* The reaper of requests to a human, for any requests, runs and batch.    *)
(*                                                                         *)
(* A run that selected rows selected pending ones; whoever decides one of  *)
(* them before it updates has raced with it.                               *)
(***************************************************************************)

LEMMA ReaperConstants == IsFiniteSet(HumanRequests) /\ ReapBatch \in Nat \ {0}
BY ServicesAssumption DEF Reaper!ReaperAssumption, Reaper!IsFiniteSet, IsFiniteSet

LEMMA ReaperCardinality == \A S : Reaper!Cardinality(S) = Cardinality(S)
BY DEF Reaper!Cardinality, Cardinality, Reaper!IsFiniteSet, IsFiniteSet

LEMMA ABatchIsNotEmpty ==
  ASSUME Reaper!TypeOK, Reaper!Reapable # {}, NEW due, Reaper!IsBatch(due)
  PROVE  due # {} /\ \A q \in due : q \in HumanRequests /\ state[q] = "pending"
<1>1. due \subseteq Reaper!Reapable /\ Reaper!Reapable \subseteq HumanRequests
  BY DEF Reaper!IsBatch, Reaper!Reapable, Reaper!TypeOK
<1>2. IsFiniteSet(Reaper!Reapable) /\ Cardinality(Reaper!Reapable) \in Nat
        /\ Cardinality(Reaper!Reapable) # 0
  BY <1>1, ReaperConstants, FS_Subset, FS_CardinalityType, FS_EmptySet
<1>3. Cardinality(due) = IF Cardinality(Reaper!Reapable) < ReapBatch
                           THEN Cardinality(Reaper!Reapable) ELSE ReapBatch
  BY ReaperCardinality, Zenon DEF Reaper!IsBatch
<1>4. Cardinality(due) # 0
  BY <1>2, <1>3, ReaperConstants
<1>5. due # {}
  BY <1>4, FS_EmptySet
<1> QED BY <1>1, <1>5 DEF Reaper!Reapable

(* Whoever expired a request logged it and was not undone.                 *)
Logged == \A q \in HumanRequests :
            state[q] = "expired" => \E r \in Runs : q \in ids[r] /\ run[r] = "done"

RunsAreLogged == \A r \in Runs : /\ run[r] = "selected" => ids[r] # {}
                                 /\ run[r] = "done" => r \in changelog

RacesAreSeen ==
  \A r \in Runs : run[r] = "selected" =>
    \A q \in ids[r] : state[q] \in Reaper!Decisions => q \in raced

ReaperIInv == Reaper!TypeOK /\ Logged /\ RunsAreLogged /\ RacesAreSeen

LEMMA ReaperInitEstablishes == Reaper!Init => ReaperIInv
BY DEF Reaper!Init, ReaperIInv, Reaper!TypeOK, Logged, RunsAreLogged, RacesAreSeen,
   Reaper!Decisions

LEMMA ReaperSelectPreserves ==
  ASSUME ReaperIInv, NEW r \in Runs, Reaper!Select(r) PROVE ReaperIInv'
<1>1. PICK due \in SUBSET HumanRequests :
        Reaper!IsBatch(due) /\ ids' = [ids EXCEPT ![r] = due]
  BY DEF Reaper!Select
<1>2. /\ run[r] = "new" /\ run' = [run EXCEPT ![r] = "selected"]
      /\ UNCHANGED <<state, overdue, changelog, raced>>
  BY DEF Reaper!Select
<1>3. due # {} /\ \A q \in due : state[q] = "pending"
  BY <1>1, ABatchIsNotEmpty DEF Reaper!Select, ReaperIInv
<1>4. \A s \in Runs : s # r => ids'[s] = ids[s] /\ run'[s] = run[s]
  BY <1>1, <1>2 DEF ReaperIInv, Reaper!TypeOK
<1>5. ids'[r] = due /\ run'[r] = "selected"
  BY <1>1, <1>2 DEF ReaperIInv, Reaper!TypeOK
<1>6. Reaper!TypeOK'
  BY <1>1, <1>2 DEF ReaperIInv, Reaper!TypeOK
<1>7. Logged'
  BY <1>2, <1>4 DEF ReaperIInv, Logged
<1>8. RunsAreLogged' /\ RacesAreSeen'
  BY <1>2, <1>3, <1>4, <1>5 DEF ReaperIInv, RunsAreLogged, RacesAreSeen, Reaper!Decisions
<1> QED BY <1>6, <1>7, <1>8 DEF ReaperIInv

LEMMA ExpirePreserves == ASSUME ReaperIInv, NEW r \in Runs, Reaper!Expire(r) PROVE ReaperIInv'
<1>1. /\ run[r] = "selected" /\ ids[r] # {}
      /\ state' = [q \in HumanRequests |-> IF q \in ids[r] THEN "expired" ELSE state[q]]
      /\ changelog' = changelog \cup {r}
      /\ run' = [run EXCEPT ![r] = "done"]
      /\ UNCHANGED <<overdue, ids, raced>>
  BY DEF Reaper!Expire, Reaper!Logs, ReaperIInv, RunsAreLogged
<1>2. Reaper!TypeOK'
  BY <1>1 DEF ReaperIInv, Reaper!TypeOK
<1>3. Logged'
  BY <1>1 DEF ReaperIInv, Reaper!TypeOK, Logged
<1>4. RunsAreLogged'
  BY <1>1 DEF ReaperIInv, Reaper!TypeOK, RunsAreLogged
<1>5. RacesAreSeen'
  BY <1>1 DEF ReaperIInv, Reaper!TypeOK, RacesAreSeen, Reaper!Decisions
<1> QED BY <1>2, <1>3, <1>4, <1>5 DEF ReaperIInv

(* What another run closed too stays recorded by it.                       *)
LEMMA RollbackPreserves ==
  ASSUME ReaperIInv, NEW r \in Runs, Reaper!Rollback(r) PROVE ReaperIInv'
<1>1. /\ run[r] = "done"
      /\ state' = [q \in HumanRequests |->
           IF q \in ids[r] /\ state[q] = "expired" THEN "pending" ELSE state[q]]
      /\ run' = [run EXCEPT ![r] = "undone"]
      /\ UNCHANGED <<overdue, ids, changelog, raced>>
  BY DEF Reaper!Rollback
<1>2. Reaper!TypeOK'
  BY <1>1 DEF ReaperIInv, Reaper!TypeOK
<1>3. Logged'
  BY <1>1 DEF ReaperIInv, Reaper!TypeOK, Logged
<1>4. RunsAreLogged'
  BY <1>1 DEF ReaperIInv, Reaper!TypeOK, RunsAreLogged
<1>5. RacesAreSeen'
  BY <1>1 DEF ReaperIInv, Reaper!TypeOK, RacesAreSeen, Reaper!Decisions
<1> QED BY <1>2, <1>3, <1>4, <1>5 DEF ReaperIInv

LEMMA DecidePreserves ==
  ASSUME ReaperIInv, NEW q \in HumanRequests, Reaper!Decide(q) PROVE ReaperIInv'
<1>1. PICK d \in Reaper!Decisions : state' = [state EXCEPT ![q] = d]
  BY DEF Reaper!Decide
<1>2. /\ raced' = IF \E r \in Runs : run[r] = "selected" /\ q \in ids[r]
                   THEN raced \cup {q} ELSE raced
      /\ UNCHANGED <<overdue, run, ids, changelog>>
  BY DEF Reaper!Decide
<1>3. Reaper!TypeOK'
  BY <1>1, <1>2 DEF ReaperIInv, Reaper!TypeOK
<1>4. Logged' /\ RunsAreLogged'
  BY <1>1, <1>2 DEF ReaperIInv, Reaper!TypeOK, Logged, RunsAreLogged, Reaper!Decisions
<1>5. RacesAreSeen'
  BY <1>1, <1>2 DEF ReaperIInv, Reaper!TypeOK, RacesAreSeen
<1> QED BY <1>3, <1>4, <1>5 DEF ReaperIInv

LEMMA TimePassesPreserves ==
  ASSUME ReaperIInv, NEW q \in HumanRequests, Reaper!TimePasses(q) PROVE ReaperIInv'
BY DEF ReaperIInv, Reaper!TimePasses, Reaper!TypeOK, Logged, RunsAreLogged, RacesAreSeen

LEMMA ReaperNextPreserves == ReaperIInv /\ [Reaper!Next]_Reaper!vars => ReaperIInv'
<1> SUFFICES ASSUME ReaperIInv, [Reaper!Next]_Reaper!vars PROVE ReaperIInv'
  OBVIOUS
<1>1. CASE UNCHANGED Reaper!vars
  BY <1>1 DEF Reaper!vars, ReaperIInv, Reaper!TypeOK, Logged, RunsAreLogged, RacesAreSeen
<1>2. CASE Reaper!AllRun \/ Reaper!NothingPending
  BY <1>1, <1>2 DEF Reaper!AllRun, Reaper!NothingPending
<1> QED BY <1>1, <1>2, ReaperSelectPreserves, ExpirePreserves, RollbackPreserves,
           DecidePreserves, TimePassesPreserves DEF Reaper!Next

THEOREM ReaperInvariance == Reaper!Spec => []ReaperIInv
<1> QED BY ReaperInitEstablishes, ReaperNextPreserves, PTL DEF Reaper!Spec

(* TypeOK.                                                                 *)
THEOREM ReaperTypeCorrect == Reaper!Spec => []Reaper!TypeOK
<1>1. ReaperIInv => Reaper!TypeOK
  BY DEF ReaperIInv
<1> QED BY <1>1, ReaperInvariance, PTL

(* ClosedIsRecorded: the run that closed a request and was not undone is   *)
(* in the changelog.                                                       *)
THEOREM EveryClosureIsLogged == Reaper!Spec => []Reaper!ClosedIsRecorded
<1>1. ReaperIInv => Reaper!ClosedIsRecorded
  BY DEF ReaperIInv, Logged, RunsAreLogged, Reaper!ClosedIsRecorded, Reaper!TypeOK
<1> QED BY <1>1, ReaperInvariance, PTL

(* DecisionsStandUnlessRaced: rows are closed by the ids of a run, which   *)
(* were pending when it selected them.                                     *)
THEOREM DecidedIsFinal == Reaper!Spec => Reaper!DecisionsStandUnlessRaced
<1>1. ReaperIInv /\ [Reaper!Next]_Reaper!vars =>
        [\A q \in HumanRequests :
           state[q] \in Reaper!Decisions /\ state'[q] # state[q] => q \in raced]_Reaper!vars
  <2> SUFFICES ASSUME ReaperIInv, Reaper!Next, NEW q \in HumanRequests,
                      state[q] \in Reaper!Decisions, state'[q] # state[q]
               PROVE  q \in raced
    BY DEF Reaper!vars
  <2>1. \A r \in Runs : ~Reaper!Select(r) /\ ~Reaper!Rollback(r)
    BY DEF Reaper!Select, Reaper!Rollback, ReaperIInv, Reaper!TypeOK, Reaper!Decisions
  <2>2. \A p \in HumanRequests : ~Reaper!Decide(p) /\ ~Reaper!TimePasses(p)
    BY DEF Reaper!Decide, Reaper!TimePasses, ReaperIInv, Reaper!TypeOK, Reaper!Decisions
  <2>3. PICK r \in Runs : Reaper!Expire(r)
    BY <2>1, <2>2 DEF Reaper!Next, Reaper!AllRun, Reaper!NothingPending, Reaper!vars
  <2>4. run[r] = "selected" /\ q \in ids[r]
    BY <2>3 DEF Reaper!Expire
  <2> QED BY <2>4 DEF ReaperIInv, RacesAreSeen
<1> QED BY <1>1, ReaperInvariance, PTL DEF Reaper!Spec, Reaper!DecisionsStandUnlessRaced

-----------------------------------------------------------------------------
(***************************************************************************)
(* What the drains of the evaluation queue keep, for any rows, drains,     *)
(* batches and cap.                                                        *)
(*                                                                         *)
(* A row that two drains never held at a time has one drain to write to    *)
(* it: what that drain selected is still so until it writes.               *)
(***************************************************************************)

LEMMA QueueConstants == DrainBatch \in Nat \ {0} /\ MaxAttempts \in Nat \ {0}
BY ServicesAssumption DEF Queue!QueueAssumption

In(s) == {s[i] : i \in 1..Len(s)}
Distinct(s) == \A i, j \in 1..Len(s) : s[i] = s[j] => i = j

LEMMA RangeOfRows ==
  ASSUME NEW s \in Seq(Rows)
  PROVE  Queue!Range(s) = In(s) /\ (Queue!IsInjective(s) <=> Distinct(s))
<1>1. DOMAIN s = 1..Len(s)
  OBVIOUS
<1> QED BY <1>1 DEF Queue!Range, Queue!IsInjective, In, Distinct

LEMMA TakeHead ==
  ASSUME NEW s \in Seq(Rows), Distinct(s), s # <<>>
  PROVE  /\ Head(s) \in In(s) /\ Head(s) \in Rows
         /\ Tail(s) \in Seq(Rows) /\ Distinct(Tail(s))
         /\ In(Tail(s)) = In(s) \ {Head(s)}
         /\ Len(Tail(s)) = Len(s) - 1
<1>1. Len(s) \in Nat \ {0} /\ Head(s) = s[1] /\ Tail(s) \in Seq(Rows) /\ Len(Tail(s)) =
        Len(s) - 1
  OBVIOUS
<1>2. \A i \in 1..Len(Tail(s)) : Tail(s)[i] = s[i + 1]
  BY <1>1
<1>3. Distinct(Tail(s))
  BY <1>1, <1>2 DEF Distinct
<1>4. In(Tail(s)) = In(s) \ {Head(s)}
  <2>1. ASSUME NEW x \in In(Tail(s)) PROVE x \in In(s) \ {Head(s)}
    <3>1. PICK i \in 1..Len(Tail(s)) : x = Tail(s)[i]
      BY <2>1 DEF In
    <3>2. i + 1 \in 1..Len(s) /\ x = s[i + 1] /\ 1 \in 1..Len(s) /\ i + 1 # 1
      BY <1>1, <1>2, <3>1
    <3> QED BY <1>1, <3>2 DEF In, Distinct
  <2>2. ASSUME NEW x \in In(s) \ {Head(s)} PROVE x \in In(Tail(s))
    <3>1. PICK i \in 1..Len(s) : x = s[i]
      BY <2>2 DEF In
    <3>2. i - 1 \in 1..Len(Tail(s)) /\ Tail(s)[i - 1] = x
      BY <1>1, <1>2, <2>2, <3>1
    <3> QED BY <3>2 DEF In
  <2> QED BY <2>1, <2>2
<1>5. Head(s) \in In(s) /\ Head(s) \in Rows
  BY <1>1 DEF In
<1> QED BY <1>1, <1>3, <1>4, <1>5

-----------------------------------------------------------------------------
Books ==
  /\ enqueued \in Seq(Rows) /\ Distinct(enqueued)
  /\ batch \in [Drains -> Seq(Rows)]
  /\ \A d \in Drains : Distinct(batch[d]) /\ In(batch[d]) \subseteq In(enqueued)
                          /\ Len(batch[d]) <= DrainBatch

QueueTypes ==
  /\ row \in [Rows -> {"pending", "failed"} \cup Queue!Verdicts]
  /\ receipt \in [Rows -> {"null"} \cup Queue!Verdicts]
  /\ step \in [Drains -> {"count", "ask"} \cup Queue!Verdicts]
  /\ shared \cup uncounted \cup cut \subseteq Rows

Counters ==
  /\ attempts \in [Rows -> 0..MaxAttempts]
  /\ seen \in [Drains -> [Rows -> 0..MaxAttempts]]
  /\ asked \in [Rows -> 0..(MaxAttempts + 1)]
  /\ \A d \in Drains : \A r \in In(batch[d]) : seen[d][r] < MaxAttempts

(* A drain without a batch is at the start of its next row.                *)
Ready == \A d \in Drains : batch[d] = <<>> => step[d] = "count"

OneDrain ==
  \A r \in Rows \ shared : \A d, e \in Drains :
    r \in In(batch[d]) /\ r \in In(batch[e]) => d = e

(* The row at the head of a batch, when its drain is at one of steps S; a  *)
(* row behind the head is still at the count.                              *)
QueueReached(d, r, S) ==
  r \in In(batch[d]) /\ IF r = Head(batch[d]) THEN step[d] \in S ELSE "count" \in S

AttemptsAreCounted ==
  /\ \A r \in Rows \ (shared \cup uncounted) : asked[r] = attempts[r]
  /\ \A r \in Rows \ shared : \A d \in Drains :
       QueueReached(d, r, {"count"}) => attempts[r] = seen[d][r]

NotJudgedYet ==
  \A r \in Rows \ shared : \A d \in Drains :
    QueueReached(d, r, {"count", "ask"}) => row[r] = "pending"

ToldWhatIsWritten ==
  \A r \in Rows \ (shared \cup cut) :
    /\ (\A d \in Drains : r \notin In(batch[d])) =>
          receipt[r] = IF row[r] \in Queue!Verdicts THEN row[r] ELSE "null"
    /\ \A d \in Drains : r \in In(batch[d]) => receipt[r] = "null"
    /\ \A d \in Drains, v \in Queue!Verdicts : QueueReached(d, r, {v}) => row[r] = v

QueueIInv ==
  /\ Books /\ QueueTypes /\ Counters /\ Ready /\ OneDrain
  /\ AttemptsAreCounted /\ NotJudgedYet /\ ToldWhatIsWritten

LEMMA QueueIInvTypes == QueueIInv => Queue!TypeOK
<1> SUFFICES ASSUME QueueIInv PROVE Queue!TypeOK
  OBVIOUS
<1>1. In(enqueued) \subseteq Rows /\ Queue!Range(enqueued) = In(enqueued)
      /\ Queue!IsInjective(enqueued)
  BY RangeOfRows DEF QueueIInv, Books, In
<1>2. \A d \in Drains : Queue!Range(batch[d]) = In(batch[d])
  BY RangeOfRows DEF QueueIInv, Books
<1>3. \A d \in Drains : In(batch[d]) \subseteq In(enqueued) /\ Len(batch[d]) <= DrainBatch
  BY DEF QueueIInv, Books
<1> QED BY <1>1, <1>2, <1>3 DEF QueueIInv, QueueTypes, Counters, Queue!TypeOK

LEMMA QueueInitEstablishes == Queue!Init => QueueIInv
<1> SUFFICES ASSUME Queue!Init PROVE QueueIInv
  OBVIOUS
<1> USE DEF Queue!Init
<1>1. \A d \in Drains : batch[d] = <<>> /\ In(batch[d]) = {}
  BY DEF In
<1>2. Books
  BY <1>1, QueueConstants DEF Books, Distinct, In
<1>3. QueueTypes
  BY DEF QueueTypes, Queue!Verdicts
<1>4. Counters
  BY <1>1, QueueConstants DEF Counters
<1>5. Ready /\ OneDrain /\ AttemptsAreCounted /\ NotJudgedYet
  BY <1>1 DEF Ready, OneDrain, AttemptsAreCounted, NotJudgedYet, QueueReached
<1>6. ToldWhatIsWritten
  BY <1>1 DEF ToldWhatIsWritten, QueueReached, Queue!Verdicts
<1> QED BY <1>2, <1>3, <1>4, <1>5, <1>6 DEF QueueIInv

-----------------------------------------------------------------------------
LEMMA EnqueuePreserves == ASSUME QueueIInv, NEW r \in Rows, Queue!Enqueue(r) PROVE QueueIInv'
<1>1. enqueued' = Append(enqueued, r) /\ r \notin In(enqueued) /\ enqueued \in Seq(Rows)
  BY RangeOfRows DEF Queue!Enqueue, QueueIInv, Books
<1>2. UNCHANGED <<row, attempts, receipt, batch, seen, step, asked, shared, uncounted, cut>>
  BY DEF Queue!Enqueue, Queue!drainVars, Queue!histories
<1>3. /\ enqueued' \in Seq(Rows) /\ Len(enqueued') = Len(enqueued) + 1
      /\ Len(enqueued) \in Nat
      /\ \A i \in 1..Len(enqueued') :
           enqueued'[i] = IF i = Len(enqueued) + 1 THEN r ELSE enqueued[i]
  BY <1>1
<1>4. Distinct(enqueued') /\ In(enqueued) \subseteq In(enqueued')
  BY <1>1, <1>3 DEF QueueIInv, Books, Distinct, In
<1>5. Books'
  BY <1>2, <1>3, <1>4 DEF QueueIInv, Books
<1>6. QueueTypes' /\ Counters' /\ Ready' /\ OneDrain'
  BY <1>2 DEF QueueIInv, QueueTypes, Counters, Ready, OneDrain
<1>7. AttemptsAreCounted' /\ NotJudgedYet' /\ ToldWhatIsWritten'
  BY <1>2 DEF QueueIInv, AttemptsAreCounted, NotJudgedYet, ToldWhatIsWritten, QueueReached
<1> QED BY <1>5, <1>6, <1>7 DEF QueueIInv

(* A batch is of rows that were pending and had attempts left; a row that  *)
(* another drain holds is shared from here on.                             *)
LEMMA SelectTakes ==
  ASSUME QueueIInv, NEW d \in Drains, Queue!Select(d)
  PROVE  \E taken \in Seq(Rows) :
           /\ Distinct(taken) /\ Len(taken) <= DrainBatch /\ taken # <<>>
           /\ In(taken) \subseteq {r \in In(enqueued) : Queue!Eligible(r)}
           /\ batch' = [batch EXCEPT ![d] = taken]
           /\ seen' = [seen EXCEPT ![d] =
                [r \in Rows |-> IF r \in In(taken) THEN attempts[r] ELSE 0]]
           /\ shared' = shared \cup
                {r \in In(taken) : \E e \in Drains : r \in In(batch[e])}
<1> DEFINE Picked(n, picks) ==
        /\ Queue!Oldest(picks)
        /\ batch' = [batch EXCEPT ![d] = [i \in 1..n |-> enqueued[picks[i]]]]
        /\ seen' = [seen EXCEPT ![d] =
             [r \in Rows |-> IF r \in {enqueued[picks[i]] : i \in 1..n}
                              THEN attempts[r] ELSE 0]]
        /\ shared' = shared \cup ({enqueued[picks[i]] : i \in 1..n} \cap Queue!Held)
<1>0. \E n \in 1..DrainBatch : \E picks \in [1..n -> Queue!Pending] : Picked(n, picks)
  BY Zenon DEF Queue!Select
<1>1. PICK n \in 1..DrainBatch : \E picks \in [1..n -> Queue!Pending] : Picked(n, picks)
  BY <1>0
<1>2. PICK picks \in [1..n -> Queue!Pending] : Picked(n, picks)
  BY <1>1
<1> DEFINE taken == [i \in 1..n |-> enqueued[picks[i]]]
<1>3. enqueued \in Seq(Rows) /\ n \in Nat \ {0} /\ n <= DrainBatch
  BY QueueConstants DEF QueueIInv, Books
<1>4. \A i \in 1..n : /\ picks[i] \in 1..Len(enqueued) /\ enqueued[picks[i]] \in Rows
                       /\ Queue!Eligible(enqueued[picks[i]])
  BY <1>3 DEF Queue!Pending
<1>5. taken \in Seq(Rows) /\ Len(taken) = n
  BY <1>3, <1>4
<1>6. Distinct(taken)
  <2> SUFFICES ASSUME NEW i \in 1..n, NEW j \in 1..n, enqueued[picks[i]] = enqueued[picks[j]]
               PROVE  i = j
    BY <1>5 DEF Distinct
  <2>1. picks[i] = picks[j]
    BY <1>4 DEF QueueIInv, Books, Distinct
  <2>2. \A k, l \in 1..n : k < l => picks[k] < picks[l]
    BY <1>2, <1>4 DEF Queue!Oldest
  <2>3. ~(i < j) /\ ~(j < i)
    BY <1>3, <1>4, <2>1, <2>2
  <2> QED BY <1>3, <2>3
<1>7. In(taken) = {enqueued[picks[i]] : i \in 1..n}
  BY <1>5 DEF In
<1>8. In(taken) \subseteq {r \in In(enqueued) : Queue!Eligible(r)}
  BY <1>4, <1>7 DEF In
<1>9. In(taken) \cap Queue!Held = {r \in In(taken) : \E e \in Drains : r \in In(batch[e])}
  <2>1. \A e \in Drains : Queue!Range(batch[e]) = In(batch[e])
    BY RangeOfRows DEF QueueIInv, Books
  <2> QED BY <2>1 DEF Queue!Held
<1>10. taken # <<>>
  BY <1>3, <1>5
<1> HIDE DEF taken
<1> QED BY <1>2, <1>3, <1>5, <1>6, <1>7, <1>8, <1>9, <1>10 DEF taken

LEMMA QueueSelectPreserves ==
  ASSUME QueueIInv, NEW d \in Drains, Queue!Select(d) PROVE QueueIInv'
<1>1. PICK taken \in Seq(Rows) :
           /\ Distinct(taken) /\ Len(taken) <= DrainBatch /\ taken # <<>>
           /\ In(taken) \subseteq {r \in In(enqueued) : Queue!Eligible(r)}
           /\ batch' = [batch EXCEPT ![d] = taken]
           /\ seen' = [seen EXCEPT ![d] =
                [r \in Rows |-> IF r \in In(taken) THEN attempts[r] ELSE 0]]
           /\ shared' = shared \cup
                {r \in In(taken) : \E e \in Drains : r \in In(batch[e])}
  BY SelectTakes
<1>2. /\ batch[d] = <<>>
      /\ UNCHANGED <<enqueued, row, attempts, receipt, step, asked, uncounted, cut>>
  BY DEF Queue!Select
<1>3. In(enqueued) \subseteq Rows /\ step[d] = "count" /\ In(batch[d]) = {}
  BY <1>2 DEF QueueIInv, Books, Ready, In
<1>4. \A r \in In(taken) : /\ r \in In(enqueued) /\ r \in Rows
                           /\ row[r] = "pending" /\ attempts[r] < MaxAttempts
  BY <1>1, <1>3 DEF Queue!Eligible
<1>5. \A e \in Drains : batch'[e] = IF e = d THEN taken ELSE batch[e]
  BY <1>1 DEF QueueIInv, Books
<1>6. \A e \in Drains, r \in Rows :
        seen'[e][r] = IF e # d THEN seen[e][r] ELSE IF r \in In(taken) THEN attempts[r] ELSE 0
  BY <1>1 DEF QueueIInv, Counters
<1>7. Books'
  <2>1. batch' \in [Drains -> Seq(Rows)]
    BY <1>1 DEF QueueIInv, Books
  <2>2. \A e \in Drains : Distinct(batch[e]) /\ In(batch[e]) \subseteq In(enqueued)
                          /\ Len(batch[e]) <= DrainBatch
    BY DEF QueueIInv, Books
  <2>3. In(taken) \subseteq In(enqueued)
    BY <1>4
  <2> QED BY <1>1, <1>2, <1>5, <2>1, <2>2, <2>3 DEF QueueIInv, Books
<1>8. QueueTypes'
  BY <1>1, <1>2, <1>4 DEF QueueIInv, QueueTypes
<1>9. Counters'
  <2>1. seen' \in [Drains -> [Rows -> 0..MaxAttempts]]
    BY <1>1, QueueConstants DEF QueueIInv, Counters
  <2>2. ASSUME NEW e \in Drains, NEW r \in In(batch'[e]) PROVE seen'[e][r] < MaxAttempts
    <3>1. CASE e = d
      BY <1>4, <1>5, <1>6, <2>2, <3>1
    <3>2. CASE e # d
      <4>1. r \in In(batch[e]) /\ r \in Rows
        BY <1>3, <1>5, <2>2, <3>2 DEF QueueIInv, Books
      <4> QED BY <1>6, <3>2, <4>1 DEF QueueIInv, Counters
    <3> QED BY <3>1, <3>2
  <2> QED BY <1>2, <2>1, <2>2 DEF QueueIInv, Counters
<1>10. Ready'
  BY <1>1, <1>2, <1>5 DEF QueueIInv, Ready
<1>11. \A r \in Rows \ shared', e \in Drains : r \in In(taken) => r \notin In(batch[e])
  BY <1>1
<1>12. OneDrain'
  BY <1>1, <1>5, <1>11 DEF QueueIInv, OneDrain
<1>13. \A S : \A e \in Drains, r \in Rows :
         QueueReached(e, r, S)' <=> IF e = d THEN r \in In(taken) /\ "count" \in S
                               ELSE QueueReached(e, r, S)
  BY <1>2, <1>3, <1>5 DEF QueueReached
<1>14. shared \subseteq shared'
  BY <1>1
<1>15. AttemptsAreCounted'
  BY <1>2, <1>6, <1>13, <1>14 DEF QueueIInv, AttemptsAreCounted
<1>16. NotJudgedYet'
  BY <1>2, <1>4, <1>13, <1>14 DEF QueueIInv, NotJudgedYet
<1>17. ToldWhatIsWritten'
  <2> SUFFICES ASSUME NEW r \in Rows \ (shared' \cup cut')
               PROVE  /\ (\A e \in Drains : r \notin In(batch'[e])) =>
                           receipt'[r] = IF row'[r] \in Queue!Verdicts THEN row'[r]
                             ELSE "null"
                      /\ \A e \in Drains : r \in In(batch'[e]) => receipt'[r] = "null"
                      /\ \A e \in Drains, v \in Queue!Verdicts : QueueReached(e, r, {v})' =>
                           row'[r] = v
    BY DEF ToldWhatIsWritten
  <2>1. r \in Rows \ (shared \cup cut)
    BY <1>2, <1>14
  <2>2. /\ (\A e \in Drains : r \notin In(batch[e])) =>
             receipt[r] = IF row[r] \in Queue!Verdicts THEN row[r] ELSE "null"
        /\ \A e \in Drains : r \in In(batch[e]) => receipt[r] = "null"
        /\ \A e \in Drains, v \in Queue!Verdicts : QueueReached(e, r, {v}) => row[r] = v
    BY <2>1 DEF QueueIInv, ToldWhatIsWritten
  <2>3. r \in In(taken) => receipt[r] = "null"
    BY <1>4, <1>11, <2>2 DEF Queue!Verdicts
  <2>4. \A e \in Drains, v \in Queue!Verdicts : QueueReached(e, r, {v})' => row'[r] = v
    BY <1>2, <1>13, <2>2 DEF Queue!Verdicts
  <2> QED BY <1>2, <1>3, <1>5, <2>2, <2>3, <2>4
<1> QED BY <1>7, <1>8, <1>9, <1>10, <1>12, <1>15, <1>16, <1>17 DEF QueueIInv

(* The row at the head of a drain's batch, if it is not shared, is in no   *)
(* other batch and no further down in this one.                            *)
LEMMA AtTheHead ==
  ASSUME QueueIInv, NEW d \in Drains, batch[d] # <<>>
  PROVE  LET h == Head(batch[d]) IN
         /\ h \in Rows /\ h \in In(batch[d]) /\ seen[d][h] < MaxAttempts
         /\ Tail(batch[d]) \in Seq(Rows) /\ Distinct(Tail(batch[d]))
         /\ In(Tail(batch[d])) = In(batch[d]) \ {h} /\ Len(Tail(batch[d])) <= DrainBatch
         /\ h \notin shared => \A e \in Drains : h \in In(batch[e]) => e = d
<1>1. batch[d] \in Seq(Rows) /\ Distinct(batch[d]) /\ Len(batch[d]) <= DrainBatch
  BY DEF QueueIInv, Books
<1>2. Len(batch[d]) \in Nat /\ DrainBatch \in Nat
  BY <1>1, QueueConstants
<1> QED BY <1>1, <1>2, TakeHead DEF QueueIInv, Counters, OneDrain

LEMMA QueueCountPreserves ==
  ASSUME QueueIInv, NEW d \in Drains, Queue!Count(d) PROVE QueueIInv'
<1>1. batch[d] # <<>> /\ step[d] = "count"
  BY DEF Queue!Count, Queue!At
<1>0. PICK h \in Rows : h = Head(batch[d])
  BY <1>1, AtTheHead
<1>2. /\ h \in Rows /\ h \in In(batch[d]) /\ seen[d][h] < MaxAttempts
      /\ h \notin shared => \A e \in Drains : h \in In(batch[e]) => e = d
  BY <1>0, <1>1, AtTheHead
<1>3. /\ \/ attempts' = [attempts EXCEPT ![h] = seen[d][h] + 1] /\ uncounted' = uncounted
         \/ uncounted' = uncounted \cup {h} /\ attempts' = attempts
      /\ step' = [step EXCEPT ![d] = "ask"]
      /\ asked' = [asked EXCEPT ![h] = IF @ > MaxAttempts THEN @ ELSE @ + 1]
      /\ UNCHANGED <<enqueued, row, receipt, batch, seen, shared, cut>>
  BY <1>0 DEF Queue!Count
<1>4. Books' /\ OneDrain'
  BY <1>3 DEF QueueIInv, Books, OneDrain
<1>5. QueueTypes'
  BY <1>2, <1>3 DEF QueueIInv, QueueTypes
<1>6. Counters'
  BY <1>2, <1>3, QueueConstants DEF QueueIInv, Counters
<1>7. Ready'
  BY <1>1, <1>3 DEF QueueIInv, Ready, QueueTypes
<1>8. \A e \in Drains, r \in Rows : (r # h \/ e # d) =>
        /\ QueueReached(e, r, {"count"})' <=> QueueReached(e, r, {"count"})
        /\ QueueReached(e, r, {"count", "ask"})' <=> QueueReached(e, r, {"count", "ask"})
        /\ \A v \in Queue!Verdicts : QueueReached(e, r, {v})' <=> QueueReached(e, r, {v})
  BY <1>0, <1>3 DEF QueueIInv, QueueTypes, QueueReached
<1>9. /\ ~QueueReached(d, h, {"count"})' /\ QueueReached(d, h, {"count"})
      /\ QueueReached(d, h, {"count", "ask"})
      /\ \A v \in Queue!Verdicts : ~QueueReached(d, h, {v})'
  BY <1>0, <1>1, <1>2, <1>3 DEF QueueReached, QueueIInv, QueueTypes, Queue!Verdicts
<1>10. h \notin shared => \A e \in Drains : e # d =>
         /\ ~QueueReached(e, h, {"count"})' /\ ~QueueReached(e, h, {"count", "ask"})'
         /\ \A v \in Queue!Verdicts : ~QueueReached(e, h, {v})'
  <2> SUFFICES ASSUME h \notin shared, NEW e \in Drains, e # d PROVE h \notin In(batch'[e])
    BY DEF QueueReached
  <2> QED BY <1>2, <1>3
<1>11. AttemptsAreCounted'
  <2>1. ASSUME NEW r \in Rows \ (shared \cup uncounted') PROVE asked'[r] = attempts'[r]
    <3>1. asked[r] = attempts[r] /\ attempts[r] \in Nat
      BY <1>3, <2>1, QueueConstants DEF QueueIInv, AttemptsAreCounted, Counters
    <3>2. CASE r = h
      <4>1. attempts[h] = seen[d][h] /\ attempts'[h] = seen[d][h] + 1
        BY <1>2, <1>3, <1>9, <2>1, <3>2 DEF QueueIInv, AttemptsAreCounted, Counters
      <4>2. asked'[h] = IF asked[h] > MaxAttempts THEN asked[h] ELSE asked[h] + 1
        BY <1>2, <1>3 DEF QueueIInv, Counters
      <4> QED BY <1>2, <3>1, <3>2, <4>1, <4>2, QueueConstants
    <3>3. CASE r # h
      BY <1>3, <3>1, <3>3 DEF QueueIInv, Counters
    <3> QED BY <3>2, <3>3
  <2>2. ASSUME NEW r \in Rows \ shared, NEW e \in Drains, QueueReached(e, r, {"count"})'
        PROVE  attempts'[r] = seen'[e][r]
    <3>1. r # h /\ QueueReached(e, r, {"count"})
      BY <1>8, <1>9, <1>10, <2>2
    <3> QED BY <1>3, <2>2, <3>1 DEF QueueIInv, AttemptsAreCounted, Counters
  <2> QED BY <1>3, <2>1, <2>2 DEF AttemptsAreCounted
<1>12. NotJudgedYet'
  BY <1>3, <1>8, <1>9, <1>10 DEF QueueIInv, NotJudgedYet
<1>13. ToldWhatIsWritten'
  BY <1>3, <1>8, <1>9, <1>10 DEF QueueIInv, ToldWhatIsWritten
<1> QED BY <1>4, <1>5, <1>6, <1>7, <1>11, <1>12, <1>13 DEF QueueIInv

LEMMA EvaluatedPreserves ==
  ASSUME QueueIInv, NEW d \in Drains, NEW v \in Queue!Verdicts, Queue!Evaluated(d, v)
  PROVE  QueueIInv'
<1>1. batch[d] # <<>> /\ step[d] = "ask"
  BY DEF Queue!Evaluated, Queue!At
<1>0. PICK h \in Rows : h = Head(batch[d])
  BY <1>1, AtTheHead
<1>2. /\ h \in Rows /\ h \in In(batch[d])
      /\ h \notin shared => \A e \in Drains : h \in In(batch[e]) => e = d
  BY <1>0, <1>1, AtTheHead
<1>3. /\ \/ row' = [row EXCEPT ![h] = v] /\ cut' = cut
         \/ cut' = cut \cup {h} /\ row' = row
      /\ step' = [step EXCEPT ![d] = v]
      /\ UNCHANGED <<enqueued, attempts, receipt, batch, seen, asked, shared, uncounted>>
  BY <1>0 DEF Queue!Evaluated
<1>4. v # "count" /\ v # "ask"
  BY DEF Queue!Verdicts
<1>5. Books' /\ OneDrain' /\ Counters'
  BY <1>3 DEF QueueIInv, Books, OneDrain, Counters
<1>6. QueueTypes'
  BY <1>2, <1>3 DEF QueueIInv, QueueTypes
<1>7. Ready'
  BY <1>1, <1>3 DEF QueueIInv, Ready, QueueTypes
<1>8. \A e \in Drains, r \in Rows : (r # h \/ e # d) =>
        /\ QueueReached(e, r, {"count"})' <=> QueueReached(e, r, {"count"})
        /\ QueueReached(e, r, {"count", "ask"})' <=> QueueReached(e, r, {"count", "ask"})
        /\ \A w \in Queue!Verdicts : QueueReached(e, r, {w})' <=> QueueReached(e, r, {w})
  BY <1>0, <1>3 DEF QueueIInv, QueueTypes, QueueReached
<1>9. /\ ~QueueReached(d, h, {"count"})' /\ ~QueueReached(d, h, {"count", "ask"})'
      /\ \A w \in Queue!Verdicts : QueueReached(d, h, {w})' => w = v
  BY <1>0, <1>1, <1>2, <1>3, <1>4 DEF QueueReached, QueueIInv, QueueTypes
<1>h. h \notin shared => \A e \in Drains : e # d =>
         /\ ~QueueReached(e, h, {"count"})' /\ ~QueueReached(e, h, {"count", "ask"})'
         /\ \A w \in Queue!Verdicts : ~QueueReached(e, h, {w})'
  <2> SUFFICES ASSUME h \notin shared, NEW e \in Drains, e # d PROVE h \notin In(batch'[e])
    BY DEF QueueReached
  <2> QED BY <1>2, <1>3
<1>10. AttemptsAreCounted'
  BY <1>3, <1>8, <1>9, <1>h DEF QueueIInv, AttemptsAreCounted
<1>11. \A r \in Rows : r # h => row'[r] = row[r]
  BY <1>3 DEF QueueIInv, QueueTypes
<1>12. NotJudgedYet'
  BY <1>3, <1>8, <1>9, <1>h, <1>11 DEF QueueIInv, NotJudgedYet
<1>13. ToldWhatIsWritten'
  <2> SUFFICES ASSUME NEW r \in Rows \ (shared \cup cut')
               PROVE  /\ (\A e \in Drains : r \notin In(batch[e])) =>
                           receipt[r] = IF row'[r] \in Queue!Verdicts THEN row'[r] ELSE "null"
                      /\ \A e \in Drains : r \in In(batch[e]) => receipt[r] = "null"
                      /\ \A e \in Drains, w \in Queue!Verdicts : QueueReached(e, r, {w})' =>
                           row'[r] = w
    BY <1>3 DEF ToldWhatIsWritten
  <2>1. r \in Rows \ (shared \cup cut)
    BY <1>3
  <2>2. CASE r = h
    <3>1. row'[h] = v
      BY <1>2, <1>3, <2>2 DEF QueueIInv, QueueTypes
    <3> QED BY <1>2, <1>9, <1>h, <2>1, <2>2, <3>1 DEF QueueIInv, ToldWhatIsWritten
  <2>3. CASE r # h
    BY <1>8, <1>11, <2>1, <2>3 DEF QueueIInv, ToldWhatIsWritten
  <2> QED BY <2>2, <2>3
<1> QED BY <1>5, <1>6, <1>7, <1>10, <1>12, <1>13 DEF QueueIInv

(* Leaving a row keeps what does not depend on its outcome.                *)
LEMMA AdvanceKeeps ==
  ASSUME QueueIInv, NEW d \in Drains, NEW h \in Rows, batch[d] # <<>>, h = Head(batch[d]),
         Queue!Advance(d), UNCHANGED <<enqueued, attempts, asked, shared, uncounted>>
  PROVE  /\ Books' /\ OneDrain' /\ Ready' /\ Counters' /\ AttemptsAreCounted'
         /\ step' \in [Drains -> {"count", "ask"} \cup Queue!Verdicts]
         /\ \A e \in Drains, r \in Rows :
              r \in In(batch'[e]) <=> r \in In(batch[e]) /\ (r # h \/ e # d)
         /\ \A e \in Drains, r \in Rows : r # h \/ e # d =>
              /\ QueueReached(e, r, {"count", "ask"})' <=>
                   QueueReached(e, r, {"count", "ask"})
              /\ \A w \in Queue!Verdicts : QueueReached(e, r, {w})' <=>
                   QueueReached(e, r, {w})
         /\ ~QueueReached(d, h, {"count", "ask"})' /\ \A w \in Queue!Verdicts :
              ~QueueReached(d, h, {w})'
<1>1. /\ batch' = [batch EXCEPT ![d] = Tail(batch[d])]
      /\ seen' = [seen EXCEPT ![d][h] = 0]
      /\ step' = [step EXCEPT ![d] = "count"]
  BY DEF Queue!Advance
<1>2. /\ h \in In(batch[d]) /\ Tail(batch[d]) \in Seq(Rows) /\ Distinct(Tail(batch[d]))
      /\ In(Tail(batch[d])) = In(batch[d]) \ {h} /\ Len(Tail(batch[d])) <= DrainBatch
      /\ h \notin shared => \A e \in Drains : h \in In(batch[e]) => e = d
  BY AtTheHead
<1>3. /\ batch' \in [Drains -> Seq(Rows)]
      /\ \A e \in Drains : batch'[e] = IF e = d THEN Tail(batch[d]) ELSE batch[e]
  BY <1>1, <1>2 DEF QueueIInv, Books
<1>4. /\ step' \in [Drains -> {"count", "ask"} \cup Queue!Verdicts]
      /\ \A e \in Drains : step'[e] = IF e = d THEN "count" ELSE step[e]
  BY <1>1 DEF QueueIInv, QueueTypes
<1>5. /\ seen' \in [Drains -> [Rows -> 0..MaxAttempts]]
      /\ \A e \in Drains, r \in Rows : r # h \/ e # d => seen'[e][r] = seen[e][r]
  BY <1>1, QueueConstants DEF QueueIInv, Counters
<1>6. \A e \in Drains, r \in Rows :
        r \in In(batch'[e]) <=> r \in In(batch[e]) /\ (r # h \/ e # d)
  BY <1>2, <1>3
<1>7. \A e \in Drains : Distinct(batch[e]) /\ In(batch[e]) \subseteq In(enqueued)
                          /\ Len(batch[e]) <= DrainBatch
  BY DEF QueueIInv, Books
<1>8. Books'
  BY <1>2, <1>3, <1>7 DEF QueueIInv, Books
<1>9. OneDrain' /\ Ready'
  BY <1>3, <1>4, <1>6 DEF QueueIInv, OneDrain, Ready
<1>10. Counters'
  <2>1. \A e \in Drains, r \in Rows : r \in In(batch'[e]) => seen'[e][r] < MaxAttempts
    BY <1>5, <1>6 DEF QueueIInv, Counters
  <2>2. \A e \in Drains : In(batch'[e]) \subseteq Rows
    BY <1>3 DEF In
  <2> QED BY <1>5, <2>1, <2>2 DEF QueueIInv, Counters
<1>11. \A e \in Drains, r \in Rows : r # h \/ e # d =>
         /\ QueueReached(e, r, {"count"})' <=> QueueReached(e, r, {"count"})
         /\ QueueReached(e, r, {"count", "ask"})' <=> QueueReached(e, r, {"count", "ask"})
         /\ \A w \in Queue!Verdicts : QueueReached(e, r, {w})' <=> QueueReached(e, r, {w})
  <2> TAKE e \in Drains, r \in Rows
  <2>1. CASE e # d
    <3>1. batch'[e] = batch[e] /\ step'[e] = step[e]
      BY <1>3, <1>4, <2>1
    <3> QED BY <3>1 DEF QueueReached
  <2>2. CASE e = d /\ r # h
    BY <1>4, <1>6, <2>2 DEF QueueReached
  <2> QED BY <2>1, <2>2
<1>12. /\ ~QueueReached(d, h, {"count"})' /\ ~QueueReached(d, h, {"count", "ask"})'
       /\ \A w \in Queue!Verdicts : ~QueueReached(d, h, {w})'
  BY <1>6 DEF QueueReached
<1>13. \A r \in Rows \ shared, e \in Drains : QueueReached(e, r, {"count"})' =>
         QueueReached(e, r, {"count"}) /\ (r # h \/ e # d)
  BY <1>11, <1>12
<1>14. AttemptsAreCounted'
  BY <1>5, <1>13 DEF QueueIInv, AttemptsAreCounted
<1> QED BY <1>4, <1>6, <1>8, <1>9, <1>10, <1>11, <1>12, <1>14

LEMMA WriteReceiptPreserves ==
  ASSUME QueueIInv, NEW d \in Drains, NEW v \in Queue!Verdicts, Queue!WriteReceipt(d, v)
  PROVE  QueueIInv'
<1>1. batch[d] # <<>> /\ step[d] = v
  BY DEF Queue!WriteReceipt, Queue!At
<1>2. PICK h \in Rows : h = Head(batch[d])
  BY <1>1, AtTheHead
<1>3. h \in In(batch[d]) /\ (h \notin shared => \A e \in Drains : h \in In(batch[e]) => e = d)
  BY <1>1, <1>2, AtTheHead
<1>4. /\ \/ receipt' = [receipt EXCEPT ![h] = v] /\ cut' = cut
         \/ cut' = cut \cup {h} /\ receipt' = receipt
      /\ Queue!Advance(d)
      /\ UNCHANGED <<enqueued, row, attempts, asked, shared, uncounted>>
  BY <1>2 DEF Queue!WriteReceipt, Queue!Tell
<1>5. /\ Books' /\ OneDrain' /\ Ready' /\ Counters' /\ AttemptsAreCounted'
      /\ step' \in [Drains -> {"count", "ask"} \cup Queue!Verdicts]
      /\ \A e \in Drains, r \in Rows :
           r \in In(batch'[e]) <=> r \in In(batch[e]) /\ (r # h \/ e # d)
      /\ \A e \in Drains, r \in Rows : r # h \/ e # d =>
           /\ QueueReached(e, r, {"count", "ask"})' <=> QueueReached(e, r, {"count", "ask"})
           /\ \A w \in Queue!Verdicts : QueueReached(e, r, {w})' <=> QueueReached(e, r, {w})
      /\ ~QueueReached(d, h, {"count", "ask"})' /\ \A w \in Queue!Verdicts :
           ~QueueReached(d, h, {w})'
  BY <1>1, <1>2, <1>4, AdvanceKeeps
<1>6. QueueTypes'
  BY <1>4, <1>5 DEF QueueIInv, QueueTypes
<1>7. NotJudgedYet'
  BY <1>4, <1>5 DEF QueueIInv, NotJudgedYet
<1>8. QueueReached(d, h, {v})
  BY <1>1, <1>2, <1>3 DEF QueueReached
<1>9. ToldWhatIsWritten'
  <2> SUFFICES ASSUME NEW r \in Rows \ (shared \cup cut')
               PROVE  /\ (\A e \in Drains : r \notin In(batch'[e])) =>
                           receipt'[r] = IF row[r] \in Queue!Verdicts THEN row[r] ELSE "null"
                      /\ \A e \in Drains : r \in In(batch'[e]) => receipt'[r] = "null"
                      /\ \A e \in Drains, w \in Queue!Verdicts : QueueReached(e, r, {w})' =>
                           row[r] = w
    BY <1>4 DEF ToldWhatIsWritten
  <2>1. r \in Rows \ (shared \cup cut)
    BY <1>4
  <2>2. /\ (\A e \in Drains : r \notin In(batch[e])) =>
             receipt[r] = IF row[r] \in Queue!Verdicts THEN row[r] ELSE "null"
        /\ \A e \in Drains : r \in In(batch[e]) => receipt[r] = "null"
        /\ \A e \in Drains, w \in Queue!Verdicts : QueueReached(e, r, {w}) => row[r] = w
    BY <2>1 DEF QueueIInv, ToldWhatIsWritten
  <2>3. CASE r = h
    <3>1. receipt'[r] = v /\ row[r] = v
      BY <1>4, <1>8, <2>2, <2>3 DEF QueueIInv, QueueTypes
    <3>2. \A e \in Drains : r \notin In(batch'[e])
      BY <1>3, <1>5, <2>1, <2>3
    <3> QED BY <1>5, <2>2, <2>3, <3>1, <3>2
  <2>4. CASE r # h
    <3>1. receipt'[r] = receipt[r]
      BY <1>4, <2>4 DEF QueueIInv, QueueTypes
    <3> QED BY <1>5, <2>2, <2>4, <3>1
  <2> QED BY <2>3, <2>4
<1> QED BY <1>5, <1>6, <1>7, <1>9 DEF QueueIInv

LEMMA ErredPreserves == ASSUME QueueIInv, NEW d \in Drains, Queue!Erred(d) PROVE QueueIInv'
<1>1. batch[d] # <<>> /\ step[d] = "ask"
  BY DEF Queue!Erred, Queue!At
<1>2. PICK h \in Rows : h = Head(batch[d])
  BY <1>1, AtTheHead
<1>3. h \in In(batch[d]) /\ (h \notin shared => \A e \in Drains : h \in In(batch[e]) => e = d)
  BY <1>1, <1>2, AtTheHead
<1>4. PICK s \in {"failed", "pending"} :
        /\ \/ row' = [row EXCEPT ![h] = s] /\ cut' = cut
           \/ cut' = cut \cup {h} /\ row' = row
        /\ Queue!Advance(d)
        /\ UNCHANGED <<enqueued, receipt, attempts, asked, shared, uncounted>>
  BY <1>2 DEF Queue!Erred, Queue!StatusAfter
<1>5. /\ Books' /\ OneDrain' /\ Ready' /\ Counters' /\ AttemptsAreCounted'
      /\ step' \in [Drains -> {"count", "ask"} \cup Queue!Verdicts]
      /\ \A e \in Drains, r \in Rows :
           r \in In(batch'[e]) <=> r \in In(batch[e]) /\ (r # h \/ e # d)
      /\ \A e \in Drains, r \in Rows : r # h \/ e # d =>
           /\ QueueReached(e, r, {"count", "ask"})' <=> QueueReached(e, r, {"count", "ask"})
           /\ \A w \in Queue!Verdicts : QueueReached(e, r, {w})' <=> QueueReached(e, r, {w})
      /\ ~QueueReached(d, h, {"count", "ask"})' /\ \A w \in Queue!Verdicts :
           ~QueueReached(d, h, {w})'
  BY <1>1, <1>2, <1>4, AdvanceKeeps
<1>6. QueueTypes'
  BY <1>4, <1>5 DEF QueueIInv, QueueTypes
<1>7. \A r \in Rows : r # h => row'[r] = row[r]
  BY <1>4 DEF QueueIInv, QueueTypes
<1>8. \A e \in Drains, r \in Rows \ shared :
        r = h => r \notin In(batch'[e])
  BY <1>3, <1>5
<1>9. NotJudgedYet'
  <2> SUFFICES ASSUME NEW r \in Rows \ shared, NEW e \in Drains,
                      QueueReached(e, r, {"count", "ask"})'
               PROVE  row'[r] = "pending"
    BY <1>4 DEF NotJudgedYet
  <2>1. r # h
    BY <1>8 DEF QueueReached
  <2> QED BY <1>5, <1>7, <2>1 DEF QueueIInv, NotJudgedYet
<1>10. ToldWhatIsWritten'
  <2> SUFFICES ASSUME NEW r \in Rows \ (shared \cup cut')
               PROVE  /\ (\A e \in Drains : r \notin In(batch'[e])) =>
                           receipt[r] = IF row'[r] \in Queue!Verdicts THEN row'[r] ELSE "null"
                      /\ \A e \in Drains : r \in In(batch'[e]) => receipt[r] = "null"
                      /\ \A e \in Drains, w \in Queue!Verdicts : QueueReached(e, r, {w})' =>
                           row'[r] = w
    BY <1>4 DEF ToldWhatIsWritten
  <2>1. r \in Rows \ (shared \cup cut)
    BY <1>4
  <2>2. /\ (\A e \in Drains : r \notin In(batch[e])) =>
             receipt[r] = IF row[r] \in Queue!Verdicts THEN row[r] ELSE "null"
        /\ \A e \in Drains : r \in In(batch[e]) => receipt[r] = "null"
        /\ \A e \in Drains, w \in Queue!Verdicts : QueueReached(e, r, {w}) => row[r] = w
    BY <2>1 DEF QueueIInv, ToldWhatIsWritten
  <2>3. CASE r = h
    <3>1. receipt[r] = "null" /\ row'[r] \notin Queue!Verdicts
      BY <1>3, <1>4, <2>2, <2>3 DEF QueueIInv, QueueTypes, Queue!Verdicts
    <3>2. \A e \in Drains, w \in Queue!Verdicts : ~QueueReached(e, r, {w})'
      BY <1>8, <2>1, <2>3 DEF QueueReached
    <3> QED BY <3>1, <3>2
  <2>4. CASE r # h
    BY <1>5, <1>7, <2>2, <2>4
  <2> QED BY <2>3, <2>4
<1> QED BY <1>5, <1>6, <1>9, <1>10 DEF QueueIInv

LEMMA DiePreserves == ASSUME QueueIInv, NEW d \in Drains, Queue!Die(d) PROVE QueueIInv'
<1>1. batch[d] # <<>>
  BY DEF Queue!Die
<1>2. PICK h \in Rows : h = Head(batch[d])
  BY <1>1, AtTheHead
<1>3. /\ cut' = cut \cup {h}
      /\ batch' = [batch EXCEPT ![d] = <<>>]
      /\ seen' = [seen EXCEPT ![d] = [r \in Rows |-> 0]]
      /\ step' = [step EXCEPT ![d] = "count"]
      /\ UNCHANGED <<enqueued, row, attempts, receipt, asked, shared, uncounted>>
  BY <1>2 DEF Queue!Die
<1>4. /\ batch' \in [Drains -> Seq(Rows)]
      /\ \A e \in Drains : batch'[e] = IF e = d THEN <<>> ELSE batch[e]
  BY <1>3 DEF QueueIInv, Books
<1>5. In(<<>>) = {} /\ Distinct(<<>>) /\ Len(<<>>) = 0
  BY DEF In, Distinct
<1>6. Books'
  <2>1. \A e \in Drains : Distinct(batch[e]) /\ In(batch[e]) \subseteq In(enqueued)
                          /\ Len(batch[e]) <= DrainBatch
    BY DEF QueueIInv, Books
  <2> QED BY <1>3, <1>4, <1>5, <2>1, QueueConstants DEF QueueIInv, Books
<1>7. QueueTypes'
  BY <1>3 DEF QueueIInv, QueueTypes
<1>8. \A e \in Drains, r \in Rows :
        r \in In(batch'[e]) <=> e # d /\ r \in In(batch[e])
  BY <1>4, <1>5
<1>9. Counters'
  <2>1. seen' \in [Drains -> [Rows -> 0..MaxAttempts]]
    BY <1>3, QueueConstants DEF QueueIInv, Counters
  <2>2. \A e \in Drains : \A r \in In(batch'[e]) : seen'[e][r] < MaxAttempts
    BY <1>3, <1>4, <1>5 DEF QueueIInv, Counters
  <2> QED BY <1>3, <2>1, <2>2 DEF QueueIInv, Counters
<1>10. Ready' /\ OneDrain'
  BY <1>3, <1>4, <1>8 DEF QueueIInv, Ready, OneDrain, QueueTypes
<1>11. \A e \in Drains, r \in Rows :
         /\ QueueReached(e, r, {"count"})' <=> e # d /\ QueueReached(e, r, {"count"})
         /\ QueueReached(e, r, {"count", "ask"})' <=>
              e # d /\ QueueReached(e, r, {"count", "ask"})
         /\ \A w \in Queue!Verdicts : QueueReached(e, r, {w})' <=>
              e # d /\ QueueReached(e, r, {w})
  <2> TAKE e \in Drains, r \in Rows
  <2>1. CASE e # d
    <3>1. batch'[e] = batch[e] /\ step'[e] = step[e]
      BY <1>3, <1>4, <2>1 DEF QueueIInv, QueueTypes
    <3> QED BY <2>1, <3>1 DEF QueueReached
  <2>2. CASE e = d
    BY <1>8, <2>2 DEF QueueReached
  <2> QED BY <2>1, <2>2
<1>12. \A e \in Drains, r \in Rows : e # d => seen'[e][r] = seen[e][r]
  BY <1>3 DEF QueueIInv, Counters
<1>13. AttemptsAreCounted'
  BY <1>3, <1>11, <1>12 DEF QueueIInv, AttemptsAreCounted
<1>14. NotJudgedYet'
  BY <1>3, <1>11 DEF QueueIInv, NotJudgedYet
<1>15. ToldWhatIsWritten'
  <2> SUFFICES ASSUME NEW r \in Rows \ (shared \cup cut')
               PROVE  /\ (\A e \in Drains : r \notin In(batch'[e])) =>
                           receipt[r] = IF row[r] \in Queue!Verdicts THEN row[r] ELSE "null"
                      /\ \A e \in Drains : r \in In(batch'[e]) => receipt[r] = "null"
                      /\ \A e \in Drains, w \in Queue!Verdicts : QueueReached(e, r, {w})' =>
                           row[r] = w
    BY <1>3 DEF ToldWhatIsWritten
  <2>1. r \in Rows \ (shared \cup cut) /\ r # h
    BY <1>3
  <2>2. /\ (\A e \in Drains : r \notin In(batch[e])) =>
             receipt[r] = IF row[r] \in Queue!Verdicts THEN row[r] ELSE "null"
        /\ \A e \in Drains : r \in In(batch[e]) => receipt[r] = "null"
        /\ \A e \in Drains, w \in Queue!Verdicts : QueueReached(e, r, {w}) => row[r] = w
    BY <2>1 DEF QueueIInv, ToldWhatIsWritten
  <2>3. r \in In(batch[d]) => row[r] = "pending" /\ receipt[r] = "null"
    BY <1>2, <2>1, <2>2 DEF QueueIInv, NotJudgedYet, QueueReached
  <2> QED BY <1>8, <1>11, <2>2, <2>3 DEF Queue!Verdicts
<1> QED BY <1>6, <1>7, <1>9, <1>10, <1>13, <1>14, <1>15 DEF QueueIInv

LEMMA QueueNextPreserves == QueueIInv /\ [Queue!Next]_Queue!vars => QueueIInv'
<1> SUFFICES ASSUME QueueIInv, [Queue!Next]_Queue!vars PROVE QueueIInv'
  OBVIOUS
<1>1. CASE UNCHANGED Queue!vars
  <2>1. UNCHANGED <<enqueued, row, attempts, receipt, batch, seen, step, asked, shared,
                    uncounted, cut>>
    BY <1>1 DEF Queue!vars, Queue!drainVars, Queue!histories
  <2>2. Books' /\ QueueTypes' /\ Counters' /\ Ready' /\ OneDrain'
    BY <2>1 DEF QueueIInv, Books, QueueTypes, Counters, Ready, OneDrain
  <2>3. AttemptsAreCounted' /\ NotJudgedYet' /\ ToldWhatIsWritten'
    BY <2>1 DEF QueueIInv, AttemptsAreCounted, NotJudgedYet, ToldWhatIsWritten, QueueReached
  <2> QED BY <2>2, <2>3 DEF QueueIInv
<1>2. ASSUME NEW r \in Rows, Queue!Enqueue(r) PROVE QueueIInv'
  BY <1>2, EnqueuePreserves
<1>3. ASSUME NEW d \in Drains, Queue!DrainStep(d) PROVE QueueIInv'
  BY <1>3, QueueSelectPreserves, QueueCountPreserves, ErredPreserves, EvaluatedPreserves,
     WriteReceiptPreserves DEF Queue!DrainStep
<1>4. ASSUME NEW d \in Drains, Queue!Die(d) PROVE QueueIInv'
  BY <1>4, DiePreserves
<1>5. CASE Queue!Empty
  BY <1>1, <1>5 DEF Queue!Empty
<1> QED BY <1>1, <1>2, <1>3, <1>4, <1>5 DEF Queue!Next

THEOREM QueueInvariance == Queue!Spec => []QueueIInv
<1> QED BY QueueInitEstablishes, QueueNextPreserves, PTL DEF Queue!Spec

(* TypeOK.                                                                 *)
THEOREM QueueTypeCorrect == Queue!Spec => []Queue!TypeOK
<1> QED BY QueueInvariance, QueueIInvTypes, PTL

(* AttemptsAreBounded: a drain asks the panel about a row only when the    *)
(* attempts it selected were below the cap, and they are what was asked.   *)
THEOREM AskedNoMoreThanTheCap == Queue!Spec => []Queue!AttemptsAreBounded
<1>1. QueueIInv => Queue!AttemptsAreBounded
  BY QueueConstants DEF QueueIInv, AttemptsAreCounted, Queue!AttemptsAreBounded, Counters
<1> QED BY <1>1, QueueInvariance, PTL

(* ReceiptAgreesWithRow: a drain that writes a verdict to the row goes on  *)
(* to the receipt with the same verdict, or is among those cut.            *)
THEOREM TheReceiptSaysIt == Queue!Spec => []Queue!ReceiptAgreesWithRow
<1>1. QueueIInv => Queue!ReceiptAgreesWithRow
  <2> SUFFICES ASSUME QueueIInv, NEW r \in Rows \ (shared \cup cut \cup Queue!Held)
               PROVE  receipt[r] = IF row[r] \in Queue!Verdicts THEN row[r] ELSE "null"
    BY DEF Queue!ReceiptAgreesWithRow
  <2>1. \A e \in Drains : Queue!Range(batch[e]) = In(batch[e])
    BY RangeOfRows DEF QueueIInv, Books
  <2>2. \A e \in Drains : r \notin In(batch[e])
    BY <2>1 DEF Queue!Held
  <2> QED BY <2>2 DEF QueueIInv, ToldWhatIsWritten
<1> QED BY <1>1, QueueInvariance, PTL

(* VerdictsStand: a row whose verdict is written over was in the hands of  *)
(* two drains.                                                             *)
THEOREM JudgedOnce == Queue!Spec => Queue!VerdictsStand
<1>1. QueueIInv /\ [Queue!Next]_Queue!vars =>
        [\A r \in Rows : row[r] \in Queue!Verdicts /\ row'[r] # row[r] =>
          r \in shared]_Queue!vars
  <2> SUFFICES ASSUME QueueIInv, Queue!Next, NEW r \in Rows \ shared, row'[r] # row[r]
               PROVE  row[r] \notin Queue!Verdicts
    BY DEF Queue!vars
  <2>1. PICK d \in Drains : Queue!At(d, "ask") /\ (row' # row => r = Head(batch[d]))
    <3>1. \E d \in Drains : Queue!Erred(d) \/ \E v \in Queue!Verdicts : Queue!Evaluated(d, v)
      BY DEF Queue!Next, Queue!DrainStep, Queue!Enqueue, Queue!Select, Queue!Count,
         Queue!WriteReceipt, Queue!Die, Queue!Empty, Queue!vars
    <3> QED BY <3>1 DEF Queue!Erred, Queue!Evaluated, QueueIInv, QueueTypes
  <2>2. r \in In(batch[d]) /\ QueueReached(d, r, {"count", "ask"})
    BY <2>1, AtTheHead DEF Queue!At, QueueReached
  <2> QED BY <2>2 DEF QueueIInv, NotJudgedYet, Queue!Verdicts
<1> QED BY <1>1, QueueInvariance, PTL DEF Queue!Spec, Queue!VerdictsStand

-----------------------------------------------------------------------------
(***************************************************************************)
(* Payments are accounted for, for any requests, amounts and limits.       *)
(***************************************************************************)

LEMMA PaymentConstants ==
  Amount \in [Payments -> Nat \ {0}] /\ DailyLimit \in Nat /\ MaxScore \in Nat
BY ServicesAssumption DEF Paying!PaymentAssumption

(* The component counts and adds with the library's definitions.           *)
LEMMA PaymentCardinality == \A S : Paying!Cardinality(S) = Cardinality(S)
BY DEF Paying!Cardinality, Cardinality, Paying!IsFiniteSet, IsFiniteSet

LEMMA TotalIsSum == \A S : Paying!Total(S) = Sum(Amount, S)
BY DEF Paying!Total, Sum, MapThenSumSet, MapThenFoldSet, Paying!MapThenSumSet,
   Paying!MapThenFoldSet

(* Requests the limits let through.                                        *)
Active == {p \in Payments : stage[p] \notin {"new", "denied"}}

(* Requests that each saw every other one of the set keep within the       *)
(* limit: the last of them to be validated counted all the rest.           *)
SeenKeepTheLimit ==
  \A Q \in SUBSET Active :
    (\A p, q \in Q : q \notin unseen[p]) => Sum(Amount, Q) <= DailyLimit

(* How far a request is tells what it left behind.                         *)
Early == {"new", "denied", "validated", "authorized", "executed"}
PayingWritten == {"recorded", "enqueued", "claimed", "read", "approved"}

Progress ==
  /\ \A p \in Payments : stage[p] \in Early => bft[p] = "none"
  /\ \A p \in Payments : stage[p] \in PayingWritten => bft[p] # "none"
  /\ \A p \in moved : stage[p] \notin {"new", "denied", "validated", "authorized"}
  /\ \A p \in queued : bft[p] # "none" /\ ~evaluated[p] /\ stage[p] # "recorded"

(* A verdict on the receipt of a payment that was voted on is the one it   *)
(* was moved with, and only such a payment comes to the score.             *)
Earnings ==
  /\ \A p \in Payments : settlement[p] = "confirmed" => p \in moved
  /\ \A p \in Payments : evaluated[p] /\ bft[p] # "none" => bft[p] = "true"
  /\ \A p \in claimed : Paying!Earned(p) /\ bft[p] # "none"
  /\ \A p \in Payments : stage[p] \in {"claimed", "read"} => p \in claimed
  /\ \A p \in credited : p \in claimed /\ stage[p] = "approved"

PayingScores ==
  /\ IsFiniteSet(credited)
  /\ score <= Cardinality(credited)
  /\ \A p \in Payments : read[p] <= Cardinality(credited)
  /\ ~overlapped => \A p \in Payments : stage[p] = "read" =>
       /\ read[p] = score
       /\ \A q \in Payments : stage[q] = "read" => q = p
  /\ ~overlapped => \/ score = Cardinality(credited)
                    \/ score = MaxScore /\ score < Cardinality(credited)

PayingIInv == Paying!TypeOK /\ IsFiniteSet(Active) /\ SeenKeepTheLimit /\ Progress /\ Earnings
  /\ PayingScores

LEMMA PayingInitEstablishes == Paying!Init => PayingIInv
<1> SUFFICES ASSUME Paying!Init PROVE PayingIInv
  OBVIOUS
<1> USE DEF Paying!Init
<1>1. Paying!TypeOK
  <2>1. score \in 0..MaxScore /\ read \in [Payments -> 0..MaxScore]
    BY PaymentConstants
  <2>2. enforcing \in BOOLEAN /\ overlapped \in BOOLEAN /\ evaluated \in [Payments -> BOOLEAN]
    OBVIOUS
  <2> QED BY <2>1, <2>2 DEF Paying!TypeOK, Paying!Settlements, Paying!Answers
<1>2. Active = {}
  BY DEF Active
<1>3. IsFiniteSet(Active) /\ SeenKeepTheLimit
  <2>1. \A Q \in SUBSET {} : Q = {}
    OBVIOUS
  <2>2. Sum(Amount, {}) = 0
    BY SumOfNone
  <2> QED BY <1>2, <2>1, <2>2, FS_EmptySet, PaymentConstants DEF SeenKeepTheLimit
<1>4. Progress /\ Earnings
  BY DEF Progress, Earnings, Early, PayingWritten
<1>5. PayingScores
  BY FS_EmptySet DEF PayingScores
<1> QED BY <1>1, <1>3, <1>4, <1>5 DEF PayingIInv

LEMMA TypeStep == Paying!TypeOK /\ [Paying!Next]_Paying!vars => Paying!TypeOK'
<1> SUFFICES ASSUME Paying!TypeOK, [Paying!Next]_Paying!vars PROVE Paying!TypeOK'
  OBVIOUS
<1> USE DEF Paying!TypeOK, Paying!Go, Paying!Answers, Paying!Settlements, Paying!receiptVars,
      Paying!scoreVars
<1>1. ASSUME NEW p \in Payments, Paying!Validate(p) PROVE Paying!TypeOK'
  BY <1>1 DEF Paying!Validate
<1>2. ASSUME NEW p \in Payments, Paying!Authorize(p) PROVE Paying!TypeOK'
  <2>1. evaluated' \in [Payments -> BOOLEAN]
    BY <1>2 DEF Paying!Authorize
  <2> QED BY <1>2, <2>1 DEF Paying!Authorize
<1>3. ASSUME NEW p \in Payments, Paying!Execute(p) PROVE Paying!TypeOK'
  BY <1>3 DEF Paying!Execute
<1>4. ASSUME NEW p \in Payments, Paying!WriteReceipt(p) PROVE Paying!TypeOK'
  BY <1>4 DEF Paying!WriteReceipt, Paying!StageWithoutReceipt
<1>5. ASSUME NEW p \in Payments, Paying!Enqueue(p) \/ Paying!Vote(p) PROVE Paying!TypeOK'
  BY <1>5 DEF Paying!Enqueue, Paying!Vote
<1>6. ASSUME NEW p \in Payments, Paying!Claim(p) PROVE Paying!TypeOK'
  BY <1>6 DEF Paying!Claim
<1>7. ASSUME NEW p \in Payments, Paying!ReadScore(p) PROVE Paying!TypeOK'
  <2>1. overlapped' \in BOOLEAN
    BY <1>7 DEF Paying!ReadScore
  <2> QED BY <1>7, <2>1 DEF Paying!ReadScore
<1>8. ASSUME NEW p \in Payments, Paying!WriteScore(p) PROVE Paying!TypeOK'
  BY <1>8, PaymentConstants DEF Paying!WriteScore, Paying!NewScore
<1>9. ASSUME NEW p \in Payments, Paying!Crash(p) PROVE Paying!TypeOK'
  BY <1>9 DEF Paying!Crash
<1>10. CASE UNCHANGED Paying!vars
  BY <1>10 DEF Paying!vars
<1> QED
  BY <1>1, <1>2, <1>3, <1>4, <1>5, <1>6, <1>7, <1>8, <1>9, <1>10 DEF Paying!Next, Paying!Idle

-----------------------------------------------------------------------------
(* The limit.                                                              *)
LEMMA CountedAreActive == Paying!TypeOK /\ Progress => Paying!Counted \subseteq Active
BY DEF Paying!TypeOK, Progress, Paying!Counted, Active, Early

LEMMA AmountsAdd ==
  ASSUME NEW S \in SUBSET Payments, IsFiniteSet(S)
  PROVE  /\ Sum(Amount, S) \in Nat
         /\ \A P \in SUBSET S : Sum(Amount, P) <= Sum(Amount, S)
         /\ \A x \in S : Sum(Amount, S) = Amount[x] + Sum(Amount, S \ {x})
<1>1. \A x \in S : Amount[x] \in Nat
  BY PaymentConstants
<1> QED BY <1>1, SumType, SumWithout, SumIsMonotone

LEMMA ValidateKeepsTheLimit ==
  ASSUME PayingIInv, NEW p \in Payments, Paying!Validate(p)
  PROVE  IsFiniteSet(Active)' /\ SeenKeepTheLimit'
<1>1. CASE stage' = [stage EXCEPT ![p] = "denied"]
  <2>1. Active' = Active /\ p \notin Active
    BY <1>1 DEF Paying!Validate, PayingIInv, Paying!TypeOK, Active
  <2>2. \A q \in Active : unseen'[q] = unseen[q]
    BY <2>1 DEF Paying!Validate, PayingIInv, Paying!TypeOK, Active
  <2> QED BY <2>1, <2>2 DEF PayingIInv, SeenKeepTheLimit
<1>2. CASE stage' = [stage EXCEPT ![p] = "validated"]
  <2>1. Active' = Active \cup {p} /\ p \notin Active
    BY <1>2 DEF Paying!Validate, PayingIInv, Paying!TypeOK, Active
  <2>2. \A q \in Active : unseen'[q] = unseen[q]
    BY <2>1 DEF Paying!Validate, PayingIInv, Paying!TypeOK, Active
  <2>3. unseen'[p] = Active \ Paying!Counted
    BY <2>1 DEF Paying!Validate, PayingIInv, Paying!TypeOK, Active
  <2>4. IsFiniteSet(Active) /\ IsFiniteSet(Active')
    BY <2>1, FS_AddElement DEF PayingIInv
  <2>5. Sum(Amount, Paying!Counted) + Amount[p] <= DailyLimit
    BY <1>2, TotalIsSum
      DEF Paying!Validate, Paying!Go, Paying!SpendSeen, Paying!WithinDaily, PayingIInv,
         Paying!TypeOK
  <2>6. ASSUME NEW Q \in SUBSET Active', \A x, y \in Q : y \notin unseen'[x]
        PROVE  Sum(Amount, Q) <= DailyLimit
    <3>1. CASE p \notin Q
      <4>1. Q \in SUBSET Active /\ \A x, y \in Q : y \notin unseen[x]
        BY <2>1, <2>2, <2>6, <3>1
      <4> QED BY <4>1 DEF PayingIInv, SeenKeepTheLimit
    <3>2. CASE p \in Q
      <4>1. Q \ {p} \subseteq Paying!Counted
        BY <2>1, <2>3, <2>6, <3>2
      <4>2. Paying!Counted \in SUBSET Payments /\ IsFiniteSet(Paying!Counted)
        BY <2>4, CountedAreActive, FS_Subset DEF PayingIInv, Paying!Counted
      <4>3. Q \in SUBSET Payments /\ IsFiniteSet(Q)
        BY <2>4, <2>6, FS_Subset DEF Active
      <4>4. Sum(Amount, Q) = Amount[p] + Sum(Amount, Q \ {p})
        BY <3>2, <4>3, AmountsAdd
      <4>5. Sum(Amount, Q \ {p}) <= Sum(Amount, Paying!Counted)
        BY <4>1, <4>2, AmountsAdd
      <4>6. Sum(Amount, Paying!Counted) \in Nat /\ Sum(Amount, Q \ {p}) \in Nat
              /\ Amount[p] \in Nat
        BY <4>2, <4>3, AmountsAdd, PaymentConstants, FS_Subset, Q \ {p} \in SUBSET Payments,
           Q \ {p} \subseteq Q
      <4> QED BY <2>5, <4>4, <4>5, <4>6, PaymentConstants
    <3> QED BY <3>1, <3>2
  <2> QED BY <2>4, <2>6 DEF SeenKeepTheLimit
<1> QED BY <1>1, <1>2 DEF Paying!Validate, Paying!Go

(* Nobody else lets a request through.                                     *)
LEMMA LimitStep ==
  PayingIInv /\ [Paying!Next]_Paying!vars => IsFiniteSet(Active)' /\ SeenKeepTheLimit'
<1> SUFFICES ASSUME PayingIInv, [Paying!Next]_Paying!vars,
                    \A p \in Payments : ~Paying!Validate(p)
             PROVE  IsFiniteSet(Active)' /\ SeenKeepTheLimit'
  BY ValidateKeepsTheLimit
<1>1. UNCHANGED unseen /\ \A q \in Payments : stage[q] \in {"new", "denied"} =>
        stage'[q] = stage[q]
  <2> USE DEF PayingIInv, Paying!TypeOK, Paying!Go, Paying!scoreVars
  <2>1. ASSUME NEW p \in Payments,
               Paying!Authorize(p) \/ Paying!Execute(p) \/ Paying!WriteReceipt(p)
        PROVE  <1>1!:
    BY <2>1 DEF Paying!Authorize, Paying!Execute, Paying!WriteReceipt
  <2>2. ASSUME NEW p \in Payments, Paying!Enqueue(p) \/ Paying!Vote(p) \/ Paying!Claim(p)
        PROVE  <1>1!:
    BY <2>2 DEF Paying!Enqueue, Paying!Vote, Paying!Claim
  <2>3. ASSUME NEW p \in Payments,
               Paying!ReadScore(p) \/ Paying!WriteScore(p) \/ Paying!Crash(p)
        PROVE  <1>1!:
    BY <2>3 DEF Paying!ReadScore, Paying!WriteScore, Paying!Crash, Paying!Answers
  <2> QED BY <2>1, <2>2, <2>3 DEF Paying!Next, Paying!Idle, Paying!vars
<1>2. Active' \subseteq Active
  BY <1>1 DEF Active
<1> QED BY <1>1, <1>2, FS_Subset DEF PayingIInv, SeenKeepTheLimit

-----------------------------------------------------------------------------
(* The receipts.                                                           *)
LEMMA ProgressStep == Paying!TypeOK /\ Progress /\ [Paying!Next]_Paying!vars => Progress'
<1> SUFFICES ASSUME Paying!TypeOK, Progress, [Paying!Next]_Paying!vars PROVE Progress'
  OBVIOUS
<1> USE DEF Paying!TypeOK, Progress, Early, PayingWritten, Paying!Go, Paying!receiptVars
<1>1. ASSUME NEW p \in Payments, Paying!Validate(p) PROVE Progress'
  BY <1>1 DEF Paying!Validate
<1>2. ASSUME NEW p \in Payments, Paying!Authorize(p) PROVE Progress'
  BY <1>2 DEF Paying!Authorize
<1>3. ASSUME NEW p \in Payments, Paying!Execute(p) PROVE Progress'
  BY <1>3 DEF Paying!Execute
<1>4. ASSUME NEW p \in Payments, Paying!WriteReceipt(p) PROVE Progress'
  BY <1>4 DEF Paying!WriteReceipt, Paying!StageWithoutReceipt
<1>5. ASSUME NEW p \in Payments, Paying!Enqueue(p) PROVE Progress'
  BY <1>5 DEF Paying!Enqueue
<1>6. ASSUME NEW p \in Payments, Paying!Vote(p) PROVE Progress'
  BY <1>6 DEF Paying!Vote
<1>7. ASSUME NEW p \in Payments, Paying!Claim(p) PROVE Progress'
  BY <1>7 DEF Paying!Claim
<1>8. ASSUME NEW p \in Payments, Paying!ReadScore(p) \/ Paying!WriteScore(p) PROVE Progress'
  BY <1>8 DEF Paying!ReadScore, Paying!WriteScore
<1>9. ASSUME NEW p \in Payments, Paying!Crash(p) PROVE Progress'
  BY <1>9 DEF Paying!Crash, Paying!Answers
<1>10. CASE UNCHANGED Paying!vars
  BY <1>10 DEF Paying!vars
<1> QED
  BY <1>1, <1>2, <1>3, <1>4, <1>5, <1>6, <1>7, <1>8, <1>9, <1>10 DEF Paying!Next, Paying!Idle

LEMMA EarningsStep ==
  Paying!TypeOK /\ Progress /\ Earnings /\ [Paying!Next]_Paying!vars => Earnings'
<1> SUFFICES ASSUME Paying!TypeOK, Progress, Earnings, [Paying!Next]_Paying!vars
             PROVE  Earnings'
  OBVIOUS
<1> USE DEF Paying!TypeOK, Progress, Earnings, Paying!Earned, Early, PayingWritten, Paying!Go,
      Paying!receiptVars, Paying!scoreVars
<1>1. ASSUME NEW p \in Payments, Paying!Validate(p) PROVE Earnings'
  BY <1>1 DEF Paying!Validate
<1>2. ASSUME NEW p \in Payments, Paying!Authorize(p) PROVE Earnings'
  <2>1. p \notin claimed
    BY <1>2 DEF Paying!Authorize
  <2> QED BY <1>2, <2>1 DEF Paying!Authorize
<1>3. ASSUME NEW p \in Payments, Paying!Execute(p) PROVE Earnings'
  <2>1. p \notin claimed
    BY <1>3 DEF Paying!Execute
  <2> QED BY <1>3, <2>1 DEF Paying!Execute
<1>4. ASSUME NEW p \in Payments, Paying!WriteReceipt(p) PROVE Earnings'
  BY <1>4 DEF Paying!WriteReceipt, Paying!StageWithoutReceipt
<1>5. ASSUME NEW p \in Payments, Paying!Enqueue(p) PROVE Earnings'
  BY <1>5 DEF Paying!Enqueue
<1>6. ASSUME NEW p \in Payments, Paying!Vote(p) PROVE Earnings'
  BY <1>6 DEF Paying!Vote
<1>7. ASSUME NEW p \in Payments, Paying!Claim(p) PROVE Earnings'
  BY <1>7 DEF Paying!Claim
<1>8. ASSUME NEW p \in Payments, Paying!ReadScore(p) PROVE Earnings'
  BY <1>8 DEF Paying!ReadScore
<1>9. ASSUME NEW p \in Payments, Paying!WriteScore(p) PROVE Earnings'
  BY <1>9 DEF Paying!WriteScore
<1>10. ASSUME NEW p \in Payments, Paying!Crash(p) PROVE Earnings'
  BY <1>10 DEF Paying!Crash, Paying!Answers
<1>11. CASE UNCHANGED Paying!vars
  BY <1>11 DEF Paying!vars
<1> QED
  BY <1>1, <1>2, <1>3, <1>4, <1>5, <1>6, <1>7, <1>8, <1>9, <1>10, <1>11
    DEF Paying!Next, Paying!Idle

-----------------------------------------------------------------------------
(* The score.                                                              *)
LEMMA ScoresKept ==
  ASSUME Paying!TypeOK, PayingScores, UNCHANGED <<score, read, credited, overlapped>>,
         \A p \in Payments : stage'[p] = "read" => stage[p] = "read"
  PROVE  PayingScores'
<1>1. ~overlapped' => ~overlapped
  OBVIOUS
<1>2. \A p \in Payments : read'[p] = read[p]
  OBVIOUS
<1>3. ASSUME ~overlapped', NEW p \in Payments, stage'[p] = "read"
      PROVE  read'[p] = score' /\ \A q \in Payments : stage'[q] = "read" => q = p
  BY <1>1, <1>2, <1>3 DEF PayingScores
<1>4. /\ IsFiniteSet(credited') /\ score' <= Cardinality(credited')
      /\ \A p \in Payments : read'[p] <= Cardinality(credited')
  BY <1>2 DEF PayingScores
<1>5. ~overlapped' => \/ score' = Cardinality(credited')
                      \/ score' = MaxScore /\ score' < Cardinality(credited')
  BY <1>1 DEF PayingScores
<1> QED BY <1>3, <1>4, <1>5 DEF PayingScores

LEMMA ReadScoreKeeps ==
  ASSUME Paying!TypeOK, PayingScores, NEW p \in Payments, Paying!ReadScore(p)
  PROVE  PayingScores'
<1>1. CASE Paying!Go(p, "failed") /\ UNCHANGED <<read, overlapped>>
  <2>1. UNCHANGED <<score, credited>>
    BY DEF Paying!ReadScore
  <2>2. \A q \in Payments : stage'[q] = "read" => stage[q] = "read"
    BY <1>1 DEF Paying!Go, Paying!TypeOK
  <2> QED BY <1>1, <2>1, <2>2, ScoresKept
<1>2. CASE /\ read' = [read EXCEPT ![p] = score]
           /\ overlapped' = (overlapped \/ \E q \in Payments : stage[q] = "read")
           /\ Paying!Go(p, "read")
  <2>1. UNCHANGED <<score, credited>>
    BY DEF Paying!ReadScore
  <2>2. \A q \in Payments : read'[q] = IF q = p THEN score ELSE read[q]
    BY <1>2 DEF Paying!TypeOK
  <2>3. \A q \in Payments : stage'[q] = IF q = p THEN "read" ELSE stage[q]
    BY <1>2 DEF Paying!TypeOK, Paying!Go
  <2>4. ~overlapped' => ~overlapped /\ \A q \in Payments : stage[q] # "read"
    BY <1>2
  <2> QED BY <2>1, <2>2, <2>3, <2>4 DEF PayingScores
<1> QED BY <1>1, <1>2 DEF Paying!ReadScore

LEMMA WriteScoreKeeps ==
  ASSUME Paying!TypeOK, Earnings, PayingScores, NEW p \in Payments, Paying!WriteScore(p)
  PROVE  PayingScores'
<1>1. CASE UNCHANGED <<score, credited>>
  BY <1>1, ScoresKept DEF Paying!WriteScore, Paying!Go, Paying!TypeOK
<1>2. CASE score' = Paying!NewScore(p) /\ credited' = credited \cup {p}
  <2>1. stage[p] = "read" /\ p \notin credited /\ UNCHANGED <<read, overlapped>>
    BY DEF Paying!WriteScore, Earnings
  <2>2. IsFiniteSet(credited') /\ Cardinality(credited') = Cardinality(credited) + 1
    BY <1>2, <2>1, FS_AddElement DEF PayingScores
  <2>3. Cardinality(credited) \in Nat
    BY FS_CardinalityType DEF PayingScores
  <2>4. \A q \in Payments : stage'[q] = IF q = p THEN "approved" ELSE stage[q]
    BY DEF Paying!WriteScore, Paying!Go, Paying!TypeOK
  <2>5. score' = IF read[p] + 1 > MaxScore THEN MaxScore ELSE read[p] + 1
    BY <1>2 DEF Paying!NewScore
  <2>6. read[p] \in 0..MaxScore /\ \A q \in Payments : read[q] \in Nat
    BY PaymentConstants DEF Paying!TypeOK
  <2>7. score' <= Cardinality(credited') /\ \A q \in Payments :
          read'[q] <= Cardinality(credited')
    BY <2>1, <2>2, <2>3, <2>5, <2>6, PaymentConstants DEF PayingScores
  <2>8. ~overlapped => \A q \in Payments : stage'[q] # "read"
    BY <2>1, <2>4 DEF PayingScores
  <2>9. ASSUME ~overlapped
        PROVE  \/ score' = Cardinality(credited')
               \/ score' = MaxScore /\ score' < Cardinality(credited')
    <3>1. read[p] = score
      BY <2>1, <2>9 DEF PayingScores
    <3> QED BY <2>2, <2>3, <2>5, <2>6, <2>9, <3>1, PaymentConstants DEF PayingScores
  <2> QED BY <2>1, <2>2, <2>7, <2>8, <2>9 DEF PayingScores
<1> QED BY <1>1, <1>2 DEF Paying!WriteScore

LEMMA ScoresStep ==
  Paying!TypeOK /\ Earnings /\ PayingScores /\ [Paying!Next]_Paying!vars => PayingScores'
<1> SUFFICES ASSUME Paying!TypeOK, Earnings, PayingScores, [Paying!Next]_Paying!vars
             PROVE  PayingScores'
  OBVIOUS
<1> USE DEF Paying!TypeOK, Paying!Go, Paying!scoreVars
<1>1. ASSUME NEW p \in Payments,
             Paying!Validate(p) \/ Paying!Authorize(p) \/ Paying!Execute(p)
      PROVE  PayingScores'
  BY <1>1, ScoresKept DEF Paying!Validate, Paying!Authorize, Paying!Execute
<1>2. ASSUME NEW p \in Payments, Paying!WriteReceipt(p) \/ Paying!Enqueue(p) \/ Paying!Vote(p)
      PROVE  PayingScores'
  BY <1>2, ScoresKept
    DEF Paying!WriteReceipt, Paying!StageWithoutReceipt, Paying!Enqueue, Paying!Vote
<1>3. ASSUME NEW p \in Payments, Paying!Claim(p) \/ Paying!Crash(p) PROVE PayingScores'
  BY <1>3, ScoresKept DEF Paying!Claim, Paying!Crash
<1>4. CASE UNCHANGED Paying!vars
  BY <1>4, ScoresKept DEF Paying!vars
<1> QED
  BY <1>1, <1>2, <1>3, <1>4, ReadScoreKeeps, WriteScoreKeeps DEF Paying!Next, Paying!Idle

THEOREM PayingInvariance == Paying!Spec => []PayingIInv
<1>1. PayingIInv /\ [Paying!Next]_Paying!vars => PayingIInv'
  BY TypeStep, LimitStep, ProgressStep, EarningsStep, ScoresStep DEF PayingIInv
<1> QED BY <1>1, PayingInitEstablishes, PTL DEF Paying!Spec

(* More than the daily limit is moved only by payments of which one was    *)
(* validated while another was not counted.                                *)
THEOREM LimitIsPassedBlindly == Paying!Spec => []Paying!OverspendNeedsBlindness
<1>1. PayingIInv => Paying!OverspendNeedsBlindness
  <2> SUFFICES ASSUME PayingIInv, \A p, q \in moved : q \notin unseen[p]
               PROVE  ~(Sum(Amount, moved) > DailyLimit)
    BY TotalIsSum DEF Paying!OverspendNeedsBlindness
  <2>1. moved \in SUBSET Active /\ moved \in SUBSET Payments
    BY DEF PayingIInv, Progress, Paying!TypeOK, Active
  <2>2. Sum(Amount, moved) <= DailyLimit
    BY <2>1 DEF PayingIInv, SeenKeepTheLimit
  <2>3. Sum(Amount, moved) \in Nat
    BY <2>1, AmountsAdd, FS_Subset DEF PayingIInv
  <2> QED BY <2>2, <2>3, PaymentConstants
<1> QED BY <1>1, PayingInvariance, PTL

(* The score rises once for each payment that was voted on, moved and      *)
(* recorded.                                                               *)
THEOREM RewardsAreEarned == Paying!Spec => []Paying!RewardIsEarned
<1>1. PayingIInv => Paying!RewardIsEarned
  BY PaymentCardinality DEF PayingIInv, Earnings, Paying!Earned, PayingScores,
     Paying!RewardIsEarned, Paying!TypeOK
<1> QED BY <1>1, PayingInvariance, PTL

(* Only two rewards at a time, or the top of the scale, lose a reward.     *)
THEOREM NoRewardIsLost == Paying!Spec => []Paying!RewardsAddUp
<1>1. PayingIInv => Paying!RewardsAddUp
  BY PaymentCardinality DEF PayingIInv, PayingScores, Paying!RewardsAddUp
<1> QED BY <1>1, PayingInvariance, PTL

(* What the caller is told agrees with what was recorded and moved.        *)
THEOREM AnswersAreTrue == Paying!Spec => []Paying!AnswerKnowsTheReceipt
<1>1. PayingIInv => Paying!AnswerKnowsTheReceipt
  BY DEF PayingIInv, Progress, Early, PayingWritten, Paying!AnswerKnowsTheReceipt
<1> QED BY <1>1, PayingInvariance, PTL

(* The types of the route's state.                                         *)
THEOREM PayingTypeCorrect == Paying!Spec => []Paying!TypeOK
<1>1. PayingIInv => Paying!TypeOK
  BY DEF PayingIInv
<1> QED BY <1>1, PayingInvariance, PTL

-----------------------------------------------------------------------------
(***************************************************************************)
(* The acceptance loop, for any criteria, tiers, scores and budgets.       *)
(*                                                                         *)
(* A verdict is as good as the doubts of its round: a tier that finds a    *)
(* defect or refers to a human decides its criterion, and never as         *)
(* VERIFIED.                                                               *)
(***************************************************************************)

LEMMA WorkConstants ==
  /\ Len(Floor) \in Nat \ {0} /\ Tiers \in Nat \ {0}
  /\ MaxRejections \in Nat \ {0} /\ MaxRounds \in Nat \ {0}
<1>1. Floor \in Seq(Nat) /\ Floor # <<>>
  BY ServicesAssumption DEF Working!WorkAssumption
<1> QED BY <1>1, ServicesAssumption DEF Working!WorkAssumption

LEMMA WorkCardinality == \A S : Working!Cardinality(S) = Cardinality(S)
BY DEF Working!Cardinality, Cardinality, Working!IsFiniteSet, IsFiniteSet

Answer == [outcome : Working!Outcomes, score : Scores \cup {Working!NoScore}, by : 1..Tiers]
Round == [digest : Digests, verdict : {"ACCEPTED", "REJECTED", "NOT_CHECKED"},
          defect : BOOLEAN]

LEMMA RangeIsWhatIsListed ==
  ASSUME NEW S, NEW s \in Seq(S)
  PROVE  Working!Range(s) = {s[i] : i \in 1..Len(s)}
BY DEF Working!Range

WorkingTypes ==
  /\ acceptance \in {"NOT_STARTED", "REVISE"} \cup Working!Terminal
  /\ rounds \in Seq(Round)
  /\ turn \in {"doer", "judging", "over", "thrown"}
  /\ digest \in Digests \cup {Working!NoDigest}
  /\ turn = "judging" => digest \in Digests
  /\ scores \in Seq(Answer) /\ Len(scores) <= Len(Floor)
  /\ tier \in 1..Tiers
  /\ doubts \subseteq {"defect", "referral"}

(* Only the last tier verifies, and only where no tier objected.           *)
ScoresTellTheDoubts ==
  /\ \A i \in 1..Len(scores) : scores[i].outcome = "VERIFIED" => scores[i].by = Tiers
  /\ \A i \in 1..Len(scores) : scores[i].outcome = "FAILED" => "defect" \in doubts
  /\ doubts # {} => \E i \in 1..Len(scores) : scores[i].outcome # "VERIFIED"

DefectsAreNoted == \A i \in 1..Len(rounds) : rounds[i].verdict = "REJECTED" =>
  rounds[i].defect

(* The loop goes on where no round was accepted and no budget is spent.    *)
GoesOn(rs) ==
  /\ \A i \in 1..Len(rs) : rs[i].verdict # "ACCEPTED"
  /\ ~Working!Stalled(rs) /\ ~(Cardinality(Working!Rejected(rs)) >= MaxRejections)
       /\ ~(Len(rs) >= MaxRounds)

OpenGoesOn ==
  turn \in {"doer", "judging"} => acceptance \notin Working!Terminal /\ GoesOn(rounds)

AcceptedIsCertified ==
  acceptance = "ACCEPTED" =>
    /\ turn = "over" /\ Len(scores) = Len(Floor)
    /\ \A i \in 1..Len(scores) : scores[i].outcome = "VERIFIED"

ThrownIsOpen == turn = "thrown" => acceptance \notin Working!Terminal

WorkingIInv ==
  /\ WorkingTypes /\ ScoresTellTheDoubts /\ DefectsAreNoted /\ OpenGoesOn
  /\ AcceptedIsCertified
  /\ ThrownIsOpen

LEMMA WorkingIInvTypes == WorkingIInv => Working!TypeOK
BY DEF WorkingIInv, WorkingTypes, Working!TypeOK, Round, Answer

LEMMA WorkingInitEstablishes == Working!Init => WorkingIInv
<1> SUFFICES ASSUME Working!Init PROVE WorkingIInv
  OBVIOUS
<1> USE DEF Working!Init
<1>1. WorkingTypes
  BY WorkConstants DEF WorkingTypes
<1>2. Working!Rejected(<<>>) = {}
  BY DEF Working!Rejected
<1>3. Cardinality(Working!Rejected(rounds)) = 0 /\ ~Working!Stalled(rounds)
  BY <1>2, FS_EmptySet DEF Working!Stalled
<1>4. OpenGoesOn
  BY <1>3, WorkConstants DEF OpenGoesOn, GoesOn, Working!Terminal
<1> QED BY <1>1, <1>4
          DEF WorkingIInv, ScoresTellTheDoubts, DefectsAreNoted, AcceptedIsCertified,
           ThrownIsOpen

-----------------------------------------------------------------------------
LEMMA SubmitPreserves ==
  ASSUME WorkingIInv, NEW d \in Digests, Working!Submit(d) PROVE WorkingIInv'
<1> USE DEF WorkingIInv
<1>1. /\ turn = "doer" /\ turn' = "judging" /\ digest' = d /\ scores' = <<>> /\ tier' = 1
      /\ doubts' = {} /\ UNCHANGED <<acceptance, rounds>>
  BY DEF Working!Submit
<1>2. acceptance \notin Working!Terminal
  BY <1>1 DEF OpenGoesOn
<1>3. WorkingTypes'
  BY <1>1, WorkConstants DEF WorkingTypes
<1>4. AcceptedIsCertified' /\ ThrownIsOpen'
  BY <1>1, <1>2 DEF AcceptedIsCertified, ThrownIsOpen, Working!Terminal
<1>5. OpenGoesOn' /\ DefectsAreNoted'
  BY <1>1 DEF OpenGoesOn, GoesOn, DefectsAreNoted
<1> QED BY <1>1, <1>3, <1>4, <1>5 DEF ScoresTellTheDoubts

LEMMA EndingPreserves ==
  ASSUME WorkingIInv, Working!NothingToSubmit \/ Working!Throw PROVE WorkingIInv'
<1> USE DEF WorkingIInv
<1>1. /\ turn \in {"doer", "judging"} /\ turn' \in {"over", "thrown"}
      /\ UNCHANGED <<acceptance, rounds, digest, scores, tier, doubts>>
  BY DEF Working!NothingToSubmit, Working!Throw, Working!roundVars
<1>2. acceptance \notin Working!Terminal
  BY <1>1 DEF OpenGoesOn
<1> QED BY <1>1, <1>2 DEF WorkingTypes, ScoresTellTheDoubts, DefectsAreNoted, OpenGoesOn,
           AcceptedIsCertified, ThrownIsOpen, Working!Terminal

(* One more criterion is answered.                                         *)
LEMMA ScorePreserves ==
  ASSUME WorkingIInv, Working!Judging, NEW o \in Working!Outcomes,
         NEW points \in Scores \cup {Working!NoScore},
         Working!Score(o, points), UNCHANGED <<acceptance, rounds, turn, digest>>,
         doubts \subseteq doubts', doubts' \subseteq {"defect", "referral"},
         o = "VERIFIED" => tier = Tiers /\ doubts' = doubts,
         o = "FAILED" => "defect" \in doubts'
  PROVE  WorkingIInv'
<1> USE DEF WorkingIInv
<1> DEFINE answer == [outcome |-> o, score |-> points, by |-> tier]
<1>1. PICK n \in Nat : n = Len(scores)
  BY DEF WorkingTypes
<1>2. answer \in Answer /\ scores \in Seq(Answer) /\ n < Len(Floor) /\ turn = "judging"
  BY <1>1 DEF WorkingTypes, Answer, Working!Judging
<1>3. scores' = Append(scores, answer) /\ tier' = 1
  BY DEF Working!Score
<1> HIDE DEF answer
<1>4. /\ scores' \in Seq(Answer) /\ Len(scores') = n + 1
      /\ \A i \in 1..n : scores'[i] = scores[i]
      /\ scores'[n + 1] = answer
  BY <1>1, <1>2, <1>3
<1>5. answer.outcome = o /\ answer.by = tier
  BY DEF answer
<1>6. WorkingTypes'
  BY <1>2, <1>3, <1>4, WorkConstants DEF WorkingTypes
<1>7. ScoresTellTheDoubts'
  <2>1. \A i \in 1..Len(scores') : scores'[i].outcome = "VERIFIED" => scores'[i].by = Tiers
    BY <1>1, <1>4, <1>5 DEF ScoresTellTheDoubts
  <2>2. \A i \in 1..Len(scores') : scores'[i].outcome = "FAILED" => "defect" \in doubts'
    BY <1>1, <1>4, <1>5 DEF ScoresTellTheDoubts
  <2>3. ASSUME doubts' # {} PROVE \E i \in 1..Len(scores') : scores'[i].outcome # "VERIFIED"
    <3>1. CASE o = "VERIFIED"
      <4>1. PICK i \in 1..n : scores[i].outcome # "VERIFIED"
        BY <1>1, <2>3, <3>1 DEF ScoresTellTheDoubts
      <4>2. i \in 1..Len(scores') /\ scores'[i] = scores[i]
        BY <1>4
      <4> QED BY <4>1, <4>2
    <3>2. CASE o # "VERIFIED"
      <4>1. n + 1 \in 1..Len(scores')
        BY <1>4
      <4> QED BY <1>4, <1>5, <3>2, <4>1
    <3> QED BY <3>1, <3>2
  <2> QED BY <2>1, <2>2, <2>3 DEF ScoresTellTheDoubts
<1>8. DefectsAreNoted' /\ OpenGoesOn'
  BY DEF DefectsAreNoted, OpenGoesOn, GoesOn
<1>9. AcceptedIsCertified' /\ ThrownIsOpen'
  BY <1>2 DEF AcceptedIsCertified, ThrownIsOpen
<1> QED BY <1>6, <1>7, <1>8, <1>9

(* The next tier is asked.                                                 *)
LEMMA EscalatePreserves ==
  ASSUME WorkingIInv, Working!Judging, Working!Escalate, tier # Tiers,
         UNCHANGED <<acceptance, rounds, turn, digest, doubts>>
  PROVE  WorkingIInv'
<1> USE DEF WorkingIInv
<1>1. tier' = tier + 1 /\ scores' = scores /\ turn = "judging"
  BY DEF Working!Escalate, Working!Judging
<1>2. WorkingTypes'
  BY <1>1, WorkConstants DEF WorkingTypes
<1> QED BY <1>1, <1>2 DEF ScoresTellTheDoubts, DefectsAreNoted, OpenGoesOn, GoesOn,
           AcceptedIsCertified, ThrownIsOpen

LEMMA TierAnswersPreserves ==
  ASSUME WorkingIInv, NEW o \in Working!Opinion, Working!TierAnswers(o) PROVE WorkingIInv'
<1>1. /\ Working!Judging /\ UNCHANGED <<acceptance, rounds, turn, digest>>
      /\ IF Working!Decides(o) THEN Working!Score(Working!Weakened(o), o.score)
           ELSE Working!Escalate
      /\ doubts' = doubts \cup (IF o.outcome = "FAILED" THEN {"defect"} ELSE {})
                          \cup (IF o.referred THEN {"referral"} ELSE {})
  BY DEF Working!TierAnswers
<1>2. o.outcome \in Working!Outcomes /\ o.score \in Scores \cup {Working!NoScore}
        /\ o.referred \in BOOLEAN
  BY DEF Working!Opinion
<1>3. Working!Weakened(o) \in Working!Outcomes
  BY <1>2 DEF Working!Weakened, Working!Outcomes
<1>4. doubts \subseteq doubts' /\ doubts' \subseteq {"defect", "referral"}
  BY <1>1 DEF WorkingIInv, WorkingTypes
<1>5. CASE Working!Decides(o)
  <2>1. Working!Weakened(o) = "VERIFIED" => ~o.referred /\ o.outcome = "VERIFIED"
    BY <1>2 DEF Working!Weakened, Working!Outcomes
  <2>2. Working!Weakened(o) = "VERIFIED" => tier = Tiers
    BY <1>5, <2>1 DEF Working!Decides
  <2>3. Working!Weakened(o) = "VERIFIED" => doubts' = doubts
    BY <1>1, <2>1
  <2>4. Working!Weakened(o) = "FAILED" => "defect" \in doubts'
    BY <1>1, <1>2 DEF Working!Weakened, Working!Outcomes
  <2> QED BY <1>1, <1>2, <1>3, <1>4, <1>5, <2>2, <2>3, <2>4, ScorePreserves
<1>6. CASE ~Working!Decides(o)
  <2>1. ~o.referred /\ o.outcome # "FAILED" /\ tier # Tiers
    BY <1>2, <1>6 DEF Working!Decides, Working!Weakened
  <2> QED BY <1>1, <1>6, <2>1, EscalatePreserves
<1> QED BY <1>5, <1>6

LEMMA TierThrowsPreserves == ASSUME WorkingIInv, Working!TierThrows PROVE WorkingIInv'
<1>1. /\ Working!Judging /\ UNCHANGED <<acceptance, rounds, turn, digest, doubts>>
      /\ IF tier = Tiers THEN Working!Score("NOT_CHECKED", Working!NoScore)
           ELSE Working!Escalate
  BY DEF Working!TierThrows, Working!OutageOutcome
<1>2. "NOT_CHECKED" \in Working!Outcomes /\ Working!NoScore \in Scores \cup {Working!NoScore}
  BY DEF Working!Outcomes
<1>3. CASE tier = Tiers
  BY <1>1, <1>2, <1>3, ScorePreserves DEF WorkingIInv, WorkingTypes
<1>4. CASE tier # Tiers
  BY <1>1, <1>4, EscalatePreserves
<1> QED BY <1>3, <1>4

-----------------------------------------------------------------------------
(* A round ends, with a verdict that its scores bear out.                  *)
LEMMA CloseWithPreserves ==
  ASSUME WorkingIInv, turn = "judging", NEW v \in {"ACCEPTED", "REJECTED", "NOT_CHECKED"},
         Working!CloseWith(v),
         v = "REJECTED" => "defect" \in doubts,
         v = "ACCEPTED" =>
           Len(scores) = Len(Floor) /\ \A i \in 1..Len(scores) :
             scores[i].outcome = "VERIFIED"
  PROVE  WorkingIInv'
<1> USE DEF WorkingIInv
<1> DEFINE round == [digest |-> digest, verdict |-> v, defect |-> "defect" \in doubts]
<1>1. PICK n \in Nat : n = Len(rounds)
  BY DEF WorkingTypes
<1>2. round \in Round /\ rounds \in Seq(Round)
  BY DEF WorkingTypes, Round
<1>3. PICK rs : rs = Append(rounds, round)
  OBVIOUS
<1>4. /\ rounds' = rs /\ acceptance' = Working!Acceptance(rs)
      /\ turn' = IF Working!Acceptance(rs) \in Working!Terminal THEN "over" ELSE "doer"
      /\ UNCHANGED <<digest, scores, tier, doubts>>
  BY <1>3 DEF Working!CloseWith, Working!roundVars
<1>5. round.verdict = v /\ round.defect = ("defect" \in doubts)
  OBVIOUS
<1> HIDE DEF round
<1>6. /\ rs \in Seq(Round) /\ Len(rs) = n + 1
      /\ \A i \in 1..n : rs[i] = rounds[i]
      /\ rs[n + 1] = round
  BY <1>1, <1>2, <1>3
<1>7. Working!Range(rs) = {rs[i] : i \in 1..Len(rs)}
  BY <1>6, RangeIsWhatIsListed
<1>8. /\ Working!Acceptance(rs) \in {"REVISE"} \cup Working!Terminal
      /\ Working!Acceptance(rs) = "ACCEPTED" <=>
           \E i \in 1..Len(rs) : rs[i].verdict = "ACCEPTED"
  BY <1>7 DEF Working!Acceptance, Working!Terminal
<1>9. Working!Acceptance(rs) \notin Working!Terminal => GoesOn(rs)
  BY <1>7, WorkCardinality DEF Working!Acceptance, Working!Terminal, GoesOn
<1>10. \A i \in 1..n : rounds[i].verdict # "ACCEPTED"
  BY <1>1 DEF OpenGoesOn, GoesOn
<1>11. Working!Acceptance(rs) = "ACCEPTED" => v = "ACCEPTED"
  BY <1>5, <1>6, <1>8, <1>10
<1>12. WorkingTypes'
  BY <1>4, <1>6, <1>8 DEF WorkingTypes, Working!Terminal
<1>13. DefectsAreNoted'
  <2> SUFFICES ASSUME NEW i \in 1..Len(rs), rs[i].verdict = "REJECTED" PROVE rs[i].defect
    BY <1>4 DEF DefectsAreNoted
  <2>1. CASE i \in 1..n
    BY <1>1, <1>6, <2>1 DEF DefectsAreNoted
  <2>2. CASE i = n + 1
    BY <1>5, <1>6, <2>2
  <2> QED BY <1>6, <2>1, <2>2
<1>14. OpenGoesOn'
  <2>1. turn' \in {"doer", "judging"} => Working!Acceptance(rs) \notin Working!Terminal
    BY <1>4
  <2> QED BY <1>4, <1>9, <2>1 DEF OpenGoesOn, GoesOn
<1>15. AcceptedIsCertified' /\ ThrownIsOpen'
  BY <1>4, <1>11 DEF AcceptedIsCertified, ThrownIsOpen, Working!Terminal
<1>16. ScoresTellTheDoubts'
  BY <1>4 DEF ScoresTellTheDoubts
<1> QED BY <1>12, <1>13, <1>14, <1>15, <1>16

LEMMA CloseRoundPreserves == ASSUME WorkingIInv, Working!CloseRound PROVE WorkingIInv'
<1> DEFINE given == {scores[i].outcome : i \in 1..Len(scores)}
<1>1. turn = "judging" /\ Len(scores) = Len(Floor) /\ Working!CloseWith(Working!RoundVerdict)
  BY DEF Working!CloseRound
<1>2. {s.outcome : s \in Working!Range(scores)} = given
  <2>1. Working!Range(scores) = {scores[i] : i \in 1..Len(scores)}
    BY RangeIsWhatIsListed DEF WorkingIInv, WorkingTypes
  <2> QED BY <2>1
<1>3. Working!VerdictOutcome = IF "FAILED" \in given THEN "FAILED"
                       ELSE IF "NOT_CHECKED" \in given THEN "NOT_CHECKED" ELSE "VERIFIED"
  BY <1>2 DEF Working!VerdictOutcome
<1>4. given \subseteq Working!Outcomes
  <2> SUFFICES ASSUME NEW i \in 1..Len(scores) PROVE scores[i].outcome \in Working!Outcomes
    OBVIOUS
  <2>1. scores[i] \in Answer
    BY DEF WorkingIInv, WorkingTypes
  <2> QED BY <2>1 DEF Answer
<1>5. Working!RoundVerdict \in {"ACCEPTED", "REJECTED", "NOT_CHECKED"}
  BY DEF Working!RoundVerdict
<1>6. Working!RoundVerdict = "REJECTED" => "FAILED" \in given
  BY <1>3 DEF Working!RoundVerdict
<1>7. Working!RoundVerdict = "ACCEPTED" => "FAILED" \notin given /\ "NOT_CHECKED" \notin given
  BY <1>3 DEF Working!RoundVerdict
<1>8. Working!RoundVerdict = "REJECTED" => "defect" \in doubts
  BY <1>6 DEF WorkingIInv, ScoresTellTheDoubts
<1>9. Working!RoundVerdict = "ACCEPTED" =>
        \A i \in 1..Len(scores) : scores[i].outcome = "VERIFIED"
  BY <1>4, <1>7 DEF Working!Outcomes
<1> QED BY <1>1, <1>5, <1>8, <1>9, CloseWithPreserves

LEMMA CloseUnjudgedPreserves == ASSUME WorkingIInv, Working!CloseUnjudged PROVE WorkingIInv'
BY CloseWithPreserves DEF Working!CloseUnjudged

LEMMA WorkingNextPreserves == WorkingIInv /\ [Working!Next]_Working!vars => WorkingIInv'
<1> SUFFICES ASSUME WorkingIInv, [Working!Next]_Working!vars PROVE WorkingIInv'
  OBVIOUS
<1>1. CASE UNCHANGED Working!vars
  BY <1>1 DEF Working!vars, Working!roundVars, WorkingIInv, WorkingTypes, ScoresTellTheDoubts,
     DefectsAreNoted,
              OpenGoesOn, GoesOn, AcceptedIsCertified, ThrownIsOpen
<1>2. CASE Working!Ended
  BY <1>1, <1>2 DEF Working!Ended
<1> QED BY <1>1, <1>2, SubmitPreserves, EndingPreserves, TierAnswersPreserves,
           TierThrowsPreserves, CloseRoundPreserves, CloseUnjudgedPreserves DEF Working!Next

THEOREM WorkingInvariance == Working!Spec => []WorkingIInv
<1> QED BY WorkingInitEstablishes, WorkingNextPreserves, PTL DEF Working!Spec

(* TypeOK.                                                                 *)
THEOREM WorkingTypeCorrect == Working!Spec => []Working!TypeOK
<1> QED BY WorkingInvariance, WorkingIInvTypes, PTL

(* DeliveredWasCertified: a verdict of VERIFIED is of the last tier, on    *)
(* every criterion, in a round without a doubt.                            *)
THEOREM AcceptedWorkIsCertified == Working!Spec => []Working!DeliveredWasCertified
<1>1. WorkingIInv => Working!DeliveredWasCertified
  <2> SUFFICES ASSUME WorkingIInv, acceptance = "ACCEPTED"
               PROVE  /\ Len(scores) = Len(Floor) /\ doubts = {}
                      /\ \A s \in Working!Range(scores) :
                           s.outcome = "VERIFIED" /\ s.by = Tiers
    BY DEF Working!DeliveredWasCertified
  <2>1. Working!Range(scores) = {scores[i] : i \in 1..Len(scores)}
    BY RangeIsWhatIsListed DEF WorkingIInv, WorkingTypes
  <2> QED BY <2>1 DEF WorkingIInv, AcceptedIsCertified, ScoresTellTheDoubts
<1> QED BY <1>1, WorkingInvariance, PTL

(* OutageBlamesNobody: only a defect makes a verdict FAILED.               *)
THEOREM RejectionsAreDefects == Working!Spec => []Working!OutageBlamesNobody
<1>1. WorkingIInv => Working!OutageBlamesNobody
  <2> SUFFICES ASSUME WorkingIInv, NEW i \in DOMAIN rounds, rounds[i].verdict = "REJECTED"
               PROVE  rounds[i].defect
    BY DEF Working!OutageBlamesNobody
  <2>1. i \in 1..Len(rounds)
    BY DEF WorkingIInv, WorkingTypes
  <2> QED BY <2>1 DEF WorkingIInv, DefectsAreNoted
<1> QED BY <1>1, WorkingInvariance, PTL

(* BudgetsEndTheLoop: a round that spends a budget is the last.            *)
THEOREM TheLoopIsBounded == Working!Spec => []Working!BudgetsEndTheLoop
<1>1. WorkingIInv => Working!BudgetsEndTheLoop
  <2> SUFFICES ASSUME WorkingIInv, turn \in {"doer", "judging"}
               PROVE  /\ Len(rounds) < MaxRounds
                      /\ Working!Cardinality(Working!Rejected(rounds)) < MaxRejections
                      /\ ~Working!Stalled(rounds)
    BY DEF Working!BudgetsEndTheLoop
  <2>1. Len(rounds) \in Nat /\ Working!Rejected(rounds) \subseteq 1..Len(rounds)
    BY DEF WorkingIInv, WorkingTypes, Working!Rejected
  <2>2. Cardinality(Working!Rejected(rounds)) \in Nat
    <3>1. IsFiniteSet(1..Len(rounds))
      BY <2>1, FS_Interval
    <3> QED BY <2>1, <3>1, FS_Subset, FS_CardinalityType
  <2>3. GoesOn(rounds)
    BY DEF WorkingIInv, OpenGoesOn
  <2>4. Working!Cardinality(Working!Rejected(rounds)) = Cardinality(Working!Rejected(rounds))
    BY WorkCardinality
  <2> QED BY <2>1, <2>2, <2>3, <2>4, WorkConstants DEF GoesOn
<1> QED BY <1>1, WorkingInvariance, PTL

-----------------------------------------------------------------------------
(***************************************************************************)
(* The hash-linked histories, for any calls, subjects and lists of events. *)
(*                                                                         *)
(* A call about to advance a head read what is there, or another call      *)
(* wrote what is there after it read.  And no head is ever one entry short *)
(* of a root that was written: an entry is written once, so that a root    *)
(* that was left is not come back to.                                      *)
(***************************************************************************)

LEMMA ChainConstants == Events \subseteq Seq(Subjects) /\ Doer \in Subjects
BY ServicesAssumption DEF History!ChainAssumption

Named(list) == {list[i] : i \in 1..Len(list)}

LEMMA NamedBy == \A list \in Seq(Subjects) : History!ToSet(list) = Named(list)
BY DEF History!ToSet, Named

Under(c) == outcome[c] \in {"head", "advance"}

Roots == Seq(Producers \X Nat)

HistoryTypes ==
  /\ head \in [Subjects -> Roots]
  /\ events \in [Producers -> Events \cup {<<>>}]
  /\ writer \in [Producers -> Writers \cup {History!NoWriter}]
  /\ next \in [Producers -> Nat]
  /\ prevRoot \in [Producers -> Roots]
  /\ DOMAIN out = Producers
  /\ outcome \in [Producers -> {"pending", "head", "advance", "done", "refused", "threw"}]

Indexes ==
  \A c \in Producers :
    /\ next[c] \in 0..(Len(events[c]) + 1)
    /\ next[c] = 0 => outcome[c] = "pending" /\ events[c] = <<>> /\ out[c] = {}
    /\ Under(c) => next[c] \in 1..Len(events[c]) /\ Doer \notin Named(events[c])
    /\ Doer \in Named(events[c]) => out[c] = {}

(* What another call appended while c had read the head.                   *)
Overtaken(c) ==
  \E d \in Producers : /\ c # d
                   /\ \E t \in out[d] : /\ t.valid /\ t.subject = History!Subject(c)
                                         /\ t.new = head[History!Subject(c)]

HeadIsKnown ==
  \A c \in Producers : outcome[c] = "advance" =>
    prevRoot[c] = head[History!Subject(c)] \/ Overtaken(c)

HistoryIInv == HistoryTypes /\ Indexes /\ HeadIsKnown

LEMMA EventsAreLists ==
  HistoryTypes => \A c \in Producers : events[c] \in Seq(Subjects) /\ Len(events[c]) \in Nat
<1> SUFFICES ASSUME HistoryTypes, NEW c \in Producers
             PROVE  events[c] \in Seq(Subjects) /\ Len(events[c]) \in Nat
  OBVIOUS
<1>1. events[c] \in Events \cup {<<>>}
  BY DEF HistoryTypes
<1>2. <<>> \in Seq(Subjects)
  OBVIOUS
<1>3. events[c] \in Seq(Subjects)
  BY <1>1, <1>2, ChainConstants
<1> QED BY <1>3

LEMMA HistoryIInvTypes == HistoryIInv => History!TypeOK
BY DEF HistoryIInv, HistoryTypes, Indexes, History!TypeOK

LEMMA HistoryInitEstablishes == History!Init => HistoryIInv
<1> SUFFICES ASSUME History!Init PROVE HistoryIInv
  OBVIOUS
<1>1. HistoryTypes
  BY DEF History!Init, HistoryTypes, History!Genesis, Roots
<1>2. Indexes
  BY DEF History!Init, Indexes, Under, Named
<1>3. HeadIsKnown
  BY DEF History!Init, HeadIsKnown
<1> QED BY <1>1, <1>2, <1>3 DEF HistoryIInv

-----------------------------------------------------------------------------
LEMMA CallPreserves ==
  ASSUME HistoryIInv, NEW c \in Producers, History!Call(c) PROVE HistoryIInv'
<1>1. PICK list \in Events, w \in Writers :
        /\ writer' = [writer EXCEPT ![c] = w]
        /\ events' = [events EXCEPT ![c] = list]
        /\ outcome' = [outcome EXCEPT ![c] =
             IF History!SelfReport(list) THEN "refused" ELSE IF list = <<>> THEN "done"
               ELSE "head"]
  BY DEF History!Call
<1>2. /\ next[c] = 0 /\ next' = [next EXCEPT ![c] = 1]
      /\ UNCHANGED <<head, prevRoot, out>>
  BY DEF History!Call
<1>3. HistoryTypes'
  BY <1>1, <1>2 DEF HistoryIInv, HistoryTypes
<1>4. list \in Seq(Subjects) /\ Len(list) \in Nat /\ (History!SelfReport(list) <=>
        Doer \in Named(list))
  BY ChainConstants, NamedBy DEF History!SelfReport
<1>5. out[c] = {}
  BY <1>2 DEF HistoryIInv, Indexes
<1>6. \A d \in Producers : d # c =>
        events'[d] = events[d] /\ outcome'[d] = outcome[d] /\ next'[d] = next[d]
  BY <1>1, <1>2 DEF HistoryIInv, HistoryTypes
<1>7. /\ events'[c] = list /\ next'[c] = 1 /\ outcome'[c] # "advance"
      /\ outcome'[c] = "head" => list # <<>> /\ ~History!SelfReport(list)
  BY <1>1, <1>2 DEF HistoryIInv, HistoryTypes
<1>8. Indexes'
  <2> SUFFICES ASSUME NEW d \in Producers PROVE Indexes!(d)'
    BY DEF Indexes
  <2>1. CASE d = c
    BY <1>2, <1>4, <1>5, <1>7, <2>1 DEF Under
  <2>2. CASE d # c
    BY <1>2, <1>6, <2>2 DEF HistoryIInv, Indexes, Under
  <2> QED BY <2>1, <2>2
<1>9. HeadIsKnown'
  <2> SUFFICES ASSUME NEW d \in Producers, outcome'[d] = "advance"
               PROVE  prevRoot'[d] = head'[History!Subject(d)'] \/ Overtaken(d)'
    BY DEF HeadIsKnown
  <2>1. d # c /\ outcome[d] = "advance" /\ History!Subject(d)' = History!Subject(d)
    BY <1>6, <1>7 DEF History!Subject
  <2> QED BY <1>2, <2>1 DEF HistoryIInv, HeadIsKnown, Overtaken
<1> QED BY <1>3, <1>8, <1>9 DEF HistoryIInv

LEMMA ReadHeadPreserves ==
  ASSUME HistoryIInv, NEW c \in Producers, History!ReadHead(c) PROVE HistoryIInv'
<1>1. /\ outcome[c] = "head"
      /\ prevRoot' = [prevRoot EXCEPT ![c] = head[History!Subject(c)]]
      /\ outcome' = [outcome EXCEPT ![c] = "advance"]
      /\ UNCHANGED <<head, events, writer, next, out>>
  BY DEF History!ReadHead, History!HeadFor
<1>2. History!Subject(c) \in Subjects
  BY <1>1, EventsAreLists DEF HistoryIInv, Indexes, Under, History!Subject
<1>3. HistoryTypes'
  BY <1>1, <1>2 DEF HistoryIInv, HistoryTypes
<1>4. Indexes'
  BY <1>1 DEF HistoryIInv, HistoryTypes, Indexes, Under
<1>5. HeadIsKnown'
  <2> SUFFICES ASSUME NEW d \in Producers, outcome'[d] = "advance"
               PROVE  prevRoot'[d] = head'[History!Subject(d)'] \/ Overtaken(d)'
    BY DEF HeadIsKnown
  <2>1. History!Subject(d)' = History!Subject(d)
    BY <1>1 DEF History!Subject
  <2>2. CASE d = c
    BY <1>1, <2>1, <2>2 DEF HistoryIInv, HistoryTypes
  <2>3. CASE d # c
    BY <1>1, <2>1, <2>3 DEF HistoryIInv, HistoryTypes, HeadIsKnown, Overtaken
  <2> QED BY <2>2, <2>3
<1> QED BY <1>3, <1>4, <1>5 DEF HistoryIInv

LEMMA HistoryAdvancePreserves ==
  ASSUME HistoryIInv, NEW c \in Producers, History!Advance(c) PROVE HistoryIInv'
<1> DEFINE new == Append(prevRoot[c], <<c, next[c]>>)
           last == next[c] = Len(events[c])
<1>1. /\ outcome[c] = "advance"
      /\ head' = [head EXCEPT ![History!Subject(c)] =
                    IF History!Member(writer[c]) THEN new ELSE head[History!Subject(c)]]
      /\ out' = [out EXCEPT ![c] = @ \cup
           {[subject |-> History!Subject(c), new |-> new, valid |-> History!Member(writer[c])]}]
      /\ outcome' = [outcome EXCEPT ![c] = IF last THEN "done" ELSE "head"]
      /\ next' = [next EXCEPT ![c] = IF last THEN next[c] ELSE next[c] + 1]
      /\ UNCHANGED <<events, writer, prevRoot>>
  BY DEF History!Advance, History!HeadAfter, History!NewRoot
<1>2. /\ History!Subject(c) \in Subjects /\ next[c] \in 1..Len(events[c])
      /\ Len(events[c]) \in Nat
      /\ Doer \notin Named(events[c])
  BY <1>1, EventsAreLists DEF HistoryIInv, Indexes, Under, History!Subject
<1>3. PICK root \in Roots : root = new
  <2>1. prevRoot[c] \in Seq(Producers \X Nat) /\ <<c, next[c]>> \in Producers \X Nat
    BY DEF HistoryIInv, HistoryTypes, Roots
  <2>2. new \in Seq(Producers \X Nat)
    BY <2>1
  <2> QED BY <2>2 DEF Roots
<1>4. PICK s \in Subjects : s = History!Subject(c)
  BY <1>2
<1>5. /\ head' = [head EXCEPT ![s] = IF History!Member(writer[c]) THEN root ELSE head[s]]
      /\ out' = [out EXCEPT ![c] = @ \cup
           {[subject |-> s, new |-> root, valid |-> History!Member(writer[c])]}]
  BY <1>1, <1>3, <1>4
<1>6. HistoryTypes'
  <2>1. head' \in [Subjects -> Roots] /\ DOMAIN out' = Producers
    BY <1>5 DEF HistoryIInv, HistoryTypes
  <2>2. next' \in [Producers -> Nat]
    BY <1>1 DEF HistoryIInv, HistoryTypes
  <2>3. outcome' \in [Producers -> {"pending", "head", "advance", "done", "refused", "threw"}]
    BY <1>1 DEF HistoryIInv, HistoryTypes
  <2> QED BY <1>1, <2>1, <2>2, <2>3 DEF HistoryIInv, HistoryTypes
<1>7. Indexes'
  <2> SUFFICES ASSUME NEW d \in Producers PROVE Indexes!(d)'
    BY DEF Indexes
  <2>1. CASE d = c
    BY <1>1, <1>2, <2>1 DEF HistoryIInv, HistoryTypes, Under
  <2>2. CASE d # c
    BY <1>1, <1>5, <2>2 DEF HistoryIInv, HistoryTypes, Indexes, Under
  <2> QED BY <2>1, <2>2
<1>8. HeadIsKnown'
  <2> SUFFICES ASSUME NEW d \in Producers, outcome'[d] = "advance"
               PROVE  prevRoot'[d] = head'[History!Subject(d)'] \/ Overtaken(d)'
    BY DEF HeadIsKnown
  <2>1. d # c /\ outcome[d] = "advance" /\ History!Subject(d)' = History!Subject(d)
    BY <1>1 DEF HistoryIInv, HistoryTypes, History!Subject
  <2>2. CASE History!Subject(d) = s /\ History!Member(writer[c])
    <3>1. head'[s] = root
      BY <1>5, <2>2 DEF HistoryIInv, HistoryTypes
    <3>2. \E t \in out'[c] : t.valid /\ t.subject = s /\ t.new = root
      <4>1. [subject |-> s, new |-> root, valid |-> History!Member(writer[c])] \in out'[c]
        BY <1>5 DEF HistoryIInv, HistoryTypes
      <4> QED BY <2>2, <4>1
    <3> QED BY <2>1, <2>2, <3>1, <3>2 DEF Overtaken
  <2>3. CASE History!Subject(d) # s \/ ~History!Member(writer[c])
    <3>1. head'[History!Subject(d)] = head[History!Subject(d)]
      BY <1>5, <2>3 DEF HistoryIInv, HistoryTypes
    <3>2. \A e \in Producers : out[e] \subseteq out'[e]
      BY <1>5 DEF HistoryIInv, HistoryTypes
    <3>3. prevRoot[d] = head[History!Subject(d)] \/ Overtaken(d)
      BY <2>1 DEF HistoryIInv, HeadIsKnown
    <3> QED BY <1>1, <2>1, <3>1, <3>2, <3>3 DEF Overtaken
  <2> QED BY <2>2, <2>3
<1> QED BY <1>6, <1>7, <1>8 DEF HistoryIInv

LEMMA AwaitRejectsPreserves ==
  ASSUME HistoryIInv, NEW c \in Producers, History!AwaitRejects(c) PROVE HistoryIInv'
<1>1. /\ outcome[c] \in {"head", "advance"}
      /\ outcome' = [outcome EXCEPT ![c] = "threw"]
      /\ UNCHANGED <<head, events, writer, next, prevRoot, out>>
  BY DEF History!AwaitRejects
<1>2. HistoryTypes'
  BY <1>1 DEF HistoryIInv, HistoryTypes
<1>3. Indexes'
  BY <1>1 DEF HistoryIInv, HistoryTypes, Indexes, Under
<1>4. HeadIsKnown'
  BY <1>1 DEF HistoryIInv, HistoryTypes, HeadIsKnown, Overtaken, History!Subject
<1> QED BY <1>2, <1>3, <1>4 DEF HistoryIInv

LEMMA HistoryNextPreserves == HistoryIInv /\ [History!Next]_History!vars => HistoryIInv'
<1> SUFFICES ASSUME HistoryIInv, [History!Next]_History!vars PROVE HistoryIInv'
  OBVIOUS
<1>1. CASE UNCHANGED History!vars
  BY <1>1 DEF History!vars, HistoryIInv, HistoryTypes, Indexes, Under, HeadIsKnown, Overtaken,
     History!Subject
<1> QED BY <1>1, CallPreserves, ReadHeadPreserves, HistoryAdvancePreserves,
           AwaitRejectsPreserves
        DEF History!Next

THEOREM HistoryInvariance == History!Spec => []HistoryIInv
<1> QED BY HistoryInitEstablishes, HistoryNextPreserves, PTL DEF History!Spec

(* TypeOK.                                                                 *)
THEOREM HistoryTypeCorrect == History!Spec => []History!TypeOK
<1> QED BY HistoryInvariance, HistoryIInvTypes, PTL

(* RefusedAppendsNothing: all events are looked at before any is appended. *)
THEOREM SelfReportsAppendNothing == History!Spec => []History!RefusedAppendsNothing
<1>1. HistoryIInv => History!RefusedAppendsNothing
  <2> SUFFICES ASSUME HistoryIInv, NEW c \in Producers, Doer \in History!ToSet(events[c])
               PROVE  out[c] = {}
    BY DEF History!RefusedAppendsNothing
  <2>1. Doer \in Named(events[c])
    BY NamedBy, EventsAreLists DEF HistoryIInv
  <2> QED BY <2>1 DEF HistoryIInv, Indexes
<1> QED BY <1>1, HistoryInvariance, PTL

LEMMA FrontOfAppend ==
  ASSUME NEW S, NEW s \in Seq(S), NEW x \in S
  PROVE  History!Front(Append(s, x)) = s
<1> DEFINE t == Append(s, x)
<1>1. t \in Seq(S) /\ Len(t) = Len(s) + 1 /\ Len(s) \in Nat
      /\ \A i \in 1..Len(s) : t[i] = s[i]
  OBVIOUS
<1> HIDE DEF t
<1>2. SubSeq(t, 1, Len(t) - 1) = s
  BY <1>1
<1> QED BY <1>2 DEF History!Front, t

LEMMA LastOfAppend ==
  ASSUME NEW S, NEW s \in Seq(S), NEW x \in S
  PROVE  History!Last(Append(s, x)) = x
BY DEF History!Last

(* HistoryIsAppendedUnlessRaced: a head is only moved by a member, forward *)
(* from what it read.                                                      *)
THEOREM AppendsKeepHistory == History!Spec => History!HistoryIsAppendedUnlessRaced
<1>1. HistoryIInv /\ [History!Next]_History!vars =>
        [\A s \in Subjects : head'[s] # head[s] =>
           /\ History!GoesOn(s)
           /\ \E c \in Producers :
                History!Member(writer[c]) /\ History!Last(head'[s]) =
                  <<c, next[c]>>]_History!vars
  <2> SUFFICES ASSUME HistoryIInv, History!Next, NEW s \in Subjects, head'[s] # head[s]
               PROVE  /\ History!GoesOn(s)
                      /\ \E c \in Producers : /\ History!Member(writer[c])
                                         /\ History!Last(head'[s]) = <<c, next[c]>>
    BY DEF History!vars
  <2>1. PICK c \in Producers : History!Advance(c)
    BY DEF History!Next, History!Call, History!ReadHead, History!AwaitRejects
  <2>2. head' = [head EXCEPT ![History!Subject(c)] =
                   IF History!Member(writer[c]) THEN History!NewRoot(c)
                     ELSE head[History!Subject(c)]]
    BY <2>1 DEF History!Advance, History!HeadAfter
  <2>3. /\ outcome[c] = "advance" /\ History!Subject(c) = s /\ History!Member(writer[c])
        /\ head'[s] = History!NewRoot(c)
    BY <2>1, <2>2 DEF History!Advance, HistoryIInv, HistoryTypes
  <2>4. prevRoot[c] \in Seq(Producers \X Nat) /\ <<c, next[c]>> \in Producers \X Nat
    BY DEF HistoryIInv, HistoryTypes, Roots
  <2>5. History!GoesOn(s)
    <3>1. CASE prevRoot[c] = head[s]
      <4>1. History!Front(History!NewRoot(c)) = prevRoot[c]
        BY <2>4, FrontOfAppend DEF History!NewRoot
      <4> QED BY <2>3, <3>1, <4>1 DEF History!GoesOn
    <3>2. CASE Overtaken(c)
      BY <2>3, <3>2 DEF Overtaken, History!GoesOn
    <3> QED BY <2>3, <3>1, <3>2 DEF HistoryIInv, HeadIsKnown
  <2>6. History!Last(History!NewRoot(c)) = <<c, next[c]>>
    BY <2>4, LastOfAppend DEF History!NewRoot
  <2> QED BY <2>3, <2>5, <2>6
<1> QED BY <1>1, HistoryInvariance, PTL DEF History!Spec, History!HistoryIsAppendedUnlessRaced
-----------------------------------------------------------------------------
(* What is written: a root that a call returned as valid.  q has one entry *)
(* more than p.                                                            *)
OneMore(q, p) == Len(q) = Len(p) + 1 /\ \A i \in 1..Len(p) : q[i] = p[i]

HistoryWritten(r, s) == \E d \in Producers : \E t \in out[d] :
  t.valid /\ t.subject = s /\ t.new = r

Known(r, s) == Len(r) = 0 \/ HistoryWritten(r, s)

(* An entry of a history of s is behind its call.                          *)
EarnedBy(c, i, s) ==
  /\ c \in Producers /\ i \in Nat /\ History!Member(writer[c]) /\ next[c] # 0
  /\ Doer \notin Named(events[c]) /\ i \in 1..Len(events[c]) /\ events[c][i] = s
  /\ Under(c) => i < next[c]

Returned ==
  \A c \in Producers : \A t \in out[c] :
    /\ t.subject \in Subjects /\ t.new \in Roots /\ Len(t.new) # 0
    /\ t.new[Len(t.new)][1] = c

Earned ==
  \A c \in Producers : \A t \in out[c] : t.valid =>
    \A k \in 1..Len(t.new) : EarnedBy(t.new[k][1], t.new[k][2], t.subject)

(* What a written root extends was written.                                *)
Prefixed ==
  \A c \in Producers : \A t \in out[c] : t.valid =>
    \A k \in 1..Len(t.new) :
      \E d \in Producers : \E u \in out[d] :
        /\ u.valid /\ u.subject = t.subject /\ Len(u.new) = k
        /\ \A i \in 1..k : u.new[i] = t.new[i]

HistoryReached ==
  /\ \A s \in Subjects : Known(head[s], s)
  /\ \A c \in Producers : outcome[c] = "advance" => Known(prevRoot[c], History!Subject(c))

(* A root that was left is not come back to.                               *)
Beyond ==
  \A c \in Producers : \A t \in out[c] : t.valid => ~OneMore(t.new, head[t.subject])

Own ==
  \A c \in Producers : outcome[c] = "advance" =>
    \A t \in out[c] : t.valid /\ t.subject = History!Subject(c) =>
      ~OneMore(t.new, prevRoot[c])

Forks ==
  \A c, d \in Producers : \A t \in out[c], u \in out[d] :
    t.valid /\ u.valid /\ t.subject = u.subject => History!PartBetweenCalls(t.new, u.new)

Past == Returned /\ Earned /\ Prefixed /\ HistoryReached /\ Beyond /\ Own /\ Forks

LEMMA InitHasNoPast == History!Init => Past
<1> SUFFICES ASSUME History!Init PROVE Past
  OBVIOUS
<1>1. /\ \A c \in Producers : out[c] = {} /\ outcome[c] = "pending"
      /\ \A s \in Subjects : Len(head[s]) = 0
  BY DEF History!Init, History!Genesis
<1> QED BY <1>1 DEF Past, Returned, Earned, Prefixed, HistoryReached, Known, Beyond, Own,
           Forks

(* A step that returns nothing leaves the past alone.                      *)
LEMMA PastIsKept ==
  ASSUME HistoryIInv, Past, UNCHANGED <<head, out>>,
         \A c \in Producers : outcome'[c] = "advance" =>
           /\ History!Subject(c)' = History!Subject(c)
           /\ \/ outcome[c] = "advance" /\ prevRoot'[c] = prevRoot[c]
              \/ prevRoot'[c] = head[History!Subject(c)] /\ History!Subject(c) \in Subjects,
         \A c \in Producers, i \in Nat, s \in Subjects :
           EarnedBy(c, i, s) => EarnedBy(c, i, s)'
  PROVE  Past'
<1>1. \A r, s : Known(r, s) => Known(r, s)'
  BY DEF Known, HistoryWritten
<1>2. Returned' /\ Prefixed' /\ Beyond' /\ Forks'
  BY DEF Past, Returned, Prefixed, Beyond, Forks, OneMore, History!PartBetweenCalls
<1>3. Earned'
  <2> SUFFICES ASSUME NEW c \in Producers, NEW t \in out[c], t.valid, NEW k \in 1..Len(t.new)
               PROVE  EarnedBy(t.new[k][1], t.new[k][2], t.subject)'
    BY DEF Earned
  <2>1. EarnedBy(t.new[k][1], t.new[k][2], t.subject)
    BY DEF Past, Earned
  <2>2. t.new[k][1] \in Producers /\ t.new[k][2] \in Nat /\ t.subject \in Subjects
    BY <2>1 DEF EarnedBy, Past, Returned
  <2> QED BY <2>1, <2>2
<1>4. HistoryReached'
  <2>1. ASSUME NEW s \in Subjects PROVE Known(head[s], s)'
    <3>1. Known(head[s], s)
      BY DEF Past, HistoryReached
    <3> QED BY <3>1 DEF Known, HistoryWritten
  <2>2. ASSUME NEW c \in Producers, outcome'[c] = "advance"
        PROVE  Known(prevRoot[c], History!Subject(c))'
    <3>1. Known(prevRoot'[c], History!Subject(c))
      BY <2>2 DEF Past, HistoryReached
    <3> QED BY <2>2, <3>1 DEF Known, HistoryWritten
  <2> QED BY <2>1, <2>2 DEF HistoryReached
<1>5. Own'
  <2> SUFFICES ASSUME NEW c \in Producers, outcome'[c] = "advance",
                      NEW t \in out[c], t.valid, t.subject = History!Subject(c)'
               PROVE  ~OneMore(t.new, prevRoot'[c])
    BY DEF Own, OneMore
  <2> QED BY DEF Past, Own, Beyond
<1> QED BY <1>2, <1>3, <1>4, <1>5 DEF Past

LEMMA CallKeepsPast ==
  ASSUME HistoryIInv, Past, NEW c \in Producers, History!Call(c) PROVE Past'
<1>1. /\ next[c] = 0 /\ outcome'[c] # "advance" /\ UNCHANGED <<head, prevRoot, out>>
      /\ \A d \in Producers : d # c => /\ events'[d] = events[d] /\ writer'[d] = writer[d]
                                   /\ next'[d] = next[d] /\ outcome'[d] = outcome[d]
  BY DEF History!Call, HistoryIInv, HistoryTypes
<1>2. \A d \in Producers : outcome'[d] = "advance" =>
        History!Subject(d)' = History!Subject(d) /\ outcome[d] = "advance" /\ prevRoot'[d] =
          prevRoot[d]
  BY <1>1 DEF History!Subject
<1>3. ASSUME NEW d \in Producers, NEW i \in Nat, NEW s \in Subjects, EarnedBy(d, i, s)
      PROVE  EarnedBy(d, i, s)'
  <2>1. d # c
    BY <1>1, <1>3 DEF EarnedBy
  <2> QED BY <1>1, <1>3, <2>1 DEF EarnedBy, Under
<1> QED BY <1>1, <1>2, <1>3, PastIsKept

LEMMA ReadHeadKeepsPast ==
  ASSUME HistoryIInv, Past, NEW c \in Producers, History!ReadHead(c) PROVE Past'
<1>1. /\ outcome[c] = "head"
      /\ prevRoot' = [prevRoot EXCEPT ![c] = head[History!Subject(c)]]
      /\ outcome' = [outcome EXCEPT ![c] = "advance"]
      /\ UNCHANGED <<head, events, writer, next, out>>
  BY DEF History!ReadHead, History!HeadFor
<1>2. History!Subject(c) \in Subjects
  BY <1>1, EventsAreLists DEF HistoryIInv, Indexes, Under, History!Subject
<1>3. \A d \in Producers : outcome'[d] = "advance" =>
        /\ History!Subject(d)' = History!Subject(d)
        /\ \/ outcome[d] = "advance" /\ prevRoot'[d] = prevRoot[d]
           \/ prevRoot'[d] = head[History!Subject(d)] /\ History!Subject(d) \in Subjects
  BY <1>1, <1>2 DEF History!Subject, HistoryIInv, HistoryTypes
<1>4. \A d \in Producers, i \in Nat, s \in Subjects : EarnedBy(d, i, s) => EarnedBy(d, i, s)'
  BY <1>1 DEF EarnedBy, Under, HistoryIInv, HistoryTypes
<1> QED BY <1>1, <1>3, <1>4, PastIsKept

LEMMA AwaitRejectsKeepsPast ==
  ASSUME HistoryIInv, Past, NEW c \in Producers, History!AwaitRejects(c) PROVE Past'
<1>1. /\ outcome' = [outcome EXCEPT ![c] = "threw"]
      /\ UNCHANGED <<head, events, writer, next, prevRoot, out>>
  BY DEF History!AwaitRejects
<1>2. \A d \in Producers : outcome'[d] = "advance" =>
        History!Subject(d)' = History!Subject(d) /\ outcome[d] = "advance" /\ prevRoot'[d] =
          prevRoot[d]
  BY <1>1 DEF History!Subject, HistoryIInv, HistoryTypes
<1>3. \A d \in Producers, i \in Nat, s \in Subjects : EarnedBy(d, i, s) => EarnedBy(d, i, s)'
  BY <1>1 DEF EarnedBy, Under, HistoryIInv, HistoryTypes
<1> QED BY <1>1, <1>2, <1>3, PastIsKept

LEMMA PartsBothWays ==
  ASSUME NEW r, NEW q, History!PartBetweenCalls(r, q) PROVE History!PartBetweenCalls(q, r)
<1> SUFFICES ASSUME NEW k \in DOMAIN q \cap DOMAIN r, q[k] # r[k],
                    \A i \in 1..(k - 1) : q[i] = r[i]
             PROVE  q[k][1] # r[k][1]
  BY DEF History!PartBetweenCalls
<1> QED BY DEF History!PartBetweenCalls

LEMMA AdvanceKeepsPast ==
  ASSUME HistoryIInv, Past, NEW c \in Producers, History!Advance(c) PROVE Past'
<1>0. PICK n \in Nat : n = next[c]
  BY DEF HistoryIInv, HistoryTypes
<1> DEFINE entry == <<c, n>>
           valid == History!Member(writer[c])
<1>1. PICK s \in Subjects : s = History!Subject(c)
  <2>1. outcome[c] = "advance" /\ next[c] \in 1..Len(events[c]) /\ events[c] \in Seq(Subjects)
    BY EventsAreLists DEF History!Advance, HistoryIInv, Indexes, Under
  <2> QED BY <2>1 DEF History!Subject
<1>2. PICK prev \in Roots : prev = prevRoot[c]
  BY DEF HistoryIInv, HistoryTypes
<1>3. PICK root \in Roots : root = Append(prev, entry)
  <2>1. entry \in Producers \X Nat
    OBVIOUS
  <2>2. prev \in Seq(Producers \X Nat)
    BY DEF Roots
  <2> HIDE DEF entry
  <2>3. Append(prev, entry) \in Seq(Producers \X Nat)
    BY <2>1, <2>2
  <2> QED BY <2>3 DEF Roots
<1>4. /\ Len(prev) \in Nat /\ Len(root) = Len(prev) + 1 /\ root[Len(root)] = entry
      /\ \A i \in 1..Len(prev) : root[i] = prev[i]
  BY <1>2, <1>3 DEF Roots
<1> DEFINE new == [subject |-> s, new |-> root, valid |-> valid]
<1>5. /\ outcome[c] = "advance" /\ n \in 1..Len(events[c])
      /\ head' = [head EXCEPT ![s] = IF valid THEN root ELSE head[s]]
      /\ out' = [out EXCEPT ![c] = @ \cup {new}]
      /\ UNCHANGED <<events, writer, prevRoot>>
  BY <1>0, <1>1, <1>2, <1>3
    DEF History!Advance, History!HeadAfter, History!NewRoot, HistoryIInv, Indexes, Under
<1>6. /\ outcome'[c] # "advance" /\ (Under(c)' => next'[c] = n + 1)
      /\ next'[c] # 0 /\ next[c] = n /\ n # 0
      /\ \A d \in Producers : d # c => next'[d] = next[d] /\ outcome'[d] = outcome[d]
  BY <1>0, <1>5 DEF History!Advance, HistoryIInv, HistoryTypes, Under
<1>7. /\ new \in out'[c] /\ out'[c] = out[c] \cup {new}
      /\ \A d \in Producers : out[d] \subseteq out'[d] /\ (d # c => out'[d] = out[d])
  BY <1>5 DEF HistoryIInv, HistoryTypes
<1>8. \A d \in Producers : \A t \in out'[d] : t \in out[d] \/ (d = c /\ t = new)
  BY <1>7
<1>9. \A d \in Producers, i \in Nat, r \in Subjects : EarnedBy(d, i, r) => EarnedBy(d, i, r)'
  BY <1>5, <1>6 DEF EarnedBy, Under, HistoryIInv, HistoryTypes
<1> HIDE DEF new
<1>10. new.subject = s /\ new.new = root /\ new.valid = valid
  BY DEF new
<1>11. Returned'
  <2> SUFFICES ASSUME NEW d \in Producers, NEW t \in out'[d]
               PROVE  /\ t.subject \in Subjects /\ t.new \in Roots /\ Len(t.new) # 0
                      /\ t.new[Len(t.new)][1] = d
    BY DEF Returned
  <2>1. CASE t \in out[d]
    BY <2>1 DEF Past, Returned
  <2>2. CASE d = c /\ t = new
    BY <1>4, <1>10, <2>2
  <2> QED BY <1>8, <2>1, <2>2
<1>12. Known(prev, s)
  BY <1>1, <1>2, <1>5 DEF Past, HistoryReached
<1>13. ASSUME valid PROVE EarnedBy(c, n, s)'
  <2>1. Doer \notin Named(events[c]) /\ events[c][n] = s
    BY <1>1, <1>5, <1>6 DEF History!Subject, HistoryIInv, Indexes, Under
  <2> QED BY <1>5, <1>6, <1>13, <2>1 DEF EarnedBy, Named
<1>14. Earned'
  <2> SUFFICES ASSUME NEW d \in Producers, NEW t \in out'[d], t.valid, NEW k \in 1..Len(t.new)
               PROVE  EarnedBy(t.new[k][1], t.new[k][2], t.subject)'
    BY DEF Earned
  <2>1. ASSUME NEW e \in Producers, NEW u \in out[e], u.valid, NEW j \in 1..Len(u.new)
        PROVE  EarnedBy(u.new[j][1], u.new[j][2], u.subject)'
    <3>1. EarnedBy(u.new[j][1], u.new[j][2], u.subject)
      BY <2>1 DEF Past, Earned
    <3>2. u.new[j][1] \in Producers /\ u.new[j][2] \in Nat /\ u.subject \in Subjects
      BY <3>1 DEF EarnedBy, Past, Returned
    <3> QED BY <1>9, <3>1, <3>2
  <2>2. CASE d = c /\ t = new
    <3>1. CASE k = Len(root)
      BY <1>4, <1>10, <1>13, <2>2, <3>1
    <3>2. CASE k # Len(root)
      <4>1. k \in 1..Len(prev) /\ root[k] = prev[k]
        BY <1>4, <1>10, <2>2, <3>2
      <4>2. PICK e \in Producers : \E u \in out[e] : u.valid /\ u.subject = s /\ u.new = prev
        BY <1>4, <1>12, <4>1 DEF Known, HistoryWritten
      <4> QED BY <1>10, <2>1, <2>2, <4>1, <4>2
    <3> QED BY <3>1, <3>2
  <2> QED BY <1>8, <2>1, <2>2
<1>15. Prefixed'
  <2> SUFFICES ASSUME NEW d \in Producers, NEW t \in out'[d], t.valid, NEW k \in 1..Len(t.new)
               PROVE  \E e \in Producers : \E u \in out'[e] :
                        /\ u.valid /\ u.subject = t.subject /\ Len(u.new) = k
                        /\ \A i \in 1..k : u.new[i] = t.new[i]
    BY DEF Prefixed
  <2>1. ASSUME NEW e \in Producers, NEW u \in out[e], u.valid, NEW j \in 1..Len(u.new)
        PROVE  \E f \in Producers : \E w \in out'[f] :
                 /\ w.valid /\ w.subject = u.subject /\ Len(w.new) = j
                 /\ \A i \in 1..j : w.new[i] = u.new[i]
    <3>1. PICK f \in Producers : \E w \in out[f] :
                 /\ w.valid /\ w.subject = u.subject /\ Len(w.new) = j
                 /\ \A i \in 1..j : w.new[i] = u.new[i]
      BY <2>1 DEF Past, Prefixed
    <3> QED BY <1>7, <3>1
  <2>2. CASE d = c /\ t = new
    <3>1. CASE k = Len(root)
      BY <1>7, <1>10, <2>2, <3>1
    <3>2. CASE k # Len(root)
      <4>1. k \in 1..Len(prev) /\ \A i \in 1..k : root[i] = prev[i]
        BY <1>4, <1>10, <2>2, <3>2
      <4>2. PICK e \in Producers : \E u \in out[e] : u.valid /\ u.subject = s /\ u.new = prev
        BY <1>4, <1>12, <4>1 DEF Known, HistoryWritten
      <4>3. PICK u \in out[e] : u.valid /\ u.subject = s /\ u.new = prev
        BY <4>2
      <4>4. PICK f \in Producers : \E w \in out'[f] :
              /\ w.valid /\ w.subject = s /\ Len(w.new) = k
              /\ \A i \in 1..k : w.new[i] = prev[i]
        BY <2>1, <4>1, <4>3
      <4> QED BY <1>10, <2>2, <4>1, <4>4
    <3> QED BY <3>1, <3>2
  <2> QED BY <1>8, <2>1, <2>2
<1>16. HistoryReached'
  <2>1. ASSUME NEW r, NEW x, Known(r, x) PROVE Known(r, x)'
    BY <1>7, <2>1 DEF Known, HistoryWritten
  <2>2. ASSUME NEW x \in Subjects PROVE Known(head[x], x)'
    <3>1. CASE x = s /\ valid
      <4>1. head'[x] = root
        BY <1>5, <3>1 DEF HistoryIInv, HistoryTypes
      <4> QED BY <1>7, <1>10, <3>1, <4>1 DEF Known, HistoryWritten
    <3>2. CASE ~(x = s /\ valid)
      <4>1. head'[x] = head[x] /\ Known(head[x], x)
        BY <1>5, <3>2 DEF HistoryIInv, HistoryTypes, Past, HistoryReached
      <4> QED BY <1>7, <4>1 DEF Known, HistoryWritten
    <3> QED BY <3>1, <3>2
  <2>3. ASSUME NEW d \in Producers, outcome'[d] = "advance"
        PROVE  Known(prevRoot[d], History!Subject(d))'
    <3>1. d # c /\ History!Subject(d)' =
            History!Subject(d) /\ Known(prevRoot[d], History!Subject(d))
      BY <1>5, <1>6, <2>3 DEF History!Subject, Past, HistoryReached
    <3> QED BY <1>5, <1>7, <3>1 DEF Known, HistoryWritten
  <2> QED BY <2>2, <2>3 DEF HistoryReached
<1>17. Beyond'
  <2> SUFFICES ASSUME NEW d \in Producers, NEW t \in out'[d], t.valid,
                      OneMore(t.new, head'[t.subject])
               PROVE  FALSE
    BY DEF Beyond, OneMore
  <2>1. CASE t \in out[d]
    <3>1. t.subject = s /\ valid /\ head'[s] = root
      <4>1. t.subject \in Subjects /\ ~OneMore(t.new, head[t.subject])
        BY <2>1 DEF Past, Beyond, Returned
      <4>2. head'[t.subject] # head[t.subject]
        BY <4>1
      <4> QED BY <1>5, <4>1, <4>2 DEF HistoryIInv, HistoryTypes
    <3>2. Len(t.new) = Len(root) + 1 /\ t.new[Len(root)] = entry
      BY <1>4, <3>1 DEF OneMore
    <3>3. EarnedBy(entry[1], entry[2], s)
      BY <1>4, <2>1, <3>1, <3>2 DEF Past, Earned
    <3> QED BY <1>5, <1>6, <3>3 DEF EarnedBy, Under
  <2>2. CASE d = c /\ t = new
    <3>1. head'[s] = root
      BY <1>5, <1>10, <2>2 DEF HistoryIInv, HistoryTypes
    <3> QED BY <1>4, <1>10, <2>2, <3>1 DEF OneMore
  <2> QED BY <1>8, <2>1, <2>2
<1>18. Own'
  <2> SUFFICES ASSUME NEW d \in Producers, outcome'[d] = "advance",
                      NEW t \in out'[d], t.valid, t.subject = History!Subject(d)'
               PROVE  ~OneMore(t.new, prevRoot'[d])
    BY DEF Own, OneMore
  <2>1. d # c /\ outcome[d] = "advance" /\ t \in out[d] /\ History!Subject(d)' =
          History!Subject(d)
    BY <1>5, <1>6, <1>7 DEF History!Subject
  <2> QED BY <1>5, <2>1 DEF Past, Own
<1>19. ASSUME NEW d \in Producers, NEW u \in out[d], u.valid, u.subject = s
       PROVE  History!PartBetweenCalls(root, u.new)
  <2>1. u.new \in Seq(Producers \X Nat) /\ DOMAIN u.new = 1..Len(u.new) /\ Len(u.new) \in Nat
    BY <1>19 DEF Past, Returned, Roots
  <2>2. DOMAIN root = 1..Len(root) /\ Len(root) \in Nat
    BY DEF Roots
  <2> SUFFICES ASSUME NEW k \in 1..Len(root), k \in 1..Len(u.new), root[k] # u.new[k],
                      \A i \in 1..(k - 1) : root[i] = u.new[i]
               PROVE  root[k][1] # u.new[k][1]
    BY <2>1, <2>2 DEF History!PartBetweenCalls
  <2>3. CASE k # Len(root)
    <3>1. k \in 1..Len(prev) /\ root[k] = prev[k]
          /\ \A i \in 1..(k - 1) : prev[i] = u.new[i]
      BY <1>4, <2>3
    <3>2. PICK e \in Producers : \E t \in out[e] : t.valid /\ t.subject = s /\ t.new = prev
      BY <1>4, <1>12, <3>1 DEF Known, HistoryWritten
    <3>3. History!PartBetweenCalls(prev, u.new)
      BY <1>19, <3>2 DEF Past, Forks
    <3>4. DOMAIN prev = 1..Len(prev)
      BY DEF Roots
    <3> QED BY <2>1, <3>1, <3>3, <3>4 DEF History!PartBetweenCalls
  <2>4. CASE k = Len(root)
    <3>1. PICK e \in Producers : \E w \in out[e] :
            /\ w.valid /\ w.subject = s /\ Len(w.new) = k
            /\ \A i \in 1..k : w.new[i] = u.new[i]
      BY <1>19 DEF Past, Prefixed
    <3>2. PICK w \in out[e] :
            /\ w.valid /\ w.subject = s /\ Len(w.new) = k
            /\ \A i \in 1..k : w.new[i] = u.new[i]
      BY <3>1
    <3>3. OneMore(w.new, prev)
      BY <1>4, <2>4, <3>2 DEF OneMore
    <3>4. w.new[k][1] = e /\ w.new[k] = u.new[k]
      BY <3>2 DEF Past, Returned
    <3>5. e # c
      BY <1>1, <1>2, <1>5, <3>2, <3>3 DEF Past, Own
    <3> QED BY <1>4, <2>4, <3>4, <3>5
  <2> QED BY <2>3, <2>4
<1>20. Forks'
  <2> SUFFICES ASSUME NEW d \in Producers, NEW e \in Producers, NEW t \in out'[d],
                      NEW u \in out'[e],
                      t.valid, u.valid, t.subject = u.subject
               PROVE  History!PartBetweenCalls(t.new, u.new)
    BY DEF Forks, History!PartBetweenCalls
  <2>1. CASE t \in out[d] /\ u \in out[e]
    BY <2>1 DEF Past, Forks
  <2>2. CASE t = new /\ u \in out[e]
    BY <1>10, <1>19, <2>2
  <2>3. CASE t \in out[d] /\ u = new
    BY <1>10, <1>19, <2>3, PartsBothWays
  <2>4. CASE t = new /\ u = new
    BY <2>4 DEF History!PartBetweenCalls
  <2> QED BY <1>8, <2>1, <2>2, <2>3, <2>4
<1> QED BY <1>11, <1>14, <1>15, <1>16, <1>17, <1>18, <1>20 DEF Past

LEMMA NextKeepsPast == HistoryIInv /\ Past /\ [History!Next]_History!vars => Past'
<1> SUFFICES ASSUME HistoryIInv, Past, [History!Next]_History!vars PROVE Past'
  OBVIOUS
<1>1. CASE UNCHANGED History!vars
  <2>1. \A c \in Producers : History!Subject(c)' = History!Subject(c)
    BY <1>1 DEF History!vars, History!Subject
  <2>2. \A c \in Producers, i \in Nat, s \in Subjects : EarnedBy(c, i, s) =>
          EarnedBy(c, i, s)'
    BY <1>1 DEF History!vars, EarnedBy, Under
  <2> QED BY <1>1, <2>1, <2>2, PastIsKept DEF History!vars
<1> QED BY <1>1, CallKeepsPast, ReadHeadKeepsPast, AdvanceKeepsPast, AwaitRejectsKeepsPast
        DEF History!Next

LEMMA PastIsTold == History!Spec => []Past
<1> QED BY HistoryInvariance, InitHasNoPast, NextKeepsPast, PTL DEF History!Spec

(* EveryEntryIsEarned: a history is made of what members of the group      *)
(* appended about its subject.                                             *)
THEOREM MembersWriteHistory == History!Spec => []History!EveryEntryIsEarned
<1>1. HistoryIInv /\ Past => History!EveryEntryIsEarned
  <2> SUFFICES ASSUME HistoryIInv, Past, NEW s \in Subjects, NEW k \in DOMAIN head[s]
               PROVE  LET c == head[s][k][1]
                          i == head[s][k][2] IN
                      /\ History!Member(writer[c]) /\ Doer \notin History!ToSet(events[c])
                      /\ i \in DOMAIN events[c] /\ events[c][i] = s
    BY DEF History!EveryEntryIsEarned
  <2> DEFINE c == head[s][k][1]
             i == head[s][k][2]
  <2>1. k \in 1..Len(head[s]) /\ Len(head[s]) # 0
    BY DEF HistoryIInv, HistoryTypes, Roots
  <2>2. HistoryWritten(head[s], s)
    BY <2>1 DEF Past, HistoryReached, Known
  <2>3. EarnedBy(c, i, s)
    BY <2>1, <2>2 DEF HistoryWritten, Past, Earned
  <2>4. c \in Producers /\ events[c] \in Seq(Subjects) /\ DOMAIN events[c] = 1..Len(events[c])
    BY <2>3, EventsAreLists DEF EarnedBy, HistoryIInv
  <2> QED BY <2>3, <2>4, NamedBy DEF EarnedBy
<1> QED BY <1>1, HistoryInvariance, PastIsTold, PTL

(* ValidStaysUnlessRaced: what a call appended stays in the history, or    *)
(* another call's event stands where they part.                            *)
THEOREM NoCallForksItself == History!Spec => []History!ValidStaysUnlessRaced
<1>1. HistoryIInv /\ Past => History!ValidStaysUnlessRaced
  <2> SUFFICES ASSUME HistoryIInv, Past, NEW c \in Producers, NEW t \in out[c], t.valid
               PROVE  /\ ~History!IsStrictPrefix(head[t.subject], t.new)
                      /\ History!PartBetweenCalls(head[t.subject], t.new)
    BY DEF History!ValidStaysUnlessRaced
  <2>1. t.subject \in Subjects /\ Known(head[t.subject], t.subject)
    BY DEF Past, Returned, HistoryReached
  <2>2. PICK h \in Roots, r \in Roots : h = head[t.subject] /\ r = t.new
    BY <2>1 DEF HistoryIInv, HistoryTypes, Past, Returned
  <2>3. /\ h \in Seq(Producers \X Nat) /\ r \in Seq(Producers \X Nat)
        /\ Len(h) \in Nat /\ Len(r) \in Nat /\ DOMAIN h = 1..Len(h)
    BY DEF Roots
  <2>4. History!PartBetweenCalls(h, r)
    <3>1. CASE Len(h) = 0
      BY <2>3, <3>1 DEF History!PartBetweenCalls
    <3>2. CASE HistoryWritten(h, t.subject)
      BY <2>2, <3>2 DEF HistoryWritten, Past, Forks
    <3> QED BY <2>1, <2>2, <3>1, <3>2 DEF Known
  <2>5. ASSUME History!IsStrictPrefix(h, r) PROVE FALSE
    <3>1. Len(h) <= Len(r) /\ SubSeq(h, 1, Len(h)) = SubSeq(r, 1, Len(h)) /\ h # r
      BY <2>5 DEF History!IsStrictPrefix, History!IsPrefix
    <3>2. \A i \in 1..Len(h) : h[i] = r[i]
      <4> SUFFICES ASSUME NEW i \in 1..Len(h) PROVE h[i] = r[i]
        OBVIOUS
      <4>1. SubSeq(h, 1, Len(h))[i] = h[i] /\ SubSeq(r, 1, Len(h))[i] = r[i]
        BY <2>3, <3>1
      <4> QED BY <3>1, <4>1
    <3>3. Len(h) < Len(r)
      <4>1. SubSeq(h, 1, Len(h)) = h
        BY <2>3
      <4>2. SubSeq(r, 1, Len(r)) = r
        BY <2>3
      <4> QED BY <2>3, <3>1, <4>1, <4>2
    <3>4. PICK d \in Producers : \E u \in out[d] :
            /\ u.valid /\ u.subject = t.subject /\ Len(u.new) = Len(h) + 1
            /\ \A i \in 1..(Len(h) + 1) : u.new[i] = r[i]
      <4>1. Len(h) + 1 \in 1..Len(t.new)
        BY <2>2, <2>3, <3>3
      <4> QED BY <2>2, <4>1 DEF Past, Prefixed
    <3>5. PICK u \in out[d] : /\ u.valid /\ u.subject = t.subject /\ Len(u.new) = Len(h) + 1
                              /\ \A i \in 1..(Len(h) + 1) : u.new[i] = r[i]
      BY <3>4
    <3>6. OneMore(u.new, h)
      <4>1. \A i \in 1..Len(h) : i \in 1..(Len(h) + 1)
        BY <2>3
      <4> QED BY <3>2, <3>5, <4>1 DEF OneMore
    <3> QED BY <2>2, <3>5, <3>6 DEF Past, Beyond
  <2> QED BY <2>2, <2>4, <2>5
<1> QED BY <1>1, HistoryInvariance, PastIsTold, PTL

-----------------------------------------------------------------------------
(***************************************************************************)
(* The replay of the corpus, for any corpus, batch and limits.             *)
(*                                                                         *)
(* Below any cursor that was printed every row has its receipt or is one   *)
(* that a run stopped on: a batch leaves no row out, and neither do those  *)
(* of it that were attempted.                                              *)
(***************************************************************************)

LEMMA ReplayConstants ==
  /\ Corpus \subseteq Nat /\ IsFiniteSet(Corpus)
  /\ \A r \in Corpus : r \in Nat /\ r \in Int /\ r # 0
  /\ Batch \in Nat \ {0} /\ ReplayLimits \subseteq Nat \cup {-1} /\ MaxRuns \in Nat
BY ServicesAssumption, Replaying!IsFiniteSet(Corpus) <=> IsFiniteSet(Corpus)
   DEF Replaying!ReplayAssumption, Replaying!IsFiniteSet, IsFiniteSet

LEMMA ReplayCardinality == \A S : Replaying!Cardinality(S) = Cardinality(S)
BY DEF Replaying!Cardinality, Cardinality, Replaying!IsFiniteSet, IsFiniteSet

LEMMA LeastOfRows ==
  ASSUME NEW S, S \subseteq Corpus, S # {}
  PROVE  Replaying!Min(S) \in S /\ \A r \in S : Replaying!Min(S) <= r
<1>1. IsFiniteSet(S)
  BY ReplayConstants, FS_Subset
<1>0. \A r \in S : r \in Int
  BY ReplayConstants
<1>2. \E m \in S : \A r \in S : m <= r
  BY <1>0, <1>1, LeastExists
<1> QED BY <1>2 DEF Replaying!Min

LEMMA GreatestOfRows ==
  ASSUME NEW S, S \subseteq Corpus, S # {}
  PROVE  Replaying!Max(S) \in S /\ \A r \in S : Replaying!Max(S) >= r
<1>1. IsFiniteSet(S)
  BY ReplayConstants, FS_Subset
<1>0. \A r \in S : r \in Int
  BY ReplayConstants
<1>2. \E m \in S : \A r \in S : m >= r
  BY <1>0, <1>1, GreatestExists
<1> QED BY <1>2 DEF Replaying!Max

(* The lowest n rows of S: no lower one is left out, and they are n.       *)
LEMMA LowestOfRows ==
  ASSUME NEW S, S \subseteq Corpus, NEW n \in Nat
  PROVE  /\ Replaying!Lowest(S, n) \subseteq S
         /\ \A r \in S, q \in Replaying!Lowest(S, n) : r <= q => r \in Replaying!Lowest(S, n)
         /\ Cardinality(Replaying!Lowest(S, n)) <= n
<1> DEFINE Below(r) == {q \in S : q < r}
           L == Replaying!Lowest(S, n)
<1>1. L = {r \in S : Cardinality(Below(r)) < n}
  BY ReplayCardinality DEF Replaying!Lowest
<1>2. \A r \in S : IsFiniteSet(Below(r)) /\ Cardinality(Below(r)) \in Nat
  <2> TAKE r \in S
  <2>1. Below(r) \subseteq Corpus
    OBVIOUS
  <2> HIDE DEF Below
  <2> QED BY <2>1, ReplayConstants, FS_Subset, FS_CardinalityType
<1>3. ASSUME NEW r \in S, NEW q \in L, r <= q PROVE r \in L
  <2>1. q \in S /\ Cardinality(Below(q)) < n
    BY <1>1, <1>3
  <2>2. Below(r) \subseteq Below(q)
    <3>1. r \in Nat /\ q \in Nat /\ \A p \in S : p \in Nat
      BY <2>1, ReplayConstants
    <3>2. \A p \in S : p < r => p < q
      BY <1>3, <3>1
    <3> QED BY <3>2
  <2>3. Cardinality(Below(r)) <= Cardinality(Below(q))
    <3> HIDE DEF Below
    <3> QED BY <1>2, <2>1, <2>2, FS_Subset
  <2>4. Cardinality(Below(r)) < n
    <3> HIDE DEF Below
    <3> QED BY <1>2, <2>1, <2>3
  <2> QED BY <1>1, <2>4
<1>4. Cardinality(L) <= n
  <2> HIDE DEF L
  <2>1. CASE L = {}
    BY <2>1, FS_EmptySet
  <2>2. CASE L # {}
    <3>0. L \subseteq Corpus
      BY <1>1
    <3>1. (\A x \in L : x \in Int) /\ IsFiniteSet(L)
      BY <3>0, ReplayConstants, FS_Subset
    <3>2. PICK m \in L : \A x \in L : m >= x
      BY <2>2, <3>1, GreatestExists
    <3>3. m \in S /\ Cardinality(Below(m)) < n /\ m \in Int
      BY <1>1, <3>2, <3>1
    <3>7. m \notin Below(m)
      BY <3>3
    <3>4. L \subseteq Below(m) \cup {m}
      <4> SUFFICES ASSUME NEW x \in L, x # m PROVE x \in S /\ x < m
        OBVIOUS
      <4>1. x \in S /\ x \in Int /\ m >= x
        BY <1>1, <3>1, <3>2
      <4> QED BY <3>3, <4>1
    <3> HIDE DEF Below
    <3>5. /\ IsFiniteSet(Below(m) \cup {m})
          /\ Cardinality(Below(m) \cup {m}) = Cardinality(Below(m)) + 1
      BY <1>2, <3>3, <3>7, FS_AddElement
    <3>6. Cardinality(L) <= Cardinality(Below(m) \cup {m}) /\ Cardinality(L) \in Nat
      BY <3>1, <3>4, <3>5, FS_Subset, FS_CardinalityType
    <3> QED BY <1>2, <3>3, <3>5, <3>6
  <2> QED BY <2>1, <2>2
<1> QED BY <1>1, <1>3, <1>4

-----------------------------------------------------------------------------
ReplayingTypes ==
  /\ minted \subseteq Corpus /\ refused \subseteq Corpus
  /\ phase \in {"idle", "read", "insert", "advance", "count"}
  /\ cursor \in Corpus \cup {0} /\ printed \subseteq Corpus \cup {0}
  /\ rows \subseteq Corpus /\ tried \subseteq rows
  /\ left \in Nat \cup {Replaying!NoLimit}
  /\ failed \in BOOLEAN /\ counted \in BOOLEAN
  /\ said \in Replaying!Verdicts \cup {"none"}
  /\ runs \in 0..MaxRuns

Reach ==
  /\ phase \in {"idle", "read", "count"} => rows = {}
  /\ phase = "insert" => rows \ tried # {}
  /\ phase = "advance" => tried # {}

(* The limit covers what is still to be attempted.                         *)
LimitIsKept == phase = "insert" /\ left # Replaying!NoLimit =>
  Cardinality(rows \ tried) <= left

Covered(c) == \A r \in Corpus : r <= c => r \in minted \cup refused

NothingSkipped ==
  /\ \A c \in printed \cup {cursor} : Covered(c)
  /\ tried \subseteq minted \cup refused
  /\ \A r \in Corpus, q \in rows : cursor < r /\ r <= q => r \in rows
  /\ \A r \in rows, q \in tried : r <= q => r \in tried

CertifiedIsCovered == Replaying!Certified => Corpus \subseteq minted \cup refused

ReplayingIInv == ReplayingTypes /\ Reach /\ LimitIsKept /\ NothingSkipped
  /\ CertifiedIsCovered

LEMMA ReplayingIInvTypes == ReplayingIInv => Replaying!TypeOK
BY DEF ReplayingIInv, ReplayingTypes, Replaying!TypeOK

LEMMA ReplayingInitEstablishes == Replaying!Init => ReplayingIInv
<1> SUFFICES ASSUME Replaying!Init PROVE ReplayingIInv
  OBVIOUS
<1>1. \A r \in Corpus : ~(r <= 0)
  BY ReplayConstants
<1>2. ReplayingTypes
  <2>1. 0 \in 0..MaxRuns
    BY ReplayConstants
  <2> QED BY <2>1 DEF Replaying!Init, ReplayingTypes
<1> QED BY <1>1, <1>2
          DEF Replaying!Init, ReplayingIInv, Reach, LimitIsKept, NothingSkipped, Covered,
           CertifiedIsCovered, Replaying!Certified

-----------------------------------------------------------------------------
LEMMA StartPreserves == ASSUME ReplayingIInv, Replaying!Start PROVE ReplayingIInv'
<1>1. PICK after \in printed, limit \in ReplayLimits : cursor' = after /\ left' = limit
  BY DEF Replaying!Start
<1>2. /\ phase = "idle" /\ phase' = "read" /\ failed' = FALSE /\ said' = "none"
      /\ runs < MaxRuns /\ runs' = runs + 1
      /\ UNCHANGED <<minted, rows, tried, counted, printed, refused>>
  BY DEF Replaying!Start
<1>3. rows = {}
  BY <1>2 DEF ReplayingIInv, Reach
<1>4. ReplayingTypes'
  <2>1. runs' \in 0..MaxRuns
    BY <1>2, ReplayConstants DEF ReplayingIInv, ReplayingTypes
  <2>2. left' \in Nat \cup {Replaying!NoLimit}
    BY <1>1, ReplayConstants DEF Replaying!NoLimit
  <2>3. failed' \in BOOLEAN
    BY <1>2
  <2> QED BY <1>1, <1>2, <2>1, <2>2, <2>3 DEF ReplayingIInv, ReplayingTypes
<1>5. NothingSkipped'
  BY <1>1, <1>2, <1>3 DEF ReplayingIInv, ReplayingTypes, NothingSkipped, Covered
<1> QED BY <1>2, <1>3, <1>4, <1>5
          DEF ReplayingIInv, Reach, LimitIsKept, CertifiedIsCovered, Replaying!Certified

LEMMA LiveMintPreserves ==
  ASSUME ReplayingIInv, NEW r \in Corpus, Replaying!LiveMint(r) PROVE ReplayingIInv'
<1>1. /\ minted' = minted \cup {r}
      /\ UNCHANGED <<phase, cursor, rows, tried, left, failed, counted, said, printed,
                     refused, runs>>
  BY DEF Replaying!LiveMint
<1>2. ReplayingTypes'
  BY <1>1 DEF ReplayingIInv, ReplayingTypes
<1>3. NothingSkipped'
  BY <1>1 DEF ReplayingIInv, NothingSkipped, Covered
<1>4. Reach' /\ LimitIsKept' /\ CertifiedIsCovered'
  BY <1>1 DEF ReplayingIInv, Reach, LimitIsKept, CertifiedIsCovered, Replaying!Certified
<1> QED BY <1>2, <1>3, <1>4 DEF ReplayingIInv

LEMMA KillPreserves == ASSUME ReplayingIInv, Replaying!Kill PROVE ReplayingIInv'
<1>1. /\ phase' = "idle" /\ rows' = {} /\ tried' = {}
      /\ UNCHANGED <<minted, cursor, left, failed, counted, said, printed, refused, runs>>
  BY DEF Replaying!Kill
<1> QED BY <1>1 DEF ReplayingIInv, ReplayingTypes, Reach, LimitIsKept, NothingSkipped,
           Covered,
           CertifiedIsCovered, Replaying!Certified

LEMMA ReadPreserves == ASSUME ReplayingIInv, Replaying!Read PROVE ReplayingIInv'
<1> DEFINE found == Replaying!Lowest(Replaying!Beyond(cursor), Replaying!Take)
<1>1. /\ phase = "read" /\ tried' = {}
      /\ UNCHANGED <<minted, cursor, left, failed, counted, said, printed, refused, runs>>
      /\ \/ found # {} /\ rows' = found /\ phase' = "insert"
         \/ rows' = {} /\ phase' = "count"
  BY DEF Replaying!Read
<1>2. /\ Replaying!Take \in Nat /\ (left # Replaying!NoLimit => Replaying!Take <= left)
      /\ Replaying!Beyond(cursor) \subseteq Corpus
  BY ReplayConstants DEF Replaying!Take, Replaying!Beyond, ReplayingIInv, ReplayingTypes,
     Replaying!NoLimit
<1> HIDE DEF found
<1>3. /\ found \subseteq Replaying!Beyond(cursor) /\ Cardinality(found) <= Replaying!Take
      /\ \A r \in Replaying!Beyond(cursor), q \in found : r <= q => r \in found
  BY <1>2, LowestOfRows DEF found
<1>4. IsFiniteSet(found) /\ Cardinality(found) \in Nat
  BY <1>2, <1>3, ReplayConstants, FS_Subset, FS_CardinalityType
<1>5. ReplayingTypes'
  BY <1>1, <1>2, <1>3 DEF ReplayingIInv, ReplayingTypes
<1>6. Reach'
  BY <1>1 DEF Reach
<1>7. LimitIsKept'
  <2> SUFFICES ASSUME phase' = "insert", left # Replaying!NoLimit
               PROVE  Cardinality(rows' \ tried') <= left
    BY <1>1 DEF LimitIsKept
  <2>1. rows' \ tried' = found
    BY <1>1
  <2> QED BY <1>2, <1>3, <1>4, <2>1 DEF ReplayingIInv, ReplayingTypes
<1>8. NothingSkipped'
  <2>1. \A r \in Corpus, q \in rows' : cursor' < r /\ r <= q => r \in rows'
    BY <1>1, <1>3, ReplayConstants DEF Replaying!Beyond, ReplayingIInv, ReplayingTypes
  <2> QED BY <1>1, <2>1 DEF ReplayingIInv, NothingSkipped, Covered
<1> QED BY <1>1, <1>5, <1>6, <1>7, <1>8
          DEF ReplayingIInv, CertifiedIsCovered, Replaying!Certified

LEMMA InsertPreserves == ASSUME ReplayingIInv, Replaying!Insert PROVE ReplayingIInv'
<1>1. phase = "insert" /\ rows \ tried # {} /\ rows \ tried \subseteq Corpus
  BY DEF Replaying!Insert, ReplayingIInv, Reach, ReplayingTypes
<1>2. PICK x \in rows \ tried : /\ x = Replaying!Min(rows \ tried)
                                 /\ \A r \in rows \ tried : x <= r
  BY <1>1, LeastOfRows
<1>3. /\ tried' = tried \cup {x}
      /\ minted \subseteq minted' /\ minted' \subseteq minted \cup {x}
      /\ refused \subseteq refused' /\ refused' \subseteq refused \cup {x}
      /\ x \in minted' \cup refused'
      /\ failed' \in {failed, TRUE}
      /\ phase' \in {"advance", "insert"} /\ (phase' = "insert" => tried' # rows)
      /\ left' = IF left = Replaying!NoLimit THEN left ELSE left - 1
      /\ UNCHANGED <<cursor, rows, counted, said, printed, runs>>
  BY <1>2 DEF Replaying!Insert
<1>4. x \in rows /\ x \in Corpus /\ rows \subseteq Corpus /\ tried \subseteq rows
  BY <1>2 DEF ReplayingIInv, ReplayingTypes
<1>5. IsFiniteSet(rows \ tried) /\ Cardinality(rows \ tried) \in Nat
      /\ Cardinality(rows \ tried) # 0
  BY <1>1, ReplayConstants, FS_Subset, FS_CardinalityType, FS_EmptySet
<1>6. left # Replaying!NoLimit => Cardinality(rows \ tried) <= left
  BY <1>1 DEF ReplayingIInv, LimitIsKept
<1>7. left' \in Nat \cup {Replaying!NoLimit}
  BY <1>3, <1>5, <1>6 DEF ReplayingIInv, ReplayingTypes
<1>8. ReplayingTypes'
  BY <1>3, <1>4, <1>7 DEF ReplayingIInv, ReplayingTypes
<1>9. Reach'
  BY <1>3, <1>4 DEF Reach
<1>10. LimitIsKept'
  <2> SUFFICES ASSUME left' # Replaying!NoLimit PROVE Cardinality(rows' \ tried') <= left'
    BY DEF LimitIsKept
  <2>1. rows' \ tried' = (rows \ tried) \ {x}
    BY <1>3
  <2>2. Cardinality(rows' \ tried') = Cardinality(rows \ tried) - 1
    BY <1>2, <1>5, <2>1, FS_RemoveElement
  <2>3. left # Replaying!NoLimit /\ left' = left - 1 /\ left \in Nat
    BY <1>3 DEF ReplayingIInv, ReplayingTypes
  <2> QED BY <1>5, <1>6, <2>2, <2>3
<1>11. NothingSkipped'
  <2>1. \A c \in printed' \cup {cursor'} : Covered(c)'
    BY <1>3 DEF ReplayingIInv, NothingSkipped, Covered
  <2>2. tried' \subseteq minted' \cup refused'
    BY <1>3 DEF ReplayingIInv, NothingSkipped
  <2>3. ASSUME NEW r \in rows', NEW q \in tried', r <= q PROVE r \in tried'
    <3>1. r \in rows /\ r \in Nat /\ x \in Nat
      BY <1>3, <1>4, ReplayConstants
    <3>2. CASE q \in tried
      BY <1>3, <2>3, <3>1, <3>2 DEF ReplayingIInv, NothingSkipped
    <3>3. CASE q = x
      <4>1. r \in tried \/ r = x
        BY <1>2, <2>3, <3>1, <3>3
      <4> QED BY <1>3, <4>1
    <3> QED BY <1>3, <3>2, <3>3
  <2> QED BY <1>3, <2>1, <2>2, <2>3 DEF ReplayingIInv, NothingSkipped
<1>12. CertifiedIsCovered'
  BY <1>3 DEF ReplayingIInv, CertifiedIsCovered, Replaying!Certified
<1> QED BY <1>8, <1>9, <1>10, <1>11, <1>12 DEF ReplayingIInv

LEMMA ReplayingAdvancePreserves ==
  ASSUME ReplayingIInv, Replaying!Advance PROVE ReplayingIInv'
<1>1. tried # {} /\ tried \subseteq Corpus
  BY DEF Replaying!Advance, ReplayingIInv, Reach, ReplayingTypes
<1>2. PICK x \in tried : x = Replaying!Max(tried) /\ \A r \in tried : x >= r
  BY <1>1, GreatestOfRows
<1>3. /\ cursor' = x /\ printed' = printed \cup {x}
      /\ phase' = (IF failed THEN "count" ELSE "read")
      /\ rows' = {} /\ tried' = {}
      /\ UNCHANGED <<minted, left, failed, counted, said, refused, runs>>
  BY <1>2 DEF Replaying!Advance, Replaying!Advanced, Replaying!Attempted
<1>4. ReplayingTypes'
  BY <1>1, <1>3 DEF ReplayingIInv, ReplayingTypes
<1>5. Covered(x)'
  <2> SUFFICES ASSUME NEW r \in Corpus, r <= x PROVE r \in minted \cup refused
    BY <1>3 DEF Covered
  <2>1. CASE r <= cursor
    BY <2>1 DEF ReplayingIInv, NothingSkipped, Covered
  <2>2. CASE cursor < r
    BY <1>2, <2>2 DEF ReplayingIInv, ReplayingTypes, NothingSkipped
  <2> QED BY <2>1, <2>2, ReplayConstants DEF ReplayingIInv, ReplayingTypes
<1>6. \A c \in printed : Covered(c)'
  BY <1>3 DEF ReplayingIInv, NothingSkipped, Covered
<1>7. NothingSkipped'
  BY <1>3, <1>5, <1>6 DEF NothingSkipped
<1>8. Reach' /\ LimitIsKept' /\ CertifiedIsCovered'
  BY <1>3 DEF ReplayingIInv, Reach, LimitIsKept, CertifiedIsCovered, Replaying!Certified
<1> QED BY <1>4, <1>7, <1>8 DEF ReplayingIInv

LEMMA ReplayingCountPreserves == ASSUME ReplayingIInv, Replaying!Count PROVE ReplayingIInv'
<1>1. PICK c \in BOOLEAN :
        /\ counted' = c
        /\ said' = IF failed THEN "FAILED"
                      ELSE IF c /\ Replaying!Beyond(cursor) # {} THEN "NOT_CHECKED"
                        ELSE "VERIFIED"
  BY DEF Replaying!Count
<1>2. /\ phase = "count" /\ printed' = printed \cup {cursor} /\ phase' = "idle"
      /\ UNCHANGED <<minted, cursor, rows, tried, left, failed, refused, runs>>
  BY DEF Replaying!Count
<1>3. rows = {}
  BY <1>2 DEF ReplayingIInv, Reach
<1>4. ReplayingTypes'
  BY <1>1, <1>2 DEF ReplayingIInv, ReplayingTypes, Replaying!Verdicts
<1>5. NothingSkipped'
  BY <1>2, <1>3 DEF ReplayingIInv, NothingSkipped, Covered
<1>6. CertifiedIsCovered'
  <2> SUFFICES ASSUME Replaying!Certified', NEW r \in Corpus PROVE r \in minted \cup refused
    BY <1>2 DEF CertifiedIsCovered
  <2>1. Replaying!Beyond(cursor) = {}
    BY <1>1 DEF Replaying!Certified
  <2>2. r <= cursor
    BY <2>1, ReplayConstants DEF Replaying!Beyond, ReplayingIInv, ReplayingTypes
  <2> QED BY <2>2 DEF ReplayingIInv, NothingSkipped, Covered
<1>7. Reach' /\ LimitIsKept'
  BY <1>2, <1>3 DEF Reach, LimitIsKept
<1> QED BY <1>4, <1>5, <1>6, <1>7 DEF ReplayingIInv

LEMMA ReplayingNextPreserves ==
  ReplayingIInv /\ [Replaying!Next]_Replaying!vars => ReplayingIInv'
<1> SUFFICES ASSUME ReplayingIInv, [Replaying!Next]_Replaying!vars PROVE ReplayingIInv'
  OBVIOUS
<1>1. CASE UNCHANGED Replaying!vars
  BY <1>1 DEF Replaying!vars, ReplayingIInv, ReplayingTypes, Reach, LimitIsKept,
     NothingSkipped, Covered,
              CertifiedIsCovered, Replaying!Certified
<1> QED BY <1>1, StartPreserves, LiveMintPreserves, KillPreserves, ReadPreserves,
           InsertPreserves, ReplayingAdvancePreserves,
           ReplayingCountPreserves DEF Replaying!Next, Replaying!Script

THEOREM ReplayingInvariance == Replaying!Spec => []ReplayingIInv
<1> QED BY ReplayingInitEstablishes, ReplayingNextPreserves, PTL DEF Replaying!Spec

(* TypeOK.                                                                 *)
THEOREM ReplayingTypeCorrect == Replaying!Spec => []Replaying!TypeOK
<1> QED BY ReplayingInvariance, ReplayingIInvTypes, PTL

(* MissingWasRefused: whatever cursor a run starts from, what is below it  *)
(* was attempted.                                                          *)
THEOREM WhatIsMissingWasRefused == Replaying!Spec => []Replaying!MissingWasRefused
<1>1. ReplayingIInv => Replaying!MissingWasRefused
  BY DEF ReplayingIInv, CertifiedIsCovered, Replaying!MissingWasRefused
<1> QED BY <1>1, ReplayingInvariance, PTL

-----------------------------------------------------------------------------
(***************************************************************************)
(* A step of the services is a step of a component or leaves it as it is,  *)
(* so that every component's specification is kept.                        *)
(***************************************************************************)


LEMMA TriageIsAPart == Spec => Triage!Spec
<1>1. Init => Triage!Init
  BY DEF Init
<1>2. [Next]_vars => [Triage!Next]_Triage!vars
  BY DEF Next, Parts, Step, Only, vars, triageVars, Triage!vars
<1> QED BY <1>1, <1>2, PTL DEF Spec, Triage!Spec

LEMMA ReaperIsAPart == Spec => Reaper!Spec
<1>1. Init => Reaper!Init
  BY DEF Init
<1>2. [Next]_vars => [Reaper!Next]_Reaper!vars
  BY DEF Next, Parts, Step, Only, vars, reaperVars, Reaper!vars
<1> QED BY <1>1, <1>2, PTL DEF Spec, Reaper!Spec

LEMMA QueueIsAPart == Spec => Queue!Spec
<1>1. Init => Queue!Init
  BY DEF Init
<1>2. [Next]_vars => [Queue!Next]_Queue!vars
  BY DEF Next, Parts, Step, Only, vars, queueVars, Queue!vars, Queue!drainVars,
         Queue!histories
<1> QED BY <1>1, <1>2, PTL DEF Spec, Queue!Spec

LEMMA PayingIsAPart == Spec => Paying!Spec
<1>1. Init => Paying!Init
  BY DEF Init
<1>2. [Next]_vars => [Paying!Next]_Paying!vars
  BY DEF Next, Parts, Step, Only, vars, paymentVars, Paying!vars, Paying!receiptVars,
         Paying!scoreVars
<1> QED BY <1>1, <1>2, PTL DEF Spec, Paying!Spec

LEMMA ExecutingIsAPart == Spec => Executing!Spec
<1>1. Init => Executing!Init
  BY DEF Init
<1>2. [Next]_vars => [Executing!Next]_Executing!vars
  BY DEF Next, Parts, Step, Only, vars, executionVars, Executing!vars,
         Executing!callVars, Executing!context
<1> QED BY <1>1, <1>2, PTL DEF Spec, Executing!Spec

LEMMA ProvingIsAPart == Spec => Proving!Spec
<1>1. Init => Proving!Init
  BY DEF Init
<1>2. [Next]_vars => [Proving!Next]_Proving!vars
  BY DEF Next, Parts, Step, Only, vars, proofVars, Proving!vars, Proving!verifierVars
<1> QED BY <1>1, <1>2, PTL DEF Spec, Proving!Spec

LEMMA DelegatingIsAPart == Spec => Delegating!Spec
<1>1. Init => Delegating!Init
  BY DEF Init
<1>2. [Next]_vars => [Delegating!Next]_Delegating!vars
  BY DEF Next, Parts, Step, Only, vars, chainVars, Delegating!vars
<1> QED BY <1>1, <1>2, PTL DEF Spec, Delegating!Spec

LEMMA WorkingIsAPart == Spec => Working!Spec
<1>1. Init => Working!Init
  BY DEF Init
<1>2. [Next]_vars => [Working!Next]_Working!vars
  BY DEF Next, Parts, Step, Only, vars, workVars, Working!vars, Working!roundVars
<1> QED BY <1>1, <1>2, PTL DEF Spec, Working!Spec

LEMMA HistoryIsAPart == Spec => History!Spec
<1>1. Init => History!Init
  BY DEF Init
<1>2. [Next]_vars => [History!Next]_History!vars
  BY DEF Next, Parts, Step, Only, vars, historyVars, History!vars
<1> QED BY <1>1, <1>2, PTL DEF Spec, History!Spec

LEMMA ReplayingIsAPart == Spec => Replaying!Spec
<1>1. Init => Replaying!Init
  BY DEF Init
<1>2. [Next]_vars => [Replaying!Next]_Replaying!vars
  BY DEF Next, Parts, Step, Only, vars, replayVars, Replaying!vars
<1> QED BY <1>1, <1>2, PTL DEF Spec, Replaying!Spec

-----------------------------------------------------------------------------
(* TypeOK: the state of every component has its type.                      *)
THEOREM ServicesTypeCorrect == Spec => []TypeOK
BY TriageIsAPart, ReaperIsAPart, QueueIsAPart, PayingIsAPart, ExecutingIsAPart,
   ProvingIsAPart, DelegatingIsAPart, WorkingIsAPart, HistoryIsAPart,
   ReplayingIsAPart, TriageTypeCorrect, ReaperTypeCorrect, QueueTypeCorrect,
   PayingTypeCorrect, ExecutingTypeCorrect, ProvingTypeCorrect, DelegatingTypeCorrect,
   WorkingTypeCorrect, HistoryTypeCorrect, ReplayingTypeCorrect, PTL DEF TypeOK

(* NoncesAreSpentOnce: a proof is accepted once, and a forged or late one  *)
(* spends no nonce.                                                        *)
THEOREM ServicesNonces == Spec => []NoncesAreSpentOnce
BY ProvingIsAPart, SpentOnce, PTL DEF NoncesAreSpentOnce

(* ChainsNarrow: no authority is gained down a chain of delegation.        *)
THEOREM ServicesChains == Spec => []ChainsNarrow
BY DelegatingIsAPart, ChainsOnlyNarrow, PTL DEF ChainsNarrow

(* ActionsRunOnce: a requestId acts once, and its receipt says whether it  *)
(* did.                                                                    *)
THEOREM ServicesActOnce == Spec => ActionsRunOnce
BY ExecutingIsAPart, ActsOnce, PTL DEF ActionsRunOnce

(* MessagesAreAnsweredOnce: a freshly claimed message is with one worker,  *)
(* and its reply is not written over.                                      *)
THEOREM ServicesAnswers == Spec => []MessagesAreAnsweredOnce
BY TriageIsAPart, FreshClaimsAreExclusive, OneReplyEach, PTL DEF
   MessagesAreAnsweredOnce

(* PaymentsAreAccountedFor: what is paid, rewarded, asked and receipted    *)
(* agrees.                                                                 *)
THEOREM ServicesPayments == Spec => []PaymentsAreAccountedFor
BY PayingIsAPart, QueueIsAPart, LimitIsPassedBlindly, AnswersAreTrue,
   RewardsAreEarned, NoRewardIsLost, AskedNoMoreThanTheCap, TheReceiptSaysIt, PTL DEF
   PaymentsAreAccountedFor

(* WorkIsJudged: accepted work was certified, an outage is no rejection,   *)
(* and the budgets end the loop.                                           *)
THEOREM ServicesWork == Spec => []WorkIsJudged
BY WorkingIsAPart, AcceptedWorkIsCertified, RejectionsAreDefects, TheLoopIsBounded,
   PTL DEF WorkIsJudged

(* RecordsTellTheTruth: what a corpus lacks was refused, what was closed   *)
(* is in the changelog, and a history holds what members appended and      *)
(* stays but for a race.                                                   *)
THEOREM ServicesRecords == Spec => []RecordsTellTheTruth
BY ReplayingIsAPart, ReaperIsAPart, HistoryIsAPart, WhatIsMissingWasRefused,
   EveryClosureIsLogged, SelfReportsAppendNothing, MembersWriteHistory,
   NoCallForksItself, PTL DEF RecordsTellTheTruth

(* DecisionsStand: only a decision made under a run of the reaper is       *)
(* overwritten, and a verdict of the panel is not replaced.                *)
THEOREM ServicesDecisions == Spec => DecisionsStand
BY ReaperIsAPart, QueueIsAPart, DecidedIsFinal, JudgedOnce, PTL DEF DecisionsStand

(* HistoriesAreAppended: a history moves by the append of a member of its  *)
(* group, and only a call that lost a race rewrites it.                    *)
THEOREM ServicesHistories == Spec => HistoriesAreAppended
BY HistoryIsAPart, AppendsKeepHistory, PTL DEF HistoriesAreAppended
=============================================================================
