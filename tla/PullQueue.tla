----------------------------- MODULE PullQueue -----------------------------
(***************************************************************************)
(* src/lib/trustshell/harness/queue.ts: the pull-based task queue, with    *)
(* the workers that pull from it.                                          *)
(*                                                                         *)
(* Every public method runs to completion on one JavaScript thread, so a   *)
(* method is one action.  What interleaves is the calls of the workers,    *)
(* the clock, and the worker crashes that leave a lease to lapse.          *)
(*                                                                         *)
(* Time is relative: ttl[e] is leaseExpiresAt - now, floored at 0, and     *)
(* older/thisMs record how the enqueuedAt stamps compare, so a behaviour   *)
(* may go on for ever in finitely many states.  Entries that share         *)
(* priority and millisecond are picked in any order (the code uses their   *)
(* position in the array).                                                 *)
(***************************************************************************)
EXTENDS Integers, FiniteSets

CONSTANTS
  Entries,             \* slots for submitted tasks; a slot is reused once acked
  Workers,             \* the experts that pull
  LeaseIds,            \* names for leases; bounds how many exist at a time
  Priority,            \* task.priority of the task in each slot
  Eligible,            \* the tasks each worker's canTake admits when it is free
  Slots,               \* how many leases a worker takes at a time
  MaxAttempts,         \* cfg.maxAttempts
  VisibilityTimeout    \* cfg.visibilityTimeoutMs, in clock ticks

ASSUME QueueAssumption ==
  /\ Priority \in [Entries -> Int]
  /\ Eligible \in [Workers -> SUBSET Entries]
  /\ Slots \in Nat
  /\ MaxAttempts \in Nat \ {0}
  /\ VisibilityTimeout \in Nat \ {0}

VARIABLES
  pending,    \* this.pending
  leased,     \* this.leased: lease id -> entry
  dead,       \* this.dead
  attempts,   \* entry.attempts; 0 when the slot holds no entry
  ttl,        \* entry.leaseExpiresAt - now; 0 when there is no lease
  older,      \* <<e, f>> when e.enqueuedAt < f.enqueuedAt
  thisMs,     \* entries with enqueuedAt = now
  holds,      \* the Lease objects each worker still has in hand
  owed        \* entries enqueued and not yet acknowledged (history)

vars == <<pending, leased, dead, attempts, ttl, older, thisMs, holds, owed>>

Lease == [id : LeaseIds, task : Entries]

Init ==
  /\ pending = {}
  /\ leased = [l \in {} |-> {}]
  /\ dead = {}
  /\ attempts = [e \in Entries |-> 0]
  /\ ttl = [e \in Entries |-> 0]
  /\ older = {}
  /\ thisMs = {}
  /\ holds = [w \in Workers |-> {}]
  /\ owed = {}

-----------------------------------------------------------------------------
(* reclaimExpired and failEntry: leases end, and their entries go back to  *)
(* pending, or to the dead letters once their attempts are spent.          *)

\* fault: a lease lapses one tick early
ExpiredEarly == {l \in DOMAIN leased : ttl[leased[l]] <= 1}

Expired == {l \in DOMAIN leased : ttl[leased[l]] = 0}

Live == DOMAIN leased \ Expired

EntriesOf(L) == {leased[l] : l \in L}

\* fault: one delivery too many
SpentLate(E) == {e \in E : attempts[e] > MaxAttempts}

\* fault: one delivery too few
SpentEarly(E) == {e \in E : attempts[e] + 1 >= MaxAttempts}

Spent(E) == {e \in E : attempts[e] >= MaxAttempts}

\* fault: a spent entry is dropped, not dead-lettered
DropEntries(E) ==
  /\ pending' = pending \cup (E \ Spent(E))
  /\ dead' = dead

FailEntries(E) ==
  /\ pending' = pending \cup (E \ Spent(E))
  /\ dead' = dead \cup Spent(E)

KeepLeases(L) == leased' = [l \in L |-> leased[l]]

ReclaimExpired ==
  /\ FailEntries(EntriesOf(Expired))
  /\ KeepLeases(Live)

PendingReclaimed ==
  LET back == EntriesOf(Expired) IN pending \cup (back \ Spent(back))

-----------------------------------------------------------------------------
(* The operations.  enqueue is the one that does not reclaim first.        *)

\* fault: the attempt counter starts below zero
EnqueueBelowZero(e) ==
  /\ e \notin owed
  /\ pending' = pending \cup {e}
  /\ attempts' = [attempts EXCEPT ![e] = -1]
  /\ older' = older \cup {<<f, e>> : f \in owed \ thisMs}
  /\ thisMs' = thisMs \cup {e}
  /\ owed' = owed \cup {e}
  /\ UNCHANGED <<leased, dead, ttl, holds>>

Enqueue(e) ==
  /\ e \notin owed
  /\ pending' = pending \cup {e}
  /\ attempts' = [attempts EXCEPT ![e] = 0]
  /\ older' = older \cup {<<f, e>> : f \in owed \ thisMs}
  /\ thisMs' = thisMs \cup {e}
  /\ owed' = owed \cup {e}
  /\ UNCHANGED <<leased, dead, ttl, holds>>

(* A worker admits a task when it is free and is the right expert for it.  *)
CanTake(w, e) == e \in Eligible[w] /\ Cardinality(holds[w]) < Slots

\* fault: no tie-break by age
BeforeByPriority(e, f) == Priority[e] > Priority[f]

Before(e, f) ==
  \/ Priority[e] > Priority[f]
  \/ Priority[e] = Priority[f] /\ <<e, f>> \in older

(* this.seq makes a name that nobody has: not the map, not a worker.       *)
InUse == DOMAIN leased \cup {x.id : x \in UNION {holds[w] : w \in Workers}}

\* fault: a name some worker still holds is reused
LeaseNotInMap == CHOOSE l \in LeaseIds : l \notin DOMAIN leased

FreshLease == CHOOSE l \in LeaseIds : l \notin InUse

Pull(w) ==
  /\ LeaseIds \ InUse # {}
  /\ \E e \in PendingReclaimed :
       /\ CanTake(w, e)
       /\ \A f \in PendingReclaimed : CanTake(w, f) => ~Before(f, e)
       /\ pending' = PendingReclaimed \ {e}
       /\ leased' = [l \in Live \cup {FreshLease} |->
                       IF l = FreshLease THEN e ELSE leased[l]]
       /\ attempts' = [attempts EXCEPT ![e] = @ + 1]
       /\ ttl' = [ttl EXCEPT ![e] = VisibilityTimeout]
       /\ holds' = [holds EXCEPT ![w] = @ \cup {[id |-> FreshLease, task |-> e]}]
  /\ dead' = dead \cup Spent(EntriesOf(Expired))
  /\ UNCHANGED <<older, thisMs, owed>>

PullNothing(w) ==
  /\ \A e \in PendingReclaimed : ~CanTake(w, e)
  /\ ReclaimExpired
  /\ UNCHANGED <<attempts, ttl, older, thisMs, holds, owed>>

Ack(w) == \E x \in holds[w] :
  LET settled == EntriesOf(Live \cap {x.id}) IN
  /\ FailEntries(EntriesOf(Expired))
  /\ KeepLeases(Live \ {x.id})
  /\ ttl' = [e \in Entries |-> IF e \in settled THEN 0 ELSE ttl[e]]
  /\ older' = {p \in older : p[1] \notin settled /\ p[2] \notin settled}
  /\ thisMs' = thisMs \ settled
  /\ owed' = owed \ settled
  /\ attempts' = [e \in Entries |-> IF e \in settled THEN 0 ELSE attempts[e]]
  /\ holds' = [holds EXCEPT ![w] = @ \ {x}]

Nack(w) == \E x \in holds[w] :
  LET ended == Expired \cup (Live \cap {x.id}) IN
  /\ FailEntries(EntriesOf(ended))
  /\ KeepLeases(DOMAIN leased \ ended)
  /\ ttl' = [e \in Entries |-> IF e \in EntriesOf(ended) THEN 0 ELSE ttl[e]]
  /\ holds' = [holds EXCEPT ![w] = @ \ {x}]
  /\ UNCHANGED <<attempts, older, thisMs, owed>>

Heartbeat(w) == \E x \in holds[w] :
  /\ ReclaimExpired
  /\ ttl' = [e \in Entries |->
               IF e \in EntriesOf(Live \cap {x.id}) THEN VisibilityTimeout ELSE ttl[e]]
  /\ UNCHANGED <<attempts, older, thisMs, holds, owed>>

(* stats and deadLetters *)
Inspect ==
  /\ ReclaimExpired
  /\ UNCHANGED <<attempts, ttl, older, thisMs, holds, owed>>

-----------------------------------------------------------------------------
(* The world: time passes, and a worker may die with its leases in hand.   *)

Tick ==
  /\ ttl' = [e \in Entries |-> IF ttl[e] > 0 THEN ttl[e] - 1 ELSE 0]
  /\ thisMs' = {}
  /\ UNCHANGED <<pending, leased, dead, attempts, older, holds, owed>>

Crash(w) ==
  /\ holds' = [holds EXCEPT ![w] = {}]
  /\ UNCHANGED <<pending, leased, dead, attempts, ttl, older, thisMs, owed>>

Next ==
  \/ \E e \in Entries : Enqueue(e)
  \/ \E w \in Workers :
       Pull(w) \/ PullNothing(w) \/ Ack(w) \/ Nack(w) \/ Heartbeat(w) \/ Crash(w)
  \/ Inspect
  \/ Tick

Spec == Init /\ [][Next]_vars

(* Time passes; a worker keeps calling pull; one that holds a lease gives *)
(* an answer or dies.  Nobody is obliged to enqueue.                       *)
Fairness ==
  /\ WF_vars(Tick)
  /\ \A w \in Workers : WF_vars(Pull(w) \/ PullNothing(w))
  /\ \A w \in Workers : WF_vars(Ack(w) \/ Nack(w) \/ Crash(w))

FairSpec == Spec /\ Fairness

-----------------------------------------------------------------------------
(* Types of the queue's own state and of the workers' leases. *)
TypeOK ==
  /\ pending \subseteq Entries
  /\ DOMAIN leased \subseteq LeaseIds
  /\ leased \in [DOMAIN leased -> Entries]
  /\ dead \subseteq Entries
  /\ attempts \in [Entries -> Nat]
  /\ ttl \in [Entries -> Nat]
  /\ older \subseteq Entries \X Entries
  /\ thisMs \subseteq Entries
  /\ holds \in [Workers -> SUBSET Lease]
  /\ owed \subseteq Entries

(* At-least-once: an entry accepted by enqueue stays in exactly one of the *)
(* pending array, the lease map (under one lease) and the dead letters     *)
(* until the ack that settles it; no call of any worker, early or late,    *)
(* loses one or makes it appear twice (queue.ts 54-56).                    *)
NothingLostOrDoubled ==
  /\ owed = pending \cup EntriesOf(DOMAIN leased) \cup dead
  /\ pending \cap EntriesOf(DOMAIN leased) = {}
  /\ pending \cap dead = {}
  /\ dead \cap EntriesOf(DOMAIN leased) = {}
  /\ \A k, l \in DOMAIN leased : leased[k] = leased[l] => k = l

(* Bounded retry: a task is dead-lettered after exactly MaxAttempts        *)
(* deliveries and what is still pending has deliveries left, whichever mix *)
(* of nacks and lapsed leases used them up (queue.ts 93).                  *)
RetryBudget ==
  /\ \A e \in pending : attempts[e] < MaxAttempts
  /\ \A e \in EntriesOf(DOMAIN leased) : attempts[e] \in 1..MaxAttempts
  /\ \A e \in dead : attempts[e] = MaxAttempts

(* A lease is one worker's, and while the queue still knows it, it names   *)
(* the task that worker was given: an ack or a heartbeat sent after the    *)
(* lease lapsed cannot touch the task in somebody else's hands.            *)
LeaseNamesItsTask ==
  /\ \A w \in Workers : \A x \in holds[w] :
       x.id \in DOMAIN leased => leased[x.id] = x.task
  /\ \A v, w \in Workers : \A x \in holds[v], y \in holds[w] :
       x.id = y.id => v = w /\ x = y

(* A lease with time left ends only when its own holder answers: nobody    *)
(* else's pull, ack, nack or inspection takes work away from a live worker.*)
OnlyHolderEndsLiveLease ==
  [][\A l \in DOMAIN leased : ttl[leased[l]] > 0 /\ l \notin DOMAIN leased' =>
       \E w \in Workers : \E x \in holds[w] : x.id = l /\ x \notin holds'[w]]_vars

(* The queue keeps the promise of AtLeastOnce, whatever leases do.         *)
Life == [e \in Entries |->
  IF e \in pending THEN "waiting"
  ELSE IF e \in dead THEN "dead"
  ELSE IF e \in EntriesOf(DOMAIN leased) THEN "working"
  ELSE "absent"]

Promise == INSTANCE AtLeastOnce WITH life <- Life, tries <- attempts

KeepsPromise == Promise!Spec

(* Every task no other task outranks is eventually acked or dead-lettered, *)
(* even though workers crash, hold leases past their time and fail.        *)
TopPriorityIsSettled ==
  \A e \in Entries :
    (\A f \in Entries : Priority[f] <= Priority[e]) =>
      (e \in owed ~> e \notin owed \/ e \in dead)

(* "Age as the tie-break is what stops a steady stream of high-priority    *)
(* work starving everything beneath it": a pending task, whatever its      *)
(* priority, is eventually handed out (queue.ts 115-116).                  *)
NoStarvation ==
  \A e \in Entries : e \in pending ~> e \notin pending

=============================================================================
