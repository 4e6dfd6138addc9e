--------------------------- MODULE DispatchTriage ---------------------------
(***************************************************************************)
(* The triage of the agents' mailbox: workers that claim one unanswered    *)
(* message at a time through claim_dispatch_message (SQL), ask a judge     *)
(* about it and write a reply (dispatch-triage/index.ts).                  *)
(*                                                                         *)
(* A claim is one SQL statement, and so is a reply.  An invocation handles *)
(* a few messages in turn and the scheduler invokes again, so a worker is  *)
(* here a line of invocations.  The judge is asked between the two         *)
(* statements and touches no row; what it answered is chosen at the reply. *)
(***************************************************************************)
EXTENDS Integers, FiniteSets

CONSTANTS
  Messages,
  Triagers,
  Rank,          \* [Messages -> Nat], the column priority; ties are left open
  ReclaimAfter,  \* the ten minutes of the claim, in ticks
  WorkTime       \* bound: ticks from a claim to its reply (HAL_TIMEOUT_MS and the host's limit)

Nobody == "nobody"

TriageAssumption ==
  /\ Nobody \notin Messages
  /\ IsFiniteSet(Triagers)
  /\ Rank \in [Messages -> Nat]
  /\ ReclaimAfter \in Nat
  /\ WorkTime \in 1..ReclaimAfter

Never == -1
HalOutcomes == {"judged", "no_checkable_claim", "not_checked"}

VARIABLES
  status,    \* the column: "unread", "read" (both set by others), "reading",
             \* "triaged"; "unsent" before the row is inserted
  readFor,   \* ticks since read_at, stopped past ReclaimAfter; Never when it is null
  reply,     \* the reply's account of the judge, Nobody when null
  task,      \* the message a worker is at, Nobody when none
  working,   \* ticks since the worker's claim
  keptOld,   \* messages that were claimed while nobody held them and kept an
             \* earlier read_at (history)
  replies    \* how often each message was replied to (history)

rows == <<status, readFor, reply>>
vars == <<status, readFor, reply, task, working, keptOld, replies>>

TypeOK ==
  /\ status \in [Messages -> {"unsent", "unread", "read", "reading", "triaged"}]
  /\ readFor \in [Messages -> Never..(ReclaimAfter + 1)]
  /\ reply \in [Messages -> HalOutcomes \cup {Nobody}]
  /\ task \in [Triagers -> Messages \cup {Nobody}]
  /\ working \in [Triagers -> 0..WorkTime]
  /\ keptOld \subseteq Messages
  /\ replies \in [Messages -> 0..Cardinality(Triagers)]

Init ==
  /\ status = [m \in Messages |-> "unsent"]
  /\ readFor = [m \in Messages |-> Never]
  /\ reply = [m \in Messages |-> Nobody]
  /\ task = [w \in Triagers |-> Nobody]
  /\ working = [w \in Triagers |-> 0]
  /\ keptOld = {}
  /\ replies = [m \in Messages |-> 0]

(* Another agent writes; some rows were set to read by hand, with no       *)
(* read_at.                                                                *)
Send(m) ==
  /\ status[m] = "unsent"
  /\ \E s \in {"unread", "read"} : status' = [status EXCEPT ![m] = s]
  /\ UNCHANGED <<readFor, reply, task, working, keptOld, replies>>

At(m) == {w \in Triagers : task[w] = m}

-----------------------------------------------------------------------------
\* fault: the lease is not asked for
EligibleWhileRead(m) == status[m] # "unsent" /\ reply[m] = Nobody

\* fault: a message once claimed is never given out again
EligibleOnce(m) == reply[m] = Nobody /\ status[m] \notin {"unsent", "reading"}

Eligible(m) ==
  /\ status[m] # "unsent"
  /\ reply[m] = Nobody
  /\ status[m] # "reading" \/ readFor[m] > ReclaimAfter

(* read_at = coalesce(read_at, now()): a claim after the first keeps it.   *)
Claim(w, m) ==
  /\ task[w] = Nobody
  /\ Eligible(m)
  /\ \A n \in Messages : Eligible(n) => Rank[n] <= Rank[m]
  /\ status' = [status EXCEPT ![m] = "reading"]
  /\ readFor' = [readFor EXCEPT ![m] = IF @ = Never THEN 0 ELSE @]
  /\ keptOld' = IF readFor[m] = Never \/ At(m) # {} THEN keptOld ELSE keptOld \cup {m}
  /\ task' = [task EXCEPT ![w] = m]
  /\ working' = [working EXCEPT ![w] = 0]
  /\ UNCHANGED <<reply, replies>>

(* The reply goes to the id, whoever holds the message by now.             *)
Reply(w, m) ==
  /\ task[w] = m
  /\ \E o \in HalOutcomes : reply' = [reply EXCEPT ![m] = o]
  /\ status' = [status EXCEPT ![m] = "triaged"]
  /\ replies' = [replies EXCEPT ![m] = @ + 1]
  /\ task' = [task EXCEPT ![w] = Nobody]
  /\ working' = [working EXCEPT ![w] = 0]
  /\ UNCHANGED <<readFor, keptOld>>

(* The reply could not be written, or the worker died: the row stays in    *)
(* "reading" with no reply.                                                *)
Strand(w) ==
  /\ task[w] # Nobody
  /\ task' = [task EXCEPT ![w] = Nobody]
  /\ working' = [working EXCEPT ![w] = 0]
  /\ UNCHANGED <<rows, keptOld, replies>>

(* The older reader of the mailbox, GET /inbox.                            *)
ReadInInbox(m) ==
  /\ status[m] = "unread"
  /\ status' = [status EXCEPT ![m] = "read"]
  /\ readFor' = [readFor EXCEPT ![m] = IF @ = Never THEN 0 ELSE @]
  /\ UNCHANGED <<reply, task, working, keptOld, replies>>

Tick ==
  /\ \A w \in Triagers : task[w] # Nobody => working[w] < WorkTime
  /\ \E m \in Messages : reply[m] = Nobody /\ readFor[m] \in 0..ReclaimAfter
  /\ readFor' = [m \in Messages |->
       IF readFor[m] \in 0..ReclaimAfter THEN readFor[m] + 1 ELSE readFor[m]]
  /\ working' = [w \in Triagers |-> IF task[w] = Nobody THEN 0 ELSE working[w] + 1]
  /\ UNCHANGED <<status, reply, task, keptOld, replies>>

(* Every message has its reply.                                            *)
Drained ==
  /\ \A m \in Messages : reply[m] # Nobody
  /\ \A w \in Triagers : task[w] = Nobody
  /\ UNCHANGED vars

Next ==
  \/ \E w \in Triagers, m \in Messages : Claim(w, m) \/ Reply(w, m)
  \/ \E w \in Triagers : Strand(w)
  \/ \E m \in Messages : Send(m) \/ ReadInInbox(m)
  \/ Tick
  \/ Drained

Spec == Init /\ [][Next]_vars

(* The scheduler keeps invoking, and not every attempt at a message fails. *)
Fairness ==
  /\ WF_vars(Tick)
  /\ \A w \in Triagers : WF_vars(\E m \in Messages : Claim(w, m))
  /\ \A m \in Messages : SF_vars(\E w \in Triagers : Reply(w, m))

-----------------------------------------------------------------------------
(* A message is with one worker at a time, as the claim promises ("hand    *)
(* exactly one un-replied message to exactly one worker", line 1), as long *)
(* as its claim dated read_at itself: a reclaimed message keeps the old    *)
(* date and with it no lease at all.                                       *)
OneWorkerPerFreshClaim == \A m \in Messages \ keptOld : Cardinality(At(m)) <= 1

(* A reply, once written, is not written over, under the same condition.   *)
FirstReplyStands == \A m \in Messages \ keptOld : replies[m] <= 1

(* No message is lost: whatever was stranded is answered in the end.       *)
EveryMessageIsAnswered ==
  \A m \in Messages : status[m] # "unsent" ~> reply[m] # Nobody
=============================================================================
