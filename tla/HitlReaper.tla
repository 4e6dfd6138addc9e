----------------------------- MODULE HitlReaper -----------------------------
(***************************************************************************)
(* reap_expired_hitl_requests: closes requests to a human that nobody      *)
(* answered in time.  The function selects a batch of pending rows whose   *)
(* expires_at has passed, updates them by id, and logs the run with a way  *)
(* back.  Its two statements see different states of the table, and a run  *)
(* of the schedule may overlap one made by hand.                           *)
(***************************************************************************)
EXTENDS Integers, FiniteSets

CONSTANTS
  Requests,
  ExpiryOrder,    \* [Requests -> Nat], by expires_at
  Runs,           \* bound: the runs there are, overlapping or not
  BatchSize

ReaperAssumption ==
  /\ IsFiniteSet(Requests)
  /\ ExpiryOrder \in [Requests -> Nat]
  /\ BatchSize \in Nat \ {0}

Decisions == {"approved", "rejected"}

VARIABLES
  state,      \* the column status: "pending", a decision, or "expired"
  overdue,    \* requests whose expires_at has passed
  run,        \* each run: "new", "selected", "done", "undone"
  ids,        \* each run: the ids it selected
  changelog,  \* runs with an entry in trinity_changelog; its affected_ids are the ids
  raced       \* requests decided while a run had them selected (history)

vars == <<state, overdue, run, ids, changelog, raced>>

TypeOK ==
  /\ state \in [Requests -> {"pending", "expired"} \cup Decisions]
  /\ overdue \subseteq Requests
  /\ run \in [Runs -> {"new", "selected", "done", "undone"}]
  /\ ids \in [Runs -> SUBSET Requests]
  /\ changelog \subseteq Runs
  /\ raced \subseteq Requests

Init ==
  /\ state = [q \in Requests |-> "pending"]
  /\ overdue = {}
  /\ run = [r \in Runs |-> "new"]
  /\ ids = [r \in Runs |-> {}]
  /\ changelog = {}
  /\ raced = {}

-----------------------------------------------------------------------------
\* fault: expiry alone selects
ReapableByDate == overdue

Reapable == {q \in overdue : state[q] = "pending"}

(* order by expires_at limit p_batch_size                                  *)
IsBatch(batch) ==
  /\ batch \subseteq Reapable
  /\ Cardinality(batch) = IF Cardinality(Reapable) < BatchSize
                          THEN Cardinality(Reapable) ELSE BatchSize
  /\ \A q \in batch, p \in Reapable \ batch : ExpiryOrder[q] <= ExpiryOrder[p]

(* A run that finds nothing returns 0 and leaves no trace.                 *)
Select(r) ==
  /\ run[r] = "new"
  /\ Reapable # {}
  /\ \E batch \in SUBSET Requests :
       /\ IsBatch(batch)
       /\ ids' = [ids EXCEPT ![r] = batch]
  /\ run' = [run EXCEPT ![r] = "selected"]
  /\ UNCHANGED <<state, overdue, changelog, raced>>

\* fault: only a full batch is logged
LogsFullBatch(r) == Cardinality(ids[r]) = BatchSize

(* reaped > 0, and every id selected is updated.                           *)
Logs(r) == ids[r] # {}

(* Update by id, log, commit.                                              *)
Expire(r) ==
  /\ run[r] = "selected"
  /\ state' = [q \in Requests |-> IF q \in ids[r] THEN "expired" ELSE state[q]]
  /\ changelog' = IF Logs(r) THEN changelog \cup {r} ELSE changelog
  /\ run' = [run EXCEPT ![r] = "done"]
  /\ UNCHANGED <<overdue, ids, raced>>

(* An operator runs rollback_sql of a logged run.                          *)
Rollback(r) ==
  /\ r \in changelog
  /\ run[r] = "done"
  /\ state' = [q \in Requests |->
       IF q \in ids[r] /\ state[q] = "expired" THEN "pending" ELSE state[q]]
  /\ run' = [run EXCEPT ![r] = "undone"]
  /\ UNCHANGED <<overdue, ids, changelog, raced>>

(* A human answers a request that is pending.                              *)
Decide(q) ==
  /\ state[q] = "pending"
  /\ \E d \in Decisions : state' = [state EXCEPT ![q] = d]
  /\ raced' = IF \E r \in Runs : run[r] = "selected" /\ q \in ids[r]
              THEN raced \cup {q} ELSE raced
  /\ UNCHANGED <<overdue, run, ids, changelog>>

TimePasses(q) ==
  /\ q \notin overdue
  /\ overdue' = overdue \cup {q}
  /\ UNCHANGED <<state, run, ids, changelog, raced>>

(* The runs looked at are over.                                            *)
AllRun ==
  /\ \A r \in Runs : run[r] \in {"done", "undone"}
  /\ UNCHANGED vars

(* Nothing is left to close.                                               *)
NothingPending ==
  /\ \A q \in Requests : state[q] # "pending"
  /\ UNCHANGED vars

Next ==
  \/ \E r \in Runs : Select(r) \/ Expire(r) \/ Rollback(r)
  \/ \E q \in Requests : Decide(q) \/ TimePasses(q)
  \/ AllRun
  \/ NothingPending

Spec == Init /\ [][Next]_vars

-----------------------------------------------------------------------------
(* "approved/rejected/anything else is a decision already made and is      *)
(* never touched" (lines 28-30): so it is, unless it was made between the  *)
(* two statements of a run that had selected the request.                  *)
DecisionsStandUnlessRaced ==
  [][\A q \in Requests :
       state[q] \in Decisions /\ state'[q] # state[q] => q \in raced]_vars

(* "Every row closed is recorded in trinity_changelog" (line 37), with its *)
(* id in an entry whose way back was not taken yet.                        *)
ClosedIsRecorded ==
  \A q \in Requests :
    state[q] = "expired" => \E r \in changelog : q \in ids[r] /\ run[r] = "done"

=============================================================================
