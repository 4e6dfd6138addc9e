--------------------------- MODULE DurableLedger ---------------------------
(***************************************************************************)
(* Reputation kept across restarts: each process holds a ledger of what it *)
(* observed, loads it from the one table and writes it back whole          *)
(* (persistence/durable-ledger.ts, harness/reputation.ts).                 *)
(*                                                                         *)
(* Of a record only the count of observations is kept: it orders the       *)
(* versions of a record and grows with every outcome.  Count 0 stands for  *)
(* an id the ledger does not hold; nothing ever writes such a record.      *)
(***************************************************************************)
EXTENDS Integers

CONSTANTS
  Ids,
  Processes,
  MaxOutcomes   \* bound: outcomes recorded about an id in all

LedgerAssumption == MaxOutcomes \in Nat

VARIABLES
  table,     \* [Ids -> observations], the rows of agent_repid
  ledger,    \* [Processes -> [Ids -> observations]]
  loaded,    \* "null", "true", "false"
  doing,     \* "idle", "loading" or "saving": one await at a time per process
  records,   \* what the read returned, or the snapshot being written
  total,     \* outcomes recorded about an id (history)
  foreign,   \* ids another process wrote since a process last read (history)
  torn       \* processes whose last hydrate threw halfway (history)

memory == <<ledger, loaded, doing, records>>
vars == <<table, memory, total, foreign, torn>>

NoRecords == [i \in Ids |-> 0]
Counts == [Ids -> 0..MaxOutcomes]

TypeOK ==
  /\ table \in Counts /\ total \in Counts
  /\ ledger \in [Processes -> Counts] /\ records \in [Processes -> Counts]
  /\ loaded \in [Processes -> {"null", "true", "false"}]
  /\ doing \in [Processes -> {"idle", "loading", "saving"}]
  /\ foreign \in [Processes -> SUBSET Ids]
  /\ torn \subseteq Processes

Init ==
  /\ table = NoRecords /\ total = NoRecords
  /\ ledger = [p \in Processes |-> NoRecords]
  /\ records = [p \in Processes |-> NoRecords]
  /\ loaded = [p \in Processes |-> "null"]
  /\ doing = [p \in Processes |-> "idle"]
  /\ foreign = [p \in Processes |-> {}]
  /\ torn = {}

Become(p, activity, carried) ==
  /\ doing' = [doing EXCEPT ![p] = activity]
  /\ records' = [records EXCEPT ![p] = carried]

-----------------------------------------------------------------------------
(* record, by whatever turn of the process ends, also while it awaits.     *)
Record(p, i) ==
  /\ total[i] < MaxOutcomes
  /\ ledger' = [ledger EXCEPT ![p][i] = @ + 1]
  /\ total' = [total EXCEPT ![i] = @ + 1]
  /\ UNCHANGED <<table, loaded, doing, records, foreign, torn>>

(* store.load: the rows as of one moment.                                  *)
Read(p) ==
  /\ doing[p] = "idle"
  /\ Become(p, "loading", table)
  /\ foreign' = [foreign EXCEPT ![p] = {}]
  /\ UNCHANGED <<table, ledger, loaded, total, torn>>

(* The store threw or answered with a non-array; the ledger is untouched.  *)
LoadFails(p) ==
  /\ doing[p] = "loading"
  /\ loaded' = [loaded EXCEPT ![p] = "false"]
  /\ Become(p, "idle", NoRecords)
  /\ UNCHANGED <<table, ledger, total, foreign, torn>>

\* fault: what was loaded is added to what is held
MergedAdding(p) ==
  [i \in Ids |-> IF ledger[p][i] + records[p][i] > MaxOutcomes
                 THEN MaxOutcomes ELSE ledger[p][i] + records[p][i]]

(* "Replace rather than merge."                                            *)
Merged(p) == records[p]

Hydrate(p) ==
  /\ doing[p] = "loading"
  /\ ledger' = [ledger EXCEPT ![p] = Merged(p)]
  /\ loaded' = [loaded EXCEPT ![p] = "true"]
  /\ torn' = torn \ {p}
  /\ Become(p, "idle", NoRecords)
  /\ UNCHANGED <<table, total, foreign>>

(* A store that hands out a record it did not check: hydrate throws at it, *)
(* with the records before it in place, and loaded is what it was.         *)
HydrateThrows(p) ==
  /\ doing[p] = "loading"
  /\ \E kept \in SUBSET Ids :
       ledger' = [ledger EXCEPT ![p] = [i \in Ids |-> IF i \in kept THEN records[p][i] ELSE 0]]
  /\ torn' = torn \cup {p}
  /\ Become(p, "idle", NoRecords)
  /\ UNCHANGED <<table, loaded, total, foreign>>

\* fault: only a load that failed is held against the ledger
MayPersistUnlessFailed(p) == loaded[p] # "false"

MayPersist(p) == loaded[p] = "true"

Persist(p) ==
  /\ doing[p] = "idle"
  /\ MayPersist(p)
  /\ Become(p, "saving", ledger[p])
  /\ UNCHANGED <<table, ledger, loaded, total, foreign, torn>>

(* store.save: an upsert of the rows there are, whose error is reported.   *)
Write(p) ==
  /\ doing[p] = "saving"
  /\ \/ /\ table' = [i \in Ids |-> IF records[p][i] > 0 THEN records[p][i] ELSE table[i]]
        /\ foreign' = [q \in Processes |->
             IF q = p THEN foreign[q] ELSE foreign[q] \cup {i \in Ids : records[p][i] > 0}]
     \/ UNCHANGED <<table, foreign>>
  /\ Become(p, "idle", NoRecords)
  /\ UNCHANGED <<ledger, loaded, total, torn>>

Restart(p) ==
  /\ ledger' = [ledger EXCEPT ![p] = NoRecords]
  /\ loaded' = [loaded EXCEPT ![p] = "null"]
  /\ torn' = torn \ {p}
  /\ Become(p, "idle", NoRecords)
  /\ UNCHANGED <<table, total, foreign>>

Next ==
  \/ \E p \in Processes, i \in Ids : Record(p, i)
  \/ \E p \in Processes :
       \/ Read(p) \/ LoadFails(p) \/ Hydrate(p) \/ HydrateThrows(p)
       \/ Persist(p) \/ Write(p) \/ Restart(p)

Spec == Init /\ [][Next]_vars

-----------------------------------------------------------------------------
(* No save takes back what was learned: a row loses observations only to a *)
(* process that did not know another had written the id since it last      *)
(* read, or whose hydrate was torn.  A ledger that never loaded, or whose  *)
(* load failed, takes back nothing ("A ledger that did not load must never *)
(* be saved", line 13).                                                    *)
HistoryIsErasedOnlyByStaleHolders ==
  [][\A i \in Ids : table'[i] < table[i] =>
       \E p \in Processes : doing[p] = "saving" /\ (i \in foreign[p] \/ p \in torn)]_vars

(* No load counts an outcome twice: nobody claims more observations of an  *)
(* id than were made.                                                      *)
NothingIsInvented ==
  \A i \in Ids : table[i] <= total[i] /\ \A p \in Processes : ledger[p][i] <= total[i]
=============================================================================
