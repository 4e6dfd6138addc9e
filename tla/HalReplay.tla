----------------------------- MODULE HalReplay -----------------------------
(***************************************************************************)
(* src/scripts/hal-replay.mjs over src/lib/trustshell/replay/plan.ts: a    *)
(* job that mints one receipt for each row of a corpus, in ascending id.   *)
(* A unique index makes a second receipt of a row impossible, so the job   *)
(* may be killed or stop on an error and be resumed from a cursor it       *)
(* printed.  The live writer mints receipts of the same rows meanwhile.    *)
(*                                                                         *)
(* A dry run, which writes nothing, is not modelled.                       *)
(***************************************************************************)
EXTENDS Integers, FiniteSets, FiniteSetsExt

CONSTANTS
  Corpus,      \* the ids of hal_classifications
  Batch,       \* BATCH
  Limits,      \* the values of --limit, NoLimit where it is not given
  MaxRuns      \* bound on how often the script is started

ReplayAssumption ==
  /\ Corpus \subseteq Nat \ {0}
  /\ IsFiniteSet(Corpus)
  /\ Batch \in Nat \ {0}
  /\ Limits \subseteq Nat \cup {-1}
  /\ MaxRuns \in Nat

VARIABLES
  minted,      \* rows that have a receipt
  at,          \* where the script is; "idle" when none runs
  cursor,      \* cursor.afterId
  batch,       \* the rows of the batch that was read
  tried,       \* ids: those of the batch that were attempted
  left,        \* LIMIT - attempted, or NoLimit
  failed,      \* counts.failed > 0
  counted,     \* the remaining rows could be counted
  verdict,     \* of the last run that ended
  printed,     \* cursors an operator has seen, and the default
  refused,     \* rows some run stopped on (history)
  runs

vars == <<minted, at, cursor, batch, tried, left, failed, counted, verdict, printed,
          refused, runs>>

NoLimit == -1

Verdicts == {"VERIFIED", "NOT_CHECKED", "FAILED"}

Init ==
  /\ minted = {}
  /\ at = "idle"
  /\ cursor = 0
  /\ batch = {} /\ tried = {}
  /\ left = 0
  /\ failed = FALSE
  /\ counted = FALSE
  /\ verdict = "none"
  /\ printed = {0}
  /\ refused = {}
  /\ runs = 0

Beyond(c) == {r \in Corpus : r > c}

-----------------------------------------------------------------------------
(* The operator, the live writer and the machine.                          *)

(* node scripts/hal-replay.mjs --after ID --limit N *)
Start ==
  /\ at = "idle"
  /\ runs < MaxRuns
  /\ \E after \in printed, limit \in Limits : cursor' = after /\ left' = limit
  /\ at' = "read"
  /\ failed' = FALSE
  /\ verdict' = "none"
  /\ runs' = runs + 1
  /\ UNCHANGED <<minted, batch, tried, counted, printed, refused>>

LiveMint(r) ==
  /\ r \notin minted
  /\ minted' = minted \cup {r}
  /\ UNCHANGED <<at, cursor, batch, tried, left, failed, counted, verdict, printed,
                 refused, runs>>

Kill ==
  /\ at # "idle"
  /\ at' = "idle"
  /\ batch' = {} /\ tried' = {}
  /\ UNCHANGED <<minted, cursor, left, failed, counted, verdict, printed, refused, runs>>

-----------------------------------------------------------------------------
(* The script.                                                             *)

Take == IF left = NoLimit \/ Batch < left THEN Batch ELSE left

Lowest(S, n) == {r \in S : Cardinality({q \in S : q < r}) < n}

(* An empty read, a spent limit or a read error ends the loop.             *)
Read ==
  /\ at = "read"
  /\ LET rows == Lowest(Beyond(cursor), Take) IN
     \/ rows # {} /\ batch' = rows /\ at' = "insert"
     \/ rows = {} /\ batch' = {} /\ at' = "count"
     \/ left # 0 /\ batch' = {} /\ at' = "count"
  /\ tried' = {}
  /\ UNCHANGED <<minted, cursor, left, failed, counted, verdict, printed, refused, runs>>

(* The row is written, unless it is there; any other error than the one of *)
(* the index stops the run, whether or not the row was written.            *)
Insert ==
  /\ at = "insert"
  /\ LET row == Min(batch \ tried) IN
     /\ tried' = tried \cup {row}
     /\ \/ /\ minted' = minted \cup {row}
           /\ at' = IF tried' = batch THEN "advance" ELSE "insert"
           /\ UNCHANGED <<failed, refused>>
        \/ /\ minted' \in {minted, minted \cup {row}}
           /\ failed' = TRUE
           /\ refused' = refused \cup {row}
           /\ at' = "advance"
  /\ left' = IF left = NoLimit THEN left ELSE left - 1
  /\ UNCHANGED <<cursor, batch, counted, verdict, printed, runs>>

\* fault: the cursor goes past all that was read, attempted or not
AttemptedAsRead == batch

Attempted == tried

\* fault: the lower bound of the next read is taken inclusively
AdvancedInclusive(ids) == Max(ids) - 1

Advanced(ids) == Max(ids)

(* The cursor moves past the row the run stopped on, too.                  *)
Advance ==
  /\ at = "advance"
  /\ cursor' = Advanced(Attempted)
  /\ printed' = printed \cup {cursor'}
  /\ at' = IF failed THEN "count" ELSE "read"
  /\ batch' = {} /\ tried' = {}
  /\ UNCHANGED <<minted, left, failed, counted, verdict, refused, runs>>

(* verdictOf; rows that cannot be counted are taken for none.              *)
Count ==
  /\ at = "count"
  /\ counted' \in BOOLEAN
  /\ verdict' =
       IF failed THEN "FAILED"
       ELSE IF counted' /\ Beyond(cursor) # {} THEN "NOT_CHECKED" ELSE "VERIFIED"
  /\ printed' = printed \cup {cursor}
  /\ at' = "idle"
  /\ UNCHANGED <<minted, cursor, batch, tried, left, failed, refused, runs>>

Script == Read \/ Insert \/ Advance \/ Count

Next == Start \/ Kill \/ Script \/ \E r \in Corpus : LiveMint(r)

Spec == Init /\ [][Next]_vars

(* A script that runs goes on running unless it is killed.                 *)
Fairness == WF_vars(Script)

-----------------------------------------------------------------------------
TypeOK ==
  /\ minted \subseteq Corpus
  /\ at \in {"idle", "read", "insert", "advance", "count"}
  /\ cursor \in Corpus \cup {0}
  /\ batch \subseteq Corpus /\ tried \subseteq batch
  /\ left \in Nat \cup {NoLimit}
  /\ failed \in BOOLEAN /\ counted \in BOOLEAN
  /\ verdict \in Verdicts \cup {"none"}
  /\ printed \subseteq Corpus \cup {0}
  /\ refused \subseteq Corpus
  /\ runs \in 0..MaxRuns

Certified == verdict = "VERIFIED" /\ counted

(* However often the job was killed and resumed, and from whichever cursor *)
(* it printed, a row that has no receipt once a run says VERIFIED is one   *)
(* that an earlier run stopped on.                                         *)
MissingWasRefused == Certified => Corpus \ minted \subseteq refused

(* What the script says of itself (hal-replay.mjs 28-32): it stops on the  *)
(* first error so as not to leave a corpus partly minted behind a line of  *)
(* completion.  It does: the cursor it prints to resume from is past the   *)
(* row it stopped on.                                                      *)
VerifiedMeansMinted == Certified => minted = Corpus

(* A run ends, over rows that all have their receipt too (plan.ts 108-111). *)
EveryRunEnds == at # "idle" ~> at = "idle"

=============================================================================
