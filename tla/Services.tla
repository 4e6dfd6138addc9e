------------------------------ MODULE Services ------------------------------
(***************************************************************************)
(* The services around the harness that share no state, side by side: a    *)
(* step of the services is a step of one of them, whichever comes.  A      *)
(* property of a component is its own, under its own name; a property of   *)
(* several is one that they keep together.                                 *)
(***************************************************************************)
EXTENDS Integers

CONSTANTS
  Messages, Triagers, Rank, ReclaimAfter, WorkTime,              \* DispatchTriage
  HumanRequests, ExpiryOrder, Runs, ReapBatch,                   \* HitlReaper
  Rows, Drains, DrainBatch, MaxAttempts,                         \* BftQueue
  Payments, Amount, DailyLimit, MaxScore,                        \* Payment
  Calls, RequestIds, Grantable, Shapes, LawForbids, Rules,       \* Execution
  Proofs, Verifiers, Processes, Lifetime, Table,                 \* ControlProof
  Segments, Star, Capabilities, Requested, Limits, MaxDepth, LastTime,   \* Attenuation
  Floor, Tiers, Scores, Digests, MaxRejections, MaxRounds,       \* AcceptedWork
  Producers, Subjects, Events, Writers, Doer,                    \* ReputationChain
  Corpus, Batch, ReplayLimits, MaxRuns                           \* HalReplay

VARIABLES
  status, readFor, reply, task, working, keptOld, replies,
  state, overdue, run, ids, changelog, raced,
  enqueued, row, attempts, receipt, batch, seen, step, asked, shared, uncounted, cut,
  enforcing, stage, evaluated, settlement, moved, bft, queued, claimed, score, read,
  unseen, credited, overlapped,
  acceptance, rounds, turn, digest, scores, tier, doubts,
  head, events, writer, next, prevRoot, out, outcome,
  minted, phase, cursor, rows, tried, left, failed, counted, said, printed, refused, runs,
  ledger, call, request, shape, verdict, granted, approvals, confidence, effects, contested,
  durable, clock, spent, at, proof, process, coreOk, accepted, genuine, straddled,
  chain, now

triageVars == <<status, readFor, reply, task, working, keptOld, replies>>
reaperVars == <<state, overdue, run, ids, changelog, raced>>
queueVars == <<enqueued, row, attempts, receipt, batch, seen, step, asked, shared,
               uncounted, cut>>
paymentVars == <<enforcing, stage, evaluated, settlement, moved, bft, queued, claimed,
                 score, read, unseen, credited, overlapped>>
proofVars == <<durable, clock, spent, at, proof, process, coreOk, accepted, genuine,
               straddled>>
chainVars == <<chain, now>>
executionVars == <<ledger, call, request, shape, verdict, granted, approvals, confidence,
                   effects, contested>>
workVars == <<acceptance, rounds, turn, digest, scores, tier, doubts>>
historyVars == <<head, events, writer, next, prevRoot, out, outcome>>
replayVars == <<minted, phase, cursor, rows, tried, left, failed, counted, said, printed,
                refused, runs>>
vars == <<triageVars, reaperVars, queueVars, paymentVars, executionVars, proofVars,
          chainVars, workVars, historyVars, replayVars>>

Triage == INSTANCE DispatchTriage
Reaper == INSTANCE HitlReaper WITH Requests <- HumanRequests, BatchSize <- ReapBatch
Queue == INSTANCE BftQueue WITH BatchSize <- DrainBatch
Paying == INSTANCE Payment WITH Requests <- Payments
Executing == INSTANCE Execution
Proving == INSTANCE ControlProof
Delegating == INSTANCE Attenuation
Working == INSTANCE AcceptedWork WITH status <- acceptance
History == INSTANCE ReputationChain WITH Calls <- Producers
Replaying == INSTANCE HalReplay WITH
  Limits <- ReplayLimits, at <- phase, batch <- rows, verdict <- said

ASSUME ServicesAssumption ==
  /\ Triage!TriageAssumption /\ Reaper!ReaperAssumption /\ Queue!QueueAssumption
  /\ Paying!PaymentAssumption /\ Executing!ExecutionAssumption /\ Proving!ProofAssumption
  /\ Delegating!AttenuationAssumption /\ Working!WorkAssumption
  /\ History!ChainAssumption /\ Replaying!ReplayAssumption

Init ==
  /\ Triage!Init /\ Reaper!Init /\ Queue!Init /\ Paying!Init /\ Executing!Init
  /\ Proving!Init /\ Delegating!Init /\ Working!Init /\ History!Init /\ Replaying!Init

(* All but one stand still.                                                *)
Only(part) ==
  /\ part # "triage" => UNCHANGED triageVars
  /\ part # "reaper" => UNCHANGED reaperVars
  /\ part # "queue" => UNCHANGED queueVars
  /\ part # "payment" => UNCHANGED paymentVars
  /\ part # "execution" => UNCHANGED executionVars
  /\ part # "proof" => UNCHANGED proofVars
  /\ part # "chain" => UNCHANGED chainVars
  /\ part # "work" => UNCHANGED workVars
  /\ part # "history" => UNCHANGED historyVars
  /\ part # "replay" => UNCHANGED replayVars

Step(part) ==
  \/ part = "triage" /\ Only("triage") /\ Triage!Next
  \/ part = "reaper" /\ Only("reaper") /\ Reaper!Next
  \/ part = "queue" /\ Only("queue") /\ Queue!Next
  \/ part = "payment" /\ Only("payment") /\ Paying!Next
  \/ part = "execution" /\ Only("execution") /\ Executing!Next
  \/ part = "proof" /\ Only("proof") /\ Proving!Next
  \/ part = "chain" /\ Only("chain") /\ Delegating!Next
  \/ part = "work" /\ Only("work") /\ Working!Next
  \/ part = "history" /\ Only("history") /\ History!Next
  \/ part = "replay" /\ Only("replay") /\ Replaying!Next

Parts == {"triage", "reaper", "queue", "payment", "execution", "proof", "chain", "work",
          "history", "replay"}

Next == \E part \in Parts : Step(part)

Spec == Init /\ [][Next]_vars

-----------------------------------------------------------------------------
(* The types of every component's state.                                   *)
TypeOK ==
  /\ Triage!TypeOK /\ Reaper!TypeOK /\ Queue!TypeOK /\ Paying!TypeOK /\ Executing!TypeOK
  /\ Proving!TypeOK /\ Delegating!TypeOK /\ Working!TypeOK /\ History!TypeOK
  /\ Replaying!TypeOK

(* ControlProof: a proof is accepted once, and a forged or late one spends *)
(* no nonce.                                                               *)
NoncesAreSpentOnce == Proving!NoncesAreSpentOnce

(* Attenuation: no authority is gained down a chain, and a chain that      *)
(* delegate made is accepted.                                              *)
ChainsNarrow == Delegating!ChainsNarrow

(* Execution: a requestId acts once, its receipt says whether it did and   *)
(* stays as it was written, and what ran was allowed.                      *)
ActionsRunOnce == Executing!ActionsRunOnce

(* DispatchTriage: a freshly claimed message is with one worker, and its   *)
(* reply is not written over.                                              *)
MessagesAreAnsweredOnce == Triage!OneWorkerPerFreshClaim /\ Triage!FirstReplyStands

(* HitlReaper and BftQueue: only a decision made under a run of the reaper *)
(* is overwritten, and a verdict of the panel is not replaced.             *)
DecisionsStand == Reaper!DecisionsStandUnlessRaced /\ Queue!VerdictsStand

(* Payment and BftQueue: the daily limit is passed only by payments that   *)
(* were not seen, a reward is for a payment that was voted on and moved,   *)
(* rewards that do not overlap are all counted, an approval has a receipt; *)
(* the panel is asked a bounded number of times about a payment, and its   *)
(* receipt tells what its row tells.                                       *)
PaymentsAreAccountedFor ==
  /\ Paying!OverspendNeedsBlindness /\ Paying!AnswerKnowsTheReceipt
  /\ Paying!RewardIsEarned /\ Paying!RewardsAddUp
  /\ Queue!AttemptsAreBounded /\ Queue!ReceiptAgreesWithRow

(* AcceptedWork: accepted work was certified, an outage is no rejection,   *)
(* and the budgets end the loop.                                           *)
WorkIsJudged ==
  /\ Working!DeliveredWasCertified
  /\ Working!OutageBlamesNobody
  /\ Working!BudgetsEndTheLoop

(* ReputationChain: a history moves by a member's append, and only a call  *)
(* that lost a race rewrites it.                                           *)
HistoriesAreAppended == History!HistoryIsAppendedUnlessRaced

(* HalReplay, HitlReaper, ReputationChain: what a certified corpus lacks,  *)
(* an earlier run stopped on; a request that was closed is in the          *)
(* changelog; a call that was refused appended nothing, a history is made  *)
(* of what members appended, and what a call was told it appended stays    *)
(* but for a race.                                                         *)
RecordsTellTheTruth ==
  /\ Replaying!MissingWasRefused /\ Reaper!ClosedIsRecorded
  /\ History!RefusedAppendsNothing /\ History!EveryEntryIsEarned
  /\ History!ValidStaysUnlessRaced

(* DispatchTriage, BftQueue, HalReplay: a message is answered, a row is    *)
(* evaluated or parked, a run ends.                                        *)
NothingIsLeftWaiting ==
  Triage!EveryMessageIsAnswered /\ Queue!EveryRowIsResolved /\ Replaying!EveryRunEnds
=============================================================================
