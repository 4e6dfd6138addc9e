# Verification of the Trinity ecosystem

TLA+ models of the coordination core of the Trinity ecosystem, with TLC runs on small
instances and TLAPS proofs for every value of the constants. `PROJECT.json` lists, for each
module, the source lines every definition translates, the properties each run checks, for
each property mutated definitions that break it, the hazards of the code, and the theorems.

Contents: [the system](#the-system) · [what is hard in it](#what-is-hard-in-it) ·
[the modules](#the-modules) · [the runs](#the-runs) · [bounds](#bounds-and-why-they-are-enough) ·
[fairness](#fairness) · [proofs](#proofs) · [findings](#findings) ·
[what is not modelled](#what-is-not-modelled) · [plan](#plan)

## The system

Trinity sends work to a fleet of agents ("experts"), decides what each may do, checks what it
claims, keeps a reputation for it and lets it pay within limits. Most of the code is
TypeScript libraries (`src/lib/trustshell`), driven by Next.js routes (`src/app/api`),
scripts (`src/scripts`), Supabase functions and SQL.

### Harness (`src/lib/trustshell/harness`): who gets a task, and what if it fails

| Part | State | Operations | Correct when |
|---|---|---|---|
| Pull queue `queue.ts` | pending array, lease map, dead letters, attempts | enqueue, pull, ack, nack, heartbeat, stats | nothing lost, doubled or delivered too often; late answers are harmless |
| Circuit breaker `circuit-breaker.ts` | per expert: state, failures, successes, probe slot, time opened | execute, isOpen, recordSuccess/Failure, trip, reset | one probe at a time, no leaked probe slot, opens on a streak, closes after recovery |
| Timeout policy `timeout.ts` | attempts in flight, abandoned ledger | begin, heartbeat, complete, settle, sweep | each expiry told once, right deadline blamed, ledger exact |
| Capacity governor `capacity.ts` | per expert: slots in use, stranded, latency, errors | acquire, release, strand, reclaim, observe, rebaseline | an expert never gets more than it has room for |
| Retry `retry.ts` | none | decide, delayFor | bounded attempts and delays |
| Leaky bucket `leaky-bucket.ts` | tokens per expert | tryConsume, refund, configure | no token out of nothing |
| Router `router.ts` | none of its own | route | a task goes only where every gate is open |
| Quorum `quorum.ts`, escalation `escalate.ts` | none; two counters | decide | no decision without the bar; panels within their budget |
| Reputation `reputation.ts`, `persistence/` | score and count per expert; a table | record, hydrate, persist | no observation erased, no default written over a record |
| Profile `HarnessProfile.ts` | none; layers, grants | resolveHarnessProfile | an agent only tightens; power is earned; the ceiling is kept |
| Agent loop `loop.ts` | turn, budgets, ceiling, last results | runAgentLoop, scoreCriteria | nothing unsanctioned runs; VERIFIED is earned; every run ends |

### Identity (`src/lib/trustshell/identity`): who may do what, and who judges it

Control proofs (`control-proof.ts`) carry a grant from a human to an agent: capabilities,
caveats, expiry, a nonce that a nonce store (`nonce-store.ts`) spends once. Delegation
(`delegation.ts`) narrows a grant along a chain. The loop authorizer (`loop-authorizer.ts`)
verifies a proof when a session begins and then decides every call of the agent loop. Work
contracts (`work-contract.ts`, `assigned-contract.ts`, `checker-assignment.ts`) bind a task
to criteria and a drawn checker, whose signed verdict (`contracted-evaluator.ts`) decides a
round of the acceptance loop (`acceptance-loop.ts`, `spine.ts`). Handoffs (`handoff.ts`)
resume interrupted work, reputation transitions (`reputation-transition.ts`) record it.

### Kernel and runtime (`kernel`, `runtime`): one action at a time

`kernel/policy.ts` disposes an action envelope under a constitution to ALLOW, ASK, VERIFY or
DENY; `kernel/gate.ts` runs the action only on ALLOW; `runtime/execute.ts` adds idempotency by
request id and a receipt.

### Payments (`src/app/api/trustrails`)

`pay/route.ts` chains KYA validation (`KYAValidator.ts`), earned RepID, the contracted
evaluation, BFT authorization (`BFTAuthorizer.ts`), execution (`SolanaExecutor.ts`), a
receipt, and a reward claimed once (`RewardLedger.ts`). `bft/process/route.ts` drains the
queue of evaluations left for later.

### Queues in the database

`dispatch-triage` claims messages of a mailbox through a SQL function, asks a judge and
replies; `reap_expired_hitl_requests` expires requests a human did not answer;
`hal-replay.mjs` mints the receipts a corpus lacks, from a cursor it prints.

### How the parts interact

By calls within one process and by rows shared between processes. In a process, the harness
is single-threaded and asynchronous: state is read before an `await` and written after it, and
anything may run in between. The router asks the breaker, the bucket and the capacity governor
before a task is dispatched; the dispatcher tells the timeout policy and the governor what
became of it. The agent loop asks its authorizer for every call and its evaluator at the end.
Between processes there are the nonce, reputation, receipt, evaluation and mailbox tables,
with no transaction that spans two statements of the TypeScript code.

## What is hard in it

* **Late answers.** A call outlives the decision that started it: a lease lapses before the
  ack, a breaker opens before the result, an attempt is swept before it completes, a message
  is claimed again before its first worker replies.
* **State read before an await.** The breaker's record, the policy object, the request ledger,
  the head of a history, a score that is read, summed and written.
* **Select, then update by id.** The reaper, the drain of evaluations and the triage write to
  the rows they selected without asking what has become of them.
* **Two ledgers for one fact.** Claimed and stranded slots against attempts in flight and
  abandoned; scores against rewards; receipts against executions; rows against receipts.
* **Giving up is not stopping.** A call that was timed out still occupies its expert.
* **Partial failure.** A tool, judge or authorizer that cannot answer is neither a pass nor a
  failure: the code has a third outcome, NOT_CHECKED, that must survive every fold.
* **Crash and restart.** Between the claim of a reward and its write, between counting an
  attempt and settling it, between a printed cursor and the row it stands for; and a nonce
  map or a reputation ledger that is empty again.
* **Single use.** Request ids, nonces, replies and rewards, across concurrent calls.
* **Boundaries.** `attempts >= maxAttempts` after the increment, the write budget before it,
  `now >= expires`, the floor at its own score.
* **Termination.** Prose is no exit from the agent loop; an unavailable judge is no rejection.

`PROJECT.json` lists the hazards at their lines, each with the properties that cover it.

## The modules

| Module | Source | What it is |
|---|---|---|
| `AtLeastOnce` | abstract | what a queue promises: an accepted task is waiting, worked on or dead until it is finished, and delivered at most `MaxAttempts` times |
| `PullQueue` | `harness/queue.ts` | the queue under concurrent workers; refines `AtLeastOnce` |
| `CircuitBreaker` | `harness/circuit-breaker.ts` | one expert's breaker and its callers |
| `TimeoutPolicy` | `harness/timeout.ts` | attempts with a run and an idle deadline |
| `CapacityGovernor` | `harness/capacity.ts` | slots per expert; has no specification of its own, `Dispatch` drives it |
| `Dispatch` | `scripts/harness-experiment.mjs` `phantomRun` | composes `TimeoutPolicy` and `CapacityGovernor` (INSTANCE) under the loop that uses both |
| `AgentLoop` | `harness/loop.ts`, `identity/loop-authorizer.ts`, `identity/caveat.ts` | the agent loop, its two gates, its caller and its grant |
| `CriteriaScoring` | `harness/loop.ts` `scoreCriteria` | the fold over a judge's verdicts |
| `LeakyBucket` | `harness/leaky-bucket.ts` | tokens under charges, refunds, reconfiguration and a clock that may go back |
| `Retry` | `harness/retry.ts` | the decision after a failure, and the wait |
| `Escalation` | `harness/escalate.ts` | signals of doubt, panels and their cap |
| `Quorum3f` | `harness/quorum.ts` | the weighted supermajority of one round |
| `Router` | `harness/router.ts`, `harness/reputation.ts` | gates, ranking and the draw for newcomers |
| `DurableLedger` | `persistence/durable-ledger.ts`, `harness/reputation.ts` | ledgers of several processes over one table |
| `HarnessProfile` | `HarnessProfile.ts` | settings resolved from layers, grants and a ceiling |
| `DispatchTriage` | `functions/dispatch-triage`, `dispatch_triage_claim.sql` | the mailbox, its claims and its workers |
| `HitlReaper` | `reap_expired_hitl_requests.sql` | runs of the reaper, the human, the rollback |
| `BftQueue` | `bft/process/route.ts`, `BFTAuthorizer.ts` | the table of evaluations and overlapping drains |
| `Payment` | `pay/route.ts`, `KYAValidator.ts`, `SolanaExecutor.ts`, `RewardLedger.ts` | concurrent payments of one agent |
| `PolicyKernel` | `kernel/policy.ts` | `dispose`, as operators |
| `Execution` | `runtime/execute.ts`, `kernel/gate.ts` | concurrent calls of `runAction` over one ledger |
| `ControlProof` | `identity/control-proof.ts`, `identity/nonce-store.ts` | verifications, their nonces and the processes that keep them |
| `Attenuation` | `identity/capability.ts`, `caveat.ts`, `delegation.ts` | when a chain of delegation verifies, and how chains come about |
| `AcceptedWork` | `identity/spine.ts`, `staged-judge.ts`, `contracted-evaluator.ts`, `acceptance-loop.ts` | the rounds between a doer and its auditor |
| `ReputationChain` | `identity/reputation-event-producer.ts`, `reputation-transition.ts` | histories, their heads, their writers, and concurrent calls |
| `HalReplay` | `scripts/hal-replay.mjs`, `replay/plan.ts` | the replay script, its cursor and its restarts |
| `Harness` | the eleven parts of the harness above but the queue and the loop | their composition: a step is a step of one of them |
| `Services` | the ten services and identity protocols | likewise |
| `FiniteSums` | | lemmas on sums over finite sets of numbers, which four of the proofs need |
| `PullQueueProofs`, `AgentLoopProofs` | | theorems about the module they extend |
| `FleetProofs`, `JudgementProofs`, `HarnessProofs` | | theorems about the parts of `Harness`, and about `Harness` |
| `IdentityProofs`, `ServicesProofs` | | theorems about the parts of `Services`, and about `Services` |
| `MC*` | | instances for TLC |

`Harness` and `Services` hold the constants and variables of their parts under names of their
own, instantiate each part once, and assume of the constants what the parts assume. A part
whose names collide with another's is instantiated with a substitution (`Dispatching` has its
own attempts and deadlines, apart from those of `Timeouts`).

Definitions commented `fault:` are never used by the specifications. Each is a plausible wrong
version of the definition below it, and the property it is listed with must fail once it
takes that definition's place. A property that joins several of its component's, or several
components', is listed with a fault for most of its parts.

Variables commented `(history)` are not in the code: the properties read them, and no guard
does.

### PullQueue

Every method of the queue is one action of a worker: the code is synchronous, so a call is
atomic. Each begins with `reclaimExpired` (`ReclaimExpired`), which is part of every action and
also of `PullNothing` and `Inspect`. State: `pending`, `leased` (lease id to task), `dead`,
`attempts`; `ttl` is the time a lease has left. A worker's own leases (`holds`) are not
forgotten when they lapse, so late acks, nacks and heartbeats happen. `older` and `thisMs`
stand for `enqueuedAt`: an order in which tasks of the same millisecond are tied. `owed` is
history: what was accepted and not settled. Lease ids are a finite pool; `FreshLease` takes
one that neither the map nor any worker knows, and `Pull` waits when there is none. A task slot
may be enqueued again once it is settled. `Tick` and `Crash` are the environment.

### CircuitBreaker

`execute` is split at its await: `Admit` is everything up to `primary()`, `Settle` is
`recordSuccess` or `recordFailure`. Every operation begins with `maybeHalfOpen`, expressed by
`StateNow`, `SuccessesNow` and `ProbeNow`. Callers in `Routed` do what the router does: they
ask `isOpen` and then dispatch, without claiming the probe slot. `probes` (calls admitted in
this half-open period), `strays` (a result of a call that holds no claim has been recorded in
it) and `streak` are history. `up` is the expert; it answers as it pleases while it changes,
and rightly once it has settled.

### TimeoutPolicy, CapacityGovernor and Dispatch

`TimeoutPolicy` keeps an attempt's two start times as ages, capped at the deadlines: nothing
reads a clock beyond them. `firstBreach` is history kept by `Tick`: which deadline passed first.
`CapacityGovernor` keeps the smoothed latency as any whole number between the last one and the
sample, since the smoothing factor is any real in (0, 1]. `Dispatch` runs the steps of one turn
of `phantomRun` in their order (`phase`), with the router's pick and the breaker's refusals
left open. `working` is history: what the experts are really working on, which no ledger of
the program can see.

### AgentLoop and CriteriaScoring

One action per stretch between awaits: the model answers or throws, a call is refused by the
policy or by the authorizer, or is allowed, the tool answers, the turn ends, the evaluation
concludes. `policy` is the loop's copy of the caller's object `given`; `CallerEdits` replaces
what the caller holds at any await, and the loop reads the effects of tools through `given`,
because the copy is shallow. The grant may expire at any time. `ran`, `capped`, `flawed`,
`judgement` and `repeated` are history. A call is its tool; results are abstracted to what
`assessProgress` compares. `CriteriaScoring` reads verdicts in any order and keeps one per
criterion as `byId` does.

### LeakyBucket, Retry, Escalation, Quorum3f, Router, HarnessProfile

Decision procedures with little state. Each keeps its decision as written, over small whole
numbers where the code has reals: rates are tokens per unit of time, jitter and shares are
fractions compared without division. `LeakyBucket` has a clock that may be set back; `accrued`
counts what the elapsed time was worth at the rates then in force. `Quorum3f` has no state in
the code: its variable is the votes of a round, and a step changes one validator's, so that an
action property compares the outcomes of two rounds. `Router` keeps of a score its place
against the floor and the prior, and lets the other gates move as they will. `HarnessProfile`
adds declarations and grants one at a time and resolves the profile in every state, over one
setting an agent may tune, one that is earned and the organisation's ceiling.

### DurableLedger

Several processes hydrate from, record into and persist to one table; each await is a step of
its own (`Read` and `Hydrate`, `Persist` and `Write`), so that saves cross. Of a record the
count of observations is kept. A load may fail, a record may be found invalid halfway through
`hydrate`, a write may fail, a process may restart.

### DispatchTriage, HitlReaper, BftQueue, HalReplay

`DispatchTriage`: `Claim` is the SQL function, one statement and therefore one action; `Reply`
is the update by id, and `Strand` whatever keeps it from happening. `readFor` is the age of
`read_at`, `working` how long a worker has been at it, bounded by `WorkTime` as the host bounds a
function. `HitlReaper`: the function's select and its update see different states, so they are
two actions with the human's `Decide` between them. `BftQueue`: a drain selects a batch and
then counts, asks and writes row by row, each a request to the database whose error the code
ignores or reports; `Die` ends it anywhere. `HalReplay`: the script reads a batch, inserts row by
row, moves its cursor and counts what is left; `Kill` ends it anywhere, `Start` takes any cursor
that was printed, and `LiveMint` is the other writer of receipts.

### Payment, PolicyKernel and Execution

`Payment` gives each request its place in the handler (`stage`); a step is a stretch between two
awaits that matter, and any of them may be the last (`Crash`). `unseen` and `overlapped` are
history. `Vote` is what the drain of `BftQueue` does, as far as the receipt shows. `Execution`
calls `Dispose` of `PolicyKernel` in the same step as the look-up of the ledger, since nothing
is awaited between them, and writes the receipt in another; grants, approvals and evidence
change in between. `contested` is history: request ids that two calls had in hand at once.

### ControlProof, Attenuation, AcceptedWork, ReputationChain

`ControlProof` splits a verification at its await: the window is looked at before it, the nonce
claimed after it, in a map of the process or in the shared table (`durable`). `straddled` is
history: proofs claimed after the window had closed. `Attenuation` grows a chain by `delegate`
or by a link signed by hand, which may widen; `Verified` says which chains pass.
`AcceptedWork` puts the judgement of one criterion through its tiers, the criteria into a
verdict, the verdict into a round and the rounds into a status. `ReputationChain` reads a head
and advances it in two awaits, for each event of each call; a root is the list of what was
hashed into it. A call names its writer: a secret, a path and the root of a group, which need
not belong together. `Member` walks the path from the secret's commitment as
`verifyTransitionByRecomputation` does, and `HeadAfter` is the guard on its answer: a transition
that does not recompute leaves the head alone and is returned all the same, marked `valid` or
not. `AwaitRejects` throws at any await of the call, which then returns nothing; heads it has
advanced stay advanced.

## The runs

| Run | Shows |
|---|---|
| `pull_queue` | no accepted task is lost, doubled, over-delivered, or taken from a live holder; leases are not confused; the queue implements `AtLeastOnce`; and a task that nothing outranks is settled |
| `pull_queue_starves` | finding: an older task of low priority may wait for ever |
| `breaker_two_probes` | finding: a stray result frees the slot of a running probe |
| `breaker_closed_early` | finding: a stray success closes an open breaker at once |
| `loop` | only sanctioned calls run, budgets and caps are exact, VERIFIED is earned, FAILED is said by somebody; and every run ends |
| `loop_effects_edited` | finding: editing the effects map during a run overspends the write budget |
| `loop_refused_again` | finding: repeating a refused call counts as progress |
| `criteria_order` | finding: two verdicts of equal outcome are read in order |
| `harness` | every part of the harness but the queue and the loop, see below |
| `services` | every service and identity protocol, see below |
| `accepted_work` | finding: work under an agreed floor is accepted and delivered |
| `hal_replay` | finding: a resumed replay says VERIFIED over a row that was never minted |

### Two runs of many parts

`Harness` and `Services` compose components that share no state: `Next` is a step of any of
them, the others standing still. The two runs check them on small instances with a variable
`part`, chosen in the initial state, that names the one component that moves. The states of a
run are thus the sum of the components' states and not their product. Nothing is lost by it:
a property of one component does not see the steps of another (`HarnessProofs` and
`ServicesProofs` prove that each component's specification is implied by the composition's),
and each property of these runs is a conjunction of properties of single components:

| Property of `harness` | Parts |
|---|---|
| `TypeOK` | every component's |
| `ProbeSlotIsSound`, `ClosedCountsTheStreak`, `Recovers` | `CircuitBreaker`: the slot has one owner, is never leaked, and admits one probe while only claims settle; the count is the streak; an expert that came back is used again |
| `GivenUpOnce`, `BlamesTheFirstDeadline` | `TimeoutPolicy`: each expiry is reported once and settled at most once; the deadline blamed passed first |
| `NothingIsAveraged` | `CriteriaScoring`: VERIFIED means every criterion, one failure fails the run |
| `LimitsAreKept` | `LeakyBucket` (no capacity out of nothing, a kept retry-after), `Retry` (bounded wait, the right reason), `Escalation` (the cap, and every signal answered) |
| `LedgersTellTheTruth` | `Dispatch` (governor and policy agree on every slot, none is phantom), `DurableLedger` (nobody claims observations that were not made) |
| `NeverOverloaded` | `Dispatch`: no expert is handed a call beyond its slots |
| `ProfilesDoNotEscalate` | `HarnessProfile`: an agent only tightens, power is covered by a backed grant in date, the ceiling is kept |
| `OneFaultFlipsNothing` | `Quorum3f`: no one validator within the weight two rounds have to share (a third of what decides, at a bar of two thirds) turns COMMIT into REJECT |
| `EveryNewcomerGetsARecord` | `Router`: an expert open again and again leaves its cold start |
| `RecordsAreKept` | `DurableLedger`: only a stale or torn holder takes observations back |
| `NothingHangsForEver` | `TimeoutPolicy` (heartbeats buy no time), `Dispatch` (stranded slots come back) |

| Property of `services` | Parts |
|---|---|
| `TypeOK` | every component's |
| `MessagesAreAnsweredOnce` | `DispatchTriage`: one worker and one reply, as long as the claim dated itself |
| `DecisionsStand` | `HitlReaper` (a decision is undone only if made under a run), `BftQueue` (a verdict is not replaced unless drains overlap) |
| `PaymentsAreAccountedFor` | `Payment` (overspend needs blindness, rewards are earned and add up, an answer knows its receipt), `BftQueue` (bounded attempts, receipt and row agree) |
| `NoncesAreSpentOnce` | `ControlProof`: valid once, and spent only by what was presented in good faith |
| `ChainsNarrow` | `Attenuation`: what the last link allows every link allows; what `delegate` made verifies |
| `WorkIsJudged` | `AcceptedWork`: delivered work was certified by the last tier, an outage blames nobody, budgets end the loop |
| `RecordsTellTheTruth` | `HalReplay` (what a certified corpus lacks, an earlier run stopped on), `HitlReaper` (what is closed is in the changelog), `ReputationChain` (a refused call appends nothing; what is in a history is about its subject, by a writer whose path leads to its group; what a call was told is valid stays in the history, unless another call's append took its place) |
| `ActionsRunOnce` | `Execution`: an uncontested request acts once, its receipt tells and stands, what ran was allowed |
| `HistoriesAreAppended` | `ReputationChain`: a head moves by one event of a member's call, and only a lost race rewrites a history |
| `NothingIsLeftWaiting` | `DispatchTriage` (answered), `BftQueue` (resolved), `HalReplay` (ends) |

Some parts name a circumstance under which the code does not keep the promise, and say that
nothing else breaks it. They do not catch what happens under it:

| Circumstance | In | What it exempts |
|---|---|---|
| `keptOld` | `DispatchTriage` | a message reclaimed with its first `read_at` |
| `raced` | `HitlReaper` | a request decided while a run had it selected |
| `shared`, `uncounted`, `cut` | `BftQueue` | a row two drains selected; one whose attempt was not counted; one whose drain died or whose verdict was not written |
| `unseen`, `overlapped` | `Payment` | payments in flight that did not see each other; two rewards between read and write |
| `contested` | `Execution` | two calls with one request id in hand at once |
| `straddled` | `ControlProof` | a proof claimed after its window had closed |
| `foreign`, `torn` | `DurableLedger` | a save by a process that loaded before another saved; a process whose load threw halfway |
| a lost race (`GoesOn`, `PartBetweenCalls`) | `ReputationChain` | a head advanced by another call between a call's read and its own advance |
| `refused` | `HalReplay` | a row a run stopped on, and the next one passed over (the finding of `hal_replay`) |

Each of them is listed, with its line and with what the code's comments say, under
[Findings](#findings).

Each passing run checks safety and liveness at once, under fairness, so none of the passing
runs uses symmetry. CHECK_DEADLOCK is off in `harness` and `services`, some of whose parts
really stop (verdicts end, a call returns its last event, a setting has no more changes), in
`criteria_order` and `hal_replay` for the same reason. The parts that
the code means to go on until there is nothing left say so by an action that only stutters
(`Drained`, `Empty`, `Idle`, `AllRun`, `Done`, `Ended`), enabled exactly there.

## Bounds, and why they are enough

* `pull_queue`: two task slots, two workers, four lease names, three deliveries, a visibility
  timeout of two ticks. Two workers suffice for a late answer to meet a new holder; a slot is
  reused, so a late answer may also meet a new task; three deliveries leave one between the
  first and the last. Four names are two in
  the workers' hands and two still in the map after a crash. With `Slots = 1` a worker holds
  one lease, lapsed or not, until it answers or dies: a consumer with several leases at once is
  not in this run, and is covered by the proofs, which hold for every `Slots`.
* `loop`: two turns of two calls over two tools, three policies to edit among, a cap of two and
  a stall limit of two: the cap, the write budget and the last turn are each reached within a
  run, the budget by a second write.
* `harness`
  * breaker: three callers (a probe, one it should keep out, one left from before), one of them
    routed; threshold, reset timeout and successes to close are two, the least at which
    "once" and "enough" differ;
  * timeouts: two attempts, deadlines of four and two ticks: an idle deadline may fall before,
    at or after the run deadline, with heartbeats in between;
  * scoring: lists of up to three verdicts on two criteria, one of which has a floor, with two
    scores: three verdicts leave one criterion with two and both orders;
  * bucket: two configurations (small and fast, large and slow), charges of one and of more
    than the small capacity, four moments, eight units accrued; retry: four attempts, the third
    wait at the ceiling; escalation: seven decisions under a cap of a third, so that it binds
    and loosens twice; quorum: five validators, one of weight two, a fault tolerance of one;
    router: three experts, one of which the others cannot outrank without the draw; reputation:
    two processes, one id, three outcomes;
  * dispatch: two calls on two experts whose slots shrink from two to one under errors, two
    workers, an abort grace of two turns: an abort is under way while another call expires;
  * profile: three declarations or grants in all, a value out of range and one of the wrong
    type, grants that expire or have no receipts, two days.
* `services`
  * triage: two messages of different priority, two workers, a lease and a working time of two
    ticks: a message is reclaimed while its first worker is still at it; reaper: two requests,
    two runs; queue: one row, two drains, the code's three attempts; payment: two payments of
    which the limit has room for one;
  * execution: two calls of one request id, four kinds of action of which each meets another
    check of the kernel; proof: one proof, two verifications in two processes; chain: a root, a
    link and one link more than a verifier accepts, windows in three moments; work: two
    criteria, two tiers, two rejections, three rounds; history: two calls over lists of up to
    two events, by a member, by an outsider with the member's path and by a member that walks its
    path with the sides exchanged; replay: three rows in batches of two, with and without a limit, started twice.
* The finding runs use the smallest instance in which the disagreement shows.

Clocks count down or stop at the greatest value the code compares with, so the state space is
finite without losing a comparison. Attempt names in `TimeoutPolicy` are used once each.

## Fairness

* `PullQueue`: time passes; each worker keeps pulling; one that holds a lease answers or dies
  (weak fairness of each). This is the polling worker the queue is written for. Nobody has to
  enqueue, and heartbeats are never owed. A worker that heartbeats for ever is excluded by the
  second: it is one that still answers in the end.
* `CircuitBreaker`: time passes, callers keep calling, and every call settles, which
  `TimeoutPolicy` sees to.
* `TimeoutPolicy`: time passes and somebody sweeps. Experts owe nothing.
* `Dispatch`: the loop keeps turning (`while` in `phantomRun`). No call has to return.
* `AgentLoop`: every await settles. The model, tools and judge are external; the loop has no
  timeout of its own, so this is an assumption about them.
* `Router`: a task ends, and the draw of one in ten comes up again and again while a given
  expert is a candidate (strong fairness: it is random in the code).
* `DispatchTriage`: time passes and the schedule keeps invoking workers; not every attempt at
  one message fails (strong fairness of its reply).
* `BftQueue`: the schedule keeps draining and a drain goes on; not every one dies before its
  first write.
* `HalReplay`: a script that runs goes on unless it is killed.

In the runs of many parts fairness must ask nothing of the parts that do not move. The breaker's
and the dispatcher's actions are enabled where those parts begin, so their fairness names the
part; nothing fair is enabled where the others begin, so theirs is stated as it is.

## Proofs

TLAPS (1.4.5) proves every safety property that a passing run checks, for all values of the
constants that the assumptions allow. What is left to TLC is liveness.

| Module | Theorems |
|---|---|
| `PullQueueProofs` | `TypeOK`, `NothingLostOrDoubled`, `RetryBudget`, `LeaseNamesItsTask`, `OnlyHolderEndsLiveLease`; and `KeepsPromise`: the queue implements `AtLeastOnce` |
| `AgentLoopProofs` | `TypeOK`, `OnlySanctionedCallsRun`, `CapIsExact`, `VerifiedIsEarned`, `FailedIsSaid`; and `WriteBudgetHolds` for policies that agree on the effects of tools (`EffectsShared`): without that it is false, which is the finding of `loop_effects_edited` |
| `FleetProofs` | by component: `CircuitBreaker`, `TimeoutPolicy`, `Dispatch` (with `CapacityGovernor`), `LeakyBucket`, `Retry`, `Router` |
| `JudgementProofs` | by component: `CriteriaScoring`, `Quorum3f`, `Escalation`, `DurableLedger`, `HarnessProfile` |
| `HarnessProofs` | of `Harness`: `TypeOK`, `ProbeSlotIsSound`, `ClosedCountsTheStreak`, `GivenUpOnce`, `BlamesTheFirstDeadline`, `NothingIsAveraged`, `LimitsAreKept`, `LedgersTellTheTruth`, `ProfilesDoNotEscalate`, `OneFaultFlipsNothing`, `RecordsAreKept`, `NeverOverloaded` |
| `IdentityProofs` | by component: `Attenuation`, `ControlProof`, `Execution` (with `PolicyKernel`) |
| `ServicesProofs` | by component: `DispatchTriage`, `HitlReaper`, `BftQueue`, `Payment`, `AcceptedWork`, `ReputationChain`, `HalReplay`; of `Services`: `TypeOK`, `MessagesAreAnsweredOnce`, `PaymentsAreAccountedFor`, `NoncesAreSpentOnce`, `ChainsNarrow`, `WorkIsJudged`, `RecordsTellTheTruth`, `DecisionsStand`, `ActionsRunOnce`, `HistoriesAreAppended` |

**From the components to the composition.** A component's theorem is about the component's own
specification, `Part!Spec`, and is proved without a look at the others. `Spec => Part!Spec`, one
lemma for each part (`BreakerIsAPart`, ...), says that a step of the composition is a step of the
part or leaves its variables alone. A property of the composition then follows from its parts'
theorems.

**Assumptions.** `HarnessAssumption` and `ServicesAssumption` are the conjunction of what each
component's module assumes, by name, and TLC evaluates them in both runs. They say what the
code's constructors check or its types say: bounds are natural numbers, sets of actors whose
members are counted are finite, a supermajority is above one half and below one, a lease
outlasts the work it is for, and the settings of a profile have numeric bounds.

### Arguments

Each is an inductive invariant `IInv` (in the joint modules with the component's name before
it), checked by TLC first, with one lemma per group of conjuncts or per action.

* **Queue.** The four invariants are inductive only together. Freshness of a lease name needs
  the types; the retry budget needs that an entry is in one place; what an ack removes needs
  that leases are not shared. `GivingUpLeases` says what ending any set of leases does, and
  serves reclaim and nack alike. The refinement maps an entry to its stage. One step of the
  queue may give up many expired leases, so the abstract step moves a set of entries at once;
  `GivenUpEntriesMove` says where each goes, `AtMostOneAdvances` that at most one entry does
  anything else, and one lemma per operation puts the two together.
* **Breaker.** `ProbesAreClaimed` is the strengthening: while nothing stray settled, a running
  probe owns the claim, so a second one is refused. `HistoryIsOfThisPeriod` resets the history
  with the period, and `SuccessesStillMissing` bounds the count of successes.
* **Timeouts.** Who passed first can be read back from what the clocks still show
  (`BreachIsLegible`), because the idle clock, the age and the age of the last progress are
  one clock (`ClocksAgree`), up to where they stop.
* **Dispatch.** The two ledgers balance only between the steps of a turn: the attempts that a
  sweep has taken and nobody has handled yet are still claimed. `Balanced` counts them in, by
  expert, and the equations of cardinalities are kept one attempt at a time; that an expert's
  real work is within what is claimed or stranded needs that what works was begun, and has not
  landed. `NeverOverloaded` is then the governor's own test read against the real work.
* **Bucket.** What was let through and what is left never exceed what was accrued; the fault
  of a reconfiguration would be here. A promise is kept because the balance only grows until
  its time comes, at the rate it was computed from.
* **Retry.** The delay of attempt n is a recursive function of n. That it is a number needs no
  induction principle: were there an n at which it is not, there would be a least one.
* **Loop.** `CeilingIsHonest` carries everything that went wrong in one outcome: before the
  verdict the ceiling is never FAILED, is not VERIFIED once anything was refused or out of
  reach, and not at an end without a handoff. `CountsAgree` bounds calls by the turns begun,
  `WritesAreCounted` ties the write counter to the calls that ran.
* **Scoring.** `KeptIsTheWeakest`: what is kept for a criterion is one of the verdicts given on
  it, and none of those is weaker; the rest is arithmetic on the strengths.
* **Quorum.** The votes have a type and the invariant is no more than that; the property is
  arithmetic over two rounds. Let b and c be the weights of the others that approve and reject
  and w the weight of the one that changed. Both outcomes need
  `(q - p)(b + w) > p c` and `(q - p)(c + w) > p b`, whose sum leaves w more than the
  `(2p - q)/q` part of what decides. The bound of the property had been the complement of the
  bar, with which it is false for bars under two thirds: the attempt to prove it showed this.
* **Escalation.** The counters are the fold over the decisions; the cap is tested before the
  panel is counted and holds after.
* **Reputation.** No holder of a row counts more than was made: a load replaces and never adds.
  A save that takes back observations is by a process whose `foreign` or `torn` says why.
* **Profile.** The layers are four applications of one operator (`After`), so that the agent's,
  which is the last, is compared with what the others declared. The ceiling may tighten with
  the agent's declarations too, and only cuts.
* **Chains.** Permission, coverage, tightening and narrowing are transitive, each by a lemma on
  prefixes of capabilities. A verified chain narrows link by link, so its last link narrows
  every one above; the invariant (`PrefixesNarrow`) is about every prefix, since a chain grows
  by one link and the proof cannot recurse over it. Windows of minted chains are nested.
* **Nonces.** `AcceptedIsRemembered`: a proof found valid has its nonce where the next claim
  looks for it, until a map forgets it at expiry; `ClaimantsAreGenuine`: whatever may be claimed
  was presented with good signatures and in time. An insert whose answer is lost may have
  spent the nonce, which leaves both as they are.
* **Execution.** `Undisturbed`: a request id that nobody contested has at most one call in hand;
  while it has one there is no receipt, and afterwards the receipt tells the effects.
* **Triage.** `ClaimedIsDated`: a message whose claim dated it is as old as its worker's work,
  so it is not eligible before the worker is done.
* **Reaper, drains.** A run's ids are pending when they are selected, and what changes one of
  them meanwhile is in `raced`; a drain's rows are its own or in `shared`, and the attempts it
  selected them with are then still those of the row.
* **Payment.** Of the payments that moved, if each saw the others, the one validated last saw
  the sum of all (`LimitStep`); it is over finite sums of amounts, by `FiniteSums`. Score,
  credits and claims agree as long as no update overlaps (`PayingScores`).
* **Accepted work.** What each tier answered for each criterion and the doubts raised about it
  are what the verdict is made of; the rounds carry the verdict and whether it named a defect.
* **Histories.** A call that holds a head it read either extends the head of now, or another
  call has advanced it since and its record says so. A root that was left is not come back to:
  two roots that differ part at events of two calls, and neither the store's head nor a head at
  hand falls back behind a root that was returned as valid.
* **Replay.** `CertifiedIsCovered`: whatever is below the cursor of a run has a receipt, or was
  stopped on by this run or an earlier one.

Sums over a set (`MapThenSumSet`) and greatest elements are a recursion over subsets, for which
the prover has no induction: `FiniteSums` proves what is needed of them, each time by a smallest
set that would be a counterexample. Where a definition folded over a sequence by recursion it
was stated without (positions of a sequence in `AcceptedWork` and `HarnessProfile`, the oldest
rows of a batch in `BftQueue`); TLC checked the result against the runs as before.

### Only model-checked

* Liveness under fairness, which the prover does not handle: `Recovers`, `NothingHangsForEver`,
  `EveryNewcomerGetsARecord`, `NothingIsLeftWaiting`, `Terminates`, `TopPriorityIsSettled`. The
  router has no safety property but its types.
* The findings: a run that violates a property is its own proof.

## Findings

Each of these has a run that shows it.

1. `queue.ts:115`: the comment says age as a tie-break stops starvation; it only breaks ties
   inside one priority.
2. `circuit-breaker.ts:135`: any result clears the probe slot, so "one probe at a time" fails
   when a call admitted before the breaker opened settles during a probe.
3. `circuit-breaker.ts:148`: a success recorded on an open breaker closes it, without timeout or
   probe.
4. `loop.ts:769`: `toolEffects` is read through a shallow copy, against the comment that the
   caller has no live path into the loop's decisions.
5. `loop.ts:1065`: a refusal whose text carries the running count differs every time, so an
   agent that repeats a refused call is never stopped by the stall counter.
6. `loop.ts:1220`: duplicate verdicts that tie on outcome are last-write-wins in their score,
   which a floor then reads.
7. `spine.ts:517`: a round asks the verdict's own outcome, in which the agreed floors play no
   part, so work scored under a floor is accepted and delivered.
8. `hal-replay.mjs:168`: the cursor a stopped run prints is past the row it stopped on, so the
   resumed run says VERIFIED over a corpus without it.

Met while modelling, and visible in the circumstances the properties name or exclude. None of
these has a run of its own; the passing run of its part says that nothing else breaks the promise.

* `dispatch_triage_claim.sql:36` keeps the first `read_at` of a message it reclaims, and measures
  the lease from it: once reclaimed, a message has no lease (`keptOld`). Two workers may have
  it, against line 1, and the reply of the one is overwritten by the other's, written by id alone
  (`dispatch-triage/index.ts:227`).
* `reap_expired_hitl_requests.sql:100`: the reaper updates by id without asking for `pending`
  again, so a decision made between its two statements is overwritten (`raced`), against lines
  28-30.
* `bft/process/route.ts:81`: drains that overlap select the same rows. One's error puts back to
  pending what the other evaluated, one's verdict replaces the other's, and both count attempts
  from what they read (`shared`). An update of the count whose error is not looked at is not
  counted (`uncounted`).
* `bft/process/route.ts:62`: a row is selected only while it has attempts left, and its status is
  settled only by a drain that lives on. A drain that dies, or whose verdict is not written, at
  the last attempt leaves the row pending for ever (`cut`). Lines 76-78 say that such a row is
  parked: it is not tried again, but no status says so.
* `execute.ts:139`: two concurrent calls with one request id both find the ledger empty and both
  run the side effect (`contested`), against lines 22-24, by which the id is consumed on first
  disposition and a second call does not run the effect again.
* `KYAValidator.ts:189`: the daily limit is compared with what receipts say, and those are
  written after the execution: two payments in flight pass it together (`unseen`).
* `KYAValidator.ts:267`: the score is read and the sum written, so of two rewards at once one is
  lost, while its claim stays (`overlapped`).
* `durable-ledger.ts:175`: a process saves its whole ledger. A save by one that loaded before
  another saved takes the other's observations back (`foreign`).
* `durable-ledger.ts:129`: a record that does not validate throws out of `hydrate` after part of
  the ledger was replaced. A process that had loaded before may still persist that ledger (`torn`).
* `reputation-event-producer.ts:160`: of two calls about one subject the later rewrites what the
  earlier appended. Lines 29-33 and 87-88 leave the compare-and-set to a durable store, which the
  store of the module is not.
* `verifyControlProof` takes the time before it awaits the signatures: a proof that expires
  meanwhile may be claimed in a map that has just forgotten its nonce (`straddled`).
* `delegate` checks neither the depth nor the parent's `notBefore`, so a chain it made may not
  verify; `MintedChainsVerify` says under which conditions it does.
* A retry's jitter is added on top of `maxDelayMs`.
* `HarnessProfile.ts` 67-72 says that a human may always tighten; no layer may write an earned
  setting, and the organisation's ceiling cuts one of them only.
* `runAcceptedWork` does not forward the auditor's grant it is given.
* `McpClient.callTool` does not ask whether the handshake took place, and `handoffPayload` leaves
  the checkpoint's detail out of what is signed. Neither is modelled.

## What is not modelled

Per component, in `PROJECT.json`. In short:

* pages, formatting, encodings, signatures and hashes: a model of them would be opaque values,
  and where a modelled part relies on them they are taken as sound or injective;
* statistics, similarity and formulas over reals, simulations that measure rates;
* thin adapters over one row of a table or one request, and services in other languages that
  forward requests;
* the check scripts (`check-identity.mjs`, `mutations.mjs` and the like), the longest files of
  the repository: they are its tests, lists of cases run in order against the parts modelled
  here, with no state of their own.

Within modelled parts: spend accounting and logging of the agent loop, on which nothing decides;
session setup of its authorizer; the experiment's other arms; of caveats and reputation records
all but one number; the evaluator's envelopes; dry runs of the replay.

## Plan

What was planned is done up to these, in order of what they would show:

1. **Proofs**: abstract specifications of the services (a mailbox that answers once, a ledger
   that is appended to) and that the services implement them outside the circumstances they
   name, as the queue implements `AtLeastOnce`.
2. **Handoff**: the chain of checkpoints across more than one handoff, each signed over the one
   before.
3. **Receipt store**: appending a receipt again under the same hash, and the supersession of
   claims.
4. **MCP session**: handshake, tool list and calls of a client whose server restarts.
5. **Router with its real gates**: `CircuitBreaker`, `LeakyBucket` and `CapacityGovernor` in the
   place of the set `closed`.
