----------------------------- MODULE AgentLoop -----------------------------
(***************************************************************************)
(* runAgentLoop of src/lib/trustshell/harness/loop.ts: an agent proposes   *)
(* calls, two gates decide them, a tool answers, and the run ends with a   *)
(* verdict no stronger than what was observed.  Its authorizer is the one  *)
(* of src/lib/trustshell/identity/loop-authorizer.ts: a grant that may     *)
(* expire, with a maxCalls caveat.                                         *)
(*                                                                         *)
(* The loop awaits the model, the authorizer, every tool and the judge,    *)
(* and whatever can happen elsewhere may happen at each await: the caller  *)
(* edits the policy object it handed over, the grant expires.              *)
(*                                                                         *)
(* A call is its tool: the arguments are fixed.  What a tool or a refusal  *)
(* says is abstracted to what assessProgress can tell apart.  The judge's  *)
(* verdicts are folded to one outcome here; CriteriaScoring has the fold.  *)
(***************************************************************************)
EXTENDS Integers, Sequences, FiniteSets

CONSTANTS
  Tools,
  Policies,                \* the policies a caller may hand over, or edit into
  MaxIterations,           \* policy.maxIterations
  NoProgressAbortAfter,    \* policy.noProgressAbortAfter
  CallsPerTurn,            \* the most calls a model proposes in a turn
  CallLimit                \* the maxCalls caveat of the grant

Outcomes == {"FAILED", "NOT_CHECKED", "VERIFIED"}
Effects == {"read", "write", "unknown"}
Refusals == {"not_in_allowlist", "irreversible_requires_human",
             "write_budget_exhausted", "authorizer_denied", "authorizer_error",
             "grant_expired", "call_limit_reached"}
Answers == {"ok", "other", "error", "unavailable"}

(* Who judges, by its DID against the doer's; whether criteria were agreed *)
(* and policy.requireIndependentEvaluation is on; what the judge says.     *)
Judgements ==
  [evaluator : {"none", "self", "unnamed", "independent"}, criteria : BOOLEAN,
   required : BOOLEAN, said : Outcomes \cup {"none", "threw"}]
Unjudged == [evaluator |-> "none", criteria |-> FALSE, required |-> TRUE, said |-> "none"]

Policy == [allowed : SUBSET Tools, irreversible : SUBSET Tools,
           maxWrites : Nat, effects : [Tools -> Effects]]

ASSUME LoopAssumption ==
  /\ Policies \subseteq Policy
  /\ MaxIterations \in Nat
  /\ NoProgressAbortAfter \in Nat
  /\ CallsPerTurn \in Nat
  /\ CallLimit \in Nat

VARIABLES
  pc,           \* what the loop is waiting for
  given,        \* the policy object, still in the caller's hands
  policy,       \* the loop's copy of it
  grantLive,    \* the grant has not expired (environment)
  turn,         \* turns begun
  todo,         \* the calls of this turn not decided yet
  offer,        \* the claim of this turn's typed handoff, if it has one
  totalCalls,   \* the calls proposed so far
  writes,       \* the write budget spent
  progressed,   \* this turn changed something
  lastResult,   \* lastResultFor
  stall,        \* consecutiveNoProgress
  ceiling,
  claimed,      \* handoff?.outcome
  stopReason,
  outcome,      \* LoopResult.outcome, "none" before the end
  ran,          \* the calls that reached a tool, in order (history)
  capped,       \* maxCalls has refused a call (history)
  flawed,       \* a call was refused or unreachable, or the model threw (history)
  judgement,    \* who was to judge, on what terms, and what it said (history)
  repeated      \* this turn only repeated refused calls (history)

verdict == <<claimed, stopReason, outcome, judgement>>
vars == <<pc, given, policy, grantLive, turn, todo, offer, totalCalls,
          writes, progressed, lastResult, stall, ceiling, verdict, ran, capped,
          flawed, repeated>>

Strength(o) == CASE o = "FAILED" -> 0 [] o = "NOT_CHECKED" -> 1 [] o = "VERIFIED" -> 2

WeakerOutcome(a, b) == IF Strength(a) <= Strength(b) THEN a ELSE b

Init ==
  /\ pc = IF MaxIterations > 0 THEN "turn" ELSE "evaluate"
  /\ given \in Policies
  /\ policy = given
  /\ grantLive = TRUE
  /\ turn = 0
  /\ todo = <<>>
  /\ offer = "none"
  /\ totalCalls = 0
  /\ writes = 0
  /\ progressed = FALSE
  /\ lastResult = [t \in Tools |-> "never"]
  /\ stall = 0
  /\ ceiling = IF MaxIterations > 0 THEN "VERIFIED" ELSE "NOT_CHECKED"
  /\ claimed = "none"
  /\ stopReason = "iteration_budget_exhausted"
  /\ outcome = "none"
  /\ ran = <<>>
  /\ capped = FALSE
  /\ flawed = FALSE
  /\ judgement = Unjudged
  /\ repeated = FALSE

-----------------------------------------------------------------------------
(* The model proposes a turn.                                              *)

Proposals == UNION {[1..n -> Tools] : n \in 0..CallsPerTurn}

ModelAnswers ==
  /\ pc = "turn"
  /\ pc' = "decide"
  /\ turn' = turn + 1
  /\ todo' \in Proposals
  /\ offer' \in Outcomes \cup {"none"}
  /\ progressed' = FALSE
  /\ repeated' = (todo' # <<>>)
  /\ UNCHANGED <<given, policy, grantLive, totalCalls, writes, lastResult,
                 stall, ceiling, verdict, ran, capped, flawed>>

ModelThrows ==
  /\ pc = "turn"
  /\ pc' = "evaluate"
  /\ turn' = turn + 1
  /\ ceiling' = WeakerOutcome(ceiling, "NOT_CHECKED")
  /\ stopReason' = "model_error"
  /\ flawed' = TRUE
  /\ UNCHANGED <<given, policy, grantLive, todo, offer, totalCalls, writes,
                 progressed, lastResult, stall, claimed, outcome, judgement, ran,
                 capped, repeated>>

-----------------------------------------------------------------------------
(* The two gates.                                                          *)

Spends(effect) == effect # "read"

(* policy.toolEffects is shared with the caller: the copy is shallow.      *)
EffectOf(t) == given.effects[t]

\* fault: the allowlist is read from the caller's object
AllowedLive == given.allowed

Allowed == policy.allowed

\* fault: the budget may be overspent by one
BudgetOverspent(t) == Spends(EffectOf(t)) /\ writes > policy.maxWrites

BudgetExhausted(t) == Spends(EffectOf(t)) /\ writes >= policy.maxWrites

PolicyVerdict(t) ==
  CASE t \notin Allowed -> "not_in_allowlist"
    [] t \in Allowed /\ t \in policy.irreversible -> "irreversible_requires_human"
    [] t \in Allowed \ policy.irreversible /\ BudgetExhausted(t) -> "write_budget_exhausted"
    [] OTHER -> "pass"

\* fault: the call being decided is already counted
CapReachedAfter == totalCalls + 1 >= CallLimit

CapReached == totalCalls >= CallLimit

(* A grant that expired or a spent cap refuses; otherwise capabilities and *)
(* the other caveats decide, and the authorizer may fail.                  *)
AuthorizerVerdicts ==
  IF ~grantLive THEN {"grant_expired", "authorizer_error"}
  ELSE IF CapReached THEN {"authorizer_denied", "call_limit_reached", "authorizer_error"}
  ELSE {"allowed", "authorizer_denied", "authorizer_error"}

(* assessProgress, result by result: the map is read nowhere else.  The    *)
(* text of a spent cap names the count, so it never repeats; that of an    *)
(* expired grant names the time, so it seldom does.                        *)
Observe(t, result) ==
  /\ progressed' \in CASE lastResult[t] # result \/ result = "call_limit_reached" -> {TRUE}
                       [] lastResult[t] = result /\ result = "grant_expired" -> {progressed, TRUE}
                       [] OTHER -> {progressed}
  /\ lastResult' = [lastResult EXCEPT ![t] = result]

Refuse(t, kind) ==
  /\ pc' = "decide"
  /\ todo' = Tail(todo)
  /\ totalCalls' = totalCalls + 1
  /\ ceiling' = WeakerOutcome(ceiling, "NOT_CHECKED")
  /\ Observe(t, kind)
  /\ repeated' = (repeated /\ lastResult[t] = kind)
  /\ flawed' = TRUE
  /\ capped' = (capped \/ kind = "call_limit_reached")
  /\ UNCHANGED <<given, policy, grantLive, turn, offer, writes, stall,
                 verdict, ran>>

PolicyRefuses ==
  /\ pc = "decide"
  /\ todo # <<>>
  /\ PolicyVerdict(Head(todo)) # "pass"
  /\ Refuse(Head(todo), PolicyVerdict(Head(todo)))

AuthorizerRefuses ==
  /\ pc = "decide"
  /\ todo # <<>>
  /\ PolicyVerdict(Head(todo)) = "pass"
  /\ \E kind \in AuthorizerVerdicts \ {"allowed"} : Refuse(Head(todo), kind)

(* The call is allowed, its write is charged, and the tool is awaited.     *)
Allow ==
  /\ pc = "decide"
  /\ todo # <<>>
  /\ PolicyVerdict(Head(todo)) = "pass"
  /\ "allowed" \in AuthorizerVerdicts
  /\ pc' = "call"
  /\ todo' = Tail(todo)
  /\ totalCalls' = totalCalls + 1
  /\ writes' = IF Spends(EffectOf(Head(todo))) THEN writes + 1 ELSE writes
  /\ ran' = Append(ran, Head(todo))
  /\ repeated' = FALSE
  /\ UNCHANGED <<given, policy, grantLive, turn, offer, progressed,
                 lastResult, stall, ceiling, verdict, capped, flawed>>

\* fault: an unreachable tool fails the work
UnreachableFails(result) == IF result = "unavailable" THEN "FAILED" ELSE ceiling

CeilingAfter(result) ==
  IF result = "unavailable" THEN WeakerOutcome(ceiling, "NOT_CHECKED") ELSE ceiling

\* fault: a tool that errs is called again until it answers
CalledAgain(result) == IF result \in {"error", "unavailable"} THEN "call" ELSE "decide"

AfterAnswer(result) == "decide"

(* The tool awaited is the last one that ran.                              *)
ToolAnswers == \E result \in Answers :
  /\ pc = "call"
  /\ pc' = AfterAnswer(result)
  /\ Observe(ran[Len(ran)], result)
  /\ ceiling' = CeilingAfter(result)
  /\ flawed' = (flawed \/ result = "unavailable")
  /\ UNCHANGED <<given, policy, grantLive, turn, todo, offer, totalCalls, writes,
                 stall, verdict, ran, capped, repeated>>

-----------------------------------------------------------------------------
(* The end of a turn, and of the run.                                      *)

StallNow == IF progressed THEN 0 ELSE stall + 1

\* fault: a run that ran out of turns goes on
LastTurnForgotten == FALSE

LastTurn == turn >= MaxIterations

TurnEnds ==
  /\ pc = "decide"
  /\ todo = <<>>
  /\ IF offer # "none"
     THEN /\ pc' = "evaluate"
          /\ claimed' = offer
          /\ stopReason' = "typed_handoff"
          /\ UNCHANGED <<stall, ceiling>>
     ELSE /\ stall' = StallNow
          /\ UNCHANGED claimed
          /\ IF StallNow >= NoProgressAbortAfter
             THEN /\ pc' = "evaluate"
                  /\ stopReason' = "no_progress"
                  /\ ceiling' = WeakerOutcome(ceiling, "NOT_CHECKED")
             ELSE IF LastTurn
             THEN /\ pc' = "evaluate"
                  /\ UNCHANGED stopReason
                  /\ ceiling' = WeakerOutcome(ceiling, "NOT_CHECKED")
             ELSE /\ pc' = "turn"
                  /\ UNCHANGED <<stopReason, ceiling>>
  /\ UNCHANGED <<given, policy, grantLive, turn, todo, offer, totalCalls,
                 writes, progressed, lastResult, outcome, ran, capped, flawed,
                 judgement, repeated>>

\* fault: a judge without a DID counts as independent
UnnamedIsIndependent(j) == j.evaluator \in {"unnamed", "independent"}

Independent(j) == j.evaluator = "independent"

(* A judge is asked when there is one and there are criteria.              *)
Heard(j) == (j.said = "none") = (j.evaluator = "none" \/ ~j.criteria)

(* runEvaluation, and the cap when nobody independent looked.              *)
EvaluationOutcome(j) ==
  IF j.evaluator = "none"
  THEN IF j.required THEN "NOT_CHECKED" ELSE "VERIFIED"
  ELSE IF ~j.criteria \/ j.said = "threw" THEN "NOT_CHECKED"
  ELSE IF Independent(j) THEN j.said
  ELSE WeakerOutcome(j.said, "NOT_CHECKED")

(* The terms of the judgement are fixed from the start, but nothing reads  *)
(* them before.                                                            *)
Conclude == \E j \in Judgements :
  /\ pc = "evaluate"
  /\ Heard(j)
  /\ pc' = "done"
  /\ judgement' = j
  /\ ceiling' = WeakerOutcome(ceiling, EvaluationOutcome(j))
  /\ outcome' = IF claimed = "none" THEN ceiling' ELSE WeakerOutcome(claimed, ceiling')
  /\ UNCHANGED <<given, policy, grantLive, turn, todo, offer, totalCalls,
                 writes, progressed, lastResult, stall, claimed, stopReason, ran,
                 capped, flawed, repeated>>

-----------------------------------------------------------------------------
(* What may happen while the loop awaits.                                  *)

CallerEdits ==
  /\ pc # "done"
  /\ given' \in Policies
  /\ UNCHANGED <<pc, policy, grantLive, turn, todo, offer, totalCalls, writes,
                 progressed, lastResult, stall, ceiling, verdict, ran, capped, flawed,
                 repeated>>

GrantExpires ==
  /\ pc # "done"
  /\ grantLive' = FALSE
  /\ UNCHANGED <<pc, given, policy, turn, todo, offer, totalCalls, writes,
                 progressed, lastResult, stall, ceiling, verdict, ran, capped, flawed,
                 repeated>>

Finished == pc = "done" /\ UNCHANGED vars

Loop ==
  \/ ModelAnswers
  \/ ModelThrows
  \/ PolicyRefuses
  \/ AuthorizerRefuses
  \/ Allow
  \/ ToolAnswers
  \/ TurnEnds
  \/ Conclude

Next == Loop \/ CallerEdits \/ GrantExpires \/ Finished

Spec == Init /\ [][Next]_vars

(* Every await of the loop settles in the end.                             *)
FairSpec == Spec /\ WF_vars(Loop)

-----------------------------------------------------------------------------
TypeOK ==
  /\ pc \in {"turn", "decide", "call", "evaluate", "done"}
  /\ given \in Policies /\ policy \in Policies
  /\ grantLive \in BOOLEAN
  /\ turn \in 0..MaxIterations
  /\ todo \in Seq(Tools) /\ Len(todo) <= CallsPerTurn
  /\ offer \in Outcomes \cup {"none"}
  /\ totalCalls \in 0..(MaxIterations * CallsPerTurn)
  /\ writes \in Nat
  /\ progressed \in BOOLEAN
  /\ lastResult \in [Tools -> Refusals \cup Answers \cup {"never"}]
  /\ stall \in 0..MaxIterations
  /\ ceiling \in Outcomes
  /\ claimed \in Outcomes \cup {"none"}
  /\ stopReason \in {"typed_handoff", "iteration_budget_exhausted", "no_progress", "model_error"}
  /\ outcome \in Outcomes \cup {"none"}
  /\ ran \in Seq(Tools)
  /\ capped \in BOOLEAN /\ flawed \in BOOLEAN
  /\ judgement \in Judgements
  /\ repeated \in BOOLEAN

(* No tool runs that the policy as handed over did not list, or listed as  *)
(* irreversible, whatever the caller does to its object meanwhile          *)
(* (the two Sets of loop.ts:699-700).                                      *)
OnlySanctionedCallsRun ==
  \A i \in DOMAIN ran : ran[i] \in policy.allowed \ policy.irreversible

WritesRun == {i \in DOMAIN ran : Spends(policy.effects[ran[i]])}

(* The tools that ran and are not reads, by the policy as handed over, are *)
(* within its write budget ("no post-entry mutation of the caller's object *)
(* reaches these decisions", loop.ts:695-697).                             *)
WriteBudgetHolds == Cardinality(WritesRun) <= policy.maxWrites

(* maxCalls permits exactly its limit: a call is refused for it only after *)
(* that many were proposed, and no more than that many run                 *)
(* (loop.ts:771-777, caveat.ts:123-141).                                   *)
CapIsExact ==
  /\ Len(ran) <= CallLimit
  /\ capped => totalCalls > CallLimit

(* A run ends VERIFIED only if the agent said so, nothing was refused,     *)
(* unreachable or broken on the way, and, when somebody judged it or had   *)
(* to, an independent judge verified agreed criteria.                      *)
VerifiedIsEarned ==
  outcome = "VERIFIED" =>
    /\ claimed = "VERIFIED"
    /\ ~flawed
    /\ judgement.required \/ judgement.evaluator # "none" =>
         /\ judgement.evaluator = "independent"
         /\ judgement.criteria
         /\ judgement.said = "VERIFIED"

(* A run ends FAILED only if the agent or a judge said FAILED: a budget    *)
(* spent, a refusal or an outage is NOT_CHECKED (loop.ts:882-885).         *)
FailedIsSaid == outcome = "FAILED" => "FAILED" \in {claimed, judgement.said}

(* A turn that only proposed calls that were refused before, and were      *)
(* refused again for the same reason, is a turn without progress ("False   *)
(* when this turn changed nothing observable", loop.ts:589).               *)
RepeatedRefusalsAreAStall ==
  [][pc = "decide" /\ pc' # pc /\ todo = <<>> /\ offer = "none" /\ repeated
       => stall' = stall + 1]_vars

(* Every run ends, with an outcome.                                        *)
Terminates == <>(pc = "done" /\ outcome # "none")

=============================================================================
