-------------------------- MODULE AgentLoopProofs --------------------------
(***************************************************************************)
(* What a run of the agent loop cannot do, for any tools, policies and     *)
(* budgets.                                                                *)
(***************************************************************************)
EXTENDS AgentLoop, FiniteSetTheorems, TLAPS

PCs == {"turn", "decide", "call", "evaluate", "done"}
StopReasons == {"typed_handoff", "iteration_budget_exhausted", "no_progress", "model_error"}
Results == Refusals \cup Answers \cup {"never"}

(* TypeOK without its counters and its Booleans.                           *)
Types ==
  /\ pc \in PCs
  /\ given \in Policies /\ policy \in Policies
  /\ todo \in Seq(Tools)
  /\ offer \in Outcomes \cup {"none"}
  /\ lastResult \in [Tools -> Results]
  /\ ceiling \in Outcomes
  /\ claimed \in Outcomes \cup {"none"}
  /\ stopReason \in StopReasons
  /\ outcome \in Outcomes \cup {"none"}
  /\ ran \in Seq(Tools)
  /\ judgement \in Judgements

Flags ==
  /\ grantLive \in BOOLEAN /\ progressed \in BOOLEAN
  /\ capped \in BOOLEAN /\ flawed \in BOOLEAN /\ repeated \in BOOLEAN

Counts ==
  /\ turn \in 0..MaxIterations /\ stall \in 0..MaxIterations
  /\ totalCalls \in Nat /\ writes \in Nat
  /\ Len(todo) <= CallsPerTurn

(* The counters move together: a turn is left to begin another one, and    *)
(* every call of the turns begun is proposed, decided or run.              *)
CountsAgree ==
  /\ pc = "turn" => turn < MaxIterations /\ todo = <<>>
  /\ stall <= turn
  /\ pc \in {"decide", "call"} => stall < turn
  /\ totalCalls + Len(todo) <= turn * CallsPerTurn
  /\ Len(ran) <= totalCalls

(* Before the verdict nothing has failed the run, and what went wrong has  *)
(* already cost it its VERIFIED; so has an end without a typed handoff.    *)
CeilingIsHonest ==
  /\ pc # "done" => outcome = "none" /\ ceiling # "FAILED"
  /\ pc # "done" /\ flawed => ceiling # "VERIFIED"
  /\ pc = "evaluate" /\ claimed = "none" => ceiling # "VERIFIED"

LEMMA WeakerFacts ==
  ASSUME NEW a \in Outcomes, NEW b \in Outcomes
  PROVE  /\ WeakerOutcome(a, b) \in {a, b}
         /\ WeakerOutcome(a, b) = "VERIFIED" <=> a = "VERIFIED" /\ b = "VERIFIED"
         /\ WeakerOutcome(a, b) = "FAILED" <=> a = "FAILED" \/ b = "FAILED"
BY DEF WeakerOutcome, Strength, Outcomes

LEMMA ProposalsAreShort ==
  \A s \in Proposals : s \in Seq(Tools) /\ Len(s) \in 0..CallsPerTurn
BY LoopAssumption DEF Proposals

LEMMA VerdictsAreRefusals ==
  \A t : /\ PolicyVerdict(t) # "pass" => PolicyVerdict(t) \in Refusals
         /\ PolicyVerdict(t) = "pass" => t \in policy.allowed \ policy.irreversible
         /\ AuthorizerVerdicts \ {"allowed"} \subseteq Refusals
BY DEF PolicyVerdict, AuthorizerVerdicts, Refusals, Allowed

(* A refusal, whoever refuses.                                             *)
Refused == \E kind \in Refusals :
  /\ pc = "decide"
  /\ todo # <<>>
  /\ kind = "call_limit_reached" => CapReached
  /\ Refuse(Head(todo), kind)

LEMMA RefusalsAreRefused == PolicyRefuses \/ AuthorizerRefuses => Refused
<1>1. ASSUME PolicyRefuses PROVE Refused
  <2>1. PolicyVerdict(Head(todo)) \in Refusals
    BY <1>1, VerdictsAreRefusals DEF PolicyRefuses
  <2>2. PolicyVerdict(Head(todo)) # "call_limit_reached"
    BY DEF PolicyVerdict
  <2> QED BY <1>1, <2>1, <2>2 DEF PolicyRefuses, Refused
<1>2. ASSUME AuthorizerRefuses PROVE Refused
  <2>1. PICK kind \in AuthorizerVerdicts \ {"allowed"} : Refuse(Head(todo), kind)
    BY <1>2 DEF AuthorizerRefuses
  <2>2. kind \in Refusals
    BY VerdictsAreRefusals
  <2>3. kind = "call_limit_reached" => CapReached
    BY <2>1 DEF AuthorizerVerdicts
  <2> QED BY <1>2, <2>1, <2>2, <2>3 DEF AuthorizerRefuses, Refused
<1> QED BY <1>1, <1>2

-----------------------------------------------------------------------------
(* Types and counters.                                                     *)

LEMMA TypesStep == Types /\ [Next]_vars => Types'
<1> SUFFICES ASSUME Types, [Next]_vars PROVE Types'
  OBVIOUS
<1> USE LoopAssumption DEF Types, PCs, verdict
<1>1. CASE ModelAnswers
  BY <1>1, ProposalsAreShort DEF ModelAnswers
<1>2. CASE ModelThrows
  <2>1. ceiling' \in Outcomes
    BY <1>2, WeakerFacts DEF ModelThrows, Outcomes
  <2> QED BY <1>2, <2>1 DEF ModelThrows, StopReasons
<1>3. CASE Refused
  <2>1. PICK kind \in Refusals : todo # <<>> /\ Refuse(Head(todo), kind)
    BY <1>3 DEF Refused
  <2>2. ceiling' \in Outcomes
    BY <2>1, WeakerFacts DEF Refuse, Outcomes
  <2>3. lastResult' \in [Tools -> Results] /\ todo' \in Seq(Tools)
    BY <2>1 DEF Refuse, Observe, Results
  <2> QED BY <2>1, <2>2, <2>3 DEF Refuse
<1>4. CASE Allow
  <2>1. Head(todo) \in Tools /\ todo' \in Seq(Tools)
    BY <1>4 DEF Allow
  <2> QED BY <1>4, <2>1 DEF Allow
<1>5. CASE ToolAnswers
  <2>1. PICK result \in Answers :
          /\ Observe(ran[Len(ran)], result) /\ ceiling' = CeilingAfter(result)
    BY <1>5 DEF ToolAnswers
  <2>2. ceiling' \in Outcomes
    BY <2>1, WeakerFacts DEF CeilingAfter, Outcomes
  <2>3. lastResult' \in [Tools -> Results]
    BY <2>1 DEF Observe, Results
  <2> QED BY <1>5, <2>2, <2>3 DEF ToolAnswers, AfterAnswer
<1>6. CASE TurnEnds
  <2>1. ceiling' \in Outcomes
    BY <1>6, WeakerFacts DEF TurnEnds, Outcomes
  <2>2. claimed' \in Outcomes \cup {"none"}
    BY <1>6 DEF TurnEnds
  <2>3. pc' \in PCs /\ stopReason' \in StopReasons
    BY <1>6 DEF TurnEnds, StopReasons
  <2> QED BY <1>6, <2>1, <2>2, <2>3 DEF TurnEnds
<1>7. CASE Conclude
  <2>1. PICK j \in Judgements :
          /\ judgement' = j /\ ceiling' = WeakerOutcome(ceiling, EvaluationOutcome(j))
          /\ Heard(j)
          /\ outcome' = IF claimed = "none" THEN ceiling' ELSE WeakerOutcome(claimed, ceiling')
    BY <1>7 DEF Conclude
  <2>2. EvaluationOutcome(j) \in Outcomes
    <3>1. j.said \in Outcomes \cup {"none", "threw"}
      BY DEF Judgements
    <3>2. j.evaluator # "none" /\ j.criteria => j.said # "none"
      BY <2>1 DEF Heard
    <3>3. \A o \in Outcomes : WeakerOutcome(o, "NOT_CHECKED") \in Outcomes
      BY WeakerFacts DEF Outcomes
    <3> QED BY <3>1, <3>2, <3>3 DEF EvaluationOutcome, Outcomes
  <2>3. ceiling' \in Outcomes
    BY <2>1, <2>2, WeakerFacts
  <2>4. outcome' \in Outcomes
    BY <2>1, <2>3, WeakerFacts
  <2> QED BY <1>7, <2>1, <2>3, <2>4 DEF Conclude
<1>8. CASE CallerEdits \/ GrantExpires \/ UNCHANGED vars
  BY <1>8 DEF CallerEdits, GrantExpires, vars
<1> QED BY <1>1, <1>2, <1>3, <1>4, <1>5, <1>6, <1>7, <1>8, RefusalsAreRefused
        DEF Next, Loop, Finished

LEMMA FlagsStep == Flags /\ [Next]_vars => Flags'
<1> SUFFICES ASSUME Flags, [Next]_vars PROVE Flags'
  OBVIOUS
<1> USE DEF Flags
<1>1. CASE ModelAnswers \/ ModelThrows
  BY <1>1 DEF ModelAnswers, ModelThrows
<1>2. CASE Refused
  <2>1. PICK kind \in Refusals : Refuse(Head(todo), kind)
    BY <1>2 DEF Refused
  <2>2. progressed' \in BOOLEAN
    BY <2>1 DEF Refuse, Observe
  <2> QED BY <2>1, <2>2 DEF Refuse
<1>3. CASE Allow
  BY <1>3 DEF Allow
<1>4. CASE ToolAnswers
  <2>1. progressed' \in BOOLEAN
    BY <1>4 DEF ToolAnswers, Observe
  <2> QED BY <1>4, <2>1 DEF ToolAnswers
<1>5. CASE TurnEnds \/ Conclude \/ CallerEdits \/ GrantExpires \/ UNCHANGED vars
  BY <1>5 DEF TurnEnds, Conclude, CallerEdits, GrantExpires, vars
<1> QED BY <1>1, <1>2, <1>3, <1>4, <1>5, RefusalsAreRefused DEF Next, Loop, Finished

CountsInv == Counts /\ CountsAgree

LEMMA CountsStep == Types /\ CountsInv /\ [Next]_vars => CountsInv'
<1> SUFFICES ASSUME Types, CountsInv, [Next]_vars PROVE CountsInv'
  OBVIOUS
<1> USE LoopAssumption DEF Types, CountsInv, Counts, CountsAgree, verdict
<1>1. CASE ModelAnswers
  <2>1. /\ pc = "turn" /\ pc' = "decide" /\ turn' = turn + 1 /\ todo' \in Proposals
        /\ UNCHANGED <<totalCalls, writes, stall, ran>>
    BY <1>1 DEF ModelAnswers
  <2>2. Len(todo') \in 0..CallsPerTurn
    BY <2>1, ProposalsAreShort
  <2>3. (turn + 1) * CallsPerTurn = turn * CallsPerTurn + CallsPerTurn
    OBVIOUS
  <2>4. totalCalls <= turn * CallsPerTurn
    BY <2>1
  <2>5. totalCalls' + Len(todo') <= turn' * CallsPerTurn
    BY <2>1, <2>2, <2>3, <2>4
  <2> QED BY <2>1, <2>2, <2>5
<1>2. CASE ModelThrows
  <2>1. /\ pc = "turn" /\ pc' = "evaluate" /\ turn' = turn + 1
        /\ UNCHANGED <<todo, totalCalls, writes, stall, ran>>
    BY <1>2 DEF ModelThrows
  <2>2. (turn + 1) * CallsPerTurn = turn * CallsPerTurn + CallsPerTurn
    OBVIOUS
  <2>3. totalCalls' + Len(todo') <= turn' * CallsPerTurn
    BY <2>1, <2>2
  <2> QED BY <2>1, <2>3
<1>3. CASE Refused \/ Allow
  <2>1. /\ pc = "decide" /\ todo # <<>> /\ pc' \in {"decide", "call"} /\ todo' = Tail(todo)
        /\ totalCalls' = totalCalls + 1 /\ writes' \in {writes, writes + 1}
        /\ UNCHANGED <<turn, stall>>
    BY <1>3 DEF Refused, Refuse, Allow
  <2>2. ran' = ran \/ ran' = Append(ran, Head(todo))
    BY <1>3 DEF Refused, Refuse, Allow
  <2>3. Len(todo') = Len(todo) - 1 /\ Len(todo) > 0
    BY <2>1
  <2>4. Len(ran') <= Len(ran) + 1
    BY <2>2, <2>1
  <2>5. totalCalls' + Len(todo') <= turn' * CallsPerTurn
    BY <2>1, <2>3
  <2> QED BY <2>1, <2>3, <2>4, <2>5
<1>4. CASE ToolAnswers
  BY <1>4 DEF ToolAnswers, AfterAnswer
<1>5. CASE TurnEnds
  <2>1. /\ pc = "decide" /\ todo = <<>> /\ stall' \in {stall, 0, stall + 1}
        /\ UNCHANGED <<turn, todo, totalCalls, writes, ran>>
    BY <1>5 DEF TurnEnds, StallNow
  <2>2. pc' \in {"turn", "evaluate"} /\ (pc' = "turn" => ~LastTurn)
    BY <1>5 DEF TurnEnds
  <2>3. pc' = "turn" => turn < MaxIterations
    BY <2>2 DEF LastTurn
  <2> QED BY <2>1, <2>2, <2>3
<1>6. CASE Conclude
  BY <1>6 DEF Conclude
<1>7. CASE CallerEdits \/ GrantExpires \/ UNCHANGED vars
  BY <1>7 DEF CallerEdits, GrantExpires, vars
<1> QED BY <1>1, <1>2, <1>3, <1>4, <1>5, <1>6, <1>7, RefusalsAreRefused
        DEF Next, Loop, Finished

-----------------------------------------------------------------------------
(* The gates.                                                              *)

LEMMA SanctionStep ==
  Types /\ OnlySanctionedCallsRun /\ [Next]_vars => OnlySanctionedCallsRun'
<1> SUFFICES ASSUME Types, OnlySanctionedCallsRun, [Next]_vars
             PROVE  OnlySanctionedCallsRun'
  OBVIOUS
<1> USE DEF Types, OnlySanctionedCallsRun
<1>1. CASE Allow
  <2>1. /\ todo # <<>> /\ ran' = Append(ran, Head(todo)) /\ policy' = policy
        /\ PolicyVerdict(Head(todo)) = "pass"
    BY <1>1 DEF Allow
  <2>2. Head(todo) \in policy.allowed \ policy.irreversible
    BY <2>1, VerdictsAreRefusals
  <2> QED BY <2>1, <2>2
<1>2. CASE UNCHANGED <<ran, policy>>
  BY <1>2
<1> QED BY <1>1, <1>2
        DEF Next, Loop, Finished, ModelAnswers, ModelThrows, PolicyRefuses, AuthorizerRefuses,
            Refuse, ToolAnswers, TurnEnds, Conclude, CallerEdits, GrantExpires, vars

LEMMA CapStep == Types /\ CountsInv /\ CapIsExact /\ [Next]_vars => CapIsExact'
<1> SUFFICES ASSUME Types, CountsInv, CapIsExact, [Next]_vars PROVE CapIsExact'
  OBVIOUS
<1> USE LoopAssumption DEF Types, CountsInv, Counts, CountsAgree, CapIsExact
<1>1. CASE Refused
  <2>1. /\ capped' => capped \/ CapReached
        /\ totalCalls' = totalCalls + 1 /\ ran' = ran
    BY <1>1 DEF Refused, Refuse
  <2>2. CapReached => totalCalls + 1 > CallLimit
    BY DEF CapReached
  <2> QED BY <2>1, <2>2
<1>2. CASE Allow
  <2>1. /\ "allowed" \in AuthorizerVerdicts /\ todo # <<>>
        /\ totalCalls' = totalCalls + 1 /\ ran' = Append(ran, Head(todo)) /\ capped' = capped
    BY <1>2 DEF Allow
  <2>2. ~CapReached
    BY <2>1 DEF AuthorizerVerdicts
  <2>3. Len(ran') = Len(ran) + 1
    BY <2>1
  <2>4. totalCalls < CallLimit
    BY <2>2 DEF CapReached
  <2> QED BY <2>1, <2>3, <2>4
<1>3. CASE UNCHANGED <<ran, capped, totalCalls>>
  BY <1>3
<1> QED BY <1>1, <1>2, <1>3, RefusalsAreRefused
        DEF Next, Loop, Finished, ModelAnswers, ModelThrows, ToolAnswers, TurnEnds, Conclude,
            CallerEdits, GrantExpires, vars

(* Callers may edit what they handed over, but not what a tool is said to  *)
(* do: the lookup in toolEffects is live.                                  *)
EffectsShared == \A p, q \in Policies : p.effects = q.effects

(* The budget spent is the number of calls that ran and are not reads.     *)
WritesAreCounted ==
  /\ IsFiniteSet(WritesRun)
  /\ Cardinality(WritesRun) = writes
  /\ writes <= policy.maxWrites

LEMMA WritesStep ==
  EffectsShared /\ Types /\ Counts /\ WritesAreCounted /\ [Next]_vars => WritesAreCounted'
<1> SUFFICES ASSUME EffectsShared, Types, Counts, WritesAreCounted, [Next]_vars
             PROVE  WritesAreCounted'
  OBVIOUS
<1>1. CASE Allow
  <2> DEFINE t == Head(todo)
  <2>1. /\ ran' = Append(ran, t) /\ policy' = policy /\ PolicyVerdict(t) = "pass"
        /\ writes' = IF Spends(EffectOf(t)) THEN writes + 1 ELSE writes
    BY <1>1 DEF Allow
  <2>2. ran \in Seq(Tools) /\ t \in Tools
    BY <1>1 DEF Allow, Types
  <2>3. EffectOf(t) = policy.effects[t]
    BY DEF EffectOf, EffectsShared, Types
  <2>4. /\ DOMAIN ran = 1..Len(ran) /\ DOMAIN ran' = 1..(Len(ran) + 1)
        /\ Len(ran) \in Nat
        /\ \A i \in DOMAIN ran : ran'[i] = ran[i]
        /\ ran'[Len(ran) + 1] = t
    BY <2>1, <2>2
  <2> HIDE DEF t
  <2>5. CASE Spends(EffectOf(t))
    <3>1. writes < policy.maxWrites
      <4>1. t \in Allowed \ policy.irreversible /\ ~BudgetExhausted(t)
        BY <2>1, VerdictsAreRefusals DEF PolicyVerdict, Allowed
      <4>2. policy.maxWrites \in Nat /\ writes \in Nat
        BY LoopAssumption DEF Policy, Types, Counts
      <4> QED BY <2>5, <4>1, <4>2 DEF BudgetExhausted
    <3>2. WritesRun' = WritesRun \cup {Len(ran) + 1}
      BY <2>1, <2>3, <2>4, <2>5 DEF WritesRun
    <3>3. Len(ran) + 1 \notin WritesRun
      BY <2>4 DEF WritesRun
    <3>4. IsFiniteSet(WritesRun') /\ Cardinality(WritesRun') = Cardinality(WritesRun) + 1
      BY <3>2, <3>3, FS_AddElement DEF WritesAreCounted
    <3>5. policy.maxWrites \in Nat /\ writes \in Nat
      BY LoopAssumption DEF Policy, Types, Counts
    <3> QED BY <2>1, <2>5, <3>1, <3>4, <3>5 DEF WritesAreCounted
  <2>6. CASE ~Spends(EffectOf(t))
    <3>1. WritesRun' = WritesRun
      BY <2>1, <2>3, <2>4, <2>6 DEF WritesRun
    <3> QED BY <2>1, <2>6, <3>1 DEF WritesAreCounted
  <2> QED BY <2>5, <2>6
<1>2. CASE UNCHANGED <<ran, policy, writes>>
  <2>1. WritesRun' = WritesRun
    BY <1>2 DEF WritesRun
  <2> QED BY <1>2, <2>1 DEF WritesAreCounted
<1> QED BY <1>1, <1>2
        DEF Next, Loop, Finished, ModelAnswers, ModelThrows, PolicyRefuses, AuthorizerRefuses,
            Refuse, ToolAnswers, TurnEnds, Conclude, CallerEdits, GrantExpires, vars

-----------------------------------------------------------------------------
(* The verdict.                                                            *)

Verdicts == CeilingIsHonest /\ VerifiedIsEarned /\ FailedIsSaid

LEMMA VerdictStep == Types /\ Flags /\ Verdicts /\ [Next]_vars => Verdicts'
<1> SUFFICES ASSUME Types, Flags, Verdicts, [Next]_vars PROVE Verdicts'
  OBVIOUS
<1> USE DEF Verdicts, CeilingIsHonest, Types
<1>1. ASSUME pc # "done", pc' # "done", outcome' = outcome,
             ceiling' \in {ceiling, WeakerOutcome(ceiling, "NOT_CHECKED")},
             flawed' => flawed \/ ceiling' = WeakerOutcome(ceiling, "NOT_CHECKED"),
             pc' = "evaluate" /\ claimed' = "none" =>
               ceiling' = WeakerOutcome(ceiling, "NOT_CHECKED")
      PROVE  Verdicts'
  <2>1. /\ WeakerOutcome(ceiling, "NOT_CHECKED") # "VERIFIED"
        /\ ceiling # "FAILED" => WeakerOutcome(ceiling, "NOT_CHECKED") # "FAILED"
    BY WeakerFacts DEF Outcomes
  <2>2. CeilingIsHonest'
    BY <1>1, <2>1
  <2>3. VerifiedIsEarned' /\ FailedIsSaid'
    BY <1>1 DEF VerifiedIsEarned, FailedIsSaid
  <2> QED BY <2>2, <2>3
<1>2. CASE ModelAnswers
  BY <1>1, <1>2 DEF ModelAnswers, verdict
<1>3. CASE ModelThrows
  BY <1>1, <1>3 DEF ModelThrows
<1>4. CASE Refused
  BY <1>1, <1>4 DEF Refused, Refuse, verdict
<1>5. CASE Allow
  BY <1>1, <1>5 DEF Allow, verdict
<1>6. CASE ToolAnswers
  BY <1>1, <1>6 DEF ToolAnswers, AfterAnswer, CeilingAfter, verdict
<1>7. CASE TurnEnds
  <2>1. /\ pc = "decide" /\ pc' \in {"turn", "evaluate"}
        /\ pc' = "evaluate" /\ claimed' = "none" =>
             ceiling' = WeakerOutcome(ceiling, "NOT_CHECKED")
        /\ ceiling' \in {ceiling, WeakerOutcome(ceiling, "NOT_CHECKED")}
        /\ outcome' = outcome /\ flawed' = flawed
    BY <1>7 DEF TurnEnds
  <2> QED BY <1>1, <2>1
<1>8. CASE Conclude
  <2>1. PICK j \in Judgements :
          /\ judgement' = j /\ ceiling' = WeakerOutcome(ceiling, EvaluationOutcome(j))
          /\ Heard(j)
          /\ outcome' = IF claimed = "none" THEN ceiling' ELSE WeakerOutcome(claimed, ceiling')
    BY <1>8 DEF Conclude
  <2>2. pc = "evaluate" /\ pc' = "done" /\ claimed' = claimed /\ flawed' = flawed
    BY <1>8 DEF Conclude
  <2>3. /\ ceiling # "FAILED"
        /\ flawed \/ claimed = "none" => ceiling # "VERIFIED"
    BY <2>2
  <2>4. /\ EvaluationOutcome(j) \in Outcomes
        /\ EvaluationOutcome(j) = "FAILED" => j.said = "FAILED"
        /\ EvaluationOutcome(j) = "VERIFIED" /\ (j.required \/ j.evaluator # "none") =>
             j.evaluator = "independent" /\ j.criteria /\ j.said = "VERIFIED"
    <3>1. j.said \in Outcomes \cup {"none", "threw"}
      BY DEF Judgements
    <3>2. j.evaluator # "none" /\ j.criteria => j.said # "none"
      BY <2>1 DEF Heard
    <3>3. \A o \in Outcomes : /\ WeakerOutcome(o, "NOT_CHECKED") \in Outcomes \ {"VERIFIED"}
                              /\ WeakerOutcome(o, "NOT_CHECKED") = "FAILED" => o = "FAILED"
      BY WeakerFacts DEF Outcomes
    <3>4. "NOT_CHECKED" \in Outcomes /\ "VERIFIED" \in Outcomes
      BY DEF Outcomes
    <3> QED BY <3>1, <3>2, <3>3, <3>4 DEF EvaluationOutcome, Independent
  <2>5. /\ ceiling' \in Outcomes
        /\ ceiling' = "VERIFIED" => ceiling = "VERIFIED" /\ EvaluationOutcome(j) = "VERIFIED"
        /\ ceiling' = "FAILED" => EvaluationOutcome(j) = "FAILED"
    BY <2>1, <2>3, <2>4, WeakerFacts
  <2>6. /\ outcome' = "VERIFIED" => ceiling' = "VERIFIED" /\ claimed \in {"none", "VERIFIED"}
        /\ outcome' = "FAILED" => ceiling' = "FAILED" \/ claimed = "FAILED"
    BY <2>1, <2>5, WeakerFacts
  <2>7. FailedIsSaid'
    BY <2>1, <2>2, <2>4, <2>5, <2>6 DEF FailedIsSaid
  <2>8. CeilingIsHonest'
    BY <2>2
  <2>9. VerifiedIsEarned'
    BY <2>1, <2>2, <2>3, <2>4, <2>5, <2>6 DEF VerifiedIsEarned
  <2> QED BY <2>7, <2>8, <2>9
<1>9. CASE CallerEdits \/ GrantExpires \/ UNCHANGED vars
  <2>1. UNCHANGED <<pc, ceiling, flawed, outcome, claimed, judgement>>
    BY <1>9 DEF CallerEdits, GrantExpires, vars, verdict
  <2> QED BY <2>1 DEF VerifiedIsEarned, FailedIsSaid
<1> QED BY <1>2, <1>3, <1>4, <1>5, <1>6, <1>7, <1>8, <1>9, RefusalsAreRefused
        DEF Next, Loop, Finished

-----------------------------------------------------------------------------
IInv ==
  /\ Types
  /\ Flags
  /\ CountsInv
  /\ OnlySanctionedCallsRun
  /\ CapIsExact
  /\ Verdicts

LEMMA InitEstablishes == Init => IInv /\ WritesAreCounted
<1> SUFFICES ASSUME Init PROVE IInv /\ WritesAreCounted
  OBVIOUS
<1> USE LoopAssumption DEF Init
<1>1. Types
  BY DEF Types, PCs, StopReasons, Results, Outcomes, Judgements, Unjudged
<1>2. Flags
  BY DEF Flags
<1>3. CountsInv
  BY DEF CountsInv, Counts, CountsAgree
<1>4. OnlySanctionedCallsRun /\ CapIsExact
  BY DEF OnlySanctionedCallsRun, CapIsExact
<1>5. Verdicts
  BY DEF Verdicts, CeilingIsHonest, VerifiedIsEarned, FailedIsSaid
<1>6. WritesAreCounted
  <2>1. WritesRun = {}
    BY DEF WritesRun
  <2>2. policy.maxWrites \in Nat
    BY DEF Policy
  <2> QED BY <2>1, <2>2, FS_EmptySet DEF WritesAreCounted
<1> QED BY <1>1, <1>2, <1>3, <1>4, <1>5, <1>6 DEF IInv

(* The strengthened invariant holds in every reachable state.              *)
THEOREM Invariance == Spec => []IInv
<1>1. Init => IInv
  BY InitEstablishes
<1>2. IInv /\ [Next]_vars => IInv'
  BY TypesStep, FlagsStep, CountsStep, SanctionStep, CapStep, VerdictStep DEF IInv
<1> QED BY <1>1, <1>2, PTL DEF Spec

(* The loop's state keeps its types, and no run proposes or begins more    *)
(* than its budgets.                                                       *)
THEOREM TypeCorrect == Spec => []TypeOK
<1>1. ASSUME IInv PROVE TypeOK
  <2>1. totalCalls <= turn * CallsPerTurn
    <3>1. Len(todo) \in Nat
      BY <1>1 DEF IInv, Types
    <3>2. totalCalls + Len(todo) <= turn * CallsPerTurn
      BY <1>1 DEF IInv, CountsInv, CountsAgree
    <3>3. totalCalls \in Nat /\ turn \in Nat /\ CallsPerTurn \in Nat
      BY <1>1, LoopAssumption DEF IInv, CountsInv, Counts
    <3> QED BY <3>1, <3>2, <3>3
  <2>2. turn * CallsPerTurn <= MaxIterations * CallsPerTurn
    BY <1>1, LoopAssumption DEF IInv, CountsInv, Counts
  <2>3. totalCalls \in 0..(MaxIterations * CallsPerTurn)
    BY <1>1, <2>1, <2>2, LoopAssumption DEF IInv, CountsInv, Counts
  <2>4. grantLive \in BOOLEAN /\ progressed \in BOOLEAN
        /\ capped \in BOOLEAN /\ flawed \in BOOLEAN /\ repeated \in BOOLEAN
    BY <1>1 DEF IInv, Flags
  <2> QED BY <1>1, <2>3, <2>4
          DEF IInv, Types, CountsInv, Counts, TypeOK, PCs, StopReasons, Results
<1> QED BY <1>1, Invariance, PTL

(* Whatever the caller does to the object it handed over, no tool runs     *)
(* that was not listed in it, or was listed as irreversible.               *)
THEOREM Sanctioned == Spec => []OnlySanctionedCallsRun
<1>1. IInv => OnlySanctionedCallsRun
  BY DEF IInv
<1> QED BY <1>1, Invariance, PTL

(* A maxCalls caveat refuses only a call beyond its limit, and no more     *)
(* calls than that ever run.                                               *)
THEOREM CapExact == Spec => []CapIsExact
<1>1. IInv => CapIsExact
  BY DEF IInv
<1> QED BY <1>1, Invariance, PTL

(* VERIFIED takes the agent's claim, a run without a flaw, and an          *)
(* independent judge where one was asked for.                              *)
THEOREM Earned == Spec => []VerifiedIsEarned
<1>1. IInv => VerifiedIsEarned
  BY DEF IInv, Verdicts
<1> QED BY <1>1, Invariance, PTL

(* FAILED is said by the agent or by a judge, never concluded.             *)
THEOREM Said == Spec => []FailedIsSaid
<1>1. IInv => FailedIsSaid
  BY DEF IInv, Verdicts
<1> QED BY <1>1, Invariance, PTL

(* The write budget holds as long as callers leave the effects of tools    *)
(* alone: this is what the shallow copy of the policy costs.               *)
THEOREM BudgetHolds == ASSUME EffectsShared PROVE Spec => []WriteBudgetHolds
<1>1. Init => WritesAreCounted
  BY InitEstablishes
<1>2. IInv /\ WritesAreCounted /\ [Next]_vars => WritesAreCounted'
  BY EffectsShared, WritesStep DEF IInv, CountsInv
<1>3. WritesAreCounted => WriteBudgetHolds
  BY DEF WritesAreCounted, WriteBudgetHolds
<1> QED BY <1>1, <1>2, <1>3, Invariance, PTL DEF Spec

=============================================================================
