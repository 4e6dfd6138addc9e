------------------------------ MODULE Dispatch ------------------------------
(***************************************************************************)
(* The dispatcher that drives the timeout policy and the capacity governor *)
(* together: phantomRun of src/scripts/harness-experiment.mjs, its arm     *)
(* that strands.  One turn of its loop advances the clock, lands the       *)
(* aborts that are due, retires the calls that returned, sweeps the hung   *)
(* ones and handles each, then admits new calls.                           *)
(*                                                                         *)
(* The loop is one thread, so phase only orders its steps.  Its router     *)
(* (which picks an expert with room) and its breaker (which only narrows   *)
(* the choice) are left to \E.  A call may return at any turn or never;    *)
(* one that was given up on goes on working at the expert until its abort  *)
(* lands, which the loop takes for the confirmation of its death.          *)
(***************************************************************************)
EXTENDS Integers, FiniteSets

CONSTANTS
  Attempts, RunTimeout, IdleTimeout,                         \* TimeoutPolicy
  Experts, BaseSlots, MinSlots, MaxSlots, Warmup, Latencies, \* CapacityGovernor
  Workers,       \* how many calls the dispatcher waits for at a time
  AbortGrace     \* ABORT_GRACE_MS, in turns of the loop

VARIABLES
  inFlight, age, idle, progressAge, abandoned, settled,
  begun, finished, reported, firstBreach,                  \* TimeoutPolicy
  claimed, stranded, errors, samples, ewma, baseline,      \* CapacityGovernor
  phase,       \* the step the loop is at
  live,        \* the calls the dispatcher waits for: attempt -> expert
  swept,       \* expiries of this turn still to be handled
  aborts,      \* aborts under way: attempt -> turns left
  placed,      \* the expert each attempt went to (history)
  working      \* attempts the experts are really working on (history)

Timeouts == INSTANCE TimeoutPolicy
Capacity == INSTANCE CapacityGovernor

DispatchAssumption ==
  /\ RunTimeout \in Nat \ {0}
  /\ IdleTimeout \in 1..RunTimeout
  /\ Capacity!CapacityConfig
  /\ Workers \in Nat
  /\ AbortGrace \in Nat \ {0}

timeoutVars == <<inFlight, age, idle, progressAge, abandoned, settled,
                 begun, finished, reported, firstBreach>>
capacityVars == <<claimed, stranded, errors, samples, ewma, baseline>>
ratings == <<errors, samples, ewma, baseline>>
loopVars == <<phase, live, swept, aborts, placed, working>>
vars == <<timeoutVars, capacityVars, loopVars>>

Phases == {"land", "retire", "sweep", "admit"}

Empty == [a \in {} |-> 0]

Without(f, a) == [b \in DOMAIN f \ {a} |-> f[b]]

With(f, a, v) == [b \in DOMAIN f \cup {a} |-> IF b = a THEN v ELSE f[b]]

Init ==
  /\ Timeouts!Init
  /\ Capacity!Init
  /\ phase = "admit"
  /\ live = Empty
  /\ swept = {}
  /\ aborts = Empty
  /\ placed = Empty
  /\ working = {}

-----------------------------------------------------------------------------
(* One turn of the loop.                                                   *)

(* clock.advance(POLL_MS) *)
Turn ==
  /\ phase = "admit"
  /\ phase' = "land"
  /\ Timeouts!Tick
  /\ aborts' = [a \in DOMAIN aborts |-> IF aborts[a] > 0 THEN aborts[a] - 1 ELSE 0]
  /\ UNCHANGED <<capacityVars, live, swept, placed, working>>

Due == {a \in DOMAIN aborts : aborts[a] = 0}

LandAbort(a) ==
  /\ phase = "land"
  /\ a \in Due
  /\ Capacity!Reclaim(placed[a])
  /\ Timeouts!Settle(a, "confirmed_dead")
  /\ aborts' = Without(aborts, a)
  /\ working' = working \ {a}
  /\ UNCHANGED <<phase, live, swept, placed>>

StartRetiring ==
  /\ phase = "land"
  /\ Due = {}
  /\ phase' = "retire"
  /\ UNCHANGED <<timeoutVars, capacityVars, live, swept, aborts, placed, working>>

Retire(a) ==
  /\ phase = "retire"
  /\ a \in DOMAIN live
  /\ Timeouts!Complete(a)
  /\ Capacity!Release(live[a])
  /\ live' = Without(live, a)
  /\ working' = working \ {a}
  /\ UNCHANGED <<phase, swept, aborts, placed>>

SweepHung ==
  /\ phase = "retire"
  /\ phase' = "sweep"
  /\ Timeouts!Sweep
  /\ swept' = Timeouts!Expired
  /\ UNCHANGED <<capacityVars, live, aborts, placed, working>>

Grace == AbortGrace

(* The body of the loop over sweep().                                      *)
Handle(a) ==
  /\ phase = "sweep"
  /\ a \in swept
  /\ Capacity!Observe(placed[a], FALSE)
  /\ Capacity!Strand(placed[a])
  /\ live' = Without(live, a)
  /\ aborts' = With(aborts, a, Grace)
  /\ swept' = swept \ {a}
  /\ UNCHANGED <<timeoutVars, phase, placed, working>>

StartAdmitting ==
  /\ phase = "sweep"
  /\ swept = {}
  /\ phase' = "admit"
  /\ UNCHANGED <<timeoutVars, capacityVars, live, swept, aborts, placed, working>>

(* route picks an expert with room, acquire claims a slot, begin follows.  *)
Admit(a, e) ==
  /\ phase = "admit"
  /\ Cardinality(DOMAIN live) < Workers
  /\ Capacity!Acquire(e)
  /\ Timeouts!Begin(a)
  /\ live' = With(live, a, e)
  /\ placed' = With(placed, a, e)
  /\ working' = working \cup {a}
  /\ UNCHANGED <<phase, swept, aborts>>

-----------------------------------------------------------------------------
(* The governor's other callers: an observation of a call that is not one  *)
(* of the loop's, or an operator who re-baselines an expert.               *)

Observed(e) ==
  /\ phase = "admit"
  /\ \E ok \in BOOLEAN : Capacity!Observe(e, ok)
  /\ UNCHANGED <<timeoutVars, claimed, stranded, loopVars>>

Rebaselined(e) ==
  /\ phase = "admit"
  /\ Capacity!Rebaseline(e)
  /\ UNCHANGED <<timeoutVars, loopVars>>

Loop ==
  \/ Turn
  \/ \E a \in Attempts : LandAbort(a) \/ Handle(a)
  \/ StartRetiring
  \/ SweepHung
  \/ StartAdmitting

Next ==
  \/ Loop
  \/ \E a \in Attempts : Retire(a) \/ \E e \in Experts : Admit(a, e)
  \/ \E e \in Experts : Observed(e) \/ Rebaselined(e)

Spec == Init /\ [][Next]_vars

(* The loop keeps turning.  No call is obliged to return.                  *)
FairSpec == Spec /\ WF_vars(Loop)

-----------------------------------------------------------------------------
(* Types of the loop's own state and of the governor's. *)
TypeOK ==
  /\ claimed \in [Experts -> Nat]
  /\ stranded \in [Experts -> Nat]
  /\ errors \in [Experts -> Nat]
  /\ samples \in [Experts -> 0..Warmup]
  /\ ewma \in [Experts -> Nat \cup {Capacity!Unknown}]
  /\ baseline \in [Experts -> Nat \cup {Capacity!Unknown}]
  /\ phase \in Phases
  /\ live \in [DOMAIN live -> Experts] /\ DOMAIN live \subseteq Attempts
  /\ swept \subseteq Attempts
  /\ aborts \in [DOMAIN aborts -> 0..AbortGrace] /\ DOMAIN aborts \subseteq Attempts
  /\ placed \in [DOMAIN placed -> Experts] /\ DOMAIN placed \subseteq Attempts
  /\ working \subseteq Attempts

At(e, A) == {a \in A : placed[a] = e}

(* The two ledgers never drift apart: for every expert the governor counts *)
(* as claimed the attempts the policy has in flight (and those it has just *)
(* reported), and as stranded the ones the policy cannot account for.      *)
LedgersAgree ==
  \A e \in Experts :
    /\ claimed[e] = Cardinality(At(e, inFlight \cup swept))
    /\ stranded[e] = Cardinality(At(e, DOMAIN abandoned \ swept))

(* No phantom slot: what is claimed against an expert covers every call it *)
(* is really working on, those that were given up on included              *)
(* (capacity.ts 21-43).                                                    *)
NoPhantomSlot ==
  \A e \in Experts : Cardinality(At(e, working)) <= claimed[e] + stranded[e]

(* An expert is never handed a call when the ones it is really working on  *)
(* already fill its slots.                                                 *)
NeverOverloaded ==
  [][\A e \in Experts :
       claimed'[e] > claimed[e] =>
         Cardinality(At(e, working)) < Capacity!SlotsOf(e)]_vars

(* A slot lost to a hung call is not lost for good.                        *)
StrandedSlotsComeBack ==
  \A e \in Experts : stranded[e] > 0 ~> stranded[e] = 0

=============================================================================
