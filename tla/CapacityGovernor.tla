-------------------------- MODULE CapacityGovernor --------------------------
(***************************************************************************)
(* src/lib/trustshell/harness/capacity.ts: how many calls each expert may  *)
(* have at a time, from its latency and errors, and how many it has.       *)
(*                                                                         *)
(* The smoothed latency is a convex combination of the last one and the    *)
(* sample (alpha is in (0, 1]); the model lets it be any whole number      *)
(* between them.  Errors stop at ErrorLimit, where slots and health no     *)
(* longer change, and samples at Warmup.                                   *)
(***************************************************************************)
EXTENDS Integers

CONSTANTS
  Experts,
  BaseSlots, MinSlots, MaxSlots,   \* cfg.baseSlots, cfg.minSlots, cfg.maxSlots
  Warmup,                          \* cfg.warmupSamples
  Latencies                        \* the latencies a call may show

CapacityConfig ==
  /\ MinSlots \in Nat \ {0}
  /\ BaseSlots \in Nat
  /\ MaxSlots \in Nat
  /\ MinSlots <= BaseSlots
  /\ BaseSlots <= MaxSlots
  /\ Warmup \in Nat
  /\ Latencies \subseteq Nat

VARIABLES
  claimed,     \* s.inFlight
  stranded,    \* s.stranded
  errors,      \* s.consecutiveErrors
  samples,     \* s.samples
  ewma,        \* s.ewmaLatencyMs
  baseline     \* s.baselineLatencyMs

rating == <<errors, samples, ewma, baseline>>
vars == <<claimed, stranded, rating>>

Unknown == -1

ErrorLimit == IF BaseSlots > 3 THEN BaseSlots ELSE 3

Least(m, n) == IF m < n THEN m ELSE n
Most(m, n) == IF m > n THEN m ELSE n

Init ==
  /\ claimed = [e \in Experts |-> 0]
  /\ stranded = [e \in Experts |-> 0]
  /\ errors = [e \in Experts |-> 0]
  /\ samples = [e \in Experts |-> 0]
  /\ ewma = [e \in Experts |-> Unknown]
  /\ baseline = [e \in Experts |-> Unknown]

-----------------------------------------------------------------------------
(* What an expert is judged capable of, and what is claimed against it.    *)

Committed(e) == claimed[e] + stranded[e]

(* Math.floor(slots) || minSlots, held between the limits.                 *)
Clamp(n) == Most(MinSlots, Least(MaxSlots, IF n = 0 THEN MinSlots ELSE n))

(* baseSlots / max(1, ratio) / (1 + errors).                               *)
SlotsOf(e) ==
  IF baseline[e] = Unknown \/ ewma[e] = Unknown THEN BaseSlots
  ELSE LET usual == Most(1, baseline[e])
           slow == Most(usual, ewma[e])
       IN Clamp((BaseSlots * usual) \div (slow * (1 + errors[e])))

\* fault: stranded slots do not count
HasRoomInFlight(e) == claimed[e] < SlotsOf(e)

HasRoom(e) == Committed(e) < SlotsOf(e)

-----------------------------------------------------------------------------
(* The methods.                                                            *)

Acquire(e) ==
  /\ HasRoom(e)
  /\ claimed' = [claimed EXCEPT ![e] = @ + 1]
  /\ UNCHANGED <<stranded, rating>>

Release(e) ==
  /\ claimed' = [claimed EXCEPT ![e] = Most(0, @ - 1)]
  /\ UNCHANGED <<stranded, rating>>

\* fault: giving up on a call frees its slot
Forget(e) ==
  /\ claimed' = [claimed EXCEPT ![e] = Most(0, @ - 1)]
  /\ UNCHANGED stranded

(* strand: the slot changes hands, if there is one.                        *)
Strand(e) ==
  LET moved == Least(1, claimed[e]) IN
  /\ claimed' = [claimed EXCEPT ![e] = @ - moved]
  /\ stranded' = [stranded EXCEPT ![e] = @ + moved]

\* fault: a slot confirmed free is not given back
StrandedKept(e) == stranded[e]

StrandedAfterReclaim(e) == Most(0, stranded[e] - 1)

Reclaim(e) ==
  /\ stranded' = [stranded EXCEPT ![e] = StrandedAfterReclaim(e)]
  /\ UNCHANGED <<claimed, rating>>

Smoothed(e, latency) ==
  IF ewma[e] = Unknown THEN {latency}
  ELSE Least(ewma[e], latency)..Most(ewma[e], latency)

Observe(e, ok) ==
  /\ errors' = [errors EXCEPT ![e] = IF ok THEN 0 ELSE Least(ErrorLimit, @ + 1)]
  /\ samples' = [samples EXCEPT ![e] = Least(Warmup, @ + 1)]
  /\ \E latency \in Latencies : \E s \in Smoothed(e, latency) :
       /\ ewma' = [ewma EXCEPT ![e] = s]
       /\ baseline' = [baseline EXCEPT ![e] =
            IF @ = Unknown /\ samples'[e] >= Warmup THEN s ELSE @]

Rebaseline(e) ==
  /\ baseline' = [baseline EXCEPT ![e] = ewma[e]]
  /\ UNCHANGED <<claimed, stranded, errors, samples, ewma>>

=============================================================================
