----------------------------- MODULE MCHarness -----------------------------
(***************************************************************************)
(* Small instances of the harness.  Its components share no state, so that *)
(* what one of them reaches it reaches by its own steps: part names the    *)
(* one that moves in a behavior, and the others stay where they began.     *)
(*                                                                         *)
(* Three callers are enough for a probe, a second caller it should keep    *)
(* out, and a call left over from before the breaker opened.               *)
(***************************************************************************)
EXTENDS Harness

CONSTANTS c1, c2, c3, a1, a2, plain, floored

MCCallers == {c1, c2, c3}
OneRouted == {c3}
MCAttempts == {a1, a2}
MCCriteria == {plain, floored}
MCFloor == [c \in MCCriteria |-> IF c = floored THEN 1 ELSE NoFloor]

(* A small fast limit and a large slow one.                                *)
Small == [capacity |-> 2, rate |-> 2]
Large == [capacity |-> 4, rate |-> 1]
MCConfigs == {Small, Large}

(* One validator of five that weighs a third.                              *)
MCWeight == [v \in 1..5 |-> IF v = 5 THEN 2 ELSE 1]

(* One expert the others cannot outrank without the draw.                  *)
MCMerit == [a |-> 2, b |-> 0, c |-> 0]
MCOrder == [a |-> 3, b |-> 2, c |-> 1]

(* A panel the agent may tune, a limit that is earned, and its ceiling.    *)
MCSpecs ==
  [panel |-> [authority |-> "agent_tunable", default |-> 2, min |-> 1, max |-> 3,
              safe |-> "higher"],
   limit |-> [authority |-> "earned", default |-> 0, min |-> 0, max |-> 2, safe |-> "lower"],
   ceiling |-> [authority |-> "org", default |-> 0, min |-> 0, max |-> 2, safe |-> "lower"]]
NotANumber == -1
MCEntries == [key : {"panel"}, value : {NotANumber, 1, 4}]
               \cup [key : {"ceiling"}, value : {0, 1}] \cup [key : {"limit"}, value : {2}]
MCGrants == {[key |-> "limit", value |-> 3, backed |-> TRUE, expires |-> 1],
             [key |-> "limit", value |-> 1, backed |-> TRUE, expires |-> 2],
             [key |-> "limit", value |-> 3, backed |-> FALSE, expires |-> 2]}

VARIABLE part

MCInit == part \in Parts /\ Init

MCNext == Step(part) /\ UNCHANGED part

(* The fairness of the breaker and of the dispatcher, while they are the   *)
(* part that moves.  Nothing fair is enabled where the timeouts and the    *)
(* router begin, so that theirs asks nothing of them while they stay there. *)
BreakerFairness ==
  /\ WF_breakerVars(part = "breaker" /\ Breaker!Tick)
  /\ \A c \in Callers :
       /\ WF_breakerVars(part = "breaker" /\ (Breaker!Admit(c) \/ Breaker!Dispatch(c)))
       /\ WF_breakerVars(part = "breaker" /\ Breaker!Settle(c))

MCSpec ==
  /\ MCInit /\ [][MCNext]_<<part, vars>>
  /\ BreakerFairness /\ WF_dispatchVars(part = "dispatch" /\ Dispatching!Loop)
  /\ Timeouts!Fairness /\ Routing!Fairness
=============================================================================
