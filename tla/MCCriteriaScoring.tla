------------------------- MODULE MCCriteriaScoring -------------------------
(* Small instances of CriteriaScoring.                                     *)
EXTENDS CriteriaScoring

CONSTANTS plain, floored, none

MCCriteria == {plain, floored}
MCFloor == [c \in MCCriteria |-> IF c = floored THEN 1 ELSE none]

=============================================================================
