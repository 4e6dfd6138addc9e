---------------------------- MODULE MCPullQueue ----------------------------
(***************************************************************************)
(* Small instances of PullQueue: two task slots that are reused, two       *)
(* workers that may take either.                                           *)
(***************************************************************************)
EXTENDS PullQueue

CONSTANTS low, high, w1, w2

MCEntries == {low, high}
MCWorkers == {w1, w2}
MCEligible == [w \in MCWorkers |-> MCEntries]

(* high outranks low; or the two are equal and only their age tells.       *)
Ranked == [e \in MCEntries |-> IF e = high THEN 2 ELSE 1]
Equal == [e \in MCEntries |-> 1]

=============================================================================
