---------------------------- MODULE MCAgentLoop ----------------------------
(* Small instances of AgentLoop: the policies a caller hands over.         *)
EXTENDS AgentLoop

CONSTANTS look, edit

MCTools == {look, edit}
MCEffects == [t \in MCTools |-> IF t = look THEN "read" ELSE "unknown"]
Harmless == [t \in MCTools |-> "read"]

Pol(allowed, irreversible, maxWrites, effects) ==
  [allowed |-> allowed, irreversible |-> irreversible,
   maxWrites |-> maxWrites, effects |-> effects]

(* The caller may widen or narrow the lists and the budget while it runs.  *)
EditedLists ==
  {Pol(MCTools, {}, 1, MCEffects), Pol(MCTools, {edit}, 2, MCEffects), Pol({look}, {}, 1, MCEffects)}

OnePolicy == {Pol(MCTools, {}, 1, MCEffects)}

(* It may also change what a tool is said to do.                           *)
EditedEffects == {Pol(MCTools, {}, 1, MCEffects), Pol(MCTools, {}, 1, Harmless)}

=============================================================================
