---------------------------- MODULE PolicyKernel ----------------------------
(***************************************************************************)
(* The disposition of one proposed action (kernel/policy.ts): kernel laws, *)
(* then the constitution's rules, then the grant, then verification.  A    *)
(* proposal is malformed, or says what it is: its capability and whether   *)
(* its risk is high; what a rule's condition looks at is in the rule's set *)
(* of shapes.                                                              *)
(***************************************************************************)
CONSTANTS
  Shapes,       \* what an envelope declares: records with capability and high
  LawForbids,   \* capabilities that some kernel law names
  Rules         \* hard rules: records with id, effect and the shapes they match

KernelAssumption ==
  /\ Shapes # {} /\ \A s \in Shapes : s.high \in BOOLEAN
  /\ \A r \in Rules : r.effect \in {"deny", "require_approval"} /\ r.when \subseteq Shapes

Decisions == {"ALLOW", "DENY", "ASK", "VERIFY"}
Confidences == {"none", "low", "enough"}  \* against the verify threshold

Denied(s) == \E r \in Rules : r.effect = "deny" /\ s \in r.when

Unmet(s, approvals) ==
  {r \in Rules : r.effect = "require_approval" /\ s \in r.when /\ r.id \notin approvals}

\* fault: a capability held is looked at before the constitution
DisposeGrantsFirst(s, granted, approvals, confidence) ==
  CASE s.capability \in LawForbids -> "DENY"
    [] s.capability \in granted /\ ~s.high -> "ALLOW"
    [] Denied(s) \/ s.capability \notin granted -> "DENY"
    [] Unmet(s, approvals) # {} -> "ASK"
    [] confidence # "enough" -> "VERIFY"
    [] OTHER -> "ALLOW"

Dispose(s, granted, approvals, confidence) ==
  IF s.capability \in LawForbids \/ Denied(s) THEN "DENY"
  ELSE IF Unmet(s, approvals) # {} THEN "ASK"
  ELSE IF s.capability \notin granted THEN "DENY"
  ELSE IF s.high /\ confidence # "enough" THEN "VERIFY"
  ELSE "ALLOW"
=============================================================================
