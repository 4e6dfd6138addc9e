---------------------------- MODULE AtLeastOnce ----------------------------
(***************************************************************************)
(* What a task queue with visibility timeouts promises, with no leases,    *)
(* workers or clock in it: every accepted entry is waiting, being worked   *)
(* on, or dead-lettered until the one step that finishes it; it is         *)
(* delivered at most MaxAttempts times, and dead-lettered only when it has *)
(* been delivered exactly that often.  PullQueue implements this module.   *)
(***************************************************************************)
EXTENDS Integers

CONSTANTS
  Entries,      \* the slots a submitted task may occupy
  MaxAttempts   \* deliveries before an entry is dead-lettered

VARIABLES
  life,         \* where each entry is in its life
  tries         \* how often it has been delivered in this life (0 when absent)

vars == <<life, tries>>

Stages == {"absent", "waiting", "working", "dead"}

Init ==
  /\ life = [e \in Entries |-> "absent"]
  /\ tries \in [Entries -> {0}]

(***************************************************************************)
(* The moves of one entry.  An entry whose delivery lapses may be handed   *)
(* out again at once, so "working" may follow "working".                   *)
(***************************************************************************)
Accept(e) ==
  life[e] = "absent" /\ life'[e] = "waiting" /\ tries'[e] = 0

Deliver(e) ==
  /\ life[e] \in {"waiting", "working"} /\ life'[e] = "working"
  /\ tries[e] < MaxAttempts /\ tries'[e] = tries[e] + 1

Finish(e) ==
  life[e] = "working" /\ life'[e] = "absent" /\ tries'[e] = 0

GiveBack(e) ==
  /\ life[e] = "working" /\ life'[e] = "waiting"
  /\ tries[e] < MaxAttempts /\ tries'[e] = tries[e]

Bury(e) ==
  /\ life[e] = "working" /\ life'[e] = "dead"
  /\ tries[e] = MaxAttempts /\ tries'[e] = tries[e]

Rest(e) ==
  life'[e] = life[e] /\ tries'[e] = tries[e]

(***************************************************************************)
(* Lapsed deliveries come back in any number at once; a step accepts,      *)
(* delivers or finishes at most one entry, and never two of these.         *)
(***************************************************************************)
Next ==
  /\ DOMAIN life' = Entries
  /\ DOMAIN tries' = Entries
  /\ \A e \in Entries :
       Accept(e) \/ Deliver(e) \/ Finish(e) \/ GiveBack(e) \/ Bury(e) \/ Rest(e)
  /\ \A e, f \in Entries :
       /\ Accept(e) \/ Deliver(e) \/ Finish(e)
       /\ Accept(f) \/ Deliver(f) \/ Finish(f)
       => e = f

Spec == Init /\ [][Next]_vars

=============================================================================
