-------------------------- MODULE ReputationChain --------------------------
(***************************************************************************)
(* produceTransitions of                                                   *)
(* src/lib/trustshell/identity/reputation-event-producer.ts: judged        *)
(* outcomes appended to hash-linked histories, one per subject, whose      *)
(* heads a store holds.  Several calls run at a time, and each awaits      *)
(* between reading a head and advancing it.                                *)
(*                                                                         *)
(* A root is the list of events hashed into it: hashPair(prevRoot, event)  *)
(* is injective.  Of the checks that verifyTransitionByRecomputation makes *)
(* on a statement, the producer derives both sides itself in all but one:  *)
(* the path of the writer and the root of its group are the caller's, and  *)
(* the one need not lead to the other.  The store is the one of the        *)
(* module, InMemoryHeadRootStore.                                          *)
(***************************************************************************)
EXTENDS Naturals, Sequences, SequencesExt

CONSTANTS
  Calls,
  Subjects,
  Events,      \* what a call may be given: lists of subjects
  Writers,     \* the writers that a call may name: secret, membership, groupRoot
  Doer         \* doerDid

ChainAssumption ==
  /\ Events \subseteq Seq(Subjects)
  /\ Doer \in Subjects

VARIABLES
  head,        \* InMemoryHeadRootStore.heads
  events,      \* input.events
  writer,      \* input.writer
  next,        \* the index of the event at hand, 0 before the call
  prevRoot,    \* the head that was read for it
  out,         \* the transitions produced
  outcome      \* of the call

vars == <<head, events, writer, next, prevRoot, out, outcome>>

Genesis == <<>>

NoWriter == [secret |-> "", membership |-> <<>>, groupRoot |-> <<>>]

Init ==
  /\ head = [s \in Subjects |-> Genesis]
  /\ events = [c \in Calls |-> <<>>]
  /\ writer = [c \in Calls |-> NoWriter]
  /\ next = [c \in Calls |-> 0]
  /\ prevRoot = [c \in Calls |-> Genesis]
  /\ out = [c \in Calls |-> {}]
  /\ outcome = [c \in Calls |-> "pending"]

-----------------------------------------------------------------------------
\* fault: only the first event is asked about
SelfReportFirst(list) == list # <<>> /\ Head(list) = Doer

SelfReport(list) == Doer \in ToSet(list)

Subject(c) == events[c][next[c]]

(* The path is walked from the commitment of the writer's secret.          *)
Commitment(secret) == <<secret>>

HashPair(left, right) == <<left, right>>

Parent(node, step) ==
  IF step.left THEN HashPair(step.hash, node) ELSE HashPair(node, step.hash)

Member(w) == FoldLeft(Parent, Commitment(w.secret), w.membership) = w.groupRoot

(* Every event is looked at before any is appended.                        *)
Call(c) ==
  /\ next[c] = 0
  /\ \E list \in Events, w \in Writers :
       /\ writer' = [writer EXCEPT ![c] = w]
       /\ events' = [events EXCEPT ![c] = list]
       /\ outcome' = [outcome EXCEPT ![c] =
            IF SelfReport(list) THEN "refused" ELSE IF list = <<>> THEN "done" ELSE "head"]
  /\ next' = [next EXCEPT ![c] = 1]
  /\ UNCHANGED <<head, prevRoot, out>>

\* fault: the heads are read once, before the loop
HeadOnce(c) == IF next[c] > 1 /\ Subject(c) = events[c][1] THEN prevRoot[c] ELSE head[Subject(c)]

HeadFor(c) == head[Subject(c)]

ReadHead(c) ==
  /\ outcome[c] = "head"
  /\ prevRoot' = [prevRoot EXCEPT ![c] = HeadFor(c)]
  /\ outcome' = [outcome EXCEPT ![c] = "advance"]
  /\ UNCHANGED <<head, events, writer, next, out>>

NewRoot(c) == Append(prevRoot[c], <<c, next[c]>>)

\* fault: the head is advanced whatever the recomputation says
HeadAfterAnyway(c) == NewRoot(c)

HeadAfter(c) == IF Member(writer[c]) THEN NewRoot(c) ELSE head[Subject(c)]

(* The store sets the head to newRoot, whatever it is by then; what does   *)
(* not recompute leaves the head alone.  Either way the transition is      *)
(* returned with its verification, and the call goes on.                   *)
Advance(c) ==
  /\ outcome[c] = "advance"
  /\ head' = [head EXCEPT ![Subject(c)] = HeadAfter(c)]
  /\ out' = [out EXCEPT ![c] = @ \cup
       {[subject |-> Subject(c), new |-> NewRoot(c), valid |-> Member(writer[c])]}]
  /\ outcome' = [outcome EXCEPT ![c] = IF next[c] = Len(events[c]) THEN "done" ELSE "head"]
  /\ next' = [next EXCEPT ![c] = IF @ = Len(events[c]) THEN @ ELSE @ + 1]
  /\ UNCHANGED <<events, writer, prevRoot>>

(* The scheme or the store rejects at an await: the call throws and what   *)
(* it produced is not returned.                                            *)
AwaitRejects(c) ==
  /\ outcome[c] \in {"head", "advance"}
  /\ outcome' = [outcome EXCEPT ![c] = "threw"]
  /\ UNCHANGED <<head, events, writer, next, prevRoot, out>>

Next == \E c \in Calls : Call(c) \/ ReadHead(c) \/ Advance(c) \/ AwaitRejects(c)

Spec == Init /\ [][Next]_vars

-----------------------------------------------------------------------------
TypeOK ==
  /\ DOMAIN head = Subjects
  /\ events \in [Calls -> Events \cup {<<>>}]
  /\ writer \in [Calls -> Writers \cup {NoWriter}]
  /\ \A c \in Calls : next[c] \in 0..(Len(events[c]) + 1)
  /\ outcome \in [Calls -> {"pending", "head", "advance", "done", "refused", "threw"}]

(* The store's history of s goes on from the one it had, or a call that    *)
(* advances it lost a race to another.                                     *)
GoesOn(s) ==
  \/ Front(head'[s]) = head[s]
  \/ \E c, d \in Calls : /\ c # d /\ outcome[c] = "advance" /\ Subject(c) = s
                         /\ \E t \in out[d] : t.valid /\ t.subject = s /\ t.new = head[s]

(* A head moves by one transition of a call whose writer is a member of    *)
(* the group it names, and a history is only rewritten by a call that lost *)
(* a race: between reading a head and advancing it, another call advanced  *)
(* it (the header of the producer, 29-33, leaves the compare-and-set to a  *)
(* durable store).                                                         *)
HistoryIsAppendedUnlessRaced ==
  [][\A s \in Subjects : head'[s] # head[s] =>
       /\ GoesOn(s)
       /\ \E c \in Calls : Member(writer[c]) /\ Last(head'[s]) = <<c, next[c]>>]_vars

(* A call that is refused for one of its events appends none of them.      *)
RefusedAppendsNothing ==
  \A c \in Calls : Doer \in ToSet(events[c]) => out[c] = {}

(* A history of s is made of events about s, none from a call that was     *)
(* given one about the doer, and none from a writer whose path leads       *)
(* elsewhere than to the root of its group.                                *)
EveryEntryIsEarned ==
  \A s \in Subjects : \A k \in DOMAIN head[s] :
    LET c == head[s][k][1]
        i == head[s][k][2] IN
    /\ Member(writer[c]) /\ Doer \notin ToSet(events[c])
    /\ i \in DOMAIN events[c] /\ events[c][i] = s

(* Where two histories part, they part at events of two calls.             *)
PartBetweenCalls(r, q) ==
  \A k \in DOMAIN r \cap DOMAIN q :
    (r[k] # q[k] /\ \A i \in 1..(k - 1) : r[i] = q[i]) => r[k][1] # q[k][1]

(* A transition that was returned as valid stays in the history, or the    *)
(* history parts from it at an event of another call: a call never loses   *)
(* an append of its own, and no history falls back behind what was         *)
(* returned.                                                               *)
ValidStaysUnlessRaced ==
  \A c \in Calls : \A t \in out[c] : t.valid =>
    /\ ~IsStrictPrefix(head[t.subject], t.new)
    /\ PartBetweenCalls(head[t.subject], t.new)

=============================================================================
