----------------------------- MODULE MCServices -----------------------------
(***************************************************************************)
(* Small instances of the services.  They share no state, so that what one *)
(* of them reaches it reaches by its own steps: part names the one that    *)
(* moves in a behavior, and the others stay where they began.              *)
(***************************************************************************)
EXTENDS Services

(* Two messages of different priority.                                     *)
MCRank == [m1 |-> 1, m2 |-> 2]

MCExpiryOrder == [q1 |-> 1, q2 |-> 2]

(* Either of which the daily limit has room for, not both.                 *)
MCAmount == [a |-> 1, b |-> 1]

(* A root, a link, and one link more than the depth a verifier accepts.    *)
MCCapabilities == {<<"pay">>, <<"pay", "usdc">>, <<"*">>}
MCRequested == {<<"pay">>, <<"pay", "usdc">>, <<"pay", "eur">>, <<"vote">>}

(* Each kind of action meets another check of the kernel.                  *)
Write == [capability |-> "write", high |-> FALSE]
Tip == [capability |-> "pay", high |-> FALSE]
Pay == [capability |-> "pay", high |-> TRUE]
Mint == [capability |-> "mint", high |-> FALSE]
MCShapes == {Write, Tip, Pay, Mint}
MCRules == {[id |-> "spend", effect |-> "require_approval", when |-> {Pay}],
            [id |-> "never", effect |-> "deny", when |-> {Tip}]}

(* Two criteria; floors are the other run's.                               *)
MCFloor == <<0, 0>>

(* Two calls that may both judge one checker, and one judged the doer.     *)
MCEvents == {<<>>, <<"s">>, <<"s", "s">>, <<"t", "s">>, <<"s", "doer">>}

(* A group of w and x.  Whoever is not of it may name its root and borrow  *)
(* a path, and a member may name a path whose sides are swapped.           *)
MCRoot == <<<<"w">>, <<"x">>>>
MCWriters == [secret : {"w", "v"}, groupRoot : {MCRoot},
              membership : {<<[left |-> FALSE, hash |-> <<"x">>]>>}]
        \cup [secret : {"w"}, groupRoot : {MCRoot},
              membership : {<<[left |-> TRUE, hash |-> <<"x">>]>>}]

(* A limit of two, or none.                                                *)
MCReplayLimits == {-1, 2}

VARIABLE part

MCInit ==
  /\ part \in Parts /\ Init
  /\ part # "payment" => ~enforcing
  /\ part # "proof" => ~durable
  /\ part # "chain" => chain[1] = CHOOSE l \in Delegating!Link : ~l.minted

MCNext == Step(part) /\ UNCHANGED part

(* Nothing fair is enabled where the components begin, so that fairness    *)
(* asks nothing of those that stay there.                                  *)
MCSpec ==
  /\ MCInit /\ [][MCNext]_<<part, vars>>
  /\ Triage!Fairness /\ Queue!Fairness /\ Replaying!Fairness
=============================================================================
