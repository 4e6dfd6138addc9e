---------------------------- MODULE ControlProof ----------------------------
(***************************************************************************)
(* verifyControlProof and its nonce store: a signed proof is good for one  *)
(* presentation within its window.  A verification takes the time when it  *)
(* starts, awaits the signatures, and then claims the nonce in one step:   *)
(* in a map of its own process that forgets what has expired, or in the    *)
(* table all processes share.                                              *)
(*                                                                         *)
(* Signatures are good or not; capabilities, disclosure and predicate are  *)
(* one later check.  All proofs were issued at time 0.                     *)
(***************************************************************************)
EXTENDS Integers

CONSTANTS
  Proofs,
  Verifiers,   \* bound: verifications in progress at one time
  Processes,
  Lifetime,    \* ttlSeconds
  Table        \* not a process

ProofAssumption ==
  /\ Proofs # {} /\ Processes # {}
  /\ Lifetime \in Nat \ {0}
  /\ Table \notin Processes

VARIABLES
  durable,    \* the store is the table: SupabaseNonceStore
  clock,
  spent,      \* [store -> the nonces in it]
  at,         \* per verification: "idle" or "checked" (core checks done)
  proof,      \* what it is about
  process,    \* where it runs
  coreOk,     \* audience, both signatures and the window held when it started
  accepted,   \* [process -> [proof -> times it was found valid]], stopped at 2 (history)
  genuine,    \* proofs presented with good signatures and in time (history)
  straddled   \* proofs claimed at or after their expiry (history)

Stores == Processes \cup {Table}

verifierVars == <<at, proof, process, coreOk>>
vars == <<durable, clock, spent, verifierVars, accepted, genuine, straddled>>

AnyProof == CHOOSE p \in Proofs : TRUE
AnyProcess == CHOOSE i \in Processes : TRUE

TypeOK ==
  /\ durable \in BOOLEAN
  /\ clock \in 0..(Lifetime + 1)
  /\ spent \in [Stores -> SUBSET Proofs]
  /\ at \in [Verifiers -> {"idle", "checked"}]
  /\ proof \in [Verifiers -> Proofs] /\ process \in [Verifiers -> Processes]
  /\ coreOk \in [Verifiers -> BOOLEAN]
  /\ accepted \in [Processes -> [Proofs -> 0..2]]
  /\ genuine \cup straddled \subseteq Proofs

Init ==
  /\ durable \in BOOLEAN
  /\ clock = 0
  /\ spent = [s \in Stores |-> {}]
  /\ at = [v \in Verifiers |-> "idle"]
  /\ proof = [v \in Verifiers |-> AnyProof]
  /\ process = [v \in Verifiers |-> AnyProcess]
  /\ coreOk = [v \in Verifiers |-> FALSE]
  /\ accepted = [i \in Processes |-> [p \in Proofs |-> 0]]
  /\ genuine = {} /\ straddled = {}

-----------------------------------------------------------------------------
Present(v, p, i) ==
  /\ at[v] = "idle"
  /\ at' = [at EXCEPT ![v] = "checked"]
  /\ proof' = [proof EXCEPT ![v] = p]
  /\ process' = [process EXCEPT ![v] = i]
  /\ \E signed \in BOOLEAN :
       /\ coreOk' = [coreOk EXCEPT ![v] = signed /\ clock < Lifetime]
       /\ genuine' = IF signed /\ clock < Lifetime THEN genuine \cup {p} ELSE genuine
  /\ UNCHANGED <<durable, clock, spent, accepted, straddled>>

StoreOf(v) == IF durable THEN Table ELSE process[v]

Answered(v) ==
  /\ at' = [at EXCEPT ![v] = "idle"]
  /\ proof' = [proof EXCEPT ![v] = AnyProof]
  /\ process' = [process EXCEPT ![v] = AnyProcess]
  /\ coreOk' = [coreOk EXCEPT ![v] = FALSE]
  /\ UNCHANGED <<durable, clock, genuine>>

\* fault: the nonce is claimed whatever the signatures say
MayClaimAlways(v) == TRUE

MayClaim(v) == coreOk[v]

\* fault: the map is pruned of what has not expired
RememberedWrongly(v) == IF clock < Lifetime /\ ~durable THEN {} ELSE spent[StoreOf(v)]

(* What consume finds in the store: a map forgets a nonce at its expiry.   *)
Remembered(v) == IF clock >= Lifetime /\ ~durable THEN {} ELSE spent[StoreOf(v)]

NotClaimed(v) ==
  /\ at[v] = "checked" /\ ~MayClaim(v)
  /\ Answered(v)
  /\ UNCHANGED <<spent, accepted, straddled>>

(* The capabilities, disclosure and predicate are looked at after it.      *)
Claim(v) ==
  LET p == proof[v] IN
  /\ at[v] = "checked" /\ MayClaim(v)
  /\ p \notin Remembered(v)
  /\ \E rest \in BOOLEAN :
       LET valid == rest /\ coreOk[v] IN
       accepted' = [accepted EXCEPT ![process[v]][p] = IF valid /\ @ < 2 THEN @ + 1 ELSE @]
  /\ spent' = [spent EXCEPT ![StoreOf(v)] = Remembered(v) \cup {p}]
  /\ straddled' = IF clock >= Lifetime THEN straddled \cup {p} ELSE straddled
  /\ Answered(v)

Replay(v) ==
  /\ at[v] = "checked" /\ MayClaim(v)
  /\ proof[v] \in Remembered(v)
  /\ spent' = [spent EXCEPT ![StoreOf(v)] = Remembered(v)]
  /\ Answered(v)
  /\ UNCHANGED <<accepted, straddled>>

(* The table cannot be written, or its answer to the insert is lost:       *)
(* thrown, so nothing is valid, whether or not the nonce is in it by now.  *)
StoreUnavailable(v) ==
  /\ at[v] = "checked" /\ MayClaim(v) /\ durable
  /\ \E kept \in SUBSET {proof[v]} : spent' = [spent EXCEPT ![Table] = @ \cup kept]
  /\ Answered(v)
  /\ UNCHANGED <<accepted, straddled>>

(* A process ends, and its map with it.                                    *)
Restart(i) ==
  /\ ~durable /\ spent[i] # {}
  /\ \A v \in Verifiers : at[v] # "idle" => process[v] # i
  /\ spent' = [spent EXCEPT ![i] = {}]
  /\ accepted' = [accepted EXCEPT ![i] = [p \in Proofs |-> 0]]
  /\ UNCHANGED <<durable, clock, verifierVars, genuine, straddled>>

Tick ==
  /\ clock <= Lifetime
  /\ clock' = clock + 1
  /\ UNCHANGED <<durable, spent, verifierVars, accepted, genuine, straddled>>

Next ==
  \/ \E v \in Verifiers :
       \/ \E p \in Proofs, i \in Processes : Present(v, p, i)
       \/ NotClaimed(v) \/ Claim(v) \/ Replay(v) \/ StoreUnavailable(v)
  \/ \E i \in Processes : Restart(i)
  \/ Tick

Spec == Init /\ [][Next]_vars

-----------------------------------------------------------------------------
(* A proof is found valid once: by one process's map once while it runs,   *)
(* unless the claim came after an expiry the window check did not see; by  *)
(* the table once in all, whenever it came.                                *)
AcceptedOnce ==
  \A p \in Proofs :
    /\ \A i \in Processes : durable \/ p \notin straddled => accepted[i][p] <= 1
    /\ durable =>
         \A i, j \in Processes : accepted[i][p] > 0 /\ accepted[j][p] > 0 => i = j

(* "An invalid proof must not be able to burn a valid nonce" (line 315):   *)
(* whatever is spent was presented with good signatures and in its window. *)
(* A presentation that fails the checks after the claim does spend it.     *)
ForgedSpendsNothing ==
  \A s \in Stores : spent[s] \subseteq genuine

(* A proof is accepted once, and a forged or late one spends no nonce.     *)
NoncesAreSpentOnce == AcceptedOnce /\ ForgedSpendsNothing
=============================================================================
