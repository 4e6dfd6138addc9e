----------------------------- MODULE Execution -----------------------------
(***************************************************************************)
(* runAction: a proposed action through the kernel's gate to a real side   *)
(* effect and a receipt, for calls that run concurrently over one ledger.  *)
(*                                                                         *)
(* Nothing is awaited before the executor runs, so the ledger is read and  *)
(* the action disposed of in one step; the receipt is written in another,  *)
(* after the await of the gate, whatever the gate said.                    *)
(***************************************************************************)
EXTENDS Integers, PolicyKernel

CONSTANTS
  Calls,         \* bound: calls of runAction that are in progress at one time
  RequestIds,
  Grantable      \* the capabilities grants may name

ExecutionAssumption == RequestIds # {} /\ KernelAssumption

NoReceipt == [executed |-> FALSE, decision |-> "none", outcome |-> "none"]
Blocked(d) == [executed |-> FALSE, decision |-> d, outcome |-> "blocked"]
Ran(d, o) == [executed |-> TRUE, decision |-> d, outcome |-> o]

Receipts == {NoReceipt} \cup {Blocked(d) : d \in Decisions \ {"ALLOW"}}
  \cup {Ran("ALLOW", o) : o \in {"committed", "error"}} \cup {Ran("DENY", "error")}

VARIABLES
  ledger,      \* requestId -> its receipt
  call,        \* "idle"; "blocked": the gate said no; "running": the executor runs
  request,     \* the requestId a call is about
  shape,       \* what its envelope declares
  verdict,     \* the decision a blocked call will record
  granted,     \* names of the grants valid now
  approvals,   \* rules a human has approved
  confidence,  \* the evidence at hand, none unless it is enabled
  effects,     \* times the executor ran for a requestId, stopped at 2 (history)
  contested    \* requestIds two calls were about at one time (history)

callVars == <<call, request, shape, verdict>>
context == <<granted, approvals, confidence>>
vars == <<ledger, callVars, context, effects, contested>>

RuleIds == {r.id : r \in Rules}

TypeOK ==
  /\ ledger \in [RequestIds -> Receipts]
  /\ call \in [Calls -> {"idle", "blocked", "running"}]
  /\ request \in [Calls -> RequestIds]
  /\ shape \in [Calls -> Shapes]
  /\ verdict \in [Calls -> Decisions]
  /\ granted \subseteq Grantable /\ approvals \subseteq RuleIds
  /\ confidence \in Confidences
  /\ effects \in [RequestIds -> 0..2]
  /\ contested \subseteq RequestIds

NobodysRequest == CHOOSE i \in RequestIds : TRUE
NoShape == CHOOSE s \in Shapes : TRUE

Init ==
  /\ ledger = [i \in RequestIds |-> NoReceipt]
  /\ call = [c \in Calls |-> "idle"]
  /\ request = [c \in Calls |-> NobodysRequest]
  /\ shape = [c \in Calls |-> NoShape]
  /\ verdict = [c \in Calls |-> "DENY"]
  /\ granted = {} /\ approvals = {} /\ confidence = "none"
  /\ effects = [i \in RequestIds |-> 0]
  /\ contested = {}

-----------------------------------------------------------------------------
(* The calls that are about a requestId.                                   *)
About(i) == {c \in Calls : call[c] # "idle" /\ request[c] = i}

\* fault: only an effect uses a requestId up
UnusedUnlessRan(i) == ~ledger[i].executed

(* A requestId with a receipt is a replay: the receipt is returned and     *)
(* nothing happens.  So does nothing for a malformed proposal.             *)
Unused(i) == ledger[i] = NoReceipt

NoteContested(i) == contested' = IF About(i) = {} THEN contested ELSE contested \cup {i}

(* The args do not hash to the envelope's argsHash: recorded at once.      *)
RefuseSwappedArgs(i) ==
  /\ Unused(i)
  /\ ledger' = [ledger EXCEPT ![i] = Blocked("DENY")]
  /\ NoteContested(i)
  /\ UNCHANGED <<callVars, context, effects>>

Begin(c, i, s) ==
  /\ call[c] = "idle" /\ Unused(i)
  /\ LET d == Dispose(s, granted, approvals, confidence) IN
       /\ call' = [call EXCEPT ![c] = IF d = "ALLOW" THEN "running" ELSE "blocked"]
       /\ verdict' = [verdict EXCEPT ![c] = d]
       /\ effects' = [effects EXCEPT ![i] = IF d = "ALLOW" /\ @ < 2 THEN @ + 1 ELSE @]
  /\ request' = [request EXCEPT ![c] = i]
  /\ shape' = [shape EXCEPT ![c] = s]
  /\ NoteContested(i)
  /\ UNCHANGED <<ledger, context>>

Return(c) ==
  /\ call' = [call EXCEPT ![c] = "idle"]
  /\ request' = [request EXCEPT ![c] = NobodysRequest]
  /\ shape' = [shape EXCEPT ![c] = NoShape]
  /\ verdict' = [verdict EXCEPT ![c] = "DENY"]
  /\ UNCHANGED <<context, effects, contested>>

RecordBlocked(c) ==
  /\ call[c] = "blocked"
  /\ ledger' = [ledger EXCEPT ![request[c]] = Blocked(verdict[c])]
  /\ Return(c)

Put(i, receipt) == ledger' = [ledger EXCEPT ![i] = receipt]

(* The executor returns committed or error, or throws: then the decision   *)
(* is still the one it was initialised with.                               *)
RecordRun(c) ==
  /\ call[c] = "running"
  /\ \E receipt \in {Ran("ALLOW", "committed"), Ran("ALLOW", "error"), Ran("DENY", "error")} :
       Put(request[c], receipt)
  /\ Return(c)

(* Grants are minted and expire, humans approve, evidence comes and goes.  *)
ContextChanges ==
  /\ \/ /\ \E k \in Grantable :
             granted' = IF k \in granted THEN granted \ {k} ELSE granted \cup {k}
        /\ UNCHANGED <<approvals, confidence>>
     \/ /\ \E r \in RuleIds \ approvals : approvals' = approvals \cup {r}
        /\ UNCHANGED <<granted, confidence>>
     \/ /\ \E f \in Confidences \ {confidence} : confidence' = f
        /\ UNCHANGED <<granted, approvals>>
  /\ UNCHANGED <<ledger, callVars, effects, contested>>

Next ==
  \/ \E i \in RequestIds : RefuseSwappedArgs(i)
  \/ \E c \in Calls, i \in RequestIds, s \in Shapes : Begin(c, i, s)
  \/ \E c \in Calls : RecordBlocked(c) \/ RecordRun(c)
  \/ ContextChanges

Spec == Init /\ [][Next]_vars

-----------------------------------------------------------------------------
(* "A requestId is single-use" (execute.ts:137), whatever came of its first *)
(* use, if no two calls were about it at a time.                           *)
SingleUseUnlessContested == \A i \in RequestIds \ contested : effects[i] <= 1

(* The receipt of a requestId nobody is at says whether its effect ran,    *)
(* and is never replaced by another.                                       *)
ReceiptsTellWhatRan ==
  \A i \in RequestIds \ contested : About(i) = {} => (ledger[i].executed <=> effects[i] = 1)

(* A receipt stays as it was first written, under the same condition.      *)
ReceiptsStand ==
  [][\A i \in RequestIds :
       ledger[i] # NoReceipt /\ ledger'[i] # ledger[i] => i \in contested]_vars

(* The executor is reached only by what no law or rule forbids, every rule *)
(* that asks for a human has one, and a grant held now covers; and a       *)
(* capability does not stand in for any of the others.                     *)
NothingRunsUnwarranted ==
  [][\A c \in Calls :
       call[c] = "idle" /\ call'[c] = "running" =>
         LET s == shape'[c] IN
         /\ s.capability \in granted \ LawForbids
         /\ \A r \in Rules : s \in r.when =>
              r.effect = "require_approval" /\ r.id \in approvals
         /\ s.high => confidence = "enough"]_vars

(* A requestId acts once, its receipt says whether it did and stays as it  *)
(* was written, and what ran was allowed.                                  *)
ActionsRunOnce ==
  /\ []SingleUseUnlessContested /\ []ReceiptsTellWhatRan
  /\ ReceiptsStand /\ NothingRunsUnwarranted
=============================================================================
