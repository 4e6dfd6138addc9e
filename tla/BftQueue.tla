------------------------------ MODULE BftQueue ------------------------------
(***************************************************************************)
(* The table bft_payment_evaluations: payments whose vote is taken after   *)
(* they were made.  POST /api/trustrails/bft/process drains a batch of it: *)
(* for each row it counts an attempt, asks the panel and writes the        *)
(* verdict to the row and then to the payment's receipt.                   *)
(*                                                                         *)
(* Every write names a row by its id and asks nothing of its state, and    *)
(* nothing keeps two invocations of the route apart.  The database client  *)
(* returns its errors, and the route looks at none of them but the         *)
(* receipt's, which it reports: inside the try, only the panel throws.     *)
(***************************************************************************)
EXTENDS Integers, Sequences, SequencesExt

CONSTANTS
  Rows,
  Drains,       \* bound: invocations of the route running at one time
  BatchSize,
  MaxAttempts   \* MAX_ATTEMPTS

QueueAssumption == BatchSize \in Nat \ {0} /\ MaxAttempts \in Nat \ {0}

Verdicts == {"passed", "refused"}

VARIABLES
  enqueued,   \* the rows inserted, in order of created_at
  row,        \* the row's status, which is its verdict once evaluated
  attempts,   \* the column
  receipt,    \* bft_passed of the payment's receipt: a verdict, or "null"
  batch,      \* what a drain has left to do; empty when it does not run
  seen,       \* attempts as the drain's select returned them
  step,       \* at the head of the batch: "count", "ask", or the verdict to tell
  asked,      \* how often the panel was asked about a row, stopped past the cap (history)
  shared,     \* rows that two drains held at a time (history)
  uncounted,  \* rows an attempt at which was not written (history)
  cut         \* rows whose drain died, or whose verdict was not written (history)

drainVars == <<batch, seen, step>>
histories == <<asked, shared, uncounted, cut>>
vars == <<enqueued, row, attempts, receipt, drainVars, histories>>

TypeOK ==
  /\ Range(enqueued) \subseteq Rows /\ IsInjective(enqueued)
  /\ row \in [Rows -> {"pending", "failed"} \cup Verdicts]
  /\ attempts \in [Rows -> 0..MaxAttempts]
  /\ receipt \in [Rows -> {"null"} \cup Verdicts]
  /\ \A d \in Drains : Range(batch[d]) \subseteq Range(enqueued) /\ Len(batch[d]) <= BatchSize
  /\ seen \in [Drains -> [Rows -> 0..MaxAttempts]]
  /\ step \in [Drains -> {"count", "ask"} \cup Verdicts]
  /\ asked \in [Rows -> 0..(MaxAttempts + 1)]
  /\ shared \cup uncounted \cup cut \subseteq Rows

Init ==
  /\ enqueued = <<>>
  /\ row = [r \in Rows |-> "pending"]
  /\ attempts = [r \in Rows |-> 0]
  /\ receipt = [r \in Rows |-> "null"]
  /\ batch = [d \in Drains |-> <<>>]
  /\ seen = [d \in Drains |-> [r \in Rows |-> 0]]
  /\ step = [d \in Drains |-> "count"]
  /\ asked = [r \in Rows |-> 0]
  /\ shared = {} /\ uncounted = {} /\ cut = {}

At(d, s) == batch[d] # <<>> /\ step[d] = s
Held == UNION {Range(batch[d]) : d \in Drains}

-----------------------------------------------------------------------------
(* BFTAuthorizer.enqueue, once the receipt exists.                         *)
Enqueue(r) ==
  /\ r \notin Range(enqueued)
  /\ enqueued' = Append(enqueued, r)
  /\ UNCHANGED <<row, attempts, receipt, drainVars, histories>>

\* fault: rows are taken whatever their status
EligibleInAnyStatus(r) == attempts[r] < MaxAttempts

\* fault: one attempt too many
EligibleOnceMore(r) == row[r] = "pending" /\ attempts[r] <= MaxAttempts

Eligible(r) == row[r] = "pending" /\ attempts[r] < MaxAttempts

Pending == {i \in DOMAIN enqueued : Eligible(enqueued[i])}

(* As many as a batch holds, by created_at.                                *)
Oldest(picks) ==
  /\ \A i, j \in DOMAIN picks : i < j => picks[i] < picks[j]
  /\ \A p \in Pending \ Range(picks) :
       Len(picks) = BatchSize /\ \A i \in DOMAIN picks : picks[i] < p

(* The oldest rows, with the attempts they had at this moment.             *)
Select(d) ==
  /\ batch[d] = <<>>
  /\ \E n \in 1..BatchSize : \E picks \in [1..n -> Pending] :
       LET taken == {enqueued[picks[i]] : i \in 1..n} IN
       /\ Oldest(picks)
       /\ batch' = [batch EXCEPT ![d] = [i \in 1..n |-> enqueued[picks[i]]]]
       /\ seen' = [seen EXCEPT ![d] =
            [r \in Rows |-> IF r \in taken THEN attempts[r] ELSE 0]]
       /\ shared' = shared \cup (taken \cap Held)
  /\ UNCHANGED <<enqueued, row, attempts, receipt, step, asked, uncounted, cut>>

(* The attempt is counted from what was selected; an error is ignored.     *)
Count(d) ==
  LET r == Head(batch[d]) IN
  /\ At(d, "count")
  /\ \/ /\ attempts' = [attempts EXCEPT ![r] = seen[d][r] + 1]
        /\ UNCHANGED uncounted
     \/ /\ uncounted' = uncounted \cup {r}
        /\ UNCHANGED attempts
  /\ step' = [step EXCEPT ![d] = "ask"]
  /\ asked' = [asked EXCEPT ![r] = IF @ > MaxAttempts THEN @ ELSE @ + 1]
  /\ UNCHANGED <<enqueued, row, receipt, batch, seen, shared, cut>>

(* The panel answers and the row takes the verdict; an error is ignored.   *)
Evaluated(d, v) ==
  LET r == Head(batch[d]) IN
  /\ At(d, "ask")
  /\ \/ /\ row' = [row EXCEPT ![r] = v]
        /\ UNCHANGED cut
     \/ /\ cut' = cut \cup {r}
        /\ UNCHANGED row
  /\ step' = [step EXCEPT ![d] = v]
  /\ UNCHANGED <<enqueued, attempts, receipt, batch, seen, asked, shared, uncounted>>

Advance(d) ==
  /\ batch' = [batch EXCEPT ![d] = Tail(@)]
  /\ seen' = [seen EXCEPT ![d][Head(batch[d])] = 0]
  /\ step' = [step EXCEPT ![d] = "count"]

\* fault: any verdict passes the receipt
TellPassed(v) == "passed"

(* bft_passed: verdict.consensus_reached                                   *)
Tell(v) == v

(* A receipt that cannot be written is named in the route's answer only.   *)
WriteReceipt(d, v) ==
  LET r == Head(batch[d]) IN
  /\ At(d, v)
  /\ \/ /\ receipt' = [receipt EXCEPT ![r] = Tell(v)]
        /\ UNCHANGED cut
     \/ /\ cut' = cut \cup {r}
        /\ UNCHANGED receipt
  /\ Advance(d)
  /\ UNCHANGED <<enqueued, row, attempts, asked, shared, uncounted>>

\* fault: parked one failure too late
StatusAfterTooLate(n) == IF n > MaxAttempts THEN "failed" ELSE "pending"

StatusAfter(n) == IF n >= MaxAttempts THEN "failed" ELSE "pending"

(* The panel threw.                                                        *)
Erred(d) ==
  LET r == Head(batch[d]) IN
  /\ At(d, "ask")
  /\ \/ /\ row' = [row EXCEPT ![r] = StatusAfter(seen[d][r] + 1)]
        /\ UNCHANGED cut
     \/ /\ cut' = cut \cup {r}
        /\ UNCHANGED row
  /\ Advance(d)
  /\ UNCHANGED <<enqueued, attempts, receipt, asked, shared, uncounted>>

(* The invocation ends where it is.                                        *)
Die(d) ==
  /\ batch[d] # <<>>
  /\ cut' = cut \cup {Head(batch[d])}
  /\ batch' = [batch EXCEPT ![d] = <<>>]
  /\ seen' = [seen EXCEPT ![d] = [r \in Rows |-> 0]]
  /\ step' = [step EXCEPT ![d] = "count"]
  /\ UNCHANGED <<enqueued, row, attempts, receipt, asked, shared, uncounted>>

(* Nothing pending.                                                        *)
Empty ==
  /\ Range(enqueued) = Rows
  /\ Held = {}
  /\ Pending = {}
  /\ UNCHANGED vars

DrainStep(d) ==
  \/ Select(d) \/ Count(d) \/ Erred(d)
  \/ \E v \in Verdicts : Evaluated(d, v) \/ WriteReceipt(d, v)

Next ==
  \/ \E r \in Rows : Enqueue(r)
  \/ \E d \in Drains : DrainStep(d) \/ Die(d)
  \/ Empty

Spec == Init /\ [][Next]_vars

(* The scheduler keeps calling, a call that started goes on, and not every *)
(* one dies before its first write.                                        *)
Fairness == \A d \in Drains : WF_vars(DrainStep(d)) /\ SF_vars(Count(d))

-----------------------------------------------------------------------------
(* "a row moves pending -> evaluated exactly once" (line 12): a verdict is *)
(* never replaced, unless two drains held the row at a time.               *)
VerdictsStand ==
  [][\A r \in Rows :
       row[r] \in Verdicts /\ row'[r] # row[r] => r \in shared]_vars

(* The panel is asked at most MAX_ATTEMPTS times about a row, whatever     *)
(* dies in between, if the attempts are counted and the drains do not      *)
(* overlap.                                                                *)
AttemptsAreBounded ==
  \A r \in Rows \ (shared \cup uncounted) : asked[r] <= MaxAttempts

(* A row no drain is at says of its payment what the receipt says.         *)
ReceiptAgreesWithRow ==
  \A r \in Rows \ (shared \cup cut \cup Held) :
    receipt[r] = IF row[r] \in Verdicts THEN row[r] ELSE "null"

(* A row in the table is evaluated or parked as failed in the end, if no   *)
(* drain died at it and attempts are counted; a row whose last attempt     *)
(* died stays pending and is never selected again.                         *)
EveryRowIsResolved ==
  \A r \in Rows :
    r \in Range(enqueued) ~> row[r] # "pending" \/ r \in shared \cup cut \/ uncounted # {}
=============================================================================
