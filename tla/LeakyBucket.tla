----------------------------- MODULE LeakyBucket -----------------------------
(***************************************************************************)
(* One expert's token bucket (harness/leaky-bucket.ts).  Times are in the  *)
(* clock's unit and rates in tokens per unit, so that tokens are integers. *)
(* The injected clock may step back.                                       *)
(***************************************************************************)
EXTENDS Integers

CONSTANTS
  Configs,    \* records with capacity and rate
  Default,    \* the limiter's defaults
  Charges,    \* tokens a task asks for
  LastTime,   \* bound of the clock
  MaxAccrued  \* bound: what the bucket is given in all

BucketAssumption ==
  /\ Default \in Configs
  /\ \A c \in Configs : c.capacity \in Nat /\ c.rate \in Nat \ {0}
  /\ Charges \subseteq Nat
  /\ LastTime \in Nat

VARIABLES
  now,
  config,        \* capacity and ratePerMs of the bucket
  tokens,
  lastRefillAt,
  spent,         \* tokens charged and not refunded (history)
  accrued,       \* what the bucket began with and the clock brought (history)
  promise        \* a refusal's tokens and the time it named, if nothing came between (history)

bucket == <<config, tokens, lastRefillAt>>
vars == <<now, bucket, spent, accrued, promise>>

NoPromise == [tokens |-> 0, at |-> 0]
Lesser(a, b) == IF a < b THEN a ELSE b

TypeOK ==
  /\ now \in 0..LastTime /\ lastRefillAt \in 0..LastTime
  /\ config \in Configs
  /\ tokens \in Nat /\ spent \in Nat /\ accrued \in Nat

Init ==
  /\ now = 0 /\ lastRefillAt = 0
  /\ config = Default
  /\ tokens = Default.capacity
  /\ spent = 0
  /\ accrued = Default.capacity
  /\ promise = NoPromise

-----------------------------------------------------------------------------
(* refill, which every operation but configure begins with; a clock that   *)
(* went back brings nothing and is the new anchor.                         *)
Refilled ==
  IF now <= lastRefillAt THEN tokens
  ELSE Lesser(config.capacity, tokens + (now - lastRefillAt) * config.rate)

\* fault: a new limit comes with a full bucket
TokensAfterConfigureReset(c) == c.capacity

(* The tokens are clamped, not reset, and not refilled either.             *)
TokensAfterConfigure(c) == Lesser(tokens, c.capacity)

Configure(c) ==
  /\ c # config
  /\ config' = c
  /\ tokens' = TokensAfterConfigure(c)
  /\ lastRefillAt' = now
  /\ promise' = NoPromise
  /\ UNCHANGED <<now, spent, accrued>>

Admit(n) ==
  /\ Refilled >= n
  /\ tokens' = Refilled - n
  /\ spent' = spent + n
  /\ promise' = NoPromise

\* fault: rounded to the nearest moment before
RetryAfterFloor(deficit) == deficit \div config.rate

RetryAfter(deficit) == (deficit + config.rate - 1) \div config.rate

(* More than the capacity is refused without a time: waiting cannot help.  *)
Refuse(n) ==
  /\ Refilled < n
  /\ tokens' = Refilled
  /\ promise' = IF n > config.capacity THEN promise
                ELSE [tokens |-> n, at |-> now + RetryAfter(n - Refilled)]
  /\ UNCHANGED spent

TryConsume(n) ==
  /\ Admit(n) \/ Refuse(n)
  /\ lastRefillAt' = now
  /\ UNCHANGED <<now, config, accrued>>

(* A caller refunds no more than it was charged.                           *)
Refund(n) ==
  /\ n > 0 /\ n <= spent
  /\ tokens' = Lesser(config.capacity, Refilled + n)
  /\ lastRefillAt' = now
  /\ spent' = spent - n
  /\ UNCHANGED <<now, config, accrued, promise>>

Tick ==
  /\ now < LastTime /\ accrued + config.rate <= MaxAccrued
  /\ now' = now + 1
  /\ accrued' = accrued + config.rate
  /\ UNCHANGED <<bucket, spent, promise>>

StepBack ==
  /\ now > 0
  /\ now' = now - 1
  /\ promise' = NoPromise
  /\ UNCHANGED <<bucket, spent, accrued>>

Next ==
  \/ \E c \in Configs : Configure(c)
  \/ \E n \in Charges : TryConsume(n) \/ Refund(n)
  \/ Tick \/ StepBack

Spec == Init /\ [][Next]_vars

-----------------------------------------------------------------------------
(* The limit limits: over any run of charges, refunds, changes of the      *)
(* limit and steps of the clock, no more is let through than the burst and *)
(* what the elapsed time brought at the rates then in force.               *)
NoFreeCapacity == spent + tokens <= accrued

(* A refused caller that waits for retryAfterMs is admitted, if nobody was *)
(* admitted, nothing configured and no clock set back meanwhile.           *)
RetryAfterIsKept == promise.tokens > 0 /\ now >= promise.at => Refilled >= promise.tokens
=============================================================================
