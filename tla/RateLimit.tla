------------------------------ MODULE RateLimit ------------------------------
(***************************************************************************)
(* The token buckets of gateway/rate_limit.rs: one per API key (or client   *)
(* address), behind one entry of a DashMap, so a check is one step. A tick  *)
(* is a second; tokens are counted in parts, PartsPerToken (60) of them to a *)
(* token, so that a bucket of rpm tokens gains rpm parts a second.          *)
(***************************************************************************)
EXTENDS Integers, FiniteSets, Sequences

CONSTANTS Key, TierRpm,     \* rates the tier of a request may have
          DefaultRpm, PartsPerToken,
          MaxSeconds, MaxAdmitted    \* bounds

VARIABLES buckets,      \* key -> [parts, rpm, last_refill], from its first request
          second,
          admittedAt    \* history: key -> times of its admitted requests

rateVars == <<buckets, second, admittedAt>>

RateInit == buckets = [k \in {} |-> 0] /\ second = 0 /\ admittedAt = [k \in Key |-> <<>>]

LargerOf(m, n) == IF m >= n THEN m ELSE n
SmallerOf(m, n) == IF m <= n THEN m ELSE n

\* The rate is that of the first request: a key keeps it when its tier changes.
NewBucket(rpm) == [parts |-> rpm * PartsPerToken, rpm |-> rpm, last_refill |-> second]
BucketFor(key, tier) ==
  IF key \in DOMAIN buckets THEN buckets[key] ELSE NewBucket(LargerOf(tier, DefaultRpm))

Uncapped(b) == b.parts + (second - b.last_refill) * b.rpm             \* fault
Filled(b) == SmallerOf(b.parts + (second - b.last_refill) * b.rpm, b.rpm * PartsPerToken)
Refill(b) == [b EXCEPT !.parts = Filled(b), !.last_refill = second]

Store(key, b) ==
  buckets' = [k \in DOMAIN buckets \cup {key} |-> IF k = key THEN b ELSE buckets[k]]

\* check: refill, then take a token or leave what there is.
Check(key, tier) ==
  /\ Len(admittedAt[key]) < MaxAdmitted
  /\ LET b == Refill(BucketFor(key, tier))
     IN IF b.parts >= PartsPerToken
        THEN /\ Store(key, [b EXCEPT !.parts = @ - PartsPerToken])
             /\ admittedAt' = [admittedAt EXCEPT ![key] = Append(@, second)]
        ELSE Store(key, b) /\ UNCHANGED admittedAt
  /\ UNCHANGED second

\* What a refused caller is told, in whole seconds (as_secs).
RetryAfter(b) == (PartsPerToken - b.parts) \div b.rpm

ClockTicks == second < MaxSeconds /\ second' = second + 1 /\ UNCHANGED <<buckets, admittedAt>>

RateNext == ClockTicks \/ \E k \in Key, t \in TierRpm : Check(k, t)

RateSpec == RateInit /\ [][RateNext]_rateVars

\* A tier may allow nothing; a bucket never gets less than the default.
RateAssumption ==
  TierRpm \subseteq Nat /\ DefaultRpm \in Nat \ {0} /\ PartsPerToken \in Nat \ {0}

-----------------------------------------------------------------------------
RateTypeOK ==
  \A k \in DOMAIN buckets : /\ buckets[k].parts \in 0..buckets[k].rpm * PartsPerToken
                            /\ buckets[k].last_refill <= second

AdmittedBetween(k, from, to) ==
  Cardinality({i \in 1..Len(admittedAt[k]) : admittedAt[k][i] \in from..to})

\* In any stretch of time a key gets a full bucket and what it earns meanwhile,
\* no more, however its requests are spread and whatever tiers they claim; a
\* caller that waits a second more than it was told finds a token.
RateBounded ==
  \A k \in DOMAIN buckets :
    LET b == buckets[k]
    IN /\ \A from \in 0..second : \A to \in from..second :
            AdmittedBetween(k, from, to) * PartsPerToken
              <= (PartsPerToken + to - from) * b.rpm
       /\ b.parts < PartsPerToken =>
            b.parts + (RetryAfter(b) + 1) * b.rpm >= PartsPerToken
=============================================================================
