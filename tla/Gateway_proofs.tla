---------------------------- MODULE Gateway_proofs ----------------------------
(***************************************************************************)
(* What is proved of agents (agent/autonomous.rs), of their LLM client      *)
(* (llm/mod.rs) and of the memory their tasks share (agent/memory.rs), and  *)
(* what the services behind the gateway promise together, with the types of *)
(* what they keep, put together from what is proved of each: each keeps its *)
(* own state, so a behaviour of all of them is a behaviour of each.         *)
(***************************************************************************)
EXTENDS MC_Gateway, Limits_proofs, Credit_proofs, Records_proofs,
        FiniteSetTheorems, SequenceTheorems, TLAPS

-----------------------------------------------------------------------------
(***************************************************************************)
(* The LLM client: the invariant. A client without a key never calls, and   *)
(* the queries under way can be counted.                                    *)
(***************************************************************************)
LlmBreaker == [state : {"Closed", "Open", "HalfOpen"}, failureCount : Nat, hoSuccesses : Nat,
               hoFailures : Nat, openAge : Nat \cup {NoTime}]
LlmTotals == [requests : Nat, failures : Nat, fallbacks : Nat, llm : Nat, dropped : Nat]
LlmQuery == [at : {"idle", "checking", "calling"}, attempt : Nat]
Busy == {c \in Caller : llmQueries[c] # Idle}

LlmInv ==
  /\ hasKey \in BOOLEAN /\ breaker \in LlmBreaker /\ llmQueries \in [Caller -> LlmQuery]
  /\ totals \in LlmTotals
  /\ failedInARow \in Nat /\ IsFiniteSet(Busy)
  /\ \A c \in Caller : llmQueries[c].at = "calling" => hasKey
  /\ ClientAccounts

\* A query that begins is one more under way, one that is answered one less.
LEMMA BusyMore ==
  ASSUME LlmInv, NEW c \in Caller, llmQueries[c] = Idle, NEW q \in LlmQuery, q # Idle,
         llmQueries' = [llmQueries EXCEPT ![c] = q]
  PROVE  IsFiniteSet(Busy') /\ Cardinality(Busy') = Cardinality(Busy) + 1
<1>1. Busy' = Busy \cup {c} /\ c \notin Busy /\ IsFiniteSet(Busy)
  BY DEF LlmInv, Busy
<1> QED BY <1>1, FS_AddElement

LEMMA BusyLess ==
  ASSUME LlmInv, NEW c \in Caller, llmQueries[c] # Idle,
         llmQueries' = [llmQueries EXCEPT ![c] = Idle]
  PROVE  IsFiniteSet(Busy') /\ Cardinality(Busy') = Cardinality(Busy) - 1
<1>1. Busy' = Busy \ {c} /\ c \in Busy /\ IsFiniteSet(Busy)
  BY DEF LlmInv, Busy
<1> QED BY <1>1, FS_RemoveElement

LEMMA BusySame ==
  ASSUME LlmInv, NEW c \in Caller, llmQueries[c] # Idle, NEW q \in LlmQuery, q # Idle,
         llmQueries' = [llmQueries EXCEPT ![c] = q]
  PROVE  Busy' = Busy
BY DEF LlmInv, Busy

LEMMA IdleIs == Idle \in LlmQuery /\ Idle.at = "idle"
BY DEF Idle, LlmQuery

\* What the outcomes do to the breaker.
LEMMA BreakerTypes ==
  ASSUME LlmAssumption, NEW b \in LlmBreaker
  PROVE  /\ Canonical!MaybeTransition(b) \in LlmBreaker
         /\ Canonical!RecordSuccess(b) \in LlmBreaker
         /\ Canonical!RecordFailure(b) \in LlmBreaker
<1> USE DEF LlmBreaker, Canonical!ToOpen, Canonical!ToClosed, Canonical!ToHalfOpen
<1>1. Canonical!MaybeTransition(b) \in LlmBreaker
  BY DEF Canonical!MaybeTransition
<1>2. Canonical!RecordSuccess(b) \in LlmBreaker
  BY DEF Canonical!RecordSuccess
<1>3. Canonical!RecordFailure(b) \in LlmBreaker
  BY DEF Canonical!RecordFailure
<1> QED BY <1>1, <1>2, <1>3

LEMMA BreakerCounts ==
  ASSUME LlmAssumption, NEW b \in LlmBreaker
  PROVE  /\ Canonical!MaybeTransition(b).state = "Closed" =>
              b.state = "Closed" /\ Canonical!MaybeTransition(b) = b
         /\ Canonical!RecordSuccess(b).state = "Closed" =>
              Canonical!RecordSuccess(b).failureCount = 0
         /\ Canonical!RecordFailure(b).state = "Closed" =>
              /\ b.state = "Closed"
              /\ Canonical!RecordFailure(b).failureCount = b.failureCount + 1
<1> USE DEF LlmBreaker, Canonical!ToOpen, Canonical!ToClosed, Canonical!ToHalfOpen
<1>1. Canonical!MaybeTransition(b).state = "Closed" =>
        b.state = "Closed" /\ Canonical!MaybeTransition(b) = b
  BY DEF Canonical!MaybeTransition
<1>2. Canonical!RecordSuccess(b).state = "Closed" => Canonical!RecordSuccess(b).failureCount = 0
  BY DEF Canonical!RecordSuccess
<1>3. Canonical!RecordFailure(b).state = "Closed" =>
        b.state = "Closed" /\ Canonical!RecordFailure(b).failureCount = b.failureCount + 1
  BY DEF Canonical!RecordFailure
<1> QED BY <1>1, <1>2, <1>3

LEMMA LlmInvInit == ASSUME LlmAssumption, LlmInit PROVE LlmInv
<1>1. llmQueries \in [Caller -> LlmQuery] /\ \A c \in Caller : llmQueries[c] = Idle
  BY IdleIs DEF LlmInit
<1>2. Busy = {} /\ IsFiniteSet(Busy) /\ Cardinality(Busy) = 0
  BY <1>1, FS_EmptySet DEF Busy
<1>3. breaker \in LlmBreaker /\ breaker.failureCount = 0
  BY DEF LlmInit, Canonical!New, LlmBreaker
<1>4. \A c \in Caller : llmQueries[c].at # "calling"
  BY <1>1, IdleIs
<1>5. ClientAccounts
  BY <1>2, <1>3 DEF LlmInit, ClientAccounts, Busy
<1> QED BY <1>1, <1>2, <1>3, <1>4, <1>5 DEF LlmInv, LlmInit, LlmTotals

LEMMA BeginsKeeps ==
  ASSUME LlmInv, NEW c \in Caller, llmQueries[c] = Idle, Begins(c) PROVE LlmInv'
<1> DEFINE q == [at |-> "checking", attempt |-> 0]
<1>1. q \in LlmQuery /\ q # Idle /\ q.at # "calling"
  BY DEF LlmQuery, Idle
<1>2. llmQueries' = [llmQueries EXCEPT ![c] = q] /\ llmQueries[c] = Idle
  BY DEF Begins, Goes
<1> HIDE DEF q
<1>3. IsFiniteSet(Busy') /\ Cardinality(Busy') = Cardinality(Busy) + 1 /\ Cardinality(Busy) \in Nat
  BY <1>1, <1>2, BusyMore, FS_CardinalityType DEF LlmInv
<1>4. /\ llmQueries' \in [Caller -> LlmQuery]
      /\ \A d \in Caller : llmQueries'[d].at = "calling" => hasKey
  BY <1>1, <1>2 DEF LlmInv
<1>5. UNCHANGED <<hasKey, breaker, failedInARow>> /\ totals' = [totals EXCEPT !.requests = @ + 1]
  BY DEF Begins
<1>6. ClientAccounts'
  BY <1>3, <1>5 DEF LlmInv, LlmTotals, ClientAccounts, Busy
<1> QED BY <1>3, <1>4, <1>5, <1>6 DEF LlmInv, LlmTotals

LEMMA CheckKeepsQueries ==
  ASSUME LlmAssumption, LlmInv, NEW c \in Caller, CheckBreaker(c) PROVE LlmInv'
<1> DEFINE q == [at |-> "calling", attempt |-> 1]
<1>1. q \in LlmQuery /\ q # Idle /\ llmQueries[c].at = "checking" /\ llmQueries[c] # Idle
  BY DEF LlmQuery, Idle, CheckBreaker
<1>2. /\ breaker' = Canonical!MaybeTransition(breaker) /\ UNCHANGED <<hasKey, failedInARow>>
      /\ breaker' \in LlmBreaker
      /\ breaker'.state = "Closed" => breaker.state = "Closed" /\ breaker' = breaker
  BY BreakerTypes, BreakerCounts DEF LlmInv, CheckBreaker
<1>3. CASE llmQueries' = [llmQueries EXCEPT ![c] = Idle] /\ totals' = FallBack(totals)
  <2>1. /\ IsFiniteSet(Busy') /\ Cardinality(Busy') = Cardinality(Busy) - 1
        /\ Cardinality(Busy) \in Nat
    BY <1>1, <1>3, BusyLess, FS_CardinalityType DEF LlmInv
  <2>2. /\ llmQueries' \in [Caller -> LlmQuery]
        /\ \A d \in Caller : llmQueries'[d].at = "calling" => hasKey
    BY <1>3, IdleIs DEF LlmInv
  <2>3. ClientAccounts' /\ totals' \in LlmTotals
    BY <1>2, <1>3, <2>1 DEF LlmInv, LlmTotals, ClientAccounts, Busy, FallBack
  <2> QED BY <1>2, <2>1, <2>2, <2>3 DEF LlmInv
<1>4. CASE hasKey /\ llmQueries' = [llmQueries EXCEPT ![c] = q] /\ totals' = totals
  <2> HIDE DEF q
  <2>1. Busy' = Busy
    BY <1>1, <1>4, BusySame
  <2>2. /\ llmQueries' \in [Caller -> LlmQuery]
        /\ \A d \in Caller : llmQueries'[d].at = "calling" => hasKey
    BY <1>1, <1>4 DEF LlmInv
  <2>3. ClientAccounts'
    BY <1>2, <1>4, <2>1 DEF LlmInv, LlmTotals, ClientAccounts, Busy
  <2> QED BY <1>2, <1>4, <2>1, <2>2, <2>3 DEF LlmInv
<1>5. hasKey \in BOOLEAN
  BY DEF LlmInv
<1> QED BY <1>3, <1>4, <1>5 DEF CheckBreaker, Goes

LEMMA SuccessKeeps ==
  ASSUME LlmAssumption, LlmInv, NEW c \in Caller, CallSucceeds(c) PROVE LlmInv'
<1>1. /\ llmQueries[c] # Idle /\ llmQueries' = [llmQueries EXCEPT ![c] = Idle]
      /\ totals' = [totals EXCEPT !.llm = @ + 1] /\ failedInARow' = 0 /\ hasKey' = hasKey
  BY DEF CallSucceeds, Idle
<1>2. breaker' \in LlmBreaker /\ (breaker'.state = "Closed" => breaker'.failureCount = 0)
  BY BreakerTypes, BreakerCounts DEF LlmInv, CallSucceeds
<1>3. /\ IsFiniteSet(Busy') /\ Cardinality(Busy') = Cardinality(Busy) - 1
      /\ Cardinality(Busy) \in Nat
  BY <1>1, BusyLess, FS_CardinalityType DEF LlmInv
<1>4. /\ llmQueries' \in [Caller -> LlmQuery]
      /\ \A d \in Caller : llmQueries'[d].at = "calling" => hasKey
  BY <1>1, IdleIs DEF LlmInv
<1>5. ClientAccounts' /\ totals' \in LlmTotals
  BY <1>1, <1>2, <1>3 DEF LlmInv, LlmTotals, ClientAccounts, Busy
<1> QED BY <1>1, <1>2, <1>3, <1>4, <1>5 DEF LlmInv

LEMMA FailureKeeps ==
  ASSUME LlmAssumption, LlmInv, NEW c \in Caller, NEW refused \in BOOLEAN, CallFails(c, refused)
  PROVE  LlmInv'
<1>1. llmQueries[c].at = "calling" /\ llmQueries[c] # Idle /\ hasKey /\ hasKey' = hasKey
  BY DEF CallFails, Idle, LlmInv
<1>2. CASE LastAttempt(c, refused)
  <2>1. /\ llmQueries' = [llmQueries EXCEPT ![c] = Idle] /\ failedInARow' = failedInARow + 1
        /\ totals' = FallBack([totals EXCEPT !.failures = @ + 1])
        /\ breaker' = Canonical!RecordFailure(breaker)
    BY <1>2 DEF CallFails, AfterFailure
  <2>2. /\ breaker' \in LlmBreaker
        /\ breaker'.state = "Closed" =>
             breaker.state = "Closed" /\ breaker'.failureCount = breaker.failureCount + 1
    BY <2>1, BreakerTypes, BreakerCounts DEF LlmInv
  <2>3. /\ IsFiniteSet(Busy') /\ Cardinality(Busy') = Cardinality(Busy) - 1
        /\ Cardinality(Busy) \in Nat
    BY <1>1, <2>1, BusyLess, FS_CardinalityType DEF LlmInv
  <2>4. /\ llmQueries' \in [Caller -> LlmQuery]
        /\ \A d \in Caller : llmQueries'[d].at = "calling" => hasKey
    BY <2>1, IdleIs DEF LlmInv
  <2>5. /\ totals' \in LlmTotals
        /\ totals'.requests = totals.requests /\ totals'.llm = totals.llm
        /\ totals'.dropped = totals.dropped /\ totals.dropped \in Nat
        /\ totals'.failures = totals.failures + 1 /\ totals'.fallbacks = totals.fallbacks + 1
        /\ totals.requests \in Nat /\ totals.llm \in Nat
        /\ totals.failures \in Nat /\ totals.fallbacks \in Nat
    <3>1. PICK one : one = [totals EXCEPT !.failures = @ + 1]
      OBVIOUS
    <3>2. totals \in LlmTotals
      BY DEF LlmInv
    <3>3. /\ one \in LlmTotals /\ one.failures = totals.failures + 1
          /\ one.requests = totals.requests /\ one.llm = totals.llm
          /\ one.fallbacks = totals.fallbacks /\ one.dropped = totals.dropped
      BY <3>1, <3>2 DEF LlmTotals
    <3>4. totals' = [one EXCEPT !.fallbacks = @ + 1]
      BY <2>1, <3>1, Zenon DEF FallBack
    <3> QED BY <3>2, <3>3, <3>4 DEF LlmTotals
  <2>6. ClientAccounts'
    <3>1. /\ totals.requests = totals.llm + totals.fallbacks + totals.dropped + Cardinality(Busy)
          /\ totals.failures <= totals.fallbacks /\ failedInARow \in Nat
          /\ breaker.state = "Closed" => breaker.failureCount = failedInARow
      BY DEF LlmInv, LlmTotals, ClientAccounts, Busy
    <3>2. /\ totals'.requests = totals'.llm + totals'.fallbacks + totals'.dropped + Cardinality(Busy')
          /\ totals'.failures <= totals'.fallbacks
      BY <2>3, <2>5, <3>1
    <3>3. breaker'.state = "Closed" => breaker'.failureCount = failedInARow'
      BY <2>1, <2>2, <3>1
    <3> QED BY <1>1, <3>2, <3>3 DEF ClientAccounts, Busy
  <2> QED BY <1>1, <2>1, <2>2, <2>3, <2>4, <2>5, <2>6 DEF LlmInv
<1>3. CASE ~LastAttempt(c, refused)
  <2> DEFINE q == [at |-> "calling", attempt |-> llmQueries[c].attempt + 1]
  <2>1. /\ llmQueries' = [llmQueries EXCEPT ![c] = q]
        /\ UNCHANGED <<breaker, totals, failedInARow>>
    BY <1>3 DEF CallFails, AfterFailure, Goes
  <2>2. q \in LlmQuery /\ q # Idle
    BY DEF LlmQuery, Idle, LlmInv
  <2> HIDE DEF q
  <2>3. Busy' = Busy
    BY <1>1, <2>1, <2>2, BusySame
  <2>4. /\ llmQueries' \in [Caller -> LlmQuery]
        /\ \A d \in Caller : llmQueries'[d].at = "calling" => hasKey
    BY <1>1, <2>1, <2>2 DEF LlmInv
  <2>5. ClientAccounts'
    BY <1>1, <2>1, <2>3 DEF LlmInv, LlmTotals, ClientAccounts, Busy
  <2> QED BY <1>1, <2>1, <2>3, <2>4, <2>5 DEF LlmInv
<1> QED BY <1>2, <1>3

LEMMA RecoveryKeeps == ASSUME LlmAssumption, LlmInv, RecoveryPasses PROVE LlmInv'
<1>1. /\ UNCHANGED <<hasKey, llmQueries, totals, failedInARow>> /\ breaker.openAge # NoTime
      /\ breaker' = [breaker EXCEPT !.openAge = @ + 1]
  BY DEF RecoveryPasses
<1>2. /\ breaker' \in LlmBreaker /\ breaker'.state = breaker.state
      /\ breaker'.failureCount = breaker.failureCount
  BY <1>1 DEF LlmInv, LlmBreaker
<1>3. Busy' = Busy /\ ClientAccounts'
  BY <1>1, <1>2 DEF LlmInv, LlmTotals, ClientAccounts, Busy
<1> QED BY <1>1, <1>2, <1>3 DEF LlmInv

-----------------------------------------------------------------------------
(***************************************************************************)
(* The engine: no provider is asked that is not configured, and the queries *)
(* with a provider can be counted.                                          *)
(***************************************************************************)
Asked == {c \in Caller : asking[c] # NoProvider}

EngineTotals == [queries : Nat, provided : Nat, dropped : Nat]

EngineInv ==
  /\ engine \in EngineTotals
  /\ asking = [c \in Caller |-> asking[c]] /\ IsFiniteSet(Asked)
  /\ EngineAccounts

\* resolve() gives only what is configured: whatever the routing rules say.
LEMMA ResolvesConfigured ==
  ASSUME NEW task, NEW p \in Resolve(task) PROVE p.configured
<1>1. PICK id : Configured(id) /\ p = registry.providers[id]
  <2> DEFINE order == registry.routing[task]
             first == {k \in DOMAIN order : Configured(order[k]) /\ \A j \in 1..k - 1 : ~Configured(order[j])}
             ids == IF first # {} THEN {order[k] : k \in first}
                    ELSE IF Configured(registry.default) THEN {registry.default}
                    ELSE {id \in DOMAIN registry.providers : Configured(id)}
  <2>1. PICK id \in ids : p = registry.providers[id]
    BY Zenon DEF Resolve
  <2>2. CASE first # {}
    <3>1. PICK k \in first : id = order[k]
      BY <2>1, <2>2
    <3> QED BY <2>1, <3>1
  <2>3. CASE first = {} /\ Configured(registry.default)
    BY <2>1, <2>3
  <2>4. CASE first = {} /\ ~Configured(registry.default)
    BY <2>1, <2>4
  <2> QED BY <2>2, <2>3, <2>4
<1> QED BY <1>1 DEF Configured

LEMMA ConfiguredIsAProvider == ASSUME NEW p, p.configured PROVE p # NoProvider
BY DEF NoProvider, Provider

LEMMA EngineInvInit == ASSUME LlmAssumption, LlmInit PROVE EngineInv
<1>1. asking = [c \in Caller |-> NoProvider] /\ engine = [queries |-> 0, provided |-> 0, dropped |-> 0]
      /\ totals.requests = 0
  BY DEF LlmInit
<1>2. Asked = {} /\ IsFiniteSet(Asked) /\ Cardinality(Asked) = 0
  BY <1>1, FS_EmptySet DEF Asked
<1> QED BY <1>1, <1>2 DEF EngineInv, EngineTotals, EngineAccounts, Asked

\* What the client does to a query of its own leaves the engine's account alone.
LEMMA ClientStepKeepsEngine ==
  ASSUME EngineInv, NEW c \in Caller, llmQueries[c] # Idle, UNCHANGED <<asking, engine>>,
         \A d \in Caller \ {c} : llmQueries'[d] = llmQueries[d],
         totals'.requests = totals.requests
  PROVE  EngineInv'
<1>1. Asked' = Asked
  BY DEF Asked
<1>2. \A d \in Caller : asking'[d] # NoProvider => llmQueries'[d] = Idle /\ asking'[d].configured
  BY DEF EngineInv, EngineAccounts
<1>3. engine'.queries = engine'.provided + engine'.dropped + totals'.requests + Cardinality(Asked')
  BY <1>1 DEF EngineInv, EngineAccounts, Asked
<1>4. EngineAccounts'
  BY <1>2, <1>3, Zenon DEF EngineAccounts, Asked
<1>5. /\ engine' \in EngineTotals
      /\ asking' = [d \in Caller |-> asking'[d]] /\ IsFiniteSet(Asked')
  BY <1>1 DEF EngineInv
<1> QED BY <1>4, <1>5, Zenon DEF EngineInv

LEMMA BeginsCounts ==
  ASSUME LlmInv, NEW c \in Caller, llmQueries[c] = Idle, Begins(c)
  PROVE  /\ totals'.requests = totals.requests + 1 /\ totals.requests \in Nat
         /\ \A d \in Caller \ {c} : llmQueries'[d] = llmQueries[d]
BY DEF LlmInv, LlmTotals, Begins, Goes

LEMMA QueryKeeps ==
  ASSUME LlmInv, EngineInv, NEW c \in Caller, Query(c) PROVE LlmInv' /\ EngineInv'
<1>1. /\ llmQueries[c] = Idle /\ asking[c] = NoProvider /\ engine \in EngineTotals
      /\ engine' = [engine EXCEPT !.queries = @ + 1]
      /\ engine.queries = engine.provided + engine.dropped + totals.requests + Cardinality(Asked)
      /\ IsFiniteSet(Asked) /\ Cardinality(Asked) \in Nat /\ totals.requests \in Nat
  BY FS_CardinalityType DEF Query, EngineInv, EngineAccounts, Asked, LlmInv, LlmTotals
<1>2. /\ engine' \in EngineTotals /\ engine'.queries = engine.queries + 1
      /\ engine'.provided = engine.provided /\ engine'.dropped = engine.dropped
      /\ engine.queries \in Nat /\ engine.provided \in Nat /\ engine.dropped \in Nat
  BY <1>1 DEF EngineTotals
<1>3. CASE Begins(c) /\ UNCHANGED asking
  <2>1. LlmInv'
    BY <1>1, <1>3, BeginsKeeps
  <2>2. /\ totals'.requests = totals.requests + 1
        /\ \A d \in Caller \ {c} : llmQueries'[d] = llmQueries[d]
    BY <1>1, <1>3, BeginsCounts
  <2>3. Asked' = Asked
    BY <1>3 DEF Asked
  <2>4. engine'.queries = engine'.provided + engine'.dropped + totals'.requests + Cardinality(Asked')
    BY <1>1, <1>2, <2>2, <2>3
  <2>5. \A d \in Caller : asking'[d] # NoProvider => llmQueries'[d] = Idle /\ asking'[d].configured
    BY <1>1, <1>3, <2>2 DEF EngineInv, EngineAccounts
  <2>6. EngineAccounts'
    BY <2>4, <2>5, Zenon DEF EngineAccounts, Asked
  <2>7. asking' = [d \in Caller |-> asking'[d]] /\ IsFiniteSet(Asked')
    BY <1>3, <2>3 DEF EngineInv
  <2> QED BY <1>2, <2>1, <2>6, <2>7, Zenon DEF EngineInv
<1>4. ASSUME NEW task \in TaskType, NEW p \in Resolve(task),
             asking' = [asking EXCEPT ![c] = p],
             UNCHANGED <<hasKey, breaker, llmQueries, totals, failedInARow>>
      PROVE  LlmInv' /\ EngineInv'
  <2>1. LlmInv'
    BY <1>4 DEF LlmInv, Busy, ClientAccounts
  <2>2. p.configured /\ p # NoProvider
    BY ResolvesConfigured, ConfiguredIsAProvider
  <2>3. /\ asking' = [d \in Caller |-> asking'[d]]
        /\ \A d \in Caller : asking'[d] = IF d = c THEN p ELSE asking[d]
    BY <1>4 DEF EngineInv
  <2>4. Asked' = Asked \cup {c} /\ c \notin Asked
    BY <1>1, <2>2, <2>3 DEF Asked
  <2>5. IsFiniteSet(Asked') /\ Cardinality(Asked') = Cardinality(Asked) + 1
    BY <1>1, <2>4, FS_AddElement
  <2>6. totals' = totals /\ llmQueries' = llmQueries
    BY <1>4
  <2>7. engine'.queries = engine'.provided + engine'.dropped + totals'.requests + Cardinality(Asked')
    <3>1. PICK q \in Nat, p1 \in Nat, d1 \in Nat, r \in Nat, n \in Nat :
            /\ q = engine.queries /\ p1 = engine.provided /\ d1 = engine.dropped
            /\ r = totals.requests /\ n = Cardinality(Asked)
      BY <1>1, <1>2, Zenon
    <3>2. q = p1 + d1 + r + n
      BY <1>1, <3>1, Zenon
    <3>3. q + 1 = p1 + d1 + r + (n + 1)
      BY <3>2
    <3> QED BY <1>2, <2>5, <2>6, <3>1, <3>3, Zenon
  <2>8. \A d \in Caller : asking'[d] # NoProvider => llmQueries'[d] = Idle /\ asking'[d].configured
    BY <1>1, <2>2, <2>3, <2>6 DEF EngineInv, EngineAccounts
  <2>9. EngineAccounts'
    BY <2>7, <2>8, Zenon DEF EngineAccounts, Asked
  <2> QED BY <1>2, <2>1, <2>3, <2>5, <2>9, Zenon DEF EngineInv
<1> QED BY <1>3, <1>4 DEF Query

\* A provider's answer, or its failure, is one query less with a provider.
LEMMA AskedLess ==
  ASSUME EngineInv, NEW c \in Caller, asking[c] # NoProvider,
         asking' = [asking EXCEPT ![c] = NoProvider]
  PROVE  /\ asking' = [d \in Caller |-> asking'[d]]
         /\ \A d \in Caller : asking'[d] = IF d = c THEN NoProvider ELSE asking[d]
         /\ IsFiniteSet(Asked') /\ Cardinality(Asked') = Cardinality(Asked) - 1
         /\ Cardinality(Asked) \in Nat
<1>1. /\ asking' = [d \in Caller |-> asking'[d]]
      /\ \A d \in Caller : asking'[d] = IF d = c THEN NoProvider ELSE asking[d]
  BY DEF EngineInv
<1>2. Asked' = Asked \ {c} /\ c \in Asked /\ IsFiniteSet(Asked)
  BY <1>1 DEF EngineInv, Asked
<1> QED BY <1>1, <1>2, FS_RemoveElement, FS_CardinalityType

LEMMA AskedHasResults == ASSUME NEW c, asking[c].results # {} PROVE asking[c] # NoProvider
BY DEF NoProvider, Provider

LEMMA AnswerKeeps ==
  ASSUME LlmInv, EngineInv, NEW c \in Caller, ProviderAnswers(c) PROVE LlmInv' /\ EngineInv'
<1>1. /\ asking[c] # NoProvider /\ asking' = [asking EXCEPT ![c] = NoProvider]
      /\ engine' = [engine EXCEPT !.provided = @ + 1] /\ engine \in EngineTotals
      /\ UNCHANGED <<hasKey, breaker, llmQueries, totals, failedInARow>>
  BY AskedHasResults DEF ProviderAnswers, EngineInv
<1>2. LlmInv'
  BY <1>1 DEF LlmInv, Busy, ClientAccounts
<1>3. /\ asking' = [d \in Caller |-> asking'[d]]
      /\ \A d \in Caller : asking'[d] = IF d = c THEN NoProvider ELSE asking[d]
      /\ IsFiniteSet(Asked') /\ Cardinality(Asked') = Cardinality(Asked) - 1
      /\ Cardinality(Asked) \in Nat
  BY <1>1, AskedLess
<1>4. /\ engine' \in EngineTotals /\ engine'.queries = engine.queries
      /\ engine'.provided = engine.provided + 1 /\ engine'.dropped = engine.dropped
      /\ engine.queries \in Nat /\ engine.provided \in Nat /\ engine.dropped \in Nat
  BY <1>1 DEF EngineTotals
<1>5. /\ engine.queries = engine.provided + engine.dropped + totals.requests + Cardinality(Asked)
      /\ totals.requests \in Nat /\ totals' = totals /\ llmQueries' = llmQueries
  BY <1>1 DEF EngineInv, EngineAccounts, Asked, LlmInv, LlmTotals
<1>6. engine'.queries = engine'.provided + engine'.dropped + totals'.requests + Cardinality(Asked')
  <2>1. PICK q \in Nat, p \in Nat, d \in Nat, r \in Nat, n \in Nat :
          /\ q = engine.queries /\ p = engine.provided /\ d = engine.dropped
          /\ r = totals.requests /\ n = Cardinality(Asked)
    BY <1>3, <1>4, <1>5, Zenon
  <2>2. q = p + d + r + n
    BY <1>5, <2>1, Zenon
  <2>3. q = (p + 1) + d + r + (n - 1)
    BY <2>2
  <2> QED BY <1>3, <1>4, <1>5, <2>1, <2>3, Zenon
<1>7. \A d \in Caller : asking'[d] # NoProvider => llmQueries'[d] = Idle /\ asking'[d].configured
  BY <1>3, <1>5 DEF EngineInv, EngineAccounts
<1>8. EngineAccounts'
  BY <1>6, <1>7, Zenon DEF EngineAccounts, Asked
<1> QED BY <1>2, <1>3, <1>4, <1>8, Zenon DEF EngineInv

LEMMA ProviderFailureKeeps ==
  ASSUME LlmInv, EngineInv, NEW c \in Caller, ProviderFails(c) PROVE LlmInv' /\ EngineInv'
<1>1. /\ asking[c] # NoProvider /\ asking' = [asking EXCEPT ![c] = NoProvider]
      /\ Begins(c) /\ engine' = engine
  BY AskedHasResults DEF ProviderFails
<1>2. llmQueries[c] = Idle
  BY <1>1 DEF EngineInv, EngineAccounts
<1>3. LlmInv'
  BY <1>1, <1>2, BeginsKeeps
<1>4. /\ asking' = [d \in Caller |-> asking'[d]]
      /\ \A d \in Caller : asking'[d] = IF d = c THEN NoProvider ELSE asking[d]
      /\ IsFiniteSet(Asked') /\ Cardinality(Asked') = Cardinality(Asked) - 1
      /\ Cardinality(Asked) \in Nat
  BY <1>1, AskedLess
<1>5. /\ totals'.requests = totals.requests + 1 /\ totals.requests \in Nat
      /\ \A d \in Caller \ {c} : llmQueries'[d] = llmQueries[d]
  BY <1>1, <1>2, BeginsCounts
<1>6. /\ engine.queries = engine.provided + engine.dropped + totals.requests + Cardinality(Asked)
      /\ engine \in EngineTotals
  BY DEF EngineInv, EngineAccounts, Asked
<1>7. engine'.queries = engine'.provided + engine'.dropped + totals'.requests + Cardinality(Asked')
  BY <1>1, <1>4, <1>5, <1>6 DEF EngineTotals
<1>8. \A d \in Caller : asking'[d] # NoProvider => llmQueries'[d] = Idle /\ asking'[d].configured
  BY <1>4, <1>5 DEF EngineInv, EngineAccounts
<1>9. EngineAccounts'
  BY <1>7, <1>8, Zenon DEF EngineAccounts, Asked
<1> QED BY <1>1, <1>3, <1>4, <1>6, <1>9, Zenon DEF EngineInv

\* The client's own steps: it answers a query it has, and counts no request.
LEMMA ClientKeepsEngine ==
  ASSUME LlmInv, EngineInv, NEW c \in Caller,
         \/ CheckBreaker(c)
         \/ CallSucceeds(c)
         \/ \E refused \in BOOLEAN : CallFails(c, refused)
  PROVE  EngineInv'
<1>1. llmQueries[c] # Idle /\ UNCHANGED <<asking, engine>>
  <2>1. CASE CheckBreaker(c)
    BY <2>1 DEF CheckBreaker, Idle, engineVars
  <2>2. CASE CallSucceeds(c)
    BY <2>2 DEF CallSucceeds, Idle, engineVars
  <2>3. ASSUME NEW refused \in BOOLEAN, CallFails(c, refused)
        PROVE  llmQueries[c] # Idle /\ UNCHANGED <<asking, engine>>
    BY <2>3 DEF CallFails, Idle, engineVars
  <2> QED BY <2>1, <2>2, <2>3
<1>2. /\ \A d \in Caller \ {c} : llmQueries'[d] = llmQueries[d]
      /\ totals'.requests = totals.requests
  <2>1. llmQueries \in [Caller -> LlmQuery]
        /\ totals \in LlmTotals
    BY DEF LlmInv
  <2> USE DEF LlmTotals
  <2>2. CASE CheckBreaker(c)
    BY <2>1, <2>2 DEF CheckBreaker, Goes, FallBack
  <2>3. CASE CallSucceeds(c)
    BY <2>1, <2>3 DEF CallSucceeds
  <2>4. ASSUME NEW refused \in BOOLEAN, CallFails(c, refused)
        PROVE  /\ \A d \in Caller \ {c} : llmQueries'[d] = llmQueries[d]
               /\ totals'.requests = totals.requests
    BY <2>1, <2>4 DEF CallFails, Goes, FallBack
  <2> QED BY <2>2, <2>3, <2>4
<1> QED BY <1>1, <1>2, ClientStepKeepsEngine

\* A query that is dropped, by the client or while a provider is asked, was counted.
LEMMA DropKeeps ==
  ASSUME LlmInv, EngineInv, NEW c \in Caller, DropQuery(c) PROVE LlmInv' /\ EngineInv'
<1>1. UNCHANGED <<hasKey, breaker, failedInARow>>
  BY DEF DropQuery
<1>2. CASE /\ llmQueries[c] # Idle /\ llmQueries' = [llmQueries EXCEPT ![c] = Idle]
           /\ totals' = [totals EXCEPT !.dropped = @ + 1] /\ UNCHANGED <<asking, engine>>
  <2>1. /\ IsFiniteSet(Busy') /\ Cardinality(Busy') = Cardinality(Busy) - 1
        /\ Cardinality(Busy) \in Nat
    BY <1>2, BusyLess, FS_CardinalityType DEF LlmInv
  <2>2. /\ llmQueries' \in [Caller -> LlmQuery]
        /\ \A d \in Caller : llmQueries'[d].at = "calling" => hasKey
        /\ \A d \in Caller \ {c} : llmQueries'[d] = llmQueries[d]
    BY <1>2, IdleIs DEF LlmInv
  <2>3. /\ ClientAccounts' /\ totals' \in LlmTotals
        /\ totals'.requests = totals.requests
    BY <1>1, <1>2, <2>1 DEF LlmInv, LlmTotals, ClientAccounts, Busy
  <2>4. LlmInv'
    BY <1>1, <2>1, <2>2, <2>3 DEF LlmInv
  <2> QED BY <1>2, <2>2, <2>3, <2>4, ClientStepKeepsEngine
<1>3. CASE /\ asking[c] # NoProvider /\ asking' = [asking EXCEPT ![c] = NoProvider]
           /\ engine' = [engine EXCEPT !.dropped = @ + 1] /\ UNCHANGED <<llmQueries, totals>>
  <2>1. LlmInv'
    BY <1>1, <1>3 DEF LlmInv, Busy, ClientAccounts
  <2>2. /\ asking' = [d \in Caller |-> asking'[d]]
        /\ \A d \in Caller : asking'[d] = IF d = c THEN NoProvider ELSE asking[d]
        /\ IsFiniteSet(Asked') /\ Cardinality(Asked') = Cardinality(Asked) - 1
        /\ Cardinality(Asked) \in Nat
    BY <1>3, AskedLess
  <2>3. engine \in EngineTotals
    BY DEF EngineInv
  <2>4. /\ engine' \in EngineTotals /\ engine'.queries = engine.queries
        /\ engine'.provided = engine.provided /\ engine'.dropped = engine.dropped + 1
        /\ engine.queries \in Nat /\ engine.provided \in Nat /\ engine.dropped \in Nat
    BY <1>3, <2>3 DEF EngineTotals
  <2>5. /\ engine.queries = engine.provided + engine.dropped + totals.requests + Cardinality(Asked)
        /\ totals.requests \in Nat
    BY DEF EngineInv, EngineAccounts, Asked, LlmInv, LlmTotals
  <2>6. engine'.queries = engine'.provided + engine'.dropped + totals'.requests + Cardinality(Asked')
    <3>1. PICK q \in Nat, p \in Nat, d \in Nat, r \in Nat, n \in Nat :
            /\ q = engine.queries /\ p = engine.provided /\ d = engine.dropped
            /\ r = totals.requests /\ n = Cardinality(Asked)
      BY <2>2, <2>4, <2>5, Zenon
    <3>2. q = p + d + r + n
      BY <2>5, <3>1, Zenon
    <3>3. q = p + (d + 1) + r + (n - 1)
      BY <3>2
    <3>4. totals'.requests = totals.requests
      BY <1>3, Zenon
    <3> QED BY <2>2, <2>4, <3>1, <3>3, <3>4, Zenon
  <2>7. \A d \in Caller : asking'[d] # NoProvider => llmQueries'[d] = Idle /\ asking'[d].configured
    BY <1>3, <2>2 DEF EngineInv, EngineAccounts
  <2>8. EngineAccounts'
    BY <2>6, <2>7, Zenon DEF EngineAccounts, Asked
  <2> QED BY <2>1, <2>2, <2>4, <2>8, Zenon DEF EngineInv
<1> QED BY <1>2, <1>3 DEF DropQuery

LEMMA EngineUnchanged ==
  ASSUME EngineInv, UNCHANGED <<llmQueries, totals, asking, engine>> PROVE EngineInv'
BY DEF EngineInv, EngineAccounts, Asked

\* The invariant holds.
LEMMA LlmInvAlways == ASSUME LlmAssumption PROVE LlmSpec => [](LlmInv /\ EngineInv)
<1> DEFINE Both == LlmInv /\ EngineInv
<1>1. LlmInit => Both
  BY LlmInvInit, EngineInvInit
<1>2. Both /\ [LlmNext]_llmVars => Both'
  <2> SUFFICES ASSUME Both, [LlmNext]_llmVars PROVE Both'
    OBVIOUS
  <2>1. CASE RecoveryPasses
    <3>1. UNCHANGED <<llmQueries, totals, asking, engine>>
      BY <2>1 DEF RecoveryPasses, engineVars
    <3> QED BY <2>1, <3>1, RecoveryKeeps, EngineUnchanged
  <2>2. CASE RegistryChanges
    <3>1. UNCHANGED <<hasKey, breaker, llmQueries, totals, failedInARow, asking, engine>>
      BY <2>2 DEF RegistryChanges
    <3>2. LlmInv'
      BY <3>1 DEF LlmInv, Busy, ClientAccounts
    <3> QED BY <3>1, <3>2, EngineUnchanged
  <2>3. ASSUME NEW c \in Caller, Query(c) PROVE Both'
    BY <2>3, QueryKeeps
  <2>4. ASSUME NEW c \in Caller, ProviderAnswers(c) PROVE Both'
    BY <2>4, AnswerKeeps
  <2>5. ASSUME NEW c \in Caller, ProviderFails(c) PROVE Both'
    BY <2>5, ProviderFailureKeeps
  <2>6. ASSUME NEW c \in Caller, CheckBreaker(c) PROVE Both'
    BY <2>6, CheckKeepsQueries, ClientKeepsEngine
  <2>7. ASSUME NEW c \in Caller, CallSucceeds(c) PROVE Both'
    BY <2>7, SuccessKeeps, ClientKeepsEngine
  <2>8. ASSUME NEW c \in Caller, NEW refused \in BOOLEAN, CallFails(c, refused) PROVE Both'
    BY <2>8, FailureKeeps, ClientKeepsEngine
  <2>10. ASSUME NEW c \in Caller, DropQuery(c) PROVE Both'
    BY <2>10, DropKeeps
  <2>9. CASE UNCHANGED llmVars
    <3>1. UNCHANGED <<hasKey, breaker, llmQueries, totals, failedInARow, asking, engine>>
      BY <2>9 DEF llmVars, engineVars
    <3>2. LlmInv'
      BY <3>1 DEF LlmInv, Busy, ClientAccounts
    <3> QED BY <3>1, <3>2, EngineUnchanged
  <2> QED BY <2>1, <2>2, <2>3, <2>4, <2>5, <2>6, <2>7, <2>8, <2>9, <2>10 DEF LlmNext
<1> QED BY <1>1, <1>2, PTL DEF LlmSpec

\* llm/mod.rs, llm/providers.rs: every query not dropped is answered once, by a provider, by the
\* model or by the rules; the breaker counts failed queries and not attempts, a client
\* without a key never tries, and no provider is asked that is not configured. For any
\* callers, retries, threshold, providers and routing rules.
THEOREM QueriesAccountedAlways ==
  ASSUME LlmAssumption PROVE LlmSpec => []QueriesAccounted
<1>1. LlmInv /\ EngineInv => QueriesAccounted
  BY DEF LlmInv, EngineInv, QueriesAccounted
<1> QED BY <1>1, LlmInvAlways, PTL

\* The breaker's counts stay within its thresholds, a query's attempts within the retries.
BreakerBounded(b) ==
  /\ b \in Canonical!Breaker
  /\ b.state = "Closed" => b.failureCount < FailureThreshold
  /\ b.state = "HalfOpen" => b.hoSuccesses < 3 /\ b.hoFailures < 2

AttemptsBounded ==
  \A c \in Caller : /\ llmQueries[c].attempt \in 0..MaxRetries
                    /\ llmQueries[c].at = "calling" => llmQueries[c].attempt >= 1

LEMMA BreakerStaysBounded ==
  ASSUME LlmAssumption, NEW b, BreakerBounded(b)
  PROVE  /\ BreakerBounded(Canonical!MaybeTransition(b))
         /\ BreakerBounded(Canonical!RecordSuccess(b))
         /\ BreakerBounded(Canonical!RecordFailure(b))
         /\ b.openAge # NoTime /\ b.openAge < RecoverySecs =>
              BreakerBounded([b EXCEPT !.openAge = @ + 1])
<1> USE DEF LlmAssumption, BreakerBounded, Canonical!Breaker, Canonical!CircuitState
<1>0. PICK st \in {"Closed", "Open", "HalfOpen"}, f \in 0..FailureThreshold, hs \in 0..3, hf \in 0..2 :
        \E age \in (0..RecoverySecs) \cup {NoTime} :
          b = [state |-> st, failureCount |-> f, hoSuccesses |-> hs, hoFailures |-> hf, openAge |-> age]
  OBVIOUS
<1>1. BreakerBounded(Canonical!MaybeTransition(b))
  BY DEF Canonical!MaybeTransition, Canonical!ToHalfOpen
<1>2. BreakerBounded(Canonical!RecordSuccess(b))
  BY DEF Canonical!RecordSuccess, Canonical!ToClosed
<1>3. BreakerBounded(Canonical!RecordFailure(b))
  BY DEF Canonical!RecordFailure, Canonical!ToOpen
<1>4. b.openAge # NoTime /\ b.openAge < RecoverySecs =>
        BreakerBounded([b EXCEPT !.openAge = @ + 1])
  OBVIOUS
<1> QED BY <1>1, <1>2, <1>3, <1>4

LEMMA LlmBoundsStay ==
  ASSUME LlmAssumption, LlmInv, BreakerBounded(breaker), AttemptsBounded, [LlmNext]_llmVars
  PROVE  BreakerBounded(breaker)' /\ AttemptsBounded'
<1>1. CASE UNCHANGED <<breaker, llmQueries>>
  BY <1>1 DEF BreakerBounded, AttemptsBounded, Canonical!Breaker
<1>2. ASSUME NEW c \in Caller, NEW at, NEW n \in 0..MaxRetries, at = "calling" => n >= 1, Goes(c, at, n)
      PROVE  AttemptsBounded'
  <2>1. \A d \in Caller : llmQueries'[d] = IF d = c THEN [at |-> at, attempt |-> n] ELSE llmQueries[d]
    BY <1>2 DEF Goes, LlmInv
  <2> QED BY <1>2, <2>1 DEF AttemptsBounded
<1>3. ASSUME NEW c \in Caller, llmQueries' = [llmQueries EXCEPT ![c] = Idle] PROVE AttemptsBounded'
  <2>1. Goes(c, "idle", 0)
    BY <1>3 DEF Goes, Idle
  <2>2. 0 \in 0..MaxRetries
    BY DEF LlmAssumption
  <2> QED BY <1>2, <2>1, <2>2
<1>4. UNCHANGED llmQueries => AttemptsBounded'
  BY DEF AttemptsBounded
<1>5. UNCHANGED breaker => BreakerBounded(breaker)'
  BY DEF BreakerBounded, Canonical!Breaker
<1>6. MaxRetries \in Nat /\ MaxRetries >= 1
  BY DEF LlmAssumption
<1>7. ASSUME NEW c \in Caller, Begins(c) PROVE BreakerBounded(breaker)' /\ AttemptsBounded'
  BY <1>2, <1>5, <1>6, <1>7 DEF Begins
<1>8. ASSUME NEW c \in Caller, CheckBreaker(c) PROVE BreakerBounded(breaker)' /\ AttemptsBounded'
  <2>1. BreakerBounded(breaker')
    BY <1>8, BreakerStaysBounded, Zenon DEF CheckBreaker
  <2>2. llmQueries' = [llmQueries EXCEPT ![c] = Idle] \/ Goes(c, "calling", 1)
    BY <1>8 DEF CheckBreaker
  <2>3. AttemptsBounded'
    BY <1>2, <1>3, <1>6, <2>2
  <2> QED BY <2>1, <2>3
<1>9. ASSUME NEW c \in Caller, CallSucceeds(c) PROVE BreakerBounded(breaker)' /\ AttemptsBounded'
  <2>1. BreakerBounded(breaker')
    BY <1>9, BreakerStaysBounded, Zenon DEF CallSucceeds
  <2> QED BY <1>3, <1>9, <2>1 DEF CallSucceeds
<1>10. ASSUME NEW c \in Caller, NEW refused \in BOOLEAN, CallFails(c, refused)
       PROVE  BreakerBounded(breaker)' /\ AttemptsBounded'
  <2>1. BreakerBounded(breaker')
    <3>1. breaker' = Canonical!RecordFailure(breaker) \/ breaker' = breaker
      BY <1>10 DEF CallFails, AfterFailure
    <3> QED BY <3>1, BreakerStaysBounded, Zenon
  <2>2. llmQueries[c].attempt \in 0..MaxRetries /\ llmQueries[c].attempt >= 1
    <3>1. llmQueries[c].at = "calling"
      BY <1>10, Zenon DEF CallFails
    <3> QED BY <3>1 DEF AttemptsBounded
  <2>3. CASE LastAttempt(c, refused)
    BY <1>3, <1>10, <2>1, <2>3 DEF CallFails
  <2>4. CASE ~LastAttempt(c, refused)
    <3>1. Goes(c, "calling", llmQueries[c].attempt + 1)
      BY <1>10, <2>4 DEF CallFails
    <3>2. llmQueries[c].attempt + 1 \in 0..MaxRetries /\ llmQueries[c].attempt + 1 >= 1
      BY <1>6, <2>2, <2>4 DEF LastAttempt
    <3> QED BY <1>2, <2>1, <3>1, <3>2
  <2> QED BY <2>3, <2>4
<1>11. CASE RecoveryPasses
  <2>1. BreakerBounded(breaker')
    BY <1>11, BreakerStaysBounded, Zenon DEF RecoveryPasses
  <2> QED BY <1>4, <1>11, <2>1 DEF RecoveryPasses
<1>12. CASE RegistryChanges
  BY <1>1, <1>12 DEF RegistryChanges
<1>13. ASSUME NEW c \in Caller, Query(c) PROVE BreakerBounded(breaker)' /\ AttemptsBounded'
  BY <1>1, <1>7, <1>13, Zenon DEF Query
<1>14. ASSUME NEW c \in Caller, ProviderAnswers(c) PROVE BreakerBounded(breaker)' /\ AttemptsBounded'
  BY <1>1, <1>14 DEF ProviderAnswers
<1>15. ASSUME NEW c \in Caller, ProviderFails(c) PROVE BreakerBounded(breaker)' /\ AttemptsBounded'
  BY <1>7, <1>15 DEF ProviderFails
<1>17. ASSUME NEW c \in Caller, DropQuery(c) PROVE BreakerBounded(breaker)' /\ AttemptsBounded'
  <2>1. BreakerBounded(breaker)'
    BY <1>5, <1>17 DEF DropQuery
  <2>2. llmQueries' = [llmQueries EXCEPT ![c] = Idle] \/ UNCHANGED llmQueries
    BY <1>17 DEF DropQuery
  <2> QED BY <1>3, <1>4, <2>1, <2>2
<1>16. CASE UNCHANGED llmVars
  BY <1>1, <1>16 DEF llmVars
<1> QED BY <1>8, <1>9, <1>10, <1>11, <1>12, <1>13, <1>14, <1>15, <1>16, <1>17, Zenon DEF LlmNext

\* llm/mod.rs: the breaker never counts beyond its thresholds, nor a query beyond its
\* retries.
THEOREM LlmTypesAlways == ASSUME LlmAssumption PROVE LlmSpec => []LlmTypeOK
<1> DEFINE Bounded == BreakerBounded(breaker) /\ AttemptsBounded
<1>1. LlmInit => Bounded
  <2> SUFFICES ASSUME LlmInit PROVE Bounded
    OBVIOUS
  <2>1. BreakerBounded(Canonical!New)
    BY DEF BreakerBounded, Canonical!New, Canonical!Breaker, Canonical!CircuitState, LlmAssumption
  <2>2. AttemptsBounded
    BY DEF LlmInit, Idle, AttemptsBounded, LlmAssumption
  <2> QED BY <2>1, <2>2, Zenon DEF LlmInit
<1>2. LlmInv /\ Bounded /\ [LlmNext]_llmVars => Bounded'
  BY LlmBoundsStay
<1>3. Bounded => LlmTypeOK
  BY Zenon DEF BreakerBounded, AttemptsBounded, LlmTypeOK
<1> QED BY <1>1, <1>2, <1>3, LlmInvAlways, PTL DEF LlmSpec

-----------------------------------------------------------------------------
\* A tool that needs no approval writes nothing (agent/tool_registry.rs).
LEMMA WritersNeedApproval ==
  \A n \in DOMAIN Tools : Tools[n].requires_approval \/ Tools[n].read_only
BY DEF Tools, Tool, credit_score_compute, credit_score_history, credit_risk_assessment,
  credit_decision_recommend, credit_batch_score, credit_cohort_analysis, credit_default_predict,
  credit_seasonality_adjust, market_analysis, market_price_lookup, market_demand_forecast,
  market_trend_detect, market_opportunity_scan, market_competitor_analysis,
  intelligence_report_generate, intelligence_anomaly_detect, intelligence_pattern_mine,
  intelligence_knowledge_query, data_transaction_query, data_cohort_lookup, data_aggregate,
  data_export, federated_status, federated_trigger_round, system_health_check,
  system_model_status

LEMMA NothingSaidYet == ASSUME NEW t PROVE <<>> = [i \in 1..0 |-> t]
OBVIOUS

\* The newest messages of a conversation, all if there are no more than may be.
LEMMA LastMessagesTyped ==
  ASSUME AgentAssumption, NEW S, NEW q \in Seq(S) PROVE LastMessages(q) \in Seq(S)
<1>1. Len(q) \in Nat /\ MaxMessages \in Nat
  BY DEF AgentAssumption
<1>2. /\ Min2(Len(q), MaxMessages) \in Nat /\ Min2(Len(q), MaxMessages) <= Len(q)
  BY <1>1 DEF Min2
<1> DEFINE m == Len(q) - Min2(Len(q), MaxMessages) + 1
<1>3. m \in 1..(Len(q) + 1)
  BY <1>1, <1>2
<1> HIDE DEF m
<1>4. SubSeq(q, m, Len(q)) \in Seq(S)
  BY <1>1, <1>3
<1> QED BY <1>4 DEF LastMessages, m

LEMMA AllSaid ==
  ASSUME NEW S, NEW t \in S, NEW n \in Nat
  PROVE  /\ [i \in 1..n |-> t] \in Seq(S) /\ Len([i \in 1..n |-> t]) = n
         /\ \A i \in 1..n : [k \in 1..n |-> t][i] = t
<1>1. [i \in 1..n |-> t] \in [1..n -> S]
  OBVIOUS
<1>2. [i \in 1..n |-> t] \in Seq(S)
  BY <1>1, SeqDef, Zenon
<1>3. DOMAIN [i \in 1..n |-> t] = 1..n
  OBVIOUS
<1>4. Len([i \in 1..n |-> t]) = n
  BY <1>2, <1>3, LenProperties
<1> QED BY <1>2, <1>4

LEMMA LastMessagesOfOne ==
  ASSUME AgentAssumption, NEW t \in Task, NEW s \in Nat
  PROVE  /\ LastMessages(Append([i \in 1..s |-> t], t)) = [i \in 1..Min2(s + 1, MaxMessages) |-> t]
         /\ Min2(s + 1, MaxMessages) \in Nat
<1>1. PICK a : a = [i \in 1..s |-> t]
  OBVIOUS
<1>3. a \in Seq(Task) /\ Len(a) = s /\ \A i \in 1..s : a[i] = t
  BY <1>1, AllSaid, Zenon
<1>4. PICK q : q = Append(a, t)
  OBVIOUS
<1>5. q \in Seq(Task) /\ Len(q) = s + 1 /\ \A i \in 1..(s + 1) : q[i] = t
  BY <1>3, <1>4
<1>0. MaxMessages \in Nat /\ s + 1 \in Nat
  BY DEF AgentAssumption
<1>6. PICK k \in Nat : k = Min2(s + 1, MaxMessages)
  BY <1>0 DEF Min2
<1>7. k <= s + 1
  BY <1>0, <1>6 DEF Min2
<1>8. PICK m \in Int : m = (s + 1) - k + 1
  BY <1>0, <1>6
<1>9. LastMessages(q) = SubSeq(q, m, s + 1)
  <2>1. Len(q) = s + 1
    BY <1>5
  <2>2. k = Min2(Len(q), MaxMessages)
    BY <1>6, <2>1, Zenon
  <2>3. LastMessages(q) = SubSeq(q, Len(q) - k + 1, Len(q))
    BY <2>2, Zenon DEF LastMessages
  <2> QED BY <1>8, <2>1, <2>3, Zenon
<1>10. \A i \in m..(s + 1) : q[i] \in Task
  BY <1>5, <1>7, <1>8
<1>11. /\ SubSeq(q, m, s + 1) \in Seq(Task)
       /\ Len(SubSeq(q, m, s + 1)) = IF m <= s + 1 THEN s + 1 - m + 1 ELSE 0
       /\ \A i \in 1..(s + 1) - m + 1 : SubSeq(q, m, s + 1)[i] = q[m + i - 1]
  BY <1>10, SubSeqProperties
<1>12. Len(SubSeq(q, m, s + 1)) = k /\ (s + 1) - m + 1 = k
  BY <1>7, <1>8, <1>11
<1>13. \A i \in 1..k : q[m + i - 1] = t
  BY <1>5, <1>7, <1>8
<1>14. PICK c : c = [i \in 1..k |-> t]
  OBVIOUS
<1>15. c \in Seq(Task) /\ Len(c) = k /\ \A i \in 1..k : c[i] = t
  BY <1>14, AllSaid, Zenon
<1>16. \A i \in 1..k : SubSeq(q, m, s + 1)[i] = c[i]
  BY <1>11, <1>12, <1>13, <1>15
<1>17. SubSeq(q, m, s + 1) = c
  BY <1>11, <1>12, <1>15, <1>16, SeqEqual
<1> QED BY <1>1, <1>4, <1>6, <1>9, <1>14, <1>17, Zenon

(***************************************************************************)
(* Agents: the invariant. A task that is alone is the only one at work;     *)
(* then the agent's state and conversation are its own, and where it is     *)
(* tells what they are. Of others nothing is known but that they count.     *)
(***************************************************************************)
AgentStates == {"Idle", "Running", "Completed", "MaxIterationsReached", "CircuitOpen"}
TaskRun ==
  [at : {"none", "begun", "reset", "prompted", "loop", "asking", "acting", "telling", "concluding",
        "left", "exhausted", "ending", "done"},
   iteration : Nat, failures : Nat, made : Nat, calls : Seq(Requested),
   answer : {"", "text", "stopped", "partial"}, result : {"none"} \cup AgentStates,
   said : Nat, llmStreak : Nat, alone : BOOLEAN]
Metrics == [completed : Nat, failed : Nat, iterations : Nat, toolCalls : Nat]

Unanswered(r, state) == r.answer = "" /\ state = "Running" /\ r.iteration = MaxIterations
Ended(r, state) ==
  \/ r.answer = "stopped" /\ state = "CircuitOpen" /\ r.llmStreak + 1 >= Threshold
  \/ r.answer \in {"text", ""} /\ state = "Completed"
  \/ r.answer = "partial" /\ state = "MaxIterationsReached" /\ r.iteration = MaxIterations

\* Where the agent's state is the task's own, and where it has said something.
Talking == {"prompted", "loop", "asking", "acting", "telling"}

OwnAgent(r, t, state, said) ==
  /\ r.failures <= r.llmStreak + 1
  /\ r.at \in {"begun", "reset"} \cup Talking => state = "Running" /\ r.answer = ""
  /\ r.at \in {"begun", "reset"} => r.said = 0
  /\ r.at = "reset" => said = <<>>
  /\ r.at \in Talking => said = [i \in 1..r.said |-> t]
  /\ r.at = "acting" => r.failures = 0
  /\ r.at = "concluding" => r.answer \in {"text", ""}
  /\ r.at = "left" => Ended(r, state) \/ Unanswered(r, state)
  /\ r.at = "exhausted" => Unanswered(r, state)
  /\ r.at = "ending" => Ended(r, state)
  /\ r.at = "done" => Ended(r, r.result)

Succeeded == {t \in Done : runs[t].result = "Completed"}

AgentTypes ==
  /\ agentState \in AgentStates /\ messages \in Seq(Task) /\ metrics \in Metrics
  /\ runs \in [Task -> TaskRun] /\ IsFiniteSet(Done)
  /\ \A t \in Task : At(t, "none") => runs[t] = NotStarted
AloneIsOnly ==
  \A t \in Task : runs[t].alone /\ Active(t) => \A u \in Task \ {t} : ~Active(u)
AloneOwns ==
  \A t \in Task : runs[t].alone => OwnAgent(runs[t], t, agentState, messages)
TasksCounted ==
  /\ metrics.completed = Cardinality(Succeeded)
  /\ metrics.completed + metrics.failed = Cardinality(Done)
  /\ strategies # {} => metrics.completed > 0

AgentInv == AgentTypes /\ AloneIsOnly /\ AloneOwns /\ TasksCounted /\ OnlyReads(executed)

\* What a task at rest ended with does not depend on the agent any more.
LEMMA AtRest ==
  ASSUME NEW r, r.at \in {"none", "done"}, NEW u, NEW state, NEW said, NEW state2, NEW said2,
         OwnAgent(r, u, state, said)
  PROVE  OwnAgent(r, u, state2, said2)
BY DEF OwnAgent, Talking

\* A task at work takes a step that is not its last.
LEMMA TaskMoves ==
  ASSUME AgentInv, NEW t \in Task, Active(t), NEW r \in TaskRun, r.at \notin {"none", "done"},
         r.alone = runs[t].alone, Step(t, r),
         agentState' \in AgentStates, messages' \in Seq(Task), metrics' \in Metrics,
         metrics'.completed = metrics.completed, metrics'.failed = metrics.failed,
         strategies' = strategies, OnlyReads(executed'),
         r.alone => OwnAgent(r, t, agentState', messages')
  PROVE  AgentInv'
<1>1. /\ runs \in [Task -> TaskRun] /\ runs' = [runs EXCEPT ![t] = r] /\ runs[t].at \notin {"none", "done"}
      /\ IsFiniteSet(Done)
  BY DEF AgentInv, AgentTypes, Step, Active
<1>2. runs' \in [Task -> TaskRun] /\ runs'[t] = r /\ \A u \in Task \ {t} : runs'[u] = runs[u]
  BY <1>1
<1>3. Done' = Done /\ Succeeded' = Succeeded
  BY <1>1, <1>2 DEF Done, Succeeded, At
<1>4. AgentTypes'
  BY <1>1, <1>2, <1>3 DEF AgentInv, AgentTypes, At
<1>5. AloneIsOnly'
  BY <1>1, <1>2 DEF AgentInv, AloneIsOnly, Active
<1>6. AloneOwns'
  <2> SUFFICES ASSUME NEW u \in Task, runs'[u].alone
               PROVE  OwnAgent(runs'[u], u, agentState', messages')
    BY DEF AloneOwns
  <2>1. CASE u = t
    BY <1>2, <2>1
  <2>2. CASE u # t
    <3>1. runs'[u] = runs[u] /\ runs[u].alone /\ OwnAgent(runs[u], u, agentState, messages)
      BY <1>2, <2>2 DEF AgentInv, AloneOwns
    <3>2. ~Active(u)
      BY <2>2, <3>1 DEF AgentInv, AloneIsOnly
    <3>3. runs[u].at \in {"none", "done"}
      BY <3>2 DEF Active
    <3> QED BY <3>1, <3>3, AtRest
  <2> QED BY <2>1, <2>2
<1>7. TasksCounted'
  BY <1>3 DEF AgentInv, TasksCounted
<1> QED BY <1>4, <1>5, <1>6, <1>7 DEF AgentInv

\* What is said of the conversation.
LEMMA Says ==
  ASSUME AgentAssumption, AgentInv, NEW t \in Task, Say(t)
  PROVE  /\ messages' \in Seq(Task) /\ Said(t) \in Nat
         /\ runs[t].alone /\ messages = [i \in 1..runs[t].said |-> t] =>
              messages' = [i \in 1..Said(t) |-> t]
<1>1. messages \in Seq(Task) /\ runs[t].said \in Nat
  BY DEF AgentInv, AgentTypes, TaskRun
<1>2. Append(messages, t) \in Seq(Task) /\ messages' = LastMessages(Append(messages, t))
  BY <1>1 DEF Say
<1>3. messages' \in Seq(Task)
  BY <1>2, LastMessagesTyped
<1>4. Said(t) \in Nat
  BY <1>1, LastMessagesOfOne DEF Said
<1>5. ASSUME runs[t].alone, messages = [i \in 1..runs[t].said |-> t]
      PROVE  messages' = [i \in 1..Said(t) |-> t]
  <2>1. Said(t) = Min2(runs[t].said + 1, MaxMessages)
    BY <1>5 DEF Said
  <2>2. PICK s \in Nat : s = runs[t].said
    BY <1>1
  <2>3. LastMessages(Append([i \in 1..s |-> t], t)) = [i \in 1..Min2(s + 1, MaxMessages) |-> t]
    BY LastMessagesOfOne
  <2> QED BY <1>2, <1>5, <2>1, <2>2, <2>3, Zenon
<1> QED BY <1>3, <1>4, <1>5

\* What the locals of a task are.
LEMMA RunTypes ==
  ASSUME NEW r \in TaskRun
  PROVE  /\ r.iteration \in Nat /\ r.failures \in Nat /\ r.made \in Nat /\ r.said \in Nat
         /\ r.llmStreak \in Nat /\ r.calls \in Seq(Requested) /\ r.alone \in BOOLEAN
         /\ r.answer \in {"", "text", "stopped", "partial"}
BY DEF TaskRun

LEMMA NoFailures == \A f, n \in Nat : f = 0 => f <= n + 1
OBVIOUS

\* A task that has not said anything owns an agent that runs.
LEMMA NothingSaid ==
  ASSUME NEW r \in TaskRun, r.at \in {"none", "begun"}, r.failures = 0, r.llmStreak = 0, r.said = 0,
         r.answer = "", NEW t, NEW state, NEW said, r.at = "begun" => state = "Running"
  PROVE  OwnAgent(r, t, state, said)
<1>1. r.failures <= r.llmStreak + 1
  BY RunTypes, NoFailures, Zenon
<1>2. CASE r.at = "none"
  BY <1>1, <1>2 DEF OwnAgent, Talking
<1>3. CASE r.at = "begun"
  BY <1>1, <1>3 DEF OwnAgent, Talking
<1> QED BY <1>2, <1>3

LEMMA NotAlone ==
  ASSUME NEW r \in TaskRun
  PROVE  LET q == [r EXCEPT !.alone = FALSE, !.said = 0, !.llmStreak = 0]
         IN  q \in TaskRun /\ q.alone = FALSE /\ q.at = r.at
BY DEF TaskRun

LEMMA Unstarted ==
  /\ NotStarted \in TaskRun /\ NotStarted.at = "none" /\ NotStarted.failures = 0
  /\ NotStarted.llmStreak = 0 /\ NotStarted.said = 0 /\ NotStarted.answer = ""
<1>1. <<>> \in Seq(Requested)
  OBVIOUS
<1> QED BY <1>1 DEF NotStarted, TaskRun

LEMMA AgentInvInit == ASSUME AgentAssumption, AgentInit PROVE AgentInv
<1>2. runs \in [Task -> TaskRun] /\ \A t \in Task : runs[t] = NotStarted
  BY Unstarted DEF AgentInit
<1>3. Done = {} /\ Succeeded = {}
  BY Unstarted, <1>2 DEF Done, Succeeded, At
<1>4. IsFiniteSet(Done) /\ Cardinality(Done) = 0 /\ Cardinality(Succeeded) = 0
  BY <1>3, FS_EmptySet
<1>5. messages \in Seq(Task)
  BY DEF AgentInit
<1>6. AgentTypes
  BY <1>2, <1>4, <1>5 DEF AgentInit, AgentTypes, AgentStates, Metrics
<1>7. AloneIsOnly
  BY Unstarted, <1>2 DEF AloneIsOnly, Active
<1>8. AloneOwns
  <2>1. ASSUME NEW t \in Task PROVE OwnAgent(NotStarted, t, agentState, messages)
    <3>1. /\ NotStarted.at \in {"none", "begun"} /\ NotStarted.at # "begun"
          /\ NotStarted.failures = 0 /\ NotStarted.llmStreak = 0
          /\ NotStarted.said = 0 /\ NotStarted.answer = ""
      BY Unstarted
    <3> QED BY <3>1, Unstarted, NothingSaid, Zenon
  <2> QED BY <1>2, <2>1, Zenon DEF AloneOwns
<1>9. TasksCounted /\ OnlyReads(executed)
  BY <1>4 DEF AgentInit, TasksCounted, OnlyReads
<1> QED BY <1>6, <1>7, <1>8, <1>9 DEF AgentInv

\* A task begins: those at work are alone no longer, nor is it if there are any.
LEMMA StartTaskKeeps == ASSUME AgentInv, NEW t \in Task, StartTask(t) PROVE AgentInv'
<1> DEFINE others == {u \in Task : Active(u)}
<1>1. /\ runs \in [Task -> TaskRun] /\ runs[t] = NotStarted /\ IsFiniteSet(Done)
  BY DEF AgentInv, AgentTypes, StartTask
<1>2. NotStarted \in TaskRun /\ NotStarted.at = "none"
  BY Unstarted
<1>3. t \notin others
  BY <1>1, <1>2 DEF Active
<1>4. PICK begun : begun = [NotStarted EXCEPT !.at = "begun", !.alone = others = {}]
  OBVIOUS
<1>5. /\ begun \in TaskRun /\ begun.at = "begun" /\ begun.alone = (others = {})
      /\ begun.failures = 0 /\ begun.llmStreak = 0 /\ begun.said = 0 /\ begun.answer = ""
  <2>1. CASE others = {}
    <3>1. begun = [NotStarted EXCEPT !.at = "begun", !.alone = TRUE]
      BY <1>4, <2>1, Zenon
    <3> QED BY <1>2, <2>1, <3>1, Unstarted DEF TaskRun
  <2>2. CASE others # {}
    <3>1. begun = [NotStarted EXCEPT !.at = "begun", !.alone = FALSE]
      BY <1>4, <2>2, Zenon
    <3> QED BY <1>2, <2>2, <3>1, Unstarted DEF TaskRun
  <2> QED BY <2>1, <2>2
<1>6. /\ runs'[t] = begun
      /\ \A u \in others : runs'[u] = [runs[u] EXCEPT !.alone = FALSE, !.said = 0, !.llmStreak = 0]
      /\ \A u \in Task \ (others \cup {t}) : runs'[u] = runs[u]
      /\ DOMAIN runs' = Task /\ runs' = [u \in Task |-> runs'[u]]
  BY <1>1, <1>3, <1>4 DEF StartTask
<1>7. \A u \in others : /\ runs'[u] \in TaskRun /\ runs'[u].at = runs[u].at
                        /\ runs'[u].alone = FALSE
  <2> SUFFICES ASSUME NEW u \in others
               PROVE  /\ runs'[u] \in TaskRun /\ runs'[u].at = runs[u].at
                      /\ runs'[u].alone = FALSE
    OBVIOUS
  <2>1. PICK r \in TaskRun : r = runs[u]
    BY <1>1
  <2>2. runs'[u] = [r EXCEPT !.alone = FALSE, !.said = 0, !.llmStreak = 0]
    BY <1>6, <2>1
  <2> QED BY <2>1, <2>2, NotAlone
<1>8. runs' \in [Task -> TaskRun]
  BY <1>1, <1>5, <1>6, <1>7
<1>9. \A u \in Task \ {t} : runs'[u].at = runs[u].at
  BY <1>6, <1>7
<1>10. Done' = Done
  BY <1>1, <1>2, <1>5, <1>6, <1>9 DEF Done, At
<1>11. \A u \in Done : runs'[u] = runs[u]
  BY <1>1, <1>2, <1>6 DEF Done, At, Active
<1>12. Succeeded' = Succeeded
  BY <1>10, <1>11 DEF Succeeded
<1>13. UNCHANGED <<messages, metrics, strategies, executed>> /\ agentState' = "Running"
  BY DEF StartTask
<1>14. AgentTypes'
  <2>1. ASSUME NEW u \in Task, runs'[u].at = "none" PROVE runs'[u] = NotStarted
    <3>1. u # t /\ runs[u].at = "none"
      BY <1>5, <1>6, <1>9, <2>1
    <3>2. u \notin others
      BY <3>1 DEF Active
    <3> QED BY <1>6, <3>1, <3>2 DEF AgentInv, AgentTypes, At
  <2> QED BY <1>1, <1>8, <1>10, <1>13, <2>1 DEF AgentInv, AgentTypes, At, AgentStates
<1>15. AloneIsOnly'
  <2> SUFFICES ASSUME NEW u \in Task, runs'[u].alone, Active(u)', NEW v \in Task \ {u}
               PROVE  ~Active(v)'
    BY DEF AloneIsOnly
  <2>1. u = t
    <3>1. CASE u \in others
      BY <1>7, <3>1
    <3>2. CASE u \notin others /\ u # t
      BY <1>6, <3>2 DEF Active
    <3> QED BY <3>1, <3>2
  <2>2. others = {}
    BY <1>5, <1>6, <2>1
  <2>3. ~Active(v)
    BY <2>2
  <2> QED BY <1>9, <2>1, <2>3 DEF Active
<1>16. AloneOwns'
  <2> SUFFICES ASSUME NEW u \in Task, runs'[u].alone
               PROVE  OwnAgent(runs'[u], u, agentState', messages')
    BY DEF AloneOwns
  <2>1. CASE u = t
    <3>1. OwnAgent(begun, t, agentState', messages')
      <4>1. begun.at \in {"none", "begun"}
        BY <1>5
      <4> QED BY <1>5, <1>13, <4>1, NothingSaid, Zenon
    <3> QED BY <1>6, <2>1, <3>1
  <2>2. CASE u \in others
    BY <1>7, <2>2
  <2>3. CASE u # t /\ u \notin others
    <3>1. runs'[u] = runs[u] /\ OwnAgent(runs[u], u, agentState, messages)
      BY <1>6, <2>3 DEF AgentInv, AloneOwns
    <3>2. runs[u].at \in {"none", "done"}
      BY <2>3 DEF Active
    <3> QED BY <3>1, <3>2, AtRest
  <2> QED BY <2>1, <2>2, <2>3
<1>17. TasksCounted' /\ OnlyReads(executed')
  BY <1>10, <1>12, <1>13 DEF AgentInv, TasksCounted
<1> QED BY <1>14, <1>15, <1>16, <1>17 DEF AgentInv

\* What a task that is alone knows of its agent, by where it is.
LEMMA OwnsInTheLoop ==
  ASSUME NEW r \in TaskRun, r.at \in Talking, NEW t, NEW state, NEW said
  PROVE  OwnAgent(r, t, state, said) <=>
           /\ r.failures <= r.llmStreak + 1 /\ state = "Running" /\ r.answer = ""
           /\ said = [i \in 1..r.said |-> t] /\ (r.at = "acting" => r.failures = 0)
<1>1. r.at \notin {"begun", "reset", "concluding", "left", "exhausted", "ending", "done"}
  BY DEF Talking
<1> QED BY <1>1, Zenon DEF OwnAgent

LEMMA OwnsConcluding ==
  ASSUME NEW r \in TaskRun, r.at = "concluding", NEW t, NEW state, NEW said
  PROVE  OwnAgent(r, t, state, said) <=>
           r.failures <= r.llmStreak + 1 /\ r.answer \in {"text", ""}
BY DEF OwnAgent, Talking

LEMMA OwnsBefore ==
  ASSUME NEW r \in TaskRun, r.at \in {"begun", "reset"}, NEW t, NEW state, NEW said
  PROVE  OwnAgent(r, t, state, said) <=>
           /\ r.failures <= r.llmStreak + 1 /\ state = "Running" /\ r.answer = ""
           /\ r.said = 0 /\ (r.at = "reset" => said = <<>>)
<1>1. CASE r.at = "begun"
  BY <1>1, Zenon DEF OwnAgent, Talking
<1>2. CASE r.at = "reset"
  BY <1>2, Zenon DEF OwnAgent, Talking
<1> QED BY <1>1, <1>2

LEMMA OwnsAfter ==
  ASSUME NEW r \in TaskRun, r.at \in {"left", "exhausted", "ending", "done"}, NEW t, NEW state,
         NEW said
  PROVE  OwnAgent(r, t, state, said) <=>
           /\ r.failures <= r.llmStreak + 1
           /\ r.at = "left" => Ended(r, state) \/ Unanswered(r, state)
           /\ r.at = "exhausted" => Unanswered(r, state)
           /\ r.at = "ending" => Ended(r, state)
           /\ r.at = "done" => Ended(r, r.result)
<1>1. CASE r.at = "left"
  BY <1>1, Zenon DEF OwnAgent, Talking
<1>2. CASE r.at = "exhausted"
  BY <1>2, Zenon DEF OwnAgent, Talking
<1>3. CASE r.at = "ending"
  BY <1>3, Zenon DEF OwnAgent, Talking
<1>4. CASE r.at = "done"
  BY <1>4, Zenon DEF OwnAgent, Talking
<1> QED BY <1>1, <1>2, <1>3, <1>4

\* What is the same if the agent, its conversation or its counters are.
LEMMA AgentStays ==
  ASSUME AgentInv
  PROVE  /\ agentState \in AgentStates /\ messages \in Seq(Task) /\ metrics \in Metrics
         /\ OnlyReads(executed)
         /\ \A t \in Task : runs[t] \in TaskRun /\ t \in DOMAIN runs
         /\ \A t \in Task : runs[t].alone => OwnAgent(runs[t], t, agentState, messages)
BY DEF AgentInv, AgentTypes, AloneOwns

LEMMA ForgetConversationKeeps ==
  ASSUME AgentInv, NEW t \in Task, ForgetConversation(t) PROVE AgentInv'
<1>1. PICK q \in TaskRun : q = runs[t]
  BY AgentStays
<1>2. q.at = "begun" /\ Active(t)
  BY <1>1 DEF ForgetConversation, At, Active
<1>3. PICK r : r = [q EXCEPT !.at = "reset"]
  OBVIOUS
<1>4. /\ r \in TaskRun /\ r.at = "reset" /\ r.alone = q.alone /\ r.failures = q.failures
      /\ r.llmStreak = q.llmStreak /\ r.answer = q.answer /\ r.said = q.said
  BY <1>3 DEF TaskRun
<1>5. Step(t, r)
  BY <1>1, <1>3, Zenon DEF ForgetConversation
<1>6. UNCHANGED <<agentState, metrics, strategies, executed>> /\ messages' = <<>>
  BY DEF ForgetConversation
<1>7. ASSUME r.alone PROVE OwnAgent(r, t, agentState', messages')
  <2>1. OwnAgent(q, t, agentState, messages)
    BY <1>1, <1>4, <1>7, AgentStays, Zenon
  <2>2. /\ q.failures <= q.llmStreak + 1 /\ agentState = "Running" /\ q.answer = ""
        /\ q.said = 0
    BY <1>2, <2>1, OwnsBefore
  <2>3. r.failures <= r.llmStreak + 1 /\ agentState' = "Running" /\ r.answer = "" /\ r.said = 0
    BY <1>4, <1>6, <2>2, Zenon
  <2> QED BY <1>4, <1>6, <2>3, OwnsBefore
<1>8. messages' \in Seq(Task)
  BY <1>6
<1> QED BY <1>1, <1>2, <1>4, <1>5, <1>6, <1>7, <1>8, AgentStays, TaskMoves

\* Each prompt is one message more; before the first the conversation is empty.
LEMMA PromptKeeps ==
  ASSUME AgentAssumption, AgentInv, NEW t \in Task,
         Prompt(t, "reset", "prompted") \/ Prompt(t, "prompted", "loop")
  PROVE  AgentInv'
<1>1. PICK q \in TaskRun : q = runs[t]
  BY AgentStays
<1>2. PICK from \in {"reset", "prompted"}, to \in {"prompted", "loop"} : Prompt(t, from, to)
  BY Zenon
<1>3. q.at = from /\ Active(t) /\ Say(t)
  BY <1>1, <1>2 DEF Prompt, At, Active
<1>4. /\ messages' \in Seq(Task) /\ Said(t) \in Nat
      /\ runs[t].alone /\ messages = [i \in 1..runs[t].said |-> t] =>
           messages' = [i \in 1..Said(t) |-> t]
  BY <1>3, Says
<1>5. PICK s \in Nat : s = Said(t)
  BY <1>4
<1>6. PICK r : r = [q EXCEPT !.at = to, !.said = s]
  OBVIOUS
<1>7. /\ r \in TaskRun /\ r.at = to /\ r.alone = q.alone /\ r.failures = q.failures
      /\ r.llmStreak = q.llmStreak /\ r.answer = q.answer /\ r.said = s
  BY <1>6 DEF TaskRun
<1>8. Step(t, r)
  BY <1>1, <1>2, <1>5, <1>6, Zenon DEF Prompt
<1>9. UNCHANGED <<agentState, metrics, strategies, executed>>
  BY <1>2 DEF Prompt
<1>10. ASSUME r.alone PROVE OwnAgent(r, t, agentState', messages')
  <2>1. OwnAgent(q, t, agentState, messages)
    BY <1>1, <1>7, <1>10, AgentStays, Zenon
  <2>4. /\ q.failures <= q.llmStreak + 1 /\ agentState = "Running" /\ q.answer = ""
        /\ messages = [i \in 1..q.said |-> t]
    <3>1. CASE q.at = "reset"
      <4>1. /\ q.failures <= q.llmStreak + 1 /\ agentState = "Running" /\ q.answer = ""
            /\ q.said = 0
        BY <2>1, <3>1, OwnsBefore
      <4>2. messages = <<>>
        BY <2>1, <3>1, Zenon DEF OwnAgent
      <4> QED BY <4>1, <4>2, NothingSaidYet, Zenon
    <3>2. CASE q.at = "prompted"
      <4>1. q.at \in Talking /\ q.at \notin {"begun", "reset"}
        BY <3>2 DEF Talking
      <4> QED BY <2>1, <4>1, OwnsInTheLoop, Zenon
    <3> QED BY <1>3, <3>1, <3>2
  <2>5. messages' = [i \in 1..r.said |-> t]
    BY <1>1, <1>4, <1>5, <1>7, <1>10, <2>4, Zenon
  <2>6. r.failures <= r.llmStreak + 1 /\ agentState' = "Running" /\ r.answer = ""
    BY <1>7, <1>9, <2>4, Zenon
  <2>7. r.at \in Talking /\ r.at # "acting"
    BY <1>7 DEF Talking
  <2> QED BY <1>7, <2>5, <2>6, <2>7, OwnsInTheLoop, Zenon
<1> QED BY <1>1, <1>3, <1>4, <1>7, <1>8, <1>9, <1>10, AgentStays, TaskMoves

\* In the loop a task that is alone has said all there is of the conversation.
LEMMA AloneInTheLoop ==
  ASSUME AgentInv, NEW t \in Task, runs[t].at \in Talking, runs[t].alone
  PROVE  /\ runs[t].failures <= runs[t].llmStreak + 1 /\ agentState = "Running"
         /\ runs[t].answer = "" /\ messages = [i \in 1..runs[t].said |-> t]
         /\ runs[t].at = "acting" => runs[t].failures = 0
<1>1. PICK q \in TaskRun : q = runs[t]
  BY AgentStays
<1>2. q.at \in Talking /\ OwnAgent(q, t, agentState, messages)
  BY <1>1, AgentStays
<1>3. /\ q.failures <= q.llmStreak + 1 /\ agentState = "Running" /\ q.answer = ""
      /\ messages = [i \in 1..q.said |-> t] /\ (q.at = "acting" => q.failures = 0)
  BY <1>2, OwnsInTheLoop, Zenon
<1> QED BY <1>1, <1>3, Zenon

LEMMA AskLlmKeeps == ASSUME AgentInv, NEW t \in Task, AskLlm(t) PROVE AgentInv'
<1>1. PICK q \in TaskRun : q = runs[t]
  BY AgentStays
<1>2. q.at = "loop" /\ Active(t)
  BY <1>1 DEF AskLlm, At, Active
<1>3. PICK r : r = [q EXCEPT !.at = "asking"]
  OBVIOUS
<1>4. /\ r \in TaskRun /\ r.at = "asking" /\ r.alone = q.alone /\ r.failures = q.failures
      /\ r.llmStreak = q.llmStreak /\ r.answer = q.answer /\ r.said = q.said
  BY <1>3 DEF TaskRun
<1>5. Step(t, r)
  BY <1>1, <1>3, Zenon DEF AskLlm
<1>6. UNCHANGED <<agentState, messages, metrics, strategies, executed>>
  BY DEF AskLlm
<1>7. ASSUME r.alone PROVE OwnAgent(r, t, agentState', messages')
  <2>1. runs[t].at \in Talking /\ runs[t].alone
    BY <1>1, <1>2, <1>4, <1>7 DEF Talking
  <2>2. /\ q.failures <= q.llmStreak + 1 /\ agentState = "Running"
        /\ q.answer = "" /\ messages = [i \in 1..q.said |-> t]
    BY <1>1, <2>1, AloneInTheLoop, Zenon
  <2>3. /\ r.failures <= r.llmStreak + 1 /\ agentState' = "Running"
        /\ r.answer = "" /\ messages' = [i \in 1..r.said |-> t]
    BY <1>4, <1>6, <2>2, Zenon
  <2> QED BY <1>4, <2>3, OwnsInTheLoop DEF Talking
<1> QED BY <1>1, <1>2, <1>4, <1>5, <1>6, <1>7, AgentStays, TaskMoves

\* The circuit opens on as many failures, which of one that is alone the LLM's
\* are but for one.
LEMMA OpenCircuitKeeps ==
  ASSUME AgentAssumption, AgentInv, NEW t \in Task, OpenCircuit(t) PROVE AgentInv'
<1>1. PICK q \in TaskRun : q = runs[t]
  BY AgentStays
<1>2. q.at = "loop" /\ Active(t) /\ q.failures >= Threshold
  BY <1>1 DEF OpenCircuit, At, Active
<1>3. PICK r : r = [q EXCEPT !.at = "left", !.answer = "stopped"]
  OBVIOUS
<1>4. /\ r \in TaskRun /\ r.at = "left" /\ r.alone = q.alone /\ r.failures = q.failures
      /\ r.llmStreak = q.llmStreak /\ r.answer = "stopped"
  BY <1>3 DEF TaskRun
<1>5. Step(t, r)
  BY <1>1, <1>3, Zenon DEF OpenCircuit
<1>6. UNCHANGED <<messages, metrics, strategies, executed>> /\ agentState' = "CircuitOpen"
  BY DEF OpenCircuit
<1>7. ASSUME r.alone PROVE OwnAgent(r, t, agentState', messages')
  <2>1. runs[t].at \in Talking /\ runs[t].alone
    BY <1>1, <1>2, <1>4, <1>7 DEF Talking
  <2>2. q.failures <= q.llmStreak + 1
    BY <1>1, <2>1, AloneInTheLoop, Zenon
  <2>3. /\ q.failures \in Nat /\ q.llmStreak \in Nat /\ Threshold \in Nat
    BY <1>1, RunTypes DEF AgentAssumption
  <2>4. q.llmStreak + 1 >= Threshold
    BY <1>2, <2>2, <2>3
  <2>5. Ended(r, agentState')
    BY <1>4, <1>6, <2>4, Zenon DEF Ended
  <2>6. r.failures <= r.llmStreak + 1
    BY <1>4, <2>2, Zenon
  <2> QED BY <1>4, <2>5, <2>6, OwnsAfter
<1>8. agentState' \in AgentStates
  BY <1>6 DEF AgentStates
<1> QED BY <1>1, <1>2, <1>4, <1>5, <1>6, <1>7, <1>8, AgentStays, TaskMoves

LEMMA IterationsUsedKeeps ==
  ASSUME AgentInv, NEW t \in Task, IterationsUsed(t) PROVE AgentInv'
<1>1. PICK q \in TaskRun : q = runs[t]
  BY AgentStays
<1>2. q.at = "loop" /\ Active(t) /\ q.iteration = MaxIterations
  BY <1>1 DEF IterationsUsed, At, Active
<1>3. PICK r : r = [q EXCEPT !.at = "left"]
  OBVIOUS
<1>4. /\ r \in TaskRun /\ r.at = "left" /\ r.alone = q.alone /\ r.failures = q.failures
      /\ r.llmStreak = q.llmStreak /\ r.answer = q.answer /\ r.iteration = q.iteration
  BY <1>3 DEF TaskRun
<1>5. Step(t, r)
  BY <1>1, <1>3, Zenon DEF IterationsUsed
<1>6. UNCHANGED <<agentState, messages, metrics, strategies, executed>>
  BY DEF IterationsUsed
<1>7. ASSUME r.alone PROVE OwnAgent(r, t, agentState', messages')
  <2>1. runs[t].at \in Talking /\ runs[t].alone
    BY <1>1, <1>2, <1>4, <1>7 DEF Talking
  <2>2. q.failures <= q.llmStreak + 1 /\ agentState = "Running" /\ q.answer = ""
    BY <1>1, <2>1, AloneInTheLoop, Zenon
  <2>3. Unanswered(r, agentState')
    BY <1>2, <1>4, <1>6, <2>2, Zenon DEF Unanswered
  <2>4. r.failures <= r.llmStreak + 1
    BY <1>4, <2>2, Zenon
  <2> QED BY <1>4, <2>3, <2>4, OwnsAfter
<1> QED BY <1>1, <1>2, <1>4, <1>5, <1>6, <1>7, AgentStays, TaskMoves

LEMMA LlmFailsKeeps == ASSUME AgentInv, NEW t \in Task, LlmFails(t) PROVE AgentInv'
<1>1. PICK q \in TaskRun : q = runs[t]
  BY AgentStays
<1>2. q.at = "asking" /\ Active(t)
  BY <1>1 DEF LlmFails, At, Active
<1>3. /\ q.iteration \in Nat /\ q.failures \in Nat /\ q.llmStreak \in Nat
  BY <1>1, RunTypes
<1>4. FailedInARow(t) \in Nat
  BY <1>1, <1>3 DEF FailedInARow
<1>5. PICK i \in Nat : i = q.iteration + 1
  BY <1>3
<1>6. PICK f \in Nat : f = q.failures + 1
  BY <1>3
<1>7. PICK k \in Nat : k = FailedInARow(t)
  BY <1>4
<1>8. PICK r : r = [q EXCEPT !.at = "loop", !.iteration = i, !.failures = f, !.llmStreak = k]
  OBVIOUS
<1>9. /\ r \in TaskRun /\ r.at = "loop" /\ r.alone = q.alone /\ r.failures = f
      /\ r.llmStreak = k /\ r.answer = q.answer /\ r.said = q.said
  BY <1>8 DEF TaskRun
<1>10. Step(t, r)
  BY <1>1, <1>5, <1>6, <1>7, <1>8, Zenon DEF LlmFails
<1>11. UNCHANGED <<agentState, messages, metrics, strategies, executed>>
  BY DEF LlmFails
<1>12. ASSUME r.alone PROVE OwnAgent(r, t, agentState', messages')
  <2>1. runs[t].at \in Talking /\ runs[t].alone
    BY <1>1, <1>2, <1>9, <1>12 DEF Talking
  <2>2. /\ q.failures <= q.llmStreak + 1 /\ agentState = "Running"
        /\ q.answer = "" /\ messages = [j \in 1..q.said |-> t]
    BY <1>1, <2>1, AloneInTheLoop, Zenon
  <2>3. k = q.llmStreak + 1
    BY <1>1, <1>7, <2>1, Zenon DEF FailedInARow
  <2>4. f <= k + 1
    <3>1. q.failures <= q.llmStreak + 1
      BY <2>2, Zenon
    <3> QED BY <1>3, <1>6, <2>3, <3>1
  <2>5. /\ r.failures <= r.llmStreak + 1 /\ agentState' = "Running"
        /\ r.answer = "" /\ messages' = [j \in 1..r.said |-> t]
    BY <1>9, <1>11, <2>2, <2>4, Zenon
  <2> QED BY <1>9, <2>5, OwnsInTheLoop DEF Talking
<1> QED BY <1>1, <1>2, <1>9, <1>10, <1>11, <1>12, AgentStays, TaskMoves

\* What a call reaches that needs no approval writes nothing.
LEMMA ExecutedReads == ASSUME NEW c, Executes(c) PROVE Tools[c.tool].read_only
<1>1. c.tool \in DOMAIN Tools
  BY DEF Executes, Validate
<1> QED BY <1>1, WritersNeedApproval DEF Executes, NeedsApproval

LEMMA IterationCounted ==
  ASSUME NEW m \in Metrics
  PROVE  LET c == [m EXCEPT !.iterations = @ + 1]
         IN  c \in Metrics /\ c.completed = m.completed /\ c.failed = m.failed
<1>1. m.iterations \in Nat
  BY DEF Metrics
<1>2. PICK i \in Nat : i = m.iterations + 1
  BY <1>1
<1>3. LET c == [m EXCEPT !.iterations = i]
      IN  c \in Metrics /\ c.completed = m.completed /\ c.failed = m.failed
  BY DEF Metrics
<1> QED BY <1>2, <1>3, Zenon

LEMMA LlmAsksForToolsKeeps ==
  ASSUME AgentAssumption, AgentInv, NEW t \in Task, NEW calls \in CallLists,
         LlmAsksForTools(t, calls)
  PROVE  AgentInv'
<1>1. PICK q \in TaskRun : q = runs[t]
  BY AgentStays
<1>2. q.at = "asking" /\ Active(t)
  BY <1>1 DEF LlmAsksForTools, At, Active
<1>3. Say(t)
  BY DEF LlmAsksForTools
<1>4. /\ messages' \in Seq(Task) /\ Said(t) \in Nat
      /\ runs[t].alone /\ messages = [i \in 1..runs[t].said |-> t] =>
           messages' = [i \in 1..Said(t) |-> t]
  BY <1>3, Says
<1>5. PICK s \in Nat : s = Said(t)
  BY <1>4
<1>6. PICK list \in Seq(Requested) :
        list = SubSeq(calls, 1, Min2(Len(calls), MaxToolCalls))
  <2>1. calls \in Seq(Requested)
    BY DEF AgentAssumption
  <2>2. MaxToolCalls \in Nat /\ Len(calls) \in Nat
    BY <2>1 DEF AgentAssumption
  <2>3. Min2(Len(calls), MaxToolCalls) \in 0..Len(calls)
    BY <2>2 DEF Min2
  <2>4. PICK m \in 0..Len(calls) : m = Min2(Len(calls), MaxToolCalls)
    BY <2>3
  <2>5. SubSeq(calls, 1, m) \in Seq(Requested)
    BY <2>1, <2>2
  <2> QED BY <2>4, <2>5
<1>7. PICK r : r = [q EXCEPT !.at = "acting", !.failures = 0, !.llmStreak = 0, !.said = s,
                             !.calls = list]
  OBVIOUS
<1>8. /\ r \in TaskRun /\ r.at = "acting" /\ r.alone = q.alone /\ r.failures = 0
      /\ r.llmStreak = 0 /\ r.answer = q.answer /\ r.said = s
  BY <1>7 DEF TaskRun
<1>9. Step(t, r)
  BY <1>1, <1>5, <1>6, <1>7, Zenon DEF LlmAsksForTools
<1>10. UNCHANGED <<agentState, metrics, strategies, executed>>
  BY DEF LlmAsksForTools
<1>11. ASSUME r.alone PROVE OwnAgent(r, t, agentState', messages')
  <2>1. runs[t].at \in Talking /\ runs[t].alone
    BY <1>1, <1>2, <1>8, <1>11 DEF Talking
  <2>2. /\ agentState = "Running" /\ q.answer = "" /\ messages = [i \in 1..runs[t].said |-> t]
    BY <1>1, <2>1, AloneInTheLoop, Zenon
  <2>3. r.failures <= r.llmStreak + 1
    BY <1>8, RunTypes, NoFailures, Zenon
  <2>4. agentState' = "Running" /\ r.answer = "" /\ messages' = [i \in 1..r.said |-> t]
    BY <1>4, <1>5, <1>8, <1>10, <2>1, <2>2, Zenon
  <2> QED BY <1>8, <2>3, <2>4, OwnsInTheLoop DEF Talking
<1> QED BY <1>1, <1>2, <1>4, <1>8, <1>9, <1>10, <1>11, AgentStays, TaskMoves

\* What the tools return is a failure of the first kind at most.
LEMMA ToolsReturnKeeps ==
  ASSUME AgentAssumption, AgentInv, NEW t \in Task, NEW results, ToolsReturn(t, results)
  PROVE  AgentInv'
<1>1. PICK q \in TaskRun : q = runs[t]
  BY AgentStays
<1>2. q.at = "acting" /\ Active(t)
  BY <1>1 DEF ToolsReturn, At, Active
<1>3. /\ q.calls \in Seq(Requested) /\ q.iteration \in Nat /\ q.made \in Nat /\ q.failures \in Nat
      /\ q.llmStreak \in Nat
  BY <1>1, RunTypes
<1>4. PICK n \in Nat : n = Len(q.calls)
  BY <1>3
<1>9. PICK m \in Nat : m = q.made + n
  BY <1>3
<1>10. PICK f \in Nat : f = IF n > 0 /\ \A j \in 1..n : results[j] = "failed"
                            THEN q.failures + 1 ELSE q.failures
  BY <1>3
<1>11. PICK r : r = [q EXCEPT !.at = "telling", !.made = m, !.failures = f]
  OBVIOUS
<1>12. /\ r \in TaskRun /\ r.at = "telling" /\ r.alone = q.alone /\ r.failures = f
       /\ r.llmStreak = q.llmStreak /\ r.answer = q.answer /\ r.said = q.said
  BY <1>11 DEF TaskRun
<1>13. Step(t, r)
  BY <1>1, <1>4, <1>9, <1>10, <1>11, Zenon DEF ToolsReturn
<1>14. UNCHANGED <<agentState, messages, metrics, strategies>>
  BY DEF ToolsReturn
<1>16. OnlyReads(executed')
  <2>1. executed' = executed \cup {q.calls[j].tool : j \in {k \in 1..n : Executes(q.calls[k])}}
    BY <1>1, <1>4, Zenon DEF ToolsReturn
  <2>2. OnlyReads(executed)
    BY AgentStays
  <2>3. ASSUME NEW name \in executed', name \notin executed PROVE Tools[name].read_only
    <3>1. PICK j : Executes(q.calls[j]) /\ name = q.calls[j].tool
      BY <2>1, <2>3
    <3> QED BY <3>1, ExecutedReads, Zenon
  <2> QED BY <2>2, <2>3 DEF OnlyReads
<1>17. ASSUME r.alone PROVE OwnAgent(r, t, agentState', messages')
  <2>1. runs[t].at \in Talking /\ runs[t].alone /\ runs[t].at = "acting"
    BY <1>1, <1>2, <1>12, <1>17 DEF Talking
  <2>2. /\ agentState = "Running" /\ q.answer = "" /\ messages = [j \in 1..q.said |-> t]
        /\ q.failures = 0
    BY <1>1, <2>1, AloneInTheLoop, Zenon
  <2>3. q.failures = 0
    BY <2>2, Zenon
  <2>4. f <= q.llmStreak + 1
    BY <1>3, <1>10, <2>3
  <2>5. r.failures <= r.llmStreak + 1
    BY <1>12, <2>4, Zenon
  <2>6. agentState' = "Running" /\ r.answer = "" /\ messages' = [j \in 1..r.said |-> t]
    BY <1>12, <1>14, <2>2, Zenon
  <2> QED BY <1>12, <2>5, <2>6, OwnsInTheLoop DEF Talking
<1> QED BY <1>1, <1>2, <1>12, <1>13, <1>14, <1>16, <1>17, AgentStays, TaskMoves

\* Each result is a message more.
LEMMA TellResultKeeps ==
  ASSUME AgentAssumption, AgentInv, NEW t \in Task, TellResult(t) PROVE AgentInv'
<1>1. PICK q \in TaskRun : q = runs[t]
  BY AgentStays
<1>2. q.at = "telling" /\ Active(t) /\ q.calls # <<>> /\ Say(t)
  BY <1>1 DEF TellResult, At, Active
<1>3. /\ messages' \in Seq(Task) /\ Said(t) \in Nat
      /\ runs[t].alone /\ messages = [i \in 1..runs[t].said |-> t] =>
           messages' = [i \in 1..Said(t) |-> t]
  BY <1>2, Says
<1>4. PICK s \in Nat : s = Said(t)
  BY <1>3
<1>5. PICK rest \in Seq(Requested) : rest = Tail(q.calls)
  <2>1. PICK asked \in Seq(Requested) : asked = q.calls
    BY RunTypes
  <2>2. Tail(asked) \in Seq(Requested)
    BY <1>2, <2>1
  <2> QED BY <2>1, <2>2, Zenon
<1>6. PICK r : r = [q EXCEPT !.calls = rest, !.said = s]
  OBVIOUS
<1>7. /\ r \in TaskRun /\ r.at = q.at /\ r.alone = q.alone /\ r.failures = q.failures
      /\ r.llmStreak = q.llmStreak /\ r.answer = q.answer /\ r.said = s
  BY <1>6 DEF TaskRun
<1>8. Step(t, r)
  BY <1>1, <1>4, <1>5, <1>6, Zenon DEF TellResult
<1>9. UNCHANGED <<agentState, metrics, strategies, executed>>
  BY DEF TellResult
<1>10. ASSUME r.alone PROVE OwnAgent(r, t, agentState', messages')
  <2>1. runs[t].at \in Talking /\ runs[t].alone
    BY <1>1, <1>2, <1>7, <1>10 DEF Talking
  <2>2. /\ q.failures <= q.llmStreak + 1 /\ agentState = "Running" /\ q.answer = ""
        /\ messages = [i \in 1..runs[t].said |-> t]
    BY <1>1, <2>1, AloneInTheLoop, Zenon
  <2>3. /\ r.failures <= r.llmStreak + 1 /\ agentState' = "Running" /\ r.answer = ""
        /\ messages' = [i \in 1..r.said |-> t]
    BY <1>3, <1>4, <1>7, <1>9, <2>1, <2>2, Zenon
  <2> QED BY <1>2, <1>7, <2>3, OwnsInTheLoop DEF Talking
<1> QED BY <1>1, <1>2, <1>3, <1>7, <1>8, <1>9, <1>10, AgentStays, TaskMoves

LEMMA NextIterationKeeps == ASSUME AgentInv, NEW t \in Task, NextIteration(t) PROVE AgentInv'
<1>1. PICK q \in TaskRun : q = runs[t]
  BY AgentStays
<1>2. q.at = "telling" /\ Active(t)
  BY <1>1 DEF NextIteration, At, Active
<1>3. PICK i \in Nat : i = q.iteration + 1
  <2>1. q.iteration \in Nat
    BY RunTypes, Zenon
  <2>2. q.iteration + 1 \in Nat
    BY <2>1
  <2> QED BY <2>2, Zenon
<1>4. PICK r : r = [q EXCEPT !.at = "loop", !.iteration = i]
  OBVIOUS
<1>5. /\ r \in TaskRun /\ r.at = "loop" /\ r.alone = q.alone /\ r.failures = q.failures
      /\ r.llmStreak = q.llmStreak /\ r.answer = q.answer /\ r.said = q.said
  BY <1>4 DEF TaskRun
<1>6. Step(t, r)
  BY <1>1, <1>3, <1>4, Zenon DEF NextIteration
<1>7. /\ UNCHANGED <<agentState, messages, strategies, executed>>
      /\ metrics' = [metrics EXCEPT !.iterations = @ + 1]
  BY DEF NextIteration
<1>8. /\ metrics' \in Metrics /\ metrics'.completed = metrics.completed
      /\ metrics'.failed = metrics.failed
  BY <1>7, AgentStays, IterationCounted
<1>9. ASSUME r.alone PROVE OwnAgent(r, t, agentState', messages')
  <2>1. runs[t].at \in Talking /\ runs[t].alone
    BY <1>1, <1>2, <1>5, <1>9 DEF Talking
  <2>2. /\ q.failures <= q.llmStreak + 1 /\ agentState = "Running" /\ q.answer = ""
        /\ messages = [j \in 1..q.said |-> t]
    BY <1>1, <2>1, AloneInTheLoop, Zenon
  <2>3. /\ r.failures <= r.llmStreak + 1 /\ agentState' = "Running" /\ r.answer = ""
        /\ messages' = [j \in 1..r.said |-> t]
    BY <1>5, <1>7, <2>2, Zenon
  <2> QED BY <1>5, <2>3, OwnsInTheLoop DEF Talking
<1> QED BY <1>1, <1>2, <1>5, <1>6, <1>7, <1>8, <1>9, AgentStays, TaskMoves

\* A final answer completes the agent, whoever's it is, when its task says so.
LEMMA LlmConcludesKeeps ==
  ASSUME AgentAssumption, AgentInv, NEW t \in Task, NEW text \in {"text", ""},
         LlmConcludes(t, text)
  PROVE  AgentInv'
<1>1. PICK q \in TaskRun : q = runs[t]
  BY AgentStays
<1>2. q.at = "asking" /\ Active(t)
  BY <1>1 DEF LlmConcludes, At, Active
<1>3. Say(t)
  BY DEF LlmConcludes
<1>4. messages' \in Seq(Task) /\ Said(t) \in Nat
  BY <1>3, Says
<1>5. PICK s \in Nat : s = Said(t)
  BY <1>4
<1>6. PICK r : r = [q EXCEPT !.at = "concluding", !.failures = 0, !.llmStreak = 0, !.said = s,
                             !.answer = text]
  OBVIOUS
<1>7. /\ r \in TaskRun /\ r.at = "concluding" /\ r.alone = q.alone /\ r.failures = 0
      /\ r.llmStreak = 0 /\ r.answer = text
  BY <1>6 DEF TaskRun
<1>8. Step(t, r)
  BY <1>1, <1>5, <1>6, Zenon DEF LlmConcludes
<1>9. UNCHANGED <<agentState, metrics, strategies, executed>>
  BY DEF LlmConcludes
<1>10. OwnAgent(r, t, agentState', messages')
  <2>1. r.failures <= r.llmStreak + 1
    BY <1>7, RunTypes, NoFailures, Zenon
  <2> QED BY <1>7, <2>1, OwnsConcluding
<1> QED BY <1>1, <1>2, <1>4, <1>7, <1>8, <1>9, <1>10, AgentStays, TaskMoves

LEMMA ConcludeKeeps == ASSUME AgentInv, NEW t \in Task, Conclude(t) PROVE AgentInv'
<1>1. PICK q \in TaskRun : q = runs[t]
  BY AgentStays
<1>2. q.at = "concluding" /\ Active(t)
  BY <1>1 DEF Conclude, At, Active
<1>3. PICK r : r = [q EXCEPT !.at = "left"]
  OBVIOUS
<1>4. /\ r \in TaskRun /\ r.at = "left" /\ r.alone = q.alone /\ r.failures = q.failures
      /\ r.llmStreak = q.llmStreak /\ r.answer = q.answer
  BY <1>3 DEF TaskRun
<1>5. Step(t, r)
  BY <1>1, <1>3, Zenon DEF Conclude
<1>6. UNCHANGED <<messages, metrics, strategies, executed>> /\ agentState' = "Completed"
  BY DEF Conclude
<1>7. ASSUME r.alone PROVE OwnAgent(r, t, agentState', messages')
  <2>1. OwnAgent(q, t, agentState, messages)
    BY <1>1, <1>4, <1>7, AgentStays, Zenon
  <2>2. q.failures <= q.llmStreak + 1 /\ q.answer \in {"text", ""}
    BY <1>2, <2>1, OwnsConcluding
  <2>3. r.failures <= r.llmStreak + 1
    BY <1>4, <2>2, Zenon
  <2>4. Ended(r, agentState')
    BY <1>4, <1>6, <2>2, Zenon DEF Ended
  <2> QED BY <1>4, <2>3, <2>4, OwnsAfter
<1>8. agentState' \in AgentStates
  BY <1>6 DEF AgentStates
<1> QED BY <1>1, <1>2, <1>4, <1>5, <1>6, <1>7, <1>8, AgentStays, TaskMoves

LEMMA LlmIsEmptyKeeps ==
  ASSUME AgentAssumption, AgentInv, NEW t \in Task, LlmIsEmpty(t) PROVE AgentInv'
<1>1. PICK q \in TaskRun : q = runs[t]
  BY AgentStays
<1>2. q.at = "asking" /\ Active(t)
  BY <1>1 DEF LlmIsEmpty, At, Active
<1>3. Say(t)
  BY DEF LlmIsEmpty
<1>4. /\ messages' \in Seq(Task) /\ Said(t) \in Nat
      /\ runs[t].alone /\ messages = [i \in 1..runs[t].said |-> t] =>
           messages' = [i \in 1..Said(t) |-> t]
  BY <1>3, Says
<1>5. PICK s \in Nat : s = Said(t)
  BY <1>4
<1>6. <<>> \in Seq(Requested)
  OBVIOUS
<1>7. PICK r : r = [q EXCEPT !.at = "telling", !.failures = 0, !.llmStreak = 0, !.said = s,
                             !.calls = <<>>]
  OBVIOUS
<1>8. /\ r \in TaskRun /\ r.at = "telling" /\ r.alone = q.alone /\ r.failures = 0
      /\ r.llmStreak = 0 /\ r.answer = q.answer /\ r.said = s
  BY <1>6, <1>7 DEF TaskRun
<1>9. Step(t, r)
  BY <1>1, <1>5, <1>7, Zenon DEF LlmIsEmpty
<1>10. UNCHANGED <<agentState, metrics, strategies, executed>>
  BY DEF LlmIsEmpty
<1>12. ASSUME r.alone PROVE OwnAgent(r, t, agentState', messages')
  <2>1. runs[t].at \in Talking /\ runs[t].alone
    BY <1>1, <1>2, <1>8, <1>12 DEF Talking
  <2>2. /\ agentState = "Running" /\ q.answer = "" /\ messages = [j \in 1..runs[t].said |-> t]
    BY <1>1, <2>1, AloneInTheLoop, Zenon
  <2>3. r.failures <= r.llmStreak + 1
    BY <1>8, RunTypes, NoFailures, Zenon
  <2>4. agentState' = "Running" /\ r.answer = "" /\ messages' = [j \in 1..r.said |-> t]
    BY <1>4, <1>5, <1>8, <1>10, <2>1, <2>2, Zenon
  <2> QED BY <1>8, <2>3, <2>4, OwnsInTheLoop DEF Talking
<1> QED BY <1>1, <1>2, <1>4, <1>8, <1>9, <1>10, <1>12, AgentStays, TaskMoves

\* A task that is alone finds no answer if it has none, and else its own outcome.
LEMMA FindsNoAnswerKeeps ==
  ASSUME AgentInv, NEW t \in Task, FindsNoAnswer(t) PROVE AgentInv'
<1>1. PICK q \in TaskRun : q = runs[t]
  BY AgentStays
<1>2. q.at = "left" /\ Active(t)
  BY <1>1 DEF FindsNoAnswer, At, Active
<1>3. PICK a \in {"exhausted", "ending"} :
        a = IF q.answer = "" /\ agentState = "Running" THEN "exhausted" ELSE "ending"
  OBVIOUS
<1>4. PICK r : r = [q EXCEPT !.at = a]
  OBVIOUS
<1>5. /\ r \in TaskRun /\ r.at = a /\ r.alone = q.alone /\ r.failures = q.failures
      /\ r.llmStreak = q.llmStreak /\ r.answer = q.answer /\ r.iteration = q.iteration
  BY <1>4 DEF TaskRun
<1>6. Step(t, r)
  BY <1>1, <1>3, <1>4, Zenon DEF FindsNoAnswer
<1>7. UNCHANGED <<agentState, messages, metrics, strategies, executed>>
  BY DEF FindsNoAnswer
<1>8. ASSUME r.alone PROVE OwnAgent(r, t, agentState', messages')
  <2>1. OwnAgent(q, t, agentState, messages)
    BY <1>1, <1>5, <1>8, AgentStays, Zenon
  <2>2. q.failures <= q.llmStreak + 1 /\ (Ended(q, agentState) \/ Unanswered(q, agentState))
    BY <1>2, <2>1, OwnsAfter
  <2>3. Ended(r, agentState') <=> Ended(q, agentState)
    BY <1>5, <1>7, Zenon DEF Ended
  <2>4. Unanswered(r, agentState') <=> Unanswered(q, agentState)
    BY <1>5, <1>7, Zenon DEF Unanswered
  <2>5. CASE q.answer = "" /\ agentState = "Running"
    <3>1. ~Ended(q, agentState)
      BY <2>5 DEF Ended
    <3>2. r.at = "exhausted" /\ Unanswered(r, agentState')
      BY <1>3, <1>5, <2>2, <2>4, <2>5, <3>1
    <3> QED BY <1>5, <2>2, <3>2, OwnsAfter
  <2>6. CASE ~(q.answer = "" /\ agentState = "Running")
    <3>1. ~Unanswered(q, agentState)
      BY <2>6 DEF Unanswered
    <3>2. r.at = "ending" /\ Ended(r, agentState')
      BY <1>3, <1>5, <2>2, <2>3, <2>6, <3>1
    <3> QED BY <1>5, <2>2, <3>2, OwnsAfter
  <2> QED BY <2>5, <2>6
<1>9. r.at \notin {"none", "done"}
  BY <1>3, <1>5
<1> QED BY <1>1, <1>2, <1>5, <1>6, <1>7, <1>8, <1>9, AgentStays, TaskMoves

LEMMA GiveUpKeeps == ASSUME AgentInv, NEW t \in Task, GiveUp(t) PROVE AgentInv'
<1>1. PICK q \in TaskRun : q = runs[t]
  BY AgentStays
<1>2. q.at = "exhausted" /\ Active(t)
  BY <1>1 DEF GiveUp, At, Active
<1>3. PICK r : r = [q EXCEPT !.at = "ending", !.answer = "partial"]
  OBVIOUS
<1>4. /\ r \in TaskRun /\ r.at = "ending" /\ r.alone = q.alone /\ r.failures = q.failures
      /\ r.llmStreak = q.llmStreak /\ r.answer = "partial" /\ r.iteration = q.iteration
  BY <1>3 DEF TaskRun
<1>5. Step(t, r)
  BY <1>1, <1>3, Zenon DEF GiveUp
<1>6. UNCHANGED <<messages, metrics, strategies, executed>> /\ agentState' = "MaxIterationsReached"
  BY DEF GiveUp
<1>7. ASSUME r.alone PROVE OwnAgent(r, t, agentState', messages')
  <2>1. OwnAgent(q, t, agentState, messages)
    BY <1>1, <1>4, <1>7, AgentStays, Zenon
  <2>2. q.failures <= q.llmStreak + 1 /\ Unanswered(q, agentState)
    BY <1>2, <2>1, OwnsAfter
  <2>3. r.failures <= r.llmStreak + 1
    BY <1>4, <2>2, Zenon
  <2>4. Ended(r, agentState')
    BY <1>4, <1>6, <2>2, Zenon DEF Ended, Unanswered
  <2> QED BY <1>4, <2>3, <2>4, OwnsAfter
<1>8. agentState' \in AgentStates
  BY <1>6 DEF AgentStates
<1> QED BY <1>1, <1>2, <1>4, <1>5, <1>6, <1>7, <1>8, AgentStays, TaskMoves

\* A task ends with what the agent's state says and is counted by it.
LEMMA EndKeeps == ASSUME AgentInv, NEW t \in Task, End(t) PROVE AgentInv'
<1>1. PICK q \in TaskRun : q = runs[t]
  BY AgentStays
<1>2. q.at = "ending" /\ runs \in [Task -> TaskRun] /\ agentState \in AgentStates
  BY <1>1 DEF End, At, AgentInv, AgentTypes
<1>3. PICK r : r = [q EXCEPT !.at = "done", !.result = agentState]
  OBVIOUS
<1>4. PICK state \in AgentStates : state = agentState
  BY <1>2
<1>5. /\ r \in TaskRun /\ r.at = "done" /\ r.alone = q.alone /\ r.failures = q.failures
      /\ r.llmStreak = q.llmStreak /\ r.answer = q.answer /\ r.iteration = q.iteration
      /\ r.result = state
  BY <1>3, <1>4 DEF TaskRun
<1>6. runs' = [runs EXCEPT ![t] = r] /\ UNCHANGED <<agentState, messages, executed>>
  BY <1>1, <1>3, Zenon DEF End, Step
<1>7. runs' \in [Task -> TaskRun] /\ runs'[t] = r /\ \A u \in Task \ {t} : runs'[u] = runs[u]
  BY <1>2, <1>5, <1>6
<1>8. t \notin Done /\ Done' = Done \cup {t} /\ IsFiniteSet(Done)
  BY <1>1, <1>2, <1>5, <1>7 DEF Done, At, AgentInv, AgentTypes
<1>9. IsFiniteSet(Done') /\ Cardinality(Done') = Cardinality(Done) + 1
  BY <1>8, FS_AddElement, Zenon
<1>10. t \notin Succeeded /\ Succeeded' = IF Completed THEN Succeeded \cup {t} ELSE Succeeded
  <2>1. t \notin Succeeded
    BY <1>8 DEF Succeeded
  <2>2. Succeeded' = {u \in Done \cup {t} : runs'[u].result = "Completed"}
    BY <1>8, Zenon DEF Succeeded
  <2>3. runs'[t].result = "Completed" <=> Completed
    BY <1>4, <1>5, <1>7 DEF Completed
  <2>4. \A u \in Done : runs'[u] = runs[u]
    BY <1>7, <1>8 DEF Done
  <2> QED BY <2>1, <2>2, <2>3, <2>4 DEF Succeeded
<1>11. IsFiniteSet(Succeeded)
  <2>1. Succeeded \subseteq Done
    BY DEF Succeeded
  <2> QED BY <1>8, <2>1, FS_Subset, Zenon
<1>12. Cardinality(Succeeded') = Cardinality(Succeeded) + (IF Completed THEN 1 ELSE 0)
  <2>1. Cardinality(Succeeded) \in Nat
    BY <1>11, FS_CardinalityType, Zenon
  <2>2. CASE Completed
    <3>1. Cardinality(Succeeded \cup {t}) = Cardinality(Succeeded) + 1
      BY <1>10, <1>11, FS_AddElement, Zenon
    <3> QED BY <1>10, <2>2, <3>1
  <2>3. CASE ~Completed
    BY <1>10, <2>1, <2>3
  <2> QED BY <2>2, <2>3
<1>13. PICK m \in Metrics : m = metrics
  BY AgentStays
<1>14. PICK c \in Nat : c = IF Completed THEN 1 ELSE 0
  OBVIOUS
<1>15. PICK n \in Nat : n = IF Completed THEN 0 ELSE 1
  OBVIOUS
<1>16. /\ metrics' \in Metrics /\ metrics'.completed = m.completed + c
       /\ metrics'.failed = m.failed + n
  <2>1. m.completed \in Nat /\ m.failed \in Nat /\ m.toolCalls \in Nat /\ q.made \in Nat
    BY RunTypes DEF Metrics
  <2>2. PICK x \in Nat : x = m.completed + c
    BY <2>1
  <2>3. PICK y \in Nat : y = m.failed + n
    BY <2>1
  <2>4. PICK z \in Nat : z = m.toolCalls + q.made
    BY <2>1
  <2>5. metrics' = [m EXCEPT !.completed = x, !.failed = y, !.toolCalls = z]
    BY <1>1, <1>13, <1>14, <1>15, <2>2, <2>3, <2>4, Zenon DEF End
  <2>6. metrics' \in Metrics /\ metrics'.completed = x /\ metrics'.failed = y
    BY <2>5 DEF Metrics
  <2> QED BY <2>2, <2>3, <2>6
<1>17. AgentTypes'
  <2>1. \A u \in Task : At(u, "none")' => runs'[u] = NotStarted
    BY <1>5, <1>7 DEF AgentInv, AgentTypes, At
  <2>2. agentState' \in AgentStates /\ messages' \in Seq(Task)
    BY <1>6, AgentStays, Zenon
  <2> QED BY <1>7, <1>9, <1>16, <2>1, <2>2 DEF AgentTypes
<1>18. AloneIsOnly'
  <2>1. \A u \in Task : Active(u)' => Active(u) /\ u # t
    BY <1>5, <1>7 DEF Active
  <2> QED BY <1>7, <2>1 DEF AgentInv, AloneIsOnly
<1>19. AloneOwns'
  <2> SUFFICES ASSUME NEW u \in Task, runs'[u].alone
               PROVE  OwnAgent(runs'[u], u, agentState', messages')
    BY DEF AloneOwns
  <2>1. CASE u = t
    <3>1. OwnAgent(q, t, agentState, messages)
      BY <1>1, <1>5, <1>7, <2>1, AgentStays
    <3>2. q.failures <= q.llmStreak + 1 /\ Ended(q, agentState)
      BY <1>2, <3>1, OwnsAfter
    <3>3. r.failures <= r.llmStreak + 1
      BY <1>5, <3>2, Zenon
    <3>4. Ended(r, r.result)
      BY <1>4, <1>5, <3>2, Zenon DEF Ended
    <3>5. OwnAgent(r, t, agentState', messages')
      BY <1>5, <3>3, <3>4, OwnsAfter
    <3> QED BY <1>7, <2>1, <3>5
  <2>2. CASE u # t
    <3>1. runs'[u] = runs[u] /\ OwnAgent(runs[u], u, agentState, messages)
      BY <1>7, <2>2, AgentStays
    <3> QED BY <1>6, <3>1, Zenon
  <2> QED BY <2>1, <2>2
<1>20. TasksCounted'
  <2>1. /\ m.completed = Cardinality(Succeeded)
        /\ m.completed + m.failed = Cardinality(Done)
        /\ strategies # {} => m.completed > 0
    BY <1>13, Zenon DEF AgentInv, TasksCounted
  <2>2. m.completed \in Nat /\ m.failed \in Nat
    BY DEF Metrics
  <2>3. c + n = 1
    BY <1>14, <1>15
  <2>4. metrics'.completed = Cardinality(Succeeded')
    BY <1>12, <1>14, <1>16, <2>1, Zenon
  <2>5. metrics'.completed + metrics'.failed = Cardinality(Done')
    <3>1. (m.completed + c) + (m.failed + n) = (m.completed + m.failed) + 1
      BY <2>2, <2>3
    <3> QED BY <1>9, <1>16, <2>1, <3>1, Zenon
  <2>6. strategies' # {} => metrics'.completed > 0
    <3>1. strategies' # {} => strategies # {} \/ Completed
      BY DEF End
    <3>2. strategies # {} \/ Completed => m.completed + c > 0
      BY <1>14, <2>1, <2>2
    <3> QED BY <1>16, <3>1, <3>2, Zenon
  <2> QED BY <2>4, <2>5, <2>6 DEF TasksCounted
<1>21. OnlyReads(executed')
  BY <1>6, AgentStays, Zenon
<1> QED BY <1>17, <1>18, <1>19, <1>20, <1>21 DEF AgentInv

LEMMA AgentInvRests ==
  ASSUME AgentInv, UNCHANGED <<agentState, messages, metrics, strategies, runs, executed>>
  PROVE  AgentInv'
BY DEF AgentInv, AgentTypes, AloneIsOnly, AloneOwns, TasksCounted, Active, At, Done, Succeeded

LEMMA AgentInvNext == ASSUME AgentAssumption, AgentInv, [AgentNext]_agentVars PROVE AgentInv'
<1>1. CASE TaskTimePasses
  BY <1>1, AgentInvRests, Zenon DEF TaskTimePasses
<1>2. CASE UNCHANGED agentVars
  BY <1>2, AgentInvRests, Zenon DEF agentVars
<1>3. ASSUME NEW t \in Task,
             \/ StartTask(t) \/ ForgetConversation(t)
             \/ Prompt(t, "reset", "prompted") \/ Prompt(t, "prompted", "loop")
             \/ AskLlm(t) \/ OpenCircuit(t) \/ IterationsUsed(t)
             \/ LlmFails(t) \/ LlmIsEmpty(t)
             \/ \E text \in {"text", ""} : LlmConcludes(t, text)
             \/ \E calls \in CallLists : LlmAsksForTools(t, calls)
             \/ \E results \in [1..Len(runs[t].calls) -> {"ok", "failed"}] :
                  ToolsReturn(t, results)
             \/ TellResult(t) \/ NextIteration(t) \/ Conclude(t)
             \/ FindsNoAnswer(t) \/ GiveUp(t) \/ End(t)
      PROVE  AgentInv'
  BY <1>3, StartTaskKeeps, ForgetConversationKeeps, PromptKeeps, AskLlmKeeps, OpenCircuitKeeps,
     IterationsUsedKeeps, LlmFailsKeeps, LlmIsEmptyKeeps, LlmConcludesKeeps,
     LlmAsksForToolsKeeps, ToolsReturnKeeps, TellResultKeeps, NextIterationKeeps, ConcludeKeeps,
     FindsNoAnswerKeeps, GiveUpKeeps, EndKeeps, Zenon
<1> QED BY <1>1, <1>2, <1>3, Zenon DEF AgentNext

\* The invariant says the property: what a task that is alone ended with, and
\* what the LLM saw.
LEMMA AgentInvSays == ASSUME AgentAssumption, AgentInv PROVE AgentTasksAccounted
<1>1. TasksCounted /\ OnlyReads(executed)
  BY DEF AgentInv
<1>2. metrics.completed = Cardinality({t \in Done : runs[t].result = "Completed"})
  BY <1>1 DEF TasksCounted, Succeeded
<1>3. ASSUME NEW t \in Task, runs[t].alone, t \in Done
      PROVE  /\ runs[t].result = "Completed" <=> runs[t].answer \in {"text", ""}
             /\ runs[t].result = "CircuitOpen" =>
                  runs[t].answer = "stopped" /\ runs[t].llmStreak >= Threshold - 1
             /\ runs[t].result = "MaxIterationsReached" =>
                  runs[t].answer = "partial" /\ runs[t].iteration = MaxIterations
  <2>1. PICK r \in TaskRun : r = runs[t]
    BY AgentStays
  <2>2. r.at = "done" /\ OwnAgent(r, t, agentState, messages)
    BY <1>3, <2>1, AgentStays DEF Done, At
  <2>3. Ended(r, r.result)
    BY <2>2, OwnsAfter
  <2>4. r.llmStreak \in Nat /\ Threshold \in Nat
    BY RunTypes DEF AgentAssumption
  <2>5. /\ r.result = "Completed" <=> r.answer \in {"text", ""}
        /\ r.result = "CircuitOpen" => r.answer = "stopped" /\ r.llmStreak + 1 >= Threshold
        /\ r.result = "MaxIterationsReached" => r.answer = "partial" /\ r.iteration = MaxIterations
    BY <2>3 DEF Ended
  <2>6. r.llmStreak + 1 >= Threshold => r.llmStreak >= Threshold - 1
    BY <2>4
  <2> QED BY <2>1, <2>5, <2>6, Zenon
<1>4. ASSUME NEW t \in Task, runs[t].alone, At(t, "asking")
      PROVE  messages = [i \in 1..runs[t].said |-> t]
  <2>1. runs[t].at \in Talking
    BY <1>4 DEF At, Talking
  <2> QED BY <1>4, <2>1, AloneInTheLoop, Zenon
<1>5. /\ metrics.completed + metrics.failed = Cardinality(Done)
      /\ strategies # {} => metrics.completed > 0
  BY <1>1, Zenon DEF TasksCounted
<1> QED BY <1>1, <1>2, <1>3, <1>4, <1>5, Zenon DEF AgentTasksAccounted

\* The invariant, for every step of a task.
LEMMA AgentInvAlways == ASSUME AgentAssumption PROVE AgentSpec => []AgentInv
<1>1. AgentInit => AgentInv
  BY AgentInvInit
<1>2. AgentInv /\ [AgentNext]_agentVars => AgentInv'
  BY AgentInvNext
<1> QED BY <1>1, <1>2, PTL DEF AgentSpec

\* Whatever tasks of an agent overlap, each is counted once and no tool that
\* writes is reached; of one that overlapped with none the outcome is its own,
\* and the LLM saw what it said (agent/autonomous.rs).
THEOREM AgentTasksAccountedAlways ==
  ASSUME AgentAssumption PROVE AgentSpec => []AgentTasksAccounted
<1>1. AgentInv => AgentTasksAccounted
  BY AgentInvSays
<1> QED BY <1>1, AgentInvAlways, PTL

(***************************************************************************)
(* Agents: the limits. While the LLM is asked or tools are called, another  *)
(* iteration and another failure are within the limits.                     *)
(***************************************************************************)
Bounded(r) ==
  /\ r.iteration <= MaxIterations /\ r.failures <= Threshold /\ Len(r.calls) <= MaxToolCalls
  /\ r.at \in {"asking", "acting"} => r.iteration < MaxIterations /\ r.failures < Threshold
  /\ r.at = "telling" => r.iteration < MaxIterations

AgentBounds ==
  /\ Len(messages) <= MaxMessages
  /\ seconds \in 0..LastSecond /\ strategies \subseteq 0..LastSecond
  /\ \A t \in Task : Bounded(runs[t])

\* A conversation that is cut is no longer than its limit.
LEMMA SaysBriefly ==
  ASSUME AgentAssumption, AgentInv, NEW t \in Task, Say(t)
  PROVE  Len(messages') <= MaxMessages
<1>1. messages \in Seq(Task) /\ MaxMessages \in Nat
  BY DEF AgentInv, AgentTypes, AgentAssumption
<1>4. PICK s \in Seq(Task) : s = Append(messages, t)
  BY <1>1, AppendProperties, Zenon
<1>5. messages' = LastMessages(s)
  BY <1>4, Zenon DEF Say
<1>6. PICK k \in Nat : k = Min2(Len(s), MaxMessages)
  BY <1>1 DEF Min2
<1>7. k <= Len(s) /\ k <= MaxMessages
  BY <1>1, <1>6 DEF Min2
<1>8. PICK m \in Int : m = Len(s) - k + 1
  BY <1>6
<1>9. messages' = SubSeq(s, m, Len(s))
  BY <1>5, <1>6, <1>8, Zenon DEF LastMessages
<1>10. \A i \in m..Len(s) : s[i] \in Task
  BY <1>7, <1>8
<1>11. Len(SubSeq(s, m, Len(s))) = IF m <= Len(s) THEN Len(s) - m + 1 ELSE 0
  BY <1>10, SubSeqProperties
<1>12. Len(SubSeq(s, m, Len(s))) <= MaxMessages
  BY <1>1, <1>7, <1>8, <1>11
<1> QED BY <1>9, <1>12, Zenon

LEMMA TaskStaysBounded ==
  ASSUME AgentInv, AgentBounds, NEW t \in Task, NEW r, Step(t, r), Bounded(r),
         Len(messages') <= MaxMessages, strategies' \subseteq 0..LastSecond, seconds' = seconds
  PROVE  AgentBounds'
<1>1. runs \in [Task -> TaskRun]
  BY DEF AgentInv, AgentTypes
<1>2. runs'[t] = r /\ \A u \in Task \ {t} : runs'[u] = runs[u]
  BY <1>1 DEF Step
<1>3. \A u \in Task : Bounded(runs'[u])
  BY <1>2, Zenon DEF AgentBounds
<1>4. \A u \in Task : Bounded(runs[u])'
  BY <1>3 DEF Bounded
<1> QED BY <1>4 DEF AgentBounds

\* A task begins with nothing done; the others lose what they said.
LEMMA StartTaskBounded ==
  ASSUME AgentInv, AgentBounds, NEW t \in Task, StartTask(t) PROVE AgentBounds'
<1> DEFINE others == {u \in Task : Active(u)}
<1>1. runs \in [Task -> TaskRun]
  BY DEF AgentInv, AgentTypes
<1>2. ASSUME NEW u \in Task PROVE Bounded(runs'[u])
  <2>1. PICK r \in TaskRun : r = runs[u]
    BY <1>1
  <2>2. Bounded(r)
    BY <2>1 DEF AgentBounds
  <2>3. CASE u = t
    <3>1. runs'[u] = [r EXCEPT !.at = "begun", !.alone = others = {}]
      BY <2>1, <2>3 DEF StartTask
    <3>2. /\ runs'[u].at = "begun" /\ runs'[u].iteration = r.iteration
          /\ runs'[u].failures = r.failures /\ runs'[u].calls = r.calls
      BY <3>1 DEF TaskRun
    <3> QED BY <2>2, <3>2, Zenon DEF Bounded
  <2>4. CASE u # t /\ u \in others
    <3>1. runs'[u] = [r EXCEPT !.alone = FALSE, !.said = 0, !.llmStreak = 0]
      BY <2>1, <2>4 DEF StartTask
    <3>2. /\ runs'[u].at = r.at /\ runs'[u].iteration = r.iteration
          /\ runs'[u].failures = r.failures /\ runs'[u].calls = r.calls
      BY <3>1 DEF TaskRun
    <3> QED BY <2>2, <3>2, Zenon DEF Bounded
  <2>5. CASE u # t /\ u \notin others
    <3>1. runs'[u] = r
      BY <2>1, <2>5 DEF StartTask
    <3> QED BY <2>2, <3>1, Zenon
  <2> QED BY <2>3, <2>4, <2>5
<1>3. \A u \in Task : Bounded(runs[u])'
  BY <1>2 DEF Bounded
<1>4. UNCHANGED <<messages, strategies, seconds>>
  BY DEF StartTask
<1> QED BY <1>3, <1>4 DEF AgentBounds

\* Steps that write where the task is and nothing that is bounded.
LEMMA MovesBounded ==
  ASSUME AgentAssumption, AgentInv, AgentBounds, NEW t \in Task,
         \/ ForgetConversation(t)
         \/ Prompt(t, "reset", "prompted") \/ Prompt(t, "prompted", "loop")
         \/ AskLlm(t) \/ OpenCircuit(t) \/ IterationsUsed(t)
         \/ Conclude(t) \/ FindsNoAnswer(t) \/ GiveUp(t) \/ End(t)
  PROVE  AgentBounds'
<1>1. PICK q \in TaskRun : q = runs[t]
  BY AgentStays
<1>2. Bounded(q)
  BY <1>1 DEF AgentBounds
<1>3. /\ q.iteration \in Nat /\ q.failures \in Nat /\ MaxIterations \in Nat /\ Threshold \in Nat
  BY <1>1, RunTypes DEF AgentAssumption
<1>4. Len(messages) <= MaxMessages /\ strategies \subseteq 0..LastSecond /\ MaxMessages \in Nat
  BY DEF AgentBounds, AgentAssumption
<1>5. ASSUME NEW r, Step(t, r), r.at \notin {"asking", "acting", "telling"}, r.iteration = q.iteration,
             r.failures = q.failures, r.calls = q.calls, Len(messages') <= MaxMessages,
             strategies' \subseteq 0..LastSecond, seconds' = seconds
      PROVE  AgentBounds'
  <2>1. Bounded(r)
    BY <1>2, <1>5, Zenon DEF Bounded
  <2> QED BY <1>5, <2>1, TaskStaysBounded
<1>6. CASE ForgetConversation(t)
  <2>1. PICK r : r = [q EXCEPT !.at = "reset"]
    OBVIOUS
  <2>2. /\ r.at = "reset" /\ r.iteration = q.iteration /\ r.failures = q.failures
        /\ r.calls = q.calls
    BY <2>1 DEF TaskRun
  <2>3. Step(t, r) /\ messages' = <<>> /\ UNCHANGED <<strategies, seconds>>
    BY <1>1, <1>6, <2>1 DEF ForgetConversation
  <2>4. Len(messages') <= MaxMessages
    BY <1>4, <2>3
  <2> QED BY <1>4, <1>5, <2>2, <2>3, <2>4
<1>7. ASSUME NEW from, NEW to \in {"prompted", "loop"}, Prompt(t, from, to) PROVE AgentBounds'
  <2>1. PICK r : r = [q EXCEPT !.at = to, !.said = Said(t)]
    OBVIOUS
  <2>2. /\ r.at = to /\ r.iteration = q.iteration /\ r.failures = q.failures
        /\ r.calls = q.calls
    BY <2>1 DEF TaskRun
  <2>3. Step(t, r) /\ Say(t) /\ UNCHANGED <<strategies, seconds>>
    BY <1>1, <1>7, <2>1, Zenon DEF Prompt
  <2>4. Len(messages') <= MaxMessages
    BY <2>3, SaysBriefly
  <2> QED BY <1>4, <1>5, <2>2, <2>3, <2>4
<1>8. CASE AskLlm(t)
  <2>1. PICK r : r = [q EXCEPT !.at = "asking"]
    OBVIOUS
  <2>2. /\ r.at = "asking" /\ r.iteration = q.iteration /\ r.failures = q.failures
        /\ r.calls = q.calls
    BY <2>1 DEF TaskRun
  <2>3. /\ Step(t, r) /\ UNCHANGED <<messages, strategies, seconds>>
        /\ q.iteration < MaxIterations /\ q.failures < Threshold
    BY <1>1, <1>8, <2>1 DEF AskLlm
  <2>4. Bounded(r)
    <3>1. r.at # "telling"
      BY <2>2
    <3> QED BY <1>2, <2>2, <2>3, <3>1, Zenon DEF Bounded
  <2>5. Len(messages') <= MaxMessages /\ strategies' \subseteq 0..LastSecond
    BY <1>4, <2>3
  <2> QED BY <2>3, <2>4, <2>5, TaskStaysBounded
<1>9. CASE OpenCircuit(t)
  <2>1. PICK r : r = [q EXCEPT !.at = "left", !.answer = "stopped"]
    OBVIOUS
  <2>2. /\ r.at = "left" /\ r.iteration = q.iteration /\ r.failures = q.failures
        /\ r.calls = q.calls
    BY <2>1 DEF TaskRun
  <2>3. Step(t, r) /\ UNCHANGED <<messages, strategies, seconds>>
    BY <1>1, <1>9, <2>1 DEF OpenCircuit
  <2> QED BY <1>4, <1>5, <2>2, <2>3
<1>10. CASE IterationsUsed(t)
  <2>1. PICK r : r = [q EXCEPT !.at = "left"]
    OBVIOUS
  <2>2. /\ r.at = "left" /\ r.iteration = q.iteration /\ r.failures = q.failures
        /\ r.calls = q.calls
    BY <2>1 DEF TaskRun
  <2>3. Step(t, r) /\ UNCHANGED <<messages, strategies, seconds>>
    BY <1>1, <1>10, <2>1 DEF IterationsUsed
  <2> QED BY <1>4, <1>5, <2>2, <2>3
<1>11. CASE FindsNoAnswer(t)
  <2>1. PICK at \in {"exhausted", "ending"} :
          at = IF q.answer = "" /\ agentState = "Running" THEN "exhausted" ELSE "ending"
    OBVIOUS
  <2>2. PICK r : r = [q EXCEPT !.at = at]
    OBVIOUS
  <2>3. /\ r.at = at /\ r.iteration = q.iteration /\ r.failures = q.failures
        /\ r.calls = q.calls
    BY <2>2 DEF TaskRun
  <2>4. Step(t, r) /\ UNCHANGED <<messages, strategies, seconds>>
    BY <1>1, <1>11, <2>1, <2>2, Zenon DEF FindsNoAnswer
  <2> QED BY <1>4, <1>5, <2>1, <2>3, <2>4
<1>12. CASE GiveUp(t)
  <2>1. PICK r : r = [q EXCEPT !.at = "ending", !.answer = "partial"]
    OBVIOUS
  <2>2. /\ r.at = "ending" /\ r.iteration = q.iteration /\ r.failures = q.failures
        /\ r.calls = q.calls
    BY <2>1 DEF TaskRun
  <2>3. Step(t, r) /\ UNCHANGED <<messages, strategies, seconds>>
    BY <1>1, <1>12, <2>1 DEF GiveUp
  <2> QED BY <1>4, <1>5, <2>2, <2>3
<1>13. CASE End(t)
  <2>1. PICK r : r = [q EXCEPT !.at = "done", !.result = agentState]
    OBVIOUS
  <2>2. /\ r.at = "done" /\ r.iteration = q.iteration /\ r.failures = q.failures
        /\ r.calls = q.calls
    BY <2>1 DEF TaskRun
  <2>3. Step(t, r) /\ UNCHANGED <<messages, seconds>>
    BY <1>1, <1>13, <2>1, Zenon DEF End
  <2>4. strategies' \subseteq strategies \cup {seconds}
    BY <1>13 DEF End, Stored
  <2>5. strategies' \subseteq 0..LastSecond
    BY <2>4 DEF AgentBounds
  <2> QED BY <1>4, <1>5, <2>2, <2>3, <2>5
<1>14. CASE Conclude(t)
  <2>1. PICK r : r = [q EXCEPT !.at = "left"]
    OBVIOUS
  <2>2. /\ r.at = "left" /\ r.iteration = q.iteration /\ r.failures = q.failures
        /\ r.calls = q.calls
    BY <2>1 DEF TaskRun
  <2>3. Step(t, r) /\ UNCHANGED <<messages, strategies, seconds>>
    BY <1>1, <1>14, <2>1 DEF Conclude
  <2> QED BY <1>4, <1>5, <2>2, <2>3
<1> QED BY <1>6, <1>7, <1>8, <1>9, <1>10, <1>11, <1>12, <1>13, <1>14

\* While a task waits for an answer, another iteration and another failure are
\* allowed.
LEMMA AnotherAllowed ==
  ASSUME AgentAssumption, AgentInv, AgentBounds, NEW t \in Task,
         runs[t].at \in {"asking", "acting"}
  PROVE  /\ runs[t] \in TaskRun
         /\ runs[t].iteration \in Nat /\ runs[t].failures \in Nat
         /\ runs[t].calls \in Seq(Requested) /\ Len(runs[t].calls) <= MaxToolCalls
         /\ MaxIterations \in Nat /\ Threshold \in Nat /\ MaxToolCalls \in Nat
         /\ runs[t].iteration + 1 <= MaxIterations /\ runs[t].iteration <= MaxIterations
         /\ runs[t].iteration < MaxIterations /\ runs[t].failures < Threshold
         /\ 0 < Threshold /\ 0 <= Threshold
         /\ strategies \subseteq 0..LastSecond /\ Len(messages) <= MaxMessages
<1>1. PICK q \in TaskRun : q = runs[t]
  BY AgentStays
<1>2. Bounded(q)
  BY <1>1 DEF AgentBounds
<1>3. /\ q.iteration \in Nat /\ q.failures \in Nat /\ q.calls \in Seq(Requested)
      /\ MaxIterations \in Nat /\ Threshold \in Nat /\ MaxToolCalls \in Nat
  BY RunTypes DEF AgentAssumption
<1>4. q.iteration < MaxIterations /\ q.failures < Threshold /\ Len(q.calls) <= MaxToolCalls
  BY <1>1, <1>2, Zenon DEF Bounded
<1>5. /\ q.iteration + 1 <= MaxIterations /\ q.iteration <= MaxIterations
      /\ 0 < Threshold /\ 0 <= Threshold
  BY <1>3, <1>4
<1>6. strategies \subseteq 0..LastSecond /\ Len(messages) <= MaxMessages
  BY DEF AgentBounds
<1> QED BY <1>1, <1>3, <1>4, <1>5, <1>6, Zenon

\* One more failure and one more iteration, where both were allowed.
LEMMA LlmFailsBounded ==
  ASSUME AgentAssumption, AgentInv, AgentBounds, NEW t \in Task, LlmFails(t)
  PROVE  AgentBounds'
<1>1. PICK q \in TaskRun : q = runs[t] /\ q.at = "asking"
  BY AgentStays DEF LlmFails, At
<1>2. /\ q.iteration \in Nat /\ q.failures \in Nat
      /\ q.calls \in Seq(Requested) /\ Len(q.calls) <= MaxToolCalls
      /\ MaxIterations \in Nat /\ Threshold \in Nat /\ MaxToolCalls \in Nat
      /\ q.iteration + 1 <= MaxIterations /\ q.iteration <= MaxIterations
      /\ q.iteration < MaxIterations /\ q.failures < Threshold
      /\ 0 < Threshold /\ 0 <= Threshold
      /\ strategies \subseteq 0..LastSecond /\ Len(messages) <= MaxMessages
  BY <1>1, AnotherAllowed
<1>3. PICK i \in Nat : i = q.iteration + 1 /\ i <= MaxIterations
  BY <1>2
<1>4. PICK f \in Nat : f = q.failures + 1
  BY <1>2
<1>5. PICK r : r = [q EXCEPT !.at = "loop", !.iteration = i, !.failures = f,
                             !.llmStreak = FailedInARow(t)]
  OBVIOUS
<1>6. r.at = "loop" /\ r.iteration = i /\ r.failures = f /\ r.calls = q.calls
  BY <1>5 DEF TaskRun
<1>7. Step(t, r) /\ UNCHANGED <<messages, strategies, seconds>>
  BY <1>1, <1>3, <1>4, <1>5, Zenon DEF LlmFails
<1>8. f <= Threshold
  BY <1>2, <1>4
<1>9. Bounded(r)
  <2>1. r.at \notin {"asking", "acting", "telling"}
    BY <1>6
  <2> QED BY <1>2, <1>3, <1>6, <1>8, <2>1, Zenon DEF Bounded
<1> QED BY <1>2, <1>7, <1>9, TaskStaysBounded

\* An empty answer is an iteration.
LEMMA LlmIsEmptyBounded ==
  ASSUME AgentAssumption, AgentInv, AgentBounds, NEW t \in Task, LlmIsEmpty(t)
  PROVE  AgentBounds'
<1>1. PICK q \in TaskRun : q = runs[t] /\ q.at = "asking"
  BY AgentStays DEF LlmIsEmpty, At
<1>2. /\ q.iteration \in Nat /\ q.failures \in Nat
      /\ q.calls \in Seq(Requested) /\ Len(q.calls) <= MaxToolCalls
      /\ MaxIterations \in Nat /\ Threshold \in Nat /\ MaxToolCalls \in Nat
      /\ q.iteration + 1 <= MaxIterations /\ q.iteration <= MaxIterations
      /\ q.iteration < MaxIterations /\ q.failures < Threshold
      /\ 0 < Threshold /\ 0 <= Threshold
      /\ strategies \subseteq 0..LastSecond /\ Len(messages) <= MaxMessages
  BY <1>1, AnotherAllowed
<1>4. PICK r : r = [q EXCEPT !.at = "telling", !.failures = 0, !.llmStreak = 0, !.said = Said(t),
                             !.calls = <<>>]
  OBVIOUS
<1>5. r.at = "telling" /\ r.iteration = q.iteration /\ r.failures = 0 /\ r.calls = <<>>
  BY <1>4 DEF TaskRun
<1>6. Step(t, r) /\ Say(t) /\ UNCHANGED <<strategies, seconds>>
  BY <1>1, <1>4, Zenon DEF LlmIsEmpty
<1>7. Len(messages') <= MaxMessages
  BY <1>6, SaysBriefly
<1>8. Bounded(r)
  <2>1. r.at \notin {"asking", "acting"} /\ Len(r.calls) <= MaxToolCalls
    BY <1>2, <1>5
  <2> QED BY <1>2, <1>5, <2>1, Zenon DEF Bounded
<1> QED BY <1>2, <1>6, <1>7, <1>8, TaskStaysBounded

\* The final answer.
LEMMA LlmConcludesBounded ==
  ASSUME AgentAssumption, AgentInv, AgentBounds, NEW t \in Task, NEW text, LlmConcludes(t, text)
  PROVE  AgentBounds'
<1>1. PICK q \in TaskRun : q = runs[t] /\ q.at = "asking"
  BY AgentStays DEF LlmConcludes, At
<1>2. /\ q.iteration \in Nat /\ q.failures \in Nat
      /\ q.calls \in Seq(Requested) /\ Len(q.calls) <= MaxToolCalls
      /\ MaxIterations \in Nat /\ Threshold \in Nat /\ MaxToolCalls \in Nat
      /\ q.iteration + 1 <= MaxIterations /\ q.iteration <= MaxIterations
      /\ q.iteration < MaxIterations /\ q.failures < Threshold
      /\ 0 < Threshold /\ 0 <= Threshold
      /\ strategies \subseteq 0..LastSecond /\ Len(messages) <= MaxMessages
  BY <1>1, AnotherAllowed
<1>4. PICK r : r = [q EXCEPT !.at = "concluding", !.failures = 0, !.llmStreak = 0,
                             !.said = Said(t), !.answer = text]
  OBVIOUS
<1>5. r.at = "concluding" /\ r.iteration = q.iteration /\ r.failures = 0 /\ r.calls = q.calls
  BY <1>4 DEF TaskRun
<1>6. Step(t, r) /\ Say(t) /\ UNCHANGED <<strategies, seconds>>
  BY <1>1, <1>4, Zenon DEF LlmConcludes
<1>7. Len(messages') <= MaxMessages
  BY <1>6, SaysBriefly
<1>8. Bounded(r)
  <2>1. r.at \notin {"asking", "acting", "telling"}
    BY <1>5
  <2> QED BY <1>2, <1>5, <2>1, Zenon DEF Bounded
<1> QED BY <1>2, <1>6, <1>7, <1>8, TaskStaysBounded

\* Of the calls an answer asks for no more are made than may be.
LEMMA LlmAsksForToolsBounded ==
  ASSUME AgentAssumption, AgentInv, AgentBounds, NEW t \in Task, NEW calls \in CallLists,
         LlmAsksForTools(t, calls)
  PROVE  AgentBounds'
<1>1. PICK q \in TaskRun : q = runs[t] /\ q.at = "asking"
  BY AgentStays DEF LlmAsksForTools, At
<1>2. /\ q.iteration \in Nat /\ q.failures \in Nat
      /\ q.calls \in Seq(Requested) /\ Len(q.calls) <= MaxToolCalls
      /\ MaxIterations \in Nat /\ Threshold \in Nat /\ MaxToolCalls \in Nat
      /\ q.iteration + 1 <= MaxIterations /\ q.iteration <= MaxIterations
      /\ q.iteration < MaxIterations /\ q.failures < Threshold
      /\ 0 < Threshold /\ 0 <= Threshold
      /\ strategies \subseteq 0..LastSecond /\ Len(messages) <= MaxMessages
  BY <1>1, AnotherAllowed
<1>4. PICK c \in Seq(Requested) : c = calls
  BY DEF AgentAssumption
<1>5. PICK n \in Nat : n = Min2(Len(c), MaxToolCalls)
  BY <1>2 DEF Min2
<1>6. n <= Len(c) /\ n <= MaxToolCalls
  BY <1>2, <1>5 DEF Min2
<1>7. PICK asked : asked = SubSeq(c, 1, n)
  OBVIOUS
<1>8. \A j \in 1..n : c[j] \in Requested
  BY <1>6
<1>9. Len(asked) = IF 1 <= n THEN n - 1 + 1 ELSE 0
  BY <1>7, <1>8, SubSeqProperties
<1>10. Len(asked) <= MaxToolCalls
  BY <1>2, <1>6, <1>9
<1>11. PICK r : r = [q EXCEPT !.at = "acting", !.failures = 0, !.llmStreak = 0,
                             !.said = Said(t), !.calls = asked]
  OBVIOUS
<1>12. r.at = "acting" /\ r.iteration = q.iteration /\ r.failures = 0 /\ r.calls = asked
  BY <1>11 DEF TaskRun
<1>13. Step(t, r) /\ Say(t) /\ UNCHANGED <<strategies, seconds>>
  BY <1>1, <1>4, <1>5, <1>7, <1>11, Zenon DEF LlmAsksForTools
<1>14. Len(messages') <= MaxMessages
  BY <1>13, SaysBriefly
<1>15. Bounded(r)
  BY <1>2, <1>10, <1>12 DEF Bounded
<1> QED BY <1>2, <1>13, <1>14, <1>15, TaskStaysBounded

\* A failure of all tools is one more, after none.
LEMMA ToolsReturnBounded ==
  ASSUME AgentAssumption, AgentInv, AgentBounds, NEW t \in Task, NEW results,
         ToolsReturn(t, results)
  PROVE  AgentBounds'
<1>1. PICK q \in TaskRun : q = runs[t] /\ q.at = "acting"
  BY AgentStays DEF ToolsReturn, At
<1>2. /\ q.iteration \in Nat /\ q.failures \in Nat
      /\ q.calls \in Seq(Requested) /\ Len(q.calls) <= MaxToolCalls
      /\ MaxIterations \in Nat /\ Threshold \in Nat /\ MaxToolCalls \in Nat
      /\ q.iteration + 1 <= MaxIterations /\ q.iteration <= MaxIterations
      /\ q.iteration < MaxIterations /\ q.failures < Threshold
      /\ 0 < Threshold /\ 0 <= Threshold
      /\ strategies \subseteq 0..LastSecond /\ Len(messages) <= MaxMessages
  BY <1>1, AnotherAllowed
<1>4. PICK n \in Nat : n = Len(q.calls)
  BY <1>2
<1>5. PICK f \in Nat : f = IF n > 0 /\ \A j \in 1..n : results[j] = "failed"
                           THEN q.failures + 1 ELSE q.failures
  BY <1>2
<1>6. f <= Threshold
  BY <1>2, <1>5
<1>7. PICK r : r = [q EXCEPT !.at = "telling", !.made = q.made + n, !.failures = f]
  OBVIOUS
<1>8. r.at = "telling" /\ r.iteration = q.iteration /\ r.failures = f /\ r.calls = q.calls
  BY <1>7 DEF TaskRun
<1>9. Step(t, r) /\ UNCHANGED <<messages, strategies, seconds>>
  BY <1>1, <1>4, <1>5, <1>7, Zenon DEF ToolsReturn
<1>11. Bounded(r)
  <2>1. r.at \notin {"asking", "acting"}
    BY <1>8
  <2> QED BY <1>2, <1>6, <1>8, <2>1, Zenon DEF Bounded
<1> QED BY <1>2, <1>9, <1>11, TaskStaysBounded

\* Results told are calls no more, and the next iteration is one that is allowed.
LEMMA TellResultBounded ==
  ASSUME AgentAssumption, AgentInv, AgentBounds, NEW t \in Task, TellResult(t)
  PROVE  AgentBounds'
<1>1. PICK q \in TaskRun : q = runs[t] /\ q.at = "telling" /\ q.calls # <<>>
  BY AgentStays DEF TellResult, At
<1>2. Bounded(q) /\ strategies \subseteq 0..LastSecond
  BY <1>1 DEF AgentBounds
<1>3. q.calls \in Seq(Requested) /\ MaxToolCalls \in Nat
  BY RunTypes DEF AgentAssumption
<1>4. Len(Tail(q.calls)) <= MaxToolCalls
  <2>1. Len(q.calls) <= MaxToolCalls
    BY <1>2, Zenon DEF Bounded
  <2> QED BY <1>1, <1>3, <2>1
<1>5. PICK r : r = [q EXCEPT !.calls = Tail(q.calls), !.said = Said(t)]
  OBVIOUS
<1>6. /\ r.at = "telling" /\ r.iteration = q.iteration /\ r.failures = q.failures
      /\ r.calls = Tail(q.calls)
  BY <1>1, <1>5 DEF TaskRun
<1>7. Step(t, r) /\ Say(t) /\ UNCHANGED <<strategies, seconds>>
  BY <1>1, <1>5, Zenon DEF TellResult
<1>8. Len(messages') <= MaxMessages
  BY <1>7, SaysBriefly
<1>9. Bounded(r)
  <2>1. r.at \notin {"asking", "acting"}
    BY <1>6
  <2> QED BY <1>1, <1>2, <1>4, <1>6, <2>1, Zenon DEF Bounded
<1> QED BY <1>2, <1>7, <1>8, <1>9, TaskStaysBounded

LEMMA NextIterationBounded ==
  ASSUME AgentAssumption, AgentInv, AgentBounds, NEW t \in Task, NextIteration(t)
  PROVE  AgentBounds'
<1>1. PICK q \in TaskRun : q = runs[t] /\ q.at = "telling"
  BY AgentStays DEF NextIteration, At
<1>2. Bounded(q) /\ strategies \subseteq 0..LastSecond /\ Len(messages) <= MaxMessages
  BY <1>1 DEF AgentBounds
<1>3. q.iteration \in Nat /\ MaxIterations \in Nat
  BY RunTypes DEF AgentAssumption
<1>4. PICK i \in Nat : i = q.iteration + 1 /\ i <= MaxIterations
  <2>1. q.iteration < MaxIterations
    BY <1>1, <1>2, Zenon DEF Bounded
  <2> QED BY <1>3, <2>1
<1>5. PICK r : r = [q EXCEPT !.at = "loop", !.iteration = i]
  OBVIOUS
<1>6. r.at = "loop" /\ r.iteration = i /\ r.failures = q.failures /\ r.calls = q.calls
  BY <1>5 DEF TaskRun
<1>7. Step(t, r) /\ UNCHANGED <<messages, strategies, seconds>>
  BY <1>1, <1>4, <1>5, Zenon DEF NextIteration
<1>8. Bounded(r)
  <2>1. r.at \notin {"asking", "acting", "telling"}
    BY <1>6
  <2> QED BY <1>2, <1>4, <1>6, <2>1, Zenon DEF Bounded
<1> QED BY <1>2, <1>7, <1>8, TaskStaysBounded

LEMMA AgentBoundsInit == ASSUME AgentAssumption, AgentInit PROVE AgentBounds
<1>1. /\ \A t \in Task : runs[t] = NotStarted
      /\ messages = <<>> /\ strategies = {} /\ seconds = 0
  BY DEF AgentInit
<1>2. Bounded(NotStarted)
  BY DEF Bounded, NotStarted, AgentAssumption
<1> QED BY <1>1, <1>2 DEF AgentBounds, AgentAssumption

LEMMA AgentBoundsNext ==
  ASSUME AgentAssumption, AgentInv, AgentBounds, [AgentNext]_agentVars PROVE AgentBounds'
<1>1. CASE TaskTimePasses
  BY <1>1 DEF TaskTimePasses, AgentBounds, Bounded, AgentAssumption
<1>2. CASE UNCHANGED agentVars
  BY <1>2 DEF agentVars, AgentBounds, Bounded
<1>3. CASE \E t \in Task : StartTask(t)
  BY <1>3, StartTaskBounded, Zenon
<1>4. ASSUME NEW t \in Task,
             \/ ForgetConversation(t)
             \/ Prompt(t, "reset", "prompted") \/ Prompt(t, "prompted", "loop")
             \/ AskLlm(t) \/ OpenCircuit(t) \/ IterationsUsed(t)
             \/ Conclude(t) \/ FindsNoAnswer(t) \/ GiveUp(t) \/ End(t)
      PROVE  AgentBounds'
  BY <1>4, MovesBounded, Zenon
<1>5. ASSUME NEW t \in Task,
             \/ LlmFails(t) \/ LlmIsEmpty(t)
             \/ \E text \in {"text", ""} : LlmConcludes(t, text)
             \/ \E calls \in CallLists : LlmAsksForTools(t, calls)
             \/ \E results : ToolsReturn(t, results)
             \/ TellResult(t) \/ NextIteration(t)
      PROVE  AgentBounds'
  BY <1>5, LlmFailsBounded, LlmIsEmptyBounded, LlmConcludesBounded, LlmAsksForToolsBounded,
     ToolsReturnBounded, TellResultBounded, NextIterationBounded, Zenon
<1> QED BY <1>1, <1>2, <1>3, <1>4, <1>5, Zenon DEF AgentNext

\* The iterations, the failures in a row, the calls of one answer, the
\* conversation and the strategies of an agent stay within AgentConfig and
\* MemoryConfig, whatever the LLM answers (agent/autonomous.rs).
THEOREM AgentTypesAlways == ASSUME AgentAssumption PROVE AgentSpec => []AgentTypeOK
<1>1. AgentInit => AgentBounds
  BY AgentBoundsInit
<1>2. AgentInv /\ AgentBounds /\ [AgentNext]_agentVars => AgentBounds'
  BY AgentBoundsNext
<1>3. AgentInv /\ AgentBounds => AgentTypeOK
  BY DEF AgentInv, AgentTypes, AgentStates, AgentBounds, Bounded, AgentTypeOK
<1> QED BY <1>1, <1>2, <1>3, AgentInvAlways, PTL DEF AgentSpec

-----------------------------------------------------------------------------
(***************************************************************************)
(* Memory: what a task thinks. A hypothesis given to a task of now is the   *)
(* one at its place.                                                        *)
(***************************************************************************)
Given == [id : Int, statement : Nat, task : Nat]
Hypothesis == [statement : Nat, evidence : SUBSET Given]
TaskState == [current_task : Nat, iteration : Nat, observations : Nat,
              reasoning_chain : Seq(Nat), hypotheses : Seq(Hypothesis), decisions : Nat]

InSteps(chain, n) == Len(chain) = n /\ \A i \in 1..n : chain[i] = i
Standing(g, task, hypotheses) ==
  g # NoHypothesis =>
    /\ g.task <= task /\ g.id \in Nat
    /\ g.task = task => /\ g.id + 1 \in DOMAIN hypotheses
                        /\ hypotheses[g.id + 1].statement = g.statement
Weighed(task, hypotheses) ==
  \A h \in DOMAIN hypotheses : \A g \in hypotheses[h].evidence :
    g.statement # hypotheses[h].statement => g.task < task

ThinkInv ==
  /\ operations \in Nat
  /\ conversation \in Seq(Nat) /\ Len(conversation) <= MaxConversation
  /\ working \in TaskState /\ given \in [Sharer -> Given]
  /\ InSteps(working.reasoning_chain, working.iteration)
  /\ \A c \in Sharer : Standing(given[c], working.current_task, working.hypotheses)
  /\ Weighed(working.current_task, working.hypotheses)

LEMMA ThinkInvInit == ASSUME MemoryAssumption, MemoryInit PROVE ThinkInv
<1>1. \A S : <<>> \in Seq(S) /\ Len(<<>>) = 0 /\ DOMAIN <<>> = {}
  OBVIOUS
<1>2. /\ conversation = <<>> /\ operations = 0 /\ given = [c \in Sharer |-> NoHypothesis]
      /\ working = [current_task |-> 0, iteration |-> 0, observations |-> 0,
                    reasoning_chain |-> <<>>, hypotheses |-> <<>>, decisions |-> 0]
  BY DEF MemoryInit, NewTask
<1>3. operations \in Nat /\ conversation \in Seq(Nat) /\ Len(conversation) <= MaxConversation
  BY <1>1, <1>2 DEF MemoryAssumption
<1>4. NoHypothesis \in Given
  BY DEF NoHypothesis, Given
<1>5. given \in [Sharer -> Given] /\ \A c \in Sharer : given[c] = NoHypothesis
  BY <1>2, <1>4
<1>6. working \in TaskState
  <2>1. PICK e : e = <<>>
    OBVIOUS
  <2>2. e \in Seq(Nat) /\ e \in Seq(Hypothesis)
    BY <1>1, <2>1, Zenon
  <2>3. working = [current_task |-> 0, iteration |-> 0, observations |-> 0,
                   reasoning_chain |-> e, hypotheses |-> e, decisions |-> 0]
    BY <1>2, <2>1, Zenon
  <2> QED BY <2>2, <2>3 DEF TaskState
<1>7. working.reasoning_chain = <<>> /\ working.hypotheses = <<>> /\ working.iteration = 0
  BY <1>2
<1>8. InSteps(working.reasoning_chain, working.iteration)
  BY <1>7 DEF InSteps
<1>9. Weighed(working.current_task, working.hypotheses)
  BY <1>1, <1>7, Zenon DEF Weighed
<1> QED BY <1>3, <1>5, <1>6, <1>8, <1>9, Zenon DEF ThinkInv, Standing

\* The parts of the working state, each a value.
LEMMA ThinkParts ==
  ASSUME ThinkInv
  PROVE  \E t \in Nat, n \in Nat, o \in Nat, chain \in Seq(Nat), hs \in Seq(Hypothesis), d \in Nat :
           /\ working = [current_task |-> t, iteration |-> n, observations |-> o,
                         reasoning_chain |-> chain, hypotheses |-> hs, decisions |-> d]
           /\ InSteps(chain, n) /\ Weighed(t, hs)
           /\ \A c \in Sharer : Standing(given[c], t, hs)
<1>1. working \in TaskState
  BY DEF ThinkInv
<1>2. PICK t \in Nat, n \in Nat, o \in Nat, chain \in Seq(Nat), hs \in Seq(Hypothesis), d \in Nat :
        working = [current_task |-> t, iteration |-> n, observations |-> o,
                   reasoning_chain |-> chain, hypotheses |-> hs, decisions |-> d]
  BY <1>1 DEF TaskState
<1>3. /\ working.current_task = t /\ working.iteration = n
      /\ working.reasoning_chain = chain /\ working.hypotheses = hs
  BY <1>2
<1> QED BY <1>2, <1>3, Zenon DEF ThinkInv

\* A new working state is sound if its parts are.
LEMMA ThinkMade ==
  ASSUME ThinkInv, operations' \in Nat, conversation' = conversation,
         given' \in [Sharer -> Given],
         NEW t \in Nat, NEW n \in Nat, NEW o \in Nat, NEW chain \in Seq(Nat),
         NEW hs \in Seq(Hypothesis), NEW d \in Nat,
         working' = [current_task |-> t, iteration |-> n, observations |-> o,
                     reasoning_chain |-> chain, hypotheses |-> hs, decisions |-> d],
         InSteps(chain, n), Weighed(t, hs), \A c \in Sharer : Standing(given'[c], t, hs)
  PROVE  ThinkInv'
<1>1. working' \in TaskState
  BY DEF TaskState
<1>2. /\ working'.current_task = t /\ working'.iteration = n
      /\ working'.reasoning_chain = chain /\ working'.hypotheses = hs
  OBVIOUS
<1>3. conversation' \in Seq(Nat) /\ Len(conversation') <= MaxConversation
  BY Zenon DEF ThinkInv
<1>4. InSteps(working'.reasoning_chain, working'.iteration)
  BY <1>2, Zenon
<1>5. Weighed(working'.current_task, working'.hypotheses)
  BY <1>2, Zenon
<1>6. \A c \in Sharer : Standing(given'[c], working'.current_task, working'.hypotheses)
  BY <1>2, Zenon
<1> QED BY <1>1, <1>3, <1>4, <1>5, <1>6, Zenon DEF ThinkInv

LEMMA OperatesCounts == ASSUME ThinkInv, Operates PROVE operations' \in Nat /\ operations' # 0
BY DEF ThinkInv, Operates

LEMMA AddThinks == ASSUME MemoryAssumption, ThinkInv, Add PROVE ThinkInv'
<1>1. operations' \in Nat
  BY OperatesCounts DEF Add
<1>2. PICK s \in Seq(Nat) : s = conversation
  BY DEF ThinkInv
<1>3. PICK m \in Nat \ {0} : m = MaxConversation
  BY DEF MemoryAssumption
<1>4. PICK l \in Nat : l = Len(s)
  BY LenProperties
<1>5. l <= m
  BY <1>2, <1>3, <1>4 DEF ThinkInv
<1>6. PICK k \in Int : k = l - m + 2
  BY <1>3
<1>7. PICK w : w = IF l >= m THEN SubSeq(s, k, l) ELSE s
  OBVIOUS
<1>8. w \in Seq(Nat) /\ Len(w) + 1 <= m
  <2>1. CASE l >= m
    <3>1. l = m /\ k = 2
      BY <1>3, <1>5, <1>6, <2>1
    <3>2. ASSUME NEW i \in k..l PROVE s[i] \in Nat
      <4>1. i \in 1..Len(s)
        BY <1>4, <3>1
      <4> QED BY <4>1, ElementOfSeq
    <3>3. /\ SubSeq(s, k, l) \in Seq(Nat)
          /\ Len(SubSeq(s, k, l)) = IF k <= l THEN l - k + 1 ELSE 0
      BY <3>1, <3>2, SubSeqProperties
    <3>4. w = SubSeq(s, k, l)
      BY <1>7, <2>1, Zenon
    <3>5. (IF k <= l THEN l - k + 1 ELSE 0) + 1 <= m
      BY <1>3, <3>1
    <3> QED BY <3>3, <3>4, <3>5, Zenon
  <2>2. CASE ~(l >= m)
    <3>1. w = s
      BY <1>7, <2>2, Zenon
    <3> QED BY <1>3, <1>4, <2>2, <3>1
  <2> QED BY <2>1, <2>2
<1>9. PICK x \in Nat : x = working.current_task
  BY DEF ThinkInv, TaskState
<1>10. conversation' = Append(w, x)
  BY <1>2, <1>3, <1>4, <1>6, <1>7, <1>9, Zenon DEF Add
<1>11. conversation' \in Seq(Nat) /\ Len(conversation') <= m
  BY <1>8, <1>10, AppendProperties
<1>12. UNCHANGED <<working, given>>
  BY DEF Add
<1> QED BY <1>1, <1>3, <1>11, <1>12, Zenon DEF ThinkInv

LEMMA ClearThinks == ASSUME MemoryAssumption, ThinkInv, Clear PROVE ThinkInv'
<1>1. conversation' \in Seq(Nat) /\ Len(conversation') <= MaxConversation
  BY DEF Clear, MemoryAssumption
<1>2. UNCHANGED <<working, given, operations>>
  BY DEF Clear
<1> QED BY <1>1, <1>2, Zenon DEF ThinkInv

LEMMA BeginThinks == ASSUME ThinkInv, BeginTask PROVE ThinkInv'
<1>1. operations' \in Nat
  BY OperatesCounts DEF BeginTask
<1>2. PICK t \in Nat : t = working.current_task
  BY DEF ThinkInv, TaskState
<1>3. PICK u \in Nat : u = t + 1
  OBVIOUS
<1>4. PICK e : e = <<>>
  OBVIOUS
<1>5. e \in Seq(Nat) /\ e \in Seq(Hypothesis) /\ DOMAIN e = {} /\ Len(e) = 0
  BY <1>4
<1>6. working' = [current_task |-> u, iteration |-> 0, observations |-> 0,
                  reasoning_chain |-> e, hypotheses |-> e, decisions |-> 0]
  BY <1>2, <1>3, <1>4, Zenon DEF BeginTask, NewTask
<1>7. InSteps(e, 0) /\ Weighed(u, e)
  BY <1>5 DEF InSteps, Weighed
<1>8. ASSUME NEW c \in Sharer PROVE Standing(given[c], u, e)
  <2>1. PICK g \in Given : g = given[c]
    BY DEF ThinkInv
  <2>2. g # NoHypothesis => g.task <= t /\ g.id \in Nat
    BY <1>2, <2>1, Zenon DEF ThinkInv, Standing
  <2>3. g.task \in Nat
    BY DEF Given
  <2>4. g # NoHypothesis => g.task <= u /\ g.id \in Nat /\ g.task # u
    BY <1>3, <2>2, <2>3
  <2> QED BY <2>1, <2>4, Zenon DEF Standing
<1>9. given' = given /\ conversation' = conversation
  BY DEF BeginTask
<1>10. given' \in [Sharer -> Given]
  BY <1>9, Zenon DEF ThinkInv
<1>11. \A c \in Sharer : Standing(given'[c], u, e)
  BY <1>8, <1>9, Zenon
<1>12. 0 \in Nat
  OBVIOUS
<1> QED BY <1>1, <1>5, <1>6, <1>7, <1>9, <1>10, <1>11, <1>12, ThinkMade, Zenon

LEMMA CollectThinks == ASSUME ThinkInv, Collect PROVE ThinkInv'
<1>1. operations' \in Nat
  BY OperatesCounts DEF Collect
<1>2. PICK t \in Nat, n \in Nat, o \in Nat, chain \in Seq(Nat), hs \in Seq(Hypothesis), d \in Nat :
        /\ working = [current_task |-> t, iteration |-> n, observations |-> o,
                      reasoning_chain |-> chain, hypotheses |-> hs, decisions |-> d]
        /\ InSteps(chain, n) /\ Weighed(t, hs)
        /\ \A c \in Sharer : Standing(given[c], t, hs)
  BY ThinkParts, Zenon
<1>3. given' = given /\ conversation' = conversation
  BY DEF Collect
<1>4. given' \in [Sharer -> Given] /\ \A c \in Sharer : Standing(given'[c], t, hs)
  BY <1>2, <1>3, Zenon DEF ThinkInv
<1>5. PICK p \in Nat, q \in Nat :
        working' = [current_task |-> t, iteration |-> n, observations |-> p,
                    reasoning_chain |-> chain, hypotheses |-> hs, decisions |-> q]
  <2>1. o + 1 \in Nat /\ d + 1 \in Nat
    OBVIOUS
  <2>2. CASE working' = [working EXCEPT !.observations = @ + 1]
    <3>1. working' = [current_task |-> t, iteration |-> n, observations |-> o + 1,
                      reasoning_chain |-> chain, hypotheses |-> hs, decisions |-> d]
      BY <1>2, <2>2
    <3> QED BY <2>1, <3>1, Zenon
  <2>3. CASE working' = [working EXCEPT !.decisions = @ + 1]
    <3>1. working' = [current_task |-> t, iteration |-> n, observations |-> o,
                      reasoning_chain |-> chain, hypotheses |-> hs, decisions |-> d + 1]
      BY <1>2, <2>3
    <3> QED BY <2>1, <3>1, Zenon
  <2> QED BY <2>2, <2>3 DEF Collect
<1> QED BY <1>1, <1>2, <1>3, <1>4, <1>5, ThinkMade, Zenon

LEMMA ReasonThinks == ASSUME ThinkInv, AddReasoningStep PROVE ThinkInv'
<1>1. operations' \in Nat
  BY OperatesCounts DEF AddReasoningStep
<1>2. PICK t \in Nat, n \in Nat, o \in Nat, chain \in Seq(Nat), hs \in Seq(Hypothesis), d \in Nat :
        /\ working = [current_task |-> t, iteration |-> n, observations |-> o,
                      reasoning_chain |-> chain, hypotheses |-> hs, decisions |-> d]
        /\ InSteps(chain, n) /\ Weighed(t, hs)
        /\ \A c \in Sharer : Standing(given[c], t, hs)
  BY ThinkParts, Zenon
<1>3. given' = given /\ conversation' = conversation
  BY DEF AddReasoningStep
<1>4. given' \in [Sharer -> Given] /\ \A c \in Sharer : Standing(given'[c], t, hs)
  BY <1>2, <1>3, Zenon DEF ThinkInv
<1>5. PICK m \in Nat : m = n + 1
  OBVIOUS
<1>6. PICK next \in Seq(Nat) : next = Append(chain, m)
  BY AppendProperties
<1>7. working' = [current_task |-> t, iteration |-> m, observations |-> o,
                  reasoning_chain |-> next, hypotheses |-> hs, decisions |-> d]
  <2>1. working' = [working EXCEPT !.iteration = @ + 1,
                                   !.reasoning_chain = Append(@, working.iteration + 1)]
    BY DEF AddReasoningStep
  <2> QED BY <1>2, <1>5, <1>6, <2>1
<1>8. InSteps(next, m)
  <2>1. Len(chain) = n /\ \A i \in 1..n : chain[i] = i
    BY <1>2, Zenon DEF InSteps
  <2>2. /\ Len(next) = Len(chain) + 1 /\ next[Len(chain) + 1] = m
        /\ \A i \in 1..Len(chain) : next[i] = chain[i]
    BY <1>6, AppendProperties
  <2>3. Len(next) = m /\ next[m] = m /\ \A i \in 1..n : next[i] = i
    BY <1>5, <2>1, <2>2
  <2> QED BY <1>5, <2>3 DEF InSteps
<1> QED BY <1>1, <1>2, <1>3, <1>4, <1>5, <1>7, <1>8, ThinkMade, Zenon


\* A new hypothesis leaves the places of those before it.
LEMMA StandsOn ==
  ASSUME NEW t \in Nat, NEW hs \in Seq(Hypothesis), NEW h \in Hypothesis,
         NEW g \in Given, Standing(g, t, hs)
  PROVE  Standing(g, t, Append(hs, h))
<1>1. PICK l \in Nat : l = Len(hs) /\ DOMAIN hs = 1..l
  BY LenProperties
<1>2. PICK next \in Seq(Hypothesis) : next = Append(hs, h)
  BY AppendProperties
<1>3. PICK k \in Nat : k = Len(next) /\ DOMAIN next = 1..k
  BY <1>2, LenProperties
<1>4. k = l + 1 /\ \A i \in 1..l : next[i] = hs[i]
  BY <1>1, <1>2, <1>3, AppendProperties
<1>5. SUFFICES ASSUME g # NoHypothesis, g.task = t
               PROVE  g.id + 1 \in DOMAIN next /\ next[g.id + 1].statement = g.statement
  BY <1>2, Zenon DEF Standing
<1>6. g.id + 1 \in 1..l /\ hs[g.id + 1].statement = g.statement
  BY <1>1, <1>5, Zenon DEF Standing
<1>7. PICK j : j = g.id + 1
  OBVIOUS
<1>8. j \in 1..l /\ j \in 1..k
  BY <1>4, <1>6, <1>7
<1> QED BY <1>3, <1>4, <1>6, <1>7, <1>8, Zenon

LEMMA HypothesisThinks ==
  ASSUME ThinkInv, NEW c \in Sharer, AddHypothesis(c) PROVE ThinkInv'
<1>1. PICK x \in Nat : x = operations'
  BY OperatesCounts DEF AddHypothesis
<1>2. PICK t \in Nat, n \in Nat, o \in Nat, chain \in Seq(Nat), hs \in Seq(Hypothesis), d \in Nat :
        /\ working = [current_task |-> t, iteration |-> n, observations |-> o,
                      reasoning_chain |-> chain, hypotheses |-> hs, decisions |-> d]
        /\ InSteps(chain, n) /\ Weighed(t, hs)
        /\ \A b \in Sharer : Standing(given[b], t, hs)
  BY ThinkParts, Zenon
<1>3. PICK l \in Nat : l = Len(hs) /\ DOMAIN hs = 1..l
  BY LenProperties
<1>4. PICK h \in Hypothesis : h = [statement |-> x, evidence |-> {}]
  BY DEF Hypothesis
<1>5. PICK next \in Seq(Hypothesis) : next = Append(hs, h)
  BY AppendProperties
<1>6. PICK k \in Nat : k = Len(next) /\ DOMAIN next = 1..k
  BY LenProperties
<1>7. k = l + 1 /\ next[l + 1] = h /\ \A i \in 1..l : next[i] = hs[i]
  BY <1>3, <1>5, <1>6, AppendProperties
<1>8. working' = [current_task |-> t, iteration |-> n, observations |-> o,
                  reasoning_chain |-> chain, hypotheses |-> next, decisions |-> d]
  <2>1. working' = [working EXCEPT !.hypotheses =
                      Append(@, [statement |-> x, evidence |-> {}])]
    BY <1>1, Zenon DEF AddHypothesis
  <2>2. working' = [working EXCEPT !.hypotheses = Append(@, h)]
    BY <1>4, <2>1, Zenon
  <2> QED BY <1>2, <1>5, <2>2
<1>9. PICK g \in Given : g = [id |-> l, statement |-> x, task |-> t]
  <2>1. l \in Int
    OBVIOUS
  <2>2. [id |-> l, statement |-> x, task |-> t] \in Given
    BY <2>1, Zenon DEF Given
  <2> QED BY <2>2, Zenon
<1>10. given' = [given EXCEPT ![c] = g]
  <2>1. working.hypotheses = hs /\ working.current_task = t
    BY <1>2
  <2> QED BY <1>1, <1>3, <1>9, <2>1, Zenon DEF AddHypothesis
<1>11. given \in [Sharer -> Given]
  BY DEF ThinkInv
<1>12. /\ given' \in [Sharer -> Given] /\ given'[c] = g
       /\ \A b \in Sharer : b # c => given'[b] = given[b]
  BY <1>10, <1>11
<1>13. Standing(g, t, next)
  <2>1. g.id = l /\ g.task = t /\ g.statement = x /\ h.statement = x
    BY <1>4, <1>9
  <2>2. l + 1 \in DOMAIN next /\ t <= t
    BY <1>6, <1>7
  <2> QED BY <1>7, <2>1, <2>2, Zenon DEF Standing
<1>14. \A b \in Sharer : Standing(given'[b], t, next)
  <2>1. ASSUME NEW b \in Sharer PROVE Standing(given'[b], t, next)
    <3>1. CASE b = c
      BY <1>12, <1>13, <3>1, Zenon
    <3>2. CASE b # c
      <4>1. PICK old \in Given : old = given[b]
        BY <1>11
      <4>2. Standing(old, t, hs)
        BY <1>2, <4>1, Zenon
      <4>3. Standing(old, t, next)
        BY <1>5, <4>2, StandsOn, Zenon
      <4> QED BY <1>12, <3>2, <4>1, <4>3, Zenon
    <3> QED BY <3>1, <3>2
  <2> QED BY <2>1
<1>15. Weighed(t, next)
  <2>1. ASSUME NEW i \in DOMAIN next, NEW e \in next[i].evidence,
               e.statement # next[i].statement
        PROVE  e.task < t
    <3>1. CASE i = l + 1
      <4>1. next[i].evidence = {}
        BY <1>4, <1>7, <3>1
      <4> QED BY <2>1, <4>1
    <3>2. CASE i # l + 1
      <4>1. i \in 1..l
        BY <1>6, <1>7, <3>2
      <4> QED BY <1>2, <1>3, <1>7, <2>1, <4>1, Zenon DEF Weighed
    <3> QED BY <3>1, <3>2
  <2> QED BY <2>1, Zenon DEF Weighed
<1>16. conversation' = conversation
  BY DEF AddHypothesis
<1>17. operations' \in Nat
  BY <1>1, Zenon
<1> QED BY <1>2, <1>8, <1>12, <1>14, <1>15, <1>16, <1>17, ThinkMade, Zenon

\* Evidence goes to the place the id names, of whichever task that is now.
LEMMA EvidenceThinks ==
  ASSUME ThinkInv, NEW c \in Sharer, AddEvidence(c) PROVE ThinkInv'
<1>1. operations' \in Nat /\ given' = given /\ conversation' = conversation
  BY OperatesCounts DEF AddEvidence
<1>2. PICK t \in Nat, n \in Nat, o \in Nat, chain \in Seq(Nat), hs \in Seq(Hypothesis), d \in Nat :
        /\ working = [current_task |-> t, iteration |-> n, observations |-> o,
                      reasoning_chain |-> chain, hypotheses |-> hs, decisions |-> d]
        /\ InSteps(chain, n) /\ Weighed(t, hs)
        /\ \A b \in Sharer : Standing(given[b], t, hs)
  BY ThinkParts, Zenon
<1>3. PICK g \in Given : g = given[c]
  BY DEF ThinkInv
<1>4. PICK j : j = FoundAt(g)
  OBVIOUS
<1>5. working.hypotheses = hs
  BY <1>2
<1>6. given' \in [Sharer -> Given]
  BY <1>1, Zenon DEF ThinkInv
<1>7. CASE j \notin DOMAIN hs
  <2>1. working' = working
    BY <1>3, <1>4, <1>5, <1>7, Zenon DEF AddEvidence
  <2> QED BY <1>1, <1>6, <2>1, Zenon DEF ThinkInv
<1>8. CASE j \in DOMAIN hs
  <2>1. working' = [working EXCEPT !.hypotheses[j].evidence = @ \cup {g}]
    BY <1>3, <1>4, <1>5, <1>8, Zenon DEF AddEvidence
  <2>2. PICK l \in Nat : l = Len(hs) /\ DOMAIN hs = 1..l
    BY LenProperties
  <2>3. hs[j] \in Hypothesis
    BY <1>8, <2>2, ElementOfSeq
  <2>4. PICK s \in Nat, ev \in SUBSET Given : hs[j] = [statement |-> s, evidence |-> ev]
    BY <2>3 DEF Hypothesis
  <2>5. PICK h \in Hypothesis : h = [statement |-> s, evidence |-> ev \cup {g}]
    BY DEF Hypothesis
  <2>6. PICK next : next = [hs EXCEPT ![j] = h]
    OBVIOUS
  <2>7. /\ next \in Seq(Hypothesis) /\ DOMAIN next = DOMAIN hs /\ next[j] = h
        /\ \A i \in DOMAIN hs : i # j => next[i] = hs[i]
    BY <1>8, <2>6, ExceptSeq
  <2>8. working' = [current_task |-> t, iteration |-> n, observations |-> o,
                    reasoning_chain |-> chain, hypotheses |-> next, decisions |-> d]
    <3>1. [hs EXCEPT ![j].evidence = @ \cup {g}] = [hs EXCEPT ![j] = h]
      <4>1. [hs[j] EXCEPT !.evidence = @ \cup {g}] = h
        <5>1. hs[j].evidence = ev
          BY <2>4
        <5>2. \A u : [[statement |-> s, evidence |-> ev] EXCEPT !.evidence = u]
                       = [statement |-> s, evidence |-> u]
          OBVIOUS
        <5>3. [hs[j] EXCEPT !.evidence = hs[j].evidence \cup {g}] = h
          BY <2>4, <2>5, <5>1, <5>2, Zenon
        <5> QED BY <5>3, Zenon
      <4> QED BY <4>1, Zenon
    <3>2. working' = [working EXCEPT !.hypotheses = [hs EXCEPT ![j].evidence = @ \cup {g}]]
      BY <1>5, <2>1, Zenon
    <3>3. working' = [working EXCEPT !.hypotheses = next]
      BY <2>6, <3>1, <3>2, Zenon
    <3> QED BY <1>2, <3>3
  <2>9. h.statement = s /\ h.evidence = ev \cup {g} /\ hs[j].statement = s /\ hs[j].evidence = ev
    BY <2>4, <2>5
  <2>10. \A i \in DOMAIN hs : next[i].statement = hs[i].statement
    BY <2>7, <2>9, Zenon
  <2>11. \A b \in Sharer : Standing(given'[b], t, next)
    BY <1>1, <1>2, <2>7, <2>10, Zenon DEF Standing
  <2>12. Weighed(t, next)
    <3>1. ASSUME NEW i \in DOMAIN next, NEW e \in next[i].evidence,
                 e.statement # next[i].statement
          PROVE  e.task < t
      <4>1. CASE i # j \/ e # g
        <5>1. e \in hs[i].evidence
          BY <2>7, <2>9, <3>1, <4>1
        <5> QED BY <1>2, <2>7, <2>10, <3>1, <5>1, Zenon DEF Weighed
      <4>2. CASE i = j /\ e = g
        <5>1. g # NoHypothesis /\ j = g.id + 1
          BY <1>3, <1>4, Zenon DEF AddEvidence, FoundAt
        <5>2. g.task <= t /\ (g.task = t => hs[j].statement = g.statement)
          BY <1>2, <1>3, <5>1, Zenon DEF Standing
        <5>3. g.task # t
          BY <2>10, <2>7, <3>1, <4>2, <5>2, Zenon
        <5>4. g.task \in Nat
          BY DEF Given
        <5> QED BY <4>2, <5>2, <5>3, <5>4
      <4> QED BY <4>1, <4>2
    <3> QED BY <3>1, Zenon DEF Weighed
  <2> QED BY <1>1, <1>2, <1>6, <2>7, <2>8, <2>11, <2>12, ThinkMade, Zenon
<1> QED BY <1>7, <1>8

\* The summary's chain begins with the newest step.
LEMMA ChainNewestFirst ==
  ASSUME NEW n \in Nat, NEW chain \in Seq(Nat), InSteps(chain, n)
  PROVE  \A i \in DOMAIN NewestFirst(chain, 3) : NewestFirst(chain, 3)[i] = n - i + 1
<1>1. Len(chain) = n /\ \A i \in 1..n : chain[i] = i
  BY Zenon DEF InSteps
<1>2. PICK m \in Nat \ {0} : m = IF n > 3 THEN n - 3 + 1 ELSE 1
  <2>1. (IF n > 3 THEN n - 3 + 1 ELSE 1) \in Nat \ {0}
    OBVIOUS
  <2> QED BY <2>1, Zenon
<1>3. PICK last : last = SubSeq(chain, m, n)
  OBVIOUS
<1>4. \A i \in m..n : chain[i] \in Nat
  BY <1>1, <1>2
<1>5. /\ last \in Seq(Nat) /\ Len(last) = IF m <= n THEN n - m + 1 ELSE 0
      /\ \A i \in 1..n - m + 1 : last[i] = chain[m + i - 1]
  <2>1. /\ SubSeq(chain, m, n) \in Seq(Nat)
        /\ Len(SubSeq(chain, m, n)) = IF m <= n THEN n - m + 1 ELSE 0
        /\ \A i \in 1..n - m + 1 : SubSeq(chain, m, n)[i] = chain[m + i - 1]
    BY <1>4, SubSeqProperties
  <2> QED BY <1>3, <2>1, Zenon
<1>6. PICK k \in Nat : k = n - m + 1 /\ Len(last) = k
  <2>1. n - m + 1 \in Nat /\ (IF m <= n THEN n - m + 1 ELSE 0) = n - m + 1
    BY <1>2
  <2> QED BY <1>5, <2>1, Zenon
<1>7. \A i \in 1..k : last[i] = m + i - 1
  <2>1. ASSUME NEW i \in 1..k PROVE last[i] = m + i - 1
    <3>1. m + i - 1 \in 1..n
      BY <1>2, <1>6
    <3> QED BY <1>1, <1>5, <1>6, <3>1, Zenon
  <2> QED BY <2>1
<1>8. NewestFirst(chain, 3) = [i \in 1..k |-> last[(k - i) + 1]]
  <2>1. NewestFirst(chain, 3) = Reverse(last)
    BY <1>1, <1>2, <1>3, Zenon DEF NewestFirst
  <2>2. Reverse(last) = [i \in 1..Len(last) |-> last[(Len(last) - i) + 1]]
    BY Zenon DEF Reverse
  <2> QED BY <1>6, <2>1, <2>2, Zenon
<1>9. ASSUME NEW i \in 1..k PROVE last[(k - i) + 1] = n - i + 1
  <2>1. PICK j \in 1..k : j = (k - i) + 1
    <3>1. (k - i) + 1 \in 1..k
      OBVIOUS
    <3> QED BY <3>1, Zenon
  <2>2. m + j - 1 = n - i + 1
    BY <1>6, <2>1
  <2> QED BY <1>7, <2>1, <2>2, Zenon
<1> QED BY <1>8, <1>9, Zenon

-----------------------------------------------------------------------------
(***************************************************************************)
(* Memory: what tasks store. With each store under way in a tier its size   *)
(* is at most the limit and the stores that overlapped; one of them may     *)
(* be to make room first. A tier over its limit is one that two stores      *)
(* found not yet full, or of which two found the same entry oldest.         *)
(***************************************************************************)
StoreStep == [at : {"idle", "full", "evict", "room"}, tier : Tier,
              entry : [id : EntryId \cup {"none"}, last : Nat], oldest : EntryId \cup {"none"}]
Storing == {c \in Sharer : stores[c].at # "idle"}
StoringIn(t) == {c \in Storing : stores[c].tier = t}
Size(t) == Cardinality(DOMAIN longTerm[t])

\* c is about to make room in tier t.
MakesRoom(c, t) ==
  /\ c \in Sharer /\ stores[c].tier = t
  /\ \/ stores[c].at = "full"
     \/ stores[c].at = "evict" /\ stores[c].oldest \in DOMAIN longTerm[t]

StoreInv ==
  /\ operations \in Nat /\ overlaps \in Nat /\ stores \in [Sharer -> StoreStep]
  /\ DOMAIN longTerm = Tier
  /\ \A t \in Tier : DOMAIN longTerm[t] \subseteq EntryId /\ IsFiniteSet(DOMAIN longTerm[t])
  /\ \A c \in Storing : stores[c].entry.id \in EntryId
  /\ IsFiniteSet(Storing) /\ Cardinality(Storing) <= overlaps + 1
  /\ \A t \in Tier :
       \/ Size(t) + Cardinality(StoringIn(t)) <= MaxEntries + overlaps
       \/ /\ Size(t) + Cardinality(StoringIn(t)) <= MaxEntries + overlaps + 1
          /\ \E c \in Sharer : MakesRoom(c, t)

LEMMA StoreInvInit == ASSUME MemoryAssumption, MemoryInit PROVE StoreInv
<1>1. /\ longTerm = [t \in Tier |-> <<>>] /\ stores = [c \in Sharer |-> NoStore]
      /\ operations = 0 /\ overlaps = 0
  BY DEF MemoryInit
<1>2. NoStore \in StoreStep /\ NoStore.at = "idle"
  BY DEF NoStore, StoreStep, Tier
<1>3. stores \in [Sharer -> StoreStep] /\ \A c \in Sharer : stores[c].at = "idle"
  BY <1>1, <1>2
<1>4. Storing = {} /\ \A t : StoringIn(t) = {}
  BY <1>3 DEF Storing, StoringIn
<1>5. /\ DOMAIN longTerm = Tier
      /\ \A t \in Tier : DOMAIN longTerm[t] = {}
  BY <1>1
<1>6. IsFiniteSet({}) /\ Cardinality({}) = 0
  BY FS_EmptySet
<1>7. 0 \in Nat /\ 0 <= 0 + 1 /\ 0 + 0 <= MaxEntries + 0
  BY DEF MemoryAssumption
<1>8. \A t \in Tier : Size(t) + Cardinality(StoringIn(t)) <= MaxEntries + overlaps
  BY <1>1, <1>4, <1>5, <1>6, <1>7, Zenon DEF Size
<1> QED BY <1>1, <1>3, <1>4, <1>5, <1>6, <1>7, <1>8, Zenon DEF StoreInv

\* What a store under way becomes: it alone changes.
LEMMA StoreChanges ==
  ASSUME stores \in [Sharer -> StoreStep], NEW c \in Sharer, NEW s \in StoreStep,
         stores' = [stores EXCEPT ![c] = s]
  PROVE  /\ stores' \in [Sharer -> StoreStep] /\ stores'[c] = s
         /\ \A d \in Sharer : d # c => stores'[d] = stores[d]
         /\ Storing' = IF s.at = "idle" THEN Storing \ {c} ELSE Storing \cup {c}
         /\ \A t : StoringIn(t)' = IF s.at # "idle" /\ s.tier = t THEN StoringIn(t) \cup {c}
                                ELSE StoringIn(t) \ {c}
<1>1. /\ stores' \in [Sharer -> StoreStep] /\ stores'[c] = s
      /\ \A d \in Sharer : d # c => stores'[d] = stores[d]
  OBVIOUS
<1>2. Storing' = IF s.at = "idle" THEN Storing \ {c} ELSE Storing \cup {c}
  <2>1. ASSUME NEW d PROVE d \in Storing' <=> d \in IF s.at = "idle" THEN Storing \ {c} ELSE Storing \cup {c}
    <3>1. CASE d = c
      BY <1>1, <3>1 DEF Storing
    <3>2. CASE d # c
      BY <1>1, <3>2 DEF Storing
    <3> QED BY <3>1, <3>2
  <2> QED BY <2>1, Zenon
<1>3. ASSUME NEW t
      PROVE  StoringIn(t)' = IF s.at # "idle" /\ s.tier = t THEN StoringIn(t) \cup {c}
                          ELSE StoringIn(t) \ {c}
  <2>1. ASSUME NEW d
        PROVE  d \in StoringIn(t)' <=> d \in IF s.at # "idle" /\ s.tier = t THEN StoringIn(t) \cup {c}
                                          ELSE StoringIn(t) \ {c}
    <3>1. CASE d = c
      BY <1>1, <3>1 DEF Storing, StoringIn
    <3>2. CASE d # c
      BY <1>1, <3>2 DEF Storing, StoringIn
    <3> QED BY <3>1, <3>2
  <2> QED BY <2>1, Zenon
<1> QED BY <1>1, <1>2, <1>3

\* In numbers.
LEMMA StoreCounts ==
  ASSUME MemoryAssumption, StoreInv, NEW t \in Tier
  PROVE  /\ MaxEntries \in Nat \ {0} /\ overlaps \in Nat
         /\ Size(t) \in Nat /\ IsFiniteSet(StoringIn(t)) /\ Cardinality(StoringIn(t)) \in Nat
         /\ Cardinality(Storing) \in Nat /\ Cardinality(StoringIn(t)) <= Cardinality(Storing)
         /\ Cardinality(Storing) <= overlaps + 1
<1>1. MaxEntries \in Nat \ {0} /\ overlaps \in Nat /\ IsFiniteSet(Storing)
      /\ IsFiniteSet(DOMAIN longTerm[t]) /\ Cardinality(Storing) <= overlaps + 1
  BY DEF MemoryAssumption, StoreInv
<1>2. StoringIn(t) \subseteq Storing
  BY DEF StoringIn
<1> QED BY <1>1, <1>2, FS_Subset, FS_CardinalityType DEF Size

\* A store under way stays so: nothing of its tier's sum changes but its size.
LEMMA StillBusy ==
  ASSUME StoreInv, NEW c \in Sharer, stores[c].at # "idle", NEW s \in StoreStep, s.at # "idle",
         s.tier = stores[c].tier, s.entry = stores[c].entry, stores' = [stores EXCEPT ![c] = s]
  PROVE  /\ stores' \in [Sharer -> StoreStep] /\ Storing' = Storing /\ \A t : StoringIn(t)' = StoringIn(t)
         /\ \A b \in Storing : stores'[b].entry = stores[b].entry
         /\ stores'[c] = s /\ \A d \in Sharer : d # c => stores'[d] = stores[d]
<1>1. stores \in [Sharer -> StoreStep]
  BY DEF StoreInv
<1>2. c \in Storing /\ \A t : c \in StoringIn(t) <=> s.tier = t
  BY DEF Storing, StoringIn
<1>3. /\ stores' \in [Sharer -> StoreStep] /\ stores'[c] = s
      /\ \A d \in Sharer : d # c => stores'[d] = stores[d]
      /\ Storing' = Storing \cup {c}
      /\ \A t : StoringIn(t)' = IF s.tier = t THEN StoringIn(t) \cup {c} ELSE StoringIn(t) \ {c}
  <2>1. /\ stores' \in [Sharer -> StoreStep] /\ stores'[c] = s
        /\ \A d \in Sharer : d # c => stores'[d] = stores[d]
        /\ Storing' = IF s.at = "idle" THEN Storing \ {c} ELSE Storing \cup {c}
        /\ \A t : StoringIn(t)' = IF s.at # "idle" /\ s.tier = t THEN StoringIn(t) \cup {c}
                               ELSE StoringIn(t) \ {c}
    BY <1>1, StoreChanges
  <2> QED BY <2>1, Zenon
<1>4. Storing' = Storing /\ \A t : StoringIn(t)' = StoringIn(t)
  BY <1>2, <1>3
<1>5. \A b \in Storing : b \in Sharer
  BY DEF Storing
<1>6. \A b \in Storing : stores'[b].entry = stores[b].entry
  BY <1>3, <1>5, Zenon
<1> QED BY <1>3, <1>4, <1>6

LEMMA BeginStores ==
  ASSUME MemoryAssumption, StoreInv, NEW c \in Sharer, NEW tier \in Tier, NEW id \in EntryId,
         BeginStore(c, tier, id)
  PROVE  StoreInv'
<1>1. PICK x \in Nat : x = operations'
  BY DEF BeginStore, Operates, StoreInv
<1>2. PICK at \in {"full", "room"} :
        at = IF Size(tier) >= MaxEntries THEN "full" ELSE "room"
  OBVIOUS
<1>3. PICK s : s = [at |-> at, tier |-> tier, entry |-> [id |-> id, last |-> x], oldest |-> "none"]
  OBVIOUS
<1>4. /\ s \in StoreStep /\ s.at = at /\ s.at # "idle" /\ s.tier = tier /\ s.entry.id = id
  <2>1. PICK e \in [id : EntryId \cup {"none"}, last : Nat] : e = [id |-> id, last |-> x]
    OBVIOUS
  <2>2. s = [at |-> at, tier |-> tier, entry |-> e, oldest |-> "none"] /\ e.id = id
    BY <1>3, <2>1
  <2> QED BY <1>2, <2>2 DEF StoreStep
<1>5. stores' = [stores EXCEPT ![c] = s]
  <2>1. [NoStore EXCEPT !.tier = tier, !.entry = [id |-> id, last |-> x], !.at = at] = s
    <3>1. PICK e, f : e = [id |-> id, last |-> x] /\ f = [id |-> "none", last |-> 0]
      OBVIOUS
    <3>2. NoStore = [at |-> "idle", tier |-> "facts", entry |-> f, oldest |-> "none"]
      BY <3>1, Zenon DEF NoStore
    <3>3. PICK r1, r2 : r1 = [NoStore EXCEPT !.tier = tier] /\ r2 = [r1 EXCEPT !.entry = e]
      OBVIOUS
    <3>4. r1 = [at |-> "idle", tier |-> tier, entry |-> f, oldest |-> "none"]
      <4>1. [[at |-> "idle", tier |-> "facts", entry |-> f, oldest |-> "none"]
               EXCEPT !.tier = tier] = [at |-> "idle", tier |-> tier, entry |-> f, oldest |-> "none"]
        OBVIOUS
      <4> QED BY <3>2, <3>3, <4>1, Zenon
    <3>5. r2 = [at |-> "idle", tier |-> tier, entry |-> e, oldest |-> "none"]
      <4>1. [[at |-> "idle", tier |-> tier, entry |-> f, oldest |-> "none"]
               EXCEPT !.entry = e] = [at |-> "idle", tier |-> tier, entry |-> e, oldest |-> "none"]
        OBVIOUS
      <4> QED BY <3>3, <3>4, <4>1, Zenon
    <3>6. [r2 EXCEPT !.at = at] = [at |-> at, tier |-> tier, entry |-> e, oldest |-> "none"]
      <4>1. [[at |-> "idle", tier |-> tier, entry |-> e, oldest |-> "none"]
               EXCEPT !.at = at] = [at |-> at, tier |-> tier, entry |-> e, oldest |-> "none"]
        OBVIOUS
      <4> QED BY <3>5, <4>1, Zenon
    <3>7. [NoStore EXCEPT !.tier = tier, !.entry = e, !.at = at] = [r2 EXCEPT !.at = at]
      BY <3>3
    <3> QED BY <1>3, <3>1, <3>6, <3>7, Zenon
  <2>2. stores' = [stores EXCEPT ![c] =
          [NoStore EXCEPT !.tier = tier, !.entry = [id |-> id, last |-> x], !.at = at]]
    BY <1>1, <1>2, Zenon DEF BeginStore, Size
  <2> QED BY <2>1, <2>2, Zenon
<1>6. stores[c].at = "idle" /\ longTerm' = longTerm
      /\ overlaps' = IF Storing # {} THEN overlaps + 1 ELSE overlaps
  BY DEF BeginStore, Storing
<1>7. /\ stores' \in [Sharer -> StoreStep] /\ stores'[c] = s
      /\ \A d \in Sharer : d # c => stores'[d] = stores[d]
      /\ Storing' = Storing \cup {c}
      /\ \A t : StoringIn(t)' = IF tier = t THEN StoringIn(t) \cup {c} ELSE StoringIn(t) \ {c}
  <2>1. stores \in [Sharer -> StoreStep]
    BY DEF StoreInv
  <2>2. /\ stores' \in [Sharer -> StoreStep] /\ stores'[c] = s
        /\ \A d \in Sharer : d # c => stores'[d] = stores[d]
        /\ Storing' = IF s.at = "idle" THEN Storing \ {c} ELSE Storing \cup {c}
        /\ \A t : StoringIn(t)' = IF s.at # "idle" /\ s.tier = t THEN StoringIn(t) \cup {c}
                               ELSE StoringIn(t) \ {c}
    BY <1>4, <1>5, <2>1, StoreChanges
  <2> QED BY <1>4, <2>2, Zenon
<1>8. c \notin Storing /\ \A t : c \notin StoringIn(t) /\ StoringIn(t) \subseteq Storing
  BY <1>6 DEF Storing, StoringIn
<1>9. \A t : StoringIn(t)' = IF tier = t THEN StoringIn(t) \cup {c} ELSE StoringIn(t)
  BY <1>7, <1>8
<1>10. IsFiniteSet(Storing) /\ Cardinality(Storing) \in Nat /\ Cardinality(Storing) <= overlaps + 1
       /\ overlaps \in Nat
  BY FS_CardinalityType DEF StoreInv
<1>11. IsFiniteSet(Storing') /\ Cardinality(Storing') = Cardinality(Storing) + 1
  BY <1>7, <1>8, <1>10, FS_AddElement
<1>12. overlaps' \in Nat /\ Cardinality(Storing') <= overlaps' + 1
  <2>1. CASE Storing = {}
    <3>1. Cardinality(Storing) = 0
      BY <2>1, FS_EmptySet
    <3> QED BY <1>6, <1>10, <1>11, <2>1, <3>1
  <2>2. CASE Storing # {}
    BY <1>6, <1>10, <1>11, <2>2
  <2> QED BY <2>1, <2>2
<1>13. \A b \in Storing' : stores'[b].entry.id \in EntryId
  <2>1. ASSUME NEW b \in Storing' PROVE stores'[b].entry.id \in EntryId
    <3>1. CASE b = c
      BY <1>4, <1>7, <3>1, Zenon
    <3>2. CASE b # c
      <4>1. b \in Storing /\ b \in Sharer
        BY <1>7, <2>1, <3>2 DEF Storing
      <4> QED BY <1>7, <3>2, <4>1, Zenon DEF StoreInv
    <3> QED BY <3>1, <3>2
  <2> QED BY <2>1
<1>14. ASSUME NEW t \in Tier
       PROVE  \/ Size(t)' + Cardinality(StoringIn(t)') <= MaxEntries + overlaps'
              \/ /\ Size(t)' + Cardinality(StoringIn(t)') <= MaxEntries + overlaps' + 1
                 /\ \E d \in Sharer : MakesRoom(d, t)'
  <2>1. PICK n \in Nat, p \in Nat, m \in Nat \ {0} :
          /\ n = Size(t) /\ p = Cardinality(StoringIn(t)) /\ m = MaxEntries
          /\ IsFiniteSet(StoringIn(t))
    BY StoreCounts
  <2>2. Size(t)' = n
    BY <1>6, <2>1, Zenon DEF Size
  <2>3. \A d \in Sharer : MakesRoom(d, t) => MakesRoom(d, t)'
    <3>1. ASSUME NEW d \in Sharer, MakesRoom(d, t) PROVE MakesRoom(d, t)'
      <4>1. d # c
        BY <1>6, <3>1 DEF MakesRoom
      <4>2. stores'[d] = stores[d]
        BY <1>7, <4>1
      <4> QED BY <1>6, <3>1, <4>2, Zenon DEF MakesRoom
    <3> QED BY <3>1
  <2>4. \/ n + p <= m + overlaps
        \/ n + p <= m + overlaps + 1 /\ \E d \in Sharer : MakesRoom(d, t)
    BY <2>1, Zenon DEF StoreInv
  <2>5. PICK q \in Nat : q = Cardinality(StoringIn(t)') /\ q <= p + 1
    <3>1. Cardinality(StoringIn(t) \cup {c}) = p + 1
      BY <1>8, <2>1, FS_AddElement
    <3>2. Cardinality(StoringIn(t)') \in {p, p + 1}
      BY <1>9, <2>1, <3>1, Zenon
    <3>3. \A q \in {p, p + 1} : q \in Nat /\ q <= p + 1
      OBVIOUS
    <3> QED BY <3>2, <3>3, Zenon
  <2>6. CASE Storing # {}
    <3>1. overlaps' = overlaps + 1
      BY <1>6, <2>6
    <3>2. \/ n + q <= m + overlaps'
          \/ n + q <= m + overlaps' + 1 /\ \E d \in Sharer : MakesRoom(d, t)
      BY <1>10, <2>4, <2>5, <3>1
    <3> QED BY <2>1, <2>2, <2>3, <2>5, <3>2, Zenon
  <2>7. CASE Storing = {}
    <3>1. overlaps' = overlaps
      BY <1>6, <2>7
    <3>2. p = 0 /\ \A d \in Sharer : ~MakesRoom(d, t)
      <4>1. StoringIn(t) = {} /\ \A d \in Sharer : stores[d].at = "idle"
        BY <2>7 DEF Storing, StoringIn
      <4> QED BY <2>1, <4>1, FS_EmptySet DEF MakesRoom
    <3>3. n <= m + overlaps
      BY <1>10, <2>4, <3>2
    <3>4. CASE t # tier
      <4>1. q = p
        BY <1>9, <2>1, <2>5, <3>4
      <4>2. n + q <= m + overlaps'
        BY <3>1, <3>2, <3>3, <4>1
      <4> QED BY <2>1, <2>2, <2>5, <4>2, Zenon
    <3>5. CASE t = tier /\ n >= m
      <4>1. stores'[c].at = "full" /\ stores'[c].tier = t
        BY <1>2, <1>4, <1>7, <2>1, <3>5, Zenon
      <4>2. MakesRoom(c, t)'
        BY <4>1, Zenon DEF MakesRoom
      <4>3. n + q <= m + overlaps' + 1
        BY <1>10, <2>5, <3>1, <3>2, <3>3
      <4> QED BY <2>1, <2>2, <2>5, <4>2, <4>3, Zenon
    <3>6. CASE t = tier /\ ~(n >= m)
      <4>1. n + q <= m + overlaps'
        BY <1>10, <2>5, <3>1, <3>2, <3>6
      <4> QED BY <2>1, <2>2, <2>5, <4>1, Zenon
    <3> QED BY <3>4, <3>5, <3>6
  <2> QED BY <2>6, <2>7
<1>15. operations' \in Nat
  BY <1>1, Zenon
<1> QED BY <1>6, <1>7, <1>11, <1>12, <1>13, <1>14, <1>15, Zenon DEF StoreInv


LEMMA FindsOldest ==
  ASSUME MemoryAssumption, StoreInv, NEW c \in Sharer, FindOldest(c) PROVE StoreInv'
<1>1. PICK tier \in Tier : tier = stores[c].tier
  BY DEF StoreInv, StoreStep
<1>2. PICK map : map = longTerm[tier]
  OBVIOUS
<1>3. DOMAIN map \subseteq EntryId /\ stores[c].at = "full" /\ stores[c] \in StoreStep
  BY <1>1, <1>2 DEF FindOldest, StoreInv
<1>4. PICK s \in StoreStep : /\ stores' = [stores EXCEPT ![c] = s]
                         /\ s.tier = tier /\ s.entry = stores[c].entry
                         /\ \/ s.at = "room" /\ map = <<>>
                            \/ s.at = "evict" /\ s.oldest \in DOMAIN map
  <2>1. PICK at \in {"idle", "full", "evict", "room"},
             e \in [id : EntryId \cup {"none"}, last : Nat], old \in EntryId \cup {"none"} :
          stores[c] = [at |-> at, tier |-> tier, entry |-> e, oldest |-> old]
    BY <1>1, <1>3 DEF StoreStep
  <2>2. stores[c].entry = e
    BY <2>1
  <2>3. CASE map = <<>>
    <3>1. PICK s \in StoreStep : s = [at |-> "room", tier |-> tier, entry |-> e, oldest |-> old]
      BY DEF StoreStep
    <3>2. [stores[c] EXCEPT !.at = "room"] = s
      BY <2>1, <3>1
    <3>3. stores' = [stores EXCEPT ![c].at = "room"]
      BY <1>1, <1>2, <2>3, Zenon DEF FindOldest
    <3>4. stores' = [stores EXCEPT ![c] = s]
      BY <3>2, <3>3, Zenon
    <3>5. s.tier = tier /\ s.entry = e /\ s.at = "room"
      BY <3>1
    <3> QED BY <2>2, <2>3, <3>4, <3>5, Zenon
  <2>4. CASE map # <<>>
    <3>1. PICK i \in DOMAIN map : stores' = [stores EXCEPT ![c].at = "evict", ![c].oldest = i]
      BY <1>1, <1>2, <2>4, Zenon DEF FindOldest
    <3>2. i \in EntryId
      BY <1>3
    <3>3. PICK s \in StoreStep : s = [at |-> "evict", tier |-> tier, entry |-> e, oldest |-> i]
      BY <3>2 DEF StoreStep
    <3>4. PICK r : r = stores[c] /\ r = [at |-> at, tier |-> tier, entry |-> e, oldest |-> old]
      BY <2>1
    <3>5. [[r EXCEPT !.at = "evict"] EXCEPT !.oldest = i] = s
      <4>1. PICK q : q = [r EXCEPT !.at = "evict"]
        OBVIOUS
      <4>2. q = [at |-> "evict", tier |-> tier, entry |-> e, oldest |-> old]
        <5>1. [[at |-> at, tier |-> tier, entry |-> e, oldest |-> old] EXCEPT !.at = "evict"]
                = [at |-> "evict", tier |-> tier, entry |-> e, oldest |-> old]
          OBVIOUS
        <5> QED BY <3>4, <4>1, <5>1, Zenon
      <4>3. [q EXCEPT !.oldest = i] = s
        <5>1. [[at |-> "evict", tier |-> tier, entry |-> e, oldest |-> old] EXCEPT !.oldest = i]
                = [at |-> "evict", tier |-> tier, entry |-> e, oldest |-> i]
          OBVIOUS
        <5> QED BY <3>3, <4>2, <5>1, Zenon
      <4> QED BY <4>1, <4>3, Zenon
    <3>6. stores' = [stores EXCEPT ![c] = s]
      <4>1. [stores EXCEPT ![c].at = "evict", ![c].oldest = i]
              = [stores EXCEPT ![c] = [[r EXCEPT !.at = "evict"] EXCEPT !.oldest = i]]
        BY <3>4 DEF StoreInv
      <4> QED BY <3>1, <3>5, <4>1, Zenon
    <3>7. s.tier = tier /\ s.entry = e /\ s.at = "evict" /\ s.oldest = i
      BY <3>3
    <3> QED BY <2>2, <3>6, <3>7, Zenon
  <2> QED BY <2>3, <2>4
<1>5. /\ stores' \in [Sharer -> StoreStep] /\ Storing' = Storing /\ \A t : StoringIn(t)' = StoringIn(t)
      /\ \A b \in Storing : stores'[b].entry = stores[b].entry
      /\ stores'[c] = s /\ \A d \in Sharer : d # c => stores'[d] = stores[d]
  BY <1>1, <1>3, <1>4, StillBusy
<1>6. UNCHANGED <<longTerm, operations, overlaps>>
  BY DEF FindOldest
<1>7. ASSUME NEW t \in Tier
      PROVE  \/ Size(t)' + Cardinality(StoringIn(t)') <= MaxEntries + overlaps'
             \/ /\ Size(t)' + Cardinality(StoringIn(t)') <= MaxEntries + overlaps' + 1
                /\ \E d \in Sharer : MakesRoom(d, t)'
  <2>1. Size(t)' = Size(t) /\ StoringIn(t)' = StoringIn(t) /\ overlaps' = overlaps
    BY <1>5, <1>6, Zenon DEF Size
  <2>2. \A d \in Sharer : d # c /\ MakesRoom(d, t) => MakesRoom(d, t)'
    BY <1>5, <1>6, Zenon DEF MakesRoom
  <2>3. CASE s.at = "evict"
    <3>1. MakesRoom(c, t) => MakesRoom(c, t)'
      BY <1>1, <1>2, <1>4, <1>5, <1>6, <2>3, Zenon DEF MakesRoom
    <3> QED BY <2>1, <2>2, <3>1, Zenon DEF StoreInv
  <2>4. CASE s.at = "room" /\ map = <<>> /\ t = tier
    <3>1. PICK p \in Nat, m \in Nat \ {0}, o \in Nat :
            /\ p = Cardinality(StoringIn(t)) /\ m = MaxEntries /\ o = overlaps
            /\ p <= Cardinality(Storing) /\ Cardinality(Storing) <= o + 1 /\ Cardinality(Storing) \in Nat
      BY StoreCounts
    <3>2. Size(t) = 0
      <4>1. DOMAIN map = {}
        BY <2>4
      <4> QED BY <1>2, <2>4, <4>1, FS_EmptySet DEF Size
    <3>3. 0 + p <= m + o
      BY <3>1
    <3> QED BY <2>1, <3>1, <3>2, <3>3, Zenon
  <2>5. CASE t # tier
    <3>1. ~MakesRoom(c, t)
      BY <1>1, <2>5 DEF MakesRoom
    <3> QED BY <2>1, <2>2, <3>1, Zenon DEF StoreInv
  <2> QED BY <1>4, <2>3, <2>4, <2>5
<1>8. \A b \in Storing' : stores'[b].entry.id \in EntryId
  BY <1>5, Zenon DEF StoreInv
<1> QED BY <1>5, <1>6, <1>7, <1>8, Zenon DEF StoreInv

LEMMA RemovesOldest ==
  ASSUME MemoryAssumption, StoreInv, NEW c \in Sharer, RemoveOldest(c) PROVE StoreInv'
<1>1. PICK tier \in Tier : tier = stores[c].tier
  BY DEF StoreInv, StoreStep
<1>2. PICK old : old = stores[c].oldest
  OBVIOUS
<1>3. PICK D : D = DOMAIN longTerm[tier]
  OBVIOUS
<1>4. D \subseteq EntryId /\ IsFiniteSet(D) /\ stores[c].at = "evict" /\ stores[c] \in StoreStep
  BY <1>3 DEF RemoveOldest, StoreInv
<1>5. PICK s \in StoreStep : /\ stores' = [stores EXCEPT ![c] = s] /\ s.tier = tier
                         /\ s.entry = stores[c].entry /\ s.at = "room"
  <2>1. PICK at \in {"idle", "full", "evict", "room"},
             e \in [id : EntryId \cup {"none"}, last : Nat], o \in EntryId \cup {"none"} :
          stores[c] = [at |-> at, tier |-> tier, entry |-> e, oldest |-> o]
    BY <1>1, <1>4 DEF StoreStep
  <2>2. PICK s \in StoreStep : s = [at |-> "room", tier |-> tier, entry |-> e, oldest |-> o]
    BY DEF StoreStep
  <2>3. [stores[c] EXCEPT !.at = "room"] = s
    BY <2>1, <2>2
  <2>4. stores' = [stores EXCEPT ![c].at = "room"]
    BY DEF RemoveOldest
  <2>5. stores' = [stores EXCEPT ![c] = s]
    BY <2>3, <2>4, Zenon
  <2>6. s.tier = tier /\ s.entry = e /\ s.at = "room" /\ stores[c].entry = e
    BY <2>1, <2>2
  <2> QED BY <2>5, <2>6, Zenon
<1>6. /\ stores' \in [Sharer -> StoreStep] /\ Storing' = Storing /\ \A t : StoringIn(t)' = StoringIn(t)
      /\ \A b \in Storing : stores'[b].entry = stores[b].entry
      /\ stores'[c] = s /\ \A d \in Sharer : d # c => stores'[d] = stores[d]
  BY <1>1, <1>4, <1>5, StillBusy
<1>7. longTerm' = [longTerm EXCEPT ![tier] = [i \in D \ {old} |-> longTerm[tier][i]]]
      /\ operations' = operations /\ overlaps' = overlaps
  BY <1>1, <1>2, <1>3, Zenon DEF RemoveOldest
<1>8. /\ DOMAIN longTerm' = Tier /\ DOMAIN longTerm'[tier] = D \ {old}
      /\ \A t \in Tier : t # tier => longTerm'[t] = longTerm[t]
  <2>1. DOMAIN longTerm = Tier
    BY DEF StoreInv
  <2>2. PICK new : new = [i \in D \ {old} |-> longTerm[tier][i]]
    OBVIOUS
  <2>3. longTerm' = [longTerm EXCEPT ![tier] = new]
    BY <1>7, <2>2, Zenon
  <2>4. DOMAIN new = D \ {old}
    BY <2>2, Zenon
  <2> QED BY <2>1, <2>3, <2>4
<1>9. \A t \in Tier : DOMAIN longTerm'[t] \subseteq EntryId /\ IsFiniteSet(DOMAIN longTerm'[t])
  <2>1. D \ {old} \subseteq EntryId /\ IsFiniteSet(D \ {old})
    BY <1>4, FS_RemoveElement
  <2>2. ASSUME NEW t \in Tier
        PROVE  DOMAIN longTerm'[t] \subseteq EntryId /\ IsFiniteSet(DOMAIN longTerm'[t])
    <3>1. CASE t = tier
      BY <1>8, <2>1, <3>1, Zenon
    <3>2. CASE t # tier
      BY <1>8, <3>2, Zenon DEF StoreInv
    <3> QED BY <3>1, <3>2
  <2> QED BY <2>2
<1>10. ASSUME NEW t \in Tier
       PROVE  \/ Size(t)' + Cardinality(StoringIn(t)') <= MaxEntries + overlaps'
              \/ /\ Size(t)' + Cardinality(StoringIn(t)') <= MaxEntries + overlaps' + 1
                 /\ \E d \in Sharer : MakesRoom(d, t)'
  <2>1. PICK n \in Nat, p \in Nat, m \in Nat \ {0}, o \in Nat :
          /\ n = Size(t) /\ p = Cardinality(StoringIn(t)) /\ m = MaxEntries /\ o = overlaps
    BY StoreCounts
  <2>2. Cardinality(StoringIn(t)') = p /\ overlaps' = o
    BY <1>6, <1>7, <2>1, Zenon
  <2>3. \/ n + p <= m + o
        \/ n + p <= m + o + 1 /\ \E d \in Sharer : MakesRoom(d, t)
    BY <2>1, Zenon DEF StoreInv
  <2>4. CASE t = tier /\ old \in D
    <3>1. Size(t)' = n - 1
      <4>1. Cardinality(D \ {old}) = Cardinality(D) - 1
        BY <1>4, <2>4, FS_RemoveElement
      <4>2. Size(t)' = Cardinality(D \ {old}) /\ n = Cardinality(D)
        BY <1>3, <1>8, <2>1, <2>4, Zenon DEF Size
      <4> QED BY <4>1, <4>2
    <3>2. (n - 1) + p <= m + o
      BY <2>3
    <3> QED BY <2>1, <2>2, <3>1, <3>2, Zenon
  <2>5. CASE t # tier \/ old \notin D
    <3>1. DOMAIN longTerm'[t] = DOMAIN longTerm[t]
      BY <1>3, <1>8, <2>5
    <3>2. Size(t)' = n
      BY <2>1, <3>1, Zenon DEF Size
    <3>3. ~MakesRoom(c, t)
      <4>1. stores[c].at # "full"
        BY <1>4
      <4> QED BY <1>1, <1>2, <1>3, <2>5, <4>1, Zenon DEF MakesRoom
    <3>4. \A d \in Sharer : MakesRoom(d, t) => MakesRoom(d, t)'
      <4>1. ASSUME NEW d \in Sharer, MakesRoom(d, t) PROVE MakesRoom(d, t)'
        <5>1. d # c
          BY <3>3, <4>1, Zenon
        <5>2. stores'[d] = stores[d]
          BY <1>6, <5>1
        <5> QED BY <3>1, <4>1, <5>2, Zenon DEF MakesRoom
      <4> QED BY <4>1
    <3> QED BY <2>1, <2>2, <2>3, <3>2, <3>4, Zenon
  <2> QED BY <2>4, <2>5
<1>11. \A b \in Storing' : stores'[b].entry.id \in EntryId
  BY <1>6, Zenon DEF StoreInv
<1> QED BY <1>6, <1>7, <1>8, <1>9, <1>10, <1>11, Zenon DEF StoreInv

LEMMA InsertsOne ==
  ASSUME MemoryAssumption, StoreInv, NEW c \in Sharer, Insert(c) PROVE StoreInv'
<1>1. PICK tier \in Tier : tier = stores[c].tier
  BY DEF StoreInv, StoreStep
<1>2. PICK e : e = stores[c].entry
  OBVIOUS
<1>3. PICK D : D = DOMAIN longTerm[tier]
  OBVIOUS
<1>4. D \subseteq EntryId /\ IsFiniteSet(D) /\ stores[c].at = "room"
  BY <1>3 DEF Insert, StoreInv
<1>5. c \in Storing /\ c \in StoringIn(tier)
  BY <1>1, <1>4 DEF Storing, StoringIn
<1>6. e.id \in EntryId
  BY <1>2, <1>5, Zenon DEF StoreInv
<1>7. NoStore \in StoreStep /\ NoStore.at = "idle"
  BY DEF NoStore, StoreStep, Tier
<1>8. /\ stores' \in [Sharer -> StoreStep]
      /\ \A d \in Sharer : d # c => stores'[d] = stores[d]
      /\ Storing' = Storing \ {c} /\ \A t : StoringIn(t)' = StoringIn(t) \ {c}
  <2>1. stores \in [Sharer -> StoreStep] /\ stores' = [stores EXCEPT ![c] = NoStore]
    BY DEF StoreInv, Insert
  <2>2. /\ stores' \in [Sharer -> StoreStep] /\ stores'[c] = NoStore
        /\ \A d \in Sharer : d # c => stores'[d] = stores[d]
        /\ Storing' = IF NoStore.at = "idle" THEN Storing \ {c} ELSE Storing \cup {c}
        /\ \A t : StoringIn(t)' = IF NoStore.at # "idle" /\ NoStore.tier = t THEN StoringIn(t) \cup {c}
                               ELSE StoringIn(t) \ {c}
    BY <1>7, <2>1, StoreChanges
  <2> QED BY <1>7, <2>2, Zenon
<1>9. longTerm' = [longTerm EXCEPT ![tier] = PutEntry(longTerm[tier], e)]
      /\ operations' = operations /\ overlaps' = overlaps
  BY <1>1, <1>2, Zenon DEF Insert
<1>10. /\ DOMAIN longTerm' = Tier /\ DOMAIN longTerm'[tier] = D \cup {e.id}
       /\ \A t \in Tier : t # tier => longTerm'[t] = longTerm[t]
  <2>1. DOMAIN longTerm = Tier
    BY DEF StoreInv
  <2>2. PICK new : new = PutEntry(longTerm[tier], e)
    OBVIOUS
  <2>3. longTerm' = [longTerm EXCEPT ![tier] = new]
    BY <1>9, <2>2, Zenon
  <2>4. DOMAIN new = D \cup {e.id}
    BY <1>3, <2>2, Zenon DEF PutEntry
  <2> QED BY <2>1, <2>3, <2>4
<1>11. \A t \in Tier : DOMAIN longTerm'[t] \subseteq EntryId /\ IsFiniteSet(DOMAIN longTerm'[t])
  <2>1. D \cup {e.id} \subseteq EntryId /\ IsFiniteSet(D \cup {e.id})
    BY <1>4, <1>6, FS_AddElement
  <2>2. ASSUME NEW t \in Tier
        PROVE  DOMAIN longTerm'[t] \subseteq EntryId /\ IsFiniteSet(DOMAIN longTerm'[t])
    <3>1. CASE t = tier
      BY <1>10, <2>1, <3>1, Zenon
    <3>2. CASE t # tier
      BY <1>10, <3>2, Zenon DEF StoreInv
    <3> QED BY <3>1, <3>2
  <2> QED BY <2>2
<1>12. ASSUME NEW t \in Tier
       PROVE  \/ Size(t)' + Cardinality(StoringIn(t)') <= MaxEntries + overlaps'
              \/ /\ Size(t)' + Cardinality(StoringIn(t)') <= MaxEntries + overlaps' + 1
                 /\ \E d \in Sharer : MakesRoom(d, t)'
  <2>1. PICK n \in Nat, p \in Nat, m \in Nat \ {0}, o \in Nat :
          /\ n = Size(t) /\ p = Cardinality(StoringIn(t)) /\ m = MaxEntries /\ o = overlaps
          /\ IsFiniteSet(StoringIn(t))
    BY StoreCounts
  <2>2. overlaps' = o
    BY <1>9, <2>1, Zenon
  <2>3. \/ n + p <= m + o
        \/ n + p <= m + o + 1 /\ \E d \in Sharer : MakesRoom(d, t)
    BY <2>1, Zenon DEF StoreInv
  <2>4. \A d \in Sharer : MakesRoom(d, t) => MakesRoom(d, t)'
    <3>1. ASSUME NEW d \in Sharer, MakesRoom(d, t) PROVE MakesRoom(d, t)'
      <4>1. d # c
        BY <1>4, <3>1 DEF MakesRoom
      <4>2. stores'[d] = stores[d]
        BY <1>8, <4>1
      <4>3. DOMAIN longTerm[t] \subseteq DOMAIN longTerm'[t]
        <5>1. CASE t = tier
          BY <1>3, <1>10, <5>1
        <5>2. CASE t # tier
          BY <1>10, <5>2
        <5> QED BY <5>1, <5>2
      <4> QED BY <3>1, <4>2, <4>3, Zenon DEF MakesRoom
    <3> QED BY <3>1
  <2>5. PICK a \in Nat, b \in Nat :
          a = Size(t)' /\ b = Cardinality(StoringIn(t)') /\ a + b <= n + p
    <3>1. CASE t = tier
      <4>1. Cardinality(StoringIn(t) \ {c}) = p - 1 /\ p - 1 \in Nat
        <5>1. Cardinality(StoringIn(t) \ {c}) = p - 1 /\ IsFiniteSet(StoringIn(t) \ {c})
          BY <1>5, <2>1, <3>1, FS_RemoveElement
        <5> QED BY <5>1, FS_CardinalityType
      <4>2. /\ Cardinality(D \cup {e.id}) \in {n, n + 1}
        <5>1. n = Cardinality(D)
          BY <1>3, <2>1, <3>1, Zenon DEF Size
        <5>2. CASE e.id \in D
          <6>1. D \cup {e.id} = D
            BY <5>2
          <6> QED BY <5>1, <6>1, Zenon
        <5>3. CASE e.id \notin D
          BY <1>4, <5>1, <5>3, FS_AddElement
        <5> QED BY <5>2, <5>3
      <4>3. Size(t)' = Cardinality(D \cup {e.id}) /\ Cardinality(StoringIn(t)') = p - 1
        BY <1>8, <1>10, <3>1, <4>1, Zenon DEF Size
      <4>4. \A a \in {n, n + 1} : a \in Nat /\ a + (p - 1) <= n + p
        OBVIOUS
      <4> QED BY <4>1, <4>2, <4>3, <4>4, Zenon
    <3>2. CASE t # tier
      <4>1. c \notin StoringIn(t)
        BY <1>1, <3>2 DEF StoringIn
      <4>2. StoringIn(t)' = StoringIn(t) /\ Size(t)' = Size(t)
        <5>1. StoringIn(t) \ {c} = StoringIn(t)
          BY <4>1
        <5> QED BY <1>8, <1>10, <3>2, <5>1, Zenon DEF Size
      <4>3. n + p <= n + p
        OBVIOUS
      <4> QED BY <2>1, <4>2, <4>3, Zenon
    <3> QED BY <3>1, <3>2
  <2>6. \/ a + b <= m + o
        \/ a + b <= m + o + 1 /\ \E d \in Sharer : MakesRoom(d, t)
    BY <2>3, <2>5
  <2> QED BY <2>1, <2>2, <2>4, <2>5, <2>6, Zenon
<1>13. IsFiniteSet(Storing') /\ Cardinality(Storing') <= overlaps' + 1
  <2>1. IsFiniteSet(Storing) /\ Cardinality(Storing) \in Nat /\ Cardinality(Storing) <= overlaps + 1
        /\ overlaps \in Nat
    BY FS_CardinalityType DEF StoreInv
  <2>2. IsFiniteSet(Storing \ {c}) /\ Cardinality(Storing \ {c}) = Cardinality(Storing) - 1
    BY <1>5, <2>1, FS_RemoveElement
  <2> QED BY <1>8, <1>9, <2>1, <2>2
<1>14. \A b \in Storing' : stores'[b].entry.id \in EntryId
  <2>1. ASSUME NEW b \in Storing' PROVE stores'[b].entry.id \in EntryId
    <3>1. b \in Storing /\ b # c /\ b \in Sharer
      BY <1>8 DEF Storing
    <3> QED BY <1>8, <3>1, Zenon DEF StoreInv
  <2> QED BY <2>1
<1> QED BY <1>8, <1>9, <1>10, <1>11, <1>12, <1>13, <1>14, Zenon DEF StoreInv


MemoryInv == ThinkInv /\ StoreInv

LEMMA TasksThinkKeeps ==
  ASSUME MemoryAssumption, MemoryInv, TasksThink PROVE MemoryInv'
<1>1. ThinkInv'
  <2>1. CASE Add
    BY <2>1, AddThinks DEF MemoryInv
  <2>2. CASE Clear
    BY <2>2, ClearThinks DEF MemoryInv
  <2>3. CASE BeginTask
    BY <2>3, BeginThinks DEF MemoryInv
  <2>4. CASE Collect
    BY <2>4, CollectThinks DEF MemoryInv
  <2>5. CASE AddReasoningStep
    BY <2>5, ReasonThinks DEF MemoryInv
  <2>6. ASSUME NEW c \in Sharer, AddHypothesis(c) PROVE ThinkInv'
    BY <2>6, HypothesisThinks DEF MemoryInv
  <2>7. ASSUME NEW c \in Sharer, AddEvidence(c) PROVE ThinkInv'
    BY <2>7, EvidenceThinks DEF MemoryInv
  <2> QED BY <2>1, <2>2, <2>3, <2>4, <2>5, <2>6, <2>7, Zenon DEF TasksThink
<1>2. UNCHANGED <<longTerm, stores, overlaps>>
  BY DEF TasksThink, Add, Clear, BeginTask, Collect, AddReasoningStep, AddHypothesis, AddEvidence
<1>3. operations' \in Nat
  BY <1>1, Zenon DEF ThinkInv
<1>4. StoreInv
  BY DEF MemoryInv
<1>5. StoreInv'
  <2>1. Storing' = Storing /\ \A t : StoringIn(t)' = StoringIn(t) /\ Size(t)' = Size(t)
    BY <1>2, Zenon DEF Storing, StoringIn, Size
  <2>2. \A c, t : MakesRoom(c, t)' <=> MakesRoom(c, t)
    BY <1>2, Zenon DEF MakesRoom
  <2> QED BY <1>2, <1>3, <1>4, <2>1, <2>2, Zenon DEF StoreInv
<1> QED BY <1>1, <1>5 DEF MemoryInv

LEMMA TasksLearnKeeps ==
  ASSUME MemoryAssumption, MemoryInv, TasksLearn PROVE MemoryInv'
<1>1. StoreInv'
  <2>1. PICK c \in Sharer :
          \/ \E tier \in Tier, id \in EntryId : BeginStore(c, tier, id)
          \/ FindOldest(c) \/ RemoveOldest(c) \/ Insert(c)
    BY DEF TasksLearn
  <2>2. ASSUME NEW tier \in Tier, NEW id \in EntryId, BeginStore(c, tier, id) PROVE StoreInv'
    BY <2>2, BeginStores DEF MemoryInv
  <2>3. CASE FindOldest(c)
    BY <2>3, FindsOldest DEF MemoryInv
  <2>4. CASE RemoveOldest(c)
    BY <2>4, RemovesOldest DEF MemoryInv
  <2>5. CASE Insert(c)
    BY <2>5, InsertsOne DEF MemoryInv
  <2> QED BY <2>1, <2>2, <2>3, <2>4, <2>5
<1>2. UNCHANGED <<conversation, working, given>>
  BY DEF TasksLearn, BeginStore, FindOldest, RemoveOldest, Insert
<1>3. operations' \in Nat
  BY <1>1, Zenon DEF StoreInv
<1> QED BY <1>1, <1>2, <1>3, Zenon DEF MemoryInv, ThinkInv

LEMMA MemoryInvSays == ASSUME MemoryAssumption, MemoryInv PROVE SharedMemoryHolds
<1>1. ASSUME NEW t \in Tier PROVE Cardinality(DOMAIN longTerm[t]) <= MaxEntries + overlaps
  <2>1. PICK n \in Nat, p \in Nat, m \in Nat \ {0}, o \in Nat :
          /\ n = Size(t) /\ p = Cardinality(StoringIn(t)) /\ m = MaxEntries /\ o = overlaps
          /\ IsFiniteSet(StoringIn(t))
    BY StoreCounts DEF MemoryInv
  <2>2. \/ n + p <= m + o
        \/ n + p <= m + o + 1 /\ \E d \in Sharer : MakesRoom(d, t)
    BY <2>1, Zenon DEF MemoryInv, StoreInv
  <2>3. (\E d \in Sharer : MakesRoom(d, t)) => p # 0
    <3>1. ASSUME NEW d \in Sharer, MakesRoom(d, t) PROVE p # 0
      <4>1. d \in StoringIn(t)
        BY <3>1 DEF MakesRoom, StoringIn, Storing
      <4> QED BY <2>1, <4>1, FS_EmptySet
    <3> QED BY <3>1
  <2>4. n <= m + o
    BY <2>2, <2>3
  <2> QED BY <2>1, <2>4, Zenon DEF Size
<1>2. \A i \in DOMAIN ContextSummary.chain : ContextSummary.chain[i] = working.iteration - i + 1
  <2>1. PICK n \in Nat, chain \in Seq(Nat) :
          n = working.iteration /\ chain = working.reasoning_chain
    BY DEF MemoryInv, ThinkInv, TaskState
  <2>2. InSteps(chain, n)
    BY <2>1, Zenon DEF MemoryInv, ThinkInv
  <2>3. ContextSummary.chain = NewestFirst(chain, 3)
    <3>1. PICK a, b : a = NewestFirst([i \in 1..working.observations |-> i], 5)
                      /\ b = NewestFirst(chain, 3)
      OBVIOUS
    <3>2. ContextSummary = [task |-> working.current_task, iteration |-> working.iteration,
                            observations |-> a, chain |-> b]
      BY <2>1, <3>1, Zenon DEF ContextSummary
    <3>3. ContextSummary.chain = b
      BY <3>2
    <3> QED BY <3>1, <3>3, Zenon
  <2>4. \A i \in DOMAIN NewestFirst(chain, 3) : NewestFirst(chain, 3)[i] = n - i + 1
    BY <2>2, ChainNewestFirst, Zenon
  <2> QED BY <2>1, <2>3, <2>4, Zenon
<1>3. ThinkInv
  BY DEF MemoryInv
<1> QED BY <1>1, <1>2, <1>3, Zenon DEF ThinkInv, Weighed, SharedMemoryHolds

\* agent/memory.rs: whatever tasks share a memory, and however their stores overlap.
THEOREM MemoryHoldsAlways == ASSUME MemoryAssumption PROVE MemorySpec => []SharedMemoryHolds
<1>1. MemoryInit => MemoryInv
  BY ThinkInvInit, StoreInvInit DEF MemoryInv
<1>2. MemoryInv /\ [MemoryNext]_memVars => MemoryInv'
  <2> SUFFICES ASSUME MemoryInv, [MemoryNext]_memVars PROVE MemoryInv'
    OBVIOUS
  <2>1. CASE TasksThink
    BY <2>1, TasksThinkKeeps
  <2>2. CASE TasksLearn
    BY <2>2, TasksLearnKeeps
  <2>3. CASE UNCHANGED memVars
    <3>1. UNCHANGED <<conversation, working, longTerm, stores, given, operations, overlaps>>
      BY <2>3 DEF memVars
    <3>2. ThinkInv'
      BY <3>1, Zenon DEF MemoryInv, ThinkInv
    <3>3. StoreInv'
      <4>1. Storing' = Storing /\ \A t : StoringIn(t)' = StoringIn(t) /\ Size(t)' = Size(t)
        BY <3>1, Zenon DEF Storing, StoringIn, Size
      <4>2. \A c, t : MakesRoom(c, t)' <=> MakesRoom(c, t)
        BY <3>1, Zenon DEF MakesRoom
      <4> QED BY <3>1, <4>1, <4>2, Zenon DEF MemoryInv, StoreInv
    <3> QED BY <3>2, <3>3 DEF MemoryInv
  <2> QED BY <2>1, <2>2, <2>3 DEF MemoryNext
<1>3. MemoryInv => SharedMemoryHolds
  BY MemoryInvSays
<1> QED BY <1>1, <1>2, <1>3, PTL DEF MemorySpec

-----------------------------------------------------------------------------
(* Together.                                                               *)

\* The quotas of plans (billing/metering.rs), the rate of an API key
\* (gateway/rate_limit.rs) and the privacy budget of a query type
\* (credit/privacy_budget.rs) are kept however requests come together.
THEOREM LimitsHoldAlways == ASSUME GatewayAssumption PROVE GatewaySpec => []LimitsHold
<1>1. MeteringSpec => []QuotasHold
  BY QuotasHoldAlways DEF GatewayAssumption
<1>2. RateSpec => []RateBounded
  BY RateBoundedAlways DEF GatewayAssumption
<1>3. BudgetSpec => []SpendingBounded
  BY SpendingBoundedAlways DEF GatewayAssumption
<1> QED BY <1>1, <1>2, <1>3, PTL DEF GatewaySpec, LimitsHold

\* A month's usage record only grows (billing/metering.rs), an expired decision
\* stays expired (credit/approval_gate.rs), and a test is decided once, by enough
\* outcomes (credit/model_registry.rs), whatever comes late or again.
THEOREM SettledForGood == ASSUME GatewayAssumption PROVE GatewaySpec => SettledStays
<1>1. MeteringSpec => RecordOnlyGrows
  BY RecordsOnlyGrow DEF GatewayAssumption
<1>2. GateSpec => ExpiredIsFinal
  BY ExpiredStays DEF GatewayAssumption
<1>3. RegistrySpec => DecidedOnce
  BY TestsDecidedOnce DEF GatewayAssumption
<1> QED BY <1>1, <1>2, <1>3, PTL DEF GatewaySpec, SettledStays

\* Tasks of an agent and queries to the LLM are each accounted for once, however
\* they overlap, and no tool that writes runs (agent/autonomous.rs, llm/mod.rs).
THEOREM AgentsAccountedAlways ==
  ASSUME GatewayAssumption PROVE GatewaySpec => []AgentsAccounted
<1>1. AgentSpec => []AgentTasksAccounted
  BY AgentTasksAccountedAlways DEF GatewayAssumption
<1>2. LlmSpec => []QueriesAccounted
  BY QueriesAccountedAlways DEF GatewayAssumption
<1> QED BY <1>1, <1>2, PTL DEF GatewaySpec, AgentsAccounted

\* Of every request carried out there is one entry, in exactly one place: waiting to
\* be logged, buffered, being flushed, a row, or lost, be it to an error, a dropped
\* handler or a crash (gateway/audit.rs); invoices have the numbers of their order
\* and no gap, the first payment settles them and none is overdue before its day
\* (billing/invoice.rs); and what a device sent is stored whole or not at all
\* (gateway/graph_sync.rs).
THEOREM RecordsCompleteAlways == ASSUME GatewayAssumption PROVE GatewaySpec => []RecordsComplete
<1>1. AuditSpec => []EntriesAccounted
  BY EntriesAccountedAlways DEF GatewayAssumption
<1>2. InvoiceSpec => []InvoicesSound
  BY InvoicesSoundAlways DEF GatewayAssumption
<1>3. GraphSyncSpec => []SyncedWholly
  BY SyncedWhollyAlways DEF GatewayAssumption
<1> QED BY <1>1, <1>2, <1>3, PTL DEF GatewaySpec, RecordsComplete

\* The newest decisions can be looked up and no merged cohort is small
\* (gateway/k_anonymity.rs); nothing is deleted before its time, however late the
\* statement runs (gateway/data_retention.rs).
THEOREM DataProtectedAlways == ASSUME GatewayAssumption PROVE GatewaySpec => []DataProtected
<1>1. KSpec => [](DecisionsKept /\ MergedCohortsAreLarge)
  BY CohortsAnonymousAlways DEF GatewayAssumption
<1>2. RetentionSpec => []RetentionRespected
  BY RetentionRespectedAlways DEF GatewayAssumption
<1> QED BY <1>1, <1>2, PTL DEF GatewaySpec, DataProtected

\* What tasks that share a memory keep in it holds together (agent/memory.rs); what
\* is learnt comes from the newest outcomes, each counted once
\* (loops/drift_detection.rs, loops/credit_feedback.rs); and what the capability
\* modules keep and answer is sound through stops, starts and respawns.
THEOREM LearningKeptAlways == ASSUME GatewayAssumption PROVE GatewaySpec => []LearningKept
<1>1. MemorySpec => []SharedMemoryHolds
  BY MemoryHoldsAlways DEF GatewayAssumption
<1>2. DriftSpec => []ReportsNewest
  BY ReportsNewestAlways DEF GatewayAssumption
<1>3. FeedbackSpec => []OutcomesCounted
  BY OutcomesCountedAlways DEF GatewayAssumption
<1>4. CMSpec => []CapabilitiesSound
  BY CapabilitiesSoundAlways DEF GatewayAssumption
<1> QED BY <1>1, <1>2, <1>3, <1>4, PTL DEF GatewaySpec, LearningKept

\* What the services behind the gateway keep is what their code declares, and no
\* more than it allows: recent requests and decisions, tokens, the shares of a
\* test, a task's iterations, failures and messages, an open breaker's age, the
\* entries that wait, whichever requests, answers and faults come in any order.
THEOREM GatewayTypesAlways == ASSUME GatewayAssumption PROVE GatewaySpec => []GatewayTypeOK
<1>1. /\ MeteringSpec => []MeteringTypeOK
      /\ RateSpec => []RateTypeOK
      /\ BudgetSpec => []BudgetTypeOK
  BY MeteringTypesAlways, RateTypesAlways, BudgetTypesAlways DEF GatewayAssumption
<1>2. /\ GateSpec => []GateTypeOK
      /\ RegistrySpec => []RegistryTypeOK
  BY GateTypesAlways, RegistryTypesAlways DEF GatewayAssumption
<1>3. /\ AgentSpec => []AgentTypeOK
      /\ LlmSpec => []LlmTypeOK
  BY AgentTypesAlways, LlmTypesAlways DEF GatewayAssumption
<1>4. /\ GraphSyncSpec => []GraphSyncTypeOK
      /\ AuditSpec => []AuditTypeOK
      /\ KSpec => []KTypeOK
  BY GraphSyncTypesAlways, AuditTypesAlways, KTypesAlways DEF GatewayAssumption
<1> QED BY <1>1, <1>2, <1>3, <1>4, SyncTypesAlways, PTL DEF GatewaySpec, GatewayTypeOK

-----------------------------------------------------------------------------
\* The run's specification: of the services behind the gateway, which share no state, a
\* step moves one and leaves the others alone, so it implements the specification of
\* each, and what is proved of them together holds in the run for any constants.
THEOREM RunIsServices == SuiteSpec => GatewaySpec
<1>1. SuiteInit =>
        /\ Init /\ MeteringInit /\ RateInit /\ BudgetInit /\ GateInit /\ RegistryInit
        /\ AgentInit /\ LlmInit /\ GraphSyncInit /\ AuditInit /\ KInit /\ RetentionInit
        /\ InvoiceInit /\ MemoryInit /\ DriftInit /\ FeedbackInit /\ CMInit /\ focus \in Module
  BY DEF SuiteInit, Module
<1>2. focus \in Module /\ [SuiteNext]_suiteVars => (focus \in Module)'
  BY DEF SuiteNext, RestStays, suiteVars, moduleVars
<1>3. [SuiteNext]_suiteVars =>
        /\ [Next]_vars /\ [MeteringNext]_meteringVars /\ [RateNext]_rateVars
        /\ [BudgetNext]_budgetVars /\ [GateNext]_gateVars /\ [RegistryNext]_registryVars
  BY DEF SuiteNext, RestStays, suiteVars
<1>4. [SuiteNext]_suiteVars =>
        /\ [AgentNext]_agentVars /\ [LlmNext]_llmVars /\ [GraphSyncNext]_graphSyncVars
        /\ [AuditNext]_auditVars /\ [KNext]_kVars /\ [RetentionNext]_retentionVars
  BY DEF SuiteNext, RestStays, suiteVars
<1>5. [SuiteNext]_suiteVars =>
        /\ [InvoiceNext]_invoiceVars /\ [DriftNext]_driftVars /\ [FeedbackNext]_feedbackVars
  BY DEF SuiteNext, RestStays, suiteVars
<1>6. [SuiteNext]_suiteVars => [MemoryNext]_memVars
  BY DEF SuiteNext, RestStays, suiteVars, MemoryNext
<1>7. focus \in Module /\ [SuiteNext]_suiteVars => [CMNext]_cmVars
  BY DEF SuiteNext, RestStays, suiteVars, moduleVars, CMNext
<1> QED BY <1>1, <1>2, <1>3, <1>4, <1>5, <1>6, <1>7, PTL
        DEF SuiteSpec, GatewaySpec, Spec, MeteringSpec, RateSpec, BudgetSpec, GateSpec,
            RegistrySpec, AgentSpec, LlmSpec, GraphSyncSpec, AuditSpec, KSpec, RetentionSpec,
            InvoiceSpec, MemorySpec, DriftSpec, FeedbackSpec, CMSpec
=============================================================================
