------------------------------- MODULE LlmClient -------------------------------
(***************************************************************************)
(* ModelAgnosticEngine of llm/mod.rs and what it falls back to. The engine  *)
(* asks the provider that ModelRegistry of llm/providers.rs resolves for    *)
(* the task; if there is none, or it fails, LlmClient::query_with_fallback  *)
(* answers, with a breaker of its own (an instance of                       *)
(* loops/circuit_breaker.rs behind a lock), its retries and its rule-based  *)
(* answer. One service: the other has a breaker of its own. Queries         *)
(* overlap, with each other and with changes of the registry; none holds a  *)
(* lock while it calls or waits.                                            *)
(***************************************************************************)
EXTENDS Integers, FiniteSets, Sequences

CONSTANTS Caller,
          MaxRetries, FailureThreshold, RecoverySecs, NoTime,
          TaskType, Registrable,   \* providers that register() may be given
          Orders,                  \* what set_routing() may be given: sequences of ids
          MaxQueries               \* bound

VARIABLES hasKey,        \* LlmConfig: deepseek_api_key is there and not empty; never changes
          breaker,       \* deepseek_breaker
          llmQueries,    \* a caller in the client: where it is, its attempt
          totals,        \* LlmMetrics; history: the model's answers, and queries dropped
          failedInARow,  \* history: queries whose failure was recorded since a success
          registry,      \* ModelRegistry
          asking,        \* a caller: the provider that infer() was called on
          engine         \* history: queries, answers of providers, and queries dropped

engineVars == <<registry, asking, engine>>
llmVars == <<hasKey, breaker, llmQueries, totals, failedInARow, engineVars>>

Canonical == INSTANCE CircuitBreaker WITH
  Callers <- Caller, HalfOpenSuccessThreshold <- 3, HalfOpenFailureThreshold <- 2,
  HalfOpenMaxConcurrent <- 1, OpenTimeout <- RecoverySecs, NULL <- NoTime,
  calls <- llmQueries, up <- TRUE, streak <- failedInARow, sinceOpen <- RecoverySecs

Idle == [at |-> "idle", attempt |-> 0]

-----------------------------------------------------------------------------
(* Providers. A key decides whether one is configured; what infer() comes to *)
(* is an answer, be it without content, or a ProviderError.                  *)

Provider(id, configured, results) ==
  [id |-> id, configured |-> configured, results |-> results]
HttpResults == {"answer", "AuthFailed", "RateLimited", "Internal"}
DeepSeek(model, key) == Provider(model, key, HttpResults)
Qwen(model, key) == Provider(model, key, HttpResults)
Gpt(key) == Provider("gpt-4o", key, HttpResults)
\* It has no endpoint, and no way to be given one.
AgiPlaceholder(id) == Provider(id, FALSE, {"Unavailable"})

NoProvider == Provider("none", FALSE, {})
NewRegistry == [providers |-> [i \in {} |-> NoProvider], routing |-> [t \in TaskType |-> <<>>],
                default |-> "none"]

Configured(id) == id \in DOMAIN registry.providers /\ registry.providers[id].configured

\* resolve: the first of the task's order that is configured, else the default,
\* else any, in the order of a HashMap.
Resolve(task) ==
  LET order == registry.routing[task]
      first == {k \in DOMAIN order : Configured(order[k]) /\ \A j \in 1..k - 1 : ~Configured(order[j])}
      ids == IF first # {} THEN {order[k] : k \in first}
             ELSE IF Configured(registry.default) THEN {registry.default}
             ELSE {id \in DOMAIN registry.providers : Configured(id)}
  IN {registry.providers[id] : id \in ids}

RegisterProvider(p) ==
  registry' = [registry EXCEPT !.providers =
                 [id \in DOMAIN @ \cup {p.id} |-> IF id = p.id THEN p ELSE @[id]]]
SetRouting(task, order) == registry' = [registry EXCEPT !.routing[task] = order]
SetDefault(id) == registry' = [registry EXCEPT !.default = id]

RegistryChanges ==
  /\ \/ \E p \in Registrable : RegisterProvider(p) \/ SetDefault(p.id)
     \/ \E task \in TaskType, order \in Orders : SetRouting(task, order)
  /\ UNCHANGED <<hasKey, breaker, llmQueries, totals, failedInARow, asking, engine>>

-----------------------------------------------------------------------------

LlmInit ==
  /\ hasKey \in BOOLEAN /\ breaker = Canonical!New
  /\ llmQueries = [c \in Caller |-> Idle]
  /\ totals = [requests |-> 0, failures |-> 0, fallbacks |-> 0, llm |-> 0, dropped |-> 0]
  /\ failedInARow = 0
  /\ registry = NewRegistry /\ asking = [c \in Caller |-> NoProvider]
  /\ engine = [queries |-> 0, provided |-> 0, dropped |-> 0]

Goes(c, at, attempt) == llmQueries' = [llmQueries EXCEPT ![c] = [at |-> at, attempt |-> attempt]]

\* query_deepseek_chat: the query is the client's.
Begins(c) ==
  /\ Goes(c, "checking", 0)
  /\ totals' = [totals EXCEPT !.requests = @ + 1]
  /\ UNCHANGED <<hasKey, breaker, failedInARow>>

\* query
Query(c) ==
  /\ llmQueries[c] = Idle /\ asking[c] = NoProvider /\ engine.queries < MaxQueries
  /\ engine' = [engine EXCEPT !.queries = @ + 1] /\ UNCHANGED registry
  /\ \E task \in TaskType :
       \/ Resolve(task) = {} /\ Begins(c) /\ UNCHANGED asking
       \/ \E p \in Resolve(task) :
            /\ asking' = [asking EXCEPT ![c] = p]
            /\ UNCHANGED <<hasKey, breaker, llmQueries, totals, failedInARow>>

ProviderAnswers(c) ==
  /\ "answer" \in asking[c].results
  /\ asking' = [asking EXCEPT ![c] = NoProvider]
  /\ engine' = [engine EXCEPT !.provided = @ + 1]
  /\ UNCHANGED <<hasKey, breaker, llmQueries, totals, failedInARow, registry>>

\* One provider is asked, no other that is configured: the client answers.
ProviderFails(c) ==
  /\ asking[c].results \ {"answer"} # {}
  /\ asking' = [asking EXCEPT ![c] = NoProvider]
  /\ Begins(c) /\ UNCHANGED <<registry, engine>>

FallBack(t) == [t EXCEPT !.fallbacks = @ + 1]

\* is_available, which may take the breaker half-open, also for a client
\* without a key.
CheckBreaker(c) ==
  /\ llmQueries[c].at = "checking"
  /\ breaker' = Canonical!MaybeTransition(breaker)
  /\ IF breaker'.state = "Open" \/ ~hasKey
     THEN llmQueries' = [llmQueries EXCEPT ![c] = Idle] /\ totals' = FallBack(totals)
     ELSE Goes(c, "calling", 1) /\ UNCHANGED totals
  /\ UNCHANGED <<hasKey, failedInARow, engineVars>>

CallSucceeds(c) ==
  /\ llmQueries[c].at = "calling"
  /\ breaker' = Canonical!RecordSuccess(breaker)
  /\ llmQueries' = [llmQueries EXCEPT ![c] = Idle]
  /\ totals' = [totals EXCEPT !.llm = @ + 1]
  /\ failedInARow' = 0 /\ UNCHANGED <<hasKey, engineVars>>

\* An attempt fails; an error that mentions 401 or 403 is not tried again.
LastAttempt(c, refused) == refused \/ llmQueries[c].attempt >= MaxRetries
EachAttempt(c, refused) == Canonical!RecordFailure(breaker)     \* fault
AfterFailure(c, refused) ==
  IF LastAttempt(c, refused) THEN Canonical!RecordFailure(breaker) ELSE breaker
CallFails(c, refused) ==
  /\ llmQueries[c].at = "calling"
  /\ breaker' = AfterFailure(c, refused)
  /\ IF LastAttempt(c, refused)
     THEN /\ llmQueries' = [llmQueries EXCEPT ![c] = Idle]
          /\ totals' = FallBack([totals EXCEPT !.failures = @ + 1])
          /\ failedInARow' = failedInARow + 1
     ELSE /\ Goes(c, "calling", llmQueries[c].attempt + 1)
          /\ UNCHANGED <<totals, failedInARow>>
  /\ UNCHANGED <<hasKey, engineVars>>

\* The caller goes away and its future is dropped at an await: of a lock, an
\* attempt or the pause before the next. What was counted stays counted.
DropQuery(c) ==
  /\ \/ /\ llmQueries[c] # Idle
        /\ llmQueries' = [llmQueries EXCEPT ![c] = Idle]
        /\ totals' = [totals EXCEPT !.dropped = @ + 1] /\ UNCHANGED <<asking, engine>>
     \/ /\ asking[c] # NoProvider
        /\ asking' = [asking EXCEPT ![c] = NoProvider]
        /\ engine' = [engine EXCEPT !.dropped = @ + 1] /\ UNCHANGED <<llmQueries, totals>>
  /\ UNCHANGED <<hasKey, breaker, failedInARow, registry>>

RecoveryPasses ==
  /\ breaker.openAge # NoTime /\ breaker.openAge < RecoverySecs
  /\ breaker' = [breaker EXCEPT !.openAge = @ + 1]
  /\ UNCHANGED <<hasKey, llmQueries, totals, failedInARow, engineVars>>

LlmNext ==
  \/ RecoveryPasses \/ RegistryChanges
  \/ \E c \in Caller :
       \/ Query(c) \/ ProviderAnswers(c) \/ ProviderFails(c)
       \/ CheckBreaker(c) \/ CallSucceeds(c) \/ DropQuery(c)
       \/ \E refused \in BOOLEAN : CallFails(c, refused)

LlmSpec == LlmInit /\ [][LlmNext]_llmVars

LlmAssumption ==
  /\ {MaxRetries, FailureThreshold} \subseteq Nat \ {0} /\ {RecoverySecs, MaxQueries} \subseteq Nat
  /\ NoTime \notin Nat

-----------------------------------------------------------------------------
LlmTypeOK ==
  /\ breaker \in Canonical!Breaker
  /\ \A c \in Caller : llmQueries[c].attempt \in 0..MaxRetries

\* The client: however queries overlap, their attempts are repeated and callers go
\* away, every query that was not dropped is answered once, by the model or by the
\* fallback; the breaker counts failed
\* queries and not attempts, so that while it is closed its count is that of
\* the queries that failed since one succeeded; and a client without a key
\* never tries.
ClientAccounts ==
  /\ totals.requests = totals.llm + totals.fallbacks + totals.dropped
                       + Cardinality({c \in Caller : llmQueries[c] # Idle})
  /\ totals.failures <= totals.fallbacks
  /\ breaker.state = "Closed" => breaker.failureCount = failedInARow
  /\ ~hasKey => totals.failures = 0

\* The engine: every query it was given was answered by a provider, is with one,
\* was dropped there or given to the client, once, however the registry changes; and
\* no query is at a provider that has no key or could not answer.
EngineAccounts ==
  /\ engine.queries = engine.provided + engine.dropped + totals.requests
                      + Cardinality({c \in Caller : asking[c] # NoProvider})
  /\ \A c \in Caller : asking[c] # NoProvider =>
       llmQueries[c] = Idle /\ asking[c].configured

QueriesAccounted == ClientAccounts /\ EngineAccounts
=============================================================================
