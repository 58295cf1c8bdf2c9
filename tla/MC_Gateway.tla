------------------------------ MODULE MC_Gateway ------------------------------
(***************************************************************************)
(* One run for what stands between the API and its users: device uploads,   *)
(* usage metering, rate limits, the privacy budget, the gate and the model  *)
(* registry of credit decisions, what these learn from outcomes, agents and *)
(* their LLM client, graph sync, the audit trail, k-anonymity, retention    *)
(* and invoices. They share no state; `part` picks the one that moves.      *)
(* Of the uploads: four transactions, one without a key, one that is not    *)
(* valid; a batch may exceed the payload limit by one, and the window.      *)
(***************************************************************************)
EXTENDS Gateway, TLC

CONSTANTS t1, t2, bad, keyless, task1, task2

VARIABLES part, focus

\* What a .cfg cannot say: three days of a month and the next, how long the
\* kinds of data are kept.
MonthOfDay == <<1, 1, 2>>
KeptFor == ("raw_transactions" :> 1) @@ ("credit_scores" :> 1)
           @@ ("session_data" :> 0) @@ ("billing_records" :> 1)

\* What a response asks for, one call more than it may: one that needs an
\* approval, one that runs, and one that is not valid.
Reads == ToolCall("federated_status", TRUE, [f \in {} |-> TRUE])
Writes == ToolCall("credit_decision_recommend", TRUE,
                   [f \in {"cohort_hash", "worker_type", "region"} |-> TRUE])
Mistyped == ToolCall("market_trend_detect", TRUE, [f \in {"region"} |-> FALSE])
OneResponse == {<<Writes, Reads, Mistyped>>}

\* Providers with a key and without one, one of them both in turn, and orders
\* that begin with one never configured.
SomeProviders == {DeepSeek("deepseek-chat", TRUE), Qwen("qwen-7b", TRUE), Qwen("qwen-7b", FALSE),
                  Gpt(FALSE), AgiPlaceholder("agi")}
SomeOrders == {<<"agi", "qwen-7b", "deepseek-chat">>, <<"gpt-4o">>}

\* Versions are registered staged, or as the champion by a caller who sets the status.
SomeGiven == {[status |-> "Staged", traffic |-> 0], [status |-> "Champion", traffic |-> 10]}

\* Graph sync: a message with a bit of everything, one that takes the categories
\* in another order, and one with a name in it.
SentMessages ==
  {Message("A", <<NodeDelta("PRODUCT", TRUE, FALSE), NodeDelta("SUPPLIER", FALSE, FALSE),
                  NodeDelta("CATEGORY", TRUE, FALSE)>>,
           <<"SUPPLIES", "MENTIONS">>, <<"f1", "f2">>),
   Message("B", <<>>, <<>>, <<"f2", "f1">>),
   Message("A", <<NodeDelta("PRODUCT", TRUE, TRUE)>>, <<>>, <<"f3">>)}
\* A batch of each kind a module treats differently; two broadcasts for the price
\* of food, one for fuel. What each part learns from is bounded by itself.
SomeBatches ==
  {<<Tx("food", "x", 1, 10), Tx("food", "y", 2, 40)>>,
   <<Tx("fuel", "x", 2, 0)>>,
   <<Tx("food", "y", 1, 10), Tx("fuel", "x", 1, 20), Tx("food", "x", 1, 20), Tx("fuel", "x", 1, 20)>>}
SomeBroadcasts == ("b1" :> "food") @@ ("b2" :> "food") @@ ("b3" :> "fuel")

ASSUME InstancesAssumption == GatewayAssumption

\* `focus` is the module that moves.
moduleVars == <<focus, cmVars>>
suiteVars == <<part, vars, meteringVars, rateVars, budgetVars, gateVars, registryVars,
               auditVars, kVars, retentionVars, invoiceVars, agentVars, llmVars, memVars,
               driftVars, feedbackVars, graphSyncVars, moduleVars>>

\* A part that does not move has one initial state.
SuiteInit ==
  /\ part \in {"sync", "metering", "rate", "budget", "gate", "registry", "audit", "k_anonymity",
               "retention", "invoices", "agent", "llm", "providers", "working_memory", "long_term_memory",
               "drift", "feedback", "graph_sync", "modules"}
  /\ Init /\ MeteringInit /\ RateInit /\ BudgetInit /\ GateInit /\ RegistryInit
  /\ AgentInit /\ LlmInit /\ MemoryInit /\ DriftInit /\ FeedbackInit
  /\ GraphSyncInit /\ AuditInit /\ KInit /\ RetentionInit /\ InvoiceInit
  /\ CMInit /\ focus \in (IF part = "modules" THEN Module ELSE {"MarketAnalyzer"})
  /\ (part \in {"llm", "providers"} \/ hasKey) /\ (part = "drift" \/ baseline = 5)
  /\ (part = "graph_sync" \/ members = [c \in {"A", "B"} |-> 10])

\* What does not belong to the part that moves.
RestStays ==
  /\ UNCHANGED part
  /\ IF part = "sync" THEN TRUE ELSE UNCHANGED vars
  /\ IF part = "metering" THEN TRUE ELSE UNCHANGED meteringVars
  /\ IF part = "rate" THEN TRUE ELSE UNCHANGED rateVars
  /\ IF part = "budget" THEN TRUE ELSE UNCHANGED budgetVars
  /\ IF part = "gate" THEN TRUE ELSE UNCHANGED gateVars
  /\ IF part = "registry" THEN TRUE ELSE UNCHANGED registryVars
  /\ IF part = "audit" THEN TRUE ELSE UNCHANGED auditVars
  /\ IF part = "k_anonymity" THEN TRUE ELSE UNCHANGED kVars
  /\ IF part = "retention" THEN TRUE ELSE UNCHANGED retentionVars
  /\ IF part = "invoices" THEN TRUE ELSE UNCHANGED invoiceVars
  /\ IF part = "agent" THEN TRUE ELSE UNCHANGED agentVars
  /\ IF part \in {"llm", "providers"} THEN TRUE ELSE UNCHANGED llmVars
  /\ IF part \in {"working_memory", "long_term_memory"} THEN TRUE ELSE UNCHANGED memVars
  /\ IF part = "drift" THEN TRUE ELSE UNCHANGED driftVars
  /\ IF part = "feedback" THEN TRUE ELSE UNCHANGED feedbackVars
  /\ IF part = "graph_sync" THEN TRUE ELSE UNCHANGED graphSyncVars
  /\ IF part = "modules" THEN TRUE ELSE UNCHANGED moduleVars

\* Metered requests differ in nothing but their numbers, in the order of which they begin,
\* and the record of one month is written like that of another: the first one's is;
\* of the two tasks of an agent, task1 is the one that starts first. The ids
\* of models are registered in their order.
BegunInOrder == \A r, s \in ApiCall : r < s /\ Moves(r, "none") => Moves(s, "none")
StartedInOrder == At(task1, "none") => At(task2, "none")
RegisteredInOrder == /\ "v2" \in DOMAIN versions => "v1" \in DOMAIN versions
                     /\ "v3" \in DOMAIN versions => "v2" \in DOMAIN versions

\* No version is changed by the outcomes of a test, nor they by versions: they come last.
OutcomesLast ==
  (\E i \in 1..Len(abTests) : abTests[i].champ.n + abTests[i].chall.n > 0) => UNCHANGED versions

\* Of the invoices, two calls overlap.
CallsUnderWay == Cardinality({c \in Creator : issuedOn[c] # NotYet})
                 + Cardinality({r \in Receipt : paying[r] # NotPaying})
                 + (IF overdueAsOf = NotYet THEN 0 ELSE 1)

\* The clock of the agent is read when a task ends: it passes between the first
\* end and the second. Iterations that end with an answer of the LLM are one fewer
\* than a task may have, two fewer when tasks have overlapped: the others failed. A
\* store that fills a tier and two that overlap are one operation less than others need.
SuiteNext ==
  /\ \/ part = "sync" /\ Next
     \/ part = "metering" /\ MeteringNext /\ BegunInOrder' /\ usageRecords'[2] = 0
     \/ part = "rate" /\ RateNext
     \/ part = "budget" /\ BudgetNext
     \/ part = "gate" /\ GateNext
     \/ part = "registry" /\ RegistryNext /\ RegisteredInOrder' /\ OutcomesLast
     \/ part = "audit" /\ AuditNext
     \/ part = "k_anonymity" /\ KNext
     \/ part = "retention" /\ RetentionNext
     \/ part = "invoices" /\ InvoiceNext /\ CallsUnderWay' <= 2
     \/ /\ part = "agent" /\ AgentNext /\ StartedInOrder'
        /\ (seconds' # seconds => Done # {})
        /\ metrics'.iterations < MaxIterations - (IF \A t \in Task : runs'[t].alone THEN 0 ELSE 1)
     \/ part = "llm" /\ UNCHANGED registry /\ LlmNext
     \/ part = "providers" /\ LlmNext /\ totals'.requests < 2 /\ engine'.queries < 3
     \/ part = "working_memory" /\ TasksThink
     \/ part = "long_term_memory" /\ TasksLearn /\ operations' < MaxOperations
     \/ part = "drift" /\ DriftNext
     \/ part = "feedback" /\ FeedbackNext
     \/ part = "graph_sync" /\ GraphSyncNext
     \/ part = "modules" /\ ModuleMoves(focus) /\ UNCHANGED focus
  /\ RestStays

SuiteSpec == SuiteInit /\ [][SuiteNext]_suiteVars

-----------------------------------------------------------------------------
\* What is learnt adds up: the bins and cohorts of a calibration and the brands of a
\* product (loops/credit_feedback.rs, fmcg.rs), a memory saved and restored
\* (agent/memory.rs), a model that is right and sure (loops/drift_detection.rs).
LearningAddsUp == CalibrationAddsUp /\ SharesAddUp /\ MemoryRestored /\ SureModelsStay
=============================================================================
