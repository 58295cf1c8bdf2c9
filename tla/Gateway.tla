------------------------------- MODULE Gateway -------------------------------
(***************************************************************************)
(* The services between the API and its users whose promises are proved:    *)
(* device uploads, usage metering, rate limits, the privacy budget, the     *)
(* gate and the model registry of credit decisions, agents and their LLM    *)
(* client, graph sync, the audit trail, k-anonymity, retention and          *)
(* invoices. Each has its own state, and what the others see of it is a     *)
(* choice: a behaviour of all is one of each. What they promise together is *)
(* stated here.                                                             *)
(***************************************************************************)
EXTENDS DeviceSync, UsageMetering, RateLimit, PrivacyBudget, ApprovalGate, ModelRegistry,
        AgentRun, LlmClient, AgentMemory, CreditLearning, CapabilityModules,
        GraphSync, AuditTrail, KAnonymity, DataRetention, Invoices

GatewayAssumption ==
  /\ MeteringAssumption /\ RateAssumption /\ BudgetAssumption
  /\ GateAssumption /\ RegistryAssumption /\ AgentAssumption /\ LlmAssumption
  /\ GraphSyncAssumption /\ AuditAssumption /\ KAnonymityAssumption /\ RetentionAssumption
  /\ InvoiceAssumption /\ MemoryAssumption /\ LearningAssumption /\ ModulesAssumption

GatewaySpec ==
  /\ Spec /\ MeteringSpec /\ RateSpec /\ BudgetSpec /\ GateSpec /\ RegistrySpec
  /\ AgentSpec /\ LlmSpec /\ GraphSyncSpec /\ AuditSpec /\ KSpec /\ RetentionSpec /\ InvoiceSpec
  /\ MemorySpec /\ DriftSpec /\ FeedbackSpec /\ CMSpec

-----------------------------------------------------------------------------
\* The types of the parts, with the limits of what they keep.
GatewayTypeOK ==
  /\ TypeOK /\ MeteringTypeOK /\ RateTypeOK /\ BudgetTypeOK /\ GateTypeOK /\ RegistryTypeOK
  /\ AgentTypeOK /\ LlmTypeOK /\ GraphSyncTypeOK /\ AuditTypeOK /\ KTypeOK

\* billing/metering.rs, gateway/rate_limit.rs, credit/privacy_budget.rs: no
\* more is let through than each limit allows, however requests come together.
LimitsHold == QuotasHold /\ RateBounded /\ SpendingBounded

\* What was settled stays so, however late, often or interleaved what comes after
\* it: the record of a month only grows (billing/metering.rs), an expired decision
\* and a decided test stay what they are (credit/approval_gate.rs,
\* credit/model_registry.rs).
SettledStays == RecordOnlyGrows /\ ExpiredIsFinal /\ DecidedOnce

\* agent/autonomous.rs and llm/mod.rs: tasks and queries that overlap are each
\* accounted for once, and what no one approved is not run.
AgentsAccounted == AgentTasksAccounted /\ QueriesAccounted

\* gateway/audit.rs, billing/invoice.rs and gateway/graph_sync.rs: with statements
\* that fail or overlap, every request that was carried out has its one entry in
\* exactly one place: its handler still waiting to log it, the buffer, the rows, or
\* among those an error, a dropped handler or a crash lost; invoices are numbered
\* without a gap, settled by the payment that came first and overdue only past their
\* day; and a device's message is in the graph wholly or not at all.
RecordsComplete == EntriesAccounted /\ InvoicesSound /\ SyncedWholly

\* gateway/k_anonymity.rs and gateway/data_retention.rs: small cohorts are merged
\* until none is left, decisions can be looked up, nothing is deleted too early.
DataProtected == DecisionsKept /\ MergedCohortsAreLarge /\ RetentionRespected

\* What is learnt from users is learnt once and wholly. loops/drift_detection.rs
\* and loops/credit_feedback.rs: from the newest outcomes, each counted once;
\* the capability modules: from batches, through stops, starts and respawns;
\* agent/memory.rs: what tasks that share a memory keep in it holds together.
LearningKept == SharedMemoryHolds /\ ReportsNewest /\ OutcomesCounted /\ CapabilitiesSound
=============================================================================
