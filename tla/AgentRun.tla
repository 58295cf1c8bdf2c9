-------------------------------- MODULE AgentRun --------------------------------
(***************************************************************************)
(* AutonomousAgent::execute_task of agent/autonomous.rs: the reasoning loop *)
(* of a task, its two limits, and what all tasks of an agent share: one     *)
(* state, one conversation (agent/memory.rs), the counters and the          *)
(* strategies. Nothing keeps tasks from overlapping. What the LLM answers   *)
(* is any of what FunctionCallParser::parse makes of a response. The token  *)
(* budget, the task's timeout and the recovery time are configured and read *)
(* by no code. Of a message its task is kept.                               *)
(* Before it come the tools an agent may call and what stands before a      *)
(* call: the table of agent/tool_registry.rs with its execute_tool, and the *)
(* validation of agent/function_calling.rs. Arguments are the fields given  *)
(* and whether each value fits its schema. Nobody registers executors in    *)
(* the deployed program: the model registers one for each tool, as the      *)
(* tests do.                                                                *)
(***************************************************************************)
EXTENDS Integers, FiniteSets, Sequences

CONSTANTS Task, CallLists,             \* tasks; what calls a response may ask for
          MaxIterations, MaxToolCalls, Threshold,   \* AgentConfig
          MaxMessages, MaxStrategies,               \* MemoryConfig
          LastSecond                                \* bound

VARIABLES agentState, messages, metrics, strategies,
          runs,        \* a task: where it is and its locals
          seconds,
          executed     \* history: tools whose executor was reached

agentVars == <<agentState, messages, metrics, strategies, runs, seconds, executed>>

-----------------------------------------------------------------------------
(* Tools.                                                                  *)

Tool(risk, approval, readOnly, required, optional) ==
  [risk_level |-> risk, requires_approval |-> approval, read_only |-> readOnly,
   required |-> required, properties |-> required \cup optional]

credit_score_compute == Tool("Medium", FALSE, TRUE, {"cohort_hash", "worker_type", "region"},
  {"transaction_history_months", "include_components"})
credit_score_history == Tool("Low", FALSE, TRUE, {"cohort_hash"}, {"months_back"})
credit_risk_assessment == Tool("Low", FALSE, TRUE, {"cohort_hash", "worker_type"},
  {"region", "loan_amount_kes"})
credit_decision_recommend == Tool("High", TRUE, FALSE, {"cohort_hash", "worker_type", "region"},
  {"loan_amount_kes", "loan_purpose"})
credit_batch_score == Tool("Low", FALSE, TRUE, {"cohort_hashes"},
  {"worker_type_filter", "region_filter"})
credit_cohort_analysis == Tool("Low", FALSE, TRUE, {"cohort_hash"}, {"analysis_depth"})
credit_default_predict == Tool("Low", FALSE, TRUE, {"cohort_hash", "loan_amount_kes"},
  {"repayment_period_weeks"})
credit_seasonality_adjust == Tool("Low", FALSE, TRUE,
  {"worker_type", "region", "metric_value", "metric_type"}, {"current_month"})
market_analysis == Tool("Low", FALSE, TRUE, {"category", "region"}, {"timeframe_days"})
market_price_lookup == Tool("Low", FALSE, TRUE, {"category", "region"}, {"days_back"})
market_demand_forecast == Tool("Low", FALSE, TRUE, {"category", "region"}, {"horizon_days"})
market_trend_detect == Tool("Low", FALSE, TRUE, {"region"}, {"min_confidence", "categories"})
market_opportunity_scan == Tool("Low", FALSE, TRUE, {"region"}, {"worker_type", "min_impact"})
market_competitor_analysis == Tool("Low", FALSE, TRUE, {"category", "region"}, {})
intelligence_report_generate == Tool("Low", FALSE, TRUE, {"report_type"},
  {"region", "categories"})
intelligence_anomaly_detect == Tool("Low", FALSE, TRUE, {"scope"},
  {"region", "sensitivity", "lookback_hours"})
intelligence_pattern_mine == Tool("Low", FALSE, TRUE, {"dimensions"},
  {"min_strength", "max_patterns"})
intelligence_knowledge_query == Tool("Low", FALSE, TRUE, {"query"},
  {"entity_type", "max_results"})
data_transaction_query == Tool("Low", FALSE, TRUE, {},
  {"cohort_hash", "region", "category", "date_from", "date_to", "group_by"})
data_cohort_lookup == Tool("Low", FALSE, TRUE, {"cohort_hash"}, {"include_members"})
data_aggregate == Tool("Low", FALSE, TRUE, {"table", "metric"},
  {"field", "filters", "group_by", "limit"})
data_export == Tool("Medium", FALSE, TRUE, {"query"}, {"format", "max_rows"})
federated_status == Tool("Low", FALSE, TRUE, {}, {})
federated_trigger_round == Tool("Critical", TRUE, FALSE, {"model_type"},
  {"participating_regions", "privacy_epsilon"})
system_health_check == Tool("Low", FALSE, TRUE, {}, {"component"})
system_model_status == Tool("Low", FALSE, TRUE, {}, {"model_name"})

\* build_all_tool_definitions. A tool that is not in it is not found.
Tools ==
  [credit_score_compute |-> credit_score_compute,
   credit_score_history |-> credit_score_history,
   credit_risk_assessment |-> credit_risk_assessment,
   credit_decision_recommend |-> credit_decision_recommend,
   credit_batch_score |-> credit_batch_score,
   credit_cohort_analysis |-> credit_cohort_analysis,
   credit_default_predict |-> credit_default_predict,
   credit_seasonality_adjust |-> credit_seasonality_adjust,
   market_analysis |-> market_analysis, market_price_lookup |-> market_price_lookup,
   market_demand_forecast |-> market_demand_forecast,
   market_trend_detect |-> market_trend_detect,
   market_opportunity_scan |-> market_opportunity_scan,
   market_competitor_analysis |-> market_competitor_analysis,
   intelligence_report_generate |-> intelligence_report_generate,
   intelligence_anomaly_detect |-> intelligence_anomaly_detect,
   intelligence_pattern_mine |-> intelligence_pattern_mine,
   intelligence_knowledge_query |-> intelligence_knowledge_query,
   data_transaction_query |-> data_transaction_query,
   data_cohort_lookup |-> data_cohort_lookup, data_aggregate |-> data_aggregate,
   data_export |-> data_export, federated_status |-> federated_status,
   federated_trigger_round |-> federated_trigger_round,
   system_health_check |-> system_health_check, system_model_status |-> system_model_status]

\* A call: the tool's name, whether its arguments are an object, and for each
\* field whether its value is one the schema allows.
ToolCall(name, object, fields) == [tool |-> name, object |-> object, fields |-> fields]

\* ArgumentValidator::validate and check_type.
Validate(c) ==
  IF c.tool \notin DOMAIN Tools THEN "ToolNotFound"
  ELSE IF ~c.object THEN "NotAnObject"
  ELSE IF ~(Tools[c.tool].required \subseteq DOMAIN c.fields) THEN "MissingRequiredField"
  ELSE IF ~(DOMAIN c.fields \subseteq Tools[c.tool].properties) THEN "UnexpectedField"
  ELSE IF \E f \in DOMAIN c.fields : ~c.fields[f] THEN "TypeMismatch"
  ELSE "ok"

NothingNeedsApproval(c) == FALSE                                 \* fault
NeedsApproval(c) == Tools[c.tool].requires_approval

\* execute_call and execute_tool: the executor is reached by a valid call of a
\* tool that needs no approval; there is no way to give one.
Executes(c) == Validate(c) = "ok" /\ ~NeedsApproval(c)

\* Its own check, an error or the timeout may still make the call fail.
Outcomes(c) == IF Executes(c) THEN {"ok", "failed"} ELSE {"failed"}

-----------------------------------------------------------------------------
\* agent/tool_registry.rs:53: what an agent runs changes nothing.
OnlyReads(names) == \A n \in names : Tools[n].read_only

-----------------------------------------------------------------------------
(* Tasks.                                                                  *)

NotStarted == [at |-> "none", iteration |-> 0, failures |-> 0, made |-> 0, calls |-> <<>>,
               answer |-> "", result |-> "none",
               said |-> 0, llmStreak |-> 0, alone |-> TRUE]      \* history

AgentInit ==
  /\ agentState = "Idle" /\ messages = <<>> /\ strategies = {}
  /\ metrics = [completed |-> 0, failed |-> 0, iterations |-> 0, toolCalls |-> 0]
  /\ runs = [t \in Task |-> NotStarted] /\ seconds = 0 /\ executed = {}

Active(t) == runs[t].at \notin {"none", "done"}
At(t, at) == runs[t].at = at
Step(t, run) == runs' = [runs EXCEPT ![t] = run]
Min2(a, b) == IF a < b THEN a ELSE b

\* ShortTermMemory::add_entry: the oldest make room.
LastMessages(s) == SubSeq(s, Len(s) - Min2(Len(s), MaxMessages) + 1, Len(s))
Say(t) == messages' = LastMessages(Append(messages, t))
Said(t) == IF runs[t].alone THEN Min2(runs[t].said + 1, MaxMessages) ELSE 0
FailedInARow(t) == IF runs[t].alone THEN runs[t].llmStreak + 1 ELSE 0

\* execute_task sets the state of the agent, whatever other task is at work.
StartTask(t) ==
  /\ At(t, "none")
  /\ agentState' = "Running"
  /\ LET others == {u \in Task : Active(u)}
     IN runs' = [u \in Task |->
                   IF u = t THEN [runs[t] EXCEPT !.at = "begun", !.alone = others = {}]
                   ELSE IF u \in others
                   THEN [runs[u] EXCEPT !.alone = FALSE, !.said = 0, !.llmStreak = 0]
                   ELSE runs[u]]
  /\ UNCHANGED <<messages, metrics, strategies, seconds, executed>>

\* reset_for_new_task.
ForgetConversation(t) ==
  /\ At(t, "begun")
  /\ messages' = <<>> /\ Step(t, [runs[t] EXCEPT !.at = "reset"])
  /\ UNCHANGED <<agentState, metrics, strategies, seconds, executed>>

\* The system prompt, and then the user's.
Prompt(t, from, to) ==
  /\ At(t, from)
  /\ Say(t) /\ Step(t, [runs[t] EXCEPT !.at = to, !.said = Said(t)])
  /\ UNCHANGED <<agentState, metrics, strategies, seconds, executed>>

AskLlm(t) ==
  /\ At(t, "loop")
  /\ runs[t].iteration < MaxIterations /\ runs[t].failures < Threshold
  /\ Step(t, [runs[t] EXCEPT !.at = "asking"])
  /\ UNCHANGED <<agentState, messages, metrics, strategies, seconds, executed>>

OpenCircuit(t) ==
  /\ At(t, "loop")
  /\ runs[t].iteration < MaxIterations /\ runs[t].failures >= Threshold
  /\ agentState' = "CircuitOpen"
  /\ Step(t, [runs[t] EXCEPT !.at = "left", !.answer = "stopped"])
  /\ UNCHANGED <<messages, metrics, strategies, seconds, executed>>

IterationsUsed(t) ==
  /\ At(t, "loop") /\ runs[t].iteration = MaxIterations
  /\ Step(t, [runs[t] EXCEPT !.at = "left"])
  /\ UNCHANGED <<agentState, messages, metrics, strategies, seconds, executed>>

\* No key, no connection, an error status, no JSON: an iteration that
\* total_iterations does not count.
LlmFails(t) ==
  /\ At(t, "asking")
  /\ Step(t, [runs[t] EXCEPT !.at = "loop", !.iteration = @ + 1, !.failures = @ + 1,
                              !.llmStreak = FailedInARow(t)])
  /\ UNCHANGED <<agentState, messages, metrics, strategies, seconds, executed>>

\* Any answer ends the failures, those of tools too.
LlmAsksForTools(t, calls) ==
  /\ At(t, "asking")
  /\ Say(t)
  /\ Step(t, [runs[t] EXCEPT !.at = "acting", !.failures = 0, !.llmStreak = 0,
                              !.said = Said(t),
                              !.calls = SubSeq(calls, 1, Min2(Len(calls), MaxToolCalls))])
  /\ UNCHANGED <<agentState, metrics, strategies, seconds, executed>>

\* What the tools return; each result is then added to the conversation, and with
\* the last one the iteration ends.
ToolsReturn(t, results) ==
  /\ At(t, "acting")
  /\ LET asked == runs[t].calls  n == Len(asked)
     IN /\ results \in [1..n -> {"ok", "failed"}]
        /\ \A i \in 1..n : results[i] \in Outcomes(asked[i])
        /\ executed' = executed \cup {asked[i].tool : i \in {j \in 1..n : Executes(asked[j])}}
        /\ Step(t, [runs[t] EXCEPT !.at = "telling", !.made = @ + n,
                                   !.failures = IF n > 0 /\ \A i \in 1..n : results[i] = "failed"
                                                THEN @ + 1 ELSE @])
  /\ UNCHANGED <<agentState, messages, metrics, strategies, seconds>>

TellResult(t) ==
  /\ At(t, "telling") /\ runs[t].calls # <<>>
  /\ Say(t) /\ Step(t, [runs[t] EXCEPT !.calls = Tail(@), !.said = Said(t)])
  /\ UNCHANGED <<agentState, metrics, strategies, seconds, executed>>

NextIteration(t) ==
  /\ At(t, "telling") /\ runs[t].calls = <<>>
  /\ Step(t, [runs[t] EXCEPT !.at = "loop", !.iteration = @ + 1])
  /\ metrics' = [metrics EXCEPT !.iterations = @ + 1]
  /\ UNCHANGED <<agentState, messages, strategies, seconds, executed>>

\* A final answer, an empty text if the response has a finish_reason and no content.
LlmConcludes(t, text) ==
  /\ At(t, "asking")
  /\ Say(t)
  /\ Step(t, [runs[t] EXCEPT !.at = "concluding", !.failures = 0, !.llmStreak = 0,
                              !.said = Said(t), !.answer = text])
  /\ UNCHANGED <<agentState, metrics, strategies, seconds, executed>>

Conclude(t) ==
  /\ At(t, "concluding")
  /\ agentState' = "Completed" /\ Step(t, [runs[t] EXCEPT !.at = "left"])
  /\ UNCHANGED <<messages, metrics, strategies, seconds, executed>>

\* Neither: there is nothing to call.
LlmIsEmpty(t) ==
  /\ At(t, "asking")
  /\ Say(t)
  /\ Step(t, [runs[t] EXCEPT !.at = "telling", !.failures = 0, !.llmStreak = 0,
                              !.said = Said(t), !.calls = <<>>])
  /\ UNCHANGED <<agentState, metrics, strategies, seconds, executed>>

\* After the loop: without an answer, and if the agent's state says Running.
FindsNoAnswer(t) ==
  /\ At(t, "left")
  /\ Step(t, [runs[t] EXCEPT !.at = IF runs[t].answer = "" /\ agentState = "Running"
                                    THEN "exhausted" ELSE "ending"])
  /\ UNCHANGED <<agentState, messages, metrics, strategies, seconds, executed>>

GiveUp(t) ==
  /\ At(t, "exhausted")
  /\ agentState' = "MaxIterationsReached"
  /\ Step(t, [runs[t] EXCEPT !.at = "ending", !.answer = "partial"])
  /\ UNCHANGED <<messages, metrics, strategies, seconds, executed>>

\* store_strategy: the id of a strategy is its second; at the limit the oldest
\* makes room.
Stored ==
  (IF Cardinality(strategies) >= MaxStrategies
   THEN {s \in strategies : \E o \in strategies : o < s} ELSE strategies) \cup {seconds}

Completed == agentState = "Completed"

End(t) ==
  /\ At(t, "ending")
  /\ metrics' = [metrics EXCEPT !.completed = @ + (IF Completed THEN 1 ELSE 0),
                                !.failed = @ + (IF Completed THEN 0 ELSE 1),
                                !.toolCalls = @ + runs[t].made]
  /\ strategies' = IF Completed /\ runs[t].made > 0 THEN Stored ELSE strategies
  /\ Step(t, [runs[t] EXCEPT !.at = "done", !.result = agentState])
  /\ UNCHANGED <<agentState, messages, seconds, executed>>

TaskTimePasses ==
  /\ seconds < LastSecond /\ seconds' = seconds + 1
  /\ UNCHANGED <<agentState, messages, metrics, strategies, runs, executed>>

AgentNext ==
  \/ TaskTimePasses
  \/ \E t \in Task :
       \/ StartTask(t) \/ ForgetConversation(t)
       \/ Prompt(t, "reset", "prompted") \/ Prompt(t, "prompted", "loop")
       \/ AskLlm(t) \/ OpenCircuit(t) \/ IterationsUsed(t)
       \/ LlmFails(t) \/ LlmIsEmpty(t)
       \/ \E text \in {"text", ""} : LlmConcludes(t, text)
       \/ \E calls \in CallLists : LlmAsksForTools(t, calls)
       \/ \E results \in [1..Len(runs[t].calls) -> {"ok", "failed"}] : ToolsReturn(t, results)
       \/ TellResult(t) \/ NextIteration(t) \/ Conclude(t)
       \/ FindsNoAnswer(t) \/ GiveUp(t) \/ End(t)

AgentSpec == AgentInit /\ [][AgentNext]_agentVars

\* MemoryConfig and AgentConfig are numbers, a response asks for calls one after
\* the other.
Requested == UNION {{calls[i] : i \in DOMAIN calls} : calls \in CallLists}
AgentAssumption ==
  /\ CallLists \subseteq Seq(Requested)
  /\ {MaxIterations, MaxToolCalls, Threshold, MaxMessages, MaxStrategies, LastSecond} \subseteq Nat

-----------------------------------------------------------------------------
AgentTypeOK ==
  /\ agentState \in {"Idle", "Running", "Completed", "MaxIterationsReached", "CircuitOpen"}
  /\ Len(messages) <= MaxMessages /\ strategies \subseteq 0..LastSecond
  /\ \A t \in Task : /\ runs[t].iteration <= MaxIterations /\ runs[t].failures <= Threshold
                     /\ Len(runs[t].calls) <= MaxToolCalls

Done == {t \in Task : At(t, "done")}

\* Whatever tasks overlap, each is counted once, as completed or as failed. One
\* that overlapped with none has the outcome its own loop came to, its circuit
\* opened on failures of the LLM and never on those of tools alone, and the LLM
\* saw of the conversation the newest of what it said and nothing else. No tool
\* that writes was ever reached.
AgentTasksAccounted ==
  /\ metrics.completed = Cardinality({t \in Done : runs[t].result = "Completed"})
  /\ metrics.completed + metrics.failed = Cardinality(Done)
  /\ strategies # {} => metrics.completed > 0
  /\ OnlyReads(executed)
  /\ \A t \in Task : runs[t].alone =>
       /\ t \in Done =>
            /\ runs[t].result = "Completed" <=> runs[t].answer \in {"text", ""}
            /\ runs[t].result = "CircuitOpen" =>
                 runs[t].answer = "stopped" /\ runs[t].llmStreak >= Threshold - 1
            /\ runs[t].result = "MaxIterationsReached" =>
                 runs[t].answer = "partial" /\ runs[t].iteration = MaxIterations
       /\ At(t, "asking") => messages = [i \in 1..runs[t].said |-> t]
=============================================================================
