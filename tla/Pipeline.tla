------------------------------- MODULE Pipeline -------------------------------
(***************************************************************************)
(* The executor of the intelligence pipeline: graph/pipeline.rs. `execute`  *)
(* takes the executor by &mut, so nothing else touches the nodes while it   *)
(* runs; the handlers of a batch run in parallel and their results are      *)
(* applied, in the order they came, when the last one is in. Between two    *)
(* calls of execute a driver may use the public operations, as the tests do.*)
(***************************************************************************)
EXTENDS Integers, FiniteSets, Sequences

CONSTANTS Nodes,             \* names of the nodes
          DependsOn,         \* depends_on, from a name to a set of names
          MaxRetries,        \* max_retries of every node
          MaxParallel,       \* limit of a batch
          FailureThreshold   \* of every node's breaker

\* A breaker opens at its first failure or later.
ASSUME PipelineAssumption == FailureThreshold \in Nat \ {0}

VARIABLES status,     \* PipelineNodeStatus of each node
          retryCount, \* retry_count
          breaker,    \* state of the node's breaker as it is stored
          failures,   \* failure_count of the node's breaker
          results,    \* results pushed for a node: <<success, ...>>
          completed,  \* completed_at is set
          phase,      \* where execute is: idle, loop, running, done
          batch,      \* names taken by next_batch, handlers not returned yet
          outcomes    \* results of the batch, in the order the handlers returned

vars == <<status, retryCount, breaker, failures, results, completed, phase,
          batch, outcomes>>
nodeVars == <<status, retryCount, breaker, failures, results, completed>>

Status == {"Pending", "Running", "Completed", "Failed", "Skipped", "Retrying",
           "CircuitOpen"}
Terminal == {"Completed", "Failed", "Skipped", "CircuitOpen"}

\* A stored breaker never becomes HalfOpen: should_allow is asked of a clone,
\* so the transition is lost with it. "Elapsed": open, its timeout over.
Breaker == {"Closed", "Open", "Elapsed"}

Init == /\ status = [n \in Nodes |-> "Pending"]
        /\ retryCount = [n \in Nodes |-> 0]
        /\ breaker = [n \in Nodes |-> "Closed"]
        /\ failures = [n \in Nodes |-> 0]
        /\ results = [n \in Nodes |-> <<>>]
        /\ completed = FALSE
        /\ phase = "idle" /\ batch = {} /\ outcomes = <<>>

-----------------------------------------------------------------------------
(* The operations, as functions of one node.                               *)

AnyDependencyDone(n) ==                       \* fault: any() for all()
  DependsOn[n] = {} \/ \E d \in DependsOn[n] : d \in Nodes /\ status[d] = "Completed"
DependenciesDone(n) ==
  \A d \in DependsOn[n] : d \in Nodes /\ status[d] = "Completed"

FailedToo(n) ==                               \* fault: what failed runs again
  status[n] \in {"Pending", "Retrying", "Failed"} /\ DependenciesDone(n)
RetryingToo(n) ==                             \* fault: retries skip start_node's check
  status[n] \in {"Pending", "Retrying"} /\ DependenciesDone(n)
ReadyNode(n) == status[n] = "Pending" /\ DependenciesDone(n)
Ready == {n \in Nodes : ReadyNode(n)}

ShouldAllow(n) == breaker[n] # "Open"

StartStatus(n) == IF ShouldAllow(n) THEN "Running" ELSE "CircuitOpen"

\* check_completion, on the statuses an operation leaves.
AnyTerminal(st) == \E n \in Nodes : st[n] \in Terminal   \* fault: any() for all()
AllTerminal(st) == \A n \in Nodes : st[n] \in Terminal
CheckCompletion(st) == completed' = (completed \/ AllTerminal(st))

\* CircuitBreaker::record_success and record_failure on the stored breaker.
BreakerSucceeds(n) ==
  /\ failures' = [failures EXCEPT ![n] = IF breaker[n] = "Closed" THEN 0 ELSE @]
  /\ UNCHANGED breaker
TripsLate(count) == count > FailureThreshold              \* fault: off by one
Trips(count) == count >= FailureThreshold
BreakerFails(n) ==
  IF breaker[n] = "Closed"
  THEN /\ failures' = [failures EXCEPT ![n] = @ + 1]
       /\ breaker' = [breaker EXCEPT ![n] =
                        IF Trips(failures'[n]) THEN "Open" ELSE @]
  ELSE UNCHANGED <<failures, breaker>>

CompleteNode(n) ==
  /\ status' = [status EXCEPT ![n] = "Completed"]
  /\ results' = [results EXCEPT ![n] = Append(@, TRUE)]
  /\ BreakerSucceeds(n)
  /\ CheckCompletion(status')
  /\ UNCHANGED retryCount

RetriesLeft(n) == retryCount[n] + 1 < MaxRetries

FailNode(n) ==
  /\ retryCount' = [retryCount EXCEPT ![n] = @ + 1]
  /\ BreakerFails(n)
  /\ IF RetriesLeft(n)
     THEN /\ status' = [status EXCEPT ![n] = "Retrying"]
          /\ UNCHANGED results
     ELSE /\ status' = [status EXCEPT ![n] = "Failed"]
          /\ results' = [results EXCEPT ![n] = Append(@, FALSE)]
  /\ CheckCompletion(status')

-----------------------------------------------------------------------------
(* execute.                                                                *)

Execute ==
  /\ phase \in {"idle", "done"}
  /\ phase' = "loop"
  /\ UNCHANGED <<nodeVars, batch, outcomes>>

\* while !self.is_complete(), next_batch, start_node on each of them. Which of
\* the ready nodes come first is the order of a HashMap.
StartBatch ==
  /\ phase = "loop" /\ ~completed /\ Ready # {}
  /\ \E b \in SUBSET Ready :
       /\ Cardinality(b) = IF Cardinality(Ready) < MaxParallel
                           THEN Cardinality(Ready) ELSE MaxParallel
       /\ batch' = b
       /\ status' = [n \in Nodes |-> IF n \in b THEN StartStatus(n) ELSE status[n]]
  /\ phase' = "running"
  /\ outcomes' = <<>>
  /\ UNCHANGED <<retryCount, breaker, failures, results, completed>>

HasUnfinished == \E n \in Nodes : status[n] \notin Terminal  \* fault: Retrying counts
HasRunning == \E n \in Nodes : status[n] = "Running"

\* No ready node: sleep and look again while a node is Running, which execute
\* itself never leaves behind but a driver may have; give up otherwise.
WaitForRunning ==
  /\ phase = "loop" /\ ~completed /\ Ready = {}
  /\ HasRunning
  /\ UNCHANGED vars

Leave ==
  /\ phase = "loop"
  /\ completed \/ (Ready = {} /\ ~HasRunning)
  /\ phase' = "done"
  /\ UNCHANGED <<nodeVars, batch, outcomes>>

\* A handler of the batch returns: also that of a node whose circuit is open.
HandlerReturns(n, success) ==
  /\ phase = "running" /\ n \in batch
  /\ batch' = batch \ {n}
  /\ outcomes' = Append(outcomes, [node |-> n, success |-> success])
  /\ UNCHANGED <<nodeVars, phase>>

ApplyOutcome ==
  /\ phase = "running" /\ batch = {} /\ outcomes # <<>>
  /\ LET o == Head(outcomes)
     IN IF o.success THEN CompleteNode(o.node) ELSE FailNode(o.node)
  /\ outcomes' = Tail(outcomes)
  /\ phase' = IF Len(outcomes) = 1 THEN "loop" ELSE "running"
  /\ UNCHANGED batch

-----------------------------------------------------------------------------
(* A driver that uses the operations itself, between two calls of execute, *)
(* on nodes next_batch offers or that it is retrying.                      *)

Driving == phase \in {"idle", "done"} /\ UNCHANGED <<phase, batch, outcomes>>
Driven(n) == ReadyNode(n) \/ status[n] \in {"Running", "Retrying"}

StartNode(n) ==
  /\ Driving /\ (ReadyNode(n) \/ status[n] = "Retrying")
  /\ status' = [status EXCEPT ![n] = StartStatus(n)]
  /\ UNCHANGED <<retryCount, breaker, failures, results, completed>>
DriverCompletes(n) == Driving /\ Driven(n) /\ CompleteNode(n)
DriverFails(n) == Driving /\ Driven(n) /\ FailNode(n)

SkipNode(n) ==
  /\ Driving /\ status[n] \in {"Pending", "Retrying", "CircuitOpen"}
  /\ status' = [status EXCEPT ![n] = "Skipped"]
  /\ CheckCompletion(status')
  /\ UNCHANGED <<retryCount, breaker, failures, results>>

\* The clock: open_timeout passes.
OpenTimeoutPasses(n) ==
  /\ breaker[n] = "Open"
  /\ breaker' = [breaker EXCEPT ![n] = "Elapsed"]
  /\ UNCHANGED <<status, retryCount, failures, results, completed, phase, batch, outcomes>>

ExecuteStep ==
  \/ StartBatch \/ WaitForRunning \/ Leave \/ ApplyOutcome
  \/ \E n \in Nodes, success \in BOOLEAN : HandlerReturns(n, success)

Next ==
  \/ Execute \/ StartBatch \/ WaitForRunning \/ Leave \/ ApplyOutcome
  \/ \E n \in Nodes, success \in BOOLEAN : HandlerReturns(n, success)
  \/ \E n \in Nodes : \/ StartNode(n) \/ DriverCompletes(n) \/ DriverFails(n)
                      \/ SkipNode(n) \/ OpenTimeoutPasses(n)

\* tokio polls execute, and every handler returns.
Fairness == WF_vars(ExecuteStep)

Spec == Init /\ [][Next]_vars /\ Fairness

-----------------------------------------------------------------------------
TypeOK ==
  /\ status \in [Nodes -> Status]
  /\ retryCount \in [Nodes -> Nat]
  /\ breaker \in [Nodes -> Breaker]
  /\ failures \in [Nodes -> 0..FailureThreshold]
  /\ results \in [Nodes -> Seq(BOOLEAN)]
  /\ completed \in BOOLEAN
  /\ phase \in {"idle", "loop", "running", "done"}
  /\ batch \subseteq Nodes
  /\ outcomes \in Seq([node : Nodes, success : BOOLEAN])

\* A node works, or has worked, only on the output of nodes that completed:
\* ready_nodes against results applied one by one, batches cut short by
\* max_parallel, retries and skipped nodes.
DependenciesFirst ==
  \A n \in Nodes : status[n] \in {"Running", "Completed", "Failed", "Retrying"}
                     => \A d \in DependsOn[n] : status[d] = "Completed"

\* One result for a node that completed or failed, none for another, however
\* often it was retried: what execute returns counts nobody twice.
ReportedOnce ==
  \A n \in Nodes :
    results[n] = CASE status[n] = "Completed" -> <<TRUE>>
                   [] status[n] = "Failed" -> <<FALSE>>
                   [] OTHER -> <<>>

\* completed_at means that every node is done for good (is_complete ends execute).
CompleteMeansTerminal == completed => \A n \in Nodes : status[n] \in Terminal

\* execute calls the handlers of the whole batch, also of a node start_node has
\* just found its circuit open for. No such node gets into a batch: only a
\* failure opens a circuit, and a node that failed is never ready again.
RunsBehindBreaker == \A n \in batch : status[n] = "Running"

\* A node that is done has one result, whatever it took; no node with an open
\* circuit is in a batch; execute ends with nothing left.
PipelineAccounts == ReportedOnce /\ CompleteMeansTerminal /\ RunsBehindBreaker

\* execute returns, unless a driver left a node Running that nobody works on:
\* then it sleeps for ever.
ExecuteReturns ==
  (phase = "loop" /\ \A n \in Nodes : status[n] # "Running") ~> (phase = "done")
=============================================================================
