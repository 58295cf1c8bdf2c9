----------------------------- MODULE Orchestrator -----------------------------
(***************************************************************************)
(* The OODA orchestrator: capability modules as tokio tasks, their queues  *)
(* on the message bus, the supervision cycle that restarts them, their      *)
(* snapshots, and shutdown: orchestrator/supervisor.rs, message_bus.rs and  *)
(* modules/mod.rs.                                                          *)
(*                                                                         *)
(* A step runs from one await to the next. An aborted task goes on until    *)
(* its next await, so it may still take a step before it ends. Broadcasts   *)
(* are left out: no module subscribes to them. Ages saturate where the code *)
(* stops telling them apart.                                                *)
(***************************************************************************)
EXTENDS Integers, FiniteSets

CONSTANTS Modules,           \* the modules that handle_module_failure can restart
          Failing,           \* bound: those for which handle_module_failure is called
          LowPriority,       \* those that the cycle pauses under load
          Hangable,          \* those whose process() may never return
          Tasks,             \* task identities; that of an ended task is used again
          Senders,           \* API tasks calling send_to_module
          Cycle,             \* the task of run(), as a sender
          Shards,            \* modules whose queues are in one shard of the DashMap
          QueueCapacity,     \* module_queue_capacity
          HeartbeatTimeout,  \* 30 s without heartbeat: unhealthy
          RestartCooldown,   \* restart_cooldown_secs
          MaxWork,           \* bound: messages a module's state tells apart
          NULL

\* An identity for each module's first task.
OneToOne(f) == \A m, n \in Modules : f[m] = f[n] => m = n

ASSUME OrchestratorAssumption ==
  /\ {Failing, LowPriority, Hangable} \subseteq SUBSET Modules
  /\ Cycle \notin Senders \cup {NULL}
  /\ QueueCapacity \in Nat \ {0} /\ MaxWork \in Nat
  /\ HeartbeatTimeout \in Nat /\ RestartCooldown \in Nat
  /\ NULL \notin Modules \cup Tasks \cup Nat
  /\ \E f \in [Modules -> Tasks] : OneToOne(f)

\* Each queue is in a shard.
ASSUME ShardAssumption == Shards \subseteq SUBSET Modules /\ UNION Shards = Modules

VARIABLES task,         \* the tasks: module, phase, state kept, queue, abort flag
          handle,       \* module_handles
          route,        \* module_queues: the task whose receiver belongs to the sender
          waiting,      \* for space in the queue of this module, its map guard held
          health,       \* age of module_health[m].last_heartbeat, or no entry
          lastRestart,  \* age of last_restart[m], or no entry
          cycle,        \* run(): where it is, modules to restart, modules to pause
          restart,      \* handle_module_failure: who called it, for what, how far it is
          shutdown,     \* "no", "signalled" (sender taken), "done"
          store         \* ModuleStateStore: what each module's snapshot covers

vars == <<task, handle, route, waiting, health, lastRestart, cycle, restart,
          shutdown, store>>
supervision == <<handle, route, health, lastRestart, cycle, restart, shutdown>>

Phase == {"ended", "queue", "ready", "busy", "hung"}
Task == [mod : Modules \cup {NULL}, phase : Phase, work : 0..MaxWork,
         queue : 0..QueueCapacity, aborted : BOOLEAN]
Ended == [mod |-> NULL, phase |-> "ended", work |-> 0, queue |-> 0, aborted |-> FALSE]
\* A registered queue, before the task that will own it is spawned.
Fresh(m) == [Ended EXCEPT !.mod = m, !.phase = "queue"]

NoRestart == [by |-> NULL, mod |-> NULL, step |-> "none"]
RestartStep == {"none", "abort", "register", "spawn", "record"}

Runs(t) == task[t].phase \in {"ready", "busy", "hung"}
TasksOf(m) == {t \in Tasks : Runs(t) /\ task[t].mod = m /\ ~task[t].aborted}

\* Shutdown has taken shutdown_tx; every receiver subscribed before sees the signal.
Signalled == shutdown # "no"

\* start_modules: every module has a task, and nothing is in the store.
Init ==
  LET first == CHOOSE f \in [Modules -> Tasks] : OneToOne(f)
  IN  /\ task = [t \in Tasks |->
                   IF \E m \in Modules : first[m] = t
                     THEN [Fresh(CHOOSE m \in Modules : first[m] = t) EXCEPT !.phase = "ready"]
                     ELSE Ended]
      /\ handle = first /\ route = first
      /\ waiting = [x \in Senders \cup {Cycle} |-> NULL]
      /\ health = [m \in Modules |-> NULL]
      /\ lastRestart = [m \in Modules |-> NULL]
      /\ cycle = [at |-> "idle", restarts |-> {}, pauses |-> {}]
      /\ restart = NoRestart
      /\ shutdown = "no"
      /\ store = [m \in Modules |-> 0]

-----------------------------------------------------------------------------
(* The message bus: send_to_module.                                        *)

NeverFull(t) == FALSE                            \* fault: an unbounded channel
Full(t) == task[t].queue = QueueCapacity
Closed(t) == task[t].phase = "ended"

Enqueued(t) == task' = [task EXCEPT ![t].queue = @ + 1]

\* try_send succeeds; or the queue is full: a High message waits for space, with
\* the reference into the map alive, any other is dropped; or the receiver is
\* gone: an error. The last two change nothing.
Send(x, m, high) ==
  /\ waiting[x] = NULL
  /\ \/ ~Closed(route[m]) /\ ~Full(route[m]) /\ Enqueued(route[m]) /\ UNCHANGED waiting
     \/ /\ ~Closed(route[m]) /\ Full(route[m]) /\ high
        /\ waiting' = [waiting EXCEPT ![x] = m]
        /\ UNCHANGED task
     \/ /\ Closed(route[m]) \/ (Full(route[m]) /\ ~high)
        /\ UNCHANGED <<task, waiting>>
  /\ UNCHANGED store

ApiSends(x, m, high) == Send(x, m, high) /\ UNCHANGED supervision

\* tx.send(message).await ends: there is space, or the receiver was dropped.
WaitEnds(x) ==
  /\ waiting[x] # NULL
  /\ LET t == route[waiting[x]]
     IN  \/ ~Closed(t) /\ ~Full(t) /\ Enqueued(t)
         \/ Closed(t) /\ UNCHANGED task
  /\ waiting' = [waiting EXCEPT ![x] = NULL]
  /\ UNCHANGED <<store, supervision>>

\* A writer of the map waits for the guards on the same shard.
Guarded(m) == \E x \in Senders \cup {Cycle} :
                waiting[x] # NULL /\ \E s \in Shards : {waiting[x], m} \subseteq s

-----------------------------------------------------------------------------
(* A module's task: the select loop of spawn_module.                       *)

Receive(t) ==
  /\ task[t].phase = "ready" /\ task[t].queue > 0
  /\ task' = [task EXCEPT ![t].phase = "busy", ![t].queue = @ - 1]
  /\ UNCHANGED <<waiting, store, supervision>>

Processed(t) ==
  /\ task[t].phase = "busy"
  /\ task' = [task EXCEPT ![t].phase = "ready",
                          ![t].work = IF @ < MaxWork THEN @ + 1 ELSE @]
  /\ UNCHANGED <<waiting, store, supervision>>

Hangs(t) ==
  /\ task[t].phase = "busy" /\ task[t].mod \in Hangable
  /\ task' = [task EXCEPT ![t].phase = "hung"]
  /\ UNCHANGED <<waiting, store, supervision>>

\* A snapshot, on the timer (which ticks at once in a new task) or after 100
\* messages: state_store.save.
Snapshot(t) ==
  /\ task[t].phase = "ready"
  /\ store' = [store EXCEPT ![task[t].mod] = task[t].work]
  /\ UNCHANGED <<task, waiting, supervision>>

\* The shutdown signal: final snapshot, module.shutdown, break.
StopsGracefully(t) ==
  /\ task[t].phase = "ready" /\ Signalled
  /\ store' = [store EXCEPT ![task[t].mod] = task[t].work]
  /\ task' = [task EXCEPT ![t] = Ended]
  /\ UNCHANGED <<waiting, supervision>>

\* The runtime drops an aborted task at its next await, with its state and queue.
AbortTakesEffect(t) ==
  /\ Runs(t) /\ task[t].aborted
  /\ task' = [task EXCEPT ![t] = Ended]
  /\ UNCHANGED <<waiting, store, supervision>>

-----------------------------------------------------------------------------
(* run_cycle. Orient and learn change nothing the cycle reads.             *)

NoCooldown(m) == TRUE                            \* fault: last_restart is not read
Cooled(m) == lastRestart[m] \in {NULL, RestartCooldown}

\* Observe and decide: the modules to restart, and whether the load is above
\* 1000 (the bus counts its messages).
ObserveAndDecide == \E paused \in {{}, LowPriority} :
  /\ cycle.at = "idle"
  /\ cycle' = [at |-> "act",
               restarts |-> {m \in Modules : health[m] = HeartbeatTimeout + 1 /\ Cooled(m)},
               pauses |-> paused]
  /\ UNCHANGED <<task, handle, route, waiting, health, lastRestart, restart, shutdown, store>>

\* The next action of act: restarts come first, then the Pause commands.
ActRestart(m) ==
  /\ cycle.at = "act" /\ restart = NoRestart /\ m \in cycle.restarts
  /\ restart' = [by |-> Cycle, mod |-> m, step |-> "abort"]
  /\ cycle' = [cycle EXCEPT !.restarts = @ \ {m}]
  /\ UNCHANGED <<task, handle, route, waiting, health, lastRestart,
                 shutdown, store>>

ActPause(m) ==
  /\ cycle.at = "act" /\ restart.by # Cycle
  /\ cycle.restarts = {} /\ m \in cycle.pauses
  /\ Send(Cycle, m, TRUE)
  /\ cycle' = [cycle EXCEPT !.pauses = @ \ {m}]
  /\ UNCHANGED <<handle, route, health, lastRestart, restart, shutdown>>

EndCycle ==
  /\ cycle.at = "act" /\ cycle.restarts = {} /\ cycle.pauses = {}
  /\ restart.by # Cycle /\ waiting[Cycle] = NULL
  /\ cycle' = [cycle EXCEPT !.at = "idle"]
  /\ UNCHANGED <<task, handle, route, waiting, health, lastRestart, restart,
                 shutdown, store>>

StoppedCycle == [at |-> "ended", restarts |-> {}, pauses |-> {}]

\* The select of run() sees the signal and drops run_cycle at an await: not
\* between the abort and the registration of the new queue, which has none.
CycleStops ==
  /\ Signalled /\ cycle.at # "ended"
  /\ ~(restart.by = Cycle /\ restart.step = "register")
  /\ cycle' = StoppedCycle
  /\ waiting' = [waiting EXCEPT ![Cycle] = NULL]
  /\ restart' = IF restart.by = Cycle THEN NoRestart ELSE restart
  /\ task' = [t \in Tasks |-> IF /\ restart.by = Cycle /\ restart.step = "spawn"
                                 /\ task[t].phase = "queue"
                                THEN Ended ELSE task[t]]
  /\ UNCHANGED <<handle, route, health, lastRestart, shutdown, store>>

-----------------------------------------------------------------------------
(* handle_module_failure.                                                  *)

\* Called through the trait, as the integration test does. Calls do not overlap.
ApiRestart(m) ==
  /\ restart = NoRestart
  /\ restart' = [by |-> NULL, mod |-> m, step |-> "abort"]
  /\ UNCHANGED <<task, handle, route, waiting, health, lastRestart, cycle,
                 shutdown, store>>

ForgetsTask(t) == UNCHANGED task                 \* fault: the handle is only dropped
Aborts(t) == task' = [task EXCEPT ![t].aborted = TRUE]

AbortExisting ==
  LET m == restart.mod IN
  /\ restart.step = "abort"
  /\ IF handle[m] # NULL /\ Runs(handle[m]) THEN Aborts(handle[m]) ELSE UNCHANGED task
  /\ handle' = [handle EXCEPT ![m] = NULL]
  /\ restart' = [restart EXCEPT !.step = "register"]
  /\ UNCHANGED <<route, waiting, health, lastRestart, cycle, shutdown, store>>

\* An identity no table refers to any more.
Unused(t) == /\ task[t].phase = "ended"
             /\ \A m \in Modules : t # handle[m] /\ t # route[m]

\* bus.register_module replaces the queue: DashMap::insert blocks its thread
\* while somebody holds a guard on the shard.
Register ==
  LET m == restart.mod IN
  /\ restart.step = "register"
  /\ ~Guarded(m)
  /\ \E t \in Tasks : Unused(t)
  /\ LET t == CHOOSE u \in Tasks : Unused(u)
     IN  /\ task' = [task EXCEPT ![t] = Fresh(m)]
         /\ route' = [route EXCEPT ![m] = t]
  /\ restart' = [restart EXCEPT !.step = "spawn"]
  /\ UNCHANGED <<handle, waiting, health, lastRestart, cycle, shutdown, store>>

\* shutdown_tx is still there: subscribe, spawn, keep the handle. The new module
\* starts empty: nothing is loaded from the store.
LateSpawn == TRUE                                \* fault: spawn without the signal
CanSubscribe == ~Signalled

Spawn ==
  LET m == restart.mod IN
  /\ restart.step = "spawn"
  /\ CanSubscribe
  /\ task' = [task EXCEPT ![route[m]].phase = "ready"]
  /\ handle' = [handle EXCEPT ![m] = route[m]]
  /\ restart' = [restart EXCEPT !.step = "record"]
  /\ UNCHANGED <<route, waiting, health, lastRestart, cycle, shutdown, store>>

\* unwrap() of None: the caller panics, and with it the task of run(). The
\* receiver is dropped.
SpawnPanics ==
  LET m == restart.mod IN
  /\ restart.step = "spawn"
  /\ ~CanSubscribe
  /\ task' = [task EXCEPT ![route[m]] = Ended]
  /\ cycle' = IF restart.by = Cycle THEN StoppedCycle ELSE cycle
  /\ restart' = NoRestart
  /\ UNCHANGED <<handle, route, waiting, health, lastRestart, shutdown, store>>

\* The health entry is inserted, and act records last_restart.
Record ==
  LET m == restart.mod IN
  /\ restart.step = "record"
  /\ health' = [health EXCEPT ![m] = 0]
  /\ lastRestart' = IF restart.by = Cycle THEN [lastRestart EXCEPT ![m] = 0] ELSE lastRestart
  /\ restart' = NoRestart
  /\ UNCHANGED <<task, handle, route, waiting, cycle, shutdown, store>>

-----------------------------------------------------------------------------
(* shutdown: take the sender and signal, abort the handles, clear them.    *)

ShutdownSignals ==
  /\ shutdown = "no"
  /\ shutdown' = "signalled"
  /\ UNCHANGED <<task, handle, route, waiting, health, lastRestart, cycle, restart,
                 store>>

ShutdownAborts ==
  /\ shutdown = "signalled"
  /\ task' = [t \in Tasks |-> IF Runs(t) /\ \E m \in Modules : handle[m] = t
                                THEN [task[t] EXCEPT !.aborted = TRUE] ELSE task[t]]
  /\ handle' = [m \in Modules |-> NULL]
  /\ shutdown' = "done"
  /\ UNCHANGED <<route, waiting, health, lastRestart, cycle, restart, store>>

-----------------------------------------------------------------------------
\* A second passes; nothing ever refreshes a heartbeat.
Tick ==
  /\ health' = [m \in Modules |->
                  IF health[m] # NULL /\ health[m] <= HeartbeatTimeout
                    THEN health[m] + 1 ELSE health[m]]
  /\ lastRestart' = [m \in Modules |->
                       IF lastRestart[m] # NULL /\ lastRestart[m] < RestartCooldown
                         THEN lastRestart[m] + 1 ELSE lastRestart[m]]
  /\ UNCHANGED <<task, handle, route, waiting, cycle, restart, shutdown, store>>

BusStep ==
  \/ \E x \in Senders, m \in Modules, high \in BOOLEAN : ApiSends(x, m, high)
  \/ \E x \in Senders \cup {Cycle} : WaitEnds(x)

TaskStep(t) ==
  \/ Receive(t) \/ Processed(t) \/ Hangs(t) \/ Snapshot(t)
  \/ StopsGracefully(t) \/ AbortTakesEffect(t)

CycleStep ==
  \/ ObserveAndDecide \/ EndCycle \/ CycleStops
  \/ \E m \in Modules : ActRestart(m) \/ ActPause(m)

ContinueRestart == AbortExisting \/ Register \/ Spawn \/ SpawnPanics \/ Record

ShutdownStep == ShutdownSignals \/ ShutdownAborts

Next ==
  \/ BusStep \/ (\E t \in Tasks : TaskStep(t)) \/ CycleStep
  \/ (\E m \in Failing : ApiRestart(m)) \/ ContinueRestart
  \/ ShutdownStep \/ Tick

Spec == Init /\ [][Next]_vars

(***************************************************************************)
(* Fairness: the runtime polls what is ready. process() returns unless it  *)
(* hangs, the select of a task sees the shutdown signal although messages   *)
(* and ticks compete with it (branches are polled in random order), and a  *)
(* call of handle_module_failure that can go on does.                      *)
(***************************************************************************)
Fairness ==
  /\ \A t \in Tasks : /\ WF_vars(Receive(t) \/ Processed(t) \/ Hangs(t))
                      /\ WF_vars(AbortTakesEffect(t))
                      /\ SF_vars(StopsGracefully(t))
  /\ \A x \in Senders \cup {Cycle} : SF_vars(WaitEnds(x))
  /\ WF_vars(ContinueRestart) /\ SF_vars(Register)
  /\ WF_vars(CycleStops)
  /\ WF_vars(ShutdownAborts)

FairSpec == Spec /\ Fairness

-----------------------------------------------------------------------------
(* Properties.                                                             *)

\* Type invariant.
TypeOK ==
  /\ task \in [Tasks -> Task]
  /\ handle \in [Modules -> Tasks \cup {NULL}]
  /\ route \in [Modules -> Tasks]
  /\ waiting \in [Senders \cup {Cycle} -> Modules \cup {NULL}]
  /\ health \in [Modules -> (0..HeartbeatTimeout + 1) \cup {NULL}]
  /\ lastRestart \in [Modules -> (0..RestartCooldown) \cup {NULL}]
  /\ cycle \in [at : {"idle", "act", "ended"},
                restarts : SUBSET Modules, pauses : SUBSET LowPriority]
  /\ restart \in [by : {Cycle, NULL}, mod : Modules \cup {NULL}, step : RestartStep]
  /\ shutdown \in {"no", "signalled", "done"}
  /\ store \in [Modules -> 0..MaxWork]

\* A module never has two tasks at work (they would race for its snapshot, and
\* one would run unsupervised for ever); and while neither a restart nor the
\* shutdown is under way, its queue leads to the task the supervisor can abort.
OneSupervisedTask ==
  \A m \in Modules :
    /\ Cardinality(TasksOf(m)) <= 1
    /\ restart.mod # m /\ ~Signalled => handle[m] = route[m] /\ Runs(route[m])

\* The cycle begins a restart of a module only when its last one is at least
\* the cooldown ago, although it decides before it acts and acts in turn.
CooldownHonoured ==
  [][restart = NoRestart /\ restart'.by = Cycle
       => lastRestart[restart'.mod] \in {NULL, RestartCooldown}]_vars

\* A restart gets through although the queue of the module it replaces is full
\* and senders hold guards on the map until it has space; only a hung
\* neighbour with a full queue in the same shard can block it.
RestartCompletes ==
  (restart # NoRestart)
    ~> \/ restart = NoRestart
       \/ \E t \in Tasks : /\ task[t].phase = "hung" /\ Full(t)
                           /\ task[t].mod # restart.mod /\ ~task[t].aborted

\* After shutdown no task goes on running, whatever restart it overlapped with,
\* except one that hangs.
TasksStop ==
  (shutdown = "done") ~> \A t \in Tasks : Runs(t) => task[t].phase = "hung"

\* The store documents "so state survives restarts" (modules/mod.rs:60): what
\* a snapshot covers is not replaced by less.
SnapshotKept == [][\A m \in Modules : store'[m] >= store[m]]_vars
=============================================================================
