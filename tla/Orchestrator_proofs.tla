------------------------- MODULE Orchestrator_proofs -------------------------
(***************************************************************************)
(* Proofs about supervision, for any number of modules, senders and tasks  *)
(* and any timeouts. A module has one task at work because every task that  *)
(* runs, and was not aborted, is the one the supervisor holds the handle of;*)
(* what a restart knows between its steps keeps that so.                    *)
(***************************************************************************)
EXTENDS Orchestrator, TLAPS, FiniteSetTheorems

USE OrchestratorAssumption DEF OrchestratorAssumption

\* A task at work is the one its module's handle leads to.
HandlesLead ==
  /\ \A t \in Tasks : Runs(t) /\ ~task[t].aborted
       => task[t].mod \in Modules /\ handle[task[t].mod] = t
  /\ \A m \in Modules : handle[m] # NULL /\ Runs(handle[m]) => task[handle[m]].mod = m

\* What handle_module_failure relies on: no handle once it has aborted the old
\* task; then a queue of its own that nothing else leads to.
RestartKnows ==
  /\ restart.step # "none" => restart.mod \in Modules
  /\ restart.step \in {"register", "spawn"} => handle[restart.mod] = NULL
  /\ restart.step = "spawn" =>
       /\ task[route[restart.mod]].phase = "queue"
       /\ task[route[restart.mod]].mod = restart.mod
       /\ ~task[route[restart.mod]].aborted
       /\ \A m \in Modules : handle[m] # route[restart.mod]

\* Before a shutdown every module that is not being restarted has a task at
\* work, which its handle and its queue lead to.
Supervised ==
  shutdown = "no" =>
    \A m \in Modules : restart.mod # m \/ restart.step = "record" =>
      /\ handle[m] = route[m] /\ Runs(route[m])
      /\ ~task[route[m]].aborted /\ task[route[m]].mod = m

\* Modules the cycle still has to restart have cooled down, and the one it is
\* restarting is not among them.
CoolingKnown ==
  /\ \A m \in cycle.restarts : Cooled(m)
  /\ restart.by = Cycle => cycle.at = "act" /\ restart.mod \notin cycle.restarts

Linked == HandlesLead /\ RestartKnows /\ Supervised
IInv == TypeOK /\ Linked
CoolInv == TypeOK /\ CoolingKnown

-----------------------------------------------------------------------------
(* Types.                                                                  *)

\* What the actions make of the record of a task is such a record.
LEMMA TaskRecords ==
  /\ Ended \in Task
  /\ \A m \in Modules \cup {NULL} : Fresh(m) \in Task
  /\ \A r \in Task, p \in Phase : [r EXCEPT !.phase = p] \in Task
  /\ \A r \in Task : [r EXCEPT !.aborted = TRUE] \in Task
  /\ \A r \in Task : r.queue # QueueCapacity => [r EXCEPT !.queue = @ + 1] \in Task
  /\ \A r \in Task : r.queue > 0 => [r EXCEPT !.phase = "busy", !.queue = @ - 1] \in Task
  /\ \A r \in Task : [r EXCEPT !.phase = "ready",
                               !.work = IF @ < MaxWork THEN @ + 1 ELSE @] \in Task
<1>1. Ended \in Task
  BY DEF Ended, Task, Phase
<1>2. \A m \in Modules \cup {NULL} : Fresh(m) \in Task
  <2>1. \A r \in Task, m \in Modules \cup {NULL} : [r EXCEPT !.mod = m, !.phase = "queue"] \in Task
    BY DEF Task, Phase
  <2> QED BY <1>1, <2>1 DEF Fresh
<1>3. \A r \in Task, p \in Phase : [r EXCEPT !.phase = p] \in Task
  BY DEF Task
<1>4. \A r \in Task : [r EXCEPT !.aborted = TRUE] \in Task
  BY DEF Task
<1>5. ASSUME NEW r \in Task, r.queue # QueueCapacity
      PROVE  [r EXCEPT !.queue = @ + 1] \in Task
  <2>1. r.queue + 1 \in 0..QueueCapacity
    BY <1>5 DEF Task
  <2> QED BY <2>1 DEF Task
<1>6. ASSUME NEW r \in Task, r.queue > 0
      PROVE  [r EXCEPT !.phase = "busy", !.queue = @ - 1] \in Task
  <2>1. r.queue - 1 \in 0..QueueCapacity
    BY <1>6 DEF Task
  <2> QED BY <2>1 DEF Task, Phase
<1>7. ASSUME NEW r \in Task
      PROVE  [r EXCEPT !.phase = "ready", !.work = IF @ < MaxWork THEN @ + 1 ELSE @] \in Task
  <2>1. (IF r.work < MaxWork THEN r.work + 1 ELSE r.work) \in 0..MaxWork
    BY <1>7 DEF Task
  <2> QED BY <2>1 DEF Task, Phase
<1> QED BY <1>1, <1>2, <1>3, <1>4, <1>5, <1>6, <1>7

\* A registered queue is that of its module, and not aborted.
LEMMA FreshFields ==
  \A m \in Modules : Fresh(m).mod = m /\ Fresh(m).phase = "queue" /\ ~Fresh(m).aborted
<1>1. \A r \in Task, m \in Modules : LET q == [r EXCEPT !.mod = m, !.phase = "queue"] IN
        q.mod = m /\ q.phase = "queue" /\ q.aborted = r.aborted
  BY DEF Task
<1>2. ~Ended.aborted
  BY DEF Ended
<1> QED BY <1>1, <1>2, TaskRecords DEF Fresh

\* Initially every module has a task of its own.
LEMMA FirstTasks ==
  Init => /\ TypeOK /\ handle = route /\ OneToOne(handle)
          /\ handle \in [Modules -> Tasks]
          /\ \A m \in Modules : task[handle[m]] = [Fresh(m) EXCEPT !.phase = "ready"]
          /\ \A t \in Tasks : (\A m \in Modules : handle[m] # t) => task[t] = Ended
<1> SUFFICES ASSUME Init
             PROVE  /\ TypeOK /\ handle = route /\ OneToOne(handle)
                    /\ handle \in [Modules -> Tasks]
                    /\ \A m \in Modules : task[handle[m]] = [Fresh(m) EXCEPT !.phase = "ready"]
                    /\ \A t \in Tasks : (\A m \in Modules : handle[m] # t) => task[t] = Ended
  OBVIOUS
<1> DEFINE first == CHOOSE f \in [Modules -> Tasks] : OneToOne(f)
           started(t) == [Fresh(CHOOSE m \in Modules : first[m] = t) EXCEPT !.phase = "ready"]
<1>1. first \in [Modules -> Tasks] /\ OneToOne(first)
  OBVIOUS
<1>2. /\ handle = first /\ route = first
      /\ task = [t \in Tasks |-> IF \E m \in Modules : first[m] = t THEN started(t) ELSE Ended]
  BY DEF Init
<1>3. \A m \in Modules : (CHOOSE n \in Modules : first[n] = first[m]) = m
  BY <1>1 DEF OneToOne
<1> HIDE DEF first
<1>4. \A m \in Modules : task[handle[m]] = [Fresh(m) EXCEPT !.phase = "ready"]
  BY <1>1, <1>2, <1>3
<1>5. \A t \in Tasks : (\A m \in Modules : handle[m] # t) => task[t] = Ended
  BY <1>1, <1>2
<1>6. task \in [Tasks -> Task]
  <2>1. "ready" \in Phase
    BY DEF Phase
  <2>2. \A m \in Modules : [Fresh(m) EXCEPT !.phase = "ready"] \in Task
    BY <2>1, TaskRecords
  <2>3. \A t \in Tasks : task[t] \in Task
    BY <1>2, <1>4, <1>5, <2>2, TaskRecords
  <2>4. task = [t \in Tasks |-> task[t]]
    BY <1>2
  <2> QED BY <2>3, <2>4
<1>7. TypeOK
  <2>1. /\ waiting \in [Senders \cup {Cycle} -> Modules \cup {NULL}]
        /\ health \in [Modules -> (0..HeartbeatTimeout + 1) \cup {NULL}]
        /\ lastRestart \in [Modules -> (0..RestartCooldown) \cup {NULL}]
        /\ cycle \in [at : {"idle", "act", "ended"},
                      restarts : SUBSET Modules, pauses : SUBSET LowPriority]
        /\ restart \in [by : {Cycle, NULL}, mod : Modules \cup {NULL}, step : RestartStep]
        /\ shutdown \in {"no", "signalled", "done"}
        /\ store \in [Modules -> 0..MaxWork]
    BY DEF Init, NoRestart, RestartStep
  <2> QED BY <1>1, <1>2, <1>6, <2>1 DEF TypeOK
<1> QED BY <1>1, <1>2, <1>4, <1>5, <1>7

\* A message is enqueued only where there is space.
LEMMA EnqueuedTypes ==
  ASSUME TypeOK, NEW t \in Tasks, ~Full(t), Enqueued(t)
  PROVE  task' \in [Tasks -> Task]
BY TaskRecords DEF TypeOK, Full, Enqueued

\* Sending keeps the types of what it changes.
LEMMA SendTypes ==
  ASSUME TypeOK, NEW x \in Senders \cup {Cycle}, NEW m \in Modules, NEW high \in BOOLEAN,
         Send(x, m, high)
  PROVE  /\ task' \in [Tasks -> Task]
         /\ waiting' \in [Senders \cup {Cycle} -> Modules \cup {NULL}]
         /\ store' \in [Modules -> 0..MaxWork]
<1>1. route[m] \in Tasks
  BY DEF TypeOK
<1> QED BY <1>1, EnqueuedTypes DEF TypeOK, Send

\* Every step preserves the types.
LEMMA TypeNext == TypeOK /\ [Next]_vars => TypeOK'
<1> SUFFICES ASSUME TypeOK, [Next]_vars PROVE TypeOK'
  OBVIOUS
<1>1. ASSUME NEW x \in Senders, NEW m \in Modules, NEW high \in BOOLEAN, ApiSends(x, m, high)
      PROVE  TypeOK'
  BY <1>1, SendTypes DEF ApiSends, supervision, TypeOK
<1>2. ASSUME NEW x \in Senders \cup {Cycle}, WaitEnds(x) PROVE TypeOK'
  <2>1. route[waiting[x]] \in Tasks
    BY <1>2 DEF WaitEnds, TypeOK
  <2> QED BY <1>2, <2>1, EnqueuedTypes DEF WaitEnds, supervision, TypeOK
<1>3. ASSUME NEW t \in Tasks, TaskStep(t) PROVE TypeOK'
  <2>0. task[t].work \in 0..MaxWork
    BY DEF TypeOK, Task
  <2>1. CASE Receive(t)
    BY <2>1, TaskRecords DEF Receive, supervision, TypeOK, Phase
  <2>2. CASE Processed(t)
    BY <2>2, TaskRecords DEF Processed, supervision, TypeOK, Phase
  <2>3. CASE Hangs(t)
    BY <2>3, TaskRecords DEF Hangs, supervision, TypeOK, Phase
  <2>4. CASE Snapshot(t)
    BY <2>4, <2>0 DEF Snapshot, supervision, TypeOK
  <2>5. CASE StopsGracefully(t)
    BY <2>5, <2>0, TaskRecords DEF StopsGracefully, supervision, TypeOK
  <2>6. CASE AbortTakesEffect(t)
    BY <2>6, TaskRecords DEF AbortTakesEffect, supervision, TypeOK
  <2> QED BY <1>3, <2>1, <2>2, <2>3, <2>4, <2>5, <2>6 DEF TaskStep
<1>4. CASE CycleStep
  <2>1. CASE ObserveAndDecide
    BY <2>1 DEF ObserveAndDecide, TypeOK
  <2>2. CASE EndCycle
    BY <2>2 DEF EndCycle, TypeOK
  <2>3. CASE CycleStops
    BY <2>3, TaskRecords DEF CycleStops, StoppedCycle, NoRestart, TypeOK, RestartStep
  <2>4. ASSUME NEW m \in Modules, ActRestart(m) PROVE TypeOK'
    BY <2>4 DEF ActRestart, TypeOK, RestartStep
  <2>5. ASSUME NEW m \in Modules, ActPause(m) PROVE TypeOK'
    BY <2>5, SendTypes DEF ActPause, TypeOK
  <2> QED BY <1>4, <2>1, <2>2, <2>3, <2>4, <2>5 DEF CycleStep
<1>5. ASSUME NEW m \in Failing, ApiRestart(m) PROVE TypeOK'
  BY <1>5 DEF ApiRestart, TypeOK, RestartStep
<1>6. CASE ContinueRestart
  <2>1. CASE AbortExisting
    <3>1. task' \in [Tasks -> Task]
      <4> DEFINE t == handle[restart.mod]
      <4>1. task' = task \/ task' = [task EXCEPT ![t].aborted = TRUE]
        BY <2>1 DEF AbortExisting, Aborts
      <4> HIDE DEF t
      <4>2. CASE t \in Tasks
        <5>1. [task[t] EXCEPT !.aborted = TRUE] \in Task
          BY <4>2, TaskRecords DEF TypeOK
        <5>2. task \in [Tasks -> Task]
          BY DEF TypeOK
        <5>3. [task EXCEPT ![t] = [task[t] EXCEPT !.aborted = TRUE]] \in [Tasks -> Task]
          BY <4>2, <5>1, <5>2
        <5> QED BY <4>1, <5>2, <5>3
      <4>3. CASE t \notin Tasks
        BY <4>1, <4>3 DEF TypeOK
      <4> QED BY <4>2, <4>3
    <3>2. handle' \in [Modules -> Tasks \cup {NULL}]
      BY <2>1 DEF AbortExisting, TypeOK
    <3>3. restart' \in [by : {Cycle, NULL}, mod : Modules \cup {NULL}, step : RestartStep]
      BY <2>1 DEF AbortExisting, TypeOK, RestartStep
    <3> QED BY <2>1, <3>1, <3>2, <3>3 DEF AbortExisting, TypeOK
  <2>2. CASE Register
    <3> DEFINE t == CHOOSE u \in Tasks : Unused(u)
    <3>1. t \in Tasks /\ task' = [task EXCEPT ![t] = Fresh(restart.mod)]
          /\ route' = [route EXCEPT ![restart.mod] = t]
      BY <2>2 DEF Register
    <3> HIDE DEF t
    <3>2. Fresh(restart.mod) \in Task
      BY TaskRecords DEF TypeOK
    <3>3. restart' \in [by : {Cycle, NULL}, mod : Modules \cup {NULL}, step : RestartStep]
      BY <2>2 DEF Register, TypeOK, RestartStep
    <3>4. task' \in [Tasks -> Task] /\ route' \in [Modules -> Tasks]
      BY <3>1, <3>2 DEF TypeOK
    <3> QED BY <2>2, <3>3, <3>4 DEF Register, TypeOK
  <2>3. CASE Spawn
    BY <2>3, TaskRecords DEF Spawn, TypeOK, Phase, RestartStep
  <2>4. CASE SpawnPanics
    BY <2>4, TaskRecords DEF SpawnPanics, StoppedCycle, NoRestart, TypeOK, RestartStep
  <2>5. CASE Record
    <3>1. 0 \in 0..HeartbeatTimeout + 1 /\ 0 \in 0..RestartCooldown
      OBVIOUS
    <3>2. /\ health' \in [Modules -> (0..HeartbeatTimeout + 1) \cup {NULL}]
          /\ lastRestart' \in [Modules -> (0..RestartCooldown) \cup {NULL}]
      BY <2>5, <3>1 DEF Record, TypeOK
    <3>3. restart' \in [by : {Cycle, NULL}, mod : Modules \cup {NULL}, step : RestartStep]
      BY <2>5 DEF Record, NoRestart, RestartStep
    <3> QED BY <2>5, <3>2, <3>3 DEF Record, TypeOK
  <2> QED BY <1>6, <2>1, <2>2, <2>3, <2>4, <2>5 DEF ContinueRestart
<1>7. CASE ShutdownStep
  <2>1. CASE ShutdownSignals
    BY <2>1 DEF ShutdownSignals, TypeOK
  <2>2. CASE ShutdownAborts
    <3>1. \A t \in Tasks : task[t] \in Task /\ [task[t] EXCEPT !.aborted = TRUE] \in Task
      BY TaskRecords DEF TypeOK
    <3>2. task' \in [Tasks -> Task]
      BY <2>2, <3>1 DEF ShutdownAborts
    <3>3. handle' \in [Modules -> Tasks \cup {NULL}]
      BY <2>2 DEF ShutdownAborts
    <3> QED BY <2>2, <3>2, <3>3 DEF ShutdownAborts, TypeOK
  <2> QED BY <1>7, <2>1, <2>2 DEF ShutdownStep
<1>8. CASE Tick
  BY <1>8 DEF Tick, TypeOK
<1>9. CASE UNCHANGED vars
  BY <1>9 DEF vars, TypeOK
<1> QED BY <1>1, <1>2, <1>3, <1>4, <1>5, <1>6, <1>7, <1>8, <1>9 DEF Next, BusStep

\* TypeOK: every table of the supervisor and every task keeps its type.
THEOREM TypeCorrect == Spec => []TypeOK
<1>1. Init => TypeOK
  BY FirstTasks
<1> QED BY <1>1, TypeNext, PTL DEF Spec

-----------------------------------------------------------------------------
(* One supervised task.                                                    *)

\* A step that ends no task and starts none.
SameTasks == \A t \in Tasks :
  /\ task'[t].mod = task[t].mod /\ task'[t].aborted = task[t].aborted
  /\ Runs(t)' = Runs(t)
  /\ (task'[t].phase = "queue") = (task[t].phase = "queue")

\* Initially handles and queues lead to the tasks at work.
LEMMA LinkedInit == Init => Linked
<1> SUFFICES ASSUME Init PROVE Linked
  OBVIOUS
<1>1. /\ TypeOK /\ handle = route /\ OneToOne(handle) /\ handle \in [Modules -> Tasks]
      /\ \A m \in Modules : task[handle[m]] = [Fresh(m) EXCEPT !.phase = "ready"]
      /\ \A t \in Tasks : (\A m \in Modules : handle[m] # t) => task[t] = Ended
  BY FirstTasks
<1>2. \A m \in Modules : /\ Runs(handle[m]) /\ ~task[handle[m]].aborted
                         /\ task[handle[m]].mod = m
  <2>1. \A r \in Task : LET q == [r EXCEPT !.phase = "ready"] IN
          q.phase = "ready" /\ q.mod = r.mod /\ q.aborted = r.aborted
    BY DEF Task
  <2> SUFFICES ASSUME NEW m \in Modules
               PROVE  Runs(handle[m]) /\ ~task[handle[m]].aborted /\ task[handle[m]].mod = m
    OBVIOUS
  <2>2. Fresh(m) \in Task
    BY TaskRecords
  <2> DEFINE q == [Fresh(m) EXCEPT !.phase = "ready"]
  <2>3. q.phase = "ready" /\ q.mod = m /\ ~q.aborted
    BY <2>1, <2>2, FreshFields
  <2>4. task[handle[m]] = q
    BY <1>1
  <2> HIDE DEF q
  <2> QED BY <2>3, <2>4 DEF Runs
<1>3. HandlesLead
  BY <1>1, <1>2 DEF HandlesLead, Runs, Ended
<1>4. RestartKnows /\ Supervised
  BY <1>1, <1>2 DEF Init, NoRestart, RestartKnows, Supervised
<1> QED BY <1>3, <1>4 DEF Linked

\* A step that leaves the tasks and the supervisor's tables keeps the links.
LEMMA LinkedKept ==
  ASSUME TypeOK, Linked, SameTasks, UNCHANGED <<handle, route, restart, shutdown>>
  PROVE  Linked'
<1>1. HandlesLead'
  <2>1. \A m \in Modules : handle[m] # NULL => handle[m] \in Tasks
    BY DEF TypeOK
  <2>2. \A t \in Tasks : Runs(t)' /\ ~task'[t].aborted
          => task'[t].mod \in Modules /\ handle'[task'[t].mod] = t
    BY DEF Linked, HandlesLead, SameTasks
  <2>3. \A m \in Modules : (handle[m] # NULL /\ Runs(handle[m]) => task[handle[m]].mod = m)'
    BY <2>1 DEF Linked, HandlesLead, SameTasks
  <2> QED BY <2>2, <2>3 DEF HandlesLead
<1>2. RestartKnows'
  BY DEF TypeOK, Linked, RestartKnows, SameTasks
<1>3. Supervised'
  BY DEF TypeOK, Linked, Supervised, SameTasks
<1> QED BY <1>1, <1>2, <1>3 DEF Linked

\* So does the end of a task that was aborted, or hears the shutdown.
LEMMA LinkedEnd ==
  ASSUME TypeOK, Linked, NEW t \in Tasks, Runs(t), task[t].aborted \/ Signalled,
         task' = [task EXCEPT ![t] = Ended], UNCHANGED <<handle, route, restart, shutdown>>
  PROVE  Linked'
<1>1. ~Runs(t)' /\ task'[t].phase # "queue"
  BY DEF TypeOK, Runs, Ended
<1>2. \A u \in Tasks : u # t => task'[u] = task[u]
  BY DEF TypeOK
<1>3. HandlesLead'
  BY <1>1, <1>2 DEF TypeOK, Linked, HandlesLead, Runs
<1>4. RestartKnows'
  BY <1>2 DEF TypeOK, Linked, RestartKnows, Runs
<1>5. Supervised'
  BY <1>2 DEF TypeOK, Linked, Supervised, Signalled, Runs
<1> QED BY <1>3, <1>4, <1>5 DEF Linked

\* So does a call of handle_module_failure.
LEMMA LinkedCall ==
  ASSUME TypeOK, Linked, restart = NoRestart, NEW m \in Modules,
         restart'.mod = m, restart'.step = "abort", UNCHANGED <<task, handle, route, shutdown>>
  PROVE  Linked'
<1>1. HandlesLead'
  BY DEF TypeOK, Linked, HandlesLead, Runs
<1>2. RestartKnows'
  BY DEF RestartKnows
<1>3. Supervised'
  BY DEF TypeOK, Linked, Supervised, Runs, NoRestart
<1> QED BY <1>1, <1>2, <1>3 DEF Linked

\* A message that is enqueued leaves the tasks as they are.
LEMMA EnqueuedSame ==
  ASSUME TypeOK, NEW t \in Tasks, Enqueued(t)
  PROVE  SameTasks
BY DEF TypeOK, Task, Enqueued, SameTasks, Runs

\* Whatever becomes of it, sending leaves the tasks as they are.
LEMMA SendSame ==
  ASSUME TypeOK, NEW x \in Senders \cup {Cycle}, NEW m \in Modules, NEW high \in BOOLEAN,
         Send(x, m, high)
  PROVE  SameTasks
<1>1. route[m] \in Tasks
  BY DEF TypeOK
<1>2. UNCHANGED task => SameTasks
  BY DEF SameTasks, Runs
<1> QED BY <1>1, <1>2, EnqueuedSame DEF Send

\* The old task is aborted, whoever ran it before.
LEMMA LinkedAbort == TypeOK /\ Linked /\ AbortExisting => Linked'
<1> SUFFICES ASSUME TypeOK, Linked, AbortExisting PROVE Linked'
  OBVIOUS
<1> DEFINE m == restart.mod
           h == handle[m]
<1>1. m \in Modules /\ restart.step = "abort"
  BY DEF AbortExisting, Linked, RestartKnows
<1>2. /\ handle' = [handle EXCEPT ![m] = NULL]
      /\ restart'.mod = m /\ restart'.step = "register"
      /\ UNCHANGED <<route, shutdown>>
  BY DEF AbortExisting, TypeOK
<1>3. /\ \A t \in Tasks : /\ task'[t].mod = task[t].mod /\ Runs(t)' = Runs(t)
                          /\ t # h => task'[t].aborted = task[t].aborted
                          /\ task'[t].aborted = FALSE => task[t].aborted = FALSE
      /\ h \in Tasks /\ Runs(h) => task'[h].aborted
  <2>1. CASE h # NULL /\ Runs(h)
    <3>1. h \in Tasks /\ task' = [task EXCEPT ![h].aborted = TRUE]
      BY <1>1, <2>1 DEF AbortExisting, Aborts, TypeOK
    <3> HIDE DEF h
    <3>2. task'[h] = [task[h] EXCEPT !.aborted = TRUE] /\ \A t \in Tasks : t # h => task'[t] = task[t]
      BY <3>1 DEF TypeOK
    <3>3. task'[h].aborted /\ task'[h].mod = task[h].mod /\ task'[h].phase = task[h].phase
      BY <3>1, <3>2 DEF TypeOK, Task
    <3> QED BY <3>1, <3>2, <3>3 DEF Runs
  <2>2. CASE ~(h # NULL /\ Runs(h))
    BY <1>1, <2>2 DEF AbortExisting, Runs
  <2> QED BY <2>1, <2>2
<1> HIDE DEF m
<1>4. HandlesLead'
  <2>1. \A t \in Tasks : Runs(t)' /\ ~task'[t].aborted
          => task'[t].mod \in Modules /\ handle'[task'[t].mod] = t
    <3> SUFFICES ASSUME NEW t \in Tasks, Runs(t)', ~task'[t].aborted
                 PROVE  task'[t].mod \in Modules /\ handle'[task'[t].mod] = t
      OBVIOUS
    <3>1. task[t].mod \in Modules /\ handle[task[t].mod] = t /\ task'[t].mod = task[t].mod
      BY <1>3 DEF Linked, HandlesLead
    <3>2. task[t].mod # m
      BY <1>3, <3>1
    <3> QED BY <1>2, <3>1, <3>2 DEF TypeOK
  <2>2. \A n \in Modules : (handle[n] # NULL /\ Runs(handle[n]) => task[handle[n]].mod = n)'
    BY <1>1, <1>2, <1>3 DEF TypeOK, Linked, HandlesLead
  <2> QED BY <2>1, <2>2 DEF HandlesLead
<1>5. RestartKnows'
  BY <1>1, <1>2 DEF TypeOK, RestartKnows
<1>6. Supervised'
  <2> SUFFICES ASSUME shutdown' = "no", NEW n \in Modules,
                      restart'.mod # n \/ restart'.step = "record"
               PROVE  (/\ handle[n] = route[n] /\ Runs(route[n])
                       /\ ~task[route[n]].aborted /\ task[route[n]].mod = n)'
    BY DEF Supervised
  <2>1. /\ handle[n] = route[n] /\ Runs(route[n]) /\ ~task[route[n]].aborted
        /\ task[route[n]].mod = n /\ n # m /\ route[n] \in Tasks
    BY <1>1, <1>2 DEF TypeOK, Linked, Supervised, m
  <2>2. route[n] # h
    BY <1>1, <2>1 DEF TypeOK, Linked, HandlesLead
  <2>3. handle'[n] = handle[n] /\ route'[n] = route[n]
    BY <1>2, <2>1 DEF TypeOK
  <2> QED BY <1>3, <2>1, <2>2, <2>3 DEF Runs
<1> QED BY <1>4, <1>5, <1>6 DEF Linked

\* The new queue takes an identity nothing leads to.
LEMMA LinkedRegister == TypeOK /\ Linked /\ Register => Linked'
<1> SUFFICES ASSUME TypeOK, Linked, Register PROVE Linked'
  OBVIOUS
<1> DEFINE m == restart.mod
           t == CHOOSE u \in Tasks : Unused(u)
<1>1. m \in Modules /\ restart.step = "register" /\ handle[m] = NULL
  BY DEF Register, Linked, RestartKnows
<1>2. t \in Tasks /\ Unused(t)
  BY DEF Register
<1>3. /\ task' = [task EXCEPT ![t] = Fresh(m)] /\ route' = [route EXCEPT ![m] = t]
      /\ restart'.mod = m /\ restart'.step = "spawn" /\ UNCHANGED <<handle, shutdown>>
  BY DEF Register, TypeOK
<1> HIDE DEF t
<1>4. /\ task'[t].phase = "queue" /\ task'[t].mod = m /\ ~task'[t].aborted
      /\ \A u \in Tasks : u # t => task'[u] = task[u]
  BY <1>1, <1>2, <1>3, FreshFields DEF TypeOK
<1>5. ~Runs(t) /\ \A n \in Modules : handle[n] # t /\ route[n] # t
  BY <1>2 DEF Unused, Runs
<1>6. HandlesLead'
  <2>1. \A u \in Tasks : Runs(u)' => u # t /\ Runs(u) /\ task'[u] = task[u]
    BY <1>4 DEF Runs
  <2>2. \A n \in Modules : (handle[n] # NULL /\ Runs(handle[n]) => task[handle[n]].mod = n)'
    BY <1>3, <1>4, <1>5 DEF TypeOK, Linked, HandlesLead, Runs
  <2> QED BY <1>3, <2>1, <2>2 DEF Linked, HandlesLead
<1>7. RestartKnows'
  BY <1>1, <1>3, <1>4, <1>5 DEF TypeOK, RestartKnows
<1>8. Supervised'
  <2> SUFFICES ASSUME shutdown' = "no", NEW n \in Modules,
                      restart'.mod # n \/ restart'.step = "record"
               PROVE  (/\ handle[n] = route[n] /\ Runs(route[n])
                       /\ ~task[route[n]].aborted /\ task[route[n]].mod = n)'
    BY DEF Supervised
  <2>1. n # m /\ route'[n] = route[n] /\ handle'[n] = handle[n] /\ route[n] \in Tasks
    BY <1>1, <1>3 DEF TypeOK
  <2>2. task'[route[n]] = task[route[n]]
    BY <1>4, <1>5, <2>1
  <2> QED BY <1>3, <2>1, <2>2 DEF Linked, Supervised, Runs
<1> QED BY <1>6, <1>7, <1>8 DEF Linked

\* The task that is spawned is the one the queue leads to, and its handle is kept.
LEMMA LinkedSpawn == TypeOK /\ Linked /\ Spawn => Linked'
<1> SUFFICES ASSUME TypeOK, Linked, Spawn PROVE Linked'
  OBVIOUS
<1> DEFINE m == restart.mod
           t == route[m]
<1>1. /\ m \in Modules /\ restart.step = "spawn" /\ handle[m] = NULL /\ t \in Tasks
      /\ task[t].phase = "queue" /\ task[t].mod = m /\ ~task[t].aborted
      /\ \A n \in Modules : handle[n] # t
  BY DEF Spawn, Linked, RestartKnows, TypeOK
<1>2. /\ task' = [task EXCEPT ![t].phase = "ready"] /\ handle' = [handle EXCEPT ![m] = t]
      /\ restart'.mod = m /\ restart'.step = "record" /\ UNCHANGED <<route, shutdown>>
  BY DEF Spawn, TypeOK
<1> HIDE DEF t
<1>3. /\ task'[t].phase = "ready" /\ task'[t].mod = m /\ ~task'[t].aborted
      /\ \A u \in Tasks : u # t => task'[u] = task[u]
  <2>1. task'[t] = [task[t] EXCEPT !.phase = "ready"] /\ task[t] \in Task
    BY <1>1, <1>2 DEF TypeOK
  <2>2. task'[t].phase = "ready" /\ task'[t].mod = m /\ ~task'[t].aborted
    BY <1>1, <2>1 DEF Task
  <2> QED BY <1>2, <2>2 DEF TypeOK
<1>4. handle'[m] = t /\ \A n \in Modules : n # m => handle'[n] = handle[n]
  BY <1>1, <1>2 DEF TypeOK
<1>5. HandlesLead'
  <2>1. ASSUME NEW u \in Tasks, Runs(u)', ~task'[u].aborted
        PROVE  task'[u].mod \in Modules /\ handle'[task'[u].mod] = u
    <3>1. CASE u = t
      BY <1>1, <1>3, <1>4, <3>1
    <3>2. CASE u # t
      <4>1. task'[u] = task[u] /\ Runs(u)
        BY <1>3, <2>1, <3>2 DEF Runs
      <4>2. task[u].mod \in Modules /\ handle[task[u].mod] = u
        BY <2>1, <4>1 DEF Linked, HandlesLead
      <4>3. task[u].mod # m
        BY <1>1, <4>2
      <4> QED BY <1>4, <4>1, <4>2, <4>3
    <3> QED BY <3>1, <3>2
  <2>2. ASSUME NEW n \in Modules
        PROVE  (handle[n] # NULL /\ Runs(handle[n]) => task[handle[n]].mod = n)'
    <3>1. CASE n = m
      BY <1>3, <1>4, <3>1
    <3>2. CASE n # m
      <4>1. handle'[n] = handle[n] /\ handle[n] # t /\ handle[n] \in Tasks \cup {NULL}
        BY <1>1, <1>4, <3>2 DEF TypeOK
      <4> QED BY <1>3, <4>1 DEF Linked, HandlesLead, Runs
    <3> QED BY <3>1, <3>2
  <2> QED BY <2>1, <2>2 DEF HandlesLead
<1>6. RestartKnows'
  BY <1>1, <1>2 DEF RestartKnows
<1>7. Supervised'
  <2> SUFFICES ASSUME shutdown' = "no", NEW n \in Modules
               PROVE  (/\ handle[n] = route[n] /\ Runs(route[n])
                       /\ ~task[route[n]].aborted /\ task[route[n]].mod = n)'
    BY DEF Supervised
  <2>1. CASE n = m
    BY <1>2, <1>3, <1>4, <2>1 DEF Runs, t
  <2>2. CASE n # m
    <3>1. /\ handle[n] = route[n] /\ Runs(route[n]) /\ ~task[route[n]].aborted
          /\ task[route[n]].mod = n /\ route[n] \in Tasks
      BY <1>2, <2>2 DEF TypeOK, Linked, Supervised
    <3>2. route[n] # t
      BY <1>1, <3>1 DEF Runs
    <3> QED BY <1>2, <1>3, <1>4, <2>2, <3>1, <3>2 DEF Runs
  <2> QED BY <2>1, <2>2
<1> QED BY <1>5, <1>6, <1>7 DEF Linked

\* A restart that finds the shutdown under way drops its queue: no task at work.
LEMMA LinkedDropped ==
  ASSUME TypeOK, Linked, Signalled, restart' = NoRestart, UNCHANGED <<handle, route, shutdown>>,
         \A t \in Tasks : task'[t] = task[t] \/ (task[t].phase = "queue" /\ task'[t] = Ended)
  PROVE  Linked'
<1>1. \A t \in Tasks : Runs(t)' => Runs(t) /\ task'[t] = task[t]
  BY DEF Runs, Ended
<1>2. HandlesLead'
  BY <1>1 DEF TypeOK, Linked, HandlesLead
<1>3. RestartKnows' /\ Supervised'
  BY DEF NoRestart, RestartKnows, Supervised, Signalled
<1> QED BY <1>2, <1>3 DEF Linked

\* Shutdown aborts every task at work, since handles lead to them all.
LEMMA LinkedShutdown == TypeOK /\ Linked /\ ShutdownAborts => Linked'
<1> SUFFICES ASSUME TypeOK, Linked, ShutdownAborts PROVE Linked'
  OBVIOUS
<1>1. \A m \in Modules : handle'[m] = NULL
  BY DEF ShutdownAborts
<1>2. ASSUME NEW t \in Tasks, Runs(t)' PROVE task'[t].aborted
  <2>1. CASE Runs(t) /\ \E m \in Modules : handle[m] = t
    <3>1. task'[t] = [task[t] EXCEPT !.aborted = TRUE] /\ task[t] \in Task
      BY <2>1 DEF ShutdownAborts, TypeOK
    <3> QED BY <3>1 DEF Task
  <2>2. CASE ~(Runs(t) /\ \E m \in Modules : handle[m] = t)
    <3>1. task'[t] = task[t] /\ Runs(t)
      BY <1>2, <2>2 DEF ShutdownAborts, Runs
    <3> QED BY <2>2, <3>1 DEF Linked, HandlesLead
  <2> QED BY <2>1, <2>2
<1>3. HandlesLead'
  BY <1>1, <1>2 DEF HandlesLead
<1>4. \A t \in Tasks : task[t].phase = "queue" => task'[t] = task[t]
  BY DEF ShutdownAborts, Runs
<1>5. RestartKnows'
  BY <1>1, <1>4 DEF ShutdownAborts, TypeOK, Linked, RestartKnows
<1>6. Supervised'
  BY DEF ShutdownAborts, Supervised
<1> QED BY <1>3, <1>5, <1>6 DEF Linked

\* Every step preserves the invariant.
LEMMA InvNext == IInv /\ [Next]_vars => IInv'
<1> SUFFICES ASSUME TypeOK, Linked, [Next]_vars PROVE Linked'
  BY TypeNext DEF IInv
<1>0. UNCHANGED task => SameTasks
  BY DEF SameTasks, Runs
<1>1. ASSUME NEW x \in Senders, NEW m \in Modules, NEW high \in BOOLEAN, ApiSends(x, m, high)
      PROVE  Linked'
  BY <1>1, SendSame, LinkedKept DEF ApiSends, supervision
<1>2. ASSUME NEW x \in Senders \cup {Cycle}, WaitEnds(x) PROVE Linked'
  <2>1. route[waiting[x]] \in Tasks
    BY <1>2 DEF WaitEnds, TypeOK
  <2> QED BY <1>0, <1>2, <2>1, EnqueuedSame, LinkedKept DEF WaitEnds, supervision
<1>3. ASSUME NEW t \in Tasks, TaskStep(t) PROVE Linked'
  <2>1. CASE Receive(t) \/ Processed(t) \/ Hangs(t)
    <3>1. /\ \A u \in Tasks : u # t => task'[u] = task[u]
          /\ task'[t].mod = task[t].mod /\ task'[t].aborted = task[t].aborted
          /\ Runs(t) /\ task'[t].phase \in {"ready", "busy", "hung"}
      BY <2>1 DEF Receive, Processed, Hangs, TypeOK, Task, Runs
    <3>2. SameTasks
      BY <3>1 DEF SameTasks, Runs
    <3> QED BY <2>1, <3>2, LinkedKept DEF Receive, Processed, Hangs, supervision
  <2>2. CASE Snapshot(t)
    BY <1>0, <2>2, LinkedKept DEF Snapshot, supervision
  <2>3. CASE StopsGracefully(t)
    BY <2>3, LinkedEnd DEF StopsGracefully, supervision, Runs
  <2>4. CASE AbortTakesEffect(t)
    BY <2>4, LinkedEnd DEF AbortTakesEffect, supervision
  <2> QED BY <1>3, <2>1, <2>2, <2>3, <2>4 DEF TaskStep
<1>4. CASE CycleStep
  <2>1. CASE ObserveAndDecide \/ EndCycle
    BY <1>0, <2>1, LinkedKept DEF ObserveAndDecide, EndCycle
  <2>2. CASE CycleStops
    <3>1. CASE restart.by = Cycle
      <4>1. \A t \in Tasks : task'[t] = task[t] \/ (task[t].phase = "queue" /\ task'[t] = Ended)
        BY <2>2 DEF CycleStops
      <4> QED BY <2>2, <3>1, <4>1, LinkedDropped DEF CycleStops
    <3>2. CASE restart.by # Cycle
      <4>1. \A t \in Tasks : task'[t] = task[t]
        BY <2>2, <3>2 DEF CycleStops
      <4>2. SameTasks
        BY <4>1 DEF SameTasks, Runs
      <4> QED BY <2>2, <3>2, <4>2, LinkedKept DEF CycleStops
    <3> QED BY <3>1, <3>2
  <2>3. ASSUME NEW m \in Modules, ActRestart(m) PROVE Linked'
    BY <2>3, LinkedCall DEF ActRestart
  <2>4. ASSUME NEW m \in Modules, ActPause(m) PROVE Linked'
    BY <2>4, SendSame, LinkedKept DEF ActPause
  <2> QED BY <1>4, <2>1, <2>2, <2>3, <2>4 DEF CycleStep
<1>5. ASSUME NEW m \in Failing, ApiRestart(m) PROVE Linked'
  <2>1. m \in Modules
    OBVIOUS
  <2> QED BY <1>5, <2>1, LinkedCall DEF ApiRestart
<1>6. CASE ContinueRestart
  <2>1. CASE SpawnPanics
    <3>1. Signalled /\ restart' = NoRestart
      BY <2>1 DEF SpawnPanics, CanSubscribe
    <3>2. task' = [task EXCEPT ![route[restart.mod]] = Ended]
      BY <2>1 DEF SpawnPanics
    <3>3. task[route[restart.mod]].phase = "queue"
      BY <2>1 DEF SpawnPanics, Linked, RestartKnows
    <3>4. \A t \in Tasks : task'[t] = task[t] \/ (task[t].phase = "queue" /\ task'[t] = Ended)
      BY <3>2, <3>3 DEF TypeOK
    <3> QED BY <2>1, <3>1, <3>4, LinkedDropped DEF SpawnPanics
  <2>2. CASE Record
    <3>1. HandlesLead' /\ RestartKnows'
      BY <2>2 DEF Record, NoRestart, Linked, HandlesLead, RestartKnows, Runs
    <3>2. Supervised'
      BY <2>2 DEF Record, Linked, Supervised, Runs
    <3> QED BY <3>1, <3>2 DEF Linked
  <2> QED BY <1>6, <2>1, <2>2, LinkedAbort, LinkedRegister, LinkedSpawn DEF ContinueRestart
<1>7. CASE ShutdownStep
  <2>1. CASE ShutdownSignals
    <3>1. HandlesLead' /\ RestartKnows'
      BY <2>1 DEF ShutdownSignals, Linked, HandlesLead, RestartKnows, Runs
    <3>2. Supervised'
      BY <2>1 DEF ShutdownSignals, Supervised
    <3> QED BY <3>1, <3>2 DEF Linked
  <2> QED BY <1>7, <2>1, LinkedShutdown DEF ShutdownStep
<1>8. CASE Tick
  BY <1>0, <1>8, LinkedKept DEF Tick
<1>9. CASE UNCHANGED vars
  BY <1>0, <1>9, LinkedKept DEF vars
<1> QED BY <1>1, <1>2, <1>3, <1>4, <1>5, <1>6, <1>7, <1>8, <1>9 DEF Next, BusStep

\* Tasks at work are those of a handle, so a module has one at most.
LEMMA InvIsSupervision == IInv => OneSupervisedTask
<1> SUFFICES ASSUME IInv, NEW m \in Modules
             PROVE  /\ Cardinality(TasksOf(m)) <= 1
                    /\ restart.mod # m /\ ~Signalled => handle[m] = route[m] /\ Runs(route[m])
  BY DEF OneSupervisedTask
<1>1. Cardinality(TasksOf(m)) <= 1
  <2>1. TasksOf(m) \in SUBSET {handle[m]}
    BY DEF IInv, Linked, HandlesLead, TasksOf
  <2>2. IsFiniteSet({handle[m]}) /\ Cardinality({handle[m]}) = 1
    BY FS_Singleton
  <2> QED BY <2>1, <2>2, FS_Subset
<1>2. restart.mod # m /\ ~Signalled => handle[m] = route[m] /\ Runs(route[m])
  BY DEF IInv, TypeOK, Linked, Supervised, Signalled
<1> QED BY <1>1, <1>2

\* OneSupervisedTask: however restarts, sends, a cycle and a shutdown overlap, a
\* module has one task at work, and the supervisor can abort the one its queue
\* leads to.
THEOREM OneTaskSupervised == Spec => []OneSupervisedTask
<1>1. Init => IInv
  BY FirstTasks, LinkedInit DEF IInv
<1> QED BY <1>1, InvNext, InvIsSupervision, PTL DEF Spec

-----------------------------------------------------------------------------
(* The cooldown.                                                           *)

\* Every step preserves what the cycle knows of the cooldowns.
LEMMA CoolNext == CoolInv /\ [Next]_vars => CoolInv'
<1> SUFFICES ASSUME TypeOK, CoolingKnown, [Next]_vars PROVE CoolingKnown'
  BY TypeNext DEF CoolInv
<1> USE DEF CoolingKnown, Cooled
<1>1. CASE UNCHANGED <<lastRestart, cycle, restart>>
  BY <1>1
<1>2. CASE ObserveAndDecide
  BY <1>2 DEF ObserveAndDecide, TypeOK
<1>3. CASE EndCycle
  BY <1>3 DEF EndCycle, TypeOK
<1>4. CASE CycleStops
  BY <1>4 DEF CycleStops, StoppedCycle, NoRestart
<1>5. ASSUME NEW m \in Modules, ActRestart(m) PROVE CoolingKnown'
  BY <1>5 DEF ActRestart, TypeOK
<1>6. ASSUME NEW m \in Modules, ActPause(m) PROVE CoolingKnown'
  BY <1>6 DEF ActPause, TypeOK
<1>7. ASSUME NEW m \in Failing, ApiRestart(m) PROVE CoolingKnown'
  BY <1>7 DEF ApiRestart
<1>8. CASE AbortExisting \/ Register \/ Spawn
  BY <1>8 DEF AbortExisting, Register, Spawn, TypeOK
<1>9. CASE SpawnPanics
  BY <1>9 DEF SpawnPanics, StoppedCycle, NoRestart
<1>10. CASE Record
  BY <1>10 DEF Record, NoRestart, TypeOK
<1>11. CASE Tick
  BY <1>11 DEF Tick, TypeOK
<1>12. BusStep \/ (\E t \in Tasks : TaskStep(t)) \/ ShutdownStep \/ UNCHANGED vars
         => UNCHANGED <<lastRestart, cycle, restart>>
  BY DEF BusStep, ApiSends, WaitEnds, TaskStep, Receive, Processed, Hangs, Snapshot,
         StopsGracefully, AbortTakesEffect, ShutdownStep, ShutdownSignals, ShutdownAborts,
         supervision, vars
<1> QED BY <1>1, <1>2, <1>3, <1>4, <1>5, <1>6, <1>7, <1>8, <1>9, <1>10, <1>11, <1>12
        DEF Next, CycleStep, ContinueRestart

\* CooldownHonoured: the cycle never restarts a module within the cooldown of its
\* last restart, although it decides long before it acts.
THEOREM CooldownIsHonoured == Spec => CooldownHonoured
<1>1. Init => CoolInv
  BY FirstTasks DEF CoolInv, CoolingKnown, Init, NoRestart
<1>2. CoolInv /\ [Next]_vars
        => [restart = NoRestart /\ restart'.by = Cycle
              => lastRestart[restart'.mod] \in {NULL, RestartCooldown}]_vars
  <2> SUFFICES ASSUME TypeOK, CoolingKnown, Next, restart = NoRestart, restart'.by = Cycle
               PROVE  lastRestart[restart'.mod] \in {NULL, RestartCooldown}
    BY DEF CoolInv
  <2>1. restart' # restart
    BY DEF NoRestart
  <2>2. ~ContinueRestart
    BY DEF ContinueRestart, AbortExisting, Register, Spawn, SpawnPanics, Record, NoRestart
  <2>3. BusStep \/ (\E t \in Tasks : TaskStep(t)) \/ ShutdownStep \/ Tick => UNCHANGED restart
    BY DEF BusStep, ApiSends, WaitEnds, TaskStep, Receive, Processed, Hangs, Snapshot,
           StopsGracefully, AbortTakesEffect, ShutdownStep, ShutdownSignals, ShutdownAborts,
           Tick, supervision
  <2>4. ASSUME NEW m \in Modules PROVE ~ApiRestart(m) /\ ~ActPause(m)
    <3>1. ApiRestart(m) => restart'.by = NULL
      BY DEF ApiRestart
    <3>2. ActPause(m) => UNCHANGED restart
      BY DEF ActPause
    <3> QED BY <2>1, <3>1, <3>2
  <2>5. ~ObserveAndDecide /\ ~EndCycle /\ ~CycleStops
    BY <2>1 DEF ObserveAndDecide, EndCycle, CycleStops, NoRestart
  <2>6. \E m \in Modules : ActRestart(m)
    BY <2>1, <2>2, <2>3, <2>4, <2>5 DEF Next, CycleStep
  <2> QED BY <2>6 DEF ActRestart, CoolingKnown, Cooled
<1> QED BY <1>1, <1>2, CoolNext, PTL DEF Spec, CooldownHonoured
=============================================================================
