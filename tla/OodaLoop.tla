------------------------------- MODULE OodaLoop -------------------------------
(***************************************************************************)
(* The four OODA loops of loops/ooda_loop.rs, started and shut down as      *)
(* lib.rs does. Each is a task that subscribes to the shutdown channel when *)
(* it is first polled, then runs one cycle per tick; the fast one takes one *)
(* sync event per tick from a broadcast ring. A cycle is the calls it       *)
(* awaits, one after the other, each of which may fail; what they compute   *)
(* and report is abstracted to which of them failed.                        *)
(***************************************************************************)
EXTENDS Integers, Sequences

CONSTANTS Ticking,         \* loops beside the fast one: medium, slow, deep
          RingCapacity,    \* of the broadcast channel of sync events
          MaxHistory,      \* cycles kept (1000)
          Knowledge,       \* whether a KnowledgeUpdater was set (lib.rs sets none)
          MaxEvents, MaxCycles    \* bounds

Loops == {"fast"} \cup Ticking
Events == {"valid", "noisy", "invalid"}    \* noisy: more than three error signals

\* What decides the success of a cycle, what else may fail, what cannot.
Needed == {"profile", "summary", "aggregates", "signals", "soko_pulse", "report"}
Optional == {"anomaly", "anomaly_count", "drift_episode", "consolidate", "decay", "prune",
             "store_model", "indicators", "calibrate"}
Local == {"send_error", "spawn_episode", "count_report", "count_round"}
Calls == Needed \cup Optional \cup Local
Counted == {"report", "send_error", "count_report", "count_round"}

VARIABLES loop,          \* where the task of each loop is
          iteration,     \* local to each task
          inCycle,       \* its cycle: calls left, needed ones that failed, error_count
          done,          \* reports stored, errors told, metrics of reports and rounds
          episodes,      \* spawned episodes that are being recorded
          history,       \* cycle_history
          loopMetrics,   \* *_loop_iterations
          lagCount,      \* fast_loop_lag_count
          ring,          \* events sent and not received by the fast loop
          dropped,       \* events overwritten that it has not been told of
          shutdownSeen,  \* loops whose receiver holds the shutdown message
          closing,       \* LoopEngineeringHandles::shutdown: no, joining, done
          eventsSent, taken, invalidTaken, missedShutdown    \* history

cycleVars == <<inCycle, done, episodes>>
eventVars == <<lagCount, ring, dropped, eventsSent, taken, invalidTaken>>
recordVars == <<history, loopMetrics>>
shutdownVars == <<shutdownSeen, closing, missedShutdown>>
oodaVars == <<loop, iteration, cycleVars, recordVars, eventVars, shutdownVars>>

NoCycle == [left |-> <<>>, failed |-> {}, errors |-> 0]

OodaInit ==
  /\ loop = [l \in Loops |-> "unborn"] /\ iteration = [l \in Loops |-> 0]
  /\ inCycle = [l \in Loops |-> NoCycle] /\ done = [c \in Counted |-> 0] /\ episodes = 0
  /\ history = <<>> /\ loopMetrics = [l \in Loops |-> 0]
  /\ lagCount = 0 /\ ring = <<>> /\ dropped = 0
  /\ shutdownSeen = {} /\ closing = "no" /\ missedShutdown = {}
  /\ eventsSent = 0 /\ taken = 0 /\ invalidTaken = 0

-----------------------------------------------------------------------------
\* start, once.
Start ==
  /\ \A l \in Loops : loop[l] = "unborn"
  /\ loop' = [l \in Loops |-> "spawned"]
  /\ UNCHANGED <<iteration, cycleVars, recordVars, eventVars, shutdownVars>>

\* The task is polled for the first time: subscribe, then select.
Subscribe(l) ==
  /\ loop[l] = "spawned" /\ loop' = [loop EXCEPT ![l] = "waiting"]
  /\ UNCHANGED <<iteration, cycleVars, recordVars, eventVars, shutdownVars>>

Subscribed == {l \in Loops : loop[l] \in {"waiting", "working", "recorded"}}

\* broadcast::send: a message without receivers is lost; a full ring forgets
\* its oldest, which the receiver learns at its next call.
SendSyncEvent(e) ==
  /\ eventsSent < MaxEvents /\ "fast" \in Subscribed
  /\ eventsSent' = eventsSent + 1
  /\ IF Len(ring) < RingCapacity
     THEN ring' = Append(ring, e) /\ UNCHANGED dropped
     ELSE ring' = Append(Tail(ring), e) /\ dropped' = dropped + 1
  /\ UNCHANGED <<loop, iteration, cycleVars, recordVars, lagCount, taken, invalidTaken,
                 shutdownVars>>

-----------------------------------------------------------------------------
(* What the cycles call, in order.                                         *)

Episode == IF Knowledge THEN <<"spawn_episode">> ELSE <<>>

\* decide_fast_actions: an invalid event leads to none, which is a success.
FastActions(e) ==
  CASE e = "invalid" -> <<>>
    [] e = "valid"   -> <<"profile", "summary">>
    [] e = "noisy"   -> <<"profile", "summary", "anomaly">>

\* execute_fast_cycle: the errors of an invalid event are sent to its device.
FastPlan(e) == (IF e = "invalid" THEN <<"send_error">> ELSE <<>>) \o FastActions(e) \o Episode

MediumPlan == <<"aggregates", "signals", "anomaly_count", "soko_pulse">>

\* execute_slow_cycle: the drift report decides about the first episode; the
\* knowledge is maintained whether the report could be stored or not.
Maintenance(drift) == drift \o <<"consolidate", "decay", "prune">>
SlowPlans ==
  {<<"report">> \o (IF Knowledge THEN Maintenance(drift) ELSE <<>>) \o <<"count_report">> :
     drift \in {<<>>, <<"drift_episode">>}}

\* aggregate_federated_gradients: batches with samples and gradients in them
\* make a model, which is stored.
Models == {<<>>, <<"store_model">>}
DeepPlans ==
  {model \o <<"indicators", "calibrate">> \o Episode \o <<"count_round">> : model \in Models}

Plans(l) ==
  CASE l = "medium" -> {MediumPlan} [] l = "slow" -> SlowPlans [] l = "deep" -> DeepPlans

CyclesBegun == LET n[S \in SUBSET Loops] ==
                     IF S = {} THEN 0
                     ELSE LET l == CHOOSE x \in S : TRUE IN iteration[l] + n[S \ {l}]
               IN n[Loops]

Begin(l, plan, errors) ==
  /\ loop[l] = "waiting" /\ CyclesBegun < MaxCycles
  /\ loop' = [loop EXCEPT ![l] = "working"]
  /\ iteration' = [iteration EXCEPT ![l] = @ + 1]
  /\ inCycle' = [inCycle EXCEPT ![l] = [left |-> plan, failed |-> {}, errors |-> errors]]
  /\ UNCHANGED <<done, episodes>>

\* A tick of a loop.
LoopTick(l) ==
  /\ l \in Ticking
  /\ \E plan \in Plans(l) : Begin(l, plan, 0)
  /\ UNCHANGED <<recordVars, eventVars, shutdownVars>>

\* try_recv, when it is Ok. error_count is that of the validation.
SkipLag == FALSE                                  \* fault: the lag is not looked at
LagFirst == dropped > 0
FastTick ==
  /\ ~LagFirst /\ ring # <<>>
  /\ LET e == Head(ring)
         bad == IF e = "invalid" THEN 1 ELSE 0
     IN Begin("fast", FastPlan(e), bad) /\ invalidTaken' = invalidTaken + bad
  /\ ring' = Tail(ring) /\ taken' = taken + 1
  /\ UNCHANGED <<recordVars, lagCount, dropped, eventsSent, shutdownVars>>

\* Lagged(n): counted, no event is taken at this tick.
FastLagged ==
  /\ loop["fast"] = "waiting" /\ LagFirst
  /\ lagCount' = lagCount + dropped /\ dropped' = 0
  /\ UNCHANGED <<loop, iteration, cycleVars, recordVars, ring, eventsSent, taken, invalidTaken,
                 shutdownVars>>

\* The medium cycle returns early without its observations, of which it awaits both.
Blind(call, failed) == call = "signals" /\ failed \cap {"aggregates", "signals"} # {}

\* What is left of a cycle when its next call has returned.
AfterCall(cycle, ok) ==
  LET call == Head(cycle.left)
      failed == cycle.failed \cup (IF ok THEN {} ELSE {call} \cap Needed)
  IN [left |-> IF Blind(call, failed) THEN <<>> ELSE Tail(cycle.left), failed |-> failed,
      errors |-> IF Blind(call, failed) THEN 1 ELSE cycle.errors]

\* A call of a cycle returns.
CallReturns(l) ==
  /\ loop[l] = "working" /\ inCycle[l].left # <<>>
  /\ \E ok \in BOOLEAN :
       LET call == Head(inCycle[l].left)
       IN /\ call \in Local => ok
          /\ inCycle' = [inCycle EXCEPT ![l] = AfterCall(@, ok)]
          /\ done' = IF ok /\ call \in Counted THEN [done EXCEPT ![call] = @ + 1] ELSE done
          /\ episodes' = IF call = "spawn_episode" THEN episodes + 1 ELSE episodes
  /\ UNCHANGED <<loop, iteration, recordVars, eventVars, shutdownVars>>

\* A spawned record_learning_event ends, whatever has become of its loop; a
\* failure is logged.
EpisodeEnds ==
  /\ episodes > 0 /\ episodes' = episodes - 1
  /\ UNCHANGED <<loop, iteration, inCycle, done, recordVars, eventVars, shutdownVars>>

DropNewestCycle(h, c) == IF Len(h) >= MaxHistory THEN h ELSE Append(h, c)      \* fault
Remembered(h, c) == Append(IF Len(h) >= MaxHistory THEN Tail(h) ELSE h, c)

\* The action_result of a cycle: calls it does not need may have failed.
CycleOf(l) == [loop |-> l, iteration |-> iteration[l], errors |-> inCycle[l].errors,
               success |-> inCycle[l].failed = {}]

\* record_cycle, then the metrics under a lock of their own.
RecordCycle(l) ==
  /\ loop[l] = "working" /\ inCycle[l].left = <<>>
  /\ loop' = [loop EXCEPT ![l] = "recorded"]
  /\ history' = Remembered(history, CycleOf(l))
  /\ inCycle' = [inCycle EXCEPT ![l] = NoCycle]
  /\ UNCHANGED <<iteration, done, episodes, loopMetrics, eventVars, shutdownVars>>
CountIteration(l) ==
  /\ loop[l] = "recorded" /\ loop' = [loop EXCEPT ![l] = "waiting"]
  /\ loopMetrics' = [loopMetrics EXCEPT ![l] = @ + 1]
  /\ UNCHANGED <<iteration, cycleVars, history, eventVars, shutdownVars>>

-----------------------------------------------------------------------------
\* shutdown: the message reaches the loops that have subscribed by now.
SendShutdown ==
  /\ closing = "no" /\ loop["fast"] # "unborn"
  /\ closing' = "joining"
  /\ shutdownSeen' = Subscribed
  /\ missedShutdown' = Loops \ Subscribed
  /\ UNCHANGED <<loop, iteration, cycleVars, recordVars, eventVars>>

\* The select of a loop takes its shutdown branch; what the ring holds is lost.
Hears(l) == l \in shutdownSeen
StopLoop(l) ==
  /\ loop[l] = "waiting" /\ Hears(l)
  /\ loop' = [loop EXCEPT ![l] = "stopped"]
  /\ UNCHANGED <<iteration, cycleVars, recordVars, eventVars, shutdownVars>>

\* Every handle has been awaited, one after the other.
Joined ==
  /\ closing = "joining" /\ \A l \in Loops : loop[l] = "stopped"
  /\ closing' = "done"
  /\ UNCHANGED <<loop, iteration, cycleVars, recordVars, eventVars, shutdownSeen,
                 missedShutdown>>

OodaNext ==
  \/ Start \/ SendShutdown \/ Joined \/ FastTick \/ FastLagged \/ EpisodeEnds
  \/ \E e \in Events : SendSyncEvent(e)
  \/ \E l \in Loops : \/ Subscribe(l) \/ LoopTick(l) \/ CallReturns(l)
                      \/ RecordCycle(l) \/ CountIteration(l) \/ StopLoop(l)

OodaSpec == OodaInit /\ [][OodaNext]_oodaVars

\* The loops lib.rs starts, a channel that holds an event, a history of a cycle.
OodaAssumption ==
  /\ Ticking \subseteq {"medium", "slow", "deep"} /\ Knowledge \in BOOLEAN
  /\ RingCapacity \in Nat \ {0} /\ MaxHistory \in Nat \ {0}

\* tokio polls every task, and its calls return. select! tries its branches in
\* random order, so a loop that hears the shutdown again and again when it waits
\* takes that branch.
Polled(l) == Subscribe(l) \/ CallReturns(l) \/ RecordCycle(l) \/ CountIteration(l)

-----------------------------------------------------------------------------
OodaTypeOK ==
  /\ loop \in [Loops -> {"unborn", "spawned", "waiting", "working", "recorded", "stopped"}]
  /\ iteration \in [Loops -> Nat] /\ loopMetrics \in [Loops -> Nat]
  /\ inCycle \in [Loops -> [left : Seq(Calls), failed : SUBSET Needed, errors : {0, 1}]]
  /\ done \in [Counted -> Nat] /\ episodes \in Nat
  /\ ring \in Seq(Events) /\ Len(ring) <= RingCapacity
  /\ history \in Seq([loop : Loops, iteration : Nat, errors : {0, 1}, success : BOOLEAN])
  /\ lagCount \in Nat /\ dropped \in Nat
  /\ eventsSent \in Nat /\ taken \in Nat /\ invalidTaken \in Nat
  /\ shutdownSeen \subseteq Loops /\ closing \in {"no", "joining", "done"}

\* Every event sent since the fast loop subscribed was taken, is in the ring, or
\* is counted as lag; every invalid one that was taken has been told about, or is
\* the one at hand.
AboutToTell == inCycle["fast"].left # <<>> /\ Head(inCycle["fast"].left) = "send_error"
EventsAccounted ==
  /\ eventsSent = taken + Len(ring) + lagCount + dropped
  /\ taken = iteration["fast"]
  /\ invalidTaken = done["send_error"] + (IF AboutToTell THEN 1 ELSE 0)

\* The history holds the latest cycles, those of each loop in sequence and
\* without a gap up to the last one it recorded; the metrics follow by one.
Recorded(l) == iteration[l] - (IF loop[l] = "working" THEN 1 ELSE 0)
HistoryIsRecent ==
  /\ Len(history) <= MaxHistory
  /\ \A l \in Loops : loopMetrics[l] = Recorded(l) - (IF loop[l] = "recorded" THEN 1 ELSE 0)
  /\ \A i \in 1..Len(history) :
       LET l == history[i].loop
           later == {j \in i + 1..Len(history) : history[j].loop = l}
       IN IF later = {} THEN history[i].iteration = Recorded(l)
          ELSE \E j \in later : /\ history[j].iteration = history[i].iteration + 1
                                /\ \A k \in later : j <= k

\* What the loops lose is known, and what they keep is the latest.
CyclesAccounted == EventsAccounted /\ HistoryIsRecent

\* A shutdown that all loops had subscribed to before it was sent ends.
ShutdownEnds == (closing = "joining" /\ missedShutdown = {}) ~> (closing = "done")

\* lib.rs:98: "Gracefully shut down all loops."
ShutdownAlwaysEnds == closing = "joining" ~> closing = "done"
=============================================================================
