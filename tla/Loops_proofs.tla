---------------------------- MODULE Loops_proofs ----------------------------
(***************************************************************************)
(* Proofs about the parts of the run over loops/: the OODA loops, for any   *)
(* of them beside the fast one, with knowledge to maintain or without, and  *)
(* any channel and history; the feedback between the stages of the          *)
(* pipeline, for any stages and capacity; the circuit breaker, for any      *)
(* callers and thresholds.                                                  *)
(***************************************************************************)
EXTENDS MC_Loops, FiniteSetTheorems, SequenceTheorems, WellFoundedInduction, TLAPS

(***************************************************************************)
(* What the loops lose. Only the fast loop tells of errors, first of all    *)
(* in its cycle: once that call has returned none is left to be made.      *)
(***************************************************************************)
Quiet == Calls \ {"send_error"}
Whereabouts == {"unborn", "spawned", "waiting", "working", "recorded", "stopped"}
Cycle == [loop : Loops, iteration : Nat, errors : {0, 1}, success : BOOLEAN]
Progress == [left : Seq(Calls), failed : SUBSET Needed, errors : {0, 1}]

\* Calls of which only the first may tell of errors, and that only in the fast loop.
TellsFirst(l, left) ==
  left # <<>> => Tail(left) \in Seq(Quiet) /\ (l # "fast" => Head(left) # "send_error")

CyclesQuiet ==
  \A l \in Loops : /\ loop[l] # "working" => inCycle[l] = NoCycle
                   /\ TellsFirst(l, inCycle[l].left)

EventsInv == OodaTypeOK /\ CyclesQuiet /\ EventsAccounted

\* The calls that tell of no errors.
LEMMA QuietNames ==
  /\ Needed \subseteq Quiet /\ Optional \subseteq Quiet
  /\ {"spawn_episode", "count_report", "count_round"} \subseteq Quiet
  /\ "send_error" \in Calls /\ "send_error" \notin Quiet /\ Quiet \subseteq Calls
  /\ {"profile", "summary", "aggregates", "signals", "soko_pulse", "report"} \subseteq Quiet
  /\ {"anomaly", "anomaly_count", "drift_episode", "consolidate", "decay", "prune"} \subseteq Quiet
  /\ {"store_model", "indicators", "calibrate"} \subseteq Quiet
BY DEF Quiet, Calls, Needed, Optional, Local

\* The plans of the cycles, call by call.
LEMMA PlansTyped ==
  ASSUME OodaAssumption
  PROVE  /\ \A l \in Ticking : \A plan \in Plans(l) : plan \in Seq(Quiet)
         /\ Episode \in Seq(Quiet) /\ \A e \in Events : FastActions(e) \in Seq(Quiet)
<1>0. <<>> \in Seq(Quiet)
  OBVIOUS
<1>1. Episode \in Seq(Quiet)
  <2>1. <<"spawn_episode">> \in Seq(Quiet)
    BY QuietNames
  <2> QED BY <1>0, <2>1 DEF Episode
<1>2. MediumPlan \in Seq(Quiet)
  BY QuietNames DEF MediumPlan
<1>3. \A plan \in SlowPlans : plan \in Seq(Quiet)
  <2>1. ASSUME NEW drift \in {<<>>, <<"drift_episode">>}
        PROVE  <<"report">> \o (IF Knowledge THEN Maintenance(drift) ELSE <<>>)
                 \o <<"count_report">> \in Seq(Quiet)
    <3>1. drift \in Seq(Quiet)
      <4>1. <<"drift_episode">> \in Seq(Quiet)
        BY QuietNames
      <4> QED BY <1>0, <4>1, Zenon
    <3>2. <<"consolidate", "decay", "prune">> \in Seq(Quiet)
      BY QuietNames
    <3>3. Maintenance(drift) \in Seq(Quiet)
      BY <3>1, <3>2 DEF Maintenance
    <3>4. <<"report">> \in Seq(Quiet) /\ <<"count_report">> \in Seq(Quiet)
      BY QuietNames
    <3>5. (IF Knowledge THEN Maintenance(drift) ELSE <<>>) \in Seq(Quiet)
      BY <1>0, <3>3
    <3> HIDE DEF Quiet
    <3> QED BY <3>4, <3>5
  <2> QED BY <2>1 DEF SlowPlans
<1>4. \A plan \in DeepPlans : plan \in Seq(Quiet)
  <2>1. ASSUME NEW model \in Models
        PROVE  model \o <<"indicators", "calibrate">> \o Episode \o <<"count_round">> \in Seq(Quiet)
    <3>1. model \in Seq(Quiet)
      <4>1. <<"store_model">> \in Seq(Quiet)
        BY QuietNames
      <4> QED BY <1>0, <4>1, Zenon DEF Models
    <3>2. <<"indicators", "calibrate">> \in Seq(Quiet) /\ <<"count_round">> \in Seq(Quiet)
      BY QuietNames
    <3> QED BY <1>1, <3>1, <3>2
  <2> QED BY <2>1 DEF DeepPlans
<1>5. \A e \in Events : FastActions(e) \in Seq(Quiet)
  <2>1. <<"profile", "summary">> \in Seq(Quiet) /\ <<"profile", "summary", "anomaly">> \in Seq(Quiet)
    BY QuietNames
  <2> QED BY <1>0, <2>1 DEF FastActions, Events
<1>6. \A l \in Ticking : \A plan \in Plans(l) : plan \in Seq(Quiet)
  BY <1>2, <1>3, <1>4 DEF Plans, OodaAssumption
<1> QED BY <1>1, <1>5, <1>6

\* Quiet calls tell of no errors, and are calls.
LEMMA QuietCalls ==
  ASSUME NEW plan \in Seq(Quiet), NEW l
  PROVE  /\ plan \in Seq(Calls) /\ TellsFirst(l, plan)
         /\ plan # <<>> => Head(plan) # "send_error"
<1>1. plan # <<>> => Head(plan) \in Quiet /\ Tail(plan) \in Seq(Quiet)
  OBVIOUS
<1>2. plan \in Seq(Calls)
  BY DEF Quiet
<1> QED BY <1>1, <1>2 DEF TellsFirst, Quiet

\* A fast cycle begins with telling of the errors of an event that is not valid.
LEMMA FastPlanTyped ==
  ASSUME OodaAssumption, NEW e \in Events
  PROVE  /\ FastPlan(e) \in Seq(Calls) /\ TellsFirst("fast", FastPlan(e))
         /\ (FastPlan(e) # <<>> /\ Head(FastPlan(e)) = "send_error") <=> e = "invalid"
<1>1. Episode \in Seq(Quiet) /\ FastActions(e) \in Seq(Quiet)
  BY PlansTyped
<1>2. CASE e = "invalid"
  <2>1. FastPlan(e) = <<"send_error">> \o <<>> \o Episode
    BY <1>2 DEF FastPlan, FastActions
  <2>2. Episode \in Seq(Calls) /\ "send_error" \in Calls
    BY <1>1, QuietNames
  <2>3. /\ FastPlan(e) \in Seq(Calls) /\ FastPlan(e) # <<>>
        /\ Head(FastPlan(e)) = "send_error" /\ Tail(FastPlan(e)) = Episode
    BY <2>1, <2>2
  <2> QED BY <1>1, <1>2, <2>3 DEF TellsFirst
<1>3. CASE e # "invalid"
  <2>1. FastPlan(e) = <<>> \o FastActions(e) \o Episode
    BY <1>3 DEF FastPlan
  <2>2. FastPlan(e) \in Seq(Quiet)
    BY <1>1, <2>1
  <2> QED BY <1>3, <2>2, QuietCalls
<1> QED BY <1>2, <1>3

\* A cycle begins: of a loop that ticks, or of the fast one with an event.
LEMMA BeginInv ==
  ASSUME OodaAssumption, EventsInv, NEW l \in Loops, NEW plan \in Seq(Calls),
         TellsFirst(l, plan), NEW errors \in {0, 1}, Begin(l, plan, errors),
         UNCHANGED <<recordVars, shutdownVars>>
  PROVE  /\ CyclesQuiet' /\ loop[l] = "waiting" /\ inCycle[l] = NoCycle
         /\ loop' \in [Loops -> Whereabouts] /\ iteration' \in [Loops -> Nat]
         /\ inCycle' \in [Loops -> Progress] /\ UNCHANGED <<done, episodes>>
         /\ iteration' = [iteration EXCEPT ![l] = @ + 1]
         /\ inCycle' = [inCycle EXCEPT ![l] = [left |-> plan, failed |-> {}, errors |-> errors]]
<1> DEFINE c == [left |-> plan, failed |-> {}, errors |-> errors]
<1>1. /\ loop \in [Loops -> Whereabouts] /\ iteration \in [Loops -> Nat]
      /\ inCycle \in [Loops -> Progress] /\ CyclesQuiet
  BY DEF EventsInv, OodaTypeOK, Whereabouts, Progress
<1>2. /\ loop[l] = "waiting" /\ loop' = [loop EXCEPT ![l] = "working"]
      /\ iteration' = [iteration EXCEPT ![l] = @ + 1] /\ inCycle' = [inCycle EXCEPT ![l] = c]
      /\ UNCHANGED <<done, episodes>>
  BY DEF Begin
<1>3. c \in Progress /\ c.left = plan
  BY DEF Progress
<1> HIDE DEF c
<1>4. loop' \in [Loops -> Whereabouts] /\ iteration' \in [Loops -> Nat] /\ inCycle' \in [Loops -> Progress]
  BY <1>1, <1>2, <1>3 DEF Whereabouts
<1>5. inCycle[l] = NoCycle
  BY <1>1, <1>2 DEF CyclesQuiet
<1>6. CyclesQuiet'
  <2> SUFFICES ASSUME NEW m \in Loops
               PROVE  /\ loop'[m] # "working" => inCycle'[m] = NoCycle
                      /\ TellsFirst(m, inCycle'[m].left)
    BY DEF CyclesQuiet
  <2>1. CASE m = l
    BY <1>1, <1>2, <1>3, <2>1
  <2>2. CASE m # l
    BY <1>1, <1>2, <2>2 DEF CyclesQuiet
  <2> QED BY <2>1, <2>2
<1> QED BY <1>2, <1>4, <1>5, <1>6 DEF c

\* A loop that ticks begins a cycle.
LEMMA TickInv ==
  ASSUME OodaAssumption, EventsInv, NEW l \in Loops, LoopTick(l) PROVE EventsInv'
<1>1. PICK plan \in Plans(l) : Begin(l, plan, 0)
  BY DEF LoopTick
<1>2. l \in Ticking /\ l # "fast" /\ UNCHANGED <<recordVars, eventVars, shutdownVars>>
  BY DEF LoopTick, OodaAssumption
<1>3. plan \in Seq(Calls) /\ TellsFirst(l, plan)
  BY <1>2, PlansTyped, QuietCalls
<1>4. /\ CyclesQuiet' /\ loop' \in [Loops -> Whereabouts] /\ iteration' \in [Loops -> Nat]
      /\ inCycle' \in [Loops -> Progress] /\ UNCHANGED <<done, episodes>>
      /\ iteration' = [iteration EXCEPT ![l] = @ + 1]
      /\ inCycle' = [inCycle EXCEPT ![l] = [left |-> plan, failed |-> {}, errors |-> 0]]
  BY <1>1, <1>2, <1>3, BeginInv
<1>5. inCycle'["fast"] = inCycle["fast"] /\ iteration'["fast"] = iteration["fast"]
  BY <1>2, <1>4 DEF EventsInv, OodaTypeOK
<1>6. EventsAccounted'
  BY <1>2, <1>4, <1>5 DEF EventsInv, EventsAccounted, AboutToTell, eventVars
<1>7. OodaTypeOK'
  BY <1>2, <1>4 DEF EventsInv, OodaTypeOK, Whereabouts, Progress, recordVars, eventVars, shutdownVars
<1> QED BY <1>4, <1>6, <1>7 DEF EventsInv

\* The fast loop takes an event, and has it to tell of if it is not valid.
LEMMA FastTickInv == ASSUME OodaAssumption, EventsInv, FastTick PROVE EventsInv'
<1> DEFINE e == Head(ring)
           bad == IF e = "invalid" THEN 1 ELSE 0
<1>1. /\ ring # <<>> /\ Begin("fast", FastPlan(e), bad) /\ invalidTaken' = invalidTaken + bad
      /\ ring' = Tail(ring) /\ taken' = taken + 1
      /\ UNCHANGED <<recordVars, lagCount, dropped, eventsSent, shutdownVars>>
  BY DEF FastTick
<1>2. ring \in Seq(Events) /\ Len(ring) <= RingCapacity
  BY DEF EventsInv, OodaTypeOK
<1>3. e \in Events /\ Tail(ring) \in Seq(Events) /\ Len(Tail(ring)) = Len(ring) - 1
  BY <1>1, <1>2
<1>4. bad \in {0, 1} /\ "fast" \in Loops
  BY DEF Loops
<1> HIDE DEF e
<1>5. /\ FastPlan(e) \in Seq(Calls) /\ TellsFirst("fast", FastPlan(e))
      /\ (FastPlan(e) # <<>> /\ Head(FastPlan(e)) = "send_error") <=> e = "invalid"
  BY <1>3, FastPlanTyped
<1>6. /\ CyclesQuiet' /\ loop' \in [Loops -> Whereabouts] /\ iteration' \in [Loops -> Nat]
      /\ inCycle["fast"] = NoCycle
      /\ inCycle' \in [Loops -> Progress] /\ UNCHANGED <<done, episodes>>
      /\ iteration' = [iteration EXCEPT !["fast"] = @ + 1]
      /\ inCycle' = [inCycle EXCEPT !["fast"] = [left |-> FastPlan(e), failed |-> {},
                                                 errors |-> bad]]
  BY <1>1, <1>4, <1>5, BeginInv
<1>7. /\ iteration'["fast"] = iteration["fast"] + 1 /\ inCycle'["fast"].left = FastPlan(e)
      /\ inCycle["fast"].left = <<>>
  BY <1>4, <1>6 DEF EventsInv, OodaTypeOK, NoCycle
<1>8. EventsAccounted'
  <2>1. eventsSent' = taken' + Len(ring') + lagCount' + dropped'
    <3>1. /\ eventsSent = taken + Len(ring) + lagCount + dropped
          /\ taken \in Nat /\ Len(ring) \in Nat /\ lagCount \in Nat /\ dropped \in Nat
      BY <1>2 DEF EventsInv, EventsAccounted, OodaTypeOK
    <3>2. /\ eventsSent' = eventsSent /\ lagCount' = lagCount /\ dropped' = dropped
          /\ taken' = taken + 1 /\ Len(ring') = Len(ring) - 1
      BY <1>1, <1>3
    <3> QED BY <3>1, <3>2
  <2>2. taken' = iteration'["fast"]
    BY <1>1, <1>7 DEF EventsInv, EventsAccounted
  <2>3. invalidTaken' = done'["send_error"] + (IF AboutToTell' THEN 1 ELSE 0)
    <3>1. ~AboutToTell /\ (AboutToTell' <=> e = "invalid")
      BY <1>5, <1>7 DEF AboutToTell
    <3>2. invalidTaken = done["send_error"] /\ done["send_error"] \in Nat
      BY <3>1 DEF EventsInv, EventsAccounted, OodaTypeOK, Counted
    <3> QED BY <1>1, <1>6, <3>1, <3>2
  <2> QED BY <2>1, <2>2, <2>3 DEF EventsAccounted
<1>9. OodaTypeOK'
  <2>1. OodaTypeOK
    BY DEF EventsInv
  <2>2. ring' \in Seq(Events) /\ Len(ring') <= RingCapacity
    BY <1>1, <1>2, <1>3 DEF OodaAssumption
  <2>3. taken' \in Nat /\ invalidTaken' \in Nat
    BY <1>1, <1>4, <2>1 DEF OodaTypeOK
  <2> HIDE DEF bad
  <2> QED BY <1>1, <1>6, <2>1, <2>2, <2>3
          DEF OodaTypeOK, Whereabouts, Progress, recordVars, shutdownVars
<1> QED BY <1>6, <1>8, <1>9 DEF EventsInv

\* An event is sent: the ring grows, or loses its oldest.
LEMMA SendSyncEventInv ==
  ASSUME OodaAssumption, EventsInv, NEW e \in Events, SendSyncEvent(e) PROVE EventsInv'
<1>1. ring \in Seq(Events) /\ Len(ring) <= RingCapacity /\ RingCapacity \in Nat \ {0}
      /\ Len(ring) \in Nat
  BY DEF EventsInv, OodaTypeOK, OodaAssumption
<1>2. /\ ring' \in Seq(Events) /\ Len(ring') <= RingCapacity /\ dropped' \in Nat
      /\ Len(ring') + dropped' = Len(ring) + dropped + 1
  <2>1. dropped \in Nat
    BY DEF EventsInv, OodaTypeOK
  <2>2. CASE Len(ring) < RingCapacity
    BY <1>1, <2>1, <2>2 DEF SendSyncEvent
  <2>3. CASE ~(Len(ring) < RingCapacity)
    <3>1. ring' = Append(Tail(ring), e) /\ dropped' = dropped + 1 /\ ring # <<>>
      BY <1>1, <2>3 DEF SendSyncEvent
    <3>2. Tail(ring) \in Seq(Events) /\ Len(Tail(ring)) = Len(ring) - 1
      BY <1>1, <3>1
    <3> QED BY <1>1, <2>1, <3>1, <3>2
  <2> QED BY <2>2, <2>3
<1>3. /\ eventsSent' = eventsSent + 1
      /\ UNCHANGED <<loop, iteration, cycleVars, recordVars, lagCount, taken, invalidTaken,
                     shutdownVars>>
  BY DEF SendSyncEvent
<1>4. EventsAccounted'
  <2>1. eventsSent' = taken' + Len(ring') + lagCount' + dropped'
    <3>1. /\ eventsSent = taken + Len(ring) + lagCount + dropped
          /\ taken \in Nat /\ Len(ring) \in Nat /\ lagCount \in Nat /\ dropped \in Nat
      BY <1>1 DEF EventsInv, EventsAccounted, OodaTypeOK
    <3>2. Len(ring') \in Nat
      BY <1>2
    <3> QED BY <1>2, <1>3, <3>1, <3>2
  <2> QED BY <1>3, <2>1 DEF EventsInv, EventsAccounted, AboutToTell, cycleVars
<1>5. OodaTypeOK'
  BY <1>2, <1>3 DEF EventsInv, OodaTypeOK, cycleVars, recordVars, shutdownVars
<1>6. CyclesQuiet'
  BY <1>3 DEF EventsInv, CyclesQuiet, cycleVars
<1> QED BY <1>4, <1>5, <1>6 DEF EventsInv

\* What is left of a cycle is the rest of its plan, or nothing.
LEMMA AfterCallTyped ==
  ASSUME NEW cycle \in Progress, cycle.left # <<>>, Tail(cycle.left) \in Seq(Quiet),
         NEW ok \in BOOLEAN
  PROVE  AfterCall(cycle, ok) \in Progress /\ AfterCall(cycle, ok).left \in Seq(Quiet)
<1> DEFINE call == Head(cycle.left)
           failed == cycle.failed \cup (IF ok THEN {} ELSE {call} \cap Needed)
           rest == IF Blind(call, failed) THEN <<>> ELSE Tail(cycle.left)
           errors == IF Blind(call, failed) THEN 1 ELSE cycle.errors
<1>1. AfterCall(cycle, ok) = [left |-> rest, failed |-> failed, errors |-> errors]
  BY DEF AfterCall
<1>2. failed \in SUBSET Needed /\ errors \in {0, 1}
  BY DEF Progress
<1>3. rest \in Seq(Quiet)
  OBVIOUS
<1> HIDE DEF rest, failed, errors
<1>4. rest \in Seq(Calls)
  BY <1>3, QuietCalls
<1> QED BY <1>1, <1>2, <1>3, <1>4 DEF Progress

\* A call returns: what is told of is counted as the call is taken off the plan.
LEMMA CallReturnsInv ==
  ASSUME EventsInv, NEW l \in Loops, CallReturns(l) PROVE EventsInv'
<1> DEFINE cycle == inCycle[l]
<1>0. PICK ok \in BOOLEAN :
        /\ Head(inCycle[l].left) \in Local => ok
        /\ inCycle' = [inCycle EXCEPT ![l] = AfterCall(@, ok)]
        /\ done' = IF ok /\ Head(inCycle[l].left) \in Counted
                   THEN [done EXCEPT ![Head(inCycle[l].left)] = @ + 1] ELSE done
        /\ episodes' = IF Head(inCycle[l].left) = "spawn_episode" THEN episodes + 1 ELSE episodes
  BY DEF CallReturns
<1>1. /\ loop[l] = "working" /\ cycle.left # <<>> /\ loop' = loop
      /\ UNCHANGED <<iteration, recordVars, eventVars, shutdownVars>>
  BY DEF CallReturns
<1>2. /\ inCycle \in [Loops -> Progress] /\ cycle \in Progress /\ TellsFirst(l, cycle.left)
      /\ done \in [Counted -> Nat]
  BY DEF EventsInv, OodaTypeOK, CyclesQuiet, Progress
<1>3. PICK call \in Calls : call = Head(cycle.left)
  BY <1>1, <1>2 DEF Progress
<1>4. /\ Tail(cycle.left) \in Seq(Quiet) /\ (l # "fast" => call # "send_error")
  BY <1>1, <1>2, <1>3 DEF TellsFirst
<1>5. PICK after \in Progress : after = AfterCall(cycle, ok) /\ after.left \in Seq(Quiet)
  BY <1>1, <1>2, <1>4, AfterCallTyped
<1>6. /\ call \in Local => ok
      /\ inCycle' = [inCycle EXCEPT ![l] = after]
  BY <1>0, <1>3, <1>5
<1>7. done' \in [Counted -> Nat] /\ done'["send_error"] =
        done["send_error"] + (IF call = "send_error" THEN 1 ELSE 0)
  <2>0. "send_error" \in Counted /\ "send_error" \in Local
    BY DEF Counted, Local
  <2>1. CASE ok /\ call \in Counted
    <3>1. done' = [done EXCEPT ![call] = @ + 1]
      BY <1>0, <1>3, <2>1
    <3> HIDE DEF Counted
    <3> QED BY <1>2, <2>0, <2>1, <3>1
  <2>2. CASE ~(ok /\ call \in Counted)
    <3>1. done' = done /\ call # "send_error"
      BY <1>0, <1>3, <1>6, <2>0, <2>2
    <3> QED BY <1>2, <2>0, <3>1
  <2> QED BY <2>1, <2>2
<1>8. episodes' \in Nat
  <2>1. episodes' = episodes \/ episodes' = episodes + 1
    BY <1>0
  <2> QED BY <2>1 DEF EventsInv, OodaTypeOK
<1> HIDE DEF cycle
<1>9. CyclesQuiet'
  <2> SUFFICES ASSUME NEW m \in Loops
               PROVE  /\ loop'[m] # "working" => inCycle'[m] = NoCycle
                      /\ TellsFirst(m, inCycle'[m].left)
    BY DEF CyclesQuiet
  <2>1. CASE m = l
    <3>1. inCycle'[l] = after /\ TellsFirst(l, after.left)
      BY <1>2, <1>5, <1>6, QuietCalls
    <3> QED BY <1>1, <2>1, <3>1
  <2>2. CASE m # l
    BY <1>1, <1>2, <1>6, <2>2 DEF EventsInv, CyclesQuiet
  <2> QED BY <2>1, <2>2
<1>10. EventsAccounted'
  <2>1. eventsSent' = taken' + Len(ring') + lagCount' + dropped' /\ taken' = iteration'["fast"]
    BY <1>1 DEF EventsInv, EventsAccounted, eventVars
  <2>2. /\ invalidTaken' = invalidTaken /\ done["send_error"] \in Nat
        /\ invalidTaken = done["send_error"] + (IF AboutToTell THEN 1 ELSE 0)
    BY <1>1, <1>2 DEF EventsInv, EventsAccounted, eventVars, Counted
  <2>3. CASE l = "fast"
    <3>1. inCycle'["fast"] = after /\ inCycle["fast"] = cycle
      BY <1>2, <1>6, <2>3 DEF cycle
    <3>2. ~AboutToTell'
      <4>1. after.left # <<>> => Head(after.left) # "send_error"
        BY <1>5, QuietCalls
      <4> QED BY <3>1, <4>1 DEF AboutToTell
    <3>3. AboutToTell <=> call = "send_error"
      BY <1>1, <1>3, <3>1 DEF AboutToTell
    <3> QED BY <1>7, <2>1, <2>2, <3>2, <3>3 DEF EventsAccounted
  <2>4. CASE l # "fast"
    <3>1. inCycle'["fast"] = inCycle["fast"]
      BY <1>2, <1>6, <2>4 DEF Loops
    <3>2. done'["send_error"] = done["send_error"]
      BY <1>4, <1>7, <2>2, <2>4
    <3> QED BY <2>1, <2>2, <3>1, <3>2 DEF EventsAccounted, AboutToTell
  <2> QED BY <2>3, <2>4
<1>11. OodaTypeOK'
  <2>1. inCycle' \in [Loops -> Progress]
    BY <1>2, <1>6
  <2> QED BY <1>1, <1>7, <1>8, <2>1
          DEF EventsInv, OodaTypeOK, Progress, recordVars, eventVars, shutdownVars
<1> QED BY <1>9, <1>10, <1>11 DEF EventsInv

\* A cycle is recorded: its calls are over.
LEMMA RecordCycleInv ==
  ASSUME EventsInv, NEW l \in Loops, RecordCycle(l)
  PROVE  /\ CyclesQuiet' /\ EventsAccounted'
         /\ CycleOf(l) \in Cycle /\ CycleOf(l).loop = l /\ CycleOf(l).iteration = iteration[l]
         /\ loop' \in [Loops -> Whereabouts] /\ inCycle' \in [Loops -> Progress]
<1>1. /\ loop[l] = "working" /\ inCycle[l].left = <<>> /\ loop' = [loop EXCEPT ![l] = "recorded"]
      /\ inCycle' = [inCycle EXCEPT ![l] = NoCycle]
      /\ UNCHANGED <<iteration, done, episodes, loopMetrics, eventVars, shutdownVars>>
  BY DEF RecordCycle
<1>2. /\ loop \in [Loops -> Whereabouts] /\ inCycle \in [Loops -> Progress] /\ iteration \in [Loops -> Nat]
  BY DEF EventsInv, OodaTypeOK, Whereabouts, Progress
<1>3. NoCycle \in Progress /\ NoCycle.left = <<>>
  BY DEF NoCycle, Progress
<1>4. loop' \in [Loops -> Whereabouts] /\ inCycle' \in [Loops -> Progress]
  BY <1>1, <1>2, <1>3 DEF Whereabouts
<1>5. CycleOf(l) \in Cycle /\ CycleOf(l).loop = l /\ CycleOf(l).iteration = iteration[l]
  <2>1. inCycle[l].errors \in {0, 1} /\ iteration[l] \in Nat
    BY <1>2 DEF Progress
  <2> QED BY <2>1 DEF CycleOf, Cycle
<1>6. CyclesQuiet'
  <2> SUFFICES ASSUME NEW m \in Loops
               PROVE  /\ loop'[m] # "working" => inCycle'[m] = NoCycle
                      /\ TellsFirst(m, inCycle'[m].left)
    BY DEF CyclesQuiet
  <2>1. CASE m = l
    BY <1>1, <1>2, <1>3, <2>1 DEF TellsFirst
  <2>2. CASE m # l
    BY <1>1, <1>2, <2>2 DEF EventsInv, CyclesQuiet
  <2> QED BY <2>1, <2>2
<1>7. EventsAccounted'
  <2>1. inCycle'["fast"].left = inCycle["fast"].left
    BY <1>1, <1>2, <1>3 DEF Loops
  <2> QED BY <1>1, <2>1 DEF EventsInv, EventsAccounted, AboutToTell, eventVars
<1> QED BY <1>4, <1>5, <1>6, <1>7

(***************************************************************************)
(* What the loops keep. A record of the history is followed by the next of *)
(* its loop, or is the last that the loop recorded.                        *)
(***************************************************************************)
Follows(h, i, j) ==
  /\ j \in i + 1..Len(h) /\ h[j].loop = h[i].loop
  /\ \A k \in i + 1..Len(h) : h[k].loop = h[i].loop => j <= k
NoneFollows(h, i) == \A k \in i + 1..Len(h) : h[k].loop # h[i].loop

Recent(h, last) ==
  \A i \in 1..Len(h) :
    \/ \E j \in 1..Len(h) : Follows(h, i, j) /\ h[j].iteration = h[i].iteration + 1
    \/ NoneFollows(h, i) /\ h[i].iteration = last[h[i].loop]

LastRecorded == [l \in Loops |-> Recorded(l)]

HistoryInv ==
  /\ Len(history) <= MaxHistory /\ Recent(history, LastRecorded)
  /\ \A l \in Loops : loopMetrics[l] = Recorded(l) - (IF loop[l] = "recorded" THEN 1 ELSE 0)

\* The oldest record can be forgotten.
LEMMA TailRecent ==
  ASSUME NEW h \in Seq(Cycle), NEW last, Recent(h, last), h # <<>>
  PROVE  Recent(Tail(h), last)
<1> DEFINE t == Tail(h)
<1>1. Len(h) \in Nat \ {0} /\ Len(t) = Len(h) - 1 /\ \A i \in 1..Len(t) : t[i] = h[i + 1]
  OBVIOUS
<1> HIDE DEF t
<1>2. SUFFICES ASSUME NEW i \in 1..Len(t)
               PROVE  \/ \E j \in 1..Len(t) : /\ Follows(t, i, j)
                                              /\ t[j].iteration = t[i].iteration + 1
                      \/ NoneFollows(t, i) /\ t[i].iteration = last[t[i].loop]
  BY DEF Recent, t
<1>3. i + 1 \in 1..Len(h) /\ t[i] = h[i + 1]
  BY <1>1
<1>4. CASE \E j \in 1..Len(h) : Follows(h, i + 1, j) /\ h[j].iteration = h[i + 1].iteration + 1
  <2>1. PICK j \in 1..Len(h) : Follows(h, i + 1, j) /\ h[j].iteration = h[i + 1].iteration + 1
    BY <1>4
  <2>2. j - 1 \in 1..Len(t) /\ j - 1 \in i + 1..Len(t) /\ t[j - 1] = h[j]
    BY <1>1, <2>1 DEF Follows
  <2>3. ASSUME NEW k \in i + 1..Len(t), t[k].loop = t[i].loop PROVE j - 1 <= k
    <3>1. k + 1 \in (i + 1) + 1..Len(h) /\ t[k] = h[k + 1]
      BY <1>1
    <3>2. j <= k + 1
      BY <1>3, <2>1, <2>3, <3>1 DEF Follows
    <3> QED BY <3>2
  <2>4. Follows(t, i, j - 1)
    BY <1>3, <2>1, <2>2, <2>3 DEF Follows
  <2> QED BY <1>3, <2>1, <2>2, <2>4
<1>5. CASE NoneFollows(h, i + 1) /\ h[i + 1].iteration = last[h[i + 1].loop]
  <2>1. ASSUME NEW k \in i + 1..Len(t) PROVE t[k].loop # t[i].loop
    <3>1. k + 1 \in (i + 1) + 1..Len(h) /\ t[k] = h[k + 1]
      BY <1>1
    <3> QED BY <1>3, <1>5, <3>1 DEF NoneFollows
  <2> QED BY <1>3, <1>5, <2>1 DEF NoneFollows
<1> QED BY <1>3, <1>4, <1>5 DEF Recent

\* The next record of a loop follows its last.
LEMMA AppendRecent ==
  ASSUME NEW h \in Seq(Cycle), NEW last, Recent(h, last), NEW c \in Cycle, NEW after,
         c.iteration = last[c.loop] + 1, after[c.loop] = c.iteration,
         \A l \in Loops : l # c.loop => after[l] = last[l]
  PROVE  Recent(Append(h, c), after)
<1> DEFINE g == Append(h, c)
           n == Len(h)
<1>1. /\ n \in Nat /\ Len(g) = n + 1 /\ g[n + 1] = c
      /\ \A i \in 1..n : g[i] = h[i] /\ h[i] \in Cycle
  OBVIOUS
<1> HIDE DEF g, n
<1>2. SUFFICES ASSUME NEW i \in 1..n + 1
               PROVE  \/ \E j \in 1..Len(g) : /\ Follows(g, i, j)
                                              /\ g[j].iteration = g[i].iteration + 1
                      \/ NoneFollows(g, i) /\ g[i].iteration = after[g[i].loop]
  BY <1>1 DEF Recent, g
<1>3. CASE i = n + 1
  BY <1>1, <1>3 DEF NoneFollows
<1>4. CASE i \in 1..n
  <2>1. g[i] = h[i] /\ h[i] \in Cycle /\ h[i].loop \in Loops
    BY <1>1, <1>4 DEF Cycle
  <2>2. ASSUME NEW k \in i + 1..Len(g), k # n + 1 PROVE k \in i + 1..n /\ k \in 1..n /\ g[k] = h[k]
    BY <1>1, <1>4, <2>2
  <2>3. CASE \E j \in 1..n : Follows(h, i, j) /\ h[j].iteration = h[i].iteration + 1
    <3>1. PICK j \in 1..n : Follows(h, i, j) /\ h[j].iteration = h[i].iteration + 1
      BY <2>3
    <3>2. j \in i + 1..Len(g) /\ g[j] = h[j] /\ j \in 1..Len(g) /\ j <= n + 1
      BY <1>1, <1>4, <3>1 DEF Follows, n
    <3>3. ASSUME NEW k \in i + 1..Len(g), g[k].loop = g[i].loop PROVE j <= k
      BY <2>1, <2>2, <3>1, <3>2, <3>3 DEF Follows, n
    <3>4. Follows(g, i, j)
      BY <2>1, <3>1, <3>2, <3>3 DEF Follows
    <3> QED BY <2>1, <3>1, <3>2, <3>4
  <2>4. CASE NoneFollows(h, i) /\ h[i].iteration = last[h[i].loop]
    <3>1. CASE c.loop = h[i].loop
      <4>1. n + 1 \in i + 1..Len(g) /\ n + 1 \in 1..Len(g)
        BY <1>1, <1>4
      <4>2. ASSUME NEW k \in i + 1..Len(g), g[k].loop = g[i].loop PROVE n + 1 <= k
        BY <1>1, <2>1, <2>2, <2>4, <4>2 DEF NoneFollows, n
      <4>3. Follows(g, i, n + 1)
        BY <1>1, <2>1, <3>1, <4>1, <4>2 DEF Follows
      <4> QED BY <1>1, <2>1, <2>4, <3>1, <4>1, <4>3
    <3>2. CASE c.loop # h[i].loop
      <4>1. ASSUME NEW k \in i + 1..Len(g) PROVE g[k].loop # g[i].loop
        BY <1>1, <2>1, <2>2, <2>4, <3>2 DEF NoneFollows, n
      <4>2. after[h[i].loop] = last[h[i].loop]
        BY <2>1, <3>2
      <4> QED BY <2>1, <2>4, <4>1, <4>2 DEF NoneFollows
    <3> QED BY <3>1, <3>2
  <2>5. \/ \E j \in 1..n : Follows(h, i, j) /\ h[j].iteration = h[i].iteration + 1
        \/ NoneFollows(h, i) /\ h[i].iteration = last[h[i].loop]
    BY <1>4, Zenon DEF Recent, n
  <2> QED BY <2>3, <2>4, <2>5
<1> QED BY <1>1, <1>3, <1>4

\* A cycle that is recorded is remembered, and the oldest forgotten if need be.
LEMMA RememberedRecent ==
  ASSUME OodaAssumption, NEW h \in Seq(Cycle), Len(h) <= MaxHistory,
         NEW last, Recent(h, last), NEW c \in Cycle, NEW after,
         c.iteration = last[c.loop] + 1, after[c.loop] = c.iteration,
         \A l \in Loops : l # c.loop => after[l] = last[l]
  PROVE  /\ Remembered(h, c) \in Seq(Cycle) /\ Len(Remembered(h, c)) <= MaxHistory
         /\ Recent(Remembered(h, c), after)
<1> DEFINE g == IF Len(h) >= MaxHistory THEN Tail(h) ELSE h
<1>1. g \in Seq(Cycle) /\ Len(g) < MaxHistory /\ Recent(g, last)
  <2>1. CASE Len(h) >= MaxHistory
    <3>1. h # <<>> /\ Len(h) = MaxHistory /\ Len(h) \in Nat
      BY <2>1 DEF OodaAssumption
    <3>2. Tail(h) \in Seq(Cycle) /\ Len(Tail(h)) = Len(h) - 1
      BY <3>1
    <3> QED BY <2>1, <3>1, <3>2, TailRecent
  <2>2. CASE ~(Len(h) >= MaxHistory)
    BY <2>2 DEF OodaAssumption
  <2> QED BY <2>1, <2>2
<1>2. Remembered(h, c) = Append(g, c)
  BY DEF Remembered
<1> HIDE DEF g
<1>3. Append(g, c) \in Seq(Cycle) /\ Len(Append(g, c)) = Len(g) + 1
  BY <1>1
<1>4. Recent(Append(g, c), after)
  BY <1>1, AppendRecent
<1> QED BY <1>1, <1>2, <1>3, <1>4 DEF OodaAssumption

\* What the loops lose and keep, after any step.
OodaInv == EventsInv /\ HistoryInv

\* Recorded, of a loop that begins a cycle or does not move.
LEMMA LatestKept ==
  ASSUME OodaInv, \A l \in Loops : Recorded(l)' = Recorded(l),
         \A l \in Loops : (loop'[l] = "recorded") = (loop[l] = "recorded"),
         UNCHANGED <<history, loopMetrics>>
  PROVE  HistoryInv'
<1>1. LastRecorded' = LastRecorded
  BY DEF LastRecorded
<1>2. Len(history') <= MaxHistory /\ Recent(history', LastRecorded')
  BY <1>1 DEF OodaInv, HistoryInv
<1>3. \A l \in Loops : loopMetrics'[l] = Recorded(l)' - (IF loop'[l] = "recorded" THEN 1 ELSE 0)
  BY DEF OodaInv, HistoryInv
<1> QED BY <1>2, <1>3 DEF HistoryInv

\* A loop that begins a cycle has not recorded it.
LEMMA BeginHistory ==
  ASSUME OodaInv, NEW l \in Loops, NEW plan, NEW errors, Begin(l, plan, errors),
         UNCHANGED recordVars
  PROVE  HistoryInv'
<1>1. /\ loop \in [Loops -> Whereabouts] /\ iteration \in [Loops -> Nat] /\ loop[l] = "waiting"
      /\ loop' = [loop EXCEPT ![l] = "working"] /\ iteration' = [iteration EXCEPT ![l] = @ + 1]
  BY DEF OodaInv, EventsInv, OodaTypeOK, Whereabouts, Begin
<1>2. ASSUME NEW m \in Loops
      PROVE  Recorded(m)' = Recorded(m) /\ (loop'[m] = "recorded") = (loop[m] = "recorded")
  BY <1>1 DEF Recorded
<1> QED BY <1>2, LatestKept DEF recordVars

\* A recorded cycle is the next of its loop.
LEMMA RecordCycleHistory ==
  ASSUME OodaAssumption, OodaInv, NEW l \in Loops, RecordCycle(l)
  PROVE  HistoryInv' /\ history' \in Seq(Cycle)
<1> DEFINE c == CycleOf(l)
<1>1. /\ loop[l] = "working" /\ loop' = [loop EXCEPT ![l] = "recorded"]
      /\ history' = Remembered(history, c) /\ UNCHANGED <<iteration, loopMetrics>>
      /\ loop \in [Loops -> Whereabouts] /\ iteration \in [Loops -> Nat]
  BY DEF RecordCycle, OodaInv, EventsInv, OodaTypeOK, Whereabouts
<1>2. c \in Cycle /\ c.loop = l /\ c.iteration = iteration[l]
  BY RecordCycleInv DEF OodaInv
<1> HIDE DEF c
<1>3. LastRecorded[l] + 1 = iteration[l] /\ LastRecorded'[l] = iteration[l]
  BY <1>1 DEF LastRecorded, Recorded
<1>4. \A m \in Loops : m # l => /\ LastRecorded'[m] = LastRecorded[m] /\ Recorded(m)' = Recorded(m)
                                /\ loop'[m] = loop[m]
  BY <1>1 DEF LastRecorded, Recorded
<1>5. /\ history' \in Seq(Cycle) /\ Len(history') <= MaxHistory /\ Recent(history', LastRecorded')
  <2>1. history \in Seq(Cycle) /\ Len(history) <= MaxHistory /\ Recent(history, LastRecorded)
    BY DEF OodaInv, EventsInv, OodaTypeOK, HistoryInv, Cycle
  <2> DEFINE last == LastRecorded
             after == LastRecorded'
  <2>2. /\ c.iteration = last[c.loop] + 1 /\ after[c.loop] = c.iteration
        /\ \A m \in Loops : m # c.loop => after[m] = last[m]
    BY <1>2, <1>3, <1>4
  <2>3. Recent(history, last)
    BY <2>1
  <2> HIDE DEF last, after
  <2>4. /\ Remembered(history, c) \in Seq(Cycle) /\ Len(Remembered(history, c)) <= MaxHistory
        /\ Recent(Remembered(history, c), after)
    BY <1>2, <2>1, <2>2, <2>3, RememberedRecent
  <2> QED BY <1>1, <2>4 DEF after
<1>6. ASSUME NEW m \in Loops
      PROVE  loopMetrics'[m] = Recorded(m)' - (IF loop'[m] = "recorded" THEN 1 ELSE 0)
  <2>1. loopMetrics[m] = Recorded(m) - (IF loop[m] = "recorded" THEN 1 ELSE 0)
    BY DEF OodaInv, HistoryInv
  <2>2. CASE m = l
    BY <1>1, <2>1, <2>2 DEF Recorded
  <2>3. CASE m # l
    BY <1>1, <1>4, <2>1, <2>3
  <2> QED BY <2>2, <2>3
<1> QED BY <1>5, <1>6 DEF HistoryInv

\* The metrics follow.
LEMMA CountIterationInv ==
  ASSUME OodaInv, NEW l \in Loops, CountIteration(l) PROVE OodaInv'
<1>1. /\ loop[l] = "recorded" /\ loop' = [loop EXCEPT ![l] = "waiting"]
      /\ loopMetrics' = [loopMetrics EXCEPT ![l] = @ + 1]
      /\ UNCHANGED <<iteration, cycleVars, history, eventVars, shutdownVars>>
      /\ loop \in [Loops -> Whereabouts] /\ iteration \in [Loops -> Nat]
      /\ loopMetrics \in [Loops -> Nat]
  BY DEF CountIteration, OodaInv, EventsInv, OodaTypeOK, Whereabouts
<1>2. ASSUME NEW m \in Loops
      PROVE  /\ Recorded(m)' = Recorded(m)
             /\ loopMetrics'[m] = Recorded(m)' - (IF loop'[m] = "recorded" THEN 1 ELSE 0)
  <2>1. loopMetrics[m] = Recorded(m) - (IF loop[m] = "recorded" THEN 1 ELSE 0)
    BY DEF OodaInv, HistoryInv
  <2>2. Recorded(m)' = Recorded(m)
    BY <1>1 DEF Recorded
  <2> QED BY <1>1, <2>1, <2>2 DEF Recorded
<1>3. LastRecorded' = LastRecorded
  BY <1>2 DEF LastRecorded
<1>4. HistoryInv'
  BY <1>1, <1>2, <1>3 DEF OodaInv, HistoryInv
<1>5. loop' \in [Loops -> Whereabouts] /\ loopMetrics' \in [Loops -> Nat]
  BY <1>1 DEF Whereabouts
<1>6. CyclesQuiet'
  BY <1>1 DEF OodaInv, EventsInv, CyclesQuiet, cycleVars
<1>7. EventsAccounted'
  BY <1>1 DEF OodaInv, EventsInv, EventsAccounted, AboutToTell, cycleVars, eventVars
<1>8. OodaTypeOK'
  BY <1>1, <1>5 DEF OodaInv, EventsInv, OodaTypeOK, Whereabouts, cycleVars, eventVars, shutdownVars
<1> QED BY <1>4, <1>6, <1>7, <1>8 DEF OodaInv, EventsInv

\* Steps of a task between its cycles, and of the shutdown, disturb no record.
LEMMA LoopMoves ==
  ASSUME OodaInv, loop' \in [Loops -> Whereabouts],
         \A l \in Loops : loop'[l] # loop[l] =>
           {loop[l], loop'[l]} \subseteq {"unborn", "spawned", "waiting", "stopped"},
         shutdownSeen' \subseteq Loops, closing' \in {"no", "joining", "done"},
         UNCHANGED <<iteration, cycleVars, recordVars, eventVars>>
  PROVE  OodaInv'
<1>1. HistoryInv'
  <2>1. ASSUME NEW l \in Loops
        PROVE  Recorded(l)' = Recorded(l) /\ (loop'[l] = "recorded") = (loop[l] = "recorded")
    BY DEF Recorded
  <2> QED BY <2>1, LatestKept DEF recordVars
<1>2. CyclesQuiet'
  BY DEF OodaInv, EventsInv, CyclesQuiet, cycleVars
<1>3. EventsAccounted'
  BY DEF OodaInv, EventsInv, EventsAccounted, AboutToTell, cycleVars, eventVars
<1>4. OodaTypeOK'
  BY DEF OodaInv, EventsInv, OodaTypeOK, Whereabouts, cycleVars, recordVars, eventVars
<1> QED BY <1>1, <1>2, <1>3, <1>4 DEF OodaInv, EventsInv

\* Every step of the loops preserves the invariant.
LEMMA OodaStepInv == ASSUME OodaAssumption, OodaInv, OodaNext PROVE OodaInv'
<1>0. loop \in [Loops -> Whereabouts] /\ OodaTypeOK
  BY DEF OodaInv, EventsInv, OodaTypeOK, Whereabouts
<1>1. CASE Start
  BY <1>0, <1>1, LoopMoves DEF Start, Whereabouts, shutdownVars, OodaTypeOK
<1>2. CASE SendShutdown
  BY <1>0, <1>2, LoopMoves DEF SendShutdown, Subscribed, OodaTypeOK
<1>3. CASE Joined
  BY <1>0, <1>3, LoopMoves DEF Joined, OodaTypeOK
<1>4. CASE FastTick
  <2>1. EventsInv'
    BY <1>4, FastTickInv DEF OodaInv
  <2>2. PICK plan, errors : Begin("fast", plan, errors)
    BY <1>4 DEF FastTick
  <2>3. HistoryInv'
    BY <1>4, <2>2, BeginHistory DEF FastTick, Loops
  <2> QED BY <2>1, <2>3 DEF OodaInv
<1>5. CASE FastLagged
  <2>1. /\ lagCount' = lagCount + dropped /\ dropped' = 0
        /\ UNCHANGED <<loop, iteration, cycleVars, recordVars, ring, eventsSent, taken,
                       invalidTaken, shutdownVars>>
    BY <1>5 DEF FastLagged
  <2>2. OodaTypeOK'
    BY <1>0, <2>1 DEF OodaTypeOK, cycleVars, recordVars, shutdownVars
  <2>3. EventsAccounted'
    <3>1. ring \in Seq(Events) /\ Len(ring) \in Nat
      BY <1>0 DEF OodaTypeOK
    <3>2. eventsSent' = taken' + Len(ring') + lagCount' + dropped'
      BY <1>0, <2>1, <3>1 DEF OodaInv, EventsInv, EventsAccounted, OodaTypeOK
    <3> QED BY <2>1, <3>2 DEF OodaInv, EventsInv, EventsAccounted, AboutToTell, cycleVars
  <2>4. CyclesQuiet'
    BY <2>1 DEF OodaInv, EventsInv, CyclesQuiet, cycleVars
  <2>5. HistoryInv'
    BY <2>1, LatestKept DEF recordVars, Recorded
  <2> QED BY <2>2, <2>3, <2>4, <2>5 DEF OodaInv, EventsInv
<1>6. CASE EpisodeEnds
  <2>1. /\ episodes' = episodes - 1 /\ episodes > 0
        /\ UNCHANGED <<loop, iteration, inCycle, done, recordVars, eventVars, shutdownVars>>
    BY <1>6 DEF EpisodeEnds
  <2>2. OodaTypeOK'
    BY <1>0, <2>1 DEF OodaTypeOK, recordVars, eventVars, shutdownVars
  <2>3. EventsAccounted' /\ CyclesQuiet'
    BY <2>1 DEF OodaInv, EventsInv, EventsAccounted, CyclesQuiet, AboutToTell, eventVars
  <2>4. HistoryInv'
    BY <2>1, LatestKept DEF recordVars, Recorded
  <2> QED BY <2>2, <2>3, <2>4 DEF OodaInv, EventsInv
<1>7. ASSUME NEW e \in Events, SendSyncEvent(e) PROVE OodaInv'
  <2>1. EventsInv'
    BY <1>7, SendSyncEventInv DEF OodaInv
  <2>2. HistoryInv'
    BY <1>7, LatestKept DEF SendSyncEvent, recordVars, Recorded
  <2> QED BY <2>1, <2>2 DEF OodaInv
<1>8. ASSUME NEW l \in Loops, Subscribe(l) \/ StopLoop(l) PROVE OodaInv'
  <2>1. /\ loop[l] \in {"spawned", "waiting"}
        /\ loop' = [loop EXCEPT ![l] = "waiting"] \/ loop' = [loop EXCEPT ![l] = "stopped"]
        /\ UNCHANGED <<iteration, cycleVars, recordVars, eventVars, shutdownVars>>
    BY <1>8 DEF Subscribe, StopLoop
  <2>2. loop' \in [Loops -> Whereabouts]
    BY <1>0, <2>1 DEF Whereabouts
  <2>3. \A m \in Loops : loop'[m] # loop[m] =>
          {loop[m], loop'[m]} \subseteq {"unborn", "spawned", "waiting", "stopped"}
    BY <1>0, <2>1
  <2> QED BY <1>0, <2>1, <2>2, <2>3, LoopMoves DEF shutdownVars, OodaTypeOK
<1>9. ASSUME NEW l \in Loops, LoopTick(l) PROVE OodaInv'
  <2>1. EventsInv'
    BY <1>9, TickInv DEF OodaInv
  <2>2. PICK plan : Begin(l, plan, 0)
    BY <1>9 DEF LoopTick
  <2>3. HistoryInv'
    BY <1>9, <2>2, BeginHistory DEF LoopTick
  <2> QED BY <2>1, <2>3 DEF OodaInv
<1>10. ASSUME NEW l \in Loops, CallReturns(l) PROVE OodaInv'
  <2>1. EventsInv'
    BY <1>10, CallReturnsInv DEF OodaInv
  <2>2. HistoryInv'
    BY <1>10, LatestKept DEF CallReturns, recordVars, Recorded
  <2> QED BY <2>1, <2>2 DEF OodaInv
<1>11. ASSUME NEW l \in Loops, RecordCycle(l) PROVE OodaInv'
  <2>1. CyclesQuiet' /\ EventsAccounted'
        /\ loop' \in [Loops -> Whereabouts] /\ inCycle' \in [Loops -> Progress]
    BY <1>11, RecordCycleInv DEF OodaInv
  <2>2. HistoryInv' /\ history' \in Seq(Cycle)
    BY <1>11, RecordCycleHistory
  <2>3. OodaTypeOK'
    BY <1>0, <1>11, <2>1, <2>2
       DEF RecordCycle, OodaTypeOK, Whereabouts, Progress, Cycle, eventVars, shutdownVars
  <2> QED BY <2>1, <2>2, <2>3 DEF OodaInv, EventsInv
<1> QED BY <1>1, <1>2, <1>3, <1>4, <1>5, <1>6, <1>7, <1>8, <1>9, <1>10, <1>11, CountIterationInv
        DEF OodaNext

\* The invariant holds always.
LEMMA OodaInvAlways == ASSUME OodaAssumption PROVE OodaSpec => []OodaInv
<1>1. OodaInit => OodaInv
  <2> SUFFICES ASSUME OodaInit PROVE OodaInv
    OBVIOUS
  <2>1. NoCycle \in Progress /\ NoCycle.left = <<>>
    BY DEF NoCycle, Progress
  <2>2. OodaTypeOK
    BY <2>1 DEF OodaInit, OodaTypeOK, Progress, OodaAssumption
  <2>3. CyclesQuiet
    BY <2>1 DEF OodaInit, CyclesQuiet, TellsFirst
  <2>4. EventsAccounted
    BY <2>1 DEF OodaInit, EventsAccounted, AboutToTell, Loops, Counted
  <2>5. HistoryInv
    BY DEF OodaInit, HistoryInv, Recent, Recorded, OodaAssumption
  <2> QED BY <2>2, <2>3, <2>4, <2>5 DEF OodaInv, EventsInv
<1>2. OodaInv /\ [OodaNext]_oodaVars => OodaInv'
  <2> SUFFICES ASSUME OodaInv, [OodaNext]_oodaVars PROVE OodaInv'
    OBVIOUS
  <2>1. CASE UNCHANGED oodaVars
    BY <2>1 DEF oodaVars, cycleVars, recordVars, eventVars, shutdownVars, OodaInv, EventsInv,
       HistoryInv, OodaTypeOK, CyclesQuiet, EventsAccounted, AboutToTell, LastRecorded, Recorded
  <2> QED BY <2>1, OodaStepInv
<1> QED BY <1>1, <1>2, PTL DEF OodaSpec

\* The state of the loops is of its type.
THEOREM OodaTypes == ASSUME OodaAssumption PROVE OodaSpec => []OodaTypeOK
<1>1. OodaInv => OodaTypeOK
  BY DEF OodaInv, EventsInv
<1> QED BY <1>1, OodaInvAlways, PTL

\* No event is lost unaccounted for, no invalid one goes untold, and the history
\* is the latest cycles of every loop without a gap, its metrics one behind.
THEOREM CyclesAccountedAlways == ASSUME OodaAssumption PROVE OodaSpec => []CyclesAccounted
<1>1. OodaInv => CyclesAccounted
  <2> SUFFICES ASSUME OodaInv PROVE CyclesAccounted
    OBVIOUS
  <2>1. ASSUME NEW i \in 1..Len(history)
        PROVE  LET l == history[i].loop
                   later == {j \in i + 1..Len(history) : history[j].loop = l}
               IN IF later = {} THEN history[i].iteration = Recorded(l)
                  ELSE \E j \in later : /\ history[j].iteration = history[i].iteration + 1
                                        /\ \A k \in later : j <= k
    <3> DEFINE l == history[i].loop
               later == {j \in i + 1..Len(history) : history[j].loop = l}
    <3>1. l \in Loops
      <4>0. history \in Seq(Cycle)
        BY DEF OodaInv, EventsInv, OodaTypeOK, Cycle
      <4>1. history[i] \in Cycle
        BY <4>0
      <4> QED BY <4>1 DEF Cycle
    <3>2. CASE \E j \in 1..Len(history) :
                 Follows(history, i, j) /\ history[j].iteration = history[i].iteration + 1
      BY <3>2 DEF Follows
    <3>3. CASE NoneFollows(history, i) /\ history[i].iteration = LastRecorded[l]
      BY <3>1, <3>3 DEF NoneFollows, LastRecorded
    <3> QED BY <3>2, <3>3 DEF OodaInv, HistoryInv, Recent
  <2> QED BY <2>1 DEF OodaInv, EventsInv, HistoryInv, CyclesAccounted, HistoryIsRecent
<1> QED BY <1>1, OodaInvAlways, PTL

-----------------------------------------------------------------------------
(***************************************************************************)
(* Feedback between the stages. What the loop has in hand came from the     *)
(* channel it is at, and a channel holds signals of its own stage: with     *)
(* that, what a stage accepted is what was handled, what is in hand and     *)
(* what waits, one after the other.                                         *)
(***************************************************************************)
OfStage(q, s) == \A k \in 1..Len(q) : q[k].stage = s

FeedbackInv ==
  /\ FeedbackTypeOK /\ SignalsHandledOnce
  /\ \A s \in StageNames : OfStage(channel[s], s)
  /\ inHand # <<>> => stageTurn # 0 /\ OfStage(inHand, Stages[stageTurn])

\* Taken from the front of one sequence and put behind another, nothing is lost.
LEMMA MovedOver ==
  ASSUME NEW S, NEW h \in Seq(S), NEW q \in Seq(S), q # <<>>
  PROVE  Append(h, Head(q)) \o Tail(q) = h \o q
<1>1. Head(q) \in S /\ Tail(q) \in Seq(S) /\ <<Head(q)>> \in Seq(S)
  OBVIOUS
<1>2. Append(h, Head(q)) = h \o <<Head(q)>>
  BY <1>1, AppendIsConcat
<1>3. (h \o <<Head(q)>>) \o Tail(q) = h \o (<<Head(q)>> \o Tail(q))
  BY <1>1, ConcatAssociative
<1>4. <<Head(q)>> \o Tail(q) = q
  <2>1. PICK t \in Seq(S) :
          t = <<Head(q)>> \o Tail(q) /\ Len(t) = Len(q) /\ \A i \in 1..Len(q) : t[i] = q[i]
    <3>1. PICK e \in S, r \in Seq(S) : e = Head(q) /\ r = Tail(q)
      BY <1>1
    <3>2. /\ Len(q) \in Nat \ {0} /\ Len(r) = Len(q) - 1 /\ q[1] = e
          /\ \A i \in 1..Len(r) : r[i] = q[i + 1]
      BY <3>1
    <3>3. PICK o \in Seq(S) : o = <<e>> /\ Len(o) = 1 /\ o[1] = e
      <4>1. <<e>> \in Seq(S) /\ Len(<<e>>) = 1 /\ <<e>>[1] = e
        OBVIOUS
      <4> QED BY <4>1
    <3>4. /\ o \o r \in Seq(S) /\ Len(o \o r) = Len(o) + Len(r)
          /\ \A i \in 1..Len(o) + Len(r) :
               (o \o r)[i] = IF i <= Len(o) THEN o[i] ELSE r[i - Len(o)]
      BY ConcatProperties, Zenon
    <3>5. PICK t \in Seq(S) :
            /\ t = o \o r /\ Len(t) = 1 + Len(r)
            /\ \A i \in 1..1 + Len(r) : t[i] = IF i <= 1 THEN o[i] ELSE r[i - 1]
      BY <3>3, <3>4
    <3>6. ASSUME NEW i \in 1..Len(q) PROVE t[i] = q[i]
      <4>1. CASE i = 1
        BY <3>2, <3>3, <3>5, <4>1
      <4>2. CASE i > 1
        <5>1. i - 1 \in 1..Len(r) /\ (i - 1) + 1 = i /\ i \in 1..1 + Len(r)
          BY <3>2, <4>2
        <5> QED BY <3>2, <3>5, <4>2, <5>1
      <4> QED BY <3>2, <4>1, <4>2
    <3>7. Len(t) = Len(q)
      BY <3>2, <3>5
    <3> QED BY <3>1, <3>3, <3>5, <3>6, <3>7
  <2> QED BY <2>1
<1> QED BY <1>2, <1>3, <1>4

\* Put behind what waits is put behind all.
LEMMA PutBehind ==
  ASSUME NEW S, NEW h \in Seq(S), NEW q \in Seq(S), NEW e \in S
  PROVE  h \o Append(q, e) = Append(h \o q, e)
<1>1. Append(q, e) = q \o <<e>> /\ <<e>> \in Seq(S) /\ h \o q \in Seq(S)
  BY AppendIsConcat
<1>2. Append(h \o q, e) = (h \o q) \o <<e>>
  BY <1>1, AppendIsConcat
<1> QED BY <1>1, <1>2, ConcatAssociative

\* The latest of a sequence, and one more: the latest of all.
LEMMA LatestOfMore ==
  ASSUME MaxKept \in Nat, NEW S, NEW s \in Seq(S), NEW e \in S
  PROVE  /\ Latest(s) \in Seq(S) /\ Len(Latest(s)) <= MaxKept
         /\ KeepLatest(Append(Latest(s), e)) = Latest(Append(s, e))
<1> DEFINE From(n) == IF n > MaxKept THEN n - MaxKept + 1 ELSE 1
<1>1. ASSUME NEW r \in Seq(S)
      PROVE  /\ Latest(r) \in Seq(S)
             /\ Len(Latest(r)) = IF Len(r) > MaxKept THEN MaxKept ELSE Len(r)
             /\ \A i \in 1..Len(Latest(r)) : Latest(r)[i] = r[From(Len(r)) + i - 1]
  <2>1. PICK n \in Nat : n = Len(r)
    OBVIOUS
  <2>2. PICK from \in 1..n + 1 :
          /\ from = From(n) /\ (IF from <= n THEN n - from + 1 ELSE 0) = n - from + 1
          /\ n - from + 1 = IF n > MaxKept THEN MaxKept ELSE n
    <3>1. CASE n > MaxKept
      BY <3>1
    <3>2. CASE n <= MaxKept
      BY <3>2
    <3> QED BY <3>1, <3>2
  <2>3. Latest(r) = SubSeq(r, from, n)
    BY <2>1, <2>2 DEF Latest
  <2>4. from \in Int /\ n \in Int /\ \A i \in from..n : r[i] \in S
    BY <2>1
  <2>5. /\ SubSeq(r, from, n) \in Seq(S)
        /\ Len(SubSeq(r, from, n)) = IF from <= n THEN n - from + 1 ELSE 0
        /\ \A i \in 1..n - from + 1 : SubSeq(r, from, n)[i] = r[from + i - 1]
    BY <2>4, SubSeqProperties
  <2> HIDE DEF From
  <2> QED BY <2>1, <2>2, <2>3, <2>5
<1>2. PICK n \in Nat : n = Len(s)
  OBVIOUS
<1>3. PICK a \in Seq(S) : /\ a = Append(s, e) /\ Len(a) = n + 1 /\ a[n + 1] = e
                          /\ \A i \in 1..n : a[i] = s[i]
  <2>1. /\ Append(s, e) \in Seq(S) /\ Len(Append(s, e)) = Len(s) + 1
        /\ Append(s, e)[Len(s) + 1] = e
        /\ \A i \in 1..Len(s) : Append(s, e)[i] = s[i]
    BY AppendProperties
  <2> QED BY <1>2, <2>1, Zenon
<1>4. PICK l \in Seq(S) : /\ l = Latest(s) /\ Len(l) = IF n > MaxKept THEN MaxKept ELSE n
                          /\ \A i \in 1..Len(l) : l[i] = s[From(n) + i - 1]
  BY <1>1, <1>2
<1>5. PICK m \in Seq(S) :
        /\ m = Latest(a) /\ Len(m) = IF n + 1 > MaxKept THEN MaxKept ELSE n + 1
        /\ \A i \in 1..Len(m) : m[i] = a[From(n + 1) + i - 1]
  <2>1. /\ Latest(a) \in Seq(S)
        /\ Len(Latest(a)) = IF Len(a) > MaxKept THEN MaxKept ELSE Len(a)
        /\ \A i \in 1..Len(Latest(a)) : Latest(a)[i] = a[From(Len(a)) + i - 1]
    BY <1>1, Zenon
  <2>2. Len(a) = n + 1
    BY <1>3
  <2> HIDE DEF From
  <2> QED BY <2>1, <2>2
<1>6. PICK b \in Seq(S) : /\ b = Append(l, e) /\ Len(b) = Len(l) + 1 /\ b[Len(l) + 1] = e
                          /\ \A i \in 1..Len(l) : b[i] = l[i]
  <2>1. /\ Append(l, e) \in Seq(S) /\ Len(Append(l, e)) = Len(l) + 1
        /\ Append(l, e)[Len(l) + 1] = e
        /\ \A i \in 1..Len(l) : Append(l, e)[i] = l[i]
    BY AppendProperties
  <2> QED BY <2>1, Zenon
<1>7. KeepLatest(b) = m
  <2>1. CASE n < MaxKept
    <3>1. /\ Len(l) = n /\ Len(b) = n + 1 /\ Len(m) = n + 1 /\ KeepLatest(b) = b
          /\ From(n) = 1 /\ From(n + 1) = 1
      BY <1>4, <1>5, <1>6, <2>1 DEF KeepLatest
    <3>2. ASSUME NEW i \in 1..n + 1 PROVE b[i] = m[i]
      <4>1. From(n) + i - 1 = i /\ From(n + 1) + i - 1 = i
        BY <3>1
      <4>2. m[i] = a[i]
        BY <1>5, <3>1, <4>1
      <4>3. CASE i \in 1..n
        BY <1>3, <1>4, <1>6, <3>1, <4>1, <4>2, <4>3
      <4>4. CASE i = n + 1
        BY <1>3, <1>6, <3>1, <4>2, <4>4
      <4> QED BY <4>3, <4>4
    <3> QED BY <3>1, <3>2
  <2>2. CASE n >= MaxKept
    <3>1. /\ Len(l) = MaxKept /\ Len(b) = MaxKept + 1 /\ Len(m) = MaxKept
          /\ From(n + 1) = n - MaxKept + 2
      <4>1. Len(l) = MaxKept
        BY <1>4, <2>2
      <4>2. Len(m) = MaxKept
        BY <1>5, <2>2
      <4>3. From(n + 1) = n - MaxKept + 2
        BY <2>2
      <4> QED BY <1>6, <4>1, <4>2, <4>3
    <3>4. KeepLatest(b) = Tail(b) /\ b # <<>>
      <4>1. Len(b) > MaxKept /\ Len(b) \in Nat \ {0}
        BY <3>1
      <4> QED BY <4>1 DEF KeepLatest
    <3>2. PICK t \in Seq(S) : /\ t = Tail(b) /\ Len(t) = MaxKept
                              /\ \A i \in 1..MaxKept : t[i] = b[i + 1]
      <4>1. /\ Tail(b) \in Seq(S) /\ Len(Tail(b)) = Len(b) - 1
            /\ \A i \in 1..Len(Tail(b)) : Tail(b)[i] = b[i + 1]
        BY <3>4, HeadTailProperties
      <4>2. Len(b) - 1 = MaxKept
        BY <3>1
      <4> QED BY <4>1, <4>2
    <3>3. ASSUME NEW i \in 1..MaxKept PROVE t[i] = m[i]
      <4>1. PICK k \in 1..n + 1 : k = n - MaxKept + 1 + i
        BY <2>2
      <4>2. m[i] = a[k]
        <5>1. From(n + 1) + i - 1 = k
          BY <3>1, <4>1
        <5> QED BY <1>5, <3>1, <5>1
      <4>3. CASE i < MaxKept
        <5>1. i + 1 \in 1..Len(l) /\ k \in 1..n
          BY <2>2, <3>1, <4>1, <4>3
        <5>2. From(n) + (i + 1) - 1 = k
          BY <2>2, <4>1, <4>3
        <5>3. l[i + 1] = s[k]
          BY <1>4, <5>1, <5>2
        <5> QED BY <1>3, <1>6, <3>2, <4>2, <5>1, <5>3
      <4>4. CASE i = MaxKept
        <5>1. k = n + 1
          BY <4>1, <4>4
        <5> QED BY <1>3, <1>6, <3>1, <3>2, <4>2, <4>4, <5>1
      <4> QED BY <4>3, <4>4
    <3>5. t = m
      <4>1. Len(t) = Len(m) /\ \A i \in 1..Len(t) : t[i] = m[i]
        BY <3>1, <3>2, <3>3
      <4> QED BY <4>1, SeqEqual
    <3> QED BY <3>2, <3>4, <3>5, Zenon
  <2> QED BY <2>1, <2>2
<1> QED BY <1>1, <1>3, <1>4, <1>5, <1>6, <1>7

\* What the loop has taken from the stage at place i.
Taken(i) == IF stageTurn = i THEN inHand ELSE <<>>

LEMMA FeedbackTyped ==
  ASSUME FeedbackAssumption, FeedbackInv, NEW i \in 1..Len(Stages)
  PROVE  /\ Stages[i] \in StageNames /\ Taken(i) \in Seq(Signal)
         /\ handled[Stages[i]] \in Seq(Signal) /\ channel[Stages[i]] \in Seq(Signal)
         /\ accepted[Stages[i]] = (handled[Stages[i]] \o Taken(i)) \o channel[Stages[i]]
<1>1. Stages[i] \in StageNames
  BY DEF StageNames
<1>2. <<>> \in Seq(Signal)
  OBVIOUS
<1>3. Taken(i) \in Seq(Signal)
  BY <1>2 DEF Taken, FeedbackInv, FeedbackTypeOK
<1> QED BY <1>1, <1>3, Zenon DEF Taken, FeedbackInv, FeedbackTypeOK, SignalsHandledOnce

\* A signal that is sent waits behind those of its stage, or is refused.
LEMMA SendInv ==
  ASSUME FeedbackAssumption, FeedbackInv, NEW s \in StageNames, NEW t \in SignalTypes,
         Send(s, t), pendingErrors' \in [Device -> Nat],
         UNCHANGED <<adjustments, priorities, stageTurn, inHand, handled, adjusted>>
  PROVE  FeedbackInv'
<1> DEFINE c == [type |-> t, stage |-> s, number |-> sent + 1]
<1>1. /\ c \in Signal /\ c.stage = s /\ sent' \in 0..MaxSignals
  BY DEF Send, Signal, FeedbackInv, FeedbackTypeOK, FeedbackAssumption
<1>2. UNCHANGED <<adjustments, priorities, stageTurn, inHand, handled, adjusted>>
  OBVIOUS
<1>3. CASE Len(channel[s]) < ChannelCapacity
  <2>1. /\ channel' = [channel EXCEPT ![s] = Append(@, c)]
        /\ accepted' = [accepted EXCEPT ![s] = Append(@, c)]
    BY <1>3 DEF Send
  <2> HIDE DEF c
  <2>2. PICK q \in Seq(Signal) : q = channel[s] /\ Len(q) < ChannelCapacity /\ OfStage(q, s)
    BY <1>3 DEF FeedbackInv, FeedbackTypeOK
  <2>3. PICK a \in Seq(Signal) : a = accepted[s]
    BY DEF FeedbackInv, FeedbackTypeOK
  <2>4. /\ Append(q, c) \in Seq(Signal) /\ Len(Append(q, c)) = Len(q) + 1
        /\ Append(a, c) \in Seq(Signal) /\ OfStage(Append(q, c), s)
    BY <1>1, <2>2 DEF OfStage
  <2>5. Len(Append(q, c)) <= ChannelCapacity
    BY <2>2, <2>4 DEF FeedbackAssumption
  <2>6. /\ channel' = [channel EXCEPT ![s] = Append(q, c)]
        /\ accepted' = [accepted EXCEPT ![s] = Append(a, c)]
        /\ channel \in [StageNames -> Seq(Signal)] /\ accepted \in [StageNames -> Seq(Signal)]
    BY <2>1, <2>2, <2>3, Zenon DEF FeedbackInv, FeedbackTypeOK
  <2>7. /\ channel' \in [StageNames -> Seq(Signal)] /\ accepted' \in [StageNames -> Seq(Signal)]
        /\ channel'[s] = Append(q, c) /\ accepted'[s] = Append(a, c)
        /\ \A r \in StageNames \ {s} : channel'[r] = channel[r] /\ accepted'[r] = accepted[r]
    BY <2>4, <2>6
  <2>8. ASSUME NEW r \in StageNames
        PROVE  Len(channel'[r]) <= ChannelCapacity /\ OfStage(channel'[r], r)
    <3>1. CASE r = s
      BY <2>4, <2>5, <2>7, <3>1
    <3>2. CASE r # s
      BY <2>7, <3>2 DEF FeedbackInv, FeedbackTypeOK
    <3> QED BY <3>1, <3>2
  <2>9. ASSUME NEW i \in 1..Len(Stages)
        PROVE  accepted'[Stages[i]] = (handled[Stages[i]] \o Taken(i)) \o channel'[Stages[i]]
    <3>1. CASE Stages[i] = s
      <4>1. PICK h \in Seq(Signal) : h = handled[s] \o Taken(i) /\ a = h \o q
        <5>1. /\ handled[s] \in Seq(Signal) /\ Taken(i) \in Seq(Signal)
              /\ accepted[s] = (handled[s] \o Taken(i)) \o channel[s]
          BY <3>1, FeedbackTyped, Zenon
        <5>2. handled[s] \o Taken(i) \in Seq(Signal)
          BY <5>1
        <5> QED BY <2>2, <2>3, <5>1, <5>2, Zenon
      <4>2. Append(a, c) = h \o Append(q, c)
        <5>1. h \o Append(q, c) = Append(h \o q, c)
          BY <1>1, PutBehind
        <5> QED BY <4>1, <5>1, Zenon
      <4> QED BY <2>7, <3>1, <4>1, <4>2, Zenon
    <3>2. CASE Stages[i] # s
      BY <2>7, <3>2, FeedbackTyped
    <3> QED BY <3>1, <3>2
  <2>10. SignalsHandledOnce'
    BY <1>2, <2>9, Zenon DEF SignalsHandledOnce, Taken, FeedbackInv, Latest
  <2>11. FeedbackTypeOK'
    BY <1>1, <1>2, <2>7, <2>8 DEF FeedbackTypeOK, FeedbackInv
  <2> QED BY <1>2, <2>8, <2>10, <2>11 DEF FeedbackInv
<1>4. CASE ~(Len(channel[s]) < ChannelCapacity)
  <2>1. UNCHANGED <<channel, accepted>>
    BY <1>4 DEF Send
  <2> QED BY <1>1, <1>2, <2>1 DEF FeedbackInv, FeedbackTypeOK, SignalsHandledOnce, Latest
<1> QED BY <1>3, <1>4

\* The loop takes all that waits for the next stage.
LEMMA DrainInv ==
  ASSUME FeedbackAssumption, FeedbackInv, DrainStage PROVE FeedbackInv'
<1>1. /\ inHand = <<>> /\ stageTurn' \in 0..Len(Stages)
      /\ UNCHANGED <<pendingErrors, adjustments, priorities, sent, accepted, handled, adjusted>>
  <2>1. Len(Stages) \in Nat /\ stageTurn \in Nat
    BY DEF FeedbackAssumption, FeedbackInv, FeedbackTypeOK
  <2>2. \A x \in Nat, n \in Nat : (x + 1) % (n + 1) \in 0..n
    OBVIOUS
  <2> QED BY <2>1, <2>2 DEF DrainStage, NextStage
<1>2. \A i \in 1..Len(Stages) : Taken(i) = <<>>
  BY <1>1 DEF Taken
<1>3. CASE stageTurn' = 0
  <2>1. UNCHANGED <<channel, inHand>>
    BY <1>3 DEF DrainStage
  <2>2. ASSUME NEW i \in 1..Len(Stages)
        PROVE  accepted'[Stages[i]] = (handled'[Stages[i]]
                 \o (IF stageTurn' = i THEN inHand' ELSE <<>>)) \o channel'[Stages[i]]
    <3>1. (IF stageTurn' = i THEN inHand' ELSE <<>>) = Taken(i)
      BY <1>1, <1>2, <2>1
    <3> QED BY <1>1, <2>1, <3>1, FeedbackTyped, Zenon
  <2>3. SignalsHandledOnce'
    BY <1>1, <2>2, Zenon DEF SignalsHandledOnce, FeedbackInv, Latest
  <2> QED BY <1>1, <2>1, <2>3 DEF FeedbackInv, FeedbackTypeOK
<1>4. CASE stageTurn' # 0
  <2>1. PICK n \in 1..Len(Stages) : n = stageTurn'
    BY <1>1, <1>4 DEF FeedbackAssumption
  <2>2. PICK s \in StageNames : s = Stages[n]
    BY DEF StageNames
  <2>3. PICK q \in Seq(Signal) : q = channel[s] /\ OfStage(q, s)
    BY DEF FeedbackInv, FeedbackTypeOK
  <2>4. inHand' = q /\ channel' = [channel EXCEPT ![s] = <<>>]
    BY <1>4, <2>1, <2>2, <2>3 DEF DrainStage, Drained
  <2>5. /\ <<>> \in Seq(Signal) /\ Len(<<>>) = 0 /\ OfStage(<<>>, s)
        /\ channel \in [StageNames -> Seq(Signal)] /\ 0 <= ChannelCapacity
    BY DEF OfStage, FeedbackInv, FeedbackTypeOK, FeedbackAssumption
  <2>6. /\ channel' \in [StageNames -> Seq(Signal)] /\ channel'[s] = <<>>
        /\ \A r \in StageNames \ {s} : channel'[r] = channel[r]
    BY <2>4, <2>5
  <2>7. ASSUME NEW r \in StageNames
        PROVE  Len(channel'[r]) <= ChannelCapacity /\ OfStage(channel'[r], r)
    <3>1. CASE r = s
      BY <2>5, <2>6, <3>1
    <3>2. CASE r # s
      BY <2>6, <3>2 DEF FeedbackInv, FeedbackTypeOK
    <3> QED BY <3>1, <3>2
  <2>8. ASSUME NEW i \in 1..Len(Stages)
        PROVE  accepted'[Stages[i]] = (handled'[Stages[i]]
                 \o (IF stageTurn' = i THEN inHand' ELSE <<>>)) \o channel'[Stages[i]]
    <3>1. PICK h \in Seq(Signal) : h = handled[Stages[i]]
      BY FeedbackTyped
    <3>2. h \o <<>> = h
      BY ConcatEmptySeq
    <3>3. accepted[Stages[i]] = h \o channel[Stages[i]]
      BY <1>2, <3>1, <3>2, FeedbackTyped, Zenon
    <3>4. CASE i = n
      <4>1. accepted[Stages[i]] = h \o q /\ channel'[Stages[i]] = <<>>
        BY <2>2, <2>3, <2>6, <3>3, <3>4
      <4>2. (h \o q) \o <<>> = h \o q
        <5>1. h \o q \in Seq(Signal)
          OBVIOUS
        <5> QED BY <5>1, ConcatEmptySeq
      <4>3. (IF stageTurn' = i THEN inHand' ELSE <<>>) = q
        BY <2>1, <2>4, <3>4
      <4> QED BY <1>1, <3>1, <4>1, <4>2, <4>3, Zenon
    <3>5. CASE i # n
      <4>1. Stages[i] # s /\ Stages[i] \in StageNames
        BY <2>2, <3>5, FeedbackTyped DEF FeedbackAssumption
      <4>2. channel'[Stages[i]] = channel[Stages[i]]
        BY <2>6, <4>1
      <4>3. (IF stageTurn' = i THEN inHand' ELSE <<>>) = <<>>
        BY <2>1, <3>5
      <4> QED BY <1>1, <3>1, <3>2, <3>3, <4>2, <4>3, Zenon
    <3> QED BY <3>4, <3>5
  <2>9. SignalsHandledOnce'
    BY <1>1, <2>8, Zenon DEF SignalsHandledOnce, FeedbackInv, Latest
  <2>10. FeedbackTypeOK'
    BY <1>1, <2>4, <2>6, <2>7 DEF FeedbackInv, FeedbackTypeOK
  <2>11. inHand' # <<>> => stageTurn' # 0 /\ OfStage(inHand', Stages[stageTurn'])
    BY <2>1, <2>2, <2>3, <2>4
  <2> QED BY <2>7, <2>9, <2>10, <2>11 DEF FeedbackInv
<1> QED BY <1>3, <1>4

\* The first in hand is handled.
LEMMA HandleInv ==
  ASSUME FeedbackAssumption, FeedbackInv, HandleSignal PROVE FeedbackInv'
<1>1. PICK q \in Seq(Signal), n \in 1..Len(Stages) :
        /\ q = inHand /\ q # <<>> /\ n = stageTurn /\ OfStage(q, Stages[n])
  <2>1. /\ inHand \in Seq(Signal) /\ inHand # <<>> /\ stageTurn # 0 /\ stageTurn \in 0..Len(Stages)
        /\ OfStage(inHand, Stages[stageTurn]) /\ Len(Stages) \in Nat
    BY DEF FeedbackInv, FeedbackTypeOK, HandleSignal, FeedbackAssumption
  <2> QED BY <2>1
<1>2. PICK e \in Signal, r \in Seq(Signal) :
        /\ e = Head(q) /\ r = Tail(q) /\ e.stage = Stages[n] /\ OfStage(r, Stages[n])
        /\ Len(r) = Len(q) - 1
  <2>1. /\ Len(q) \in Nat \ {0} /\ Head(q) = q[1] /\ Head(q) \in Signal /\ Tail(q) \in Seq(Signal)
        /\ Len(Tail(q)) = Len(q) - 1 /\ \A i \in 1..Len(Tail(q)) : Tail(q)[i] = q[i + 1]
    BY <1>1
  <2>2. \A i \in 1..Len(Tail(q)) : i + 1 \in 1..Len(q)
    BY <2>1
  <2>3. q[1].stage = Stages[n] /\ OfStage(Tail(q), Stages[n])
    BY <1>1, <2>1, <2>2 DEF OfStage
  <2> QED BY <2>1, <2>3, Zenon
<1>3. PICK s \in StageNames : s = Stages[n]
  BY DEF StageNames
<1>4. PICK h \in Seq(Signal) : h = handled[s] /\ handled \in [StageNames -> Seq(Signal)]
  BY DEF FeedbackInv, FeedbackTypeOK
<1>5. /\ inHand' = r /\ handled' = [handled EXCEPT ![s] = Append(h, e)]
      /\ UNCHANGED <<channel, pendingErrors, stageTurn, sent, accepted>>
  BY <1>1, <1>2, <1>3, <1>4, Zenon DEF HandleSignal
<1>6. Append(h, e) \in Seq(Signal)
  OBVIOUS
<1>7. /\ handled' \in [StageNames -> Seq(Signal)] /\ handled'[s] = Append(h, e)
      /\ \A x \in StageNames \ {s} : handled'[x] = handled[x]
  BY <1>4, <1>5, <1>6
<1>8. ASSUME NEW i \in 1..Len(Stages)
      PROVE  accepted'[Stages[i]] = (handled'[Stages[i]]
               \o (IF stageTurn' = i THEN inHand' ELSE <<>>)) \o channel'[Stages[i]]
  <2>1. CASE i = n
    <3>1. /\ handled'[Stages[i]] = Append(h, e) /\ Taken(i) = q
          /\ (IF stageTurn' = i THEN inHand' ELSE <<>>) = r
      BY <1>1, <1>3, <1>5, <1>7, <2>1 DEF Taken
    <3>2. Append(h, e) \o r = h \o q
      BY <1>1, <1>2, MovedOver
    <3>3. accepted[Stages[i]] = (h \o q) \o channel[Stages[i]]
      BY <1>3, <1>4, <2>1, <3>1, FeedbackTyped, Zenon
    <3> QED BY <1>5, <3>1, <3>2, <3>3, Zenon
  <2>2. CASE i # n
    <3>1. Stages[i] # s /\ Stages[i] \in StageNames
      BY <1>3, <2>2, FeedbackTyped DEF FeedbackAssumption
    <3>2. /\ handled'[Stages[i]] = handled[Stages[i]] /\ Taken(i) = <<>>
          /\ (IF stageTurn' = i THEN inHand' ELSE <<>>) = <<>>
      BY <1>1, <1>5, <1>7, <2>2, <3>1 DEF Taken
    <3> QED BY <1>5, <3>2, FeedbackTyped, Zenon
  <2> QED BY <2>1, <2>2
<1>9. /\ adjusted' \in Seq(Signal) /\ adjustments' \in Seq(Signal) /\ Len(adjustments') <= MaxKept
      /\ adjustments' = Latest(adjusted')
  <2>1. PICK a \in Seq(Signal) : a = adjusted /\ adjustments = Latest(a)
    BY DEF FeedbackInv, FeedbackTypeOK, SignalsHandledOnce
  <2>2. MaxKept \in Nat
    BY DEF FeedbackAssumption
  <2>3. CASE e.type = "ParameterAdjustment"
    <3>1. adjusted' = Append(a, e) /\ adjustments' = KeepLatest(Append(Latest(a), e))
      BY <1>1, <1>2, <2>1, <2>3, Zenon DEF HandleSignal
    <3>2. PICK b \in Seq(Signal) : b = Append(a, e)
      <4>1. Append(a, e) \in Seq(Signal)
        BY AppendProperties
      <4> QED BY <4>1, Zenon
    <3>3. adjustments' = Latest(b)
      BY <2>2, <3>1, <3>2, LatestOfMore, Zenon
    <3>4. Latest(b) \in Seq(Signal) /\ Len(Latest(b)) <= MaxKept
      BY <1>2, <2>2, LatestOfMore
    <3> QED BY <3>1, <3>2, <3>3, <3>4, Zenon
  <2>4. CASE e.type # "ParameterAdjustment"
    <3>1. adjusted' = adjusted /\ adjustments' = adjustments
      BY <1>1, <1>2, <2>4, Zenon DEF HandleSignal
    <3> QED BY <2>1, <3>1 DEF FeedbackInv, FeedbackTypeOK
  <2> QED BY <2>3, <2>4
<1>10. priorities' \in 0..MaxSignals
  <2>1. priorities' = IF e.type = "PriorityChange" THEN e.number ELSE priorities
    BY <1>1, <1>2, Zenon DEF HandleSignal
  <2>2. e.number \in 1..MaxSignals /\ priorities \in 0..MaxSignals
    BY DEF Signal, FeedbackInv, FeedbackTypeOK
  <2> QED BY <2>1, <2>2
<1>11. SignalsHandledOnce'
  BY <1>8, <1>9, Zenon DEF SignalsHandledOnce, Latest
<1>12. FeedbackTypeOK'
  BY <1>5, <1>7, <1>9, <1>10 DEF FeedbackInv, FeedbackTypeOK
<1> QED BY <1>1, <1>2, <1>5, <1>11, <1>12 DEF FeedbackInv

LEMMA FeedbackInvAlways == ASSUME FeedbackAssumption PROVE FeedbackSpec => []FeedbackInv
<1>1. FeedbackInit => FeedbackInv
  <2> SUFFICES ASSUME FeedbackInit PROVE FeedbackInv
    OBVIOUS
  <2>1. /\ <<>> \in Seq(Signal) /\ Len(<<>>) = 0 /\ \A s : OfStage(<<>>, s)
        /\ 0 <= ChannelCapacity /\ 0 <= MaxKept /\ 0 \in 0..MaxSignals /\ 0 \in 0..Len(Stages)
    BY DEF OfStage, FeedbackAssumption
  <2>2. FeedbackTypeOK
    BY <2>1 DEF FeedbackTypeOK, FeedbackInit
  <2>3. (<<>> \o <<>>) \o <<>> = <<>>
    BY <2>1, ConcatEmptySeq
  <2>4. Latest(<<>>) = <<>>
    <3>1. Latest(<<>>) = SubSeq(<<>>, 1, 0)
      BY DEF Latest, FeedbackAssumption
    <3> QED BY <3>1
  <2>5. ASSUME NEW i \in 1..Len(Stages)
        PROVE  accepted[Stages[i]] = (handled[Stages[i]]
                 \o (IF stageTurn = i THEN inHand ELSE <<>>)) \o channel[Stages[i]]
    <3>1. Stages[i] \in StageNames
      BY DEF StageNames
    <3>2. /\ accepted[Stages[i]] = <<>> /\ handled[Stages[i]] = <<>> /\ channel[Stages[i]] = <<>>
          /\ (IF stageTurn = i THEN inHand ELSE <<>>) = <<>>
      BY <3>1 DEF FeedbackInit
    <3> QED BY <2>3, <3>2, Zenon
  <2>6. SignalsHandledOnce
    BY <2>4, <2>5, Zenon DEF SignalsHandledOnce, FeedbackInit
  <2> QED BY <2>1, <2>2, <2>6 DEF FeedbackInv, FeedbackInit
<1>2. FeedbackInv /\ [FeedbackNext]_feedbackVars => FeedbackInv'
  <2> SUFFICES ASSUME FeedbackInv, [FeedbackNext]_feedbackVars PROVE FeedbackInv'
    OBVIOUS
  <2>1. ASSUME NEW s \in StageNames, NEW t \in SignalTypes, StageSends(s, t) PROVE FeedbackInv'
    <3>1. pendingErrors' \in [Device -> Nat]
      BY <2>1 DEF StageSends, FeedbackInv, FeedbackTypeOK
    <3> QED BY <2>1, <3>1, SendInv DEF StageSends
  <2>2. ASSUME NEW d \in Device, SendError(d) PROVE FeedbackInv'
    <3>1. /\ pendingErrors' \in [Device -> Nat] /\ "SyncReceiver" \in StageNames
          /\ "ErrorSignal" \in SignalTypes
      BY <2>2 DEF SendError, FeedbackInv, FeedbackTypeOK, FeedbackAssumption, StageNames,
                  SignalTypes
    <3> QED BY <2>2, <3>1, SendInv DEF SendError
  <2>3. ASSUME NEW d \in Device, ConsumeDeviceErrors(d) PROVE FeedbackInv'
    <3>1. pendingErrors' \in [Device -> Nat]
      BY <2>3 DEF ConsumeDeviceErrors, FeedbackInv, FeedbackTypeOK
    <3> QED BY <2>3, <3>1 DEF ConsumeDeviceErrors, FeedbackInv, FeedbackTypeOK,
                              SignalsHandledOnce, Latest
  <2>4. CASE DrainStage
    BY <2>4, DrainInv
  <2>5. CASE HandleSignal
    BY <2>5, HandleInv
  <2>6. CASE UNCHANGED feedbackVars
    BY <2>6 DEF feedbackVars, FeedbackInv, FeedbackTypeOK, SignalsHandledOnce, Latest
  <2> QED BY <2>1, <2>2, <2>3, <2>4, <2>5, <2>6 DEF FeedbackNext
<1> QED BY <1>1, <1>2, PTL DEF FeedbackSpec

\* What a stage's channel accepted is handled once and in order, whatever is sent
\* between two drains, and the adjustments that are kept are the latest; for any
\* stages, devices, capacity and number of adjustments kept.
THEOREM SignalsHandledOnceAlways ==
  ASSUME FeedbackAssumption PROVE FeedbackSpec => []SignalsHandledOnce
<1>1. FeedbackInv => SignalsHandledOnce
  BY DEF FeedbackInv
<1> QED BY <1>1, FeedbackInvAlways, PTL

\* No channel holds more than it may, no more adjustments are kept than may be.
THEOREM FeedbackTypes == ASSUME FeedbackAssumption PROVE FeedbackSpec => []FeedbackTypeOK
<1>1. FeedbackInv => FeedbackTypeOK
  BY DEF FeedbackInv
<1> QED BY <1>1, FeedbackInvAlways, PTL

-----------------------------------------------------------------------------
(***************************************************************************)
(* The circuit breaker. The inductive invariant ties the breaker to the     *)
(* history: while it is closed failure_count is the current streak of       *)
(* system errors, while it is not opened_at is the moment it last opened,   *)
(* and HalfOpen is only reached, and kept, when that moment is OpenTimeout  *)
(* ago.                                                                     *)
(***************************************************************************)
USE BreakerAssumption DEF BreakerAssumption

HistoryAgrees ==
  /\ breaker.state = "Closed" => breaker.failureCount = streak
  /\ breaker.state # "Closed" => breaker.openAge = sinceOpen
  /\ breaker.state = "HalfOpen" => breaker.openAge = OpenTimeout

IInv == TypeOK /\ CountersInRange /\ HistoryAgrees

-----------------------------------------------------------------------------
(* The transitions.                                                        *)

\* The parts of the invariant that speak of the breaker alone.
Sound(b) ==
  /\ b \in Breaker
  /\ b.state = "Closed" => b.failureCount < FailureThreshold
  /\ b.state = "HalfOpen" => /\ b.hoSuccesses < HalfOpenSuccessThreshold
                             /\ b.hoFailures < HalfOpenFailureThreshold
                             /\ b.openAge = OpenTimeout
  /\ b.openAge = NULL <=> b.state = "Closed"

\* The fields of a breaker that has just changed its state.
LEMMA ToOpenFields ==
  ASSUME NEW b \in Breaker
  PROVE  /\ ToOpen(b) \in Breaker
         /\ ToOpen(b).state = "Open" /\ ToOpen(b).openAge = 0
BY DEF ToOpen, Breaker, CircuitState

\* The same for a breaker that goes to HalfOpen.
LEMMA ToHalfOpenFields ==
  ASSUME NEW b \in Breaker
  PROVE  LET c == ToHalfOpen(b) IN
         /\ c \in Breaker /\ c.state = "HalfOpen"
         /\ c.hoSuccesses = 0 /\ c.hoFailures = 0 /\ c.openAge = b.openAge
BY DEF ToHalfOpen, Breaker, CircuitState

\* The same for a breaker that closes.
LEMMA ToClosedFields ==
  ASSUME NEW b \in Breaker
  PROVE  LET c == ToClosed(b) IN
         /\ c \in Breaker /\ c.state = "Closed"
         /\ c.failureCount = 0 /\ c.openAge = NULL
BY DEF ToClosed, Breaker, CircuitState

\* A check leaves the breaker sound; it changes it only from Open to HalfOpen,
\* when the timeout has passed.
LEMMA CheckSound ==
  ASSUME NEW b, Sound(b)
  PROVE  LET c == MaybeTransition(b) IN
         /\ Sound(c)
         /\ c.openAge = b.openAge
         /\ c # b => b.state = "Open" /\ c.state = "HalfOpen" /\ b.openAge = OpenTimeout
<1>1. CASE b.state = "Open" /\ b.openAge = OpenTimeout
  <2>1. MaybeTransition(b) = ToHalfOpen(b)
    BY <1>1 DEF MaybeTransition
  <2> QED BY <1>1, <2>1, ToHalfOpenFields DEF Sound
<1>2. CASE ~(b.state = "Open" /\ b.openAge = OpenTimeout)
  BY <1>2 DEF MaybeTransition
<1> QED BY <1>1, <1>2

\* A recorded success leaves the breaker sound, a closed one without failures,
\* and never opens it or moves opened_at.
LEMMA SuccessSound ==
  ASSUME NEW b, Sound(b)
  PROVE  LET c == RecordSuccess(b) IN
         /\ Sound(c)
         /\ c.state = "Closed" => c.failureCount = 0
         /\ c.state # "Closed" => c.state = b.state /\ c.openAge = b.openAge
<1>1. CASE b.state = "Closed"
  BY <1>1 DEF Sound, Breaker, CircuitState, RecordSuccess
<1>2. CASE b.state = "HalfOpen"
  <2> DEFINE d == [b EXCEPT !.hoSuccesses = b.hoSuccesses + 1]
  <2>1. RecordSuccess(b) = IF b.hoSuccesses + 1 >= HalfOpenSuccessThreshold
                             THEN ToClosed(d) ELSE d
    BY <1>2 DEF RecordSuccess
  <2>2. /\ d \in Breaker /\ d.state = b.state /\ d.openAge = b.openAge
        /\ d.hoSuccesses = b.hoSuccesses + 1 /\ d.hoFailures = b.hoFailures
    BY <1>2 DEF Sound, Breaker
  <2> HIDE DEF d
  <2>3. CASE b.hoSuccesses + 1 >= HalfOpenSuccessThreshold
    BY <2>1, <2>2, <2>3, ToClosedFields DEF Sound
  <2>4. CASE ~(b.hoSuccesses + 1 >= HalfOpenSuccessThreshold)
    <3>1. b.hoSuccesses + 1 < HalfOpenSuccessThreshold
      BY <1>2, <2>4 DEF Sound, Breaker
    <3> QED BY <1>2, <2>1, <2>2, <2>4, <3>1 DEF Sound
  <2> QED BY <2>3, <2>4
<1>3. CASE b.state = "Open"
  BY <1>3 DEF RecordSuccess
<1> QED BY <1>1, <1>2, <1>3 DEF Sound, Breaker, CircuitState

\* A recorded system error leaves the breaker sound; it counts in Closed, opens
\* a closed breaker only at the threshold, and sets opened_at when it opens one.
LEMMA FailureSound ==
  ASSUME NEW b, Sound(b)
  PROVE  LET c == RecordFailure(b) IN
         /\ Sound(c)
         /\ c.state = "Closed" => /\ b.state = "Closed"
                                  /\ c.failureCount = b.failureCount + 1
         /\ b.state = "Closed" /\ c.state = "Open"
              => b.failureCount + 1 = FailureThreshold
         /\ b.state # "Open" /\ c.state = "Open" => c.openAge = 0
         /\ b.state # "Closed" /\ (b.state = "Open" \/ c.state # "Open")
              => c.state = b.state /\ c.openAge = b.openAge
         /\ b.state = "Closed" => c.state \in {"Closed", "Open"}
<1>1. CASE b.state = "Closed"
  <2> DEFINE d == [b EXCEPT !.failureCount = b.failureCount + 1]
  <2>1. RecordFailure(b) = IF b.failureCount + 1 >= FailureThreshold
                             THEN ToOpen(d) ELSE d
    BY <1>1 DEF RecordFailure
  <2>2. b.failureCount + 1 >= FailureThreshold => b.failureCount + 1 = FailureThreshold
    BY <1>1 DEF Sound, Breaker
  <2>3. /\ d \in Breaker /\ d.state = "Closed" /\ d.openAge = b.openAge
        /\ d.failureCount = b.failureCount + 1
    BY <1>1 DEF Sound, Breaker
  <2> HIDE DEF d
  <2>4. CASE b.failureCount + 1 >= FailureThreshold
    BY <1>1, <2>1, <2>2, <2>3, <2>4, ToOpenFields DEF Sound
  <2>5. CASE ~(b.failureCount + 1 >= FailureThreshold)
    <3>1. b.failureCount + 1 < FailureThreshold
      BY <1>1, <2>5 DEF Sound, Breaker
    <3> QED BY <1>1, <2>1, <2>3, <2>5, <3>1 DEF Sound
  <2> QED BY <2>4, <2>5
<1>2. CASE b.state = "HalfOpen"
  <2> DEFINE d == [b EXCEPT !.hoFailures = b.hoFailures + 1]
  <2>1. RecordFailure(b) = IF b.hoFailures + 1 >= HalfOpenFailureThreshold
                             THEN ToOpen(d) ELSE d
    BY <1>2 DEF RecordFailure
  <2>2. /\ d \in Breaker /\ d.state = b.state /\ d.openAge = b.openAge
        /\ d.hoFailures = b.hoFailures + 1 /\ d.hoSuccesses = b.hoSuccesses
    BY <1>2 DEF Sound, Breaker
  <2> HIDE DEF d
  <2>3. CASE b.hoFailures + 1 >= HalfOpenFailureThreshold
    BY <1>2, <2>1, <2>2, <2>3, ToOpenFields DEF Sound
  <2>4. CASE ~(b.hoFailures + 1 >= HalfOpenFailureThreshold)
    <3>1. b.hoFailures + 1 < HalfOpenFailureThreshold
      BY <1>2, <2>4 DEF Sound, Breaker
    <3> QED BY <1>2, <2>1, <2>2, <2>4, <3>1 DEF Sound
  <2> QED BY <2>3, <2>4
<1>3. CASE b.state = "Open"
  BY <1>3 DEF RecordFailure
<1> QED BY <1>1, <1>2, <1>3 DEF Sound, Breaker, CircuitState

\* The invariant in terms of Sound.
LEMMA InvIsSound ==
  IInv <=> /\ TypeOK /\ Sound(breaker)
           /\ breaker.state = "Closed" => breaker.failureCount = streak
           /\ breaker.state # "Closed" => breaker.openAge = sinceOpen
BY DEF IInv, TypeOK, CountersInRange, HistoryAgrees, Sound

\* The same for the next state.
LEMMA InvIsSoundNext ==
  IInv' <=> /\ TypeOK' /\ Sound(breaker')
            /\ breaker'.state = "Closed" => breaker'.failureCount = streak'
            /\ breaker'.state # "Closed" => breaker'.openAge = sinceOpen'
BY DEF IInv, TypeOK, CountersInRange, HistoryAgrees, Sound

-----------------------------------------------------------------------------
\* Initially the invariant holds.
LEMMA InvInit == Init => IInv
BY DEF Init, IInv, TypeOK, CountersInRange, HistoryAgrees, New, Breaker,
       CircuitState, Idle, Call

\* Every step preserves the invariant.
LEMMA InvNext == IInv /\ [Next]_vars => IInv'
<1> SUFFICES ASSUME IInv, [Next]_vars PROVE IInv'
  OBVIOUS
<1> USE InvIsSound, InvIsSoundNext
<1>0. /\ breaker \in Breaker /\ calls \in [Callers -> Call \cup {Idle}]
      /\ up \in BOOLEAN /\ streak \in 0..FailureThreshold
      /\ sinceOpen \in 0..OpenTimeout /\ Sound(breaker)
  BY DEF TypeOK
<1>1. CASE Tick
  <2>1. breaker' \in Breaker /\ breaker'.state = breaker.state
    BY <1>0, <1>1 DEF Tick, Breaker
  <2>2. TypeOK'
    BY <1>0, <1>1, <2>1 DEF Tick, TypeOK
  <2>3. Sound(breaker')
    BY <1>0, <1>1, <2>1 DEF Tick, Sound, Breaker
  <2>4. breaker'.failureCount = breaker.failureCount
    BY <1>0, <1>1 DEF Tick, Breaker
  <2>5. breaker'.state # "Closed" => breaker'.openAge = sinceOpen'
    BY <1>0, <1>1, <2>1 DEF Tick, Breaker, Sound
  <2> QED BY <1>1, <2>1, <2>2, <2>3, <2>4, <2>5 DEF Tick
<1>2. CASE ServiceFailsOrRecovers
  BY <1>0, <1>2 DEF ServiceFailsOrRecovers, TypeOK
<1>3. ASSUME NEW c \in Callers, CheckRejects(c) PROVE IInv'
  BY <1>0, <1>3 DEF CheckRejects, Rejected, TypeOK
<1>4. ASSUME NEW c \in Callers, CheckAllows(c) PROVE IInv'
  <2>1. /\ Sound(breaker') /\ breaker'.openAge = breaker.openAge
        /\ breaker' # breaker => breaker.state = "Open" /\ breaker'.state = "HalfOpen"
    BY <1>0, <1>4, CheckSound DEF CheckAllows
  <2>2. breaker'.state \in {"Closed", "HalfOpen"}
    BY <1>4, <2>1 DEF CheckAllows, Sound, Breaker, CircuitState
  <2>3. [in |-> breaker'.state, result |-> "waiting"] \in Call
    BY <2>2 DEF Call
  <2>4. calls' = [calls EXCEPT ![c] = [in |-> breaker'.state, result |-> "waiting"]]
    BY <1>4 DEF CheckAllows
  <2>5. calls' \in [Callers -> Call \cup {Idle}]
    BY <1>0, <2>3, <2>4
  <2>6. TypeOK'
    BY <1>0, <1>4, <2>1, <2>5 DEF CheckAllows, TypeOK, Sound
  <2> QED BY <1>4, <2>1, <2>6 DEF CheckAllows
<1>5. ASSUME NEW c \in Callers, NEW result \in Outcome, RequestReturns(c, result)
      PROVE  IInv'
  <2>1. calls[c] \in Call
    BY <1>0, <1>5 DEF RequestReturns, Idle
  <2>2. calls' \in [Callers -> Call \cup {Idle}]
    BY <1>0, <1>5, <2>1 DEF RequestReturns, Call
  <2> QED BY <1>0, <1>5, <2>2 DEF RequestReturns, TypeOK
<1>6. ASSUME NEW c \in Callers, RecordSucceeded(c) PROVE IInv'
  <2>1. /\ Sound(breaker')
        /\ breaker'.state = "Closed" => breaker'.failureCount = 0
        /\ breaker'.state # "Closed" => /\ breaker'.state = breaker.state
                                        /\ breaker'.openAge = breaker.openAge
    BY <1>0, <1>6, SuccessSound DEF RecordSucceeded
  <2>2. TypeOK'
    BY <1>0, <1>6, <2>1 DEF RecordSucceeded, TypeOK, Sound
  <2> QED BY <1>6, <2>1, <2>2 DEF RecordSucceeded
<1>7. ASSUME NEW c \in Callers, RecordFailed(c) PROVE IInv'
  <2>1. calls' \in [Callers -> Call \cup {Idle}]
    BY <1>0, <1>7 DEF RecordFailed
  <2>2. streak' \in 0..FailureThreshold /\ sinceOpen' \in 0..OpenTimeout
    BY <1>0, <1>7 DEF RecordFailed
  <2>3. CASE calls[c].result = "system_error"
    <3>1. breaker' = RecordFailure(breaker)
      BY <1>7, <2>3 DEF RecordFailed, Counts
    <3>2. Sound(breaker')
      BY <1>0, <3>1, FailureSound
    <3>3. TypeOK'
      BY <1>0, <1>7, <2>1, <2>2, <3>2 DEF RecordFailed, TypeOK, Sound
    <3>4. breaker'.state = "Closed" => breaker'.failureCount = streak'
      <4> SUFFICES ASSUME breaker'.state = "Closed"
                   PROVE  breaker'.failureCount = streak'
        OBVIOUS
      <4>1. breaker.state = "Closed" /\ breaker'.failureCount = breaker.failureCount + 1
        BY <1>0, <3>1, FailureSound
      <4>2. streak < FailureThreshold /\ streak = breaker.failureCount
        BY <1>0, <4>1 DEF Sound
      <4>3. streak' = streak + 1
        BY <1>7, <2>3, <4>2 DEF RecordFailed
      <4> QED BY <4>1, <4>2, <4>3
    <3>5. breaker'.state # "Closed" => breaker'.openAge = sinceOpen'
      <4>1. CASE breaker.state # "Open" /\ breaker'.state = "Open"
        <5>1. breaker'.openAge = 0
          BY <1>0, <3>1, <4>1, FailureSound
        <5>2. sinceOpen' = 0
          BY <1>7, <4>1 DEF RecordFailed
        <5> QED BY <5>1, <5>2
      <4>2. CASE ~(breaker.state # "Open" /\ breaker'.state = "Open")
        <5>1. sinceOpen' = sinceOpen
          BY <1>7, <4>2 DEF RecordFailed
        <5>2. breaker'.state # "Closed" => /\ breaker.state # "Closed"
                                           /\ breaker'.openAge = breaker.openAge
          <6>1. breaker.state = "Closed" => breaker'.state \in {"Closed", "Open"}
            BY <1>0, <3>1, FailureSound
          <6>2. breaker.state # "Closed" => breaker'.openAge = breaker.openAge
            BY <1>0, <3>1, <4>2, FailureSound
          <6> QED BY <4>2, <6>1, <6>2
        <5> QED BY <5>1, <5>2
      <4> QED BY <4>1, <4>2
    <3> QED BY <3>2, <3>3, <3>4, <3>5
  <2>4. CASE calls[c].result # "system_error"
    <3>1. breaker' = breaker /\ streak' = streak /\ sinceOpen' = sinceOpen
      BY <1>7, <2>4 DEF RecordFailed, Counts
    <3> QED BY <1>0, <1>7, <2>1, <3>1 DEF RecordFailed, TypeOK
  <2> QED BY <2>3, <2>4
<1>8. ASSUME NEW c \in Callers, CallDropped(c) PROVE IInv'
  BY <1>0, <1>8 DEF CallDropped, TypeOK
<1>9. CASE UNCHANGED vars
  BY <1>0, <1>9 DEF vars, TypeOK
<1> QED BY <1>1, <1>2, <1>3, <1>4, <1>5, <1>6, <1>7, <1>8, <1>9 DEF Next

\* The inductive invariant holds in every reachable state.
LEMMA InvAlways == Spec => []IInv
BY InvInit, InvNext, PTL DEF Spec

-----------------------------------------------------------------------------
\* Type correctness: no counter ever passes its threshold.
THEOREM TypeCorrect == Spec => []TypeOK
<1>1. IInv => TypeOK
  BY DEF IInv
<1> QED BY <1>1, InvAlways, PTL

\* In Closed and HalfOpen the counters stay below the thresholds that would
\* have left the state, and opened_at is set exactly while not closed.
THEOREM CountersStayInRange == Spec => []CountersInRange
<1>1. IInv => CountersInRange
  BY DEF IInv
<1> QED BY <1>1, InvAlways, PTL

\* From Closed the circuit opens only on a streak of FailureThreshold system
\* errors.
THEOREM OpensOnStreakOnly == Spec => TripsOnStreak
<1> DEFINE Trips == breaker.state = "Closed" /\ breaker'.state = "Open"
                      => streak' = FailureThreshold
<1>1. IInv /\ [Next]_vars => [Trips]_vars
  <2> SUFFICES ASSUME IInv, Next, breaker.state = "Closed", breaker'.state = "Open"
               PROVE  streak' = FailureThreshold
    BY DEF vars
  <2>0. Sound(breaker) /\ breaker.failureCount = streak /\ breaker \in Breaker
    BY InvIsSound DEF Sound
  <2>1. PICK c \in Callers : RecordFailed(c)
    <3>1. ~Tick /\ ~ServiceFailsOrRecovers
      BY <2>0 DEF Tick, ServiceFailsOrRecovers, Breaker
    <3>2. \A c \in Callers : ~CheckRejects(c) /\ ~CheckAllows(c)
      BY <2>0 DEF CheckRejects, CheckAllows, Rejected, MaybeTransition
    <3>3. \A c \in Callers : /\ \A result \in Outcome : ~RequestReturns(c, result)
                             /\ ~CallDropped(c)
      BY DEF RequestReturns, CallDropped
    <3>4. \A c \in Callers : ~RecordSucceeded(c)
      BY <2>0, SuccessSound DEF RecordSucceeded
    <3> QED BY <3>1, <3>2, <3>3, <3>4 DEF Next
  <2>2. calls[c].result = "system_error" /\ breaker' = RecordFailure(breaker)
    BY <2>1 DEF RecordFailed, Counts
  <2>3. streak + 1 = FailureThreshold
    BY <2>0, <2>2, FailureSound
  <2>4. streak < FailureThreshold
    BY <2>0 DEF Sound
  <2> QED BY <2>1, <2>2, <2>3, <2>4 DEF RecordFailed
<1>2. Spec => [][Trips]_vars
  BY <1>1, InvAlways, PTL DEF Spec
<1> QED BY <1>2 DEF TripsOnStreak

\* After the circuit opened, no call passes for OpenTimeout unless it closed.
THEOREM QuietWhileOpen == Spec => QuietAfterOpening
<1> DEFINE NoneLetThrough == \A c \in Callers :
                      calls[c] = Idle /\ calls'[c] # Idle /\ sinceOpen < OpenTimeout
                        => breaker.state = "Closed"
<1>1. IInv /\ [Next]_vars => [NoneLetThrough]_vars
  <2> SUFFICES ASSUME IInv, Next, NEW c \in Callers,
                      calls[c] = Idle, calls'[c] # Idle, sinceOpen < OpenTimeout
               PROVE  breaker.state = "Closed"
    BY DEF vars
  <2>0. /\ Sound(breaker) /\ breaker \in Breaker /\ sinceOpen \in 0..OpenTimeout
        /\ calls \in [Callers -> Call \cup {Idle}]
        /\ breaker.state # "Closed" => breaker.openAge = sinceOpen
    BY InvIsSound DEF TypeOK
  <2>1. PICK d \in Callers : CheckAllows(d)
    <3>1. calls' # calls
      OBVIOUS
    <3>2. ~Tick /\ ~ServiceFailsOrRecovers /\ \A d \in Callers : ~CheckRejects(d)
      BY <3>1 DEF Tick, ServiceFailsOrRecovers, CheckRejects
    <3>3. \A d \in Callers : ~RecordSucceeded(d) /\ ~RecordFailed(d) /\ ~CallDropped(d)
      BY <2>0 DEF RecordSucceeded, RecordFailed, CallDropped, Idle
    <3>4. \A d \in Callers, result \in Outcome : ~RequestReturns(d, result)
      BY <2>0 DEF RequestReturns, Idle
    <3> QED BY <3>2, <3>3, <3>4 DEF Next
  <2>2. MaybeTransition(breaker).state # "Open"
    BY <2>1 DEF CheckAllows
  <2>3. breaker.state # "Closed" => breaker.openAge = OpenTimeout
    BY <2>0, <2>2 DEF MaybeTransition, Sound, Breaker, CircuitState
  <2> QED BY <2>0, <2>3
<1>2. Spec => [][NoneLetThrough]_vars
  BY <1>1, InvAlways, PTL DEF Spec
<1> QED BY <1>2 DEF QuietAfterOpening
-----------------------------------------------------------------------------
\* The run's specification: of the three parts, which share no state, a step moves one and
\* leaves the others alone, so it implements the specification of each.
LEMMA LoopsAreParts == LoopsSpec => Spec /\ OodaSpec /\ FeedbackSpec
<1>1. LoopsInit => Init /\ OodaInit /\ FeedbackInit
  BY DEF LoopsInit
<1>2. [LoopsNext]_loopsVars => [Next]_vars /\ [OodaNext]_oodaVars /\ [FeedbackNext]_feedbackVars
  BY Zenon DEF LoopsNext, BreakerMoves, OodaMoves, FeedbackMoves, loopsVars
<1> QED BY <1>1, <1>2, PTL DEF LoopsSpec, Spec, OodaSpec, FeedbackSpec

\* loops/: no counter stays at the threshold that should have changed the breaker's state,
\* no history, ring or channel holds more than it may, and loops, cycles under way and
\* signals keep their types; for any bounds and any callers, loops and stages.
THEOREM LoopsTypesAlways == LoopsSpec => []LoopsTypeOK
<1>1. CountersInRange /\ OodaTypeOK /\ FeedbackTypeOK => LoopsTypeOK
  BY DEF LoopsTypeOK
<1>2. OodaAssumption /\ FeedbackAssumption
  BY InstancesAssumption
<1> QED BY <1>1, <1>2, LoopsAreParts, CountersStayInRange, OodaTypes, FeedbackTypes, PTL
=============================================================================
