--------------------------- MODULE PipelineFeedback ---------------------------
(***************************************************************************)
(* loops/pipeline_feedback.rs: bounded channels between pipeline stages,    *)
(* which any stage fills with try_send, and the background loop that drains *)
(* them stage by stage and applies what the signals say.                    *)
(***************************************************************************)
EXTENDS Integers, Sequences

CONSTANTS Stages,            \* the stages, in the order the loop visits them
          Device,            \* ids of devices
          ChannelCapacity,   \* of the mpsc channel of a stage (1000)
          MaxKept,           \* adjustments that are kept (100)
          MaxSignals         \* bound: signals sent

VARIABLES channel,        \* stage -> signals in its channel
          pendingErrors,  \* device -> errors queued for its next sync
          adjustments,    \* aggregation_adjustments
          priorities,     \* collection_priorities: the signal they came with
          stageTurn,      \* the stage the loop is at; 0: it waits for its tick
          inHand,         \* signals drained and not handled yet
          sent,                      \* history: signals sent, refused ones included,
          accepted, handled,         \* those of each stage, and
          adjusted                   \* the adjustments of all

feedbackVars == <<channel, pendingErrors, adjustments, priorities, stageTurn, inHand,
                  sent, accepted, handled, adjusted>>

StageNames == {Stages[i] : i \in 1..Len(Stages)}
\* Error signals, quality metrics and the like are only logged by the loop.
SignalTypes == {"ErrorSignal", "ParameterAdjustment", "PriorityChange"}
Signal == [type : SignalTypes, stage : StageNames, number : 1..MaxSignals]

FeedbackInit ==
  /\ channel = [s \in StageNames |-> <<>>]
  /\ pendingErrors = [d \in Device |-> 0]
  /\ adjustments = <<>> /\ priorities = 0
  /\ stageTurn = 0 /\ inHand = <<>>
  /\ accepted = [s \in StageNames |-> <<>>] /\ handled = [s \in StageNames |-> <<>>]
  /\ sent = 0 /\ adjusted = <<>>

\* send: a full channel refuses the signal, the sender goes on.
Send(stage, type) ==
  LET signal == [type |-> type, stage |-> stage, number |-> sent + 1]
  IN /\ sent < MaxSignals /\ sent' = sent + 1
     /\ IF Len(channel[stage]) < ChannelCapacity
        THEN /\ channel' = [channel EXCEPT ![stage] = Append(@, signal)]
             /\ accepted' = [accepted EXCEPT ![stage] = Append(@, signal)]
        ELSE UNCHANGED <<channel, accepted>>

StageSends(stage, type) ==
  /\ Send(stage, type)
  /\ UNCHANGED <<pendingErrors, adjustments, priorities, stageTurn, inHand, handled, adjusted>>

\* send_error: to the receiver's stage, and whatever became of that, also to
\* the errors the device is to be told at its next sync.
SendError(device) ==
  /\ Send("SyncReceiver", "ErrorSignal")
  /\ pendingErrors' = [pendingErrors EXCEPT ![device] = @ + 1]
  /\ UNCHANGED <<adjustments, priorities, stageTurn, inHand, handled, adjusted>>

ConsumeDeviceErrors(device) ==
  /\ pendingErrors[device] > 0
  /\ pendingErrors' = [pendingErrors EXCEPT ![device] = 0]
  /\ UNCHANGED <<channel, adjustments, priorities, stageTurn, inHand, sent, accepted, handled,
                 adjusted>>

\* run: at its tick the loop takes all a stage has, handles it, goes to the next.
\* What is sent to a stage meanwhile waits for the next tick.
FirstOnly(q) == IF q = <<>> THEN <<>> ELSE <<Head(q)>>     \* fault: the rest is dropped
Drained(q) == q
SkipsLast == (stageTurn + 1) % Len(Stages)                 \* fault
NextStage == (stageTurn + 1) % (Len(Stages) + 1)
DrainStage ==
  /\ inHand = <<>>
  /\ stageTurn' = NextStage
  /\ IF stageTurn' = 0 THEN UNCHANGED <<channel, inHand>>
     ELSE /\ inHand' = Drained(channel[Stages[stageTurn']])
          /\ channel' = [channel EXCEPT ![Stages[stageTurn']] = <<>>]
  /\ UNCHANGED <<pendingErrors, adjustments, priorities, sent, accepted, handled, adjusted>>

\* record_aggregation_adjustment keeps the latest.
KeepAll(s) == s                                            \* fault: no bound
KeepLatest(s) == IF Len(s) > MaxKept THEN Tail(s) ELSE s

HandleSignal ==
  /\ inHand # <<>> /\ inHand' = Tail(inHand)
  /\ LET signal == Head(inHand)
         adjusts == signal.type = "ParameterAdjustment"
     IN /\ handled' = [handled EXCEPT ![signal.stage] = Append(@, signal)]
        /\ adjusted' = IF adjusts THEN Append(adjusted, signal) ELSE adjusted
        /\ adjustments' = IF adjusts THEN KeepLatest(Append(adjustments, signal))
                          ELSE adjustments
        /\ priorities' = IF signal.type = "PriorityChange" THEN signal.number ELSE priorities
  /\ UNCHANGED <<channel, pendingErrors, stageTurn, sent, accepted>>

FeedbackNext ==
  \/ \E s \in StageNames, t \in SignalTypes : StageSends(s, t)
  \/ \E d \in Device : SendError(d) \/ ConsumeDeviceErrors(d)
  \/ DrainStage \/ HandleSignal

FeedbackSpec == FeedbackInit /\ [][FeedbackNext]_feedbackVars

\* The background task runs.
FeedbackLoopStep == DrainStage \/ HandleSignal

\* Six stages, one of them the receiver of uploads.
FeedbackAssumption ==
  /\ Stages \in Seq(STRING) /\ \E i \in 1..Len(Stages) : Stages[i] = "SyncReceiver"
  /\ \A i, j \in 1..Len(Stages) : Stages[i] = Stages[j] => i = j
  /\ ChannelCapacity \in Nat /\ MaxKept \in Nat /\ MaxSignals \in Nat

-----------------------------------------------------------------------------
FeedbackTypeOK ==
  /\ channel \in [StageNames -> Seq(Signal)] /\ accepted \in [StageNames -> Seq(Signal)]
  /\ handled \in [StageNames -> Seq(Signal)]
  /\ inHand \in Seq(Signal) /\ adjusted \in Seq(Signal) /\ adjustments \in Seq(Signal)
  /\ \A s \in StageNames : Len(channel[s]) <= ChannelCapacity
  /\ stageTurn \in 0..Len(Stages) /\ Len(adjustments) <= MaxKept
  /\ priorities \in 0..MaxSignals /\ sent \in 0..MaxSignals
  /\ pendingErrors \in [Device -> Nat]

Latest(s) == SubSeq(s, IF Len(s) > MaxKept THEN Len(s) - MaxKept + 1 ELSE 1, Len(s))

\* What a stage's channel accepted is handled once, in the order it was sent,
\* however sends fall between the drains; the adjustments that are kept are the
\* latest that were handled.
SignalsHandledOnce ==
  /\ \A i \in 1..Len(Stages) :
       accepted[Stages[i]] = handled[Stages[i]]
         \o (IF stageTurn = i THEN inHand ELSE <<>>) \o channel[Stages[i]]
  /\ adjustments = Latest(adjusted)

\* Every channel is drained again and again.
SignalsAreHandled ==
  \A s \in StageNames : channel[s] # <<>> ~> channel[s] = <<>>
=============================================================================
