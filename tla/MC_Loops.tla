------------------------------- MODULE MC_Loops -------------------------------
(***************************************************************************)
(* One run for the breaker, the OODA loops and pipeline feedback. They      *)
(* share no state; `part` picks the one that moves. The breaker has three   *)
(* callers, the default half-open thresholds (3 and 2), the M-Pesa failure  *)
(* threshold (3) and a timeout of two ticks. The four OODA loops move in    *)
(* three parts: in "shutdown" they are shut down, with a cycle or an event  *)
(* before; in "cycles" they run two, which a history of one cannot hold; in *)
(* "lag" two events are sent, which a ring of one cannot hold. No symmetry: *)
(* the run checks liveness.                                                 *)
(***************************************************************************)
EXTENDS CircuitBreaker, OodaLoop, PipelineFeedback

VARIABLE part

\* A .cfg has no sequences: two of the six stages.
TwoStages == <<"SyncReceiver", "Aggregator">>

ASSUME InstancesAssumption == OodaAssumption /\ FeedbackAssumption

loopsVars == <<part, vars, oodaVars, feedbackVars>>

LoopsInit ==
  /\ part \in {"breaker", "shutdown", "cycles", "lag", "feedback"}
  /\ Init /\ OodaInit /\ FeedbackInit

BreakerMoves == part = "breaker" /\ UNCHANGED <<part, oodaVars, feedbackVars>>
OodaMoves ==
  /\ \/ part = "shutdown" /\ CyclesBegun' + eventsSent' <= 1
     \/ part = "cycles" /\ eventsSent' <= 1 /\ closing' = "no"
        /\ (CyclesBegun' + eventsSent' > 0 => Subscribed = Loops)
     \/ part = "lag" /\ CyclesBegun' <= 1 /\ closing' = "no"
  /\ UNCHANGED <<part, vars, feedbackVars>>
FeedbackMoves == part = "feedback" /\ UNCHANGED <<part, vars, oodaVars>>

LoopsNext == \/ BreakerMoves /\ Next
             \/ OodaNext /\ OodaMoves
             \/ FeedbackMoves /\ FeedbackNext

\* The fairness of each part, as its module gives the reasons for it. A bounded
\* number of cycles spares the OODA loops the strong form.
LoopsFairness ==
  /\ WF_loopsVars(BreakerMoves /\ Tick)
  /\ \A c \in Callers :
       /\ WF_loopsVars(BreakerMoves /\ (CheckRejects(c) \/ CheckAllows(c)))
       /\ WF_loopsVars(BreakerMoves /\ \E result \in Outcome : RequestReturns(c, result))
       /\ SF_loopsVars(BreakerMoves /\ RequestReturns(c, "success"))
       /\ SF_loopsVars(BreakerMoves /\ RecordSucceeded(c))
       /\ WF_loopsVars(BreakerMoves /\ RecordFailed(c))
  /\ WF_loopsVars(Joined /\ OodaMoves)
  /\ \A l \in Loops : WF_loopsVars((Polled(l) \/ StopLoop(l)) /\ OodaMoves)
  /\ WF_loopsVars(FeedbackMoves /\ FeedbackLoopStep)

LoopsSpec == LoopsInit /\ [][LoopsNext]_loopsVars /\ LoopsFairness

-----------------------------------------------------------------------------
\* The types of the parts besides the breaker.
LoopsTypeOK == CountersInRange /\ OodaTypeOK /\ FeedbackTypeOK

\* loops/: a shutdown all loops heard ends, every feedback channel is drained.
LoopsProgress == ShutdownEnds /\ SignalsAreHandled
=============================================================================
