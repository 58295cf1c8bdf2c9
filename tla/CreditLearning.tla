----------------------------- MODULE CreditLearning -----------------------------
(***************************************************************************)
(* What is learnt from the outcomes of predictions and of loans. The drift  *)
(* detector of loops/drift_detection.rs keeps windows of the newest         *)
(* outcomes, over all cohorts and of each, and makes a report of them.      *)
(* CreditFeedbackLoop and ScoreCalibration of loops/credit_feedback.rs,     *)
(* with the BayesianCalibrator of drift_detection.rs, lead from a score to  *)
(* the outcome of its loan and to a new model. Scores, values, confidences  *)
(* and accuracies in tenths; a comparison of quotients is one of products;  *)
(* of a bin its sums are kept instead of its means. Left out are two        *)
(* branches no state reaches: nothing ever increments consecutive_degraded  *)
(* nor sets the predicted default rate. An outcome is looked up by its      *)
(* loan's id among ids of scores: the two may agree or not.                 *)
(***************************************************************************)
EXTENDS Integers, FiniteSets, SequencesExt

CONSTANTS PredictedCohort, Value, Confidence,   \* of a prediction
          DriftWindow, MinDriftSamples, MinCohortSamples,
          AccuracyThreshold, ConfidenceThreshold, DegradationPercent,   \* DriftConfig
          Baseline, MaxSamples,           \* baselines given; bound
          LoanCohort, LoanId, Score,      \* of a scored loan
          MaxPending, MaxLoanOutcomes, MinOutcomes,   \* min_outcomes_for_retrain
          RetrainDays, MaxDays, MaxRecorded       \* 30; bounds

VARIABLES globalWindow, cohortWindows, baseline, isRolledBack,
          outcomeLog, cohortLog,   \* history: all outcomes, those of each cohort,
          judgedFrom,              \* and how many came before the present model
          pendingScores,    \* score_id -> cohort
          loanOutcomes,     \* the newest, with their types
          calibration,      \* bins, overall and per cohort, since the last retraining
          performance,      \* total_outcomes_recorded, default_rate_actual, last_retrain
          days,
          recorded          \* history: every outcome

-----------------------------------------------------------------------------
(* Drift.                                                                  *)

driftVars == <<globalWindow, cohortWindows, baseline, isRolledBack, outcomeLog, cohortLog,
               judgedFrom>>

DriftInit ==
  /\ globalWindow = <<>> /\ cohortWindows = [c \in {} |-> <<>>]
  /\ baseline \in Baseline /\ isRolledBack = FALSE
  /\ outcomeLog = <<>> /\ cohortLog = [c \in {} |-> <<>>] /\ judgedFrom = 0

Distance(a, b) == IF a < b THEN b - a ELSE a - b
IsPredictionCorrect(predicted, actual, confidence) ==
  IF actual \in {0, 10} THEN predicted >= 5 <=> actual >= 5
  ELSE 10 * Distance(predicted, actual) <= 10 + 2 * (10 - confidence)

Unbounded(w, s) == Append(w, s)                                  \* fault
Push(w, s) == Append(IF Len(w) >= DriftWindow THEN Tail(w) ELSE w, s)

\* What is kept for a cohort, nothing at first.
OfCohort(windows, c) == IF c \in DOMAIN windows THEN windows[c] ELSE <<>>
WithCohort(windows, c, w) ==
  [d \in DOMAIN windows \cup {c} |-> IF d = c THEN w ELSE windows[d]]

RecordPredictionOutcome(predicted, actual, confidence, cohort) ==
  /\ Len(outcomeLog) < MaxSamples
  /\ LET s == [correct |-> IsPredictionCorrect(predicted, actual, confidence),
               confidence |-> confidence]
     IN /\ globalWindow' = Push(globalWindow, s)
        /\ cohortWindows' =
             WithCohort(cohortWindows, cohort, Push(OfCohort(cohortWindows, cohort), s))
        /\ outcomeLog' = Append(outcomeLog, s)
        /\ cohortLog' = WithCohort(cohortLog, cohort, Append(OfCohort(cohortLog, cohort), s))
  /\ UNCHANGED <<baseline, isRolledBack, judgedFrom>>

\* apply_new_model and rollback: the windows stay as they are.
ApplyNewModel(b) ==
  /\ baseline' = b /\ isRolledBack' = FALSE /\ judgedFrom' = Len(outcomeLog)
  /\ UNCHANGED <<globalWindow, cohortWindows, outcomeLog, cohortLog>>
Rollback ==
  /\ isRolledBack' = TRUE /\ judgedFrom' = Len(outcomeLog)
  /\ UNCHANGED <<globalWindow, cohortWindows, baseline, outcomeLog, cohortLog>>

Correct(w) == Cardinality({i \in 1..Len(w) : w[i].correct})
Trust(w) == FoldSeq(LAMBDA s, sum : s.confidence + sum, 0, w)

\* generate_report on a window.
DegradedMoreThan(w, percent) ==
  /\ baseline > 0
  /\ (baseline * Len(w) - 10 * Correct(w)) * 100 > percent * baseline * Len(w)
LessTrusted(w, tenths) == Trust(w) < tenths * Len(w)
DriftDetected(w) ==
  /\ Len(w) >= MinDriftSamples
  /\ \/ 10 * Correct(w) < AccuracyThreshold * Len(w)
     \/ DegradedMoreThan(w, DegradationPercent)
     \/ LessTrusted(w, ConfidenceThreshold)

\* find_worst_cohort, any of them if several are.
WorstCohorts ==
  LET sampled == {c \in DOMAIN cohortWindows : Len(cohortWindows[c]) >= MinCohortSamples}
      Rate(c, n) == Correct(cohortWindows[c]) * n
  IN {c \in sampled : \A d \in sampled :
        Rate(c, Len(cohortWindows[d])) <= Rate(d, Len(cohortWindows[c]))}

DriftType(w) ==
  IF ~DriftDetected(w) THEN "none"
  ELSE IF DegradedMoreThan(w, 30) THEN "SuddenDrift"
  ELSE IF DegradedMoreThan(w, DegradationPercent) THEN "GradualDrift"
  ELSE IF LessTrusted(w, ConfidenceThreshold) THEN "CalibrationDrift"
  ELSE IF WorstCohorts # {} THEN "CohortDrift" ELSE "none"

\* determine_recommendation.
Recommendation(w) ==
  IF ~DriftDetected(w) THEN "NoAction"
  ELSE IF DegradedMoreThan(w, 30) \/ LessTrusted(w, 3) THEN "Rollback"
  ELSE IF DriftType(w) = "CalibrationDrift" THEN "Recalibrate" ELSE "Monitor"

DriftNext ==
  \/ \E p \in Value, a \in Value, confidence \in Confidence, c \in PredictedCohort :
       RecordPredictionOutcome(p, a, confidence, c)
  \/ \E b \in Baseline : ApplyNewModel(b)
  \/ Rollback
DriftSpec == DriftInit /\ [][DriftNext]_driftVars

-----------------------------------------------------------------------------
(* Calibration and retraining.                                             *)

feedbackVars == <<pendingScores, loanOutcomes, calibration, performance, days, recorded>>

Bins == 0..9
DefaultPrior == [alpha |-> 2, beta |-> 2]
NewCalibration ==
  [bins |-> [b \in Bins |-> [count |-> 0, predicted |-> 0, actual |-> 0]],
   overall |-> DefaultPrior, cohorts |-> [c \in {} |-> 0]]

FeedbackInit ==
  /\ pendingScores = [i \in {} |-> 0] /\ loanOutcomes = <<>> /\ calibration = NewCalibration
  /\ performance = [recorded |-> 0, defaults |-> 0, lastRetrain |-> -1]
  /\ days = 0 /\ recorded = <<>>

Without(f, keys) == [x \in DOMAIN f \ keys |-> f[x]]
With(f, key, value) == [x \in DOMAIN f \cup {key} |-> IF x = key THEN value ELSE f[x]]

\* record_score: at the limit the first key the map yields is dropped, whichever.
RecordScore(id, cohort) ==
  /\ \E dropped \in IF Cardinality(DOMAIN pendingScores) >= MaxPending
                    THEN {{k} : k \in DOMAIN pendingScores} ELSE {{}} :
       pendingScores' = With(Without(pendingScores, dropped), id, cohort)
  /\ UNCHANGED <<loanOutcomes, calibration, performance, days, recorded>>

Update(c, repaid) == IF repaid THEN [c EXCEPT !.alpha = @ + 1] ELSE [c EXCEPT !.beta = @ + 1]
BinOf(score) == IF score > 9 THEN 9 ELSE score
RecordInBinOnly(cal, score, repaid, cohort) ==                    \* fault
  [cal EXCEPT !.bins[BinOf(score)] =
     [count |-> @.count + 1, predicted |-> @.predicted + score,
      actual |-> @.actual + (IF repaid THEN 1 ELSE 0)]]
Record(cal, score, repaid, cohort) ==
  [bins |-> [cal.bins EXCEPT ![BinOf(score)] =
               [count |-> @.count + 1, predicted |-> @.predicted + score,
                actual |-> @.actual + (IF repaid THEN 1 ELSE 0)]],
   overall |-> Update(cal.overall, repaid),
   cohorts |-> With(cal.cohorts, cohort,
                    Update(IF cohort \in DOMAIN cal.cohorts THEN cal.cohorts[cohort]
                           ELSE DefaultPrior, repaid))]

\* record_outcome and update_performance: a loan still outstanding counts as
\* not repaid, and its score is no longer awaited.
RecordLoanOutcome(id, score, type) ==
  /\ Len(recorded) < MaxRecorded
  /\ LET cohort == IF id \in DOMAIN pendingScores THEN pendingScores[id] ELSE "unknown"
         kept == Append(IF Len(loanOutcomes) >= MaxLoanOutcomes THEN Tail(loanOutcomes)
                        ELSE loanOutcomes, type)
     IN /\ calibration' = Record(calibration, score, type = "Repaid", cohort)
        /\ loanOutcomes' = kept
        /\ performance' = [performance EXCEPT
             !.recorded = @ + 1,
             !.defaults = Cardinality({i \in 1..Len(kept) : kept[i] = "Defaulted"})]
        /\ recorded' = Append(recorded, type)
  /\ pendingScores' = Without(pendingScores, {id})
  /\ UNCHANGED days

ApplyRetrainedModel ==
  /\ calibration' = NewCalibration
  /\ performance' = [performance EXCEPT !.lastRetrain = days]
  /\ UNCHANGED <<pendingScores, loanOutcomes, days, recorded>>

DayPasses ==
  /\ days < MaxDays /\ days' = days + 1
  /\ UNCHANGED <<pendingScores, loanOutcomes, calibration, performance, recorded>>

\* expected_calibration_error > 0.10.
InBins(cal) == SumFunction([b \in Bins |-> cal.bins[b].count])
BinGap(bin) == LET d == bin.predicted - 10 * bin.actual IN IF d < 0 THEN -d ELSE d
NeedsRecalibration ==
  /\ InBins(calibration) > 0
  /\ SumFunction([b \in Bins |-> BinGap(calibration.bins[b])]) > InBins(calibration)

ShouldRetrain ==
  /\ performance.recorded >= MinOutcomes
  /\ \/ NeedsRecalibration
     \/ performance.lastRetrain >= 0 /\ days - performance.lastRetrain > RetrainDays

FeedbackNext ==
  \/ ApplyRetrainedModel \/ DayPasses
  \/ \E id \in LoanId, c \in LoanCohort : RecordScore(id, c)
  \/ \E id \in LoanId, s \in Score, type \in {"Repaid", "Defaulted", "Outstanding"} :
       RecordLoanOutcome(id, s, type)
FeedbackSpec == FeedbackInit /\ [][FeedbackNext]_feedbackVars

LearningAssumption ==
  /\ {DriftWindow, MaxPending, MaxLoanOutcomes} \subseteq Nat \ {0}
  /\ {MaxSamples, MaxDays, MaxRecorded, RetrainDays} \subseteq Nat
  /\ Value \cup Confidence \subseteq Int

-----------------------------------------------------------------------------
NewestOf(s, n) == SubSeq(s, Len(s) - (IF Len(s) < n THEN Len(s) ELSE n) + 1, Len(s))
Own == SubSeq(outcomeLog, judgedFrom + 1, Len(outcomeLog))

\* A report speaks of the newest outcomes, in each cohort of its own, and of
\* those of a model alone once it has had a windowful.
ReportsNewest ==
  /\ globalWindow = NewestOf(outcomeLog, DriftWindow)
  /\ DOMAIN cohortWindows = DOMAIN cohortLog
  /\ \A c \in DOMAIN cohortWindows : cohortWindows[c] = NewestOf(cohortLog[c], DriftWindow)
  /\ Len(Own) >= DriftWindow =>
       Recommendation(globalWindow) = Recommendation(NewestOf(Own, DriftWindow))

\* Models that are right and sure of themselves for a window are left alone.
SureModelsStay ==
  /\ Len(Own) >= DriftWindow
  /\ \A i \in 1..Len(Own) : Own[i].correct /\ Own[i].confidence >= ConfidenceThreshold
  => Recommendation(globalWindow) = "NoAction"

Observations(c) == c.alpha + c.beta - 4

\* Every outcome is counted, and none twice by the prior: the default rate is that
\* of the newest outcomes; nothing is awaited beyond the limit; and a model that
\* was just applied is not to be retrained at once.
OutcomesCounted ==
  /\ performance.recorded = Len(recorded)
  /\ Observations(calibration.overall) <= Len(recorded)
  /\ LET newest == {i \in 1..Len(recorded) : i > Len(recorded) - MaxLoanOutcomes}
     IN performance.defaults = Cardinality({i \in newest : recorded[i] = "Defaulted"})
  /\ Cardinality(DOMAIN pendingScores) <= MaxPending
  /\ performance.lastRetrain = days /\ InBins(calibration) = 0 => ~ShouldRetrain

\* An outcome is in the calibration once, in a bin, overall and for one cohort,
\* until a new model starts it anew.
CalibrationAddsUp ==
  /\ InBins(calibration) = Observations(calibration.overall)
  /\ InBins(calibration) =
       SumFunction([c \in DOMAIN calibration.cohorts |->
                             Observations(calibration.cohorts[c])])
=============================================================================
