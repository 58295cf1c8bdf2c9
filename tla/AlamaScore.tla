------------------------------- MODULE AlamaScore -------------------------------
(***************************************************************************)
(* credit/score_fusion.rs, credit/score_verification.rs, seasonality.rs and *)
(* base_features.rs: the score of a worker is made of a base score and the  *)
(* score of the features of the worker's type, given an interval, and       *)
(* verified; income that follows the seasons is held against the season.    *)
(* Probabilities and ratios are thousandths, rounded; the logistic function *)
(* is interpolated. SHAP explanations are left out.                         *)
(***************************************************************************)
EXTENDS Integers, FiniteSets, SequencesExt

WT == INSTANCE WorkerTypes

Abs(x) == IF x < 0 THEN -x ELSE x
Clamp(x, low, high) == IF x < low THEN low ELSE IF x > high THEN high ELSE x
Sum(s) == FoldLeft(+, 0, s)
\* 1 / (1 + e^-x), x in thousandths, between points 0.5 apart.
Sigmoid(x) ==
  LET points == <<500, 622, 731, 818, 881, 924, 953, 971, 982, 989, 993>>
      at == Clamp(Abs(x), 0, 4999)
      i == at \div 500 + 1
      value == points[i] + ((points[i + 1] - points[i]) * (at % 500)) \div 500
  IN IF x < 0 THEN 1000 - value ELSE value

(* score_fusion.rs *******************************************************)

\* The features compute_type_score knows, and their log-odds in tenths.
Weights == [transaction_volume |-> 12, active_days_ratio |-> 8, revenue_stability |-> 10, product_diversity |-> 3,
            income_consistency |-> 9, repayment_history |-> 15, loan_count |-> -5, recency |-> 7,
            region_economic_index |-> 4, income_trajectory |-> 6]
LogOdds(vector) ==
  FoldSet(LAMBDA name, z : z + (Weights[name] * vector[name]) \div 10, -1500,
          DOMAIN vector \cap DOMAIN Weights)
TypeScore(vector) == Sigmoid(LogOdds(vector))
\* calibrate with a = -1 and b = 0, the default of every type.
Calibrate(fused) == Sigmoid(fused)
Confidence(base, typeScore) == Clamp(600 + (300 * (1000 - Abs(base - typeScore))) \div 1000, 0, 1000)
\* p (1 - p) / (10 confidence), more the fewer transactions: 1 + 1 / sqrt(n), n a
\* square or zero here; within 10..300.
StandardError(calibrated, confidence, transactions) ==
  LET p == Clamp(calibrated, 10, 990)
      root == CHOOSE r \in 1..1000 : r * r = transactions \/ (transactions = 0 /\ r = 1)
  IN Clamp((((p * (1000 - p)) \div (10 * confidence)) * (root + 1)) \div root, 10, 300)
ToAlama(p) == 300 + (550 * p + 500) \div 1000
\* compute_score of a type with a vector ({}: none), without a SHAP model.
FusedScore(weight, calibrated, confidence, error, impacts) ==
  [alama |-> Clamp(ToAlama(calibrated), 300, 850), raw |-> calibrated, confidence |-> confidence,
   lower |-> Clamp(ToAlama(Clamp(calibrated - (196 * error) \div 100, 0, 1000)), 300, 850),
   upper |-> Clamp(ToAlama(Clamp(calibrated + (196 * error) \div 100, 0, 1000)), 300, 850),
   weight |-> weight, error |-> error, impacts |-> impacts]
Fuse(base, typeScore, weight) == ((1000 - weight) * base + weight * typeScore) \div 1000
ComputeScore(base, stability, transactions, vectors, type) ==
  LET ofType == {v[name] - 500 : v \in vectors, name \in UNION {DOMAIN w : w \in vectors}}
      volume == Clamp((1000 * transactions) \div 300, 0, 1000)
      Finish(weight, calibrated, confidence) ==
        FusedScore(weight, calibrated, confidence, StandardError(calibrated, confidence, transactions),
                   IF vectors = {} THEN {} ELSE {stability - 500, volume - 500} \cup ofType)
      Start(weight, typeScore) ==
        Finish(weight, Calibrate(Fuse(base, typeScore, weight)),
               IF vectors = {} THEN 600 ELSE Confidence(base, typeScore))
  IN Start(100 * WT!TypeWeight(type),
           IF vectors = {} THEN base ELSE TypeScore(CHOOSE v \in vectors : TRUE))

(* score_verification.rs *************************************************)

Width(score) == IF score.upper > score.lower THEN score.upper - score.lower ELSE 0
\* The issues verify_score finds, by severity: a score can have several of one.
Issues(score) ==
  [high |-> {c \in {"score range", "interval inverted", "confidence", "raw score"} :
               CASE c = "score range" -> score.alama \notin 300..850
                 [] c = "interval inverted" -> score.lower > score.upper
                 [] c = "confidence" -> score.confidence \notin 0..1000
                 [] c = "raw score" -> score.raw \notin 0..1000},
   medium |-> {c \in {"interval range", "outside interval", "type weight", "standard error"} :
                 CASE c = "interval range" -> score.lower < 300 \/ score.upper > 850
                   [] c = "outside interval" -> score.alama < score.lower \/ score.alama > score.upper
                   [] c = "type weight" -> score.weight \notin 0..1000
                   [] c = "standard error" -> score.error \notin 0..1000},
   low |-> {i \in score.impacts : Abs(i) > 1000}]
Verified(score, issues, corrected) ==
  [passed |-> issues.high = {}, warned |-> Width(score) > 200, score |-> corrected,
   lower |-> Clamp(score.lower, 300, corrected), upper |-> Clamp(score.upper, corrected, 850),
   trust |-> Clamp(score.confidence - 300 * Cardinality(issues.high) - 150 * Cardinality(issues.medium)
                     - 50 * Cardinality(issues.low) - (IF Width(score) > 100 THEN 100 ELSE 0), 0, 1000)]
VerifyScore(score) == Verified(score, Issues(score), Clamp(score.alama, 300, 850))

(* seasonality.rs: `values` the income of the days that have one, in order; *)
(* months are 1..12                                                         *)

\* The deviations from the mean, times their number.
Deviations(values) == LET total == Sum(values) IN [i \in DOMAIN values |-> values[i] * Len(values) - total]
Product(d, lag) == Sum([i \in 1..(Len(d) - lag) |-> d[i] * d[i + lag]])
Cycles == <<7, 14, 30, 90, 182, 365>>
\* |autocorrelation| of n values at the lag, halved unless two cycles fit.
Autocorrelation(n, d, lag) == (1000 * n * Abs(Product(d, lag))) \div ((n - lag) * Product(d, 0))
Strength(values, lag) ==
  Autocorrelation(Len(values), Deviations(values), lag) \div (IF Len(values) \div lag >= 2 THEN 1 ELSE 2)
\* detect: <<>> or the strongest cycle, the first of several.
Strongest(found) ==
  found[CHOOSE i \in DOMAIN found :
          \A j \in DOMAIN found : found[j][2] <= found[i][2] /\ (j < i => found[j][2] < found[i][2])]
CycleReport(n, best) == [cycle |-> best[1], strength |-> best[2], isSeasonal |-> best[2] > 400,
                         phase |-> (1000 * (n % best[1])) \div best[1]]
DetectCycle(values) ==
  LET Strengths(lags) == [i \in DOMAIN lags |-> <<lags[i], Strength(values, lags[i])>>]
      Report(found) == IF found = <<>> THEN <<>> ELSE <<CycleReport(Len(values), Strongest(found))>>
  IN IF Len(values) < 14 \/ (\A i \in DOMAIN values : values[i] = values[1]) THEN <<>>
     ELSE Report(SelectSeq(Strengths(SelectSeq(Cycles, LAMBDA lag : lag < Len(values))),
                           LAMBDA period : period[2] > 300))
\* The months over 1.2 times, or under 0.8 times, the mean of all twelve; a
\* month without a day of income (0 days) is neither.
PeakMonths(means, days) == {m \in 1..12 : days[m] > 0 /\ 10 * means[m] > Sum(means)}
TroughMonths(means, days) == {m \in 1..12 : days[m] > 0 /\ 15 * means[m] < Sum(means)}

Deviation(income, baseline) ==
  IF baseline > 0 THEN (1000 * Abs(income - baseline)) \div baseline ELSE IF income > 0 THEN 1000 ELSE 0
\* adjusted_stability; evenness over the year for income without seasons.
AdjustedStability(isSeasonal, baselines, incomes) ==
  IF isSeasonal THEN Clamp(1000 - Sum([m \in 1..12 |-> Deviation(incomes[m], baselines[m])]) \div 12, 0, 1000)
  ELSE IF Sum(incomes) = 0 THEN 0 ELSE WT!Evenness(incomes)
IsOnTrack(baseline, income) ==
  IF baseline = 0 THEN income = 0 ELSE 10 * Abs(income - baseline) < 4 * baseline
Trend(annual, volatile) ==
  CASE annual > 100 -> "Growing" [] annual < -100 -> "Declining"
    [] OTHER -> IF volatile THEN "Volatile" ELSE "Stable"
TrendOf(growth, months, annual) ==
  Trend(annual, Sum([m \in 1..12 |-> IF growth[m] = 0 THEN 0 ELSE (growth[m] - annual) * (growth[m] - annual)])
                  > 90000 * months)
YoyGrowth(current, previous) ==
  LET Averaged(growth, months) == TrendOf(growth, months, Sum(growth) \div months)
      Over(valid) ==
        IF Cardinality(valid) < 3 THEN "Insufficient"
        ELSE Averaged([m \in 1..12 |-> IF m \in valid THEN (1000 * (current[m] - previous[m])) \div previous[m] ELSE 0],
                      Cardinality(valid))
  IN Over({m \in 1..12 : previous[m] > 0})

(* base_features.rs ******************************************************)

\* from_raw_with_seasonality with a baseline and a year of income ([] of either:
\* no seasons); effective_stability and effective_active_ratio.
Seasonal(raw) == raw.isSeasonal /\ raw.strength > 300
Adjusted(raw, baselines, incomes) == IF raw.isSeasonal THEN AdjustedStability(TRUE, baselines, incomes) ELSE 0
EffectiveStability(raw, adjusted) == IF Seasonal(raw) THEN adjusted ELSE raw.consistency
EffectiveActiveRatio(raw) == IF Seasonal(raw) THEN Clamp((12 * raw.activeDays) \div 10, 0, 1000) ELSE raw.activeDays
\* to_feature_vector; normalize() of the trajectory is not in src/, so any value.
BaseVector(raw, adjusted, trajectory) ==
  LET stability == EffectiveStability(raw, adjusted)
  IN [transaction_volume |-> Clamp(2 * raw.transactions, 0, 1000), active_days_ratio |-> EffectiveActiveRatio(raw),
      revenue_stability |-> 1000 - Clamp(stability, 0, 1000), product_diversity |-> Clamp(50 * raw.products, 0, 1000),
      income_consistency |-> stability, repayment_history |-> Clamp(100 * raw.repayments, 0, 1000),
      loan_count |-> Clamp(100 * raw.loans, 0, 1000), recency |-> Clamp(1000 - (1000 * raw.idleDays) \div 90, 0, 1000),
      region_economic_index |-> raw.region, income_trajectory |-> trajectory]

(* Properties ************************************************************)

\* Of everything the extractors measure, compute_type_score weighs the evenness of
\* a rider's days and the products of a vendor: for every other type the history
\* makes no difference at all.
TypeHeadBlind ==
  LET Scores(of) == {LogOdds(v) : v \in UNION {WT!Extract(of, ts, since) : ts \in WT!Histories, since \in {0, 900}}}
  IN {of \in WT!Extractors : Cardinality(Scores(of)) > 1} = {"BodaBodaRider", "MarketVendor"}

\* "identity - no adjustment" (score_fusion.rs:81) is the logistic function: no
\* worker scores outside 575..702 of 300..850, the score rises with the base
\* score, and the interval holds it, narrower with more transactions.
ScoresInBand ==
  \A type \in WT!Archetypes \cup {"Generic"}, n \in {0, 1, 25, 900}, vectors \in {{}} \cup {{[income_trajectory |-> v]} : v \in {0, 1000}} :
    LET Score(base, transactions) == ComputeScore(base, 500, transactions, vectors, type)
    IN \A base \in {0, 200, 500, 900, 1000} : \A s \in {Score(base, n)} :
            /\ s.alama \in 575..702 /\ s.lower <= s.alama /\ s.alama <= s.upper
            /\ \A more \in {m \in {200, 500, 900, 1000} : m >= base} : Score(more, n).alama >= s.alama
            /\ n # 0 => Width(Score(base, 900)) <= Width(s)
            /\ \A even, uneven \in {100, 900} :
                 ComputeScore(base, even, n, vectors, type).alama = ComputeScore(base, uneven, n, vectors, type).alama

\* Every score the engine makes passes verification, without a high or medium
\* issue and never as "very wide"; an uncapped feature is what is left to object
\* to. A score that comes from elsewhere is put in order, and trusted no more
\* than it claims unless it claims less than nothing.
FusedScoresVerify ==
  /\ \A of \in WT!Extractors, ts \in {h \in WT!Histories : Len(h) < 2}, base \in {0, 700} :
       \A v \in WT!Extract(of, ts, 0) :
         \A s \in {ComputeScore(base, 500, 1, {v}, of)} : \A verified \in {VerifyScore(s)}, issues \in {Issues(s)} :
            /\ issues.high \cup issues.medium = {} /\ verified.passed /\ ~verified.warned
            /\ verified.score = s.alama /\ verified.lower = s.lower
            /\ issues.low # {} => of \in WT!Uncapped
  /\ \A alama \in {0, 299, 300, 600, 851}, lower, upper \in {200, 300, 590, 640, 900}, confidence \in {-1, 500, 1001},
        weight \in {500, 1100} :
       LET s == [alama |-> alama, lower |-> lower, upper |-> upper, confidence |-> confidence, raw |-> 500,
                 weight |-> weight, error |-> 50, impacts |-> {0, 1200}]
       IN \A v \in {VerifyScore(s)} :
          /\ 300 <= v.lower /\ v.lower <= v.score /\ v.score <= v.upper /\ v.upper <= 850
          /\ v.trust <= Clamp(confidence, 0, 1000) - (IF confidence > 0 THEN 50 ELSE 0)
          /\ v.passed <=> alama \in 300..850 /\ lower <= upper /\ confidence = 500

\* Two equal weeks of uneven income are a weekly cycle, found at full strength.
\* The absolute value makes opposite weeks one too: of a worker who earned
\* nothing one week and the same every day of the next as much as of any other.
WeeksAreFound ==
  \A start \in [1..4 -> {0, 3}], end \in {0, 3} :
    LET week == start \o <<end, 0, end>>
        reversed == [i \in 1..7 |-> 3 - week[i]]
    IN \A twice \in {DetectCycle(week \o week)}, opposite \in {DetectCycle(week \o reversed)} :
       /\ IF Cardinality(ToSet(week)) = 1 THEN twice = <<>>
          ELSE twice[1].cycle = 7 /\ twice[1].isSeasonal /\ twice[1].strength = 1000 /\ twice[1].phase = 0
       /\ opposite[1].cycle = 7 /\ opposite[1].isSeasonal /\ opposite[1].strength = 1000

\* "Signal strength (0.0-1.0)" (seasonality.rs:24) holds of the cycles of which the
\* history has two: no lag is longer than half of it. Left out is the longer lag an
\* odd number of days allows, whose strength the code lets pass 1.
StrengthWithinOne ==
  \A days \in [1..8 -> {0, 3}] : Cardinality(ToSet(days)) > 1 => Strength(days, 4) \in 0..1000

Year(even, odd) == [m \in 1..12 |-> IF m % 2 = 0 THEN even ELSE odd]
\* Income that repeats the seasons is perfectly stable and on track however
\* uneven, where without them it is not; who earns twice as much in every month
\* is as unstable as can be. The better months of one year are never the worse.
SeasonsNotPunished ==
  \A even, odd \in {0, 10, 40, 90} :
    LET year == Year(even, odd)
        none == [m \in 1..12 |-> 1]
    IN /\ AdjustedStability(TRUE, year, year) = 1000
       /\ even # odd => AdjustedStability(FALSE, year, year) < 1000
       /\ \A m \in 1..12 : IsOnTrack(year[m], year[m])
       /\ even > 0 /\ odd > 0 => AdjustedStability(TRUE, year, [m \in 1..12 |-> 2 * year[m]]) = 0
       /\ PeakMonths(year, none) \cap TroughMonths(year, none) = {}
       /\ even > odd => 2 \notin TroughMonths(year, none) /\ 1 \notin PeakMonths(year, none)

\* A year that is better in every month grows, and the other way round declines;
\* two years of which each has its better months both grow on the other
\* (YoyGrowth averages ratios): growth is no order of years.
GrowthIsSeen ==
  /\ \A even, odd \in {10, 40, 90} :
       LET year == Year(even, odd)  better == [m \in 1..12 |-> 2 * year[m]]
       IN /\ YoyGrowth(better, year) = "Growing" /\ YoyGrowth(year, better) = "Declining"
          /\ YoyGrowth(year, year) = "Stable"
  /\ YoyGrowth(Year(10, 40), Year(40, 10)) = "Growing" /\ YoyGrowth(Year(40, 10), Year(10, 40)) = "Growing"
  /\ \A few \in {0, 1, 2} : YoyGrowth(Year(5, 5), [m \in 1..12 |-> IF m <= few THEN 5 ELSE 0]) = "Insufficient"

\* The features of a worker are within 0..1; but "revenue_stability" is one less
\* the stability, so with the weights of compute_type_score the steadier of two
\* workers has the lower odds, as has the one with more loans.
SteadierScoresLower ==
  \A isSeasonal \in BOOLEAN, strength \in {200, 400, 3200}, activeDays, region, trajectory \in {0, 1000}, idleDays \in {0, 91} :
    LET Raw(consistency, loans) ==
          [isSeasonal |-> isSeasonal, strength |-> strength, activeDays |-> activeDays, consistency |-> consistency,
           transactions |-> 600, products |-> 30, repayments |-> 3, loans |-> loans, region |-> region,
           idleDays |-> idleDays]
        Odds(consistency, adjusted, loans) == LogOdds(BaseVector(Raw(consistency, loans), adjusted, trajectory))
        vector == BaseVector(Raw(300, 20), 900, trajectory)
    IN /\ \A name \in DOMAIN vector : vector[name] \in 0..1000
       /\ Odds(300, 900, 1) < Odds(300, 900, 0)
       /\ Odds(900, 900, 0) < Odds(300, 300, 0)
       /\ ~Seasonal(Raw(300, 0)) => Odds(300, 900, 0) = Odds(300, 0, 0)

AlamaScoreSound ==
  /\ TypeHeadBlind /\ ScoresInBand /\ FusedScoresVerify /\ WeeksAreFound /\ StrengthWithinOne
  /\ SeasonsNotPunished /\ GrowthIsSeen /\ SteadierScoresLower
=============================================================================
