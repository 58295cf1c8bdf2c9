--------------------------- MODULE EconomicTrackers ---------------------------
(***************************************************************************)
(* The trackers of orchestrator/modules that are given figures and keep     *)
(* what they make of them: inequality, its split by gender, governance,     *)
(* market concentration, fiscal policy, property rights and trade. Figures  *)
(* are integers, a ratio is a fraction [num, den]; the entropies (Theil,    *)
(* Shannon) need logarithms and are left out.                               *)
(***************************************************************************)
EXTENDS Integers, FiniteSets, SequencesExt

Over(num, den) == [num |-> num, den |-> den]
AtMost(a, b) == a.num * b.den <= b.num * a.den
Same(a, b) == a.num * b.den = b.num * a.den
Total(s) == FoldSeq(LAMBDA x, sum : x + sum, 0, s)
Sorted(s) == SortSeq(s, <)
Floor(n, tenths) == (n * tenths) \div 10
Ceil(n, tenths) == (n * tenths + 9) \div 10

\* record of every tracker: the newest max of a region's metrics. trend looks at
\* the last two, whatever their periods.
Recorded(history, metrics, max) ==
  LET all == Append(history, metrics)
  IN SubSeq(all, IF Len(all) > max THEN Len(all) - max + 1 ELSE 1, Len(all))
Trend(history) == IF Len(history) < 2 THEN <<>>
                  ELSE <<history[Len(history) - 1], history[Len(history)]>>

(* Inequality: incomes are sorted ****************************************)

Gini(incomes) ==
  LET n == Len(incomes)
      weighted == Total([i \in DOMAIN incomes |-> i * incomes[i]])
  IN IF n < 2 \/ Total(incomes) <= 0 THEN Over(0, 1)
     ELSE Over(2 * weighted - (n + 1) * Total(incomes), n * Total(incomes))

Bottom40(incomes) == Total(SubSeq(incomes, 1, Ceil(Len(incomes), 4)))
Top10(incomes) == Total(SubSeq(incomes, Floor(Len(incomes), 9) + 1, Len(incomes)))
\* 0 below ten incomes; a fraction over zero is the infinity of the code.
Palma(incomes) == IF Len(incomes) < 10 \/ Total(incomes) <= 0 THEN Over(0, 1)
                  ELSE Over(Top10(incomes), Bottom40(incomes))
D9D1(incomes) ==
  LET n == Len(incomes)
  IN IF n < 10 \/ incomes[Floor(n, 1) + 1] <= 0 THEN Over(0, 1)
     ELSE Over(incomes[Floor(n, 9) + 1], incomes[Floor(n, 1) + 1])
Median(incomes) ==
  LET n == Len(incomes)
  IN IF n = 0 THEN Over(0, 1)
     ELSE IF n % 2 = 0 THEN Over(incomes[n \div 2] + incomes[n \div 2 + 1], 2)
     ELSE Over(incomes[n \div 2 + 1], 1)

\* GenderInequalityTracker::compute_metrics
Mean(s) == IF s = <<>> THEN Over(0, 1) ELSE Over(Total(s), Len(s))
GenderMetrics(male, female) ==
  LET m == Mean(male)  f == Mean(female)
  IN [overall |-> Gini(Sorted(male \o female)), male |-> Gini(Sorted(male)),
      female |-> Gini(Sorted(female)), maleMedian |-> Median(Sorted(male)),
      femaleMedian |-> Median(Sorted(female)),
      ratio |-> IF m.num > 0 THEN Over(f.num * m.den, f.den * m.num) ELSE Over(0, 1),
      gap |-> IF m.num > 0 THEN Over(100 * (m.num * f.den - f.num * m.den), m.num * f.den)
              ELSE Over(0, 1)]

(* Governance: dimensions are [score, weight], weights in hundredths *****)

DefaultDimensions == <<[score |-> 50, weight |-> 20], [score |-> 40, weight |-> 20],
                       [score |-> 35, weight |-> 15], [score |-> 30, weight |-> 15],
                       [score |-> 40, weight |-> 15], [score |-> 60, weight |-> 15]>>
Overall(dimensions) ==
  LET weight == Total([i \in DOMAIN dimensions |-> dimensions[i].weight])
  IN IF weight > 0
     THEN Over(Total([i \in DOMAIN dimensions |-> dimensions[i].score * dimensions[i].weight]),
               weight)
     ELSE Over(0, 1)
\* The score is truncated before it is graded.
GradeOf(score) == CASE score \in 80..100 -> "A" [] score \in 65..79 -> "B"
                    [] score \in 50..64 -> "C" [] score \in 35..49 -> "D" [] OTHER -> "F"
Grade(dimensions) == GradeOf(Overall(dimensions).num \div Overall(dimensions).den)
\* compare_regions: the regions whose last index is of the period, by pairs.
\* A history is a sequence of [period, score].
CompareRegions(histories, period) ==
  LET now == {r \in DOMAIN histories :
                histories[r] # <<>> /\ Last(histories[r]).period = period}
  IN {[region |-> r, peer |-> p,
       difference |-> Last(histories[r]).score - Last(histories[p]).score] :
        r \in now, p \in now} \ {[region |-> r, peer |-> r, difference |-> 0] : r \in now}

(* Market concentration: shares in per cent ******************************)

Hhi(shares) == Total([i \in DOMAIN shares |-> shares[i] * shares[i]])
Crk(shares, k) ==
  Total(SubSeq(SortSeq(shares, >), 1, IF k < Len(shares) THEN k ELSE Len(shares)))
Structure(hhi) == IF hhi < 1500 THEN "PerfectCompetition"
                  ELSE IF hhi < 2500 THEN "MonopolisticComp" ELSE "Oligopoly"
EffectiveCompetitors(shares) ==
  IF Hhi(shares) > 0 THEN Over(10000, Hhi(shares)) ELSE Over(Len(shares), 1)

(* Fiscal policy *********************************************************)

\* simulate_impact for one segment of n > 0 incomes: who is affected, the monthly
\* change for one of them and for the treasury, over a common denominator.
Impact(affected, change, revenue, effect) ==
  [affected |-> affected, change |-> change, revenue |-> revenue, effect |-> effect]
At(incomes, tenths) == Sorted(incomes)[Floor(Len(incomes), tenths) + 1]
Count(incomes, Test(_)) == Cardinality({i \in DOMAIN incomes : Test(incomes[i])})

\* Prices the poor spend 90% of their income on, the rich 60%; nobody spends
\* anything of nothing, and 0/0 compares as no.
VatChange(incomes, rate) ==
  LET n == Len(incomes)  sum == Total(incomes)
      regressive == At(incomes, 1) > 0 /\ At(incomes, 9) > 0 /\ 90 * rate > 60 * rate
  IN Impact(n, Over(-(sum * rate * 24), 100 * n), Over(sum * rate * 24, 100),
            IF regressive THEN "Regressive" ELSE "Progressive")
MinimumWageChange(incomes, wage) ==
  LET affected == Count(incomes, LAMBDA x : x < wage)
  IN Impact(affected, Over((wage - 350) * 30, 1), Over((wage - 350) * 30 * affected * 15, 100),
            "Progressive")
MpesaTransactionTax(incomes, rate) ==
  LET sum == Total(incomes)
  IN Impact(Len(incomes), Over(-(sum * 60 * rate), 100 * Len(incomes)),
            Over(sum * 60 * rate * 9, 1000), "Regressive")
MarketFeeChange(incomes, fee) ==
  Impact(Len(incomes), Over(-(fee - 50) * 30, 1), Over((fee - 50) * 30 * Len(incomes), 1),
         IF fee > 50 THEN "Regressive" ELSE "Progressive")
FuelSubsidyRemoval(incomes, increase) ==
  LET sum == Total(incomes)
  IN Impact(Len(incomes), Over(-(sum * increase * 9), 200 * Len(incomes)),
            Over(sum * increase * 9, 400), "Regressive")
HealthInsuranceSubsidy(incomes, subsidy) ==
  Impact(Len(incomes), Over(500 * subsidy, 100), Over(-(500 * subsidy) * Len(incomes), 100),
         "Progressive")
DigitalServicesTax(incomes, rate, threshold) ==
  LET above == SelectSeq(incomes, LAMBDA x : x >= threshold)
      n == Len(above)
  IN Impact(n, IF n > 0 THEN Over(-(Total(above) * 30 * rate), 100 * n) ELSE Over(0, 1),
            Over(Total(above) * 30 * rate, 100), "Progressive")

(* Property rights *******************************************************)

Levels == <<"NoDocumentation", "InformalReceipt", "OfficialReceipt", "Permit", "TitleDeed">>
PropertyTypes == {"Stall", "Workshop", "FarmPlot", "Vehicle", "Shop", "Equipment"}
ScoreDocumentation(level) == <<10, 30, 55, 75, 100>>[level]
Risks == <<"Very Low", "Low", "Medium", "High">>
EvictionRisk(level, type) ==
  IF level = 1 \/ (level = 2 /\ type = "Stall") THEN 4
  ELSE IF level = 2 THEN 3 ELSE IF level \in {3, 4} THEN 2 ELSE 1
FormalizationCost(level, type) ==
  CASE type = "Stall" /\ level = 1 -> 1500 [] type = "Stall" /\ level = 2 -> 3000
    [] type = "FarmPlot" /\ level = 1 -> 5000 [] type = "FarmPlot" /\ level = 2 -> 8000
    [] type = "Vehicle" /\ level = 1 -> 3500 [] type = "Workshop" /\ level = 1 -> 6500
    [] type = "Shop" /\ level = 1 -> 10000 [] OTHER -> 2000
\* Of a hundred shillings of a property, those at risk.
AtRisk(level) == IF ScoreDocumentation(level) < 50 THEN 80
                 ELSE IF ScoreDocumentation(level) < 75 THEN 30 ELSE 0
\* Properties are [level, value]; the average score is truncated to a risk level.
Assess(properties) ==
  LET n == Len(properties)
      sum == Total([i \in DOMAIN properties |-> ScoreDocumentation(properties[i].level)])
      score == IF n = 0 THEN 0 ELSE sum \div n
  IN [score |-> score,
      risk |-> IF score <= 25 THEN "Critical" ELSE IF score <= 50 THEN "High"
               ELSE IF score <= 75 THEN "Medium" ELSE "Low",
      atRisk |-> Total([i \in DOMAIN properties |->
                          properties[i].value * AtRisk(properties[i].level)])]

(* Trade *****************************************************************)

Gdp == [nairobi |-> 5000, mombasa |-> 2000, kisumu |-> 800, nakuru |-> 1200, eldoret |-> 900,
        malaba |-> 300, namanga |-> 200, busia |-> 250]
Places == DOMAIN Gdp
AtBorder == {"kisumu", "malaba", "namanga", "busia"}
Distances ==
  {<<"nairobi", "mombasa", 480>>, <<"nairobi", "kisumu", 340>>, <<"nairobi", "nakuru", 160>>,
   <<"nairobi", "eldoret", 310>>, <<"nairobi", "namanga", 180>>, <<"kisumu", "busia", 100>>,
   <<"eldoret", "malaba", 80>>, <<"mombasa", "nairobi", 480>>}
\* A distance that is not stored in this direction is 500.
Distance(o, d) == IF \E x \in Distances : x[1] = o /\ x[2] = d
                  THEN (CHOOSE x \in Distances : x[1] = o /\ x[2] = d)[3] ELSE 500
\* predict_flow, as what its powers are taken of: both sizes to the 0.8, the
\* distance to the -1.2, half as much again between two border regions.
PredictFlow(o, d) == [sizes |-> Gdp[o] * Gdp[d], distance |-> Distance(o, d),
                      agreement |-> {o, d} \subseteq AtBorder]
\* predict_all_flows returns its flows and stores none; update_actual looks for
\* the flow among those stored.
PredictAllFlows == {<<o, d, PredictFlow(o, d)>> : o, d \in Places} \
                   {<<o, o, PredictFlow(o, o)>> : o \in Places}
StoredFlows == {}
UpdateActual(flows, o, d, volume) ==
  {IF f[1] = o /\ f[2] = d THEN [f EXCEPT ![4] = volume] ELSE f : f \in flows}

-----------------------------------------------------------------------------
Incomes(set, n) == {s \in [1..n -> set] : \A i \in 1..n - 1 : s[i] <= s[i + 1]}

\* The Gini formula gives half the mean difference of two incomes over the mean;
\* giving to the poorer of two never raises it, nor does a copy of everybody
\* change it, and counting men and women together finds that copy.
GiniIsMeanDifference ==
  \A n \in 2..4 : \A s \in Incomes({0, 1, 4, 9}, n) :
    LET difference == Total([i \in 1..n |-> Total([j \in 1..i |-> s[i] - s[j]])])
    IN Total(s) > 0 =>
         /\ Same(Gini(s), Over(difference, n * Total(s)))
         /\ AtMost(Over(0, 1), Gini(s)) /\ AtMost(Gini(s), Over(n - 1, n))
         /\ \A i, j \in 1..n : s[i] + 2 <= s[j] =>
              AtMost(Gini(Sorted([s EXCEPT ![i] = @ + 1, ![j] = @ - 1])), Gini(s))
         /\ LET both == GenderMetrics(s, Reverse(s))
            IN Same(both.overall, Gini(s)) /\ both.gap.num = 0 /\ Same(both.ratio, Over(1, 1))

\* Of ten incomes and more the shares are ordered: the top tenth has at least its
\* tenth, the bottom four at most theirs, so Palma and D9/D1 are what they are
\* for equal incomes at least.
SharesOrdered ==
  \A n \in {10, 11, 14} : \A few \in 0..n, middle \in 0..n :
    few + middle <= n =>
      LET s == [i \in 1..n |-> IF i <= few THEN 1 ELSE IF i <= few + middle THEN 3 ELSE 20]
      IN /\ 10 * Top10(s) >= Total(s)
         /\ 10 * Bottom40(s) <= Total(s) * ((10 * Ceil(n, 4)) \div n + 1)
         /\ AtMost(Over(n - Floor(n, 9), Ceil(n, 4)), Palma(s)) /\ AtMost(Over(1, 1), D9D1(s))
         /\ AtMost(Over(s[1], 1), Median(s)) /\ AtMost(Median(s), Over(s[n], 1))

\* A better score in a dimension never lowers the grade, and every comparison of
\* two regions has its mirror image (governance_quality.rs). Which grade a score of
\* 80 has is not asserted: the code (91) says "A", a test (324) "B".
GovernanceMonotone ==
  /\ \A i \in DOMAIN DefaultDimensions, better \in {60, 90, 100} :
       better >= DefaultDimensions[i].score =>
         Overall(DefaultDimensions).num <= Overall([DefaultDimensions EXCEPT ![i].score = better]).num
  /\ \A a, b \in 0..100 : a <= b =>
       <<GradeOf(a), GradeOf(b)>> \notin
         {<<"A", "B">>, <<"A", "C">>, <<"A", "D">>, <<"A", "F">>, <<"B", "C">>, <<"B", "D">>,
          <<"B", "F">>, <<"C", "D">>, <<"C", "F">>, <<"D", "F">>}
  /\ \A scores \in [{"r1", "r2", "r3"} -> {<<>>, <<[period |-> 1, score |-> 40]>>,
                      <<[period |-> 1, score |-> 70], [period |-> 2, score |-> 30]>>}] :
       LET pairs == CompareRegions(scores, 1)
       IN \A x \in pairs :
            /\ [region |-> x.peer, peer |-> x.region, difference |-> -x.difference] \in pairs
            /\ Len(scores[x.region]) = 1

\* When two sellers merge no measure of concentration falls; a market has no more
\* effective competitors than sellers, and the largest bounds the index. A single
\* seller is an oligopoly: Monopoly is never answered.
ConcentrationSound ==
  \A s \in {<<100>>, <<60, 40>>, <<25, 25, 25, 25>>, <<40, 30, 20, 10>>, <<10, 5, 55, 30>>,
            <<10, 10, 10, 10, 10, 10, 10, 10, 10, 10>>, <<39, 1, 30, 10, 20>>} :
    /\ AtMost(EffectiveCompetitors(s), Over(Len(s), 1))
    /\ Crk(s, 1) * Crk(s, 1) <= Hhi(s) /\ Hhi(s) <= 100 * Crk(s, 1)
    /\ Crk(s, 1) <= Crk(s, 4) /\ Crk(s, 4) <= Crk(s, 8) /\ Crk(s, 8) <= 100
    /\ Structure(Hhi(<<100>>)) = "Oligopoly"
    /\ \A i, j \in DOMAIN s : i < j =>
         LET merged == RemoveAt([s EXCEPT ![i] = @ + s[j]], j)
         IN /\ Hhi(merged) >= Hhi(s)
            /\ \A k \in {1, 4, 8} : Crk(merged, k) >= Crk(s, k)

\* A tax brings the treasury no more than it takes from those it affects, a
\* subsidy costs it what they get; a higher threshold affects no one more.
MoneyFromSomewhere ==
  \A n \in {1, 3} : \A s \in Incomes({0, 20, 90}, n) :
    LET Taken(i) == Over(-i.change.num * i.affected, i.change.den)
    IN /\ \A rate \in {1, 16} :
            \A i \in {VatChange(s, rate), MpesaTransactionTax(s, rate), MarketFeeChange(s, 50 + rate),
                      FuelSubsidyRemoval(s, rate), DigitalServicesTax(s, rate, 20)} :
              AtMost(i.revenue, Taken(i))
       /\ Same(HealthInsuranceSubsidy(s, 40).revenue, Taken(HealthInsuranceSubsidy(s, 40)))
       /\ \A low, high \in {0, 20, 50} : low <= high =>
            LET a == DigitalServicesTax(s, 5, high)  b == DigitalServicesTax(s, 5, low)
            IN a.affected <= b.affected /\ AtMost(a.revenue, b.revenue)
       /\ VatChange(s, 2).effect = IF At(s, 1) > 0 THEN "Regressive" ELSE "Progressive"

\* Better documents for one property never put more at risk or lower the score.
DocumentsProtect ==
  \A properties \in [1..2 -> [level : 1..5, value : {100, 900}]], i \in 1..2, level \in 1..5 :
    level >= properties[i].level =>
      LET before == Assess(properties)  after == Assess([properties EXCEPT ![i].level = level])
      IN /\ after.atRisk <= before.atRisk /\ after.score >= before.score
         /\ before.risk = "Low" => after.risk = "Low"
         /\ after.risk = "Critical" => before.risk = "Critical"
         /\ \A type \in PropertyTypes : EvictionRisk(level, type) <= EvictionRisk(properties[i].level, type)

\* Two predictions between the same places differ exactly where a distance is
\* stored one way only; what is observed is recorded nowhere (trade_gravity.rs:233).
TradeAsStored ==
  /\ \A o, d \in Places : o # d =>
       (PredictFlow(o, d) = PredictFlow(d, o) <=>
          Cardinality({x \in Distances : {x[1], x[2]} = {o, d}}) # 1)
  /\ \A f \in PredictAllFlows : UpdateActual(StoredFlows, f[1], f[2], 7) = StoredFlows

\* A history is the newest max of what was recorded, the trend its last two.
HistoriesKeepNewest ==
  \A s \in UNION {[1..n -> {1, 2, 3}] : n \in 0..4} :
    LET history == FoldLeft(LAMBDA h, x : Recorded(h, x, 3), <<>>, s)
    IN /\ IsSuffix(history, s) /\ (Len(history) = 3 \/ history = s)
       /\ Len(s) >= 2 => Trend(history) = SubSeq(s, Len(s) - 1, Len(s))

TrackersSound ==
  /\ GiniIsMeanDifference /\ SharesOrdered /\ GovernanceMonotone /\ ConcentrationSound
  /\ MoneyFromSomewhere /\ DocumentsProtect /\ TradeAsStored /\ HistoriesKeepNewest
=============================================================================
