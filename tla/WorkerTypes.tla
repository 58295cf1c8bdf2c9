------------------------------ MODULE WorkerTypes ------------------------------
(***************************************************************************)
(* credit/worker_type_detector.rs, credit/types.rs and credit/extractors/:  *)
(* what a worker does is guessed from patterns of transactions, or from     *)
(* clusters of them, and an extractor makes the features of that type.      *)
(* Features are thousandths, rounded down; a vector is a function from its  *)
(* feature names. The product of a transaction is the set of the words it   *)
(* holds ({}: none), and a keyword list of the code is one word. Amounts    *)
(* are not negative. Where the code takes the maximum of a HashMap, any of  *)
(* the maxima is the answer, so an extractor returns a set of vectors.      *)
(***************************************************************************)
EXTENDS Integers, FiniteSets, SequencesExt

Transaction == [category : {"Sale", "Purchase", "Expense", "Transfer", "Savings", "Commission", "Wage"},
                amount : Nat, day : Nat, hour : 0..23, product : SUBSET STRING,
                party : STRING, place : STRING, mpesa : BOOLEAN]
none == ""                                   \* a counterparty or place that is not recorded

Least(x, bound) == IF x < bound THEN x ELSE bound
Sum(s) == FoldLeft(+, 0, s)
Total(ts) == FoldLeft(LAMBDA sum, t : sum + t.amount, 0, ts)
Of(ts, categories) == SelectSeq(ts, LAMBDA t : t.category \in categories)
Sales(ts) == Of(ts, {"Sale"})
About(ts, words) == SelectSeq(ts, LAMBDA t : t.product \cap words # {})
Share(part, whole) == IF whole <= 0 THEN 0 ELSE (1000 * part) \div whole
Capped(part, whole) == Least(Share(part, whole), 1000)
Fraction(some, ts) == Share(Len(some), Len(ts))
Mean(ts) == IF ts = <<>> THEN 0 ELSE Total(ts) \div Len(ts)
\* Every count of distinct things is a u8.
Distinct(values) == Cardinality(values) % 256
Parties(ts) == Distinct({ts[i].party : i \in DOMAIN ts} \ {none})
Places(ts) == Distinct({ts[i].place : i \in DOMAIN ts} \ {none})
Products(ts) == Distinct({ts[i].product : i \in DOMAIN ts} \ {{}})
\* sorted[len / 2]
Median(s) == IF s = <<>> THEN 0 ELSE SortSeq(s, <)[Len(s) \div 2 + 1]
Root(square) == IF square >= 1000000 THEN 1000
                ELSE CHOOSE r \in 0..999 : r * r <= square /\ (r + 1) * (r + 1) > square
\* 1 - min(cv, 1), cv the standard deviation over the mean; 1 below two values.
Evenness(s) ==
  LET n == Len(s)
      deviations == [i \in 1..n |-> (1000 * (s[i] * n - Sum(s))) \div Sum(s)]
  IN IF n < 2 \/ Sum(s) < n THEN 1000
     ELSE 1000 - Root(Sum([i \in 1..n |-> deviations[i] * deviations[i]]) \div n)

\* The days of some transactions, sorted, each once.
Days(ts) == FoldLeft(LAMBDA days, day : IF days # <<>> /\ Last(days) = day THEN days ELSE Append(days, day),
                     <<>>, SortSeq([i \in DOMAIN ts |-> ts[i].day], <))
ByDay(ts) == LET days == Days(ts) IN [i \in DOMAIN days |-> SelectSeq(ts, LAMBDA t : t.day = days[i])]
Counts(groups) == [i \in DOMAIN groups |-> Len(groups[i])]
Totals(groups) == [i \in DOMAIN groups |-> Total(groups[i])]
Steps(s) == IF s = <<>> THEN <<>> ELSE [i \in 1..(Len(s) - 1) |-> s[i + 1] - s[i]]
DayGaps(ts) == Steps(Days(ts))
\* The mean whole number of days between consecutive transactions that are at
\* least one day and fewer than `below` apart.
MeanGap(ts, below, default) ==
  LET stamps == Steps(SortSeq([i \in DOMAIN ts |-> 24 * ts[i].day + ts[i].hour], <))
      gaps == SelectSeq([i \in DOMAIN stamps |-> stamps[i] \div 24], LAMBDA g : g \in 1..(below - 1))
  IN IF gaps = <<>> THEN default ELSE Sum(gaps) \div Len(gaps)
\* Regularity of the days, 0 below three transactions or when all are on one day.
Regularity(ts) == IF Len(ts) < 3 \/ Len(Days(ts)) = 1 THEN 0 ELSE Evenness(DayGaps(ts))
Weekend(t) == (t.day + 4) % 7 \in {0, 6}
SavingsRate(ts) == Capped(Total(Of(ts, {"Savings"})), Total(Sales(ts)))
\* monthly_profile summed: the mean sale of each month of 30 days, the last longer.
MonthlyProfile(ts) ==
  LET In(m) == SelectSeq(Sales(ts), LAMBDA t : Least((t.day % 365) \div 30, 11) = m)
  IN [m \in 0..11 |-> Mean(In(m))]
\* Words that most transactions hold: all of the most frequent, {} if none.
Commonest(ts, words) ==
  LET count == [w \in words |-> Len(About(ts, {w}))]
  IN {w \in words : count[w] > 0 /\ \A v \in words : count[v] <= count[w]}
\* normalize() of a bucket and from_total_spend are called but not in src/: a
\* bucket is taken to lie evenly among its values.
Normalized(value, ladder) ==
  (1000 * ((CHOOSE i \in DOMAIN ladder : ladder[i] = value) - 1)) \div (Len(ladder) - 1)
AssetValueBucket(spend) ==
  CASE spend < 50000 -> "Low" [] spend \in 50000..199999 -> "Medium"
    [] spend \in 200000..500000 -> "High" [] OTHER -> "Premium"

(* The extractors of the older types, ten features each ******************)

Crops == <<"maize", "beans", "vegetables", "fruit", "tea", "coffee", "rice", "wheat", "sugarcane">>
DetectCrop(ts) ==
  LET found == Commonest(ts, ToSet(Crops)) IN IF found = {} THEN {"mixed"} ELSE found
EstimateLandSize(ts) ==
  LET spend == Total(About(Of(ts, {"Purchase"}), {"seed"}))
  IN IF spend > 50000 THEN "large" ELSE IF spend > 10000 THEN "medium" ELSE "small"
\* 0 for None: fewer than ten sales or two bursts, or a cycle out of range.
Bursts(days, total) == SelectSeq(days, LAMBDA day : Total(day) * Len(days) > 2 * total)
MeanCycle(at) ==
  LET cycle == IF Len(at) < 2 THEN 0 ELSE (Last(at) - at[1]) \div (Len(at) - 1)
  IN IF cycle \in 31..399 THEN cycle ELSE 0
HarvestCycle(ts) ==
  IF Len(Sales(ts)) < 10 THEN 0 ELSE MeanCycle(Days(FlattenSeq(Bursts(ByDay(Sales(ts)), Total(Sales(ts))))))
InCooperative(ts) ==
  LET to == About(Of(ts, {"Expense", "Transfer"}), {"sacco"})
  IN \E i \in DOMAIN to : Len(SelectSeq(to, LAMBDA t : t.party = to[i].party)) >= 3
InputInvestment(ts) ==
  Share(Total(About(Of(ts, {"Purchase"}), {"seed", "pesticide"})), Total(Of(ts, {"Purchase", "Expense"})))
\* Savings in the 30 days after each sale of more than twice the mean: those in
\* the days after two such sales count twice.
PostHarvestSavings(ts) ==
  LET At(t) == 24 * t.day + t.hour
      spikes == SelectSeq(Sales(ts), LAMBDA t : t.amount * Len(Sales(ts)) > 2 * Total(Sales(ts)))
      After(s) == SelectSeq(Of(ts, {"Savings"}), LAMBDA t : At(t) > At(s) /\ At(t) < At(s) + 720)
  IN Capped(Sum([i \in DOMAIN spikes |-> Total(After(spikes[i]))]), Total(spikes))
Farmer(ts) ==
  {[crop_type |-> Normalized(crop, Append(Crops, "mixed")),
    land_size |-> Normalized(EstimateLandSize(ts), <<"small", "medium", "large">>),
    harvest_cycle |-> IF cycle = 0 THEN 500 ELSE Capped(cycle, 365),
    intra_season_stability |-> IF cycle = 0 THEN 500 ELSE 700,
    seasonal_ratio |-> 300, input_investment |-> InputInvestment(ts),
    cooperative_membership |-> IF InCooperative(ts) THEN 1000 ELSE 0,
    post_harvest_savings |-> PostHarvestSavings(ts), buyer_diversity |-> Capped(Parties(Sales(ts)), 10),
    storage_duration |-> Capped(MeanGap(Sales(ts), 365, 0), 90)] :
     crop \in DetectCrop(ts), cycle \in {HarvestCycle(ts)}}

DailyFuelCost(ts) == LET fuel == About(Of(ts, {"Expense"}), {"fuel"})
                     IN Median([i \in DOMAIN fuel |-> fuel[i].amount])
DailyRevenue(ts) == Median(Totals(ByDay(Sales(ts))))
TripCount(ts) == Median(Counts(ByDay(SelectSeq(Sales(ts), LAMBDA t : t.mpesa /\ t.amount < 500))))
PeakHourIncome(ts) ==
  LET sales == Sales(ts)
  IN IF Total(sales) = 0 THEN 500
     ELSE Share(Total(SelectSeq(sales, LAMBDA t : t.hour \in {7, 8, 17, 18})), Total(sales))
MaintenanceFrequency(ts) == MeanGap(About(Of(ts, {"Expense"}), {"repair", "service"}), 365, 90)
WeekendWeekday(ts) ==
  LET weekend == Total(SelectSeq(Sales(ts), Weekend))
      weekday == Total(Sales(ts)) - weekend
  IN IF weekday = 0 THEN 1000 ELSE Least((2500 * weekend) \div weekday, 3000)
RegularPassengers(ts) ==
  LET sales == Sales(ts)
  IN Cardinality({p \in {sales[i].party : i \in DOMAIN sales} \ {none} :
                    Len(SelectSeq(sales, LAMBDA t : t.party = p)) > 5})
BodaBoda(ts) ==
  LET spend == Total(About(Of(ts, {"Expense"}), {"repair", "service", "spare"}))
      Unlike(ratio) == IF ratio < 500 THEN 500 - ratio ELSE ratio - 500
  IN {[asset_value |-> Normalized(AssetValueBucket(3 * spend), <<"Low", "Medium", "High", "Premium">>),
       fuel_cost |-> Capped(DailyFuelCost(ts), 500), fuel_ratio |-> Capped(DailyFuelCost(ts), DailyRevenue(ts)),
       trip_count |-> Capped(TripCount(ts), 30), revenue_stability |-> Evenness(Totals(ByDay(Sales(ts)))),
       peak_utilization |-> PeakHourIncome(ts),
       maintenance_frequency |-> 1000 - Capped(MaintenanceFrequency(ts), 90),
       weekend_balance |-> Least(Unlike(WeekendWeekday(ts)), 1000),
       regular_passengers |-> Capped(RegularPassengers(ts), 20), income_trajectory |-> 500]}

MarketTier(ts) == LET n == Len(Sales(ts))
                  IN IF Total(Sales(ts)) > 1000 * n THEN "Tier1"
                     ELSE IF Total(Sales(ts)) > 300 * n THEN "Tier2" ELSE "Tier3"
Vendor(ts, since) ==
  {[market_tier |-> Normalized(MarketTier(ts), <<"Tier3", "Tier2", "Tier1">>),
    product_diversity |-> Capped(Products(Sales(ts)), 20),
    supplier_count |-> Capped(Parties(Of(ts, {"Purchase"})), 10),
    years_in_business |-> Capped(since, 3650), daily_txn_count |-> Capped(Median(Counts(ByDay(Sales(ts)))), 30),
    avg_txn_size |-> Capped(Mean(Sales(ts)), 5000),
    inventory_turnover |-> 1000 - Capped(MeanGap(Of(ts, {"Purchase"}), 30, 7), 14), weekend_premium |-> 500,
    savings_regularity |-> Regularity(Of(ts, {"Savings"})), restock_frequency |-> 500]}

FootTraffic(ts) == Fraction(SelectSeq(ts, LAMBDA t : t.hour \in 8..17), ts)
LargeTxnFrequency(ts) == Fraction(SelectSeq(ts, LAMBDA t : t.amount > 50000), ts)
AgentTier(daily) == IF daily >= 100 THEN "SuperAgent" ELSE IF daily >= 30 THEN "Standard" ELSE "Mini"
MpesaAgent(ts) ==
  LET daily == Median(Counts(ByDay(Of(ts, {"Sale", "Commission"}))))
      commission == Of(ts, {"Commission"})
      deposits == Len(SelectSeq(Sales(ts), LAMBDA t : t.amount > 0))
      withdrawals == Len(Of(ts, {"Expense"}))
  IN {[float_turnover |-> 500, daily_txn_count |-> Capped(daily, 100),
       commission |-> Capped(Median([i \in DOMAIN commission |-> commission[i].amount]), 5000),
       agent_tier |-> Normalized(AgentTier(daily), <<"Mini", "Standard", "SuperAgent">>),
       foot_traffic |-> FootTraffic(ts), float_efficiency |-> 700,
       deposit_withdrawal_ratio |-> IF withdrawals = 0 THEN 333 ELSE Capped(deposits, 3 * withdrawals),
       operating_utilization |-> FootTraffic(ts), revenue_trajectory |-> 500,
       large_txn_risk |-> 1000 - LargeTxnFrequency(ts)]}

OwnsBoat(ts) == About(SelectSeq(Of(ts, {"Expense"}), LAMBDA t : t.amount > 10000), {"boat", "engine"}) # <<>>
FishingZone(ts) == LET n == Len(Sales(ts))
                   IN IF Total(Sales(ts)) > 10000 * n THEN 1000
                      ELSE IF Total(Sales(ts)) > 3000 * n THEN 600 ELSE 300
\* "rice", "service" and "price" contain "ice".
HasColdChain(ts) == About(ts, {"ice", "rice", "service"}) # <<>>
\* Consecutive gaps of more than three days add up until a shorter one.
WeatherGap(ts) ==
  FoldLeft(LAMBDA acc, gap : LET run == IF gap > 3 THEN acc.run + gap ELSE 0
                             IN [run |-> run, most |-> IF run > acc.most THEN run ELSE acc.most],
           [run |-> 0, most |-> 0], DayGaps(Sales(ts))).most
Fisherman(ts) ==
  {[boat_ownership |-> IF OwnsBoat(ts) THEN 1000 ELSE 300, fishing_zone |-> FishingZone(ts),
    catch_cycle |-> 500, stability |-> 700, landing_sites |-> Capped(Parties(Sales(ts)), 10),
    cold_chain |-> IF HasColdChain(ts) THEN 1000 ELSE 0, weather_resilience |-> 1000 - Capped(WeatherGap(ts), 30),
    savings_rate |-> SavingsRate(ts),
    income_level |-> Capped(Sum([m \in 1..12 |-> MonthlyProfile(ts)[m - 1]]), 60000), trajectory |-> 500]}

Skills == <<"other", "metal", "wood", "cloth", "engine", "pipe", "wire", "cement", "paint">>
DetectSkill(ts) ==
  LET found == Commonest(ts, ToSet(Tail(Skills))) IN IF found = {} THEN {"other"} ELSE found
ClientRepeatRate(ts) ==
  LET sales == Sales(ts)
      clients == {sales[i].party : i \in DOMAIN sales} \ {none}
  IN Share(Cardinality({c \in clients : Len(SelectSeq(sales, LAMBDA t : t.party = c)) > 1}), Cardinality(clients))
JuaKali(ts, since) ==
  {[skill_type |-> Normalized(skill, Skills), equipment_value |-> 500, client_repeat_rate |-> ClientRepeatRate(ts),
    completion_signal |-> 700, income_stability |-> Evenness([i \in DOMAIN Sales(ts) |-> Sales(ts)[i].amount]),
    material_cost_ratio |-> Capped(Total(Of(ts, {"Purchase"})), Total(Sales(ts))),
    avg_project_value |-> Capped(Mean(Sales(ts)), 50000), geographic_reach |-> Capped(Places(ts), 5),
    savings_rate |-> SavingsRate(ts), years_active |-> Capped(since, 3650)] : skill \in DetectSkill(ts)}

\* The first product that names a mineral decides, in the order of the table.
Minerals == <<<<"gold", 1000>>, <<"gem", 800>>, <<"sand", 400>>, <<"cement", 500>>>>
DetectMineral(ts) ==
  LET named == About(ts, {"gold", "gem", "sand", "cement"})
  IN IF named = <<>> THEN 300
     ELSE SelectSeq(Minerals, LAMBDA m : m[1] \in named[1].product)[1][2]
MineType(ts) == LET spend == Total(Of(ts, {"Expense"}))
                IN IF spend > 500000 THEN 1000 ELSE IF spend > 50000 THEN 600 ELSE 300
InactiveGap(ts) == LET long == SelectSeq(DayGaps(Sales(ts)), LAMBDA g : g > 7)
                   IN FoldLeft(LAMBDA most, g : IF g > most THEN g ELSE most, 0, long)
Mining(ts) ==
  {[mine_type |-> MineType(ts), mineral_type |-> DetectMineral(ts), equipment_value |-> 500,
    seasonal_stability |-> 600, buyer_diversity |-> Capped(Parties(Sales(ts)), 5), savings_rate |-> SavingsRate(ts),
    income_trajectory |-> 500, activity_consistency |-> 1000 - Capped(InactiveGap(ts), 60),
    safety_investment |-> Share(Total(About(Of(ts, {"Expense"}), {"safety"})), Total(Of(ts, {"Expense"}))),
    stability |-> 500]}

Paid(ts) == Of(ts, {"Wage", "Sale"})
SkillLevel(ts) == LET n == Len(Paid(ts))
                  IN CASE Total(Paid(ts)) > 20000 * n -> "Contractor"
                       [] Total(Paid(ts)) \in (8000 * n + 1)..(20000 * n) -> "Supervisor"
                       [] Total(Paid(ts)) \in (3000 * n + 1)..(8000 * n) -> "Fundi"
                       [] OTHER -> "Helper"
Construction(ts) ==
  {[skill_level |-> Normalized(SkillLevel(ts), <<"Helper", "Fundi", "Supervisor", "Contractor">>),
    contractor_count |-> Capped(Parties(Paid(ts)), 5), project_frequency |-> 500,
    wage_regularity |-> Regularity(Paid(ts)), wage_trajectory |-> 500, geographic_mobility |-> Capped(Places(ts), 3),
    tool_investment |-> Capped(Total(About(Of(ts, {"Expense"}), {"tool"})), 50000),
    weekend_work |-> Fraction(SelectSeq(ts, Weekend), ts), mpesa_ratio |-> Fraction(SelectSeq(ts, LAMBDA t : t.mpesa), ts),
    wage_percentile |-> 500]}

(* The extractors of the archetypes: what they divide they do not cap ****)

FoodService(ts) ==
  {[avg_daily_revenue |-> Total(Sales(ts)) \div 300,
    ingredient_cost_ratio |-> Share(Total(Of(ts, {"Purchase"})), Total(Sales(ts))), fuel_cost_ratio |-> 100,
    menu_diversity |-> 50 * Products(Sales(ts)), operating_days |-> 857,
    revenue_volatility |-> IF Total(Sales(ts)) > 0 THEN 300 ELSE 0, delivery_platform_ratio |-> 0,
    spoilage_proxy |-> 0, restock_regularity |-> 700]}
Artisan(ts) ==
  LET n == Len(Sales(ts))
  IN {[avg_job_value |-> Mean(Sales(ts)) \div 50, material_cost_ratio |-> 400, jobs_per_month |-> (50 * n) \div 3,
       revenue_volatility |-> 500, repeat_customer_ratio |-> 300,
       avg_gap_between_jobs |-> IF n <= 3 THEN 1000 ELSE 3000 \div n, tool_investment_proxy |-> 0,
       upfront_payment_ratio |-> 500]}
ServiceProvider(ts) ==
  {[avg_service_price |-> Mean(Sales(ts)) \div 5, services_per_day |-> (5 * Len(Sales(ts))) \div 3,
    parts_markup |-> 200, repeat_customers |-> 500, appointment_regularity |-> 600, revenue_volatility |-> 300,
    workspace_cost |-> 100, service_diversity |-> 50 * Products(Sales(ts))]}
Livestock(ts) ==
  {[daily_production |-> Total(Sales(ts)) \div 150, feed_cost |-> 400, vet_cost |-> 80,
    production_regularity |-> 700, animal_sales |-> 50, revenue_volatility |-> 300, mortality_proxy |-> 20,
    years_in_livestock |-> 100]}
AgentBroker(ts) ==
  {[daily_txn |-> Len(ts) \div 3, float_turnover |-> 300, commission_rate |-> 1000, peak_concentration |-> 600,
    fraud_risk |-> 100, volume |-> Total(ts) \div 1000, repeat_customers |-> 650, operating_hours |-> 417]}
DigitalWorker(ts) ==
  {[avg_project_value |-> Mean(Sales(ts)) \div 50, projects_per_month |-> (50 * Len(Sales(ts))) \div 3,
    platform_income |-> 400, client_diversity |-> 250, income_volatility |-> 600, internet_cost |-> 100,
    international_payment |-> 300, skill_premium |-> 500]}
CasualLaborer(ts) ==
  {[daily_wage |-> Mean(Paid(ts)) \div 3, days_worked |-> (125 * Len(Paid(ts))) \div 14, employer_diversity |-> 300,
    income_volatility |-> 500, idle_days |-> 300, transport_cost |-> 100, payment_delay |-> 200,
    savings_regularity |-> 200]}
CommunityCare(ts) ==
  {[avg_fee |-> Mean(Sales(ts)) \div 20, engagements_per_month |-> (50 * Len(Sales(ts))) \div 3,
    income_volatility |-> 700, equipment_investment |-> 0, repeat_clients |-> 400, seasonal_peak |-> 500,
    advance_payment |-> 300, reputation |-> 600]}

(* Types and their extractors ********************************************)

Archetypes == {"Vendor", "FoodService", "Artisan", "ServiceProvider", "TransportOperator", "CropFarmer",
               "LivestockKeeper", "Fisher", "AgentBroker", "DigitalWorker", "CasualLaborer", "CommunityCareWorker"}
LegacyTypes == {"MarketVendor", "BodaBodaRider", "Farmer", "Fisherman", "JuaKaliArtisan", "MpesaAgent",
                "ConstructionWorker", "MiningWorker"}
TypeWeight(type) ==                          \* in tenths
  CASE type \in {"CropFarmer", "Fisher", "Farmer", "Fisherman"} -> 6
    [] type \in {"TransportOperator", "LivestockKeeper", "CasualLaborer", "BodaBodaRider", "ConstructionWorker",
                 "MiningWorker"} -> 5
    [] type \in {"FoodService", "Artisan", "ServiceProvider", "AgentBroker", "JuaKaliArtisan", "MpesaAgent"} -> 4
    [] type \in {"Vendor", "DigitalWorker", "CommunityCareWorker", "MarketVendor"} -> 3
    [] OTHER -> 0
MinTransactions(type) ==
  CASE type \in {"CropFarmer", "Fisher", "Farmer", "Fisherman"} -> 90
    [] type \in {"Vendor", "FoodService", "LivestockKeeper", "MarketVendor", "MiningWorker"} -> 60
    [] type \in {"Artisan", "ServiceProvider", "CommunityCareWorker", "JuaKaliArtisan"} -> 20
    [] type = "CasualLaborer" -> 15
    [] OTHER -> 30
ToArchetype(type) ==
  CASE type = "MarketVendor" -> "Vendor" [] type = "BodaBodaRider" -> "TransportOperator"
    [] type = "Farmer" -> "CropFarmer" [] type = "Fisherman" -> "Fisher"
    [] type \in {"JuaKaliArtisan", "MiningWorker"} -> "Artisan" [] type = "MpesaAgent" -> "AgentBroker"
    [] type = "ConstructionWorker" -> "CasualLaborer" [] OTHER -> type
\* create_extractor: the type that the extractor of a type says it is for.
CreateExtractor(type) ==
  CASE type = "Vendor" -> "MarketVendor" [] type = "TransportOperator" -> "BodaBodaRider"
    [] type = "CropFarmer" -> "Farmer" [] type = "Fisher" -> "Fisherman" [] OTHER -> type
\* min_transactions of that extractor.
ExtractorMinimum(of) == IF of = "FoodService" THEN 30 ELSE MinTransactions(of)
\* extract: the vectors it may return for a worker first seen `since` days ago.
Extract(of, ts, since) ==
  CASE of = "Farmer" -> Farmer(ts) [] of = "BodaBodaRider" -> BodaBoda(ts) [] of = "MarketVendor" -> Vendor(ts, since)
    [] of = "MpesaAgent" -> MpesaAgent(ts) [] of = "Fisherman" -> Fisherman(ts)
    [] of = "JuaKaliArtisan" -> JuaKali(ts, since) [] of = "MiningWorker" -> Mining(ts)
    [] of = "ConstructionWorker" -> Construction(ts) [] of = "FoodService" -> FoodService(ts)
    [] of = "Artisan" -> Artisan(ts) [] of = "ServiceProvider" -> ServiceProvider(ts)
    [] of = "LivestockKeeper" -> Livestock(ts) [] of = "AgentBroker" -> AgentBroker(ts)
    [] of = "DigitalWorker" -> DigitalWorker(ts) [] of = "CasualLaborer" -> CasualLaborer(ts)
    [] of = "CommunityCareWorker" -> CommunityCare(ts)
Extractors == {CreateExtractor(type) : type \in Archetypes \cup LegacyTypes}

(* WorkerTypeDetector::detect: metadata and weights in hundredths ********)

\* The types each pattern speaks for, and how much.
Signals ==
  [counterparties |-> {<<"Vendor", 30>>, <<"MarketVendor", 40>>}, small |-> {<<"Vendor", 20>>},
   fuel |-> {<<"TransportOperator", 50>>, <<"BodaBodaRider", 60>>},
   catch |-> {<<"Fisher", 50>>, <<"Fisherman", 50>>}, harvest |-> {<<"CropFarmer", 50>>, <<"Farmer", 50>>},
   float |-> {<<"AgentBroker", 60>>, <<"MpesaAgent", 70>>},
   wages |-> {<<"CasualLaborer", 40>>, <<"ConstructionWorker", 40>>},
   material |-> {<<"Artisan", 40>>, <<"JuaKaliArtisan", 40>>}, feed |-> {<<"LivestockKeeper", 50>>},
   cooking |-> {<<"FoodService", 50>>}, platform |-> {<<"DigitalWorker", 40>>},
   service |-> {<<"ServiceProvider", 40>>}, event |-> {<<"CommunityCareWorker", 30>>}]
Shows(m) ==
  [counterparties |-> m.transactions > 100 /\ 2 * m.counterparties > m.transactions, small |-> m.small > 60,
   fuel |-> m.fuel > 70, catch |-> m.periodicity > 60 /\ m.fish, harvest |-> m.periodicity > 60 /\ ~m.fish,
   float |-> m.float > 300, wages |-> m.size > 1000 /\ m.counterparties < 5 /\ m.volatility > 50,
   material |-> m.material > 20 /\ m.volatility > 40, feed |-> m.feed > 50,
   cooking |-> m.ingredients > 30 /\ m.cookingFuel > 30, platform |-> m.platform > 20 /\ m.internet > 10,
   service |-> m.service > 30 /\ m.volatility < 40, event |-> m.event > 10 /\ m.volatility > 60]
\* The types it may answer with its confidence: the best, Generic below 0.6.
Answer(score) ==
  LET best == {type \in DOMAIN score : \A other \in DOMAIN score : score[other] <= score[type]}
      sure == {type \in best : score[type] >= 60}
  IN [types |-> IF sure = {} THEN {"Generic"} ELSE sure, confidence |-> Max({0} \cup {score[type] : type \in best})]
Scores(heard) ==
  [type \in {h[1] : h \in heard} |-> FoldSet(LAMBDA h, sum : h[2] + sum, 0, {h \in heard : h[1] = type})]
Detect(m) ==
  LET shown == Shows(m)
  IN Answer(Scores(UNION {Signals[sign] : sign \in {x \in DOMAIN shown : shown[x]}}))

(* KMeansClusterer: points are sequences of integers, a centroid is the   *)
(* sum of its members with their number                                   *)

Centroid(point) == [sum |-> point, n |-> 1]
\* The squared distance to a centroid times the square of its number.
Apart(point, c) == Sum([j \in DOMAIN point |-> (point[j] * c.n - c.sum[j]) * (point[j] * c.n - c.sum[j])])
NoFarther(point, a, b) == Apart(point, a) * b.n * b.n <= Apart(point, b) * a.n * a.n
\* The first of the nearest.
Nearest(point, centroids) ==
  CHOOSE c \in DOMAIN centroids :
    \A d \in DOMAIN centroids :
      /\ NoFarther(point, centroids[c], centroids[d])
      /\ d < c => ~NoFarther(point, centroids[d], centroids[c])
\* kmeans_pp_init: the first point, then the last of the points farthest from
\* the centroids so far, then, if none is apart, the point at their number.
LastFarthest(gap) ==
  CHOOSE i \in DOMAIN gap : \A j \in DOMAIN gap : gap[j] <= gap[i] /\ (j > i => gap[j] < gap[i])
NextCentroid(data, count, gap) ==
  Centroid(data[IF \A i \in DOMAIN gap : gap[i] = 0 THEN (count % Len(data)) + 1 ELSE LastFarthest(gap)])
WithNext(data, chosen) ==
  Append(chosen, NextCentroid(data, Len(chosen),
                              [i \in DOMAIN data |-> Apart(data[i], chosen[Nearest(data[i], chosen)])]))
InitialCentroids(data, k) ==
  FoldLeft(LAMBDA chosen, c : WithNext(data, chosen), <<Centroid(data[1])>>, [c \in 1..(k - 1) |-> c])
Update(centroids, data, assigned) ==
  [c \in DOMAIN centroids |->
     LET members == {i \in DOMAIN data : assigned[i] = c}
     IN IF members = {} THEN centroids[c]
        ELSE [sum |-> [j \in DOMAIN data[1] |-> FoldSet(LAMBDA i, sum : sum + data[i][j], 0, members)],
              n |-> Cardinality(members)]]
\* fit after some rounds; it stops at a round that assigns nothing anew, and every
\* point begins assigned to the first centroid.
Refit(fit, data, assigned) ==
  IF fit.settled THEN fit
  ELSE IF assigned = fit.assigned THEN [fit EXCEPT !.settled = TRUE]
  ELSE [centroids |-> Update(fit.centroids, data, assigned), assigned |-> assigned, settled |-> FALSE]
Fit(data, clusters, iterations) ==
  FoldLeft(LAMBDA fit, i : Refit(fit, data, [p \in DOMAIN data |-> Nearest(data[p], fit.centroids)]),
           [centroids |-> InitialCentroids(data, Least(clusters, Len(data))),
            assigned |-> [p \in DOMAIN data |-> 1], settled |-> FALSE],
           [i \in 1..iterations |-> i])
\* silhouette_score on a line, in thousandths and times n, as a set: empty for
\* the NaN it is when a point has no other cluster to compare with.
Silhouette(data, k, assigned) ==
  LET Members(c) == {i \in DOMAIN data : assigned[i] = c}
      Gap(i, j) == IF data[i][1] < data[j][1] THEN data[j][1] - data[i][1] ELSE data[i][1] - data[j][1]
      MeanTo(i, others) == IF others = {} THEN 0
                           ELSE (60 * FoldSet(LAMBDA j, sum : sum + Gap(i, j), 0, others)) \div Cardinality(others)
      a(i) == MeanTo(i, Members(assigned[i]) \ {i})
      Others(i) == {c \in 1..k : c # assigned[i] /\ Members(c) # {}}
      b(i) == Min({MeanTo(i, Members(c)) : c \in Others(i)})
      Contrast(a1, b1) == IF a1 = 0 /\ b1 = 0 THEN 0 ELSE (1000 * (b1 - a1)) \div Max({a1, b1})
  IN IF Len(data) < 2 \/ k < 2 THEN {0}
     ELSE IF \E i \in DOMAIN data : Others(i) = {} THEN {}
     ELSE {Sum([i \in DOMAIN data |-> Contrast(a(i), b(i))])}

(* Properties: small histories, and longer ones for what takes many ******)

Tx(category, amount, day, hour, product, party) ==
  [category |-> category, amount |-> amount, day |-> day, hour |-> hour, product |-> product,
   party |-> party, place |-> party, mpesa |-> hour < 12]
Menu ==
  {Tx("Sale", 400, 3, 7, {"maize"}, "p"), Tx("Sale", 200000, 4, 12, {}, "q"), Tx("Sale", 5000, 40, 9, {"gold"}, none),
   Tx("Sale", 100, 11, 18, {"sand", "beans", "cement"}, "q"), Tx("Purchase", 20000, 3, 8, {"seed"}, "s"),
   Tx("Purchase", 60, 25, 8, {"pesticide", "wood"}, "t"), Tx("Expense", 60000, 9, 9, {"repair", "engine"}, none),
   Tx("Expense", 300, 4, 9, {"fuel"}, none), Tx("Expense", 600000, 10, 9, {"safety", "tool"}, none),
   Tx("Savings", 500, 5, 9, {}, none), Tx("Wage", 9000, 10, 17, {"rice"}, "p"),
   Tx("Commission", 6000, 4, 20, {}, "p"), Tx("Transfer", 100, 5, 9, {"sacco"}, "s")}
Repeated(t, n, apart) == [i \in 1..n |-> [t EXCEPT !.day = @ + apart * i]]
LongHistories ==
  LET harvests == [i \in 1..12 |-> Tx("Sale", IF i \in {3, 9} THEN 9000 ELSE 500, 10 * i, 8, {"tea"}, "p")]
  IN {harvests, harvests \o <<Tx("Savings", 4000, 31, 8, {}, none), Tx("Savings", 900, 92, 8, {}, none)>>,
      Repeated(Tx("Transfer", 100, 5, 9, {"sacco"}, "s"), 3, 30),
      Repeated(Tx("Sale", 300, 2, 8, {"wire"}, "p"), 7, 2) \o Repeated(Tx("Savings", 50, 2, 8, {}, none), 3, 7),
      Repeated(Tx("Wage", 25000, 2, 17, {}, "p"), 4, 7) \o Repeated(Tx("Expense", 900, 2, 9, {"service"}, none), 2, 120),
      Repeated(Tx("Sale", 900, 2, 8, {}, "p"), 3, 5) \o Repeated(Tx("Sale", 900, 40, 8, {}, "q"), 2, 1)}
Histories == {<<>>} \cup [1..1 -> Menu] \cup [1..2 -> Menu] \cup LongHistories
Uncapped == {"FoodService", "Artisan", "ServiceProvider", "LivestockKeeper", "AgentBroker", "DigitalWorker",
             "CasualLaborer", "CommunityCareWorker"}

\* types.rs:150 calls the vectors "normalized numeric features for model input":
\* of the older types they are, of the archetypes with an extractor of their
\* own every one can leave 0..1.
VectorsNormalized ==
  {of \in Extractors : \E ts \in Histories, since \in {0, 9000} : \E v \in Extract(of, ts, since) :
                         \E name \in DOMAIN v : v[name] \notin 0..1000} = Uncapped

\* The order a history is handed over in matters to the mineral alone; which of
\* two crops or skills named as often is taken, nothing decides.
OrderIrrelevant ==
  /\ {of \in Extractors : \E ts \in Histories : Cardinality({Extract(of, h, 400) : h \in {ts, Reverse(ts)}}) > 1}
       = {"MiningWorker"}
  /\ {of \in Extractors : \E ts \in Histories : Cardinality(Extract(of, ts, 400)) > 1} = {"Farmer", "JuaKaliArtisan"}

\* `len() as u8` (vendor.rs:50): a vendor with 256 suppliers counts as having none.
CountsWrap ==
  LET suppliers(n) == {v.supplier_count : v \in Vendor([i \in 1..n |-> Tx("Purchase", 1, i, 8, {}, ToString(i))], 0)}
  IN suppliers(0) = {0} /\ suppliers(9) = {900} /\ suppliers(255) = {1000} /\ suppliers(256) = {0}

\* A type and the type its extractor is for are of one archetype and weigh the
\* same; the two ask for as many transactions but for food, and a miner counts
\* more than the artisans he is counted among.
ExtractorsServeTheirTypes ==
  LET types == Archetypes \cup LegacyTypes
  IN /\ \A type \in types : /\ ToArchetype(CreateExtractor(type)) = ToArchetype(type)
                            /\ ToArchetype(type) \in Archetypes
                            /\ TypeWeight(CreateExtractor(type)) = TypeWeight(type)
     /\ {type \in types : ExtractorMinimum(CreateExtractor(type)) # MinTransactions(type)} = {"FoodService"}
     /\ {type \in types : TypeWeight(ToArchetype(type)) # TypeWeight(type)} = {"MiningWorker"}

\* "Detects worker type (12 archetypes)" (worker_type_detector.rs:6): whatever
\* the patterns, the answer is a boda rider, an M-Pesa agent or Generic, and only
\* one of them.
FewAreDetected ==
  LET Metas ==
        [transactions : {100, 120}, counterparties : {3, 61}, small : {50, 61}, fuel : {70, 71}, float : {300, 301},
         periodicity : {60, 61}, fish : BOOLEAN, size : {2000}, volatility : {30, 45, 61}, material : {20, 21},
         feed : {51}, ingredients : {31}, cookingFuel : {31}, platform : {21}, internet : {11}, service : {31},
         event : {11}]
  IN \A answers \in {{Detect(m).types : m \in Metas}} :
       answers = {{"Generic"}, {"BodaBodaRider"}, {"MpesaAgent"}}

\* The sum of squared distances times 144, an integer for up to four points.
Wcss(fit, data) ==
  Sum([i \in DOMAIN data |-> LET c == fit.centroids[fit.assigned[i]] IN (144 * Apart(data[i], c)) \div (c.n * c.n)])

\* No round of k-means moves points farther from their centroids; when it
\* settles each point is with the nearest, and the centroids are means, unless
\* there is but one cluster: that stays at the first point. Silhouettes lie
\* within -1 and 1 where two clusters have members.
ClustersSettle ==
  \A n \in 1..4 : \A data \in [1..n -> {<<0>>, <<1>>, <<4>>}], k \in 1..3 :
    \A after \in {[i \in 1..4 |-> Fit(data, k, i)]} : \A fit \in {after[4]} :
      /\ \A i \in 1..2 : Wcss(after[i + 1], data) <= Wcss(after[i], data)
      /\ fit.settled
      /\ \A i \in DOMAIN data, c \in DOMAIN fit.centroids :
           NoFarther(data[i], fit.centroids[fit.assigned[i]], fit.centroids[c])
      /\ IF Len(fit.centroids) = 1 THEN fit.centroids[1] = Centroid(data[1])
         ELSE Update(fit.centroids, data, fit.assigned) = fit.centroids
              \/ Cardinality(ToSet(data)) = 1
      /\ \A s \in {Silhouette(data, Len(fit.centroids), fit.assigned)} :
           /\ s = {} <=> Len(fit.centroids) > 1 /\ Cardinality(ToSet(data)) = 1
           /\ s \subseteq (-1000 * n)..(1000 * n)

WorkerTypesSound ==
  /\ VectorsNormalized /\ OrderIrrelevant /\ CountsWrap /\ ExtractorsServeTheirTypes
  /\ FewAreDetected /\ ClustersSettle
=============================================================================
