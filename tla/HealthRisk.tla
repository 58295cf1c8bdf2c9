------------------------------ MODULE HealthRisk ------------------------------
(***************************************************************************)
(* health/: the hazards of each occupation, the composite risk of a worker, *)
(* and the insurance matched to it; orchestrator/modules/occupation_hazard_ *)
(* matrix.rs, which holds the same table a second time; and the cost of     *)
(* health from health_economics.rs. Multipliers are in tenths (a 3.5 is 35),*)
(* shares and adjustments in hundredths. Texts, signals and references to   *)
(* the WHO are left out.                                                    *)
(***************************************************************************)
EXTENDS Integers, FiniteSets, SequencesExt

Lesser(a, b) == IF a <= b THEN a ELSE b
Greater(a, b) == IF a >= b THEN a ELSE b
Clamp(x, low, high) == Lesser(Greater(x, low), high)

(* Hazard profiles *******************************************************)

Severities == <<"Low", "Moderate", "High", "Critical">>
Rank(severity) == CHOOSE i \in DOMAIN Severities : Severities[i] = severity

Hazard(name, severity, multiplier, prevalence, insurance) ==
  [name |-> name, severity |-> severity, multiplier |-> multiplier,
   prevalence |-> prevalence, insurance |-> insurance]
Profile(multiplier, hazards) == [multiplier |-> multiplier, hazards |-> hazards]

boda_boda == Profile(35,
  <<Hazard("accident", "Critical", 45, 35, {"PersonalAccident", "MotorVehicle"}),
    Hazard("musculoskeletal", "High", 28, 45, {"OutpatientCover"}),
    Hazard("hearing_loss", "Moderate", 18, 30, {"OutpatientCover"}),
    Hazard("weather", "Moderate", 20, 80, {"OutpatientCover"}),
    Hazard("mental_health", "High", 25, 40, {"MentalHealthCover"}),
    Hazard("violence", "High", 30, 20, {"PersonalAccident"})>>)
miner == Profile(40,
  <<Hazard("respiratory", "Critical", 45, 25, {"CriticalIllness", "InpatientCover"}),
    Hazard("cave_in", "Critical", 40, 8, {"PersonalAccident", "LifeInsurance"}),
    Hazard("heavy_metal", "Critical", 42, 60, {"CriticalIllness", "InpatientCover"}),
    Hazard("hearing_loss", "High", 25, 50, {"OutpatientCover"}),
    Hazard("musculoskeletal", "High", 28, 55, {"OutpatientCover"})>>)
construction == Profile(30,
  <<Hazard("fall", "Critical", 40, 15, {"PersonalAccident", "Disability"}),
    Hazard("musculoskeletal", "High", 30, 60, {"OutpatientCover"}),
    Hazard("dust", "High", 30, 70, {"CriticalIllness", "InpatientCover"}),
    Hazard("hearing_loss", "Moderate", 20, 40, {"OutpatientCover"}),
    Hazard("electrical", "High", 35, 5, {"PersonalAccident", "InpatientCover"})>>)
farmer == Profile(25,
  <<Hazard("pesticide", "Critical", 35, 50, {"CriticalIllness", "InpatientCover"}),
    Hazard("heat", "High", 25, 80, {"OutpatientCover"}),
    Hazard("snake_bite", "High", 30, 3, {"InpatientCover", "PersonalAccident"}),
    Hazard("zoonotic", "High", 28, 15, {"InpatientCover"}),
    Hazard("musculoskeletal", "Moderate", 20, 65, {"OutpatientCover"})>>)
fisherman == Profile(32,
  <<Hazard("drowning", "Critical", 45, 5, {"PersonalAccident", "LifeInsurance"}),
    Hazard("sun", "High", 25, 90, {"OutpatientCover"}),
    Hazard("waterborne", "High", 28, 30, {"InpatientCover"}),
    Hazard("injuries", "Moderate", 20, 40, {"OutpatientCover"}),
    Hazard("mental_health", "Moderate", 20, 35, {"MentalHealthCover"})>>)
market_vendor == Profile(18,
  <<Hazard("respiratory", "Moderate", 20, 60, {"OutpatientCover"}),
    Hazard("musculoskeletal", "Moderate", 20, 55, {"OutpatientCover"}),
    Hazard("sun", "Moderate", 18, 70, {"OutpatientCover"})>>)
salon_worker == Profile(22,
  <<Hazard("chemical", "High", 30, 85, {"CriticalIllness", "OutpatientCover"}),
    Hazard("respiratory", "High", 25, 60, {"OutpatientCover"}),
    Hazard("repetitive_strain", "Moderate", 20, 45, {"OutpatientCover"})>>)
household_worker == Profile(20,
  <<Hazard("chemical", "Moderate", 22, 75, {"OutpatientCover"}),
    Hazard("physical_strain", "Moderate", 20, 60, {"OutpatientCover"}),
    Hazard("mental_health", "High", 28, 40, {"MentalHealthCover"}),
    Hazard("violence", "High", 30, 25, {"PersonalAccident"})>>)

Profiles == [boda_boda |-> boda_boda, miner |-> miner, construction |-> construction,
             farmer |-> farmer, fisherman |-> fisherman, market_vendor |-> market_vendor,
             salon_worker |-> salon_worker, household_worker |-> household_worker]

(* The occupation hazard matrix ******************************************)

\* build_matrix: of each occupation its score, and of four the hazard entries.
Score(occupation, multiplier, tier, count, critical, high) ==
  [occupation |-> occupation, multiplier |-> multiplier, tier |-> tier, count |-> count,
   critical |-> critical, high |-> high]
Occupations ==
  <<Score("boda_boda", 35, "Critical", 6, 1, 3), Score("miner", 40, "Critical", 5, 3, 2),
    Score("construction", 30, "High", 5, 1, 3), Score("farmer", 25, "High", 5, 1, 3),
    Score("fisherman", 32, "High", 5, 1, 2), Score("market_vendor", 18, "Moderate", 3, 0, 0),
    Score("salon_worker", 22, "High", 3, 0, 2), Score("household_worker", 20, "Moderate", 4, 0, 2),
    Score("hawker", 22, "High", 4, 0, 2), Score("jua_kali", 28, "High", 4, 0, 3),
    Score("matatu", 25, "High", 3, 0, 2), Score("mpesa_agent", 15, "Moderate", 2, 0, 1),
    Score("duka_owner", 15, "Moderate", 2, 0, 0), Score("food_seller", 20, "Moderate", 3, 0, 1),
    Score("waste_picker", 35, "Critical", 4, 1, 2),
    Score("cross_border_trader", 20, "Moderate", 3, 0, 2)>>

Entry(name, severity, multiplier, prevalence) ==
  [name |-> name, severity |-> severity, multiplier |-> multiplier, prevalence |-> prevalence]
HazardEntries ==
  [boda_boda |-> <<Entry("accident", "Critical", 45, 35), Entry("musculoskeletal", "High", 28, 45),
                   Entry("mental_health", "High", 25, 40), Entry("violence", "High", 30, 20)>>,
   miner |-> <<Entry("respiratory", "Critical", 45, 25), Entry("heavy_metal", "Critical", 42, 60),
               Entry("cave_in", "Critical", 40, 8)>>,
   construction |-> <<Entry("fall", "Critical", 40, 15), Entry("dust", "High", 30, 70)>>,
   farmer |-> <<Entry("pesticide", "Critical", 35, 50), Entry("heat", "High", 25, 80)>>]

\* get_ranked, by a stable sort: the places of the table, riskiest first.
Ranked == SortSeq([i \in DOMAIN Occupations |-> i],
                  LAMBDA i, j : \/ Occupations[i].multiplier > Occupations[j].multiplier
                                \/ Occupations[i].multiplier = Occupations[j].multiplier /\ i < j)

(* The composite risk ****************************************************)

\* calculate_multiplier: facilities, disease, water and air, in hundredths.
LocationMultiplier(facility, disease, water, air) ==
  Clamp((35 * facility + 30 * disease + 20 * water + 15 * air) \div 100, 80, 150)
Kisumu == LocationMultiplier(115, 135, 125, 105)
Nairobi == LocationMultiplier(100, 110, 100, 115)

\* calculate_adjustment: hours, and the shares of night, weekend and cash.
ExposureAdjustment(hours, night, weekend, cash) ==
  Clamp(100 + (IF hours > 12 THEN 15 ELSE IF hours > 10 THEN 8 ELSE IF hours < 6 THEN -5 ELSE 0)
            + (IF night > 30 THEN 15 ELSE IF night > 15 THEN 8 ELSE 0)
            + (IF weekend > 80 THEN 10 ELSE 0) + (IF cash > 70 THEN 8 ELSE 0), 80, 150)

\* CompositeHealthRisk::calculate, in hundredths, rounded down.
IncomeFactor(stability) == 70 + (30 * (100 - stability)) \div 100
OverallScore(occupation, location, exposure, stability, protective) ==
  Clamp((occupation * location * exposure * IncomeFactor(stability)) \div 100000 - protective,
        100, 500)
RiskTier(score) == IF score < 150 THEN "Low" ELSE IF score < 250 THEN "Moderate"
                   ELSE IF score < 350 THEN "High" ELSE "Critical"

\* RiskExplanation::generate: the three hazards that contribute most. The hazard
\* scores and their contributions are computed elsewhere.
TopRisks(contribution) ==
  LET order == SortSeq([i \in DOMAIN contribution |-> i],
                       LAMBDA i, j : \/ contribution[i] > contribution[j]
                                     \/ contribution[i] = contribution[j] /\ i < j)
  IN SubSeq(order, 1, Lesser(3, Len(order)))

(* Insurance *************************************************************)

\* calculate_risk_adjusted_premium: base in KES, increment and cap in hundredths.
\* The fifty shillings are rounded up to, after the cap.
RiskAdjustedPremium(base, increment, cap, tier) ==
  LET raw == base * (100 + (Rank(tier) - 1) * increment)
  IN ((Lesser(raw, base * cap) + 4999) \div 5000) * 50

Weight(severity) == Rank(severity)
\* calculate_match_score, in tenths. A top risk goes by the hazard's name and is
\* looked for under the ids, which differ from the names.
Id(hazard) == "id of " \o hazard.name
SameHazard(hazard, top) == Id(hazard) = top.name
MatchScore(product, profile, top) ==
  Lesser(10, FoldSeq(LAMBDA t, sum :
                       sum + FoldSeq(LAMBDA h, s :
                                       s + IF SameHazard(h, t) /\ product \in h.insurance
                                           THEN Weight(t.severity) ELSE 0,
                                     0, profile.hazards),
                     0, top))

\* assess_eligibility: the eligible products of the catalog, best match first by
\* a stable sort. Which ones are eligible is the environment's: check_eligibility
\* is called and not defined.
EligibleProducts(catalog, eligible, profile, top) ==
  LET kept == SelectSeq(catalog, LAMBDA p : p \in eligible)
      order == SortSeq([i \in DOMAIN kept |-> i],
                       LAMBDA i, j :
                         LET a == MatchScore(kept[i], profile, top)
                             b == MatchScore(kept[j], profile, top)
                         IN a > b \/ (a = b /\ i < j))
  IN [k \in DOMAIN order |-> kept[order[k]]]
PremiumRange(premiums) ==
  IF premiums = {} THEN <<0, 0>>
  ELSE <<CHOOSE p \in premiums : \A q \in premiums : p <= q,
         CHOOSE p \in premiums : \A q \in premiums : p >= q>>

(* Health economics ******************************************************)

Unaffordable == 2147483647
\* compute_qaly, utilities in hundredths: dollars per year, and whether three
\* times the GDP per head pays for it.
Qaly(cost, years, without, with) ==
  LET gained == (with - without) * years
      perYear == IF gained > 0 THEN (100 * cost) \div gained ELSE Unaffordable
  IN [gained |-> gained, perYear |-> perYear, effective |-> perYear <= 3 * 2100]
\* compute_daly of a thousand workers, weights in thousandths.
Daly(incidence, mortality, onset, duration, weight) ==
  [yll |-> mortality * Greater(63 - onset, 0), yld |-> (incidence * weight * duration) \div 1000]
RankInterventions(results) ==
  LET kept == SelectSeq([i \in DOMAIN results |-> i],
                        LAMBDA i : results[i].effective /\ results[i].gained > 0)
  IN SortSeq(kept, LAMBDA i, j : \/ results[i].perYear < results[j].perYear
                                 \/ results[i].perYear = results[j].perYear /\ i < j)

-----------------------------------------------------------------------------
Count(hazards, severity) == Cardinality({i \in DOMAIN hazards : hazards[i].severity = severity})

\* The two tables say the same of the occupations and hazards both have.
TablesAgree ==
  /\ \A o \in ToSet(Occupations), profiles \in {Profiles} :
       o.occupation \in DOMAIN profiles =>
         \A profile \in {profiles[o.occupation]} :
           /\ o.multiplier = profile.multiplier
           /\ o.count = Len(profile.hazards)
           /\ o.critical = Count(profile.hazards, "Critical") /\ o.high = Count(profile.hazards, "High")
  /\ \A profiles \in {Profiles}, entries \in {HazardEntries} : \A o \in DOMAIN entries :
       \A entry \in ToSet(entries[o]) :
         \E h \in ToSet(profiles[o].hazards) : entry = Entry(h.name, h.severity, h.multiplier, h.prevalence)

\* Hazards lie in the band types.rs:37 gives their severity, and an occupation's
\* tier is the one its multiplier has on its own, but for the two of 2.2 that
\* the matrix calls High.
BandsRespected ==
  /\ \A profiles \in {Profiles} : \A o \in DOMAIN profiles : \A h \in ToSet(profiles[o].hazards) :
       h.multiplier \in CASE h.severity = "Moderate" -> 15..25 [] h.severity = "High" -> 25..35
                          [] h.severity = "Critical" -> 35..50 [] OTHER -> 10..15
  /\ \A o \in ToSet(Occupations) :
       o.tier = RiskTier(10 * o.multiplier) \/ (o.multiplier = 22 /\ o.tier = "High")

\* get_ranked lists every occupation once, no riskier one behind a safer one.
RankingOrdered ==
  \A ranked \in {Ranked}, table \in {Occupations} :
    /\ ToSet(ranked) = DOMAIN table /\ Len(ranked) = Len(table)
    /\ \A i, j \in DOMAIN ranked : i < j => table[ranked[i]].multiplier >= table[ranked[j]].multiplier

\* A worker does not look healthier for a riskier occupation, place or exposure,
\* nor for a less stable income; the adjustments stay inside the ranges their
\* comments give, without the clamp ever being needed for exposure.
Places == {Kisumu, Nairobi, 80, 150}
Exposures == {ExposureAdjustment(h, n, w, c) :
                h \in {5, 6, 11, 13}, n \in {10, 20, 40}, w \in {50, 90}, c \in {50, 90}}
RiskMonotone ==
  /\ Exposures \subseteq 95..148
  /\ \A o, p \in {18, 25, 40}, l, m \in Places, e, f \in {95, 100, 148}, s, t \in {0, 50, 100} :
       (o <= p /\ l <= m /\ e <= f /\ s >= t) =>
          LET a == OverallScore(o, l, e, s, 20)
              b == OverallScore(p, m, f, t, 20)
          IN a <= b /\ Rank(RiskTier(a)) <= Rank(RiskTier(b))

\* A riskier tier never pays less, no one pays less than the base, and more
\* than the cap by the rounding at most (insurance.rs:174 rounds after it).
PremiumsFair ==
  \A base \in {120, 500, 730}, increment \in {0, 15, 40}, cap \in {100, 150, 180} :
    \A i, j \in DOMAIN Severities :
      LET Premium(k) == RiskAdjustedPremium(base, increment, cap, Severities[k])
      IN /\ i <= j => Premium(i) <= Premium(j)
         /\ Premium(i) % 50 = 0 /\ Premium(i) >= base
         /\ 100 * (Premium(i) - 50) < base * cap

\* The risks of which a product is to take care are the gravest ones, what is
\* recommended is all that is eligible, each product once, and none that matches
\* better stands behind another ("best match first", insurance.rs:137). That the
\* code's match is 0 for every product is in MatchScore, and asserted by nothing.
Catalog == <<"OutpatientCover", "CriticalIllness", "PersonalAccident">>
RecommendationOrdered ==
  \A profiles \in {Profiles} : \A profile \in {profiles[o] : o \in DOMAIN profiles} :
    \A places \in {TopRisks([i \in DOMAIN profile.hazards |-> profile.hazards[i].multiplier])} :
      \A top \in {[k \in DOMAIN places |-> profile.hazards[places[k]]]}, eligible \in SUBSET ToSet(Catalog) :
        /\ \A k \in 1..Len(top) - 1 : top[k].multiplier >= top[k + 1].multiplier
        /\ \A listed \in {EligibleProducts(Catalog, eligible, profile, top)} :
             /\ ToSet(listed) = eligible /\ Len(listed) = Cardinality(eligible)
             /\ \A i, j \in DOMAIN listed :
                  i < j => MatchScore(listed[i], profile, top) >= MatchScore(listed[j], profile, top)

\* Only what is worth its cost is ranked, cheapest first; a year of life costs
\* no less when an intervention costs more or helps less; nobody loses years
\* past the life expectancy.
InterventionsRanked ==
  \A costs \in [1..3 -> {40, 3000, 9000}] :
    LET results == [i \in 1..3 |-> Qaly(costs[i], 2, 50, 50 + 20 * (i - 1))]
        ranked == RankInterventions(results)
    IN /\ 1 \notin ToSet(ranked)
       /\ \A i, j \in DOMAIN ranked :
            i < j => results[ranked[i]].perYear <= results[ranked[j]].perYear
       /\ \A i \in DOMAIN ranked : 50 * results[ranked[i]].gained > 0
                                   /\ 100 * costs[ranked[i]] < 6301 * results[ranked[i]].gained
       /\ \A i, j \in 1..3 : costs[i] <= costs[j] /\ i >= j =>
                              results[i].perYear <= results[j].perYear
       /\ Daly(30, 5, 70, 2, 250).yll = 0

HealthRiskSound ==
  /\ TablesAgree /\ BandsRespected /\ RankingOrdered /\ RiskMonotone /\ PremiumsFair
  /\ RecommendationOrdered /\ InterventionsRanked
=============================================================================
