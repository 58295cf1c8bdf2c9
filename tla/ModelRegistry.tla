----------------------------- MODULE ModelRegistry -----------------------------
(***************************************************************************)
(* Versions of the credit model, their champion and the A/B tests between   *)
(* it and challengers: credit/model_registry.rs. Every method takes the     *)
(* registry exclusively. Traffic is in tenths; an organisation's bucket is  *)
(* the hash of its id, in tenths too. The z-test is done in integers.       *)
(***************************************************************************)
EXTENDS Integers, FiniteSets, Sequences

CONSTANTS Version, Share,       \* model ids; shares of traffic a test may take
          GivenModel,           \* status and traffic of what callers register
          MinSamples,           \* min_samples_per_arm
          MaxTests, MaxOutcomes \* bounds

VARIABLES versions,     \* id -> [status, traffic]
          champion,     \* champion_id, "none" at first
          challengers,  \* challenger_ids, never shortened
          abTests,      \* tests in the order they were started
          asGiven       \* history: ids with the status their caller gave them

registryVars == <<versions, champion, challengers, abTests, asGiven>>

DeploymentStatus == {"Champion", "Challenger", "Staged", "Archived", "Training", "Failed"}

RegistryInit == /\ versions = [v \in {} |-> 0] /\ champion = "none"
                /\ challengers = <<>> /\ abTests = <<>> /\ asGiven = {}

\* register: a version of this id, the champion's too, is replaced as it is given.
Register(v, given) ==
  /\ versions' = [x \in DOMAIN versions \cup {v} |-> IF x = v THEN given ELSE versions[x]]
  /\ asGiven' = asGiven \cup {v}
  /\ UNCHANGED <<champion, challengers, abTests>>

\* deploy_champion: the champion there was is archived, also if it is deployed
\* again; tests and challenger_ids stay as they are.
Forgetful(v) == [versions EXCEPT ![v] = [status |-> "Champion", traffic |-> 10]]   \* fault
Deployed(v) ==
  [x \in DOMAIN versions |->
     IF x = v THEN [status |-> "Champion", traffic |-> 10]
     ELSE IF x = champion THEN [status |-> "Archived", traffic |-> 0]
     ELSE versions[x]]
DeployChampion(v) ==
  /\ v \in DOMAIN versions
  /\ versions' = Deployed(v) /\ champion' = v /\ asGiven' = asGiven \ {v, champion}
  /\ UNCHANGED <<challengers, abTests>>

\* start_ab_test: each test sets the champion's share anew.
StartAbTest(v, share) ==
  /\ Len(abTests) < MaxTests
  /\ champion # "none" /\ v \in DOMAIN versions
  /\ versions' =
       [x \in DOMAIN versions |->
          IF x = v THEN [status |-> "Challenger", traffic |-> share]
          ELSE IF x = champion THEN [versions[x] EXCEPT !.traffic = 10 - share]
          ELSE versions[x]]
  /\ abTests' = Append(abTests, [champion |-> champion, challenger |-> v, status |-> "Running",
                                 champ |-> [n |-> 0, defaults |-> 0],
                                 chall |-> [n |-> 0, defaults |-> 0]])
  /\ challengers' = Append(challengers, v) /\ asGiven' = asGiven \ {v}
  /\ UNCHANGED champion

\* route_prediction: the first challenger whose share covers the bucket.
AnyStatus(v, bucket) == bucket < 10                              \* fault: archived too
Takes(v, bucket) == versions[v].status = "Challenger" /\ bucket < versions[v].traffic
RoutePrediction(bucket) ==
  LET taking == {i \in 1..Len(challengers) : Takes(challengers[i], bucket)}
  IN IF taking = {} THEN champion
     ELSE challengers[CHOOSE i \in taking : \A j \in taking : i <= j]

Observed(arm, default) == [n |-> arm.n + 1, defaults |-> arm.defaults + (IF default THEN 1 ELSE 0)]

\* record_outcome: an outcome of neither arm is dropped; one of a decided test counts.
RecordOutcome(i, v, default) ==
  /\ abTests[i].champ.n + abTests[i].chall.n < MaxOutcomes
  /\ abTests' = IF v = abTests[i].champion
                THEN [abTests EXCEPT ![i].champ = Observed(@, default)]
                ELSE IF v = abTests[i].challenger
                     THEN [abTests EXCEPT ![i].chall = Observed(@, default)]
                     ELSE abTests
  /\ UNCHANGED <<versions, champion, challengers, asGiven>>

\* check_ab_test_results: z > 1.96 on the difference of the default rates.
NoMinimum(t) == t.champ.n > 0 /\ t.chall.n > 0                   \* fault
EnoughSamples(t) == t.champ.n >= MinSamples /\ t.chall.n >= MinSamples
Significant(t) ==
  LET n1 == t.champ.n  n2 == t.chall.n
      d == t.champ.defaults + t.chall.defaults
      diff == t.champ.defaults * n2 - t.chall.defaults * n1
  IN /\ d > 0 /\ d < n1 + n2
     /\ diff * diff * (n1 + n2) * 10000 > 38416 * d * (n1 + n2 - d) * n1 * n2
Winner(t) == IF t.chall.defaults * t.champ.n < t.champ.defaults * t.chall.n
             THEN "ChallengerWins" ELSE "ChampionWins"
CheckAbTestResults ==
  /\ abTests' = [i \in 1..Len(abTests) |->
       LET t == abTests[i]
       IN IF t.status = "Running" /\ EnoughSamples(t) /\ Significant(t)
          THEN [t EXCEPT !.status = Winner(t)] ELSE t]
  /\ UNCHANGED <<versions, champion, challengers, asGiven>>

RegistryNext ==
  \/ \E v \in Version : \/ DeployChampion(v)
                        \/ \E given \in GivenModel : Register(v, given)
                        \/ \E s \in Share : StartAbTest(v, s)
  \/ \E i \in 1..Len(abTests), v \in DOMAIN versions, default \in BOOLEAN :
       RecordOutcome(i, v, default)
  \/ CheckAbTestResults

RegistrySpec == RegistryInit /\ [][RegistryNext]_registryVars

\* No model is registered under the name that stands for having no champion.
RegistryAssumption == /\ "none" \notin Version /\ Share \subseteq Int
                      /\ GivenModel \subseteq [status : DeploymentStatus, traffic : Int]

-----------------------------------------------------------------------------
RegistryTypeOK ==
  /\ DOMAIN versions \subseteq Version /\ champion \in DOMAIN versions \cup {"none"}
  /\ \A v \in DOMAIN versions :
       /\ versions[v].status \in DeploymentStatus
       /\ versions[v].traffic \in {0, 10} \cup Share \cup {10 - s : s \in Share}
                                         \cup {given.traffic : given \in GivenModel}
  /\ \A i \in 1..Len(abTests) : abTests[i].status \in {"Running", "ChampionWins", "ChallengerWins"}

\* Through any sequence of registrations, deployments and tests, of the champion
\* itself too: predictions go to a champion or a challenger, unless the champion's
\* id has been registered again and nothing was deployed or tested under it since;
\* a model that is archived or another champion got that status from its caller.
PredictionsAreServed ==
  /\ champion # "none" =>
       \A bucket \in 0..9 :
         \/ RoutePrediction(bucket) = champion /\ champion \in asGiven
         \/ versions[RoutePrediction(bucket)].status \in {"Champion", "Challenger"}
  /\ \A v \in DOMAIN versions \ asGiven :
       /\ versions[v].status = "Champion" => v = champion
       /\ versions[v].status = "Archived" => versions[v].traffic = 0

\* A test is decided by enough outcomes of both arms, for the arm that had the
\* lower rate of defaults then, and never again.
DecidedOnce ==
  [][\A i \in 1..Len(abTests) :
       LET t == abTests[i]
       IN abTests'[i].status # t.status =>
            /\ t.status = "Running" /\ t.champ.n >= MinSamples /\ t.chall.n >= MinSamples
            /\ abTests'[i].status = "ChallengerWins"
                 <=> t.chall.defaults * t.champ.n < t.champ.defaults * t.chall.n]_registryVars
=============================================================================
