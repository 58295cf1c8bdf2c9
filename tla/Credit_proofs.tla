---------------------------- MODULE Credit_proofs ----------------------------
(***************************************************************************)
(* Proofs about credit decisions: the approval gate, for any workers,      *)
(* types of decision and timeout; the model registry, for any models,      *)
(* shares of traffic and number of samples a test asks for; what is learnt *)
(* from outcomes, for any windows and limits; and the capability modules,  *)
(* for any batches, samples, failures, stops and starts.                   *)
(***************************************************************************)
EXTENDS ApprovalGate, ModelRegistry, CreditLearning, CapabilityModules,
        FiniteSetTheorems, SequenceTheorems, WellFoundedInduction, TLAPS

(***************************************************************************)
(* The approval gate. What is invariant of one decision, at a moment and   *)
(* given the ids that were consented to.                                   *)
(***************************************************************************)
TrailEntry == [action : ApprovalStatus \cup {"submitted"}, at : Nat]
PendingDecision == [type : DecisionType, expires_at : Nat, status : ApprovalStatus,
             trail : Seq(TrailEntry)]

LastOf(d) == d.trail[Len(d.trail)]

InOrder(d, now) ==
  /\ Len(d.trail) > 0 /\ LastOf(d).at <= now
  /\ \A i \in 1..Len(d.trail) - 1 : d.trail[i].at <= d.trail[i + 1].at

Endorsed(id, d, now, yes) ==
  /\ d.status = "Approved" => id \in yes /\ LastOf(d).at <= d.expires_at
  /\ d.type = "LoanApplication" => d.status # "AutoApproved"
  /\ d.status = "Expired" => now > d.expires_at
  /\ IF d.status \in {"Pending", "AutoApproved"}
     THEN LastOf(d).action = "submitted" ELSE LastOf(d).action = d.status

DecisionInv(id, d, now, yes) ==
  /\ d \in PendingDecision /\ id[2] \in 0..now /\ d.expires_at = id[2] + TimeoutSeconds
  /\ InOrder(d, now) /\ Endorsed(id, d, now, yes)

GateInv ==
  /\ clock \in 0..MaxTime /\ decisions \in [DOMAIN decisions -> PendingDecision]
  /\ DOMAIN decisions \subseteq Worker \X Nat
  /\ \A id \in DOMAIN decisions : DecisionInv(id, decisions[id], clock, consent)

\* A decision to which an entry with its new status is added.
Closed(d, status, now) ==
  [d EXCEPT !.status = status, !.trail = Append(@, [action |-> status, at |-> now])]

\* A second later, what was invariant of a decision still is.
LEMMA DecisionInvLater ==
  ASSUME NEW id, NEW d, NEW now \in Nat, NEW yes, DecisionInv(id, d, now, yes)
  PROVE  DecisionInv(id, d, now + 1, yes)
<1>1. d.expires_at \in Nat /\ Len(d.trail) \in Nat /\ d \in PendingDecision /\ d.trail \in Seq(TrailEntry)
  BY DEF DecisionInv, PendingDecision
<1>2. InOrder(d, now + 1)
  <2>1. Len(d.trail) > 0 /\ LastOf(d).at <= now
    BY DEF DecisionInv, InOrder
  <2>2. LastOf(d).at \in Nat
    <3>1. d.trail[Len(d.trail)] \in TrailEntry
      BY <1>1, <2>1
    <3> QED BY <3>1 DEF LastOf, TrailEntry
  <2> QED BY <2>1, <2>2 DEF DecisionInv, InOrder
<1>3. Endorsed(id, d, now + 1, yes)
  BY <1>1 DEF DecisionInv, Endorsed
<1>4. id[2] \in 0..now + 1
  BY DEF DecisionInv
<1> QED BY <1>2, <1>3, <1>4 DEF DecisionInv

\* An answer in time, or one that is too late, closes a decision and keeps what
\* is invariant of it.
LEMMA ClosedInv ==
  ASSUME NEW id, NEW d, NEW now \in Nat, NEW yes, DecisionInv(id, d, now, yes),
         NEW status \in {"Approved", "Rejected", "Expired"}, NEW after,
         status = "Approved" => id \in after /\ now <= d.expires_at,
         status = "Expired" => now > d.expires_at
  PROVE  DecisionInv(id, Closed(d, status, now), now, after)
<1> DEFINE e == [action |-> status, at |-> now]
           c == Closed(d, status, now)
<1>1. d \in PendingDecision /\ d.trail \in Seq(TrailEntry) /\ Len(d.trail) \in Nat /\ e \in TrailEntry
  BY DEF DecisionInv, PendingDecision, TrailEntry, ApprovalStatus
<1>2. c.trail = Append(d.trail, e) /\ c.status = status /\ c.type = d.type
      /\ c.expires_at = d.expires_at
  BY <1>1 DEF Closed, PendingDecision
<1>3. c \in PendingDecision
  <2>1. Append(d.trail, e) \in Seq(TrailEntry)
    BY <1>1
  <2> QED BY <1>1, <2>1 DEF Closed, PendingDecision, ApprovalStatus
<1>4. /\ Len(c.trail) = Len(d.trail) + 1 /\ LastOf(c) = e
      /\ \A i \in 1..Len(d.trail) : c.trail[i] = d.trail[i]
  BY <1>1, <1>2 DEF LastOf
<1>5. InOrder(c, now)
  <2>1. ASSUME NEW i \in 1..Len(c.trail) - 1 PROVE c.trail[i].at <= c.trail[i + 1].at
    <3>0. Len(d.trail) > 0 /\ LastOf(d).at <= now
      BY DEF DecisionInv, InOrder
    <3>1. CASE i = Len(d.trail)
      BY <1>1, <1>4, <3>0, <3>1 DEF LastOf
    <3>2. CASE i \in 1..Len(d.trail) - 1
      <4>1. i \in 1..Len(d.trail) /\ i + 1 \in 1..Len(d.trail)
        BY <1>1, <3>2
      <4>2. d.trail[i].at <= d.trail[i + 1].at
        BY <3>2 DEF DecisionInv, InOrder
      <4> QED BY <1>4, <4>1, <4>2
    <3> QED BY <1>1, <1>4, <3>1, <3>2
  <2> QED BY <1>1, <1>4, <2>1 DEF InOrder
<1>6. Endorsed(id, c, now, after)
  BY <1>2, <1>4 DEF Endorsed
<1> QED BY <1>2, <1>3, <1>5, <1>6 DEF DecisionInv

\* What SubmitDecision puts on file.
LEMMA SubmittedInv ==
  ASSUME GateAssumption, NEW id, NEW now \in Nat, id[2] = now, NEW type \in DecisionType,
         NEW status \in {"Pending", "AutoApproved"}, NEW yes,
         type = "LoanApplication" => status = "Pending"
  PROVE  DecisionInv(id, [type |-> type, expires_at |-> now + TimeoutSeconds, status |-> status,
                          trail |-> <<[action |-> "submitted", at |-> now]>>], now, yes)
<1> DEFINE e == [action |-> "submitted", at |-> now]
           d == [type |-> type, expires_at |-> now + TimeoutSeconds, status |-> status,
                 trail |-> <<e>>]
<1>1. e \in TrailEntry /\ now + TimeoutSeconds \in Nat
  BY DEF TrailEntry, GateAssumption
<1>2. <<e>> \in Seq(TrailEntry) /\ Len(<<e>>) = 1 /\ <<e>>[1] = e
  BY <1>1
<1>3. d \in PendingDecision /\ LastOf(d) = e
  BY <1>1, <1>2 DEF PendingDecision, ApprovalStatus, LastOf
<1>4. InOrder(d, now) /\ Endorsed(id, d, now, yes)
  BY <1>2, <1>3 DEF InOrder, Endorsed
<1> QED BY <1>3, <1>4 DEF DecisionInv

\* Consent that is withdrawn from another id, or given to it, does not disturb
\* a decision.
LEMMA OthersKept ==
  ASSUME NEW id, NEW d, NEW now, NEW yes, NEW after, DecisionInv(id, d, now, yes),
         id \in yes => id \in after
  PROVE  DecisionInv(id, d, now, after)
BY DEF DecisionInv, Endorsed

\* Every decision is as it should be after a submission.
LEMMA SubmitDecisionInv ==
  ASSUME GateAssumption, GateInv, NEW w \in Worker, NEW type \in DecisionType,
         NEW confident \in BOOLEAN, NEW small \in BOOLEAN,
         SubmitDecision(w, type, confident, small)
  PROVE  GateInv'
<1> DEFINE id == <<w, clock>>
           status == IF CanAutoApprove(type, confident, small) THEN "AutoApproved" ELSE "Pending"
           d == [type |-> type, expires_at |-> clock + TimeoutSeconds, status |-> status,
                 trail |-> <<[action |-> "submitted", at |-> clock]>>]
<1>1. clock \in Nat /\ id[2] = clock /\ id \in Worker \X Nat /\ clock' = clock
  BY DEF GateInv, SubmitDecision, GateAssumption
<1>2. status \in {"Pending", "AutoApproved"} /\ (type = "LoanApplication" => status = "Pending")
  BY DEF CanAutoApprove
<1>3. DecisionInv(id, d, clock, consent')
  <2> HIDE DEF status, id
  <2> QED BY <1>1, <1>2, SubmittedInv
<1>4. Put(id, d) /\ consent' = consent \ {id}
  BY DEF SubmitDecision, Entry
<1> HIDE DEF id, d
<1>5. /\ DOMAIN decisions' = DOMAIN decisions \cup {id} /\ decisions'[id] = d
      /\ \A i \in DOMAIN decisions : i # id => decisions'[i] = decisions[i]
      /\ decisions' = [i \in DOMAIN decisions' |-> decisions'[i]]
  BY <1>4 DEF Put
<1>6. \A i \in DOMAIN decisions' : DecisionInv(i, decisions'[i], clock, consent')
  <2> SUFFICES ASSUME NEW i \in DOMAIN decisions', i # id
               PROVE  DecisionInv(i, decisions[i], clock, consent')
    BY <1>3, <1>5
  <2> QED BY <1>4, <1>5, OthersKept DEF GateInv
<1> QED BY <1>1, <1>5, <1>6 DEF GateInv, DecisionInv

\* And after an answer.
LEMMA ConfirmDecisionInv ==
  ASSUME GateAssumption, GateInv, NEW id \in DOMAIN decisions, NEW approved \in BOOLEAN,
         ConfirmDecision(id, approved)
  PROVE  GateInv'
<1> DEFINE status == IF Late(id) THEN "Expired" ELSE Answered(approved)
           d == Closed(decisions[id], status, clock)
<1>1. /\ clock \in Nat /\ clock' = clock /\ decisions[id] \in PendingDecision
      /\ DecisionInv(id, decisions[id], clock, consent) /\ decisions[id].expires_at \in Nat
  BY DEF GateInv, ConfirmDecision, GateAssumption, PendingDecision
<1>2. DecisionInv(id, d, clock, consent')
  <2>1. status \in {"Approved", "Rejected", "Expired"}
    BY DEF Answered
  <2>2. status = "Approved" => id \in consent' /\ clock <= decisions[id].expires_at
    BY <1>1 DEF Answered, Late, ConfirmDecision
  <2>3. status = "Expired" => clock > decisions[id].expires_at
    BY DEF Answered, Late
  <2> HIDE DEF status
  <2> QED BY <1>1, <2>1, <2>2, <2>3, ClosedInv
<1>3. decisions' = [decisions EXCEPT ![id] = d]
  BY <1>1 DEF ConfirmDecision, Close, Closed, Entry, PendingDecision
<1>4. \A i \in DOMAIN decisions : i # id => (i \in consent => i \in consent')
  BY DEF ConfirmDecision
<1> HIDE DEF d
<1>5. /\ DOMAIN decisions' = DOMAIN decisions /\ decisions'[id] = d
      /\ \A i \in DOMAIN decisions : i # id => decisions'[i] = decisions[i]
  BY <1>3 DEF GateInv
<1>6. \A i \in DOMAIN decisions' : DecisionInv(i, decisions'[i], clock, consent')
  <2> SUFFICES ASSUME NEW i \in DOMAIN decisions, i # id
               PROVE  DecisionInv(i, decisions[i], clock, consent')
    BY <1>2, <1>5
  <2> QED BY <1>4, OthersKept DEF GateInv
<1> QED BY <1>1, <1>3, <1>5, <1>6 DEF GateInv, DecisionInv

\* And after the stale ones are expired.
LEMMA ExpireStaleInv == ASSUME GateAssumption, GateInv, ExpireStale PROVE GateInv'
<1> DEFINE After(i) ==
             IF decisions[i].status = "Pending" /\ Late(i)
             THEN Closed(decisions[i], "Expired", clock) ELSE decisions[i]
<1>1. clock \in Nat /\ clock' = clock /\ consent' = consent
  <2>1. clock' = clock /\ consent' = consent
    BY Zenon DEF ExpireStale
  <2> QED BY <2>1 DEF GateInv, GateAssumption
<1>2. \A i \in DOMAIN decisions : DecisionInv(i, After(i), clock, consent)
  <2> SUFFICES ASSUME NEW i \in DOMAIN decisions
               PROVE  DecisionInv(i, After(i), clock, consent)
    OBVIOUS
  <2>1. DecisionInv(i, decisions[i], clock, consent)
    BY DEF GateInv
  <2>2. CASE decisions[i].status = "Pending" /\ Late(i)
    <3>1. clock > decisions[i].expires_at
      BY <2>2 DEF Late
    <3>2. DecisionInv(i, Closed(decisions[i], "Expired", clock), clock, consent)
      BY <1>1, <2>1, <3>1, ClosedInv
    <3> QED BY <2>2, <3>2
  <2> QED BY <2>1, <2>2
<1>3. decisions' = [i \in DOMAIN decisions |-> After(i)]
  BY DEF ExpireStale, Closed, Entry
<1> HIDE DEF After
<1>4. DOMAIN decisions' = DOMAIN decisions /\ \A i \in DOMAIN decisions : decisions'[i] = After(i)
  BY <1>3
<1>5. decisions' \in [DOMAIN decisions -> PendingDecision]
  BY <1>2, <1>3 DEF DecisionInv
<1> QED BY <1>1, <1>2, <1>4, <1>5 DEF GateInv

\* The invariant of the gate holds always.
LEMMA GateInvAlways == ASSUME GateAssumption PROVE GateSpec => []GateInv
<1>1. GateInit => GateInv
  BY DEF GateInit, GateInv, GateAssumption
<1>2. GateInv /\ [GateNext]_gateVars => GateInv'
  <2> SUFFICES ASSUME GateInv, [GateNext]_gateVars PROVE GateInv'
    OBVIOUS
  <2>1. CASE SecondPasses
    <3>1. clock' = clock + 1 /\ clock \in Nat /\ clock' \in 0..MaxTime
          /\ decisions' = decisions /\ consent' = consent
      BY <2>1 DEF SecondPasses, GateInv, GateAssumption
    <3>2. \A id \in DOMAIN decisions : DecisionInv(id, decisions[id], clock + 1, consent)
      BY <3>1, DecisionInvLater DEF GateInv
    <3> QED BY <3>1, <3>2 DEF GateInv
  <2>2. CASE UNCHANGED gateVars
    BY <2>2 DEF gateVars, GateInv
  <2> QED BY <2>1, <2>2, SubmitDecisionInv, ConfirmDecisionInv, ExpireStaleInv DEF GateNext
<1> QED BY <1>1, <1>2, PTL DEF GateSpec

\* Whatever answers come, in any order and however late: what stands approved
\* was consented to in time, and the trail tells what happened.
THEOREM ConsentGovernsAlways == ASSUME GateAssumption PROVE GateSpec => []ConsentGoverns
<1>1. GateInv => ConsentGoverns
  BY DEF GateInv, ConsentGoverns, DecisionInv, InOrder, Endorsed, LastOf
<1> QED BY <1>1, GateInvAlways, PTL

\* credit/approval_gate.rs: a decision is of a worker and a moment, has a type and a status.
THEOREM GateTypesAlways == ASSUME GateAssumption PROVE GateSpec => []GateTypeOK
<1>1. GateInv => GateTypeOK
  <2> SUFFICES ASSUME GateInv, NEW id \in DOMAIN decisions
               PROVE  /\ id \in Worker \X (0..MaxTime)
                      /\ decisions[id].status \in ApprovalStatus
                      /\ decisions[id].type \in DecisionType
    BY DEF GateTypeOK
  <2>1. id \in Worker \X Nat /\ id[2] \in 0..clock /\ clock \in 0..MaxTime
    BY DEF GateInv, DecisionInv
  <2>2. decisions[id] \in PendingDecision
    BY DEF GateInv
  <2> QED BY <2>1, <2>2 DEF PendingDecision, GateAssumption
<1> QED BY <1>1, GateInvAlways, PTL

\* An expired decision stays expired: no answer revives it, and no submission
\* takes its id.
THEOREM ExpiredStays == ASSUME GateAssumption PROVE GateSpec => ExpiredIsFinal
<1> DEFINE Stays == \A id \in DOMAIN decisions :
             decisions[id].status = "Expired" => decisions'[id].status = "Expired"
<1>1. GateInv /\ [GateNext]_gateVars => [Stays]_gateVars
  <2> SUFFICES ASSUME GateInv, GateNext, NEW id \in DOMAIN decisions,
                      decisions[id].status = "Expired"
               PROVE  decisions'[id].status = "Expired"
    BY DEF gateVars
  <2>1. /\ decisions[id] \in PendingDecision /\ clock > decisions[id].expires_at /\ clock \in Nat
        /\ id[2] \in Nat /\ decisions[id].expires_at = id[2] + TimeoutSeconds
        /\ TimeoutSeconds \in Nat
    BY DEF GateInv, DecisionInv, Endorsed, GateAssumption
  <2>2. ASSUME NEW w \in Worker, NEW type \in DecisionType, NEW confident \in BOOLEAN,
               NEW small \in BOOLEAN, SubmitDecision(w, type, confident, small)
        PROVE  decisions'[id] = decisions[id]
    <3>1. id[2] # clock
      BY <2>1
    <3>2. id # <<w, clock>>
      BY <3>1
    <3> QED BY <2>2, <3>2 DEF SubmitDecision, Put
  <2>3. ASSUME NEW i \in DOMAIN decisions, NEW approved \in BOOLEAN, ConfirmDecision(i, approved)
        PROVE  decisions'[id].status = "Expired"
    <3>1. Late(id)
      BY <2>1 DEF Late
    <3>2. CASE i = id
      BY <2>1, <2>3, <3>1, <3>2 DEF ConfirmDecision, Close, GateInv, PendingDecision
    <3>3. CASE i # id
      BY <2>3, <3>3 DEF ConfirmDecision, Close, GateInv
    <3> QED BY <3>2, <3>3
  <2>4. CASE ExpireStale
    BY <2>4 DEF ExpireStale
  <2>5. CASE SecondPasses
    BY <2>5 DEF SecondPasses
  <2> QED BY <2>2, <2>3, <2>4, <2>5 DEF GateNext
<1>2. GateSpec => [][Stays]_gateVars
  BY <1>1, GateInvAlways, PTL DEF GateSpec
<1> QED BY <1>2 DEF ExpiredIsFinal

(***************************************************************************)
(* The model registry. The champion is in use whatever was registered,     *)
(* deployed or tested, if not under its id, and a challenger that is routed *)
(* to is one at that time.                                                  *)
(***************************************************************************)
TestStatus == {"Running", "ChampionWins", "ChallengerWins"}
Arm == [n : Nat, defaults : Nat]
Test == [champion : Version, challenger : Version, status : TestStatus, champ : Arm, chall : Arm]

RegistryTypes ==
  /\ versions \in [DOMAIN versions -> [status : DeploymentStatus, traffic : Int]]
  /\ DOMAIN versions \subseteq Version /\ champion \in DOMAIN versions \cup {"none"}
  /\ challengers \in Seq(DOMAIN versions) /\ abTests \in Seq(Test)

InUse ==
  /\ champion \notin asGiven \cup {"none"} =>
       versions[champion].status \in {"Champion", "Challenger"}
  /\ \A v \in DOMAIN versions \ asGiven :
       /\ versions[v].status = "Champion" => v = champion
       /\ versions[v].status = "Archived" => versions[v].traffic = 0

RegistryInv == RegistryTypes /\ InUse

\* A set of naturals that is not empty has a least element.
LEMMA LeastShare == ASSUME NEW T \in SUBSET Nat, T # {} PROVE \E n \in T : \A m \in T : n <= m
<1>1. \E n \in T : \A m \in T : ~(<<m, n>> \in OpToRel(<, Nat))
  BY NatLessThanWellFounded, WFMin, Zenon
<1>2. \A m, n \in Nat : m < n => <<m, n>> \in OpToRel(<, Nat)
  BY DEF OpToRel
<1>3. \E n \in T : \A m \in T : ~(m < n)
  BY <1>1, <1>2, Zenon
<1> QED BY <1>3

\* A prediction is routed to the champion or to a model under test.
LEMMA RoutedTo ==
  ASSUME RegistryTypes, NEW bucket
  PROVE  \/ RoutePrediction(bucket) = champion
         \/ /\ RoutePrediction(bucket) \in DOMAIN versions
            /\ versions[RoutePrediction(bucket)].status = "Challenger"
<1> DEFINE taking == {i \in 1..Len(challengers) : Takes(challengers[i], bucket)}
           first == CHOOSE i \in taking : \A j \in taking : i <= j
<1>1. CASE taking = {}
  BY <1>1 DEF RoutePrediction
<1>2. CASE taking # {}
  <2>1. taking \in SUBSET Nat
    BY DEF RegistryTypes
  <2>2. first \in taking
    <3> HIDE DEF taking
    <3> QED BY <1>2, <2>1, LeastShare
  <2>3. RoutePrediction(bucket) = challengers[first]
    BY <1>2, Zenon DEF RoutePrediction
  <2>4. first \in 1..Len(challengers) /\ Takes(challengers[first], bucket)
    BY <2>2
  <2> HIDE DEF first
  <2>5. challengers[first] \in DOMAIN versions
    BY <2>4 DEF RegistryTypes
  <2> QED BY <2>3, <2>4, <2>5 DEF Takes
<1> QED BY <1>1, <1>2

\* One action at a time: what is registered is as its caller gives it.
LEMMA RegisterInv ==
  ASSUME RegistryAssumption, RegistryInv, NEW v \in Version, NEW given \in GivenModel,
         Register(v, given)
  PROVE  RegistryInv'
<1>1. /\ DOMAIN versions' = DOMAIN versions \cup {v} /\ asGiven' = asGiven \cup {v}
      /\ versions'[v] = given /\ given \in [status : DeploymentStatus, traffic : Int]
      /\ \A x \in DOMAIN versions : x # v => versions'[x] = versions[x]
      /\ versions' = [x \in DOMAIN versions' |-> versions'[x]]
      /\ champion' = champion /\ challengers' = challengers /\ abTests' = abTests
  BY DEF Register, RegistryAssumption
<1>2. RegistryTypes'
  <2>1. challengers \in Seq(DOMAIN versions')
    BY <1>1 DEF RegistryInv, RegistryTypes
  <2>2. \A x \in DOMAIN versions' : versions'[x] \in [status : DeploymentStatus, traffic : Int]
    BY <1>1 DEF RegistryInv, RegistryTypes
  <2> QED BY <1>1, <2>1, <2>2 DEF RegistryInv, RegistryTypes
<1>3. InUse'
  BY <1>1 DEF RegistryInv, RegistryTypes, InUse
<1> QED BY <1>2, <1>3 DEF RegistryInv

\* The champion that is deployed archives the one there was.
LEMMA DeployChampionInv ==
  ASSUME RegistryAssumption, RegistryInv, NEW v \in Version, DeployChampion(v)
  PROVE  RegistryInv'
<1>1. /\ v \in DOMAIN versions /\ DOMAIN versions' = DOMAIN versions /\ champion' = v
      /\ versions'[v] = [status |-> "Champion", traffic |-> 10]
      /\ \A x \in DOMAIN versions : x # v /\ x = champion =>
           versions'[x] = [status |-> "Archived", traffic |-> 0]
      /\ \A x \in DOMAIN versions : x # v /\ x # champion => versions'[x] = versions[x]
      /\ versions' = [x \in DOMAIN versions |-> versions'[x]]
      /\ challengers' = challengers /\ abTests' = abTests
      /\ asGiven' = asGiven \ {v, champion}
  BY DEF DeployChampion, Deployed
<1>2. RegistryTypes'
  <2>1. \A x \in DOMAIN versions : versions'[x] \in [status : DeploymentStatus, traffic : Int]
    <3> SUFFICES ASSUME NEW x \in DOMAIN versions
                 PROVE  versions'[x] \in [status : DeploymentStatus, traffic : Int]
      OBVIOUS
    <3>1. CASE x = v
      BY <1>1, <3>1 DEF DeploymentStatus
    <3>2. CASE x # v /\ x = champion
      BY <1>1, <3>2 DEF DeploymentStatus
    <3>3. CASE x # v /\ x # champion
      BY <1>1, <3>3 DEF RegistryInv, RegistryTypes
    <3> QED BY <3>1, <3>2, <3>3
  <2> QED BY <1>1, <2>1 DEF RegistryInv, RegistryTypes
<1>3. InUse'
  BY <1>1 DEF RegistryInv, InUse
<1> QED BY <1>2, <1>3 DEF RegistryInv

\* A test makes a challenger, of the champion too if it is started against it.
LEMMA StartAbTestInv ==
  ASSUME RegistryAssumption, RegistryInv, NEW v \in Version, NEW s \in Share, StartAbTest(v, s)
  PROVE  RegistryInv'
<1>0. s \in Int
  BY DEF RegistryAssumption
<1>1. /\ v \in DOMAIN versions /\ DOMAIN versions' = DOMAIN versions /\ champion' = champion
      /\ champion \in DOMAIN versions
      /\ versions'[v] = [status |-> "Challenger", traffic |-> s]
      /\ \A x \in DOMAIN versions : x # v /\ x = champion =>
           versions'[x] = [versions[x] EXCEPT !.traffic = 10 - s]
      /\ \A x \in DOMAIN versions : x # v /\ x # champion => versions'[x] = versions[x]
      /\ versions' = [x \in DOMAIN versions |-> versions'[x]]
      /\ asGiven' = asGiven \ {v}
  BY DEF StartAbTest, RegistryInv, RegistryTypes
<1>2. \A x \in DOMAIN versions : x # v /\ x = champion =>
        /\ versions'[x].status = versions[x].status
        /\ versions'[x] \in [status : DeploymentStatus, traffic : Int]
  BY <1>0, <1>1 DEF RegistryInv, RegistryTypes
<1>3. RegistryTypes'
  <2>1. \A x \in DOMAIN versions : versions'[x] \in [status : DeploymentStatus, traffic : Int]
    <3> SUFFICES ASSUME NEW x \in DOMAIN versions
                 PROVE  versions'[x] \in [status : DeploymentStatus, traffic : Int]
      OBVIOUS
    <3>1. CASE x = v
      BY <1>0, <1>1, <3>1 DEF DeploymentStatus
    <3>2. CASE x # v /\ x = champion
      BY <1>2, <3>2
    <3>3. CASE x # v /\ x # champion
      BY <1>1, <3>3 DEF RegistryInv, RegistryTypes
    <3> QED BY <3>1, <3>2, <3>3
  <2>2. [champion |-> champion, challenger |-> v, status |-> "Running",
         champ |-> [n |-> 0, defaults |-> 0], chall |-> [n |-> 0, defaults |-> 0]] \in Test
    BY <1>1 DEF Test, TestStatus, Arm, RegistryInv, RegistryTypes
  <2>3. abTests' \in Seq(Test)
    BY <2>2 DEF StartAbTest, RegistryInv, RegistryTypes
  <2>4. challengers' \in Seq(DOMAIN versions)
    BY <1>1 DEF StartAbTest, RegistryInv, RegistryTypes
  <2> QED BY <1>1, <2>1, <2>3, <2>4 DEF RegistryInv, RegistryTypes
<1>4. InUse'
  <2>1. ASSUME NEW x \in DOMAIN versions, x \notin asGiven'
        PROVE  /\ versions'[x].status = "Champion" => x = champion
               /\ versions'[x].status = "Archived" => versions'[x].traffic = 0
               /\ x = champion => versions'[x].status \in {"Champion", "Challenger"}
    <3>1. CASE x = v
      BY <1>1, <3>1
    <3>2. CASE x # v
      <4>0. /\ versions[x].status = "Champion" => x = champion
            /\ versions[x].status = "Archived" => versions[x].traffic = 0
            /\ x = champion => versions[x].status \in {"Champion", "Challenger"}
        BY <1>1, <2>1, <3>2 DEF RegistryInv, RegistryTypes, InUse, RegistryAssumption
      <4>1. CASE x = champion
        BY <1>2, <3>2, <4>0, <4>1
      <4>2. CASE x # champion
        BY <1>1, <3>2, <4>0, <4>2
      <4> QED BY <4>1, <4>2
    <3> QED BY <3>1, <3>2
  <2> QED BY <1>1, <2>1 DEF InUse
<1> QED BY <1>3, <1>4 DEF RegistryInv

\* An outcome counts in one arm of a test, and changes no verdict.
LEMMA RecordOutcomeInv ==
  ASSUME RegistryInv, NEW i \in 1..Len(abTests), NEW v, NEW default \in BOOLEAN,
         RecordOutcome(i, v, default)
  PROVE  /\ RegistryInv'
         /\ \A j \in 1..Len(abTests) : abTests'[j].status = abTests[j].status
<1>1. abTests \in Seq(Test) /\ \A j \in 1..Len(abTests) : abTests[j] \in Test
  BY DEF RegistryInv, RegistryTypes
<1>2. /\ Observed(abTests[i].champ, default) \in Arm
      /\ Observed(abTests[i].chall, default) \in Arm
  <2>1. abTests[i].champ \in Arm /\ abTests[i].chall \in Arm
    BY <1>1 DEF Test
  <2>2. \A arm \in Arm : Observed(arm, default) \in Arm
    BY DEF Observed, Arm
  <2> QED BY <2>1, <2>2
<1>3. /\ abTests' \in Seq(Test)
      /\ \A j \in 1..Len(abTests) : abTests'[j].status = abTests[j].status
  <2>1. CASE abTests' = [abTests EXCEPT ![i].champ = Observed(@, default)]
    <3>1. [abTests[i] EXCEPT !.champ = Observed(@, default)] \in Test
      BY <1>1, <1>2 DEF Test
    <3> QED BY <1>1, <2>1, <3>1 DEF Test
  <2>2. CASE abTests' = [abTests EXCEPT ![i].chall = Observed(@, default)]
    <3>1. [abTests[i] EXCEPT !.chall = Observed(@, default)] \in Test
      BY <1>1, <1>2 DEF Test
    <3> QED BY <1>1, <2>2, <3>1 DEF Test
  <2> QED BY <1>1, <2>1, <2>2 DEF RecordOutcome
<1>4. UNCHANGED <<versions, champion, challengers, asGiven>>
  BY DEF RecordOutcome
<1> QED BY <1>3, <1>4 DEF RegistryInv, RegistryTypes, InUse

\* The verdicts that a check of the tests reaches.
LEMMA CheckResultsInv ==
  ASSUME RegistryInv, CheckAbTestResults
  PROVE  /\ RegistryInv'
         /\ \A i \in 1..Len(abTests) :
              \/ abTests'[i] = abTests[i]
              \/ /\ abTests[i].status = "Running" /\ EnoughSamples(abTests[i])
                 /\ abTests'[i].status = Winner(abTests[i])
<1> DEFINE After(t) == IF t.status = "Running" /\ EnoughSamples(t) /\ Significant(t)
                       THEN [t EXCEPT !.status = Winner(t)] ELSE t
<1>1. abTests \in Seq(Test) /\ \A j \in 1..Len(abTests) : abTests[j] \in Test
  BY DEF RegistryInv, RegistryTypes
<1>2. ASSUME NEW t \in Test
      PROVE  /\ After(t) \in Test
             /\ \/ After(t) = t
                \/ t.status = "Running" /\ EnoughSamples(t) /\ After(t).status = Winner(t)
  BY DEF Test, TestStatus, Winner
<1>3. abTests' = [i \in 1..Len(abTests) |-> After(abTests[i])]
  BY Zenon DEF CheckAbTestResults
<1>4. UNCHANGED <<versions, champion, challengers, asGiven>>
  BY Zenon DEF CheckAbTestResults
<1> HIDE DEF After
<1>5. abTests' \in Seq(Test)
  BY <1>1, <1>2, <1>3
<1>6. RegistryInv'
  BY <1>4, <1>5 DEF RegistryInv, RegistryTypes, InUse
<1> QED BY <1>1, <1>2, <1>3, <1>6

\* The invariant of the registry holds always.
LEMMA RegistryInvAlways == ASSUME RegistryAssumption PROVE RegistrySpec => []RegistryInv
<1>1. RegistryInit => RegistryInv
  BY DEF RegistryInit, RegistryInv, RegistryTypes, InUse
<1>2. RegistryInv /\ [RegistryNext]_registryVars => RegistryInv'
  <2> SUFFICES ASSUME RegistryInv, [RegistryNext]_registryVars PROVE RegistryInv'
    OBVIOUS
  <2>1. CASE UNCHANGED registryVars
    BY <2>1 DEF registryVars, RegistryInv, RegistryTypes, InUse
  <2> QED BY <2>1, RegisterInv, DeployChampionInv, StartAbTestInv, RecordOutcomeInv,
             CheckResultsInv DEF RegistryNext
<1> QED BY <1>1, <1>2, PTL DEF RegistrySpec

\* credit/model_registry.rs: predictions go to a champion or a challenger and never to
\* an archived model, and no two models are champions, for any statuses that callers
\* register; only a champion whose id they register again is as they give it.
THEOREM PredictionsServedAlways ==
  ASSUME RegistryAssumption PROVE RegistrySpec => []PredictionsAreServed
<1>1. RegistryInv => PredictionsAreServed
  <2> SUFFICES ASSUME RegistryInv PROVE PredictionsAreServed
    OBVIOUS
  <2>1. ASSUME champion # "none", NEW bucket \in 0..9
        PROVE  \/ RoutePrediction(bucket) = champion /\ champion \in asGiven
               \/ versions[RoutePrediction(bucket)].status \in {"Champion", "Challenger"}
    BY <2>1, RoutedTo DEF RegistryInv, InUse
  <2> QED BY <2>1 DEF RegistryInv, InUse, PredictionsAreServed
<1> QED BY <1>1, RegistryInvAlways, PTL

\* A test is decided once, by enough outcomes of both arms, for the arm that had
\* the lower rate of defaults.
THEOREM TestsDecidedOnce == ASSUME RegistryAssumption PROVE RegistrySpec => DecidedOnce
<1> DEFINE Once == \A i \in 1..Len(abTests) :
             LET t == abTests[i]
             IN abTests'[i].status # t.status =>
                  /\ t.status = "Running" /\ t.champ.n >= MinSamples /\ t.chall.n >= MinSamples
                  /\ abTests'[i].status = "ChallengerWins"
                       <=> t.chall.defaults * t.champ.n < t.champ.defaults * t.chall.n
<1>1. RegistryInv /\ [RegistryNext]_registryVars => [Once]_registryVars
  <2> SUFFICES ASSUME RegistryInv, RegistryNext, NEW i \in 1..Len(abTests),
                      abTests'[i].status # abTests[i].status
               PROVE  /\ abTests[i].status = "Running" /\ EnoughSamples(abTests[i])
                      /\ abTests'[i].status = Winner(abTests[i])
    BY DEF EnoughSamples, Winner
  <2>1. CASE abTests' = abTests
    BY <2>1
  <2>2. ASSUME NEW v \in Version, NEW s \in Share, StartAbTest(v, s)
        PROVE  abTests'[i] = abTests[i]
    BY <2>2 DEF StartAbTest, RegistryInv, RegistryTypes
  <2> QED BY <2>1, <2>2, RecordOutcomeInv, CheckResultsInv
          DEF RegistryNext, Register, DeployChampion
<1>2. RegistrySpec => [][Once]_registryVars
  BY <1>1, RegistryInvAlways, PTL DEF RegistrySpec
<1> QED BY <1>2 DEF DecidedOnce

\* A model has no traffic, all of it, a share or what a share leaves.
Traffic == {0, 10} \cup Share \cup {10 - s : s \in Share} \cup {given.traffic : given \in GivenModel}
TrafficShared == \A v \in DOMAIN versions : versions[v].traffic \in Traffic

LEMMA TrafficStays ==
  ASSUME RegistryInv, TrafficShared, [RegistryNext]_registryVars PROVE TrafficShared'
<1>0. {0, 10} \subseteq Traffic
  BY DEF Traffic
<1>1. CASE UNCHANGED versions
  BY <1>1 DEF TrafficShared
<1>2. ASSUME NEW v \in Version, NEW given \in GivenModel, Register(v, given) PROVE TrafficShared'
  <2>1. given.traffic \in Traffic
    BY DEF Traffic
  <2> QED BY <1>2, <2>1 DEF Register, TrafficShared
<1>3. ASSUME NEW v \in Version, DeployChampion(v) PROVE TrafficShared'
  BY <1>0, <1>3 DEF DeployChampion, Deployed, TrafficShared
<1>4. ASSUME NEW v \in Version, NEW s \in Share, StartAbTest(v, s) PROVE TrafficShared'
  <2>1. s \in Traffic /\ 10 - s \in Traffic
    BY DEF Traffic
  <2>2. versions \in [DOMAIN versions -> [status : DeploymentStatus, traffic : Int]]
    BY DEF RegistryInv, RegistryTypes
  <2>3. \A x \in DOMAIN versions : [versions[x] EXCEPT !.traffic = 10 - s].traffic = 10 - s
    BY <2>2
  <2>4. /\ DOMAIN versions' = DOMAIN versions
        /\ \A x \in DOMAIN versions :
             versions'[x] \in {[status |-> "Challenger", traffic |-> s],
                              [versions[x] EXCEPT !.traffic = 10 - s], versions[x]}
    BY <1>4 DEF StartAbTest
  <2>5. ASSUME NEW x \in DOMAIN versions PROVE versions'[x].traffic \in Traffic
    <3>1. CASE versions'[x] = [status |-> "Challenger", traffic |-> s]
      <4>1. [status |-> "Challenger", traffic |-> s].traffic = s
        OBVIOUS
      <4> QED BY <2>1, <3>1, <4>1, Zenon
    <3>2. CASE versions'[x] = [versions[x] EXCEPT !.traffic = 10 - s]
      BY <2>1, <2>3, <3>2, Zenon
    <3>3. CASE versions'[x] = versions[x]
      BY <3>3, Zenon DEF TrafficShared
    <3> QED BY <2>4, <3>1, <3>2, <3>3
  <2> QED BY <2>4, <2>5, Zenon DEF TrafficShared
<1> QED BY <1>1, <1>2, <1>3, <1>4 DEF RegistryNext, RecordOutcome, CheckAbTestResults, registryVars

\* credit/model_registry.rs: the champion is a registered model, and a share of traffic is
\* one that a test was started with, what it leaves, nothing, all, or what a caller gives.
THEOREM RegistryTypesAlways == ASSUME RegistryAssumption PROVE RegistrySpec => []RegistryTypeOK
<1>1. RegistryInit => TrafficShared
  BY DEF RegistryInit, TrafficShared
<1>2. RegistryInv /\ TrafficShared /\ [RegistryNext]_registryVars => TrafficShared'
  BY TrafficStays
<1>3. RegistryInv /\ TrafficShared => RegistryTypeOK
  <2> SUFFICES ASSUME RegistryInv, TrafficShared PROVE RegistryTypeOK
    OBVIOUS
  <2>1. RegistryTypes
    BY DEF RegistryInv
  <2>2. \A i \in 1..Len(abTests) : abTests[i] \in Test
    BY <2>1 DEF RegistryTypes
  <2>3. \A i \in 1..Len(abTests) : abTests[i].status \in {"Running", "ChampionWins", "ChallengerWins"}
    BY <2>2 DEF Test, TestStatus
  <2>4. \A v \in DOMAIN versions : versions[v].status \in DeploymentStatus
    BY <2>1 DEF RegistryTypes
  <2>5. DOMAIN versions \subseteq Version /\ champion \in DOMAIN versions \cup {"none"}
    BY <2>1 DEF RegistryTypes
  <2> QED BY <2>3, <2>4, <2>5, Zenon DEF RegistryTypeOK, TrafficShared, Traffic
<1> QED BY <1>1, <1>2, <1>3, RegistryInvAlways, PTL DEF RegistrySpec

-----------------------------------------------------------------------------
(***************************************************************************)
(* What is learnt from outcomes. A window is the newest part of all that    *)
(* was recorded: pushing keeps it so.                                       *)
(***************************************************************************)
LEMMA NewestIs ==
  ASSUME NEW S, NEW s \in Seq(S), NEW n \in Nat \ {0}
  PROVE  LET k == IF Len(s) < n THEN Len(s) ELSE n
             w == NewestOf(s, n)
         IN  /\ k \in Nat /\ k <= Len(s) /\ k <= n
             /\ w \in Seq(S) /\ Len(w) = k
             /\ \A i \in 1..k : w[i] = s[(Len(s) - k) + i]
<1>1. PICK l \in Nat : l = Len(s)
  BY LenProperties
<1>2. PICK k \in Nat : k = IF l < n THEN l ELSE n
  OBVIOUS
<1>3. k <= l /\ k <= n
  BY <1>2
<1>4. PICK m \in Nat : m = l - k + 1
  BY <1>3
<1>5. \A i \in m..l : s[i] \in S
  BY <1>1, <1>3, <1>4, ElementOfSeq
<1>6. /\ SubSeq(s, m, l) \in Seq(S)
      /\ Len(SubSeq(s, m, l)) = IF m <= l THEN l - m + 1 ELSE 0
      /\ \A i \in 1..l - m + 1 : SubSeq(s, m, l)[i] = s[m + i - 1]
  BY <1>5, SubSeqProperties
<1>7. Len(SubSeq(s, m, l)) = k /\ l - m + 1 = k
  BY <1>3, <1>4, <1>6
<1>8. \A i \in 1..k : m + i - 1 = (l - k) + i
  BY <1>4
<1>9. NewestOf(s, n) = SubSeq(s, m, l)
  BY <1>1, <1>2, <1>4, Zenon DEF NewestOf
<1>10. \A i \in 1..k : SubSeq(s, m, l)[i] = s[(l - k) + i]
  BY <1>6, <1>7, <1>8, Zenon
<1> QED BY <1>1, <1>2, <1>3, <1>6, <1>7, <1>9, <1>10, Zenon

\* At the limit the oldest makes room.
Make(w, n) == IF Len(w) >= n THEN Tail(w) ELSE w

LEMMA PushNewest ==
  ASSUME NEW S, NEW s \in Seq(S), NEW x \in S, NEW n \in Nat \ {0}
  PROVE  Append(Make(NewestOf(s, n), n), x) = NewestOf(Append(s, x), n)
<1>1. PICK l \in Nat : l = Len(s)
  BY LenProperties
<1>2. PICK w : w = NewestOf(s, n)
  OBVIOUS
<1>3. PICK k \in Nat : k = IF l < n THEN l ELSE n
  OBVIOUS
<1>4. w \in Seq(S) /\ Len(w) = k /\ \A i \in 1..k : w[i] = s[(l - k) + i]
  BY <1>1, <1>2, <1>3, NewestIs, Zenon
<1>5. PICK t \in Seq(S) : t = Append(s, x)
  BY AppendProperties
<1>6. t \in Seq(S) /\ Len(t) = l + 1 /\ t[l + 1] = x /\ \A i \in 1..l : t[i] = s[i]
  BY <1>1, <1>5, AppendProperties
<1>7. PICK e \in Nat : e = Len(t)
  BY <1>6
<1>8. PICK j \in Nat : j = IF e < n THEN e ELSE n
  OBVIOUS
<1>9. PICK v : v = NewestOf(t, n)
  OBVIOUS
<1>12. v \in Seq(S) /\ Len(v) = j /\ \A i \in 1..j : v[i] = t[(e - j) + i]
  BY <1>7, <1>8, <1>9, NewestIs, Zenon
<1>13. e = l + 1
  BY <1>6, <1>7
<1>10. CASE k >= n
  <2>1. k = n /\ j = n /\ l >= n /\ w # <<>>
    BY <1>3, <1>4, <1>8, <1>13, <1>10, LenProperties
  <2>2. Tail(w) \in Seq(S) /\ Len(Tail(w)) = n - 1 /\ \A i \in 1..n - 1 : Tail(w)[i] = w[i + 1]
    BY <1>4, <2>1
  <2>3. PICK u : u = Append(Tail(w), x)
    OBVIOUS
  <2>4. u \in Seq(S) /\ Len(u) = (n - 1) + 1 /\ u[(n - 1) + 1] = x
        /\ \A i \in 1..n - 1 : u[i] = Tail(w)[i]
    <3>1. PICK tw \in Seq(S) : tw = Tail(w) /\ Len(tw) = n - 1
      BY <2>2
    <3>2. Append(tw, x) \in Seq(S) /\ Len(Append(tw, x)) = Len(tw) + 1
          /\ Append(tw, x)[Len(tw) + 1] = x /\ \A i \in 1..Len(tw) : Append(tw, x)[i] = tw[i]
      BY AppendProperties
    <3> QED BY <2>3, <3>1, <3>2, Zenon
  <2>5. Len(u) = n /\ u[n] = x /\ \A i \in 1..n - 1 : u[i] = s[(l - n) + (i + 1)]
    BY <1>4, <2>1, <2>2, <2>4
  <2>6. v[n] = x /\ \A i \in 1..n - 1 : v[i] = s[((l + 1) - n) + i]
    <3>1. ((l + 1) - n) + n = l + 1 /\ n \in 1..j
      BY <2>1
    <3>2. v[n] = x
      <4>1. v[n] = t[(e - j) + n]
        BY <1>12, <3>1, Zenon
      <4>2. (e - j) + n = l + 1
        BY <1>13, <2>1
      <4> QED BY <1>6, <4>1, <4>2, Zenon
    <3>3. ASSUME NEW i \in 1..n - 1 PROVE v[i] = s[((l + 1) - n) + i]
      <4>1. i \in 1..j /\ ((l + 1) - n) + i \in 1..l
        BY <2>1
      <4>2. v[i] = t[((l + 1) - j) + i]
        BY <1>12, <1>13, <4>1
      <4>3. t[((l + 1) - n) + i] = s[((l + 1) - n) + i]
        BY <1>6, <4>1
      <4> QED BY <2>1, <4>2, <4>3, Zenon
    <3> QED BY <3>2, <3>3
  <2>7. \A i \in 1..n : u[i] = v[i]
    <3>1. ASSUME NEW i \in 1..n - 1 PROVE u[i] = v[i]
      <4>1. (l - n) + (i + 1) = ((l + 1) - n) + i
        OBVIOUS
      <4> QED BY <2>5, <2>6, <4>1, Zenon
    <3> QED BY <2>5, <2>6, <3>1
  <2>8. u = v
    BY <1>12, <2>1, <2>4, <2>5, <2>7, SeqEqual
  <2> QED BY <1>2, <1>4, <1>5, <1>9, <1>10, <2>3, <2>8, Zenon DEF Make
<1>11. CASE ~(k >= n)
  <2>1. k = l /\ j = l + 1
    BY <1>3, <1>8, <1>13, <1>11
  <2>2. PICK u : u = Append(w, x)
    OBVIOUS
  <2>3. u \in Seq(S) /\ Len(u) = l + 1 /\ u[l + 1] = x /\ \A i \in 1..l : u[i] = w[i]
    BY <1>4, <2>1, <2>2, AppendProperties
  <2>4. \A i \in 1..l + 1 : v[i] = t[i]
    BY <1>12, <1>13, <2>1
  <2>5. \A i \in 1..l : w[i] = s[i]
    BY <1>4, <2>1
  <2>6. \A i \in 1..l + 1 : u[i] = v[i]
    BY <1>6, <2>3, <2>4, <2>5
  <2>7. u = v
    BY <1>12, <2>1, <2>3, <2>6, SeqEqual
  <2> QED BY <1>2, <1>4, <1>5, <1>9, <1>11, <2>2, <2>7, Zenon DEF Make
<1> QED BY <1>10, <1>11

\* The newest of the last so many are the newest of all.
LEMMA NewestOfOwn ==
  ASSUME NEW S, NEW s \in Seq(S), NEW n \in Nat \ {0}, NEW k \in 0..Len(s),
         Len(SubSeq(s, k + 1, Len(s))) >= n
  PROVE  NewestOf(SubSeq(s, k + 1, Len(s)), n) = NewestOf(s, n)
<1>1. PICK l \in Nat : l = Len(s)
  BY LenProperties
<1>2. k \in Nat /\ k <= l
  BY <1>1
<1>3. PICK m \in Nat : m = k + 1
  BY <1>2
<1>4. \A i \in m..l : s[i] \in S
  BY <1>1, <1>3, ElementOfSeq
<1>5. PICK o : o = SubSeq(s, m, l)
  OBVIOUS
<1>6. /\ o \in Seq(S) /\ Len(o) = (IF m <= l THEN l - m + 1 ELSE 0)
      /\ \A i \in 1..l - m + 1 : o[i] = s[m + i - 1]
  <2>1. /\ SubSeq(s, m, l) \in Seq(S)
        /\ Len(SubSeq(s, m, l)) = (IF m <= l THEN l - m + 1 ELSE 0)
        /\ \A i \in 1..l - m + 1 : SubSeq(s, m, l)[i] = s[m + i - 1]
    BY <1>4, SubSeqProperties
  <2> QED BY <1>5, <2>1, Zenon
<1>7. PICK p \in Nat : p = l - k
  BY <1>2
<1>8. Len(o) = p /\ p >= n /\ \A i \in 1..p : o[i] = s[k + i]
  <2>1. l - m + 1 = p /\ \A i \in 1..p : m + i - 1 = k + i
    BY <1>2, <1>3, <1>7
  <2>2. Len(o) = p /\ \A i \in 1..p : o[i] = s[k + i]
    BY <1>2, <1>3, <1>6, <1>7, <2>1
  <2> QED BY <1>1, <1>3, <1>5, <2>2, Zenon
<1>9. ~(p < n) /\ ~(l < n)
  BY <1>2, <1>7, <1>8
<1>10. /\ NewestOf(o, n) \in Seq(S) /\ Len(NewestOf(o, n)) = n
       /\ \A i \in 1..n : NewestOf(o, n)[i] = o[(p - n) + i]
  BY <1>6, <1>8, <1>9, NewestIs, Zenon
<1>11. /\ NewestOf(s, n) \in Seq(S) /\ Len(NewestOf(s, n)) = n
       /\ \A i \in 1..n : NewestOf(s, n)[i] = s[(l - n) + i]
  BY <1>1, <1>9, NewestIs, Zenon
<1>12. \A i \in 1..n : NewestOf(o, n)[i] = NewestOf(s, n)[i]
  <2>1. ASSUME NEW i \in 1..n PROVE o[(p - n) + i] = s[(l - n) + i]
    <3>1. (p - n) + i \in 1..p /\ k + ((p - n) + i) = (l - n) + i
      BY <1>2, <1>7, <1>8
    <3> QED BY <1>8, <3>1
  <2> QED BY <1>10, <1>11, <2>1
<1>13. NewestOf(o, n) = NewestOf(s, n)
  BY <1>10, <1>11, <1>12, SeqEqual
<1> QED BY <1>1, <1>3, <1>5, <1>13, Zenon

-----------------------------------------------------------------------------
(***************************************************************************)
(* Drift: the windows are the newest of what was recorded, and no model was *)
(* applied later than now.                                                  *)
(***************************************************************************)
Sample == [correct : BOOLEAN, confidence : Confidence]

DriftInv ==
  /\ outcomeLog \in Seq(Sample) /\ judgedFrom \in 0..Len(outcomeLog)
  /\ globalWindow = NewestOf(outcomeLog, DriftWindow)
  /\ DOMAIN cohortWindows = DOMAIN cohortLog
  /\ \A c \in DOMAIN cohortLog :
       /\ cohortLog[c] \in Seq(Sample)
       /\ cohortWindows[c] = NewestOf(cohortLog[c], DriftWindow)

LEMMA NothingRecorded == \A S : <<>> \in Seq(S) /\ Len(<<>>) = 0
OBVIOUS

LEMMA NewestOfNothing == ASSUME NEW n \in Nat \ {0} PROVE NewestOf(<<>>, n) = <<>>
<1>1. PICK e \in Seq(Nat) : e = <<>>
  BY NothingRecorded, Zenon
<1>2. PICK l \in Nat : l = Len(e)
  BY <1>1
<1>3. PICK k \in Nat : k = IF l < n THEN l ELSE n
  OBVIOUS
<1>4. NewestOf(e, n) \in Seq(Nat) /\ Len(NewestOf(e, n)) = k
  BY <1>2, <1>3, NewestIs, Zenon
<1>5. k = 0
  BY <1>1, <1>2, <1>3
<1>6. \A w \in Seq(Nat) : Len(w) = 0 => w = <<>>
  OBVIOUS
<1> QED BY <1>1, <1>4, <1>5, <1>6, Zenon

LEMMA DriftInvInit == ASSUME LearningAssumption, DriftInit PROVE DriftInv
<1>1. DriftWindow \in Nat \ {0}
  BY DEF LearningAssumption
<1>2. /\ outcomeLog = <<>> /\ globalWindow = <<>> /\ judgedFrom = 0
      /\ DOMAIN cohortLog = {} /\ DOMAIN cohortWindows = {}
  BY DEF DriftInit
<1>3. outcomeLog \in Seq(Sample) /\ judgedFrom \in 0..Len(outcomeLog)
  BY <1>2
<1> QED BY <1>1, <1>2, <1>3, NewestOfNothing, Zenon DEF DriftInv

LEMMA SampleIs ==
  ASSUME LearningAssumption, NEW p \in Value, NEW a \in Value, NEW confidence \in Confidence
  PROVE  [correct |-> IsPredictionCorrect(p, a, confidence), confidence |-> confidence] \in Sample
<1>1. p \in Int /\ a \in Int /\ confidence \in Int
  BY DEF LearningAssumption
<1>2. IsPredictionCorrect(p, a, confidence) \in BOOLEAN
  <2>1. CASE a \in {0, 10}
    BY <2>1, Zenon DEF IsPredictionCorrect
  <2>2. CASE a \notin {0, 10}
    <3>1. PICK d \in Int : d = Distance(p, a)
      <4>1. p - a \in Int /\ a - p \in Int
        BY <1>1
      <4> QED BY <4>1, Zenon DEF Distance
    <3>2. (10 * d <= 10 + 2 * (10 - confidence)) \in BOOLEAN
      BY <1>1
    <3> QED BY <2>2, <3>1, <3>2, Zenon DEF IsPredictionCorrect
  <2> QED BY <2>1, <2>2
<1> QED BY <1>2 DEF Sample

\* A prediction's outcome goes into the window of all and into that of its cohort.
LEMMA RecordKeepsWindows ==
  ASSUME LearningAssumption, DriftInv,
         NEW p \in Value, NEW a \in Value, NEW confidence \in Confidence, NEW cohort,
         RecordPredictionOutcome(p, a, confidence, cohort)
  PROVE  DriftInv'
<1>1. PICK x \in Sample :
        x = [correct |-> IsPredictionCorrect(p, a, confidence), confidence |-> confidence]
  BY SampleIs
<1>2. DriftWindow \in Nat \ {0}
  BY DEF LearningAssumption
<1>3. /\ globalWindow' = Push(globalWindow, x) /\ outcomeLog' = Append(outcomeLog, x)
      /\ cohortWindows' =
           WithCohort(cohortWindows, cohort, Push(OfCohort(cohortWindows, cohort), x))
      /\ cohortLog' = WithCohort(cohortLog, cohort, Append(OfCohort(cohortLog, cohort), x))
      /\ judgedFrom' = judgedFrom
  BY <1>1, Zenon DEF RecordPredictionOutcome
<1>4. \A s \in Seq(Sample) : Push(NewestOf(s, DriftWindow), x) = NewestOf(Append(s, x), DriftWindow)
  BY <1>2, PushNewest, Zenon DEF Push, Make
<1>5. outcomeLog' \in Seq(Sample) /\ judgedFrom' \in 0..Len(outcomeLog')
      /\ globalWindow' = NewestOf(outcomeLog', DriftWindow)
  <2>1. PICK s \in Seq(Sample) : s = outcomeLog
    BY DEF DriftInv
  <2>2. Append(s, x) \in Seq(Sample) /\ Len(Append(s, x)) = Len(s) + 1 /\ Len(s) \in Nat
    BY AppendProperties
  <2>3. judgedFrom \in 0..Len(s) + 1
    BY <2>1, <2>2 DEF DriftInv
  <2>4. globalWindow' = NewestOf(Append(s, x), DriftWindow)
    BY <1>3, <1>4, <2>1, Zenon DEF DriftInv
  <2> QED BY <1>3, <2>1, <2>2, <2>3, <2>4, Zenon
<1>6. PICK old \in Seq(Sample) : /\ old = OfCohort(cohortLog, cohort)
                                 /\ OfCohort(cohortWindows, cohort) = NewestOf(old, DriftWindow)
  BY <1>2, NewestOfNothing, NothingRecorded, Zenon DEF DriftInv, OfCohort
<1>7. PICK new \in Seq(Sample) : new = Append(old, x)
  BY AppendProperties
<1>8. Push(OfCohort(cohortWindows, cohort), x) = NewestOf(new, DriftWindow)
  BY <1>4, <1>6, <1>7, Zenon
<1>9. /\ cohortWindows' = WithCohort(cohortWindows, cohort, NewestOf(new, DriftWindow))
      /\ cohortLog' = WithCohort(cohortLog, cohort, new)
  BY <1>3, <1>6, <1>7, <1>8, Zenon
<1>10. /\ DOMAIN cohortWindows' = DOMAIN cohortWindows \cup {cohort}
       /\ DOMAIN cohortLog' = DOMAIN cohortLog \cup {cohort}
       /\ \A c \in DOMAIN cohortLog \cup {cohort} :
            cohortLog'[c] = IF c = cohort THEN new ELSE cohortLog[c]
       /\ \A c \in DOMAIN cohortWindows \cup {cohort} :
            cohortWindows'[c] = IF c = cohort THEN NewestOf(new, DriftWindow) ELSE cohortWindows[c]
  BY <1>9, Zenon DEF WithCohort
<1>11. /\ DOMAIN cohortWindows' = DOMAIN cohortLog'
       /\ \A c \in DOMAIN cohortLog' :
            /\ cohortLog'[c] \in Seq(Sample)
            /\ cohortWindows'[c] = NewestOf(cohortLog'[c], DriftWindow)
  <2>1. DOMAIN cohortWindows = DOMAIN cohortLog
    BY DEF DriftInv
  <2>2. ASSUME NEW c \in DOMAIN cohortLog'
        PROVE  /\ cohortLog'[c] \in Seq(Sample)
               /\ cohortWindows'[c] = NewestOf(cohortLog'[c], DriftWindow)
    <3>1. CASE c = cohort
      BY <1>10, <2>1, <3>1, Zenon
    <3>2. CASE c # cohort
      BY <1>10, <2>1, <2>2, <3>2, Zenon DEF DriftInv
    <3> QED BY <3>1, <3>2
  <2> QED BY <1>10, <2>1, <2>2, Zenon
<1> QED BY <1>5, <1>11, Zenon DEF DriftInv

LEMMA JudgedKeeps ==
  ASSUME DriftInv, judgedFrom' \in {judgedFrom, Len(outcomeLog)},
         UNCHANGED <<globalWindow, cohortWindows, outcomeLog, cohortLog>>
  PROVE  DriftInv'
<1>1. Len(outcomeLog) \in Nat
  BY LenProperties DEF DriftInv
<1>2. judgedFrom' \in 0..Len(outcomeLog)
  BY <1>1 DEF DriftInv
<1> QED BY <1>2 DEF DriftInv

LEMMA DriftInvSays == ASSUME LearningAssumption, DriftInv PROVE ReportsNewest
<1>1. DriftWindow \in Nat \ {0} /\ outcomeLog \in Seq(Sample) /\ judgedFrom \in 0..Len(outcomeLog)
  BY DEF LearningAssumption, DriftInv
<1>2. Len(Own) >= DriftWindow => NewestOf(Own, DriftWindow) = globalWindow
  BY <1>1, NewestOfOwn, Zenon DEF DriftInv, Own
<1>3. Len(Own) >= DriftWindow =>
        Recommendation(globalWindow) = Recommendation(NewestOf(Own, DriftWindow))
  BY <1>2, Zenon
<1> QED BY <1>3, Zenon DEF DriftInv, ReportsNewest

\* loops/drift_detection.rs: a report is about the newest outcomes, of all cohorts
\* and of each, and no longer about those of an earlier model once the present one
\* has had a windowful. For any window, cohorts, values and thresholds.
THEOREM ReportsNewestAlways == ASSUME LearningAssumption PROVE DriftSpec => []ReportsNewest
<1>1. DriftInit => DriftInv
  BY DriftInvInit
<1>2. DriftInv /\ [DriftNext]_driftVars => DriftInv'
  <2> SUFFICES ASSUME DriftInv, [DriftNext]_driftVars PROVE DriftInv'
    OBVIOUS
  <2>1. ASSUME NEW p \in Value, NEW a \in Value, NEW confidence \in Confidence,
               NEW c \in PredictedCohort, RecordPredictionOutcome(p, a, confidence, c)
        PROVE  DriftInv'
    BY <2>1, RecordKeepsWindows
  <2>2. ASSUME NEW b \in Baseline, ApplyNewModel(b) PROVE DriftInv'
    BY <2>2, JudgedKeeps DEF ApplyNewModel
  <2>3. CASE Rollback
    BY <2>3, JudgedKeeps DEF Rollback
  <2>4. CASE UNCHANGED driftVars
    BY <2>4, JudgedKeeps DEF driftVars
  <2> QED BY <2>1, <2>2, <2>3, <2>4 DEF DriftNext
<1>3. DriftInv => ReportsNewest
  BY DriftInvSays
<1> QED BY <1>1, <1>2, <1>3, PTL DEF DriftSpec

-----------------------------------------------------------------------------
(***************************************************************************)
(* Feedback: the loop keeps the newest of all outcomes, and counts them.    *)
(***************************************************************************)
OutcomeType == {"Repaid", "Defaulted", "Outstanding"}
Defaults(w) == {i \in 1..Len(w) : w[i] = "Defaulted"}

FeedbackInv ==
  /\ recorded \in Seq(OutcomeType) /\ days \in Nat
  /\ loanOutcomes = NewestOf(recorded, MaxLoanOutcomes)
  /\ performance \in [recorded : Nat, defaults : Nat, lastRetrain : Int]
  /\ performance.recorded = Len(recorded)
  /\ performance.defaults = Cardinality(Defaults(loanOutcomes))
  /\ calibration.overall \in [alpha : Nat, beta : Nat]
  /\ Observations(calibration.overall) <= Len(recorded)
  /\ IsFiniteSet(DOMAIN pendingScores)
  /\ Cardinality(DOMAIN pendingScores) <= MaxPending

\* Those in the window are those of the newest: the same places, shifted.
LEMMA DefaultsOfNewest ==
  ASSUME NEW s \in Seq(OutcomeType), NEW n \in Nat \ {0}
  PROVE  /\ IsFiniteSet(Defaults(NewestOf(s, n)))
         /\ Cardinality(Defaults(NewestOf(s, n))) =
              Cardinality({i \in {j \in 1..Len(s) : j > Len(s) - n} : s[i] = "Defaulted"})
<1>1. PICK l \in Nat : l = Len(s)
  BY LenProperties
<1>2. PICK w : w = NewestOf(s, n)
  OBVIOUS
<1>3. PICK k \in Nat : k = IF l < n THEN l ELSE n
  OBVIOUS
<1>4. w \in Seq(OutcomeType) /\ Len(w) = k /\ \A i \in 1..k : w[i] = s[(l - k) + i]
  BY <1>1, <1>2, <1>3, NewestIs, Zenon
<1>5. PICK D : D = {i \in 1..k : w[i] = "Defaulted"}
  OBVIOUS
<1>6. PICK E : E = {i \in {j \in 1..l : j > l - n} : s[i] = "Defaulted"}
  OBVIOUS
<1>7. IsFiniteSet(D)
  <2>1. IsFiniteSet(1..k)
    BY FS_Interval
  <2> QED BY <1>5, <2>1, FS_Subset
<1>8. PICK f : f = [i \in D |-> (l - k) + i]
  OBVIOUS
<1>9. f \in Bijection(D, E)
  <2>1. k <= l
    BY <1>3
  <2>2. ASSUME NEW i \in D PROVE f[i] \in E
    <3>1. f[i] = (l - k) + i /\ i \in 1..k /\ w[i] = "Defaulted"
      BY <1>5, <1>8
    <3>2. (l - k) + i \in 1..l /\ (l - k) + i > l - n
      BY <1>3, <2>1, <3>1
    <3>3. s[(l - k) + i] = "Defaulted"
      BY <1>4, <3>1
    <3> QED BY <1>6, <3>1, <3>2, <3>3
  <2>3. ASSUME NEW i \in D, NEW j \in D, f[i] = f[j] PROVE i = j
    <3>1. i \in Int /\ j \in Int /\ f[i] = (l - k) + i /\ f[j] = (l - k) + j
      BY <1>5, <1>8
    <3>2. (l - k) + i = (l - k) + j
      BY <2>3, <3>1, Zenon
    <3>3. l - k \in Int
      OBVIOUS
    <3> QED BY <3>1, <3>2, <3>3
  <2>4. ASSUME NEW e \in E PROVE \E i \in D : f[i] = e
    <3>1. e \in 1..l /\ e > l - n /\ s[e] = "Defaulted"
      BY <1>6
    <3>2. PICK i \in 1..k : e = (l - k) + i
      <4>1. e - (l - k) \in 1..k /\ e = (l - k) + (e - (l - k))
        BY <1>3, <2>1, <3>1
      <4> QED BY <4>1
    <3>3. i \in D
      BY <1>4, <1>5, <3>1, <3>2
    <3> QED BY <1>8, <3>2, <3>3
  <2>5. f \in [D -> E]
    BY <1>8, <2>2
  <2>6. \A i, j \in D : f[i] = f[j] => i = j
    BY <2>3, Zenon
  <2>7. \A e \in E : \E i \in D : f[i] = e
    BY <2>4, Zenon
  <2> QED BY <2>5, <2>6, <2>7, Zenon DEF Bijection, Injection, IsInjective, Surjection
<1>10. Cardinality(E) = Cardinality(D)
  BY <1>7, <1>9, FS_Bijection DEF ExistsBijection
<1>11. Defaults(w) = D
  BY <1>4, <1>5 DEF Defaults
<1> QED BY <1>1, <1>2, <1>6, <1>7, <1>10, <1>11, Zenon

LEMMA FeedbackInvInit == ASSUME LearningAssumption, FeedbackInit PROVE FeedbackInv
<1>1. MaxLoanOutcomes \in Nat \ {0} /\ MaxPending \in Nat
  BY DEF LearningAssumption
<1>2. NewestOf(<<>>, MaxLoanOutcomes) = <<>>
  BY <1>1, NewestOfNothing
<1>3. Defaults(<<>>) = {} /\ Cardinality({}) = 0 /\ IsFiniteSet({})
  BY FS_EmptySet DEF Defaults
<1>4. calibration.overall = [alpha |-> 2, beta |-> 2]
  BY DEF FeedbackInit, NewCalibration, DefaultPrior
<1>5. /\ recorded = <<>> /\ loanOutcomes = <<>> /\ days = 0
      /\ performance = [recorded |-> 0, defaults |-> 0, lastRetrain |-> -1]
      /\ DOMAIN pendingScores = {}
  BY DEF FeedbackInit
<1>6. recorded \in Seq(OutcomeType) /\ Len(recorded) = 0
  BY <1>5
<1>7. calibration.overall \in [alpha : Nat, beta : Nat] /\ Observations(calibration.overall) = 0
  BY <1>4 DEF Observations
<1>8. /\ performance \in [recorded : Nat, defaults : Nat, lastRetrain : Int]
      /\ performance.recorded = 0 /\ performance.defaults = 0
  BY <1>5
<1>9. 0 \in Nat /\ 0 <= MaxPending /\ 0 <= 0
  BY <1>1
<1> QED BY <1>2, <1>3, <1>5, <1>6, <1>7, <1>8, <1>9, Zenon DEF FeedbackInv

\* One is dropped where the limit is reached, and one added.
LEMMA ScoreKeeps ==
  ASSUME LearningAssumption, FeedbackInv, NEW id, NEW cohort, RecordScore(id, cohort)
  PROVE  FeedbackInv'
<1>1. PICK P : P = DOMAIN pendingScores
  OBVIOUS
<1>2. IsFiniteSet(P) /\ Cardinality(P) \in Nat /\ Cardinality(P) <= MaxPending
      /\ MaxPending \in Nat \ {0}
  BY <1>1, FS_CardinalityType DEF FeedbackInv, LearningAssumption
<1>3. PICK dropped \in IF Cardinality(P) >= MaxPending THEN {{k} : k \in P} ELSE {{}} :
        pendingScores' = With(Without(pendingScores, dropped), id, cohort)
  BY <1>1, Zenon DEF RecordScore
<1>4. DOMAIN pendingScores' = (P \ dropped) \cup {id}
  BY <1>1, <1>3, Zenon DEF With, Without
<1>5. /\ IsFiniteSet(P \ dropped) /\ Cardinality(P \ dropped) \in Nat
      /\ Cardinality(P \ dropped) < MaxPending
  <2>1. CASE Cardinality(P) >= MaxPending
    <3>1. PICK k \in P : dropped = {k}
      BY <1>3, <2>1
    <3>2. IsFiniteSet(P \ {k}) /\ Cardinality(P \ {k}) = Cardinality(P) - 1
      BY <1>2, FS_RemoveElement
    <3> QED BY <1>2, <3>1, <3>2, FS_CardinalityType
  <2>2. CASE ~(Cardinality(P) >= MaxPending)
    <3>1. P \ dropped = P
      BY <1>3, <2>2
    <3> QED BY <1>2, <2>2, <3>1
  <2> QED BY <2>1, <2>2
<1>6. /\ IsFiniteSet((P \ dropped) \cup {id})
      /\ Cardinality((P \ dropped) \cup {id}) <= Cardinality(P \ dropped) + 1
      /\ Cardinality((P \ dropped) \cup {id}) \in Nat
  BY <1>5, FS_AddElement, FS_CardinalityType
<1>7. Cardinality((P \ dropped) \cup {id}) <= MaxPending
  BY <1>2, <1>5, <1>6
<1>8. UNCHANGED <<loanOutcomes, calibration, performance, days, recorded>>
  BY DEF RecordScore
<1> QED BY <1>4, <1>6, <1>7, <1>8, Zenon DEF FeedbackInv

LEMMA UpdateAddsOne ==
  ASSUME NEW c \in [alpha : Nat, beta : Nat], NEW repaid
  PROVE  /\ Update(c, repaid) \in [alpha : Nat, beta : Nat]
         /\ Observations(Update(c, repaid)) = Observations(c) + 1
<1>1. CASE repaid
  BY <1>1 DEF Update, Observations
<1>2. CASE ~repaid
  BY <1>2 DEF Update, Observations
<1> QED BY <1>1, <1>2

\* An outcome goes into the history, into the newest and into the calibration.
LEMMA OutcomeKeeps ==
  ASSUME LearningAssumption, FeedbackInv, NEW id, NEW score, NEW type \in OutcomeType,
         RecordLoanOutcome(id, score, type)
  PROVE  FeedbackInv'
<1>1. MaxLoanOutcomes \in Nat \ {0}
  BY DEF LearningAssumption
<1>2. PICK s \in Seq(OutcomeType) : s = recorded
  BY DEF FeedbackInv
<1>3. PICK t \in Seq(OutcomeType) : t = Append(s, type) /\ Len(t) = Len(s) + 1
  BY AppendProperties
<1>4. recorded' = t
  BY <1>2, <1>3 DEF RecordLoanOutcome
<1>5. PICK kept : kept = Append(Make(loanOutcomes, MaxLoanOutcomes), type)
  OBVIOUS
<1>6. kept = NewestOf(t, MaxLoanOutcomes)
  <2>1. loanOutcomes = NewestOf(s, MaxLoanOutcomes)
    BY <1>2, Zenon DEF FeedbackInv
  <2>2. Append(Make(NewestOf(s, MaxLoanOutcomes), MaxLoanOutcomes), type)
          = NewestOf(Append(s, type), MaxLoanOutcomes)
    BY <1>1, PushNewest, Zenon
  <2> QED BY <1>3, <1>5, <2>1, <2>2, Zenon
<1>7. loanOutcomes' = kept
  BY <1>5, Zenon DEF RecordLoanOutcome, Make
<1>8. performance' = [performance EXCEPT !.recorded = @ + 1, !.defaults = Cardinality(Defaults(kept))]
  BY <1>5, Zenon DEF RecordLoanOutcome, Make, Defaults
<1>9. IsFiniteSet(Defaults(kept))
  BY <1>1, <1>6, DefaultsOfNewest
<1>10. PICK d \in Nat : d = Cardinality(Defaults(kept))
  BY <1>9, FS_CardinalityType
<1>11. Len(s) \in Nat
  OBVIOUS
<1>12. /\ performance' \in [recorded : Nat, defaults : Nat, lastRetrain : Int]
       /\ performance'.recorded = Len(s) + 1 /\ performance'.defaults = d
  <2>1. performance \in [recorded : Nat, defaults : Nat, lastRetrain : Int]
        /\ performance.recorded = Len(s)
    BY <1>2 DEF FeedbackInv
  <2>2. PICK a \in Nat, b \in Nat, c \in Int :
          performance = [recorded |-> a, defaults |-> b, lastRetrain |-> c]
    BY <2>1
  <2>3. a = Len(s)
    BY <2>1, <2>2
  <2>4. performance' = [recorded |-> a + 1, defaults |-> d, lastRetrain |-> c]
    <3>1. performance' = [performance EXCEPT !.recorded = @ + 1, !.defaults = d]
      BY <1>8, <1>10, Zenon
    <3> QED BY <2>2, <3>1
  <2> QED BY <2>3, <2>4
<1>13. /\ calibration'.overall \in [alpha : Nat, beta : Nat]
       /\ Observations(calibration'.overall) <= Len(s) + 1
  <2>1. PICK c \in [alpha : Nat, beta : Nat] :
          c = calibration.overall /\ Observations(c) <= Len(s)
    BY <1>2, Zenon DEF FeedbackInv
  <2>2. calibration'.overall = Update(c, type = "Repaid")
    BY <2>1 DEF RecordLoanOutcome, Record
  <2>3. PICK u \in [alpha : Nat, beta : Nat] :
          u = Update(c, type = "Repaid") /\ Observations(u) = Observations(c) + 1
    BY UpdateAddsOne
  <2>4. Observations(c) \in Int
    BY DEF Observations
  <2> QED BY <1>11, <2>1, <2>2, <2>3, <2>4
<1>14. IsFiniteSet(DOMAIN pendingScores') /\ Cardinality(DOMAIN pendingScores') <= MaxPending
  <2>1. DOMAIN pendingScores' = DOMAIN pendingScores \ {id}
    BY DEF RecordLoanOutcome, Without
  <2>2. /\ IsFiniteSet(DOMAIN pendingScores) /\ Cardinality(DOMAIN pendingScores) \in Nat
        /\ Cardinality(DOMAIN pendingScores) <= MaxPending /\ MaxPending \in Nat
    BY FS_CardinalityType DEF FeedbackInv, LearningAssumption
  <2>3. /\ IsFiniteSet(DOMAIN pendingScores \ {id})
        /\ Cardinality(DOMAIN pendingScores \ {id}) <= Cardinality(DOMAIN pendingScores)
        /\ Cardinality(DOMAIN pendingScores \ {id}) \in Nat
    BY <2>2, FS_Subset, FS_CardinalityType
  <2>4. Cardinality(DOMAIN pendingScores \ {id}) <= MaxPending
    BY <2>2, <2>3
  <2> QED BY <2>1, <2>3, <2>4
<1>15. days' = days
  BY DEF RecordLoanOutcome
<1> QED BY <1>3, <1>4, <1>6, <1>7, <1>10, <1>12, <1>13, <1>14, <1>15, Zenon DEF FeedbackInv

LEMMA RetrainedKeeps ==
  ASSUME FeedbackInv, ApplyRetrainedModel PROVE FeedbackInv'
<1>1. PICK r \in [recorded : Nat, defaults : Nat, lastRetrain : Int] : r = performance
  BY DEF FeedbackInv
<1>2. PICK d \in Int : d = days
  BY DEF FeedbackInv
<1>3. /\ performance' \in [recorded : Nat, defaults : Nat, lastRetrain : Int]
      /\ performance'.recorded = r.recorded /\ performance'.defaults = r.defaults
  BY <1>1, <1>2 DEF ApplyRetrainedModel
<1>4. calibration'.overall = [alpha |-> 2, beta |-> 2]
  BY DEF ApplyRetrainedModel, NewCalibration, DefaultPrior
<1>5. calibration'.overall \in [alpha : Nat, beta : Nat] /\ Observations(calibration'.overall) = 0
  BY <1>4 DEF Observations
<1>6. 0 <= Len(recorded)
  BY DEF FeedbackInv
<1>7. UNCHANGED <<pendingScores, loanOutcomes, days, recorded>>
  BY DEF ApplyRetrainedModel
<1> QED BY <1>1, <1>3, <1>5, <1>6, <1>7, Zenon DEF FeedbackInv

LEMMA FeedbackInvSays == ASSUME LearningAssumption, FeedbackInv PROVE OutcomesCounted
<1>1. PICK s \in Seq(OutcomeType) : s = recorded
  BY DEF FeedbackInv
<1>2. performance.defaults =
        Cardinality({i \in {j \in 1..Len(s) : j > Len(s) - MaxLoanOutcomes} : s[i] = "Defaulted"})
  <2>1. MaxLoanOutcomes \in Nat \ {0}
    BY DEF LearningAssumption
  <2> QED BY <1>1, <2>1, DefaultsOfNewest, Zenon DEF FeedbackInv
<1>3. ASSUME performance.lastRetrain = days, InBins(calibration) = 0 PROVE ~ShouldRetrain
  <2>1. ~NeedsRecalibration
    <3>1. ~(InBins(calibration) > 0)
      BY <1>3
    <3> QED BY <3>1, Zenon DEF NeedsRecalibration
  <2>2. ~(days - performance.lastRetrain > RetrainDays)
    BY <1>3 DEF FeedbackInv, LearningAssumption
  <2> QED BY <2>1, <2>2 DEF ShouldRetrain
<1> QED BY <1>1, <1>2, <1>3, Zenon DEF FeedbackInv, OutcomesCounted

\* loops/credit_feedback.rs: every outcome of a loan is counted, none by the prior;
\* the default rate is that of the newest outcomes; the scores awaited stay within
\* their limit; and a model just applied is not asked to be trained anew.
THEOREM OutcomesCountedAlways == ASSUME LearningAssumption PROVE FeedbackSpec => []OutcomesCounted
<1>1. FeedbackInit => FeedbackInv
  BY FeedbackInvInit
<1>2. FeedbackInv /\ [FeedbackNext]_feedbackVars => FeedbackInv'
  <2> SUFFICES ASSUME FeedbackInv, [FeedbackNext]_feedbackVars PROVE FeedbackInv'
    OBVIOUS
  <2>1. ASSUME NEW id \in LoanId, NEW c \in LoanCohort, RecordScore(id, c) PROVE FeedbackInv'
    BY <2>1, ScoreKeeps
  <2>2. ASSUME NEW id \in LoanId, NEW s \in Score, NEW type \in OutcomeType,
               RecordLoanOutcome(id, s, type)
        PROVE  FeedbackInv'
    BY <2>2, OutcomeKeeps
  <2>3. CASE ApplyRetrainedModel
    BY <2>3, RetrainedKeeps
  <2>4. CASE DayPasses
    <3>1. days' \in Nat
      BY <2>4 DEF DayPasses, FeedbackInv
    <3> QED BY <2>4, <3>1, Zenon DEF DayPasses, FeedbackInv
  <2>5. CASE UNCHANGED feedbackVars
    BY <2>5, Zenon DEF feedbackVars, FeedbackInv
  <2> QED BY <2>1, <2>2, <2>3, <2>4, <2>5 DEF FeedbackNext, OutcomeType
<1>3. FeedbackInv => OutcomesCounted
  BY FeedbackInvSays
<1> QED BY <1>1, <1>2, <1>3, PTL DEF FeedbackSpec

-----------------------------------------------------------------------------
(***************************************************************************)
(* Capability modules: what is kept of each, in memory, in its rows and in  *)
(* its file. Windows are short and of large samples; profiles count every   *)
(* day; a signal rests on enough broadcasts.                                *)
(***************************************************************************)
IsSeq(s) == \E T : s \in Seq(T)

LargeWindow(w) ==
  IsSeq(w) /\ Len(w) \in 1..PriceWindow /\ \A i \in DOMAIN w : w[i].sample >= MinSample
LargeWindows(state) == \A c \in DOMAIN state : LargeWindow(state[c])

Capped(n) == IF n > ProfileDays THEN ProfileDays ELSE n
Profile(p) ==
  \E s : \E active, total \in Nat :
    /\ p = [incomes |-> s, active |-> active, total |-> total]
    /\ IsSeq(s) /\ Len(s) = Capped(active)
    /\ active <= total
Profiles(state) == \A w \in DOMAIN state : Profile(state[w])

Signals(signals) == \A c \in DOMAIN signals : signals[c].sample >= MinBroadcasts
ServiceState(state) ==
  \E pending, signals :
    /\ state = [pending |-> pending, signals |-> signals]
    /\ Signals(signals) /\ \A c \in DOMAIN pending : IsSeq(pending[c])
ServiceRows(state) ==
  \E pending, signals : state = [pending |-> pending, signals |-> signals] /\ Signals(signals)

KeptInMemory ==
  /\ DOMAIN memory = Module
  /\ LargeWindows(memory["MarketAnalyzer"]) /\ Profiles(memory["HealthMetrics"])
  /\ ServiceState(memory["ServicePriceDiscovery"])
KeptInTable ==
  /\ DOMAIN table = Module
  /\ LargeWindows(table["MarketAnalyzer"]) /\ ServiceRows(table["ServicePriceDiscovery"])
KeptInFile ==
  /\ DOMAIN file = Module
  /\ LargeWindows(file["MarketAnalyzer"]) /\ Profiles(file["HealthMetrics"])

AnswerInv ==
  /\ answered.by # "CreditScorer"
  /\ answered.by = "HealthMetrics" /\ answered.eligible =>
       memory["HealthMetrics"][answered.worker].active >= EligibleDays

BroadcastInv ==
  /\ IsFiniteSet(DOMAIN broadcastRows)
  /\ \A b \in DOMAIN broadcastRows : broadcastRows[b] \in BOOLEAN
  /\ ProcessedWasCounted /\ UnprocessedWait

ScorerInv ==
  \/ scoring = {} /\ held = {}
  \/ \E w, batch : scoring = {[worker |-> w, batch |-> batch, at |-> 1]} /\ held = {}
  \/ \E w, batch : scoring = {[worker |-> w, batch |-> batch, at |-> 2]} /\ held = {w}

ModulesInv ==
  KeptInMemory /\ KeptInTable /\ KeptInFile /\ AnswerInv /\ BroadcastInv /\ ScorerInv

LEMMA ModulesKnown ==
  /\ "MarketAnalyzer" \in Module /\ "HealthMetrics" \in Module
  /\ "ServicePriceDiscovery" \in Module /\ "CreditScorer" \in Module
  /\ "DistributionAnalyzer" \in Module /\ "FMCGIntelligence" \in Module
  /\ "EconomicAnalyzer" \in Module
BY DEF Module

\* What one module becomes leaves the others.
LEMMA OneBecomes ==
  ASSUME NEW f, NEW g, DOMAIN f = Module, NEW m \in Module, NEW v, g = [f EXCEPT ![m] = v]
  PROVE  DOMAIN g = Module /\ g[m] = v /\ \A k \in Module : k # m => g[k] = f[k]
OBVIOUS

LEMMA MemoryBecomes ==
  ASSUME KeptInMemory, NEW m \in Module, NEW v, memory' = [memory EXCEPT ![m] = v],
         m = "MarketAnalyzer" => LargeWindows(v), m = "HealthMetrics" => Profiles(v),
         m = "ServicePriceDiscovery" => ServiceState(v)
  PROVE  KeptInMemory' /\ memory'[m] = v /\ \A k \in Module : k # m => memory'[k] = memory[k]
<1>1. DOMAIN memory' = Module /\ memory'[m] = v /\ \A k \in Module : k # m => memory'[k] = memory[k]
  BY OneBecomes, Zenon DEF KeptInMemory
<1>2. LargeWindows(memory'["MarketAnalyzer"])
  BY <1>1, ModulesKnown, Zenon DEF KeptInMemory
<1>3. Profiles(memory'["HealthMetrics"])
  BY <1>1, ModulesKnown, Zenon DEF KeptInMemory
<1>4. ServiceState(memory'["ServicePriceDiscovery"])
  BY <1>1, ModulesKnown, Zenon DEF KeptInMemory
<1> QED BY <1>1, <1>2, <1>3, <1>4, Zenon DEF KeptInMemory

LEMMA FileBecomes ==
  ASSUME KeptInFile, NEW m \in Module, NEW v, file' = [file EXCEPT ![m] = v],
         m = "MarketAnalyzer" => LargeWindows(v), m = "HealthMetrics" => Profiles(v)
  PROVE  KeptInFile'
<1>1. DOMAIN file' = Module /\ file'[m] = v /\ \A k \in Module : k # m => file'[k] = file[k]
  BY OneBecomes, Zenon DEF KeptInFile
<1>2. LargeWindows(file'["MarketAnalyzer"])
  BY <1>1, ModulesKnown, Zenon DEF KeptInFile
<1>3. Profiles(file'["HealthMetrics"])
  BY <1>1, ModulesKnown, Zenon DEF KeptInFile
<1> QED BY <1>1, <1>2, <1>3, Zenon DEF KeptInFile

LEMMA TableBecomes ==
  ASSUME KeptInTable, NEW m \in Module, NEW v, table' = [table EXCEPT ![m] = v],
         m = "MarketAnalyzer" => LargeWindows(v), m = "ServicePriceDiscovery" => ServiceRows(v)
  PROVE  KeptInTable'
<1>1. DOMAIN table' = Module /\ table'[m] = v /\ \A k \in Module : k # m => table'[k] = table[k]
  BY OneBecomes, Zenon DEF KeptInTable
<1>2. LargeWindows(table'["MarketAnalyzer"])
  BY <1>1, ModulesKnown, Zenon DEF KeptInTable
<1>3. ServiceRows(table'["ServicePriceDiscovery"])
  BY <1>1, ModulesKnown, Zenon DEF KeptInTable
<1> QED BY <1>1, <1>2, <1>3, Zenon DEF KeptInTable

\* A state that nothing was recorded in.
LEMMA NothingKept ==
  /\ LargeWindows(Empty) /\ Profiles(Empty) /\ Signals(Empty)
  /\ ServiceState([pending |-> Empty, signals |-> Empty])
  /\ ServiceRows([pending |-> Empty, signals |-> Empty])
<1>1. DOMAIN Empty = {}
  BY DEF Empty
<1>2. LargeWindows(Empty) /\ Profiles(Empty) /\ Signals(Empty)
  BY <1>1, Zenon DEF LargeWindows, Profiles, Signals
<1>3. \A c \in DOMAIN Empty : IsSeq(Empty[c])
  BY <1>1, Zenon
<1> QED BY <1>2, <1>3, Zenon DEF ServiceState, ServiceRows

LEMMA NewKept ==
  ASSUME NEW m \in Module
  PROVE  /\ m = "MarketAnalyzer" => LargeWindows(NewState(m))
         /\ m = "HealthMetrics" => Profiles(NewState(m))
         /\ m = "ServicePriceDiscovery" => ServiceState(NewState(m)) /\ ServiceRows(NewState(m))
<1>1. NewState("MarketAnalyzer") = Empty /\ NewState("HealthMetrics") = Empty
  BY DEF NewState
<1>2. NewState("ServicePriceDiscovery") = [pending |-> Empty, signals |-> Empty]
  BY DEF NewState
<1> QED BY <1>1, <1>2, NothingKept, Zenon

-----------------------------------------------------------------------------
(* What the modules compute.                                               *)

LEMMA SeqGrows ==
  ASSUME NEW s, NEW x, IsSeq(s)
  PROVE  /\ IsSeq(Append(s, x)) /\ Len(s) \in Nat /\ Len(Append(s, x)) = Len(s) + 1
         /\ DOMAIN s = 1..Len(s) /\ DOMAIN Append(s, x) = 1..Len(s) + 1
         /\ \A i \in 1..Len(s) : Append(s, x)[i] = s[i]
         /\ Append(s, x)[Len(s) + 1] = x
<1>1. PICK T : s \in Seq(T)
  BY DEF IsSeq
<1>2. PICK U : U = T \cup {x}
  OBVIOUS
<1>3. T \subseteq U /\ x \in U
  BY <1>2
<1>4. s \in Seq(U)
  BY <1>1, <1>3
<1>5. /\ Append(s, x) \in Seq(U) /\ Len(Append(s, x)) = Len(s) + 1
      /\ \A i \in 1..Len(s) : Append(s, x)[i] = s[i]
      /\ Append(s, x)[Len(s) + 1] = x
  BY <1>3, <1>4, AppendProperties
<1>6. Len(s) \in Nat /\ DOMAIN s = 1..Len(s)
  BY <1>4, LenProperties
<1>7. DOMAIN Append(s, x) = 1..Len(s) + 1
  BY <1>5, LenProperties
<1>8. IsSeq(Append(s, x))
  BY <1>5, Zenon DEF IsSeq
<1> QED BY <1>5, <1>6, <1>7, <1>8

LEMMA SeqShrinks ==
  ASSUME NEW s, IsSeq(s), s # <<>>
  PROVE  /\ IsSeq(Tail(s)) /\ Len(s) \in Nat \ {0} /\ Len(Tail(s)) = Len(s) - 1
         /\ DOMAIN s = 1..Len(s) /\ DOMAIN Tail(s) = 1..Len(s) - 1
         /\ \A i \in 1..Len(s) - 1 : Tail(s)[i] = s[i + 1]
<1>1. PICK T : s \in Seq(T)
  BY DEF IsSeq
<1>2. Tail(s) \in Seq(T) /\ Len(Tail(s)) = Len(s) - 1 /\ \A i \in 1..Len(s) - 1 : Tail(s)[i] = s[i + 1]
  BY <1>1
<1>3. Len(s) \in Nat \ {0} /\ DOMAIN s = 1..Len(s)
  BY <1>1, LenProperties
<1>4. DOMAIN Tail(s) = 1..Len(s) - 1
  BY <1>2, LenProperties
<1>5. IsSeq(Tail(s))
  BY <1>2, Zenon DEF IsSeq
<1> QED BY <1>2, <1>3, <1>4, <1>5

\* RollingWindow::push.
LEMMA PushedIsWindow ==
  ASSUME ModulesAssumption, NEW w, w = <<>> \/ LargeWindow(w), NEW x, x.sample >= MinSample
  PROVE  LargeWindow(PushedTo(w, x))
<1>1. PICK p \in Nat \ {0} : p = PriceWindow
  BY DEF ModulesAssumption
<1>2. PICK v : v = IF Len(w) >= p THEN Tail(w) ELSE w
  OBVIOUS
<1>3. /\ IsSeq(v) /\ Len(v) \in 0..p - 1
      /\ \A i \in 1..Len(v) : v[i].sample >= MinSample
  <2>1. CASE w = <<>>
    <3>1. Len(w) = 0 /\ w \in Seq(Nat)
      BY <2>1
    <3>2. v = w
      BY <1>1, <1>2, <3>1
    <3>3. IsSeq(v)
      BY <3>1, <3>2, Zenon DEF IsSeq
    <3> QED BY <1>1, <3>1, <3>2, <3>3
  <2>2. CASE LargeWindow(w) /\ Len(w) >= p
    <3>1. IsSeq(w) /\ Len(w) = p /\ \A i \in DOMAIN w : w[i].sample >= MinSample
      BY <1>1, <2>2 DEF LargeWindow
    <3>2. w # <<>>
      BY <1>1, <3>1
    <3>3. v = Tail(w)
      BY <1>2, <2>2, Zenon
    <3>4. /\ IsSeq(Tail(w)) /\ Len(Tail(w)) = p - 1 /\ DOMAIN w = 1..p
          /\ \A i \in 1..p - 1 : Tail(w)[i] = w[i + 1]
      BY <3>1, <3>2, SeqShrinks
    <3>5. \A i \in 1..p - 1 : Tail(w)[i].sample >= MinSample
      <4>1. \A i \in 1..p - 1 : i + 1 \in 1..p
        BY <1>1
      <4> QED BY <3>1, <3>4, <4>1, Zenon
    <3>6. p - 1 \in 0..p - 1
      BY <1>1
    <3> QED BY <3>3, <3>4, <3>5, <3>6, Zenon
  <2>3. CASE LargeWindow(w) /\ ~(Len(w) >= p)
    <3>1. IsSeq(w) /\ Len(w) \in 1..p /\ \A i \in DOMAIN w : w[i].sample >= MinSample
      BY <1>1, <2>3, Zenon DEF LargeWindow
    <3>2. v = w
      BY <1>2, <2>3, Zenon
    <3>3. Len(w) \in 0..p - 1
      BY <1>1, <2>3, <3>1
    <3>4. DOMAIN w = 1..Len(w)
      BY <3>1, SeqGrows
    <3> QED BY <3>1, <3>2, <3>3, <3>4, Zenon
  <2> QED BY <2>1, <2>2, <2>3
<1>4. PICK u : u = Append(v, x)
  OBVIOUS
<1>5. PICK l \in Nat : l = Len(v)
  BY <1>3
<1>6. /\ IsSeq(u) /\ Len(u) = l + 1 /\ DOMAIN u = 1..l + 1
      /\ \A i \in 1..l : u[i] = v[i]
      /\ u[l + 1] = x
  <2>1. IsSeq(v)
    BY <1>3
  <2>2. /\ IsSeq(Append(v, x)) /\ Len(Append(v, x)) = Len(v) + 1
        /\ DOMAIN Append(v, x) = 1..Len(v) + 1
        /\ \A i \in 1..Len(v) : Append(v, x)[i] = v[i]
        /\ Append(v, x)[Len(v) + 1] = x
    BY <2>1, SeqGrows
  <2> QED BY <1>4, <1>5, <2>2, Zenon
<1>7. Len(u) \in 1..p
  BY <1>1, <1>3, <1>5, <1>6
<1>8. \A i \in DOMAIN u : u[i].sample >= MinSample
  <2>1. ASSUME NEW i \in 1..l + 1 PROVE u[i].sample >= MinSample
    <3>1. CASE i = l + 1
      BY <1>6, <3>1, Zenon
    <3>2. CASE i # l + 1
      <4>1. i \in 1..l
        BY <3>2
      <4> QED BY <1>3, <1>5, <1>6, <4>1, Zenon
    <3> QED BY <3>1, <3>2
  <2> QED BY <1>6, <2>1
<1>9. u = PushedTo(w, x)
  BY <1>1, <1>2, <1>4, Zenon DEF PushedTo
<1> QED BY <1>1, <1>6, <1>7, <1>8, <1>9, Zenon DEF LargeWindow

\* A day more in a profile, with an income or without.
LEMMA ProfileGrows ==
  ASSUME ModulesAssumption, NEW old, Profile(old), NEW income, NEW earned \in BOOLEAN,
         NEW new,
         new = [incomes |-> IF earned THEN Latest(Append(old.incomes, income), ProfileDays)
                            ELSE old.incomes,
                active |-> IF earned THEN old.active + 1 ELSE old.active,
                total |-> old.total + 1]
  PROVE  Profile(new) /\ Len(new.incomes) \in Nat /\ new.active \in Nat
         /\ new.active >= Len(new.incomes)
<1>1. PICK d \in Nat \ {0} : d = ProfileDays
  BY DEF ModulesAssumption
<1>2. PICK s : \E a, t \in Nat :
        /\ old = [incomes |-> s, active |-> a, total |-> t]
        /\ IsSeq(s) /\ Len(s) = Capped(a) /\ a <= t
  BY Zenon DEF Profile
<1>2a. PICK a \in Nat, t \in Nat :
        /\ old = [incomes |-> s, active |-> a, total |-> t]
        /\ IsSeq(s) /\ Len(s) = Capped(a) /\ a <= t
  BY <1>2, Zenon
<1>3. old.incomes = s /\ old.active = a /\ old.total = t
  BY <1>2a
<1>4. PICK r : \E b, u \in Nat :
        /\ new = [incomes |-> r, active |-> b, total |-> u]
        /\ IsSeq(r) /\ Len(r) = Capped(b) /\ b <= u
  <2>1. PICK b \in Nat, u \in Nat : b = a + 1 /\ u = t + 1 /\ b <= u /\ a <= u
    BY <1>2a
  <2>2. CASE earned
    <3>1. PICK q : q = Append(s, income)
      OBVIOUS
    <3>2. IsSeq(q) /\ Len(s) \in Nat /\ Len(q) = Len(s) + 1
      BY <1>2a, <3>1, SeqGrows, Zenon
    <3>3. PICK r : r = Latest(q, d)
      OBVIOUS
    <3>4. IsSeq(r) /\ Len(r) = Capped(b)
      <4>1. CASE Len(q) > d
        <5>1. q # <<>>
          BY <4>1
        <5>2. IsSeq(Tail(q)) /\ Len(Tail(q)) = Len(q) - 1
          BY <3>2, <5>1, SeqShrinks
        <5>3. r = Tail(q)
          BY <3>3, <4>1, Zenon DEF Latest
        <5>4. Len(q) - 1 = Capped(b)
          BY <1>1, <1>2a, <2>1, <3>2, <4>1 DEF Capped
        <5> QED BY <5>2, <5>3, <5>4, Zenon
      <4>2. CASE ~(Len(q) > d)
        <5>1. r = q
          BY <3>3, <4>2, Zenon DEF Latest
        <5>2. Len(q) = Capped(b)
          BY <1>1, <1>2a, <2>1, <3>2, <4>2 DEF Capped
        <5> QED BY <3>2, <5>1, <5>2, Zenon
      <4> QED BY <4>1, <4>2
    <3>5. new = [incomes |-> r, active |-> b, total |-> u]
      <4>1. r = IF earned THEN Latest(Append(old.incomes, income), ProfileDays) ELSE old.incomes
        BY <1>1, <1>3, <2>2, <3>1, <3>3, Zenon
      <4>2. b = IF earned THEN old.active + 1 ELSE old.active
        BY <1>3, <2>1, <2>2, Zenon
      <4>3. u = old.total + 1
        BY <1>3, <2>1, Zenon
      <4> QED BY <4>1, <4>2, <4>3, Zenon
    <3> QED BY <2>1, <3>4, <3>5, Zenon
  <2>3. CASE ~earned
    <3>1. new = [incomes |-> s, active |-> a, total |-> u]
      BY <1>3, <2>1, <2>3, Zenon
    <3> QED BY <1>2a, <2>1, <3>1, Zenon
  <2> QED BY <2>2, <2>3
<1>4a. PICK b \in Nat, u \in Nat :
        /\ new = [incomes |-> r, active |-> b, total |-> u]
        /\ IsSeq(r) /\ Len(r) = Capped(b) /\ b <= u
  BY <1>4, Zenon
<1>5. new.incomes = r /\ new.active = b
  BY <1>4a
<1>6. Len(r) \in Nat /\ b >= Len(r)
  BY <1>1, <1>4a DEF Capped
<1>7. Profile(new)
  BY <1>4a, Zenon DEF Profile
<1> QED BY <1>5, <1>6, <1>7

-----------------------------------------------------------------------------
(* The batches and signals of the modules.                                 *)

LEMMA MarketBatchKeeps ==
  ASSUME ModulesAssumption, ModulesInv, NEW batch, MarketBatch(batch)
  PROVE  KeptInMemory' /\ AnswerInv' /\ \A k \in Module : k # "MarketAnalyzer" => memory'[k] = memory[k]
<1>1. PICK sampled : sampled = {c \in Traded(batch) : Len(InCategory(batch, c)) >= MinSample}
  OBVIOUS
<1>2. PICK old : old = memory["MarketAnalyzer"]
  OBVIOUS
<1>3. LargeWindows(old)
  BY <1>2, Zenon DEF ModulesInv, KeptInMemory
<1>4. PICK entry : entry = [c \in sampled |->
        [volume |-> Volume(InCategory(batch, c)), sample |-> Len(InCategory(batch, c)),
         price |-> Revenue(InCategory(batch, c)) \div Len(InCategory(batch, c))]]
  OBVIOUS
<1>5. \A c \in sampled : entry[c].sample >= MinSample
  <2>1. ASSUME NEW c \in sampled PROVE entry[c].sample >= MinSample
    <3>1. PICK a, b, d : /\ a = Volume(InCategory(batch, c)) /\ b = Len(InCategory(batch, c))
                         /\ d = Revenue(InCategory(batch, c)) \div Len(InCategory(batch, c))
      OBVIOUS
    <3>2. entry[c] = [volume |-> a, sample |-> b, price |-> d]
      BY <1>4, <3>1, Zenon
    <3>3. entry[c].sample = b
      BY <3>2
    <3> QED BY <1>1, <3>1, <3>3, Zenon
  <2> QED BY <2>1
<1>6. PICK new : new = [c \in DOMAIN old \cup sampled |->
                          IF c \in sampled THEN PushedTo(Get(old, c, <<>>), entry[c]) ELSE old[c]]
  OBVIOUS
<1>7. /\ memory' = [memory EXCEPT !["MarketAnalyzer"] = new]
      /\ \/ answered' = NoAnswer
         \/ \E c \in sampled :
              answered' = [by |-> "MarketAnalyzer", category |-> c,
                           sample |-> Len(InCategory(batch, c)), trend |-> PriceTrend(new[c])]
  <2>1. new = [c \in DOMAIN old \cup sampled |->
                 IF c \in sampled
                 THEN PushedTo(Get(old, c, <<>>),
                        [volume |-> Volume(InCategory(batch, c)), sample |-> Len(InCategory(batch, c)),
                         price |-> Revenue(InCategory(batch, c)) \div Len(InCategory(batch, c))])
                 ELSE old[c]]
    BY <1>4, <1>6, Zenon
  <2> QED BY <1>1, <1>2, <2>1, Zenon DEF MarketBatch
<1>8. LargeWindows(new)
  <2>1. ASSUME NEW c \in DOMAIN new PROVE LargeWindow(new[c])
    <3>1. c \in DOMAIN old \cup sampled
      BY <1>6
    <3>2. CASE c \in sampled
      <4>1. new[c] = PushedTo(Get(old, c, <<>>), entry[c])
        BY <1>6, <3>1, <3>2, Zenon
      <4>2. Get(old, c, <<>>) = <<>> \/ LargeWindow(Get(old, c, <<>>))
        BY <1>3, Zenon DEF Get, LargeWindows
      <4> QED BY <1>5, <3>2, <4>1, <4>2, PushedIsWindow, Zenon
    <3>3. CASE c \notin sampled
      <4>1. new[c] = old[c] /\ c \in DOMAIN old
        BY <1>6, <3>1, <3>3
      <4> QED BY <1>3, <4>1, Zenon DEF LargeWindows
    <3> QED BY <3>2, <3>3
  <2> QED BY <2>1, Zenon DEF LargeWindows
<1>9. "MarketAnalyzer" # "HealthMetrics" /\ "MarketAnalyzer" # "ServicePriceDiscovery"
  OBVIOUS
<1>10. KeptInMemory' /\ \A k \in Module : k # "MarketAnalyzer" => memory'[k] = memory[k]
  BY <1>7, <1>8, <1>9, MemoryBecomes, ModulesKnown, Zenon DEF ModulesInv
<1>11. answered'.by \in {"none", "MarketAnalyzer"}
  <2>1. CASE answered' = NoAnswer
    BY <2>1 DEF NoAnswer
  <2>2. ASSUME NEW c \in sampled,
               answered' = [by |-> "MarketAnalyzer", category |-> c,
                            sample |-> Len(InCategory(batch, c)), trend |-> PriceTrend(new[c])]
        PROVE  answered'.by = "MarketAnalyzer"
    BY <2>2
  <2> QED BY <1>7, <2>1, <2>2
<1>12. AnswerInv'
  BY <1>11 DEF AnswerInv
<1> QED BY <1>10, <1>12

\* A module the invariant says nothing of, and an answer of its own or none.
LEMMA OtherKeeps ==
  ASSUME ModulesInv, NEW m \in {"DistributionAnalyzer", "FMCGIntelligence", "EconomicAnalyzer"},
         NEW v, memory' = [memory EXCEPT ![m] = v],
         answered'.by \notin {"HealthMetrics", "CreditScorer"}
  PROVE  KeptInMemory' /\ AnswerInv' /\ \A k \in Module : k # m => memory'[k] = memory[k]
<1>1. m \in Module /\ m # "MarketAnalyzer" /\ m # "HealthMetrics" /\ m # "ServicePriceDiscovery"
  BY DEF Module
<1>2. KeptInMemory' /\ \A k \in Module : k # m => memory'[k] = memory[k]
  BY <1>1, MemoryBecomes, Zenon DEF ModulesInv
<1>3. AnswerInv'
  BY DEF AnswerInv
<1> QED BY <1>2, <1>3

LEMMA HealthBatchKeeps ==
  ASSUME ModulesAssumption, ModulesInv, NEW w, NEW batch, HealthBatch(w, batch)
  PROVE  KeptInMemory' /\ AnswerInv' /\ \A k \in Module : k # "HealthMetrics" => memory'[k] = memory[k]
<1>1. PICK state : state = memory["HealthMetrics"]
  OBVIOUS
<1>2. Profiles(state)
  BY <1>1, Zenon DEF ModulesInv, KeptInMemory
<1>3. PICK old : old = Get(state, w, [incomes |-> <<>>, active |-> 0, total |-> 0])
  OBVIOUS
<1>4. Profile(old)
  <2>1. Profile([incomes |-> <<>>, active |-> 0, total |-> 0])
    <3>1. PICK e : e = <<>>
      OBVIOUS
    <3>2. e \in Seq(Nat) /\ Len(e) = 0
      BY <3>1
    <3>3. IsSeq(e)
      BY <3>2, Zenon DEF IsSeq
    <3>4. PICK z \in Nat : z = 0
      OBVIOUS
    <3>5. z <= z /\ Len(e) = Capped(z)
      BY <3>2, <3>4 DEF ModulesAssumption, Capped
    <3>6. Profile([incomes |-> e, active |-> z, total |-> z])
      BY <3>3, <3>5, Zenon DEF Profile
    <3> QED BY <3>1, <3>4, <3>6, Zenon
  <2> QED BY <1>2, <1>3, <2>1, Zenon DEF Get, Profiles
<1>5. PICK income : income = Revenue(SelectSeq(batch, LAMBDA t : t.amount > 0))
  OBVIOUS
<1>6. PICK earned \in BOOLEAN : earned <=> income > 0
  OBVIOUS
<1>7. PICK new : new = [incomes |-> IF earned THEN Latest(Append(old.incomes, income), ProfileDays)
                                    ELSE old.incomes,
                        active |-> IF earned THEN old.active + 1 ELSE old.active,
                        total |-> old.total + 1]
  OBVIOUS
<1>8. Profile(new) /\ Len(new.incomes) \in Nat /\ new.active \in Nat
      /\ new.active >= Len(new.incomes)
  BY <1>4, <1>7, ProfileGrows, Zenon
<1>9. /\ memory' = [memory EXCEPT !["HealthMetrics"] = Updated(state, w, new)]
      /\ answered' = [by |-> "HealthMetrics", worker |-> w,
                      eligible |-> Len(new.incomes) >= EligibleDays /\ Stable(new.incomes)]
  <2>1. new = [incomes |-> IF income > 0 THEN Latest(Append(old.incomes, income), ProfileDays)
                           ELSE old.incomes,
               active |-> IF income > 0 THEN old.active + 1 ELSE old.active,
               total |-> old.total + 1]
    BY <1>6, <1>7, Zenon
  <2> QED BY <1>1, <1>3, <1>5, <2>1, Zenon DEF HealthBatch
<1>10. PICK next : next = Updated(state, w, new)
  OBVIOUS
<1>11. Profiles(next) /\ next[w] = new
  BY <1>2, <1>8, <1>10, Zenon DEF Updated, Profiles
<1>12. "HealthMetrics" # "MarketAnalyzer" /\ "HealthMetrics" # "ServicePriceDiscovery"
       /\ "HealthMetrics" # "CreditScorer"
  OBVIOUS
<1>13. /\ KeptInMemory' /\ memory'["HealthMetrics"] = next
       /\ \A k \in Module : k # "HealthMetrics" => memory'[k] = memory[k]
  BY <1>9, <1>10, <1>11, <1>12, MemoryBecomes, ModulesKnown, Zenon DEF ModulesInv
<1>14. AnswerInv'
  <2>1. PICK e : e = (Len(new.incomes) >= EligibleDays /\ Stable(new.incomes))
    OBVIOUS
  <2>2. answered' = [by |-> "HealthMetrics", worker |-> w, eligible |-> e]
    BY <1>9, <2>1, Zenon
  <2>3. answered'.by = "HealthMetrics" /\ answered'.worker = w /\ answered'.eligible = e
    BY <2>2
  <2>4. e => Len(new.incomes) >= EligibleDays
    BY <2>1, Zenon
  <2>5. EligibleDays \in Nat
    BY DEF ModulesAssumption
  <2>6. e => new.active >= EligibleDays
    BY <1>8, <2>4, <2>5
  <2>7. memory'["HealthMetrics"][answered'.worker].active = new.active
    BY <1>11, <1>13, <2>3, Zenon
  <2> QED BY <1>12, <2>3, <2>6, <2>7, Zenon DEF AnswerInv
<1> QED BY <1>13, <1>14

LEMMA SayNothing == NoAnswer.by \notin {"HealthMetrics", "CreditScorer"}
BY DEF NoAnswer

LEMMA BatchKeeps ==
  ASSUME ModulesAssumption, ModulesInv, NEW m \in Module, TakesBatch(m)
  PROVE  ModulesInv'
<1>1. UNCHANGED <<table, file, pooled, running, broadcastRows, signalled, missed>>
  BY DEF TakesBatch, serviceVars
<1>2. PICK batch \in Batches :
        \/ m = "MarketAnalyzer" /\ MarketBatch(batch) /\ UNCHANGED scorerVars
        \/ m = "HealthMetrics" /\ (\E w \in Earner : HealthBatch(w, batch)) /\ UNCHANGED scorerVars
        \/ m = "DistributionAnalyzer" /\ DistributionBatch(batch) /\ UNCHANGED scorerVars
        \/ m = "EconomicAnalyzer" /\ EconomicBatch(batch) /\ UNCHANGED scorerVars
        \/ m = "FMCGIntelligence" /\ FmcgBatch(batch) /\ UNCHANGED scorerVars
        \/ m = "CreditScorer" /\ \E w \in Earner : ScorerTakes(w, batch)
  BY Zenon DEF TakesBatch
<1>3. /\ KeptInMemory' /\ AnswerInv' /\ ScorerInv'
      /\ memory'["ServicePriceDiscovery"] = memory["ServicePriceDiscovery"]
  <2>1. UNCHANGED scorerVars => ScorerInv'
    BY Zenon DEF ScorerInv, scorerVars, ModulesInv
  <2>2. CASE MarketBatch(batch) /\ UNCHANGED scorerVars
    <3>1. KeptInMemory' /\ AnswerInv' /\ \A k \in Module : k # "MarketAnalyzer" => memory'[k] = memory[k]
      BY <2>2, MarketBatchKeeps
    <3>2. "ServicePriceDiscovery" # "MarketAnalyzer"
      OBVIOUS
    <3> QED BY <2>1, <2>2, <3>1, <3>2, ModulesKnown, Zenon
  <2>3. ASSUME NEW w \in Earner, HealthBatch(w, batch), UNCHANGED scorerVars
        PROVE  /\ KeptInMemory' /\ AnswerInv' /\ ScorerInv'
               /\ memory'["ServicePriceDiscovery"] = memory["ServicePriceDiscovery"]
    <3>1. KeptInMemory' /\ AnswerInv' /\ \A k \in Module : k # "HealthMetrics" => memory'[k] = memory[k]
      BY <2>3, HealthBatchKeeps
    <3>2. "ServicePriceDiscovery" # "HealthMetrics"
      OBVIOUS
    <3> QED BY <2>1, <2>3, <3>1, <3>2, ModulesKnown, Zenon
  <2>4. ASSUME NEW k \in {"DistributionAnalyzer", "FMCGIntelligence", "EconomicAnalyzer"},
               NEW v, memory' = [memory EXCEPT ![k] = v],
               answered'.by \notin {"HealthMetrics", "CreditScorer"}, UNCHANGED scorerVars
        PROVE  /\ KeptInMemory' /\ AnswerInv' /\ ScorerInv'
               /\ memory'["ServicePriceDiscovery"] = memory["ServicePriceDiscovery"]
    <3>1. KeptInMemory' /\ AnswerInv' /\ \A l \in Module : l # k => memory'[l] = memory[l]
      BY <2>4, OtherKeeps
    <3>2. "ServicePriceDiscovery" # k
      OBVIOUS
    <3> QED BY <2>1, <2>4, <3>1, <3>2, ModulesKnown, Zenon
  <2>5. CASE DistributionBatch(batch) /\ UNCHANGED scorerVars
    <3>1. \E v : memory' = [memory EXCEPT !["DistributionAnalyzer"] = v]
      BY <2>5, Zenon DEF DistributionBatch
    <3>2. answered'.by \notin {"HealthMetrics", "CreditScorer"}
      BY <2>5, SayNothing, Zenon DEF DistributionBatch
    <3> QED BY <2>4, <2>5, <3>1, <3>2
  <2>6. CASE EconomicBatch(batch) /\ UNCHANGED scorerVars
    <3>1. \E v : memory' = [memory EXCEPT !["EconomicAnalyzer"] = v]
      BY <2>6, Zenon DEF EconomicBatch
    <3>2. answered'.by \notin {"HealthMetrics", "CreditScorer"}
      <4>1. \/ answered' = NoAnswer
            \/ \E x : answered' = [by |-> "EconomicAnalyzer", volumeIndex |-> x]
        BY <2>6, Zenon DEF EconomicBatch
      <4>2. \A x : [by |-> "EconomicAnalyzer", volumeIndex |-> x].by
                     \notin {"HealthMetrics", "CreditScorer"}
        OBVIOUS
      <4> QED BY <4>1, <4>2, SayNothing, Zenon
    <3> QED BY <2>4, <2>6, <3>1, <3>2
  <2>7. CASE FmcgBatch(batch) /\ UNCHANGED scorerVars
    <3>1. \E v : memory' = [memory EXCEPT !["FMCGIntelligence"] = v]
      BY <2>7, Zenon DEF FmcgBatch
    <3>2. answered'.by \notin {"HealthMetrics", "CreditScorer"}
      BY <2>7, SayNothing, Zenon DEF FmcgBatch
    <3> QED BY <2>4, <2>7, <3>1, <3>2
  <2>8. ASSUME NEW w \in Earner, ScorerTakes(w, batch)
        PROVE  /\ KeptInMemory' /\ AnswerInv' /\ ScorerInv'
               /\ memory'["ServicePriceDiscovery"] = memory["ServicePriceDiscovery"]
    <3>1. /\ scoring = {} /\ scoring' = {[worker |-> w, batch |-> batch, at |-> 1]}
          /\ answered' = NoAnswer /\ memory' = memory /\ held' = held
      BY <2>8, Zenon DEF ScorerTakes
    <3>2. held = {}
      BY <3>1 DEF ModulesInv, ScorerInv
    <3>3. ScorerInv'
      BY <3>1, <3>2, Zenon DEF ScorerInv
    <3>4. AnswerInv'
      BY <3>1, SayNothing DEF AnswerInv
    <3> QED BY <3>1, <3>3, <3>4, Zenon DEF ModulesInv, KeptInMemory
  <2> QED BY <1>2, <2>2, <2>3, <2>5, <2>6, <2>7, <2>8
<1>4. BroadcastInv'
  <2>1. \A c : Queue(c)' = Queue(c)
    BY <1>3, Zenon DEF Queue
  <2> QED BY <1>1, <2>1, Zenon DEF ModulesInv, BroadcastInv, ProcessedWasCounted, UnprocessedWait,
                                   Unprocessed
<1> QED BY <1>1, <1>3, <1>4, Zenon DEF ModulesInv, KeptInTable, KeptInFile

\* What belongs to the module of service prices stays.
LEMMA BroadcastsStay ==
  ASSUME ModulesInv, memory'["ServicePriceDiscovery"] = memory["ServicePriceDiscovery"],
         UNCHANGED serviceVars,
         "ServicePriceDiscovery" \in running' \cap pooled' =>
           "ServicePriceDiscovery" \in running \cap pooled
  PROVE  BroadcastInv'
<1>1. \A c : Queue(c)' = Queue(c)
  BY Zenon DEF Queue
<1>2. UNCHANGED <<broadcastRows, signalled, missed>>
  BY DEF serviceVars
<1> QED BY <1>1, <1>2, Zenon DEF ModulesInv, BroadcastInv, ProcessedWasCounted, UnprocessedWait,
                                 Unprocessed

LEMMA SignalKeeps ==
  ASSUME ModulesAssumption, ModulesInv, NEW m \in Module, MarketSignal(m)
  PROVE  ModulesInv'
<1>1. /\ UNCHANGED <<table, file, pooled, running>> /\ UNCHANGED scorerVars
      /\ UNCHANGED serviceVars
  BY Zenon DEF MarketSignal
<1>2. ASSUME NEW k \in {"DistributionAnalyzer", "FMCGIntelligence", "EconomicAnalyzer"},
             NEW v, memory' = [memory EXCEPT ![k] = v],
             answered'.by \notin {"HealthMetrics", "CreditScorer"}
      PROVE  ModulesInv'
  <2>1. KeptInMemory' /\ AnswerInv' /\ \A l \in Module : l # k => memory'[l] = memory[l]
    BY <1>2, OtherKeeps
  <2>2. "ServicePriceDiscovery" # k
    OBVIOUS
  <2>3. BroadcastInv'
    BY <1>1, <2>1, <2>2, BroadcastsStay, ModulesKnown, Zenon
  <2> QED BY <1>1, <2>1, <2>3, Zenon DEF ModulesInv, KeptInTable, KeptInFile, ScorerInv, scorerVars
<1>3. PICK c \in Product, demand \in Demand :
        \/ /\ m = "DistributionAnalyzer"
           /\ \E sample \in {MinSample - 1, MinSample} : DistributionSignal(c, demand, sample)
        \/ m = "EconomicAnalyzer" /\ EconomicSignal(demand)
        \/ /\ m = "FMCGIntelligence"
           /\ \E trend \in {"Stable", "Rising", "Falling"} : FmcgSignal(c, demand, trend)
  BY Zenon DEF MarketSignal
<1>4. ASSUME NEW sample, DistributionSignal(c, demand, sample) PROVE ModulesInv'
  <2>1. \E v : memory' = [memory EXCEPT !["DistributionAnalyzer"] = v]
    BY <1>4, Zenon DEF DistributionSignal
  <2>2. \/ answered' = NoAnswer
        \/ \E x, y : answered' = [by |-> "DistributionAnalyzer", category |-> c, gap |-> x, sample |-> y]
    BY <1>4, Zenon DEF DistributionSignal
  <2>3. \A x, y : [by |-> "DistributionAnalyzer", category |-> c, gap |-> x, sample |-> y].by
                    \notin {"HealthMetrics", "CreditScorer"}
    OBVIOUS
  <2>4. answered'.by \notin {"HealthMetrics", "CreditScorer"}
    BY <2>2, <2>3, SayNothing, Zenon
  <2> QED BY <1>2, <2>1, <2>4
<1>5. CASE EconomicSignal(demand)
  <2>1. \E v : memory' = [memory EXCEPT !["EconomicAnalyzer"] = v]
    BY <1>5, Zenon DEF EconomicSignal
  <2>2. answered'.by \notin {"HealthMetrics", "CreditScorer"}
    BY <1>5, SayNothing, Zenon DEF EconomicSignal
  <2> QED BY <1>2, <2>1, <2>2
<1>6. ASSUME NEW trend, FmcgSignal(c, demand, trend) PROVE ModulesInv'
  <2>1. \E v : memory' = [memory EXCEPT !["FMCGIntelligence"] = v]
    BY <1>6, Zenon DEF FmcgSignal
  <2>2. \/ answered' = NoAnswer
        \/ \E x, y : answered' = [by |-> "FMCGIntelligence", category |-> c, brand |-> x, share |-> y]
    BY <1>6, Zenon DEF FmcgSignal
  <2>3. \A x, y : [by |-> "FMCGIntelligence", category |-> c, brand |-> x, share |-> y].by
                    \notin {"HealthMetrics", "CreditScorer"}
    OBVIOUS
  <2>4. answered'.by \notin {"HealthMetrics", "CreditScorer"}
    BY <2>2, <2>3, SayNothing, Zenon
  <2> QED BY <1>2, <2>1, <2>4
<1> QED BY <1>3, <1>4, <1>5, <1>6

LEMMA ScorerMovesKeeps ==
  ASSUME ModulesAssumption, ModulesInv, ScorerMoves PROVE ModulesInv'
<1>1. UNCHANGED <<table, file, pooled, running>> /\ UNCHANGED serviceVars
  BY Zenon DEF ScorerMoves
<1>2. PICK s \in scoring :
        LET last == s.at = Len(ScorerCalls)
            old == Get(memory["CreditScorer"], s.worker, [total |-> 0, diversity |-> 0])
            new == [total |-> old.total + Len(s.batch), diversity |-> Cardinality(Traded(s.batch))]
        IN /\ s.worker \notin held
           /\ held' = IF last THEN held \ {s.worker} ELSE held \cup {s.worker}
           /\ scoring' = IF last THEN {} ELSE {[s EXCEPT !.at = @ + 1]}
           /\ memory' = IF last THEN memory
                        ELSE [memory EXCEPT !["CreditScorer"] = Updated(@, s.worker, new)]
           /\ answered' = IF last THEN [by |-> "CreditScorer", worker |-> s.worker] ELSE NoAnswer
  BY Zenon DEF ScorerMoves, ScorerStep
<1>3. Len(ScorerCalls) = 2
  BY DEF ScorerCalls
<1>4. PICK w, batch : s = [worker |-> w, batch |-> batch, at |-> 1] /\ held = {}
  <2>1. s.worker \notin held
    BY <1>2, Zenon
  <2>2. ASSUME NEW w, NEW batch, scoring = {[worker |-> w, batch |-> batch, at |-> 2]}, held = {w}
        PROVE  FALSE
    <3>1. s = [worker |-> w, batch |-> batch, at |-> 2]
      BY <2>2
    <3> QED BY <2>1, <2>2, <3>1
  <2> QED BY <2>2 DEF ModulesInv, ScorerInv
<1>5. s.worker = w /\ s.at = 1 /\ ~(s.at = Len(ScorerCalls))
  BY <1>3, <1>4
<1>6. /\ held' = held \cup {w} /\ scoring' = {[s EXCEPT !.at = @ + 1]}
      /\ answered' = NoAnswer /\ \E v : memory' = [memory EXCEPT !["CreditScorer"] = v]
  BY <1>2, <1>5, Zenon
<1>7. [s EXCEPT !.at = @ + 1] = [worker |-> w, batch |-> batch, at |-> 2]
  BY <1>4
<1>8. ScorerInv'
  <2>1. held' = {w}
    BY <1>4, <1>6
  <2> QED BY <1>6, <1>7, <2>1, Zenon DEF ScorerInv
<1>9. "CreditScorer" # "MarketAnalyzer" /\ "CreditScorer" # "HealthMetrics"
      /\ "CreditScorer" # "ServicePriceDiscovery"
  OBVIOUS
<1>10. KeptInMemory' /\ \A k \in Module : k # "CreditScorer" => memory'[k] = memory[k]
  BY <1>6, <1>9, MemoryBecomes, ModulesKnown, Zenon DEF ModulesInv
<1>11. AnswerInv'
  BY <1>6, SayNothing DEF AnswerInv
<1>12. BroadcastInv'
  BY <1>1, <1>9, <1>10, BroadcastsStay, ModulesKnown, Zenon
<1> QED BY <1>1, <1>8, <1>10, <1>11, <1>12, Zenon DEF ModulesInv, KeptInTable, KeptInFile

-----------------------------------------------------------------------------
(* Starting, stopping and snapshots.                                       *)

LEMMA OverwrittenKeeps ==
  ASSUME NEW old, NEW new, NEW keys
  PROVE  /\ LargeWindows(old) /\ LargeWindows(new) =>
              LargeWindows(Overwritten(old, new, keys \cap DOMAIN new))
         /\ Signals(old) /\ Signals(new) =>
              Signals(Overwritten(old, new, keys \cap DOMAIN new))
<1>1. PICK all : all = Overwritten(old, new, keys \cap DOMAIN new)
  OBVIOUS
<1>2. \A c \in DOMAIN all : \/ c \in DOMAIN new /\ all[c] = new[c]
                            \/ c \in DOMAIN old /\ all[c] = old[c]
  BY <1>1 DEF Overwritten
<1> QED BY <1>1, <1>2, Zenon DEF LargeWindows, Signals

LEMMA HistoryKeeps ==
  ASSUME NEW rows, LargeWindows(rows) PROVE LargeWindows(LoadWindows(rows))
<1>1. PICK f : f = LoadWindows(rows)
  OBVIOUS
<1>2. \A c \in DOMAIN f : c \in DOMAIN rows /\ f[c] = rows[c]
  BY <1>1 DEF LoadWindows, WithHistory
<1> QED BY <1>1, <1>2, Zenon DEF LargeWindows

LEMMA UpsertedKeeps ==
  ASSUME KeptInMemory, KeptInTable, NEW m \in Module, NEW keys
  PROVE  LET rows == Upserted(m, table[m], memory[m], keys)
         IN  /\ m = "MarketAnalyzer" => LargeWindows(rows)
             /\ m = "ServicePriceDiscovery" => ServiceRows(rows)
<1>1. ASSUME m = "MarketAnalyzer" PROVE LargeWindows(Upserted(m, table[m], memory[m], keys))
  <2>1. Upserted(m, table[m], memory[m], keys) = WindowRows(table[m], memory[m], keys)
    BY <1>1 DEF Upserted
  <2>2. LargeWindows(table[m]) /\ LargeWindows(memory[m])
    BY <1>1, Zenon DEF KeptInTable, KeptInMemory
  <2> QED BY <2>1, <2>2, OverwrittenKeeps, Zenon DEF WindowRows
<1>2. ASSUME m = "ServicePriceDiscovery"
      PROVE  ServiceRows(Upserted(m, table[m], memory[m], keys))
  <2>1. Upserted(m, table[m], memory[m], keys) = SignalRows(table[m], memory[m], keys)
    BY <1>2 DEF Upserted
  <2>2. PICK p, s : table[m] = [pending |-> p, signals |-> s] /\ Signals(s)
    BY <1>2, Zenon DEF KeptInTable, ServiceRows
  <2>3. PICK q, t : memory[m] = [pending |-> q, signals |-> t] /\ Signals(t)
    BY <1>2, Zenon DEF KeptInMemory, ServiceState
  <2>4. memory[m].signals = t
    BY <2>3
  <2>5. PICK u : u = Overwritten(s, t, keys \cap DOMAIN t)
    OBVIOUS
  <2>6. Signals(u)
    BY <2>2, <2>3, <2>5, OverwrittenKeeps, Zenon
  <2>7. [table[m] EXCEPT !.signals = Overwritten(@, t, keys \cap DOMAIN t)] = [pending |-> p, signals |-> u]
    <3>1. table[m].signals = s
      BY <2>2
    <3>2. [[pending |-> p, signals |-> s] EXCEPT !.signals = u] = [pending |-> p, signals |-> u]
      OBVIOUS
    <3> QED BY <2>2, <2>5, <3>1, <3>2, Zenon
  <2> QED BY <2>1, <2>4, <2>6, <2>7, Zenon DEF SignalRows, ServiceRows
<1> QED BY <1>1, <1>2, Zenon

LEMMA AnswerNothing == ASSUME answered' = NoAnswer PROVE AnswerInv'
BY SayNothing DEF AnswerInv

LEMMA SnapshotKeeps ==
  ASSUME ModulesInv, NEW m \in Module, Snapshot(m) PROVE ModulesInv'
<1>1. /\ file' = [file EXCEPT ![m] = memory[m]] /\ answered' = NoAnswer
      /\ UNCHANGED <<memory, table, pooled, running>> /\ UNCHANGED scorerVars
      /\ UNCHANGED serviceVars
  BY Zenon DEF Snapshot
<1>2. KeptInFile'
  BY <1>1, FileBecomes, Zenon DEF ModulesInv, KeptInMemory
<1>3. BroadcastInv'
  BY <1>1, BroadcastsStay, Zenon
<1>4. AnswerInv'
  BY <1>1, AnswerNothing
<1> QED BY <1>1, <1>2, <1>3, <1>4, Zenon DEF ModulesInv, KeptInMemory, KeptInTable, ScorerInv,
                                             scorerVars

\* A stop, and a respawn, leave nothing of the module in memory.
LEMMA ModuleNew ==
  ASSUME ModulesAssumption, ModulesInv, NEW m \in Module,
         memory' = [memory EXCEPT ![m] = NewState(m)],
         scoring' = (IF m = "CreditScorer" THEN {} ELSE scoring),
         held' = (IF m = "CreditScorer" THEN {} ELSE held), UNCHANGED serviceVars,
         running' \subseteq running, pooled' \subseteq pooled,
         m = "ServicePriceDiscovery" => m \notin running' \cap pooled'
  PROVE  KeptInMemory' /\ ScorerInv' /\ BroadcastInv'
<1>1. KeptInMemory' /\ \A k \in Module : k # m => memory'[k] = memory[k]
  <2>1. PICK v : v = NewState(m)
    OBVIOUS
  <2>2. /\ m = "MarketAnalyzer" => LargeWindows(v)
        /\ m = "HealthMetrics" => Profiles(v)
        /\ m = "ServicePriceDiscovery" => ServiceState(v)
    BY <2>1, NewKept, Zenon
  <2>3. memory' = [memory EXCEPT ![m] = v]
    BY <2>1, Zenon
  <2> QED BY <2>2, <2>3, MemoryBecomes, Zenon DEF ModulesInv
<1>2. ScorerInv'
  BY Zenon DEF ModulesInv, ScorerInv
<1>3. BroadcastInv'
  <2>1. CASE m # "ServicePriceDiscovery"
    <3>1. memory'["ServicePriceDiscovery"] = memory["ServicePriceDiscovery"]
      BY <1>1, <2>1, ModulesKnown, Zenon
    <3>2. "ServicePriceDiscovery" \in running' \cap pooled' =>
            "ServicePriceDiscovery" \in running \cap pooled
      OBVIOUS
    <3> QED BY <3>1, <3>2, BroadcastsStay
  <2>2. CASE m = "ServicePriceDiscovery"
    <3>1. "ServicePriceDiscovery" \notin running' \cap pooled'
      BY <2>2
    <3>2. UNCHANGED <<broadcastRows, signalled, missed>>
      BY DEF serviceVars
    <3> QED BY <3>1, <3>2, Zenon DEF ModulesInv, BroadcastInv, ProcessedWasCounted, UnprocessedWait
  <2> QED BY <2>1, <2>2
<1> QED BY <1>1, <1>2, <1>3

LEMMA StopKeeps ==
  ASSUME ModulesAssumption, ModulesInv, NEW m \in Module, Stop(m) PROVE ModulesInv'
<1>1. PICK keys \in SUBSET (Product \cup {"region"}), snapped \in BOOLEAN :
        /\ file' = IF snapped /\ (m = "CreditScorer" => scoring = {})
                   THEN [file EXCEPT ![m] = memory[m]] ELSE file
        /\ table' = IF snapped /\ m \in pooled \cap SavesAtShutdown
                    THEN [table EXCEPT ![m] = Upserted(m, @, memory[m], keys)] ELSE table
  BY Zenon DEF Stop
<1>2. /\ memory' = [memory EXCEPT ![m] = NewState(m)] /\ running' = running \ {m}
      /\ scoring' = IF m = "CreditScorer" THEN {} ELSE scoring
      /\ held' = IF m = "CreditScorer" THEN {} ELSE held
      /\ answered' = NoAnswer /\ pooled' = pooled /\ UNCHANGED serviceVars
  BY Zenon DEF Stop
<1>3. KeptInMemory' /\ ScorerInv' /\ BroadcastInv'
  <2>1. /\ running' \subseteq running /\ pooled' \subseteq pooled
        /\ m = "ServicePriceDiscovery" => m \notin running' \cap pooled'
    BY <1>2
  <2> QED BY <1>2, <2>1, ModuleNew, Zenon
<1>4. KeptInFile'
  <2>1. CASE file' = file
    BY <2>1, Zenon DEF ModulesInv, KeptInFile
  <2>2. CASE file' = [file EXCEPT ![m] = memory[m]]
    BY <2>2, FileBecomes, Zenon DEF ModulesInv, KeptInMemory
  <2> QED BY <1>1, <2>1, <2>2, Zenon
<1>5. KeptInTable'
  <2>1. CASE table' = table
    BY <2>1, Zenon DEF ModulesInv, KeptInTable
  <2>2. CASE table' = [table EXCEPT ![m] = Upserted(m, table[m], memory[m], keys)]
    <3>1. PICK rows : rows = Upserted(m, table[m], memory[m], keys)
      OBVIOUS
    <3>2. /\ m = "MarketAnalyzer" => LargeWindows(rows)
          /\ m = "ServicePriceDiscovery" => ServiceRows(rows)
      BY <3>1, UpsertedKeeps, Zenon DEF ModulesInv
    <3>3. table' = [table EXCEPT ![m] = rows]
      BY <2>2, <3>1, Zenon
    <3> QED BY <3>2, <3>3, TableBecomes, Zenon DEF ModulesInv
  <2> QED BY <1>1, <2>1, <2>2, Zenon
<1>6. AnswerInv'
  BY <1>2, AnswerNothing
<1> QED BY <1>3, <1>4, <1>5, <1>6, Zenon DEF ModulesInv

LEMMA RespawnKeeps ==
  ASSUME ModulesAssumption, ModulesInv, NEW m \in Module, Respawn(m) PROVE ModulesInv'
<1>1. /\ memory' = [memory EXCEPT ![m] = NewState(m)] /\ pooled' = pooled \ {m}
      /\ scoring' = IF m = "CreditScorer" THEN {} ELSE scoring
      /\ held' = IF m = "CreditScorer" THEN {} ELSE held
      /\ answered' = NoAnswer /\ UNCHANGED <<table, file, running>> /\ UNCHANGED serviceVars
  BY Zenon DEF Respawn
<1>2. /\ running' \subseteq running /\ pooled' \subseteq pooled
      /\ m = "ServicePriceDiscovery" => m \notin running' \cap pooled'
  BY <1>1
<1>3. KeptInMemory' /\ ScorerInv' /\ BroadcastInv'
  BY <1>1, <1>2, ModuleNew, Zenon
<1>4. AnswerInv'
  BY <1>1, AnswerNothing
<1> QED BY <1>1, <1>3, <1>4, Zenon DEF ModulesInv, KeptInTable, KeptInFile

-----------------------------------------------------------------------------
(* Broadcasts of service prices.                                           *)

\* A row is marked after it waited in a queue of the category; one that is not
\* waits, unless a start or an end has missed it.
LEMMA RowsMarked ==
  ASSUME BroadcastInv, "ServicePriceDiscovery" \in running, NEW b,
         NEW stored \in BOOLEAN, NEW categories, NEW marked \in BOOLEAN, NEW rows,
         rows = MarkedRows(StoredRows(b, stored), categories, marked)
  PROVE  /\ IsFiniteSet(DOMAIN rows)
         /\ \A x \in DOMAIN rows :
              /\ rows[x] \in BOOLEAN
              /\ rows[x] => \/ x \in signalled \cup missed
                            \/ /\ CategoryOf[x] \in categories
                               /\ x \in ToSet(Queue(CategoryOf[x])) \/ (x = b /\ stored)
              /\ "ServicePriceDiscovery" \in pooled /\ ~rows[x] =>
                   x \in missed \cup ToSet(Queue(CategoryOf[x])) \/ (x = b /\ stored)
<1>1. PICK pool \in BOOLEAN : pool <=> "ServicePriceDiscovery" \in pooled
  OBVIOUS
<1>2. PICK all : all = StoredRows(b, stored)
  OBVIOUS
<1>3. /\ DOMAIN all = DOMAIN broadcastRows \/ DOMAIN all = DOMAIN broadcastRows \cup {b}
      /\ \A x \in DOMAIN all : \/ x \in DOMAIN broadcastRows /\ all[x] = broadcastRows[x]
                               \/ x = b /\ stored /\ pool /\ all[x] = FALSE
  BY <1>1, <1>2 DEF StoredRows, Updated
<1>4. IsFiniteSet(DOMAIN all)
  <2>1. IsFiniteSet(DOMAIN broadcastRows)
    BY DEF BroadcastInv
  <2>2. IsFiniteSet(DOMAIN broadcastRows \cup {b})
    BY <2>1, FS_AddElement
  <2> QED BY <1>3, <2>1, <2>2, Zenon
<1>5. /\ DOMAIN rows = DOMAIN all
      /\ \A x \in DOMAIN all : rows[x] = (all[x] \/ (pool /\ marked /\ CategoryOf[x] \in categories))
  BY <1>1, <1>2 DEF MarkedRows
<1>6. ASSUME NEW x \in DOMAIN all
      PROVE  /\ rows[x] \in BOOLEAN
             /\ rows[x] => all[x] \/ (pool /\ ~all[x] /\ CategoryOf[x] \in categories)
             /\ ~rows[x] => ~all[x]
  <2>1. all[x] \in BOOLEAN
    BY <1>3, Zenon DEF BroadcastInv
  <2>2. PICK r \in BOOLEAN : r <=> all[x] \/ (pool /\ marked /\ CategoryOf[x] \in categories)
    OBVIOUS
  <2>3. rows[x] = r
    BY <1>5, <2>1, <2>2
  <2> QED BY <2>2, <2>3, Zenon
<1>7. ASSUME NEW x \in DOMAIN all, ~all[x], pool
      PROVE  x \in missed \cup ToSet(Queue(CategoryOf[x])) \/ (x = b /\ stored)
  <2>1. CASE x \in DOMAIN broadcastRows /\ all[x] = broadcastRows[x]
    <3>1. x \in Unprocessed
      BY <1>7, <2>1, Zenon DEF Unprocessed
    <3>2. "ServicePriceDiscovery" \in running \cap pooled
      BY <1>1, <1>7, Zenon
    <3> QED BY <3>1, <3>2, Zenon DEF BroadcastInv, UnprocessedWait
  <2> QED BY <1>3, <2>1, Zenon
<1>8. ASSUME NEW x \in DOMAIN all, all[x] PROVE x \in signalled \cup missed
  BY <1>3, <1>8, Zenon DEF BroadcastInv, ProcessedWasCounted
<1>9. ASSUME NEW x \in DOMAIN all, rows[x]
      PROVE  \/ x \in signalled \cup missed
             \/ /\ CategoryOf[x] \in categories
                /\ x \in ToSet(Queue(CategoryOf[x])) \/ (x = b /\ stored)
  BY <1>6, <1>7, <1>8, <1>9, Zenon
<1>10. ASSUME NEW x \in DOMAIN all, "ServicePriceDiscovery" \in pooled, ~rows[x]
       PROVE  x \in missed \cup ToSet(Queue(CategoryOf[x])) \/ (x = b /\ stored)
  BY <1>1, <1>6, <1>7, <1>10, Zenon
<1> QED BY <1>4, <1>5, <1>6, <1>9, <1>10, Zenon

LEMMA QueueGrows ==
  ASSUME NEW q, IsSeq(q), NEW b
  PROVE  IsSeq(Append(q, b)) /\ ToSet(Append(q, b)) = ToSet(q) \cup {b}
<1>1. PICK l \in Nat : l = Len(q)
  BY SeqGrows
<1>2. PICK p : p = Append(q, b)
  OBVIOUS
<1>3. /\ IsSeq(p) /\ DOMAIN q = 1..l /\ DOMAIN p = 1..l + 1
      /\ (\A i \in 1..l : p[i] = q[i]) /\ p[l + 1] = b
  <2>1. /\ IsSeq(Append(q, b)) /\ DOMAIN q = 1..Len(q) /\ DOMAIN Append(q, b) = 1..Len(q) + 1
        /\ (\A i \in 1..Len(q) : Append(q, b)[i] = q[i]) /\ Append(q, b)[Len(q) + 1] = b
    BY SeqGrows
  <2> QED BY <1>1, <1>2, <2>1, Zenon
<1>4. 1..l + 1 = 1..l \cup {l + 1}
  OBVIOUS
<1>5. ToSet(p) = ToSet(q) \cup {b}
  <2>1. ToSet(p) = {p[i] : i \in 1..l + 1} /\ ToSet(q) = {q[i] : i \in 1..l}
    BY <1>3, Zenon DEF ToSet
  <2> QED BY <1>3, <1>4, <2>1
<1> QED BY <1>2, <1>3, <1>5, Zenon

LEMMA QueueIsSeq == ASSUME KeptInMemory, NEW c PROVE IsSeq(Queue(c))
<1>1. PICK p, s : /\ memory["ServicePriceDiscovery"] = [pending |-> p, signals |-> s]
                  /\ \A k \in DOMAIN p : IsSeq(p[k])
  BY Zenon DEF KeptInMemory, ServiceState
<1>2. memory["ServicePriceDiscovery"].pending = p
  BY <1>1
<1>3. IsSeq(<<>>)
  <2>1. PICK e : e = <<>>
    OBVIOUS
  <2>2. e \in Seq(Nat)
    BY <2>1
  <2> QED BY <2>1, <2>2, Zenon DEF IsSeq
<1> QED BY <1>1, <1>2, <1>3, Zenon DEF Queue, Get

LEMMA BroadcastKeeps ==
  ASSUME ModulesAssumption, ModulesInv, "ServicePriceDiscovery" \in running, NEW b,
         ServiceBroadcast(b), UNCHANGED <<pooled, running>>
  PROVE  KeptInMemory' /\ BroadcastInv' /\ AnswerInv'
<1>1. PICK c : c = CategoryOf[b]
  OBVIOUS
<1>2. PICK queue : queue = Append(Queue(c), b)
  OBVIOUS
<1>3. PICK due \in BOOLEAN : due <=> Len(queue) >= MinBroadcasts
  OBVIOUS
<1>4. PICK categories : categories = (IF due THEN {c} ELSE {})
  OBVIOUS
<1>5. PICK stored \in BOOLEAN, marked \in BOOLEAN :
        /\ memory' = [memory EXCEPT !["ServicePriceDiscovery"] =
             [pending |-> Updated(@.pending, c, queue),
              signals |-> IF due THEN Updated(@.signals, c, Signal(queue)) ELSE @.signals]]
        /\ broadcastRows' = MarkedRows(StoredRows(b, stored), categories, marked)
        /\ signalled' = IF due THEN signalled \cup ToSet(queue) ELSE signalled
        /\ answered' = IF due THEN [by |-> "ServicePriceDiscovery", category |-> c, sample |-> Len(queue)]
                       ELSE NoAnswer
        /\ missed' = missed
  <2>1. due = (Len(queue) >= MinBroadcasts)
    BY <1>3, QueueGrows, QueueIsSeq, SeqGrows DEF ModulesInv
  <2> QED BY <1>1, <1>2, <1>4, <2>1, Zenon DEF ServiceBroadcast
<1>6. PICK p, s : /\ memory["ServicePriceDiscovery"] = [pending |-> p, signals |-> s]
                  /\ Signals(s) /\ \A k \in DOMAIN p : IsSeq(p[k])
  BY Zenon DEF ModulesInv, KeptInMemory, ServiceState
<1>7. /\ memory["ServicePriceDiscovery"].pending = p
      /\ memory["ServicePriceDiscovery"].signals = s
  BY <1>6
<1>8. IsSeq(queue) /\ ToSet(queue) = ToSet(Queue(c)) \cup {b}
  BY <1>2, QueueGrows, QueueIsSeq, Zenon DEF ModulesInv
<1>9. PICK q, t : q = Updated(p, c, queue) /\ t = IF due THEN Updated(s, c, Signal(queue)) ELSE s
  OBVIOUS
<1>10. memory' = [memory EXCEPT !["ServicePriceDiscovery"] = [pending |-> q, signals |-> t]]
  BY <1>5, <1>7, <1>9, Zenon
<1>11. /\ \A k \in DOMAIN q : IsSeq(q[k])
       /\ \A k : Get(q, k, <<>>) = IF k = c THEN queue ELSE Get(p, k, <<>>)
  <2>1. /\ DOMAIN q = DOMAIN p \cup {c}
        /\ \A k \in DOMAIN q : q[k] = IF k = c THEN queue ELSE p[k]
    BY <1>9, Zenon DEF Updated
  <2>2. \A k \in DOMAIN q : IsSeq(q[k])
    BY <1>6, <1>8, <2>1, Zenon
  <2>3. \A k : Get(q, k, <<>>) = IF k = c THEN queue ELSE Get(p, k, <<>>)
    BY <2>1, Zenon DEF Get
  <2> QED BY <2>2, <2>3
<1>12. Signals(t)
  <2>1. CASE due
    <3>1. Signal(queue).sample >= MinBroadcasts
      <4>1. Signal(queue).sample = Len(queue)
        BY DEF Signal
      <4> QED BY <1>3, <2>1, <4>1, Zenon
    <3>2. t = Updated(s, c, Signal(queue))
      BY <1>9, <2>1, Zenon
    <3> QED BY <1>6, <3>1, <3>2, Zenon DEF Signals, Updated
  <2> QED BY <1>6, <1>9, <2>1, Zenon
<1>13. ServiceState([pending |-> q, signals |-> t])
  BY <1>11, <1>12, Zenon DEF ServiceState
<1>14. "ServicePriceDiscovery" # "MarketAnalyzer" /\ "ServicePriceDiscovery" # "HealthMetrics"
       /\ "ServicePriceDiscovery" # "CreditScorer"
  OBVIOUS
<1>15. KeptInMemory' /\ memory'["ServicePriceDiscovery"] = [pending |-> q, signals |-> t]
  BY <1>10, <1>13, <1>14, MemoryBecomes, ModulesKnown, Zenon DEF ModulesInv
<1>16. AnswerInv'
  <2>1. [by |-> "ServicePriceDiscovery", category |-> c, sample |-> Len(queue)].by = "ServicePriceDiscovery"
    OBVIOUS
  <2>2. answered'.by \notin {"HealthMetrics", "CreditScorer"}
    BY <1>5, <1>14, <2>1, SayNothing, Zenon
  <2> QED BY <2>2 DEF AnswerInv
<1>17. \A k : Queue(k)' = IF k = c THEN queue ELSE Queue(k)
  <2>1. memory'["ServicePriceDiscovery"].pending = q
    BY <1>15
  <2> QED BY <1>7, <1>11, <2>1, Zenon DEF Queue
<1>18. PICK rows : rows = MarkedRows(StoredRows(b, stored), categories, marked)
  OBVIOUS
<1>19. /\ IsFiniteSet(DOMAIN rows)
       /\ \A x \in DOMAIN rows :
            /\ rows[x] \in BOOLEAN
            /\ rows[x] => \/ x \in signalled \cup missed
                          \/ /\ CategoryOf[x] \in categories
                             /\ x \in ToSet(Queue(CategoryOf[x])) \/ (x = b /\ stored)
            /\ "ServicePriceDiscovery" \in pooled /\ ~rows[x] =>
                 x \in missed \cup ToSet(Queue(CategoryOf[x])) \/ (x = b /\ stored)
  <2>1. BroadcastInv
    BY DEF ModulesInv
  <2> QED BY <1>18, <2>1, RowsMarked
<1>20. broadcastRows' = rows
  BY <1>5, <1>18, Zenon
<1>21. ASSUME NEW x \in DOMAIN rows, rows[x] PROVE x \in signalled' \cup missed'
  <2>1. CASE x \in signalled \cup missed
    BY <1>5, <2>1
  <2>2. CASE CategoryOf[x] \in categories /\ (x \in ToSet(Queue(CategoryOf[x])) \/ x = b)
    <3>1. due /\ CategoryOf[x] = c
      BY <1>4, <2>2
    <3>2. x \in ToSet(queue)
      BY <1>8, <2>2, <3>1
    <3>3. signalled' = signalled \cup ToSet(queue)
      BY <1>5, <3>1, Zenon
    <3> QED BY <3>2, <3>3
  <2> QED BY <1>19, <1>21, <2>1, <2>2, Zenon
<1>22. ASSUME NEW x \in DOMAIN rows, ~rows[x], "ServicePriceDiscovery" \in pooled, x \notin missed
       PROVE  x \in ToSet(Queue(CategoryOf[x])')
  <2>1. x \in ToSet(Queue(CategoryOf[x])) \/ x = b
    BY <1>19, <1>22, Zenon
  <2>2. CASE CategoryOf[x] = c
    <3>1. Queue(CategoryOf[x])' = queue
      BY <1>17, <2>2, Zenon
    <3>2. x \in ToSet(queue)
      BY <1>8, <2>1, <2>2
    <3> QED BY <3>1, <3>2, Zenon
  <2>3. CASE CategoryOf[x] # c
    <3>1. Queue(CategoryOf[x])' = Queue(CategoryOf[x]) /\ x # b
      BY <1>1, <1>17, <2>3, Zenon
    <3> QED BY <2>1, <3>1, Zenon
  <2> QED BY <2>2, <2>3
<1>23. BroadcastInv'
  <2>1. ProcessedWasCounted'
    BY <1>20, <1>21, Zenon DEF ProcessedWasCounted
  <2>2. UnprocessedWait'
    <3>1. ASSUME "ServicePriceDiscovery" \in running' \cap pooled', NEW x \in Unprocessed' \ missed'
          PROVE  x \in ToSet(Queue(CategoryOf[x])')
      <4>1. x \in DOMAIN rows /\ ~rows[x]
        BY <1>20, <3>1, Zenon DEF Unprocessed
      <4>2. "ServicePriceDiscovery" \in pooled /\ x \notin missed
        BY <1>5, <3>1
      <4> QED BY <1>22, <4>1, <4>2
    <3> QED BY <3>1, Zenon DEF UnprocessedWait
  <2> QED BY <1>19, <1>20, <2>1, <2>2, Zenon DEF BroadcastInv
<1> QED BY <1>15, <1>16, <1>23

LEMMA RecalculateKeeps ==
  ASSUME ModulesAssumption, ModulesInv, "ServicePriceDiscovery" \in running,
         ServiceRecalculate, UNCHANGED <<pooled, running>>
  PROVE  KeptInMemory' /\ BroadcastInv' /\ AnswerInv'
<1>1. PICK due : due = {c \in Product : Len(Queue(c)) >= MinBroadcasts}
  OBVIOUS
<1>2. PICK marked \in SUBSET due :
        /\ memory' = [memory EXCEPT !["ServicePriceDiscovery"].signals =
             [c \in DOMAIN @ \cup due |-> IF c \in due THEN Signal(Queue(c)) ELSE @[c]]]
        /\ broadcastRows' = MarkedRows(broadcastRows, marked, TRUE)
        /\ signalled' = signalled \cup UNION {ToSet(Queue(c)) : c \in due}
        /\ \/ due = {} /\ answered' = NoAnswer
           \/ \E c \in due :
                answered' = [by |-> "ServicePriceDiscovery", category |-> c, sample |-> Len(Queue(c))]
        /\ missed' = missed
  BY <1>1, Zenon DEF ServiceRecalculate
<1>3. PICK p, s : /\ memory["ServicePriceDiscovery"] = [pending |-> p, signals |-> s]
                  /\ Signals(s) /\ \A k \in DOMAIN p : IsSeq(p[k])
  BY Zenon DEF ModulesInv, KeptInMemory, ServiceState
<1>4. memory["ServicePriceDiscovery"].pending = p /\ memory["ServicePriceDiscovery"].signals = s
  BY <1>3
<1>5. PICK t : t = [c \in DOMAIN s \cup due |-> IF c \in due THEN Signal(Queue(c)) ELSE s[c]]
  OBVIOUS
<1>6. memory' = [memory EXCEPT !["ServicePriceDiscovery"] = [pending |-> p, signals |-> t]]
  <2>1. [[pending |-> p, signals |-> s] EXCEPT !.signals = t] = [pending |-> p, signals |-> t]
    OBVIOUS
  <2>2. memory' = [memory EXCEPT !["ServicePriceDiscovery"] =
                     [memory["ServicePriceDiscovery"] EXCEPT !.signals = t]]
    BY <1>2, <1>4, <1>5, Zenon
  <2> QED BY <1>3, <2>1, <2>2, Zenon
<1>7. Signals(t)
  <2>1. ASSUME NEW c \in DOMAIN t PROVE t[c].sample >= MinBroadcasts
    <3>1. c \in DOMAIN s \cup due /\ t[c] = IF c \in due THEN Signal(Queue(c)) ELSE s[c]
      BY <1>5, <2>1, Zenon
    <3>2. Signal(Queue(c)).sample = Len(Queue(c))
      BY DEF Signal
    <3>3. c \in due => Len(Queue(c)) >= MinBroadcasts
      BY <1>1, Zenon
    <3> QED BY <1>3, <3>1, <3>2, <3>3, Zenon DEF Signals
  <2> QED BY <2>1, Zenon DEF Signals
<1>8. ServiceState([pending |-> p, signals |-> t])
  BY <1>3, <1>7, Zenon DEF ServiceState
<1>9. "ServicePriceDiscovery" # "MarketAnalyzer" /\ "ServicePriceDiscovery" # "HealthMetrics"
      /\ "ServicePriceDiscovery" # "CreditScorer"
  OBVIOUS
<1>10. KeptInMemory' /\ memory'["ServicePriceDiscovery"] = [pending |-> p, signals |-> t]
  BY <1>6, <1>8, <1>9, MemoryBecomes, ModulesKnown, Zenon DEF ModulesInv
<1>11. AnswerInv'
  <2>1. \A c, l : [by |-> "ServicePriceDiscovery", category |-> c, sample |-> l].by = "ServicePriceDiscovery"
    OBVIOUS
  <2>2. answered'.by \notin {"HealthMetrics", "CreditScorer"}
    BY <1>2, <1>9, <2>1, SayNothing, Zenon
  <2> QED BY <2>2 DEF AnswerInv
<1>12. \A k : Queue(k)' = Queue(k)
  <2>1. memory'["ServicePriceDiscovery"].pending = p
    BY <1>10
  <2> QED BY <1>4, <2>1, Zenon DEF Queue
<1>13. PICK b : TRUE
  OBVIOUS
<1>14. PICK rows : rows = MarkedRows(StoredRows(b, FALSE), marked, TRUE)
  OBVIOUS
<1>15. broadcastRows' = rows
  BY <1>2, <1>14, Zenon DEF StoredRows
<1>16. /\ IsFiniteSet(DOMAIN rows)
       /\ \A x \in DOMAIN rows :
            /\ rows[x] \in BOOLEAN
            /\ rows[x] => \/ x \in signalled \cup missed
                          \/ CategoryOf[x] \in marked /\ x \in ToSet(Queue(CategoryOf[x]))
            /\ "ServicePriceDiscovery" \in pooled /\ ~rows[x] =>
                 x \in missed \cup ToSet(Queue(CategoryOf[x]))
  <2>1. BroadcastInv /\ FALSE \in BOOLEAN /\ TRUE \in BOOLEAN
    BY DEF ModulesInv
  <2>2. /\ IsFiniteSet(DOMAIN rows)
        /\ \A x \in DOMAIN rows :
            /\ rows[x] \in BOOLEAN
            /\ rows[x] => \/ x \in signalled \cup missed
                          \/ /\ CategoryOf[x] \in marked
                             /\ x \in ToSet(Queue(CategoryOf[x])) \/ (x = b /\ FALSE)
            /\ "ServicePriceDiscovery" \in pooled /\ ~rows[x] =>
                 x \in missed \cup ToSet(Queue(CategoryOf[x])) \/ (x = b /\ FALSE)
    BY <1>14, <2>1, RowsMarked
  <2> QED BY <2>2, Zenon
<1>17. ASSUME NEW x \in DOMAIN rows, rows[x] PROVE x \in signalled' \cup missed'
  <2>1. CASE x \in signalled \cup missed
    BY <1>2, <2>1
  <2>2. CASE CategoryOf[x] \in marked /\ x \in ToSet(Queue(CategoryOf[x]))
    <3>1. CategoryOf[x] \in due
      BY <2>2
    <3>2. x \in UNION {ToSet(Queue(c)) : c \in due}
      BY <2>2, <3>1
    <3> QED BY <1>2, <3>2
  <2> QED BY <1>16, <1>17, <2>1, <2>2, Zenon
<1>18. BroadcastInv'
  <2>1. ProcessedWasCounted'
    BY <1>15, <1>17, Zenon DEF ProcessedWasCounted
  <2>2. UnprocessedWait'
    <3>1. ASSUME "ServicePriceDiscovery" \in running' \cap pooled', NEW x \in Unprocessed' \ missed'
          PROVE  x \in ToSet(Queue(CategoryOf[x])')
      <4>1. x \in DOMAIN rows /\ ~rows[x]
        BY <1>15, <3>1, Zenon DEF Unprocessed
      <4>2. "ServicePriceDiscovery" \in pooled /\ x \notin missed
        BY <1>2, <3>1
      <4>3. x \in ToSet(Queue(CategoryOf[x]))
        BY <1>16, <4>1, <4>2, Zenon
      <4> QED BY <1>12, <4>3, Zenon
    <3> QED BY <3>1, Zenon DEF UnprocessedWait
  <2> QED BY <1>15, <1>16, <2>1, <2>2, Zenon DEF BroadcastInv
<1> QED BY <1>10, <1>11, <1>18

LEMMA DiesKeeps ==
  ASSUME ModulesAssumption, ModulesInv, "ServicePriceDiscovery" \in running, NEW b, ServiceDies(b),
         UNCHANGED pooled
  PROVE  KeptInMemory' /\ BroadcastInv' /\ AnswerInv'
<1>1. PICK stored \in BOOLEAN :
        broadcastRows' = MarkedRows(StoredRows(b, stored), {CategoryOf[b]}, TRUE)
  BY Zenon DEF ServiceDies
<1>2. /\ missed' = missed \cup {b} \cup ToSet(Queue(CategoryOf[b]))
      /\ memory' = [memory EXCEPT !["ServicePriceDiscovery"] = [pending |-> Empty, signals |-> Empty]]
      /\ running' = running \ {"ServicePriceDiscovery"} /\ answered' = NoAnswer
      /\ signalled' = signalled
  BY Zenon DEF ServiceDies
<1>3. "ServicePriceDiscovery" # "MarketAnalyzer" /\ "ServicePriceDiscovery" # "HealthMetrics"
  OBVIOUS
<1>4. KeptInMemory'
  BY <1>2, <1>3, NothingKept, MemoryBecomes, ModulesKnown, Zenon DEF ModulesInv
<1>0. PICK categories : categories = {CategoryOf[b]}
  OBVIOUS
<1>5. PICK rows : rows = MarkedRows(StoredRows(b, stored), categories, TRUE)
  OBVIOUS
<1>6. /\ IsFiniteSet(DOMAIN rows)
      /\ \A x \in DOMAIN rows :
           /\ rows[x] \in BOOLEAN
           /\ rows[x] => \/ x \in signalled \cup missed
                         \/ /\ CategoryOf[x] \in categories
                            /\ x \in ToSet(Queue(CategoryOf[x])) \/ (x = b /\ stored)
  <2>1. BroadcastInv /\ TRUE \in BOOLEAN
    BY DEF ModulesInv
  <2> QED BY <1>5, <2>1, RowsMarked
<1>7. broadcastRows' = rows
  BY <1>1, <1>0, <1>5, Zenon
<1>8. ASSUME NEW x \in DOMAIN rows, rows[x] PROVE x \in signalled' \cup missed'
  <2>1. CASE x \in signalled \cup missed
    BY <1>2, <2>1
  <2>2. CASE CategoryOf[x] = CategoryOf[b] /\ x \in ToSet(Queue(CategoryOf[x]))
    <3>1. x \in ToSet(Queue(CategoryOf[b]))
      BY <2>2, Zenon
    <3> QED BY <1>2, <3>1
  <2>3. CASE x = b
    BY <1>2, <2>3
  <2> QED BY <1>0, <1>6, <1>8, <2>1, <2>2, <2>3
<1>9. ProcessedWasCounted'
  BY <1>7, <1>8, Zenon DEF ProcessedWasCounted
<1>10. UnprocessedWait'
  <2>1. "ServicePriceDiscovery" \notin running' \cap pooled'
    BY <1>2
  <2> QED BY <2>1, Zenon DEF UnprocessedWait
<1>11. BroadcastInv'
  BY <1>6, <1>7, <1>9, <1>10, Zenon DEF BroadcastInv
<1> QED BY <1>2, <1>4, <1>11, AnswerNothing

LEMMA ServiceKeeps ==
  ASSUME ModulesAssumption, ModulesInv, ServiceMessage PROVE ModulesInv'
<1>1. /\ UNCHANGED <<table, file, pooled>> /\ UNCHANGED scorerVars
      /\ "ServicePriceDiscovery" \in running
  BY Zenon DEF ServiceMessage, TakesOne
<1>2. KeptInMemory' /\ BroadcastInv' /\ AnswerInv'
  <2>1. CASE UNCHANGED running /\ \E b \in DOMAIN CategoryOf : ServiceBroadcast(b)
    BY <1>1, <2>1, BroadcastKeeps
  <2>2. CASE UNCHANGED running /\ ServiceRecalculate
    BY <1>1, <2>2, RecalculateKeeps
  <2>3. CASE \E b \in DOMAIN CategoryOf : ServiceDies(b)
    BY <1>1, <2>3, DiesKeeps
  <2> QED BY <2>1, <2>2, <2>3, Zenon DEF ServiceMessage
<1> QED BY <1>1, <1>2, Zenon DEF ModulesInv, KeptInTable, KeptInFile, ScorerInv, scorerVars

-----------------------------------------------------------------------------
(* A start.                                                                *)

\* A sequence in SetToSeqs of a finite set holds all of it.
LEMMA OrderedHoldsAll ==
  ASSUME NEW S, IsFiniteSet(S), NEW q \in SetToSeqs(S)
  PROVE  IsSeq(q) /\ ToSet(q) = S
<1>1. PICK n \in Nat : n = Cardinality(S)
  BY FS_CardinalityType
<1>2. q \in [1..n -> S] /\ \A i, j \in 1..n : i # j => q[i] # q[j]
  BY <1>1, Zenon DEF SetToSeqs
<1>3. IsSeq(q)
  <2>1. q \in Seq(S)
    BY <1>2, SeqDef
  <2> QED BY <2>1, Zenon DEF IsSeq
<1>4. q \in Injection(1..n, S)
  BY <1>2, Zenon DEF Injection, IsInjective
<1>5. IsFiniteSet(1..n) /\ Cardinality(1..n) = n
  BY FS_Interval
<1>6. q \in Surjection(1..n, S)
  BY <1>1, <1>4, <1>5, FS_Injection
<1>7. DOMAIN q = 1..n
  BY <1>2
<1>8. ToSet(q) = S
  BY <1>2, <1>6, <1>7 DEF Surjection, ToSet
<1> QED BY <1>3, <1>8

\* The broadcasts a start reads wait again; those it does not read are missed.
LEMMA LoadKeeps ==
  ASSUME ModulesAssumption, ModulesInv, LoadService, answered' = NoAnswer,
         UNCHANGED <<broadcastRows, signalled>>
  PROVE  KeptInMemory' /\ BroadcastInv' /\ \A k \in Module : k # "ServicePriceDiscovery" => memory'[k] = memory[k]
<1> DEFINE m == "ServicePriceDiscovery"
<1>1. PICK p, s : table[m] = [pending |-> p, signals |-> s] /\ Signals(s)
  BY Zenon DEF ModulesInv, KeptInTable, ServiceRows
<1>2. table[m].signals = s
  BY <1>1
<1>3. m # "MarketAnalyzer" /\ m # "HealthMetrics"
  OBVIOUS
<1>4. ASSUME NEW q, NEW t, Signals(t), \A c \in DOMAIN q : IsSeq(q[c]),
             Becomes(m, [pending |-> q, signals |-> t])
      PROVE  /\ KeptInMemory' /\ \A k \in Module : k # m => memory'[k] = memory[k]
             /\ memory'[m] = [pending |-> q, signals |-> t]
  <2>1. ServiceState([pending |-> q, signals |-> t])
    BY <1>4, Zenon DEF ServiceState
  <2>2. memory' = [memory EXCEPT ![m] = [pending |-> q, signals |-> t]]
    BY <1>4, Zenon DEF Becomes
  <2> QED BY <1>3, <2>1, <2>2, MemoryBecomes, ModulesKnown, Zenon DEF ModulesInv
<1>5. ASSUME missed \subseteq missed',
             \A x \in Unprocessed \ missed' : x \in ToSet(Queue(CategoryOf[x])')
      PROVE  BroadcastInv'
  <2>1. ProcessedWasCounted'
    <3>1. ASSUME NEW b \in DOMAIN broadcastRows, broadcastRows[b]
          PROVE  b \in signalled' \cup missed'
      <4>1. b \in signalled \cup missed
        BY <3>1, Zenon DEF ModulesInv, BroadcastInv, ProcessedWasCounted
      <4> QED BY <1>5, <4>1
    <3> QED BY <3>1, Zenon DEF ProcessedWasCounted
  <2>2. UnprocessedWait'
    <3>1. Unprocessed' = Unprocessed
      BY DEF Unprocessed
    <3> QED BY <1>5, <3>1, Zenon DEF UnprocessedWait
  <2> QED BY <2>1, <2>2, Zenon DEF ModulesInv, BroadcastInv
<1>6. ASSUME NEW t, Signals(t), LoadFailure(t)
      PROVE  KeptInMemory' /\ BroadcastInv' /\ \A k \in Module : k # m => memory'[k] = memory[k]
  <2>1. Becomes(m, [pending |-> Empty, signals |-> t]) /\ missed' = missed \cup Unprocessed
    BY <1>6, Zenon DEF LoadFailure
  <2>2. \A c \in DOMAIN Empty : IsSeq(Empty[c])
    <3>1. DOMAIN Empty = {}
      BY DEF Empty
    <3> QED BY <3>1, Zenon
  <2>3. KeptInMemory' /\ \A k \in Module : k # m => memory'[k] = memory[k]
    BY <1>4, <1>6, <2>1, <2>2, Zenon
  <2>4. missed \subseteq missed' /\ Unprocessed \ missed' = {}
    BY <2>1
  <2>5. BroadcastInv'
    BY <1>5, <2>4, Zenon
  <2> QED BY <2>3, <2>5
<1>7. CASE LoadBroadcasts
  <2>1. PICK read \in SUBSET Unprocessed :
          /\ \E pending \in [{CategoryOf[b] : b \in read} -> UNION {SetToSeqs(r) : r \in SUBSET read}] :
               /\ \A c \in DOMAIN pending :
                    pending[c] \in SetToSeqs({b \in read : CategoryOf[b] = c})
               /\ Becomes(m, [pending |-> pending, signals |-> table[m].signals])
          /\ missed' = missed \cup (Unprocessed \ read)
    BY <1>7, Zenon DEF LoadBroadcasts
  <2>2. PICK pending :
          /\ DOMAIN pending = {CategoryOf[b] : b \in read}
          /\ \A c \in DOMAIN pending :
               pending[c] \in SetToSeqs({b \in read : CategoryOf[b] = c})
          /\ Becomes(m, [pending |-> pending, signals |-> s])
    <3>1. PICK f \in [{CategoryOf[b] : b \in read} -> UNION {SetToSeqs(r) : r \in SUBSET read}] :
               /\ \A c \in DOMAIN f : f[c] \in SetToSeqs({b \in read : CategoryOf[b] = c})
               /\ Becomes(m, [pending |-> f, signals |-> table[m].signals])
      BY <2>1, Zenon
    <3>2. DOMAIN f = {CategoryOf[b] : b \in read}
      OBVIOUS
    <3> QED BY <1>2, <3>1, <3>2, Zenon
  <2>3. \A c : IsFiniteSet({b \in read : CategoryOf[b] = c})
    <3>1. IsFiniteSet(DOMAIN broadcastRows)
      BY DEF ModulesInv, BroadcastInv
    <3>2. \A c : {b \in read : CategoryOf[b] = c} \subseteq DOMAIN broadcastRows
      BY DEF Unprocessed
    <3> QED BY <3>1, <3>2, FS_Subset
  <2>4. ASSUME NEW c \in DOMAIN pending
        PROVE  IsSeq(pending[c]) /\ ToSet(pending[c]) = {b \in read : CategoryOf[b] = c}
    <3>1. PICK R : R = {b \in read : CategoryOf[b] = c}
      OBVIOUS
    <3>2. IsFiniteSet(R)
      BY <2>3, <3>1, Zenon
    <3>3. pending[c] \in SetToSeqs(R)
      BY <2>2, <3>1, Zenon
    <3> QED BY <3>1, <3>2, <3>3, OrderedHoldsAll, Zenon
  <2>5. /\ KeptInMemory' /\ \A k \in Module : k # m => memory'[k] = memory[k]
        /\ memory'[m] = [pending |-> pending, signals |-> s]
    BY <1>1, <1>4, <2>2, <2>4, Zenon
  <2>6. memory'[m].pending = pending
    BY <2>5
  <2>7. ASSUME NEW x \in Unprocessed \ missed' PROVE x \in ToSet(Queue(CategoryOf[x])')
    <3>1. x \in read
      BY <2>1, <2>7
    <3>2. CategoryOf[x] \in DOMAIN pending
      BY <2>2, <3>1
    <3>3. Queue(CategoryOf[x])' = pending[CategoryOf[x]]
      BY <2>6, <3>2, Zenon DEF Queue, Get
    <3> QED BY <2>4, <3>1, <3>2, <3>3
  <2>8. missed \subseteq missed'
    BY <2>1
  <2>9. BroadcastInv'
    BY <1>5, <2>7, <2>8, Zenon
  <2> QED BY <2>5, <2>9
<1>8. Signals(Empty)
  BY NothingKept
<1> HIDE DEF m
<1> QED BY <1>1, <1>2, <1>6, <1>7, <1>8, Zenon DEF LoadService, m

LEMMA StartKeeps ==
  ASSUME ModulesAssumption, ModulesInv, NEW m \in Module, Start(m) PROVE ModulesInv'
<1> DEFINE spd == "ServicePriceDiscovery"
<1>1. /\ answered' = NoAnswer /\ running' = running \cup {m} /\ m \notin running
      /\ UNCHANGED <<table, file, broadcastRows, signalled>> /\ UNCHANGED scorerVars
  BY Zenon DEF Start
<1>2. PICK pool \in BOOLEAN :
        /\ pooled' = IF pool /\ m \in Persisted THEN pooled \cup {m} ELSE pooled \ {m}
        /\ \/ m \notin Persisted /\ Becomes(m, file[m]) /\ UNCHANGED missed
           \/ m \in Persisted /\ ~pool /\ Becomes(m, NewState(m)) /\ UNCHANGED missed
           \/ /\ m \in Persisted \ {"ServicePriceDiscovery"} /\ pool
              /\ Becomes(m, Loaded(m)) \/ Becomes(m, file[m])
              /\ UNCHANGED missed
           \/ m = "ServicePriceDiscovery" /\ pool /\ LoadService
  BY <1>1, Zenon DEF Start
<1>3. AnswerInv' /\ ScorerInv' /\ KeptInTable' /\ KeptInFile'
  BY <1>1, AnswerNothing, Zenon DEF ModulesInv, ScorerInv, scorerVars, KeptInTable, KeptInFile
<1>4. ASSUME NEW v, Becomes(m, v), UNCHANGED missed,
             m = "MarketAnalyzer" => LargeWindows(v), m = "HealthMetrics" => Profiles(v),
             m = spd => ServiceState(v) /\ m \notin pooled'
      PROVE  KeptInMemory' /\ BroadcastInv'
  <2>1. memory' = [memory EXCEPT ![m] = v]
    BY <1>4, Zenon DEF Becomes
  <2>2. KeptInMemory' /\ \A k \in Module : k # m => memory'[k] = memory[k]
    BY <1>4, <2>1, MemoryBecomes, Zenon DEF ModulesInv
  <2>3. BroadcastInv'
    <3>1. CASE m = spd
      <4>1. spd \notin running' \cap pooled'
        BY <1>4, <3>1
      <4> QED BY <1>1, <1>4, <4>1, Zenon DEF ModulesInv, BroadcastInv, ProcessedWasCounted, UnprocessedWait
    <3>2. CASE m # spd
      <4>1. memory'[spd] = memory[spd]
        BY <2>2, <3>2, ModulesKnown, Zenon
      <4>2. spd \in running' \cap pooled' => spd \in running \cap pooled
        BY <1>1, <1>2, <3>2
      <4>3. UNCHANGED serviceVars
        BY <1>1, <1>4 DEF serviceVars
      <4> QED BY <4>1, <4>2, <4>3, BroadcastsStay
    <3> QED BY <3>1, <3>2
  <2> QED BY <2>2, <2>3
<1>5. /\ m \notin Persisted => m # "MarketAnalyzer" /\ m # spd
      /\ m \in Persisted => m # "HealthMetrics"
  BY DEF Persisted, Module
<1>6. /\ m = "MarketAnalyzer" => LargeWindows(file[m])
      /\ m = "HealthMetrics" => Profiles(file[m])
  BY Zenon DEF ModulesInv, KeptInFile
<1>7. CASE m \notin Persisted /\ Becomes(m, file[m]) /\ UNCHANGED missed
  BY <1>3, <1>4, <1>5, <1>6, <1>7, Zenon DEF ModulesInv
<1>8. CASE m \in Persisted /\ ~pool /\ Becomes(m, NewState(m)) /\ UNCHANGED missed
  <2>1. m \notin pooled'
    BY <1>2, <1>8
  <2>2. PICK v : v = NewState(m)
    OBVIOUS
  <2>3. /\ m = "MarketAnalyzer" => LargeWindows(v)
        /\ m = spd => ServiceState(v)
    BY <2>2, NewKept, Zenon
  <2>4. m = "HealthMetrics" => Profiles(v)
    BY <1>5, <1>8, Zenon
  <2>5. Becomes(m, v)
    BY <1>8, <2>2, Zenon
  <2>6. UNCHANGED missed /\ (m = spd => ServiceState(v) /\ m \notin pooled')
    BY <1>8, <2>1, <2>3, Zenon
  <2>7. m = "MarketAnalyzer" => LargeWindows(v)
    BY <2>3, Zenon
  <2>8. KeptInMemory' /\ BroadcastInv'
    BY <1>4, <2>4, <2>5, <2>6, <2>7
  <2> QED BY <1>3, <2>8, Zenon DEF ModulesInv
<1>9. CASE /\ m \in Persisted \ {"ServicePriceDiscovery"} /\ pool
           /\ Becomes(m, Loaded(m)) \/ Becomes(m, file[m])
           /\ UNCHANGED missed
  <2>1. m # spd /\ m # "HealthMetrics"
    BY <1>5, <1>9
  <2>2. m = "MarketAnalyzer" => LargeWindows(Loaded(m))
    <3>1. ASSUME m = "MarketAnalyzer" PROVE LargeWindows(Loaded(m))
      <4>1. Loaded(m) = LoadWindows(table["MarketAnalyzer"])
        BY <3>1 DEF Loaded
      <4>2. LargeWindows(table["MarketAnalyzer"])
        BY Zenon DEF ModulesInv, KeptInTable
      <4> QED BY <4>1, <4>2, HistoryKeeps, Zenon
    <3> QED BY <3>1
  <2>3. KeptInMemory' /\ BroadcastInv'
    BY <1>4, <1>6, <1>9, <2>1, <2>2, Zenon
  <2> QED BY <1>3, <2>3, Zenon DEF ModulesInv
<1>10. CASE m = "ServicePriceDiscovery" /\ pool /\ LoadService
  <2>1. KeptInMemory' /\ BroadcastInv'
    BY <1>1, <1>10, LoadKeeps, Zenon
  <2> QED BY <1>3, <2>1, Zenon DEF ModulesInv
<1> QED BY <1>2, <1>7, <1>8, <1>9, <1>10, Zenon

-----------------------------------------------------------------------------
(* What the invariant says.                                                *)

LEMMA ModulesInvInit == ASSUME CMInit PROVE ModulesInv
<1>1. /\ memory = [m \in Module |-> NewState(m)] /\ table = memory /\ file = memory
      /\ pooled = {} /\ running = {} /\ scoring = {} /\ held = {} /\ answered = NoAnswer
      /\ broadcastRows = Empty
  BY Zenon DEF CMInit
<1>2. /\ DOMAIN memory = Module /\ memory["MarketAnalyzer"] = NewState("MarketAnalyzer")
      /\ memory["HealthMetrics"] = NewState("HealthMetrics")
      /\ memory["ServicePriceDiscovery"] = NewState("ServicePriceDiscovery")
  BY <1>1, ModulesKnown, Zenon
<1>3. KeptInMemory /\ KeptInTable /\ KeptInFile
  BY <1>1, <1>2, NewKept, ModulesKnown, Zenon DEF KeptInMemory, KeptInTable, KeptInFile
<1>4. AnswerInv
  BY <1>1, SayNothing DEF AnswerInv
<1>5. DOMAIN broadcastRows = {}
  BY <1>1 DEF Empty
<1>6. IsFiniteSet(DOMAIN broadcastRows)
  BY <1>5, FS_EmptySet
<1>7. "ServicePriceDiscovery" \notin running \cap pooled
  BY <1>1
<1>8. BroadcastInv
  BY <1>5, <1>6, <1>7, Zenon DEF BroadcastInv, ProcessedWasCounted, UnprocessedWait
<1> QED BY <1>1, <1>3, <1>4, <1>8, Zenon DEF ModulesInv, ScorerInv

LEMMA ModulesInvNext ==
  ASSUME ModulesAssumption, ModulesInv, [CMNext]_cmVars PROVE ModulesInv'
<1>1. ASSUME NEW m \in Module, ModuleMoves(m) PROVE ModulesInv'
  BY <1>1, StartKeeps, SnapshotKeeps, StopKeeps, RespawnKeeps, BatchKeeps, SignalKeeps,
     ServiceKeeps, ScorerMovesKeeps, Zenon DEF ModuleMoves
<1>2. CASE UNCHANGED cmVars
  <2>1. UNCHANGED <<memory, table, file, pooled, running, scoring, held, answered, broadcastRows,
                    signalled, missed>>
    BY <1>2 DEF cmVars
  <2>2. KeptInMemory' /\ KeptInTable' /\ KeptInFile'
    BY <2>1, Zenon DEF ModulesInv, KeptInMemory, KeptInTable, KeptInFile
  <2>3. AnswerInv' /\ ScorerInv'
    BY <2>1, Zenon DEF ModulesInv, AnswerInv, ScorerInv
  <2>4. BroadcastInv'
    BY <2>1, BroadcastsStay DEF serviceVars
  <2> QED BY <2>2, <2>3, <2>4, Zenon DEF ModulesInv
<1> QED BY <1>1, <1>2 DEF CMNext

LEMMA ModulesInvSays == ASSUME ModulesAssumption, ModulesInv PROVE CapabilitiesSound
<1>1. ASSUME NEW p, Profile(p)
      PROVE  /\ Len(p.incomes) = IF p.active > ProfileDays THEN ProfileDays ELSE p.active
             /\ p.active <= p.total
  <2>1. PICK s : \E a, t \in Nat :
          /\ p = [incomes |-> s, active |-> a, total |-> t]
          /\ IsSeq(s) /\ Len(s) = Capped(a) /\ a <= t
    BY <1>1, Zenon DEF Profile
  <2>2. PICK a \in Nat, t \in Nat :
          /\ p = [incomes |-> s, active |-> a, total |-> t]
          /\ IsSeq(s) /\ Len(s) = Capped(a) /\ a <= t
    BY <2>1, Zenon
  <2>3. p.incomes = s /\ p.active = a /\ p.total = t
    BY <2>2
  <2> QED BY <2>2, <2>3, Zenon DEF Capped
<1>2. ProfilesConsistent
  <2>1. \A state \in {memory["HealthMetrics"], file["HealthMetrics"]} : Profiles(state)
    BY Zenon DEF ModulesInv, KeptInMemory, KeptInFile
  <2>2. answered.by = "HealthMetrics" /\ answered.eligible =>
          memory["HealthMetrics"][answered.worker].active >= EligibleDays
    BY Zenon DEF ModulesInv, AnswerInv
  <2> QED BY <1>1, <2>1, <2>2, Zenon DEF ProfilesConsistent, Profiles
<1>3. SamplesLargeEnough
  <2>1. \A state \in {memory["MarketAnalyzer"], table["MarketAnalyzer"], file["MarketAnalyzer"]} :
          LargeWindows(state)
    BY Zenon DEF ModulesInv, KeptInMemory, KeptInTable, KeptInFile
  <2>2. Signals(memory["ServicePriceDiscovery"].signals)
    <3>1. PICK p, s : memory["ServicePriceDiscovery"] = [pending |-> p, signals |-> s] /\ Signals(s)
      BY Zenon DEF ModulesInv, KeptInMemory, ServiceState
    <3>2. memory["ServicePriceDiscovery"].signals = s
      BY <3>1
    <3> QED BY <3>1, <3>2, Zenon
  <2>3. Signals(table["ServicePriceDiscovery"].signals)
    <3>1. PICK p, s : table["ServicePriceDiscovery"] = [pending |-> p, signals |-> s] /\ Signals(s)
      BY Zenon DEF ModulesInv, KeptInTable, ServiceRows
    <3>2. table["ServicePriceDiscovery"].signals = s
      BY <3>1
    <3> QED BY <3>1, <3>2, Zenon
  <2>4. \A state \in {memory["ServicePriceDiscovery"], table["ServicePriceDiscovery"]} :
          \A c \in DOMAIN state.signals : state.signals[c].sample >= MinBroadcasts
    BY <2>2, <2>3, Zenon DEF Signals
  <2>5. \A state \in {memory["MarketAnalyzer"], table["MarketAnalyzer"], file["MarketAnalyzer"]} :
          \A c \in DOMAIN state :
            /\ Len(state[c]) \in 1..PriceWindow
            /\ \A i \in DOMAIN state[c] : state[c][i].sample >= MinSample
    BY <2>1, Zenon DEF LargeWindows, LargeWindow
  <2> QED BY <2>4, <2>5, Zenon DEF SamplesLargeEnough
<1> QED BY <1>2, <1>3, Zenon DEF CapabilitiesSound, ModulesInv, BroadcastInv

\* What the capability modules keep and answer is sound: income profiles count
\* their days, windows and signals rest on enough samples, a broadcast marked
\* processed was counted or missed, and one that is not waits (orchestrator/modules).
THEOREM CapabilitiesSoundAlways ==
  ASSUME ModulesAssumption PROVE CMSpec => []CapabilitiesSound
<1>1. CMSpec => []ModulesInv
  BY ModulesInvInit, ModulesInvNext, PTL DEF CMSpec
<1> QED BY <1>1, ModulesInvSays, PTL
=============================================================================
