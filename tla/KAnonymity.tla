------------------------------ MODULE KAnonymity ------------------------------
(***************************************************************************)
(* gateway/k_anonymity.rs: the decision on each query, a ring of the last   *)
(* ones, the sizes of the cohorts that were released, and the merging of    *)
(* cohorts that are too small.                                              *)
(***************************************************************************)
EXTENDS Integers, FiniteSets, Sequences, SequencesExt

CONSTANTS
  Place, Trade,      \* a cohort is named by a region and a business
  Member,
  K,                 \* the threshold, 10 at least
  MaxLog, Drained,   \* the ring: 1000, of which 500 are drained
  MaxDecisions       \* bound

KAnonymityAssumption == /\ K \in Nat /\ MaxLog \in Nat /\ Drained \in 1..MaxLog /\ MaxDecisions \in Nat
                        /\ IsFiniteSet(Member)

VARIABLES
  auditLog, cohortSizes,   \* KAnonymityEnforcer
  decided,                 \* all its decisions
  cohorts, small           \* merge_small_cohorts: the map, and what is left to merge

kVars == <<auditLog, cohortSizes, decided, cohorts, small>>
enforcer == <<auditLog, cohortSizes, decided>>
merging == <<cohorts, small>>

CohortKey == Place \X Trade

KInit ==
  /\ auditLog = <<>> /\ cohortSizes = [k \in CohortKey |-> 0] /\ decided = <<>>
  /\ cohorts = <<>> /\ small = {}

\* enforce_with_audit, and log_decision.
DrainAll(log) == <<>>                                                          \* fault
Drain(log) == SubSeq(log, Drained + 1, Len(log))
Enforce(k, size) ==
  /\ Len(decided) < MaxDecisions
  /\ LET record == [cohort_key |-> k, sample_size |-> size, allowed |-> size >= K]
     IN /\ auditLog' = Append(IF Len(auditLog) >= MaxLog THEN Drain(auditLog) ELSE auditLog, record)
        /\ decided' = Append(decided, record)
        /\ cohortSizes' = IF record.allowed THEN [cohortSizes EXCEPT ![k] = size] ELSE cohortSizes
  /\ UNCHANGED merging

RecentAudit(limit) ==
  SubSeq(auditLog, IF Len(auditLog) > limit THEN Len(auditLog) - limit + 1 ELSE 1, Len(auditLog))

CohortDistance(a, b) == (IF a[1] # b[1] THEN 1 ELSE 0) + (IF a[2] # b[2] THEN 1 ELSE 0)

\* merge_small_cohorts is called with a map of cohorts.
SmallerThan(map, n) == {k \in DOMAIN map : Cardinality(map[k]) < n}
BeginMerge ==
  /\ decided = <<>> /\ cohorts = <<>>
  /\ \E home \in [Member -> CohortKey] :
       cohorts' = [k \in {home[m] : m \in Member} |-> {m \in Member : home[m] = k}]
  /\ small' = SmallerThan(cohorts', K)
  /\ UNCHANGED enforcer

\* It takes its small cohorts in any order, and of the cohorts there are then,
\* small ones too, the nearest; with none left it drops their members.
MergeOne(k) ==
  /\ k \in small
  /\ small' = small \ {k}
  /\ LET rest == DOMAIN cohorts \ {k}
     IN IF rest = {} THEN cohorts' = <<>>
        ELSE \E near \in {n \in rest : \A o \in rest : CohortDistance(k, n) <= CohortDistance(k, o)} :
               cohorts' = [c \in rest |-> IF c = near THEN cohorts[c] \cup cohorts[k] ELSE cohorts[c]]
  /\ UNCHANGED enforcer

KNext ==
  \/ cohorts = <<>> /\ \E k \in CohortKey, size \in {K - 1, K} : Enforce(k, size)
  \/ BeginMerge
  \/ \E k \in CohortKey : MergeOne(k)

KSpec == KInit /\ [][KNext]_kVars

-----------------------------------------------------------------------------
KTypeOK ==
  /\ Len(auditLog) <= MaxLog
  /\ \A k \in CohortKey : cohortSizes[k] = 0 \/ cohortSizes[k] >= K

\* The ring holds the newest decisions, no fewer than a drain leaves, in order;
\* what it shows of them last is what was decided last.
DecisionsKept ==
  LET n == Len(decided)  m == Len(auditLog)
  IN /\ auditLog = SubSeq(decided, n - m + 1, n)
     /\ m >= IF n < MaxLog - Drained + 1 THEN n ELSE MaxLog - Drained + 1
     /\ n > 0 => Last(RecentAudit(1)) = Last(decided)

\* Once the small cohorts are merged none is left, those that grew by members of
\* other small ones included; and nobody is lost or counted twice as long as one
\* cohort was large enough to begin with.
MergedCohortsAreLarge ==
  /\ small = {} => \A k \in DOMAIN cohorts : Cardinality(cohorts[k]) >= K
  /\ DOMAIN cohorts \ small # {} => UNION {cohorts[k] : k \in DOMAIN cohorts} = Member
  /\ \A j, k \in DOMAIN cohorts : j # k => cohorts[j] \cap cohorts[k] = {}
=============================================================================
