---------------------------- MODULE Graph_proofs ----------------------------
(***************************************************************************)
(* Proofs about graph/: the memory of knowledge, for any patterns, bounds   *)
(* and floor, and the pipeline executor, for any dependencies, limits and   *)
(* thresholds.                                                              *)
(***************************************************************************)
EXTENDS KnowledgeGraph, Pipeline,
        FiniteSetTheorems, SequenceTheorems, WellFoundedInduction, TLAPS

(***************************************************************************)
(* The knowledge the loops keep. Memories have ids below the next one, so  *)
(* what is added meets nothing that is there; the index and the counters   *)
(* say the same of them, and decay stops at the floor.                     *)
(***************************************************************************)

\* A set of naturals that is not empty has a least element.
LEMMA LeastExists == ASSUME NEW T \in SUBSET Nat, T # {} PROVE \E n \in T : \A m \in T : n <= m
<1>1. \E n \in T : \A m \in T : ~(<<m, n>> \in OpToRel(<, Nat))
  BY NatLessThanWellFounded, WFMin, Zenon
<1>2. \A m, n \in Nat : m < n => <<m, n>> \in OpToRel(<, Nat)
  BY DEF OpToRel
<1>3. \E n \in T : \A m \in T : ~(m < n)
  BY <1>1, <1>2, Zenon
<1> QED BY <1>3

\* The powers of two, up to some exponent.
Powers(k, f) ==
  /\ f \in [0..k -> Nat \ {0}] /\ f[0] = 1 /\ \A i \in 1..k : f[i] = 2 * f[i - 1]

\* There are as many as one likes, or there would be a first that is missing.
LEMMA PowersExist == \A k \in Nat : \E f : Powers(k, f)
<1> DEFINE T == {k \in Nat : ~ \E f : Powers(k, f)}
<1> SUFFICES ASSUME T # {} PROVE FALSE
  OBVIOUS
<1>1. PICK k \in T : \A m \in T : k <= m
  <2>1. T \in SUBSET Nat
    OBVIOUS
  <2> HIDE DEF T
  <2> QED BY <2>1, LeastExists
<1>2. CASE k = 0
  <2>1. Powers(0, [i \in 0..0 |-> 1])
    BY DEF Powers
  <2> QED BY <1>2, <2>1
<1>3. CASE k # 0
  <2>1. k \in Nat /\ k - 1 \in Nat
    BY <1>3
  <2>2. k - 1 \notin T
    <3>1. ~(k <= k - 1)
      BY <2>1
    <3> HIDE DEF T
    <3> QED BY <1>1, <3>1
  <2>3. PICK f : Powers(k - 1, f)
    BY <2>1, <2>2
  <2> DEFINE g == [i \in 0..k |-> IF i = k THEN 2 * f[k - 1] ELSE f[i]]
  <2>4. \A i \in 0..k - 1 : f[i] \in Nat \ {0} /\ i \in 0..k /\ i # k
    BY <2>1, <2>3 DEF Powers
  <2>5. k - 1 \in 0..k - 1 /\ k \in 0..k
    BY <2>1
  <2>6. \A i \in 0..k : i \in 0..k - 1 \/ i = k
    BY <2>1
  <2>7. (\A i \in 0..k - 1 : g[i] = f[i]) /\ g[k] = 2 * f[k - 1]
    BY <2>4, <2>5
  <2>8. g \in [0..k -> Nat \ {0}]
    <3>1. \A i \in 0..k : g[i] \in Nat \ {0}
      BY <2>4, <2>5, <2>6, <2>7
    <3> QED BY <3>1
  <2> HIDE DEF g
  <2>9. g[0] = 1
    BY <2>1, <2>3, <2>7 DEF Powers
  <2>10. ASSUME NEW i \in 1..k PROVE g[i] = 2 * g[i - 1]
    <3>1. CASE i = k
      BY <2>5, <2>7, <3>1
    <3>2. CASE i # k
      <4>1. i \in 1..k - 1 /\ i - 1 \in 0..k - 1 /\ i \in 0..k - 1
        BY <2>1, <3>2
      <4> QED BY <2>3, <2>7, <4>1 DEF Powers
    <3> QED BY <3>1, <3>2
  <2>11. Powers(k, g)
    BY <2>8, <2>9, <2>10 DEF Powers
  <2> QED BY <1>1, <2>11
<1> QED BY <1>2, <1>3

\* PowerOfTwo is what it says, and positive.
LEMMA PowerOfTwoTyped ==
  ASSUME MaxDays \in Nat PROVE \A n \in 0..MaxDays : PowerOfTwo[n] \in Nat \ {0}
<1>1. \E f : f = [n \in 0..MaxDays |-> IF n = 0 THEN 1 ELSE 2 * f[n - 1]]
  <2>1. PICK f : Powers(MaxDays, f)
    BY PowersExist
  <2>2. \A n \in 0..MaxDays : f[n] = IF n = 0 THEN 1 ELSE 2 * f[n - 1]
    BY <2>1 DEF Powers
  <2>3. f = [n \in 0..MaxDays |-> IF n = 0 THEN 1 ELSE 2 * f[n - 1]]
    BY <2>1, <2>2 DEF Powers
  <2> QED BY <2>3
<1>2. PowerOfTwo = [n \in 0..MaxDays |-> IF n = 0 THEN 1 ELSE 2 * PowerOfTwo[n - 1]]
  BY <1>1 DEF PowerOfTwo
<1>3. \A n \in 0..MaxDays : PowerOfTwo[n] = IF n = 0 THEN 1 ELSE 2 * PowerOfTwo[n - 1]
  BY <1>2
<1> DEFINE T == {n \in 0..MaxDays : PowerOfTwo[n] \notin Nat \ {0}}
<1> SUFFICES ASSUME T # {} PROVE FALSE
  OBVIOUS
<1>4. PICK n \in T : \A m \in T : n <= m
  <2>1. T \in SUBSET Nat
    OBVIOUS
  <2> HIDE DEF T
  <2> QED BY <2>1, LeastExists
<1>5. CASE n = 0
  BY <1>3, <1>5
<1>6. CASE n # 0
  <2>1. n \in 0..MaxDays /\ n - 1 \in 0..MaxDays /\ ~(n <= n - 1)
    BY <1>6
  <2>2. n - 1 \notin T
    <3> HIDE DEF T
    <3> QED BY <1>4, <2>1
  <2>3. PowerOfTwo[n - 1] \in Nat \ {0}
    BY <2>1, <2>2
  <2>4. PowerOfTwo[n] = 2 * PowerOfTwo[n - 1]
    BY <1>3, <1>6, <2>1
  <2> QED BY <1>4, <2>3, <2>4
<1> QED BY <1>5, <1>6

Stats == [total_nodes : Int, semantic_count : Int, total_edges : Int]

KGTypes ==
  /\ nextId \in Nat \ {0} /\ today \in 0..MaxDays /\ night \in {"idle", "decay", "prune"}
  /\ memory \in [DOMAIN memory -> Memory] /\ DOMAIN memory \subseteq 1..nextId - 1
  /\ pg \subseteq 1..nextId - 1 /\ pgWrites \subseteq 1..nextId - 1
  /\ IsFiniteSet(memoryEdges) /\ kgStats \in Stats
  /\ \A i \in DOMAIN memory : memory[i].last_verified <= today

KGInv == KGTypes /\ MemoryAgrees /\ FloorHonoured

\* A new memory, as sure as it was recorded.
Fresh == {m \in Memory : m.confidence = m.initial /\ m.last_verified = today}

\* The memories there are can be counted, those of a kind too.
LEMMA MemoriesFinite ==
  ASSUME KGTypes
  PROVE  /\ IsFiniteSet(DOMAIN memory) /\ Cardinality(DOMAIN memory) \in Nat
         /\ \A kind : IsFiniteSet(Ids(kind)) /\ Cardinality(Ids(kind)) \in Nat
<1>1. IsFiniteSet(1..nextId - 1)
  <2>1. 1 \in Int /\ nextId - 1 \in Int
    BY DEF KGTypes
  <2> QED BY <2>1, FS_Interval
<1>2. IsFiniteSet(DOMAIN memory)
  BY <1>1, FS_Subset DEF KGTypes
<1>3. \A kind : Ids(kind) \subseteq DOMAIN memory
  BY DEF Ids
<1> QED BY <1>2, <1>3, FS_Subset, FS_CardinalityType

\* What is found of memories does not depend on how sure they are.
LEMMA IndexSame ==
  ASSUME NEW f, NEW g, DOMAIN f = DOMAIN g,
         \A i \in DOMAIN f : /\ IndexKeys(f[i]) = IndexKeys(g[i])
                             /\ f[i].participants = g[i].participants
  PROVE  IndexEntries(f) = IndexEntries(g) /\ EntityEntries(f) = EntityEntries(g)
  BY DEF IndexEntries, EntityEntries

\* The image of a finite set is finite.
LEMMA FiniteImage ==
  ASSUME NEW S, IsFiniteSet(S), NEW f, DOMAIN f = S, f = [x \in S |-> f[x]]
  PROVE  IsFiniteSet({f[x] : x \in S})
<1>1. f \in Surjection(S, {f[x] : x \in S})
  BY DEF Surjection
<1> QED BY <1>1, FS_Surjection

\* What is added is found, counted and as sure as it was recorded.
LEMMA AddAllInv ==
  ASSUME KGAssumption, KGInv, NEW n \in Nat, NEW new \in [nextId..nextId + n - 1 -> Fresh],
         AddAll(new),
         UNCHANGED <<memoryEdges, today>>
  PROVE  /\ nextId' = nextId + n /\ DOMAIN memory' = DOMAIN memory \cup nextId..nextId + n - 1
         /\ memory' \in [DOMAIN memory' -> Memory] /\ kgStats' \in Stats
         /\ \A i \in DOMAIN memory' : memory'[i].last_verified <= today
         /\ conceptIndex' = IndexEntries(memory') /\ entityIndex' = EntityEntries(memory')
         /\ kgStats'.total_nodes = Cardinality(DOMAIN memory')
         /\ kgStats'.total_edges = Cardinality(memoryEdges')
         /\ FloorHonoured'
<1> DEFINE old == DOMAIN memory
           ids == nextId..nextId + n - 1
<1>1. /\ nextId \in Nat \ {0} /\ memory \in [old -> Memory] /\ old \subseteq 1..nextId - 1
      /\ today \in 0..MaxDays /\ kgStats \in Stats
  BY DEF KGInv, KGTypes
<1>2. old \cap ids = {} /\ DOMAIN new = ids
  BY <1>1
<1>3. IsFiniteSet(ids) /\ Cardinality(ids) = n
  <2>1. nextId \in Int /\ nextId + n - 1 \in Int
    BY <1>1
  <2>2. /\ IsFiniteSet(ids)
        /\ Cardinality(ids) = IF nextId > nextId + n - 1 THEN 0
                               ELSE nextId + n - 1 - nextId + 1
    <3>1. \A a, b \in Int : /\ IsFiniteSet(a..b)
                           /\ Cardinality(a..b) = IF a > b THEN 0 ELSE b - a + 1
      BY FS_Interval
    <3> HIDE DEF ids
    <3>2. \A a, b \in Int : a..b = ids =>
            IsFiniteSet(ids) /\ Cardinality(ids) = IF a > b THEN 0 ELSE b - a + 1
      BY <3>1
    <3>3. nextId..nextId + n - 1 = ids
      BY DEF ids
    <3> QED BY <2>1, <3>2, <3>3
  <2> QED BY <1>1, <2>2
<1>4. /\ memory' = [i \in old \cup ids |-> IF i \in ids THEN new[i] ELSE memory[i]]
      /\ conceptIndex' = conceptIndex \cup IndexEntries(new)
      /\ entityIndex' = entityIndex \cup EntityEntries(new)
      /\ kgStats' = [kgStats EXCEPT !.total_nodes = @ + n,
                       !.semantic_count = @ + Cardinality({i \in ids : new[i].kind = "semantic"})]
      /\ nextId' = nextId + n
  BY <1>2, <1>3 DEF AddAll
<1>5. /\ DOMAIN memory' = old \cup ids /\ \A i \in ids : memory'[i] = new[i]
      /\ \A i \in old : memory'[i] = memory[i]
  BY <1>2, <1>4
<1>6. memory' \in [DOMAIN memory' -> Memory]
  BY <1>1, <1>4, <1>5 DEF Fresh
<1>7. /\ kgStats' \in Stats /\ kgStats'.total_nodes = kgStats.total_nodes + n
      /\ kgStats'.total_edges = kgStats.total_edges
  <2> DEFINE k == Cardinality({i \in ids : new[i].kind = "semantic"})
  <2>1. k \in Nat
    BY <1>3, FS_Subset, FS_CardinalityType
  <2>2. kgStats' = [kgStats EXCEPT !.total_nodes = @ + n, !.semantic_count = @ + k]
    BY <1>4
  <2> HIDE DEF k
  <2>3. kgStats.total_nodes + n \in Int /\ kgStats.semantic_count + k \in Int
    BY <1>1, <2>1 DEF Stats
  <2>4. kgStats' = [total_nodes |-> kgStats.total_nodes + n,
                    semantic_count |-> kgStats.semantic_count + k,
                    total_edges |-> kgStats.total_edges]
    BY <1>1, <2>2 DEF Stats
  <2> QED BY <1>1, <2>3, <2>4 DEF Stats
<1>8. Cardinality(old \cup ids) = Cardinality(old) + n
  <2>1. IsFiniteSet(old) /\ Cardinality(old) \in Nat
    BY MemoriesFinite DEF KGInv
  <2> HIDE DEF old, ids
  <2>2. Cardinality(old \cup ids) = Cardinality(old) + Cardinality(ids) - Cardinality({})
    BY <1>2, <1>3, <2>1, FS_Union
  <2> QED BY <1>3, <2>1, <2>2, FS_EmptySet
<1>9. /\ kgStats'.total_nodes = Cardinality(DOMAIN memory')
      /\ kgStats'.total_edges = Cardinality(memoryEdges')
  BY <1>5, <1>7, <1>8 DEF KGInv, MemoryAgrees
<1>10. conceptIndex' = IndexEntries(memory') /\ entityIndex' = EntityEntries(memory')
  <2>1. conceptIndex = IndexEntries(memory) /\ entityIndex = EntityEntries(memory)
    BY DEF KGInv, MemoryAgrees, IndexEntries, EntityEntries
  <2> HIDE DEF ids, old
  <2>2. DOMAIN memory = old
    BY DEF old
  <2>3. /\ IndexEntries(memory') = IndexEntries(memory) \cup IndexEntries(new)
        /\ EntityEntries(memory') = EntityEntries(memory) \cup EntityEntries(new)
    BY <1>2, <1>5, <2>2 DEF IndexEntries, EntityEntries
  <2> QED BY <1>4, <2>1, <2>3
<1>11. \A i \in DOMAIN memory' : memory'[i].last_verified <= today
  <2>1. \A i \in ids : new[i].last_verified = today
    BY DEF Fresh
  <2>2. \A i \in old : memory[i].last_verified <= today
    BY DEF KGInv, KGTypes
  <2> QED BY <1>1, <1>5, <2>1, <2>2
<1>12. FloorHonoured'
  <2> SUFFICES ASSUME NEW i \in DOMAIN memory', memory'[i].kind = "semantic"
               PROVE  memory'[i].confidence >= IF memory'[i].initial < MinConfidence
                                               THEN memory'[i].initial ELSE MinConfidence
    BY DEF FloorHonoured, Ids
  <2>1. CASE i \in ids
    <3>1. memory'[i] \in Memory /\ memory'[i].confidence = memory'[i].initial
      BY <1>5, <1>6, <2>1 DEF Fresh
    <3>2. memory'[i].initial \in Int /\ MinConfidence \in Int
      <4>1. PICK m : m \in Memory /\ m = memory'[i]
        BY <3>1
      <4>2. m.initial \in 0..1000
        BY <4>1 DEF Memory
      <4>3. memory'[i].initial \in 0..1000
        BY <4>1, <4>2, Zenon
      <4>4. MinConfidence \in 0..1000
        BY DEF KGAssumption
      <4>5. 0..1000 \subseteq Int
        OBVIOUS
      <4> QED BY <4>3, <4>4, <4>5, Zenon
    <3>3. \A c, f \in Int : c >= IF c < f THEN c ELSE f
      OBVIOUS
    <3> QED BY <3>1, <3>2, <3>3
  <2>2. CASE i \in old
    BY <1>5, <2>2 DEF KGInv, FloorHonoured, Ids
  <2> QED BY <1>5, <2>1, <2>2
<1> QED BY <1>4, <1>5, <1>6, <1>7, <1>9, <1>10, <1>11, <1>12

\* One memory is recorded, and will be stored.
LEMMA RecordInv ==
  ASSUME KGAssumption, KGInv, NEW m \in Fresh, Record(m)
  PROVE  KGInv'
<1> DEFINE new == [i \in {nextId} |-> m]
<1>1. nextId \in Nat \ {0} /\ today \in 0..MaxDays
  BY DEF KGInv, KGTypes
<1>3. AddAll(new) /\ pgWrites' = pgWrites \cup {nextId}
      /\ UNCHANGED <<memoryEdges, pg, pgFailed, today, night, nights, consolidated>>
  BY DEF Record
<1>4. new \in [nextId..nextId + 1 - 1 -> Fresh]
  <2>1. nextId..nextId + 1 - 1 = {nextId}
    BY <1>1
  <2> QED BY <2>1
<1> HIDE DEF new
<1>5. /\ nextId' = nextId + 1 /\ DOMAIN memory' = DOMAIN memory \cup nextId..nextId + 1 - 1
      /\ memory' \in [DOMAIN memory' -> Memory] /\ kgStats' \in Stats
      /\ \A i \in DOMAIN memory' : memory'[i].last_verified <= today
      /\ conceptIndex' = IndexEntries(memory') /\ entityIndex' = EntityEntries(memory')
      /\ kgStats'.total_nodes = Cardinality(DOMAIN memory')
      /\ kgStats'.total_edges = Cardinality(memoryEdges')
      /\ FloorHonoured'
  BY <1>3, <1>4, AddAllInv
<1>6. DOMAIN memory' = DOMAIN memory \cup {nextId}
  BY <1>1, <1>5
<1>7. MemoryAgrees'
  BY <1>3, <1>5, <1>6 DEF KGInv, MemoryAgrees, IndexEntries, EntityEntries
<1>8. KGTypes'
  BY <1>1, <1>3, <1>5, <1>6 DEF KGInv, KGTypes
<1> QED BY <1>5, <1>7, <1>8 DEF KGInv

\* The confidence in a pattern is between none and all.
LEMMA CountConfidenceTyped == ASSUME NEW n \in Nat PROVE CountConfidence(n) \in 0..1000
<1>1. 1000 * n \in Nat /\ n + 10 \in Nat \ {0}
  OBVIOUS
<1>2. \A p \in Nat : \A q \in Nat \ {0} : p \div q \in Nat
  BY SMT
<1>3. (1000 * n) \div (n + 10) \in Nat
  BY <1>1, <1>2
<1> QED BY <1>3 DEF CountConfidence

\* A memory is new when it is made today.
LEMMA NewIsFresh ==
  ASSUME today \in 0..MaxDays, NEW kind \in {"episodic", "semantic", "procedural"},
         NEW concept \in Concept, NEW words \in SUBSET Word, NEW who \in SUBSET Participant,
         NEW confidence \in 0..1000
  PROVE  New(kind, concept, words, who, confidence) \in Fresh
  BY DEF New, Fresh, Memory

\* Consolidation learns finitely many things, of episodes that can be counted.
LEMMA LearnedTyped ==
  ASSUME KGAssumption, KGTypes
  PROVE  /\ IsFiniteSet(Learned)
         /\ \A l \in Learned : l.concept \in Concept /\ l.count \in Nat
<1> DEFINE patterns == {[concept |-> p, count |-> Cardinality(Episodes(p))] : p \in Frequent}
           outcomes0 == {[concept |-> TransactionOutcome(p), count |-> Cardinality(Episodes(p))] :
                           p \in {q \in Frequent : q[1] = "Transaction"}}
           lesson == [concept |-> LearningPattern, count |-> Cardinality(Lessons)]
<1>1. IsFiniteSet(Frequent) /\ Frequent \subseteq Pattern
  BY FS_Subset DEF Frequent, KGAssumption
<1>2. (\A p : Cardinality(Episodes(p)) \in Nat) /\ Cardinality(Lessons) \in Nat
  <2>1. (\A p : Episodes(p) \subseteq DOMAIN memory) /\ Lessons \subseteq DOMAIN memory
    BY DEF Episodes, Lessons, Ids
  <2> QED BY <2>1, MemoriesFinite, FS_Subset, FS_CardinalityType
<1>3. Learned \subseteq patterns \cup outcomes0 \cup {lesson}
  BY DEF Learned
<1>4. IsFiniteSet(patterns)
  <2> DEFINE f == [p \in Frequent |-> [concept |-> p, count |-> Cardinality(Episodes(p))]]
  <2>1. IsFiniteSet({f[p] : p \in Frequent})
    <3>1. DOMAIN f = Frequent /\ f = [x \in Frequent |-> f[x]]
      OBVIOUS
    <3> HIDE DEF f
    <3> QED BY <1>1, <3>1, FiniteImage
  <2>2. {f[p] : p \in Frequent} = patterns
    OBVIOUS
  <2> QED BY <2>1, <2>2
<1>5. IsFiniteSet(outcomes0)
  <2> DEFINE T == {q \in Frequent : q[1] = "Transaction"}
             f == [p \in T |-> [concept |-> TransactionOutcome(p),
                               count |-> Cardinality(Episodes(p))]]
  <2>1. IsFiniteSet(T)
    BY <1>1, FS_Subset
  <2>2. IsFiniteSet({f[p] : p \in T})
    <3>1. DOMAIN f = T /\ f = [x \in T |-> f[x]]
      OBVIOUS
    <3> HIDE DEF f, T
    <3> QED BY <2>1, <3>1, FiniteImage
  <2>3. {f[p] : p \in T} = outcomes0
    OBVIOUS
  <2> QED BY <2>2, <2>3
<1>6. IsFiniteSet(patterns \cup outcomes0 \cup {lesson})
  <2> HIDE DEF patterns, outcomes0, lesson
  <2> QED BY <1>4, <1>5, FS_Union, FS_Singleton
<1>7. IsFiniteSet(Learned)
  BY <1>3, <1>6, FS_Subset
<1>8. \A l \in patterns \cup outcomes0 \cup {lesson} : l.concept \in Concept /\ l.count \in Nat
  BY <1>1, <1>2 DEF Concept
<1> QED BY <1>3, <1>7, <1>8

\* Frequent patterns, outcomes and lessons become knowledge.
LEMMA ConsolidateInv == ASSUME KGAssumption, KGInv, Consolidate PROVE KGInv'
<1>1. nextId \in Nat \ {0} /\ today \in 0..MaxDays /\ KGTypes
  BY DEF KGInv, KGTypes
<1> DEFINE n == Cardinality(Learned)
<1>2. n \in Nat
  BY <1>1, LearnedTyped, FS_CardinalityType
<1>3. PICK ls \in [1..n -> Learned] :
        AddAll([i \in nextId..nextId + Len(ls) - 1 |->
          LET l == ls[i - nextId + 1]
          IN New("semantic", l.concept, {}, {}, CountConfidence(l.count))])
  BY DEF Consolidate
<1>4. /\ consolidated' = consolidated \cup nextId..nextId' - 1
      /\ UNCHANGED <<memoryEdges, pg, pgWrites, pgFailed, today>> /\ night' = "decay"
  BY DEF Consolidate
<1> DEFINE ids == nextId..nextId + n - 1
           m(i) == New("semantic", ls[i - nextId + 1].concept, {}, {},
                       CountConfidence(ls[i - nextId + 1].count))
           new == [i \in ids |-> m(i)]
<1>5. Len(ls) = n
  <2> HIDE DEF n
  <2> QED BY <1>2, <1>3
<1>6. AddAll(new)
  <2> HIDE DEF n
  <2> QED BY <1>3, <1>5
<1>7. \A i \in ids : m(i) \in Fresh
  <2> SUFFICES ASSUME NEW i \in ids PROVE m(i) \in Fresh
    OBVIOUS
  <2>1. i - nextId + 1 \in 1..n
    <3> HIDE DEF n
    <3> QED BY <1>1, <1>2
  <2>2. ls[i - nextId + 1] \in Learned
    <3> HIDE DEF n
    <3> QED BY <1>3, <2>1
  <2>3. /\ ls[i - nextId + 1].concept \in Concept
        /\ CountConfidence(ls[i - nextId + 1].count) \in 0..1000
    BY <1>1, <2>2, LearnedTyped, CountConfidenceTyped
  <2>4. \A c \in Concept, k \in 0..1000 : New("semantic", c, {}, {}, k) \in Fresh
    BY <1>1 DEF New, Fresh, Memory
  <2> QED BY <2>3, <2>4
<1>8. new \in [nextId..nextId + n - 1 -> Fresh]
  <2> HIDE DEF m
  <2> QED BY <1>7
<1> HIDE DEF new, n
<1>9. /\ nextId' = nextId + n /\ DOMAIN memory' = DOMAIN memory \cup ids
      /\ memory' \in [DOMAIN memory' -> Memory] /\ kgStats' \in Stats
      /\ \A i \in DOMAIN memory' : memory'[i].last_verified <= today
      /\ conceptIndex' = IndexEntries(memory') /\ entityIndex' = EntityEntries(memory')
      /\ kgStats'.total_nodes = Cardinality(DOMAIN memory')
      /\ kgStats'.total_edges = Cardinality(memoryEdges')
      /\ FloorHonoured'
  BY <1>2, <1>4, <1>6, <1>8, AddAllInv
<1>10. MemoryAgrees'
  <2>1. ids \subseteq consolidated'
    <3>1. nextId' - 1 = nextId + n - 1
      BY <1>1, <1>2, <1>9
    <3> QED BY <1>4, <3>1
  <2> HIDE DEF ids
  <2> QED BY <1>4, <1>9, <2>1 DEF KGInv, MemoryAgrees, IndexEntries, EntityEntries
<1>11. KGTypes'
  BY <1>1, <1>2, <1>4, <1>9 DEF KGInv, KGTypes
<1> QED BY <1>9, <1>10, <1>11 DEF KGInv
\* Two memories are linked.
LEMMA LinkInv == ASSUME KGAssumption, KGInv, LinkMemories PROVE KGInv'
<1>1. PICK a, b \in 1..nextId - 1 : <<a, b>> \notin memoryEdges
                                   /\ memoryEdges' = memoryEdges \cup {<<a, b>>}
  BY DEF LinkMemories
<1>2. /\ kgStats' = [kgStats EXCEPT !.total_edges = @ + 1]
      /\ UNCHANGED <<memory, conceptIndex, entityIndex, pg, pgWrites, pgFailed, nextId, today,
                     night, nights, consolidated>>
  BY DEF LinkMemories
<1>3. /\ IsFiniteSet(memoryEdges) /\ kgStats \in Stats
      /\ kgStats.total_edges = Cardinality(memoryEdges)
  BY DEF KGInv, KGTypes, MemoryAgrees
<1>4. /\ IsFiniteSet(memoryEdges')
      /\ Cardinality(memoryEdges') = Cardinality(memoryEdges) + 1
  BY <1>1, <1>3, FS_AddElement
<1>5. /\ kgStats' \in Stats /\ kgStats'.total_nodes = kgStats.total_nodes
      /\ kgStats'.total_edges = kgStats.total_edges + 1
  BY <1>2, <1>3 DEF Stats
<1>6. KGTypes'
  BY <1>2, <1>4, <1>5 DEF KGInv, KGTypes
<1>7. MemoryAgrees'
  BY <1>2, <1>3, <1>4, <1>5 DEF KGInv, MemoryAgrees
<1>8. FloorHonoured'
  BY <1>2 DEF KGInv, FloorHonoured, Ids
<1> QED BY <1>6, <1>7, <1>8 DEF KGInv

\* A row is inserted, or is not.
LEMMA StoreInv == ASSUME KGInv, PgInsert \/ PgError PROVE KGInv'
<1>1. PICK i \in pgWrites :
        /\ \/ pg' = pg \cup {i} /\ pgFailed' = pgFailed
           \/ pgFailed' = pgFailed \cup {i} /\ pg' = pg
        /\ pgWrites' = pgWrites \ {i}
        /\ UNCHANGED <<memory, memoryEdges, conceptIndex, entityIndex, kgStats, nextId, today,
                       night, nights, consolidated>>
  BY DEF PgInsert, PgError
<1>2. KGTypes'
  BY <1>1 DEF KGInv, KGTypes
<1>3. MemoryAgrees'
  BY <1>1 DEF KGInv, MemoryAgrees
<1>4. FloorHonoured'
  BY <1>1 DEF KGInv, FloorHonoured, Ids
<1> QED BY <1>2, <1>3, <1>4 DEF KGInv

\* A memory that decays stays the memory it was, and stops at the floor.
LEMMA DecayedIs ==
  ASSUME KGAssumption, NEW m \in Memory, today \in 0..MaxDays, m.last_verified <= today
  PROVE  /\ Decayed(m) \in Memory
         /\ Decayed(m).kind = m.kind /\ Decayed(m).concept = m.concept
         /\ Decayed(m).words = m.words /\ Decayed(m).participants = m.participants
         /\ Decayed(m).initial = m.initial /\ Decayed(m).last_verified = m.last_verified
         /\ m.kind = "semantic" =>
              Decayed(m).confidence = m.confidence \/ Decayed(m).confidence >= MinConfidence
<1>1. /\ m.confidence \in 0..1000 /\ m.last_verified \in 0..MaxDays
      /\ MinConfidence \in 0..1000 /\ MaxDays \in Nat
  BY DEF Memory, KGAssumption
<1>2. \A p \in Nat : \A q \in Nat \ {0} : p \div q \in Nat
  BY SMT
<1>11. 0..1000 \subseteq Nat
  OBVIOUS
<1>3. Halved(m.confidence, today - m.last_verified) \in Nat
  <2>1. today - m.last_verified \in 0..MaxDays
    BY <1>1
  <2>2. PowerOfTwo[today - m.last_verified] \in Nat \ {0}
    BY <1>1, <2>1, PowerOfTwoTyped
  <2>3. m.confidence \in Nat
    BY <1>1, <1>11
  <2>4. m.confidence \div PowerOfTwo[today - m.last_verified] \in Nat
    BY <1>2, <2>2, <2>3
  <2> QED BY <2>4 DEF Halved
<1>4. DecayedTo(m) \in Nat /\ DecayedTo(m) >= MinConfidence
  BY <1>1, <1>3 DEF DecayedTo, AtLeast
<1>5. (m.confidence * 98) \div 100 \in Nat
  <2>1. \A c \in 0..1000 : c * 98 \in Nat
    OBVIOUS
  <2>2. m.confidence * 98 \in Nat
    BY <1>1, <2>1
  <2> QED BY <1>2, <2>2
<1>6. AtLeast((m.confidence * 98) \div 100) \in Nat
  BY <1>1, <1>5 DEF AtLeast
<1>7. \/ Decayed(m) = m
      \/ \E c \in Nat : /\ c < m.confidence /\ Decayed(m) = [m EXCEPT !.confidence = c]
                        /\ m.kind = "semantic" => c >= MinConfidence
  <2>1. CASE m.kind = "episodic"
    BY <2>1 DEF Decayed
  <2>2. CASE m.kind = "semantic"
    BY <1>4, <2>2 DEF Decayed
  <2>3. CASE m.kind = "procedural"
    <3> DEFINE down == AtLeast((m.confidence * 98) \div 100)
               c == IF m.confidence > MinConfidence THEN down ELSE m.confidence
    <3>1. Decayed(m) = IF c < m.confidence THEN [m EXCEPT !.confidence = c] ELSE m
      BY <2>3 DEF Decayed
    <3>2. c \in Nat
      <4>1. down \in Nat /\ m.confidence \in Nat
        BY <1>1, <1>6, <1>11
      <4> QED BY <4>1
    <3>3. m.kind # "semantic"
      BY <2>3
    <3> HIDE DEF c
    <3> QED BY <3>1, <3>2, <3>3
  <2> QED BY <2>1, <2>2, <2>3 DEF Memory
<1>8. CASE Decayed(m) = m
  BY <1>8
<1>9. CASE Decayed(m) # m
  <2>1. PICK c \in Nat : /\ c < m.confidence /\ Decayed(m) = [m EXCEPT !.confidence = c]
                         /\ m.kind = "semantic" => c >= MinConfidence
    BY <1>7, <1>9
  <2>2. c \in 0..1000
    <3>1. PICK k \in 0..1000 : k = m.confidence
      BY <1>1
    <3>2. c < k
      BY <2>1, <3>1
    <3> QED BY <3>2
  <2> DEFINE d == [m EXCEPT !.confidence = c]
  <2>3. /\ d \in Memory /\ d.confidence = c /\ d.kind = m.kind /\ d.concept = m.concept
        /\ d.words = m.words /\ d.participants = m.participants
        /\ d.initial = m.initial /\ d.last_verified = m.last_verified
    BY <2>2 DEF Memory
  <2>4. Decayed(m) = d
    BY <2>1
  <2> HIDE DEF d
  <2> QED BY <2>1, <2>3, <2>4
<1> QED BY <1>8, <1>9

\* Decay, of all of them at once.
LEMMA DecayInv == ASSUME KGAssumption, KGInv, ApplyConfidenceDecay PROVE KGInv'
<1>1. /\ memory' = [i \in DOMAIN memory |-> Decayed(memory[i])] /\ night' = "prune"
      /\ kgStats' = [kgStats EXCEPT !.semantic_count = Cardinality(Ids("semantic"))]
      /\ UNCHANGED <<memoryEdges, conceptIndex, entityIndex, pg, pgWrites, pgFailed, nextId, today,
                     nights, consolidated>>
  BY DEF ApplyConfidenceDecay
<1>2. KGTypes
  BY DEF KGInv
<1>3. \A i \in DOMAIN memory :
        /\ memory[i] \in Memory /\ memory'[i] \in Memory
        /\ memory'[i].kind = memory[i].kind /\ memory'[i].concept = memory[i].concept
        /\ memory'[i].words = memory[i].words
        /\ memory'[i].participants = memory[i].participants
        /\ memory'[i].initial = memory[i].initial
        /\ memory'[i].last_verified = memory[i].last_verified
        /\ memory[i].kind = "semantic" =>
             memory'[i].confidence = memory[i].confidence \/ memory'[i].confidence >= MinConfidence
  <2> SUFFICES ASSUME NEW i \in DOMAIN memory
               PROVE  /\ memory[i] \in Memory /\ memory'[i] \in Memory
                      /\ memory'[i].kind = memory[i].kind /\ memory'[i].concept = memory[i].concept
                      /\ memory'[i].words = memory[i].words
                      /\ memory'[i].participants = memory[i].participants
                      /\ memory'[i].initial = memory[i].initial
                      /\ memory'[i].last_verified = memory[i].last_verified
                      /\ memory[i].kind = "semantic" =>
                           \/ memory'[i].confidence = memory[i].confidence
                           \/ memory'[i].confidence >= MinConfidence
    BY Zenon
  <2>1. memory[i] \in Memory /\ memory[i].last_verified <= today /\ today \in 0..MaxDays
    BY <1>2 DEF KGTypes
  <2>2. memory'[i] = Decayed(memory[i])
    BY <1>1
  <2> QED BY <2>1, <2>2, DecayedIs
<1>4. DOMAIN memory' = DOMAIN memory /\ memory' \in [DOMAIN memory' -> Memory]
  BY <1>1, <1>3
<1>5. /\ kgStats' \in Stats /\ kgStats'.total_nodes = kgStats.total_nodes
      /\ kgStats'.total_edges = kgStats.total_edges
  <2>1. Cardinality(Ids("semantic")) \in Nat
    BY <1>2, MemoriesFinite
  <2> QED BY <1>1, <1>2, <2>1 DEF KGTypes, Stats
<1>6. KGTypes'
  <2>1. \A i \in DOMAIN memory' : memory'[i].last_verified <= today'
    BY <1>1, <1>2, <1>3, <1>4 DEF KGTypes
  <2> QED BY <1>1, <1>2, <1>4, <1>5, <2>1 DEF KGTypes
<1>7. MemoryAgrees'
  <2>1. \A i \in DOMAIN memory' : /\ IndexKeys(memory'[i]) = IndexKeys(memory[i])
                                  /\ memory'[i].participants = memory[i].participants
    BY <1>3, <1>4 DEF IndexKeys
  <2>2. /\ IndexEntries(memory') = IndexEntries(memory)
        /\ EntityEntries(memory') = EntityEntries(memory)
    BY <1>4, <2>1, IndexSame
  <2> QED BY <1>1, <1>4, <1>5, <2>2 DEF KGInv, MemoryAgrees, IndexEntries, EntityEntries
<1>8. FloorHonoured'
  <2> SUFFICES ASSUME NEW i \in DOMAIN memory', memory'[i].kind = "semantic"
               PROVE  memory'[i].confidence >= IF memory'[i].initial < MinConfidence
                                               THEN memory'[i].initial ELSE MinConfidence
    BY DEF FloorHonoured, Ids
  <2>1. memory[i].confidence >= IF memory[i].initial < MinConfidence
                                THEN memory[i].initial ELSE MinConfidence
    BY <1>3, <1>4 DEF KGInv, FloorHonoured, Ids
  <2>2. /\ memory'[i] \in Memory /\ memory'[i].initial = memory[i].initial
        /\ memory'[i].confidence = memory[i].confidence \/ memory'[i].confidence >= MinConfidence
    BY <1>3, <1>4
  <2>3. \A c, d, k, f \in Int :
          /\ c >= IF k < f THEN k ELSE f
          /\ d = c \/ d >= f
          => d >= IF k < f THEN k ELSE f
    OBVIOUS
  <2>4. memory[i] \in Memory /\ memory'[i] \in Memory
    BY <1>3, <1>4
  <2>5. \A m \in Memory : m.confidence \in Int /\ m.initial \in Int
    BY DEF Memory
  <2>6. MinConfidence \in Int
    BY DEF KGAssumption
  <2>7. /\ memory[i].confidence \in Int /\ memory[i].initial \in Int
        /\ memory'[i].confidence \in Int
    BY <2>4, <2>5
  <2> DEFINE c == memory[i].confidence
             d == memory'[i].confidence
             k == memory[i].initial
  <2>8. c >= IF k < MinConfidence THEN k ELSE MinConfidence
    BY <2>1
  <2>9. d = c \/ d >= MinConfidence
    BY <2>2
  <2>10. d >= IF k < MinConfidence THEN k ELSE MinConfidence
    <3>1. c \in Int /\ d \in Int /\ k \in Int
      BY <2>7
    <3> HIDE DEF c, d, k
    <3> QED BY <2>3, <2>6, <2>8, <2>9, <3>1
  <2> QED BY <2>2, <2>10
<1> QED BY <1>6, <1>7, <1>8 DEF KGInv

\* Pruning takes the memory, its edges and its index entry together.
LEMMA PruneInv == ASSUME KGAssumption, KGInv, PruneLowConfidence PROVE KGInv'
<1>1. /\ memory' = [i \in DOMAIN memory \ Weak |-> memory[i]] /\ night' = "idle"
      /\ conceptIndex' = {x \in conceptIndex : x[2] \notin Weak}
      /\ entityIndex' = {x \in entityIndex : x[2] \notin Weak}
      /\ memoryEdges' = {e \in memoryEdges : ~Involves(e)}
      /\ kgStats' = [kgStats EXCEPT !.total_nodes = Cardinality(DOMAIN memory'),
                                    !.total_edges = Cardinality(memoryEdges')]
      /\ UNCHANGED <<pg, pgWrites, pgFailed, nextId, today, nights, consolidated>>
  BY DEF PruneLowConfidence
<1>2. KGTypes
  BY DEF KGInv
<1>3. /\ DOMAIN memory' = DOMAIN memory \ Weak
      /\ \A i \in DOMAIN memory' : i \in DOMAIN memory /\ memory'[i] = memory[i]
  BY <1>1
<1>4. memory' \in [DOMAIN memory' -> Memory]
  BY <1>1, <1>2, <1>3 DEF KGTypes
<1>5. IsFiniteSet(DOMAIN memory') /\ IsFiniteSet(memoryEdges')
  BY <1>1, <1>2, <1>3, MemoriesFinite, FS_Subset DEF KGTypes
<1>6. Cardinality(DOMAIN memory') \in Nat /\ Cardinality(memoryEdges') \in Nat
  BY <1>5, FS_CardinalityType
<1>7. /\ kgStats' \in Stats /\ kgStats'.total_nodes = Cardinality(DOMAIN memory')
      /\ kgStats'.total_edges = Cardinality(memoryEdges')
  <2> DEFINE a == Cardinality(DOMAIN memory')
             b == Cardinality(memoryEdges')
  <2>1. kgStats' = [kgStats EXCEPT !.total_nodes = a, !.total_edges = b]
    BY <1>1
  <2>2. a \in Int /\ b \in Int
    BY <1>6
  <2> HIDE DEF a, b
  <2>3. kgStats' \in Stats /\ kgStats'.total_nodes = a /\ kgStats'.total_edges = b
    BY <1>2, <2>1, <2>2 DEF KGTypes, Stats
  <2> USE DEF a, b
  <2> QED BY <2>3
<1>8. KGTypes'
  BY <1>1, <1>2, <1>3, <1>4, <1>5, <1>7 DEF KGTypes
<1>9. MemoryAgrees'
  <2>1. conceptIndex = IndexEntries(memory) /\ entityIndex = EntityEntries(memory)
    BY DEF KGInv, MemoryAgrees, IndexEntries, EntityEntries
  <2>2. conceptIndex' = IndexEntries(memory') /\ entityIndex' = EntityEntries(memory')
    BY <1>1, <1>3, <2>1 DEF IndexEntries, EntityEntries
  <2> QED BY <1>1, <1>3, <1>7, <2>2 DEF KGInv, MemoryAgrees, IndexEntries, EntityEntries
<1>10. FloorHonoured'
  BY <1>3 DEF KGInv, FloorHonoured, Ids
<1> QED BY <1>8, <1>9, <1>10 DEF KGInv

LEMMA KGInvInit == ASSUME KGAssumption, KGInit PROVE KGInv
<1>1. DOMAIN memory = {} /\ memory \in [{} -> Memory]
  BY DEF KGInit
<1>2. KGTypes
  BY <1>1, FS_EmptySet DEF KGInit, KGTypes, KGAssumption, Stats
<1>3. MemoryAgrees
  BY <1>1, FS_EmptySet DEF KGInit, MemoryAgrees
<1>4. FloorHonoured
  BY <1>1 DEF FloorHonoured, Ids
<1> QED BY <1>2, <1>3, <1>4 DEF KGInv

LEMMA KGInvStep == ASSUME KGAssumption, KGInv, [KGNext]_kgVars PROVE KGInv'
<1>0. today \in 0..MaxDays /\ Pattern \subseteq Concept /\ Skill \in Concept
  BY DEF KGInv, KGTypes, Concept
<1>1. CASE RecordEpisode
  <2>1. PICK p \in Pattern, ws \in SUBSET Word, who \in SUBSET Participant :
          Record(New("episodic", p, ws, who, 1000))
    BY <1>1 DEF RecordEpisode
  <2> QED BY <1>0, <2>1, NewIsFresh, RecordInv
<1>2. CASE RecordKnowledge
  <2>1. PICK p \in Pattern, c \in RecordedConfidence : Record(New("semantic", p, {}, {}, c))
    BY <1>2 DEF RecordKnowledge
  <2>2. c \in 0..1000
    BY DEF KGAssumption
  <2> QED BY <1>0, <2>1, <2>2, NewIsFresh, RecordInv
<1>3. CASE RecordProcedure
  <2>1. Record(New("procedural", Skill, {}, {}, SuccessRate)) /\ SuccessRate \in 0..1000
    BY <1>3 DEF RecordProcedure, KGAssumption
  <2> QED BY <1>0, <2>1, NewIsFresh, RecordInv
<1>4. CASE LinkMemories
  BY <1>4, LinkInv
<1>5. CASE PgInsert \/ PgError
  BY <1>5, StoreInv
<1>6. CASE Consolidate
  BY <1>6, ConsolidateInv
<1>7. CASE ApplyConfidenceDecay
  BY <1>7, DecayInv
<1>8. CASE PruneLowConfidence
  BY <1>8, PruneInv
<1>9. CASE NextDay
  <2>1. /\ UNCHANGED <<memory, memoryEdges, conceptIndex, entityIndex, kgStats, pg, pgWrites,
                        pgFailed, nextId, night, nights, consolidated>>
        /\ today < MaxDays /\ today' = today + 1
    BY <1>9 DEF NextDay
  <2>2. KGTypes'
    <3>1. today \in 0..MaxDays /\ MaxDays \in Nat
      BY DEF KGInv, KGTypes, KGAssumption
    <3>2. \A i \in DOMAIN memory : memory[i].last_verified \in 0..MaxDays
                                  /\ memory[i].last_verified <= today
      BY DEF KGInv, KGTypes, Memory
    <3>3. today' \in 0..MaxDays /\ \A i \in DOMAIN memory' : memory'[i].last_verified <= today'
      BY <2>1, <3>1, <3>2
    <3> QED BY <2>1, <3>3 DEF KGInv, KGTypes
  <2> QED BY <2>1, <2>2 DEF KGInv, MemoryAgrees, FloorHonoured, Ids
<1>10. CASE UNCHANGED kgVars
  BY <1>10 DEF kgVars, KGInv, KGTypes, MemoryAgrees, FloorHonoured, Ids
<1> QED BY <1>1, <1>2, <1>3, <1>4, <1>5, <1>6, <1>7, <1>8, <1>9, <1>10 DEF KGNext

\* Between recording, upkeep and pruning, index, counters and memories agree;
\* what was recorded is stored, being stored or was logged as failed.
THEOREM MemoryConsistent == ASSUME KGAssumption PROVE KGSpec => []MemoryIsConsistent
<1>1. KGInit => KGInv
  BY KGInvInit
<1>2. KGInv /\ [KGNext]_kgVars => KGInv'
  BY KGInvStep
<1>3. KGInv => MemoryIsConsistent
  BY DEF KGInv, MemoryIsConsistent
<1> QED BY <1>1, <1>2, <1>3, PTL DEF KGSpec

\* However many nights and days pass, knowledge decays to the floor and not past it.
THEOREM FloorAlways == ASSUME KGAssumption PROVE KGSpec => []FloorHonoured
<1>1. KGInit => KGInv
  BY KGInvInit
<1>2. KGInv /\ [KGNext]_kgVars => KGInv'
  BY KGInvStep
<1>3. KGInv => FloorHonoured
  BY DEF KGInv
<1> QED BY <1>1, <1>2, <1>3, PTL DEF KGSpec

\* Only pruning removes a memory, and it leaves no edge or index entry behind.
THEOREM PruneComplete == ASSUME KGAssumption PROVE KGSpec => PruneLeavesNothing
<1> DEFINE Left == \A i \in DOMAIN memory \ DOMAIN memory' :
                     /\ memory[i].kind = "semantic" /\ memory[i].confidence < PruneBelow
                     /\ \A e \in memoryEdges' : i \notin {e[1], e[2]}
                     /\ \A x \in conceptIndex' \cup entityIndex' : x[2] # i
<1>1. ASSUME [KGNext]_kgVars PROVE [Left]_kgVars
  <2>1. CASE PruneLowConfidence
    <3>1. /\ memory' = [i \in DOMAIN memory \ Weak |-> memory[i]]
          /\ conceptIndex' = {x \in conceptIndex : x[2] \notin Weak}
          /\ entityIndex' = {x \in entityIndex : x[2] \notin Weak}
          /\ memoryEdges' = {e \in memoryEdges : ~Involves(e)}
      BY <2>1 DEF PruneLowConfidence
    <3>2. \A i \in DOMAIN memory \ DOMAIN memory' : i \in Weak
      BY <3>1
    <3> QED BY <3>1, <3>2 DEF Weak, Ids, Involves
  <2>2. CASE \E new : AddAll(new)
    <3>1. DOMAIN memory \ DOMAIN memory' = {}
      BY <2>2 DEF AddAll
    <3> QED BY <3>1
  <2>3. CASE DOMAIN memory' = DOMAIN memory
    BY <2>3
  <2>4. CASE RecordEpisode \/ RecordKnowledge \/ RecordProcedure \/ Consolidate
    BY <2>2, <2>4 DEF RecordEpisode, RecordKnowledge, RecordProcedure, Record, Consolidate
  <2>5. CASE LinkMemories \/ PgInsert \/ PgError \/ ApplyConfidenceDecay \/ NextDay
    BY <2>3, <2>5 DEF LinkMemories, PgInsert, PgError, ApplyConfidenceDecay, NextDay
  <2>6. CASE UNCHANGED kgVars
    BY <2>3, <2>6 DEF kgVars
  <2> QED BY <1>1, <2>1, <2>4, <2>5, <2>6 DEF KGNext
<1> QED BY <1>1, PTL DEF KGSpec, PruneLeavesNothing

-----------------------------------------------------------------------------
(***************************************************************************)
(* The pipeline. A node that never ran has a closed breaker, so start_node  *)
(* lets every ready node run; a node in a batch, or whose outcome waits to  *)
(* be applied, is Running and has one outcome, and only such a node, or one *)
(* a driver holds, changes its status: what is done stays done.             *)
(***************************************************************************)
Worked == {"Running", "Completed", "Failed", "Retrying"}
Outcome == [node : Nodes, success : BOOLEAN]

NodeTypes ==
  /\ status \in [Nodes -> Status] /\ retryCount \in [Nodes -> Nat]
  /\ breaker \in [Nodes -> Breaker] /\ failures \in [Nodes -> 0..FailureThreshold]
  /\ results \in [Nodes -> Seq(BOOLEAN)] /\ completed \in BOOLEAN

BreakersSound ==
  \A n \in Nodes : /\ breaker[n] = "Closed" => failures[n] < FailureThreshold
                   /\ status[n] = "Pending" => breaker[n] = "Closed"

DependenciesKnown == \A n \in Nodes : status[n] \in Worked => DependenciesDone(n)

NodesInv == NodeTypes /\ BreakersSound /\ DependenciesKnown /\ ReportedOnce /\ CompleteMeansTerminal

BatchInv ==
  /\ phase \in {"idle", "loop", "running", "done"}
  /\ batch \subseteq Nodes /\ outcomes \in Seq(Outcome)
  /\ phase # "running" => batch = {} /\ outcomes = <<>>
  /\ \A n \in batch : status[n] = "Running"
  /\ \A k \in 1..Len(outcomes) : /\ outcomes[k].node \notin batch
                                 /\ status[outcomes[k].node] = "Running"
  /\ \A j, k \in 1..Len(outcomes) : outcomes[j].node = outcomes[k].node => j = k

PipelineInv == NodesInv /\ BatchInv

\* One node that is not done changes its status: those that depend on it have
\* not begun.
LEMMA StatusChanges ==
  ASSUME NodesInv, NEW n \in Nodes, NEW s \in Status \ {"Pending"},
         status[n] \in {"Pending", "Running", "Retrying", "CircuitOpen"},
         s \in Worked => DependenciesDone(n), status' = [status EXCEPT ![n] = s]
  PROVE  /\ status' \in [Nodes -> Status] /\ status'[n] = s
         /\ \A m \in Nodes \ {n} : status'[m] = status[m]
         /\ DependenciesKnown'
<1>1. /\ status \in [Nodes -> Status] /\ status' \in [Nodes -> Status] /\ status'[n] = s
      /\ \A m \in Nodes \ {n} : status'[m] = status[m]
  BY DEF NodesInv, NodeTypes
<1>2. \A d \in Nodes : status[d] = "Completed" => status'[d] = "Completed"
  BY <1>1
<1>3. ASSUME NEW m \in Nodes, status'[m] \in Worked
      PROVE  \A d \in DependsOn[m] : d \in Nodes /\ status'[d] = "Completed"
  <2>1. DependenciesDone(m)
    <3>1. CASE m = n
      BY <1>1, <1>3, <3>1
    <3>2. CASE m # n
      BY <1>1, <1>3, <3>2 DEF NodesInv, DependenciesKnown
    <3> QED BY <3>1, <3>2
  <2> QED BY <1>2, <2>1 DEF DependenciesDone
<1>4. DependenciesKnown'
  BY <1>3 DEF DependenciesKnown, DependenciesDone
<1> QED BY <1>1, <1>4

\* check_completion, when a node comes to an end or goes on.
LEMMA CompletionSound ==
  ASSUME NodesInv, NEW n \in Nodes, CheckCompletion(status'), status[n] \in Status,
         \A m \in Nodes \ {n} : status'[m] = status[m],
         status[n] \in Terminal => status'[n] \in Terminal
  PROVE  completed' \in BOOLEAN /\ CompleteMeansTerminal'
<1>1. completed' = (completed \/ \A m \in Nodes : status'[m] \in Terminal)
  BY DEF CheckCompletion, AllTerminal
<1>2. completed => \A m \in Nodes : status[m] \in Terminal
  BY DEF NodesInv, CompleteMeansTerminal
<1>3. completed' => \A m \in Nodes : status'[m] \in Terminal
  BY <1>1, <1>2
<1>4. completed' \in BOOLEAN
  BY <1>1
<1> QED BY <1>3, <1>4 DEF CompleteMeansTerminal

\* complete_node, of a node that is ready, runs or is retried.
LEMMA CompleteNodeInv ==
  ASSUME PipelineAssumption, NodesInv, NEW n \in Nodes, CompleteNode(n), DependenciesDone(n),
         status[n] \in {"Pending", "Running", "Retrying"}
  PROVE  NodesInv' /\ status' = [status EXCEPT ![n] = "Completed"]
<1>1. /\ status' = [status EXCEPT ![n] = "Completed"] /\ CheckCompletion(status')
      /\ results' = [results EXCEPT ![n] = Append(@, TRUE)] /\ BreakerSucceeds(n)
      /\ retryCount' = retryCount
  BY DEF CompleteNode
<1>2. /\ status' \in [Nodes -> Status] /\ status'[n] = "Completed"
      /\ DependenciesKnown' /\ \A m \in Nodes \ {n} : status'[m] = status[m]
  BY <1>1, StatusChanges DEF Status
<1>3. completed' \in BOOLEAN /\ CompleteMeansTerminal'
  BY <1>1, <1>2, CompletionSound DEF Terminal, Status
<1>4. /\ breaker' = breaker /\ breaker \in [Nodes -> Breaker]
      /\ failures' \in [Nodes -> 0..FailureThreshold] /\ BreakersSound'
  BY <1>1, <1>2 DEF BreakerSucceeds, NodesInv, NodeTypes, BreakersSound, PipelineAssumption
<1>5. results[n] = <<>> /\ results \in [Nodes -> Seq(BOOLEAN)]
  BY DEF NodesInv, NodeTypes, ReportedOnce
<1>6. Append(results[n], TRUE) = <<TRUE>> /\ <<TRUE>> \in Seq(BOOLEAN)
  BY <1>5
<1>7. /\ results' \in [Nodes -> Seq(BOOLEAN)] /\ results'[n] = <<TRUE>>
      /\ \A m \in Nodes \ {n} : results'[m] = results[m]
  BY <1>1, <1>5, <1>6
<1>8. ReportedOnce'
  BY <1>2, <1>7 DEF NodesInv, ReportedOnce
<1>9. NodeTypes'
  BY <1>1, <1>2, <1>3, <1>4, <1>7 DEF NodesInv, NodeTypes
<1> QED BY <1>1, <1>2, <1>3, <1>4, <1>8, <1>9 DEF NodesInv

\* fail_node, likewise.
LEMMA FailNodeInv ==
  ASSUME PipelineAssumption, NodesInv, NEW n \in Nodes, FailNode(n), DependenciesDone(n),
         status[n] \in {"Pending", "Running", "Retrying"}
  PROVE  /\ NodesInv' /\ \A m \in Nodes \ {n} : status'[m] = status[m]
<1>1. /\ retryCount' = [retryCount EXCEPT ![n] = @ + 1] /\ BreakerFails(n)
      /\ CheckCompletion(status')
  BY DEF FailNode
<1>2. PICK s \in {"Retrying", "Failed"} :
        /\ status' = [status EXCEPT ![n] = s]
        /\ results' = IF s = "Failed" THEN [results EXCEPT ![n] = Append(@, FALSE)] ELSE results
  BY DEF FailNode
<1>3. /\ status' \in [Nodes -> Status] /\ status'[n] = s
      /\ DependenciesKnown' /\ \A m \in Nodes \ {n} : status'[m] = status[m]
  BY <1>2, StatusChanges DEF Status
<1>4. completed' \in BOOLEAN /\ CompleteMeansTerminal'
  BY <1>1, <1>3, CompletionSound DEF Terminal, Status
<1>5. /\ breaker' \in [Nodes -> Breaker] /\ failures' \in [Nodes -> 0..FailureThreshold]
      /\ BreakersSound'
  <2>1. /\ breaker \in [Nodes -> Breaker] /\ failures \in [Nodes -> 0..FailureThreshold]
        /\ BreakersSound /\ FailureThreshold \in Nat \ {0}
    BY DEF NodesInv, NodeTypes, PipelineAssumption
  <2>2. CASE breaker[n] = "Closed"
    <3>1. /\ failures' = [failures EXCEPT ![n] = @ + 1]
          /\ breaker' = [breaker EXCEPT ![n] = IF Trips(failures'[n]) THEN "Open" ELSE @]
      BY <1>1, <2>2 DEF BreakerFails
    <3>2. PICK f \in 1..FailureThreshold : f = failures[n] + 1
      BY <2>1, <2>2 DEF BreakersSound
    <3>3. /\ failures' \in [Nodes -> 0..FailureThreshold] /\ failures'[n] = f
          /\ \A m \in Nodes \ {n} : failures'[m] = failures[m]
      BY <2>1, <3>1, <3>2
    <3>4. /\ breaker' \in [Nodes -> Breaker]
          /\ breaker'[n] = IF f >= FailureThreshold THEN "Open" ELSE "Closed"
          /\ \A m \in Nodes \ {n} : breaker'[m] = breaker[m]
      BY <2>1, <2>2, <3>1, <3>3 DEF Trips, Breaker
    <3>5. breaker'[n] = "Closed" => failures'[n] < FailureThreshold
      BY <2>1, <3>2, <3>3, <3>4
    <3> QED BY <1>3, <2>1, <3>3, <3>4, <3>5 DEF BreakersSound
  <2>3. CASE breaker[n] # "Closed"
    <3>1. UNCHANGED <<failures, breaker>>
      BY <1>1, <2>3 DEF BreakerFails
    <3> QED BY <1>3, <2>1, <3>1 DEF BreakersSound
  <2> QED BY <2>2, <2>3
<1>6. results[n] = <<>> /\ results \in [Nodes -> Seq(BOOLEAN)]
  BY DEF NodesInv, NodeTypes, ReportedOnce
<1>7. Append(results[n], FALSE) = <<FALSE>> /\ <<FALSE>> \in Seq(BOOLEAN)
  BY <1>6
<1>8. /\ results' \in [Nodes -> Seq(BOOLEAN)]
      /\ results'[n] = IF s = "Failed" THEN <<FALSE>> ELSE <<>>
      /\ \A m \in Nodes \ {n} : results'[m] = results[m]
  BY <1>2, <1>6, <1>7
<1>9. ReportedOnce'
  BY <1>3, <1>8 DEF NodesInv, ReportedOnce
<1>10. NodeTypes'
  <2>1. retryCount' \in [Nodes -> Nat]
    BY <1>1 DEF NodesInv, NodeTypes
  <2> QED BY <1>3, <1>4, <1>5, <1>8, <2>1 DEF NodeTypes
<1> QED BY <1>3, <1>4, <1>5, <1>9, <1>10 DEF NodesInv

\* A batch is of nodes that never ran: all of them are let through.
LEMMA StartBatchInv ==
  ASSUME PipelineAssumption, PipelineInv, StartBatch PROVE PipelineInv'
<1>1. PICK b \in SUBSET Ready :
        /\ batch' = b /\ outcomes' = <<>> /\ phase' = "running" /\ ~completed
        /\ status' = [n \in Nodes |-> IF n \in b THEN StartStatus(n) ELSE status[n]]
        /\ UNCHANGED <<retryCount, breaker, failures, results, completed>>
  BY DEF StartBatch
<1>2. NodesInv /\ status \in [Nodes -> Status]
  BY DEF PipelineInv, NodesInv, NodeTypes
<1>3. ASSUME NEW n \in b
      PROVE  /\ n \in Nodes /\ status[n] = "Pending" /\ DependenciesDone(n)
             /\ status'[n] = "Running"
  <2>1. n \in Nodes /\ status[n] = "Pending" /\ DependenciesDone(n)
    BY DEF Ready, ReadyNode
  <2>2. breaker[n] = "Closed"
    BY <1>2, <2>1 DEF NodesInv, BreakersSound
  <2> QED BY <1>1, <2>1, <2>2 DEF StartStatus, ShouldAllow
<1>4. \A n \in Nodes \ b : status'[n] = status[n]
  BY <1>1
<1>5. status' \in [Nodes -> Status]
  <2>1. \A n \in Nodes : (IF n \in b THEN StartStatus(n) ELSE status[n]) \in Status
    BY <1>2 DEF StartStatus, Status
  <2> QED BY <1>1, <2>1
<1>6. \A d \in Nodes : status[d] = "Completed" => status'[d] = "Completed"
  BY <1>3, <1>4
<1>7. DependenciesKnown'
  <2> SUFFICES ASSUME NEW n \in Nodes, status'[n] \in Worked
               PROVE  \A d \in DependsOn[n] : d \in Nodes /\ status'[d] = "Completed"
    BY DEF DependenciesKnown, DependenciesDone
  <2>1. DependenciesDone(n)
    <3>1. CASE n \in b
      BY <1>3, <3>1
    <3>2. CASE n \notin b
      BY <1>2, <1>4, <3>2 DEF NodesInv, DependenciesKnown
    <3> QED BY <3>1, <3>2
  <2> QED BY <1>6, <2>1 DEF DependenciesDone
<1>8. ReportedOnce'
  <2> SUFFICES ASSUME NEW n \in Nodes
               PROVE  results'[n] = CASE status'[n] = "Completed" -> <<TRUE>>
                                      [] status'[n] = "Failed" -> <<FALSE>>
                                      [] OTHER -> <<>>
    BY DEF ReportedOnce
  <2>1. CASE n \in b
    <3>1. results[n] = <<>>
      BY <1>2, <1>3, <2>1 DEF NodesInv, ReportedOnce
    <3> QED BY <1>1, <1>3, <2>1, <3>1
  <2>2. CASE n \notin b
    BY <1>1, <1>2, <1>4, <2>2 DEF NodesInv, ReportedOnce
  <2> QED BY <2>1, <2>2
<1>9. BreakersSound'
  BY <1>1, <1>2, <1>3, <1>4 DEF NodesInv, BreakersSound
<1>10. NodesInv'
  BY <1>1, <1>2, <1>5, <1>7, <1>8, <1>9 DEF NodesInv, NodeTypes, CompleteMeansTerminal
<1>11. BatchInv'
  BY <1>1, <1>3 DEF BatchInv
<1> QED BY <1>10, <1>11 DEF PipelineInv

\* A handler returns: one outcome more, of a node that had none.
LEMMA HandlerReturnsInv ==
  ASSUME PipelineInv, NEW n \in Nodes, NEW success \in BOOLEAN, HandlerReturns(n, success)
  PROVE  PipelineInv'
<1> DEFINE o == [node |-> n, success |-> success]
<1>1. /\ n \in batch /\ batch' = batch \ {n} /\ outcomes' = Append(outcomes, o)
      /\ phase = "running" /\ phase' = phase
      /\ UNCHANGED <<status, retryCount, breaker, failures, results, completed>>
  BY DEF HandlerReturns, nodeVars
<1>2. o \in Outcome /\ o.node = n
  BY DEF Outcome
<1> HIDE DEF o
<1>3. PICK k \in Nat : k = Len(outcomes) /\ outcomes \in Seq(Outcome)
  BY DEF PipelineInv, BatchInv
<1>4. /\ outcomes' \in Seq(Outcome) /\ Len(outcomes') = k + 1 /\ outcomes'[k + 1] = o
      /\ \A i \in 1..k : outcomes'[i] = outcomes[i]
  <2>1. /\ Append(outcomes, o) \in Seq(Outcome) /\ Len(Append(outcomes, o)) = Len(outcomes) + 1
        /\ Append(outcomes, o)[Len(outcomes) + 1] = o
        /\ \A i \in 1..Len(outcomes) : Append(outcomes, o)[i] = outcomes[i]
    BY <1>2, <1>3, AppendProperties
  <2> QED BY <1>1, <1>3, <2>1, Zenon
<1>5. /\ \A i \in 1..k : outcomes[i].node \notin batch /\ status[outcomes[i].node] = "Running"
      /\ \A i, j \in 1..k : outcomes[i].node = outcomes[j].node => i = j
      /\ batch \subseteq Nodes /\ \A m \in batch : status[m] = "Running"
  BY <1>3 DEF PipelineInv, BatchInv
<1>6. ASSUME NEW i \in 1..k + 1
      PROVE  outcomes'[i].node \notin batch' /\ status[outcomes'[i].node] = "Running"
  BY <1>1, <1>2, <1>4, <1>5
<1>7. ASSUME NEW i \in 1..k + 1, NEW j \in 1..k + 1, outcomes'[i].node = outcomes'[j].node
      PROVE  i = j
  <2>1. \A x \in 1..k : outcomes'[x].node # n
    BY <1>1, <1>4, <1>5
  <2>2. outcomes'[k + 1].node = n
    BY <1>2, <1>4
  <2> QED BY <1>4, <1>5, <1>7, <2>1, <2>2
<1>8. BatchInv'
  BY <1>1, <1>4, <1>5, <1>6, <1>7 DEF BatchInv
<1>9. NodesInv'
  BY <1>1 DEF PipelineInv, NodesInv, NodeTypes, BreakersSound, DependenciesKnown, DependenciesDone,
              ReportedOnce, CompleteMeansTerminal
<1> QED BY <1>8, <1>9 DEF PipelineInv

\* The first outcome is applied, to a node that runs and has no other.
LEMMA ApplyOutcomeInv ==
  ASSUME PipelineAssumption, PipelineInv, ApplyOutcome PROVE PipelineInv'
<1>1. PICK q \in Seq(Outcome) : q = outcomes /\ q # <<>>
  BY DEF ApplyOutcome, PipelineInv, BatchInv
<1>2. PICK k \in Nat : /\ Len(q) = k + 1 /\ Head(q) = q[1] /\ Head(q) \in Outcome
                       /\ Tail(q) \in Seq(Outcome) /\ Len(Tail(q)) = k
                       /\ \A i \in 1..k : Tail(q)[i] = q[i + 1]
  <2>1. /\ Len(q) \in Nat \ {0} /\ Head(q) = q[1] /\ Head(q) \in Outcome
        /\ Tail(q) \in Seq(Outcome) /\ Len(Tail(q)) = Len(q) - 1
        /\ \A i \in 1..Len(Tail(q)) : Tail(q)[i] = q[i + 1]
    BY <1>1
  <2>2. Len(q) - 1 \in Nat /\ Len(q) = (Len(q) - 1) + 1
    BY <2>1
  <2> QED BY <2>1, <2>2, Zenon
<1>3. PICK n \in Nodes : n = q[1].node /\ n = Head(q).node
  BY <1>2 DEF Outcome
<1>4. /\ \A i \in 1..k + 1 : status[q[i].node] = "Running"
      /\ \A i, j \in 1..k + 1 : q[i].node = q[j].node => i = j
      /\ NodesInv
  BY <1>1, <1>2 DEF PipelineInv, BatchInv
<1>5. status[n] = "Running" /\ DependenciesDone(n)
  BY <1>3, <1>4 DEF NodesInv, DependenciesKnown, Worked
<1>6. CompleteNode(n) \/ FailNode(n)
  BY <1>1, <1>3 DEF ApplyOutcome
<1>7. NodesInv' /\ \A m \in Nodes \ {n} : status'[m] = status[m]
  <2>1. CASE CompleteNode(n)
    <3>1. NodesInv' /\ status' = [status EXCEPT ![n] = "Completed"]
      BY <1>4, <1>5, <2>1, CompleteNodeInv
    <3> QED BY <1>4, <3>1 DEF NodesInv, NodeTypes
  <2>2. CASE FailNode(n)
    BY <1>4, <1>5, <2>2, FailNodeInv
  <2> QED BY <1>6, <2>1, <2>2
<1>8. /\ batch = {} /\ batch' = {} /\ outcomes' = Tail(q) /\ phase = "running"
      /\ phase' = IF k + 1 = 1 THEN "loop" ELSE "running"
  BY <1>1, <1>2 DEF ApplyOutcome
<1>9. ASSUME NEW i \in 1..k PROVE status'[Tail(q)[i].node] = "Running"
  <2>1. i + 1 \in 1..k + 1 /\ 1 \in 1..k + 1 /\ i + 1 # 1 /\ Tail(q)[i] = q[i + 1]
    BY <1>2
  <2>2. q[i + 1].node \in Nodes \ {n}
    <3>1. q[i + 1] \in Outcome
      BY <1>2, <2>1
    <3> QED BY <1>3, <1>4, <2>1, <3>1 DEF Outcome
  <2> QED BY <1>4, <1>7, <2>1, <2>2
<1>10. ASSUME NEW i \in 1..k, NEW j \in 1..k, Tail(q)[i].node = Tail(q)[j].node PROVE i = j
  <2>1. i + 1 \in 1..k + 1 /\ j + 1 \in 1..k + 1
    OBVIOUS
  <2>2. i + 1 = j + 1
    BY <1>2, <1>4, <1>10, <2>1
  <2> QED BY <2>2
<1>11. k + 1 = 1 => Tail(q) = <<>>
  BY <1>2
<1>12. BatchInv'
  BY <1>2, <1>8, <1>9, <1>10, <1>11 DEF BatchInv
<1> QED BY <1>7, <1>12 DEF PipelineInv

\* What a driver does, execute not running.
LEMMA DriverInv ==
  ASSUME PipelineAssumption, PipelineInv, NEW n \in Nodes,
         StartNode(n) \/ DriverCompletes(n) \/ DriverFails(n) \/ SkipNode(n)
  PROVE  PipelineInv'
<1>1. /\ NodesInv /\ status \in [Nodes -> Status]
      /\ phase \in {"idle", "done"} /\ batch = {} /\ outcomes = <<>>
      /\ UNCHANGED <<phase, batch, outcomes>>
  BY DEF PipelineInv, BatchInv, NodesInv, NodeTypes, StartNode, DriverCompletes, DriverFails,
         SkipNode, Driving
<1>2. BatchInv'
  BY <1>1 DEF BatchInv
<1>3. Driven(n) => DependenciesDone(n) /\ status[n] \in {"Pending", "Running", "Retrying"}
  BY <1>1 DEF Driven, ReadyNode, NodesInv, DependenciesKnown, Worked
<1>4. CASE DriverCompletes(n)
  BY <1>1, <1>2, <1>3, <1>4, CompleteNodeInv DEF DriverCompletes, PipelineInv
<1>5. CASE DriverFails(n)
  BY <1>1, <1>2, <1>3, <1>5, FailNodeInv DEF DriverFails, PipelineInv
<1>6. CASE StartNode(n)
  <2>1. /\ DependenciesDone(n) /\ status[n] \in {"Pending", "Retrying"}
        /\ status' = [status EXCEPT ![n] = StartStatus(n)]
        /\ UNCHANGED <<retryCount, breaker, failures, results, completed>>
    BY <1>1, <1>6 DEF StartNode, ReadyNode, NodesInv, DependenciesKnown, Worked
  <2>2. PICK s \in {"Running", "CircuitOpen"} : s = StartStatus(n)
    BY DEF StartStatus
  <2>3. /\ status' \in [Nodes -> Status] /\ status'[n] = s
        /\ DependenciesKnown' /\ \A m \in Nodes \ {n} : status'[m] = status[m]
    BY <1>1, <2>1, <2>2, StatusChanges DEF Status
  <2>4. completed = FALSE
    BY <1>1, <2>1 DEF NodesInv, NodeTypes, CompleteMeansTerminal, Terminal
  <2>5. ReportedOnce'
    <3>1. results[n] = <<>>
      BY <1>1, <2>1 DEF NodesInv, ReportedOnce
    <3> QED BY <1>1, <2>1, <2>3, <3>1 DEF NodesInv, ReportedOnce
  <2>6. BreakersSound'
    BY <1>1, <2>1, <2>3 DEF NodesInv, BreakersSound
  <2>7. NodesInv'
    BY <1>1, <2>1, <2>3, <2>4, <2>5, <2>6 DEF NodesInv, NodeTypes, CompleteMeansTerminal
  <2> QED BY <1>2, <2>7 DEF PipelineInv
<1>7. CASE SkipNode(n)
  <2>1. /\ status[n] \in {"Pending", "Retrying", "CircuitOpen"}
        /\ status' = [status EXCEPT ![n] = "Skipped"] /\ CheckCompletion(status')
        /\ UNCHANGED <<retryCount, breaker, failures, results>>
    BY <1>7 DEF SkipNode
  <2>2. /\ status' \in [Nodes -> Status] /\ status'[n] = "Skipped"
        /\ DependenciesKnown' /\ \A m \in Nodes \ {n} : status'[m] = status[m]
    BY <1>1, <2>1, StatusChanges DEF Status, Worked
  <2>3. completed' \in BOOLEAN /\ CompleteMeansTerminal'
    BY <1>1, <2>1, <2>2, CompletionSound DEF Terminal
  <2>4. ReportedOnce'
    <3>1. results[n] = <<>>
      BY <1>1, <2>1 DEF NodesInv, ReportedOnce
    <3> QED BY <1>1, <2>1, <2>2, <3>1 DEF NodesInv, ReportedOnce
  <2>5. BreakersSound'
    BY <1>1, <2>1, <2>2 DEF NodesInv, BreakersSound
  <2>6. NodesInv'
    BY <1>1, <2>1, <2>2, <2>3, <2>4, <2>5 DEF NodesInv, NodeTypes
  <2> QED BY <1>2, <2>6 DEF PipelineInv
<1> QED BY <1>4, <1>5, <1>6, <1>7

LEMMA PipelineInvStep ==
  ASSUME PipelineAssumption, PipelineInv, [Next]_vars PROVE PipelineInv'
<1>1. CASE Execute \/ Leave
  <2>1. /\ phase' \in {"loop", "done"} /\ phase # "running"
        /\ UNCHANGED <<status, retryCount, breaker, failures, results, completed, batch, outcomes>>
    BY <1>1 DEF Execute, Leave, nodeVars
  <2>2. NodesInv'
    BY <2>1 DEF PipelineInv, NodesInv, NodeTypes, BreakersSound, DependenciesKnown,
                DependenciesDone, ReportedOnce, CompleteMeansTerminal
  <2>3. BatchInv'
    BY <2>1 DEF PipelineInv, BatchInv
  <2> QED BY <2>2, <2>3 DEF PipelineInv
<1>2. CASE StartBatch
  BY <1>2, StartBatchInv
<1>3. CASE ApplyOutcome
  BY <1>3, ApplyOutcomeInv
<1>4. ASSUME NEW n \in Nodes, NEW success \in BOOLEAN, HandlerReturns(n, success)
      PROVE  PipelineInv'
  BY <1>4, HandlerReturnsInv
<1>5. ASSUME NEW n \in Nodes, StartNode(n) \/ DriverCompletes(n) \/ DriverFails(n) \/ SkipNode(n)
      PROVE  PipelineInv'
  BY <1>5, DriverInv
<1>6. ASSUME NEW n \in Nodes, OpenTimeoutPasses(n) PROVE PipelineInv'
  <2>1. /\ breaker[n] = "Open" /\ breaker' = [breaker EXCEPT ![n] = "Elapsed"]
        /\ UNCHANGED <<status, retryCount, failures, results, completed, phase, batch, outcomes>>
    BY <1>6 DEF OpenTimeoutPasses
  <2>2. breaker' \in [Nodes -> Breaker] /\ BreakersSound'
    BY <2>1 DEF PipelineInv, NodesInv, NodeTypes, BreakersSound, Breaker
  <2>3. NodesInv'
    BY <2>1, <2>2 DEF PipelineInv, NodesInv, NodeTypes, DependenciesKnown, DependenciesDone,
                      ReportedOnce, CompleteMeansTerminal
  <2>4. BatchInv'
    BY <2>1 DEF PipelineInv, BatchInv
  <2> QED BY <2>3, <2>4 DEF PipelineInv
<1>7. CASE WaitForRunning \/ UNCHANGED vars
  <2>1. UNCHANGED vars
    BY <1>7 DEF WaitForRunning
  <2>2. NodesInv'
    BY <2>1 DEF vars, PipelineInv, NodesInv, NodeTypes, BreakersSound, DependenciesKnown,
                DependenciesDone, ReportedOnce, CompleteMeansTerminal
  <2>3. BatchInv'
    BY <2>1 DEF vars, PipelineInv, BatchInv
  <2> QED BY <2>2, <2>3 DEF PipelineInv
<1> QED BY <1>1, <1>2, <1>3, <1>4, <1>5, <1>6, <1>7 DEF Next

LEMMA PipelineInvAlways == Spec => []PipelineInv
<1>1. Init => PipelineInv
  <2> SUFFICES ASSUME Init PROVE PipelineInv
    OBVIOUS
  <2>1. <<>> \in Seq(BOOLEAN) /\ <<>> \in Seq(Outcome) /\ Len(<<>>) = 0
    OBVIOUS
  <2>5. 0 \in 0..FailureThreshold /\ 0 < FailureThreshold /\ 0 \in Nat
    BY PipelineAssumption
  <2>2. NodeTypes /\ BreakersSound
    BY <2>1, <2>5 DEF Init, NodeTypes, BreakersSound, Status, Breaker
  <2>3. DependenciesKnown /\ ReportedOnce /\ CompleteMeansTerminal
    BY DEF Init, DependenciesKnown, Worked, ReportedOnce, CompleteMeansTerminal
  <2>4. BatchInv
    BY <2>1 DEF Init, BatchInv
  <2> QED BY <2>2, <2>3, <2>4 DEF PipelineInv, NodesInv
<1>2. PipelineInv /\ [Next]_vars => PipelineInv'
  BY PipelineInvStep, PipelineAssumption
<1> QED BY <1>1, <1>2, PTL DEF Spec

\* graph/pipeline.rs: for any dependencies, retries, batch limit and threshold, with
\* a driver between two calls of execute, the state keeps its types.
THEOREM PipelineTypes == Spec => []TypeOK
<1>1. PipelineInv => TypeOK
  BY DEF PipelineInv, NodesInv, NodeTypes, BatchInv, Outcome, TypeOK
<1> QED BY <1>1, PipelineInvAlways, PTL

\* A node works, or has worked, only when all it depends on has completed.
THEOREM DependenciesFirstAlways == Spec => []DependenciesFirst
<1>1. PipelineInv => DependenciesFirst
  BY DEF PipelineInv, NodesInv, DependenciesKnown, DependenciesDone, Worked, DependenciesFirst
<1> QED BY <1>1, PipelineInvAlways, PTL

\* What completed or failed has one result and nothing else has one, however often
\* it was retried; execute is complete when every node is done for good; and no
\* handler is called behind an open circuit.
THEOREM PipelineAccountsAlways == Spec => []PipelineAccounts
<1>1. PipelineInv => PipelineAccounts
  BY DEF PipelineInv, NodesInv, BatchInv, RunsBehindBreaker, PipelineAccounts
<1> QED BY <1>1, PipelineInvAlways, PTL
=============================================================================
