---------------------------- MODULE KnowledgeGraph ----------------------------
(***************************************************************************)
(* The memory of the OODA loops: graph/knowledge_graph.rs in memory, behind *)
(* graph/unified_graph.rs, which copies what is recorded to PostgreSQL      *)
(* (graph/pg_knowledge_graph.rs) in detached tasks, and the nightly upkeep  *)
(* of loops/ooda_loop.rs: consolidate, decay, prune, each under a lock of   *)
(* its own. Confidences are in thousandths, a day is one half-life.         *)
(***************************************************************************)
EXTENDS Integers, FiniteSets, Sequences

CONSTANTS Pattern,        \* pairs of event type and outcome of an episode
          Word,           \* words of descriptions that are long enough to index
          Participant,
          RecordedConfidence, \* confidences a caller records knowledge with
          MinOccurrences, MinConfidence, PruneBelow,
          SuccessRate,    \* of a recorded procedure
          MaxRecorded, MaxMemories, MaxLinks, MaxDays, MaxNights    \* bounds

VARIABLES memory,         \* nodes: id -> memory
          memoryEdges,    \* edges: set of <<source, target>>
          conceptIndex,   \* concept_index: set of <<concept or word, id>>
          entityIndex,    \* entity_index: set of <<participant, id>>
          kgStats,        \* total_nodes, semantic_count, total_edges
          pg,             \* ids of the rows of the kg_*_memories tables
          pgWrites,       \* spawned tasks that have not inserted their row yet
          pgFailed,       \* ids whose insert failed: logged, not repeated
          nextId,         \* Uuid::new_v4
          today,
          night,          \* what the slow loop does next: idle, decay, prune
          nights,         \* bound: runs of the upkeep
          consolidated    \* history: memories that consolidation made

kgVars == <<memory, memoryEdges, conceptIndex, entityIndex, kgStats, pg, pgWrites,
            pgFailed, nextId, today, night, nights, consolidated>>

KGInit == /\ memory = [i \in {} |-> 0] /\ memoryEdges = {} /\ conceptIndex = {}
          /\ entityIndex = {}
          /\ kgStats = [total_nodes |-> 0, semantic_count |-> 0, total_edges |-> 0]
          /\ pg = {} /\ pgWrites = {} /\ pgFailed = {}
          /\ nextId = 1 /\ today = 0 /\ night = "idle" /\ nights = 0 /\ consolidated = {}

Skill == <<"skill", "any">>
LearningPattern == <<"learning_pattern", "any">>
TransactionOutcome(p) == <<"transaction_outcome", p[2]>>
Concept == Pattern \cup {TransactionOutcome(p) : p \in Pattern} \cup {LearningPattern, Skill}

Memory == [kind : {"episodic", "semantic", "procedural"}, concept : Concept,
           words : SUBSET Word, participants : SUBSET Participant,
           confidence : 0..1000, initial : 0..1000, last_verified : 0..MaxDays]

Ids(kind) == {i \in DOMAIN memory : memory[i].kind = kind}

\* add_episodic, add_semantic, add_procedural: node, indexes, counters. Knowledge
\* and skills are found under their concept; an episode under the words of its
\* description that are among the first five and longer than three bytes, which
\* may be none, and under those who took part. A word said twice is one entry.
IndexKeys(m) == IF m.kind = "episodic" THEN m.words ELSE {m.concept}
IndexEntries(new) == UNION {IndexKeys(new[i]) \X {i} : i \in DOMAIN new}
EntityEntries(new) == UNION {new[i].participants \X {i} : i \in DOMAIN new}
AddAll(new) ==
  /\ memory' = [i \in DOMAIN memory \cup DOMAIN new |->
                  IF i \in DOMAIN new THEN new[i] ELSE memory[i]]
  /\ conceptIndex' = conceptIndex \cup IndexEntries(new)
  /\ entityIndex' = entityIndex \cup EntityEntries(new)
  /\ kgStats' = [kgStats EXCEPT !.total_nodes = @ + Cardinality(DOMAIN new),
                   !.semantic_count =
                      @ + Cardinality({i \in DOMAIN new : new[i].kind = "semantic"})]
  /\ nextId' = nextId + Cardinality(DOMAIN new)

\* record_episode, record_knowledge, record_procedure.
New(kind, concept, words, participants, confidence) ==
  [kind |-> kind, concept |-> concept, words |-> words, participants |-> participants,
   confidence |-> confidence, initial |-> confidence, last_verified |-> today]
Record(new) ==
  /\ nextId <= MaxMemories /\ Cardinality(1..nextId - 1 \ consolidated) < MaxRecorded
  /\ AddAll([i \in {nextId} |-> new])
  /\ pgWrites' = pgWrites \cup {nextId}
  /\ UNCHANGED <<memoryEdges, pg, pgFailed, today, night, nights, consolidated>>

RecordEpisode ==
  \E p \in Pattern, ws \in SUBSET Word, who \in SUBSET Participant :
    Record(New("episodic", p, ws, who, 1000))
RecordKnowledge ==
  \E p \in Pattern, c \in RecordedConfidence : Record(New("semantic", p, {}, {}, c))
RecordProcedure == Record(New("procedural", Skill, {}, {}, SuccessRate))

\* link_memories, by a caller that holds two ids it was given earlier.
LinkMemories ==
  /\ Cardinality(memoryEdges) < MaxLinks
  /\ \E a, b \in 1..nextId - 1 :
       /\ <<a, b>> \notin memoryEdges /\ a < b
       /\ memoryEdges' = memoryEdges \cup {<<a, b>>}
  /\ kgStats' = [kgStats EXCEPT !.total_edges = @ + 1]
  /\ UNCHANGED <<memory, conceptIndex, entityIndex, pg, pgWrites, pgFailed, nextId, today,
                 night, nights, consolidated>>

\* A spawned task inserts its row (ON CONFLICT DO UPDATE), or fails.
PgInsert ==
  /\ \E i \in pgWrites : pg' = pg \cup {i} /\ pgWrites' = pgWrites \ {i}
  /\ UNCHANGED <<memory, memoryEdges, conceptIndex, entityIndex, kgStats, pgFailed, nextId, today,
                 night, nights, consolidated>>
PgError ==
  /\ \E i \in pgWrites : pgFailed' = pgFailed \cup {i} /\ pgWrites' = pgWrites \ {i}
  /\ UNCHANGED <<memory, memoryEdges, conceptIndex, entityIndex, kgStats, pg, nextId, today, night,
                 nights, consolidated>>

-----------------------------------------------------------------------------
(* The slow loop.                                                          *)

Episodes(p) == {i \in Ids("episodic") : memory[i].concept = p}
Lessons == {i \in Ids("episodic") : memory[i].concept[1] = "Learning"}
Frequent == {p \in Pattern : Cardinality(Episodes(p)) >= MinOccurrences}
CountConfidence(n) == IF (1000 * n) \div (n + 10) < 950 THEN (1000 * n) \div (n + 10) ELSE 950

\* consolidate_with_categories: what is known of each outcome that transactions
\* had often enough, of the learning events together, and of every frequent
\* pattern (consolidate_episodes), transactions and learning among them.
Learned ==
  {[concept |-> p, count |-> Cardinality(Episodes(p))] : p \in Frequent}
  \cup {[concept |-> TransactionOutcome(p), count |-> Cardinality(Episodes(p))] :
          p \in {q \in Frequent : q[1] = "Transaction"}}
  \cup IF Lessons # {} /\ Cardinality(Lessons) >= MinOccurrences
       THEN {[concept |-> LearningPattern, count |-> Cardinality(Lessons)]} ELSE {}

\* consolidate_memories: a new semantic memory for each, every night anew. They
\* go into memory only.
Consolidate ==
  /\ night = "idle" /\ nights < MaxNights
  /\ nextId + Cardinality(Learned) <= MaxMemories + 1
  /\ \E ls \in [1..Cardinality(Learned) -> Learned] :
       /\ \A i, j \in DOMAIN ls : i # j => ls[i] # ls[j]
       /\ AddAll([i \in nextId..nextId + Len(ls) - 1 |->
            LET l == ls[i - nextId + 1]
            IN New("semantic", l.concept, {}, {}, CountConfidence(l.count))])
  /\ consolidated' = consolidated \cup nextId..nextId' - 1
  /\ night' = "decay" /\ nights' = nights + 1
  /\ UNCHANGED <<memoryEdges, pg, pgWrites, pgFailed, today>>

\* apply_confidence_decay. last_verified stays: the next night counts the days
\* that were counted already once more.
PowerOfTwo[n \in 0..MaxDays] == IF n = 0 THEN 1 ELSE 2 * PowerOfTwo[n - 1]
Halved(c, days) == c \div PowerOfTwo[days]
Unfloored(m) == Halved(m.confidence, today - m.last_verified)    \* fault: no floor
AtLeast(c) == IF c < MinConfidence THEN MinConfidence ELSE c
DecayedTo(m) == AtLeast(Halved(m.confidence, today - m.last_verified))
Decayed(m) ==
  IF m.kind = "episodic" THEN m
  ELSE LET c == IF m.kind = "semantic" THEN DecayedTo(m)
                ELSE IF m.confidence > MinConfidence
                     THEN AtLeast((m.confidence * 98) \div 100) ELSE m.confidence
       IN IF c < m.confidence THEN [m EXCEPT !.confidence = c] ELSE m
ApplyConfidenceDecay ==
  /\ night = "decay" /\ night' = "prune"
  /\ memory' = [i \in DOMAIN memory |-> Decayed(memory[i])]
  /\ kgStats' = [kgStats EXCEPT !.semantic_count = Cardinality(Ids("semantic"))]
  /\ UNCHANGED <<memoryEdges, conceptIndex, entityIndex, pg, pgWrites, pgFailed, nextId, today,
                 nights, consolidated>>

\* prune_low_confidence. semantic_count stays as it was.
Weak == {i \in Ids("semantic") : memory[i].confidence < PruneBelow}
SourceOnly(e) == e[1] \in Weak                                   \* fault: targets kept
Involves(e) == e[1] \in Weak \/ e[2] \in Weak
PruneLowConfidence ==
  /\ night = "prune" /\ night' = "idle"
  /\ memory' = [i \in DOMAIN memory \ Weak |-> memory[i]]
  /\ conceptIndex' = {x \in conceptIndex : x[2] \notin Weak}
  /\ entityIndex' = {x \in entityIndex : x[2] \notin Weak}
  /\ memoryEdges' = {e \in memoryEdges : ~Involves(e)}
  /\ kgStats' = [kgStats EXCEPT !.total_nodes = Cardinality(DOMAIN memory'),
                                !.total_edges = Cardinality(memoryEdges')]
  /\ UNCHANGED <<pg, pgWrites, pgFailed, nextId, today, nights, consolidated>>

NextDay == /\ today < MaxDays /\ today' = today + 1
           /\ UNCHANGED <<memory, memoryEdges, conceptIndex, entityIndex, kgStats, pg, pgWrites,
                          pgFailed, nextId, night, nights, consolidated>>

KGNext == \/ RecordEpisode \/ RecordKnowledge \/ RecordProcedure \/ LinkMemories
          \/ PgInsert \/ PgError
          \/ Consolidate \/ ApplyConfidenceDecay \/ PruneLowConfidence \/ NextDay

KGSpec == KGInit /\ [][KGNext]_kgVars

\* Confidences are between none and all of a thousand.
KGAssumption ==
  /\ IsFiniteSet(Pattern) /\ Pattern \subseteq STRING \X STRING
  /\ RecordedConfidence \subseteq 0..1000 /\ SuccessRate \in 0..1000
  /\ MinConfidence \in 0..1000 /\ MaxDays \in Nat

-----------------------------------------------------------------------------
KGTypeOK == /\ \A i \in DOMAIN memory : memory[i] \in Memory
            /\ DOMAIN memory \subseteq 1..nextId - 1 /\ pg \subseteq 1..nextId - 1
            /\ night \in {"idle", "decay", "prune"}

\* Between recording, nightly upkeep and pruning under separate locks, the index
\* finds a memory under each of its words or its concept, and under nothing
\* else, those who took part find it too, neither finds what is gone, and the
\* counters count what there is. What was recorded is stored, being stored, or its
\* failure was logged; only consolidated knowledge is never handed to PostgreSQL.
MemoryAgrees ==
  /\ conceptIndex = UNION {IndexKeys(memory[i]) \X {i} : i \in DOMAIN memory}
  /\ entityIndex = UNION {memory[i].participants \X {i} : i \in DOMAIN memory}
  /\ kgStats.total_nodes = Cardinality(DOMAIN memory)
  /\ kgStats.total_edges = Cardinality(memoryEdges)
  /\ DOMAIN memory \subseteq consolidated \cup pg \cup pgWrites \cup pgFailed

\* Decay stops at the floor, in any number of nights and days, and takes
\* nothing that began below it any further down.
FloorHonoured ==
  \A i \in Ids("semantic") :
    memory[i].confidence >= IF memory[i].initial < MinConfidence THEN memory[i].initial
                            ELSE MinConfidence

\* Nodes, index, counters and rows agree, and what is known keeps its floor.
MemoryIsConsistent == MemoryAgrees /\ FloorHonoured

\* A pruned memory leaves no edge and no index entry behind, whatever was
\* linked since the night began; nothing else ever removes a memory.
PruneLeavesNothing ==
  [][\A i \in DOMAIN memory \ DOMAIN memory' :
       /\ memory[i].kind = "semantic" /\ memory[i].confidence < PruneBelow
       /\ \A e \in memoryEdges' : i \notin {e[1], e[2]}
       /\ \A x \in conceptIndex' \cup entityIndex' : x[2] # i]_kgVars

\* knowledge_graph.rs:541: "confidence halves every N days since last update".
HalvesPerHalfLife ==
  \A i \in Ids("semantic") :
    memory[i].confidence >= Halved(memory[i].initial, today - memory[i].last_verified)

\* unified_graph.rs:11: "Automatic persistence of in-memory graph to PostgreSQL".
AutomaticallyPersisted ==
  pgWrites = {} => DOMAIN memory \subseteq pg \cup pgFailed
=============================================================================
