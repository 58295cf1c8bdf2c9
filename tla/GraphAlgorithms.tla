-------------------------- MODULE GraphAlgorithms ---------------------------
(***************************************************************************)
(* graph/algorithms.rs: the analytics on AlgorithmGraph. Both adjacency     *)
(* maps are read off one list of arcs in the order they were added. Label   *)
(* propagation is a state machine of its own, since which of the labels     *)
(* with equal votes wins is the order of a HashMap.                         *)
(***************************************************************************)
EXTENDS Integers, FiniteSets, Sequences, SequencesExt, TLC

CONSTANTS Entities,       \* node ids: numbers, their order being that of the Uuids
          ArcMenu,        \* bound: the arcs that may be added, in this order
          Heuristics,     \* heuristics tried, for the target Goal
          Start, Goal,
          MaxIterations   \* of label propagation (50 in the code)

VARIABLES arcs,           \* <<from, to, weight>> in the order of add_edge
          menuAt,         \* bound: how far the menu was read
          membership,     \* community of each node, <<>> before detect_communities
          turn,           \* next node of the iteration, counted
          iteration, relabelled,
          detecting

gaVars == <<arcs, menuAt, membership, turn, iteration, relabelled, detecting>>

GAInit == /\ arcs = <<>> /\ menuAt = 0
          /\ membership = <<>> /\ turn = 0 /\ iteration = 0 /\ relabelled = FALSE
          /\ detecting = FALSE

\* add_edge, or add_undirected_edge, of the next arc of the menu; or not.
AddArc(undirected) ==
  /\ menuAt < Len(ArcMenu) /\ ~detecting /\ membership = <<>>
  /\ menuAt' = menuAt + 1
  /\ LET arc == ArcMenu[menuAt + 1]
     IN arcs' = arcs \o IF undirected THEN <<arc, <<arc[2], arc[1], arc[3]>>>> ELSE <<arc>>
  /\ UNCHANGED <<membership, turn, iteration, relabelled, detecting>>
LeaveOut ==
  /\ menuAt < Len(ArcMenu) /\ ~detecting /\ membership = <<>>
  /\ menuAt' = menuAt + 1
  /\ UNCHANGED <<arcs, membership, turn, iteration, relabelled, detecting>>

NodeIds == {a[1] : a \in ToSet(arcs)} \cup {a[2] : a \in ToSet(arcs)}
Out(n) == SelectSeq(arcs, LAMBDA a : a[1] = n)
In(n) == SelectSeq(arcs, LAMBDA a : a[2] = n)
Total(f, dom) == FoldSet(LAMBDA k, acc : acc + f[k], 0, dom)

-----------------------------------------------------------------------------
(* shortest_path, a_star, greedy_best_first: one loop around a heap, told   *)
(* apart by the key and by what is skipped. Equal keys pop by node id.      *)

None == [path |-> <<>>, total_weight |-> 0]

Key(kind, g, h, n) == CASE kind = "dijkstra" -> g
                        [] kind = "a_star" -> g + h[n]
                        [] kind = "greedy" -> h[n]

PopsFirst(heap) == CHOOSE e \in heap : \A o \in heap :
                     e[1] < o[1] \/ (e[1] = o[1] /\ e[2] <= o[2])

Improves(g, m, new) == m \notin DOMAIN g \/ new < g[m]
Worsens(g, m, new) == m \notin DOMAIN g \/ new > g[m]      \* fault: > for <
Relax(kind, h, s, n) ==      \* the edges of n, from search state s
  FoldLeft(LAMBDA acc, a :
    LET m == a[2]
        new == acc.g[n] + a[3]
    IN IF m \in acc.closed \/ ~Improves(acc.g, m, new) THEN acc
       ELSE [heap |-> acc.heap \cup {<<Key(kind, new, h, m), m>>}, closed |-> acc.closed,
             g |-> [k \in DOMAIN acc.g \cup {m} |-> IF k = m THEN new ELSE acc.g[k]],
             prev |-> [k \in DOMAIN acc.prev \cup {m} |-> IF k = m THEN n ELSE acc.prev[k]]],
    s, Out(n))

RECURSIVE PathTo(_, _)
PathTo(prev, path) == IF prev[Head(path)] = Head(path) THEN path
                      ELSE PathTo(prev, <<prev[Head(path)]>> \o path)

RECURSIVE Search(_, _, _, _)
Search(kind, h, to, s) ==
  IF s.heap = {} THEN None
  ELSE LET top == PopsFirst(s.heap)
           n == top[2]
           popped == [s EXCEPT !.heap = @ \ {top}]
           stale == IF kind = "dijkstra" THEN top[1] > s.g[n] ELSE n \in s.closed
           closing == IF kind = "dijkstra" THEN popped
                      ELSE [popped EXCEPT !.closed = @ \cup {n}]
           skipped == kind = "a_star" /\ top[1] > Key(kind, s.g[n], h, n)
       IN IF n = to THEN [path |-> PathTo(s.prev, <<to>>),
                          total_weight |-> IF kind = "dijkstra" THEN top[1] ELSE s.g[to]]
          ELSE IF stale THEN Search(kind, h, to, popped)
          ELSE IF skipped THEN Search(kind, h, to, closing)
          ELSE Search(kind, h, to, Relax(kind, h, closing, n))

Find(kind, h, from, to) ==
  IF from = to THEN [path |-> <<from>>, total_weight |-> 0]
  ELSE Search(kind, h, to, [heap |-> {<<Key(kind, 0, h, from), from>>}, closed |-> {},
                            g |-> [k \in {from} |-> 0], prev |-> [k \in {from} |-> from]])

NoHint == [n \in Entities |-> 0]
ShortestPath(from, to) == Find("dijkstra", NoHint, from, to)
AStar(from, to, h) == Find("a_star", h, from, to)
GreedyBestFirst(from, to, h) == Find("greedy", h, from, to)

-----------------------------------------------------------------------------
(* k_core_decomposition, by peeling.                                       *)

Around(n) == {a[2] : a \in ToSet(Out(n))} \cup {a[1] : a \in ToSet(In(n))}

\* Removing a node from the queue lowers the degrees of its neighbours, which
\* may join the queue: the order does not matter.
RECURSIVE Peel(_, _, _)
Peel(k, removed, degree) ==
  LET low == {n \in NodeIds \ removed : degree[n] <= k}
  IN IF low = {} THEN [removed |-> removed, degree |-> degree]
     ELSE LET n == CHOOSE n \in low : TRUE
          IN Peel(k, removed \cup {n},
                  [m \in NodeIds |-> IF m \in Around(n) \ (removed \cup {n}) /\ degree[m] > 0
                                     THEN degree[m] - 1 ELSE degree[m]])

OutOnly(n) == Cardinality({a[2] : a \in ToSet(Out(n))})     \* fault: reverse arcs forgotten
StartDegree(n) == Cardinality(Around(n))

RECURSIVE Cores(_, _, _)
Cores(k, removed, degree) ==
  IF removed = NodeIds THEN [n \in {} |-> 0]
  ELSE LET p == Peel(k, removed, degree)
           rest == Cores(k + 1, p.removed, p.degree)
       IN [n \in (p.removed \ removed) \cup DOMAIN rest |->
             IF n \in p.removed THEN k ELSE rest[n]]
KCoreDecomposition == Cores(0, {}, [n \in NodeIds |-> StartDegree(n)])

-----------------------------------------------------------------------------
(* betweenness_centrality (Brandes), in units of 1/Share, not normalised.   *)

Share == 144

\* b: queue, stack of visited nodes, dist, sigma, predecessors.
DiscoverArc(b, v, w) ==
  LET seen == IF w \in DOMAIN b.dist THEN b
              ELSE [b EXCEPT !.queue = Append(@, w),
                             !.dist = [n \in DOMAIN b.dist \cup {w} |->
                                         IF n = w THEN b.dist[v] + 1 ELSE b.dist[n]]]
  IN IF seen.dist[w] # seen.dist[v] + 1 THEN seen
     ELSE [seen EXCEPT !.sigma[w] = @ + b.sigma[v], !.preds[w] = Append(@, v)]

RECURSIVE CountPaths(_)
CountPaths(b) ==
  IF b.queue = <<>> THEN b
  ELSE LET v == Head(b.queue)
       IN CountPaths(FoldLeft(LAMBDA acc, a : DiscoverArc(acc, v, a[2]),
                              [b EXCEPT !.queue = Tail(@), !.stack = <<v>> \o @], Out(v)))

OwnShare(sigma, v, w, delta) == Share                     \* fault: no delta, no quotient
PassedOn(sigma, v, w, delta) == (sigma[v] * (Share + delta[w])) \div sigma[w]

\* The dependencies of the other nodes on each node, from one source.
Dependencies(source) ==
  LET b == CountPaths([queue |-> <<source>>, stack |-> <<>>, dist |-> [n \in {source} |-> 0],
                       sigma |-> [n \in NodeIds |-> IF n = source THEN 1 ELSE 0],
                       preds |-> [n \in NodeIds |-> <<>>]])
  IN FoldLeft(LAMBDA delta, w :
       FoldLeft(LAMBDA d, v : [d EXCEPT ![v] = @ + PassedOn(b.sigma, v, w, d)], delta, b.preds[w]),
       [n \in NodeIds |-> 0], b.stack)
Betweenness == [n \in NodeIds |-> Total([s \in NodeIds |-> Dependencies(s)[n]], NodeIds \ {n})]

-----------------------------------------------------------------------------
(* pagerank, in units of 1/Unit; damping 1/2 here. Two iterations divide    *)
(* nothing that does not come out even.                                    *)

Unit == 12 * 24 * 24

Leaks(ranks) == 0                                  \* fault: dangling nodes keep theirs
DanglingRank(ranks) == Total(ranks, {n \in NodeIds : Out(n) = <<>>})
PowerStep(ranks) ==
  [n \in NodeIds |->
     LET N == Cardinality(NodeIds)
     IN (Unit \div (2 * N)) + (DanglingRank(ranks) \div (2 * N))
        + FoldSeq(LAMBDA a, acc : acc + (ranks[a[1]] \div (2 * Len(Out(a[1])))), 0, In(n))]
PageRank2 == PowerStep(PowerStep([n \in NodeIds |-> Unit \div Cardinality(NodeIds)]))

-----------------------------------------------------------------------------
(* detect_communities.                                                     *)

Order == SetToSortSeq(NodeIds, LAMBDA a, b : a < b)

DetectCommunities ==
  /\ ~detecting /\ membership = <<>> /\ arcs # <<>> /\ menuAt = Len(ArcMenu)
  /\ membership' = [n \in NodeIds |-> n]
  /\ turn' = 1 /\ iteration' = 1 /\ relabelled' = FALSE /\ detecting' = TRUE
  /\ UNCHANGED <<arcs, menuAt>>

Votes(n, c) == FoldSeq(LAMBDA a, acc : acc + (IF membership[a[2]] = c THEN a[3] ELSE 0), 0, Out(n))
Labels(n) == {membership[a[2]] : a \in ToSet(Out(n))}
AnyLabel(n) == {membership[m] : m \in NodeIds}      \* fault: labels from anywhere
BestLabels(n) == {c \in Labels(n) : \A d \in Labels(n) : Votes(n, c) >= Votes(n, d)}

Relabel ==
  /\ detecting /\ turn <= Len(Order)
  /\ LET n == Order[turn]
     IN IF BestLabels(n) = {} THEN UNCHANGED <<membership, relabelled>>
        ELSE \E c \in BestLabels(n) :
               /\ membership' = [membership EXCEPT ![n] = c]
               /\ relabelled' = (relabelled \/ c # membership[n])
  /\ turn' = turn + 1
  /\ UNCHANGED <<arcs, menuAt, iteration, detecting>>

EndIteration ==
  /\ detecting /\ turn > Len(Order)
  /\ IF relabelled /\ iteration < MaxIterations
     THEN /\ iteration' = iteration + 1 /\ turn' = 1 /\ relabelled' = FALSE
          /\ UNCHANGED detecting
     ELSE detecting' = FALSE /\ UNCHANGED <<iteration, turn, relabelled>>
  /\ UNCHANGED <<arcs, menuAt, membership>>

GANext == \/ \E u \in BOOLEAN : AddArc(u)
          \/ LeaveOut \/ DetectCommunities \/ Relabel \/ EndIteration

-----------------------------------------------------------------------------
(* References and properties.                                              *)

GATypeOK == /\ ToSet(arcs) \subseteq Entities \X Entities \X Nat
            /\ membership = <<>> \/ membership \in [NodeIds -> NodeIds]

\* Least weight of the walks with at most k arcs, -1 if there is none.
RECURSIVE Least(_, _, _)
Least(k, from, to) ==
  IF from = to THEN 0
  ELSE IF k = 0 THEN -1
  ELSE LET ways == {<<a[3], Least(k - 1, a[2], to)>> : a \in ToSet(Out(from))}
           sums == {w[1] + w[2] : w \in {v \in ways : v[2] >= 0}}
       IN IF sums = {} THEN -1 ELSE CHOOSE s \in sums : \A o \in sums : s <= o
Distance(from, to) == Least(Cardinality(Entities), from, to)

\* A way from -> to along arcs, of just that weight: by the cheapest arc
\* between each two nodes, which is what the relaxation keeps.
IsPath(r, from, to) ==
  /\ r.path # <<>> /\ r.path[1] = from /\ r.path[Len(r.path)] = to
  /\ \A i \in 1..Len(r.path) - 1 : \E a \in ToSet(arcs) : a[1] = r.path[i] /\ a[2] = r.path[i + 1]
  /\ r.total_weight =
       Total([i \in 1..Len(r.path) - 1 |->
                LET ws == {a[3] : a \in {b \in ToSet(arcs) : b[1] = r.path[i] /\ b[2] = r.path[i + 1]}}
                IN CHOOSE w \in ws : \A v \in ws : w <= v],
             1..Len(r.path) - 1)

Exact(r, from, to) == IF Distance(from, to) = -1 THEN r = None
                      ELSE IsPath(r, from, to) /\ r.total_weight = Distance(from, to)

Consistent(h) == h[Goal] = 0 /\ \A a \in ToSet(arcs) : h[a[1]] <= a[3] + h[a[2]]
Admissible(h) == \A n \in Entities : Distance(n, Goal) # -1 => h[n] <= Distance(n, Goal)

\* shortest_path is a shortest path, a_star too under a consistent heuristic,
\* and greedy_best_first and a_star under any other one find some path exactly
\* when there is one, and report its own weight: parallel arcs, stale heap
\* entries and nodes improved after they were pushed included.
PathsAreExact ==
  /\ \A n \in Entities : Exact(ShortestPath(n, Goal), n, Goal)
  /\ \A h \in Heuristics :
       LET a == AStar(Start, Goal, h)
           g == GreedyBestFirst(Start, Goal, h)
       IN /\ Consistent(h) => Exact(a, Start, Goal)
          /\ \A r \in {a, g} : IF Distance(Start, Goal) = -1 THEN r = None
                               ELSE IsPath(r, Start, Goal)

\* The comment on a_star: "Guarantees optimal path when the heuristic is
\* admissible (never overestimates)" (algorithms.rs:690). A closed node is never
\* opened again, so a heuristic that is admissible and not consistent misses the
\* shortest path: this is false of the code, and PathsAreExact does not say it.
AStarOptimal ==
  \A h \in Heuristics : Admissible(h) => Exact(AStar(Start, Goal, h), Start, Goal)

\* A node's core number is the largest k such that it is in a set of nodes that
\* all have k neighbours in it, whichever direction the arcs have.
Dense(S, k) == \A n \in S : Cardinality(Around(n) \cap S) >= k
CoresAreExact ==
  \A n \in NodeIds :
    /\ n \in DOMAIN KCoreDecomposition
    /\ \E S \in SUBSET NodeIds : n \in S /\ Dense(S, KCoreDecomposition[n])
    /\ \A S \in SUBSET NodeIds : n \in S => ~Dense(S, KCoreDecomposition[n] + 1)

\* Walks of k arcs from a to b, parallel arcs counted apart.
RECURSIVE WalkCount(_, _, _)
WalkCount(k, a, b) == IF k = 0 THEN IF a = b THEN 1 ELSE 0
                      ELSE FoldSeq(LAMBDA x, acc : acc + WalkCount(k - 1, x[2], b), 0, Out(a))
Hops(a, b) == {k \in 0..Cardinality(Entities) : WalkCount(k, a, b) > 0}
HopDistance(a, b) == IF Hops(a, b) = {} THEN 99
                     ELSE CHOOSE k \in Hops(a, b) : \A l \in Hops(a, b) : k <= l
Geodesics(a, b) == WalkCount(HopDistance(a, b), a, b)

\* Brandes' one pass per source (algorithms.rs:440) gives each node the share of the
\* shortest paths between all other pairs that go through it, along the arcs'
\* direction. By this definition a node no arc enters has 0; the test at
\* algorithms.rs:1418 says of such a node, the centre of a star that points
\* outwards, that it has the most and more than 0, which the code contradicts.
BetweennessIsExact ==
  \A v \in NodeIds :
    Betweenness[v] =
      Total([p \in (NodeIds \ {v}) \X (NodeIds \ {v}) |->
               IF p[1] # p[2] /\ HopDistance(p[1], p[2]) < 99
                  /\ HopDistance(p[1], v) + HopDistance(v, p[2]) = HopDistance(p[1], p[2])
               THEN (Share * Geodesics(p[1], v) * Geodesics(v, p[2])) \div Geodesics(p[1], p[2])
               ELSE 0],
            (NodeIds \ {v}) \X (NodeIds \ {v}))

\* PageRank stays a distribution: nothing leaks through nodes without outgoing
\* arcs, self loops or parallel arcs.
RankIsConserved == NodeIds # {} => Total(PageRank2, NodeIds) = Unit

Linked[k \in Nat, n \in Entities] ==
  IF k = 0 THEN {n} ELSE Linked[k - 1, n] \cup UNION {Around(m) : m \in Linked[k - 1, n]}

\* A community never spans two parts of the graph that no arc connects, and once
\* an iteration changed nothing every node is with most of its neighbours.
CommunitiesHold ==
  membership # <<>> =>
    /\ \A n \in NodeIds : membership[n] \in Linked[Cardinality(Entities), n]
    /\ ~detecting /\ ~relabelled =>
         \A n \in NodeIds : BestLabels(n) # {} => membership[n] \in BestLabels(n)

\* The functions of the graph are looked at once per graph, before communities.
GraphAnalyticsExact ==
  (membership = <<>> => PathsAreExact /\ CoresAreExact
                       /\ RankIsConserved /\ BetweennessIsExact) /\ CommunitiesHold

-----------------------------------------------------------------------------
(***************************************************************************)
(* The functions of graph/pipeline.rs on a DAG's shape: topological_levels, *)
(* node_depth and validate, on every small set of nodes and dependencies,   *)
(* cyclic and dangling ones included, and on the standard pipeline.         *)
(***************************************************************************)

CONSTANT PipelineName     \* names of nodes, and of dependencies that may not exist

VARIABLE dependsOn        \* node -> set of names

DagNodes == DOMAIN dependsOn

\* standard_intelligence_pipeline.
Collecting ==
  [n \in {"sync_transactions", "sync_market_data", "sync_external"} |-> {}]
  @@ ("anonymize" :> {"sync_transactions", "sync_market_data", "sync_external"})
  @@ ("aggregate" :> {"anonymize"})
Analyzing == [n \in {"analyze_patterns", "analyze_credit", "analyze_market"} |-> {"aggregate"}]
Generating ==
  ("generate_reports" :> {"analyze_patterns", "analyze_credit", "analyze_market"})
  @@ ("generate_signals" :> {"analyze_patterns", "analyze_market"})
  @@ ("distribute" :> {"generate_reports", "generate_signals"})
StandardPipeline == Collecting @@ Analyzing @@ Generating
IsStandard == "distribute" \in DagNodes

DagInit == dependsOn = [n \in {} |-> {}]
NewStandardPipeline == DagNodes = {} /\ dependsOn' = StandardPipeline
InsertNode(n) ==
  /\ n \notin DagNodes /\ ~IsStandard
  /\ dependsOn' = [m \in DagNodes \cup {n} |-> IF m \in DagNodes THEN dependsOn[m] ELSE {}]
AddDependency(n, d) ==
  /\ n \in DagNodes
  /\ dependsOn' = [dependsOn EXCEPT ![n] = @ \cup {d}]
DagNext == \/ NewStandardPipeline
           \/ \E n \in PipelineName : InsertNode(n)
           \/ \E n, d \in PipelineName : AddDependency(n, d)

AnyAssigned(n, assigned) ==                        \* fault: any() for all()
  dependsOn[n] = {} \/ dependsOn[n] \cap assigned # {}
AllAssigned(n, assigned) == dependsOn[n] \subseteq assigned

RECURSIVE LevelsFrom(_)
LevelsFrom(assigned) ==
  LET remaining == DagNodes \ assigned
      level == {n \in remaining : AllAssigned(n, assigned)}
  IN IF remaining = {} THEN <<>>
     ELSE IF level = {} THEN <<remaining>>         \* cycle or broken dependency
     ELSE <<level>> \o LevelsFrom(assigned \cup level)
TopologicalLevels == LevelsFrom({})

\* compute_depth with its memo, which changes nothing; on a cycle it never returns.
RECURSIVE NodeDepth(_)
NodeDepth(n) ==
  IF n \notin DagNodes \/ dependsOn[n] = {} THEN 0
  ELSE LET depths == {NodeDepth(d) : d \in dependsOn[n]}
       IN 1 + CHOOSE x \in depths : \A y \in depths : y <= x

\* detect_cycle; on a cycle in_stack keeps what is on the way to it.
RECURSIVE DetectCycle(_, _)
DetectCycle(n, s) ==
  IF n \in s.inStack THEN [s EXCEPT !.found = TRUE]
  ELSE IF n \in s.visited THEN s
  ELSE LET entered == [s EXCEPT !.visited = @ \cup {n}, !.inStack = @ \cup {n}]
           deps == IF n \in DagNodes THEN SetToSeq(dependsOn[n]) ELSE <<>>
           after == FoldLeft(LAMBDA acc, d : IF acc.found THEN acc ELSE DetectCycle(d, acc),
                             entered, deps)
       IN IF after.found THEN after ELSE [after EXCEPT !.inStack = @ \ {n}]

\* validate over the keys in the order of the HashMap: its number of errors.
CycleErrors(order) ==
  FoldLeft(LAMBDA acc, n :
             LET r == DetectCycle(n, [acc.s EXCEPT !.found = FALSE])
             IN [s |-> r, errors |-> acc.errors + (IF r.found THEN 1 ELSE 0)],
           [s |-> [found |-> FALSE, visited |-> {}, inStack |-> {}], errors |-> 0], order).errors
MissingErrors == FoldSet(LAMBDA n, acc : acc + Cardinality(dependsOn[n] \ DagNodes), 0, DagNodes)
Validate(order) == MissingErrors + CycleErrors(order)

-----------------------------------------------------------------------------
RECURSIVE Ancestors(_, _)
Ancestors(k, n) ==
  IF k = 0 \/ n \notin DagNodes THEN {}
  ELSE dependsOn[n] \cup UNION {Ancestors(k - 1, d) : d \in dependsOn[n]}
DagAcyclic == \A n \in DagNodes : n \notin Ancestors(Cardinality(DagNodes), n)
DagOrders == IF IsStandard THEN {FoldSet(LAMBDA n, acc : Append(acc, n), <<>>, DagNodes)}
             ELSE {o \in [1..Cardinality(DagNodes) -> DagNodes] : ToSet(o) = DagNodes}

\* The levels hold every node once, whatever is wrong with the graph; those of a
\* valid one are the depths, so a level depends on earlier levels only.
\* validate finds an error exactly if there is one, in every order of its keys.
\* The standard pipeline is valid and of six levels, as its comment has it.
DagFunctionsExact ==
  LET levels == TopologicalLevels
      valid == DagAcyclic /\ MissingErrors = 0
  IN /\ UNION ToSet(levels) = DagNodes
     /\ \A i, j \in 1..Len(levels) : i # j => levels[i] \cap levels[j] = {}
     /\ \A o \in DagOrders : Validate(o) = 0 <=> valid
     /\ valid => \A i \in 1..Len(levels) : \A n \in levels[i] : NodeDepth(n) = i - 1
     /\ IsStandard => valid /\ Len(levels) = 6 /\ levels[6] = {"distribute"}
=============================================================================
