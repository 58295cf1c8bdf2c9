---------------------------- MODULE Optimization ----------------------------
(***************************************************************************)
(* The algorithms of optimization/: searches over adjacency lists, maximum  *)
(* flow, and backward induction. The first two have a state each, a graph   *)
(* as it is built and a network as flow is sent; the third is a function.   *)
(***************************************************************************)
EXTENDS Integers, FiniteSets, Sequences, SequencesExt

(***************************************************************************)
(* optimization/graph_traversal.rs: breadth- and depth-first search over    *)
(* adjacency lists. The state is the graph as it is built; the searches are *)
(* functions of it, compared with reachability as a fixpoint.               *)
(***************************************************************************)

CONSTANTS Vertex,     \* node numbers
          MaxEdges    \* bound: adjacency entries

VARIABLE adjacency    \* node -> list of neighbours

Keys == DOMAIN adjacency

GTInit == adjacency = <<>>

\* entry(n).or_default().push(m)
Push(adj, n, m) == [k \in DOMAIN adj \cup {n} |->
                      IF k \notin DOMAIN adj THEN <<m>>
                      ELSE IF k = n THEN Append(adj[k], m) ELSE adj[k]]
Ensure(adj, n) == [k \in DOMAIN adj \cup {n} |-> IF k \in DOMAIN adj THEN adj[k] ELSE <<>>]

EdgeCount(adj) == FoldSet(LAMBDA k, sum : sum + Len(adj[k]), 0, DOMAIN adj)

AddEdge(from, to) ==
  /\ EdgeCount(adjacency) < MaxEdges
  /\ adjacency' = Ensure(Push(adjacency, from, to), to)
AddUndirectedEdge(a, b) ==
  /\ EdgeCount(adjacency) + 1 < MaxEdges
  /\ adjacency' = Push(Push(adjacency, a, b), b, a)
AddNode(n) == adjacency' = Ensure(adjacency, n)

GTNext == \/ \E a, b \in Vertex : AddEdge(a, b) \/ AddUndirectedEdge(a, b)
          \/ \E n \in Vertex : AddNode(n)

-----------------------------------------------------------------------------
(* The searches.                                                           *)

Neighbors(n) == IF n \in Keys THEN adjacency[n] ELSE <<>>

\* The neighbours a search pushes: those not seen yet, each once.
Fresh(ns, seen) ==
  FoldLeft(LAMBDA acc, m : IF m \in seen \cup ToSet(acc) THEN acc ELSE Append(acc, m),
           <<>>, ns)

PushFront(queue, fresh) == fresh \o Tail(queue)      \* fault: a stack
Enqueue(queue, fresh) == Tail(queue) \o fresh

\* bfs: order of visits, depths, and the parents shortest_path_bfs walks back.
RECURSIVE BfsLoop(_, _, _, _)
BfsLoop(queue, visited, depths, parent) ==
  IF queue = <<>> THEN [visited |-> visited, depths |-> depths, parent |-> parent]
  ELSE LET n == Head(queue)
           fresh == Fresh(Neighbors(n), DOMAIN depths)
           seen == DOMAIN depths \cup ToSet(fresh)
       IN BfsLoop(Enqueue(queue, fresh), Append(visited, n),
                  [m \in seen |-> IF m \in DOMAIN depths THEN depths[m] ELSE depths[n] + 1],
                  [m \in seen |-> IF m \in DOMAIN depths THEN parent[m] ELSE <<n>>])
Bfs(source) == BfsLoop(<<source>>, <<>>, [m \in {source} |-> 0], [m \in {source} |-> <<>>])

RECURSIVE WalkBack(_, _)
WalkBack(parent, path) ==
  IF parent[Head(path)] = <<>> THEN path
  ELSE WalkBack(parent, parent[Head(path)] \o path)

\* None is <<>>.
ShortestPathBfs(source, target) ==
  LET r == Bfs(source)
  IN IF target \notin DOMAIN r.depths THEN <<>> ELSE WalkBack(r.parent, <<target>>)

KHopNeighborhood(source, k) ==
  LET depths == Bfs(source).depths IN {m \in DOMAIN depths : depths[m] <= k}

\* dfs: neighbours go on the stack once per edge, and one that was visited
\* meanwhile is dropped when it is popped; that is what sets has_cycle, so a
\* diamond sets it and a pair of opposite edges does not.
RECURSIVE DfsLoop(_, _)
DfsLoop(stack, r) ==
  IF stack = <<>> THEN r
  ELSE LET top == Head(stack)
           pushed == [i \in 1..Len(Neighbors(top[1])) |-> <<Neighbors(top[1])[i], top[2] + 1>>]
           unseen == SelectSeq(pushed, LAMBDA p : p[1] \notin ToSet(r.visited) \cup {top[1]})
       IN IF top[1] \in ToSet(r.visited)
          THEN DfsLoop(Tail(stack), [r EXCEPT !.has_cycle = TRUE])
          ELSE DfsLoop(unseen \o Tail(stack),
                       [r EXCEPT !.visited = Append(@, top[1]), !.depths = Append(@, top[2])])
Dfs(source) == DfsLoop(<<<<source, 0>>>>, [visited |-> <<>>, depths |-> <<>>, has_cycle |-> FALSE])

\* topo_dfs: [ok, visited, stack]; dfs_cycle_check is the same recursion
\* without the stack.
RECURSIVE TopoDfs(_, _, _, _)
TopoDfs(n, visited, stack, rec) ==
  LET after == FoldLeft(LAMBDA acc, m :
                 IF ~acc.ok THEN acc
                 ELSE IF m \notin acc.visited
                      THEN TopoDfs(m, acc.visited, acc.stack, rec \cup {n})
                      ELSE [acc EXCEPT !.ok = m \notin rec \cup {n}],
                 [ok |-> TRUE, visited |-> visited \cup {n}, stack |-> stack], Neighbors(n))
  IN IF after.ok THEN [after EXCEPT !.stack = Append(@, n)] ELSE after

\* topological_sort, the keys coming in the order of the HashMap. None is FALSE.
TopoFrom(order) ==
  FoldLeft(LAMBDA acc, n : IF ~acc.ok \/ n \in acc.visited THEN acc
                           ELSE TopoDfs(n, acc.visited, acc.stack, {}),
           [ok |-> TRUE, visited |-> {}, stack |-> <<>>], order)
PostOrder(order) == LET r == TopoFrom(order)         \* fault: no reverse
                    IN [ok |-> r.ok, sorted |-> r.stack]
TopologicalSort(order) == LET r == TopoFrom(order)
                          IN [ok |-> r.ok, sorted |-> Reverse(r.stack)]

HasCycle(order) == ~TopoFrom(order).ok

\* connected_components: a bfs from every key not visited before.
ConnectedComponents(order) ==
  FoldLeft(LAMBDA acc, n :
             LET seen == UNION ToSet(acc)
             IN IF n \in seen THEN acc ELSE Append(acc, ToSet(Bfs(n).visited) \ seen),
           <<>>, order)

-----------------------------------------------------------------------------
(* The reference: reachability.                                            *)

Edge(a, b) == a \in Keys /\ b \in ToSet(adjacency[a])

Within[k \in Nat, s \in Vertex] ==
  IF k = 0 THEN {s}
  ELSE Within[k - 1, s] \cup {m \in Vertex : \E n \in Within[k - 1, s] : Edge(n, m)}
Reachable(s) == Within[Cardinality(Vertex), s]
Acyclic == \A a, b \in Vertex : Edge(a, b) => a \notin Reachable(b)

KeyOrders == {o \in [1..Cardinality(Keys) -> Keys] : ToSet(o) = Keys}

GTTypeOK == /\ Keys \subseteq Vertex
            /\ \A k \in Keys : ToSet(adjacency[k]) \subseteq Keys

\* bfs and shortest_path_bfs return what is reachable, nearest first, and no
\* path is longer than the depth: repeated edges, self loops and cycles included.
BfsIsExact ==
  \A s \in Vertex :
    LET r == Bfs(s)
    IN /\ ToSet(r.visited) = Reachable(s) /\ Len(r.visited) = Cardinality(Reachable(s))
       /\ \A i, j \in 1..Len(r.visited) :
            i < j => r.depths[r.visited[i]] <= r.depths[r.visited[j]]
       /\ \A t \in Vertex :
            LET p == ShortestPathBfs(s, t)
            IN IF t \notin Reachable(s) THEN p = <<>>
               ELSE /\ p[1] = s /\ p[Len(p)] = t
                    /\ \A i \in 1..Len(p) - 1 : Edge(p[i], p[i + 1])
                    /\ t \in Within[Len(p) - 1, s]
                    /\ Len(p) > 1 => t \notin Within[Len(p) - 2, s]
       /\ \A k \in 0..Cardinality(Vertex) : KHopNeighborhood(s, k) = Within[k, s]

\* dfs visits the same nodes as bfs, each once, at the depth of the branch it
\* came by: one more than some node visited before that has an edge to it.
DfsIsExact ==
  \A s \in Vertex :
    LET r == Dfs(s)
    IN /\ ToSet(r.visited) = Reachable(s) /\ Len(r.visited) = Cardinality(Reachable(s))
       /\ \A i \in 2..Len(r.visited) :
            \E j \in 1..i - 1 : /\ Edge(r.visited[j], r.visited[i])
                               /\ r.depths[i] = r.depths[j] + 1

\* topological_sort fails exactly on cycles and else puts every node once and
\* every edge forward, in whatever order the HashMap yields its keys.
TopologicalSortIsExact ==
  \A order \in KeyOrders :
    LET r == TopologicalSort(order)
    IN /\ r.ok = Acyclic /\ HasCycle(order) = ~Acyclic
       /\ r.ok => /\ ToSet(r.sorted) = Keys /\ Len(r.sorted) = Cardinality(Keys)
                  /\ \A i, j \in 1..Len(r.sorted) : Edge(r.sorted[i], r.sorted[j]) => i < j

\* On a graph built of undirected edges, connected_components is the partition
\* into components whatever the order of the keys (on others it depends on it).
ComponentsPartition ==
  (\A a, b \in Vertex : Edge(a, b) => Edge(b, a)) =>
    \A order \in KeyOrders :
      ToSet(ConnectedComponents(order)) = {Reachable(n) : n \in Keys}

-----------------------------------------------------------------------------
(***************************************************************************)
(* optimization/network_flow.rs: Edmonds-Karp. An edge is stored twice, the *)
(* forward one and behind it the residual one; max_flow augments along a    *)
(* shortest residual path until there is none. It works on &mut self and    *)
(* keeps the flows: a later call goes on from them.                         *)
(***************************************************************************)

CONSTANTS FlowNode, Source, Sink,
          Arcs,            \* bound: what add_edge is called with, <<from, to, capacity>>
          MaxFlowEdges     \* bound: edges added

VARIABLES edges,           \* forward edges at odd places, their residuals behind them
          totalFlow,       \* total_flow of the call under way
          earlierFlow,     \* history: what earlier calls had sent
          flowPhase        \* "build", "augment" or "done"

flowVars == <<edges, totalFlow, earlierFlow, flowPhase>>

FlowInit == /\ edges = <<>> /\ totalFlow = 0 /\ earlierFlow = 0
            /\ flowPhase = "build"

FlowEdge == [from : FlowNode, to : FlowNode, capacity : Nat, flow : Int]

Index == 1..Len(edges)
Forward == {i \in Index : i % 2 = 1}
Partner(i) == IF i % 2 = 1 THEN i + 1 ELSE i - 1
Residual(i) == edges[i].capacity - edges[i].flow

AddFlowEdge(from, to, capacity) ==
  /\ flowPhase # "augment" /\ Len(edges) < 2 * MaxFlowEdges
  /\ edges' = edges \o <<[from |-> from, to |-> to, capacity |-> capacity, flow |-> 0],
                         [from |-> to, to |-> from, capacity |-> 0, flow |-> 0]>>
  /\ flowPhase' = "build"
  /\ UNCHANGED <<totalFlow, earlierFlow>>

StartMaxFlow ==
  /\ flowPhase # "augment"
  /\ flowPhase' = "augment"
  /\ totalFlow' = 0
  /\ earlierFlow' = earlierFlow + totalFlow
  /\ UNCHANGED edges

\* bfs_augmenting_path. Which of the shortest paths it finds is left open: the
\* code takes the edges in the order they were added.
Usable(n) == {i \in Index : edges[i].from = n /\ Residual(i) > 0}
Walks[k \in Nat] ==
  IF k = 1 THEN {<<i>> : i \in Usable(Source)}
  ELSE UNION {{Append(p, i) : i \in Usable(edges[p[k - 1]].to)} : p \in Walks[k - 1]}
PathsOfLength(k) == {p \in Walks[k] : edges[p[k]].to = Sink}
Lengths == {k \in 1..Cardinality(FlowNode) - 1 : PathsOfLength(k) # {}}
AugmentingPaths ==
  IF Lengths = {} THEN {}
  ELSE PathsOfLength(CHOOSE k \in Lengths : \A l \in Lengths : k <= l)

Widest(p) ==                                       \* fault: max for min
  CHOOSE r \in {Residual(p[i]) : i \in DOMAIN p} : \A i \in DOMAIN p : r >= Residual(p[i])
Bottleneck(p) ==
  CHOOSE r \in {Residual(p[i]) : i \in DOMAIN p} : \A i \in DOMAIN p : r <= Residual(p[i])

ForwardOnly(p, i) ==                               \* fault: residual edge forgotten
  IF \E k \in DOMAIN p : p[k] = i THEN Bottleneck(p) ELSE 0
FlowChange(p, i) ==
  (IF \E k \in DOMAIN p : p[k] = i THEN Bottleneck(p) ELSE 0)
  - (IF \E k \in DOMAIN p : Partner(p[k]) = i THEN Bottleneck(p) ELSE 0)

Augment ==
  /\ flowPhase = "augment"
  /\ \E p \in AugmentingPaths :
       /\ edges' = [i \in Index |-> [edges[i] EXCEPT !.flow = @ + FlowChange(p, i)]]
       /\ totalFlow' = totalFlow + Bottleneck(p)
  /\ UNCHANGED <<earlierFlow, flowPhase>>

FinishMaxFlow ==
  /\ flowPhase = "augment" /\ AugmentingPaths = {}
  /\ flowPhase' = "done"
  /\ UNCHANGED <<edges, totalFlow, earlierFlow>>

\* The result: reachable_from and compute_min_cut_capacity.
RECURSIVE Spread(_)
Spread(side) ==
  LET more == side \cup {edges[i].to : i \in {j \in Index : edges[j].from \in side /\ Residual(j) > 0}}
  IN IF more = side THEN side ELSE Spread(more)
MinCutSource == Spread({Source})

RECURSIVE SumOver(_, _)
SumOver(f, dom) == IF dom = {} THEN 0
                   ELSE LET i == CHOOSE i \in dom : TRUE IN f[i] + SumOver(f, dom \ {i})
MinCutCapacity ==
  SumOver([i \in Index |-> edges[i].capacity],
          {i \in Forward : edges[i].from \in MinCutSource /\ edges[i].to \notin MinCutSource})

MaxFlowStep == Augment \/ FinishMaxFlow
FlowNext == \/ \E arc \in Arcs : AddFlowEdge(arc[1], arc[2], arc[3])
            \/ StartMaxFlow \/ Augment \/ FinishMaxFlow

-----------------------------------------------------------------------------
FlowTypeOK == /\ edges \in Seq(FlowEdge) /\ Len(edges) % 2 = 0
              /\ totalFlow \in Nat /\ earlierFlow \in Nat
              /\ flowPhase \in {"build", "augment", "done"}

NetOut(n) == SumOver([i \in Index |-> edges[i].flow], {i \in Forward : edges[i].from = n})
             - SumOver([i \in Index |-> edges[i].flow], {i \in Forward : edges[i].to = n})

\* After every augmentation, also along residual edges, self loops and parallel
\* edges, the flows fit their capacities, are balanced at every inner node and
\* amount to what the calls so far have returned.
FlowIsFeasible ==
  /\ \A i \in Forward : /\ edges[i].flow \in 0..edges[i].capacity
                        /\ edges[Partner(i)].flow = -edges[i].flow
  /\ \A n \in FlowNode \ {Source, Sink} : NetOut(n) = 0
  /\ NetOut(Source) = earlierFlow + totalFlow

\* When max_flow returns, what it and the calls before it sent is the capacity
\* of the cut it returns: the flow is the greatest one. (Of a second call
\* max_flow alone is not: it counts from zero, the flows do not.)
MaxFlowIsMinCut == flowPhase = "done" => earlierFlow + totalFlow = MinCutCapacity

\* max_flow comes to an end.
MaxFlowReturns == flowPhase = "augment" ~> flowPhase = "done"

-----------------------------------------------------------------------------
(***************************************************************************)
(* optimization/dynamic_programming.rs: backward induction on the Bellman   *)
(* equation, and the two problems it is put to. A problem gives rewards,    *)
(* probabilities in `parts`-ths, terminal values, and a discount in         *)
(* hundredths; a value with k stages to go is kept as an integer, times     *)
(* (100 * parts)^k.                                                         *)
(***************************************************************************)

Problem(states, actions, reward, transition, parts, terminal, discount) ==
  [states |-> states, actions |-> actions, reward |-> reward, transition |-> transition,
   parts |-> parts, terminal |-> terminal, discount |-> discount]

Clamp(d) == IF d > 100 THEN 100 ELSE IF d < 0 THEN 0 ELSE d
Scale(p, k) == (100 * p.parts) ^ k

Expected(p, s, a, values) ==
  FoldSet(LAMBDA s2, sum : p.transition[s, a, s2] * values[s2] + sum, 0, p.states)
Undiscounted(p, k, s, a, values) ==                                           \* fault
  p.reward[s, a] * Scale(p, k) + 100 * Expected(p, s, a, values)
Backup(p, k, s, a, values) ==
  p.reward[s, a] * Scale(p, k) + Clamp(p.discount) * Expected(p, s, a, values)

\* solve: the values with k stages to go, and the first of the best actions.
Best(p, k, s, values) ==
  CHOOSE a \in p.actions : \A b \in p.actions :
    \/ Backup(p, k, s, a, values) > Backup(p, k, s, b, values)
    \/ Backup(p, k, s, a, values) = Backup(p, k, s, b, values) /\ a <= b
Values(p, stages) ==
  LET V[k \in 0..stages] ==
        IF k = 0 THEN p.terminal
        ELSE [s \in p.states |-> Backup(p, k, s, Best(p, k, s, V[k - 1]), V[k - 1])]
  IN V
Policy(p, values) ==
  [k \in DOMAIN values \ {0} |-> [s \in p.states |-> Best(p, k, s, values[k - 1])]]

\* inventory_dp: what is ordered above the maximum is paid for and not kept.
InventoryReward(demand, parts, holding, shortage, ordering, s, a) ==
  LET Cost(d) == IF d <= s + a THEN holding * (s + a - d) ELSE shortage * (d - s - a)
  IN -(parts * ordering[a] + FoldSet(LAMBDA d, sum : demand[d] * Cost(d) + sum, 0, DOMAIN demand))
InventoryTransition(demand, maxInventory, s, a, s2) ==
  LET total == IF s + a > maxInventory THEN maxInventory ELSE s + a
      sold == IF total > s2 THEN total - s2 ELSE 0
  IN IF sold \in DOMAIN demand THEN demand[sold] ELSE 0
InventoryDp(demand, parts, holding, shortage, ordering, maxInventory, discount) ==
  LET levels == 0..maxInventory
  IN Problem(levels, levels,
       [x \in levels \X levels |->
          InventoryReward(demand, parts, holding, shortage, ordering, x[1], x[2])],
       [x \in levels \X levels \X levels |->
          InventoryTransition(demand, maxInventory, x[1], x[2], x[3])],
       parts, [s \in levels |-> 0], discount)

\* investment_dp: an action stands for an option and a period; the budget stays
\* as it is. Rewards times the number of options.
InvestmentDp(returns, budgetLevels, periods, discount) ==
  LET options == Len(returns)
      levels == 0..budgetLevels - 1
      choices == 0..options * periods - 1
  IN Problem(levels, choices,
       [x \in levels \X choices |->
          LET option == x[2] % options  period == x[2] \div options
          IN IF period < Len(returns[option + 1])
             THEN option * x[1] * returns[option + 1][period + 1] ELSE 0],
       [x \in levels \X choices \X levels |-> IF x[3] = x[1] THEN 1 ELSE 0],
       1, [s \in levels |-> options * s], discount)

-----------------------------------------------------------------------------
\* The expected reward of following a plan from a state, along every path.
Follow(p, plan, stages, s) ==
  LET Paths == [0..stages -> p.states]
      Weight(path) ==            \* of its steps, times parts^stages
        FoldSet(LAMBDA k, w : w * p.transition[path[k], plan[k][path[k]], path[k - 1]], 1, 1..stages)
      Gain(path) ==              \* times 100^stages; path[k] has k stages to go
        FoldSet(LAMBDA k, sum : sum + p.reward[path[k], plan[k][path[k]]]
                                  * Clamp(p.discount) ^ (stages - k) * 100 ^ k,
                0, 1..stages)
        + p.terminal[path[0]] * Clamp(p.discount) ^ stages
  IN FoldSet(LAMBDA path, sum : sum + Weight(path) * Gain(path), 0,
             {path \in Paths : path[stages] = s})

\* Of all plans, those that look at stage and state, none does better from any
\* state than the policy, and the policy earns what the value function says.
PolicyIsOptimal(p, stages) ==
  LET values == Values(p, stages)
      policy == Policy(p, values)
  IN \A s \in p.states :
       /\ Follow(p, policy, stages, s) = values[stages][s]
       /\ \A plan \in [1..stages -> [p.states -> p.actions]] :
            Follow(p, plan, stages, s) <= values[stages][s]
=============================================================================
