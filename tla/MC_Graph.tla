------------------------------- MODULE MC_Graph -------------------------------
(***************************************************************************)
(* One run for the parts of graph/ and optimization/ that share nothing:    *)
(* `part` picks the one that moves, the others stay as they began. A pure   *)
(* computation has no state: `given` is what it is asked to compute.        *)
(* The pipeline has two nodes that run in parallel between a source and a   *)
(* sink; the memory a procedure at the edge of the floor, and knowledge     *)
(* below it and above.                                                      *)
(***************************************************************************)
EXTENDS Pipeline, KnowledgeGraph, TLC

CONSTANTS n1, n2, n3, n4       \* nodes of the pipeline

VARIABLES part,
          dependsOn, adjacency,
          edges, totalFlow, earlierFlow, flowPhase,
          arcs, menuAt, membership, turn, iteration, relabelled, detecting,
          given

\* One pattern that consolidation knows of two ways.
Patterns == {<<"Transaction", "sold">>, <<"Learning", "unknown">>}
Diamond == (n1 :> {}) @@ (n2 :> {n1}) @@ (n3 :> {n1}) @@ (n4 :> {n2, n3})

\* Two augmenting paths that block each other unless flow is pushed back.
OP == INSTANCE Optimization WITH
        Vertex <- {1, 2, 3}, MaxEdges <- 4,
        FlowNode <- {"s", "u", "v", "t"}, Source <- "s", Sink <- "t",
        Arcs <- {<<"s", "u", 2>>, <<"u", "v", 1>>, <<"v", "t", 1>>, <<"s", "v", 1>>,
                 <<"u", "t", 1>>},
        MaxFlowEdges <- 5
GA == INSTANCE GraphAlgorithms WITH
        Entities <- 1..4,
        ArcMenu <- <<<<1, 2, 3>>, <<1, 3, 1>>, <<3, 2, 1>>, <<2, 4, 3>>, <<3, 4, 5>>,
                     <<1, 2, 1>>>>,
        Heuristics <- {h \in [1..4 -> {0, 2, 4}] : h[4] = 0 /\ h[1] = 0},
        Start <- 1, Goal <- 4, MaxIterations <- 3,
        PipelineName <- {"a", "b", "c"}
FA == INSTANCE FederatedAggregation
HR == INSTANCE HealthRisk
ET == INSTANCE EconomicTrackers
AS == INSTANCE AlamaScore
CM == INSTANCE CreditModels
\* Two stages of two states and actions, every transition a coin or a die of
\* two faces; a catalogue of two investments; a shelf that holds two.
SmallProblems ==
  {OP!Problem({0, 1}, {0, 1},
      [x \in {0, 1} \X {0, 1} |-> IF x = <<0, 0>> THEN 2 ELSE IF x = <<0, 1>> THEN r ELSE x[2]],
      [x \in {0, 1} \X {0, 1} \X {0, 1} |->
         LET toOne == IF x[1] = x[2] THEN moves[x[1]] ELSE 1
         IN IF x[3] = 1 THEN toOne ELSE 2 - toOne],
      2, (0 :> 0) @@ (1 :> last), discount) :
     r \in {-1, 2}, moves \in [{0, 1} -> 0..2], last \in {0, 3}, discount \in {50, 120}}
    \cup {OP!InvestmentDp(<<<<1, 2>>, <<3>>>>, 2, 2, 90)}
Cohorts ==
  {[i \in DOMAIN g |-> FA!Batch(g[i], i % 3)] :
     g \in UNION {[1..n -> {<<-3>>, <<0>>, <<1>>, <<9>>}] : n \in 1..5}
             \cup [1..3 -> {<<0>>, <<1>>, <<0, 4>>, <<5, -2>>}]}

ASSUME InstancesAssumption == KGAssumption

nfVars == <<edges, totalFlow, earlierFlow, flowPhase>>
gaVars == <<arcs, menuAt, membership, turn, iteration, relabelled, detecting>>
suiteVars == <<part, vars, kgVars, dependsOn, adjacency, nfVars, gaVars, given>>

Computes == {"planning", "federated"}
GraphInit ==
  /\ \/ /\ part \in {"pipeline", "knowledge", "dag", "traversal", "flow", "analytics", "health",
                    "trackers", "workers", "score", "models"}
        /\ given = {}
     \/ part = "planning" /\ given \in SmallProblems
     \/ part = "federated" /\ given \in Cohorts
  /\ Init /\ KGInit /\ GA!DagInit /\ OP!GTInit /\ OP!FlowInit /\ GA!GAInit

PipelineMoves == /\ part = "pipeline"
                 /\ UNCHANGED <<part, kgVars, dependsOn, adjacency, nfVars, gaVars, given>>
FlowMoves == /\ part = "flow"
             /\ UNCHANGED <<part, vars, kgVars, dependsOn, adjacency, gaVars, given>>

GraphNext ==
  \/ PipelineMoves /\ Next
  \/ /\ part = "knowledge" /\ KGNext
     /\ UNCHANGED <<part, vars, dependsOn, adjacency, nfVars, gaVars, given>>
  \/ FlowMoves /\ OP!FlowNext
  \/ /\ part = "dag" /\ GA!DagNext
     /\ UNCHANGED <<part, vars, kgVars, adjacency, nfVars, gaVars, given>>
  \/ /\ part = "traversal" /\ OP!GTNext
     /\ UNCHANGED <<part, vars, kgVars, dependsOn, nfVars, gaVars, given>>
  \/ /\ part = "analytics" /\ GA!GANext
     /\ UNCHANGED <<part, vars, kgVars, dependsOn, adjacency, nfVars, given>>

\* The executor is polled and its handlers return; max_flow computes.
GraphFairness == /\ WF_suiteVars(PipelineMoves /\ ExecuteStep)
                 /\ WF_suiteVars(FlowMoves /\ OP!MaxFlowStep)

GraphSpec == GraphInit /\ [][GraphNext]_suiteVars /\ GraphFairness

-----------------------------------------------------------------------------
\* The types of all parts.
GraphTypeOK ==
  TypeOK /\ KGTypeOK /\ OP!GTTypeOK /\ OP!FlowTypeOK /\ GA!GATypeOK

\* optimization/graph_traversal.rs and the DAG functions of graph/pipeline.rs:
\* what they return is what its definition says, on every small graph.
TraversalsExact ==
  /\ part = "dag" => GA!DagFunctionsExact
  /\ part = "traversal" => /\ OP!BfsIsExact /\ OP!DfsIsExact
                           /\ OP!TopologicalSortIsExact /\ OP!ComponentsPartition

\* graph/algorithms.rs: paths, cores, ranks, betweenness and communities.
GraphAnalyticsExact == part = "analytics" => GA!GraphAnalyticsExact

\* optimization/network_flow.rs: flow is conserved within capacities, and what
\* max_flow returns is a minimum cut.
MaxFlowIsMinCut == OP!FlowIsFeasible /\ OP!MaxFlowIsMinCut


\* graph/pipeline.rs and optimization/network_flow.rs: neither goes on for ever.
GraphComputationsReturn == ExecuteReturns /\ OP!MaxFlowReturns
=============================================================================
