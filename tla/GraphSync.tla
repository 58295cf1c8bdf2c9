------------------------------- MODULE GraphSync -------------------------------
(***************************************************************************)
(* gateway/graph_sync.rs: devices send what they learnt as one message, and *)
(* a device that is told of a failure, or told nothing, sends it again. The *)
(* statements of a message run one by one in a transaction, beside those of *)
(* other messages: the UPDATE of the cohort, INSERTs that never conflict    *)
(* (the tables have no unique key but their id), and upserts of categories. *)
(***************************************************************************)
EXTENDS Integers, FiniteSets, Sequences, SequencesExt

CONSTANTS
  SyncRequest,   \* requests being processed
  Messages,      \* what a device may send, made by Message below
  Cohort,
  Sizes,         \* the member counts a cohort may have
  MinK,          \* MIN_K_ANONYMITY
  MaxCalls       \* bound: requests in all

\* GraphSyncMessage: `names` says that a property names someone.
NodeDelta(type, upsert, names) == [type |-> type, upsert |-> upsert, names |-> names]
Message(cohort, nodes, edges, facts) ==
  [cohort |-> cohort, node_deltas |-> nodes, edge_deltas |-> edges, fact_deltas |-> facts]

\* A message is of a cohort and lists what is new.
IsList(d) == d \in Seq(ToSet(d))
GraphSyncAssumption ==
  /\ MinK \in Nat /\ MaxCalls \in Nat /\ Sizes \subseteq Nat
  /\ \A m \in Messages : /\ m.cohort \in Cohort
                          /\ IsList(m.node_deltas) /\ IsList(m.edge_deltas)
                          /\ IsList(m.fact_deltas)

VARIABLES
  members,       \* kg_worker_cohorts.member_count; 0 for a cohort without a row
  averaged,      \* how often each message went into the average of its cohort
  entities,      \* kg_supply_chain_entities: rows of each message
  supplyEdges,   \* kg_edges: rows of each message
  categories,    \* kg_product_categories
  syncCalls,     \* the requests, each with the statements it has executed
  received, stored, acknowledged   \* messages sent, committed and answered as applied

graphSyncVars == <<members, averaged, entities, supplyEdges, categories, syncCalls,
                   received, stored, acknowledged>>
tables == <<averaged, entities, supplyEdges, categories>>
history == <<received, stored, acknowledged>>

IdleCall == [at |-> "idle"]
PiiNodes == {"CUSTOMER", "TRANSACTION"}
PiiEdges == {"PURCHASED_BY", "BOUGHT"}

NamesSomeone(m) ==
  \/ \E i \in DOMAIN m.node_deltas : m.node_deltas[i].type \in PiiNodes \/ m.node_deltas[i].names
  \/ \E i \in DOMAIN m.edge_deltas : m.edge_deltas[i] \in PiiEdges

IsSafeEdgeType(relation) ==
  relation \in {"SUPPLIES", "BELONGS_TO", "PRICED_AT", "LOCATED_AT", "ALTERNATIVE_TO",
                "COMPLEMENTS", "SUBCATEGORY_OF"}

\* What process_sync comes to, one after the other. It passes over deletions,
\* other nodes and other edges; of facts the operation is not looked at.
Statement(table, row) == [table |-> table, row |-> row]
PassedOver == Statement("none", "")
NodeStatement(d) ==
  IF d.type \in {"PRODUCT", "SUPPLIER"} /\ d.upsert THEN Statement("entity", d.type) ELSE PassedOver
EdgeStatement(e) == IF IsSafeEdgeType(e) THEN Statement("edge", e) ELSE PassedOver
Statements(m) ==
  <<Statement("cohort", m.cohort)>>
  \o [i \in DOMAIN m.node_deltas |-> NodeStatement(m.node_deltas[i])]
  \o [i \in DOMAIN m.edge_deltas |-> EdgeStatement(m.edge_deltas[i])]
  \o [i \in DOMAIN m.fact_deltas |-> Statement("category", m.fact_deltas[i])]

\* A row a transaction has written is locked until it ends. Inserts lock none.
Locks(c) ==
  IF syncCalls[c].at # "merge" THEN {}
  ELSE {syncCalls[c].executed[i] : i \in {j \in DOMAIN syncCalls[c].executed :
          syncCalls[c].executed[j].table \in {"cohort", "category"}}}

GraphSyncInit ==
  /\ members \in [Cohort -> Sizes]
  /\ averaged = [m \in Messages |-> 0]
  /\ entities = [m \in Messages |-> 0]
  /\ supplyEdges = [m \in Messages |-> 0]
  /\ categories = {}
  /\ syncCalls = [c \in SyncRequest |-> IdleCall]
  /\ received = [m \in Messages |-> 0]
  /\ stored = [m \in Messages |-> 0]
  /\ acknowledged = [m \in Messages |-> 0]

\* A message arrives, for the first time or again, and the size of its cohort is
\* read: outside of the transaction. Too small, or naming someone, it is refused.
Receive(c, m) ==
  /\ syncCalls[c].at = "idle"
  /\ FoldFunctionOnSet(+, 0, received, Messages) < MaxCalls
  /\ received' = [received EXCEPT ![m] = @ + 1]
  /\ syncCalls' = [syncCalls EXCEPT ![c] =
                 IF members[m.cohort] < MinK \/ NamesSomeone(m) THEN IdleCall
                 ELSE [at |-> "merge", message |-> m, executed |-> <<>>]]
  /\ UNCHANGED <<members, tables, stored, acknowledged>>

NextStatement(c) == Statements(syncCalls[c].message)[Len(syncCalls[c].executed) + 1]
HasMore(c) == Len(syncCalls[c].executed) < Len(Statements(syncCalls[c].message))

Execute(c) ==
  /\ syncCalls[c].at = "merge" /\ HasMore(c)
  /\ \A d \in SyncRequest \ {c} : NextStatement(c) \notin Locks(d)
  /\ syncCalls' = [syncCalls EXCEPT ![c].executed = Append(@, NextStatement(c))]
  /\ UNCHANGED <<members, tables, history>>

\* Rows of the executed statements: an edge needs the cohort's row.
InTable(statements, table) == Cardinality({i \in DOMAIN statements : statements[i].table = table})
RowsIn(statements, table) ==
  {statements[i].row : i \in {j \in DOMAIN statements : statements[j].table = table}}
WriteRows(m, statements) ==
  LET known == members[m.cohort] # 0
  IN /\ averaged' = [averaged EXCEPT ![m] = @ + IF known THEN InTable(statements, "cohort") ELSE 0]
     /\ entities' = [entities EXCEPT ![m] = @ + InTable(statements, "entity")]
     /\ supplyEdges' = [supplyEdges EXCEPT ![m] = @ + IF known THEN InTable(statements, "edge") ELSE 0]
     /\ categories' = categories \cup RowsIn(statements, "category")

Autocommitted(executed) == executed                                            \* fault
RolledBack(executed) == <<>>

\* A statement fails, or is chosen when transactions wait for each other.
Fail(c) ==
  /\ syncCalls[c].at = "merge"
  /\ WriteRows(syncCalls[c].message, RolledBack(syncCalls[c].executed))
  /\ syncCalls' = [syncCalls EXCEPT ![c] = IdleCall]
  /\ UNCHANGED <<members, history>>

Commit(c) ==
  /\ syncCalls[c].at = "merge" /\ ~HasMore(c)
  /\ WriteRows(syncCalls[c].message, syncCalls[c].executed)
  /\ stored' = [stored EXCEPT ![syncCalls[c].message] = @ + 1]
  /\ syncCalls' = [syncCalls EXCEPT ![c] = [at |-> "answer", message |-> syncCalls[c].message]]
  /\ UNCHANGED <<members, received, acknowledged>>

\* Four queries for the answer: one that fails tells the device of a failure.
Answer(c, succeeds) ==
  /\ syncCalls[c].at = "answer"
  /\ acknowledged' = [acknowledged EXCEPT ![syncCalls[c].message] = @ + IF succeeds THEN 1 ELSE 0]
  /\ syncCalls' = [syncCalls EXCEPT ![c] = IdleCall]
  /\ UNCHANGED <<members, tables, received, stored>>

\* Cohorts are counted elsewhere.
Recount(k) ==
  /\ \E n \in Sizes \ {members[k]} : members' = [members EXCEPT ![k] = n]
  /\ UNCHANGED <<tables, syncCalls, history>>

GraphSyncNext ==
  \/ \E c \in SyncRequest :
       \/ \E m \in Messages : Receive(c, m)
       \/ Execute(c) \/ Fail(c) \/ Commit(c)
       \/ \E succeeds \in BOOLEAN : Answer(c, succeeds)
  \/ \E k \in Cohort : Recount(k)

GraphSyncSpec == GraphSyncInit /\ [][GraphSyncNext]_graphSyncVars

-----------------------------------------------------------------------------
GraphSyncTypeOK ==
  /\ members \in [Cohort -> Sizes]
  /\ categories \subseteq UNION {{m.fact_deltas[i] : i \in DOMAIN m.fact_deltas} : m \in Messages}
  /\ \A c \in SyncRequest : syncCalls[c].at \in {"idle", "merge", "answer"}

\* A message is in the tables as often as its transaction committed, all of it or
\* nothing; one that names someone never is; and what a device is told was
\* applied was. (What it is told failed may have been applied: repeats count.)
SyncedWholly ==
  /\ \A m \in Messages :
       /\ entities[m] = stored[m] * InTable(Statements(m), "entity")
       /\ averaged[m] <= stored[m] /\ acknowledged[m] <= stored[m] /\ stored[m] <= received[m]
       /\ NamesSomeone(m) => stored[m] = 0
  /\ categories = UNION {{m.fact_deltas[i] : i \in DOMAIN m.fact_deltas} :
                           m \in {n \in Messages : stored[n] > 0}}
=============================================================================
