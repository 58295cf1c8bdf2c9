------------------------------ MODULE AgentMemory ------------------------------
(***************************************************************************)
(* agent/memory.rs: the memory that the tasks of one agent share. Each      *)
(* operation on the conversation and on the working state takes a lock of   *)
(* its own. A store into long-term memory does not: it reads the length,    *)
(* looks for the oldest entry, removes it and inserts, and stores overlap.  *)
(* Texts are left out: a message is the task it was added in, a statement   *)
(* the operation that made it.                                              *)
(***************************************************************************)
EXTENDS Integers, FiniteSets, Sequences, SequencesExt

CONSTANTS Sharer,
          EntryId,                    \* ids of patterns and strategies, keys of facts
          MaxConversation, MaxEntries,    \* MemoryConfig
          MaxOperations               \* bound

VARIABLES conversation, working,
          longTerm,     \* tier -> id -> entry
          stores,       \* how far the store of each caller is
          given,        \* the hypothesis each caller was last given the id of
          operations,        \* operations begun: Utc::now()
          overlaps      \* history: stores begun while another was under way

memVars == <<conversation, working, longTerm, stores, given, operations, overlaps>>

Tier == {"patterns", "strategies", "facts"}
NoStore == [at |-> "idle", tier |-> "facts", entry |-> [id |-> "none", last |-> 0],
            oldest |-> "none"]
NoHypothesis == [id |-> -1, statement |-> 0, task |-> 0]

NewTask(n) == [current_task |-> n, iteration |-> 0, observations |-> 0,
               reasoning_chain |-> <<>>, hypotheses |-> <<>>, decisions |-> 0]

MemoryInit ==
  /\ conversation = <<>> /\ working = NewTask(0)
  /\ longTerm = [t \in Tier |-> <<>>] /\ stores = [c \in Sharer |-> NoStore]
  /\ given = [c \in Sharer |-> NoHypothesis] /\ operations = 0 /\ overlaps = 0

Operates == operations < MaxOperations /\ operations' = operations + 1

-----------------------------------------------------------------------------
(* The conversation and the working state.                                 *)

\* add_entry: the oldest messages make room.
Add ==
  /\ Operates
  /\ conversation' =
       Append(IF Len(conversation) >= MaxConversation
              THEN SubSeq(conversation, Len(conversation) - MaxConversation + 2, Len(conversation))
              ELSE conversation, working.current_task)
  /\ UNCHANGED <<working, longTerm, stores, given, overlaps>>

\* reset_for_new_task: two locks, one after the other.
Clear == /\ conversation # <<>> /\ conversation' = <<>>
         /\ UNCHANGED <<working, longTerm, stores, given, operations, overlaps>>
BeginTask == /\ Operates
             /\ working' = NewTask(working.current_task + 1)
             /\ UNCHANGED <<conversation, longTerm, stores, given, overlaps>>

\* add_observation, record_decision; nothing bounds what a task collects.
Collect ==
  /\ Operates
  /\ \/ working' = [working EXCEPT !.observations = @ + 1]
     \/ working' = [working EXCEPT !.decisions = @ + 1]
  /\ UNCHANGED <<conversation, longTerm, stores, given, overlaps>>

AddReasoningStep ==
  /\ Operates
  /\ working' = [working EXCEPT !.iteration = @ + 1,
                                !.reasoning_chain = Append(@, working.iteration + 1)]
  /\ UNCHANGED <<conversation, longTerm, stores, given, overlaps>>

\* The id of a hypothesis is its place: ids come again with every task.
AddHypothesis(c) ==
  /\ Operates
  /\ working' = [working EXCEPT !.hypotheses =
                   Append(@, [statement |-> operations', evidence |-> {}])]
  /\ given' = [given EXCEPT ![c] = [id |-> Len(working.hypotheses), statement |-> operations',
                                    task |-> working.current_task]]
  /\ UNCHANGED <<conversation, longTerm, stores, overlaps>>

LastOne(g) == Len(working.hypotheses)                                          \* fault
FoundAt(g) == g.id + 1
AddEvidence(c) ==
  /\ given[c] # NoHypothesis /\ Operates
  /\ working' =
       IF FoundAt(given[c]) \in DOMAIN working.hypotheses
       THEN [working EXCEPT !.hypotheses[FoundAt(given[c])].evidence = @ \cup {given[c]}]
       ELSE working
  /\ UNCHANGED <<conversation, longTerm, stores, given, overlaps>>

\* context_summary: the last five observations and three steps, newest first.
NewestFirst(s, n) == Reverse(SubSeq(s, IF Len(s) > n THEN Len(s) - n + 1 ELSE 1, Len(s)))
ContextSummary ==
  [task |-> working.current_task, iteration |-> working.iteration,
   observations |-> NewestFirst([i \in 1..working.observations |-> i], 5),
   chain |-> NewestFirst(working.reasoning_chain, 3)]

-----------------------------------------------------------------------------
(* Long-term memory. The three tiers have the same code.                   *)

PutEntry(map, entry) ==
  [i \in DOMAIN map \cup {entry.id} |-> IF i = entry.id THEN entry ELSE map[i]]

\* store_pattern, store_strategy, store_fact: the length is read, of an entry that
\* is replaced as well.
BeginStore(c, tier, id) ==
  /\ stores[c].at = "idle" /\ Operates
  /\ stores' = [stores EXCEPT ![c] =
       [NoStore EXCEPT !.tier = tier, !.entry = [id |-> id, last |-> operations'],
          !.at = IF Cardinality(DOMAIN longTerm[tier]) >= MaxEntries THEN "full" ELSE "room"]]
  /\ overlaps' = IF \E d \in Sharer : stores[d].at # "idle" THEN overlaps + 1 ELSE overlaps
  /\ UNCHANGED <<conversation, working, longTerm, given>>

\* evict_oldest_*: min_by_key over the map, then remove.
FindOldest(c) ==
  LET map == longTerm[stores[c].tier]
  IN /\ stores[c].at = "full"
     /\ IF map = <<>> THEN stores' = [stores EXCEPT ![c].at = "room"]
        ELSE \E i \in DOMAIN map : /\ \A j \in DOMAIN map : map[i].last <= map[j].last
                                   /\ stores' = [stores EXCEPT ![c].at = "evict", ![c].oldest = i]
     /\ UNCHANGED <<conversation, working, longTerm, given, operations, overlaps>>

RemoveOldest(c) ==
  LET map == longTerm[stores[c].tier]
  IN /\ stores[c].at = "evict"
     /\ longTerm' = [longTerm EXCEPT ![stores[c].tier] =
                       [i \in DOMAIN map \ {stores[c].oldest} |-> map[i]]]
     /\ stores' = [stores EXCEPT ![c].at = "room"]
     /\ UNCHANGED <<conversation, working, given, operations, overlaps>>

Insert(c) ==
  /\ stores[c].at = "room"
  /\ longTerm' = [longTerm EXCEPT ![stores[c].tier] = PutEntry(@, stores[c].entry)]
  /\ stores' = [stores EXCEPT ![c] = NoStore]
  /\ UNCHANGED <<conversation, working, given, operations, overlaps>>

\* to_json keeps the values without their keys; from_json inserts them, with a
\* limit of its own and no eviction.
ToJson(tiers) == [t \in Tier |-> SetToSeq({tiers[t][i] : i \in DOMAIN tiers[t]})]
FromJson(data) == [t \in Tier |-> FoldLeft(PutEntry, <<>>, data[t])]

\* What tasks do with the conversation and the working state, and with the rest.
TasksThink ==
  \/ Add \/ Clear \/ BeginTask \/ Collect \/ AddReasoningStep
  \/ \E c \in Sharer : AddHypothesis(c) \/ AddEvidence(c)
TasksLearn ==
  \E c \in Sharer :
    \/ \E tier \in Tier, id \in EntryId : BeginStore(c, tier, id)
    \/ FindOldest(c) \/ RemoveOldest(c) \/ Insert(c)

MemoryNext == TasksThink \/ TasksLearn
MemorySpec == MemoryInit /\ [][MemoryNext]_memVars

MemoryAssumption == {MaxConversation, MaxEntries} \subseteq Nat \ {0} /\ MaxOperations \in Nat

-----------------------------------------------------------------------------
\* What tasks share holds together however they overlap: a tier is over its limit
\* by no more than the stores that overlapped another; evidence stands with another
\* statement than it was given for only where the task has changed in between; the
\* summary shows the newest steps of the task.
SharedMemoryHolds ==
  /\ \A t \in Tier : Cardinality(DOMAIN longTerm[t]) <= MaxEntries + overlaps
  /\ \A h \in DOMAIN working.hypotheses : \A g \in working.hypotheses[h].evidence :
       g.statement # working.hypotheses[h].statement => g.task < working.current_task
  /\ LET chain == ContextSummary.chain
     IN \A i \in DOMAIN chain : chain[i] = working.iteration - i + 1
  /\ Len(conversation) <= MaxConversation

\* A memory read back with from_json is the one that was saved.
MemoryRestored == FromJson(ToJson(longTerm)) = longTerm
=============================================================================
