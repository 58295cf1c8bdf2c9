------------------------------ MODULE AuditTrail ------------------------------
(***************************************************************************)
(* gateway/audit.rs: a request that was carried out is logged, by a task    *)
(* spawned after its answer or, a decision on an approval, by its handler   *)
(* before the answer. log runs under the lock of the buffer, which a flush  *)
(* keeps until the database has answered for every entry.                   *)
(***************************************************************************)
EXTENDS Integers, FiniteSets, Sequences, SequencesExt

CONSTANTS
  Request,         \* requests, each with the fresh id of its entry
  Approval,        \* those whose handler logs them (gateway/human_approval.rs)
  MaxBufferSize

AuditAssumption == MaxBufferSize \in Nat \ {0} /\ Approval \subseteq Request

VARIABLES
  handled,       \* history: the requests carried out so far
  toLog,         \* those of them whose log waits for the lock of the buffer
  buffer, flushing,   \* what waits to be flushed, and what a flush has taken
  inserts,       \* rows of each entry in audit_log
  lost           \* history: entries a crash, an ignored error or a dropped handler lost

auditVars == <<handled, toLog, buffer, flushing, inserts, lost>>

NotFlushing == [batch |-> FALSE, entries |-> <<>>]
Locked == flushing # NotFlushing

AuditInit ==
  /\ handled = {} /\ toLog = {} /\ buffer = <<>> /\ flushing = NotFlushing
  /\ inserts = [r \in Request |-> 0] /\ lost = {}

\* audit_middleware spawns a task; create_approval and resolve_approval call log.
CarryOut(r) ==
  /\ r \notin handled
  /\ handled' = handled \cup {r}
  /\ toLog' = toLog \cup {r}
  /\ UNCHANGED <<buffer, flushing, inserts, lost>>

\* log: a full buffer is taken and flushed under the same lock.
Overfull(entries) == Len(entries) > MaxBufferSize                              \* fault
Full(entries) == Len(entries) >= MaxBufferSize
Log(r) ==
  /\ r \in toLog /\ ~Locked
  /\ toLog' = toLog \ {r}
  /\ LET pushed == Append(buffer, r)
     IN /\ buffer' = IF Full(pushed) THEN <<>> ELSE pushed
        /\ flushing' = IF Full(pushed) THEN [batch |-> TRUE, entries |-> pushed] ELSE flushing
  /\ UNCHANGED <<handled, inserts, lost>>

\* INSERT .. ON CONFLICT (id) DO NOTHING.
InsertedAgain(r) == inserts[r] + 1                                             \* fault
Inserted(r) == IF inserts[r] = 0 THEN 1 ELSE inserts[r]

\* flush: one statement for all; when it reports an error, which it may after the
\* rows were written, one for each, whose errors are ignored.
FlushBatch(written, reported) ==
  /\ flushing.batch /\ (reported => written)
  /\ inserts' = [r \in Request |-> IF written /\ Contains(flushing.entries, r)
                                   THEN Inserted(r) ELSE inserts[r]]
  /\ flushing' = IF reported THEN NotFlushing ELSE [flushing EXCEPT !.batch = FALSE]
  /\ UNCHANGED <<handled, toLog, buffer, lost>>

FlushOne(written) ==
  /\ Locked /\ ~flushing.batch
  /\ LET r == Head(flushing.entries)
     IN /\ inserts' = IF written THEN [inserts EXCEPT ![r] = Inserted(r)] ELSE inserts
        /\ lost' = IF inserts'[r] = 0 THEN lost \cup {r} ELSE lost
        /\ flushing' = [flushing EXCEPT !.entries = Tail(@)]
  /\ UNCHANGED <<handled, toLog, buffer>>

\* A client that goes away has its handler dropped where it waits: for the lock, or
\* for the database in the flush of which its own entry is the last.
DropWaiting(r) ==
  /\ r \in toLog \cap Approval
  /\ toLog' = toLog \ {r} /\ lost' = lost \cup {r}
  /\ UNCHANGED <<handled, buffer, flushing, inserts>>

DropFlushing(written) ==
  /\ Locked /\ Last(flushing.entries) \in Approval
  /\ LET sent == IF flushing.batch THEN ToSet(flushing.entries) ELSE {Head(flushing.entries)}
     IN inserts' = [r \in Request |-> IF written /\ r \in sent THEN Inserted(r) ELSE inserts[r]]
  /\ lost' = lost \cup {r \in ToSet(flushing.entries) : inserts'[r] = 0}
  /\ flushing' = NotFlushing
  /\ UNCHANGED <<handled, toLog, buffer>>

\* Nothing flushes at shutdown.
Crash ==
  /\ lost' = lost \cup toLog \cup ToSet(buffer)
             \cup {r \in ToSet(flushing.entries) : inserts[r] = 0}
  /\ toLog' = {} /\ buffer' = <<>> /\ flushing' = NotFlushing
  /\ UNCHANGED <<handled, inserts>>

AuditNext ==
  \/ \E r \in Request : CarryOut(r) \/ Log(r) \/ DropWaiting(r)
  \/ \E written, reported \in BOOLEAN : FlushBatch(written, reported)
  \/ \E written \in BOOLEAN : FlushOne(written) \/ DropFlushing(written)
  \/ Crash

AuditSpec == AuditInit /\ [][AuditNext]_auditVars

-----------------------------------------------------------------------------
AuditTypeOK ==
  /\ handled \subseteq Request /\ toLog \subseteq Request /\ lost \subseteq Request
  /\ Len(buffer) < MaxBufferSize

\* Where an entry can be: with the log of its request, in the buffer, in a flush
\* that has not written it, in the table, or lost for one of three reasons.
Places(r) ==
  {p \in {"log", "buffer", "flush", "table", "lost"} :
     \/ p = "log" /\ r \in toLog
     \/ p = "buffer" /\ Contains(buffer, r)
     \/ p = "flush" /\ Contains(flushing.entries, r) /\ inserts[r] = 0
     \/ p = "table" /\ inserts[r] > 0
     \/ p = "lost" /\ r \in lost}

\* Every request carried out has its entry in exactly one place, and no other has
\* one: none vanishes while its batch is written and reported as failed, while others
\* wait for the lock, or when a handler is dropped; none is in the table twice, or
\* to be flushed twice.
EntriesAccounted ==
  /\ \A r \in handled : \E p \in Places(r) : Places(r) = {p}
  /\ \A r \in Request \ handled : Places(r) = {}
  /\ \A r \in Request : inserts[r] <= 1
  /\ IsInjective(buffer) /\ IsInjective(flushing.entries)

=============================================================================
