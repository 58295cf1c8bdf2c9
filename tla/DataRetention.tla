----------------------------- MODULE DataRetention -----------------------------
(***************************************************************************)
(* gateway/data_retention.rs: the statements it generates, run one by one   *)
(* by a job while rows arrive. A retention statement keeps the cutoff of    *)
(* the moment it was generated and deletes a batch; some categories have a  *)
(* policy and no statement. An erasure request is three statements, whose   *)
(* second finds cohorts through the table the first has deleted from.       *)
(***************************************************************************)
EXTENDS Integers, FiniteSets

CONSTANTS
  Period,        \* retention_days of each category that occurs, in days
  BatchLimit,    \* rows one statement deletes: 10000
  Person, CohortHash,
  LastDay, MaxRows    \* bounds: days, and rows written in all

Category == DOMAIN Period
\* The categories of DataCategory that generate_retention_queries has an arm for,
\* and the one whose statement has no LIMIT.
Enforced == Category \cap {"raw_transactions", "audit_logs", "credit_scores",
                          "webhook_events", "session_data"}
Unlimited == {"session_data"}

RetentionAssumption == /\ \A c \in Category : Period[c] \in Nat
                       /\ BatchLimit \in Nat \ {0} /\ LastDay \in Nat /\ MaxRows \in Nat

VARIABLES
  today,
  rows,          \* the tables: [id, category, day, person, cohort]
  written,       \* rows written so far
  queries,       \* statements generated and not yet run: [category, cutoff]
  erasure,       \* the request in progress: whose, the statements that have
                 \* run, and what there was to erase when it was made
  deletedOn      \* the day each row was deleted by a retention statement

retentionVars == <<today, rows, written, queries, erasure, deletedOn>>

NoErasure == [person |-> "nobody", done |-> 3, due |-> {}]

RetentionInit ==
  /\ today = 0 /\ rows = {} /\ written = 0 /\ queries = {}
  /\ erasure = NoErasure /\ deletedOn = {}

NextDay == /\ today < LastDay
           /\ today' = today + 1
           /\ UNCHANGED <<rows, written, queries, erasure, deletedOn>>

Write(c, p, h) ==
  /\ written < MaxRows
  /\ written' = written + 1
  /\ rows' = rows \cup {[id |-> written, category |-> c, day |-> today, person |-> p, cohort |-> h]}
  /\ UNCHANGED <<today, queries, erasure, deletedOn>>

AllButToday(c) == today                           \* fault
Cutoff(c) == today - Period[c]

GenerateRetentionQueries ==
  /\ queries' = {[category |-> c, cutoff |-> Cutoff(c)] : c \in Enforced}
  /\ UNCHANGED <<today, rows, written, erasure, deletedOn>>

\* DELETE .. WHERE created_at < cutoff, of at most the limit, whichever those are.
RunRetention(q) ==
  /\ q \in queries
  /\ queries' = queries \ {q}
  /\ LET old == {r \in rows : r.category = q.category /\ r.day < q.cutoff}
         n == IF q.category \in Unlimited \/ Cardinality(old) < BatchLimit
              THEN Cardinality(old) ELSE BatchLimit
     IN \E gone \in {s \in SUBSET old : Cardinality(s) = n} :
          /\ rows' = rows \ gone
          /\ deletedOn' = deletedOn \cup {<<r, today>> : r \in gone}
  /\ UNCHANGED <<today, written, erasure>>

\* generate_erasure_queries; audit_log compares the id with the organisation's.
Of(p, category) == {r \in rows : r.category = category /\ r.person = p}
Erased(p, statement) ==
  CASE statement = 1 -> Of(p, "raw_transactions")
    [] statement = 2 -> {r \in rows : /\ r.category = "credit_scores"
                                      /\ \E t \in Of(p, "raw_transactions") : t.cohort = r.cohort}
    [] statement = 3 -> {r \in Of(p, "audit_logs") : r.day > today - 30}

RequestErasure(p) ==
  /\ erasure.done = 3
  /\ erasure' = [person |-> p, done |-> 0, due |-> UNION {Erased(p, i) : i \in 1..3}]
  /\ UNCHANGED <<today, rows, written, queries, deletedOn>>

RunErasure ==
  /\ erasure.done < 3
  /\ erasure' = [erasure EXCEPT !.done = @ + 1]
  /\ rows' = rows \ Erased(erasure.person, erasure.done + 1)
  /\ UNCHANGED <<today, written, queries, deletedOn>>

RetentionNext ==
  \/ NextDay \/ GenerateRetentionQueries \/ RunErasure
  \/ \E c \in Category, p \in Person, h \in CohortHash : Write(c, p, h)
  \/ \E q \in queries : RunRetention(q)
  \/ \E p \in Person : RequestErasure(p)

RetentionSpec == RetentionInit /\ [][RetentionNext]_retentionVars

-----------------------------------------------------------------------------
\* Nothing is deleted before its period is over, however late a statement is run
\* and however often, and records kept for the tax authority are not deleted.
RetentionRespected ==
  \A d \in deletedOn : /\ d[2] - d[1].day > Period[d[1].category]
                       /\ d[1].category # "billing_records"

\* What data_retention.rs:15 announces, "Cascading deletion across all tables",
\* and the order of its statements does not do: whatever there was to erase when
\* a request was made is gone when it is done.
ErasedEverywhere == erasure.done = 3 => erasure.due \cap rows = {}
=============================================================================
