----------------------------- MODULE PrivacyBudget -----------------------------
(***************************************************************************)
(* The epsilon a type of query may spend in a window: check_and_record of   *)
(* credit/privacy_budget.rs. A request reads the clock, then waits for the  *)
(* write lock; what it is judged by may be older than what others with the  *)
(* lock have done since. Epsilon in tenths. The costs are those of          *)
(* RdpParameters at one order; the code adds up whatever orders it is given.*)
(***************************************************************************)
EXTENDS Integers, Sequences

CONSTANTS QueryType, Cost,        \* epsilon_rdp of a query
          BudgetCaller,           \* requests that may wait for the lock at once
          BudgetEpsilon, WindowLength,
          MaxRecent,              \* recent_queries: 100, half of it dropped when full
          MaxWait, MaxClock       \* bounds: hours a request waits for the lock; the clock

VARIABLES budgets,    \* query type -> budget; absent until its first query
          waitingQueries,     \* waiting request -> its query and the clock it has read
          time,
          allowedLog  \* history: queries let through since a forced reset

budgetVars == <<budgets, waitingQueries, time, allowedLog>>

\* A query let through, when it was, and the window it was counted for.
Allowed == [type : QueryType, cost : Nat, at : Nat, window : Nat]

BudgetInit == /\ budgets = [q \in {} |-> 0] /\ waitingQueries = [r \in {} |-> 0]
              /\ time = 0 /\ allowedLog = <<>>

Fresh(now) == [consumed |-> 0, count |-> 0, recent |-> <<>>,
               window_start |-> now, window_end |-> now + WindowLength]
MaybeReset(b, now) ==
  IF now >= b.window_end
  THEN [Fresh(now) EXCEPT !.window_end = now + (b.window_end - b.window_start)] ELSE b
BudgetOf(q, now) == MaybeReset(IF q \in DOMAIN budgets THEN budgets[q] ELSE Fresh(now), now)

ComposeRdp(b, cost) == IF b.consumed = 0 THEN cost ELSE b.consumed + cost
CostOnly(b, cost) == cost <= BudgetEpsilon                       \* fault
CanAfford(b, cost) == ComposeRdp(b, cost) <= BudgetEpsilon

Trim(s) == IF Len(s) > MaxRecent THEN SubSeq(s, MaxRecent \div 2 + 1, Len(s)) ELSE s
RecordQuery(b, cost) ==
  [b EXCEPT !.consumed = ComposeRdp(b, cost), !.count = @ + 1,
            !.recent = Trim(Append(@, cost))]

SetBudget(q, b) ==
  budgets' = [x \in DOMAIN budgets \cup {q} |-> IF x = q THEN b ELSE budgets[x]]

\* check_and_record, up to the lock: the clock is read before it is awaited.
ReadClock(r, q, cost) ==
  /\ r \notin DOMAIN waitingQueries
  /\ waitingQueries' = [x \in DOMAIN waitingQueries \cup {r} |->
                  IF x = r THEN [type |-> q, cost |-> cost, now |-> time] ELSE waitingQueries[x]]
  /\ UNCHANGED <<budgets, time, allowedLog>>

\* check_and_record, with the lock: the budget comes into being, or into a new
\* window, also by a query that is then blocked.
CheckAndRecord(r) ==
  /\ r \in DOMAIN waitingQueries
  /\ LET q == waitingQueries[r].type
         cost == waitingQueries[r].cost
         b == BudgetOf(q, waitingQueries[r].now)
     IN IF CanAfford(b, cost)
        THEN /\ SetBudget(q, RecordQuery(b, cost))
             /\ allowedLog' = Append(allowedLog, [type |-> q, cost |-> cost, at |-> time,
                                                  window |-> b.window_start])
        ELSE SetBudget(q, b) /\ UNCHANGED allowedLog
  /\ waitingQueries' = [x \in DOMAIN waitingQueries \ {r} |-> waitingQueries[x]]
  /\ UNCHANGED time

ResetAll == budgets' = [q \in {} |-> 0] /\ allowedLog' = <<>> /\ UNCHANGED <<waitingQueries, time>>
HourPasses ==
  /\ time < MaxClock /\ \A r \in DOMAIN waitingQueries : time < waitingQueries[r].now + MaxWait
  /\ time' = time + 1 /\ UNCHANGED <<budgets, waitingQueries, allowedLog>>

BudgetNext ==
  \/ \E r \in BudgetCaller, q \in QueryType, c \in Cost : ReadClock(r, q, c)
  \/ \E r \in BudgetCaller : CheckAndRecord(r)
  \/ ResetAll \/ HourPasses

BudgetSpec == BudgetInit /\ [][BudgetNext]_budgetVars

\* Hours, of which a window has one at least, and tenths of epsilon; two queries to
\* halve.
BudgetAssumption == /\ Cost \subseteq Nat /\ BudgetEpsilon \in Nat
                    /\ WindowLength \in Nat \ {0} /\ MaxWait \in Nat /\ MaxClock \in Nat
                    /\ MaxRecent \in Nat \ {0, 1}

-----------------------------------------------------------------------------
BudgetTypeOK ==
  \A q \in DOMAIN budgets :
    /\ q \in QueryType /\ budgets[q].consumed \in 0..BudgetEpsilon
    /\ Len(budgets[q].recent) <= MaxRecent

\* What the queries of a set have spent, according to a log.
CostIn(e, set) == IF e \in set THEN e.cost ELSE 0
Spent(log, set) ==
  LET spent[i \in 0..Len(log)] == IF i = 0 THEN 0 ELSE spent[i - 1] + CostIn(log[i], set)
  IN spent[Len(log)]
Through(q, from, to) == {e \in Allowed : e.type = q /\ e.at >= from /\ e.at < to}

\* A type spends at most its budget in its current window, whatever other types
\* spend and however late a request gets the lock: all that was let through in
\* the window counts for it, save what was late in its first MaxWait hours and
\* counts for the one before. So no stretch that is MaxWait shorter than a window
\* sees more than twice the budget, unless an operator resets everything.
SpendingBounded ==
  \A q \in QueryType :
    /\ q \in DOMAIN budgets =>
         LET b == budgets[q]
         IN /\ Spent(allowedLog, Through(q, b.window_start + MaxWait, b.window_end))
                 <= b.consumed
            /\ b.consumed
                 <= Spent(allowedLog, Through(q, b.window_start, b.window_end + MaxWait))
            /\ b.consumed <= BudgetEpsilon
    /\ \A from \in 0..MaxClock :
         Spent(allowedLog, Through(q, from, from + WindowLength - MaxWait)) <= 2 * BudgetEpsilon
=============================================================================
