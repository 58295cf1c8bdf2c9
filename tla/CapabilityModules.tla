--------------------------- MODULE CapabilityModules ---------------------------
(***************************************************************************)
(* orchestrator/modules: what each capability module keeps and answers, how *)
(* its state reaches PostgreSQL and the snapshot file, and what a start of  *)
(* the process finds there. The modules share nothing: each moves alone,    *)
(* and the messages are the environment's. Quantities are integers, Unit of *)
(* them to 1.0; an exponential average is rounded down to one.              *)
(***************************************************************************)
EXTENDS Integers, FiniteSets, Sequences, SequencesExt

CONSTANTS
  Product,      \* product or service categories of the one region
  Earner,
  Batches,      \* sets of transaction batches: sequences of Tx
  Demand,       \* demand indices of market signals, in units
  MinSample,    \* min_sample_size of the MarketAnalyzer, 10 everywhere
  PriceWindow,  \* 168 prices or gaps, 100 points of elasticity
  ProfileDays,  \* 365 daily incomes
  EligibleDays, StableDays,  \* 90 and 7
  MinCount,     \* transactions before an EconomicIndicator: 100
  MinVolume,    \* total volume before an FMCGReport: 100
  MinBroadcasts, \* broadcasts before a ServiceMarketSignal: 10
  LoadLimit,    \* unprocessed broadcasts that a start reads, 10000
  CategoryOf,   \* the category of each service price broadcast, by its id
  MaxTaken, MaxStarts    \* bounds

VARIABLES
  memory,        \* the state of each module
  table,         \* its rows in PostgreSQL
  file,          \* its snapshot file
  pooled,        \* modules that hold a connection pool
  running,       \* modules whose task runs
  scoring,       \* CreditScorer: the worker and the call process() is at
  held,          \* shards of worker_features with a live guard
  answered,      \* the last answer, with the module and what it was about
  broadcastRows, \* service_price_broadcasts: the processed flag of each row
  signalled, missed,   \* broadcasts a signal has counted; those a failure kept from it
  taken, starts

cmVars == <<memory, table, file, pooled, running, scoring, held, answered, broadcastRows,
            signalled, missed, taken, starts>>
scorerVars == <<scoring, held>>
serviceVars == <<broadcastRows, signalled, missed>>

Unit == 1000
Module == {"MarketAnalyzer", "CreditScorer", "DistributionAnalyzer", "FMCGIntelligence",
           "ServicePriceDiscovery", "HealthMetrics", "EconomicAnalyzer"}
\* with_pool exists for these, load_state and persist_state with it.
Persisted == Module \ {"CreditScorer", "HealthMetrics"}
\* CapabilityModule::shutdown is overridden by these.
SavesAtShutdown == Persisted \ {"EconomicAnalyzer"}

Tx(category, brand, quantity, amount) ==
  [category |-> category, brand |-> brand, quantity |-> quantity, amount |-> amount]
InCategory(batch, category) == SelectSeq(batch, LAMBDA t : t.category = category)
Traded(batch) == {batch[i].category : i \in DOMAIN batch}
Volume(batch) == FoldSeq(LAMBDA t, total : t.quantity + total, 0, batch)
Revenue(batch) == FoldSeq(LAMBDA t, total : t.amount + total, 0, batch)

Get(f, k, default) == IF k \in DOMAIN f THEN f[k] ELSE default
Updated(f, k, v) == [x \in DOMAIN f \cup {k} |-> IF x = k THEN v ELSE f[x]]
Empty == [x \in {} |-> 0]
\* Vec::remove(0) once the vector is over its size.
Latest(seq, size) == IF Len(seq) > size THEN Tail(seq) ELSE seq
Ema(old, new, percent) == ((100 - percent) * old + percent * new) \div 100

NoAnswer == [by |-> "none"]

(* MarketAnalyzer ********************************************************)

\* RollingWindow::push
PushedTo(window, entry) ==
  Append(IF Len(window) >= PriceWindow THEN Tail(window) ELSE window, entry)

\* price_trend: the last three prices against the first three, or all before
\* the last three; fewer than three say nothing. Volatility is left out.
PriceTrend(window) ==
  LET n == Len(window)
      Average(s) == FoldSeq(LAMBDA e, total : e.price + total, 0, s) \div Len(s)
      older == Average(SubSeq(window, 1, IF n > 6 THEN n - 3 ELSE 3))
      change == 100 * (Average(SubSeq(window, n - 2, n)) - older)
  IN IF n < 3 \/ older = 0 THEN "Stable"
     ELSE IF change > 5 * older THEN "Rising"
     ELSE IF change < -5 * older THEN "Falling" ELSE "Stable"

\* A batch moves the window of every category with a large enough sample; of
\* the signals they make one is answered, the first in a HashMap's order.
MarketBatch(batch) ==
  LET sampled == {c \in Traded(batch) : Len(InCategory(batch, c)) >= MinSample}
      old == memory["MarketAnalyzer"]
      Entry(c) == [volume |-> Volume(InCategory(batch, c)), sample |-> Len(InCategory(batch, c)),
                   price |-> Revenue(InCategory(batch, c)) \div Len(InCategory(batch, c))]
      new == [c \in DOMAIN old \cup sampled |->
                IF c \in sampled THEN PushedTo(Get(old, c, <<>>), Entry(c)) ELSE old[c]]
  IN /\ memory' = [memory EXCEPT !["MarketAnalyzer"] = new]
     /\ \/ sampled = {} /\ answered' = NoAnswer
        \/ \E c \in sampled :
             answered' = [by |-> "MarketAnalyzer", category |-> c,
                          sample |-> Len(InCategory(batch, c)), trend |-> PriceTrend(new[c])]

(* HealthMetrics *********************************************************)

\* income_stability_score, as the comparison with 0.5 the eligibility makes:
\* the variance is under a quarter of the squared mean. Fewer than StableDays
\* incomes score 0.5.
Stable(incomes) ==
  LET n == Len(incomes)
      sum == FoldSeq(LAMBDA x, total : x + total, 0, incomes)
      squares == FoldSeq(LAMBDA x, total : x * x + total, 0, incomes)
  IN n >= StableDays /\ sum > 0 /\ 4 * (n * squares - sum * sum) < sum * sum

HealthBatch(w, batch) ==
  LET old == Get(memory["HealthMetrics"], w, [incomes |-> <<>>, active |-> 0, total |-> 0])
      income == Revenue(SelectSeq(batch, LAMBDA t : t.amount > 0))
      new == [incomes |-> IF income > 0 THEN Latest(Append(old.incomes, income), ProfileDays)
                          ELSE old.incomes,
              active |-> IF income > 0 THEN old.active + 1 ELSE old.active,
              total |-> old.total + 1]
  IN /\ memory' = [memory EXCEPT !["HealthMetrics"] = Updated(@, w, new)]
     /\ answered' = [by |-> "HealthMetrics", worker |-> w,
                     eligible |-> Len(new.incomes) >= EligibleDays /\ Stable(new.incomes)]

(* DistributionAnalyzer **************************************************)

DistributionBatch(batch) ==
  LET old == memory["DistributionAnalyzer"]
      supply == [c \in DOMAIN old.supply \cup Traded(batch) |->
                   IF c \in Traded(batch)
                   THEN Ema(Get(old.supply, c, 0), Unit * Volume(InCategory(batch, c)), 10)
                   ELSE old.supply[c]]
  IN /\ memory' = [memory EXCEPT !["DistributionAnalyzer"].supply = supply]
     /\ answered' = NoAnswer

\* A supply nobody has measured counts as 1.0; one measured as zero, or read as
\* zero, makes the gap 2.0.
DemandGap(supply, c, demand) ==
  LET s == Get(supply, c, Unit) IN IF s > 0 THEN (Unit * demand) \div s ELSE 2 * Unit

DistributionSignal(c, demand, sample) ==
  LET old == memory["DistributionAnalyzer"]
      gap == DemandGap(old.supply, c, demand)
  IN /\ memory' = [memory EXCEPT !["DistributionAnalyzer"] =
           [@ EXCEPT !.demand = Updated(@, c, demand),
                     !.gaps = Updated(@, c, Latest(Append(Get(@, c, <<>>), gap), PriceWindow))]]
     /\ answered' = IF 10 * gap > 13 * Unit /\ sample >= MinSample
                    THEN [by |-> "DistributionAnalyzer", category |-> c, gap |-> gap,
                          sample |-> sample]
                    ELSE NoAnswer

(* EconomicAnalyzer ******************************************************)

NewRegion == [current |-> 0, previous |-> 0, workers |-> 0, price |-> Empty, count |-> 0]

\* The periods shift with every batch, whatever the time between them. No
\* baseline_cpi is ever set, so the price index answers 100.
EconomicBatch(batch) ==
  LET old == Get(memory["EconomicAnalyzer"], "region", NewRegion)
      Price(p, t) == Updated(p, t.category, Ema(Get(p, t.category, t.amount), t.amount, 5))
      new == [old EXCEPT !.previous = old.current, !.current = Volume(batch),
                         !.count = @ + Len(batch),
                         !.price = FoldLeft(Price, old.price, batch)]
  IN /\ memory' = [memory EXCEPT !["EconomicAnalyzer"] = Updated(@, "region", new)]
     /\ answered' = IF new.count >= MinCount
                    THEN [by |-> "EconomicAnalyzer",
                          volumeIndex |-> IF new.previous > 0
                                          THEN (100 * new.current) \div new.previous
                                          ELSE 100]
                    ELSE NoAnswer

EconomicSignal(demand) ==
  /\ memory' = [memory EXCEPT !["EconomicAnalyzer"] =
       IF "region" \in DOMAIN @
       THEN [@ EXCEPT !["region"].workers = (9 * @ + (100 * demand) \div Unit) \div 10]
       ELSE @]
  /\ answered' = NoAnswer

(* FMCGIntelligence ******************************************************)

NoBrands == [volumes |-> Empty, total |-> 0]

FmcgBatch(batch) ==
  LET Track(all, t) ==
        LET old == Get(all, t.category, NoBrands)
        IN Updated(all, t.category,
               [volumes |-> Updated(old.volumes, t.brand, Get(old.volumes, t.brand, 0) + t.quantity),
                total |-> old.total + t.quantity])
  IN /\ memory' = [memory EXCEPT !["FMCGIntelligence"].brands = FoldLeft(Track, @, batch)]
     /\ answered' = NoAnswer

\* A rising or falling price adds a point, the rate of change with the demand;
\* the answer names the first of the largest brands.
FmcgSignal(c, demand, trend) ==
  LET old == memory["FMCGIntelligence"]
      points == Latest(Append(Get(old.elasticity, c, <<>>), demand), PriceWindow)
      brands == Get(old.brands, c, NoBrands)
      top == {b \in DOMAIN brands.volumes :
                \A o \in DOMAIN brands.volumes : brands.volumes[o] <= brands.volumes[b]}
  IN /\ memory' = [memory EXCEPT !["FMCGIntelligence"].elasticity =
                     IF trend = "Stable" THEN @ ELSE Updated(@, c, points)]
     /\ \/ brands.total <= MinVolume /\ answered' = NoAnswer
        \/ /\ brands.total > MinVolume
           /\ \E b \in top :
                answered' = [by |-> "FMCGIntelligence", category |-> c, brand |-> b,
                             share |-> (Unit * brands.volumes[b]) \div brands.total]

(* ServicePriceDiscovery *************************************************)

\* compute_signal: nothing is taken from the pending broadcasts.
Signal(pending) == [sample |-> Len(pending), of |-> ToSet(pending)]

Unprocessed == {b \in DOMAIN broadcastRows : ~broadcastRows[b]}
Queue(c) == Get(memory["ServicePriceDiscovery"].pending, c, <<>>)
\* store_broadcast: a repeated id adds no row; an error is only logged, and
\* without a pool there is nothing to do.
StoredRows(b, ok) ==
  IF "ServicePriceDiscovery" \in pooled /\ ok /\ b \notin DOMAIN broadcastRows
  THEN Updated(broadcastRows, b, FALSE) ELSE broadcastRows
\* mark_processed marks every unprocessed row of the category, rows this
\* process has never seen included.
MarkedRows(all, categories, ok) ==
  [b \in DOMAIN all |->
     \/ all[b]
     \/ "ServicePriceDiscovery" \in pooled /\ ok /\ CategoryOf[b] \in categories]

ServiceBroadcast(b) ==
  LET m == "ServicePriceDiscovery"
      c == CategoryOf[b]
      queue == Append(Queue(c), b)
      signals == Len(queue) >= MinBroadcasts
  IN \E stored, marked \in BOOLEAN :
       /\ memory' = [memory EXCEPT ![m] =
            [pending |-> Updated(@.pending, c, queue),
             signals |-> IF signals THEN Updated(@.signals, c, Signal(queue)) ELSE @.signals]]
       /\ broadcastRows' = MarkedRows(StoredRows(b, stored), IF signals THEN {c} ELSE {}, marked)
       /\ signalled' = IF signals THEN signalled \cup ToSet(queue) ELSE signalled
       /\ answered' = IF signals THEN [by |-> m, category |-> c, sample |-> Len(queue)] ELSE NoAnswer
       /\ UNCHANGED missed

\* The process ends between mark_processed and the answer.
ServiceDies(b) ==
  LET c == CategoryOf[b]
      m == "ServicePriceDiscovery"
  IN /\ Len(Queue(c)) + 1 >= MinBroadcasts
     /\ \E stored \in BOOLEAN : broadcastRows' = MarkedRows(StoredRows(b, stored), {c}, TRUE)
     /\ missed' = missed \cup {b} \cup ToSet(Queue(c))
     /\ memory' = [memory EXCEPT ![m] = [pending |-> Empty, signals |-> Empty]]
     /\ running' = running \ {m}
     /\ answered' = NoAnswer
     /\ UNCHANGED signalled

\* Recalculate computes every category again and answers the last.
ServiceRecalculate ==
  LET m == "ServicePriceDiscovery"
      due == {c \in Product : Len(Queue(c)) >= MinBroadcasts}
  IN \E marked \in SUBSET due :
       /\ memory' = [memory EXCEPT ![m].signals =
            [c \in DOMAIN @ \cup due |-> IF c \in due THEN Signal(Queue(c)) ELSE @[c]]]
       /\ broadcastRows' = MarkedRows(broadcastRows, marked, TRUE)
       /\ signalled' = signalled \cup UNION {ToSet(Queue(c)) : c \in due}
       /\ \/ due = {} /\ answered' = NoAnswer
          \/ \E c \in due : answered' = [by |-> m, category |-> c, sample |-> Len(Queue(c))]
       /\ UNCHANGED missed

(* CreditScorer **********************************************************)

\* The calls process() makes on worker_features for a batch: entry() takes the
\* shard and its guard lives to the end, extract_features() asks for the shard
\* again. The guard is dropped with the answer.
ScorerCalls == <<"entry", "get">>

ScorerTakes(w, batch) ==
  /\ scoring = {}
  /\ scoring' = {[worker |-> w, batch |-> batch, at |-> 1]}
  /\ answered' = NoAnswer
  /\ UNCHANGED <<memory, held>>

\* DashMap blocks the thread, not the task, until the shard is free: here it is
\* never, and the batch is not answered, as credit.rs:191 means it to be.
ScorerStep ==
  \E s \in scoring :
    LET last == s.at = Len(ScorerCalls)
        old == Get(memory["CreditScorer"], s.worker, [total |-> 0, diversity |-> 0])
        new == [total |-> old.total + Len(s.batch), diversity |-> Cardinality(Traded(s.batch))]
    IN /\ s.worker \notin held
       /\ held' = IF last THEN held \ {s.worker} ELSE held \cup {s.worker}
       /\ scoring' = IF last THEN {} ELSE {[s EXCEPT !.at = @ + 1]}
       /\ memory' = IF last THEN memory
                    ELSE [memory EXCEPT !["CreditScorer"] = Updated(@, s.worker, new)]
       /\ answered' = IF last THEN [by |-> "CreditScorer", worker |-> s.worker] ELSE NoAnswer

(* Starting, stopping and snapshots **************************************)

NewState(m) == CASE m = "DistributionAnalyzer" -> [supply |-> Empty, demand |-> Empty, gaps |-> Empty]
              [] m = "FMCGIntelligence" -> [brands |-> Empty, elasticity |-> Empty]
              [] m = "ServicePriceDiscovery" -> [pending |-> Empty, signals |-> Empty]
              [] OTHER -> Empty

(* Rows. A table's rows are kept as the module keeps its entries, by product. *)

\* persist_state upserts row after row and stops at the first error: what is
\* left behind are the rows of some products, `keys`. A row has every column of
\* its key, 0.0 or "[]" where the module has no entry.
Overwritten(old, new, keys) ==
  [c \in DOMAIN old \cup keys |-> IF c \in keys THEN new[c] ELSE old[c]]
Columns(f, keys, default) == [c \in keys |-> Get(f, c, default)]

WindowRows(rows, windows, keys) == Overwritten(rows, windows, keys \cap DOMAIN windows)

GapRows(rows, state, keys) ==
  LET written == keys \cap (DOMAIN state.supply \cup DOMAIN state.demand \cup DOMAIN state.gaps)
  IN [supply |-> Overwritten(rows.supply, Columns(state.supply, written, 0), written),
      demand |-> Overwritten(rows.demand, Columns(state.demand, written, 0), written),
      gaps |-> Overwritten(rows.gaps, Columns(state.gaps, written, <<>>), written)]

BrandRows(rows, state, keys) ==
  LET written == keys \cap (DOMAIN state.brands \cup DOMAIN state.elasticity)
  IN [brands |-> Overwritten(rows.brands, Columns(state.brands, written, NoBrands), written),
      elasticity |-> Overwritten(rows.elasticity, Columns(state.elasticity, written, <<>>), written)]

SignalRows(rows, state, keys) ==
  [rows EXCEPT !.signals = Overwritten(@, state.signals, keys \cap DOMAIN state.signals)]

Upserted(m, rows, state, keys) ==
  CASE m = "DistributionAnalyzer" -> GapRows(rows, state, keys)
    [] m = "FMCGIntelligence" -> BrandRows(rows, state, keys)
    [] m = "ServicePriceDiscovery" -> SignalRows(rows, state, keys)
    [] OTHER -> WindowRows(rows, state, keys)

\* load_state: an empty history is no entry, a brand row without brands is one.
WithHistory(f) == [c \in {k \in DOMAIN f : f[k] # <<>>} |-> f[c]]
LoadWindows(rows) == WithHistory(rows)
LoadGaps(rows) == [rows EXCEPT !.gaps = WithHistory(@)]
LoadBrands(rows) == [rows EXCEPT !.elasticity = WithHistory(@)]

Loaded(m) ==
  CASE m = "DistributionAnalyzer" -> LoadGaps(table[m])
    [] m = "FMCGIntelligence" -> LoadBrands(table[m])
    [] OTHER -> LoadWindows(table[m])

Becomes(m, state) == memory' = [memory EXCEPT ![m] = state]

\* The queries of ServicePriceDiscovery, for the signals and for the unprocessed
\* broadcasts, at most LoadLimit of them: if one fails, what came before stays and
\* what came not is missed. The order of equal times is not fixed.
LoadFailure(signals) ==
  /\ Becomes("ServicePriceDiscovery", [pending |-> Empty, signals |-> signals])
  /\ missed' = missed \cup Unprocessed
LoadBroadcasts ==
  \E read \in SUBSET Unprocessed :
    /\ read = Unprocessed \/ (Cardinality(read) = LoadLimit /\ read # Unprocessed)
    /\ Cardinality(read) <= LoadLimit
    /\ \E pending \in [{CategoryOf[b] : b \in read} -> UNION {SetToSeqs(r) : r \in SUBSET read}] :
         /\ \A c \in DOMAIN pending :
              pending[c] \in SetToSeqs({b \in read : CategoryOf[b] = c})
         /\ Becomes("ServicePriceDiscovery",
                    [pending |-> pending, signals |-> table["ServicePriceDiscovery"].signals])
    /\ missed' = missed \cup (Unprocessed \ read)
LoadService == \/ LoadBroadcasts
               \/ LoadFailure(Empty)
               \/ LoadFailure(table["ServicePriceDiscovery"].signals)

\* start_modules: a module with a pool reads its tables, and the snapshot file
\* only if that failed; without a pool load_state succeeds and brings nothing.
Start(m) ==
  /\ m \notin running /\ starts < MaxStarts
  /\ running' = running \cup {m} /\ starts' = starts + 1
  /\ \E pool \in BOOLEAN :
       /\ pooled' = IF pool /\ m \in Persisted THEN pooled \cup {m} ELSE pooled \ {m}
       /\ \/ m \notin Persisted /\ Becomes(m, file[m]) /\ UNCHANGED missed
          \/ m \in Persisted /\ ~pool /\ Becomes(m, NewState(m)) /\ UNCHANGED missed
          \/ /\ m \in Persisted \ {"ServicePriceDiscovery"} /\ pool
             /\ Becomes(m, Loaded(m)) \/ Becomes(m, file[m])
             /\ UNCHANGED missed
          \/ m = "ServicePriceDiscovery" /\ pool /\ LoadService
  /\ answered' = NoAnswer
  /\ UNCHANGED <<table, file, scorerVars, broadcastRows, signalled, taken>>

\* The periodic snapshot; the select! of a task that waits for a lock never
\* gets there.
Snapshot(m) ==
  /\ m \in running /\ (m = "CreditScorer" => scoring = {})
  /\ file' = [file EXCEPT ![m] = memory[m]]
  /\ answered' = NoAnswer
  /\ UNCHANGED <<memory, table, pooled, running, scorerVars, serviceVars, taken, starts>>

\* shutdown signals the tasks and aborts them without waiting: the final
\* snapshot may be written, and after it rows, as many as there is time for.
\* A crash writes nothing.
Stop(m) ==
  /\ m \in running
  /\ \E keys \in SUBSET (Product \cup {"region"}), snapped \in BOOLEAN :
       /\ file' = IF snapped /\ (m = "CreditScorer" => scoring = {})
                  THEN [file EXCEPT ![m] = memory[m]] ELSE file
       /\ table' = IF snapped /\ m \in pooled \cap SavesAtShutdown
                   THEN [table EXCEPT ![m] = Upserted(m, @, memory[m], keys)] ELSE table
  /\ memory' = [memory EXCEPT ![m] = NewState(m)]
  /\ running' = running \ {m}
  /\ scoring' = IF m = "CreditScorer" THEN {} ELSE scoring
  /\ held' = IF m = "CreditScorer" THEN {} ELSE held
  /\ answered' = NoAnswer
  /\ UNCHANGED <<pooled, serviceVars, taken, starts>>

\* handle_module_failure builds the module with new(): no state and no pool.
\* A blocked thread is not aborted; the new module has a map of its own.
Respawn(m) ==
  /\ m \in running /\ starts < MaxStarts
  /\ memory' = [memory EXCEPT ![m] = NewState(m)]
  /\ pooled' = pooled \ {m}
  /\ starts' = starts + 1
  /\ scoring' = IF m = "CreditScorer" THEN {} ELSE scoring
  /\ held' = IF m = "CreditScorer" THEN {} ELSE held
  /\ answered' = NoAnswer
  /\ UNCHANGED <<table, file, running, serviceVars, taken>>

(* The messages of the bus ***********************************************)

TakesOne(m) == m \in running /\ taken < MaxTaken /\ taken' = taken + 1

TakesBatch(m) ==
  /\ TakesOne(m)
  /\ \E batch \in Batches :
       \/ m = "MarketAnalyzer" /\ MarketBatch(batch) /\ UNCHANGED scorerVars
       \/ m = "HealthMetrics" /\ (\E w \in Earner : HealthBatch(w, batch)) /\ UNCHANGED scorerVars
       \/ m = "DistributionAnalyzer" /\ DistributionBatch(batch) /\ UNCHANGED scorerVars
       \/ m = "EconomicAnalyzer" /\ EconomicBatch(batch) /\ UNCHANGED scorerVars
       \/ m = "FMCGIntelligence" /\ FmcgBatch(batch) /\ UNCHANGED scorerVars
       \/ m = "CreditScorer" /\ \E w \in Earner : ScorerTakes(w, batch)
  /\ UNCHANGED <<table, file, pooled, running, serviceVars, starts>>

MarketSignal(m) ==
  /\ TakesOne(m)
  /\ \E c \in Product, demand \in Demand :
       \/ /\ m = "DistributionAnalyzer"
          /\ \E sample \in {MinSample - 1, MinSample} : DistributionSignal(c, demand, sample)
       \/ m = "EconomicAnalyzer" /\ EconomicSignal(demand)
       \/ /\ m = "FMCGIntelligence"
          /\ \E trend \in {"Stable", "Rising", "Falling"} : FmcgSignal(c, demand, trend)
  /\ UNCHANGED <<table, file, pooled, running, scorerVars, serviceVars, starts>>

ServiceMessage ==
  /\ TakesOne("ServicePriceDiscovery")
  /\ \/ UNCHANGED running
        /\ ((\E b \in DOMAIN CategoryOf : ServiceBroadcast(b)) \/ ServiceRecalculate)
     \/ \E b \in DOMAIN CategoryOf : ServiceDies(b)
  /\ UNCHANGED <<table, file, pooled, scorerVars, starts>>

ScorerMoves == /\ ScorerStep
               /\ UNCHANGED <<table, file, pooled, running, serviceVars, taken, starts>>

CMInit ==
  /\ memory = [m \in Module |-> NewState(m)] /\ table = memory /\ file = memory
  /\ pooled = {} /\ running = {} /\ scoring = {} /\ held = {} /\ answered = NoAnswer
  /\ broadcastRows = Empty /\ signalled = {} /\ missed = {} /\ taken = 0 /\ starts = 0

ModuleMoves(m) ==
  \/ Start(m) \/ Snapshot(m) \/ Stop(m) \/ Respawn(m)
  \/ TakesBatch(m) \/ MarketSignal(m)
  \/ m = "ServicePriceDiscovery" /\ ServiceMessage
  \/ m = "CreditScorer" /\ ScorerMoves
CMNext == \E m \in Module : ModuleMoves(m)
CMSpec == CMInit /\ [][CMNext]_cmVars

ModulesAssumption ==
  /\ {MinSample, MinBroadcasts, PriceWindow, ProfileDays, EligibleDays, LoadLimit} \subseteq Nat \ {0}
  /\ {MaxTaken, MaxStarts, StableDays} \subseteq Nat
  /\ EligibleDays <= ProfileDays

----------------------------------------------------------------------------

\* What a tracker says is sold in all is what its brands have sold, whether it
\* is the module's, a row's or the snapshot's (fmcg.rs process, persist_state).
SharesAddUp ==
  \A state \in {memory["FMCGIntelligence"], table["FMCGIntelligence"], file["FMCGIntelligence"]} :
    \A c \in DOMAIN state.brands :
      state.brands[c].total = FoldFunction(+, 0, state.brands[c].volumes)

\* Income profiles lose the oldest income only, count no more active days than
\* days, and a worker found eligible has worked long enough in this life of the
\* profile (health.rs process).
ProfilesConsistent ==
  /\ \A state \in {memory["HealthMetrics"], file["HealthMetrics"]} : \A w \in DOMAIN state :
       /\ Len(state[w].incomes) = IF state[w].active > ProfileDays THEN ProfileDays
                                  ELSE state[w].active
       /\ state[w].active <= state[w].total
  /\ answered.by = "HealthMetrics" /\ answered.eligible =>
       memory["HealthMetrics"][answered.worker].active >= EligibleDays

\* No price and no service signal rests on less than the minimum of samples,
\* those read back after a restart included (market.rs, compute_signal).
SamplesLargeEnough ==
  /\ \A state \in {memory["MarketAnalyzer"], table["MarketAnalyzer"], file["MarketAnalyzer"]} :
       \A c \in DOMAIN state :
         /\ Len(state[c]) \in 1..PriceWindow
         /\ \A i \in DOMAIN state[c] : state[c][i].sample >= MinSample
  /\ \A state \in {memory["ServicePriceDiscovery"], table["ServicePriceDiscovery"]} :
       \A c \in DOMAIN state.signals : state.signals[c].sample >= MinBroadcasts

\* A stored broadcast is marked processed only when a signal has counted it, or
\* after a start that did not read it or an end between the two
\* (service_price_discovery.rs).
ProcessedWasCounted ==
  \A b \in DOMAIN broadcastRows : broadcastRows[b] => b \in signalled \cup missed

\* In a module that runs with its tables read, every unprocessed broadcast of
\* its table waits in its queue (load_state, store_broadcast).
UnprocessedWait ==
  "ServicePriceDiscovery" \in running \cap pooled =>
    \A b \in Unprocessed \ missed : b \in ToSet(Queue(CategoryOf[b]))

\* What the modules keep and answer, but for the shares of brands.
CapabilitiesSound ==
  /\ ProfilesConsistent /\ SamplesLargeEnough /\ ProcessedWasCounted /\ UnprocessedWait
=============================================================================
