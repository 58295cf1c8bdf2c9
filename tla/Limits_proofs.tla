--------------------------- MODULE Limits_proofs ---------------------------
(***************************************************************************)
(* Proofs about the limits on requests: usage metering, for any number of  *)
(* overlapping requests, any calendar and any limits; the rate limit, for  *)
(* any rates and stretches of time; and the privacy budget, for any costs, *)
(* budget and length of a window.                                          *)
(***************************************************************************)
EXTENDS UsageMetering, RateLimit, PrivacyBudget, FiniteSetTheorems, SequenceTheorems,
        WellFoundedInduction, TLAPS

(***************************************************************************)
(* Usage metering. The numbers INCR returns are tickets: no two requests   *)
(* of a month (of a day) hold the same, and none is above the counter. So  *)
(* the admitted ones of a month have different tickets up to the limit.    *)
(***************************************************************************)
Stage == {"none", "begun", "month_counted", "counted", "unmetered",
          "over_month", "over_day", "admitted"}
MonthCounted == {"month_counted", "counted", "over_month", "over_day", "admitted"}
DayCounted == {"counted", "over_month", "over_day", "admitted"}

MeteringTypes ==
  /\ monthlyUsage \in [Months -> Nat] /\ dailyUsage \in [Days -> Nat]
  /\ usageRecords \in [Months -> Nat] /\ counts = monthlyUsage
  /\ requests \in [ApiCall -> [at : Stage, month : Months \cup {0}, day : Days \cup {0},
                           monthly : Nat, daily : Nat]]
  /\ date \in Days /\ redisErrors \in 0..MaxErrors

HoldsMonth(r) == requests[r].at \in MonthCounted
HoldsDay(r) == requests[r].at \in DayCounted /\ requests[r].daily # 0

Dated == \A r \in ApiCall : requests[r].at # "none" =>
           requests[r].day \in Days /\ requests[r].month \in Months

MonthTickets ==
  /\ \A r \in ApiCall : HoldsMonth(r) =>
       requests[r].monthly \in 1..monthlyUsage[MonthOfRequest(r)]
  /\ \A r, s \in ApiCall :
       /\ HoldsMonth(r) /\ HoldsMonth(s) /\ r # s
       /\ MonthOfRequest(r) = MonthOfRequest(s)
       => requests[r].monthly # requests[s].monthly

DayTickets ==
  /\ \A r \in ApiCall : HoldsDay(r) => requests[r].daily <= dailyUsage[requests[r].day]
  /\ \A r, s \in ApiCall :
       HoldsDay(r) /\ HoldsDay(s) /\ r # s /\ requests[r].day = requests[s].day
       => requests[r].daily # requests[s].daily

Verdicts ==
  \A r \in ApiCall :
    /\ Moves(r, "admitted") => /\ requests[r].monthly <= MonthlyLimit
                               /\ requests[r].daily <= DailyLimit
    /\ Moves(r, "over_month") => requests[r].monthly > MonthlyLimit

RecordsBounded == \A m \in Months : usageRecords[m] <= monthlyUsage[m]

MeteringInv ==
  MeteringTypes /\ Dated /\ MonthTickets /\ DayTickets /\ Verdicts /\ RecordsBounded

\* No request has begun.
LEMMA MeteringInvInit == ASSUME MeteringAssumption, MeteringInit PROVE MeteringInv
<1> USE DEF MeteringInit, NotBegun
<1>1. \A r \in ApiCall : requests[r] = NotBegun
  OBVIOUS
<1>2. MeteringTypes
  BY DEF MeteringTypes, MeteringAssumption, Stage
<1>3. \A r \in ApiCall : ~HoldsMonth(r) /\ ~HoldsDay(r)
  BY <1>1 DEF HoldsMonth, HoldsDay, MonthCounted, DayCounted
<1>4. Dated /\ Verdicts
  BY <1>1 DEF Dated, Verdicts, Moves
<1>5. RecordsBounded
  BY DEF RecordsBounded
<1> QED BY <1>2, <1>3, <1>4, <1>5 DEF MeteringInv, MonthTickets, DayTickets

\* A request that has begun belongs to a month.
LEMMA MonthOfDated ==
  ASSUME MeteringInv, NEW r \in ApiCall, requests[r].at # "none"
  PROVE  requests[r].day \in Days /\ MonthOfRequest(r) \in Months
BY DEF MeteringInv, Dated, MonthOfRequest, Months

\* Months whose counters do not fall keep their tickets, if none is handed out.
LEMMA MonthTicketsKept ==
  ASSUME MeteringInv, MeteringTypes',
         \A m \in Months : monthlyUsage[m] <= monthlyUsage'[m],
         \A s \in ApiCall : HoldsMonth(s)' =>
           HoldsMonth(s) /\ requests'[s].monthly = requests[s].monthly
                        /\ requests'[s].month = requests[s].month
  PROVE  MonthTickets'
<1>1. MonthTickets /\ MeteringTypes
  BY DEF MeteringInv
<1>2. ASSUME NEW s \in ApiCall, HoldsMonth(s)'
      PROVE  /\ MonthOfRequest(s)' = MonthOfRequest(s) /\ MonthOfRequest(s) \in Months
             /\ HoldsMonth(s) /\ requests'[s].monthly = requests[s].monthly
  BY <1>2, MonthOfDated DEF HoldsMonth, MonthCounted, MonthOfRequest
<1>3. ASSUME NEW s \in ApiCall, HoldsMonth(s)'
      PROVE  (requests[s].monthly \in 1..monthlyUsage[MonthOfRequest(s)])'
  BY <1>1, <1>2, <1>3 DEF MonthTickets, MeteringTypes
<1>4. ASSUME NEW s \in ApiCall, NEW u \in ApiCall, HoldsMonth(s)', HoldsMonth(u)', s # u,
             MonthOfRequest(s)' = MonthOfRequest(u)'
      PROVE  requests'[s].monthly # requests'[u].monthly
  BY <1>1, <1>2, <1>4 DEF MonthTickets
<1> QED BY <1>3, <1>4 DEF MonthTickets

\* The same for the days.
LEMMA DayTicketsKept ==
  ASSUME MeteringInv, MeteringTypes',
         \A d \in Days : dailyUsage[d] <= dailyUsage'[d],
         \A s \in ApiCall : HoldsDay(s)' =>
           HoldsDay(s) /\ requests'[s].daily = requests[s].daily
                      /\ requests'[s].day = requests[s].day
  PROVE  DayTickets'
<1>1. DayTickets /\ MeteringTypes
  BY DEF MeteringInv
<1>2. ASSUME NEW s \in ApiCall, HoldsDay(s)'
      PROVE  /\ requests[s].day \in Days /\ requests'[s].day = requests[s].day
             /\ HoldsDay(s) /\ requests'[s].daily = requests[s].daily
  BY <1>2, MonthOfDated DEF HoldsDay, DayCounted
<1>3. ASSUME NEW s \in ApiCall, HoldsDay(s)'
      PROVE  (requests[s].daily <= dailyUsage[requests[s].day])'
  BY <1>1, <1>2, <1>3 DEF DayTickets, MeteringTypes
<1>4. ASSUME NEW s \in ApiCall, NEW u \in ApiCall, HoldsDay(s)', HoldsDay(u)', s # u,
             requests'[s].day = requests'[u].day
      PROVE  requests'[s].daily # requests'[u].daily
  BY <1>1, <1>2, <1>4 DEF DayTickets
<1> QED BY <1>3, <1>4 DEF DayTickets

\* A request takes its ticket of the month: the next one.
LEMMA CountMonthInv ==
  ASSUME MeteringAssumption, MeteringInv, NEW r \in ApiCall, CountMonth(r)
  PROVE  MeteringInv'
<1> DEFINE m == requests[r].month
<1>0. MeteringTypes /\ Dated /\ MonthTickets /\ DayTickets /\ Verdicts /\ RecordsBounded
  BY DEF MeteringInv
<1>1. requests[r].at = "begun" /\ requests[r].day \in Days /\ m \in Months
  BY MonthOfDated DEF CountMonth, Moves, MonthOfRequest
<1>2. /\ monthlyUsage' = [monthlyUsage EXCEPT ![m] = monthlyUsage[m] + 1]
      /\ counts' = [counts EXCEPT ![m] = counts[m] + 1]
      /\ requests' = [requests EXCEPT ![r].at = "month_counted", ![r].monthly = monthlyUsage'[m]]
      /\ UNCHANGED <<dailyUsage, usageRecords, date, redisErrors>>
  BY DEF CountMonth
<1>3. /\ monthlyUsage' \in [Months -> Nat] /\ counts' = monthlyUsage'
      /\ monthlyUsage[m] \in Nat /\ monthlyUsage'[m] = monthlyUsage[m] + 1
      /\ \A n \in Months : monthlyUsage[n] <= monthlyUsage'[n]
  BY <1>0, <1>1, <1>2 DEF MeteringTypes
<1>4. /\ requests'[r].at = "month_counted" /\ requests'[r].day = requests[r].day
      /\ requests'[r].month = requests[r].month
      /\ requests'[r].monthly = monthlyUsage[m] + 1 /\ requests'[r].daily = requests[r].daily
      /\ \A s \in ApiCall : s # r => requests'[s] = requests[s]
  BY <1>0, <1>2, <1>3 DEF MeteringTypes
<1>5. MeteringTypes'
  <2>0. monthlyUsage'[m] \in Nat /\ "month_counted" \in Stage
    BY <1>3 DEF Stage
  <2>1. requests' \in [ApiCall -> [at : Stage, month : Months \cup {0}, day : Days \cup {0},
                           monthly : Nat, daily : Nat]]
    BY <1>0, <1>2, <2>0 DEF MeteringTypes
  <2> QED BY <1>0, <1>2, <1>3, <2>1 DEF MeteringTypes
<1>6. Dated' /\ Verdicts' /\ RecordsBounded'
  <2>1. Dated' /\ Verdicts'
    BY <1>0, <1>1, <1>4 DEF Dated, Verdicts, Moves
  <2>2. RecordsBounded'
    BY <1>0, <1>2, <1>3 DEF RecordsBounded, MeteringTypes
  <2> QED BY <2>1, <2>2
<1>7. DayTickets'
  <2>1. \A s \in ApiCall : HoldsDay(s)' => s # r
    BY <1>4 DEF HoldsDay, DayCounted
  <2>2. \A s \in ApiCall : HoldsDay(s)' => requests'[s] = requests[s] /\ HoldsDay(s)
    BY <1>4, <2>1 DEF HoldsDay
  <2>3. \A d \in Days : dailyUsage[d] <= dailyUsage'[d]
    BY <1>0, <1>2 DEF MeteringTypes
  <2> QED BY <1>5, <2>2, <2>3, DayTicketsKept
<1>8. MonthTickets'
  <2>1. \A s \in ApiCall : HoldsMonth(s) => MonthOfRequest(s) \in Months
    BY MonthOfDated DEF HoldsMonth, MonthCounted
  <2>2. /\ MonthOfRequest(r)' = m /\ HoldsMonth(r)'
        /\ \A s \in ApiCall : s # r => /\ HoldsMonth(s)' <=> HoldsMonth(s)
                                      /\ MonthOfRequest(s)' = MonthOfRequest(s)
    BY <1>4 DEF MonthOfRequest, HoldsMonth, MonthCounted
  <2>3. ASSUME NEW s \in ApiCall, HoldsMonth(s), s # r
        PROVE  /\ requests'[s].monthly \in 1..monthlyUsage[MonthOfRequest(s)]
               /\ MonthOfRequest(s) = m => requests'[s].monthly # requests'[r].monthly
    BY <1>0, <1>3, <1>4, <2>1, <2>3 DEF MonthTickets
  <2>4. ASSUME NEW s \in ApiCall, HoldsMonth(s)'
        PROVE  (requests[s].monthly \in 1..monthlyUsage[MonthOfRequest(s)])'
    <3>1. CASE s = r
      BY <3>1, <1>1, <1>3, <1>4, <2>2
    <3>2. CASE s # r
      BY <3>2, <1>0, <1>3, <2>1, <2>2, <2>3, <2>4 DEF MeteringTypes
    <3> QED BY <3>1, <3>2
  <2>5. ASSUME NEW s \in ApiCall, NEW u \in ApiCall, HoldsMonth(s)', HoldsMonth(u)', s # u,
               MonthOfRequest(s)' = MonthOfRequest(u)'
        PROVE  requests'[s].monthly # requests'[u].monthly
    <3>1. CASE s = r
      BY <3>1, <2>2, <2>3, <2>5
    <3>2. CASE u = r
      BY <3>2, <2>2, <2>3, <2>5
    <3>3. CASE s # r /\ u # r
      BY <3>3, <1>0, <1>4, <2>2, <2>5 DEF MonthTickets
    <3> QED BY <3>1, <3>2, <3>3
  <2> QED BY <2>4, <2>5 DEF MonthTickets
<1> QED BY <1>5, <1>6, <1>7, <1>8 DEF MeteringInv

\* A request takes its ticket of the day.
LEMMA CountDayInv ==
  ASSUME MeteringAssumption, MeteringInv, NEW r \in ApiCall, CountDay(r)
  PROVE  MeteringInv'
<1> DEFINE d == requests[r].day
<1>0. MeteringTypes /\ Dated /\ MonthTickets /\ DayTickets /\ Verdicts /\ RecordsBounded
  BY DEF MeteringInv
<1>1. requests[r].at = "month_counted" /\ d \in Days
  BY MonthOfDated DEF CountDay, Moves
<1>2. /\ dailyUsage' = [dailyUsage EXCEPT ![d] = dailyUsage[d] + 1]
      /\ requests' = [requests EXCEPT ![r].at = "counted", ![r].daily = dailyUsage'[d]]
      /\ UNCHANGED <<monthlyUsage, usageRecords, date, redisErrors, counts>>
  BY DEF CountDay
<1>3. /\ dailyUsage' \in [Days -> Nat]
      /\ dailyUsage[d] \in Nat /\ dailyUsage'[d] = dailyUsage[d] + 1
      /\ \A n \in Days : dailyUsage[n] <= dailyUsage'[n]
  BY <1>0, <1>1, <1>2 DEF MeteringTypes
<1>4. /\ requests'[r].at = "counted" /\ requests'[r].day = d
      /\ requests'[r].month = requests[r].month
      /\ requests'[r].daily = dailyUsage[d] + 1 /\ requests'[r].monthly = requests[r].monthly
      /\ \A s \in ApiCall : s # r => requests'[s] = requests[s]
  BY <1>0, <1>2, <1>3 DEF MeteringTypes
<1>5. MeteringTypes'
  <2>0. dailyUsage'[d] \in Nat /\ "counted" \in Stage
    BY <1>3 DEF Stage
  <2>1. requests' \in [ApiCall -> [at : Stage, month : Months \cup {0}, day : Days \cup {0},
                           monthly : Nat, daily : Nat]]
    BY <1>0, <1>2, <2>0 DEF MeteringTypes
  <2> QED BY <1>0, <1>2, <1>3, <2>1 DEF MeteringTypes
<1>6. Dated' /\ Verdicts' /\ RecordsBounded'
  BY <1>0, <1>1, <1>2, <1>4 DEF Dated, Verdicts, Moves, RecordsBounded
<1>7. MonthTickets'
  <2>1. HoldsMonth(r)
    BY <1>1 DEF HoldsMonth, MonthCounted
  <2> QED BY <1>0, <1>2, <1>4, <1>5, <2>1, MonthTicketsKept DEF HoldsMonth, MeteringTypes
<1>8. DayTickets'
  <2>1. \A s \in ApiCall : HoldsDay(s) => s # r /\ requests[s].day \in Days
    BY <1>1, MonthOfDated DEF HoldsDay, DayCounted
  <2>2. \A s \in ApiCall : s # r => (HoldsDay(s)' <=> HoldsDay(s))
    BY <1>4 DEF HoldsDay
  <2>3. ASSUME NEW s \in ApiCall, HoldsDay(s)'
        PROVE  (requests[s].daily <= dailyUsage[requests[s].day])'
    <3>1. CASE s = r
      BY <3>1, <1>3, <1>4
    <3>2. CASE s # r
      BY <3>2, <1>0, <1>3, <1>4, <2>1, <2>2, <2>3 DEF MeteringTypes, DayTickets
    <3> QED BY <3>1, <3>2
  <2>4. ASSUME NEW s \in ApiCall, HoldsDay(s), s # r, requests[s].day = d
        PROVE  requests'[s].daily # requests'[r].daily
    BY <1>0, <1>3, <1>4, <2>4 DEF MeteringTypes, DayTickets
  <2>5. ASSUME NEW s \in ApiCall, NEW u \in ApiCall, HoldsDay(s)', HoldsDay(u)', s # u,
               requests'[s].day = requests'[u].day
        PROVE  requests'[s].daily # requests'[u].daily
    <3>1. CASE s = r
      BY <3>1, <1>4, <2>2, <2>4, <2>5
    <3>2. CASE u = r
      BY <3>2, <1>4, <2>2, <2>4, <2>5
    <3>3. CASE s # r /\ u # r
      BY <3>3, <1>0, <1>4, <2>2, <2>5 DEF DayTickets
    <3> QED BY <3>1, <3>2, <3>3
  <2> QED BY <2>3, <2>5 DEF DayTickets
<1> QED BY <1>5, <1>6, <1>7, <1>8 DEF MeteringInv

\* Any other step of a request: it keeps the tickets it has.
LEMMA RequestStepInv ==
  ASSUME MeteringAssumption, MeteringInv, NEW r \in ApiCall,
         Begin(r) \/ LetThrough(r) \/ DayUnknown(r) \/ Decide(r)
  PROVE  MeteringInv'
<1>0. MeteringTypes /\ Dated /\ MonthTickets /\ DayTickets /\ Verdicts /\ RecordsBounded
  BY DEF MeteringInv
<1>1. UNCHANGED <<monthlyUsage, dailyUsage, usageRecords, date, counts>>
  BY DEF Begin, LetThrough, DayUnknown, Decide
<1>2. redisErrors' \in 0..MaxErrors
  BY <1>0 DEF Begin, LetThrough, DayUnknown, Decide, MeteringTypes, MeteringAssumption, Error
<1>3. \A s \in ApiCall : s # r => requests'[s] = requests[s]
  BY <1>0 DEF Begin, LetThrough, DayUnknown, Decide, MeteringTypes
<1>4. MeteringTypes'
  <2>1. requests' \in [ApiCall -> [at : Stage, month : Months \cup {0}, day : Days \cup {0},
                           monthly : Nat, daily : Nat]]
    <3>1. CASE Begin(r)
      BY <3>1, <1>0 DEF Begin, MeteringTypes, Stage, Months
    <3>2. CASE LetThrough(r)
      BY <3>2, <1>0 DEF LetThrough, MeteringTypes, Stage
    <3>3. CASE DayUnknown(r)
      <4>1. requests' = [requests EXCEPT ![r].at = "counted", ![r].daily = 0] /\ "counted" \in Stage
        BY <3>3 DEF DayUnknown, Stage
      <4>2. QED
        BY <4>1, <1>0 DEF MeteringTypes
    <3>4. CASE Decide(r)
      BY <3>4, <1>0 DEF Decide, MeteringTypes, Stage
    <3> QED BY <3>1, <3>2, <3>3, <3>4
  <2> QED BY <1>0, <1>1, <1>2, <2>1 DEF MeteringTypes
<1>5. /\ HoldsMonth(r)' => HoldsMonth(r) /\ requests'[r].monthly = requests[r].monthly
                                      /\ requests'[r].month = requests[r].month
      /\ HoldsDay(r)' => HoldsDay(r) /\ requests'[r].daily = requests[r].daily
                                  /\ requests'[r].day = requests[r].day
      /\ Dated' /\ Verdicts'
  <2>1. CASE Begin(r)
    <3>1. requests'[r].at = "begun" /\ requests'[r].day = date /\ requests'[r].month \in Months
      BY <2>1, <1>0 DEF Begin, MeteringTypes, Months
    <3> QED BY <1>0, <1>3, <3>1 DEF HoldsMonth, HoldsDay, MonthCounted, DayCounted, Dated,
                                    Verdicts, Moves, MeteringTypes
  <2>2. CASE LetThrough(r)
    <3>1. requests'[r].at = "unmetered" /\ requests'[r].day = requests[r].day
          /\ requests'[r].month = requests[r].month
          /\ requests[r].at = "begun"
      BY <2>2, <1>0 DEF LetThrough, MeteringTypes, Moves
    <3> QED BY <1>0, <1>3, <3>1 DEF HoldsMonth, HoldsDay, MonthCounted, DayCounted, Dated,
                                    Verdicts, Moves
  <2>3. CASE DayUnknown(r)
    <3>1. /\ requests'[r].at = "counted" /\ requests'[r].daily = 0
          /\ requests'[r].day = requests[r].day /\ requests'[r].monthly = requests[r].monthly
          /\ requests[r].at = "month_counted" /\ requests'[r].month = requests[r].month
      BY <2>3, <1>0 DEF DayUnknown, MeteringTypes, Moves
    <3> QED BY <1>0, <1>3, <3>1 DEF HoldsMonth, HoldsDay, MonthCounted, DayCounted, Dated,
                                    Verdicts, Moves
  <2>4. CASE Decide(r)
    <3>1. /\ requests[r].at = "counted" /\ requests'[r].at \in {"over_month", "over_day", "admitted"}
          /\ requests'[r].day = requests[r].day /\ requests'[r].monthly = requests[r].monthly
          /\ requests'[r].daily = requests[r].daily /\ requests'[r].month = requests[r].month
          /\ requests'[r].at = "over_month" => requests[r].monthly > MonthlyLimit
          /\ requests'[r].at = "admitted" =>
               ~(requests[r].monthly > MonthlyLimit) /\ ~(requests[r].daily > DailyLimit)
      BY <2>4, <1>0 DEF Decide, MeteringTypes, Moves, Exceeds
    <3>2. requests[r].monthly \in Nat /\ requests[r].daily \in Nat
      BY <1>0 DEF MeteringTypes
    <3> QED BY <1>0, <1>3, <3>1, <3>2 DEF HoldsMonth, HoldsDay, MonthCounted, DayCounted, Dated,
                                          Verdicts, Moves, MeteringAssumption
  <2> QED BY <2>1, <2>2, <2>3, <2>4
<1>6. MonthTickets'
  BY <1>0, <1>1, <1>3, <1>4, <1>5, MonthTicketsKept DEF HoldsMonth, MeteringTypes
<1>7. DayTickets'
  BY <1>0, <1>1, <1>3, <1>4, <1>5, DayTicketsKept DEF HoldsDay, MeteringTypes
<1>8. RecordsBounded'
  BY <1>0, <1>1 DEF RecordsBounded
<1> QED BY <1>4, <1>5, <1>6, <1>7, <1>8 DEF MeteringInv

\* The record of a month takes no number that the counter has not reached.
LEMMA PersistInv ==
  ASSUME MeteringAssumption, MeteringInv, NEW m \in Months, PersistMonthlyUsage(m)
  PROVE  /\ MeteringInv'
         /\ \A n \in Months : usageRecords'[n] \in usageRecords[n]..counts[n]
<1>0. MeteringTypes /\ Dated /\ MonthTickets /\ DayTickets /\ Verdicts /\ RecordsBounded
  BY DEF MeteringInv
<1>1. PICK read \in 0..monthlyUsage[m] :
        usageRecords' = [usageRecords EXCEPT ![m] = Greatest(usageRecords[m], read)]
  BY DEF PersistMonthlyUsage
<1>2. UNCHANGED <<monthlyUsage, dailyUsage, requests, date, redisErrors, counts>>
  BY DEF PersistMonthlyUsage
<1>3. /\ usageRecords[m] \in Nat /\ monthlyUsage[m] \in Nat
      /\ Greatest(usageRecords[m], read) \in usageRecords[m]..monthlyUsage[m]
  BY <1>0, <1>1 DEF MeteringTypes, RecordsBounded, Greatest
<1>4. usageRecords' \in [Months -> Nat]
  BY <1>0, <1>1, <1>3 DEF MeteringTypes
<1>5. \A n \in Months : usageRecords'[n] \in usageRecords[n]..counts[n]
  BY <1>0, <1>1, <1>3 DEF MeteringTypes, RecordsBounded
<1>6. MeteringTypes' /\ RecordsBounded'
  BY <1>0, <1>2, <1>4, <1>5 DEF MeteringTypes, RecordsBounded
<1>7. Dated' /\ MonthTickets' /\ DayTickets' /\ Verdicts'
  BY <1>0, <1>2 DEF Dated, MonthTickets, DayTickets, Verdicts, Moves, HoldsMonth, HoldsDay,
                    MonthOfRequest
<1> QED BY <1>5, <1>6, <1>7 DEF MeteringInv

\* Every step keeps the invariant.
LEMMA MeteringInvNext ==
  ASSUME MeteringAssumption, MeteringInv, [MeteringNext]_meteringVars
  PROVE  MeteringInv'
<1>0. MeteringTypes /\ Dated /\ MonthTickets /\ DayTickets /\ Verdicts /\ RecordsBounded
  BY DEF MeteringInv
<1>1. CASE NextDate
  BY <1>0, <1>1 DEF NextDate, MeteringInv, MeteringTypes, Dated, MonthTickets, DayTickets, Verdicts,
                    RecordsBounded, Moves, HoldsMonth, HoldsDay, MonthOfRequest
<1>2. CASE UNCHANGED meteringVars
  BY <1>0, <1>2 DEF meteringVars, MeteringInv, MeteringTypes, Dated, MonthTickets, DayTickets,
                    Verdicts, RecordsBounded, Moves, HoldsMonth, HoldsDay, MonthOfRequest
<1> QED BY <1>1, <1>2, CountMonthInv, CountDayInv, RequestStepInv, PersistInv DEF MeteringNext

\* The invariant holds always.
LEMMA MeteringInvAlways == ASSUME MeteringAssumption PROVE MeteringSpec => []MeteringInv
<1>1. MeteringInit => MeteringInv
  BY MeteringInvInit
<1>2. MeteringInv /\ [MeteringNext]_meteringVars => MeteringInv'
  BY MeteringInvNext
<1> QED BY <1>1, <1>2, PTL DEF MeteringSpec

\* A set whose members hold different numbers up to a limit has no more than
\* that limit.
LEMMA TicketsBound ==
  ASSUME NEW S, NEW n \in Nat, NEW f \in [S -> 1..n],
         \A s, u \in S : s # u => f[s] # f[u]
  PROVE  Cardinality(S) <= n
<1>1. f \in Injection(S, 1..n)
  BY DEF Injection, IsInjective
<1>2. IsFiniteSet(1..n) /\ Cardinality(1..n) = n
  BY FS_Interval
<1> QED BY <1>1, <1>2, FS_Injection

\* What requests take together: within the limits of month and day, but for
\* those whose count of the day failed; and only a full month refuses.
THEOREM QuotasHoldAlways == ASSUME MeteringAssumption PROVE MeteringSpec => []QuotasHold
<1>1. MeteringInv => QuotasHold
  <2> SUFFICES ASSUME MeteringInv PROVE QuotasHold
    OBVIOUS
  <2>0. MeteringTypes /\ Dated /\ MonthTickets /\ DayTickets /\ Verdicts
    BY DEF MeteringInv
  <2>1. ASSUME NEW m \in Months PROVE Cardinality(AdmittedIn(m)) <= MonthlyLimit
    <3> DEFINE f == [r \in AdmittedIn(m) |-> requests[r].monthly]
    <3>1. \A r \in AdmittedIn(m) : /\ r \in ApiCall /\ HoldsMonth(r) /\ MonthOfRequest(r) = m
                                  /\ requests[r].monthly <= MonthlyLimit
      BY <2>0 DEF AdmittedIn, Moves, HoldsMonth, MonthCounted, Verdicts
    <3>2. f \in [AdmittedIn(m) -> 1..MonthlyLimit]
      BY <2>0, <3>1 DEF MonthTickets, MeteringTypes, MeteringAssumption
    <3>3. \A r, s \in AdmittedIn(m) : r # s => f[r] # f[s]
      BY <2>0, <3>1 DEF MonthTickets
    <3>4. MonthlyLimit \in Nat
      BY DEF MeteringAssumption
    <3> HIDE DEF f
    <3> QED BY <3>2, <3>3, <3>4, TicketsBound
  <2>2. ASSUME NEW d \in Days PROVE Cardinality(AdmittedOn(d) \ UncountedOn(d)) <= DailyLimit
    <3> DEFINE S == AdmittedOn(d) \ UncountedOn(d)
               f == [r \in S |-> requests[r].daily]
    <3>1. \A r \in S : /\ r \in ApiCall /\ HoldsDay(r) /\ requests[r].day = d
                      /\ requests[r].daily <= DailyLimit
      BY <2>0 DEF AdmittedOn, UncountedOn, Moves, HoldsDay, DayCounted, Verdicts
    <3>2. \A r \in S : requests[r].daily \in 1..DailyLimit
      BY <2>0, <3>1 DEF HoldsDay, MeteringTypes, MeteringAssumption
    <3>3. f \in [S -> 1..DailyLimit]
      BY <3>2
    <3>4. \A r, s \in S : r # s => f[r] # f[s]
      BY <2>0, <3>1 DEF DayTickets
    <3>5. DailyLimit \in Nat
      BY DEF MeteringAssumption
    <3> HIDE DEF f, S
    <3>6. Cardinality(S) <= DailyLimit
      BY <3>3, <3>4, <3>5, TicketsBound
    <3> QED BY <3>6 DEF S
  <2>3. ASSUME NEW r \in ApiCall, Moves(r, "over_month")
        PROVE  counts[MonthOfRequest(r)] > MonthlyLimit
    <3>1. /\ HoldsMonth(r) /\ requests[r].monthly > MonthlyLimit
          /\ MonthOfRequest(r) \in Months
      BY <2>0, <2>3, MonthOfDated DEF Moves, HoldsMonth, MonthCounted, Verdicts
    <3>2. /\ requests[r].monthly <= monthlyUsage[MonthOfRequest(r)]
          /\ requests[r].monthly \in Nat /\ monthlyUsage[MonthOfRequest(r)] \in Nat
      BY <2>0, <3>1 DEF MonthTickets, MeteringTypes
    <3> QED BY <2>0, <3>1, <3>2 DEF MeteringTypes, MeteringAssumption
  <2> QED BY <2>1, <2>2, <2>3 DEF QuotasHold
<1> QED BY <1>1, MeteringInvAlways, PTL

\* The record of a month never passes what was counted and never shrinks.
THEOREM RecordsOnlyGrow == ASSUME MeteringAssumption PROVE MeteringSpec => RecordOnlyGrows
<1> DEFINE Grows == \A m \in Months : usageRecords'[m] \in usageRecords[m]..counts[m]
<1>1. MeteringInv /\ [MeteringNext]_meteringVars => [Grows]_meteringVars
  <2> SUFFICES ASSUME MeteringInv, MeteringNext PROVE Grows
    BY DEF meteringVars
  <2>1. \A m \in Months : /\ usageRecords[m] \in Nat /\ counts[m] \in Nat
                         /\ usageRecords[m] <= counts[m]
    BY DEF MeteringInv, MeteringTypes, RecordsBounded
  <2>2. CASE UNCHANGED usageRecords
    BY <2>1, <2>2
  <2>3. CASE \E m \in Months : PersistMonthlyUsage(m)
    BY <2>3, PersistInv
  <2> QED BY <2>2, <2>3 DEF MeteringNext, NextDate, Begin, CountMonth, LetThrough, CountDay,
                            DayUnknown, Decide
<1>2. MeteringSpec => [][Grows]_meteringVars
  BY <1>1, MeteringInvAlways, PTL DEF MeteringSpec
<1> QED BY <1>2 DEF RecordOnlyGrows

(***************************************************************************)
(* Rate limits. The potential of a stretch of time up to now: what was let *)
(* through in it, and what the bucket would hold now, do not exceed a full *)
(* bucket and what it earned since the stretch began. It is stated of a    *)
(* log of admitted requests, a bucket and a moment.                        *)
(***************************************************************************)
Bucket == [parts : Nat, rpm : Nat \ {0}, last_refill : Nat]

Between(log, from, to) == Cardinality({i \in 1..Len(log) : log[i] \in from..to})
FilledAt(b, now) ==
  SmallerOf(b.parts + (now - b.last_refill) * b.rpm, b.rpm * PartsPerToken)
Earned(b, from, to) == (PartsPerToken + to - from) * b.rpm

Logged(log, now) == log \in Seq(Nat) /\ \A i \in 1..Len(log) : log[i] <= now
Fits(b, now) == b \in Bucket /\ b.parts <= b.rpm * PartsPerToken /\ b.last_refill <= now

Potential(log, b, now) ==
  \A from \in 0..now :
    Between(log, from, now) * PartsPerToken + FilledAt(b, now) <= Earned(b, from, now)
Stretches(log, b, now) ==
  \A from \in 0..now : \A to \in from..now :
    Between(log, from, to) * PartsPerToken <= Earned(b, from, to)
KeyInv(log, b, now) == Fits(b, now) /\ Potential(log, b, now) /\ Stretches(log, b, now)

RateTypes ==
  /\ second \in Nat /\ DOMAIN buckets \subseteq Key
  /\ admittedAt \in [Key -> Seq(Nat)] /\ \A k \in Key : Logged(admittedAt[k], second)
  /\ \A k \in Key : k \notin DOMAIN buckets => admittedAt[k] = <<>>

RateInv == RateTypes /\ \A k \in DOMAIN buckets : KeyInv(admittedAt[k], buckets[k], second)

\* Multiplication by a number that grows by one.
LEMMA OneMoreTimes == ASSUME NEW a \in Int, NEW b \in Int PROVE (a + 1) * b = a * b + b
BY SMT

\* The requests admitted in a stretch can be counted, and there are none if it
\* lies after the last.
LEMMA BetweenCounts ==
  ASSUME NEW log \in Seq(Nat), NEW from \in Nat, NEW to \in Nat
  PROVE  /\ Between(log, from, to) \in Nat
         /\ (\A i \in 1..Len(log) : log[i] < from) => Between(log, from, to) = 0
<1> DEFINE I == {i \in 1..Len(log) : log[i] \in from..to}
<1>1. IsFiniteSet(I)
  <2>1. Len(log) \in Nat
    OBVIOUS
  <2>2. IsFiniteSet(1..Len(log))
    BY <2>1, FS_Interval
  <2> QED BY <2>2, FS_Subset
<1>2. Cardinality(I) \in Nat
  BY <1>1, FS_CardinalityType
<1>3. ASSUME \A i \in 1..Len(log) : log[i] < from
      PROVE  Cardinality(I) = 0
  <2>1. ASSUME NEW i \in 1..Len(log) PROVE log[i] \notin from..to
    BY <1>3, <2>1
  <2>2. I = {}
    BY <2>1
  <2> QED BY <2>2, FS_EmptySet
<1> QED BY <1>2, <1>3 DEF Between

\* The second after the last admitted request adds none.
LEMMA NoneYet ==
  ASSUME NEW log, NEW from \in Nat, NEW to \in Nat, Logged(log, to)
  PROVE  Between(log, from, to + 1) = Between(log, from, to)
<1>1. ASSUME NEW i \in 1..Len(log)
      PROVE  log[i] \in from..to + 1 <=> log[i] \in from..to
  <2>1. log[i] \in Nat /\ log[i] <= to
    BY DEF Logged
  <2> QED BY <2>1
<1>2. {i \in 1..Len(log) : log[i] \in from..to + 1} = {i \in 1..Len(log) : log[i] \in from..to}
  BY <1>1, Zenon
<1> QED BY <1>2, Zenon DEF Between

\* One more admitted request counts in the stretches it lies in.
LEMMA OneAdmitted ==
  ASSUME NEW log \in Seq(Nat), NEW now \in Nat, NEW from \in Nat, NEW to \in Nat
  PROVE  Between(Append(log, now), from, to) =
           Between(log, from, to) + (IF now \in from..to THEN 1 ELSE 0)
<1> DEFINE longer == Append(log, now)
           I == {i \in 1..Len(log) : log[i] \in from..to}
           J == {i \in 1..Len(longer) : longer[i] \in from..to}
<1>1. Len(log) \in Nat /\ Len(longer) = Len(log) + 1
  OBVIOUS
<1>2. (\A i \in 1..Len(log) : longer[i] = log[i]) /\ longer[Len(log) + 1] = now
  OBVIOUS
<1>3. J = IF now \in from..to THEN I \cup {Len(log) + 1} ELSE I
  <2> HIDE DEF longer
  <2>1. ASSUME NEW i \in Int
        PROVE  i \in 1..Len(longer) <=> i \in 1..Len(log) \/ i = Len(log) + 1
    BY <1>1
  <2> QED BY <1>1, <1>2, <2>1
<1>4. IsFiniteSet(I) /\ Len(log) + 1 \notin I
  <2>1. IsFiniteSet(1..Len(log))
    BY <1>1, FS_Interval
  <2> QED BY <1>1, <2>1, FS_Subset
<1>5. Cardinality(J) = Cardinality(I) + (IF now \in from..to THEN 1 ELSE 0)
  <2> HIDE DEF I, J
  <2>1. Cardinality(I) \in Nat
    BY <1>4, FS_CardinalityType
  <2>2. CASE now \in from..to
    <3>1. Cardinality(I \cup {Len(log) + 1}) = Cardinality(I) + 1
      BY <1>4, FS_AddElement
    <3> QED BY <1>3, <2>2, <3>1
  <2>3. CASE now \notin from..to
    BY <1>3, <2>1, <2>3
  <2> QED BY <2>2, <2>3
<1> QED BY <1>5, Zenon DEF Between

\* What a refill makes of a bucket: full at most, and no less than it was; a
\* second more earns it no more than its rate.
LEMMA FilledBounds ==
  ASSUME RateAssumption, NEW now \in Nat, NEW b, Fits(b, now)
  PROVE  /\ FilledAt(b, now) \in Nat /\ FilledAt(b, now) <= b.rpm * PartsPerToken
         /\ b.last_refill = now => FilledAt(b, now) = b.parts
         /\ FilledAt(b, now + 1) <= FilledAt(b, now) + b.rpm
<1> DEFINE age == now - b.last_refill
<1>1. /\ b.parts \in Nat /\ b.rpm \in Nat /\ b.last_refill \in Nat /\ age \in Nat
      /\ PartsPerToken \in Nat /\ b.parts <= b.rpm * PartsPerToken
  BY DEF RateAssumption, Fits, Bucket
<1>2. b.rpm * PartsPerToken \in Nat /\ age * b.rpm \in Nat
  BY <1>1
<1>3. b.last_refill = now => age * b.rpm = 0
  BY <1>1
<1>4. (now + 1 - b.last_refill) * b.rpm = age * b.rpm + b.rpm
  <2>1. now + 1 - b.last_refill = age + 1
    BY <1>1
  <2> QED BY <1>1, <2>1, OneMoreTimes
<1> QED BY <1>1, <1>2, <1>3, <1>4 DEF FilledAt, SmallerOf

\* What a key earns, a second more, and from a full bucket.
LEMMA EarnedGrows ==
  ASSUME RateAssumption, NEW b \in Bucket, NEW from \in Nat, NEW to \in Nat, from <= to
  PROVE  /\ Earned(b, from, to) \in Nat
         /\ Earned(b, from, to + 1) = Earned(b, from, to) + b.rpm
         /\ Earned(b, to, to) = b.rpm * PartsPerToken
         /\ b.rpm * PartsPerToken <= Earned(b, from, to)
<1> DEFINE n == PartsPerToken + to - from
<1>1. n \in Nat /\ b.rpm \in Nat /\ PartsPerToken \in Nat
  BY DEF RateAssumption, Bucket
<1>2. n * b.rpm \in Nat /\ (n + 1) * b.rpm = n * b.rpm + b.rpm
  BY <1>1, OneMoreTimes
<1>3. PartsPerToken + (to + 1) - from = n + 1 /\ PartsPerToken + to - to = PartsPerToken
  BY <1>1
<1>4. PartsPerToken * b.rpm = b.rpm * PartsPerToken
  BY <1>1
<1>5. n * b.rpm = PartsPerToken * b.rpm + (to - from) * b.rpm /\ (to - from) * b.rpm \in Nat
  BY <1>1
<1> QED BY <1>1, <1>2, <1>3, <1>4, <1>5 DEF Earned

\* A key keeps within its budget while a second passes.
LEMMA KeyInvTick ==
  ASSUME RateAssumption, NEW now \in Nat, NEW log, Logged(log, now), NEW b, KeyInv(log, b, now)
  PROVE  KeyInv(log, b, now + 1)
<1>0. Fits(b, now) /\ Potential(log, b, now) /\ Stretches(log, b, now) /\ log \in Seq(Nat)
      /\ b \in Bucket /\ PartsPerToken \in Nat /\ now + 1 \in Nat
  BY DEF KeyInv, Fits, Logged, RateAssumption
<1>1. Fits(b, now + 1)
  BY <1>0 DEF Fits, Bucket
<1>2. /\ FilledAt(b, now) \in Nat /\ FilledAt(b, now + 1) \in Nat /\ b.rpm \in Nat
      /\ FilledAt(b, now + 1) <= FilledAt(b, now) + b.rpm
      /\ FilledAt(b, now + 1) <= b.rpm * PartsPerToken
  <2>1. b.rpm \in Nat
    BY <1>0 DEF Bucket
  <2> QED BY <1>0, <1>1, <2>1, FilledBounds
<1>3. Potential(log, b, now + 1)
  <2> SUFFICES ASSUME NEW from \in 0..now + 1
               PROVE  Between(log, from, now + 1) * PartsPerToken + FilledAt(b, now + 1)
                        <= Earned(b, from, now + 1)
    BY DEF Potential
  <2>1. CASE from = now + 1
    <3>1. \A i \in 1..Len(log) : log[i] < from
      <4>1. ASSUME NEW i \in 1..Len(log) PROVE log[i] < from
        <5>1. log[i] \in Nat /\ log[i] <= now
          BY <1>0 DEF Logged
        <5> QED BY <2>1, <5>1
      <4> QED BY <4>1
    <3>2. Between(log, from, now + 1) = 0
      BY <1>0, <2>1, <3>1, BetweenCounts
    <3>3. Earned(b, from, now + 1) = b.rpm * PartsPerToken
      <4>1. now + 1 <= now + 1
        BY <1>0
      <4>2. Earned(b, now + 1, now + 1) = b.rpm * PartsPerToken
        BY <1>0, <4>1, EarnedGrows
      <4> QED BY <2>1, <4>2
    <3>4. 0 * PartsPerToken = 0
      BY <1>0
    <3> QED BY <1>2, <3>2, <3>3, <3>4
  <2>2. CASE from \in 0..now
    <3> DEFINE a == Between(log, from, now) * PartsPerToken
    <3>0. from \in Nat /\ from <= now
      BY <2>2
    <3>1. Between(log, from, now + 1) = Between(log, from, now) /\ Between(log, from, now) \in Nat
      BY <1>0, <3>0, NoneYet, BetweenCounts
    <3>2. Earned(b, from, now + 1) = Earned(b, from, now) + b.rpm /\ Earned(b, from, now) \in Nat
      BY <1>0, <3>0, EarnedGrows
    <3>3. a \in Nat /\ a + FilledAt(b, now) <= Earned(b, from, now)
      BY <1>0, <2>2, <3>1 DEF Potential
    <3> HIDE DEF a
    <3>4. a + FilledAt(b, now + 1) <= Earned(b, from, now + 1)
      BY <1>2, <3>2, <3>3
    <3> QED BY <3>1, <3>4 DEF a
  <2> QED BY <2>1, <2>2
<1>4. Stretches(log, b, now + 1)
  <2> SUFFICES ASSUME NEW from \in 0..now + 1, NEW to \in from..now + 1
               PROVE  Between(log, from, to) * PartsPerToken <= Earned(b, from, to)
    BY DEF Stretches
  <2>1. CASE to # now + 1
    BY <1>0, <2>1 DEF Stretches
  <2>2. CASE to = now + 1
    <3>0. from \in Nat /\ from <= now + 1
      OBVIOUS
    <3>1. Between(log, from, now + 1) * PartsPerToken \in Nat
      <4>1. Between(log, from, now + 1) \in Nat
        BY <1>0, <3>0, BetweenCounts
      <4> QED BY <1>0, <4>1
    <3>2. Between(log, from, now + 1) * PartsPerToken + FilledAt(b, now + 1)
            <= Earned(b, from, now + 1)
      BY <1>3 DEF Potential
    <3>3. Earned(b, from, now + 1) \in Nat
      BY <1>0, <3>0, EarnedGrows
    <3> QED BY <1>2, <2>2, <3>1, <3>2, <3>3
  <2> QED BY <2>1, <2>2
<1> QED BY <1>1, <1>3, <1>4 DEF KeyInv

\* A new bucket, for a key that has been admitted nothing.
LEMMA KeyInvNew ==
  ASSUME RateAssumption, NEW rpm \in Nat \ {0}, NEW now \in Nat
  PROVE  KeyInv(<<>>, [parts |-> rpm * PartsPerToken, rpm |-> rpm, last_refill |-> now], now)
<1> DEFINE b == [parts |-> rpm * PartsPerToken, rpm |-> rpm, last_refill |-> now]
<1>0. rpm * PartsPerToken \in Nat /\ PartsPerToken \in Nat
  BY DEF RateAssumption
<1>1. Fits(b, now) /\ b \in Bucket /\ b.rpm = rpm
  BY <1>0 DEF Fits, Bucket
<1> HIDE DEF b
<1>2. FilledAt(b, now) \in Nat /\ FilledAt(b, now) <= b.rpm * PartsPerToken
  BY <1>1, FilledBounds
<1>3. ASSUME NEW from \in Nat, NEW to \in Nat, from <= to
      PROVE  /\ Between(<<>>, from, to) * PartsPerToken = 0
             /\ Earned(b, from, to) \in Nat /\ b.rpm * PartsPerToken <= Earned(b, from, to)
  <2>1. Between(<<>>, from, to) = 0
    <3>1. <<>> \in Seq(Nat) /\ \A i \in 1..Len(<<>>) : <<>>[i] < from
      OBVIOUS
    <3> QED BY <3>1, BetweenCounts
  <2>2. 0 * PartsPerToken = 0
    BY <1>0
  <2>3. Earned(b, from, to) \in Nat /\ b.rpm * PartsPerToken <= Earned(b, from, to)
    BY <1>1, <1>3, EarnedGrows
  <2> QED BY <2>1, <2>2, <2>3
<1>4. Potential(<<>>, b, now)
  <2> SUFFICES ASSUME NEW from \in 0..now
               PROVE  Between(<<>>, from, now) * PartsPerToken + FilledAt(b, now)
                        <= Earned(b, from, now)
    BY DEF Potential
  <2>1. from \in Nat /\ from <= now
    OBVIOUS
  <2> QED BY <1>0, <1>1, <1>2, <1>3, <2>1
<1>5. Stretches(<<>>, b, now)
  <2> SUFFICES ASSUME NEW from \in 0..now, NEW to \in from..now
               PROVE  Between(<<>>, from, to) * PartsPerToken <= Earned(b, from, to)
    BY DEF Stretches
  <2>1. from \in Nat /\ to \in Nat /\ from <= to
    OBVIOUS
  <2> QED BY <1>3, <2>1
<1> QED BY <1>1, <1>4, <1>5 DEF KeyInv, b

\* A refill changes neither what the bucket holds now nor what it earns.
LEMMA KeyInvRefill ==
  ASSUME RateAssumption, second \in Nat, NEW log, NEW b, KeyInv(log, b, second)
  PROVE  /\ KeyInv(log, Refill(b), second)
         /\ Refill(b).last_refill = second /\ Refill(b).parts = FilledAt(Refill(b), second)
<1> DEFINE c == Refill(b)
<1>1. Fits(b, second) /\ Potential(log, b, second) /\ Stretches(log, b, second) /\ b \in Bucket
  BY DEF KeyInv, Fits
<1>2. FilledAt(b, second) \in Nat /\ FilledAt(b, second) <= b.rpm * PartsPerToken
  BY <1>1, FilledBounds
<1>3. c = [b EXCEPT !.parts = FilledAt(b, second), !.last_refill = second]
  BY DEF Refill, Filled, FilledAt
<1> HIDE DEF c
<1>4. /\ c \in Bucket /\ c.parts = FilledAt(b, second) /\ c.rpm = b.rpm
      /\ c.last_refill = second
  BY <1>1, <1>2, <1>3 DEF Bucket
<1>5. Fits(c, second)
  BY <1>2, <1>4 DEF Fits
<1>6. FilledAt(c, second) = c.parts
  BY <1>4, <1>5, FilledBounds
<1>7. \A from, to : Earned(c, from, to) = Earned(b, from, to)
  BY <1>4 DEF Earned
<1>8. Potential(log, c, second) /\ Stretches(log, c, second)
  BY <1>1, <1>4, <1>6, <1>7 DEF Potential, Stretches
<1> QED BY <1>4, <1>5, <1>6, <1>8 DEF KeyInv, c

\* A token taken from a bucket that is up to date.
LEMMA KeyInvToken ==
  ASSUME RateAssumption, NEW now \in Nat, NEW log, Logged(log, now),
         NEW b, KeyInv(log, b, now), b.last_refill = now, b.parts >= PartsPerToken
  PROVE  KeyInv(Append(log, now), [b EXCEPT !.parts = @ - PartsPerToken], now)
<1> DEFINE c == [b EXCEPT !.parts = @ - PartsPerToken]
           longer == Append(log, now)
<1>0. /\ PartsPerToken \in Nat \ {0} /\ log \in Seq(Nat)
      /\ Fits(b, now) /\ Potential(log, b, now) /\ Stretches(log, b, now) /\ b \in Bucket
      /\ b.parts \in Nat /\ b.rpm \in Nat /\ b.parts <= b.rpm * PartsPerToken
      /\ b.rpm * PartsPerToken \in Nat
  BY DEF RateAssumption, Logged, KeyInv, Fits, Bucket
<1>1. /\ c \in Bucket /\ c.parts = b.parts - PartsPerToken /\ c.parts \in Nat /\ c.rpm = b.rpm
      /\ c.last_refill = now
  BY <1>0 DEF Bucket
<1> HIDE DEF c
<1>2. Fits(c, now)
  BY <1>0, <1>1 DEF Fits
<1>3. FilledAt(c, now) = c.parts /\ FilledAt(b, now) = b.parts
  BY <1>0, <1>1, <1>2, FilledBounds
<1>4. \A from, to : Earned(c, from, to) = Earned(b, from, to)
  BY <1>1 DEF Earned
<1>5. ASSUME NEW from \in 0..now
      PROVE  /\ Between(longer, from, now) * PartsPerToken + c.parts <= Earned(c, from, now)
             /\ Between(longer, from, now) * PartsPerToken <= Earned(c, from, now)
  <2> DEFINE a == Between(log, from, now)
  <2>0. from \in Nat /\ now \in from..now /\ from <= now
    OBVIOUS
  <2>1. Between(longer, from, now) = a + 1 /\ a \in Nat
    BY <1>0, <2>0, OneAdmitted, BetweenCounts
  <2>2. a * PartsPerToken + b.parts <= Earned(b, from, now) /\ Earned(b, from, now) \in Nat
    BY <1>0, <1>3, <2>0, EarnedGrows DEF Potential
  <2> HIDE DEF a
  <2>3. (a + 1) * PartsPerToken = a * PartsPerToken + PartsPerToken /\ a * PartsPerToken \in Nat
    BY <1>0, <2>1, OneMoreTimes
  <2>4. /\ (a + 1) * PartsPerToken + c.parts <= Earned(c, from, now)
        /\ (a + 1) * PartsPerToken <= Earned(c, from, now)
    BY <1>0, <1>1, <1>4, <2>2, <2>3
  <2> QED BY <2>1, <2>4
<1>6. Potential(longer, c, now)
  BY <1>3, <1>5 DEF Potential
<1>7. Stretches(longer, c, now)
  <2> SUFFICES ASSUME NEW from \in 0..now, NEW to \in from..now
               PROVE  Between(longer, from, to) * PartsPerToken <= Earned(c, from, to)
    BY DEF Stretches
  <2>0. from \in Nat /\ to \in Nat /\ to <= now
    OBVIOUS
  <2>1. CASE to = now
    BY <1>5, <2>1
  <2>2. CASE to # now
    <3>0. now \notin from..to
      BY <2>0, <2>2
    <3>1. Between(log, from, to) \in Nat
      BY <1>0, <2>0, BetweenCounts
    <3>2. Between(longer, from, to) = Between(log, from, to)
      BY <1>0, <2>0, <3>0, <3>1, OneAdmitted
    <3> QED BY <1>0, <1>4, <3>2 DEF Stretches
  <2> QED BY <2>1, <2>2
<1> QED BY <1>2, <1>6, <1>7 DEF KeyInv, c

\* A check, with a token and without.
LEMMA CheckInv ==
  ASSUME RateAssumption, RateInv, NEW k \in Key, NEW tier \in TierRpm, Check(k, tier)
  PROVE  RateInv'
<1> DEFINE b == Refill(BucketFor(k, tier))
           log == admittedAt[k]
<1>0. RateTypes /\ second \in Nat /\ second' = second /\ Logged(log, second) /\ log \in Seq(Nat)
  BY DEF RateInv, RateTypes, Check, Logged
<1>1. KeyInv(log, b, second) /\ b.last_refill = second
  <2>1. KeyInv(log, BucketFor(k, tier), second)
    <3>1. CASE k \in DOMAIN buckets
      BY <3>1 DEF RateInv, BucketFor
    <3>2. CASE k \notin DOMAIN buckets
      <4>1. log = <<>> /\ LargerOf(tier, DefaultRpm) \in Nat \ {0}
        BY <1>0, <3>2 DEF RateTypes, RateAssumption, LargerOf
      <4> QED BY <1>0, <3>2, <4>1, KeyInvNew DEF BucketFor, NewBucket
    <3> QED BY <3>1, <3>2
  <2> QED BY <1>0, <2>1, KeyInvRefill
<1>2. \/ /\ b.parts >= PartsPerToken
         /\ Store(k, [b EXCEPT !.parts = @ - PartsPerToken])
         /\ admittedAt' = [admittedAt EXCEPT ![k] = Append(@, second)]
      \/ Store(k, b) /\ UNCHANGED admittedAt
  BY DEF Check
<1> HIDE DEF b
<1>3. ASSUME NEW c, NEW longer, Store(k, c), KeyInv(longer, c, second), Logged(longer, second),
             admittedAt' = [admittedAt EXCEPT ![k] = longer]
      PROVE  RateInv'
  <2>1. /\ DOMAIN buckets' = DOMAIN buckets \cup {k} /\ buckets'[k] = c
        /\ \A l \in DOMAIN buckets : l # k => buckets'[l] = buckets[l]
    BY <1>3 DEF Store
  <2>2. /\ DOMAIN admittedAt' = Key /\ admittedAt'[k] = longer
        /\ \A l \in Key : l # k => admittedAt'[l] = admittedAt[l]
    BY <1>0, <1>3 DEF RateTypes
  <2>3. RateTypes'
    <3>1. longer \in Seq(Nat) /\ k \in Key
      BY <1>3 DEF Logged
    <3>2. admittedAt' \in [Key -> Seq(Nat)]
      BY <1>0, <1>3, <3>1 DEF RateTypes
    <3>3. \A l \in Key : Logged(admittedAt'[l], second)
      BY <1>0, <1>3, <2>2 DEF RateTypes
    <3>4. \A l \in Key : l \notin DOMAIN buckets' => admittedAt'[l] = <<>>
      BY <1>0, <2>1, <2>2 DEF RateTypes
    <3>5. DOMAIN buckets' \subseteq Key
      BY <1>0, <2>1 DEF RateTypes
    <3> QED BY <1>0, <3>2, <3>3, <3>4, <3>5 DEF RateTypes
  <2>4. ASSUME NEW l \in DOMAIN buckets'
        PROVE  KeyInv(admittedAt'[l], buckets'[l], second)
    <3>1. CASE l = k
      BY <1>3, <2>1, <2>2, <3>1
    <3>2. CASE l # k
      BY <1>0, <2>1, <2>2, <3>2 DEF RateInv, RateTypes
    <3> QED BY <3>1, <3>2
  <2> QED BY <1>0, <2>3, <2>4 DEF RateInv
<1>4. CASE Store(k, b) /\ UNCHANGED admittedAt
  <2>1. admittedAt' = [admittedAt EXCEPT ![k] = log]
    BY <1>0, <1>4 DEF RateTypes
  <2> QED BY <1>0, <1>1, <1>3, <1>4, <2>1
<1>5. CASE /\ b.parts >= PartsPerToken /\ Store(k, [b EXCEPT !.parts = @ - PartsPerToken])
           /\ admittedAt' = [admittedAt EXCEPT ![k] = Append(@, second)]
  <2>1. KeyInv(Append(log, second), [b EXCEPT !.parts = @ - PartsPerToken], second)
    BY <1>0, <1>1, <1>5, KeyInvToken
  <2>2. Logged(Append(log, second), second)
    <3>1. Append(log, second) \in Seq(Nat) /\ Len(Append(log, second)) = Len(log) + 1
          /\ Len(log) \in Nat
      BY <1>0
    <3>2. ASSUME NEW i \in 1..Len(log) + 1 PROVE Append(log, second)[i] <= second
      <4>1. CASE i = Len(log) + 1
        BY <1>0, <4>1
      <4>2. CASE i \in 1..Len(log)
        <5>1. Append(log, second)[i] = log[i]
          BY <1>0, <4>2
        <5> QED BY <1>0, <4>2, <5>1 DEF Logged
      <4> QED BY <3>1, <4>1, <4>2
    <3> QED BY <3>1, <3>2 DEF Logged
  <2> QED BY <1>3, <1>5, <2>1, <2>2
<1> QED BY <1>2, <1>4, <1>5

\* The invariant of all keys holds always.
LEMMA RateInvAlways == ASSUME RateAssumption PROVE RateSpec => []RateInv
<1>1. RateInit => RateInv
  <2> SUFFICES ASSUME RateInit PROVE RateInv
    OBVIOUS
  <2>1. \A k \in Key : admittedAt[k] = <<>> /\ Logged(<<>>, 0)
    BY DEF RateInit, Logged
  <2> QED BY <2>1 DEF RateInit, RateInv, RateTypes
<1>2. RateInv /\ [RateNext]_rateVars => RateInv'
  <2> SUFFICES ASSUME RateInv, [RateNext]_rateVars PROVE RateInv'
    OBVIOUS
  <2>1. CASE ClockTicks
    <3>0. /\ RateTypes /\ second \in Nat /\ second' = second + 1 /\ buckets' = buckets
          /\ admittedAt' = admittedAt
      BY <2>1 DEF ClockTicks, RateInv, RateTypes
    <3>1. ASSUME NEW k \in Key PROVE Logged(admittedAt[k], second + 1)
      <4>1. Logged(admittedAt[k], second)
        BY <3>0 DEF RateTypes
      <4>2. ASSUME NEW i \in 1..Len(admittedAt[k]) PROVE admittedAt[k][i] <= second + 1
        <5>1. admittedAt[k][i] \in Nat /\ admittedAt[k][i] <= second
          BY <4>1 DEF Logged
        <5> QED BY <3>0, <5>1
      <4> QED BY <4>1, <4>2 DEF Logged
    <3>2. \A k \in DOMAIN buckets : KeyInv(admittedAt[k], buckets[k], second + 1)
      BY <3>0, KeyInvTick DEF RateInv, RateTypes
    <3> QED BY <3>0, <3>1, <3>2 DEF RateInv, RateTypes
  <2>2. CASE UNCHANGED rateVars
    BY <2>2 DEF rateVars, RateInv, RateTypes
  <2> QED BY <2>1, <2>2, CheckInv DEF RateNext
<1> QED BY <1>1, <1>2, PTL DEF RateSpec

\* A second more than RetryAfter, which is rounded down, earns what is missing.
LEMMA RetryIsEnough ==
  ASSUME NEW missing \in Nat, NEW rpm \in Nat \ {0}
  PROVE  missing \div rpm \in Int /\ (missing \div rpm + 1) * rpm >= missing
<1>1. missing \div rpm \in Int /\ missing % rpm \in 0..rpm - 1
      /\ missing = rpm * (missing \div rpm) + (missing % rpm)
  BY SMT
<1>2. (missing \div rpm + 1) * rpm = (missing \div rpm) * rpm + rpm
  BY <1>1, OneMoreTimes
<1> QED BY <1>1, <1>2

\* In any stretch of time a key gets a full bucket and what it earns meanwhile,
\* and a refused caller that waits a second more than it was told finds a token.
THEOREM RateBoundedAlways == ASSUME RateAssumption PROVE RateSpec => []RateBounded
<1>1. RateInv => RateBounded
  <2> SUFFICES ASSUME RateInv, NEW k \in DOMAIN buckets
               PROVE  LET b == buckets[k] IN
                      /\ \A from \in 0..second : \A to \in from..second :
                           AdmittedBetween(k, from, to) * PartsPerToken
                             <= (PartsPerToken + to - from) * b.rpm
                      /\ b.parts < PartsPerToken =>
                           b.parts + (RetryAfter(b) + 1) * b.rpm >= PartsPerToken
    BY DEF RateBounded
  <2>0. KeyInv(admittedAt[k], buckets[k], second)
    BY DEF RateInv
  <2>1. ASSUME NEW from \in 0..second, NEW to \in from..second
        PROVE  AdmittedBetween(k, from, to) * PartsPerToken
                 <= (PartsPerToken + to - from) * buckets[k].rpm
    BY <2>0 DEF KeyInv, Stretches, Earned, Between, AdmittedBetween
  <2>2. ASSUME buckets[k].parts < PartsPerToken
        PROVE  buckets[k].parts + (RetryAfter(buckets[k]) + 1) * buckets[k].rpm >= PartsPerToken
    <3> DEFINE rpm == buckets[k].rpm
               missing == PartsPerToken - buckets[k].parts
    <3>1. rpm \in Nat \ {0} /\ missing \in Nat /\ buckets[k].parts \in Nat /\ PartsPerToken \in Nat
      BY <2>0, <2>2 DEF KeyInv, Fits, Bucket, RateAssumption
    <3>2. missing \div rpm \in Int /\ (missing \div rpm + 1) * rpm >= missing
      BY <3>1, RetryIsEnough
    <3>3. (missing \div rpm + 1) * rpm \in Int
      BY <3>1, <3>2
    <3> HIDE DEF missing
    <3>4. buckets[k].parts + (missing \div rpm + 1) * rpm >= PartsPerToken
      BY <3>1, <3>2, <3>3 DEF missing
    <3> QED BY <3>4 DEF RetryAfter, missing
  <2> QED BY <2>1, <2>2
<1> QED BY <1>1, RateInvAlways, PTL
(***************************************************************************)
(* The privacy budget: sums over a log. What a type has spent is a         *)
(* recursive function; it exists, and it is monotonic in what it adds up,  *)
(* or there would be a first place where it is not.                        *)
(***************************************************************************)

\* A set of naturals that is not empty has a least element.
LEMMA LeastOne == ASSUME NEW T \in SUBSET Nat, T # {} PROVE \E n \in T : \A m \in T : n <= m
<1>1. \E n \in T : \A m \in T : ~(<<m, n>> \in OpToRel(<, Nat))
  BY NatLessThanWellFounded, WFMin, Zenon
<1>2. \A m, n \in Nat : m < n => <<m, n>> \in OpToRel(<, Nat)
  BY DEF OpToRel
<1>3. \E n \in T : \A m \in T : ~(m < n)
  BY <1>1, <1>2, Zenon
<1> QED BY <1>3

Sums(n, p, f) ==
  f \in [0..n -> Nat] /\ f[0] = 0 /\ \A i \in 1..n : f[i] = f[i - 1] + p[i]

LEMMA SumsExist ==
  ASSUME NEW n \in Nat, NEW p \in [1..n -> Nat] PROVE \E f : Sums(n, p, f)
<1> DEFINE T == {k \in 0..n : ~ \E f : Sums(k, p, f)}
<1>1. T = {}
  <2> SUFFICES ASSUME T # {} PROVE FALSE
    OBVIOUS
  <2>1. PICK k \in T : \A m \in T : k <= m
    <3>1. T \in SUBSET Nat
      OBVIOUS
    <3> HIDE DEF T
    <3> QED BY <3>1, LeastOne
  <2>2. CASE k = 0
    <3>1. Sums(0, p, [i \in 0..0 |-> 0])
      BY DEF Sums
    <3> QED BY <2>2, <3>1
  <2>3. CASE k # 0
    <3>1. k - 1 \in 0..n /\ k \in 1..n /\ ~(k <= k - 1)
      BY <2>3
    <3>2. k - 1 \notin T
      <4> HIDE DEF T
      <4> QED BY <2>1, <3>1
    <3>3. PICK f : Sums(k - 1, p, f)
      BY <3>1, <3>2
    <3> DEFINE g == [i \in 0..k |-> IF i = k THEN f[k - 1] + p[k] ELSE f[i]]
    <3>4. \A i \in 0..k : i \in 0..(k - 1) \/ i = k
      BY <3>1
    <3>5. p[k] \in Nat /\ f[k - 1] \in Nat
      BY <3>1, <3>3 DEF Sums
    <3>6. g \in [0..k -> Nat]
      BY <3>3, <3>4, <3>5 DEF Sums
    <3>7. /\ \A i \in 0..(k - 1) : g[i] = f[i]
          /\ g[k] = f[k - 1] + p[k]
      BY <3>1
    <3> HIDE DEF g
    <3>8. \A i \in 1..k : g[i] = g[i - 1] + p[i]
      <4> SUFFICES ASSUME NEW i \in 1..k PROVE g[i] = g[i - 1] + p[i]
        OBVIOUS
      <4>1. CASE i = k
        BY <3>1, <3>7, <4>1
      <4>2. CASE i # k
        <5>1. i \in 1..(k - 1) /\ i - 1 \in 0..(k - 1) /\ i \in 0..(k - 1)
          BY <3>1, <4>2
        <5> QED BY <3>3, <3>7, <5>1 DEF Sums
      <4> QED BY <4>1, <4>2
    <3>9. g[0] = 0
      BY <3>1, <3>3, <3>7 DEF Sums
    <3>10. Sums(k, p, g)
      BY <3>6, <3>8, <3>9 DEF Sums
    <3> QED BY <3>10
  <2> QED BY <2>2, <2>3
<1>2. n \in 0..n
  OBVIOUS
<1> QED BY <1>1, <1>2

LEMMA SumsCompare ==
  ASSUME NEW n \in Nat, NEW p, NEW q, NEW r, NEW f, NEW g, NEW h,
         p \in [1..n -> Nat], q \in [1..n -> Nat], r \in [1..n -> Nat],
         Sums(n, p, f), Sums(n, q, g), Sums(n, r, h), \A i \in 1..n : p[i] <= q[i] + r[i]
  PROVE  f[n] <= g[n] + h[n]
<1> DEFINE T == {k \in 0..n : ~(f[k] <= g[k] + h[k])}
<1>1. T = {}
  <2> SUFFICES ASSUME T # {} PROVE FALSE
    OBVIOUS
  <2>1. PICK k \in T : \A m \in T : k <= m
    <3>1. T \in SUBSET Nat
      OBVIOUS
    <3> HIDE DEF T
    <3> QED BY <3>1, LeastOne
  <2>2. k # 0
    BY DEF Sums
  <2>3. k - 1 \in 0..n /\ k \in 1..n /\ ~(k <= k - 1)
    BY <2>2
  <2>4. f[k - 1] <= g[k - 1] + h[k - 1]
    <3>1. k - 1 \notin T
      <4> HIDE DEF T
      <4> QED BY <2>1, <2>3
    <3> QED BY <2>3, <3>1
  <2>5. /\ f[k] = f[k - 1] + p[k] /\ g[k] = g[k - 1] + q[k] /\ h[k] = h[k - 1] + r[k]
        /\ p[k] <= q[k] + r[k]
    BY <2>3 DEF Sums
  <2>6. /\ p[k] \in Nat /\ q[k] \in Nat /\ r[k] \in Nat
        /\ f[k - 1] \in Nat /\ g[k - 1] \in Nat /\ h[k - 1] \in Nat
    BY <2>3 DEF Sums
  <2>7. \A a, b, c, x, y, z \in Nat :
          a <= b + c /\ x <= y + z => a + x <= (b + y) + (c + z)
    OBVIOUS
  <2>8. f[k - 1] + p[k] <= (g[k - 1] + q[k]) + (h[k - 1] + r[k])
    BY <2>4, <2>5, <2>6, <2>7
  <2>9. f[k] <= g[k] + h[k]
    BY <2>5, <2>8
  <2> QED BY <2>9
<1>2. n \in 0..n
  OBVIOUS
<1> QED BY <1>1, <1>2

\* One who adds up the same gets the same.
LEMMA SumsUnique ==
  ASSUME NEW n \in Nat, NEW p \in [1..n -> Nat], NEW f, NEW s, Sums(n, p, f),
         s = [i \in 0..n |-> IF i = 0 THEN 0 ELSE s[i - 1] + p[i]]
  PROVE  s[n] = f[n]
<1> DEFINE T == {k \in 0..n : s[k] # f[k]}
<1>0. s[0] = 0 /\ \A i \in 1..n : s[i] = s[i - 1] + p[i]
  <2>1. \A i \in 0..n : s[i] = IF i = 0 THEN 0 ELSE s[i - 1] + p[i]
    OBVIOUS
  <2> QED BY <2>1
<1>1. T = {}
  <2> SUFFICES ASSUME T # {} PROVE FALSE
    OBVIOUS
  <2>1. PICK k \in T : \A m \in T : k <= m
    <3>1. T \in SUBSET Nat
      OBVIOUS
    <3> HIDE DEF T
    <3> QED BY <3>1, LeastOne
  <2>2. k # 0
    BY <1>0 DEF Sums
  <2>3. k - 1 \in 0..n /\ k \in 1..n /\ ~(k <= k - 1)
    BY <2>2
  <2>4. s[k - 1] = f[k - 1]
    <3>1. k - 1 \notin T
      <4> HIDE DEF T
      <4> QED BY <2>1, <2>3
    <3> QED BY <2>3, <3>1
  <2>5. s[k] = s[k - 1] + p[k] /\ f[k] = f[k - 1] + p[k]
    BY <1>0, <2>3 DEF Sums
  <2> QED BY <2>4, <2>5
<1>2. n \in 0..n
  OBVIOUS
<1> QED BY <1>1, <1>2

Parts(log, set) == [i \in 1..Len(log) |-> CostIn(log[i], set)]

LEMMA SpentIsSum ==
  ASSUME NEW log \in Seq(Allowed), NEW set
  PROVE  /\ Parts(log, set) \in [1..Len(log) -> Nat]
         /\ Spent(log, set) \in Nat
         /\ \A f : Sums(Len(log), Parts(log, set), f) => Spent(log, set) = f[Len(log)]
<1> DEFINE n == Len(log)
           p == Parts(log, set)
<1>1. n \in Nat
  OBVIOUS
<1>2. p \in [1..n -> Nat]
  <2>1. \A i \in 1..n : log[i] \in Allowed
    OBVIOUS
  <2>2. \A i \in 1..n : CostIn(log[i], set) \in Nat
    BY <2>1 DEF CostIn, Allowed
  <2> QED BY <2>2 DEF Parts
<1>3. PICK f : Sums(n, p, f)
  BY <1>1, <1>2, SumsExist
<1>4. f = [i \in 0..n |-> IF i = 0 THEN 0 ELSE f[i - 1] + CostIn(log[i], set)]
  <2>1. \A i \in 1..n : p[i] = CostIn(log[i], set)
    BY DEF Parts
  <2>2. \A i \in 0..n : f[i] = IF i = 0 THEN 0 ELSE f[i - 1] + CostIn(log[i], set)
    BY <1>1, <1>3, <2>1 DEF Sums
  <2>3. f \in [0..n -> Nat]
    BY <1>3 DEF Sums
  <2> QED BY <2>2, <2>3
<1> DEFINE s[i \in 0..n] == IF i = 0 THEN 0 ELSE s[i - 1] + CostIn(log[i], set)
<1>5. s = [i \in 0..n |-> IF i = 0 THEN 0 ELSE s[i - 1] + CostIn(log[i], set)]
  BY <1>4
<1>6. Spent(log, set) = s[n]
  BY DEF Spent
<1> HIDE DEF s
<1>7. s = [i \in 0..n |-> IF i = 0 THEN 0 ELSE s[i - 1] + p[i]]
  <2>1. \A i \in 0..n : i # 0 => p[i] = CostIn(log[i], set)
    BY <1>1 DEF Parts
  <2> QED BY <1>5, <2>1
<1> HIDE DEF n, p
<1>8. \A g : Sums(n, p, g) => s[n] = g[n]
  BY <1>1, <1>2, <1>7, SumsUnique
<1>9. f[n] \in Nat
  BY <1>1, <1>3 DEF Sums
<1> QED BY <1>2, <1>3, <1>6, <1>8, <1>9 DEF n, p

\* A set of queries spends no more than two others that cover it.
LEMMA SpentCovered ==
  ASSUME NEW log \in Seq(Allowed), NEW A, NEW B, NEW C, A \cap Allowed \subseteq B \cup C
  PROVE  Spent(log, A) <= Spent(log, B) + Spent(log, C)
<1> DEFINE n == Len(log)
<1>1. n \in Nat /\ \A i \in 1..n : log[i] \in Allowed
  OBVIOUS
<1>2. /\ Parts(log, A) \in [1..n -> Nat] /\ Parts(log, B) \in [1..n -> Nat]
      /\ Parts(log, C) \in [1..n -> Nat]
  BY SpentIsSum
<1>3. PICK f1 : Sums(n, Parts(log, A), f1)
  BY <1>1, <1>2, SumsExist
<1>4. PICK f2 : Sums(n, Parts(log, B), f2)
  BY <1>1, <1>2, SumsExist
<1>5. PICK f3 : Sums(n, Parts(log, C), f3)
  BY <1>1, <1>2, SumsExist
<1>6. \A i \in 1..n : Parts(log, A)[i] <= Parts(log, B)[i] + Parts(log, C)[i]
  <2> SUFFICES ASSUME NEW i \in 1..n
               PROVE  CostIn(log[i], A) <= CostIn(log[i], B) + CostIn(log[i], C)
    BY DEF Parts
  <2>1. log[i] \in Allowed /\ log[i].cost \in Nat
    BY <1>1 DEF Allowed
  <2> QED BY <2>1 DEF CostIn
<1>7. f1[n] <= f2[n] + f3[n]
  BY <1>1, <1>2, <1>3, <1>4, <1>5, <1>6, SumsCompare
<1>8. Spent(log, A) = f1[n] /\ Spent(log, B) = f2[n] /\ Spent(log, C) = f3[n]
  BY <1>3, <1>4, <1>5, SpentIsSum
<1> QED BY <1>7, <1>8

\* Queries that are not in the log spend nothing.
LEMMA SpentNothing ==
  ASSUME NEW log \in Seq(Allowed), NEW A, \A i \in 1..Len(log) : log[i] \notin A
  PROVE  Spent(log, A) = 0
<1> DEFINE n == Len(log)
           f == [i \in 0..n |-> 0]
<1>1. n \in Nat
  OBVIOUS
<1>2. \A i \in 1..n : Parts(log, A)[i] = 0 /\ f[i] = 0 /\ f[i - 1] = 0
  BY <1>1 DEF Parts, CostIn
<1>3. f \in [0..n -> Nat] /\ f[0] = 0 /\ f[n] = 0
  BY <1>1
<1> HIDE DEF f
<1>4. Sums(n, Parts(log, A), f)
  BY <1>2, <1>3 DEF Sums
<1> QED BY <1>3, <1>4, SpentIsSum

\* A set whose queries in the log are all in another spends no more than it.
LEMMA SpentWithin ==
  ASSUME NEW log \in Seq(Allowed), NEW A, NEW B,
         \A i \in 1..Len(log) : log[i] \in A => log[i] \in B
  PROVE  Spent(log, A) <= Spent(log, B)
<1>1. Spent(log, A \ B) = 0
  BY SpentNothing
<1>2. A \cap Allowed \subseteq B \cup (A \ B)
  OBVIOUS
<1>3. Spent(log, A) <= Spent(log, B) + Spent(log, A \ B)
  BY <1>2, SpentCovered
<1>4. Spent(log, B) \in Nat
  BY SpentIsSum
<1> QED BY <1>1, <1>3, <1>4

\* An entry adds what it costs.
LEMMA SpentMore ==
  ASSUME NEW log \in Seq(Allowed), NEW e \in Allowed, NEW A
  PROVE  Spent(Append(log, e), A) = Spent(log, A) + CostIn(e, A)
<1> DEFINE n == Len(log)
<1>1. PICK longer \in Seq(Allowed) :
        /\ longer = Append(log, e) /\ Len(longer) = n + 1 /\ longer[n + 1] = e
        /\ \A i \in 1..n : longer[i] = log[i]
  <2>1. /\ Append(log, e) \in Seq(Allowed) /\ Len(Append(log, e)) = n + 1
        /\ Append(log, e)[n + 1] = e
        /\ \A i \in 1..n : Append(log, e)[i] = log[i]
    OBVIOUS
  <2> QED BY <2>1, Zenon
<1>2. n \in Nat
  OBVIOUS
<1>3. Parts(longer, A) \in [1..(n + 1) -> Nat]
  BY <1>1, SpentIsSum
<1>4. PICK f : Sums(n + 1, Parts(longer, A), f)
  BY <1>2, <1>3, SumsExist
<1>5. /\ f \in [0..(n + 1) -> Nat] /\ f[0] = 0
      /\ \A i \in 1..(n + 1) : f[i] = f[i - 1] + Parts(longer, A)[i]
  BY <1>4 DEF Sums
<1>6. \A i \in 1..n : Parts(longer, A)[i] = Parts(log, A)[i]
  BY <1>1, <1>2 DEF Parts
<1>7. Parts(longer, A)[n + 1] = CostIn(e, A)
  BY <1>1, <1>2 DEF Parts
<1> DEFINE g == [i \in 0..n |-> f[i]]
<1>8. Sums(n, Parts(log, A), g)
  BY <1>2, <1>5, <1>6 DEF Sums
<1>9. Spent(log, A) = f[n]
  <2>1. Spent(log, A) = g[n]
    BY <1>8, SpentIsSum
  <2> QED BY <1>2, <2>1
<1>10. Spent(longer, A) = f[n + 1]
  <2>1. Sums(Len(longer), Parts(longer, A), f)
    BY <1>1, <1>4
  <2>2. Spent(longer, A) = f[Len(longer)]
    BY <2>1, SpentIsSum
  <2> QED BY <1>1, <2>2
<1>11. f[n + 1] = f[n] + CostIn(e, A)
  BY <1>2, <1>5, <1>7
<1> QED BY <1>1, <1>9, <1>10, <1>11

(***************************************************************************)
(* The privacy budget: the invariant. Windows of a type are a window's     *)
(* length apart, and a query is let through in the window it counts for, or *)
(* at most MaxWait after it. So what any stretch that begins late in the    *)
(* window before holds of earlier windows is of that one window only.      *)
(***************************************************************************)
InWindow(q, start) == {e \in Allowed : e.type = q /\ e.window = start}
EarlierSince(q, from, start) == {e \in Allowed : e.type = q /\ e.at >= from /\ e.window # start}

Window(log, q, start, consumed) ==
  /\ Spent(log, InWindow(q, start)) = consumed /\ consumed <= BudgetEpsilon
  /\ \A from \in Int : from >= start + MaxWait - WindowLength =>
       Spent(log, EarlierSince(q, from, start)) <= BudgetEpsilon
  /\ \A i \in 1..Len(log) : log[i].type = q =>
       log[i].window = start \/ log[i].window + WindowLength <= start

\* Let through in its window, or late.
Timely(e) == e.window <= e.at /\ e.at < e.window + WindowLength + MaxWait

BudgetRequest == [type : QueryType, cost : Nat, now : Nat]

BudgetTypes ==
  /\ allowedLog \in Seq(Allowed) /\ time \in Nat /\ DOMAIN budgets \subseteq QueryType
  /\ \A i \in 1..Len(allowedLog) : Timely(allowedLog[i])
  /\ \A r \in DOMAIN waitingQueries :
       LET w == waitingQueries[r]
       IN w \in BudgetRequest /\ w.cost \in Cost /\ w.now <= time /\ time <= w.now + MaxWait

WindowsHold ==
  \A q \in DOMAIN budgets :
    /\ budgets[q].window_start \in 0..time
    /\ budgets[q].window_end = budgets[q].window_start + WindowLength
    /\ budgets[q].consumed \in Nat
    /\ Window(allowedLog, q, budgets[q].window_start, budgets[q].consumed)

FirstQueries ==
  \A q \in QueryType \ DOMAIN budgets : \A i \in 1..Len(allowedLog) : allowedLog[i].type # q

TwiceAtMost(log) ==
  \A q \in QueryType, from \in Int :
    Spent(log, Through(q, from, from + WindowLength - MaxWait)) <= 2 * BudgetEpsilon

BudgetInv == BudgetTypes /\ WindowsHold /\ FirstQueries /\ TwiceAtMost(allowedLog)

\* The budget that a query meets is that of the window its clock falls in, or of
\* one that has begun since.
Current(q, b, now) ==
  /\ b.window_start \in 0..time /\ b.window_end = b.window_start + WindowLength
  /\ now < b.window_end /\ b.consumed \in Nat
  /\ Window(allowedLog, q, b.window_start, b.consumed)

LEMMA BudgetIsCurrent ==
  ASSUME BudgetAssumption, BudgetInv, NEW q \in QueryType, NEW now \in Nat, now <= time
  PROVE  Current(q, BudgetOf(q, now), now)
<1> USE DEF BudgetAssumption, BudgetInv, BudgetTypes
<1>0. \A i \in 1..Len(allowedLog) : allowedLog[i] \in Allowed
  OBVIOUS
<1> DEFINE Begun == [consumed |-> 0, count |-> 0, recent |-> <<>>,
                     window_start |-> now, window_end |-> now + WindowLength]
<1>1. CASE q \notin DOMAIN budgets
  <2>1. \A i \in 1..Len(allowedLog) : allowedLog[i].type # q
    BY <1>1 DEF FirstQueries
  <2>2. /\ Spent(allowedLog, InWindow(q, now)) = 0
        /\ \A from \in Int : Spent(allowedLog, EarlierSince(q, from, now)) = 0
    BY <2>1, SpentNothing DEF InWindow, EarlierSince
  <2>3. Window(allowedLog, q, now, 0)
    BY <2>1, <2>2 DEF Window
  <2>4. BudgetOf(q, now) = Begun
    BY <1>1 DEF BudgetOf, MaybeReset, Fresh
  <2> QED BY <2>3, <2>4 DEF Current
<1>2. CASE q \in DOMAIN budgets /\ now < budgets[q].window_end
  <2>1. BudgetOf(q, now) = budgets[q]
    BY <1>2 DEF BudgetOf, MaybeReset, WindowsHold
  <2> QED BY <1>2, <2>1 DEF Current, WindowsHold
<1>3. CASE q \in DOMAIN budgets /\ ~(now < budgets[q].window_end)
  <2> DEFINE start == budgets[q].window_start
  <2>1. /\ start \in Nat /\ start + WindowLength <= now
        /\ budgets[q].window_end = start + WindowLength
        /\ Window(allowedLog, q, start, budgets[q].consumed)
    BY <1>3 DEF WindowsHold
  <2>2. BudgetOf(q, now) = Begun
    <3>1. now + (budgets[q].window_end - start) = now + WindowLength
      BY <2>1
    <3>2. now >= budgets[q].window_end
      BY <1>3, <2>1
    <3>3. BudgetOf(q, now)
            = [Fresh(now) EXCEPT !.window_end = now + (budgets[q].window_end - start)]
      BY <1>3, <3>2 DEF BudgetOf, MaybeReset
    <3> QED BY <3>1, <3>3 DEF Fresh
  <2> HIDE DEF start
  <2>3. ASSUME NEW i \in 1..Len(allowedLog), allowedLog[i].type = q
        PROVE  /\ allowedLog[i].window \in Nat /\ allowedLog[i].at \in Nat
               /\ allowedLog[i].window = start \/ allowedLog[i].window + WindowLength <= start
               /\ allowedLog[i].at < allowedLog[i].window + WindowLength + MaxWait
    <3>1. allowedLog[i] \in Allowed /\ Timely(allowedLog[i])
      BY <1>0
    <3>2. allowedLog[i].window = start \/ allowedLog[i].window + WindowLength <= start
      BY <2>1, <2>3 DEF Window
    <3> QED BY <3>1, <3>2 DEF Timely, Allowed
  <2>4. \A i \in 1..Len(allowedLog) : allowedLog[i].type = q =>
          allowedLog[i].window # now /\ allowedLog[i].window + WindowLength <= now
    BY <2>1, <2>3
  <2>5. Spent(allowedLog, InWindow(q, now)) = 0
    BY <2>4, SpentNothing DEF InWindow
  <2>6. ASSUME NEW from \in Int, from >= now + MaxWait - WindowLength
        PROVE  Spent(allowedLog, EarlierSince(q, from, now)) <= BudgetEpsilon
    <3>1. from >= start + MaxWait
      BY <2>1, <2>6
    <3>2. \A i \in 1..Len(allowedLog) :
            allowedLog[i] \in EarlierSince(q, from, now) => allowedLog[i] \in InWindow(q, start)
      BY <1>0, <2>1, <2>3, <3>1 DEF EarlierSince, InWindow
    <3>3. Spent(allowedLog, EarlierSince(q, from, now)) <= Spent(allowedLog, InWindow(q, start))
      BY <3>2, SpentWithin
    <3>4. /\ Spent(allowedLog, EarlierSince(q, from, now)) \in Nat
          /\ Spent(allowedLog, InWindow(q, start)) \in Nat
      BY SpentIsSum
    <3> QED BY <2>1, <3>3, <3>4 DEF Window
  <2>7. Window(allowedLog, q, now, 0)
    BY <2>4, <2>5, <2>6 DEF Window
  <2> QED BY <2>2, <2>7 DEF Current
<1> QED BY <1>1, <1>2, <1>3

\* A query that is let through keeps within its window, and a stretch that is
\* MaxWait shorter than a window meets at most this window and the one before.
MayPass(q, b, now, cost) ==
  /\ q \in QueryType /\ cost \in Cost /\ now \in Nat /\ now <= time /\ time <= now + MaxWait
  /\ Current(q, b, now) /\ b.consumed + cost <= BudgetEpsilon

BudgetLog(q, b, cost) ==
  Append(allowedLog, [type |-> q, cost |-> cost, at |-> time, window |-> b.window_start])

LogHolds(log, q, b, cost) ==
  /\ log \in Seq(Allowed) /\ \A i \in 1..Len(log) : Timely(log[i])
  /\ Window(log, q, b.window_start, b.consumed + cost)
  /\ \A p \in DOMAIN budgets \ {q} :
       Window(log, p, budgets[p].window_start, budgets[p].consumed)
  /\ \A p \in QueryType \ (DOMAIN budgets \cup {q}) : \A i \in 1..Len(log) : log[i].type # p
  /\ TwiceAtMost(log)

LEMMA QueryAllowed ==
  ASSUME BudgetAssumption, BudgetInv, NEW q, NEW b, NEW now, NEW cost, MayPass(q, b, now, cost)
  PROVE  LogHolds(BudgetLog(q, b, cost), q, b, cost)
<1> PICK log : log = BudgetLog(q, b, cost)
  OBVIOUS
<1> USE DEF MayPass, BudgetLog
<1> USE DEF BudgetAssumption
<1> DEFINE n == Len(allowedLog)
           start == b.window_start
<1>0. /\ allowedLog \in Seq(Allowed) /\ time \in Nat /\ cost \in Nat
      /\ start \in 0..time /\ now < start + WindowLength /\ b.consumed \in Nat
      /\ Window(allowedLog, q, start, b.consumed)
  BY DEF BudgetInv, BudgetTypes, Current
<1>1. PICK e \in Allowed : e = [type |-> q, cost |-> cost, at |-> time, window |-> start]
  BY <1>0 DEF Allowed
<1>2. e.type = q /\ e.cost = cost /\ e.at = time /\ e.window = start
  BY <1>1
<1>3. /\ log \in Seq(Allowed) /\ Len(log) = n + 1 /\ log[n + 1] = e
      /\ \A i \in 1..n : log[i] = allowedLog[i]
  <2>1. /\ Append(allowedLog, e) \in Seq(Allowed) /\ Len(Append(allowedLog, e)) = n + 1
        /\ Append(allowedLog, e)[n + 1] = e
        /\ \A i \in 1..n : Append(allowedLog, e)[i] = allowedLog[i]
    BY <1>0
  <2> QED BY <1>1, <2>1, Zenon
<1>4. n \in Nat /\ \A i \in 1..(n + 1) : i \in 1..n \/ i = n + 1
  BY <1>0
<1> HIDE DEF start, n
<1>5. start \in Int /\ start <= time /\ time < start + WindowLength + MaxWait
  BY <1>0
<1>6. \A set : /\ Spent(log, set) = Spent(allowedLog, set) + CostIn(e, set)
               /\ Spent(allowedLog, set) \in Nat
  BY <1>0, <1>1, SpentMore, SpentIsSum DEF start
<1>7. \A set : /\ e \notin set => CostIn(e, set) = 0
               /\ e \in set => CostIn(e, set) = cost
  BY <1>2 DEF CostIn
<1>9. \A i \in 1..Len(log) : Timely(log[i])
  <2>1. Timely(e)
    BY <1>2, <1>5 DEF Timely
  <2> QED BY <1>3, <1>4, <2>1 DEF BudgetInv, BudgetTypes, n
<1>10. Window(log, q, start, b.consumed + cost)
  <2>1. Spent(log, InWindow(q, start)) = b.consumed + cost
    <3>1. Spent(allowedLog, InWindow(q, start)) = b.consumed
      BY <1>0 DEF Window
    <3>2. e \in InWindow(q, start)
      BY <1>2 DEF InWindow
    <3> QED BY <1>6, <1>7, <3>1, <3>2
  <2>2. \A from \in Int : Spent(log, EarlierSince(q, from, start))
                           = Spent(allowedLog, EarlierSince(q, from, start))
    <3>1. \A from \in Int : e \notin EarlierSince(q, from, start)
      BY <1>2 DEF EarlierSince
    <3> QED BY <1>6, <1>7, <3>1
  <2>3. \A i \in 1..Len(log) : log[i].type = q =>
          log[i].window = start \/ log[i].window + WindowLength <= start
    BY <1>0, <1>2, <1>3, <1>4 DEF Window, n
  <2> QED BY <1>0, <2>1, <2>2, <2>3 DEF Window
<1>11. ASSUME NEW p \in DOMAIN budgets \ {q}
       PROVE  Window(log, p, budgets[p].window_start, budgets[p].consumed)
  <2> DEFINE first == budgets[p].window_start
  <2>1. p \in QueryType /\ Window(allowedLog, p, first, budgets[p].consumed)
    BY <1>0 DEF BudgetInv, BudgetTypes, WindowsHold
  <2> HIDE DEF first
  <2>2. /\ Spent(log, InWindow(p, first)) = Spent(allowedLog, InWindow(p, first))
        /\ \A from \in Int : Spent(log, EarlierSince(p, from, first))
                             = Spent(allowedLog, EarlierSince(p, from, first))
    <3>1. e \notin InWindow(p, first) /\ \A from \in Int : e \notin EarlierSince(p, from, first)
      BY <1>2 DEF InWindow, EarlierSince
    <3> QED BY <1>6, <1>7, <3>1
  <2>3. \A i \in 1..Len(log) : log[i].type = p =>
          log[i].window = first \/ log[i].window + WindowLength <= first
    BY <1>2, <1>3, <1>4, <2>1 DEF Window, n
  <2>4. Window(log, p, first, budgets[p].consumed)
    BY <2>1, <2>2, <2>3 DEF Window
  <2> QED BY <2>4 DEF first
<1>12. \A p \in QueryType \ (DOMAIN budgets \cup {q}) : \A i \in 1..Len(log) : log[i].type # p
  BY <1>2, <1>3, <1>4 DEF BudgetInv, FirstQueries, n
<1>13. ASSUME NEW p \in QueryType, NEW from \in Int
       PROVE  Spent(log, Through(p, from, from + WindowLength - MaxWait)) <= 2 * BudgetEpsilon
  <2> DEFINE stretch == Through(p, from, from + WindowLength - MaxWait)
  <2>1. Spent(allowedLog, stretch) <= 2 * BudgetEpsilon
    BY DEF BudgetInv, TwiceAtMost
  <2>2. CASE e \notin stretch
    <3> HIDE DEF stretch
    <3>1. CostIn(e, stretch) = 0
      BY <1>7, <2>2
    <3>2. Spent(log, stretch) <= 2 * BudgetEpsilon
      BY <1>6, <2>1, <3>1
    <3> QED BY <3>2 DEF stretch
  <2>3. CASE e \in stretch
    <3>1. p = q /\ time < from + WindowLength - MaxWait
      BY <1>2, <2>3 DEF Through
    <3>2. from >= start + MaxWait - WindowLength
      BY <1>0, <1>5, <3>1
    <3>3. stretch \cap Allowed \subseteq EarlierSince(q, from, start) \cup InWindow(q, start)
      BY <3>1 DEF Through, EarlierSince, InWindow
    <3> HIDE DEF stretch
    <3>4. Spent(log, stretch)
            <= Spent(log, EarlierSince(q, from, start)) + Spent(log, InWindow(q, start))
      BY <1>3, <3>3, SpentCovered
    <3>5. /\ Spent(log, EarlierSince(q, from, start)) <= BudgetEpsilon
          /\ Spent(log, InWindow(q, start)) <= BudgetEpsilon
      BY <1>10, <3>2 DEF Window
    <3>6. /\ Spent(log, stretch) \in Nat /\ Spent(log, EarlierSince(q, from, start)) \in Nat
          /\ Spent(log, InWindow(q, start)) \in Nat
      BY <1>3, SpentIsSum
    <3>7. Spent(log, stretch) <= 2 * BudgetEpsilon
      BY <3>4, <3>5, <3>6
    <3> QED BY <3>7 DEF stretch
  <2> QED BY <2>2, <2>3
<1> QED BY <1>3, <1>9, <1>10, <1>11, <1>12, <1>13 DEF LogHolds, TwiceAtMost, start

LEMMA CheckKeeps ==
  ASSUME BudgetAssumption, BudgetInv, NEW r, CheckAndRecord(r)
  PROVE  BudgetInv'
<1>1. PICK q, cost, now, b :
        /\ q \in QueryType /\ cost \in Cost /\ now \in Nat
        /\ q = waitingQueries[r].type /\ cost = waitingQueries[r].cost
        /\ now = waitingQueries[r].now
        /\ now <= time /\ time <= now + MaxWait /\ b = BudgetOf(q, now)
  BY DEF CheckAndRecord, BudgetInv, BudgetTypes, BudgetRequest
<1>2. Current(q, b, now)
  BY <1>1, BudgetIsCurrent
<1>3. /\ time' = time /\ time \in Nat /\ cost \in Nat
      /\ \A x \in DOMAIN waitingQueries' :
           x \in DOMAIN waitingQueries /\ waitingQueries'[x] = waitingQueries[x]
      /\ BudgetTypes /\ q \in QueryType
  <2>1. BudgetTypes /\ time \in Nat
    BY DEF BudgetInv, BudgetTypes
  <2>2. /\ waitingQueries' = [x \in DOMAIN waitingQueries \ {r} |-> waitingQueries[x]]
        /\ time' = time
    BY DEF CheckAndRecord
  <2> QED BY <1>1, <2>1, <2>2 DEF BudgetAssumption
<1>4. ComposeRdp(b, cost) = b.consumed + cost
  BY <1>2, <1>3 DEF ComposeRdp, Current
<1>5. CASE CanAfford(b, cost)
  <2>1. /\ SetBudget(q, RecordQuery(b, cost))
        /\ allowedLog' = Append(allowedLog, [type |-> q, cost |-> cost, at |-> time,
                                             window |-> b.window_start])
    BY <1>1, <1>5 DEF CheckAndRecord
  <2>2. b.consumed + cost <= BudgetEpsilon
    BY <1>4, <1>5 DEF CanAfford
  <2>3. LogHolds(allowedLog', q, b, cost)
    <3>1. MayPass(q, b, now, cost)
      BY <1>1, <1>2, <2>2 DEF MayPass
    <3>2. allowedLog' = BudgetLog(q, b, cost)
      BY <2>1 DEF BudgetLog
    <3> QED BY <3>1, <3>2, QueryAllowed, Zenon
  <2>4. /\ DOMAIN budgets' = DOMAIN budgets \cup {q}
        /\ \A p \in DOMAIN budgets \ {q} : budgets'[p] = budgets[p]
        /\ budgets'[q] = RecordQuery(b, cost)
    BY <2>1 DEF SetBudget
  <2>5. /\ RecordQuery(b, cost).consumed = b.consumed + cost
        /\ RecordQuery(b, cost).window_start = b.window_start
        /\ RecordQuery(b, cost).window_end = b.window_end
    BY <1>1, <1>4 DEF RecordQuery, BudgetOf, MaybeReset, Fresh
  <2>6. BudgetTypes'
    BY <1>3, <2>3, <2>4 DEF BudgetInv, BudgetTypes, LogHolds
  <2>7. QED
    BY <1>2, <1>3, <2>3, <2>4, <2>5, <2>6
       DEF LogHolds, BudgetInv, WindowsHold, FirstQueries, Current
<1>6. CASE ~CanAfford(b, cost)
  <2>1. SetBudget(q, b) /\ allowedLog' = allowedLog
    BY <1>1, <1>6 DEF CheckAndRecord
  <2>2. /\ DOMAIN budgets' = DOMAIN budgets \cup {q}
        /\ \A p \in DOMAIN budgets \ {q} : budgets'[p] = budgets[p]
        /\ budgets'[q] = b
    BY <2>1 DEF SetBudget
  <2>3. BudgetTypes' /\ FirstQueries'
    BY <1>3, <2>1, <2>2 DEF BudgetInv, BudgetTypes, FirstQueries
  <2>4. WindowsHold'
    BY <1>2, <1>3, <2>1, <2>2 DEF BudgetInv, WindowsHold, Current
  <2>5. TwiceAtMost(allowedLog')
    BY <2>1 DEF BudgetInv
  <2>6. QED
    BY <2>3, <2>4, <2>5 DEF BudgetInv
<1> QED BY <1>5, <1>6

\* Until something has been let through, nothing has been spent.
LEMMA NothingSpent == ASSUME BudgetAssumption PROVE TwiceAtMost(<<>>)
<1>1. <<>> \in Seq(Allowed) /\ \A i \in 1..Len(<<>>) : FALSE
  OBVIOUS
<1>2. \A set : Spent(<<>>, set) = 0
  BY <1>1, SpentNothing
<1> QED BY <1>2 DEF TwiceAtMost, BudgetAssumption

\* A step that lets nothing through keeps what is spent, if the clock does not go back.
LEMMA OthersKeep ==
  ASSUME BudgetInv, BudgetTypes', UNCHANGED <<budgets, allowedLog>>, time' >= time
  PROVE  BudgetInv'
<1>1. time \in Nat /\ time' \in Nat
  BY DEF BudgetInv, BudgetTypes
<1>2. WindowsHold'
  BY <1>1 DEF BudgetInv, WindowsHold
<1>3. FirstQueries' /\ TwiceAtMost(allowedLog')
  BY DEF BudgetInv, FirstQueries
<1> QED BY <1>2, <1>3 DEF BudgetInv

LEMMA BudgetStep ==
  ASSUME BudgetAssumption, BudgetInv, [BudgetNext]_budgetVars PROVE BudgetInv'
<1>0. /\ time \in Nat /\ BudgetTypes /\ MaxWait \in Nat
      /\ \A r \in DOMAIN waitingQueries :
           /\ waitingQueries[r] \in BudgetRequest /\ waitingQueries[r].now \in Nat
           /\ waitingQueries[r].now <= time
  BY DEF BudgetInv, BudgetTypes, BudgetAssumption, BudgetRequest
<1>1. CASE UNCHANGED budgetVars
  <2>1. BudgetTypes'
    BY <1>0, <1>1 DEF BudgetTypes, budgetVars
  <2> QED BY <1>0, <1>1, <2>1, OthersKeep DEF budgetVars
<1>2. ASSUME NEW r \in BudgetCaller, NEW q \in QueryType, NEW c \in Cost, ReadClock(r, q, c)
      PROVE  BudgetInv'
  <2>1. PICK w \in BudgetRequest :
          w = [type |-> q, cost |-> c, now |-> time] /\ w.cost \in Cost /\ w.now = time
    <3>1. [type |-> q, cost |-> c, now |-> time] \in BudgetRequest
      BY <1>0 DEF BudgetRequest, BudgetAssumption
    <3> QED BY <3>1
  <2>2. /\ UNCHANGED <<budgets, time, allowedLog>>
        /\ \A x \in DOMAIN waitingQueries' :
             \/ waitingQueries'[x] = w
             \/ x \in DOMAIN waitingQueries /\ waitingQueries'[x] = waitingQueries[x]
    BY <1>2, <2>1 DEF ReadClock
  <2>3. BudgetTypes'
    BY <1>0, <2>1, <2>2 DEF BudgetTypes
  <2> QED BY <1>0, <2>2, <2>3, OthersKeep
<1>3. ASSUME NEW r \in BudgetCaller, CheckAndRecord(r) PROVE BudgetInv'
  BY <1>3, CheckKeeps
<1>4. CASE ResetAll
  <2>1. allowedLog' = <<>> /\ DOMAIN budgets' = {} /\ UNCHANGED <<waitingQueries, time>>
    BY <1>4 DEF ResetAll
  <2>2. TwiceAtMost(allowedLog')
    BY <2>1, NothingSpent
  <2>3. allowedLog' \in Seq(Allowed) /\ \A i \in 1..Len(allowedLog') : FALSE
    BY <2>1
  <2> QED BY <1>0, <2>1, <2>2, <2>3 DEF BudgetInv, BudgetTypes, WindowsHold, FirstQueries
<1>5. CASE HourPasses
  <2>1. /\ time' = time + 1 /\ UNCHANGED <<budgets, waitingQueries, allowedLog>>
        /\ \A r \in DOMAIN waitingQueries : time < waitingQueries[r].now + MaxWait
    BY <1>5 DEF HourPasses
  <2>2. \A r \in DOMAIN waitingQueries :
          /\ waitingQueries[r].now <= time + 1
          /\ time + 1 <= waitingQueries[r].now + MaxWait
    BY <1>0, <2>1
  <2>3. BudgetTypes'
    BY <1>0, <2>1, <2>2 DEF BudgetTypes
  <2> QED BY <1>0, <2>1, <2>3, OthersKeep
<1> QED BY <1>1, <1>2, <1>3, <1>4, <1>5 DEF BudgetNext

\* The invariant holds.
LEMMA BudgetInvAlways ==
  ASSUME BudgetAssumption PROVE BudgetSpec => []BudgetInv
<1>1. BudgetInit => BudgetInv
  <2> SUFFICES ASSUME BudgetInit PROVE BudgetInv
    OBVIOUS
  <2>1. allowedLog = <<>> /\ time = 0 /\ DOMAIN budgets = {} /\ DOMAIN waitingQueries = {}
    BY DEF BudgetInit
  <2>2. TwiceAtMost(allowedLog)
    BY <2>1, NothingSpent
  <2> QED BY <2>1, <2>2 DEF BudgetInv, BudgetTypes, WindowsHold, FirstQueries
<1>2. BudgetInv /\ [BudgetNext]_budgetVars => BudgetInv'
  BY BudgetStep
<1> QED BY <1>1, <1>2, PTL DEF BudgetSpec

\* credit/privacy_budget.rs: for any costs, budget, window, number of requests and hours
\* they wait for the lock, a type spends at most its budget in its window; what is let
\* through late counts for the window before, and at most twice the budget is spent in
\* a stretch that is shorter than a window by the longest wait.
THEOREM SpendingBoundedAlways ==
  ASSUME BudgetAssumption PROVE BudgetSpec => []SpendingBounded
<1>1. BudgetInv => SpendingBounded
  <2> SUFFICES ASSUME BudgetInv PROVE SpendingBounded
    OBVIOUS
  <2>0. allowedLog \in Seq(Allowed) /\ \A i \in 1..Len(allowedLog) : allowedLog[i] \in Allowed
    BY DEF BudgetInv, BudgetTypes
  <2>1. ASSUME NEW q \in QueryType, q \in DOMAIN budgets
        PROVE  LET b == budgets[q]
               IN /\ Spent(allowedLog, Through(q, b.window_start + MaxWait, b.window_end))
                       <= b.consumed
                  /\ b.consumed
                       <= Spent(allowedLog, Through(q, b.window_start, b.window_end + MaxWait))
                  /\ b.consumed <= BudgetEpsilon
    <3> DEFINE start == budgets[q].window_start
               end == budgets[q].window_end
    <3>1. /\ start \in Nat /\ end = start + WindowLength /\ budgets[q].consumed \in Nat
          /\ Spent(allowedLog, InWindow(q, start)) = budgets[q].consumed
          /\ budgets[q].consumed <= BudgetEpsilon
          /\ \A i \in 1..Len(allowedLog) : allowedLog[i].type = q =>
               allowedLog[i].window = start \/ allowedLog[i].window + WindowLength <= start
      BY <2>1 DEF BudgetInv, WindowsHold, Window
    <3>2. /\ WindowLength \in Nat /\ MaxWait \in Nat
          /\ \A i \in 1..Len(allowedLog) :
               /\ allowedLog[i].at \in Nat /\ allowedLog[i].window \in Nat
               /\ allowedLog[i].window <= allowedLog[i].at
               /\ allowedLog[i].at < allowedLog[i].window + WindowLength + MaxWait
      BY <2>0 DEF BudgetAssumption, BudgetInv, BudgetTypes, Timely, Allowed
    <3> HIDE DEF start, end
    <3>3. \A i \in 1..Len(allowedLog) :
            allowedLog[i] \in Through(q, start + MaxWait, end)
              => allowedLog[i] \in InWindow(q, start)
      BY <2>0, <3>1, <3>2 DEF Through, InWindow
    <3>4. \A i \in 1..Len(allowedLog) :
            allowedLog[i] \in InWindow(q, start)
              => allowedLog[i] \in Through(q, start, end + MaxWait)
      BY <2>0, <3>1, <3>2 DEF Through, InWindow
    <3>5. /\ Spent(allowedLog, Through(q, start + MaxWait, end))
               <= Spent(allowedLog, InWindow(q, start))
          /\ Spent(allowedLog, InWindow(q, start))
               <= Spent(allowedLog, Through(q, start, end + MaxWait))
      BY <2>0, <3>3, <3>4, SpentWithin
    <3> QED BY <3>1, <3>5 DEF start, end
  <2>2. \A q \in QueryType : \A from \in 0..MaxClock :
          Spent(allowedLog, Through(q, from, from + WindowLength - MaxWait)) <= 2 * BudgetEpsilon
    BY DEF BudgetInv, TwiceAtMost
  <2> QED BY <2>1, <2>2 DEF SpendingBounded
<1> QED BY <1>1, BudgetInvAlways, PTL

(***************************************************************************)
(* The types, with the limits of what is kept.                              *)
(***************************************************************************)
\* Of the recent queries half is dropped when there is one too many.
RecentsHold ==
  \A q \in DOMAIN budgets : budgets[q].recent \in Seq(Cost) /\ Len(budgets[q].recent) <= MaxRecent

LEMMA TrimFits ==
  ASSUME BudgetAssumption, NEW s \in Seq(Cost), Len(s) <= MaxRecent, NEW cost \in Cost
  PROVE  Trim(Append(s, cost)) \in Seq(Cost) /\ Len(Trim(Append(s, cost))) <= MaxRecent
<1>1. PICK t : t = Append(s, cost)
  OBVIOUS
<1>3. MaxRecent \in Nat /\ MaxRecent >= 2
  BY DEF BudgetAssumption
<1>2. t \in Seq(Cost) /\ Len(t) \in Nat /\ Len(t) <= MaxRecent + 1
  <2>1. t \in Seq(Cost) /\ Len(t) = Len(s) + 1
    BY <1>1, AppendProperties
  <2> QED BY <1>3, <2>1
<1>4. CASE Len(t) > MaxRecent
  <2>1. PICK h \in Nat : h = MaxRecent \div 2 /\ h >= 1 /\ h < Len(t)
    BY <1>3, <1>4
  <2>2. SubSeq(t, h + 1, Len(t)) \in Seq(Cost) /\ Len(SubSeq(t, h + 1, Len(t))) = Len(t) - h
    BY <1>2, <2>1, SubSeqProperties
  <2>3. Trim(t) = SubSeq(t, h + 1, Len(t))
    BY <1>4, <2>1 DEF Trim
  <2> QED BY <1>1, <1>2, <1>3, <2>1, <2>2, <2>3
<1>5. CASE ~(Len(t) > MaxRecent)
  BY <1>1, <1>2, <1>3, <1>5 DEF Trim
<1> QED BY <1>4, <1>5

LEMMA RecentsStay ==
  ASSUME BudgetAssumption, BudgetInv, RecentsHold, [BudgetNext]_budgetVars PROVE RecentsHold'
<1>1. CASE UNCHANGED budgets
  BY <1>1 DEF RecentsHold
<1>2. CASE ResetAll
  <2>1. DOMAIN budgets' = {}
    BY <1>2 DEF ResetAll
  <2> QED BY <2>1 DEF RecentsHold
<1>3. ASSUME NEW r \in BudgetCaller, CheckAndRecord(r) PROVE RecentsHold'
  <2>1. PICK q, c, now, b : /\ q = waitingQueries[r].type /\ c = waitingQueries[r].cost
                            /\ now = waitingQueries[r].now /\ b = BudgetOf(q, now)
    OBVIOUS
  <2>0. c \in Cost
    BY <1>3, <2>1 DEF BudgetInv, BudgetTypes, CheckAndRecord
  <2>2. b.recent \in Seq(Cost) /\ Len(b.recent) <= MaxRecent
    <3>1. <<>> \in Seq(Cost) /\ Len(<<>>) <= MaxRecent
      BY DEF BudgetAssumption
    <3>2. Fresh(now).recent = <<>>
      BY DEF Fresh
    <3>3. \A a : MaybeReset(a, now).recent = a.recent \/ MaybeReset(a, now).recent = <<>>
      <4> SUFFICES ASSUME NEW a
                   PROVE  MaybeReset(a, now).recent = a.recent \/ MaybeReset(a, now).recent = <<>>
        OBVIOUS
      <4>1. CASE now >= a.window_end
        <5>1. PICK w : w = now + (a.window_end - a.window_start)
          OBVIOUS
        <5>2. MaybeReset(a, now) = [Fresh(now) EXCEPT !.window_end = w]
          BY <4>1, <5>1, Zenon DEF MaybeReset
        <5>3. [Fresh(now) EXCEPT !.window_end = w].recent = <<>>
          BY DEF Fresh
        <5> QED BY <5>2, <5>3, Zenon
      <4>2. CASE ~(now >= a.window_end)
        BY <4>2, Zenon DEF MaybeReset
      <4> QED BY <4>1, <4>2
    <3>4. PICK a : /\ b = MaybeReset(a, now)
                   /\ (q \in DOMAIN budgets /\ a = budgets[q]) \/ a = Fresh(now)
      BY <2>1, Zenon DEF BudgetOf
    <3>5. a.recent \in Seq(Cost) /\ Len(a.recent) <= MaxRecent
      <4>1. CASE q \in DOMAIN budgets /\ a = budgets[q]
        BY <4>1 DEF RecentsHold
      <4>2. CASE a = Fresh(now)
        BY <3>1, <3>2, <4>2, Zenon
      <4> QED BY <3>4, <4>1, <4>2
    <3>6. b.recent = a.recent \/ b.recent = <<>>
      BY <3>3, <3>4, Zenon
    <3> QED BY <3>1, <3>5, <3>6, Zenon
  <2>3. PICK n : /\ SetBudget(q, n)
                 /\ n.recent = b.recent \/ n.recent = Trim(Append(b.recent, c))
    <3>1. CASE CanAfford(b, c)
      <4>1. SetBudget(q, RecordQuery(b, c))
        BY <1>3, <2>1, <3>1 DEF CheckAndRecord
      <4>2. RecordQuery(b, c).recent = Trim(Append(b.recent, c))
        BY <2>1 DEF RecordQuery, BudgetOf, MaybeReset, Fresh
      <4> QED BY <4>1, <4>2
    <3>2. CASE ~CanAfford(b, c)
      BY <1>3, <2>1, <3>2 DEF CheckAndRecord
    <3> QED BY <3>1, <3>2
  <2>4. n.recent \in Seq(Cost) /\ Len(n.recent) <= MaxRecent
    BY <2>0, <2>2, <2>3, TrimFits
  <2>5. \A p \in DOMAIN budgets' :
          budgets'[p] = n \/ (p \in DOMAIN budgets /\ budgets'[p] = budgets[p])
    BY <2>3 DEF SetBudget
  <2> QED BY <2>4, <2>5 DEF RecentsHold
<1> QED BY <1>1, <1>2, <1>3 DEF BudgetNext, ReadClock, HourPasses, budgetVars

\* credit/privacy_budget.rs: no type has spent more than its budget, and the log of its
\* recent queries stays within its limit.
THEOREM BudgetTypesAlways == ASSUME BudgetAssumption PROVE BudgetSpec => []BudgetTypeOK
<1>1. BudgetInit => RecentsHold
  <2> SUFFICES ASSUME BudgetInit PROVE RecentsHold
    OBVIOUS
  <2>1. DOMAIN budgets = {}
    BY DEF BudgetInit
  <2> QED BY <2>1 DEF RecentsHold
<1>2. BudgetInv /\ RecentsHold /\ [BudgetNext]_budgetVars => RecentsHold'
  BY RecentsStay
<1>3. BudgetInv /\ RecentsHold => BudgetTypeOK
  <2> SUFFICES ASSUME BudgetInv, RecentsHold, NEW q \in DOMAIN budgets
               PROVE  /\ q \in QueryType /\ budgets[q].consumed \in 0..BudgetEpsilon
                      /\ Len(budgets[q].recent) <= MaxRecent
    BY DEF BudgetTypeOK
  <2>1. q \in QueryType
    BY DEF BudgetInv, BudgetTypes
  <2>2. budgets[q].consumed \in Nat /\ budgets[q].consumed <= BudgetEpsilon
    BY DEF BudgetInv, WindowsHold, Window
  <2>3. BudgetEpsilon \in Nat
    BY DEF BudgetAssumption
  <2> QED BY <2>1, <2>2, <2>3 DEF RecentsHold
<1> QED BY <1>1, <1>2, <1>3, BudgetInvAlways, PTL DEF BudgetSpec

\* billing/metering.rs: a request is at a statement of the middleware, and errors stay
\* within the bound.
THEOREM MeteringTypesAlways == ASSUME MeteringAssumption PROVE MeteringSpec => []MeteringTypeOK
<1>1. MeteringInv => MeteringTypeOK
  BY DEF MeteringInv, MeteringTypes, MeteringTypeOK, Stage
<1> QED BY <1>1, MeteringInvAlways, PTL

\* gateway/rate_limit.rs: a bucket is never over its tier, nor refilled ahead of time.
THEOREM RateTypesAlways == ASSUME RateAssumption PROVE RateSpec => []RateTypeOK
<1>1. RateInv => RateTypeOK
  <2> SUFFICES ASSUME RateInv, NEW k \in DOMAIN buckets
               PROVE  /\ buckets[k].parts \in 0..buckets[k].rpm * PartsPerToken
                      /\ buckets[k].last_refill <= second
    BY DEF RateTypeOK
  <2>1. PICK b : b = buckets[k] /\ Fits(b, second)
    BY DEF RateInv, KeyInv
  <2>2. b.parts \in Nat /\ b.rpm \in Nat /\ b.rpm * PartsPerToken \in Nat
    BY <2>1 DEF Fits, Bucket, RateAssumption
  <2> QED BY <2>1, <2>2 DEF Fits
<1> QED BY <1>1, RateInvAlways, PTL

=============================================================================
