---------------------------- MODULE UsageMetering ----------------------------
(***************************************************************************)
(* Usage metering: usage_metering_middleware of billing/metering.rs, and    *)
(* persist_monthly_usage. A request counts itself in Redis before it is     *)
(* judged, by the month and then the day it read from the clock, and is     *)
(* judged by the numbers its own INCRs returned; requests overlap.          *)
(* One organisation: its keys are its own. Enterprise is not metered.       *)
(***************************************************************************)
EXTENDS Integers, FiniteSets

CONSTANTS ApiCall,
          MonthlyLimit, DailyLimit,   \* of the organisation's tier
          MonthOf,                    \* the month of each day
          MaxErrors                   \* bound: errors of Redis

Days == DOMAIN MonthOf
Months == {MonthOf[d] : d \in Days}

VARIABLES monthlyUsage, dailyUsage,   \* Redis: the counter of each key, 0 if there is none
          usageRecords,               \* PostgreSQL: api_calls of each month
          requests,                   \* a request: where it is, its month and day, what it was told
          date, redisErrors,
          counts                     \* history: calls ever counted for a month

meteringVars == <<monthlyUsage, dailyUsage, usageRecords, requests, date, redisErrors, counts>>

NotBegun == [at |-> "none", month |-> 0, day |-> 0, monthly |-> 0, daily |-> 0]

MeteringInit ==
  /\ monthlyUsage = [m \in Months |-> 0] /\ dailyUsage = [d \in Days |-> 0]
  /\ usageRecords = [m \in Months |-> 0]
  /\ requests = [r \in ApiCall |-> NotBegun]
  /\ date = 1 /\ redisErrors = 0 /\ counts = [m \in Months |-> 0]

Moves(r, at) == requests[r].at = at
Error == redisErrors < MaxErrors /\ redisErrors' = redisErrors + 1

\* The middleware reads the clock for the period, and again for the date: at the end
\* of a month the period may be that of an earlier day.
Begin(r) ==
  /\ Moves(r, "none")
  /\ \E first \in Days :
       /\ first <= date
       /\ requests' = [requests EXCEPT ![r] = [at |-> "begun", month |-> MonthOf[first], day |-> date,
                                              monthly |-> 0, daily |-> 0]]
  /\ UNCHANGED <<monthlyUsage, dailyUsage, usageRecords, date, redisErrors, counts>>

\* INCR of the month (EXPIRE keeps the key for sixty days, longer than its use).
CountMonth(r) ==
  /\ Moves(r, "begun")
  /\ LET m == requests[r].month
     IN /\ monthlyUsage' = [monthlyUsage EXCEPT ![m] = @ + 1]
        /\ counts' = [counts EXCEPT ![m] = @ + 1]
        /\ requests' = [requests EXCEPT ![r].at = "month_counted",
                                        ![r].monthly = monthlyUsage'[m]]
  /\ UNCHANGED <<dailyUsage, usageRecords, date, redisErrors>>

\* The first INCR fails: the request is let through, unmetered.
LetThrough(r) ==
  /\ Moves(r, "begun") /\ Error
  /\ requests' = [requests EXCEPT ![r].at = "unmetered"]
  /\ UNCHANGED <<monthlyUsage, dailyUsage, usageRecords, date, counts>>

CountDay(r) ==
  /\ Moves(r, "month_counted")
  /\ LET d == requests[r].day
     IN /\ dailyUsage' = [dailyUsage EXCEPT ![d] = @ + 1]
        /\ requests' = [requests EXCEPT ![r].at = "counted", ![r].daily = dailyUsage'[d]]
  /\ UNCHANGED <<monthlyUsage, usageRecords, date, redisErrors, counts>>

\* The second INCR fails: a daily count of zero is within any limit.
DayUnknown(r) ==
  /\ Moves(r, "month_counted") /\ Error
  /\ requests' = [requests EXCEPT ![r].at = "counted", ![r].daily = 0]
  /\ UNCHANGED <<monthlyUsage, dailyUsage, usageRecords, date, counts>>

\* The month is checked before the day. A refused request stays counted.
OneMore(count, limit) == count > limit + 1                  \* fault: off by one
Exceeds(count, limit) == count > limit
Decide(r) ==
  /\ Moves(r, "counted")
  /\ requests' = [requests EXCEPT ![r].at =
       IF Exceeds(requests[r].monthly, MonthlyLimit) THEN "over_month"
       ELSE IF Exceeds(requests[r].daily, DailyLimit) THEN "over_day" ELSE "admitted"]
  /\ UNCHANGED <<monthlyUsage, dailyUsage, usageRecords, date, redisErrors, counts>>

\* persist_monthly_usage: what GET returned some time before the UPSERT; 0 for
\* a key that is not there or an error.
LastRead(record, read) == read                              \* fault: no GREATEST
Greatest(record, read) == IF read > record THEN read ELSE record
PersistMonthlyUsage(m) ==
  /\ \E read \in 0..monthlyUsage[m] :
       usageRecords' = [usageRecords EXCEPT ![m] = Greatest(@, read)]
  /\ UNCHANGED <<monthlyUsage, dailyUsage, requests, date, redisErrors, counts>>

NextDate ==
  /\ date + 1 \in Days /\ date' = date + 1
  /\ UNCHANGED <<monthlyUsage, dailyUsage, usageRecords, requests, redisErrors, counts>>

MeteringNext ==
  \/ NextDate \/ \E m \in Months : PersistMonthlyUsage(m)
  \/ \E r \in ApiCall : \/ Begin(r) \/ CountMonth(r) \/ LetThrough(r) \/ CountDay(r)
                        \/ DayUnknown(r) \/ Decide(r)

MeteringSpec == MeteringInit /\ [][MeteringNext]_meteringVars

\* The days are numbered from 1; a tier may allow nothing.
MeteringAssumption ==
  /\ MonthlyLimit \in Nat /\ DailyLimit \in Nat /\ MaxErrors \in Nat
  /\ 1 \in Days /\ Days \subseteq Nat

-----------------------------------------------------------------------------
MeteringTypeOK ==
  /\ date \in Days /\ redisErrors \in 0..MaxErrors
  /\ \A r \in ApiCall :
       requests[r].at \in {"none", "begun", "month_counted", "counted", "unmetered",
                           "over_month", "over_day", "admitted"}

MonthOfRequest(r) == requests[r].month
AdmittedIn(m) == {r \in ApiCall : Moves(r, "admitted") /\ MonthOfRequest(r) = m}
AdmittedOn(d) == {r \in ApiCall : Moves(r, "admitted") /\ requests[r].day = d}
UncountedOn(d) == {r \in AdmittedOn(d) : requests[r].daily = 0}

\* Requests that overlap, at midnight too, never take more than the limits of
\* month and day together, but for those Redis failed to count; and a month
\* refuses a request only if that many others were counted in it before.
QuotasHold ==
  /\ \A m \in Months : Cardinality(AdmittedIn(m)) <= MonthlyLimit
  /\ \A d \in Days : Cardinality(AdmittedOn(d) \ UncountedOn(d)) <= DailyLimit
  /\ \A r \in ApiCall : Moves(r, "over_month") => counts[MonthOfRequest(r)] > MonthlyLimit

\* The record of a month never passes what was counted and never shrinks,
\* whatever the read of the counter returned.
RecordOnlyGrows ==
  [][\A m \in Months : usageRecords'[m] \in usageRecords[m]..counts[m]]_meteringVars
=============================================================================
