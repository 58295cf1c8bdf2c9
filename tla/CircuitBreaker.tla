---------------------------- MODULE CircuitBreaker ----------------------------
(***************************************************************************)
(* The circuit breaker of one external service and the calls it protects:  *)
(* loops/circuit_breaker.rs.                                                *)
(*                                                                         *)
(* The registry locks a breaker for each check and for each record, never  *)
(* across the request between them, so the calls of CircuitBreakerProtected*)
(* interleave: an outcome is recorded in whatever state the breaker has by *)
(* then. The clock ticks; ages saturate at OpenTimeout, where the code     *)
(* stops telling them apart.                                               *)
(***************************************************************************)
EXTENDS Integers, FiniteSets

CONSTANTS Callers,                   \* tasks that call the service
          FailureThreshold,          \* failures in a row that trip the circuit
          HalfOpenSuccessThreshold,  \* successes in HalfOpen that close it
          HalfOpenFailureThreshold,  \* failures in HalfOpen that open it again
          HalfOpenMaxConcurrent,     \* configured, and read by no code
          OpenTimeout,               \* ticks in Open before a call is let through
          NULL                       \* None

ASSUME BreakerAssumption ==
  /\ FailureThreshold \in Nat \ {0}
  /\ HalfOpenSuccessThreshold \in Nat \ {0}
  /\ HalfOpenFailureThreshold \in Nat \ {0}
  /\ HalfOpenMaxConcurrent \in Nat
  /\ OpenTimeout \in Nat
  /\ NULL \notin Nat

VARIABLES breaker,    \* the CircuitBreaker behind the registry's locks
          calls,      \* the call each caller is in
          up,         \* external: the service works
          streak,     \* history: system errors recorded since the last success
          sinceOpen   \* history: age of the last change of state to Open

vars == <<breaker, calls, up, streak, sinceOpen>>

CircuitState == {"Closed", "Open", "HalfOpen"}
Outcome == {"success", "system_error", "business_error"}

Breaker == [state : CircuitState,
            failureCount : 0..FailureThreshold,
            hoSuccesses : 0..HalfOpenSuccessThreshold,
            hoFailures : 0..HalfOpenFailureThreshold,
            openAge : (0..OpenTimeout) \cup {NULL}]  \* now - opened_at

\* A call: the state it was let through in, and what the request returned.
Idle == [in |-> NULL, result |-> "none"]
Call == [in : {"Closed", "HalfOpen"}, result : Outcome \cup {"waiting"}]

New == [state |-> "Closed", failureCount |-> 0, hoSuccesses |-> 0,
        hoFailures |-> 0, openAge |-> NULL]

\* register_defaults runs before the first call.
Init == /\ breaker = New
        /\ calls = [c \in Callers |-> Idle]
        /\ up = TRUE
        /\ streak = 0
        /\ sinceOpen = OpenTimeout

-----------------------------------------------------------------------------
(* Transitions of the breaker.                                             *)

KeepOpenedAt(b) ==                        \* fault: opened_at only set the first time
  [b EXCEPT !.state = "Open", !.openAge = IF @ = NULL THEN 0 ELSE @,
            !.hoSuccesses = 0, !.hoFailures = 0]
ToOpen(b) ==
  [state |-> "Open", failureCount |-> b.failureCount,
   hoSuccesses |-> 0, hoFailures |-> 0, openAge |-> 0]

ToHalfOpen(b) ==
  [state |-> "HalfOpen", failureCount |-> b.failureCount,
   hoSuccesses |-> 0, hoFailures |-> 0, openAge |-> b.openAge]

KeepFailures(b) == [b EXCEPT !.state = "Closed", !.openAge = NULL]  \* fault: no reset
ToClosed(b) ==
  [state |-> "Closed", failureCount |-> 0,
   hoSuccesses |-> b.hoSuccesses, hoFailures |-> b.hoFailures, openAge |-> NULL]

MaybeTransition(b) ==
  IF b.state = "Open" /\ b.openAge = OpenTimeout THEN ToHalfOpen(b) ELSE b

\* What a rejected check does to the breaker: it counts total_rejected, no more.
PushBack(b) == [b EXCEPT !.openAge = 0]   \* fault: a rejection restarts the timeout
Rejected(b) == b

RecordSuccess(b) ==
  CASE b.state = "Closed" -> [b EXCEPT !.failureCount = 0]
    [] b.state = "HalfOpen" ->
         LET n == b.hoSuccesses + 1
             c == [b EXCEPT !.hoSuccesses = n]
         IN  IF n >= HalfOpenSuccessThreshold THEN ToClosed(c) ELSE c
    [] b.state = "Open" -> b

RecordFailure(b) ==
  CASE b.state = "Closed" ->
         LET n == b.failureCount + 1
             c == [b EXCEPT !.failureCount = n]
         IN  IF n >= FailureThreshold THEN ToOpen(c) ELSE c
    [] b.state = "HalfOpen" ->
         LET n == b.hoFailures + 1
             c == [b EXCEPT !.hoFailures = n]
         IN  IF n >= HalfOpenFailureThreshold THEN ToOpen(c) ELSE c
    [] b.state = "Open" -> b

\* record_failure returns before the match unless is_system_error says so.
CountAll(result) == result # "success"    \* fault: business errors count too
Counts(result) == result = "system_error"

-----------------------------------------------------------------------------
(* CircuitBreakerProtected::call: check, execute_request, record.          *)

\* registry.check: reject, or let the call through.
CheckRejects(c) ==
  /\ calls[c] = Idle
  /\ MaybeTransition(breaker).state = "Open"
  /\ breaker' = Rejected(breaker)
  /\ UNCHANGED <<calls, up, streak, sinceOpen>>

CheckAllows(c) ==
  /\ calls[c] = Idle
  /\ MaybeTransition(breaker).state # "Open"
  /\ breaker' = MaybeTransition(breaker)
  /\ calls' = [calls EXCEPT ![c] = [in |-> breaker'.state, result |-> "waiting"]]
  /\ UNCHANGED <<up, streak, sinceOpen>>

\* External: the request returns. is_system_error is what a service that is
\* down makes of it (timeout, refused, 502, ...); one that works may refuse.
RequestReturns(c, result) ==
  /\ calls[c].result = "waiting"
  /\ result \in IF up THEN {"success", "business_error"} ELSE {"system_error"}
  /\ calls' = [calls EXCEPT ![c].result = result]
  /\ UNCHANGED <<breaker, up, streak, sinceOpen>>

RecordSucceeded(c) ==
  /\ calls[c].result = "success"
  /\ breaker' = RecordSuccess(breaker)
  /\ calls' = [calls EXCEPT ![c] = Idle]
  /\ streak' = 0
  /\ UNCHANGED <<up, sinceOpen>>

RecordFailed(c) ==
  /\ calls[c].result \in {"system_error", "business_error"}
  /\ breaker' = IF Counts(calls[c].result) THEN RecordFailure(breaker) ELSE breaker
  /\ calls' = [calls EXCEPT ![c] = Idle]
  /\ streak' = IF calls[c].result = "system_error" /\ streak < FailureThreshold
                 THEN streak + 1 ELSE streak
  /\ sinceOpen' = IF breaker.state # "Open" /\ breaker'.state = "Open"
                    THEN 0 ELSE sinceOpen
  /\ UNCHANGED up

\* The caller's future is dropped (client gone, timeout around it): nothing is
\* recorded.
CallDropped(c) ==
  /\ calls[c] # Idle
  /\ calls' = [calls EXCEPT ![c] = Idle]
  /\ UNCHANGED <<breaker, up, streak, sinceOpen>>

-----------------------------------------------------------------------------
\* External: time, and the health of the service.
Tick ==
  /\ breaker' = [breaker EXCEPT !.openAge = IF @ = NULL \/ @ = OpenTimeout
                                              THEN @ ELSE @ + 1]
  /\ sinceOpen' = IF sinceOpen < OpenTimeout THEN sinceOpen + 1 ELSE sinceOpen
  /\ UNCHANGED <<calls, up, streak>>

ServiceFailsOrRecovers ==
  /\ up' = ~up
  /\ UNCHANGED <<breaker, calls, streak, sinceOpen>>

Next ==
  \/ Tick \/ ServiceFailsOrRecovers
  \/ \E c \in Callers :
       \/ CheckRejects(c) \/ CheckAllows(c)
       \/ \E result \in Outcome : RequestReturns(c, result)
       \/ RecordSucceeded(c) \/ RecordFailed(c) \/ CallDropped(c)

Spec == Init /\ [][Next]_vars

(***************************************************************************)
(* Fairness. The clock advances. Callers keep calling and a request ends   *)
(* (scheduling). A service that works does not answer every request with a *)
(* business error, and not every call that succeeded is dropped.           *)
(***************************************************************************)
Fairness ==
  /\ WF_vars(Tick)
  /\ \A c \in Callers :
       /\ WF_vars(CheckRejects(c) \/ CheckAllows(c))
       /\ WF_vars(\E result \in Outcome : RequestReturns(c, result))
       /\ SF_vars(RequestReturns(c, "success"))
       /\ SF_vars(RecordSucceeded(c))
       /\ WF_vars(RecordFailed(c))

FairSpec == Spec /\ Fairness

-----------------------------------------------------------------------------
(* Properties.                                                             *)

\* Type invariant: every counter stays within its threshold.
TypeOK ==
  /\ breaker \in Breaker
  /\ calls \in [Callers -> Call \cup {Idle}]
  /\ up \in BOOLEAN
  /\ streak \in 0..FailureThreshold
  /\ sinceOpen \in 0..OpenTimeout

\* Whatever state late outcomes are recorded in, no counter is left at its
\* threshold in the state where reaching it means to leave that state, and
\* opened_at is set exactly while the circuit is not closed (an Open circuit
\* without it could never be probed).
CountersInRange ==
  /\ breaker.state = "Closed" => breaker.failureCount < FailureThreshold
  /\ breaker.state = "HalfOpen" => /\ breaker.hoSuccesses < HalfOpenSuccessThreshold
                                   /\ breaker.hoFailures < HalfOpenFailureThreshold
  /\ breaker.openAge = NULL <=> breaker.state = "Closed"

\* A closed circuit opens only when the last FailureThreshold outcomes recorded,
\* business errors aside, were system errors: neither outcomes recorded while
\* the circuit was open nor an earlier outage count towards a new one.
TripsOnStreak ==
  [][breaker.state = "Closed" /\ breaker'.state = "Open"
       => streak' = FailureThreshold]_vars

\* No call is let through within OpenTimeout of the last time the circuit
\* opened, be it from Closed or again from HalfOpen, unless it has closed since.
QuietAfterOpening ==
  [][\A c \in Callers :
       calls[c] = Idle /\ calls'[c] # Idle /\ sinceOpen < OpenTimeout
         => breaker.state = "Closed"]_vars

\* Once the service stays up, the circuit closes and stays closed, although
\* errors of the outage are still recorded after it.
Recovers == <>[]up => <>[](breaker.state = "Closed")

\* The configuration documents "Maximum concurrent requests in HalfOpen state"
\* (circuit_breaker.rs:39).
HalfOpenConcurrencyBounded ==
  breaker.state = "HalfOpen" =>
    Cardinality({c \in Callers : calls[c].in = "HalfOpen"}) <= HalfOpenMaxConcurrent
=============================================================================
