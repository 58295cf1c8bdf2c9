------------------------------ MODULE Billing ------------------------------
(***************************************************************************)
(* Subscriptions and M-Pesa payments: billing/subscription.rs and          *)
(* billing/mpesa.rs of the Rust API.                                       *)
(*                                                                         *)
(* PostgreSQL statements are atomic steps; what happens between two awaits *)
(* of one handler is a step of its own, so handlers, the daily renewal run *)
(* and M-Pesa callbacks interleave as they do on the tokio runtime.        *)
(* Time is counted in days and kept as days left, saturated where the code *)
(* no longer tells values apart, so no horizon bounds a behaviour.         *)
(***************************************************************************)
EXTENDS Integers, FiniteSets

CONSTANTS Orgs,            \* organisations
          Subs,            \* primary keys of the table subscriptions
          Pays,            \* primary keys of the table payments (one checkout each)
          Clients,         \* API requests creating a subscription concurrently
          PeriodDays,      \* 30: a paid billing period
          TrialDays,       \* 14: the free trial
          GraceDays,       \* 7: from PastDue to Suspended
          ReactivateDays,  \* 30: how long a cancelled row can be reactivated
          NULL             \* SQL NULL, and "nothing" for the handlers' locals

ASSUME BillingAssumption ==
  /\ PeriodDays \in Nat \ {0}
  /\ TrialDays \in 1..PeriodDays
  /\ GraceDays \in Nat
  /\ ReactivateDays \in Nat \ {0}
  /\ NULL \notin Orgs \cup Pays \cup Subs \cup Int

VARIABLES status,      \* subscriptions.status, "none" while the row does not exist
          row,         \* the columns an INSERT fixes: org_id, paid tier, phone
          periodLeft,  \* current_period_end - now, in days
          graceLeft,   \* grace_period_end - now, in days, or NULL
          cancelAge,   \* now - cancelled_at; ReactivateDays for older and for NULL
          pay,         \* payments.status, plus the states of a row not stored
          payOrg,      \* payments.org_id
          daraja,      \* external: what Safaricom knows of the checkout
          confirming,  \* callbacks inside the transaction of process_stk_callback
          creating,    \* org a create_subscription handler found to have no row
          run,         \* process_renewals: phase, rows still to visit, STK call
          ranToday     \* the scheduler has called process_renewals today

subVars == <<status, row, periodLeft, graceLeft, cancelAge>>
payVars == <<pay, payOrg, daraja, confirming>>
vars == <<status, row, periodLeft, graceLeft, cancelAge, pay, payOrg, daraja,
          confirming, creating, run, ranToday>>

SubscriptionStatus == {"trial", "active", "past_due", "suspended", "cancelled"}
PaymentState == {"pending", "success", "failed", "cancelled"}

\* "calling": Safaricom accepted the checkout, store_payment has not run yet;
\* "lost": the row was never stored.
PayStatus == PaymentState \cup {"none", "calling", "lost"}

NoRow == [org |-> NULL, paid |-> FALSE, phone |-> FALSE]
Row == [org : Orgs, paid : BOOLEAN, phone : BOOLEAN]

\* The longest past the code tells apart: one day behind now.
PeriodLeft == (-1)..PeriodDays
GraceLeft == (-1)..GraceDays

RunState == [phase : {"idle", "renew", "suspend"}, rows : SUBSET Subs,
             sub : Subs \cup {NULL}, stk : Pays \cup {NULL}]
IdleRun == [phase |-> "idle", rows |-> {}, sub |-> NULL, stk |-> NULL]

IsLive(s) == status[s] \in SubscriptionStatus \ {"cancelled"}
Live(o) == {s \in Subs : IsLive(s) /\ row[s].org = o}

\* The unique partial index idx_subscriptions_active_org: a statement that
\* leaves s not cancelled fails when another row of its org is not cancelled.
NoIndex(s) == TRUE                                   \* fault: no such index
IndexAllows(s) == Live(row[s].org) \subseteq {s}

Init ==
  /\ status = [s \in Subs |-> "none"]
  /\ row = [s \in Subs |-> NoRow]
  /\ periodLeft = [s \in Subs |-> 0]
  /\ graceLeft = [s \in Subs |-> NULL]
  /\ cancelAge = [s \in Subs |-> ReactivateDays]
  /\ pay = [p \in Pays |-> "none"]
  /\ payOrg = [p \in Pays |-> NULL]
  /\ daraja = [p \in Pays |-> "none"]
  /\ confirming = {}
  /\ creating = [c \in Clients |-> NULL]
  /\ run = IdleRun
  /\ ranToday = FALSE

-----------------------------------------------------------------------------
(* POST /billing/subscriptions: SELECT, then INSERT.                       *)

\* The SELECT that finds no live subscription; one that finds a row bails out
\* and changes nothing.
CheckNoSubscription(c, o) ==
  /\ creating[c] = NULL
  /\ Live(o) = {}
  /\ creating' = [creating EXCEPT ![c] = o]
  /\ UNCHANGED <<subVars, payVars, run, ranToday>>

\* The same index, for the row an INSERT adds.
NoInsertGuard(o) == TRUE                             \* fault: no such index
InsertGuard(o) == Live(o) = {}

\* Where the first period ends: with the trial, or after a full period.
TrialThenPeriod(trial) ==                            \* fault: the trial comes on top
  IF trial THEN TrialDays + PeriodDays ELSE PeriodDays
FirstPeriod(trial) == IF trial THEN TrialDays ELSE PeriodDays

\* The INSERT. A paid tier starts with a trial unless skip_trial is set.
InsertSubscription(c, s, paid, phone, skipTrial) ==
  LET trial == paid /\ ~skipTrial IN
  /\ creating[c] # NULL
  /\ status[s] = "none"
  /\ InsertGuard(creating[c])
  /\ status' = [status EXCEPT ![s] = IF trial THEN "trial" ELSE "active"]
  /\ row' = [row EXCEPT ![s] = [org |-> creating[c], paid |-> paid, phone |-> phone]]
  /\ periodLeft' = [periodLeft EXCEPT ![s] = FirstPeriod(trial)]
  /\ creating' = [creating EXCEPT ![c] = NULL]
  /\ UNCHANGED <<graceLeft, cancelAge, payVars, run, ranToday>>

\* The INSERT the index refuses, or the request is dropped.
InsertFails(c) ==
  /\ creating[c] # NULL
  /\ creating' = [creating EXCEPT ![c] = NULL]
  /\ UNCHANGED <<subVars, payVars, run, ranToday>>

-----------------------------------------------------------------------------
(* Cancel and reactivate: one UPDATE each.                                 *)

CancelSubscription(o) ==
  /\ Live(o) # {}
  /\ status' = [s \in Subs |-> IF s \in Live(o) THEN "cancelled" ELSE status[s]]
  /\ cancelAge' = [s \in Subs |-> IF s \in Live(o) THEN 0 ELSE cancelAge[s]]
  /\ UNCHANGED <<row, periodLeft, graceLeft, payVars, creating, run, ranToday>>

\* The rows the WHERE clause of reactivate_subscription selects.
Reactivable(o) ==
  {s \in Subs : /\ row[s].org = o
                /\ status[s] = "cancelled"
                /\ cancelAge[s] < ReactivateDays}

\* The UPDATE touches every selected row, so the index refuses it unless there
\* is exactly one and no row of the org is live.
ReactivateSubscription(o) ==
  \E s \in Subs :
    /\ Reactivable(o) = {s}
    /\ IndexAllows(s)
    /\ status' = [status EXCEPT ![s] = "active"]
    /\ cancelAge' = [cancelAge EXCEPT ![s] = ReactivateDays]
    /\ UNCHANGED <<row, periodLeft, graceLeft, payVars, creating, run, ranToday>>

-----------------------------------------------------------------------------
(* STK Push: initiate_stk_push up to Safaricom's answer, then the INSERT.   *)

StkAccepted(p, o) ==
  /\ pay[p] = "none"
  /\ pay' = [pay EXCEPT ![p] = "calling"]
  /\ payOrg' = [payOrg EXCEPT ![p] = o]
  /\ daraja' = [daraja EXCEPT ![p] = "prompted"]

\* Safaricom refuses: the payment is stored as failed, without a checkout id.
StkRejected(p, o) ==
  /\ pay[p] = "none"
  /\ pay' = [pay EXCEPT ![p] = "failed"]
  /\ payOrg' = [payOrg EXCEPT ![p] = o]
  /\ UNCHANGED daraja

InitiatePayment(p, o) ==
  /\ StkAccepted(p, o) \/ StkRejected(p, o)
  /\ UNCHANGED <<subVars, confirming, creating, run, ranToday>>

StorePayment(p) ==
  /\ pay[p] = "calling"
  /\ run.stk # p
  /\ pay' = [pay EXCEPT ![p] = "pending"]
  /\ UNCHANGED <<subVars, payOrg, daraja, confirming, creating, run, ranToday>>

\* The INSERT fails, or the process stops before it: nothing knows the checkout.
LosePayment(p) ==
  /\ pay[p] = "calling"
  /\ run.stk # p
  /\ pay' = [pay EXCEPT ![p] = "lost"]
  /\ UNCHANGED <<subVars, payOrg, daraja, confirming, creating, run, ranToday>>

\* External: the customer enters the PIN, or declines, or lets the prompt expire.
CustomerAnswers(p) ==
  /\ daraja[p] = "prompted"
  /\ \E a \in {"paid", "declined"} : daraja' = [daraja EXCEPT ![p] = a]
  /\ UNCHANGED <<subVars, pay, payOrg, confirming, creating, run, ranToday>>

-----------------------------------------------------------------------------
(* process_stk_callback, called with what Safaricom sends, which may repeat *)
(* at any time. A callback whose checkout is not stored returns an error.   *)

Stored(p) == pay[p] \in PaymentState /\ daraja[p] # "none"

\* result_code = 0.
AnyResult(p) == daraja[p] \in {"paid", "declined"}   \* fault: the code is not read
ResultOk(p) == daraja[p] = "paid"

CallbackFailed(p) ==
  /\ Stored(p)
  /\ daraja[p] = "declined"
  /\ \E st \in {"failed", "cancelled"} : pay' = [pay EXCEPT ![p] = st]
  /\ UNCHANGED <<subVars, payOrg, daraja, confirming, creating, run, ranToday>>

\* BEGIN, the UPDATE of payments (which locks the row until the end of the
\* transaction) and the SELECT of confirm_payment_tx. When the SELECT finds no
\* live subscription the transaction rolls back and nothing has changed.
CallbackBegins(p) ==
  /\ Stored(p)
  /\ ResultOk(p)
  /\ p \notin confirming
  /\ Live(payOrg[p]) # {}
  /\ confirming' = confirming \cup {p}
  /\ UNCHANGED <<subVars, pay, payOrg, daraja, creating, run, ranToday>>

\* The subscriptions the UPDATE of confirm_payment_tx selects: it runs under
\* READ COMMITTED, so it sees what other requests committed since the SELECT.
Confirmed(p) == Live(payOrg[p])

\* The UPDATE of subscriptions and COMMIT.
CallbackCommits(p) ==
  /\ p \in confirming
  /\ confirming' = confirming \ {p}
  /\ pay' = [pay EXCEPT ![p] = "success"]
  /\ status' = [s \in Subs |-> IF s \in Confirmed(p) THEN "active" ELSE status[s]]
  /\ periodLeft' = [s \in Subs |-> IF s \in Confirmed(p) THEN PeriodDays
                                                        ELSE periodLeft[s]]
  /\ graceLeft' = [s \in Subs |-> IF s \in Confirmed(p) THEN NULL ELSE graceLeft[s]]
  /\ UNCHANGED <<row, cancelAge, payOrg, daraja, creating, run, ranToday>>

\* The connection or the process fails inside the transaction: rollback.
CallbackRollsBack(p) ==
  /\ p \in confirming
  /\ confirming' = confirming \ {p}
  /\ UNCHANGED <<subVars, pay, payOrg, daraja, creating, run, ranToday>>

-----------------------------------------------------------------------------
(* process_renewals: two SELECTs, each followed by a loop over what it read.*)

\* Status active or trial, and a period end in (now - 1 day, now + 24 hours].
DueOrPastDue ==                                      \* fault: retry the past due
  {s \in Subs : status[s] \in {"active", "trial", "past_due"} /\ periodLeft[s] <= 1}
Due == {s \in Subs : status[s] \in {"active", "trial"} /\ periodLeft[s] \in {0, 1}}

\* grace_period_end < now, which NULL does not satisfy.
GraceOverToday(s) == graceLeft[s] # NULL /\ graceLeft[s] <= 0  \* fault: <= for <
GraceOver(s) == graceLeft[s] # NULL /\ graceLeft[s] < 0

Expired == {s \in Subs : status[s] = "past_due" /\ GraceOver(s)}

StartRun ==
  /\ run.phase = "idle" /\ ~ranToday
  /\ run' = [IdleRun EXCEPT !.phase = "renew", !.rows = Due]
  /\ ranToday' = TRUE
  /\ UNCHANGED <<subVars, payVars, creating>>

\* The row the loop is at. Only one step handles it, unless STK is awaited.
Visits(s) == run.phase = "renew" /\ run.stk = NULL /\ s \in run.rows
RowDone(s) == run' = [run EXCEPT !.rows = @ \ {s}, !.stk = NULL, !.sub = NULL]

\* advance_billing_period: UPDATE ... WHERE id, whatever the status is by now.
RenewFree(s) ==
  /\ Visits(s) /\ ~row[s].paid
  /\ IndexAllows(s)
  /\ status' = [status EXCEPT ![s] = "active"]
  /\ periodLeft' = [periodLeft EXCEPT ![s] = PeriodDays]
  /\ graceLeft' = [graceLeft EXCEPT ![s] = NULL]
  /\ RowDone(s)
  /\ UNCHANGED <<row, cancelAge, payVars, creating, ranToday>>

\* create_invoice returned an error: counted, and the loop goes on.
InvoiceFails(s) ==
  /\ Visits(s) /\ row[s].paid
  /\ RowDone(s)
  /\ UNCHANGED <<subVars, payVars, creating, ranToday>>

\* mark_past_due: UPDATE ... WHERE id, whatever the status is by now.
MarkPastDue(s) ==
  /\ IndexAllows(s)
  /\ status' = [status EXCEPT ![s] = "past_due"]
  /\ graceLeft' = [graceLeft EXCEPT ![s] = GraceDays]
  /\ RowDone(s)
  /\ UNCHANGED <<row, periodLeft, cancelAge, creating, ranToday>>

\* No phone number, or initiate_stk_push failed before it stored anything.
RenewWithoutStk(s) ==
  /\ Visits(s) /\ row[s].paid
  /\ MarkPastDue(s)
  /\ UNCHANGED payVars

RenewStkRejected(s, p) ==
  /\ Visits(s) /\ row[s].paid /\ row[s].phone
  /\ StkRejected(p, row[s].org)
  /\ MarkPastDue(s)
  /\ UNCHANGED confirming

RenewStkAccepted(s, p) ==
  /\ Visits(s) /\ row[s].paid /\ row[s].phone
  /\ StkAccepted(p, row[s].org)
  /\ run' = [run EXCEPT !.sub = s, !.stk = p]
  /\ UNCHANGED <<subVars, confirming, creating, ranToday>>

\* The payment is stored: the subscription is left as it is until the callback.
RenewStkStored ==
  /\ run.stk # NULL
  /\ pay' = [pay EXCEPT ![run.stk] = "pending"]
  /\ RowDone(run.sub)
  /\ UNCHANGED <<subVars, payOrg, daraja, confirming, creating, ranToday>>

\* store_payment failed after Safaricom accepted: an error like any other.
RenewStkNotStored ==
  /\ run.stk # NULL
  /\ pay' = [pay EXCEPT ![run.stk] = "lost"]
  /\ MarkPastDue(run.sub)
  /\ UNCHANGED <<payOrg, daraja, confirming>>

SelectExpired ==
  /\ run.phase = "renew" /\ run.rows = {}
  /\ run' = [run EXCEPT !.phase = "suspend", !.rows = Expired]
  /\ UNCHANGED <<subVars, payVars, creating, ranToday>>

\* What the UPDATE of the grace-period loop requires of the row: nothing but the
\* index (WHERE id).
SuspendGuard(s) == IndexAllows(s)

SuspendExpired(s) ==
  /\ run.phase = "suspend" /\ s \in run.rows
  /\ SuspendGuard(s)
  /\ status' = [status EXCEPT ![s] = "suspended"]
  /\ RowDone(s)
  /\ UNCHANGED <<row, periodLeft, graceLeft, cancelAge, payVars, creating, ranToday>>

EndRun ==
  /\ run.phase = "suspend" /\ run.rows = {}
  /\ run' = IdleRun
  /\ UNCHANGED <<subVars, payVars, creating, ranToday>>

\* A database error (the index refusing a write is one) leaves through `?`, or
\* the process stops: the rest of the rows wait for the next day.
AbortRun ==
  /\ run.phase # "idle"
  /\ run' = IdleRun
  /\ pay' = [p \in Pays |-> IF p = run.stk THEN "lost" ELSE pay[p]]
  /\ UNCHANGED <<subVars, payOrg, daraja, confirming, creating, ranToday>>

-----------------------------------------------------------------------------
\* A day passes. The run is daily and ends within its day.
NextDay ==
  /\ run.phase = "idle" /\ ranToday
  /\ periodLeft' = [s \in Subs |-> IF periodLeft[s] > -1 THEN periodLeft[s] - 1 ELSE -1]
  /\ graceLeft' = [s \in Subs |-> IF graceLeft[s] # NULL /\ graceLeft[s] > -1
                                    THEN graceLeft[s] - 1 ELSE graceLeft[s]]
  /\ cancelAge' = [s \in Subs |-> IF cancelAge[s] < ReactivateDays
                                    THEN cancelAge[s] + 1 ELSE cancelAge[s]]
  /\ ranToday' = FALSE
  /\ UNCHANGED <<status, row, payVars, creating, run>>

\* Requests of an organisation.
RequestStep ==
  \/ \E c \in Clients :
       \/ \E o \in Orgs : CheckNoSubscription(c, o)
       \/ \E s \in Subs, paid, phone, skip \in BOOLEAN :
            InsertSubscription(c, s, paid, phone, skip)
       \/ InsertFails(c)
  \/ \E o \in Orgs : CancelSubscription(o) \/ ReactivateSubscription(o)
  \/ \E p \in Pays, o \in Orgs : InitiatePayment(p, o)
  \/ \E p \in Pays : StorePayment(p) \/ LosePayment(p)

\* Safaricom's callbacks.
CallbackStep ==
  \E p \in Pays : \/ CallbackFailed(p) \/ CallbackBegins(p)
                  \/ CallbackCommits(p) \/ CallbackRollsBack(p)

\* The renewal run.
RunStep ==
  \/ StartRun \/ SelectExpired \/ EndRun \/ AbortRun
  \/ RenewStkStored \/ RenewStkNotStored
  \/ \E s \in Subs : \/ RenewFree(s) \/ InvoiceFails(s)
                     \/ RenewWithoutStk(s) \/ SuspendExpired(s)
                     \/ \E p \in Pays : RenewStkRejected(s, p) \/ RenewStkAccepted(s, p)

Next == \/ RequestStep \/ CallbackStep \/ RunStep \/ NextDay
        \/ \E p \in Pays : CustomerAnswers(p)

Spec == Init /\ [][Next]_vars

(***************************************************************************)
(* Fairness. Days pass and the external scheduler calls process_renewals   *)
(* every day (subscription.rs:359). A run may be aborted on any day, but    *)
(* not so that one of its statements is reached for ever and never done.   *)
(***************************************************************************)
VisitRow(s) == \/ RenewFree(s) \/ InvoiceFails(s) \/ RenewWithoutStk(s)
               \/ \E p \in Pays : RenewStkRejected(s, p) \/ RenewStkAccepted(s, p)

Fairness ==
  /\ WF_vars(NextDay) /\ WF_vars(StartRun) /\ WF_vars(EndRun) /\ WF_vars(AbortRun)
  /\ SF_vars(SelectExpired)
  /\ SF_vars(RenewStkStored \/ RenewStkNotStored)
  /\ \A s \in Subs : SF_vars(VisitRow(s)) /\ SF_vars(SuspendExpired(s))

FairSpec == Spec /\ Fairness

-----------------------------------------------------------------------------
(* Properties.                                                             *)

\* Type invariant: every table column and every handler local keeps its type.
TypeOK ==
  /\ status \in [Subs -> SubscriptionStatus \cup {"none"}]
  /\ row \in [Subs -> Row \cup {NoRow}]
  /\ periodLeft \in [Subs -> PeriodLeft]
  /\ graceLeft \in [Subs -> GraceLeft \cup {NULL}]
  /\ cancelAge \in [Subs -> 0..ReactivateDays]
  /\ pay \in [Pays -> PayStatus]
  /\ payOrg \in [Pays -> Orgs \cup {NULL}]
  /\ daraja \in [Pays -> {"none", "prompted", "paid", "declined"}]
  /\ confirming \in SUBSET Pays
  /\ creating \in [Clients -> Orgs \cup {NULL}]
  /\ run \in RunState
  /\ ranToday \in BOOLEAN

\* However creations, cancellations, reactivations, callbacks and the renewal
\* run interleave, an organisation never has two subscriptions that are not
\* cancelled (the check-then-insert of create_subscription does not ensure it).
OneLivePerOrg ==
  \A s, t \in Subs : IsLive(s) /\ IsLive(t) /\ row[s].org = row[t].org => s = t

\* A subscription in arrears becomes active directly only in the transaction
\* that records a payment of its organisation, one the customer really made.
LeavesArrearsOnlyByPayment ==
  [][\A s \in Subs :
       status[s] \in {"past_due", "suspended"} /\ status'[s] = "active"
         => \E p \in Pays : /\ payOrg[p] = row[s].org
                            /\ daraja[p] = "paid"
                            /\ pay'[p] = "success"]_vars

\* The grace-period loop suspends from what an earlier SELECT read; still, a
\* row that is past due when it is suspended has used up its grace period.
GraceHonoured ==
  [][\A s \in Subs :
       status[s] = "past_due" /\ status'[s] = "suspended"
         => graceLeft[s] # NULL /\ graceLeft[s] < 0]_vars

\* Seen from outside, billing is one seat per organisation that subscriptions
\* take and leave in turn: no statement replaces one by another, and a row that
\* a stale renewal brings back to life takes a seat that is empty.
Seat == INSTANCE SubscriptionSeat
          WITH seat <- [o \in Orgs |-> Live(o)], owner <- [s \in Subs |-> row[s].org]
OneSeat == Seat!SeatSpec

\* The code documents Suspended as "Grace period expired" (subscription.rs:10):
\* only a subscription that is past due can be suspended.
SuspendedOnlyFromPastDue ==
  [][\A s \in Subs :
       status[s] # "suspended" /\ status'[s] = "suspended"
         => status[s] = "past_due"]_vars

\* A subscription does not stay past due for ever: it is paid for, cancelled or
\* suspended, although runs may be aborted and the suspension loop only sees a
\* row when the loop over the renewals got to its end.
PastDueResolved ==
  \A s \in Subs : status[s] = "past_due" ~> status[s] # "past_due"
=============================================================================
