--------------------------- MODULE Billing_proofs ---------------------------
(***************************************************************************)
(* Proofs about Billing, for any organisations, rows, payments, requests    *)
(* and lengths of the periods.                                             *)
(***************************************************************************)
EXTENDS Billing, TLAPS

\* What the renewal run remembers between two of its steps: the row whose STK
\* push it awaits, and only then.
RunOK == /\ run.stk # NULL => run.sub \in run.rows /\ run.phase = "renew"
         /\ run.phase = "idle" => run.rows = {} /\ run.stk = NULL

IInv == TypeOK /\ RunOK /\ OneLivePerOrg

USE BillingAssumption DEF BillingAssumption

-----------------------------------------------------------------------------

\* The initial state satisfies the inductive invariant.
LEMMA InitIInv == Init => IInv
<1> SUFFICES ASSUME Init PROVE IInv
  OBVIOUS
<1>1. /\ 0 \in PeriodLeft
      /\ ReactivateDays \in 0..ReactivateDays
  BY DEF PeriodLeft
<1>2. TypeOK
  BY <1>1 DEF Init, TypeOK, IdleRun, RunState, PayStatus
<1>3. RunOK
  BY DEF Init, RunOK, IdleRun
<1>4. OneLivePerOrg
  BY DEF Init, OneLivePerOrg, IsLive, SubscriptionStatus
<1>5. QED
  BY <1>2, <1>3, <1>4 DEF IInv

\* A request's step keeps every type (billing/mod.rs handlers).
LEMMA RequestType == TypeOK /\ RequestStep => TypeOK'
<1> SUFFICES ASSUME TypeOK, RequestStep PROVE TypeOK'
  OBVIOUS
<1> USE DEF TypeOK, subVars, payVars, SubscriptionStatus, PayStatus, PaymentState, Row,
            NoRow, PeriodLeft, GraceLeft
<1>1. ASSUME NEW c \in Clients, NEW o \in Orgs, CheckNoSubscription(c, o) PROVE TypeOK'
  BY <1>1 DEF CheckNoSubscription
<1>2. ASSUME NEW c \in Clients, NEW s \in Subs, NEW paid \in BOOLEAN, NEW phone \in BOOLEAN,
             NEW skip \in BOOLEAN, InsertSubscription(c, s, paid, phone, skip)
      PROVE  TypeOK'
  <2>1. creating[c] \in Orgs
    BY <1>2 DEF InsertSubscription
  <2>2. [org |-> creating[c], paid |-> paid, phone |-> phone] \in Row
    BY <2>1
  <2>3. FirstPeriod(paid /\ ~skip) \in PeriodLeft
    BY DEF FirstPeriod
  <2>4. QED
    BY <1>2, <2>2, <2>3 DEF InsertSubscription
<1>3. ASSUME NEW c \in Clients, InsertFails(c) PROVE TypeOK'
  BY <1>3 DEF InsertFails
<1>4. ASSUME NEW o \in Orgs, CancelSubscription(o) PROVE TypeOK'
  BY <1>4 DEF CancelSubscription
<1>5. ASSUME NEW o \in Orgs, ReactivateSubscription(o) PROVE TypeOK'
  BY <1>5 DEF ReactivateSubscription
<1>6. ASSUME NEW p \in Pays, NEW o \in Orgs, InitiatePayment(p, o) PROVE TypeOK'
  BY <1>6 DEF InitiatePayment, StkAccepted, StkRejected
<1>7. ASSUME NEW p \in Pays, StorePayment(p) \/ LosePayment(p) PROVE TypeOK'
  BY <1>7 DEF StorePayment, LosePayment
<1>8. QED
  BY <1>1, <1>2, <1>3, <1>4, <1>5, <1>6, <1>7 DEF RequestStep

\* A callback's step keeps every type (mpesa.rs, process_stk_callback).
LEMMA CallbackType == TypeOK /\ CallbackStep => TypeOK'
<1> SUFFICES ASSUME TypeOK, NEW p \in Pays,
                    \/ CallbackFailed(p) \/ CallbackBegins(p)
                    \/ CallbackCommits(p) \/ CallbackRollsBack(p)
             PROVE  TypeOK'
  BY DEF CallbackStep
<1> USE DEF TypeOK, subVars, payVars, SubscriptionStatus, PayStatus, PaymentState, Row,
            NoRow, PeriodLeft, GraceLeft
<1>1. CASE CallbackFailed(p)
  BY <1>1 DEF CallbackFailed
<1>2. CASE CallbackBegins(p)
  BY <1>2 DEF CallbackBegins
<1>3. CASE CallbackCommits(p)
  BY <1>3 DEF CallbackCommits
<1>4. CASE CallbackRollsBack(p)
  BY <1>4 DEF CallbackRollsBack
<1>5. QED
  BY <1>1, <1>2, <1>3, <1>4

\* A step of the renewal run keeps every type (process_renewals).
LEMMA RunType == TypeOK /\ RunOK /\ RunStep => TypeOK'
<1> SUFFICES ASSUME TypeOK, RunOK, RunStep PROVE TypeOK'
  OBVIOUS
<1> USE DEF TypeOK, subVars, payVars
<1>a. PeriodDays \in PeriodLeft /\ GraceDays \in GraceLeft /\ IdleRun \in RunState
  BY DEF PeriodLeft, GraceLeft, IdleRun, RunState
<1>b. ASSUME NEW s, RowDone(s) PROVE run' \in RunState
  BY <1>b DEF RowDone, RunState
<1>c. ASSUME NEW s \in Subs, MarkPastDue(s), pay' \in [Pays -> PayStatus],
             payOrg' \in [Pays -> Orgs \cup {NULL}],
             daraja' \in [Pays -> {"none", "prompted", "paid", "declined"}],
             confirming' = confirming
      PROVE  TypeOK'
  <2>1. status' \in [Subs -> SubscriptionStatus \cup {"none"}]
    BY <1>c DEF MarkPastDue, SubscriptionStatus
  <2>2. graceLeft' \in [Subs -> GraceLeft \cup {NULL}]
    BY <1>c, <1>a DEF MarkPastDue
  <2>3. run' \in RunState
    BY <1>c, <1>b DEF MarkPastDue
  <2>4. QED
    BY <1>c, <2>1, <2>2, <2>3 DEF MarkPastDue
<1>d. ASSUME NEW s \in Subs PROVE row[s].org \in Orgs \cup {NULL}
  BY DEF Row, NoRow
<1>e. {"failed", "calling", "pending", "lost"} \subseteq PayStatus
  BY DEF PayStatus, PaymentState
<1>1. CASE StartRun
  BY <1>1 DEF StartRun, Due, IdleRun, RunState
<1>2. CASE SelectExpired
  BY <1>2 DEF SelectExpired, Expired, RunState
<1>3. CASE EndRun
  BY <1>3, <1>a DEF EndRun
<1>4. CASE AbortRun
  BY <1>4, <1>a, <1>e DEF AbortRun
<1>5. CASE RenewStkStored
  BY <1>5, <1>b, <1>e DEF RenewStkStored
<1>6. CASE RenewStkNotStored
  <2>1. run.sub \in Subs
    BY <1>6 DEF RenewStkNotStored, RunOK, RunState
  <2>2. pay' \in [Pays -> PayStatus]
    BY <1>6, <1>e DEF RenewStkNotStored
  <2>3. QED
    BY <1>6, <2>1, <2>2, <1>c DEF RenewStkNotStored
<1>7. ASSUME NEW s \in Subs, RenewFree(s) PROVE TypeOK'
  <2>1. status' \in [Subs -> SubscriptionStatus \cup {"none"}]
    BY <1>7 DEF RenewFree, SubscriptionStatus
  <2>2. periodLeft' \in [Subs -> PeriodLeft] /\ graceLeft' \in [Subs -> GraceLeft \cup {NULL}]
    BY <1>7, <1>a DEF RenewFree
  <2>3. QED
    BY <1>7, <1>b, <2>1, <2>2 DEF RenewFree
<1>8. ASSUME NEW s \in Subs, InvoiceFails(s) PROVE TypeOK'
  BY <1>8, <1>b DEF InvoiceFails
<1>9. ASSUME NEW s \in Subs, RenewWithoutStk(s) PROVE TypeOK'
  BY <1>9, <1>c DEF RenewWithoutStk
<1>10. ASSUME NEW s \in Subs, SuspendExpired(s) PROVE TypeOK'
  BY <1>10, <1>b DEF SuspendExpired, SubscriptionStatus
<1>11. ASSUME NEW s \in Subs, NEW p \in Pays, RenewStkRejected(s, p) PROVE TypeOK'
  <2>1. /\ pay' \in [Pays -> PayStatus]
        /\ payOrg' \in [Pays -> Orgs \cup {NULL}]
        /\ daraja' = daraja
    BY <1>11, <1>d, <1>e DEF RenewStkRejected, StkRejected
  <2>2. QED
    BY <1>11, <1>c, <2>1 DEF RenewStkRejected
<1>12. ASSUME NEW s \in Subs, NEW p \in Pays, RenewStkAccepted(s, p) PROVE TypeOK'
  <2>1. run' \in RunState
    BY <1>12 DEF RenewStkAccepted, RunState
  <2>2. QED
    BY <1>12, <1>d, <1>e, <2>1 DEF RenewStkAccepted, StkAccepted
<1>13. QED
  BY <1>1, <1>2, <1>3, <1>4, <1>5, <1>6, <1>7, <1>8, <1>9, <1>10, <1>11, <1>12 DEF RunStep

\* The other steps keep every type.
LEMMA OtherType ==
  TypeOK /\ (NextDay \/ (\E p \in Pays : CustomerAnswers(p)) \/ UNCHANGED vars) => TypeOK'
<1> SUFFICES ASSUME TypeOK,
                    NextDay \/ (\E p \in Pays : CustomerAnswers(p)) \/ UNCHANGED vars
             PROVE  TypeOK'
  OBVIOUS
<1> USE DEF TypeOK, subVars, payVars, SubscriptionStatus, PayStatus, PaymentState, Row,
            NoRow, PeriodLeft, GraceLeft
<1>1. CASE NextDay
  <2>1. periodLeft' \in [Subs -> PeriodLeft]
    BY <1>1 DEF NextDay
  <2>2. graceLeft' \in [Subs -> GraceLeft \cup {NULL}]
    BY <1>1 DEF NextDay
  <2>3. cancelAge' \in [Subs -> 0..ReactivateDays]
    BY <1>1 DEF NextDay
  <2>4. QED
    BY <1>1, <2>1, <2>2, <2>3 DEF NextDay
<1>2. CASE \E p \in Pays : CustomerAnswers(p)
  BY <1>2 DEF CustomerAnswers
<1>3. CASE UNCHANGED vars
  BY <1>3 DEF vars
<1>4. QED
  BY <1>1, <1>2, <1>3

\* What the run remembers stays consistent.
LEMMA RunOKStep == TypeOK /\ RunOK /\ [Next]_vars => RunOK'
<1> SUFFICES ASSUME TypeOK, RunOK, [Next]_vars PROVE RunOK'
  OBVIOUS
<1>1. UNCHANGED run => RunOK'
  BY DEF RunOK
<1>2. CASE RunStep
  <2> USE DEF RunOK, IdleRun, RunState, RowDone, TypeOK, MarkPastDue, Visits
  <2>1. CASE StartRun
    BY <2>1 DEF StartRun
  <2>2. CASE SelectExpired
    BY <2>2 DEF SelectExpired
  <2>3. CASE EndRun \/ AbortRun
    BY <2>3 DEF EndRun, AbortRun
  <2>4. CASE RenewStkStored \/ RenewStkNotStored
    BY <2>4 DEF RenewStkStored, RenewStkNotStored
  <2>5. ASSUME NEW s \in Subs,
               RenewFree(s) \/ InvoiceFails(s) \/ RenewWithoutStk(s) \/ SuspendExpired(s)
        PROVE  RunOK'
    BY <2>5 DEF RenewFree, InvoiceFails, RenewWithoutStk, SuspendExpired
  <2>6. ASSUME NEW s \in Subs, NEW p \in Pays, RenewStkRejected(s, p) PROVE RunOK'
    BY <2>6 DEF RenewStkRejected
  <2>7. ASSUME NEW s \in Subs, NEW p \in Pays, RenewStkAccepted(s, p) PROVE RunOK'
    BY <2>7 DEF RenewStkAccepted
  <2>8. QED
    BY <1>2, <2>1, <2>2, <2>3, <2>4, <2>5, <2>6, <2>7 DEF RunStep
<1>3. CASE RequestStep
  BY <1>1, <1>3 DEF RequestStep, CheckNoSubscription, InsertSubscription, InsertFails,
       CancelSubscription, ReactivateSubscription, InitiatePayment, StorePayment, LosePayment
<1>4. CASE CallbackStep
  BY <1>1, <1>4 DEF CallbackStep, CallbackFailed, CallbackBegins, CallbackCommits,
       CallbackRollsBack
<1>5. CASE NextDay \/ (\E p \in Pays : CustomerAnswers(p)) \/ UNCHANGED vars
  BY <1>1, <1>5 DEF NextDay, CustomerAnswers, vars
<1>6. QED
  BY <1>2, <1>3, <1>4, <1>5 DEF Next

-----------------------------------------------------------------------------
(* At most one subscription in force.                                      *)

\* A step that can only make row s live, and only where no other row of its
\* organisation is, leaves at most one live row per organisation.
LEMMA OneRowStep ==
  ASSUME TypeOK, OneLivePerOrg, NEW s \in Subs,
         \A t \in Subs \ {s} : row'[t] = row[t] /\ (IsLive(t)' => IsLive(t)),
         IsLive(s)' => \A t \in Subs \ {s} : IsLive(t) => row[t].org # row'[s].org
  PROVE  OneLivePerOrg'
  BY DEF OneLivePerOrg

\* A step that makes no row live and leaves the rows as they are.
LEMMA NoNewLive ==
  ASSUME OneLivePerOrg, row' = row, \A t \in Subs : IsLive(t)' => IsLive(t)
  PROVE  OneLivePerOrg'
  BY DEF OneLivePerOrg

\* An UPDATE of row s that the unique index lets through.
LEMMA IndexedStep ==
  ASSUME TypeOK, OneLivePerOrg, NEW s \in Subs, IndexAllows(s), row' = row, NEW st,
         status' = [status EXCEPT ![s] = st]
  PROVE  OneLivePerOrg'
<1>1. \A t \in Subs \ {s} : row'[t] = row[t] /\ (IsLive(t)' => IsLive(t))
  BY DEF IsLive, TypeOK
<1>2. \A t \in Subs \ {s} : IsLive(t) => row[t].org # row'[s].org
  BY DEF IndexAllows, Live
<1>3. QED
  BY <1>1, <1>2, OneRowStep

\* Every step keeps it: the index guards each statement that revives a row.
LEMMA OneLiveStep == TypeOK /\ RunOK /\ OneLivePerOrg /\ [Next]_vars => OneLivePerOrg'
<1> SUFFICES ASSUME TypeOK, RunOK, OneLivePerOrg, [Next]_vars PROVE OneLivePerOrg'
  OBVIOUS
<1>a. row' = row /\ status' = status => OneLivePerOrg'
  BY NoNewLive DEF IsLive
<1>1. CASE RequestStep
  <2>1. ASSUME NEW c \in Clients, NEW s \in Subs, NEW paid \in BOOLEAN,
               NEW phone \in BOOLEAN, NEW skip \in BOOLEAN,
               InsertSubscription(c, s, paid, phone, skip)
        PROVE  OneLivePerOrg'
    <3>1. \A t \in Subs \ {s} : row'[t] = row[t] /\ (IsLive(t)' => IsLive(t))
      BY <2>1 DEF InsertSubscription, IsLive, TypeOK
    <3>2. row'[s].org = creating[c]
      BY <2>1 DEF InsertSubscription, TypeOK
    <3>3. \A t \in Subs \ {s} : IsLive(t) => row[t].org # row'[s].org
      BY <2>1, <3>2 DEF InsertSubscription, InsertGuard, Live
    <3>4. QED
      BY <3>1, <3>3, OneRowStep
  <2>2. ASSUME NEW o \in Orgs, CancelSubscription(o) PROVE OneLivePerOrg'
    <3>1. \A t \in Subs : IsLive(t)' => IsLive(t)
      BY <2>2 DEF CancelSubscription, IsLive, SubscriptionStatus
    <3>2. QED
      BY <2>2, <3>1, NoNewLive DEF CancelSubscription
  <2>3. ASSUME NEW o \in Orgs, ReactivateSubscription(o) PROVE OneLivePerOrg'
    BY <2>3, IndexedStep DEF ReactivateSubscription
  <2>4. QED
    BY <1>1, <1>a, <2>1, <2>2, <2>3 DEF RequestStep, CheckNoSubscription, InsertFails,
         InitiatePayment, StorePayment, LosePayment, subVars
<1>2. CASE CallbackStep
  <2>1. ASSUME NEW p \in Pays, CallbackCommits(p) PROVE OneLivePerOrg'
    <3>1. \A t \in Subs : IsLive(t)' => IsLive(t)
      BY <2>1 DEF CallbackCommits, Confirmed, Live, IsLive, SubscriptionStatus
    <3>2. QED
      BY <2>1, <3>1, NoNewLive DEF CallbackCommits
  <2>2. QED
    BY <1>2, <1>a, <2>1 DEF CallbackStep, CallbackFailed, CallbackBegins,
         CallbackRollsBack, subVars
<1>3. CASE RunStep
  <2>1. ASSUME NEW s \in Subs, RenewFree(s) \/ SuspendExpired(s) \/ MarkPastDue(s)
        PROVE  OneLivePerOrg'
    BY <2>1, IndexedStep DEF RenewFree, SuspendExpired, SuspendGuard, MarkPastDue
  <2>2. CASE RenewStkNotStored
    <3>1. run.sub \in Subs /\ MarkPastDue(run.sub)
      BY <2>2 DEF RenewStkNotStored, RunOK, TypeOK, RunState
    <3>2. QED
      BY <3>1, <2>1
  <2>3. QED
    BY <1>3, <1>a, <2>1, <2>2 DEF RunStep, StartRun, SelectExpired, EndRun, AbortRun,
         RenewStkStored, InvoiceFails, RenewWithoutStk, RenewStkRejected,
         RenewStkAccepted, subVars
<1>4. CASE NextDay \/ (\E p \in Pays : CustomerAnswers(p)) \/ UNCHANGED vars
  BY <1>4, <1>a DEF NextDay, CustomerAnswers, vars, subVars
<1>5. QED
  BY <1>1, <1>2, <1>3, <1>4 DEF Next

\* The inductive invariant is one.
LEMMA IInvStep == IInv /\ [Next]_vars => IInv'
  BY RequestType, CallbackType, RunType, OtherType, RunOKStep, OneLiveStep DEF IInv, Next

\* The inductive invariant holds in every reachable state of billing.
LEMMA IInvAlways == Spec => []IInv
  BY InitIInv, IInvStep, PTL DEF Spec

\* Every table column and every local of a handler keeps its type.
THEOREM TypeCorrect == Spec => []TypeOK
  BY IInvAlways, PTL DEF IInv

\* An organisation never has two subscriptions that are not cancelled, whatever
\* the number of organisations, rows and concurrent requests.
THEOREM OneLive == Spec => []OneLivePerOrg
  BY IInvAlways, PTL DEF IInv

-----------------------------------------------------------------------------
(* Who leaves the arrears, and when a subscription is suspended.           *)

InArrears(s) == status[s] \in {"past_due", "suspended"}

\* Only paid tiers fall into arrears; the rows a run still has to visit exist;
\* those of its second loop are of a paid tier and, while past due, have used up
\* their grace period; an open callback transaction is one for a paid checkout.
ArrearsInv ==
  /\ \A s \in Subs : InArrears(s) => row[s].paid
  /\ \A s \in run.rows : status[s] # "none"
  /\ run.phase = "suspend" =>
       \A s \in run.rows : row[s].paid /\ (status[s] = "past_due" => GraceOver(s))
  /\ run.stk # NULL => row[run.sub].paid
  /\ \A p \in confirming : daraja[p] = "paid" /\ pay[p] # "none"

\* No row is in arrears when the tables are empty.
LEMMA InitArrears == Init => ArrearsInv
  BY DEF Init, ArrearsInv, InArrears, IdleRun

\* Requests: a new row is not in arrears and not one the run visits.
LEMMA RequestArrears == TypeOK /\ RunOK /\ ArrearsInv /\ RequestStep => ArrearsInv'
<1> SUFFICES ASSUME TypeOK, RunOK, ArrearsInv, RequestStep PROVE ArrearsInv'
  OBVIOUS
<1> USE DEF ArrearsInv, InArrears, GraceOver, TypeOK, subVars, payVars, RunState
<1>1. ASSUME NEW c \in Clients, NEW s \in Subs, NEW paid \in BOOLEAN,
             NEW phone \in BOOLEAN, NEW skip \in BOOLEAN,
             InsertSubscription(c, s, paid, phone, skip)
      PROVE  ArrearsInv'
  <2>1. s \notin run.rows /\ (run.stk # NULL => run.sub # s)
    BY <1>1 DEF InsertSubscription, RunOK
  <2>2. status'[s] \in {"trial", "active"}
    BY <1>1 DEF InsertSubscription
  <2>3. \A t \in Subs \ {s} : /\ status'[t] = status[t] /\ row'[t] = row[t]
                             /\ graceLeft'[t] = graceLeft[t]
    BY <1>1 DEF InsertSubscription
  <2>4. /\ run' = run /\ confirming' = confirming
        /\ daraja' = daraja /\ pay' = pay
        /\ run.rows \subseteq Subs /\ (run.stk # NULL => run.sub \in Subs)
    BY <1>1 DEF InsertSubscription, RunOK
  <2>5. QED
    BY <2>1, <2>2, <2>3, <2>4
<1>2. ASSUME NEW o \in Orgs, CancelSubscription(o) PROVE ArrearsInv'
  BY <1>2 DEF CancelSubscription
<1>3. ASSUME NEW o \in Orgs, ReactivateSubscription(o) PROVE ArrearsInv'
  BY <1>3 DEF ReactivateSubscription
<1>4. ASSUME NEW p \in Pays, NEW o \in Orgs, InitiatePayment(p, o) PROVE ArrearsInv'
  BY <1>4 DEF InitiatePayment, StkAccepted, StkRejected
<1>5. ASSUME NEW p \in Pays, StorePayment(p) \/ LosePayment(p) PROVE ArrearsInv'
  BY <1>5 DEF StorePayment, LosePayment
<1>6. QED
  BY <1>1, <1>2, <1>3, <1>4, <1>5 DEF RequestStep, CheckNoSubscription, InsertFails

\* Callbacks: a payment takes its rows out of arrears and visits none.
LEMMA CallbackArrears == TypeOK /\ RunOK /\ ArrearsInv /\ CallbackStep => ArrearsInv'
<1> SUFFICES ASSUME TypeOK, RunOK, ArrearsInv, NEW p \in Pays,
                    \/ CallbackFailed(p) \/ CallbackBegins(p)
                    \/ CallbackCommits(p) \/ CallbackRollsBack(p)
             PROVE  ArrearsInv'
  BY DEF CallbackStep
<1> USE DEF ArrearsInv, InArrears, GraceOver, TypeOK, subVars, payVars, RunState
<1>1. CASE CallbackFailed(p)
  BY <1>1 DEF CallbackFailed
<1>2. CASE CallbackBegins(p)
  BY <1>2 DEF CallbackBegins, Stored, ResultOk, PaymentState
<1>3. CASE CallbackCommits(p)
  <2>1. \A s \in Subs : \/ status'[s] = status[s] /\ graceLeft'[s] = graceLeft[s]
                       \/ status'[s] = "active"
    BY <1>3 DEF CallbackCommits
  <2>2. /\ row' = row /\ run' = run /\ daraja' = daraja /\ confirming' \subseteq confirming
        /\ \A q \in Pays : pay'[q] \in {pay[q], "success"}
    BY <1>3 DEF CallbackCommits
  <2>3. QED
    BY <2>1, <2>2
<1>4. CASE CallbackRollsBack(p)
  BY <1>4 DEF CallbackRollsBack
<1>5. QED
  BY <1>1, <1>2, <1>3, <1>4

\* The renewal run: only paid rows fall into arrears, and its second loop keeps to
\* rows whose grace period is over unless they were settled meanwhile.
LEMMA RunArrears == TypeOK /\ RunOK /\ ArrearsInv /\ RunStep => ArrearsInv'
<1> SUFFICES ASSUME TypeOK, RunOK, ArrearsInv, RunStep PROVE ArrearsInv'
  OBVIOUS
<1> USE DEF ArrearsInv, InArrears, GraceOver, TypeOK, RunOK, subVars, payVars, RunState,
            IdleRun, RowDone
<1>1. CASE StartRun
  BY <1>1 DEF StartRun, Due
<1>2. CASE SelectExpired
  BY <1>2 DEF SelectExpired, Expired
<1>3. CASE EndRun
  BY <1>3 DEF EndRun
<1>4. CASE AbortRun
  BY <1>4 DEF AbortRun
<1>5. CASE RenewStkStored
  BY <1>5 DEF RenewStkStored
<1>6. ASSUME NEW s \in Subs, MarkPastDue(s), row[s].paid, run.phase = "renew",
             confirming' = confirming, \A p \in confirming : daraja'[p] = "paid" /\ pay'[p] # "none"
      PROVE  ArrearsInv'
  <2>1. /\ \A t \in Subs : status'[t] \in {status[t], "past_due"}
        /\ \A t \in Subs \ {s} : status'[t] = status[t] /\ graceLeft'[t] = graceLeft[t]
    BY <1>6 DEF MarkPastDue
  <2>2. row' = row /\ run'.phase = "renew" /\ run'.rows \subseteq run.rows /\ run'.stk = NULL
    BY <1>6 DEF MarkPastDue
  <2>3. QED
    BY <1>6, <2>1, <2>2
<1>7. CASE RenewStkNotStored
  <2>1. \A p \in confirming : daraja'[p] = "paid" /\ pay'[p] # "none"
    BY <1>7 DEF RenewStkNotStored
  <2>2. QED
    BY <1>6, <1>7, <2>1 DEF RenewStkNotStored
<1>8. ASSUME NEW s \in Subs, RenewFree(s) PROVE ArrearsInv'
  BY <1>8 DEF RenewFree, Visits
<1>9. ASSUME NEW s \in Subs, InvoiceFails(s) PROVE ArrearsInv'
  BY <1>9 DEF InvoiceFails, Visits
<1>10. ASSUME NEW s \in Subs, RenewWithoutStk(s) PROVE ArrearsInv'
  BY <1>6, <1>10 DEF RenewWithoutStk, Visits
<1>11. ASSUME NEW s \in Subs, SuspendExpired(s) PROVE ArrearsInv'
  BY <1>11 DEF SuspendExpired
<1>12. ASSUME NEW s \in Subs, NEW p \in Pays, RenewStkRejected(s, p) PROVE ArrearsInv'
  <2>1. \A q \in confirming : daraja'[q] = "paid" /\ pay'[q] # "none"
    BY <1>12 DEF RenewStkRejected, StkRejected
  <2>2. QED
    BY <1>6, <1>12, <2>1 DEF RenewStkRejected, Visits
<1>13. ASSUME NEW s \in Subs, NEW p \in Pays, RenewStkAccepted(s, p) PROVE ArrearsInv'
  BY <1>13 DEF RenewStkAccepted, StkAccepted, Visits
<1>14. QED
  BY <1>1, <1>2, <1>3, <1>4, <1>5, <1>7, <1>8, <1>9, <1>10, <1>11, <1>12, <1>13 DEF RunStep

\* A day passes, or a customer answers: the rows in arrears stay the same.
LEMMA OtherArrears ==
  TypeOK /\ RunOK /\ ArrearsInv /\
    (NextDay \/ (\E p \in Pays : CustomerAnswers(p)) \/ UNCHANGED vars) => ArrearsInv'
<1> SUFFICES ASSUME TypeOK, RunOK, ArrearsInv,
                    NextDay \/ (\E p \in Pays : CustomerAnswers(p)) \/ UNCHANGED vars
             PROVE  ArrearsInv'
  OBVIOUS
<1> USE DEF ArrearsInv, InArrears, GraceOver, TypeOK, RunOK, subVars, payVars, RunState
<1>1. CASE NextDay
  BY <1>1 DEF NextDay
<1>2. CASE \E p \in Pays : CustomerAnswers(p)
  BY <1>2 DEF CustomerAnswers
<1>3. CASE UNCHANGED vars
  BY <1>3 DEF vars
<1>4. QED
  BY <1>1, <1>2, <1>3

\* What is known of rows in arrears holds in every reachable state of billing.
LEMMA ArrearsAlways == Spec => [](IInv /\ ArrearsInv)
<1>1. IInv /\ ArrearsInv /\ [Next]_vars => ArrearsInv'
  BY RequestArrears, CallbackArrears, RunArrears, OtherArrears DEF IInv, Next
<1>2. QED
  BY InitIInv, IInvStep, InitArrears, <1>1, PTL DEF Spec

\* A subscription in arrears gets active in one step only by the commit of a
\* callback: a renewal's UPDATE cannot reach it, whatever it read before.
LEMMA ArrearsStep ==
  ASSUME IInv, ArrearsInv, Next, NEW s \in Subs, InArrears(s), status'[s] = "active"
  PROVE  \E p \in Pays : /\ payOrg[p] = row[s].org
                         /\ daraja[p] = "paid"
                         /\ pay'[p] = "success"
<1> USE DEF IInv, TypeOK, InArrears
<1>a. status' # status
  OBVIOUS
<1>1. CASE RequestStep
  <2>1. ASSUME NEW c \in Clients, NEW t \in Subs, NEW paid \in BOOLEAN,
               NEW phone \in BOOLEAN, NEW skip \in BOOLEAN,
               InsertSubscription(c, t, paid, phone, skip)
        PROVE  FALSE
    BY <2>1 DEF InsertSubscription
  <2>2. ASSUME NEW o \in Orgs, CancelSubscription(o) \/ ReactivateSubscription(o) PROVE FALSE
    BY <2>2 DEF CancelSubscription, ReactivateSubscription, Reactivable
  <2>3. QED
    BY <1>1, <1>a, <2>1, <2>2 DEF RequestStep, CheckNoSubscription, InsertFails,
         InitiatePayment, StorePayment, LosePayment, subVars
<1>2. CASE CallbackStep
  <2>1. PICK p \in Pays : CallbackCommits(p)
    BY <1>2, <1>a DEF CallbackStep, CallbackFailed, CallbackBegins, CallbackRollsBack, subVars
  <2>2. s \in Confirmed(p)
    BY <2>1 DEF CallbackCommits
  <2>3. payOrg[p] = row[s].org /\ daraja[p] = "paid" /\ pay'[p] = "success"
    BY <2>1, <2>2 DEF CallbackCommits, Confirmed, Live, ArrearsInv
  <2>4. QED
    BY <2>3
<1>3. CASE RunStep
  <2>1. ASSUME NEW t \in Subs, RenewFree(t) PROVE FALSE
    BY <2>1 DEF RenewFree, ArrearsInv
  <2>2. ASSUME NEW t \in Subs, SuspendExpired(t) \/ MarkPastDue(t) PROVE FALSE
    BY <2>2 DEF SuspendExpired, MarkPastDue
  <2>3. ~RenewStkNotStored
    BY <2>2 DEF RenewStkNotStored, RunOK, RunState
  <2>4. QED
    BY <1>3, <1>a, <2>1, <2>2, <2>3 DEF RunStep, StartRun, SelectExpired, EndRun, AbortRun,
         RenewStkStored, InvoiceFails, RenewWithoutStk, RenewStkRejected,
         RenewStkAccepted, subVars
<1>4. CASE NextDay \/ (\E p \in Pays : CustomerAnswers(p))
  BY <1>4, <1>a DEF NextDay, CustomerAnswers, subVars
<1>5. QED
  BY <1>1, <1>2, <1>3, <1>4 DEF Next

\* The arrears of a subscription are settled only by a payment that the customer
\* made and that the same transaction records.
THEOREM ArrearsSettledByPayment == Spec => LeavesArrearsOnlyByPayment
<1> DEFINE Settled == \A s \in Subs :
             status[s] \in {"past_due", "suspended"} /\ status'[s] = "active"
               => \E p \in Pays : /\ payOrg[p] = row[s].org
                                  /\ daraja[p] = "paid"
                                  /\ pay'[p] = "success"
<1>1. IInv /\ ArrearsInv /\ [Next]_vars => [Settled]_vars
  BY ArrearsStep DEF InArrears
<1>2. QED
  BY <1>1, ArrearsAlways, PTL DEF Spec, LeavesArrearsOnlyByPayment

\* Only the grace-period loop suspends, and not before the grace is over.
LEMMA GraceStep ==
  ASSUME IInv, ArrearsInv, Next, NEW s \in Subs,
         status[s] = "past_due", status'[s] = "suspended"
  PROVE  GraceOver(s)
<1> USE DEF IInv, TypeOK
<1>a. status' # status
  OBVIOUS
<1>1. CASE RequestStep
  BY <1>1, <1>a DEF RequestStep, CheckNoSubscription, InsertSubscription, InsertFails,
       CancelSubscription, ReactivateSubscription, Reactivable, InitiatePayment,
       StorePayment, LosePayment, subVars
<1>2. CASE CallbackStep
  BY <1>2, <1>a DEF CallbackStep, CallbackFailed, CallbackBegins, CallbackCommits,
       CallbackRollsBack, subVars
<1>3. CASE RunStep
  <2>1. ASSUME NEW t \in Subs, RenewFree(t) \/ MarkPastDue(t) PROVE FALSE
    BY <2>1 DEF RenewFree, MarkPastDue
  <2>2. ~RenewStkNotStored
    BY <2>1 DEF RenewStkNotStored, RunOK, RunState
  <2>3. PICK t \in Subs : SuspendExpired(t)
    BY <1>3, <1>a, <2>1, <2>2 DEF RunStep, StartRun, SelectExpired, EndRun, AbortRun,
         RenewStkStored, InvoiceFails, RenewWithoutStk, RenewStkRejected,
         RenewStkAccepted, subVars
  <2>4. t = s
    BY <2>3 DEF SuspendExpired
  <2>5. QED
    BY <2>3, <2>4 DEF SuspendExpired, ArrearsInv
<1>4. CASE NextDay \/ (\E p \in Pays : CustomerAnswers(p))
  BY <1>4, <1>a DEF NextDay, CustomerAnswers, subVars
<1>5. QED
  BY <1>1, <1>2, <1>3, <1>4 DEF Next

\* A past-due subscription is not suspended before its grace period is over,
\* although the loop acts on rows that a SELECT read some steps earlier.
THEOREM GraceIsHonoured == Spec => GraceHonoured
<1> DEFINE Honoured == \A s \in Subs :
             status[s] = "past_due" /\ status'[s] = "suspended"
               => graceLeft[s] # NULL /\ graceLeft[s] < 0
<1>1. IInv /\ ArrearsInv /\ [Next]_vars => [Honoured]_vars
  BY GraceStep DEF GraceOver
<1>2. QED
  BY <1>1, ArrearsAlways, PTL DEF Spec, GraceHonoured

-----------------------------------------------------------------------------
(* Billing implements one seat per organisation.                           *)

\* A row has an organisation from the INSERT on, and none before.
RowInv == \A s \in Subs : IF status[s] = "none" THEN row[s] = NoRow ELSE row[s] \in Row

\* The columns an INSERT fixes stay as they are, in every step of billing.
LEMMA RowStep == IInv /\ ArrearsInv /\ RowInv /\ [Next]_vars => RowInv'
<1> SUFFICES ASSUME IInv, ArrearsInv, RowInv, [Next]_vars PROVE RowInv'
  OBVIOUS
<1> USE DEF IInv, TypeOK
<1>a. row' = row /\ (\A s \in Subs : status'[s] = "none" <=> status[s] = "none") => RowInv'
  BY DEF RowInv
<1>1. CASE RequestStep
  <2>1. ASSUME NEW c \in Clients, NEW s \in Subs, NEW paid \in BOOLEAN,
               NEW phone \in BOOLEAN, NEW skip \in BOOLEAN,
               InsertSubscription(c, s, paid, phone, skip)
        PROVE  RowInv'
    <3>1. creating[c] \in Orgs
      BY <2>1 DEF InsertSubscription
    <3>2. row'[s] \in Row /\ status'[s] # "none"
      BY <2>1, <3>1 DEF InsertSubscription, Row
    <3>3. \A t \in Subs \ {s} : row'[t] = row[t] /\ status'[t] = status[t]
      BY <2>1 DEF InsertSubscription
    <3>4. QED
      BY <3>2, <3>3 DEF RowInv
  <2>2. ASSUME NEW o \in Orgs, CancelSubscription(o) \/ ReactivateSubscription(o) PROVE RowInv'
    BY <2>2, <1>a DEF CancelSubscription, ReactivateSubscription, Reactivable, Live, IsLive,
         SubscriptionStatus
  <2>3. QED
    BY <1>1, <1>a, <2>1, <2>2 DEF RequestStep, CheckNoSubscription, InsertFails,
         InitiatePayment, StorePayment, LosePayment, subVars
<1>2. CASE CallbackStep
  BY <1>2, <1>a DEF CallbackStep, CallbackFailed, CallbackBegins, CallbackCommits,
       CallbackRollsBack, Confirmed, Live, IsLive, SubscriptionStatus, subVars
<1>3. CASE RunStep
  <2>1. ASSUME NEW s \in Subs, s \in run.rows,
               RenewFree(s) \/ SuspendExpired(s) \/ MarkPastDue(s)
        PROVE  RowInv'
    BY <2>1, <1>a DEF RenewFree, SuspendExpired, MarkPastDue, ArrearsInv
  <2>2. CASE RenewStkNotStored
    BY <2>1, <2>2 DEF RenewStkNotStored, RunOK, RunState
  <2>3. ASSUME NEW s \in Subs, RenewFree(s) \/ SuspendExpired(s) PROVE s \in run.rows
    BY <2>3 DEF RenewFree, SuspendExpired, Visits
  <2>4. ASSUME NEW s \in Subs, RenewWithoutStk(s) \/ \E p \in Pays : RenewStkRejected(s, p)
        PROVE  s \in run.rows /\ MarkPastDue(s)
    BY <2>4 DEF RenewWithoutStk, RenewStkRejected, Visits
  <2>5. QED
    BY <1>3, <1>a, <2>1, <2>2, <2>3, <2>4 DEF RunStep, StartRun, SelectExpired, EndRun,
         AbortRun, RenewStkStored, InvoiceFails, RenewStkAccepted, subVars
<1>4. CASE NextDay \/ (\E p \in Pays : CustomerAnswers(p)) \/ UNCHANGED vars
  BY <1>4, <1>a DEF NextDay, CustomerAnswers, vars, subVars
<1>5. QED
  BY <1>1, <1>2, <1>3, <1>4 DEF Next

\* An UPDATE the index lets through leaves the seats alone or takes a free one.
LEMMA SeatIndexed ==
  ASSUME IInv, RowInv, NEW s \in Subs, status[s] # "none", IndexAllows(s), row' = row,
         NEW st \in SubscriptionStatus \ {"cancelled"},
         status' = [status EXCEPT ![s] = st]
  PROVE  Seat!SeatNext \/ UNCHANGED Seat!seatVars
<1> DEFINE o == row[s].org
<1>1. o \in Orgs
  BY DEF RowInv, Row
<1>2. /\ IsLive(s)'
      /\ \A t \in Subs \ {s} : IsLive(t)' <=> IsLive(t)
  BY DEF IsLive, IInv, TypeOK
<1>3. Live(o)' = {s}
  BY <1>2 DEF IndexAllows, Live
<1>4. \A q \in Orgs \ {o} : Live(q)' = Live(q)
  BY <1>2 DEF Live
<1>5. CASE IsLive(s)
  BY <1>5, <1>3, <1>4 DEF Seat!seatVars, IndexAllows, Live
<1>6. CASE ~IsLive(s)
  <2>1. Live(o) = {}
    BY <1>6 DEF IndexAllows, Live
  <2>2. Seat!TakeSeat(o, s)
    BY <1>1, <1>3, <1>4, <2>1 DEF Seat!TakeSeat
  <2>3. QED
    BY <1>1, <2>2 DEF Seat!SeatNext
<1>7. QED
  BY <1>5, <1>6

\* Every step of billing is a step of the seats, or none of them changes.
LEMMA SeatStep ==
  IInv /\ ArrearsInv /\ RowInv /\ [Next]_vars => Seat!SeatNext \/ UNCHANGED Seat!seatVars
<1> SUFFICES ASSUME IInv, ArrearsInv, RowInv, [Next]_vars
             PROVE  Seat!SeatNext \/ UNCHANGED Seat!seatVars
  OBVIOUS
<1> USE DEF IInv, TypeOK
<1>a. ASSUME row' = row, \A s \in Subs : IsLive(s)' <=> IsLive(s)
      PROVE  UNCHANGED Seat!seatVars
  BY <1>a DEF Seat!seatVars, Live
<1>b. row' = row /\ status' = status => UNCHANGED Seat!seatVars
  BY <1>a DEF IsLive
<1>1. CASE RequestStep
  <2>1. ASSUME NEW c \in Clients, NEW s \in Subs, NEW paid \in BOOLEAN,
               NEW phone \in BOOLEAN, NEW skip \in BOOLEAN,
               InsertSubscription(c, s, paid, phone, skip)
        PROVE  Seat!SeatNext
    <3>0. PICK o \in Orgs : o = creating[c]
      BY <2>1 DEF InsertSubscription
    <3>1. o \in Orgs /\ Live(o) = {} /\ row[s].org = NULL
      BY <2>1, <3>0 DEF InsertSubscription, InsertGuard, RowInv, NoRow
    <3>2. /\ \A t \in Subs \ {s} : row'[t] = row[t] /\ (IsLive(t)' <=> IsLive(t))
          /\ IsLive(s)' /\ row'[s].org = o /\ ~IsLive(s)
      BY <2>1, <3>0 DEF InsertSubscription, IsLive, SubscriptionStatus
    <3>3. Live(o)' = {s} /\ \A q \in Orgs \ {o} : Live(q)' = Live(q)
      BY <3>1, <3>2 DEF Live
    <3>4. Seat!TakeSeat(o, s)
      BY <3>1, <3>2, <3>3 DEF Seat!TakeSeat
    <3>5. QED
      BY <3>1, <3>4 DEF Seat!SeatNext
  <2>2. ASSUME NEW o \in Orgs, CancelSubscription(o) PROVE Seat!SeatNext
    <3>1. \A s \in Subs : IsLive(s)' <=> IsLive(s) /\ s \notin Live(o)
      BY <2>2 DEF CancelSubscription, IsLive, SubscriptionStatus
    <3>2. Live(o) # {} /\ row' = row
      BY <2>2 DEF CancelSubscription
    <3>3. Live(o)' = {} /\ \A q \in Orgs \ {o} : Live(q)' = Live(q)
      BY <3>1, <3>2 DEF Live
    <3>4. Seat!LeaveSeat(o)
      BY <3>2, <3>3 DEF Seat!LeaveSeat
    <3>5. QED
      BY <3>4 DEF Seat!SeatNext
  <2>3. ASSUME NEW o \in Orgs, ReactivateSubscription(o)
        PROVE  Seat!SeatNext \/ UNCHANGED Seat!seatVars
    BY <2>3, SeatIndexed DEF ReactivateSubscription, Reactivable, SubscriptionStatus
  <2>4. QED
    BY <1>1, <1>b, <2>1, <2>2, <2>3 DEF RequestStep, CheckNoSubscription, InsertFails,
         InitiatePayment, StorePayment, LosePayment, subVars
<1>2. CASE CallbackStep
  <2>1. ASSUME NEW p \in Pays, CallbackCommits(p) PROVE UNCHANGED Seat!seatVars
    <3>1. \A s \in Subs : IsLive(s)' <=> IsLive(s)
      BY <2>1 DEF CallbackCommits, Confirmed, Live, IsLive, SubscriptionStatus
    <3>2. QED
      BY <2>1, <3>1, <1>a DEF CallbackCommits
  <2>2. QED
    BY <1>2, <1>b, <2>1 DEF CallbackStep, CallbackFailed, CallbackBegins,
         CallbackRollsBack, subVars
<1>3. CASE RunStep
  <2>1. ASSUME NEW s \in Subs, s \in run.rows,
               RenewFree(s) \/ SuspendExpired(s) \/ MarkPastDue(s)
        PROVE  Seat!SeatNext \/ UNCHANGED Seat!seatVars
    <3>1. status[s] # "none"
      BY <2>1 DEF ArrearsInv
    <3>2. QED
      BY <2>1, <3>1, SeatIndexed DEF RenewFree, SuspendExpired, SuspendGuard, MarkPastDue,
           SubscriptionStatus
  <2>2. CASE RenewStkNotStored
    BY <2>1, <2>2 DEF RenewStkNotStored, RunOK, RunState
  <2>3. ASSUME NEW s \in Subs, RenewFree(s) \/ SuspendExpired(s) PROVE s \in run.rows
    BY <2>3 DEF RenewFree, SuspendExpired, Visits
  <2>4. ASSUME NEW s \in Subs, RenewWithoutStk(s) \/ \E p \in Pays : RenewStkRejected(s, p)
        PROVE  s \in run.rows /\ MarkPastDue(s)
    BY <2>4 DEF RenewWithoutStk, RenewStkRejected, Visits
  <2>5. QED
    BY <1>3, <1>b, <2>1, <2>2, <2>3, <2>4 DEF RunStep, StartRun, SelectExpired, EndRun,
         AbortRun, RenewStkStored, InvoiceFails, RenewStkAccepted, subVars
<1>4. CASE NextDay \/ (\E p \in Pays : CustomerAnswers(p)) \/ UNCHANGED vars
  BY <1>4, <1>b DEF NextDay, CustomerAnswers, vars, subVars
<1>5. QED
  BY <1>1, <1>2, <1>3, <1>4 DEF Next

\* Billing implements SubscriptionSeat: for any number of organisations, rows and
\* requests, seats are taken while empty and a row keeps its organisation.
THEOREM ImplementsSeat == Spec => OneSeat
<1>1. Init => Seat!SeatInit /\ RowInv
  BY DEF Init, Seat!SeatInit, Live, IsLive, SubscriptionStatus, RowInv, NoRow
<1>2. QED
  BY <1>1, SeatStep, RowStep, ArrearsAlways, PTL DEF Spec, OneSeat, Seat!SeatSpec
=============================================================================
