---------------------------- MODULE MpesaWebhook ----------------------------
(***************************************************************************)
(* Billing as it is deployed: Safaricom's callbacks reach                  *)
(* POST /api/v1/webhooks/mpesa (webhook/mpesa.rs), and no handler but that *)
(* one hears of them. The steps of module Billing that stand for           *)
(* process_stk_callback are not part of Next here: handle_mpesa_callback   *)
(* stores the event, publishes it on the bus and acknowledges.             *)
(***************************************************************************)
EXTENDS Billing

CONSTANT PasskeySet      \* MPESA_PASSKEY is configured

VARIABLES acked,     \* checkouts whose callback was answered with ResultCode 0
          events,    \* event_id column of webhook_events, one id per checkout
          published  \* checkouts published on the module bus

webhookVars == <<acked, events, published>>
allVars == <<vars, acked, events, published>>

WebhookInit == Init /\ acked = {} /\ events = {} /\ published = {}

\* store_webhook_event: event_id is UNIQUE, so a repeated callback adds no row;
\* any other database error is ignored by the handler as well.
StoreEvent(p) == events' = events \cup {p} \/ UNCHANGED events

Acknowledge(p) == acked' = acked \cup {p}

Answered(p) == daraja[p] \in {"paid", "declined"}

CallbackRejected(p) ==
  /\ Answered(p) /\ ~PasskeySet
  /\ UNCHANGED <<vars, webhookVars>>

HandleDeclined(p) ==
  /\ PasskeySet /\ daraja[p] = "declined"
  /\ StoreEvent(p)
  /\ Acknowledge(p)
  /\ UNCHANGED <<vars, published>>

\* A successful callback without metadata is acknowledged and dropped.
HandlePaidNoMetadata(p) ==
  /\ PasskeySet /\ daraja[p] = "paid"
  /\ Acknowledge(p)
  /\ UNCHANGED <<vars, events, published>>

HandlePaid(p) ==
  /\ PasskeySet /\ daraja[p] = "paid"
  /\ StoreEvent(p)
  /\ published' = published \cup {p}
  /\ Acknowledge(p)
  /\ UNCHANGED vars

HandleMpesaCallback(p) == \/ CallbackRejected(p) \/ HandleDeclined(p)
                          \/ HandlePaidNoMetadata(p) \/ HandlePaid(p)

\* billing/mod.rs and the scheduler; not CallbackStep, which nothing calls.
BillingStep == \/ RequestStep \/ RunStep \/ NextDay
               \/ \E p \in Pays : CustomerAnswers(p)

WebhookNext == \/ BillingStep /\ UNCHANGED webhookVars
               \/ \E p \in Pays : HandleMpesaCallback(p)

WebhookSpec == WebhookInit /\ [][WebhookNext]_allVars

\* Safaricom delivers the result of a checkout; days pass, the renewal run is
\* called daily and a handler that was started goes on.
WebhookFairness ==
  /\ Fairness
  /\ \A p \in Pays : WF_allVars(HandleMpesaCallback(p)) /\ WF_vars(StorePayment(p))

FairWebhookSpec == WebhookSpec /\ WebhookFairness

\* "Backend confirms payment, activates/renews subscription" (mpesa.rs:12): the
\* payment of a stored checkout that the customer paid is recorded as success,
\* as long as the organisation keeps a subscription to renew.
PaidIsConfirmed ==
  \A p \in Pays :
    <>[](daraja[p] = "paid" /\ Stored(p) /\ Live(payOrg[p]) # {})
      => <>(pay[p] = "success")
=============================================================================
