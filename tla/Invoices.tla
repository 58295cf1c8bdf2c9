-------------------------------- MODULE Invoices --------------------------------
(***************************************************************************)
(* billing/invoice.rs: an invoice takes the number after a COUNT, which is  *)
(* read before the INSERT; payments and the daily overdue run go on beside  *)
(* it. Each call reads the clock before the statement that uses it: days    *)
(* may pass, and other calls end, between the two.                          *)
(***************************************************************************)
EXTENDS Integers, FiniteSets, Sequences, SequencesExt

CONSTANTS
  Creator,        \* calls of create_invoice that overlap
  Receipt,        \* payments, by their receipts
  DaysToPay,      \* 7
  YearDays,       \* days of a year
  MaxDay, MaxInvoices   \* bounds

InvoiceAssumption == DaysToPay \in Nat /\ YearDays \in Nat \ {0}
                     /\ MaxDay \in Nat /\ MaxInvoices \in Nat
                     /\ "none" \notin Receipt

VARIABLES
  invoices,       \* the table, in the order of the INSERTs
  issuedOn,          \* the day each call of create_invoice read first, or NotYet
  creating,       \* the number it has made of the COUNT; NotCreating before
  paying,         \* what each payment marks as paid, and the day it read; or NotPaying
  overdueAsOf,    \* the day an overdue run has read; NotYet between runs
  lastRun,        \* history: the day of the last run, and how many invoices it saw
  day

invoiceVars == <<invoices, issuedOn, creating, paying, overdueAsOf, lastRun, day>>

NotYet == -1
NotCreating == [year |-> -1, seq |-> 0]
NotPaying == [invoice |-> 0, at |-> NotYet]
Year(d) == d \div YearDays

InvoiceInit ==
  /\ invoices = <<>> /\ day = 0
  /\ issuedOn = [c \in Creator |-> NotYet] /\ creating = [c \in Creator |-> NotCreating]
  /\ paying = [r \in Receipt |-> NotPaying]
  /\ overdueAsOf = NotYet /\ lastRun = [asOf |-> 0, seen |-> 0]

\* create_invoice reads the day from which the invoice is due.
BeginInvoice(c) ==
  /\ issuedOn[c] = NotYet /\ issuedOn' = [issuedOn EXCEPT ![c] = day]
  /\ UNCHANGED <<invoices, creating, paying, overdueAsOf, lastRun, day>>

\* generate_invoice_number reads the clock again for the year, then
\* SELECT COUNT(*) of the numbers of that year.
CountOfAll(y) == Len(invoices)                                                 \* fault
CountOf(y) == Cardinality({i \in DOMAIN invoices : invoices[i].number.year = y})
CountInvoices(c) ==
  /\ issuedOn[c] # NotYet /\ creating[c] = NotCreating
  /\ \E y \in Year(issuedOn[c])..Year(day) :
       creating' = [creating EXCEPT ![c] = [year |-> y, seq |-> CountOf(y) + 1]]
  /\ UNCHANGED <<invoices, issuedOn, paying, overdueAsOf, lastRun, day>>

\* invoice_number is UNIQUE: the INSERT fails, and the call with it, if another
\* has taken the number since.
TakenIsAllowed(number) == TRUE                                                 \* fault
NumberIsFree(number) == \A i \in DOMAIN invoices : invoices[i].number # number
InsertInvoice(c) ==
  /\ creating[c] # NotCreating /\ Len(invoices) < MaxInvoices
  /\ NumberIsFree(creating[c])
  /\ invoices' = Append(invoices, [number |-> creating[c], status |-> "issued",
                                   due |-> issuedOn[c] + DaysToPay, mpesa_receipt |-> "none",
                                   settledBy |-> "none", paid_at |-> NotYet])
  /\ creating' = [creating EXCEPT ![c] = NotCreating] /\ issuedOn' = [issuedOn EXCEPT ![c] = NotYet]
  /\ UNCHANGED <<paying, overdueAsOf, lastRun, day>>

CreationFails(c) ==
  /\ issuedOn[c] # NotYet
  /\ creating' = [creating EXCEPT ![c] = NotCreating] /\ issuedOn' = [issuedOn EXCEPT ![c] = NotYet]
  /\ UNCHANGED <<invoices, paying, overdueAsOf, lastRun, day>>

\* mark_invoice_paid reads the clock.
BeginPayment(r, i) ==
  /\ paying[r] = NotPaying /\ paying' = [paying EXCEPT ![r] = [invoice |-> i, at |-> day]]
  /\ UNCHANGED <<invoices, issuedOn, creating, overdueAsOf, lastRun, day>>

\* WHERE status NOT IN ('paid', 'void'): a repeat is no error, and changes nothing.
\* `settledBy` is a history of the payment that was first.
Unpaid(invoice) == invoice.status # "paid"
MarkInvoicePaid(r) ==
  /\ paying[r] # NotPaying
  /\ LET i == paying[r].invoice
         paid == [invoices[i] EXCEPT !.status = "paid", !.mpesa_receipt = r,
                                     !.paid_at = paying[r].at,
                                     !.settledBy = IF @ = "none" THEN r ELSE @]
     IN invoices' = IF Unpaid(invoices[i]) THEN [invoices EXCEPT ![i] = paid] ELSE invoices
  /\ paying' = [paying EXCEPT ![r] = NotPaying]
  /\ UNCHANGED <<issuedOn, creating, overdueAsOf, lastRun, day>>

PaymentFails(r) ==
  /\ paying[r] # NotPaying /\ paying' = [paying EXCEPT ![r] = NotPaying]
  /\ UNCHANGED <<invoices, issuedOn, creating, overdueAsOf, lastRun, day>>

\* process_overdue_invoices, once a day: reads the clock, then one UPDATE.
BeginOverdueRun ==
  /\ overdueAsOf = NotYet /\ overdueAsOf' = day
  /\ UNCHANGED <<invoices, issuedOn, creating, paying, lastRun, day>>

Overdue(invoice) == invoice.status = "issued" /\ invoice.due < overdueAsOf
ProcessOverdueInvoices ==
  /\ overdueAsOf # NotYet
  /\ invoices' = [i \in DOMAIN invoices |-> IF Overdue(invoices[i])
                                            THEN [invoices[i] EXCEPT !.status = "overdue"]
                                            ELSE invoices[i]]
  /\ lastRun' = [asOf |-> overdueAsOf, seen |-> Len(invoices)]
  /\ overdueAsOf' = NotYet
  /\ UNCHANGED <<issuedOn, creating, paying, day>>

OverdueRunFails ==
  /\ overdueAsOf # NotYet /\ overdueAsOf' = NotYet
  /\ UNCHANGED <<invoices, issuedOn, creating, paying, lastRun, day>>

PassDay ==
  /\ day < MaxDay /\ day' = day + 1
  /\ UNCHANGED <<invoices, issuedOn, creating, paying, overdueAsOf, lastRun>>

InvoiceNext ==
  \/ \E c \in Creator : BeginInvoice(c) \/ CountInvoices(c) \/ InsertInvoice(c) \/ CreationFails(c)
  \/ \E r \in Receipt : \E i \in DOMAIN invoices : BeginPayment(r, i)
  \/ \E r \in Receipt : MarkInvoicePaid(r) \/ PaymentFails(r)
  \/ BeginOverdueRun \/ ProcessOverdueInvoices \/ OverdueRunFails \/ PassDay

InvoiceSpec == InvoiceInit /\ [][InvoiceNext]_invoiceVars

-----------------------------------------------------------------------------
\* The numbers of a year are 1, 2, 3 and so on in the order of the INSERTs.
NumberedWithoutGap ==
  \A i \in DOMAIN invoices :
    invoices[i].number.seq =
      Cardinality({j \in 1..i : invoices[j].number.year = invoices[i].number.year})

\* The payment that was first stays, whatever waits with another receipt or takes
\* the invoice for overdue; its day is not before that of the invoice.
FirstPaymentStays ==
  \A i \in DOMAIN invoices :
    LET invoice == invoices[i]
    IN /\ invoice.mpesa_receipt = invoice.settledBy
       /\ (invoice.status = "paid") = (invoice.settledBy # "none")
       /\ invoice.status = "paid" => invoice.due - DaysToPay <= invoice.paid_at

\* Of the invoices the last run saw, none waits for payment past its due date.
OverdueInTime ==
  \A i \in 1..lastRun.seen : invoices[i].status = "issued" => invoices[i].due >= lastRun.asOf

\* All of it however calls overlap, over the turn of a year too, and whichever of
\* them fail.
InvoicesSound == NumberedWithoutGap /\ FirstPaymentStays /\ OverdueInTime
=============================================================================
