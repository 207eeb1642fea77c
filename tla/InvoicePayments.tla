-------------------------- MODULE InvoicePayments --------------------------
(***************************************************************************)
(* How money reaches a fee invoice: the Paystack checkout, the Paystack    *)
(* webhook, the manual payment desk, and the refresh of the invoice's      *)
(* totals that the last two share.                                         *)
(*                                                                         *)
(* A request handler is a process. Each of its awaits on the database or   *)
(* on Paystack is a step, because the statements between two awaits are    *)
(* not in a transaction: another handler may run in between, and the       *)
(* process may die or the awaited call may throw.                          *)
(*                                                                         *)
(* An invoice's amountPaid is the sum of a set of payment rows; the model  *)
(* keeps that set (counted), so that it can say WHICH payments a total     *)
(* takes in. amountDue is fixed when the invoice is generated: no handler  *)
(* writes it again.                                                        *)
(***************************************************************************)
EXTENDS Naturals, FiniteSets, FiniteSetsExt

CONSTANTS
    Invoices,       \* fee invoices, already generated
    References,     \* payment references, Paystack's and the desk's alike
    DeskReferences, \* the references the desk may type in
    MaxAmount,      \* bound: no payment is larger than this
    Due,            \* amountDue of each invoice
    HasGuardian,    \* invoices whose primary guardian has a phone number
    Procs,          \* bound: requests the server works on at a time
    MaxCrashes,     \* bound: handlers that die half way
    NoRow           \* "no request in hand"

Amounts  == 1..MaxAmount
Channels == {"PAYSTACK", "MANUAL"}
Statuses == {"PENDING", "PARTIAL", "PAID", "OVERDUE", "WAIVED"}

PaymentRow ==
    [reference : References, invoice : Invoices, amount : Amounts, channel : Channels]

ASSUME PaymentAssumptions ==
    /\ MaxAmount \in Nat
    /\ Due \in [Invoices -> Nat]
    /\ HasGuardian \subseteq Invoices
    /\ DeskReferences \subseteq References
    /\ MaxCrashes \in Nat
    /\ NoRow \notin PaymentRow

VARIABLES
    payments,   \* the payments table: a set of PaymentRow
    invoices,   \* [Invoices -> [counted, status]], the columns that change
    pastDue,    \* [Invoices -> BOOLEAN]: the due date is before now
    charges,    \* Paystack's transactions: [row, paid, acked]
    pc,         \* the await each handler is about to make, "idle" if none
    row,        \* the payment each handler is about
    seen,       \* the payment rows its refresh read
    verdict,    \* the status its refresh computed
    receipts,   \* [References -> Nat]: receipt messages sent
    crashes     \* handlers that died so far

handlers == <<pc, row, seen, verdict>>
vars == <<payments, invoices, pastDue, charges, handlers, receipts, crashes>>

Stages == {"idle", "paystack_init", "webhook_lookup", "create",
           "refresh_read", "refresh_write", "receipt", "respond"}

Charge == [row : PaymentRow, paid : BOOLEAN, acked : BOOLEAN]

----------------------------------------------------------------------------
(* The arithmetic of an invoice. *)

Total(rows) == MapThenSumSet(LAMBDA r : r.amount, rows)

\* Faulty variants of RecomputeStatus: a status the column cannot hold; a unit
\* short of the fee counts as paid.
RecomputeStatusOverpaid(due, paid, past) ==
    IF due = 0 THEN "WAIVED"
    ELSE IF paid > due THEN "OVERPAID"
    ELSE IF paid = due THEN "PAID"
    ELSE IF paid > 0 THEN "PARTIAL"
    ELSE IF past THEN "OVERDUE" ELSE "PENDING"

RecomputeStatusOffByOne(due, paid, past) ==
    IF due = 0 THEN "WAIVED"
    ELSE IF paid + 1 >= due THEN "PAID"
    ELSE IF paid > 0 THEN "PARTIAL"
    ELSE IF past THEN "OVERDUE" ELSE "PENDING"

\* lib/finance.ts recomputeInvoiceStatus: the first of its returns that applies.
RecomputeStatus(due, paid, past) ==
    IF due = 0 THEN "WAIVED"
    ELSE IF paid >= due THEN "PAID"
    ELSE IF paid > 0 THEN "PARTIAL"
    ELSE IF past THEN "OVERDUE" ELSE "PENDING"

AmountPaid(i) == Total(invoices[i].counted)

\* max(0, amountDue - amountPaid)
Balance(i) == IF AmountPaid(i) >= Due[i] THEN 0 ELSE Due[i] - AmountPaid(i)

Posted(i) == {r \in payments : r.invoice = i}

\* Payment.reference is a unique column.
ReferenceFree(ref) == \A r \in payments : r.reference # ref

----------------------------------------------------------------------------
Init ==
    /\ payments = {}
    /\ pastDue \in [Invoices -> BOOLEAN]
    /\ invoices = [i \in Invoices |->
                     [counted |-> {}, status |-> RecomputeStatus(Due[i], Total({}), pastDue[i])]]
    /\ charges = {}
    /\ pc = [p \in Procs |-> "idle"]
    /\ row = [p \in Procs |-> NoRow]
    /\ seen = [p \in Procs |-> {}]
    /\ verdict = [p \in Procs |-> "PENDING"]
    /\ receipts = [ref \in References |-> 0]
    /\ crashes = 0

\* A handler takes up a request about payment r; its first await is at stage.
Begin(p, r, stage) ==
    /\ pc[p] = "idle"
    /\ pc' = [pc EXCEPT ![p] = stage]
    /\ row' = [row EXCEPT ![p] = r]
    /\ UNCHANGED <<seen, verdict>>

GoTo(p, stage) ==
    /\ pc' = [pc EXCEPT ![p] = stage]
    /\ UNCHANGED <<row, seen, verdict>>

\* The handler answers, or dies: nothing it read survives.
Finish(p) ==
    /\ pc' = [pc EXCEPT ![p] = "idle"]
    /\ row' = [row EXCEPT ![p] = NoRow]
    /\ seen' = [seen EXCEPT ![p] = {}]
    /\ verdict' = [verdict EXCEPT ![p] = "PENDING"]

----------------------------------------------------------------------------
(* POST /api/payments/initialize *)

\* Reads the invoice, refuses a settled one or an amount above the balance,
\* and makes up a reference from the clock.
InitializeRead(p, i, ref, amount) ==
    /\ invoices[i].status # "PAID"
    /\ Balance(i) > 0
    /\ amount <= Balance(i)
    /\ ReferenceFree(ref)
    /\ \A c \in charges : c.row.reference # ref
    /\ Begin(p, [reference |-> ref, invoice |-> i, amount |-> amount,
                 channel |-> "PAYSTACK"], "paystack_init")
    /\ UNCHANGED <<payments, invoices, pastDue, charges, receipts, crashes>>

\* Paystack opens the transaction, unless it already has the reference.
PaystackAccepts(p) ==
    /\ pc[p] = "paystack_init"
    /\ \A c \in charges : c.row.reference # row[p].reference
    /\ charges' = charges \cup {[row |-> row[p], paid |-> FALSE, acked |-> FALSE]}
    /\ Finish(p)
    /\ UNCHANGED <<payments, invoices, pastDue, receipts, crashes>>

\* Paystack refuses or cannot be reached: 502.
PaystackRefuses(p) ==
    /\ pc[p] = "paystack_init"
    /\ Finish(p)
    /\ UNCHANGED <<payments, invoices, pastDue, charges, receipts, crashes>>

----------------------------------------------------------------------------
(* Paystack itself, as the webhook relies on it. *)

\* The parent completes the checkout page.
CustomerPays(c) ==
    /\ ~c.paid
    /\ charges' = (charges \ {c}) \cup {[c EXCEPT !.paid = TRUE]}
    /\ UNCHANGED <<payments, invoices, pastDue, handlers, receipts, crashes>>

\* charge.success is posted to the webhook; Paystack may post it again at any
\* time, answered or not, and several deliveries may be in progress.
DeliverWebhook(p, c) ==
    /\ c.paid
    /\ Begin(p, c.row, "webhook_lookup")
    /\ UNCHANGED <<payments, invoices, pastDue, charges, receipts, crashes>>

\* A 2xx answer: Paystack stops retrying this charge.
Acknowledged(ref) ==
    {IF c.row.reference = ref THEN [c EXCEPT !.acked = TRUE] ELSE c : c \in charges}

----------------------------------------------------------------------------
(* POST /api/webhooks/paystack *)

\* Faulty variant: answers 2xx first and does the work afterwards.
WebhookAckFirst(p) ==
    /\ pc[p] = "webhook_lookup"
    /\ charges' = Acknowledged(row[p].reference)
    /\ IF ReferenceFree(row[p].reference) THEN GoTo(p, "create") ELSE Finish(p)
    /\ UNCHANGED <<payments, invoices, pastDue, receipts, crashes>>

\* A reference already in the table is a duplicate delivery: answered at once.
WebhookLookup(p) ==
    /\ pc[p] = "webhook_lookup"
    /\ \/ /\ ReferenceFree(row[p].reference)
          /\ GoTo(p, "create")
          /\ UNCHANGED charges
       \/ /\ ~ReferenceFree(row[p].reference)
          /\ charges' = Acknowledged(row[p].reference)
          /\ Finish(p)
    /\ UNCHANGED <<payments, invoices, pastDue, receipts, crashes>>

----------------------------------------------------------------------------
(* POST /api/payments/record *)

\* Faulty variant: no check against the balance.
RecordUnchecked(p, i, ref, amount) ==
    /\ ref \in DeskReferences
    /\ Begin(p, [reference |-> ref, invoice |-> i, amount |-> amount,
                 channel |-> "MANUAL"], "create")
    /\ UNCHANGED <<payments, invoices, pastDue, charges, receipts, crashes>>

\* The desk types the amount and, if it likes, any reference.
RecordRead(p, i, ref, amount) ==
    /\ ref \in DeskReferences
    /\ amount <= Balance(i)
    /\ Begin(p, [reference |-> ref, invoice |-> i, amount |-> amount,
                 channel |-> "MANUAL"], "create")
    /\ UNCHANGED <<payments, invoices, pastDue, charges, receipts, crashes>>

----------------------------------------------------------------------------
(* The rest is the same code for the webhook and for the desk. *)

\* Faulty variants of CreatePayment: an upsert by reference; the totals are not
\* refreshed.
CreatePaymentUpsert(p) ==
    /\ pc[p] = "create"
    /\ payments' = {r \in payments : r.reference # row[p].reference} \cup {row[p]}
    /\ GoTo(p, "refresh_read")
    /\ UNCHANGED <<invoices, pastDue, charges, receipts, crashes>>

CreatePaymentNoRefresh(p) ==
    /\ pc[p] = "create"
    /\ ReferenceFree(row[p].reference)
    /\ payments' = payments \cup {row[p]}
    /\ GoTo(p, "receipt")
    /\ UNCHANGED <<invoices, pastDue, charges, receipts, crashes>>

\* payment.create; on a taken reference the unique index makes it throw, and
\* the handler ends with an error (409 at the desk, 500 at the webhook).
CreatePayment(p) ==
    /\ pc[p] = "create"
    /\ \/ /\ ReferenceFree(row[p].reference)
          /\ payments' = payments \cup {row[p]}
          /\ GoTo(p, "refresh_read")
       \/ /\ ~ReferenceFree(row[p].reference)
          /\ Finish(p)
          /\ UNCHANGED payments
    /\ UNCHANGED <<invoices, pastDue, charges, receipts, crashes>>

\* Faulty variants of RefreshRead: the status from the stored total plus this
\* payment; a total of this payment alone.
RefreshReadDelta(p) ==
    /\ pc[p] = "refresh_read"
    /\ LET i == row[p].invoice IN
       /\ seen' = [seen EXCEPT ![p] = Posted(i)]
       /\ verdict' = [verdict EXCEPT ![p] =
                        RecomputeStatus(Due[i], AmountPaid(i) + row[p].amount, pastDue[i])]
    /\ pc' = [pc EXCEPT ![p] = "refresh_write"]
    /\ UNCHANGED <<row, payments, invoices, pastDue, charges, receipts, crashes>>

RefreshReadOwn(p) ==
    /\ pc[p] = "refresh_read"
    /\ seen' = [seen EXCEPT ![p] = {row[p]}]
    /\ verdict' = [verdict EXCEPT ![p] =
            RecomputeStatus(Due[row[p].invoice], row[p].amount, pastDue[row[p].invoice])]
    /\ pc' = [pc EXCEPT ![p] = "refresh_write"]
    /\ UNCHANGED <<row, payments, invoices, pastDue, charges, receipts, crashes>>

\* refreshInvoiceTotals, the read: all the rows of the invoice, and the clock.
RefreshRead(p) ==
    /\ pc[p] = "refresh_read"
    /\ LET i == row[p].invoice IN
       /\ seen' = [seen EXCEPT ![p] = Posted(i)]
       /\ verdict' = [verdict EXCEPT ![p] =
                        RecomputeStatus(Due[i], Total(Posted(i)), pastDue[i])]
    /\ pc' = [pc EXCEPT ![p] = "refresh_write"]
    /\ UNCHANGED <<row, payments, invoices, pastDue, charges, receipts, crashes>>

\* refreshInvoiceTotals, the write: amountPaid and status in one update.
RefreshWrite(p) ==
    /\ pc[p] = "refresh_write"
    /\ invoices' = [invoices EXCEPT ![row[p].invoice] =
                      [counted |-> seen[p], status |-> verdict[p]]]
    /\ GoTo(p, "receipt")
    /\ UNCHANGED <<payments, pastDue, charges, receipts, crashes>>

\* The receipt SMS to the primary guardian, if there is one to reach.
SendReceipt(p) ==
    /\ pc[p] = "receipt"
    /\ receipts' = IF row[p].invoice \in HasGuardian
                   THEN [receipts EXCEPT ![row[p].reference] = @ + 1]
                   ELSE receipts
    /\ GoTo(p, "respond")
    /\ UNCHANGED <<payments, invoices, pastDue, charges, crashes>>

\* The notification row is stored and the caller gets its 200.
Respond(p) ==
    /\ pc[p] = "respond"
    /\ charges' = IF row[p].channel = "PAYSTACK"
                  THEN Acknowledged(row[p].reference) ELSE charges
    /\ Finish(p)
    /\ UNCHANGED <<payments, invoices, pastDue, receipts, crashes>>

----------------------------------------------------------------------------
\* The process dies, or an awaited call throws: 500, nothing is undone.
Crash(p) ==
    /\ pc[p] # "idle"
    /\ crashes < MaxCrashes
    /\ crashes' = crashes + 1
    /\ Finish(p)
    /\ UNCHANGED <<payments, invoices, pastDue, charges, receipts>>

DueDatePasses(i) ==
    /\ ~pastDue[i]
    /\ pastDue' = [pastDue EXCEPT ![i] = TRUE]
    /\ UNCHANGED <<payments, invoices, charges, handlers, receipts, crashes>>

HandlerStep(p) ==
    \/ PaystackAccepts(p) \/ PaystackRefuses(p)
    \/ WebhookLookup(p)
    \/ CreatePayment(p)
    \/ RefreshRead(p) \/ RefreshWrite(p)
    \/ SendReceipt(p) \/ Respond(p)

Next ==
    \/ \E p \in Procs, i \in Invoices, ref \in References, amount \in Amounts :
         InitializeRead(p, i, ref, amount) \/ RecordRead(p, i, ref, amount)
    \/ \E p \in Procs, c \in charges : DeliverWebhook(p, c)
    \/ \E p \in Procs : HandlerStep(p) \/ Crash(p)
    \/ \E c \in charges : CustomerPays(c)
    \/ \E i \in Invoices : DueDatePasses(i)

Spec == Init /\ [][Next]_vars

\* Node finishes the handlers it started, and Paystack keeps delivering a
\* success it has no 2xx for. Strong fairness on delivery: the Procs bound may
\* make every handler busy at times, the real server takes the request.
RetryUnacked(ref) ==
    \E p \in Procs, c \in charges :
        c.row.reference = ref /\ ~c.acked /\ DeliverWebhook(p, c)

Fairness ==
    /\ \A p \in Procs : WF_vars(HandlerStep(p))
    /\ \A ref \in References : SF_vars(RetryUnacked(ref))

FairSpec == Spec /\ Fairness

----------------------------------------------------------------------------
(* Properties *)

\* The types of the variables.
TypeOK ==
    /\ payments \subseteq PaymentRow
    /\ invoices \in [Invoices -> [counted : SUBSET PaymentRow, status : Statuses]]
    /\ pastDue \in [Invoices -> BOOLEAN]
    /\ charges \subseteq Charge
    /\ pc \in [Procs -> Stages]
    /\ row \in [Procs -> PaymentRow \cup {NoRow}]
    /\ \A p \in Procs : pc[p] # "idle" => row[p] \in PaymentRow
    /\ seen \in [Procs -> SUBSET PaymentRow]
    /\ verdict \in [Procs -> Statuses]
    /\ receipts \in [References -> Nat]
    /\ crashes \in 0..MaxCrashes

\* The status column always agrees with the amountPaid column beside it, and
\* says OVERDUE only once the due date has passed: whichever of the
\* overlapping refreshes wrote last, it wrote both columns from one read.
StatusMatchesTotal ==
    \A i \in Invoices : \E past \in {FALSE, pastDue[i]} :
        invoices[i].status = RecomputeStatus(Due[i], AmountPaid(i), past)

\* A school never sees PAID without the money: whenever an invoice is PAID,
\* payments that are in the table, and are this invoice's, add up to what is
\* due. Stale refreshes, duplicates and crashes may understate, never overstate.
PaidIsFunded ==
    \A i \in Invoices : invoices[i].status = "PAID" =>
        \E rows \in SUBSET Posted(i) : Total(rows) >= Due[i]

\* A guardian gets at most one receipt for a reference, however often and
\* however concurrently the webhook is delivered or the desk re-submits, and
\* none for a payment that is not in the table.
ReceiptAtMostOnce ==
    \A ref \in References :
        /\ receipts[ref] <= 1
        /\ receipts[ref] = 1 => ~ReferenceFree(ref)

\* Paystack is told 2xx for a charge only when the table holds its reference:
\* an acknowledged charge is never lost, even when handlers die.
AcknowledgedIsRecorded ==
    \A c \in charges : c.acked => ~ReferenceFree(c.row.reference)

\* The handlers implement the ledger: rows are only ever added, one per
\* reference, and a total is only ever restated over rows already posted.
Ledger == INSTANCE PaymentLedger
             WITH counted <- [i \in Invoices |-> invoices[i].counted]
LedgerImplemented == Ledger!LedgerSpec

\* Every charge a parent completes ends up in the payments table.
PaidChargeIsRecorded ==
    \A ref \in References :
        (\E c \in charges : c.row.reference = ref /\ c.paid) ~> ~ReferenceFree(ref)

Quiescent == \A p \in Procs : pc[p] = "idle"

\* When no request is in progress, and none died, amountPaid adds up every
\* payment posted.
QuiescentTotalsMatch ==
    Quiescent /\ crashes = 0 => \A i \in Invoices : invoices[i].counted = Posted(i)

\* An invoice that reached PAID does not fall back to PARTIAL or PENDING, and as
\* long as no handler died before it refreshed the totals the desk reads, the
\* desk takes no invoice above what is due ("Amount exceeds outstanding
\* balance").
SettledStaysSettled ==
    [][/\ \A i \in Invoices : invoices[i].status = "PAID" => invoices'[i].status = "PAID"
       /\ crashes = 0 => \A r \in payments' \ payments :
            r.channel = "MANUAL" => Total({q \in payments' : q.invoice = r.invoice}) <= Due[r.invoice]]_vars

\* Every charge a parent completes ends up in its invoice's total.
PaidChargeIsCounted ==
    \A ref \in References, i \in Invoices :
        (\E c \in charges : c.row.reference = ref /\ c.row.invoice = i /\ c.paid)
            ~> \E r \in invoices[i].counted : r.reference = ref
=============================================================================
