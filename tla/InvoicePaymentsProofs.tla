----------------------- MODULE InvoicePaymentsProofs -----------------------
(***************************************************************************)
(* Proofs about InvoicePayments, for any number of invoices, references,   *)
(* overlapping requests and crashes, and any fees; the last two theorems   *)
(* are about a server that works on one request at a time.                 *)
(***************************************************************************)
EXTENDS InvoicePayments, FiniteSetTheorems, TLAPS

(* The status a refresh computes is one the column can hold. *)
LEMMA StatusType ==
    ASSUME NEW due, NEW paid, NEW past
    PROVE  RecomputeStatus(due, paid, past) \in Statuses
BY DEF RecomputeStatus, Statuses

(* Acknowledging a reference touches nothing but the acked flag of its charge. *)
LEMMA AcknowledgedCharges ==
    ASSUME NEW ref, charges \subseteq Charge
    PROVE  /\ Acknowledged(ref) \subseteq Charge
           /\ \A c \in Acknowledged(ref) : \E d \in charges :
                 c.row = d.row /\ (c.acked => d.acked \/ d.row.reference = ref)
BY DEF Acknowledged, Charge

(* The variables keep their types. *)
LEMMA TypeInit == Init => TypeOK
<1> SUFFICES ASSUME Init PROVE TypeOK
    OBVIOUS
<1>1. \A i \in Invoices : RecomputeStatus(Due[i], Total({}), pastDue[i]) \in Statuses
    BY StatusType
<1> QED BY <1>1, PaymentAssumptions DEF Init, TypeOK, Stages, Statuses

LEMMA TypeNext == TypeOK /\ [Next]_vars => TypeOK'
<1> SUFFICES ASSUME TypeOK, [Next]_vars PROVE TypeOK'
    OBVIOUS
<1> USE DEF TypeOK, Stages
<1>1. ASSUME NEW p \in Procs, NEW i \in Invoices, NEW ref \in References,
             NEW amount \in Amounts, InitializeRead(p, i, ref, amount)
      PROVE  TypeOK'
    BY <1>1 DEF InitializeRead, Begin, PaymentRow, Channels
<1>2. ASSUME NEW p \in Procs, NEW i \in Invoices, NEW ref \in References,
             NEW amount \in Amounts, RecordRead(p, i, ref, amount)
      PROVE  TypeOK'
    BY <1>2 DEF RecordRead, Begin, PaymentRow, Channels
<1>3. ASSUME NEW p \in Procs, NEW c \in charges, DeliverWebhook(p, c)
      PROVE  TypeOK'
    BY <1>3 DEF DeliverWebhook, Begin, Charge
<1>4. ASSUME NEW p \in Procs, HandlerStep(p)
      PROVE  TypeOK'
    <2>1. CASE PaystackAccepts(p)
        <3>1. row[p] \in PaymentRow
            BY <2>1 DEF PaystackAccepts
        <3>2. [row |-> row[p], paid |-> FALSE, acked |-> FALSE] \in Charge
            BY <3>1 DEF Charge
        <3>3. charges' \subseteq Charge
            BY <2>1, <3>2 DEF PaystackAccepts
        <3> QED BY <2>1, <3>3 DEF PaystackAccepts, Finish, Statuses
    <2>2. CASE PaystackRefuses(p)
        BY <2>2 DEF PaystackRefuses, Finish, Statuses
    <2>3. CASE WebhookLookup(p)
        BY <2>3, AcknowledgedCharges, SMTT(30) DEF WebhookLookup, GoTo, Finish, Statuses
    <2>4. CASE CreatePayment(p)
        BY <2>4 DEF CreatePayment, GoTo, Finish, Statuses
    <2>5. CASE RefreshRead(p)
        <3>1. RecomputeStatus(Due[row[p].invoice], Total(Posted(row[p].invoice)),
                              pastDue[row[p].invoice]) \in Statuses
            BY StatusType
        <3>2. Posted(row[p].invoice) \subseteq PaymentRow
            BY DEF Posted
        <3> QED BY <2>5, <3>1, <3>2 DEF RefreshRead
    <2>6. CASE RefreshWrite(p)
        BY <2>6 DEF RefreshWrite, GoTo
    <2>7. CASE SendReceipt(p)
        <3>1. row[p].reference \in References
            BY <2>7 DEF SendReceipt, PaymentRow
        <3>2. receipts' \in [References -> Nat]
            BY <2>7, <3>1 DEF SendReceipt
        <3> QED BY <2>7, <3>2 DEF SendReceipt, GoTo
    <2>8. CASE Respond(p)
        BY <2>8, AcknowledgedCharges DEF Respond, Finish, Statuses
    <2> QED BY <1>4, <2>1, <2>2, <2>3, <2>4, <2>5, <2>6, <2>7, <2>8 DEF HandlerStep
<1>5. ASSUME NEW p \in Procs, Crash(p)
      PROVE  TypeOK'
    BY <1>5, PaymentAssumptions DEF Crash, Finish, Statuses
<1>6. ASSUME NEW c \in charges, CustomerPays(c)
      PROVE  TypeOK'
    BY <1>6 DEF CustomerPays, handlers, Charge
<1>7. ASSUME NEW i \in Invoices, DueDatePasses(i)
      PROVE  TypeOK'
    BY <1>7 DEF DueDatePasses, handlers
<1>8. CASE UNCHANGED vars
    BY <1>8 DEF vars, handlers
<1> QED BY <1>1, <1>2, <1>3, <1>4, <1>5, <1>6, <1>7, <1>8 DEF Next

(* Type correctness of the payment handlers. *)
THEOREM TypeCorrect == Spec => []TypeOK
<1>1. Init => TypeOK
    BY TypeInit
<1>2. TypeOK /\ [Next]_vars => TypeOK'
    BY TypeNext
<1> QED BY <1>1, <1>2, PTL DEF Spec

----------------------------------------------------------------------------
(* Totals and statuses. StatusMatchesTotal is not inductive: a refresh writes *)
(* what it read some steps ago, so the invariant must say of a refresh in     *)
(* progress what StatusMatchesTotal says of the invoice, and that the rows it *)
(* read are posted rows of its invoice.                                       *)

ReadIsSound(p) ==
    /\ seen[p] \subseteq Posted(row[p].invoice)
    /\ \E past \in {FALSE, pastDue[row[p].invoice]} :
          verdict[p] = RecomputeStatus(Due[row[p].invoice], Total(seen[p]), past)

SeenPosted == \A p \in Procs : pc[p] = "refresh_write" => ReadIsSound(p)

CountedPosted == \A i \in Invoices : invoices[i].counted \subseteq Posted(i)

TotalsInv == TypeOK /\ SeenPosted /\ CountedPosted /\ StatusMatchesTotal

(* A step that leaves the payments, the invoices and the due dates alone, and *)
(* puts no handler into refresh_write, preserves the invariant.               *)
LEMMA TotalsFrame ==
    ASSUME TotalsInv, UNCHANGED <<payments, invoices, pastDue>>, TypeOK',
           NEW p \in Procs,
           pc'[p] # "refresh_write",
           \A q \in Procs \ {p} : /\ pc'[q] = pc[q] /\ row'[q] = row[q]
                                  /\ seen'[q] = seen[q] /\ verdict'[q] = verdict[q]
    PROVE  TotalsInv'
<1>1. SeenPosted'
    <2> SUFFICES ASSUME NEW q \in Procs, pc'[q] = "refresh_write"
                 PROVE  ReadIsSound(q)'
        BY DEF SeenPosted
    <2>1. pc[q] = "refresh_write" /\ row'[q] = row[q] /\ seen'[q] = seen[q]
          /\ verdict'[q] = verdict[q]
        OBVIOUS
    <2>2. ReadIsSound(q)
        BY <2>1 DEF TotalsInv, SeenPosted
    <2> QED BY <2>1, <2>2 DEF ReadIsSound, Posted
<1>2. CountedPosted' /\ StatusMatchesTotal'
    BY DEF TotalsInv, CountedPosted, StatusMatchesTotal, AmountPaid, Posted
<1> QED BY <1>1, <1>2 DEF TotalsInv

LEMMA TotalsInit == Init => TotalsInv
<1> SUFFICES ASSUME Init PROVE TotalsInv
    OBVIOUS
<1>1. TypeOK
    BY TypeInit
<1>2. SeenPosted
    BY DEF Init, SeenPosted
<1>3. CountedPosted
    BY DEF Init, CountedPosted
<1>4. StatusMatchesTotal
    BY DEF Init, StatusMatchesTotal, AmountPaid
<1> QED BY <1>1, <1>2, <1>3, <1>4 DEF TotalsInv

(* A handler that moves on without touching the tables, as most steps do.     *)
LEMMA TotalsHandlerStep ==
    ASSUME TotalsInv, TypeOK', NEW p \in Procs,
           UNCHANGED <<payments, invoices, pastDue>>,
           \/ \E r, stage : Begin(p, r, stage) /\ stage # "refresh_write"
           \/ \E stage : GoTo(p, stage) /\ stage # "refresh_write"
           \/ Finish(p)
    PROVE  TotalsInv'
<1>1. pc'[p] # "refresh_write"
    BY DEF Begin, GoTo, Finish, TotalsInv, TypeOK
<1>2. \A q \in Procs \ {p} : /\ pc'[q] = pc[q] /\ row'[q] = row[q]
                             /\ seen'[q] = seen[q] /\ verdict'[q] = verdict[q]
    BY DEF Begin, GoTo, Finish, TotalsInv, TypeOK
<1> QED BY <1>1, <1>2, TotalsFrame

LEMMA TotalsNext == TotalsInv /\ [Next]_vars => TotalsInv'
<1> SUFFICES ASSUME TotalsInv, [Next]_vars PROVE TotalsInv'
    OBVIOUS
<1>0. TypeOK /\ TypeOK'
    BY TypeNext DEF TotalsInv
<1>1. ASSUME NEW p \in Procs, NEW i \in Invoices, NEW ref \in References,
             NEW amount \in Amounts,
             InitializeRead(p, i, ref, amount) \/ RecordRead(p, i, ref, amount)
      PROVE  TotalsInv'
    BY <1>0, <1>1, TotalsHandlerStep DEF InitializeRead, RecordRead
<1>2. ASSUME NEW p \in Procs, NEW c \in charges, DeliverWebhook(p, c)
      PROVE  TotalsInv'
    BY <1>0, <1>2, TotalsHandlerStep DEF DeliverWebhook
<1>3. ASSUME NEW p \in Procs, HandlerStep(p)
      PROVE  TotalsInv'
    <2>1. CASE PaystackAccepts(p) \/ PaystackRefuses(p) \/ WebhookLookup(p)
               \/ SendReceipt(p) \/ Respond(p)
        BY <1>0, <2>1, TotalsHandlerStep
           DEF PaystackAccepts, PaystackRefuses, WebhookLookup, SendReceipt, Respond
    <2>2. CASE CreatePayment(p)
        <3>1. \A i : Posted(i) \subseteq Posted(i)'
            BY <2>2 DEF CreatePayment, Posted
        <3>2. pc'[p] # "refresh_write" /\ \A q \in Procs \ {p} :
                 pc'[q] = pc[q] /\ row'[q] = row[q] /\ seen'[q] = seen[q]
                 /\ verdict'[q] = verdict[q]
            BY <1>0, <2>2 DEF CreatePayment, GoTo, Finish, TypeOK
        <3>3. UNCHANGED <<invoices, pastDue>>
            BY <2>2 DEF CreatePayment
        <3>4. SeenPosted'
            <4> SUFFICES ASSUME NEW q \in Procs, pc'[q] = "refresh_write"
                         PROVE  ReadIsSound(q)'
                BY DEF SeenPosted
            <4>1. pc[q] = "refresh_write" /\ row'[q] = row[q] /\ seen'[q] = seen[q]
                  /\ verdict'[q] = verdict[q]
                BY <3>2
            <4>2. ReadIsSound(q)
                BY <4>1 DEF TotalsInv, SeenPosted
            <4> QED BY <3>1, <3>3, <4>1, <4>2 DEF ReadIsSound
        <3>5. CountedPosted'
            BY <3>1, <3>3 DEF TotalsInv, CountedPosted
        <3>6. StatusMatchesTotal'
            BY <3>3 DEF TotalsInv, StatusMatchesTotal, AmountPaid
        <3> QED BY <1>0, <3>4, <3>5, <3>6 DEF TotalsInv
    <2>3. CASE RefreshRead(p)
        <3>1. UNCHANGED <<payments, invoices, pastDue, row>>
            BY <2>3 DEF RefreshRead
        <3>2. SeenPosted'
            <4> SUFFICES ASSUME NEW q \in Procs, pc'[q] = "refresh_write"
                         PROVE  ReadIsSound(q)'
                BY DEF SeenPosted
            <4>1. CASE q = p
                <5>1. /\ seen'[p] = Posted(row[p].invoice)
                      /\ verdict'[p] = RecomputeStatus(Due[row[p].invoice],
                                Total(Posted(row[p].invoice)), pastDue[row[p].invoice])
                    BY <1>0, <2>3 DEF RefreshRead, TypeOK
                <5> QED BY <3>1, <4>1, <5>1 DEF ReadIsSound, Posted
            <4>2. CASE q # p
                <5>1. pc[q] = "refresh_write" /\ seen'[q] = seen[q]
                      /\ verdict'[q] = verdict[q]
                    BY <1>0, <2>3, <4>2 DEF RefreshRead, TypeOK
                <5>2. ReadIsSound(q)
                    BY <5>1 DEF TotalsInv, SeenPosted
                <5> QED BY <3>1, <5>1, <5>2 DEF ReadIsSound, Posted
            <4> QED BY <4>1, <4>2
        <3>3. CountedPosted' /\ StatusMatchesTotal'
            BY <3>1 DEF TotalsInv, CountedPosted, StatusMatchesTotal, AmountPaid, Posted
        <3> QED BY <1>0, <3>2, <3>3 DEF TotalsInv
    <2>4. CASE RefreshWrite(p)
        <3> DEFINE j == row[p].invoice
        <3>1. ReadIsSound(p)
            BY <2>4 DEF TotalsInv, SeenPosted, RefreshWrite
        <3>2. UNCHANGED <<payments, pastDue, row, seen, verdict>>
            BY <2>4 DEF RefreshWrite, GoTo
        <3>3. j \in Invoices
            BY <1>0, <2>4 DEF RefreshWrite, TypeOK, PaymentRow
        <3>4. /\ invoices'[j] = [counted |-> seen[p], status |-> verdict[p]]
              /\ \A i \in Invoices \ {j} : invoices'[i] = invoices[i]
            BY <1>0, <2>4, <3>3 DEF RefreshWrite, TypeOK
        <3>5. SeenPosted'
            <4> SUFFICES ASSUME NEW q \in Procs, pc'[q] = "refresh_write"
                         PROVE  ReadIsSound(q)'
                BY DEF SeenPosted
            <4>1. pc[q] = "refresh_write"
                BY <1>0, <2>4 DEF RefreshWrite, GoTo, TypeOK
            <4>2. ReadIsSound(q)
                BY <4>1 DEF TotalsInv, SeenPosted
            <4> QED BY <3>2, <4>2 DEF ReadIsSound, Posted
        <3>6. CountedPosted'
            BY <3>1, <3>2, <3>4 DEF TotalsInv, CountedPosted, ReadIsSound, Posted
        <3>7. StatusMatchesTotal'
            <4> SUFFICES ASSUME NEW i \in Invoices
                         PROVE  \E past \in {FALSE, pastDue[i]} :
                                  invoices'[i].status =
                                    RecomputeStatus(Due[i], Total(invoices'[i].counted), past)
                BY <3>2 DEF StatusMatchesTotal, AmountPaid
            <4>1. CASE i = j
                <5>1. invoices'[i].counted = seen[p] /\ invoices'[i].status = verdict[p]
                    BY <3>4, <4>1
                <5> QED BY <3>1, <4>1, <5>1 DEF ReadIsSound
            <4>2. CASE i # j
                <5>1. invoices'[i] = invoices[i]
                    BY <3>4, <4>2
                <5> QED BY <5>1 DEF TotalsInv, StatusMatchesTotal, AmountPaid
            <4> QED BY <4>1, <4>2
        <3> QED BY <1>0, <3>5, <3>6, <3>7 DEF TotalsInv
    <2> QED BY <1>3, <2>1, <2>2, <2>3, <2>4 DEF HandlerStep
<1>4. ASSUME NEW p \in Procs, Crash(p)
      PROVE  TotalsInv'
    BY <1>0, <1>4, TotalsHandlerStep DEF Crash
<1>5. ASSUME NEW c \in charges, CustomerPays(c)
      PROVE  TotalsInv'
    <2>1. UNCHANGED <<payments, invoices, pastDue, pc, row, seen, verdict>>
        BY <1>5 DEF CustomerPays, handlers
    <2> QED BY <1>0, <2>1 DEF TotalsInv, SeenPosted, ReadIsSound, CountedPosted,
                               StatusMatchesTotal, AmountPaid, Posted
<1>6. ASSUME NEW j \in Invoices, DueDatePasses(j)
      PROVE  TotalsInv'
    <2>1. UNCHANGED <<payments, invoices, pc, row, seen, verdict>>
        BY <1>6 DEF DueDatePasses, handlers
    <2>2. \A i \in Invoices : {FALSE, pastDue[i]} \subseteq {FALSE, pastDue'[i]}
        BY <1>0, <1>6 DEF DueDatePasses, TypeOK
    <2>3. \A q \in Procs : pc[q] = "refresh_write" => row[q].invoice \in Invoices
        BY <1>0 DEF TypeOK, PaymentRow
    <2>4. SeenPosted'
        BY <2>1, <2>2, <2>3 DEF TotalsInv, SeenPosted, ReadIsSound, Posted
    <2>5. CountedPosted'
        BY <2>1 DEF TotalsInv, CountedPosted, Posted
    <2>6. StatusMatchesTotal'
        BY <2>1, <2>2 DEF TotalsInv, StatusMatchesTotal, AmountPaid
    <2> QED BY <1>0, <2>4, <2>5, <2>6 DEF TotalsInv
<1>7. CASE UNCHANGED vars
    BY <1>0, <1>7 DEF vars, handlers, TotalsInv, SeenPosted, ReadIsSound, CountedPosted,
                      StatusMatchesTotal, AmountPaid, Posted
<1> QED BY <1>1, <1>2, <1>3, <1>4, <1>5, <1>6, <1>7 DEF Next

LEMMA TotalsAlways == Spec => []TotalsInv
<1>1. Init => TotalsInv
    BY TotalsInit
<1>2. TotalsInv /\ [Next]_vars => TotalsInv'
    BY TotalsNext
<1> QED BY <1>1, <1>2, PTL DEF Spec

(* The status column always agrees with the amountPaid column beside it.      *)
THEOREM StatusCorrect == Spec => []StatusMatchesTotal
<1>1. TotalsInv => StatusMatchesTotal
    BY DEF TotalsInv
<1> QED BY <1>1, TotalsAlways, PTL

(* PAID is only ever shown when posted payments add up to the amount due.     *)
THEOREM PaidFunded == Spec => []PaidIsFunded
<1>1. TotalsInv => PaidIsFunded
    <2> SUFFICES ASSUME TotalsInv, NEW i \in Invoices, invoices[i].status = "PAID"
                 PROVE  \E rows \in SUBSET Posted(i) : Total(rows) >= Due[i]
        BY DEF PaidIsFunded
    <2>1. invoices[i].counted \in SUBSET Posted(i)
        BY DEF TotalsInv, CountedPosted
    <2>2. Total(invoices[i].counted) >= Due[i]
        BY DEF TotalsInv, StatusMatchesTotal, RecomputeStatus, AmountPaid
    <2> QED BY <2>1, <2>2
<1> QED BY <1>1, TotalsAlways, PTL

----------------------------------------------------------------------------
(* Receipts and acknowledgements. That two handlers never both send a receipt *)
(* for one reference rests on the unique index: only the handler whose insert *)
(* succeeded goes on, so at most one handler is past the insert.              *)

PostCreate == {"refresh_read", "refresh_write", "receipt", "respond"}
PreReceipt == {"refresh_read", "refresh_write", "receipt"}

RowsPosted == \A p \in Procs : pc[p] \in PostCreate => row[p] \in payments

SoleHandler ==
    \A p, q \in Procs :
        /\ pc[p] \in PostCreate
        /\ pc[q] \in PostCreate
        /\ row[p].reference = row[q].reference
        => p = q

ReceiptPending == \A p \in Procs : pc[p] \in PreReceipt => receipts[row[p].reference] = 0

ReceiptNeedsRow == \A ref \in References : ReferenceFree(ref) => receipts[ref] = 0

HandlerInv == RowsPosted /\ SoleHandler /\ ReceiptPending

ReceiptInv ==
    TypeOK /\ HandlerInv /\ ReceiptNeedsRow /\ ReceiptAtMostOnce /\ AcknowledgedIsRecorded

(* One handler moves, the tables stay as they are, and the handler is past    *)
(* the insert afterwards only if it already was.                              *)
LEMMA HandlerFrame ==
    ASSUME TypeOK, HandlerInv, NEW p \in Procs, UNCHANGED <<payments, receipts>>,
           \A q \in Procs \ {p} : pc'[q] = pc[q] /\ row'[q] = row[q],
           pc'[p] \in PostCreate => pc[p] \in PostCreate /\ row'[p] = row[p],
           pc'[p] \in PreReceipt => pc[p] \in PreReceipt
    PROVE  HandlerInv'
<1>1. \A q \in Procs : pc'[q] \in PostCreate => pc[q] \in PostCreate /\ row'[q] = row[q]
    OBVIOUS
<1>2. \A q \in Procs : pc'[q] \in PreReceipt => pc[q] \in PreReceipt
    OBVIOUS
<1>3. RowsPosted'
    BY <1>1 DEF HandlerInv, RowsPosted
<1>4. SoleHandler'
    BY <1>1 DEF HandlerInv, SoleHandler
<1>5. ReceiptPending'
    BY <1>1, <1>2 DEF HandlerInv, ReceiptPending, PreReceipt, PostCreate
<1> QED BY <1>3, <1>4, <1>5 DEF HandlerInv

LEMMA ReceiptInit == Init => ReceiptInv
<1> SUFFICES ASSUME Init PROVE ReceiptInv
    OBVIOUS
<1>1. TypeOK
    BY TypeInit
<1>2. HandlerInv
    BY DEF Init, HandlerInv, RowsPosted, SoleHandler, ReceiptPending, PostCreate, PreReceipt
<1>3. ReceiptNeedsRow /\ ReceiptAtMostOnce /\ AcknowledgedIsRecorded
    BY DEF Init, ReceiptNeedsRow, ReceiptAtMostOnce, AcknowledgedIsRecorded
<1> QED BY <1>1, <1>2, <1>3 DEF ReceiptInv

(* What the invariant says of the tables, when no payment is posted, no       *)
(* receipt sent and no acknowledgement given without a row to show for it.    *)
LEMMA TablesFrame ==
    ASSUME ReceiptInv, UNCHANGED <<payments, receipts>>,
           \A c \in charges' : c.acked => \/ \E d \in charges : d.row = c.row /\ d.acked
                                          \/ ~ReferenceFree(c.row.reference)
    PROVE  ReceiptNeedsRow' /\ ReceiptAtMostOnce' /\ AcknowledgedIsRecorded'
BY DEF ReceiptInv, ReceiptNeedsRow, ReceiptAtMostOnce, AcknowledgedIsRecorded, ReferenceFree

LEMMA ReceiptNext == ReceiptInv /\ [Next]_vars => ReceiptInv'
<1> SUFFICES ASSUME ReceiptInv, [Next]_vars PROVE ReceiptInv'
    OBVIOUS
<1>0. TypeOK /\ TypeOK' /\ HandlerInv
    BY TypeNext DEF ReceiptInv
<1> USE DEF PostCreate, PreReceipt
<1>1. ASSUME NEW p \in Procs, NEW i \in Invoices, NEW ref \in References,
             NEW amount \in Amounts,
             InitializeRead(p, i, ref, amount) \/ RecordRead(p, i, ref, amount)
      PROVE  ReceiptInv'
    <2>1. HandlerInv'
        BY <1>0, <1>1, HandlerFrame DEF InitializeRead, RecordRead, Begin, TypeOK
    <2>2. UNCHANGED <<payments, receipts, charges>>
        BY <1>1 DEF InitializeRead, RecordRead
    <2> QED BY <1>0, <2>1, <2>2, TablesFrame DEF ReceiptInv
<1>2. ASSUME NEW p \in Procs, NEW c \in charges, DeliverWebhook(p, c)
      PROVE  ReceiptInv'
    <2>1. HandlerInv'
        BY <1>0, <1>2, HandlerFrame DEF DeliverWebhook, Begin, TypeOK
    <2>2. UNCHANGED <<payments, receipts, charges>>
        BY <1>2 DEF DeliverWebhook
    <2> QED BY <1>0, <2>1, <2>2, TablesFrame DEF ReceiptInv
<1>3. ASSUME NEW p \in Procs, HandlerStep(p)
      PROVE  ReceiptInv'
    <2>1. CASE PaystackAccepts(p)
        <3>1. HandlerInv'
            BY <1>0, <2>1, HandlerFrame DEF PaystackAccepts, Finish, TypeOK
        <3>2. UNCHANGED <<payments, receipts>> /\ \A c \in charges' : c.acked => c \in charges
            BY <2>1 DEF PaystackAccepts
        <3> QED BY <1>0, <3>1, <3>2, TablesFrame DEF ReceiptInv
    <2>2. CASE PaystackRefuses(p)
        <3>1. HandlerInv'
            BY <1>0, <2>2, HandlerFrame DEF PaystackRefuses, Finish, TypeOK
        <3>2. UNCHANGED <<payments, receipts, charges>>
            BY <2>2 DEF PaystackRefuses
        <3> QED BY <1>0, <3>1, <3>2, TablesFrame DEF ReceiptInv
    <2>3. CASE WebhookLookup(p)
        <3>1. HandlerInv'
            BY <1>0, <2>3, HandlerFrame DEF WebhookLookup, GoTo, Finish, TypeOK
        <3>2. UNCHANGED <<payments, receipts>>
            BY <2>3 DEF WebhookLookup
        <3>3. \A c \in charges' : c.acked =>
                 \/ \E d \in charges : d.row = c.row /\ d.acked
                 \/ ~ReferenceFree(c.row.reference)
            BY <1>0, <2>3, AcknowledgedCharges DEF WebhookLookup, TypeOK
        <3> QED BY <1>0, <3>1, <3>2, <3>3, TablesFrame DEF ReceiptInv
    <2>4. CASE CreatePayment(p)
        <3>1. CASE ~ReferenceFree(row[p].reference)
            <4>1. HandlerInv'
                BY <1>0, <2>4, <3>1, HandlerFrame DEF CreatePayment, Finish, TypeOK
            <4>2. UNCHANGED <<payments, receipts, charges>>
                BY <2>4, <3>1 DEF CreatePayment
            <4> QED BY <1>0, <4>1, <4>2, TablesFrame DEF ReceiptInv
        <3>2. CASE ReferenceFree(row[p].reference)
            <4>1. /\ payments' = payments \cup {row[p]}
                  /\ UNCHANGED <<row, receipts, charges>>
                  /\ pc' = [pc EXCEPT ![p] = "refresh_read"]
                BY <2>4, <3>2 DEF CreatePayment, GoTo
            <4>2. row[p] \in PaymentRow /\ row[p].reference \in References
                BY <1>0, <2>4 DEF CreatePayment, TypeOK, PaymentRow
            <4>3. \A q \in Procs : pc'[q] \in PostCreate => q = p \/ pc[q] \in PostCreate
                BY <1>0, <4>1 DEF TypeOK
            <4>4. RowsPosted'
                BY <1>0, <4>1, <4>3 DEF HandlerInv, RowsPosted
            <4>5. \A q \in Procs : pc[q] \in PostCreate
                     => row[q].reference # row[p].reference
                BY <1>0, <3>2 DEF HandlerInv, RowsPosted, ReferenceFree
            <4>6. SoleHandler'
                BY <1>0, <4>1, <4>3, <4>5 DEF HandlerInv, SoleHandler
            <4>7. receipts[row[p].reference] = 0
                BY <3>2, <4>2 DEF ReceiptInv, ReceiptNeedsRow
            <4>8. ReceiptPending'
                BY <1>0, <4>1, <4>7 DEF HandlerInv, ReceiptPending, TypeOK
            <4>9. \A ref : ReferenceFree(ref)' => ReferenceFree(ref)
                BY <4>1 DEF ReferenceFree
            <4>10. ReceiptNeedsRow' /\ ReceiptAtMostOnce' /\ AcknowledgedIsRecorded'
                BY <4>1, <4>9 DEF ReceiptInv, ReceiptNeedsRow, ReceiptAtMostOnce,
                                  AcknowledgedIsRecorded
            <4> QED BY <1>0, <4>4, <4>6, <4>8, <4>10 DEF ReceiptInv, HandlerInv
        <3> QED BY <3>1, <3>2
    <2>5. CASE RefreshRead(p) \/ RefreshWrite(p)
        <3>1. HandlerInv'
            BY <1>0, <2>5, HandlerFrame DEF RefreshRead, RefreshWrite, GoTo, TypeOK
        <3>2. UNCHANGED <<payments, receipts, charges>>
            BY <2>5 DEF RefreshRead, RefreshWrite
        <3> QED BY <1>0, <3>1, <3>2, TablesFrame DEF ReceiptInv
    <2>6. CASE SendReceipt(p)
        <3>1. /\ pc[p] = "receipt" /\ pc' = [pc EXCEPT ![p] = "respond"]
              /\ UNCHANGED <<row, payments, charges>>
            BY <2>6 DEF SendReceipt, GoTo
        <3>2. row[p] \in payments /\ row[p].reference \in References
              /\ receipts[row[p].reference] = 0
            BY <1>0, <3>1 DEF HandlerInv, RowsPosted, ReceiptPending, TypeOK, PaymentRow
        <3>3. \/ receipts' = receipts
              \/ receipts' = [receipts EXCEPT ![row[p].reference] = 1]
            BY <2>6, <3>2 DEF SendReceipt
        <3>4. \A ref \in References :
                 \/ receipts'[ref] = receipts[ref]
                 \/ (ref = row[p].reference /\ receipts'[ref] = 1)
            <4>1. receipts \in [References -> Nat]
                BY <1>0 DEF TypeOK
            <4>2. CASE receipts' = receipts
                BY <4>2
            <4>3. CASE receipts' = [receipts EXCEPT ![row[p].reference] = 1]
                BY <4>1, <4>3
            <4> QED BY <3>3, <4>2, <4>3
        <3>5. RowsPosted' /\ SoleHandler'
            BY <1>0, <3>1 DEF HandlerInv, RowsPosted, SoleHandler, TypeOK
        <3>6. ReceiptPending'
            <4> SUFFICES ASSUME NEW q \in Procs, pc'[q] \in PreReceipt
                         PROVE  receipts'[row[q].reference] = 0
                BY <3>1 DEF ReceiptPending
            <4>1. q # p /\ pc[q] \in PreReceipt
                BY <1>0, <3>1 DEF TypeOK
            <4>2. row[q].reference # row[p].reference
                BY <1>0, <3>1, <4>1 DEF HandlerInv, SoleHandler
            <4>3. receipts[row[q].reference] = 0
                BY <1>0, <4>1 DEF HandlerInv, ReceiptPending
            <4>4. row[q].reference \in References
                BY <1>0, <4>1 DEF TypeOK, PaymentRow
            <4> QED BY <3>4, <4>2, <4>3, <4>4
        <3>7. ~ReferenceFree(row[p].reference)
            BY <3>2 DEF ReferenceFree
        <3>8. \A ref \in References : ReferenceFree(ref)' <=> ReferenceFree(ref)
            BY <3>1 DEF ReferenceFree
        <3>9. ReceiptNeedsRow' /\ ReceiptAtMostOnce'
            BY <3>4, <3>7, <3>8 DEF ReceiptInv, ReceiptNeedsRow, ReceiptAtMostOnce
        <3>10. AcknowledgedIsRecorded'
            BY <3>1 DEF ReceiptInv, AcknowledgedIsRecorded, ReferenceFree
        <3> QED BY <1>0, <3>5, <3>6, <3>9, <3>10 DEF ReceiptInv, HandlerInv
    <2>7. CASE Respond(p)
        <3>1. HandlerInv'
            BY <1>0, <2>7, HandlerFrame DEF Respond, Finish, TypeOK
        <3>2. UNCHANGED <<payments, receipts>>
            BY <2>7 DEF Respond
        <3>3. ~ReferenceFree(row[p].reference)
            BY <1>0, <2>7 DEF Respond, HandlerInv, RowsPosted, ReferenceFree
        <3>4. \A c \in charges' : c.acked =>
                 \/ \E d \in charges : d.row = c.row /\ d.acked
                 \/ ~ReferenceFree(c.row.reference)
            <4>1. CASE row[p].channel = "PAYSTACK"
                <5>1. charges' = Acknowledged(row[p].reference)
                    BY <2>7, <4>1 DEF Respond
                <5>2. \A c \in charges' : \E d \in charges :
                         c.row = d.row /\ (c.acked => d.acked \/ d.row.reference = row[p].reference)
                    BY <1>0, <5>1, AcknowledgedCharges DEF TypeOK
                <5> QED BY <3>3, <5>2
            <4>2. CASE row[p].channel # "PAYSTACK"
                BY <2>7, <4>2 DEF Respond
            <4> QED BY <4>1, <4>2
        <3> QED BY <1>0, <3>1, <3>2, <3>4, TablesFrame DEF ReceiptInv
    <2> QED BY <1>3, <2>1, <2>2, <2>3, <2>4, <2>5, <2>6, <2>7 DEF HandlerStep
<1>4. ASSUME NEW p \in Procs, Crash(p)
      PROVE  ReceiptInv'
    <2>1. HandlerInv'
        BY <1>0, <1>4, HandlerFrame DEF Crash, Finish, TypeOK
    <2>2. UNCHANGED <<payments, receipts, charges>>
        BY <1>4 DEF Crash
    <2> QED BY <1>0, <2>1, <2>2, TablesFrame DEF ReceiptInv
<1>5. ASSUME NEW c \in charges, CustomerPays(c)
      PROVE  ReceiptInv'
    <2>1. UNCHANGED <<payments, receipts, pc, row>>
        BY <1>5 DEF CustomerPays, handlers
    <2>2. HandlerInv'
        BY <1>0, <2>1 DEF HandlerInv, RowsPosted, SoleHandler, ReceiptPending
    <2>3. \A d \in charges' : d.acked => \E b \in charges : b.row = d.row /\ b.acked
        BY <1>0, <1>5 DEF CustomerPays, TypeOK, Charge
    <2> QED BY <1>0, <2>1, <2>2, <2>3, TablesFrame DEF ReceiptInv
<1>6. ASSUME NEW j \in Invoices, DueDatePasses(j)
      PROVE  ReceiptInv'
    <2>1. UNCHANGED <<payments, receipts, charges, pc, row>>
        BY <1>6 DEF DueDatePasses, handlers
    <2>2. HandlerInv'
        BY <1>0, <2>1 DEF HandlerInv, RowsPosted, SoleHandler, ReceiptPending
    <2> QED BY <1>0, <2>1, <2>2, TablesFrame DEF ReceiptInv
<1>7. CASE UNCHANGED vars
    <2>1. UNCHANGED <<payments, receipts, charges, pc, row>>
        BY <1>7 DEF vars, handlers
    <2>2. HandlerInv'
        BY <1>0, <2>1 DEF HandlerInv, RowsPosted, SoleHandler, ReceiptPending
    <2> QED BY <1>0, <2>1, <2>2, TablesFrame DEF ReceiptInv
<1> QED BY <1>1, <1>2, <1>3, <1>4, <1>5, <1>6, <1>7 DEF Next

LEMMA ReceiptAlways == Spec => []ReceiptInv
<1>1. Init => ReceiptInv
    BY ReceiptInit
<1>2. ReceiptInv /\ [Next]_vars => ReceiptInv'
    BY ReceiptNext
<1> QED BY <1>1, <1>2, PTL DEF Spec

(* A guardian gets at most one receipt for a reference.                       *)
THEOREM ReceiptOnce == Spec => []ReceiptAtMostOnce
<1>1. ReceiptInv => ReceiptAtMostOnce
    BY DEF ReceiptInv
<1> QED BY <1>1, ReceiptAlways, PTL

(* Paystack is answered 2xx only for charges whose payment is in the table.   *)
THEOREM AcknowledgedRecorded == Spec => []AcknowledgedIsRecorded
<1>1. ReceiptInv => AcknowledgedIsRecorded
    BY DEF ReceiptInv
<1> QED BY <1>1, ReceiptAlways, PTL

----------------------------------------------------------------------------
(* The handlers implement the ledger of PaymentLedger.                        *)
THEOREM ImplementsLedger == Spec => LedgerImplemented
<1> DEFINE totals == [i \in Invoices |-> invoices[i].counted]
<1> USE DEF Ledger!ledger
<1>1. Init => Ledger!LedgerInit
    <2> SUFFICES ASSUME Init PROVE Ledger!LedgerInit
        OBVIOUS
    <2>1. totals = [i \in Invoices |-> {}]
        BY DEF Init
    <2> QED BY <2>1 DEF Init, Ledger!LedgerInit
<1>2. TotalsInv /\ [Next]_vars => [Ledger!LedgerNext]_(Ledger!ledger)
    <2> SUFFICES ASSUME TotalsInv, [Next]_vars
                 PROVE  [Ledger!LedgerNext]_(Ledger!ledger)
        OBVIOUS
    <2>0. TypeOK
        BY DEF TotalsInv
    <2>1. CASE UNCHANGED <<payments, invoices>>
        BY <2>1
    <2>2. ASSUME NEW p \in Procs, CreatePayment(p)
          PROVE  [Ledger!LedgerNext]_(Ledger!ledger)
        <3>1. CASE ~ReferenceFree(row[p].reference)
            BY <2>2, <3>1 DEF CreatePayment
        <3>2. CASE ReferenceFree(row[p].reference)
            <4>1. row[p] \in PaymentRow
                BY <2>0, <2>2 DEF CreatePayment, TypeOK
            <4>2. Ledger!Post(row[p])
                BY <2>2, <3>2 DEF CreatePayment, ReferenceFree, Ledger!Post
            <4> QED BY <4>1, <4>2 DEF Ledger!LedgerNext
        <3> QED BY <3>1, <3>2
    <2>3. ASSUME NEW p \in Procs, RefreshWrite(p)
          PROVE  [Ledger!LedgerNext]_(Ledger!ledger)
        <3> DEFINE j == row[p].invoice
        <3>1. j \in Invoices
            BY <2>0, <2>3 DEF RefreshWrite, TypeOK, PaymentRow
        <3>2. seen[p] \in SUBSET Ledger!Posted(j)
            BY <2>3 DEF RefreshWrite, TotalsInv, SeenPosted, ReadIsSound, Posted, Ledger!Posted
        <3>3. totals' = [totals EXCEPT ![j] = seen[p]]
            BY <2>0, <2>3, <3>1 DEF RefreshWrite, TypeOK
        <3>4. payments' = payments
            BY <2>3 DEF RefreshWrite
        <3> QED BY <3>1, <3>2, <3>3, <3>4 DEF Ledger!Restate, Ledger!LedgerNext
    <2>4. \/ UNCHANGED <<payments, invoices>>
          \/ \E p \in Procs : CreatePayment(p) \/ RefreshWrite(p)
        BY ZenonT(60) DEF Next, vars, handlers, InitializeRead, RecordRead, DeliverWebhook, HandlerStep,
               PaystackAccepts, PaystackRefuses, WebhookLookup, RefreshRead, SendReceipt,
               Respond, Crash, CustomerPays, DueDatePasses
    <2> QED BY <2>1, <2>2, <2>3, <2>4
<1> QED BY <1>1, <1>2, TotalsAlways, PTL DEF Spec, LedgerImplemented, Ledger!LedgerSpec

----------------------------------------------------------------------------
(* One request at a time *)

Refreshing(p) == pc[p] \in {"refresh_read", "refresh_write"}

(* QuiescentTotalsMatch is not inductive: a payment is posted before its      *)
(* total is. Alone, a refresh writes what is posted, and until then it is     *)
(* under way.                                                                 *)
RefreshIsCurrent == \A p \in Procs : pc[p] = "refresh_write" => seen[p] = Posted(row[p].invoice)

TotalsCurrent ==
    crashes = 0 => \A i \in Invoices :
        \/ invoices[i].counted = Posted(i)
        \/ \E p \in Procs : Refreshing(p) /\ row[p].invoice = i

SerialInv == TypeOK /\ RefreshIsCurrent /\ TotalsCurrent

LEMMA SerialInit == Init => SerialInv
BY TypeInit DEF Init, SerialInv, RefreshIsCurrent, TotalsCurrent, Posted

(* A step that neither posts nor refreshes.                                   *)
LEMMA SerialFrame ==
    ASSUME SerialInv, TypeOK', UNCHANGED <<payments, invoices, crashes>>,
           \A p \in Procs : /\ Refreshing(p) => pc'[p] = pc[p] /\ row'[p] = row[p]
                            /\ pc'[p] = "refresh_write" =>
                                 pc[p] = "refresh_write" /\ seen'[p] = seen[p] /\ row'[p] = row[p]
    PROVE  SerialInv'
<1>1. \A i : Posted(i)' = Posted(i)
    BY DEF Posted
<1>2. RefreshIsCurrent'
    BY <1>1 DEF SerialInv, RefreshIsCurrent
<1>3. \A p \in Procs : Refreshing(p) => Refreshing(p)'
    BY DEF Refreshing
<1>4. TotalsCurrent'
    BY <1>1, <1>3 DEF SerialInv, TotalsCurrent, Refreshing
<1> QED BY <1>2, <1>4 DEF SerialInv

LEMMA SerialNext ==
    ASSUME \A p, q \in Procs : p = q, SerialInv, [Next]_vars
    PROVE  SerialInv'
<1>1. TypeOK /\ TypeOK'
    BY TypeNext DEF SerialInv
<1>2. crashes \in Nat
    BY <1>1, PaymentAssumptions DEF TypeOK
<1>3. CASE UNCHANGED vars
    BY <1>1, <1>3, SerialFrame DEF vars, handlers
<1>4. ASSUME NEW p \in Procs, NEW i \in Invoices, NEW ref \in References, NEW amount \in Amounts,
             InitializeRead(p, i, ref, amount) \/ RecordRead(p, i, ref, amount)
      PROVE  SerialInv'
    BY <1>1, <1>4, SerialFrame DEF InitializeRead, RecordRead, Begin, TypeOK, Refreshing
<1>5. ASSUME NEW p \in Procs, NEW c \in charges, DeliverWebhook(p, c) PROVE SerialInv'
    BY <1>1, <1>5, SerialFrame DEF DeliverWebhook, Begin, TypeOK, Refreshing
<1>6. ASSUME NEW p \in Procs, PaystackAccepts(p) \/ PaystackRefuses(p) \/ WebhookLookup(p)
                              \/ SendReceipt(p) \/ Respond(p)
      PROVE  SerialInv'
    BY <1>1, <1>6, SerialFrame
       DEF PaystackAccepts, PaystackRefuses, WebhookLookup, SendReceipt, Respond, Finish, GoTo, TypeOK, Refreshing
<1>7. ASSUME NEW p \in Procs, CreatePayment(p) PROVE SerialInv'
    <2>1. CASE ~ReferenceFree(row[p].reference)
        BY <1>1, <1>7, <2>1, SerialFrame DEF CreatePayment, Finish, TypeOK, Refreshing
    <2>2. CASE ReferenceFree(row[p].reference)
        <3>1. /\ pc[p] = "create" /\ pc'[p] = "refresh_read" /\ row' = row
              /\ payments' = payments \cup {row[p]} /\ invoices' = invoices /\ crashes' = crashes
            BY <1>1, <1>7, <2>2 DEF CreatePayment, GoTo, TypeOK
        <3>2. \A q \in Procs : q = p
            OBVIOUS
        <3>3. RefreshIsCurrent'
            BY <3>1, <3>2 DEF RefreshIsCurrent
        <3>4. ASSUME NEW i \in Invoices, crashes = 0
              PROVE  invoices'[i].counted = Posted(i)' \/ (Refreshing(p)' /\ row'[p].invoice = i)
            <4>1. CASE row[p].invoice = i
                BY <3>1, <4>1 DEF Refreshing
            <4>2. CASE row[p].invoice # i
                <5>1. invoices[i].counted = Posted(i)
                    BY <3>1, <3>2, <3>4 DEF SerialInv, TotalsCurrent, Refreshing
                <5>2. Posted(i)' = Posted(i)
                    BY <3>1, <4>2 DEF Posted
                <5> QED BY <3>1, <5>1, <5>2
            <4> QED BY <4>1, <4>2
        <3>5. TotalsCurrent'
            BY <3>1, <3>4 DEF TotalsCurrent
        <3> QED BY <1>1, <3>3, <3>5 DEF SerialInv
    <2> QED BY <2>1, <2>2
<1>8. ASSUME NEW p \in Procs, RefreshRead(p) PROVE SerialInv'
    <2>1. /\ Refreshing(p) /\ Refreshing(p)' /\ row' = row /\ pc[p] # "refresh_write"
          /\ seen'[p] = Posted(row[p].invoice)
          /\ payments' = payments /\ invoices' = invoices /\ crashes' = crashes
        BY <1>1, <1>8 DEF RefreshRead, TypeOK, Refreshing
    <2>2. \A q \in Procs : q = p
        OBVIOUS
    <2>3. \A i : Posted(i)' = Posted(i)
        BY <2>1 DEF Posted
    <2>4. RefreshIsCurrent'
        BY <2>1, <2>2, <2>3 DEF RefreshIsCurrent
    <2>5. TotalsCurrent'
        BY <2>1, <2>2, <2>3 DEF SerialInv, TotalsCurrent
    <2> QED BY <1>1, <2>4, <2>5 DEF SerialInv
<1>9. ASSUME NEW p \in Procs, RefreshWrite(p) PROVE SerialInv'
    <2> DEFINE j == row[p].invoice
    <2>1. /\ pc[p] = "refresh_write" /\ pc'[p] = "receipt" /\ row' = row /\ j \in Invoices
          /\ invoices'[j].counted = seen[p]
          /\ \A i \in Invoices : i # j => invoices'[i] = invoices[i]
          /\ payments' = payments /\ crashes' = crashes
        BY <1>1, <1>9 DEF RefreshWrite, GoTo, TypeOK, PaymentRow
    <2>2. \A q \in Procs : q = p
        OBVIOUS
    <2>3. \A i : Posted(i)' = Posted(i)
        BY <2>1 DEF Posted
    <2>4. seen[p] = Posted(j)
        BY <2>1 DEF SerialInv, RefreshIsCurrent
    <2>5. RefreshIsCurrent'
        BY <2>1, <2>2 DEF RefreshIsCurrent
    <2>6. ASSUME NEW i \in Invoices, crashes = 0 PROVE invoices'[i].counted = Posted(i)'
        <3>1. CASE i = j
            BY <2>1, <2>3, <2>4, <3>1
        <3>2. CASE i # j
            <4>1. invoices[i].counted = Posted(i)
                BY <2>2, <2>6, <3>2 DEF SerialInv, TotalsCurrent
            <4> QED BY <2>1, <2>3, <3>2, <4>1
        <3> QED BY <3>1, <3>2
    <2>7. TotalsCurrent'
        BY <2>1, <2>6 DEF TotalsCurrent
    <2> QED BY <1>1, <2>5, <2>7 DEF SerialInv
<1>10. ASSUME NEW p \in Procs, Crash(p) PROVE SerialInv'
    <2>1. crashes' # 0
        BY <1>2, <1>10 DEF Crash
    <2>2. TotalsCurrent'
        BY <2>1 DEF TotalsCurrent
    <2>3. RefreshIsCurrent'
        <3>1. \A q \in Procs : q = p
            OBVIOUS
        <3>2. pc'[p] = "idle"
            BY <1>1, <1>10 DEF Crash, Finish, TypeOK
        <3> QED BY <3>1, <3>2 DEF RefreshIsCurrent
    <2> QED BY <1>1, <2>2, <2>3 DEF SerialInv
<1>11. ASSUME NEW c \in charges, CustomerPays(c) PROVE SerialInv'
    BY <1>1, <1>11, SerialFrame DEF CustomerPays, handlers
<1>12. ASSUME NEW i \in Invoices, DueDatePasses(i) PROVE SerialInv'
    BY <1>1, <1>12, SerialFrame DEF DueDatePasses, handlers
<1> QED BY <1>3, <1>4, <1>5, <1>6, <1>7, <1>8, <1>9, <1>10, <1>11, <1>12 DEF Next, HandlerStep

LEMMA SerialImplies == SerialInv => QuiescentTotalsMatch
BY DEF SerialInv, TotalsCurrent, Refreshing, Quiescent, QuiescentTotalsMatch

(* As long as the server works on one request at a time and none dies, every  *)
(* total is that of the payments posted whenever no request is in progress    *)
(* (refreshInvoiceTotals). The run fees_overlap shows that two suffice to     *)
(* break it.                                                                  *)
THEOREM SerialTotalsMatch ==
    ASSUME \A p, q \in Procs : p = q
    PROVE  Spec => []QuiescentTotalsMatch
<1>1. SerialInv /\ [Next]_vars => SerialInv'
    BY SerialNext
<1> QED BY <1>1, SerialInit, SerialImplies, PTL DEF Spec

----------------------------------------------------------------------------
(* Sums of payments. Total is defined through a function that takes rows away *)
(* one at a time in an order of its own; that there is such a function, and   *)
(* that the order does not matter, is shown of a smallest set of rows for     *)
(* which it is not.                                                           *)

(* The row that is taken away first.                                          *)
One(s) == CHOOSE x \in s : TRUE

Sums(S, g) ==
    g = [s \in SUBSET S |-> IF s = {} THEN 0 ELSE One(s).amount + g[s \ {One(s)}]]

SumOf(S) == CHOOSE g : Sums(S, g)

LEMMA TotalDef ==
    ASSUME NEW S
    PROVE  Total(S) = SumOf(S)[S]
BY DEF Total, MapThenSumSet, MapThenFoldSet, SumOf, Sums, One

(* A smallest of some finite sets.                                            *)
LEMMA Smallest ==
    ASSUME NEW S, NEW Bad \in SUBSET SUBSET S, Bad # {}, \A T \in Bad : IsFiniteSet(T)
    PROVE  \E T \in Bad : \A U \in SUBSET T : U # T => U \notin Bad
<1>1. Bad \subseteq FiniteSubsetsOf(S)
    BY DEF FiniteSubsetsOf
<1>2. PICK T \in Bad : \A U \in Bad : ~(<<U, T>> \in StrictSubsetOrdering(S))
    BY <1>1, FS_StrictSubsetOrderingWellFounded, WFMin
<1>3. ASSUME NEW U \in SUBSET T, U # T, U \in Bad PROVE FALSE
    BY <1>2, <1>3 DEF StrictSubsetOrdering
<1> QED BY <1>2, <1>3

LEMMA SumsAt ==
    ASSUME NEW S, NEW g, Sums(S, g), NEW s \in SUBSET S
    PROVE  /\ s = {} => g[s] = 0
           /\ s # {} => /\ g[s] = One(s).amount + g[s \ {One(s)}]
                        /\ One(s) \in s /\ s \ {One(s)} \in SUBSET S /\ s \ {One(s)} # s
<1>1. g[s] = IF s = {} THEN 0 ELSE One(s).amount + g[s \ {One(s)}]
    <2>1. g = [t \in SUBSET S |-> IF t = {} THEN 0 ELSE One(t).amount + g[t \ {One(t)}]]
        BY DEF Sums
    <2> QED BY <2>1
<1>2. s # {} => One(s) \in s
    BY DEF One
<1> QED BY <1>1, <1>2

(* Such functions agree.                                                      *)
LEMMA SumsAgree ==
    ASSUME NEW A, NEW B, NEW g, NEW h, Sums(A, g), Sums(B, h),
           NEW u \in SUBSET A, u \in SUBSET B, IsFiniteSet(u)
    PROVE  g[u] = h[u]
<1> DEFINE Bad == {s \in SUBSET u : g[s] # h[s]}
<1> SUFFICES ASSUME Bad # {} PROVE FALSE
    OBVIOUS
<1>1. \A s \in Bad : IsFiniteSet(s)
    BY FS_Subset
<1>2. PICK s \in Bad : \A t \in SUBSET s : t # s => t \notin Bad
    <2>1. Bad \in SUBSET SUBSET u
        OBVIOUS
    <2> HIDE DEF Bad
    <2> QED BY <1>1, <2>1, Smallest
<1>3. s \in SUBSET A /\ s \in SUBSET B /\ g[s] # h[s]
    OBVIOUS
<1>4. s # {}
    BY <1>3, SumsAt
<1>5. /\ g[s] = One(s).amount + g[s \ {One(s)}]
      /\ h[s] = One(s).amount + h[s \ {One(s)}]
      /\ s \ {One(s)} # s
    BY <1>3, <1>4, SumsAt
<1>6. g[s \ {One(s)}] = h[s \ {One(s)}]
    BY <1>2, <1>5
<1> QED BY <1>3, <1>5, <1>6

(* There is one for every finite set.                                         *)
LEMMA SumsExist ==
    ASSUME NEW S, IsFiniteSet(S)
    PROVE  Sums(S, SumOf(S))
<1> DEFINE Bad == {T \in SUBSET S : ~Sums(T, SumOf(T))}
<1> SUFFICES ASSUME Bad # {} PROVE FALSE
    OBVIOUS
<1>1. \A T \in Bad : IsFiniteSet(T)
    BY FS_Subset
<1>2. PICK T \in Bad : \A U \in SUBSET T : U # T => U \notin Bad
    <2>1. Bad \in SUBSET SUBSET S
        OBVIOUS
    <2> HIDE DEF Bad
    <2> QED BY <1>1, <2>1, Smallest
<1>3. \A U \in SUBSET T : U # T => Sums(U, SumOf(U))
    BY <1>2
<1>4. IsFiniteSet(T)
    BY <1>1
<1> HIDE DEF Bad
<1> DEFINE g == [s \in SUBSET T |-> IF s = {} THEN 0
                                    ELSE One(s).amount + SumOf(s \ {One(s)})[s \ {One(s)}]]
<1>5. ASSUME NEW u \in SUBSET T, u # T PROVE g[u] = SumOf(u)[u]
    <2>1. Sums(u, SumOf(u)) /\ IsFiniteSet(u) /\ u \in SUBSET u
        BY <1>3, <1>4, <1>5, FS_Subset
    <2>2. CASE u = {}
        <3>1. SumOf(u)[u] = 0
            BY <2>1, <2>2, SumsAt
        <3> QED BY <2>2, <3>1
    <2>3. CASE u # {}
        <3> DEFINE v == u \ {One(u)}
        <3>1. /\ SumOf(u)[u] = One(u).amount + SumOf(u)[v]
              /\ v \in SUBSET u /\ v # u
            BY <2>1, <2>3, SumsAt
        <3>2. Sums(v, SumOf(v)) /\ IsFiniteSet(v) /\ v \in SUBSET v
            <4>1. v \in SUBSET T /\ v # T
                BY <1>5, <3>1
            <4> QED BY <1>3, <2>1, <3>1, <4>1, FS_Subset
        <3>3. SumOf(u)[v] = SumOf(v)[v]
            <4> HIDE DEF v
            <4> QED BY <2>1, <3>1, <3>2, SumsAgree
        <3>4. g[u] = One(u).amount + SumOf(v)[v]
            BY <2>3
        <3> QED BY <3>1, <3>3, <3>4
    <2> QED BY <2>2, <2>3
<1>6. Sums(T, g)
    <2>1. ASSUME NEW s \in SUBSET T, s # {}
          PROVE  SumOf(s \ {One(s)})[s \ {One(s)}] = g[s \ {One(s)}]
        <3>1. One(s) \in s
            BY <2>1 DEF One
        <3>2. s \ {One(s)} \in SUBSET T /\ s \ {One(s)} # T
            BY <3>1
        <3> HIDE DEF g
        <3> QED BY <1>5, <3>2
    <2>2. \A s \in SUBSET T :
             g[s] = IF s = {} THEN 0 ELSE One(s).amount + g[s \ {One(s)}]
        <3> SUFFICES ASSUME NEW s \in SUBSET T
                     PROVE  g[s] = IF s = {} THEN 0 ELSE One(s).amount + g[s \ {One(s)}]
            OBVIOUS
        <3>1. g[s] = IF s = {} THEN 0 ELSE One(s).amount + SumOf(s \ {One(s)})[s \ {One(s)}]
            OBVIOUS
        <3> HIDE DEF g
        <3> QED BY <2>1, <3>1
    <2>3. g = [s \in SUBSET T |-> g[s]]
        OBVIOUS
    <2> HIDE DEF g
    <2> QED BY <2>2, <2>3 DEF Sums
<1>7. Sums(T, SumOf(T))
    <2> HIDE DEF g
    <2> QED BY <1>6 DEF SumOf
<1> QED BY <1>2, <1>7 DEF Bad

(* What a sum is: nothing of no rows, and one row and the sum of the others.  *)
LEMMA TotalOne ==
    /\ Total({}) = 0
    /\ \A S : IsFiniteSet(S) /\ S # {} =>
          One(S) \in S /\ Total(S) = One(S).amount + Total(S \ {One(S)})
<1>1. Total({}) = 0
    <2>1. Sums({}, SumOf({})) /\ {} \in SUBSET {}
        BY FS_EmptySet, SumsExist
    <2>2. SumOf({})[{}] = 0
        BY <2>1, SumsAt
    <2> QED BY <2>2, TotalDef
<1>2. ASSUME NEW S, IsFiniteSet(S), S # {}
      PROVE  One(S) \in S /\ Total(S) = One(S).amount + Total(S \ {One(S)})
    <2> DEFINE v == S \ {One(S)}
    <2>1. Sums(S, SumOf(S)) /\ S \in SUBSET S
        BY <1>2, SumsExist
    <2>2. SumOf(S)[S] = One(S).amount + SumOf(S)[v] /\ One(S) \in S
        BY <1>2, <2>1, SumsAt
    <2>3. v \in SUBSET S /\ v \in SUBSET v /\ IsFiniteSet(v)
        BY <1>2, FS_Subset
    <2> HIDE DEF v
    <2>4. SumOf(S)[v] = SumOf(v)[v]
        BY <2>1, <2>3, SumsExist, SumsAgree
    <2>5. Total(S) = SumOf(S)[S] /\ Total(v) = SumOf(v)[v]
        BY TotalDef
    <2> QED BY <2>2, <2>4, <2>5 DEF v
<1> QED BY <1>1, <1>2

(* A sum of payments is a natural number.                                     *)
LEMMA TotalType ==
    ASSUME NEW S \in SUBSET PaymentRow, IsFiniteSet(S)
    PROVE  Total(S) \in Nat
<1> DEFINE Bad == {T \in SUBSET S : Total(T) \notin Nat}
<1> SUFFICES ASSUME Bad # {} PROVE FALSE
    OBVIOUS
<1>1. \A T \in Bad : IsFiniteSet(T)
    BY FS_Subset
<1>2. PICK T \in Bad : \A U \in SUBSET T : U # T => U \notin Bad
    <2>1. Bad \in SUBSET SUBSET S
        OBVIOUS
    <2> HIDE DEF Bad
    <2> QED BY <1>1, <2>1, Smallest
<1>3. T # {} /\ IsFiniteSet(T) /\ T \in SUBSET S
    <2>1. Total(T) \notin Nat
        OBVIOUS
    <2>2. Total({}) = 0
        BY TotalOne
    <2>3. T # {}
        BY <2>1, <2>2
    <2> QED BY <1>1, <2>3
<1>4. One(T) \in T /\ Total(T) = One(T).amount + Total(T \ {One(T)})
    BY <1>3, TotalOne
<1>5. Total(T \ {One(T)}) \in Nat
    BY <1>2, <1>4
<1>6. One(T).amount \in Nat
    BY <1>3, <1>4, PaymentAssumptions DEF PaymentRow, Amounts
<1>7. Total(T) \in Nat
    BY <1>4, <1>5, <1>6
<1> QED BY <1>7

(* Any row may be taken away first.                                           *)
LEMMA TotalAny ==
    ASSUME NEW S \in SUBSET PaymentRow, IsFiniteSet(S), NEW r \in S
    PROVE  Total(S) = r.amount + Total(S \ {r})
<1> DEFINE Bad == {T \in SUBSET S : \E x \in T : Total(T) # x.amount + Total(T \ {x})}
<1> SUFFICES ASSUME Bad # {} PROVE FALSE
    OBVIOUS
<1>1. \A T \in Bad : IsFiniteSet(T)
    BY FS_Subset
<1>2. PICK T \in Bad : \A U \in SUBSET T : U # T => U \notin Bad
    <2>1. Bad \in SUBSET SUBSET S
        OBVIOUS
    <2> HIDE DEF Bad
    <2> QED BY <1>1, <2>1, Smallest
<1>3. PICK x \in T : Total(T) # x.amount + Total(T \ {x})
    OBVIOUS
<1> DEFINE y == One(T)
           W == T \ {x, y}
<1>4. T \in SUBSET S /\ IsFiniteSet(T) /\ T # {}
    BY <1>1
<1>5. y \in T /\ Total(T) = y.amount + Total(T \ {y})
    BY <1>4, TotalOne
<1>6. x # y
    BY <1>3, <1>5
<1>7. Total(T \ {y}) = x.amount + Total(W)
    <2>1. T \ {y} \notin Bad /\ T \ {y} \in SUBSET S /\ x \in T \ {y}
        BY <1>2, <1>4, <1>5, <1>6
    <2>2. (T \ {y}) \ {x} = W
        OBVIOUS
    <2> QED BY <2>1, <2>2
<1>8. Total(T \ {x}) = y.amount + Total(W)
    <2>1. T \ {x} \notin Bad /\ T \ {x} \in SUBSET S /\ y \in T \ {x}
        BY <1>2, <1>3, <1>4, <1>5, <1>6
    <2>2. (T \ {x}) \ {y} = W
        OBVIOUS
    <2> QED BY <2>1, <2>2
<1>9. x.amount \in Nat /\ y.amount \in Nat /\ Total(W) \in Nat
    <2>1. x \in PaymentRow /\ y \in PaymentRow
        BY <1>4, <1>5
    <2>2. W \in SUBSET PaymentRow /\ IsFiniteSet(W)
        BY <1>4, FS_Subset
    <2>3. Total(W) \in Nat
        BY <2>2, TotalType
    <2> QED BY <2>1, <2>3, PaymentAssumptions DEF PaymentRow, Amounts
<1> HIDE DEF y, W, Bad
<1>10. Total(T) = x.amount + Total(T \ {x})
    BY <1>5, <1>7, <1>8, <1>9
<1> QED BY <1>3, <1>10

(* A sum of more payments is no smaller.                                      *)
LEMMA TotalGrows ==
    ASSUME NEW B \in SUBSET PaymentRow, IsFiniteSet(B), NEW A \in SUBSET B
    PROVE  Total(A) \in Nat /\ Total(B) \in Nat /\ Total(A) <= Total(B)
<1>1. /\ Total(B) \in Nat
      /\ \A T \in SUBSET B : IsFiniteSet(T) /\ T \in SUBSET PaymentRow /\ Total(T) \in Nat
    BY FS_Subset, TotalType
<1> DEFINE Bad == {T \in SUBSET B : A \subseteq T /\ ~(Total(A) <= Total(T))}
<1> SUFFICES ASSUME Bad # {} PROVE FALSE
    BY <1>1
<1>2. PICK T \in Bad : \A U \in SUBSET T : U # T => U \notin Bad
    <2>1. Bad \in SUBSET SUBSET B /\ \A T \in Bad : IsFiniteSet(T)
        BY <1>1
    <2> HIDE DEF Bad
    <2> QED BY <2>1, Smallest
<1>3. PICK x \in T : x \notin A
    <2>1. T # A
        BY <1>1
    <2> QED BY <2>1
<1>4. Total(T) = x.amount + Total(T \ {x})
    BY <1>1, TotalAny
<1>5. T \ {x} \in SUBSET B /\ A \subseteq T \ {x} /\ T \ {x} # T
    BY <1>3
<1>6. Total(A) <= Total(T \ {x})
    BY <1>2, <1>5
<1>7. x.amount \in Nat
    <2>1. x \in PaymentRow
        BY <1>1
    <2> QED BY <2>1, PaymentAssumptions DEF PaymentRow, Amounts
<1>8. Total(A) \in Nat /\ Total(T) \in Nat /\ Total(T \ {x}) \in Nat
    BY <1>1, <1>5
<1>9. Total(A) <= Total(T)
    BY <1>4, <1>6, <1>7, <1>8
<1> QED BY <1>9

----------------------------------------------------------------------------
(* PAID is final, and the desk keeps to the balance, one request at a time.   *)
(* Neither follows from a step alone. A refresh that writes has read what is  *)
(* posted, which holds whatever the total before it held; an amount the desk  *)
(* found to fit still fits when it is posted; and only the desk posts         *)
(* payments of its channel.                                                   *)
CheckoutRows ==
    /\ \A c \in charges : c.row.channel = "PAYSTACK"
    /\ \A p \in Procs : pc[p] \in {"paystack_init", "webhook_lookup"} => row[p].channel = "PAYSTACK"

DeskFits ==
    crashes = 0 => \A p \in Procs :
        pc[p] = "create" /\ row[p].channel = "MANUAL" =>
            row[p].amount + Total(Posted(row[p].invoice)) <= Due[row[p].invoice]

SettledInv == SerialInv /\ TotalsInv /\ IsFiniteSet(payments) /\ CheckoutRows /\ DeskFits

LEMMA SettledInit == Init => SettledInv
<1> SUFFICES ASSUME Init PROVE SettledInv
    OBVIOUS
<1>1. IsFiniteSet(payments)
    BY FS_EmptySet DEF Init
<1>2. CheckoutRows /\ DeskFits
    BY DEF Init, CheckoutRows, DeskFits
<1> QED BY <1>1, <1>2, SerialInit, TotalsInit DEF SettledInv

LEMMA PostedFinite ==
    ASSUME TypeOK, IsFiniteSet(payments), NEW i
    PROVE  Posted(i) \in SUBSET PaymentRow /\ IsFiniteSet(Posted(i)) /\ Total(Posted(i)) \in Nat
<1>1. Posted(i) \subseteq payments /\ Posted(i) \in SUBSET PaymentRow
    BY DEF Posted, TypeOK
<1>2. IsFiniteSet(Posted(i))
    BY <1>1, FS_Subset
<1> QED BY <1>1, <1>2, TotalType

(* What the desk may take is what is missing.                                 *)
LEMMA BalanceLeft ==
    ASSUME SettledInv, NEW i \in Invoices, invoices[i].counted = Posted(i),
           NEW amount \in Amounts, amount <= Balance(i)
    PROVE  amount + Total(Posted(i)) <= Due[i]
<1>1. Total(Posted(i)) \in Nat /\ Due[i] \in Nat /\ amount \in Nat /\ amount > 0
    BY PostedFinite, PaymentAssumptions DEF SettledInv, TotalsInv, Amounts
<1>2. Balance(i) = IF Total(Posted(i)) >= Due[i] THEN 0 ELSE Due[i] - Total(Posted(i))
    BY DEF Balance, AmountPaid
<1> QED BY <1>1, <1>2

(* Acknowledging a charge leaves its channel.                                 *)
LEMMA AcknowledgedChannels ==
    ASSUME TypeOK, \A c \in charges : c.row.channel = "PAYSTACK", NEW ref
    PROVE  \A c \in Acknowledged(ref) : c.row.channel = "PAYSTACK"
BY AcknowledgedCharges DEF TypeOK

(* A step that posts nothing, and begins and moves on no payment of the desk. *)
LEMMA SettledFrame ==
    ASSUME SettledInv, SerialInv', TotalsInv', payments' = payments,
           crashes' = 0 => crashes = 0,
           \A c \in charges' : c.row.channel = "PAYSTACK",
           \A p \in Procs : pc'[p] \in {"paystack_init", "webhook_lookup"} => row'[p].channel = "PAYSTACK",
           \A p \in Procs : pc'[p] = "create" /\ row'[p].channel = "MANUAL" =>
                              pc[p] = "create" /\ row'[p] = row[p]
    PROVE  SettledInv'
<1>1. \A i : Posted(i)' = Posted(i)
    BY DEF Posted
<1>2. DeskFits'
    BY <1>1 DEF SettledInv, DeskFits
<1> QED BY <1>2 DEF SettledInv, CheckoutRows

LEMMA SettledNext ==
    ASSUME \A p, q \in Procs : p = q, SettledInv, [Next]_vars
    PROVE  SettledInv'
<1>1. TypeOK /\ TypeOK' /\ SerialInv' /\ TotalsInv'
    BY SerialNext, TotalsNext DEF SettledInv, TotalsInv
<1>2. crashes \in Nat
    BY <1>1, PaymentAssumptions DEF TypeOK
<1>3. \A p, q \in Procs : q = p
    OBVIOUS
<1>4. CheckoutRows
    BY DEF SettledInv
<1>5. CASE UNCHANGED vars
    BY <1>1, <1>4, <1>5, SettledFrame DEF vars, handlers, CheckoutRows
<1>6. ASSUME NEW p \in Procs, NEW i \in Invoices, NEW ref \in References, NEW amount \in Amounts,
             InitializeRead(p, i, ref, amount)
      PROVE  SettledInv'
    <2> DEFINE r == [reference |-> ref, invoice |-> i, amount |-> amount, channel |-> "PAYSTACK"]
    <2>1. /\ pc'[p] = "paystack_init" /\ row'[p] = r /\ r.channel = "PAYSTACK"
          /\ charges' = charges /\ payments' = payments /\ crashes' = crashes
        BY <1>1, <1>6 DEF InitializeRead, Begin, TypeOK
    <2> HIDE DEF r
    <2> QED BY <1>1, <1>3, <1>4, <2>1, SettledFrame DEF CheckoutRows
<1>7. ASSUME NEW p \in Procs, NEW i \in Invoices, NEW ref \in References, NEW amount \in Amounts,
             RecordRead(p, i, ref, amount)
      PROVE  SettledInv'
    <2> DEFINE r == [reference |-> ref, invoice |-> i, amount |-> amount, channel |-> "MANUAL"]
    <2>1. /\ pc[p] = "idle" /\ pc'[p] = "create" /\ row'[p] = r /\ amount <= Balance(i)
          /\ r.invoice = i /\ r.amount = amount
          /\ charges' = charges /\ payments' = payments /\ crashes' = crashes
        BY <1>1, <1>7 DEF RecordRead, Begin, TypeOK
    <2> HIDE DEF r
    <2>2. CheckoutRows'
        BY <1>3, <1>4, <2>1 DEF CheckoutRows
    <2>3. ASSUME crashes = 0 PROVE amount + Total(Posted(i)) <= Due[i]
        <3>1. invoices[i].counted = Posted(i)
            BY <1>3, <2>1, <2>3 DEF SettledInv, SerialInv, TotalsCurrent, Refreshing
        <3> QED BY <2>1, <3>1, BalanceLeft
    <2>4. Posted(i)' = Posted(i)
        BY <2>1 DEF Posted
    <2>5. DeskFits'
        BY <1>3, <2>1, <2>3, <2>4 DEF DeskFits
    <2> QED BY <1>1, <2>1, <2>2, <2>5 DEF SettledInv
<1>8. ASSUME NEW p \in Procs, NEW c \in charges, DeliverWebhook(p, c) PROVE SettledInv'
    <2>1. /\ pc'[p] = "webhook_lookup" /\ row'[p] = c.row
          /\ charges' = charges /\ payments' = payments /\ crashes' = crashes
        BY <1>1, <1>8 DEF DeliverWebhook, Begin, TypeOK
    <2> QED BY <1>1, <1>3, <1>4, <2>1, SettledFrame DEF CheckoutRows
<1>9. ASSUME NEW p \in Procs, HandlerStep(p) \/ Crash(p),
             payments' = payments, pc'[p] \notin {"paystack_init", "webhook_lookup", "create"},
             \A c \in charges' : c.row.channel = "PAYSTACK"
      PROVE  SettledInv'
    <2>1. crashes' = 0 => crashes = 0
        BY <1>2, <1>9 DEF HandlerStep, PaystackAccepts, PaystackRefuses, WebhookLookup, CreatePayment,
                          RefreshRead, RefreshWrite, SendReceipt, Respond, Crash
    <2> QED BY <1>1, <1>3, <1>9, <2>1, SettledFrame
<1>10. ASSUME NEW p \in Procs, PaystackAccepts(p) PROVE SettledInv'
    <2>1. /\ pc[p] = "paystack_init" /\ pc'[p] = "idle" /\ payments' = payments
          /\ charges' = charges \cup {[row |-> row[p], paid |-> FALSE, acked |-> FALSE]}
        BY <1>1, <1>10 DEF PaystackAccepts, Finish, TypeOK
    <2>2. \A c \in charges' : c.row.channel = "PAYSTACK"
        BY <1>4, <2>1 DEF CheckoutRows
    <2> QED BY <1>9, <1>10, <2>1, <2>2 DEF HandlerStep
<1>11. ASSUME NEW p \in Procs, PaystackRefuses(p) \/ SendReceipt(p) \/ Crash(p) \/ RefreshRead(p)
                               \/ RefreshWrite(p)
       PROVE  SettledInv'
    <2>1. /\ pc'[p] \in {"idle", "respond", "refresh_write", "receipt"} /\ payments' = payments
          /\ charges' = charges
        BY <1>1, <1>11 DEF PaystackRefuses, SendReceipt, Crash, RefreshRead, RefreshWrite, Finish, GoTo, TypeOK
    <2> QED BY <1>4, <1>9, <1>11, <2>1 DEF HandlerStep, CheckoutRows
<1>12. ASSUME NEW p \in Procs, WebhookLookup(p) PROVE SettledInv'
    <2>1. CASE ReferenceFree(row[p].reference)
        <3>1. /\ pc[p] = "webhook_lookup" /\ pc'[p] = "create" /\ row' = row
              /\ charges' = charges /\ payments' = payments /\ crashes' = crashes
            BY <1>1, <1>12, <2>1 DEF WebhookLookup, GoTo, TypeOK
        <3>2. row'[p].channel # "MANUAL"
            BY <1>4, <3>1 DEF CheckoutRows
        <3> QED BY <1>1, <1>3, <1>4, <3>1, <3>2, SettledFrame DEF CheckoutRows
    <2>2. CASE ~ReferenceFree(row[p].reference)
        <3>1. /\ pc'[p] = "idle" /\ payments' = payments /\ charges' = Acknowledged(row[p].reference)
            BY <1>1, <1>12, <2>2 DEF WebhookLookup, Finish, TypeOK
        <3>2. \A c \in charges' : c.row.channel = "PAYSTACK"
            BY <1>1, <1>4, <3>1, AcknowledgedChannels DEF CheckoutRows
        <3> QED BY <1>9, <1>12, <3>1, <3>2 DEF HandlerStep
    <2> QED BY <2>1, <2>2
<1>13. ASSUME NEW p \in Procs, CreatePayment(p) PROVE SettledInv'
    <2>1. CASE ReferenceFree(row[p].reference)
        <3>1. /\ pc'[p] = "refresh_read" /\ charges' = charges /\ crashes' = crashes
              /\ payments' = payments \cup {row[p]}
            BY <1>1, <1>13, <2>1 DEF CreatePayment, GoTo, TypeOK
        <3>2. IsFiniteSet(payments')
            BY <3>1, FS_AddElement DEF SettledInv
        <3>3. CheckoutRows' /\ DeskFits'
            BY <1>3, <1>4, <3>1 DEF CheckoutRows, DeskFits
        <3> QED BY <1>1, <3>2, <3>3 DEF SettledInv
    <2>2. CASE ~ReferenceFree(row[p].reference)
        <3>1. pc'[p] = "idle" /\ charges' = charges /\ payments' = payments
            BY <1>1, <1>13, <2>2 DEF CreatePayment, Finish, TypeOK
        <3> QED BY <1>4, <1>9, <1>13, <3>1 DEF HandlerStep, CheckoutRows
    <2> QED BY <2>1, <2>2
<1>14. ASSUME NEW p \in Procs, Respond(p) PROVE SettledInv'
    <2>1. /\ pc'[p] = "idle" /\ payments' = payments
          /\ charges' = charges \/ charges' = Acknowledged(row[p].reference)
        BY <1>1, <1>14 DEF Respond, Finish, TypeOK
    <2>2. \A c \in charges' : c.row.channel = "PAYSTACK"
        BY <1>1, <1>4, <2>1, AcknowledgedChannels DEF CheckoutRows
    <2> QED BY <1>9, <1>14, <2>1, <2>2 DEF HandlerStep
<1>15. ASSUME NEW c \in charges, CustomerPays(c) PROVE SettledInv'
    <2>1. /\ pc' = pc /\ row' = row /\ payments' = payments /\ crashes' = crashes
          /\ charges' = (charges \ {c}) \cup {[c EXCEPT !.paid = TRUE]}
        BY <1>15 DEF CustomerPays, handlers
    <2>2. c \in Charge /\ [c EXCEPT !.paid = TRUE].row = c.row
        BY <1>1 DEF TypeOK, Charge
    <2>3. \A d \in charges' : d.row.channel = "PAYSTACK"
        BY <1>4, <2>1, <2>2 DEF CheckoutRows
    <2> QED BY <1>1, <1>4, <2>1, <2>3, SettledFrame DEF CheckoutRows
<1>16. ASSUME NEW i \in Invoices, DueDatePasses(i) PROVE SettledInv'
    <2>1. pc' = pc /\ row' = row /\ payments' = payments /\ crashes' = crashes /\ charges' = charges
        BY <1>16 DEF DueDatePasses, handlers
    <2> QED BY <1>1, <1>4, <2>1, SettledFrame DEF CheckoutRows
<1> QED BY <1>5, <1>6, <1>7, <1>8, <1>10, <1>11, <1>12, <1>13, <1>14, <1>15, <1>16 DEF Next, HandlerStep

(* What a step may never do.                                                  *)
SettledStep ==
    /\ \A i \in Invoices : invoices[i].status = "PAID" => invoices'[i].status = "PAID"
    /\ crashes = 0 => \A r \in payments' \ payments :
         r.channel = "MANUAL" => Total({q \in payments' : q.invoice = r.invoice}) <= Due[r.invoice]

LEMMA SettledSteps ==
    ASSUME \A p, q \in Procs : p = q, SettledInv, [Next]_vars
    PROVE  SettledStep
<1>1. TypeOK /\ TotalsInv /\ IsFiniteSet(payments)
    BY DEF SettledInv, TotalsInv
<1>2. CASE UNCHANGED <<payments, invoices>>
    BY <1>2 DEF SettledStep
<1>3. ASSUME NEW p \in Procs, CreatePayment(p) PROVE SettledStep
    <2> DEFINE r == row[p]
               j == row[p].invoice
    <2>1. pc[p] = "create" /\ invoices' = invoices /\ r \in PaymentRow
        BY <1>1, <1>3 DEF CreatePayment, TypeOK
    <2>2. CASE payments' = payments
        BY <2>1, <2>2 DEF SettledStep
    <2>3. CASE ReferenceFree(r.reference) /\ payments' = payments \cup {r}
        <3>1. r \notin payments
            BY <2>3 DEF ReferenceFree
        <3>2. {q \in payments' : q.invoice = j} = Posted(j) \cup {r}
            BY <2>3 DEF Posted
        <3>3. /\ Posted(j) \in SUBSET PaymentRow /\ IsFiniteSet(Posted(j)) /\ Total(Posted(j)) \in Nat
              /\ r \notin Posted(j)
            BY <1>1, <3>1, PostedFinite DEF Posted
        <3> DEFINE N == Posted(j) \cup {r}
        <3>4. /\ N \in SUBSET PaymentRow /\ IsFiniteSet(N) /\ r \in N /\ N \ {r} = Posted(j)
            BY <2>1, <3>3, FS_AddElement
        <3>5. Total(N) = r.amount + Total(Posted(j))
            <4> HIDE DEF N, r, j
            <4> QED BY <3>4, TotalAny
        <3>6. ASSUME crashes = 0, r.channel = "MANUAL" PROVE Total(N) <= Due[j]
            <4>1. r.amount + Total(Posted(j)) <= Due[j]
                BY <2>1, <3>6 DEF SettledInv, DeskFits
            <4> QED BY <3>5, <4>1
        <3>7. payments' \ payments = {r}
            BY <2>3, <3>1
        <3> QED BY <2>1, <3>2, <3>6, <3>7 DEF SettledStep
    <2> QED BY <1>3, <2>2, <2>3 DEF CreatePayment
<1>4. ASSUME NEW p \in Procs, RefreshWrite(p) PROVE SettledStep
    <2> DEFINE j == row[p].invoice
    <2>1. /\ pc[p] = "refresh_write" /\ payments' = payments /\ j \in Invoices
          /\ invoices'[j].status = verdict[p]
          /\ \A i \in Invoices : i # j => invoices'[i] = invoices[i]
        BY <1>1, <1>4 DEF RefreshWrite, TypeOK, PaymentRow
    <2>2. seen[p] = Posted(j)
        BY <2>1 DEF SettledInv, SerialInv, RefreshIsCurrent
    <2>3. PICK past : verdict[p] = RecomputeStatus(Due[j], Total(Posted(j)), past)
        BY <1>1, <2>1, <2>2, ZenonT(60) DEF TotalsInv, SeenPosted, ReadIsSound
    <2>4. invoices[j].counted \in SUBSET Posted(j)
        BY <1>1, <2>1 DEF TotalsInv, CountedPosted
    <2>5. /\ Total(invoices[j].counted) \in Nat /\ Total(Posted(j)) \in Nat
          /\ Total(invoices[j].counted) <= Total(Posted(j))
        BY <1>1, <2>4, PostedFinite, TotalGrows
    <2>6. PICK was : invoices[j].status = RecomputeStatus(Due[j], Total(invoices[j].counted), was)
        BY <1>1, <2>1 DEF TotalsInv, StatusMatchesTotal, AmountPaid
    <2>7. Due[j] \in Nat
        BY <2>1, PaymentAssumptions
    <2>8. ASSUME invoices[j].status = "PAID" PROVE verdict[p] = "PAID"
        <3>1. Due[j] # 0 /\ Total(invoices[j].counted) >= Due[j]
            BY <2>6, <2>8 DEF RecomputeStatus
        <3>2. Due[j] # 0 /\ Total(Posted(j)) >= Due[j]
            BY <2>5, <2>7, <3>1
        <3> QED BY <2>3, <3>2 DEF RecomputeStatus
    <2> QED BY <2>1, <2>8 DEF SettledStep
<1>5. \/ UNCHANGED <<payments, invoices>>
      \/ \E p \in Procs : CreatePayment(p) \/ RefreshWrite(p)
    BY ZenonT(60) DEF Next, vars, handlers, InitializeRead, RecordRead, DeliverWebhook, HandlerStep,
           PaystackAccepts, PaystackRefuses, WebhookLookup, RefreshRead, SendReceipt,
           Respond, Crash, CustomerPays, DueDatePasses
<1> QED BY <1>2, <1>3, <1>4, <1>5

(* As long as the server works on one request at a time, an invoice that is   *)
(* PAID stays so, and until a handler dies the desk takes no invoice above    *)
(* what is due (payments/record, refreshInvoiceTotals).                       *)
THEOREM PaidStaysPaid ==
    ASSUME \A p, q \in Procs : p = q
    PROVE  Spec => SettledStaysSettled
<1>1. SettledInv /\ [Next]_vars => SettledInv'
    BY SettledNext
<1>2. SettledInv /\ [Next]_vars => [SettledStep]_vars
    BY SettledSteps
<1>3. SettledStaysSettled <=> [][SettledStep]_vars
    BY DEF SettledStaysSettled, SettledStep
<1> QED BY <1>1, <1>2, <1>3, SettledInit, PTL DEF Spec
=============================================================================
