--------------------------- MODULE PaymentLedger ---------------------------
(***************************************************************************)
(* What the finance desk promises about money, with no request handlers in *)
(* it.                                                                     *)
(*                                                                         *)
(* payments: the rows of the payments table. A row is posted once and is   *)
(*           never edited or removed afterwards; no two rows carry the     *)
(*           same reference.                                               *)
(* counted:  for each invoice, the rows whose amounts its amountPaid       *)
(*           column adds up. The column may lag behind the rows, but it    *)
(*           only ever adds up rows of that invoice that were posted.      *)
(*                                                                         *)
(* InvoicePayments implements this module.                                 *)
(***************************************************************************)
CONSTANTS Invoices,      \* the fee invoices
          PaymentRow     \* every row that could be posted: records with at
                         \* least the fields reference and invoice

VARIABLES payments, counted

ledger == <<payments, counted>>

\* The rows posted against invoice i.
Posted(i) == {row \in payments : row.invoice = i}

LedgerInit ==
    /\ payments = {}
    /\ counted = [i \in Invoices |-> {}]

\* A row with a reference no posted row carries joins the table.
Post(row) ==
    /\ \A other \in payments : other.reference # row.reference
    /\ payments' = payments \cup {row}
    /\ UNCHANGED counted

\* The total of invoice i is restated over some of the rows posted against it.
Restate(i) ==
    /\ \E rows \in SUBSET Posted(i) : counted' = [counted EXCEPT ![i] = rows]
    /\ UNCHANGED payments

LedgerNext ==
    \/ \E row \in PaymentRow : Post(row)
    \/ \E i \in Invoices : Restate(i)

LedgerSpec == LedgerInit /\ [][LedgerNext]_ledger
=============================================================================
