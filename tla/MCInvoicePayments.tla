------------------------- MODULE MCInvoicePayments -------------------------
(* Values for TLC: one fee of 2 units, references and requests enough for two *)
(* payments to overlap, duplicate and compete for the balance.               *)
EXTENDS InvoicePayments, TLC

CONSTANTS i1

MCInvoices == {i1}
Interchangeable == Permutations(Procs) \cup Permutations(References)
MCDue == [i \in MCInvoices |-> 2]
=============================================================================
