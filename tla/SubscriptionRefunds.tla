------------------------ MODULE SubscriptionRefunds -------------------------
(***************************************************************************)
(* What the platform's staff do with the schools' subscription charges:    *)
(* refund a settled one, in parts if they like, queue a failed one again,  *)
(* mark one as paid.                                                       *)
(*                                                                         *)
(* A refund reads the charge with its earlier refunds, asks the gateway    *)
(* for the money and only then writes the row and the status, both from    *)
(* what it read. The gateway may pay and its answer be lost.               *)
(***************************************************************************)
EXTENDS Handlers

CONSTANTS
    Charges,
    Amount        \* of each charge, in whole naira

ASSUME RefundAssumptions == Amount \in Nat \ {0}

VARIABLES
    charges,     \* [Charges -> [status, live]]; live: its gateway has a refund
                 \* API and a key, and REFUNDS_LIVE is set, so it is really asked
    refunded,    \* the sum of its refunds that are APPROVED or COMPLETED
    paidOut,     \* what the gateway has paid back
    markedPaid   \* history: charges that were marked as paid by hand

refundVars == <<charges, refunded, paidOut, markedPaid>>

ChargeStatuses == {"PENDING", "FAILED", "SUCCESSFUL", "PARTIALLY_REFUNDED", "REFUNDED"}
Settled == {"SUCCESSFUL", "PARTIALLY_REFUNDED"}

RefundsInit ==
    /\ charges \in [Charges -> [status : {"PENDING"}, live : BOOLEAN]]
    /\ refunded = [c \in Charges |-> 0]
    /\ paidOut = [c \in Charges |-> 0]
    /\ markedPaid = {}

----------------------------------------------------------------------------
(* POST /api/revenue/refunds *)

\* Faulty variant of RefundRead: earlier refunds are not taken off.
RefundReadWhole(p, c, n) ==
    /\ charges[c].status \in Settled
    /\ n <= Amount
    /\ Begin(p, [op |-> "refund", charge |-> c, amount |-> n, already |-> refunded[c]], "ref_gateway")
    /\ UNCHANGED refundVars

\* 409 unless the charge is settled and so much of it is left.
RefundRead(p, c, n) ==
    /\ charges[c].status \in Settled
    /\ n <= Amount - refunded[c]
    /\ Begin(p, [op |-> "refund", charge |-> c, amount |-> n, already |-> refunded[c]], "ref_gateway")
    /\ UNCHANGED refundVars

Pays(p) == paidOut' = [paidOut EXCEPT ![job[p].charge] = @ + job[p].amount]

AsksGateway(p) == charges[job[p].charge].live

\* The gateway is not asked unless it is live; it pays, or refuses, or
\* pays and its answer does not arrive.
AskGateway(p) ==
    /\ pc[p] = "ref_gateway"
    /\ \/ ~AsksGateway(p) /\ GoTo(p, "ref_write") /\ UNCHANGED paidOut
       \/ AsksGateway(p) /\ GoTo(p, "ref_write") /\ Pays(p)
       \/ AsksGateway(p) /\ GoTo(p, "ref_failed") /\ UNCHANGED paidOut
       \/ /\ AsksGateway(p) /\ faults < MaxFaults
          /\ Pays(p)
          /\ faults' = faults + 1
          /\ pc' = [pc EXCEPT ![p] = "ref_failed"]
          /\ UNCHANGED <<job, overlapped>>
    /\ UNCHANGED <<charges, refunded, markedPaid>>

\* One transaction: the row, and the status that follows from what was read.
WriteRefund(p) ==
    /\ pc[p] = "ref_write"
    /\ LET c == job[p].charge IN
       /\ refunded' = [refunded EXCEPT ![c] = @ + job[p].amount]
       /\ charges' = [charges EXCEPT
            ![c].status = IF job[p].already + job[p].amount >= Amount THEN "REFUNDED" ELSE "PARTIALLY_REFUNDED"]
    /\ Finish(p)
    /\ UNCHANGED <<paidOut, markedPaid>>

\* A row with status FAILED, which no later request counts.
WriteFailure(p) ==
    /\ pc[p] = "ref_failed"
    /\ Finish(p)
    /\ UNCHANGED refundVars

----------------------------------------------------------------------------
(* POST /api/revenue/failed-payments/[id]/retry and .../resolve *)

RetryRead(p, c) ==
    /\ charges[c].status = "FAILED"
    /\ Begin(p, [op |-> "retry", charge |-> c], "retry_write")
    /\ UNCHANGED refundVars

RetryWrite(p) ==
    /\ pc[p] = "retry_write"
    /\ charges' = [charges EXCEPT ![job[p].charge].status = "PENDING"]
    /\ Finish(p)
    /\ UNCHANGED <<refunded, paidOut, markedPaid>>

\* Whatever the status of the charge, one already refunded included. Without
\* markPaid only the time of the resolution is written.
ResolveRead(p, c) ==
    /\ Begin(p, [op |-> "resolve", charge |-> c], "resolve_write")
    /\ UNCHANGED refundVars

ResolveWrite(p) ==
    /\ pc[p] = "resolve_write"
    /\ charges' = [charges EXCEPT ![job[p].charge].status = "SUCCESSFUL"]
    /\ markedPaid' = markedPaid \cup {job[p].charge}
    /\ Finish(p)
    /\ UNCHANGED <<refunded, paidOut>>

\* The billing job takes up a pending charge.
Bill(c) ==
    /\ charges[c].status = "PENDING"
    /\ \E s \in {"SUCCESSFUL", "FAILED"} : charges' = [charges EXCEPT ![c].status = s]
    /\ UNCHANGED <<refunded, paidOut, markedPaid, handlerVars>>

----------------------------------------------------------------------------
RefundsNext ==
    \/ \E p \in Procs, c \in Charges :
         \/ \E n \in 1..Amount : RefundRead(p, c, n)
         \/ RetryRead(p, c) \/ ResolveRead(p, c)
    \/ \E p \in Procs :
         \/ AskGateway(p) \/ WriteRefund(p) \/ WriteFailure(p)
         \/ RetryWrite(p) \/ ResolveWrite(p)
         \/ Dies(p) /\ UNCHANGED refundVars
    \/ \E c \in Charges : Bill(c)

RefundsSpec == HandlersInit /\ RefundsInit /\ [][RefundsNext]_<<handlerVars, refundVars>>

----------------------------------------------------------------------------
(* Properties *)

RefundStages == {"ref_gateway", "ref_write", "ref_failed", "retry_write", "resolve_write"}

RefundJobs ==
    [op : {"refund"}, charge : Charges, amount : 1..Amount, already : Nat]
      \cup [op : {"retry", "resolve"}, charge : Charges]

RefundTablesOK ==
    /\ charges \in [Charges -> [status : ChargeStatuses, live : BOOLEAN]]
    /\ refunded \in [Charges -> Nat]
    /\ paidOut \in [Charges -> Nat]
    /\ markedPaid \subseteq Charges

\* The types of the variables.
RefundsTypeOK == HandlersTypeOK(RefundStages, RefundJobs) /\ RefundTablesOK

\* With requests in turn a charge is never refunded beyond its amount, whatever
\* parts it is refunded in, and its status tells how much of it was: unless it
\* was marked as paid again, which lets nothing more out.
RefundsInTurn ==
    ~overlapped => \A c \in Charges :
        /\ refunded[c] <= Amount
        /\ charges[c].status = "REFUNDED" => refunded[c] = Amount
        /\ charges[c].status = "PARTIALLY_REFUNDED" => refunded[c] \in 1..(Amount - 1)
        /\ charges[c].status \notin {"REFUNDED", "PARTIALLY_REFUNDED"} /\ refunded[c] > 0 => c \in markedPaid

\* Overlapping refunds add up to no more than the amount for each request; and
\* when nothing is in progress and nothing failed, the gateway has paid back
\* what the rows say, or nothing at all if it is not asked: "nobody can mistake
\* a bookkeeping entry for a settled transfer".
RefundsBounded ==
    /\ RefundsInTurn
    /\ \A c \in Charges :
         /\ refunded[c] <= Amount * Cardinality(Procs)
         /\ Quiescent /\ faults = 0 => paidOut[c] = IF charges[c].live THEN refunded[c] ELSE 0
=============================================================================
