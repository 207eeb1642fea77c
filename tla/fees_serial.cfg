\* One request at a time: what holds when requests do not overlap.
SPECIFICATION FairSpec
CONSTANTS
    i1 = i1
    Invoices <- MCInvoices
    Due <- MCDue
    HasGuardian <- MCInvoices
    References = {r1, r2}
    DeskReferences = {r1, r2}
    MaxAmount = 2
    Procs = {p1}
    MaxCrashes = 1
    NoRow = NoRow
INVARIANTS QuiescentTotalsMatch
PROPERTIES SettledStaysSettled PaidChargeIsRecorded
CHECK_DEADLOCK FALSE
