\* One request at a time, one of them dies.
SPECIFICATION FairSpec
CONSTANTS
    i1 = i1
    Invoices <- MCInvoices
    Due <- MCDue
    HasGuardian <- MCInvoices
    References = {r1, r2}
    DeskReferences = {}
    MaxAmount = 2
    Procs = {p1}
    MaxCrashes = 1
    NoRow = NoRow
PROPERTIES PaidChargeIsCounted
CHECK_DEADLOCK FALSE
