\* Two references, two requests at a time, one of which may die.
SPECIFICATION Spec
CONSTANTS
    i1 = i1
    Invoices <- MCInvoices
    Due <- MCDue
    HasGuardian <- MCInvoices
    References = {r1, r2}
    DeskReferences = {r1, r2}
    MaxAmount = 2
    Procs = {p1, p2}
    MaxCrashes = 1
    NoRow = NoRow
INVARIANTS TypeOK StatusMatchesTotal PaidIsFunded ReceiptAtMostOnce AcknowledgedIsRecorded
PROPERTIES LedgerImplemented
SYMMETRY Interchangeable
CHECK_DEADLOCK FALSE
