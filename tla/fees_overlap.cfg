\* Two requests overlap and none dies.
SPECIFICATION Spec
CONSTANTS
    i1 = i1
    Invoices <- MCInvoices
    Due <- MCDue
    HasGuardian <- MCInvoices
    References = {r1, r2}
    DeskReferences = {r1, r2}
    MaxAmount = 2
    Procs = {p1, p2}
    MaxCrashes = 0
    NoRow = NoRow
INVARIANTS QuiescentTotalsMatch
CHECK_DEADLOCK FALSE
