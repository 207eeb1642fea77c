\* One request at a time.
SPECIFICATION Spec
CONSTANTS
    Books = {novel}
    Students = {ada, bayo}
    MaxCopies = 2
    MaxLoans = 2
    MaxTime = 1
    DayLength = 2
    FinePerDay = 50
    Procs = {p1}
    NoJob = NoJob
INVARIANTS DeletedBookIsBack
