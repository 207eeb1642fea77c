\* Two requests overlap.
SPECIFICATION Spec
CONSTANTS
    Books = {novel}
    Students = {ada, bayo}
    MaxCopies = 2
    MaxLoans = 3
    MaxTime = 2
    DayLength = 2
    FinePerDay = 50
    Procs = {p1, p2}
    NoJob = NoJob
INVARIANTS TypeOK CopiesNotLost
PROPERTIES ReturnIsFinal
SYMMETRY Interchangeable
CONSTRAINT ThirdLoanToday
