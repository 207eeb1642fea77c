\* Two requests overlap; the server or the worker dies once.
SPECIFICATION FairServer
CONSTANTS
    ada = ada
    bayo = bayo
    Students <- MCStudents
    Rolls <- MCRolls
    PastNine = TRUE
    HasGuardian <- Guarded
    Kinds = {"absent-sms"}
    Attempts = 3
    Concurrency = 1
    Procs = {p1, p2}
    MaxPosts = 2
    MaxCrashes = 1
    NoRoll = NoRoll
INVARIANTS AbsenceAlerted
PROPERTIES GuardianTold
CHECK_DEADLOCK FALSE
