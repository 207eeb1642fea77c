\* Two saves, two failures; two requests of the browser overlap.
SPECIFICATION FairOffline
CONSTANTS
    ada = ada
    Students <- MCStudents
    Rolls <- MCRolls
    PastNine = TRUE
    HasGuardian <- Nobody
    Kinds = {"absent-sms"}
    Attempts = 1
    Concurrency = 1
    Procs = {p1}
    MaxPosts = 8
    MaxCrashes = 1
    NoRoll = NoRoll
    Tabs = {t1}
    NoTab = NoTab
    Calls = {c1, c2}
    MaxSaves = 2
    MaxFailures = 2
INVARIANTS OfflineTypeOK LatestKept
PROPERTIES QueueDrains
CHECK_DEADLOCK FALSE
