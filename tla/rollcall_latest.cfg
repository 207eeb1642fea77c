\* Two saves, nothing fails.
SPECIFICATION OfflineSpec
CONSTANTS
    ada = ada
    Students <- MCStudents
    Rolls <- MCRolls
    PastNine = TRUE
    HasGuardian <- Nobody
    Kinds = {"absent-sms"}
    Attempts = 1
    Concurrency = 1
    Procs = {p1}
    MaxPosts = 2
    MaxCrashes = 0
    NoRoll = NoRoll
    Tabs = {t1}
    NoTab = NoTab
    Calls = {c1, c2}
    MaxSaves = 2
    MaxFailures = 0
INVARIANTS LatestVersionUploads
CHECK_DEADLOCK FALSE
