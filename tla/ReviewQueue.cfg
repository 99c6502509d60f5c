SPECIFICATION FairSpec
CONSTANTS
    Items = {i1, i2}
    Reviewers = {r1}
    Verdicts = {"reject"}
    Priorities = {3, 4}
    Patched = {"in_review"}
    MaxClock = 2
    MaxCrashes = 1
CHECK_DEADLOCK FALSE
INVARIANTS
    AuditExplains
PROPERTIES
    PendingEnds
