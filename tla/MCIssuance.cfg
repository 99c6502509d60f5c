SPECIFICATION MCSpec
CONSTANTS
    Tokens = {k1, k2, k3, k4, k5}
    Minted = {k1}
    Listings = {l1}
    Requests = {q1, q2}
    Tonnes = 2
    MaxRetired = 2
    ReportIds = {r1}
    Jobs = {j1}
    Editors = {e1}
    Polls = {p1, p2}
    MAX_RETRIES = 3
    MaxFailures = 1
    MaxCopies = 1
    MaxItems = 1
CHECK_DEADLOCK FALSE
INVARIANTS
    LedgerIsExact
    ReportsHold
PROPERTIES
    GenerationConcludes
