SPECIFICATION MCSpec
CONSTANTS
    Persons = {p1, p2}
    Rows = {u1, u2, u3}
    Invites = {i1, i2}
    Callers = {c1, c2}
    MaxForms = 4
    Sids = {k1, k2, k3}
    AuthRequests = {r1, r2}
    MaxFailedLogins = 2
    UseMfa = TRUE
    MaxAuthCalls = 3
    MaxAuthFaults = 1
    Documents = {d1}
    Pdds = {d1}
    Pipelines = {q1, q2}
    StepTries = 2
    MaxHandled = 1
    MaxPortalFaults = 1
    WorkerChildren = {c1, c2}
    JourneyOrder <- MCJourneyOrder
    AccountJourneys = {"synthetic_developer_journey"}
    StreakLimit = 2
    MaxDays = 3
    MaxTicks = 2
    MaxJourneyRuns = 2
    MaxBeatFaults = 1
    Contents = {p1, p2}
    MaxProofs = 6
    MaxAnchors = 2
    Captured = {h1, h2, h3}
    MaxBatch = 5
    Projects = {g1}
    Advancers = {a1}
    Reviewers = {r1, r2}
    Confidences = {86, 96, 98}
    Verdicts = {"human_approved", "human_rejected"}
    MaxDecisions = 4
    MaxEdits = 1
    MaxWeeklies = 1
    Ingests = {k1, k2, k3}
    Texts = {0, 5, 6, 7}
    ChunkSize = 4
    ChunkOverlap = 2
    MaxRemovals = 1
    Clerks = {k1, k2}
    ConsentTypes = {e1, e2}
    Officers = {o1, o2}
    Versions = {v1}
    MaxConsents = 4
    MaxConflicts = 3
    MaxPatches = 4
    Listings = {l1}
    Buyers = {b1, b2}
    Runs = {m1, m2}
    Fits <- MCFits
    MaxChanges = 1
    MaxSources = 3
    MaxCalcs = 2
    MaxReports = 2
    Compliances = {50, 100}
    Figures <- MCFigures
    Births = {1, 2}
    Marks = {100}
    NoModel = NoModel
    Operators = {o1, o2}
    References = {3000, 4800, 5000, 5500}
    Fuels = {"wood", "charcoal"}
CHECK_DEADLOCK FALSE
INVARIANTS
    AccountsHold
    SessionsHold
    ApplicantIsServed
    JourneysHold
    ProofsVerify
    LearningHolds
    LibraryHolds
    RegistersHold
    SuggestionsHold
    AgentsAdvanceOnEvidence
    CalculationsHold
PROPERTIES
    NeverDraftAgain
