SPECIFICATION MCSpec
CONSTANTS
    Files = {f1}
    Contents <- MCContents
    Readings = {m1}
    Payloads <- MCPayloads
    IngestWorkers = {w1, w2}
    Hooks = {h1, h2}
    IngestRetries = 1
    ConfidenceThreshold = 8500
    HasPeriod = TRUE
    MaxIngestFaults = 2
    MaxReprocessed = 1
    MaxEdits = 2
    MaxWindows = 1
    Handlers = {b1, b2}
    Questions <- MCQuestions
    TotalPhotos = 2
    MaxMessages = 2
    MaxSent = 3
    MaxBotFaults = 1
    ErasureRequests = {"a", "b"}
    Asked <- MCAsked
    SurveyRows <- MCSurveys
    LeadRows <- MCLeads
    Tickets <- MCTickets
    AuditedUsers = {"u1"}
    BatchSize = 2
    EraseRetries = 1
    EraseWorkers = {w1, w2}
    MaxEraseFaults = 1
    MaxEraseDeaths = 1
    MaxDecisions = 1
CHECK_DEADLOCK FALSE
INVARIANTS
    DataIsAccountedFor
    ConversationsHold
    ErasureHolds
PROPERTIES
    UploadConcludes
