SPECIFICATION MCSpec
CONSTANTS
    LeadWorkers = {w1, w2}
    Urls = {u1}
    DaysSeen = {100}
    DaysLeft = {10}
    HandRatings <- MCRatings
    HandDates = {"ordered", "inverted"}
    MAX_RETRIES = 1
    MAX_DOCUMENT_FETCH_ATTEMPTS = 2
    MaxRequests = 1
    MaxFaults = 1
CHECK_DEADLOCK FALSE
INVARIANTS
    LeadsHold
PROPERTIES
    LeadsGoOn
