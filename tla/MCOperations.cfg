SPECIFICATION MCSpec
CONSTANTS
    Events = {e1}
    Operators = {o1, o2}
    Raisers = {api}
    Workers = {w1}
    Adapters = {"in_app"}
    Configured = {"in_app"}
    P0_BATCH_LIMIT = 25
    P1_BATCH_LIMIT = 50
    MaxDeaths = 1
    Targets = {t1, t2}
    RuleStrategies = {"backoff_retry", "jitter_retry", "auto_correct", "conservative_fallback", "interpolate_or_exclude", "kb_draft_response"}
    Rounds = {r1, r2}
    DEFAULT_MAX_ATTEMPTS = 2
    REMEDIATION_SWEEP_BATCH = 2
    MaxRounds = 2
    MaxLost = 1
    Schedulers = {s1, s2}
    MaxPeriods = 2
    MaxCrashes = 2
CHECK_DEADLOCK FALSE
INVARIANTS
    EscalationsHold
    LeadersTickAlone
PROPERTIES
    P0SentUntilSuccess
    FailedNotForgotten
