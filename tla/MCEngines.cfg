SPECIFICATION MCSpec
CONSTANTS
    Sessions = {s1}
    Scores = {97}
    Bars = {95, 97}
    Learners = {"reporting"}
    InitStates = {"onboarding", "verified"}
    Patches = {"rejected"}
    Triggers = {}
    ManualRuns = {}
    Verdicts = {}
    MaxSteps = 3
    MaxRetries = 1
    MaxQueue = 2
    MaxFaults = 1
    Graphs <- MCGraphs
    Chain <- MCChain
CHECK_DEADLOCK FALSE
INVARIANTS
    StepsHold
PROPERTIES
    ReachesSteady
    ImplementsRun
