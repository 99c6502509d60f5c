SPECIFICATION Spec
CONSTANTS
    Sessions = {s1, s2}
    Scores = {90, 96}
    Bars = {95}
    Learners = {}
    InitStates = {"submitted"}
    Patches = {}
    Triggers = {"registry_approved"}
    ManualRuns = {"vvb_liaison"}
    Verdicts = {"reject"}
    MaxSteps = 3
    MaxRetries = 1
    MaxQueue = 1
    MaxFaults = 1
SYMMETRY SessionSymmetry
CHECK_DEADLOCK FALSE
INVARIANTS
    AdvancesAreEarned
