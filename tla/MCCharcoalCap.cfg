SPECIFICATION CalculationsSpec
CONSTANTS
    Operators = {o1}
    References = {3000, 5500}
    Fuels = {"wood", "charcoal"}
CHECK_DEADLOCK FALSE
INVARIANTS
    CapHolds
