SPECIFICATION Spec
CONSTANTS
    Requests = {r1, r2}
    Trades = {t1, t2}
    Listed = 2
    MinPurchase = 1
    Kinds = {"spot", "escrow"}
    Amounts = {1, 2}
    MaxCredits = 2
SYMMETRY Symmetry
CHECK_DEADLOCK FALSE
INVARIANTS
    TradesHold
