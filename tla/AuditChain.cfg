SPECIFICATION FairSpec
CONSTANTS
    Workers = {w1, w2}
    Ids = {1, 2, 3}
    Items = {i1, i2}
    NoItem = NoItem
    MaxClock = 2
INVARIANTS
    PrevIsEarlier
    ChainIsSound
PROPERTIES
    AppendEnds
