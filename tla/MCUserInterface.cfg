SPECIFICATION MCSpec
CONSTANTS
    Forms = {f1, f2}
    Values = {v1, v2}
    None = None
    Mod = Mod
    Nobody = Nobody
    MaxDepth = 3
    Listeners = {l1, l2}
    TypedValues = {v0, v1, v2}
    Default = v0
    Bad = bad
    MaxNested = 3
    NoListener = NoListener
INVARIANTS
    ReleasedWhenDone
    BridgeAgrees
    OnlyNewAndValid
    ClientLeavesGoodData
PROPERTY ToldOnce
CHECK_DEADLOCK FALSE
