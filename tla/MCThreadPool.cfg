SPECIFICATION MCSpec
CONSTANTS
    Parts = {"pool", "queue"}
    Works = {w1, w2}
    Workers = {i1, i2}
    Clients = {c1}
    MaxImpl = 2
    MaxTime = 2
    NoCall = NoCall
    Threads = {t1, t2, t3}
    Nil = Nil
    Elements <- Priorities
    Tests <- UrgentEnough
    MaxSize = 2
SYMMETRY Symmetry
INVARIANTS
    NoOversleep
    OnlyScheduledDropped
    NeverWithoutPool
    BatchesLinearize
    HandlerAlone
PROPERTY
    ExecutorKept
CHECK_DEADLOCK FALSE
