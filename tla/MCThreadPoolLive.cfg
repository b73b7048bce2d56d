SPECIFICATION MCFairSpec
CONSTANTS
    Parts = {"pool", "queue"}
    Works = {w1, w2}
    Workers = {i1, i2}
    Clients = {c1}
    MaxImpl = 1
    MaxTime = 2
    NoCall = NoCall
    Threads = {t1, t2, t3}
    Nil = Nil
    Elements = {1}
    Tests = {{}}
    MaxSize = 1
PROPERTIES
    EveryWorkSettles
    EndReached
    EveryCallReturns
CHECK_DEADLOCK FALSE
