SPECIFICATION MCFairSpec
CONSTANTS
    Parts = {"pool"}
    Works = {w1, w2}
    Workers = {i1, i2}
    Clients = {c1}
    MaxImpl = 2
    MaxTime = 2
    NoCall = NoCall
    Threads = {t1, t2, t3}
    Nil = Nil
    Elements = {1}
    Tests = {{}}
    MaxSize = 1
PROPERTY
    ResizeReturns
CHECK_DEADLOCK FALSE
