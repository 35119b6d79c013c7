SPECIFICATION Spec
CONSTANTS
    t1 = t1
    t2 = t2
    d1 = d1
    d2 = d2
    k1 = k1
    k2 = k2
    x1 = x1
    x2 = x2
    Programs <- LeakPrograms
    None = none
INVARIANT EveryStreamClosed
