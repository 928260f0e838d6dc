CONSTANTS
    t1 = t1
    t2 = t2
    t3 = t3
    p1 = p1
    p2 = p2
    f1 = f1
    e1 = e1
    e2 = e2
    Q1 = Q1
    Q2 = Q2
    NoQueue = NoQueue
SYMMETRY Symmetry

SPECIFICATION Spec
INVARIANTS SleepersAreWoken  EventsReachTheirWaiter 
CHECK_DEADLOCK FALSE
