SPECIFICATION Spec
CONSTANTS
    t1 = t1
    t2 = t2
    t3 = t3
    t4 = t4
    Threads <- MCThreads
    MaxTake = 2
    MaxAdd = 1
    MaxCount = 5
SYMMETRY MCSymmetry
INVARIANTS
    TypeOK
    NoStrandedWaiter
    UnitsHaveTakers
PROPERTY
    Refinement
