SPECIFICATION Spec
CONSTANTS
    t1 = t1
    t2 = t2
    Threads <- TwoThreads
    Width = 1
    PassMove = 1
    Repeating <- NoLine
    Decided <- NoLine
    Loss = 1
    MaxRollouts = 3
    MaxRounds <- BothThree
    IceThreads = 1
    MaxFails = 1
INVARIANTS
    ReadyHasKids
    VisitsAddUp
    RolloutsCounted
    LeftOnlyFailed
