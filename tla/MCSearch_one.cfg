SPECIFICATION Spec
CONSTANTS
    t1 = t1
    t2 = t2
    Threads <- OneThread
    Width = 2
    PassMove = 1
    Repeating <- FirstSecond
    Decided <- SecondFirst
    Loss = 1
    MaxRollouts = 5
    MaxRounds <- Seven
    IceThreads = 2
    MaxFails = 1
INVARIANTS
    SentOnce
    LossCovered
    OneKidInFlight
    SelectionSafe
