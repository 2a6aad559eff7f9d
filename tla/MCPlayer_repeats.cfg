SPECIFICATION GameSpec
CONSTANTS
    t1 = t1
    Threads <- OneThread
    Width = 2
    PassMove = 1
    Repeating <- SecondMove
    Decided <- NoLine
    Loss = 1
    MaxRollouts = 2
    MaxRounds <- Three
    IceThreads = 1
    MaxFails = 0
    Pondering = FALSE
    StopAfter = 400
    MaxMoves = 2
INVARIANTS
    MoveToChoose
