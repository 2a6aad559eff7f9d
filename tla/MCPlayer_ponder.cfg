SPECIFICATION LiveGameSpec
CONSTANTS
    t1 = t1
    Threads <- OneThread
    Width = 2
    PassMove = 1
    Repeating <- NoLine
    Decided <- NoLine
    Loss = 1
    MaxRollouts = 2
    MaxRounds <- Three
    IceThreads = 1
    MaxFails = 1
    Pondering = TRUE
    StopAfter = 3
    MaxMoves = 4
INVARIANTS
    GameTypeOK
    GameCounted
    MoveToChoose
PROPERTIES
    MovedWhenQuiet
    GenmoveAnswered
