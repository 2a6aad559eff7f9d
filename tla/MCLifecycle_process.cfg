SPECIFICATION LiveSpec
CONSTANTS
    w1 = w1
    w2 = w2
    none = none
    Workers <- TwoWorkers
    Tasks <- TwoEach
    NoTask = none
    SearchThreads = 2
    PondersToo = TRUE
    MaxPlayers = 3
    MaxDetached = 2
INVARIANTS
    RolloutsFindPlayer
    SearchesApart
    HandedOverSoundly
    NullUseExplained
PROPERTIES
    Refinement
    SearchAnswered
