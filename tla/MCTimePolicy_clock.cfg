SPECIFICATION LiveSpec
CONSTANTS
    Files <- ShortFiles
    Starts <- SomeStarts
    Clocks <- SomeClocks
    OtherClocks <- SomeOtherClocks
    Speeds <- TwoSpeeds
    MaxThreads = 2
    MaxSearches = 2
    Overrun = 200
    Need <- NeedOf
INVARIANT
    RolloutsLeft
PROPERTIES
    SettingsMeant
    ClockLasts
    EstimateEnds
