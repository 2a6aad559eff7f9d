SPECIFICATION LiveSpec
CONSTANTS
    c1 = c1
    c2 = c2
    c3 = c3
    s1 = s1
    s2 = s2
    main = main
    Callers <- OneCaller
    Senders <- TwoSenders
    Stopper = main
    QueueSize = 2
    BatchSize = 2
    OnceSend = 1
    IsAsyn = TRUE
    ProxyNumber = 1
    BadProxies <- NoProxy
    IceThreads = 1
    PerCaller = 3
    MaxFailures = 0
INVARIANTS
    TokenAccounting
PROPERTIES
    RolloutBreaks
CHECK_DEADLOCK FALSE
