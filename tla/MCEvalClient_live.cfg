SPECIFICATION LiveSpec
CONSTANTS
    c1 = c1
    c2 = c2
    c3 = c3
    s1 = s1
    s2 = s2
    main = main
    Callers <- OneCaller
    Senders <- OneSender
    Stopper = main
    QueueSize = 5
    BatchSize = 2
    OnceSend = 2
    IsAsyn = TRUE
    ProxyNumber = 1
    BadProxies <- NoProxy
    IceThreads = 1
    PerCaller = 2
    MaxFailures = 1
PROPERTIES
    EveryRequestAnswered
    StopReturns
