SPECIFICATION Spec
CONSTANTS
    c1 = c1
    c2 = c2
    c3 = c3
    s1 = s1
    s2 = s2
    main = main
    Callers <- TwoCallers
    Senders <- OneSender
    Stopper = main
    QueueSize = 3
    BatchSize = 2
    OnceSend = 2
    IsAsyn = TRUE
    ProxyNumber = 3
    BadProxies <- LastProxy
    IceThreads = 1
    PerCaller = 1
    MaxFailures = 1
SYMMETRY CallerSymmetry
INVARIANTS
    TypeOK
    SlotAccounting
    PermitAccounting
    StoppedIsQuiet
    StopPushesSuffice
PROPERTY
    Refinement
CHECK_DEADLOCK FALSE
