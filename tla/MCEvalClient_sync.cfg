SPECIFICATION Spec
CONSTANTS
    c1 = c1
    c2 = c2
    c3 = c3
    s1 = s1
    s2 = s2
    main = main
    Callers <- ThreeCallers
    Senders <- OneSender
    Stopper = main
    QueueSize = 2
    BatchSize = 2
    OnceSend = 1
    IsAsyn = FALSE
    ProxyNumber = 4
    BadProxies <- LastProxy
    IceThreads = 1
    PerCaller = 2
    MaxFailures = 1
SYMMETRY ThreeSymmetry
INVARIANTS
    OverMeansAnswered
    NobodyForgotten
PROPERTIES
    Refinement
