CONSTANTS
    Masters = {"m1", "m2"}
    Slaves = {"s"}
    Switches <- OneSwitch
    InPorts <- OnePorts
    Route <- OneRoute
    Edge <- OneEdge
    Base <- Zero
    Top <- Zero
    DefaultSize = 1
    Commands <- Short
    MaxCalls = 1
    MaxSessions <- Tries
SPECIFICATION Spec
INVARIANT NothingOutlives
INVARIANT NeverOverfull
INVARIANT CallsEnd
PROPERTY ImplementsCalls
