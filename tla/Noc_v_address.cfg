CONSTANTS
    Masters = {"m1"}
    Slaves = {"a", "b"}
    Switches <- OneSwitch
    InPorts <- TwoPorts
    Route <- OneRoute
    Edge <- OneEdge
    Base <- TwoBases
    Top <- TwoBases
    DefaultSize = 2
    Commands <- Far
    MaxCalls = 1
    MaxSessions <- Tries
SPECIFICATION Spec
INVARIANT RightAddress
