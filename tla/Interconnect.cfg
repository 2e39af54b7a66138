CONSTANTS
    NumMasters = 3
    NumSlaves = 2
    Systems <- EverySystem
    Start <- FirstCell
    End <- LastCell
    Locks <- AllLocked
    MaxQueue = 2
    Commands <- Few
SPECIFICATION FairSpec
INVARIANT OneAtATime
PROPERTY TransfersEnd
PROPERTY ImplementsCalls
