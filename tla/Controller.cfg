SPECIFICATION FairSpec
CONSTANTS
    User = User
    Sim = Sim
    NULL = NULL
INVARIANTS
    ResetIsLeft
    PausedIsQuiet
PROPERTIES
    StopMeansStopped
    RunReturns
    PauseTakesEffect
CHECK_DEADLOCK FALSE
