SPECIFICATION Spec
CONSTANTS
    NULL = NULL
    DefaultAttr = "default"
    Procs <- Two
    Threads <- Three
    AttrIds <- AndTwo
    AttrValues <- RankedValues
    Mutexes <- One
    Sems <- None
    Conds <- None
    Premade <- OneMutex
    SemInit <- One
    Calls <- RankCalls
    PrioMax = 1
    Disciplined = TRUE
    RecMax = 1
    SemMax = 1
INVARIANTS
    OwnerCanRelease
    NoIdleWhileReady
