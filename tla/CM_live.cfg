SPECIFICATION FairSpec
CONSTANTS
    NULL = NULL
    DefaultAttr = "default"
    Procs <- Two
    Threads <- Three
    AttrIds <- OnlyDefault
    AttrValues <- PlainValues
    Mutexes <- One
    Sems <- None
    Conds <- None
    Premade <- OneMutex
    SemInit <- One
    Calls <- PairCalls
    PrioMax = 1
    Disciplined = TRUE
    RecMax = 0
    SemMax = 1
PROPERTIES
    HandlersEnd
    ReadyRuns
    MutexGranted
