SPECIFICATION Spec
CONSTANTS
    NULL = NULL
    DefaultAttr = "default"
    Procs <- Two
    Threads <- Three
    AttrIds <- OnlyDefault
    AttrValues <- PlainValues
    Mutexes <- One
    Sems <- One
    Conds <- One
    Premade <- Nothing
    SemInit <- One
    Calls <- EveryCall
    PrioMax = 1
    Disciplined = TRUE
    RecMax = 0
    SemMax = 1
INVARIANTS
    TypeOK
    SchedLockDiscipline
    ThreadInOnePlace
    ObjectsCoherent
    CondKnowsMutex
    NoSilentHang
    NoCallRefused
PROPERTIES
    OnlyOwnerReleases
    ImplementsPthreads
