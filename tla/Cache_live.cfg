SPECIFICATION FairSpec
CONSTANTS
    NULL = NULL
    Caches <- Three
    Blocks <- One
    Words <- One
    Values <- One
    Zero = 0
    Positions = 1
    Ways = 1
    Accesses <- Waiting
    Systems <- OnMixed
INVARIANTS
    NobodyInside
PROPERTIES
    AccessEnds
