SPECIFICATION UndisturbedSpec
CONSTANTS
    NULL = NULL
    Caches <- Two
    Blocks <- Two
    Words <- Two
    Values <- Two
    Zero = 0
    Positions = 2
    Ways = 1
    Accesses <- FewAccesses
    Systems <- Both
INVARIANTS
    TypeOK
    DirectoryKnows
    CopiesAgree
PROPERTIES
    ImplementsMemory
