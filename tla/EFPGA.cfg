CONSTANTS
    Keys = {k1, k2, k3, k4}
    Width = 3
    Height = 3
    Shapes <- FewShapes
SYMMETRY AnyKey
SPECIFICATION Spec
INVARIANT FreeIsExact
PROPERTY KeepsPromise
