SPECIFICATION Spec
CONSTANTS
    k1 = k1 k2 = k2 k3 = k3 k4 = k4
    Keys = {k1, k2, k3, k4}
    Vals = {a, b}
    Mix <- MCMix
    DefaultCap = 4
    SIZE_MAX = 127
    InitCaps = {0, 1, 2, 70}
    Limit = 230
    Free = Free
    NoPut = NoPut
INVARIANTS IInv ProbesEnd NothingLeaks
PROPERTY ImplementsFiniteMap
CHECK_DEADLOCK FALSE
