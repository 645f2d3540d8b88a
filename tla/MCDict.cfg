SPECIFICATION Spec
CONSTANTS
    k1 = k1 k2 = k2 k3 = k3
    Keys = {k1, k2, k3}
    Vals = {a, b}
    Radix = 2
    Nibbles = 3
    Hashes <- MCHashes
    NoKey = NoKey
INVARIANTS ShapeIsItsKeys NothingLeaks OnceEachInOrder
PROPERTY ImplementsFiniteMap
CHECK_DEADLOCK FALSE
SYMMETRY ValsAlike
