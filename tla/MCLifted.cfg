CONSTANTS
    Base = 8
    Inputs <- CountedTwo
    Grammar <- OfCountedTwice
    Sources <- CountedTwo
    Heap0 <- MCHeap
    Docs0 <- MCDocs
    Slots = {s1}
    Calls = {"append_node"}
    Fields = {"-"}
    Elems <- Bytes1
    Values = {1}
    Blobs = {}
    MaxEdits = 1
    MaxOps = 1
    MaxBytes = 16
    MaxDepth = 3
SPECIFICATION Spec
PROPERTY LiftsKeepTheirValue
CHECK_DEADLOCK FALSE
