CONSTANTS
    Base = 4
    Inputs <- FullInput
    Grammar <- OfCounted
    Sources <- FullInput
    Heap0 <- MCHeap
    Docs0 <- MCDocs
    Slots = {s1}
    Calls = {"append"}
    Fields = {"-"}
    Elems <- Bytes1
    Values = {1}
    Blobs = {}
    MaxEdits = 1
    MaxOps = 1
    MaxBytes = 16
    MaxDepth = 3
SPECIFICATION Spec
INVARIANT Accepted
CHECK_DEADLOCK FALSE
