CONSTANTS
    Base = 8
    Inputs <- CountedInput
    Grammar <- OfCounted
    Sources <- CountedInput
    Heap0 <- MCHeap
    Docs0 <- MCDocs
    Slots = {s1}
    Calls = {"set_int"}
    Fields = {"n"}
    Elems <- Bytes1
    Values = {1, 2}
    Blobs = {}
    MaxEdits = 1
    MaxOps = 1
    MaxBytes = 16
    MaxDepth = 3
SPECIFICATION Spec
INVARIANT Accepted
CHECK_DEADLOCK FALSE
