CONSTANTS
    Base = 8
    Inputs <- ShadowedInput
    Grammar <- OfShadowed
    Sources <- ShadowedInput
    Heap0 <- MCHeap
    Docs0 <- MCDocs
    Slots = {s1}
    Calls = {"append"}
    Fields = {"-"}
    Elems <- Bytes1
    Values = {1}
    Blobs = {}
    MaxEdits = 1
    MaxOps = 1
    MaxBytes = 16
    MaxDepth = 3
SPECIFICATION Spec
INVARIANT Accepted
CHECK_DEADLOCK FALSE
