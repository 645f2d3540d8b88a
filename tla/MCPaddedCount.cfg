CONSTANTS
    Base = 8
    Inputs <- PaddedInput
    Grammar <- OfLebCounted
    Sources <- PaddedInput
    Heap0 <- MCHeap
    Docs0 <- MCDocs
    Slots = {s1}
    Calls = {"append", "remove", "serialize"}
    Fields = {"-"}
    Elems <- Bytes1
    Values = {1}
    Blobs = {}
    MaxEdits = 1
    MaxOps = 2
    MaxBytes = 16
    MaxDepth = 3
SPECIFICATION Spec
INVARIANT SameAnswer
CHECK_DEADLOCK FALSE
