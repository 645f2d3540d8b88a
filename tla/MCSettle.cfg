CONSTANTS
    Base = 8
    Inputs <- FramedAndGappedInputs
    Grammar <- FramedAndGapped
    Sources <- FramedAndGappedInputs
    Heap0 <- MCHeap
    Docs0 <- MCDocs
    Slots = {s1}
    Calls = {"set_int", "set_bytes", "serialize"}
    Fields = {"f", "b"}
    Elems <- Bytes1
    Values = {0, 1}
    Blobs <- SomeBlobs
    MaxEdits = 2
    MaxOps = 2
    MaxBytes = 16
    MaxDepth = 3
SPECIFICATION FairSpec
INVARIANTS Accepted SameAnswer GapsKept
PROPERTY WalkEnds
CHECK_DEADLOCK FALSE
