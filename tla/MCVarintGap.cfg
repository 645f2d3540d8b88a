CONSTANTS
    Base = 8
    Inputs <- GapAfterLebInput
    Grammar <- OfGapAfterLeb
    Sources <- GapAfterLebInput
    Heap0 <- MCHeap
    Docs0 <- MCDocs
    Slots = {s1}
    Calls = {"set_int"}
    Fields = {"v"}
    Elems <- Bytes1
    Values = {2}
    Blobs = {}
    MaxEdits = 1
    MaxOps = 1
    MaxBytes = 16
    MaxDepth = 3
SPECIFICATION Spec
INVARIANT GapsKept
CHECK_DEADLOCK FALSE
