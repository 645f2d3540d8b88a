CONSTANTS
    Base = 8
    Inputs <- CountedInput
    Grammar <- OfCounted
    Sources <- CountedInput
    Heap0 <- MCHeap
    Docs0 <- MCDocs
    Slots = {s1, s2}
    Calls = {"set_int", "append", "append_node", "replace", "remove", "splice"}
    Fields = {"-", "xs"}
    Elems <- Bytes1
    Values = {4}
    Blobs <- OneBlob
    MaxEdits = 2
    MaxOps = 1
    MaxBytes = 16
    MaxDepth = 3
SYMMETRY SlotSymmetry
SPECIFICATION Spec
INVARIANTS IInv
PROPERTIES Persistent FrozenStep
CHECK_DEADLOCK FALSE
