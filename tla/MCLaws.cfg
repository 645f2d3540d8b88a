CONSTANTS
    Base = 8
    Inputs <- SizedInput
    Grammar <- OfSized
    Sources <- SizedInput
    Heap0 <- MCHeap
    Docs0 <- MCDocs
    Slots = {s1}
    Calls = {"set_int", "append", "append_node", "remove", "serialize"}
    Fields = {"f"}
    Elems <- Bytes1
    Values = {1}
    Blobs = {}
    MaxEdits = 1
    MaxOps = 3
    MaxBytes = 16
    MaxDepth = 3
SPECIFICATION Spec
INVARIANTS Accepted WriteBack
CHECK_DEADLOCK FALSE
