SPECIFICATION Spec
CONSTANTS
    Entries = {"a", "b", "c"}
    Tokens = {"s", "t"}
    TokenOf <- MCTokenOf
    Length <- MCLength
    Encoded <- MCEncoded
    Unsent <- MCUnsent
    ChunkSize = 2
    Cap = 1
    MaxLog = 2
CHECK_DEADLOCK FALSE
INVARIANTS
    DataInv
    OnlyKnownErrors
PROPERTIES
    EntriesArrive
