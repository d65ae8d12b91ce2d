SPECIFICATION Spec
CONSTANTS
    Subspaces = {1, 2}
    MaxTime = 2
    MaxDigest = 1
    Origins = {"local", "s1"}
    Streams = {"all", "sender"}
    Paths <- MCPaths
    PrefixOf <- MCPrefixOf
    Writes <- MCWritesOnePrune
    Params <- MCParams
CHECK_DEADLOCK FALSE
INVARIANTS
    StreamInv
    NoLostWakeup
    OrderIndependence
PROPERTIES
    StreamsEndWithStore
    ImplementsWillowStore
