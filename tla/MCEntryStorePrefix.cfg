SPECIFICATION Spec
CONSTANTS
    Subspaces = {1, 2}
    MaxTime = 2
    MaxDigest = 1
    Origins = {"local", "s1"}
    Streams = {}
    Paths <- MCPaths
    PrefixOf <- MCPrefixOf
    Writes <- MCWritesPrefix
    Params <- MCNoParams
CHECK_DEADLOCK FALSE
INVARIANTS
    PrunedByItsPruner
