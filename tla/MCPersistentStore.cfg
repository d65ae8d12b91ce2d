SPECIFICATION StoreSpec
CONSTANTS
    Paths <- MCPaths
    PrefixOf <- MCPrefixOf
    Entry <- MCEntries
    Items = {"cap"}
    MaxIngests = 4
INVARIANTS
    TokenInv
    ReadInv
    LogReplaysToEntries
    NothingIsLost
