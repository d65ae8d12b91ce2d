SPECIFICATION SyncSpec
CONSTANTS
    max_set_size = 1
    Targets = {"t1", "t2"}
    AreaRange <- MCTwoAreas
    Entry <- MCFewEntries
    Prunes <- MCPrunes
    Holdings <- MCFewHoldings
    Eager <- MCEager
    LocalWrites <- MCWrites
    MaxWrites = 1
    ChannelCap = 2
CHECK_DEADLOCK FALSE
INVARIANTS
    BooksAgree
    NoStragglers
    ReconciledAreaIsComplete
PROPERTIES
    ReconciledUnlessBlocked
