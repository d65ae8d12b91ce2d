SPECIFICATION BisectSpec
CONSTANTS
    Candidates <- MCCandidates
    StartRanges <- MCStartRanges
    max_set_size = 1
    Subspaces = {1, 2}
    Paths = {1, 2, 3}
    Times = {1, 2}
CHECK_DEADLOCK FALSE
INVARIANTS
    PartsPartition
    SplittingProgresses
