SPECIFICATION Spec
CONSTANTS
    Nodes = {"n", "m"}
    Persistent = {"m"}
    Users = {"u", "v"}
    Namespaces = {"own", "far"}
    Owned = {"far"}
    Points <- MCPoints
    Areas <- MCAreas
    AnySubspace <- MCAnySubspace
    OwnArea <- MCOwnArea
    Received <- MCReceived
    MaxChain = 3
    MaxCaps = 5
    MaxPacks = 5
    MaxEntries = 1
CHECK_DEADLOCK FALSE
INVARIANTS
    AuthInv
    SubspaceCapsFollow
    WidestIsSelected
