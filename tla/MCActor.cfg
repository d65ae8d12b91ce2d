SPECIFICATION Spec
CONSTANTS
    Clients = {"a", "b"}
    First = "a"
    Kinds <- MCKinds
    InboxCap = 2
    MaxRequests = 3
CHECK_DEADLOCK FALSE
INVARIANTS
    ActorInv
PROPERTIES
    EverythingEnds
