SPECIFICATION Spec
CONSTANTS
    Intents = {"i", "j"}
    Initial <- MCInitial
    Interests <- MCInterests
    Extra <- MCExtra
    LiveIntents = {}
    Detached = {"i"}
    Common = {"A"}
    TheirAreas <- MCTheirs
    MaxActs = 1
    InboxCap = 1
CHECK_DEADLOCK FALSE
INVARIANTS
    NothingForgotten
    CompleteIsReconciled
    IntentsAreSettled

    
