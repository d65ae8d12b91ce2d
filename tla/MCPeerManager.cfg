SPECIFICATION Spec
CONSTANTS
    Intents <- MCOneEach
    MaxDials = 3
    MaxFailures = 1
    Stopping = {1}
CHECK_DEADLOCK FALSE
INVARIANTS
    NoIntentLost
    OneConnection
    SessionInv
    GracefulEndAfterSession
