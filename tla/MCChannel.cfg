SPECIFICATION Spec
CONSTANTS
    Senders = {"a", "b"}
    Lengths = {1, 2, 3}
    Cap = 2
    Modulus = 8
    Amounts <- MCAmounts
    Limited = TRUE
    Window = 1
    MaxSends = 1
    MaxIssues = 2
CHECK_DEADLOCK FALSE
INVARIANTS
    BufferInv
    NothingLostInTransit
PROPERTIES
    ImplementsMessagePipe
    Progress
