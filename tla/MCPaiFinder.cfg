SPECIFICATION PaiSpec
CONSTANT Auths <- MCMixed
CHECK_DEADLOCK FALSE
INVARIANTS
    HandlesAgree
    NothingBeforeTheReveal
    EachOnce
PROPERTIES
    EqualAreasMeet
