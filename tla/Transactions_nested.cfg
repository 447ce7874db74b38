SPECIFICATION TxSpec
CONSTANTS
    Depth = 3
    MaxScopes = 3
CHECK_DEADLOCK FALSE
INVARIANTS
    CallbacksMatchOutcome
