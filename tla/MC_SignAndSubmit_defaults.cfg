CONSTANTS
    NoArg = NoArg
    NoReply = NoReply
    Procs <- MCProcs
    MaxRetriesArg <- MCNegativeArg
    MaxNonceRefreshesArg <- MCZeroArg
SPECIFICATION Spec
CHECK_DEADLOCK FALSE
INVARIANTS
    AttemptsAsConfigured
