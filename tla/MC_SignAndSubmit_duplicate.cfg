CONSTANTS
    NoArg = NoArg
    NoReply = NoReply
    Procs <- MCProcs
    MaxRetriesArg <- MCMaxRetriesArg
    MaxNonceRefreshesArg <- MCMaxNonceRefreshesArg
SPECIFICATION Spec
CHECK_DEADLOCK FALSE
INVARIANT
    AppliedAtMostOnce
