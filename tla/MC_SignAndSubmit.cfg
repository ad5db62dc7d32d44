CONSTANTS
    NoArg = NoArg
    NoReply = NoReply
    Procs <- MCProcs
    MaxRetriesArg <- MCMaxRetriesArg
    MaxNonceRefreshesArg <- MCMaxNonceRefreshesArg
SPECIFICATION Spec
CHECK_DEADLOCK FALSE
INVARIANTS
    TypeOK
    SeqNeverAhead
    NonceExhaustionJustified
    AppliedPerAttempt
PROPERTIES
    Termination
