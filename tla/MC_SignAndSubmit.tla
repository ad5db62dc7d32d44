------------------------- MODULE MC_SignAndSubmit -------------------------
(* Two or three submissions on one account, one retry of each loop.        *)
EXTENDS SignAndSubmit

MCProcs == {"p1", "p2"}
MCMaxRetriesArg == 1
MCMaxNonceRefreshesArg == 1

(* A negative max_retries and a zero max_nonce_refreshes: the edges of     *)
(* RetryConfig's fallback.                                                 *)
MCNegativeArg == -1
MCZeroArg == 0
=============================================================================
