---------------------------- MODULE RetryPolicy ----------------------------
(***************************************************************************)
(* The retry configuration of the client (RetryConfig, client.py) and the  *)
(* retry executor with its strategies (agora.retry, not under src/:        *)
(* modelled from spec sections 4.1 and 4.2).                               *)
(*                                                                         *)
(* A strategy is a record; the executor asks every strategy of a list     *)
(* after a failed attempt and retries only if all of them allow it.  Wait  *)
(* times are not modelled: a backoff strategy always allows a retry.       *)
(***************************************************************************)
EXTENDS Integers, Sequences

(* The value of an optional argument that was not supplied (None).         *)
CONSTANT NoArg

(***************************************************************************)
(* RetryConfig.__init__: a missing or negative argument falls back to its  *)
(* default (5 retries, 3 nonce refreshes).                                 *)
(***************************************************************************)
(* Plausible bug: only a missing argument falls back; a negative one is    *)
(* taken as it is.                                                         *)
OrDefaultNoneOnly(arg, default) == IF arg = NoArg THEN default ELSE arg

OrDefault(arg, default) ==
    IF arg = NoArg THEN default ELSE IF arg >= 0 THEN arg ELSE default

RetryConfig(maxRetries, maxNonceRefreshes) ==
    [max_retries         |-> OrDefault(maxRetries, 5),
     max_nonce_refreshes |-> OrDefault(maxNonceRefreshes, 3)]

(* The strategies of agora.retry, as records.                              *)
LimitStrategy(maxAttempts)         == [kind |-> "limit", max |-> maxAttempts]
RetriableErrorsStrategy(errors)    == [kind |-> "retriable", errors |-> errors]
NonRetriableErrorsStrategy(errors) == [kind |-> "nonretriable", errors |-> errors]
BackoffWithJitterStrategy          == [kind |-> "backoff"]

(***************************************************************************)
(* Strategy.should_retry(attempts, error): attempts counts the attempts    *)
(* made so far, the first one included.                                    *)
(***************************************************************************)
ShouldRetry(s, attempts, err) ==
    CASE s.kind = "limit"        -> attempts < s.max
      [] s.kind = "retriable"    -> err \in s.errors
      [] s.kind = "nonretriable" -> err \notin s.errors
      [] s.kind = "backoff"      -> TRUE

(***************************************************************************)
(* retry(strategies, f): after a failure, every strategy of the list must  *)
(* allow another attempt; otherwise the error is raised to the caller.     *)
(***************************************************************************)
RetryAllowed(strategies, attempts, err) ==
    \A i \in 1..Len(strategies) : ShouldRetry(strategies[i], attempts, err)

=============================================================================
