--------------------------- MODULE SignAndSubmit ---------------------------
(***************************************************************************)
(* The transaction submission coordinator, Client._sign_and_submit_builder *)
(* (client.py), run by several independent submissions that share one     *)
(* source account, against a ledger that keeps the account's sequence      *)
(* number, over a network that delays, loses and times out calls.          *)
(*                                                                         *)
(* One submission: fetch the account's sequence number once, then sign at  *)
(* fetched + offset and submit; on a bad-nonce answer increment offset and *)
(* sign again, under the nonce strategies {RetriableErrors(BadNonce),      *)
(* Limit(max_nonce_refreshes + 1)}.  Each submit is an RPC of the internal *)
(* client, retried on a transport error under {NonRetriableErrors(...),    *)
(* Limit(max_retries + 1), Backoff} with the same signed bytes (modelled   *)
(* from the spec, the internal client is not under src/).                  *)
(***************************************************************************)
EXTENDS Integers, FiniteSets, RetryPolicy

CONSTANTS
    Procs,                \* the concurrent submissions on one source account
    MaxRetriesArg,        \* RetryConfig(max_retries = ...), or NoArg
    MaxNonceRefreshesArg, \* RetryConfig(max_nonce_refreshes = ...), or NoArg
    NoReply               \* no answer has arrived for the pending RPC

ASSUME ArgsAssumption ==
    /\ MaxRetriesArg \in Int \cup {NoArg}
    /\ MaxNonceRefreshesArg \in Int \cup {NoArg}
    /\ NoArg \notin Int
    /\ NoReply \notin {"ok", "failed", "BadNonce", "Unavailable"}

Config == RetryConfig(MaxRetriesArg, MaxNonceRefreshesArg)

(* Client.__init__: the strategies of the internal client and of the nonce *)
(* loop.                                                                   *)
NonRetriableErrors ==
    {"AccountExists", "TransactionMalformed", "SenderDoesNotExist",
     "DestinationDoesNotExist", "InsufficientBalance", "InsufficientFee",
     "TransactionRejected", "InvoiceError", "BadNonce"}

InternalRetryStrategies ==
    << NonRetriableErrorsStrategy(NonRetriableErrors),
       LimitStrategy(Config.max_retries + 1),
       BackoffWithJitterStrategy >>

(* Plausible bug: the limit given the refreshes without the first attempt. *)
NonceRetryStrategiesNoFirstAttempt ==
    << RetriableErrorsStrategy({"BadNonce"}),
       LimitStrategy(Config.max_nonce_refreshes) >>

NonceRetryStrategies ==
    << RetriableErrorsStrategy({"BadNonce"}),
       LimitStrategy(Config.max_nonce_refreshes + 1) >>

(* What the ledger answers to a transaction with the right sequence        *)
(* number: applied, or failed at apply time; both consume the number.      *)
Applied == {"ok", "failed"}
Replies == Applied \cup {"BadNonce", "Unavailable"}
Results == Applied \cup {"BadNonce", "Unavailable", "none"}

VARIABLES
    ledgerSeq,      \* the source account's sequence number on the ledger
    applied,        \* applied[p]: transactions of submission p applied
    net,            \* requests sent and not yet processed by the ledger
    pc,             \* where each submission is
    fetched,        \* source_info.sequence_number as read by the submission
    offset,         \* the local offset of _sign_and_submit_builder
    nonceTries,     \* attempts of the nonce loop so far
    transportTries, \* attempts of the current RPC's transport loop so far
    calls,          \* RPCs sent by the submission; names its requests
    reply,          \* the answer to the pending RPC, or NoReply
    result          \* what the submission returned or raised

vars == <<ledgerSeq, applied, net, pc, fetched, offset, nonceTries,
          transportTries, calls, reply, result>>

clientVars == <<pc, fetched, offset, nonceTries, transportTries, calls,
                reply, result>>

(* The sequence number a submission signs with (builder.sequence).         *)
Candidate(p) == fetched[p] + offset[p]

Request(p) == [proc |-> p, seq |-> Candidate(p), call |-> calls[p] + 1]

TypeOK ==
    /\ ledgerSeq \in Nat
    /\ applied \in [Procs -> Nat]
    /\ net \subseteq [proc : Procs, seq : Nat, call : Nat]
    /\ pc \in [Procs -> {"fetch", "sign", "wait", "done"}]
    /\ fetched \in [Procs -> Nat]
    /\ offset \in [Procs -> Nat]
    /\ nonceTries \in [Procs -> Nat]
    /\ transportTries \in [Procs -> Nat]
    /\ calls \in [Procs -> Nat]
    /\ reply \in [Procs -> Replies \cup {NoReply}]
    /\ result \in [Procs -> Results]

Init ==
    /\ ledgerSeq = 0
    /\ applied = [p \in Procs |-> 0]
    /\ net = {}
    /\ pc = [p \in Procs |-> "fetch"]
    /\ fetched = [p \in Procs |-> 0]
    /\ offset = [p \in Procs |-> 1]
    /\ nonceTries = [p \in Procs |-> 0]
    /\ transportTries = [p \in Procs |-> 0]
    /\ calls = [p \in Procs |-> 0]
    /\ reply = [p \in Procs |-> NoReply]
    /\ result = [p \in Procs |-> "none"]

-----------------------------------------------------------------------------
(* Client steps.                                                           *)

(* source_info = get_account_info(signers[0]); offset = 1.                 *)
FetchAccount(p) ==
    /\ pc[p] = "fetch"
    /\ fetched' = [fetched EXCEPT ![p] = ledgerSeq]
    /\ offset' = [offset EXCEPT ![p] = 1]
    /\ pc' = [pc EXCEPT ![p] = "sign"]
    /\ UNCHANGED <<ledgerSeq, applied, net, nonceTries, transportTries, calls,
                   reply, result>>

(* get_account_info raises (its own retries exhausted): nothing is sent.   *)
FetchAccountFails(p) ==
    /\ pc[p] = "fetch"
    /\ pc' = [pc EXCEPT ![p] = "done"]
    /\ result' = [result EXCEPT ![p] = "Unavailable"]
    /\ UNCHANGED <<ledgerSeq, applied, net, fetched, offset, nonceTries,
                   transportTries, calls, reply>>

(* _sign_and_submit: builder.sequence = fetched + offset, sign, and send   *)
(* the first call of submit_transaction.                                   *)
SignAndSubmit(p) ==
    /\ pc[p] = "sign"
    /\ net' = net \cup {Request(p)}
    /\ nonceTries' = [nonceTries EXCEPT ![p] = @ + 1]
    /\ transportTries' = [transportTries EXCEPT ![p] = 1]
    /\ calls' = [calls EXCEPT ![p] = @ + 1]
    /\ pc' = [pc EXCEPT ![p] = "wait"]
    /\ UNCHANGED <<ledgerSeq, applied, fetched, offset, reply, result>>

(* Plausible bug: the RPC is made without a deadline.                      *)
TimeoutNever(p) ==
    /\ FALSE
    /\ UNCHANGED vars

(* The RPC's deadline passes with no answer.                               *)
Timeout(p) ==
    /\ pc[p] = "wait"
    /\ reply[p] = NoReply
    /\ reply' = [reply EXCEPT ![p] = "Unavailable"]
    /\ UNCHANGED <<ledgerSeq, applied, net, pc, fetched, offset, nonceTries,
                   transportTries, calls, result>>

(* Plausible bug: the sequence is advanced on a transport retry too.       *)
RetryTransportAdvancingSeq(p) ==
    /\ pc[p] = "wait"
    /\ reply[p] = "Unavailable"
    /\ RetryAllowed(InternalRetryStrategies, transportTries[p], "Unavailable")
    /\ offset' = [offset EXCEPT ![p] = @ + 1]
    /\ net' = net \cup {[Request(p) EXCEPT !.seq = @ + 1]}
    /\ transportTries' = [transportTries EXCEPT ![p] = @ + 1]
    /\ calls' = [calls EXCEPT ![p] = @ + 1]
    /\ reply' = [reply EXCEPT ![p] = NoReply]
    /\ UNCHANGED <<ledgerSeq, applied, pc, fetched, nonceTries, result>>

(* The internal client's retry: the same signed transaction is sent again. *)
RetryTransport(p) ==
    /\ pc[p] = "wait"
    /\ reply[p] = "Unavailable"
    /\ RetryAllowed(InternalRetryStrategies, transportTries[p], "Unavailable")
    /\ net' = net \cup {Request(p)}
    /\ transportTries' = [transportTries EXCEPT ![p] = @ + 1]
    /\ calls' = [calls EXCEPT ![p] = @ + 1]
    /\ reply' = [reply EXCEPT ![p] = NoReply]
    /\ UNCHANGED <<ledgerSeq, applied, pc, fetched, offset, nonceTries, result>>

(* Lines 435-437: a bad-nonce answer increments offset and is raised; the  *)
(* nonce strategies decide whether to sign again or to raise it.           *)
RefreshNonce(p) ==
    /\ pc[p] = "wait"
    /\ reply[p] = "BadNonce"
    /\ offset' = [offset EXCEPT ![p] = @ + 1]
    /\ reply' = [reply EXCEPT ![p] = NoReply]
    /\ IF RetryAllowed(NonceRetryStrategies, nonceTries[p], "BadNonce")
         THEN UNCHANGED result /\ pc' = [pc EXCEPT ![p] = "sign"]
         ELSE /\ result' = [result EXCEPT ![p] = "BadNonce"]
              /\ pc' = [pc EXCEPT ![p] = "done"]
    /\ UNCHANGED <<ledgerSeq, applied, net, fetched, nonceTries,
                   transportTries, calls>>

(* Plausible bug: whatever answer is pending ends the submission.         *)
FinishAnyReply(p) ==
    /\ pc[p] = "wait"
    /\ result' = [result EXCEPT ![p] = reply[p]]
    /\ pc' = [pc EXCEPT ![p] = "done"]
    /\ reply' = [reply EXCEPT ![p] = NoReply]
    /\ UNCHANGED <<ledgerSeq, applied, net, fetched, offset, nonceTries,
                   transportTries, calls>>

(* Any other answer ends the submission: a transport error that the        *)
(* internal client may not retry is raised through the nonce loop (it is   *)
(* not a BadNonceError), an applied or failed transaction is returned.     *)
Finish(p) ==
    /\ pc[p] = "wait"
    /\ \/ reply[p] \in Applied
       \/ /\ reply[p] = "Unavailable"
          /\ ~RetryAllowed(InternalRetryStrategies, transportTries[p],
                           "Unavailable")
    /\ result' = [result EXCEPT ![p] = reply[p]]
    /\ pc' = [pc EXCEPT ![p] = "done"]
    /\ reply' = [reply EXCEPT ![p] = NoReply]
    /\ UNCHANGED <<ledgerSeq, applied, net, fetched, offset, nonceTries,
                   transportTries, calls>>

-----------------------------------------------------------------------------
(* Ledger and network steps.                                               *)

(* The ledger processes request m: it applies it iff its sequence number   *)
(* is the next one.  The answer reaches the submission only if the RPC     *)
(* that sent m is still waiting, and may be lost on the way.               *)
LedgerProcess(m) ==
    /\ net' = net \ {m}
    /\ \E answer \in Replies \ {"Unavailable"}, delivered \in BOOLEAN :
         /\ IF m.seq = ledgerSeq + 1
              THEN /\ answer \in Applied
                   /\ ledgerSeq' = m.seq
                   /\ applied' = [applied EXCEPT ![m.proc] = @ + 1]
              ELSE /\ answer = "BadNonce"
                   /\ UNCHANGED <<ledgerSeq, applied>>
         /\ reply' = IF /\ delivered
                        /\ pc[m.proc] = "wait"
                        /\ reply[m.proc] = NoReply
                        /\ calls[m.proc] = m.call
                       THEN [reply EXCEPT ![m.proc] = answer]
                       ELSE reply
    /\ UNCHANGED <<pc, fetched, offset, nonceTries, transportTries, calls,
                   result>>

(* The network loses request m.                                            *)
NetworkDrop(m) ==
    /\ net' = net \ {m}
    /\ UNCHANGED <<ledgerSeq, applied, pc, fetched, offset, nonceTries,
                   transportTries, calls, reply, result>>

-----------------------------------------------------------------------------
Client(p) ==
    \/ FetchAccount(p) \/ FetchAccountFails(p) \/ SignAndSubmit(p)
    \/ Timeout(p) \/ RetryTransport(p) \/ RefreshNonce(p) \/ Finish(p)

Next ==
    \/ \E p \in Procs : Client(p)
    \/ \E m \in net : LedgerProcess(m) \/ NetworkDrop(m)

(* Every submission keeps running, and every RPC has a deadline (spec 5:   *)
(* a bounded-wait deadline supplied by configuration; client.py itself     *)
(* passes none): the client steps are weakly fair; the ledger and the      *)
(* network are not.                                                        *)
Fairness == \A p \in Procs : WF_vars(Client(p))

Spec == Init /\ [][Next]_vars /\ Fairness

-----------------------------------------------------------------------------
(* Properties.                                                             *)

(***************************************************************************)
(* The local offset never runs ahead of the ledger: the sequence number a  *)
(* submission signs with, and every request in flight, is at most one     *)
(* past the account's sequence number, although the number was fetched    *)
(* once (line 420) and only incremented locally on each bad-nonce answer   *)
(* (line 436) while other submissions advanced the account.                *)
(***************************************************************************)
SeqNeverAhead ==
    /\ \A m \in net : m.seq <= ledgerSeq + 1
    /\ \A p \in Procs : pc[p] \in {"sign", "wait"} => Candidate(p) <= ledgerSeq + 1

(***************************************************************************)
(* A submission raises BadNonceError only when the account really moved    *)
(* past every sequence number it tried: the ledger is at least             *)
(* max_nonce_refreshes + 1 beyond the number it fetched.                   *)
(***************************************************************************)
NonceExhaustionJustified ==
    \A p \in Procs :
        result[p] = "BadNonce" =>
            ledgerSeq >= fetched[p] + Config.max_nonce_refreshes + 1

(***************************************************************************)
(* Every submission returns or raises: the two retry loops are bounded and *)
(* every RPC has a deadline.                                               *)
(***************************************************************************)
Termination == \A p \in Procs : <>(pc[p] = "done")

(* The limits RetryConfig's docstring promises (spec 3 and 8): a supplied  *)
(* argument of at least 0, otherwise 5 retries and 3 nonce refreshes.      *)
DocumentedMaxRetries ==
    IF MaxRetriesArg \in Nat THEN MaxRetriesArg ELSE 5
DocumentedMaxNonceRefreshes ==
    IF MaxNonceRefreshesArg \in Nat THEN MaxNonceRefreshesArg ELSE 3

(***************************************************************************)
(* Each loop makes exactly the attempts RetryConfig documents, also for a  *)
(* missing, zero or negative argument (line 86, Limit(n + 1) at lines 211  *)
(* and 217): no RPC is sent more than max_retries + 1 times and no         *)
(* submission signs more than max_nonce_refreshes + 1 times, and a         *)
(* submission gives up (Unavailable after a sent RPC, or BadNonceError)    *)
(* only after using all of them.                                           *)
(***************************************************************************)
AttemptsAsConfigured ==
    \A p \in Procs :
        /\ transportTries[p] <= DocumentedMaxRetries + 1
        /\ nonceTries[p] <= DocumentedMaxNonceRefreshes + 1
        /\ result[p] = "BadNonce" =>
               nonceTries[p] = DocumentedMaxNonceRefreshes + 1
        /\ (result[p] = "Unavailable" /\ calls[p] > 0) =>
               transportTries[p] = DocumentedMaxRetries + 1

(***************************************************************************)
(* A resent transaction is never applied twice: every transaction of a     *)
(* submission that the ledger applied came from a different signing        *)
(* attempt (lines 427-434), so the internal client's retries of the same   *)
(* signed bytes (line 434) add no copy, and a payment is applied at most   *)
(* max_nonce_refreshes + 1 times however its answers are lost or delayed.  *)
(***************************************************************************)
AppliedPerAttempt == \A p \in Procs : applied[p] <= nonceTries[p]

(***************************************************************************)
(* A payment is applied at most once per call of submit_payment or of      *)
(* _submit_earn_batch_tx.                                                  *)
(***************************************************************************)
AppliedAtMostOnce == \A p \in Procs : applied[p] <= 1

=============================================================================
