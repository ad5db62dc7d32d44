------------------------ MODULE SignAndSubmit_proofs ------------------------
(***************************************************************************)
(* Proofs about the submission coordinator (SignAndSubmit): type           *)
(* correctness, and that no submission signs or has in flight a sequence  *)
(* number more than one past the account's, for any number of concurrent  *)
(* submissions and any retry configuration.                               *)
(***************************************************************************)
EXTENDS SignAndSubmit, TLAPS

(***************************************************************************)
(* SeqNeverAhead is not inductive: a bad-nonce answer moves a submission   *)
(* one step up (RefreshNonce), which is safe only because the answer was   *)
(* given to a request at most at the ledger's number, and that request     *)
(* carried the submission's current candidate.  The strengthening says:    *)
(*  - the request of a submission's pending RPC carries its candidate, and *)
(*    older requests have smaller call numbers;                            *)
(*  - a pending bad-nonce answer means the candidate is behind the ledger; *)
(*  - a submission that has not fetched the account has sent nothing.      *)
(***************************************************************************)
RequestsOfCalls ==
    \A m \in net :
        /\ 1 <= m.call /\ m.call <= calls[m.proc]
        /\ (m.call = calls[m.proc] /\ pc[m.proc] = "wait")
               => m.seq = Candidate(m.proc)

BadNonceBehind ==
    \A p \in Procs :
        (pc[p] = "wait" /\ reply[p] = "BadNonce") => Candidate(p) <= ledgerSeq

FetchedNothingSent ==
    \A p \in Procs : pc[p] = "fetch" => calls[p] = 0 /\ nonceTries[p] = 0

NoReplyOutsideWait == \A p \in Procs : pc[p] # "wait" => reply[p] = NoReply

(***************************************************************************)
(* For NonceExhaustionJustified: every submission's candidate, signed or   *)
(* not, is at most one past the ledger; the offset counts the nonce        *)
(* attempts; a BadNonce result was raised with the nonce limit reached.    *)
(***************************************************************************)
CandidateBounded == \A p \in Procs : Candidate(p) <= ledgerSeq + 1

OffsetCountsTries ==
    \A p \in Procs :
        /\ pc[p] = "sign" => offset[p] = nonceTries[p] + 1
        /\ pc[p] = "wait" => offset[p] = nonceTries[p]

BadNonceResult ==
    \A p \in Procs :
        result[p] = "BadNonce" =>
            /\ pc[p] = "done"
            /\ offset[p] = nonceTries[p] + 1
            /\ nonceTries[p] >= Config.max_nonce_refreshes + 1

IInv ==
    /\ TypeOK
    /\ SeqNeverAhead
    /\ RequestsOfCalls
    /\ BadNonceBehind
    /\ FetchedNothingSent
    /\ NoReplyOutsideWait
    /\ CandidateBounded
    /\ OffsetCountsTries
    /\ BadNonceResult


-----------------------------------------------------------------------------
(* The effective retry limits are natural numbers (RetryConfig).           *)
LEMMA ConfigNat ==
    /\ Config.max_retries \in Nat
    /\ Config.max_nonce_refreshes \in Nat
BY ArgsAssumption DEF Config, RetryConfig, OrDefault

(* The nonce loop retries a bad nonce exactly while fewer than             *)
(* max_nonce_refreshes + 1 attempts were made.                             *)
LEMMA NonceRetryAllowed ==
    ASSUME NEW n \in Nat
    PROVE  RetryAllowed(NonceRetryStrategies, n, "BadNonce")
               <=> n < Config.max_nonce_refreshes + 1
<1> DEFINE S == NonceRetryStrategies
<1>1. Len(S) = 2 /\ S[1] = RetriableErrorsStrategy({"BadNonce"})
                 /\ S[2] = LimitStrategy(Config.max_nonce_refreshes + 1)
  BY DEF NonceRetryStrategies
<1>2. ShouldRetry(S[1], n, "BadNonce")
  BY <1>1 DEF ShouldRetry, RetriableErrorsStrategy
<1>3. ShouldRetry(S[2], n, "BadNonce") <=> n < Config.max_nonce_refreshes + 1
  BY <1>1 DEF ShouldRetry, LimitStrategy
<1>4. QED
  BY <1>1, <1>2, <1>3 DEF RetryAllowed

-----------------------------------------------------------------------------
(* Type correctness of every step of the coordinator, the ledger and the   *)
(* network.                                                                *)
LEMMA TypeCorrectStep == TypeOK /\ [Next]_vars => TypeOK'
<1> SUFFICES ASSUME TypeOK, [Next]_vars PROVE TypeOK'
  OBVIOUS
<1>1. ASSUME NEW p \in Procs, FetchAccount(p) PROVE TypeOK'
  BY <1>1 DEF FetchAccount, TypeOK
<1>2. ASSUME NEW p \in Procs, FetchAccountFails(p) PROVE TypeOK'
  BY <1>2 DEF FetchAccountFails, TypeOK, Results
<1>3. ASSUME NEW p \in Procs, SignAndSubmit(p) PROVE TypeOK'
  BY <1>3 DEF SignAndSubmit, TypeOK, Request, Candidate
<1>4. ASSUME NEW p \in Procs, Timeout(p) PROVE TypeOK'
  BY <1>4 DEF Timeout, TypeOK, Replies
<1>5. ASSUME NEW p \in Procs, RetryTransport(p) PROVE TypeOK'
  BY <1>5 DEF RetryTransport, TypeOK, Request, Candidate
<1>6. ASSUME NEW p \in Procs, RefreshNonce(p) PROVE TypeOK'
  BY <1>6 DEF RefreshNonce, TypeOK, Results
<1>7. ASSUME NEW p \in Procs, Finish(p) PROVE TypeOK'
  BY <1>7 DEF Finish, TypeOK, Results, Replies, Applied
<1>8. ASSUME NEW m \in net, LedgerProcess(m) PROVE TypeOK'
  BY <1>8 DEF LedgerProcess, TypeOK, Replies, Applied
<1>9. ASSUME NEW m \in net, NetworkDrop(m) PROVE TypeOK'
  BY <1>9 DEF NetworkDrop, TypeOK
<1>10. CASE UNCHANGED vars
  BY <1>10 DEF vars, TypeOK
<1>11. QED
  BY <1>1, <1>2, <1>3, <1>4, <1>5, <1>6, <1>7, <1>8, <1>9, <1>10
     DEF Next, Client

LEMMA TypeCorrect == Spec => []TypeOK
<1>1. Init => TypeOK
  BY DEF Init, TypeOK, Results
<1>2. QED
  BY <1>1, TypeCorrectStep, PTL DEF Spec


-----------------------------------------------------------------------------
(***************************************************************************)
(* The local offset of _sign_and_submit_builder never runs ahead of the    *)
(* ledger (SeqNeverAhead), whatever the number of concurrent submissions   *)
(* and the retry configuration: the inductive invariant IInv holds        *)
(* initially and is kept by every step.                                    *)
(***************************************************************************)
LEMMA Inductive == Spec => []IInv
<1> USE DEF IInv, SeqNeverAhead, RequestsOfCalls, BadNonceBehind,
            FetchedNothingSent, NoReplyOutsideWait, CandidateBounded,
            OffsetCountsTries, BadNonceResult, Candidate
<1>1. Init => IInv
  BY DEF Init, TypeOK, Results
<1>2. IInv /\ [Next]_vars => IInv'
  <2> SUFFICES ASSUME IInv, [Next]_vars PROVE IInv'
    OBVIOUS
  <2>0. TypeOK'
    BY TypeCorrectStep
  <2>1. ASSUME NEW p \in Procs, FetchAccount(p) PROVE IInv'
    BY <2>0, <2>1, ArgsAssumption DEF FetchAccount, TypeOK
  <2>2. ASSUME NEW p \in Procs, FetchAccountFails(p) PROVE IInv'
    BY <2>0, <2>2 DEF FetchAccountFails, TypeOK
  <2>3. ASSUME NEW p \in Procs, SignAndSubmit(p) PROVE IInv'
    <3>1. \A m \in net' : m \in net \/ m = Request(p)
      BY <2>3 DEF SignAndSubmit
    <3>2. Request(p).seq <= ledgerSeq' + 1
      BY <2>3 DEF SignAndSubmit, Request, TypeOK
    <3>3. SeqNeverAhead'
      BY <2>0, <2>3, <3>1, <3>2 DEF SignAndSubmit, TypeOK
    <3>4. RequestsOfCalls'
      BY <2>0, <2>3, <3>1 DEF SignAndSubmit, TypeOK, Request
    <3>5. (/\ BadNonceBehind /\ FetchedNothingSent /\ NoReplyOutsideWait
           /\ CandidateBounded /\ OffsetCountsTries /\ BadNonceResult)'
      BY <2>3, ArgsAssumption DEF SignAndSubmit, TypeOK
    <3>6. QED
      BY <2>0, <3>3, <3>4, <3>5
  <2>4. ASSUME NEW p \in Procs, Timeout(p) PROVE IInv'
    BY <2>0, <2>4 DEF Timeout, TypeOK
  <2>5. ASSUME NEW p \in Procs, RetryTransport(p) PROVE IInv'
    <3>1. \A m \in net' : m \in net \/ m = Request(p)
      BY <2>5 DEF RetryTransport
    <3>2. Request(p).seq <= ledgerSeq' + 1
      BY <2>5 DEF RetryTransport, Request, TypeOK
    <3>3. SeqNeverAhead'
      BY <2>0, <2>5, <3>1, <3>2 DEF RetryTransport, TypeOK
    <3>4. RequestsOfCalls'
      BY <2>0, <2>5, <3>1 DEF RetryTransport, TypeOK, Request
    <3>5. (/\ BadNonceBehind /\ FetchedNothingSent /\ NoReplyOutsideWait
           /\ CandidateBounded /\ OffsetCountsTries /\ BadNonceResult)'
      BY <2>5, ArgsAssumption DEF RetryTransport, TypeOK
    <3>6. QED
      BY <2>0, <3>3, <3>4, <3>5
  <2>6. ASSUME NEW p \in Procs, RefreshNonce(p) PROVE IInv'
    BY <2>0, <2>6, ConfigNat, NonceRetryAllowed DEF RefreshNonce, TypeOK
  <2>7. ASSUME NEW p \in Procs, Finish(p) PROVE IInv'
    BY <2>0, <2>7 DEF Finish, TypeOK, Applied
  <2>8. ASSUME NEW m \in net, LedgerProcess(m) PROVE IInv'
    <3>1. PICK answer \in Replies \ {"Unavailable"}, delivered \in BOOLEAN :
            /\ IF m.seq = ledgerSeq + 1
                 THEN /\ answer \in Applied
                      /\ ledgerSeq' = m.seq
                      /\ applied' = [applied EXCEPT ![m.proc] = @ + 1]
                 ELSE /\ answer = "BadNonce"
                      /\ UNCHANGED <<ledgerSeq, applied>>
            /\ reply' = IF /\ delivered
                           /\ pc[m.proc] = "wait"
                           /\ reply[m.proc] = NoReply
                           /\ calls[m.proc] = m.call
                          THEN [reply EXCEPT ![m.proc] = answer]
                          ELSE reply
      BY <2>8 DEF LedgerProcess
    <3>2. /\ net' = net \ {m}
          /\ UNCHANGED <<pc, fetched, offset, nonceTries, transportTries, calls,
                         result>>
      BY <2>8 DEF LedgerProcess
    <3>3. ledgerSeq \in Nat /\ ledgerSeq' \in Nat /\ ledgerSeq <= ledgerSeq'
      BY <2>0, <3>1 DEF TypeOK
    <3>4. TypeOK'
      BY <2>0, <3>1, <3>2, <3>3 DEF TypeOK, Replies, Applied
    <3>5. (SeqNeverAhead /\ CandidateBounded /\ RequestsOfCalls)'
      BY <2>0, <3>2, <3>3 DEF SeqNeverAhead, CandidateBounded,
                              RequestsOfCalls, Candidate, TypeOK
    <3>6. BadNonceBehind'
      BY <2>0, <3>1, <3>2, <3>3
         DEF BadNonceBehind, RequestsOfCalls, SeqNeverAhead, Candidate, TypeOK,
             Applied
    <3>7. (/\ FetchedNothingSent /\ NoReplyOutsideWait /\ OffsetCountsTries
           /\ BadNonceResult)'
      BY <2>0, <3>1, <3>2
         DEF FetchedNothingSent, NoReplyOutsideWait, OffsetCountsTries,
             BadNonceResult, TypeOK
    <3>8. QED
      BY <3>4, <3>5, <3>6, <3>7 DEF IInv
  <2>9. ASSUME NEW m \in net, NetworkDrop(m) PROVE IInv'
    BY <2>0, <2>9 DEF NetworkDrop, TypeOK
  <2>10. CASE UNCHANGED vars
    BY <2>0, <2>10 DEF vars
  <2>11. QED
    BY <2>1, <2>2, <2>3, <2>4, <2>5, <2>6, <2>7, <2>8, <2>9, <2>10
       DEF Next, Client
<1>3. QED
  BY <1>1, <1>2, PTL DEF Spec

(***************************************************************************)
(* The local offset of _sign_and_submit_builder never runs ahead of the    *)
(* ledger (lines 420-437), for any number of concurrent submissions and    *)
(* any retry configuration.                                                *)
(***************************************************************************)
THEOREM SeqNeverAheadInvariant == Spec => []SeqNeverAhead
<1>1. IInv => SeqNeverAhead
  BY DEF IInv
<1>2. QED
  BY <1>1, Inductive, PTL

(***************************************************************************)
(* A submission raises BadNonceError only after the account moved at least *)
(* max_nonce_refreshes + 1 past the sequence number it fetched.            *)
(***************************************************************************)
THEOREM NonceExhaustionJustifiedInvariant == Spec => []NonceExhaustionJustified
<1>1. IInv => NonceExhaustionJustified
  BY ConfigNat DEF IInv, NonceExhaustionJustified, CandidateBounded,
                   BadNonceResult, Candidate, TypeOK
<1>2. QED
  BY <1>1, Inductive, PTL

-----------------------------------------------------------------------------
(***************************************************************************)
(* The attempt counts.  Both loops count up to their limit and stop there; *)
(* a result is written once, when the submission ends, and nothing of the *)
(* submission changes afterwards.                                          *)
(***************************************************************************)
ResultOnlyWhenDone == \A p \in Procs : pc[p] # "done" => result[p] = "none"

TriesBounded ==
    \A p \in Procs :
        /\ transportTries[p] <= Config.max_retries + 1
        /\ nonceTries[p] <= Config.max_nonce_refreshes + 1
        /\ pc[p] = "sign" => nonceTries[p] <= Config.max_nonce_refreshes

GaveUpExhausted ==
    \A p \in Procs :
        /\ result[p] = "BadNonce" =>
               nonceTries[p] = Config.max_nonce_refreshes + 1
        /\ (result[p] = "Unavailable" /\ calls[p] > 0) =>
               transportTries[p] = Config.max_retries + 1

AInv ==
    /\ TypeOK
    /\ FetchedNothingSent
    /\ ResultOnlyWhenDone
    /\ TriesBounded
    /\ GaveUpExhausted

(* RetryConfig gives exactly the documented limits.                        *)
LEMMA DocumentedConfig ==
    /\ Config.max_retries = DocumentedMaxRetries
    /\ Config.max_nonce_refreshes = DocumentedMaxNonceRefreshes
BY ArgsAssumption DEF Config, RetryConfig, OrDefault, DocumentedMaxRetries,
                      DocumentedMaxNonceRefreshes

(* The internal client retries an unavailable RPC exactly while fewer than *)
(* max_retries + 1 attempts were made.                                     *)
LEMMA TransportRetryAllowed ==
    ASSUME NEW n \in Nat
    PROVE  RetryAllowed(InternalRetryStrategies, n, "Unavailable")
               <=> n < Config.max_retries + 1
<1> DEFINE S == InternalRetryStrategies
<1>1. /\ Len(S) = 3
      /\ S[1] = NonRetriableErrorsStrategy(NonRetriableErrors)
      /\ S[2] = LimitStrategy(Config.max_retries + 1)
      /\ S[3] = BackoffWithJitterStrategy
  BY DEF InternalRetryStrategies
<1>2. ShouldRetry(S[1], n, "Unavailable")
  BY <1>1 DEF ShouldRetry, NonRetriableErrorsStrategy, NonRetriableErrors
<1>3. ShouldRetry(S[2], n, "Unavailable") <=> n < Config.max_retries + 1
  BY <1>1 DEF ShouldRetry, LimitStrategy
<1>4. ShouldRetry(S[3], n, "Unavailable")
  BY <1>1 DEF ShouldRetry, BackoffWithJitterStrategy
<1>5. QED
  BY <1>1, <1>2, <1>3, <1>4 DEF RetryAllowed

LEMMA AttemptsInductive == Spec => []AInv
<1> USE DEF AInv, FetchedNothingSent, ResultOnlyWhenDone, TriesBounded,
            GaveUpExhausted
<1>1. Init => AInv
  BY ConfigNat DEF Init, TypeOK, Results
<1>2. AInv /\ [Next]_vars => AInv'
  <2> SUFFICES ASSUME AInv, [Next]_vars PROVE AInv'
    OBVIOUS
  <2>0. TypeOK'
    BY TypeCorrectStep
  <2>1. ASSUME NEW p \in Procs, FetchAccount(p) PROVE AInv'
    BY <2>0, <2>1, ConfigNat DEF FetchAccount, TypeOK
  <2>2. ASSUME NEW p \in Procs, FetchAccountFails(p) PROVE AInv'
    BY <2>0, <2>2 DEF FetchAccountFails, TypeOK
  <2>3. ASSUME NEW p \in Procs, SignAndSubmit(p) PROVE AInv'
    BY <2>0, <2>3, ConfigNat DEF SignAndSubmit, TypeOK
  <2>4. ASSUME NEW p \in Procs, Timeout(p) PROVE AInv'
    BY <2>0, <2>4 DEF Timeout, TypeOK
  <2>5. ASSUME NEW p \in Procs, RetryTransport(p) PROVE AInv'
    <3>1. transportTries[p] < Config.max_retries + 1
      BY <2>5, TransportRetryAllowed DEF RetryTransport, TypeOK
    <3>2. QED
      BY <2>0, <2>5, <3>1, ConfigNat DEF RetryTransport, TypeOK
  <2>6. ASSUME NEW p \in Procs, RefreshNonce(p) PROVE AInv'
    <3>1. RetryAllowed(NonceRetryStrategies, nonceTries[p], "BadNonce")
              <=> nonceTries[p] < Config.max_nonce_refreshes + 1
      BY NonceRetryAllowed DEF TypeOK
    <3>2. QED
      BY <2>0, <2>6, <3>1, ConfigNat DEF RefreshNonce, TypeOK
  <2>7. ASSUME NEW p \in Procs, Finish(p) PROVE AInv'
    <3>1. RetryAllowed(InternalRetryStrategies, transportTries[p],
                       "Unavailable")
              <=> transportTries[p] < Config.max_retries + 1
      BY TransportRetryAllowed DEF TypeOK
    <3>2. QED
      BY <2>0, <2>7, <3>1, ConfigNat DEF Finish, TypeOK, Applied
  <2>8. ASSUME NEW m \in net, LedgerProcess(m) PROVE AInv'
    BY <2>0, <2>8 DEF LedgerProcess, TypeOK
  <2>9. ASSUME NEW m \in net, NetworkDrop(m) PROVE AInv'
    BY <2>0, <2>9 DEF NetworkDrop, TypeOK
  <2>10. CASE UNCHANGED vars
    BY <2>0, <2>10 DEF vars
  <2>11. QED
    BY <2>1, <2>2, <2>3, <2>4, <2>5, <2>6, <2>7, <2>8, <2>9, <2>10
       DEF Next, Client
<1>3. QED
  BY <1>1, <1>2, PTL DEF Spec

(***************************************************************************)
(* Both retry loops of the coordinator make exactly the attempts that      *)
(* RetryConfig documents (lines 86-90, 211, 217), for every argument,      *)
(* missing, zero or negative included.                                     *)
(***************************************************************************)
THEOREM AttemptsAsConfiguredInvariant == Spec => []AttemptsAsConfigured
<1>1. AInv => AttemptsAsConfigured
  BY DocumentedConfig DEF AInv, TriesBounded, GaveUpExhausted,
                          AttemptsAsConfigured
<1>2. QED
  BY <1>1, AttemptsInductive, PTL

-----------------------------------------------------------------------------
(***************************************************************************)
(* Applications per attempt.  AppliedPerAttempt is not inductive: a late   *)
(* request may be applied long after it was sent.  The strengthening ties  *)
(* every request in flight to a signing attempt: a submission signs its    *)
(* k-th attempt at fetched + k, so the numbers of its requests lie in      *)
(* fetched + 1 .. fetched + nonceTries; a resent request carries the       *)
(* number of its attempt; and the transactions of a submission that were   *)
(* applied took distinct numbers above fetched, at most the ledger's.      *)
(***************************************************************************)
AttemptsCoverRequests ==
    \A m \in net :
        fetched[m.proc] < m.seq /\ m.seq <= fetched[m.proc] + nonceTries[m.proc]

NothingAppliedBeforeFetch == \A p \in Procs : pc[p] = "fetch" => applied[p] = 0

SignedBeforeWait == \A p \in Procs : pc[p] = "wait" => nonceTries[p] >= 1

AppliedBehindLedger ==
    \A p \in Procs : applied[p] > 0 => fetched[p] + applied[p] <= ledgerSeq

DInv ==
    /\ AttemptsCoverRequests
    /\ NothingAppliedBeforeFetch
    /\ SignedBeforeWait
    /\ AppliedBehindLedger
    /\ AppliedPerAttempt

LEMMA AppliedInductive == Spec => [](IInv /\ DInv)
<1> USE DEF DInv, AttemptsCoverRequests, NothingAppliedBeforeFetch,
            SignedBeforeWait, AppliedBehindLedger, AppliedPerAttempt
<1>1. Init => DInv
  BY DEF Init
<1>2. IInv /\ DInv /\ [Next]_vars => DInv'
  <2> SUFFICES ASSUME IInv, DInv, [Next]_vars PROVE DInv'
    OBVIOUS
  <2>0. /\ TypeOK /\ TypeOK'
        /\ OffsetCountsTries /\ FetchedNothingSent /\ RequestsOfCalls
    BY TypeCorrectStep DEF IInv
  <2>1. ASSUME NEW p \in Procs, FetchAccount(p) PROVE DInv'
    <3>1. \A m \in net : m.proc # p
      BY <2>0, <2>1 DEF FetchAccount, FetchedNothingSent, RequestsOfCalls, TypeOK
    <3>2. QED
      BY <2>0, <2>1, <3>1 DEF FetchAccount, TypeOK
  <2>2. ASSUME NEW p \in Procs, FetchAccountFails(p) PROVE DInv'
    BY <2>0, <2>2 DEF FetchAccountFails, TypeOK
  <2>3. ASSUME NEW p \in Procs, SignAndSubmit(p) PROVE DInv'
    <3>1. /\ Request(p).proc = p
          /\ fetched[p] < Request(p).seq
          /\ Request(p).seq <= fetched[p] + nonceTries'[p]
      BY <2>0, <2>3 DEF SignAndSubmit, Request, Candidate, OffsetCountsTries,
                        TypeOK
    <3>2. \A m \in net' : m \in net \/ m = Request(p)
      BY <2>3 DEF SignAndSubmit
    <3>3. AttemptsCoverRequests'
      BY <2>0, <2>3, <3>1, <3>2 DEF SignAndSubmit, TypeOK
    <3>4. QED
      BY <2>0, <2>3, <3>3 DEF SignAndSubmit, TypeOK
  <2>4. ASSUME NEW p \in Procs, Timeout(p) PROVE DInv'
    BY <2>4 DEF Timeout
  <2>5. ASSUME NEW p \in Procs, RetryTransport(p) PROVE DInv'
    <3>1. /\ Request(p).proc = p
          /\ fetched[p] < Request(p).seq
          /\ Request(p).seq <= fetched[p] + nonceTries[p]
      BY <2>0, <2>5 DEF RetryTransport, Request, Candidate, OffsetCountsTries,
                        TypeOK
    <3>2. \A m \in net' : m \in net \/ m = Request(p)
      BY <2>5 DEF RetryTransport
    <3>3. QED
      BY <2>0, <2>5, <3>1, <3>2 DEF RetryTransport, TypeOK
  <2>6. ASSUME NEW p \in Procs, RefreshNonce(p) PROVE DInv'
    BY <2>0, <2>6 DEF RefreshNonce, TypeOK
  <2>7. ASSUME NEW p \in Procs, Finish(p) PROVE DInv'
    BY <2>0, <2>7 DEF Finish, TypeOK
  <2>8. ASSUME NEW m \in net, LedgerProcess(m) PROVE DInv'
    <3> DEFINE q == m.proc
    <3>1. /\ net' = net \ {m}
          /\ UNCHANGED <<pc, fetched, offset, nonceTries, transportTries, calls,
                         result>>
      BY <2>8 DEF LedgerProcess
    <3>2. /\ q \in Procs /\ m.seq \in Nat
          /\ fetched[q] < m.seq /\ m.seq <= fetched[q] + nonceTries[q]
      BY <2>0 DEF TypeOK
    <3>3. CASE m.seq = ledgerSeq + 1
      <4>1. /\ ledgerSeq' = m.seq
            /\ applied' = [applied EXCEPT ![q] = @ + 1]
        BY <2>8, <3>3 DEF LedgerProcess
      <4>2. applied'[q] <= nonceTries[q] /\ fetched[q] + applied'[q] <= ledgerSeq'
        BY <2>0, <3>2, <3>3, <4>1 DEF TypeOK
      <4>3. pc[q] # "fetch"
        BY <2>0 DEF FetchedNothingSent, RequestsOfCalls, TypeOK
      <4>4. \A p \in Procs \ {q} : applied'[p] = applied[p]
        BY <2>0, <4>1 DEF TypeOK
      <4>5. ledgerSeq \in Nat /\ ledgerSeq <= ledgerSeq'
        BY <2>0, <3>3, <4>1 DEF TypeOK
      <4>6. AttemptsCoverRequests' /\ SignedBeforeWait'
        BY <3>1
      <4>7. NothingAppliedBeforeFetch'
        BY <3>1, <4>3, <4>4
      <4>8. AppliedBehindLedger'
        BY <2>0, <3>1, <4>2, <4>4, <4>5 DEF TypeOK
      <4>9. AppliedPerAttempt'
        BY <3>1, <4>2, <4>4
      <4>10. QED
        BY <4>6, <4>7, <4>8, <4>9
    <3>4. CASE m.seq # ledgerSeq + 1
      <4>1. UNCHANGED <<ledgerSeq, applied>>
        BY <2>8, <3>4 DEF LedgerProcess
      <4>2. QED
        BY <3>1, <4>1
    <3>5. QED
      BY <3>3, <3>4
  <2>9. ASSUME NEW m \in net, NetworkDrop(m) PROVE DInv'
    BY <2>9 DEF NetworkDrop
  <2>10. CASE UNCHANGED vars
    BY <2>10 DEF vars
  <2>11. QED
    BY <2>1, <2>2, <2>3, <2>4, <2>5, <2>6, <2>7, <2>8, <2>9, <2>10
       DEF Next, Client
<1>3. QED
  BY <1>1, <1>2, Inductive, PTL DEF Spec

(***************************************************************************)
(* However answers are lost, delayed or timed out and however submissions  *)
(* interleave, a submission's transactions are applied at most once per    *)
(* signing attempt: the internal client's resending of the same bytes      *)
(* (line 434) never adds a copy.                                           *)
(***************************************************************************)
THEOREM AppliedPerAttemptInvariant == Spec => []AppliedPerAttempt
<1>1. IInv /\ DInv => AppliedPerAttempt
  BY DEF DInv
<1>2. QED
  BY <1>1, AppliedInductive, PTL

=============================================================================
