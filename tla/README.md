# Formal models of the Agora Kin client's submission core

TLA+ models of `src/agora/client/client.py`. That is the only file of the
repository under `src/`. The models cover the part of the client with real
control: retries, sequence-number (nonce) conflicts, batching and partial
failure. TLC checks them on small instances. TLAPS proves the coordinator's
main invariants for every value of the constants.

## 1. Inventory

### Components, state and operations

| Component | Code | State it keeps | Operations |
|---|---|---|---|
| RetryConfig | `RetryConfig.__init__` (82-90) | the effective limits | a missing or negative argument falls back to its default |
| Retry strategies and executor | `agora.retry` (not under `src/`; spec 4.1-4.2) | none. The attempt count lives in `retry()` | `should_retry(attempts, error)` for Limit, RetriableErrors, NonRetriableErrors and BackoffWithJitter; `retry(strategies, f)` |
| Client construction | `Client.__init__` (186-226) | the strategy lists, app index, whitelist key and channel | wires `_NON_RETRIABLE_ERRORS` (54-64), the internal strategies and the nonce strategies |
| Internal client | `V3InternalClient` (not under `src/`) | the gRPC channel | `get_account_info` and `submit_transaction`. Each RPC has a deadline and is retried on transport errors under the internal strategies |
| Coordinator | `_sign_and_submit_builder` (417-441) | `source_info`, `offset` (a closure variable), the builder | fetch the sequence number once. Then sign at `seq + offset` and submit. On BadNonce, do `offset += 1` and retry under `{RetriableErrors(BadNonce), Limit(max_nonce_refreshes+1)}` |
| Single payment | `submit_payment` (244-309) | the builder, `invoice_list`, signers | check the invoice against the app index; choose source, memo and signers; submit; map the result to a hash or an exception |
| Batch earn | `submit_earn_batch` (311-353) | `succeeded`, `failed` | check the invoices and the memo; submit sub-batches of 100 in order; stop at the first failure; account for every earn |
| Earn sub-batch | `_submit_earn_batch_tx` (358-415) | the builder | build one transaction for at most 100 earns and submit it; raise `Error` on invoice errors |
| Memo encoder | `AgoraMemo`, `InvoiceList` (outside `src/`) | none | encoding and hashing |
| Pass-through calls | `create_account`, `get_balance`, `get_transaction`, `close` | none | one call each |

### Interactions

- The caller calls `submit_payment` or `submit_earn_batch`.
- Both call `_sign_and_submit_builder` once per transaction.
- That function calls `retry()` around a closure. The closure shares
  `offset` with the enclosing function. Each call of the closure calls
  `submit_transaction`, and the internal client retries that call on its own.
- Independent submissions may run concurrently on the same source account
  (spec 5). Their only link is the ledger's sequence number for that account.
  There is no lock on the client side.

### What is hard

- **Stale sequence number.** The number is read once (line 420) and then only
  incremented locally (line 436). Meanwhile other submissions advance it.
- **Timeouts and retries.** A transport retry resends bytes that the ledger
  may already have applied. A late or lost answer looks the same as a lost
  request.
- **Nested bounded loops.** The transport loop sits inside the nonce loop,
  with off-by-one limits (`Limit(n + 1)` counts the first attempt). Every
  path must end.
- **Partial failure in a batch.** A sub-batch can fail after earlier ones
  succeeded. It can fail by an exception, by per-operation errors or by a
  whole-transaction error. The result must still account for each earn
  exactly once and in order.
- **Result shapes.** The code does not check the lengths of the error lists
  it indexes.

### Properties that make each component correct

- **Coordinator.**
  - The candidate sequence number never runs ahead of the ledger.
  - BadNonceError is raised only when the account really moved past every
    number that was tried.
  - Resent bytes are never applied twice. A submission has at most one
    transaction applied per signing attempt, so a payment is applied at
    most `max_nonce_refreshes + 1` times.
  - Every submission ends.
  - A payment is applied at most once. This one fails; see the findings.
- **Batch earn.**
  - succeeded ++ failed is exactly the list of earns, in order.
  - "Never attempted" is told apart from "attempted and rejected".
  - Per-operation errors are mapped onto the earns only when there is one
    per earn (spec 4.5 step 5). This one fails; see the findings.
  - The invoice fault is not mapped onto earns (spec 4.5).
- **Single payment.**
  - The sequence number comes from the transaction's source account.
  - An invoice is never dropped silently.
  - A hash is returned only for an accepted transaction.
- **Retry executor.** Retrying is conjunctive: a retry happens only if every
  strategy allows it.

The hazards, each at its line, are in `PROJECT.json` under "hazards".

## 2. Modules

| Module | Models | Notes |
|---|---|---|
| `RetryPolicy` | RetryConfig, the strategies and `retry()`'s decision | Strategies are records, and `RetryAllowed` is the conjunction over the list. Timing is left out: a backoff strategy always allows a retry. |
| `SignAndSubmit` | the coordinator, the internal client's transport retry, the ledger and the network | See below. |
| `SignAndSubmit_proofs` | TLAPS proofs about `SignAndSubmit` | |
| `EarnBatch` | `submit_earn_batch`, and `_submit_earn_batch_tx`'s InvoiceList and memo, with its submission given by its outcomes | |
| `EarnBatchContract` | what `submit_earn_batch` promises its caller (spec 4.5, 7), as one atomic step | the abstract spec that `EarnBatch` refines |
| `EarnBatch_proofs` | TLAPS proofs about `EarnBatch`, the refinement included | |
| `Payment_proofs` | TLAPS proofs about `Payment` | |
| `Payment` | `submit_payment`, with the coordinator given by its results | |
| `MC_SignAndSubmit`, `MC_EarnBatch` | the constants for TLC | |

### SignAndSubmit

`Procs` is a set of concurrent submissions (calls of
`_sign_and_submit_builder`) on one source account.

| Variable | In the code |
|---|---|
| `fetched[p]` | `source_info.sequence_number` |
| `offset[p]` | the closure's `offset` |
| `nonceTries[p]` | `retry()`'s attempt count in the nonce loop |
| `transportTries[p]` | the internal client's attempt count for the current RPC |
| `calls[p]` | the number of RPCs sent (names requests) |
| `reply[p]` | the answer to the pending RPC |
| `result[p]` | what the call returned or raised |

Two variables belong to the environment:

- `ledgerSeq` is the account's sequence number on the ledger.
- `net` holds the requests the ledger has not processed yet.

| Action | In the code |
|---|---|
| `FetchAccount` / `FetchAccountFails` | line 420 |
| `SignAndSubmit` | lines 427-434, up to sending the first RPC |
| `Timeout` | the RPC deadline |
| `RetryTransport` | the internal client's retry with the same bytes |
| `RefreshNonce` | lines 435-437 and the nonce strategies' decision |
| `Finish` | any other answer, or transport retries exhausted |
| `LedgerProcess(m)` | the ledger applies `m` iff `m.seq = ledgerSeq + 1`; otherwise it answers BadNonce |
| `NetworkDrop(m)` | the network loses `m` |

A few details of the network model:

- An answer reaches the submission only if that RPC is still pending. It may
  be lost on the way.
- A request can outlive its RPC's deadline. This is the case that matters.
- An applied transaction answers "ok" or "failed". Both consume the sequence
  number, as on Stellar.
- Rejections that consume no sequence number (TransactionRejected, an invoice
  error) are folded into "failed". The coordinator returns both at line 439
  with no retry. The only difference is whether the number is
  taken, and no property depends on that: a folded rejection only moves the
  ledger on, as another account user could.

### EarnBatch

The caller's inputs are chosen in `Init`: the number of earns, which earns
carry invoices, the memo and the app index.

- `batch` is the loop position in `partition(earns, BatchSize)`.
- `succeeded` and `failed` are sequences of EarnResult records
  `[earn, hash, error]`, as in lines 326-353.
- Each sub-batch has one of four outcomes, each an action:
  - `BatchRaises`: an Error, including the invoice fault of line 413.
  - `BatchSucceeds`.
  - `BatchOpErrors`: with one up to one more operation error than the
    sub-batch has earns. `opErrorCount` records how many the reply carried.
  - `BatchTxError`: with a transaction error, possibly None.
- `BuildTx` is lines 378-385: the sub-batch's InvoiceList
  (`InvoiceListOf`) and its memo (`SubBatchMemo`: a text memo wins, else an
  AgoraMemo with the list's fingerprint when there is an app index).
  `txInvoices` and `txMemo` hold what the transaction carries.
- `FillUnattempted` is lines 350-353.
- `submitted` is a history variable: the earns that were part of a submitted
  transaction.

`ContractOutcome` and the `Contract` instance are the refinement mapping to
`EarnBatchContract`. The caller sees nothing until the call ends. Then it sees
one of three things:

- the returned lists;
- a `ValueError`;
- an internal fault, which is the IndexError of line 343.

In the contract, `Return` picks how many sub-batches `k` succeeded. If one
failed, its results come next: either one raised error for every earn with no
hash, or the transaction's hash with each earn's own error. The earns that
follow come last, with neither hash nor error.

### Payment

- `Init` chooses the payment's shape and the client's app index and
  whitelist key. A Payment never carries both a memo and an invoice (spec 3).
- `Build` is lines 251-284.
- `Submit` is the coordinator. It reads `signers[0]`'s account and returns
  any `SubmitTransactionResult` or raises.
- `CheckResult` applies the if-chain of lines 287-309 (`ResultOutcome`).

## 3. Runs

| Run | Expect | Checks | Shows |
|---|---|---|---|
| `sign_and_submit` | pass | TypeOK, SeqNeverAhead, NonceExhaustionJustified, AppliedPerAttempt, Termination | the coordinator is safe and ends under concurrency, loss, delay and timeouts; retries of the same bytes never duplicate a payment |
| `sign_and_submit_duplicate` | violation | AppliedAtMostOnce | a payment can be applied twice (finding 1) |
| `sign_and_submit_defaults` | pass | AttemptsAsConfigured | a negative `max_retries` and a zero `max_nonce_refreshes` still give the documented numbers of attempts |
| `earn_batch` | pass | TypeOK, ResultPartition, UnattemptedDistinguished, InvoicesBoundToTx | batch accounting on every path; a transaction with an InvoiceList carries exactly its sub-batch's invoices and the hash memo binding them |
| `earn_batch_contract` | pass | ImplementsContract | `submit_earn_batch` refines `EarnBatchContract` on every path of the loop |
| `earn_batch_op_error_count` | violation | OpErrorsMatchSubBatch | extra operation errors are dropped, not treated as a fault (finding 2) |
| `earn_batch_invoice_fault` | violation | InvoiceFaultNotMapped | the invoice fault is mapped onto earns (finding 3) |
| `payment` | pass | TypeOK, SequenceFromSource, InvoiceNeverDropped | source, signers and invoice handling |
| `payment_empty_tx_error` | violation | HashOnlyWhenAccepted | an empty transaction error returns a hash (finding 4) |

### Bounds

**SignAndSubmit: 2 submissions, `max_retries = 1`, `max_nonce_refreshes = 1`.**
This is 36,826 states. It is enough to reach every case that matters:

- each submission retries both loops once;
- one submission's transaction can take the other's sequence number;
- a request can be applied after its deadline, while the retry of the same
  bytes is in flight.

The `sign_and_submit_defaults` run uses the same 2 submissions with
`max_retries = -1` and `max_nonce_refreshes = 0`. Each of these hits a
default branch of line 86.

With 3 submissions and zero retries, the inductive invariant was also checked
(17,529 states).

**EarnBatch: up to 5 earns in sub-batches of 2.** That gives three
sub-batches, the last one short. A failure can therefore hit the first, a
middle or the last sub-batch, after 0, 1 or 2 successes.

**Payment: all inputs and all result shapes.** This is 3,468 states. The
error lists have 0, 1 or "more than one" entries.

The system really stops when all calls have returned, so deadlock is not
checked.

### Fairness

`Termination` assumes weak fairness of each submission's client steps,
`Timeout` included. The client is a running thread. Every RPC carries a
deadline, so a pending call always times out eventually. That deadline is
not in `client.py`: `_GRPC_TIMEOUT_SECONDS` (line 66) is never used, and the
internal client is built at line 226 without a timeout. The fairness rests on
spec 5, which requires every transport call to carry a bounded-wait deadline
supplied by configuration, and on `V3InternalClient` honouring it. `Timeout`
is modelled from the spec for the same reason. The ledger and the network get no
fairness, because they may lose or hold requests forever.

### Mutants

Each property of a passing run is broken by a plausible bug written next to
the definition it mutates. The list is in `PROJECT.json`:

- a limit that does not count the first attempt;
- an RPC without a deadline;
- a sequence number advanced on a transport retry;
- the tail slice taken at `len(succeeded)`;
- the exception dropped from the EarnResults;
- the sender signing before the channel;
- a transport retry that re-signs at the next sequence number. This one
  breaks `SeqNeverAhead` and `AppliedPerAttempt`;
- the invoice check skipped;
- the invoice check without its text-memo clause;
- a missing argument taken as the only case for the default, so a negative
  one is used as given;
- the loop going on after a failed transaction (no `break`).

## 4. Findings

1. **Duplicate payment** (`client.py:436`, spec gap).
   - A call of the first attempt times out, but the ledger applies it late.
   - The internal client resends the same bytes and gets BadNonce.
   - The coordinator takes BadNonce for a stale number. It signs the same
     payment at the next sequence number, and the ledger applies it again.
   - Spec 4.4 does not address idempotence.
2. **Extra operation errors are dropped** (`client.py:343`).
   - `err.op_errors[idx]` is not checked against the sub-batch size. When
     the reply carries more operation errors than the sub-batch has earns,
     the first ones are given to the earns, the rest are ignored, and the
     call returns normally.
   - Spec 4.5 step 5 and 7(e) make any count mismatch a fatal internal
     consistency fault. With fewer errors than earns the code raises
     IndexError, which is such a fault: the contract allows it.
3. **Invoice fault mapped onto earns** (`client.py:331`).
   - The `Error` raised at line 413 is caught by `except Error`. It becomes
     the error of every earn in the sub-batch.
   - Spec 4.5 says it is surfaced as a fatal internal error.
4. **Empty transaction error returns a hash** (`client.py:294`, spec gap).
   - `submit_payment` returns the hash when `tx_error` carries neither kind
     of error.
   - `submit_earn_batch` reports the same result as a failure.

## 5. Proofs

`SignAndSubmit_proofs` proves the following for every set `Procs` and every
retry argument (`ArgsAssumption`: each argument is an integer or `NoArg`,
and `NoReply` is not an answer):

- `TypeCorrect`: `Spec => []TypeOK`.
- `SeqNeverAheadInvariant`: `Spec => []SeqNeverAhead`.
- `NonceExhaustionJustifiedInvariant`: `Spec => []NonceExhaustionJustified`.

Both invariants follow from one inductive invariant, `IInv` (lemma
`Inductive`). `SeqNeverAhead` alone is not inductive. `RefreshNonce` moves a
candidate up by one, and that is safe only if the BadNonce answer came for a
request at or below the ledger's number that carried the current candidate.
So `IInv` adds the following:

- `RequestsOfCalls`: the pending RPC's request carries the candidate, and
  older requests have smaller call numbers.
- `BadNonceBehind`: a pending BadNonce means the candidate is at most the
  ledger's number.
- `NoReplyOutsideWait` and `FetchedNothingSent`: bookkeeping.
- `CandidateBounded`: candidates are bounded in every phase.
- `OffsetCountsTries`: the offset counts the nonce attempts.
- `BadNonceResult`: a BadNonce result was raised only with the limit
  reached.

Two lemmas are proved as well:

- `ConfigNat`: the effective limits are natural numbers.
- `NonceRetryAllowed`: the nonce strategies allow a retry iff
  `attempts < max_nonce_refreshes + 1`.

TLC checked `IInv` as an invariant before it was proved.

`AppliedPerAttemptInvariant` proves `Spec => []AppliedPerAttempt`. It needs
a second inductive invariant, `DInv`, proved together with `IInv` (lemma
`AppliedInductive`). The k-th attempt signs at `fetched + k`, and `DInv`
records this:

- `AttemptsCoverRequests`: every request in flight carries a number in
  `fetched + 1 .. fetched + nonceTries`. A resent request carries its
  attempt's number.
- `AppliedBehindLedger`: the applied transactions of a submission took
  distinct numbers above `fetched`. So `fetched + applied` is at most the
  ledger's number.
- `NothingAppliedBeforeFetch` and `SignedBeforeWait`: bookkeeping.

When the ledger applies a request, its number is `ledgerSeq + 1`. That is
at most `fetched + nonceTries`, so one more application still fits under
`nonceTries`. TLC checked `DInv` with 2 and with 3 submissions before it was
proved.

`SignAndSubmit_proofs` also proves `AttemptsAsConfiguredInvariant`. It
states that both loops make exactly the documented number of attempts for
every argument, a missing, zero or negative one included. The proof uses the
inductive invariant `AInv`: attempts are bounded by the effective limits, and
giving up means the limit was reached.

`Payment_proofs` proves three theorems for every app index, whitelist key and
result shape:

- `PaymentTypeCorrect`;
- `SequenceFromSourceInvariant`;
- `InvoiceNeverDroppedInvariant`.

The inductive invariant `PInv` follows the call:

- nothing is built before `Build`;
- after `Build`, the builder's fields agree: `signers[1]` is the source, and
  an invoice means the hash memo;
- `fetchedFrom` is `signers[1]`.

`EarnBatch_proofs` proves its theorems for every `MaxEarns` and every
`BatchSize > 0`:

- `EarnBatchTypeCorrect`, `ResultPartitionInvariant`,
  `UnattemptedDistinguishedInvariant` and `InvoicesBoundToTxInvariant`. They
  rest on the inductive invariant `EInv`. Its conjuncts give, for each value
  of `pc`, the lengths of the lists in terms of
  `Done(b) = min((b - 1) * BatchSize, numEarns)`:
  - `Looping`: in the loop, `succeeded` holds exactly the first `Done(batch)`
    earns, and `failed` is empty;
  - `FailedBatchDone`: in the tail, the lists together hold
    `Done(batch + 1)` earns, and no failed entry looks unattempted;
  - `Submitting`: the transaction being submitted was built for the current
    sub-batch;
  - `Validated`: past validation, the arguments are valid.

  Lemmas give the arithmetic of `partition`:
  - `NumBatchesBound`: `b <= NumBatches` iff `(b - 1) * BatchSize < numEarns`;
  - `SubBatchInterval`;
  - a lemma on appending a block of results.
- `ImplementsContractTheorem`: `Spec => Contract!Spec`. It also needs `RInv`:
  - every succeeded result carries its sub-batch's hash (`SucceededHashed`);
  - the loop never passes `NumBatches + 1` (`LoopBound`);
  - in the tail, `failed` is exactly one sub-batch's block (`TailShape`).

  The step mapping is as follows:
  - every step that does not end the call is a stutter of the contract;
  - `RejectArguments` is `RejectInvalid`;
  - the IndexError branch of `BatchOpErrors` is `InternalFault`;
  - `FillUnattempted` is `Return` with `k = batch - 1`.

  Lemmas tie the contract's definitions to the loop's:
  - `BatchOf(i) = b` iff `i` lies in sub-batch `b`;
  - `EarnsOfBatch = SubBatch`;
  - the least element of an interval;
  - `Invalid <=> InvalidArguments`.

TLC checked every inductive invariant before it was proved.

Some results stay with TLC only:

- `Termination`. Liveness and ENABLED are out of the prover's reach.

## 6. Not modelled

- Backoff delays and jitter. These are timing, and no property depends on
  them.
- Memo encoding and invoice hashing. These are pure data transformations.
- Building the payment operations (amount conversion, asset issuer).
- Version and endpoint selection, and the pass-through calls.
- The `len(earns) > 100` check of line 373. It cannot fire, because
  `partition` uses the same size.

## 7. Plan for the next sittings

1. **Composition.** Write `Client`, which composes `EarnBatch` and `Payment`
   with `SignAndSubmit`. Each sub-batch and each payment becomes a
   coordinator submission on the sender's or channel's account. Add
   properties across the layers:
   - a succeeded earn's transaction was applied;
   - no earn is reported failed while its transaction was applied. This is
     the duplicate and ambiguous-timeout hazard at the batch level.
2. **Abstract coordinator.** Write `SubmitAbstract`, where a submission
   atomically either applies one transaction at the next sequence number or
   fails. Show that `SignAndSubmit` refines it when answers are never lost,
   using `INSTANCE ... WITH` and the abstract spec as a PROPERTY. When answers
   can be lost, record where the refinement breaks.
3. **Backoff.** Model the backoff delay
   `min(max_delay, min_delay * 2^attempt)` as arithmetic over bounded
   attempts.
4. **Proofs.** Prove the refinement of step 2, as was done for
   `EarnBatchContract`.
