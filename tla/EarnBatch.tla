----------------------------- MODULE EarnBatch -----------------------------
(***************************************************************************)
(* The batch earn processor, Client.submit_earn_batch (client.py): check   *)
(* the invoices and the memo, split the earns into sub-batches of at most  *)
(* BatchSize, submit each sub-batch as one transaction in order, stop at   *)
(* the first sub-batch that fails, and account for every earn in the       *)
(* succeeded and failed lists.                                             *)
(*                                                                         *)
(* What one call of _submit_earn_batch_tx returns or raises is chosen from *)
(* every outcome the coordinator and the transport can produce.            *)
(***************************************************************************)
EXTENDS Integers, Sequences, FiniteSets

CONSTANTS
    MaxEarns,   \* the longest list of earns a caller passes
    BatchSize,  \* the size of partition(earns, 100)
    None        \* Python's None: no hash, no error

ASSUME BoundsAssumption ==
    /\ MaxEarns \in Nat
    /\ BatchSize \in Nat \ {0}

(* The agora.error.Error instances _submit_earn_batch_tx can raise: from   *)
(* the coordinator (transport or nonce retries exhausted) and its own      *)
(* 'unexpected invoice errors present' (line 413).                         *)
RaisedErrors == {"Unavailable", "BadNonce", "UnexpectedInvoiceErrors"}
(* The error of one failed payment operation, and a whole-transaction      *)
(* error (tx_error.tx_error, which may be None).                           *)
OpError == "OpError"
TxErrors == {"InsufficientFee", None}

(* None is no hash and no error.                                           *)
ASSUME NoneAssumption ==
    None \notin Nat \cup RaisedErrors \cup {OpError, "InsufficientFee"}

EarnIdx == 1..MaxEarns
Hashes == Nat
EarnResults(n) ==
    [earn : 1..n, hash : Hashes \cup {None}, error : RaisedErrors \cup {OpError} \cup TxErrors]

VARIABLES
    numEarns,  \* len(earns)
    invoice,   \* invoice[i]: earn i carries an invoice
    memo,      \* a text memo was passed
    appIndex,  \* the client's app_index
    pc,        \* where the call is
    batch,     \* the next sub-batch of partition(earns, BatchSize)
    succeeded, \* the succeeded EarnResults so far
    failed,    \* the failed EarnResults so far
    raised,    \* the exception that left submit_earn_batch, or "none"
    submitted, \* earns that were part of a submitted transaction
    txInvoices,\* the earns whose invoices are in the sub-batch's InvoiceList
    txMemo,    \* the memo of the sub-batch's transaction
    opErrorCount \* len(err.op_errors) of the failed sub-batch's reply, or 0

vars == <<numEarns, invoice, memo, appIndex, pc, batch, succeeded, failed,
          raised, submitted, txInvoices, txMemo, opErrorCount>>

(* A memo: a text memo, none, or an AgoraMemo whose fingerprint fk is the  *)
(* hash of the InvoiceList of the given earns' invoices (empty: b'').      *)
Memos == [kind : {"text", "none"}, fk : {{}}] \cup
         [kind : {"hash"}, fk : SUBSET EarnIdx]

(***************************************************************************)
(* partition(earns, BatchSize) (agora.utils, not under src/): sub-batch b  *)
(* holds the earns (b-1)*BatchSize+1 .. b*BatchSize, the last one fewer.   *)
(***************************************************************************)
NumBatches == (numEarns + BatchSize - 1) \div BatchSize
SubBatch(b) ==
    {i \in 1..numEarns : (b - 1) * BatchSize < i /\ i <= b * BatchSize}
First(b) == (b - 1) * BatchSize + 1
Size(b) == Cardinality(SubBatch(b))

(* Plausible bug: positions counted from the first earn after the batch.  *)
BatchResultsShifted(b, h, e) ==
    [k \in 1..Size(b) |-> [earn |-> First(b) + k, hash |-> h, error |-> e]]

(* [EarnResult(earn, tx_hash=h, error=e) for earn in earn_batch]           *)
BatchResults(b, h, e) ==
    [k \in 1..Size(b) |-> [earn |-> First(b) + k - 1, hash |-> h, error |-> e]]

TypeOK ==
    /\ numEarns \in 0..MaxEarns
    /\ invoice \in [EarnIdx -> BOOLEAN]
    /\ memo \in BOOLEAN
    /\ appIndex \in Nat
    /\ pc \in {"validate", "loop", "submit", "tail", "done"}
    /\ batch \in Nat \ {0}
    /\ succeeded \in Seq(EarnResults(numEarns))
    /\ failed \in Seq(EarnResults(numEarns))
    /\ raised \in {"none", "ValueError", "IndexError"}
    /\ submitted \subseteq EarnIdx
    /\ txInvoices \subseteq EarnIdx
    /\ txMemo \in Memos
    /\ opErrorCount \in Nat

Init ==
    /\ numEarns \in 0..MaxEarns
    /\ invoice \in [EarnIdx -> BOOLEAN]
    /\ \A i \in EarnIdx : i > numEarns => ~invoice[i]
    /\ memo \in BOOLEAN
    /\ appIndex \in {0, 1}
    /\ pc = "validate"
    /\ batch = 1
    /\ succeeded = <<>>
    /\ failed = <<>>
    /\ raised = "none"
    /\ submitted = {}
    /\ txInvoices = {}
    /\ txMemo = [kind |-> "none", fk |-> {}]
    /\ opErrorCount = 0

-----------------------------------------------------------------------------
(* Lines 317-324: invoices must be all or none, need an app index, and     *)
(* exclude a text memo.                                                    *)
Invoices == {i \in 1..numEarns : invoice[i]}

(* Plausible bug: a text memo is not checked against the invoices.         *)
InvalidArgumentsNoMemoCheck ==
    /\ Invoices # {}
    /\ \/ appIndex <= 0
       \/ Cardinality(Invoices) # numEarns

InvalidArguments ==
    /\ Invoices # {}
    /\ \/ appIndex <= 0
       \/ Cardinality(Invoices) # numEarns
       \/ memo

RejectArguments ==
    /\ pc = "validate"
    /\ InvalidArguments
    /\ raised' = "ValueError"
    /\ pc' = "done"
    /\ UNCHANGED <<numEarns, invoice, memo, appIndex, batch, succeeded, failed,
                   submitted, txInvoices, txMemo, opErrorCount>>

AcceptArguments ==
    /\ pc = "validate"
    /\ ~InvalidArguments
    /\ pc' = "loop"
    /\ UNCHANGED <<numEarns, invoice, memo, appIndex, batch, succeeded, failed,
                   raised, submitted, txInvoices, txMemo, opErrorCount>>

(***************************************************************************)
(* _submit_earn_batch_tx, lines 378-385: one transaction for the next      *)
(* sub-batch; its InvoiceList holds the invoices the sub-batch's earns     *)
(* carry, a text memo wins, otherwise with an app index an AgoraMemo with  *)
(* the list's fingerprint (or an empty one) is added.                      *)
(***************************************************************************)
InvoiceListOf(b) == {i \in SubBatch(b) : invoice[i]}

SubBatchMemo(b) ==
    IF memo THEN [kind |-> "text", fk |-> {}]
    ELSE IF appIndex > 0 THEN [kind |-> "hash", fk |-> InvoiceListOf(b)]
    ELSE [kind |-> "none", fk |-> {}]

BuildTx ==
    /\ pc = "loop"
    /\ batch <= NumBatches
    /\ txInvoices' = InvoiceListOf(batch)
    /\ txMemo' = SubBatchMemo(batch)
    /\ pc' = "submit"
    /\ UNCHANGED <<numEarns, invoice, memo, appIndex, batch, succeeded, failed,
                   raised, submitted, opErrorCount>>

(* Plausible bug: the exception is not kept in the EarnResults.           *)
BatchRaisesDroppingError ==
    /\ pc = "submit"
    /\ failed' = failed \o BatchResults(batch, None, None)
    /\ submitted' = submitted \cup SubBatch(batch)
    /\ pc' = "tail"
    /\ UNCHANGED <<numEarns, invoice, memo, appIndex, batch, succeeded, raised,
                   txInvoices, txMemo, opErrorCount>>

(* Lines 329-333: _submit_earn_batch_tx raises an Error: every earn of the *)
(* sub-batch fails with it, and the loop stops.                            *)
BatchRaises ==
    /\ pc = "submit"
    /\ \E e \in RaisedErrors :
         failed' = failed \o BatchResults(batch, None, e)
    /\ submitted' = submitted \cup SubBatch(batch)
    /\ pc' = "tail"
    /\ UNCHANGED <<numEarns, invoice, memo, appIndex, batch, succeeded, raised,
                   txInvoices, txMemo, opErrorCount>>

(* Lines 335-337: no transaction error: the sub-batch succeeded.           *)
BatchSucceeds ==
    /\ pc = "submit"
    /\ succeeded' = succeeded \o BatchResults(batch, batch, None)
    /\ submitted' = submitted \cup SubBatch(batch)
    /\ batch' = batch + 1
    /\ pc' = "loop"
    /\ UNCHANGED <<numEarns, invoice, memo, appIndex, failed, raised,
                   txInvoices, txMemo, opErrorCount>>

(* Lines 342-344 and 348: the transaction failed with operation errors,    *)
(* mapped by position onto the sub-batch: err.op_errors[idx] raises        *)
(* IndexError out of the call when there are fewer than earns, and extra   *)
(* ones are ignored.                                                       *)
BatchOpErrors ==
    /\ pc = "submit"
    /\ submitted' = submitted \cup SubBatch(batch)
    /\ \E numOpErrors \in 1..(Size(batch) + 1) :
       /\ opErrorCount' = numOpErrors
       /\ IF numOpErrors < Size(batch)
            THEN /\ raised' = "IndexError"
                 /\ pc' = "done"
                 /\ UNCHANGED failed
            ELSE /\ failed' = failed \o BatchResults(batch, batch, OpError)
                 /\ pc' = "tail"
                 /\ UNCHANGED raised
    /\ UNCHANGED <<numEarns, invoice, memo, appIndex, batch, succeeded,
                   txInvoices, txMemo>>

(* Plausible bug: the loop goes on after a failed transaction (no break). *)
BatchTxErrorNoBreak ==
    /\ pc = "submit"
    /\ \E e \in TxErrors :
         failed' = failed \o BatchResults(batch, batch, e)
    /\ submitted' = submitted \cup SubBatch(batch)
    /\ batch' = batch + 1
    /\ pc' = "loop"
    /\ UNCHANGED <<numEarns, invoice, memo, appIndex, succeeded, raised,
                   txInvoices, txMemo, opErrorCount>>

(* Lines 345-348: the transaction failed as a whole: its error, possibly   *)
(* None, is given to every earn of the sub-batch.                          *)
BatchTxError ==
    /\ pc = "submit"
    /\ \E e \in TxErrors :
         failed' = failed \o BatchResults(batch, batch, e)
    /\ submitted' = submitted \cup SubBatch(batch)
    /\ pc' = "tail"
    /\ UNCHANGED <<numEarns, invoice, memo, appIndex, batch, succeeded, raised,
                   txInvoices, txMemo, opErrorCount>>

(* Plausible bug: the tail slice is earns[len(succeeded):].               *)
FillUnattemptedFromSucceeded ==
    /\ \/ pc = "tail"
       \/ pc = "loop" /\ batch > NumBatches
    /\ failed' = failed \o
         [k \in 1..(numEarns - Len(succeeded)) |->
            [earn |-> Len(succeeded) + Len(failed) + k, hash |-> None,
             error |-> None]]
    /\ pc' = "done"
    /\ UNCHANGED <<numEarns, invoice, memo, appIndex, batch, succeeded, raised,
                   submitted, txInvoices, txMemo, opErrorCount>>

(* Lines 350-353: every earn after the last one accounted for fails with   *)
(* neither hash nor error, and the BatchEarnResult is returned.            *)
FillUnattempted ==
    /\ \/ pc = "tail"
       \/ pc = "loop" /\ batch > NumBatches
    /\ failed' = failed \o
         [k \in 1..(numEarns - Len(succeeded) - Len(failed)) |->
            [earn |-> Len(succeeded) + Len(failed) + k, hash |-> None,
             error |-> None]]
    /\ pc' = "done"
    /\ UNCHANGED <<numEarns, invoice, memo, appIndex, batch, succeeded, raised,
                   submitted, txInvoices, txMemo, opErrorCount>>

Next ==
    \/ RejectArguments \/ AcceptArguments \/ BuildTx
    \/ BatchRaises \/ BatchSucceeds \/ BatchOpErrors \/ BatchTxError
    \/ FillUnattempted

Spec == Init /\ [][Next]_vars

-----------------------------------------------------------------------------
(* Properties.                                                             *)

EarnsOf(s) == [k \in 1..Len(s) |-> s[k].earn]
Returned == pc = "done" /\ raised = "none"

(***************************************************************************)
(* The returned BatchEarnResult accounts for every earn exactly once and   *)
(* in input order, succeeded ones first: succeeded ++ failed lists the     *)
(* earns 1..len(earns), whichever sub-batch failed and how (lines 326-353, *)
(* the tail slice at line 350 relies on it).                               *)
(***************************************************************************)
ResultPartition ==
    Returned => EarnsOf(succeeded \o failed) = [i \in 1..numEarns |-> i]

(***************************************************************************)
(* A failed EarnResult has neither hash nor error exactly when its earn   *)
(* was never part of a submitted transaction: "never attempted" is told   *)
(* apart from "attempted and rejected".                                   *)
(***************************************************************************)
UnattemptedDistinguished ==
    Returned =>
        \A k \in 1..Len(failed) :
            (failed[k].hash = None /\ failed[k].error = None)
                <=> failed[k].earn \notin submitted

(***************************************************************************)
(* A sub-batch transaction that carries an InvoiceList carries exactly one *)
(* invoice per payment operation, in the sub-batch's earns (spec 3:        *)
(* positional correspondence), and the AgoraMemo binding that list (spec   *)
(* 4.3).  _submit_earn_batch_tx builds the list whenever an earn carries   *)
(* an invoice (line 379) but lets a text memo win (line 380); only the     *)
(* validation of submit_earn_batch (lines 317-324) keeps the two apart.    *)
(***************************************************************************)
InvoicesBoundToTx ==
    (pc = "submit" /\ txInvoices # {}) =>
        /\ txInvoices = SubBatch(batch)
        /\ txMemo = [kind |-> "hash", fk |-> txInvoices]

(***************************************************************************)
(* Spec 4.5 step 5 and 7(e): per-operation errors are mapped onto the     *)
(* earns of a sub-batch only when there is one per earn; any other count  *)
(* is an internal consistency fault.  Lines 342-344 index op_errors by    *)
(* the earn's position and never compare the lengths.                     *)
(***************************************************************************)
OpErrorsMatchSubBatch ==
    \A k \in 1..Len(failed) :
        failed[k].error = OpError => opErrorCount = Size(batch)

(***************************************************************************)
(* Spec 4.5: invoice errors returned for an earn batch are a fatal         *)
(* internal error, not mapped onto any earn.                               *)
(***************************************************************************)
InvoiceFaultNotMapped ==
    \A k \in 1..Len(failed) : failed[k].error # "UnexpectedInvoiceErrors"

-----------------------------------------------------------------------------
(***************************************************************************)
(* The contract of submit_earn_batch (module EarnBatchContract).  The      *)
(* caller sees the outcome and the BatchEarnResult only when the call      *)
(* ends; an IndexError out of the loop is an internal fault.               *)
(***************************************************************************)
ContractOutcome ==
    IF pc # "done" THEN "running"
    ELSE CASE raised = "none"       -> "returned"
           [] raised = "ValueError" -> "ValueError"
           [] OTHER                 -> "InternalFault"

Contract == INSTANCE EarnBatchContract WITH
    Errors    <- RaisedErrors \cup {OpError} \cup TxErrors,
    outcome   <- ContractOutcome,
    succeeded <- IF ContractOutcome = "returned" THEN succeeded ELSE <<>>,
    failed    <- IF ContractOutcome = "returned" THEN failed ELSE <<>>

(***************************************************************************)
(* submit_earn_batch implements its contract (spec 4.5): it validates      *)
(* before it submits, stops at the first failed sub-batch, and returns     *)
(* the succeeded sub-batches in order, the failed one with one shared      *)
(* error or the transaction's per-earn errors, and the rest unattempted,  *)
(* whichever sub-batch fails and how (lines 314-353).                      *)
(***************************************************************************)
ImplementsContract == Contract!Spec

=============================================================================
