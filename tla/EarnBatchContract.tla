-------------------------- MODULE EarnBatchContract --------------------------
(***************************************************************************)
(* What submit_earn_batch promises its caller (spec 4.5 and 7), as one     *)
(* atomic step from the call to its outcome:                               *)
(*  - a configuration error is raised exactly when the arguments are       *)
(*    invalid, before anything is submitted;                               *)
(*  - otherwise the call returns a BatchEarnResult, or ends in an internal *)
(*    fault.  The result's succeeded list is the earns of the first k      *)
(*    sub-batches, in order, each with its sub-batch's transaction hash.   *)
(*    If some sub-batch failed, it is the (k+1)-th: its earns come first  *)
(*    in failed, all with one raised error and no hash, or each with that *)
(*    transaction's hash and its own error.  Every later earn follows,     *)
(*    with neither hash nor error.                                         *)
(* A transaction hash is named by the number of its sub-batch.             *)
(***************************************************************************)
EXTENDS Integers, Sequences, FiniteSets

CONSTANTS
    MaxEarns,   \* the longest list of earns a caller passes
    BatchSize,  \* earns per transaction
    None,       \* no hash, no error
    Errors      \* the errors an EarnResult can carry (None included)

VARIABLES
    numEarns,   \* len(earns)
    invoice,    \* invoice[i]: earn i carries an invoice
    memo,       \* a text memo was passed
    appIndex,   \* the client's app_index
    outcome,    \* "running", "returned", "ValueError" or "InternalFault"
    succeeded,  \* the returned succeeded EarnResults
    failed      \* the returned failed EarnResults

vars == <<numEarns, invoice, memo, appIndex, outcome, succeeded, failed>>

EarnIdx == 1..MaxEarns

(* The sub-batch an earn belongs to, and how many sub-batches there are.  *)
BatchOf(i) == (i - 1) \div BatchSize + 1
Batches == (numEarns + BatchSize - 1) \div BatchSize
EarnsOfBatch(j) == {i \in 1..numEarns : BatchOf(i) = j}
LeastOf(S) == CHOOSE i \in S : \A k \in S : i <= k

(* Spec 4.5, validation: invoices all or none, an app index with them,     *)
(* and never together with a text memo.                                    *)
Invalid ==
    LET withInvoice == {i \in 1..numEarns : invoice[i]}
    IN  /\ withInvoice # {}
        /\ \/ appIndex <= 0
           \/ withInvoice # 1..numEarns
           \/ memo

(* The first n earns, succeeded with their sub-batch's hash.               *)
SucceededUpTo(n) ==
    [i \in 1..n |-> [earn |-> i, hash |-> BatchOf(i), error |-> None]]

(* The earns after the first n, never attempted.                           *)
UnattemptedAfter(n) ==
    [k \in 1..(numEarns - n) |-> [earn |-> n + k, hash |-> None, error |-> None]]

(* The results a failed sub-batch j may report for its earns, in order.    *)
FailedBatch(j) ==
    LET n     == Cardinality(EarnsOfBatch(j))
        first == LeastOf(EarnsOfBatch(j))
    IN  {[k \in 1..n |-> [earn |-> first + k - 1, hash |-> None, error |-> e]] :
            e \in Errors \ {None}}
        \cup
        {[k \in 1..n |-> [earn |-> first + k - 1, hash |-> j, error |-> es[k]]] :
            es \in [1..n -> Errors]}

Init ==
    /\ numEarns \in 0..MaxEarns
    /\ invoice \in [EarnIdx -> BOOLEAN]
    /\ \A i \in EarnIdx : i > numEarns => ~invoice[i]
    /\ memo \in BOOLEAN
    /\ appIndex \in {0, 1}
    /\ outcome = "running"
    /\ succeeded = <<>>
    /\ failed = <<>>

RejectInvalid ==
    /\ outcome = "running"
    /\ Invalid
    /\ outcome' = "ValueError"
    /\ UNCHANGED <<numEarns, invoice, memo, appIndex, succeeded, failed>>

(* k sub-batches succeeded, and then either none was left or the next one  *)
(* failed and the loop stopped.                                            *)
Return ==
    /\ outcome = "running"
    /\ ~Invalid
    /\ \E k \in 0..Batches :
         LET n == IF k * BatchSize < numEarns THEN k * BatchSize ELSE numEarns
         IN  /\ succeeded' = SucceededUpTo(n)
             /\ \/ k = Batches /\ failed' = <<>>
                \/ /\ k < Batches
                   /\ \E f \in FailedBatch(k + 1) :
                        failed' = f \o UnattemptedAfter(n + Len(f))
    /\ outcome' = "returned"
    /\ UNCHANGED <<numEarns, invoice, memo, appIndex>>

(* A shape mismatch in what the service returned (spec 7, kind e).         *)
InternalFault ==
    /\ outcome = "running"
    /\ ~Invalid
    /\ outcome' = "InternalFault"
    /\ UNCHANGED <<numEarns, invoice, memo, appIndex, succeeded, failed>>

Next == RejectInvalid \/ Return \/ InternalFault

Spec == Init /\ [][Next]_vars

=============================================================================
