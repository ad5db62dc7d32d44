-------------------------- MODULE EarnBatch_proofs --------------------------
(***************************************************************************)
(* Proofs about submit_earn_batch (module EarnBatch), for every batch size *)
(* and every number of earns: the returned BatchEarnResult accounts for    *)
(* every earn once and in order, tells unattempted earns apart, and every *)
(* sub-batch transaction's InvoiceList is bound to its memo.               *)
(***************************************************************************)
EXTENDS EarnBatch, FiniteSetTheorems, SequenceTheorems, TLAPS

(***************************************************************************)
(* The arithmetic of partition(earns, BatchSize).  Done(b) is the number   *)
(* of earns in the sub-batches before b: (b-1)*BatchSize, or all of them. *)
(***************************************************************************)
Done(b) == IF (b - 1) * BatchSize < numEarns THEN (b - 1) * BatchSize
                                             ELSE numEarns

(* Sub-batch b exists exactly when earns come before its start.            *)
LEMMA NumBatchesBound ==
    ASSUME NEW n \in Nat, NEW b \in Nat \ {0}
    PROVE  b <= (n + BatchSize - 1) \div BatchSize <=> (b - 1) * BatchSize < n
<1> DEFINE B == BatchSize
<1>1. B \in Nat \ {0}
  BY BoundsAssumption
<1>2. PICK q \in Nat, r \in 0..(B - 1) :
          /\ n + B - 1 = q * B + r
          /\ q = (n + B - 1) \div B
  BY <1>1
<1>3. ASSUME b <= q PROVE (b - 1) * B < n
  <2>1. (q - b) * B \in Nat
    BY <1>1, <1>2, <1>3
  <2>2. (b - 1) * B = q * B - B - (q - b) * B
    BY <1>1, <1>2
  <2>3. QED
    BY <1>1, <1>2, <2>1, <2>2
<1>4. ASSUME b > q PROVE (b - 1) * B >= n
  <2>1. (b - 1 - q) * B \in Nat
    BY <1>1, <1>2, <1>4
  <2>2. (b - 1) * B = q * B + (b - 1 - q) * B
    BY <1>1, <1>2
  <2>3. QED
    BY <1>1, <1>2, <2>1, <2>2
<1>5. b <= q <=> (b - 1) * B < n
  BY <1>1, <1>2, <1>3, <1>4
<1>6. QED
  BY <1>2, <1>5, Zenon

(* An existing sub-batch b holds the earns after Done(b), one at least.    *)
LEMMA SubBatchInterval ==
    ASSUME numEarns \in Nat, NEW b \in Nat \ {0},
           (b - 1) * BatchSize < numEarns
    PROVE  LET last == IF b * BatchSize < numEarns THEN b * BatchSize
                                                   ELSE numEarns
           IN  /\ SubBatch(b) = ((b - 1) * BatchSize + 1)..last
               /\ Size(b) = last - (b - 1) * BatchSize
               /\ Size(b) >= 1
               /\ Done(b) = (b - 1) * BatchSize
               /\ Done(b + 1) = last
               /\ First(b) = Done(b) + 1
<1> DEFINE B == BatchSize
           last == IF b * BatchSize < numEarns THEN b * BatchSize ELSE numEarns
<1>1. B \in Nat \ {0} /\ b * B = (b - 1) * B + B /\ (b - 1) * B \in Nat
  BY BoundsAssumption
<1>2. SubBatch(b) = ((b - 1) * B + 1)..last
  BY <1>1 DEF SubBatch
<1>3. Size(b) = last - (b - 1) * B
  BY <1>1, <1>2, FS_Interval DEF Size
<1>4. QED
  BY <1>1, <1>2, <1>3 DEF Done, First

-----------------------------------------------------------------------------
(***************************************************************************)
(* None of the three properties is inductive: each speaks of the end of    *)
(* the loop, which is reached through sub-batches that each add their      *)
(* earns.  The strengthening follows the loop of lines 326-353: while it  *)
(* runs, succeeded holds the earns of the sub-batches before batch and     *)
(* they are all that was submitted; once a sub-batch failed, its earns     *)
(* follow in failed, each with a hash or an error; the fill ends the list  *)
(* at len(earns).  And a sub-batch being submitted was built from the      *)
(* arguments that validation accepted.                                     *)
(***************************************************************************)
Fresh ==
    pc = "validate" =>
        /\ batch = 1 /\ succeeded = <<>> /\ failed = <<>>
        /\ submitted = {} /\ raised = "none"

Validated == (pc # "validate" /\ raised # "ValueError") => ~InvalidArguments

Looping ==
    pc \in {"loop", "submit"} =>
        /\ Len(succeeded) = Done(batch)
        /\ failed = <<>>
        /\ submitted = 1..Done(batch)
        /\ raised = "none"

Submitting ==
    pc = "submit" =>
        /\ (batch - 1) * BatchSize < numEarns
        /\ txInvoices = InvoiceListOf(batch)
        /\ txMemo = SubBatchMemo(batch)

FailedBatchDone ==
    pc = "tail" =>
        /\ (batch - 1) * BatchSize < numEarns
        /\ Len(succeeded) + Len(failed) = Done(batch + 1)
        /\ submitted = 1..Done(batch + 1)
        /\ raised = "none"
        /\ \A k \in 1..Len(failed) :
              ~(failed[k].hash = None /\ failed[k].error = None)

InOrder ==
    /\ \A k \in 1..Len(succeeded) : succeeded[k].earn = k
    /\ \A k \in 1..Len(failed) : failed[k].earn = Len(succeeded) + k

Complete ==
    Returned =>
        /\ Len(succeeded) + Len(failed) = numEarns
        /\ UnattemptedDistinguished

EInv ==
    /\ TypeOK
    /\ Fresh
    /\ Validated
    /\ Looping
    /\ Submitting
    /\ FailedBatchDone
    /\ InOrder
    /\ Complete

-----------------------------------------------------------------------------
(* Done(b) counts earns: at most all of them, all once b is past the end.  *)
LEMMA DoneRange ==
    ASSUME numEarns \in Nat, NEW b \in Nat \ {0}
    PROVE  /\ Done(b) \in 0..numEarns
           /\ (b - 1) * BatchSize >= numEarns => Done(b) = numEarns
<1>1. (b - 1) * BatchSize \in Nat
  BY BoundsAssumption
<1>2. QED
  BY <1>1 DEF Done

(* Appending a block of n elements to a sequence.                          *)
LEMMA AppendBlock ==
    ASSUME NEW S, NEW s \in Seq(S), NEW n \in Nat, NEW t \in [1..n -> S]
    PROVE  /\ s \o t \in Seq(S)
           /\ Len(s \o t) = Len(s) + n
           /\ \A k \in 1..(Len(s) + n) :
                 (s \o t)[k] = IF k <= Len(s) THEN s[k] ELSE t[k - Len(s)]
<1>1. t \in Seq(S) /\ Len(t) = n
  BY SeqDef
<1>2. QED
  BY <1>1, ConcatProperties

(* The same, for the lists of EarnResults of a BatchEarnResult.           *)
LEMMA AppendResults ==
    ASSUME NEW s \in Seq(EarnResults(numEarns)), NEW n \in Nat,
           NEW t \in [1..n -> EarnResults(numEarns)]
    PROVE  /\ s \o t \in Seq(EarnResults(numEarns))
           /\ Len(s \o t) = Len(s) + n
           /\ \A k \in 1..(Len(s) + n) :
                 (s \o t)[k] = IF k <= Len(s) THEN s[k] ELSE t[k - Len(s)]
BY AppendBlock

(* Validation lets an invoice through only with all of them, an app index  *)
(* and no text memo: a sub-batch with an invoice has one on every earn.    *)
LEMMA InvoicesAllOrNone ==
    ASSUME numEarns \in Nat, invoice \in [EarnIdx -> BOOLEAN],
           appIndex \in Nat, ~InvalidArguments, NEW b \in Nat \ {0}, InvoiceListOf(b) # {}
    PROVE  /\ InvoiceListOf(b) = SubBatch(b)
           /\ ~memo
           /\ appIndex > 0
<1>1. Invoices # {}
  BY DEF InvoiceListOf, SubBatch, Invoices
<1>2. /\ Cardinality(Invoices) = numEarns /\ ~memo /\ appIndex > 0
  <2>1. Cardinality(Invoices) = numEarns /\ ~memo /\ ~(appIndex <= 0)
    BY <1>1, Zenon DEF InvalidArguments
  <2>2. QED
    BY <2>1
<1>3. Invoices = 1..numEarns
  <2>1. IsFiniteSet(1..numEarns) /\ Cardinality(1..numEarns) = numEarns
    BY FS_Interval
  <2>2. Invoices \in SUBSET (1..numEarns)
    BY DEF Invoices
  <2>3. QED
    BY <1>2, <2>1, <2>2, FS_Subset
<1>4. QED
  BY <1>2, <1>3 DEF InvoiceListOf, SubBatch, Invoices

(* A sub-batch the loop submits yields its earns' EarnResults, in order,  *)
(* right after those of the sub-batches before it.                         *)
LEMMA BatchResultsBlock ==
    ASSUME numEarns \in Nat, NEW b \in Nat \ {0},
           (b - 1) * BatchSize < numEarns,
           NEW h \in Hashes \cup {None},
           NEW e \in RaisedErrors \cup {OpError} \cup TxErrors
    PROVE  /\ Done(b) < Done(b + 1)
           /\ SubBatch(b) = (Done(b) + 1)..Done(b + 1)
           /\ Size(b) = Done(b + 1) - Done(b)
           /\ BatchResults(b, h, e)
                 \in [1..(Done(b + 1) - Done(b)) -> EarnResults(numEarns)]
           /\ \A k \in 1..(Done(b + 1) - Done(b)) :
                 BatchResults(b, h, e)[k] =
                    [earn |-> Done(b) + k, hash |-> h, error |-> e]
<1>1. /\ SubBatch(b) = (Done(b) + 1)..Done(b + 1)
      /\ Size(b) = Done(b + 1) - Done(b)
      /\ Size(b) >= 1
      /\ First(b) = Done(b) + 1
      /\ Done(b + 1) \in 0..numEarns /\ Done(b) \in 0..numEarns
  BY SubBatchInterval, DoneRange
<1>2. QED
  BY <1>1 DEF BatchResults, EarnResults

-----------------------------------------------------------------------------
LEMMA EarnBatchInductive == Spec => []EInv
<1>1. Init => EInv
  <2> SUFFICES ASSUME Init PROVE EInv
    OBVIOUS
  <2>1. TypeOK
    BY EmptySeq DEF Init, TypeOK, Memos, EarnIdx
  <2>2. QED
    BY <2>1, EmptySeq DEF Init, EInv, Fresh, Validated, Looping, Submitting,
                          FailedBatchDone, InOrder, Complete, Returned
<1>2. EInv /\ [Next]_vars => EInv'
  <2> SUFFICES ASSUME EInv, [Next]_vars PROVE EInv'
    OBVIOUS
  <2> DEFINE d  == Done(batch)
             d1 == Done(batch + 1)
             R  == EarnResults(numEarns)
  <2>0. /\ TypeOK /\ numEarns \in Nat /\ batch \in Nat \ {0} /\ opErrorCount \in Nat
        /\ d \in 0..numEarns /\ d1 \in 0..numEarns
        /\ succeeded \in Seq(R) /\ failed \in Seq(R)
    BY DoneRange DEF EInv, TypeOK
  (* The state of the loop when a sub-batch is submitted.                  *)
  <2>1. ASSUME pc = "submit"
        PROVE  /\ (batch - 1) * BatchSize < numEarns
               /\ Len(succeeded) = d /\ failed = <<>>
               /\ submitted = 1..d /\ raised = "none"
               /\ ~InvalidArguments
               /\ d < d1 /\ SubBatch(batch) = (d + 1)..d1
    <3>1. (batch - 1) * BatchSize < numEarns
      BY <2>1 DEF EInv, Submitting
    <3>2. d < d1 /\ SubBatch(batch) = (d + 1)..d1
      BY <2>0, <3>1, SubBatchInterval, DoneRange
    <3>3. QED
      BY <2>1, <3>1, <3>2 DEF EInv, Looping, Validated
  (* The three ways a sub-batch fails: its earns go to failed, each with   *)
  (* a hash or an error, and the loop stops.                               *)
  <2>2. ASSUME pc = "submit",
               NEW h \in Hashes \cup {None},
               NEW e \in RaisedErrors \cup {OpError} \cup TxErrors,
               ~(h = None /\ e = None),
               failed' = failed \o BatchResults(batch, h, e),
               submitted' = submitted \cup SubBatch(batch),
               pc' = "tail", opErrorCount' \in Nat,
               UNCHANGED <<numEarns, invoice, memo, appIndex, batch,
                           succeeded, raised, txInvoices, txMemo>>
        PROVE  EInv'
    <3> DEFINE t == BatchResults(batch, h, e)
    <3>1. /\ (batch - 1) * BatchSize < numEarns
          /\ Len(succeeded) = d /\ failed = <<>> /\ submitted = 1..d
          /\ raised = "none" /\ ~InvalidArguments
          /\ d < d1 /\ SubBatch(batch) = (d + 1)..d1
      BY <2>1, <2>2
    <3>2. /\ t \in [1..(d1 - d) -> R]
          /\ \A k \in 1..(d1 - d) : t[k] = [earn |-> d + k, hash |-> h, error |-> e]
      BY <2>0, <3>1, BatchResultsBlock
    <3>3. /\ failed' \in Seq(R)
          /\ Len(failed') = d1 - d
          /\ \A k \in 1..(d1 - d) : failed'[k] = t[k]
      <4>1. d1 - d \in Nat /\ <<>> \in Seq(R) /\ Len(<<>>) = 0
        BY <2>0, <3>1, EmptySeq
      <4>2. /\ <<>> \o t \in Seq(R)
            /\ Len(<<>> \o t) = Len(<<>>) + (d1 - d)
            /\ \A k \in 1..(Len(<<>>) + (d1 - d)) :
                  (<<>> \o t)[k] = IF k <= Len(<<>>) THEN <<>>[k]
                                                    ELSE t[k - Len(<<>>)]
        BY <4>1, <3>2, AppendBlock
      <4>3. QED
        BY <2>2, <3>1, <4>1, <4>2
    <3>4. submitted' = 1..d1
      BY <2>0, <2>2, <3>1
    <3>5. TypeOK'
      <4>1. failed' \in Seq(EarnResults(numEarns'))
        BY <2>2, <3>3
      <4>2. submitted' \subseteq EarnIdx
        <5>1. d1 \in 0..numEarns /\ numEarns \in 0..MaxEarns
          BY <2>0 DEF TypeOK
        <5>2. QED
          BY <5>1, <3>4, BoundsAssumption DEF EarnIdx
      <4>3. QED
        BY <2>0, <2>2, <4>1, <4>2 DEF TypeOK
    <3>6. FailedBatchDone'
      <4>1. Done(batch + 1)' = d1
        BY <2>2 DEF Done
      <4>2. \A k \in 1..Len(failed') :
              ~(failed'[k].hash = None /\ failed'[k].error = None)
        BY <2>2, <3>2, <3>3
      <4>3. Len(succeeded') + Len(failed') = d1
        BY <2>0, <2>2, <3>1, <3>3
      <4>4. QED
        <5> SUFFICES
              /\ (batch' - 1) * BatchSize < numEarns'
              /\ Len(succeeded') + Len(failed') = Done(batch + 1)'
              /\ submitted' = 1..Done(batch + 1)'
              /\ raised' = "none"
              /\ \A k \in 1..Len(failed') :
                    ~(failed'[k].hash = None /\ failed'[k].error = None)
          BY DEF FailedBatchDone
        <5>1. (batch' - 1) * BatchSize < numEarns' /\ raised' = "none"
          BY <2>2, <3>1
        <5>2. QED
          BY <3>4, <4>1, <4>2, <4>3, <5>1
    <3>7. InOrder'
      <4>1. \A k \in 1..Len(failed') : failed'[k].earn = Len(succeeded') + k
        BY <2>2, <3>1, <3>2, <3>3
      <4>2. QED
        BY <2>2, <4>1 DEF EInv, InOrder
    <3>8. (Fresh /\ Validated /\ Looping /\ Submitting /\ Complete)'
      BY <2>2, <3>1 DEF Fresh, Validated, Looping, Submitting, Complete,
                        Returned, InvalidArguments, Invoices
    <3>9. QED
      BY <3>5, <3>6, <3>7, <3>8 DEF EInv
  <2>3. CASE RejectArguments
    BY <2>3 DEF RejectArguments, EInv, TypeOK, Fresh, Validated, Looping,
                Submitting, FailedBatchDone, InOrder, Complete, Returned
  <2>4. CASE AcceptArguments
    <3>1. Done(1) = 0
      BY <2>0, BoundsAssumption DEF Done
    <3>2. TypeOK'
      BY <2>0, <2>4 DEF AcceptArguments, TypeOK
    <3>3. /\ pc = "validate" /\ batch = 1 /\ succeeded = <<>>
          /\ failed = <<>> /\ submitted = {} /\ raised = "none"
      BY <2>4 DEF AcceptArguments, EInv, Fresh
    <3>4. Looping'
      <4>1. Done(batch)' = 0
        BY <2>4, <3>1, <3>3 DEF AcceptArguments, Done
      <4>2. QED
        BY <2>4, <3>3, <4>1, EmptySeq DEF AcceptArguments, Looping
    <3>5. Validated'
      BY <2>4, Zenon DEF AcceptArguments, Validated, InvalidArguments, Invoices
    <3>6. (Fresh /\ Submitting /\ FailedBatchDone /\ InOrder /\ Complete)'
      BY <2>4, <3>3, EmptySeq DEF AcceptArguments, Fresh, Submitting,
                                  FailedBatchDone, InOrder, Complete, Returned
    <3>7. QED
      BY <3>2, <3>4, <3>5, <3>6 DEF EInv
  <2>5. CASE BuildTx
    <3>1. (batch - 1) * BatchSize < numEarns
      <4>1. batch <= NumBatches
        BY <2>5 DEF BuildTx
      <4>2. QED
        BY <2>0, <4>1, NumBatchesBound DEF NumBatches
    <3>2. InvoiceListOf(batch) \in SUBSET EarnIdx
      BY <2>0, BoundsAssumption DEF TypeOK, InvoiceListOf, SubBatch, EarnIdx
    <3>3. txMemo' = SubBatchMemo(batch) /\ txMemo' \in Memos
      BY <2>5, <3>2 DEF BuildTx, SubBatchMemo, Memos
    <3>4. TypeOK'
      BY <2>0, <2>5, <3>2, <3>3 DEF BuildTx, TypeOK
    <3>5. Submitting'
      BY <2>5, <3>1, <3>3 DEF BuildTx, Submitting, SubBatchMemo, InvoiceListOf,
                              SubBatch
    <3>6. QED
      BY <2>5, <3>4, <3>5 DEF BuildTx, EInv, Fresh, Validated, Looping,
                              FailedBatchDone, InOrder, Complete, Returned,
                              InvalidArguments, Invoices, Done
  <2>6. CASE BatchRaises
    <3>1. PICK e \in RaisedErrors : failed' = failed \o BatchResults(batch, None, e)
      BY <2>6 DEF BatchRaises
    <3>2. e # None
      BY NoneAssumption
    <3>3. QED
      BY <2>0, <2>2, <2>6, <3>1, <3>2 DEF BatchRaises
  <2>7. CASE BatchTxError
    <3>1. PICK e \in TxErrors : failed' = failed \o BatchResults(batch, batch, e)
      BY <2>7 DEF BatchTxError
    <3>2. batch \in Hashes /\ batch # None
      BY <2>0, NoneAssumption DEF Hashes
    <3>3. QED
      BY <2>0, <2>2, <2>7, <3>1, <3>2 DEF BatchTxError
  <2>8. CASE BatchOpErrors
    <3>1. PICK n \in 1..(Size(batch) + 1) :
            /\ opErrorCount' = n
            /\ IF n < Size(batch)
                 THEN /\ raised' = "IndexError"
                      /\ pc' = "done"
                      /\ UNCHANGED failed
                 ELSE /\ failed' = failed \o BatchResults(batch, batch, OpError)
                      /\ pc' = "tail"
                      /\ UNCHANGED raised
      BY <2>8 DEF BatchOpErrors
    <3>0. n \in Nat
      <4>1. Size(batch) \in Nat
        BY <2>0, <2>1, <2>8, SubBatchInterval DEF BatchOpErrors
      <4>2. QED
        BY <4>1
    <3>2. CASE n < Size(batch)
      <4>1. submitted' = submitted \cup SubBatch(batch)
        BY <2>8 DEF BatchOpErrors
      <4>2. /\ submitted = 1..d /\ SubBatch(batch) = (d + 1)..d1
            /\ ~InvalidArguments
        BY <2>1, <2>8 DEF BatchOpErrors
      <4>3. submitted' \subseteq EarnIdx
        <5>1. d1 \in 0..numEarns /\ numEarns \in 0..MaxEarns
          BY <2>0 DEF TypeOK
        <5>2. QED
          BY <2>0, <4>1, <4>2, <5>1, BoundsAssumption DEF EarnIdx
      <4>4. TypeOK'
        BY <2>0, <2>8, <3>0, <3>1, <3>2, <4>3 DEF BatchOpErrors, TypeOK
      <4>5. QED
        BY <2>8, <3>1, <3>2, <4>2, <4>4 DEF BatchOpErrors, EInv, Fresh,
              Validated, Looping, Submitting, FailedBatchDone, InOrder,
              Complete, Returned, InvalidArguments, Invoices
    <3>3. CASE ~(n < Size(batch))
      <4>1. batch \in Hashes /\ batch # None /\ OpError # None
        BY <2>0, NoneAssumption DEF Hashes
      <4>2. QED
        BY <2>2, <2>8, <3>0, <3>1, <3>3, <4>1 DEF BatchOpErrors
    <3>4. QED
      BY <3>2, <3>3
  <2>9. CASE BatchSucceeds
    <3> DEFINE t == BatchResults(batch, batch, None)
    <3>1. /\ (batch - 1) * BatchSize < numEarns
          /\ Len(succeeded) = d /\ failed = <<>> /\ submitted = 1..d
          /\ raised = "none" /\ ~InvalidArguments
          /\ d < d1 /\ SubBatch(batch) = (d + 1)..d1
      BY <2>1, <2>9 DEF BatchSucceeds
    <3>2. /\ t \in [1..(d1 - d) -> R]
          /\ \A k \in 1..(d1 - d) : t[k] = [earn |-> d + k, hash |-> batch, error |-> None]
      <4>1. batch \in Hashes /\ None \in TxErrors
        BY <2>0 DEF Hashes, TxErrors
      <4>2. QED
        BY <2>0, <3>1, <4>1, BatchResultsBlock
    <3>3. /\ succeeded' \in Seq(R)
          /\ Len(succeeded') = d1
          /\ \A k \in 1..d1 : succeeded'[k] = IF k <= d THEN succeeded[k] ELSE t[k - d]
      <4>1. d1 - d \in Nat /\ succeeded \in Seq(R)
        BY <2>0, <3>1
      <4>2. /\ succeeded \o t \in Seq(R)
            /\ Len(succeeded \o t) = Len(succeeded) + (d1 - d)
            /\ \A k \in 1..(Len(succeeded) + (d1 - d)) :
                  (succeeded \o t)[k] = IF k <= Len(succeeded) THEN succeeded[k]
                                        ELSE t[k - Len(succeeded)]
        BY <4>1, <3>2, AppendResults
      <4>3. QED
        BY <2>0, <2>9, <3>1, <4>2 DEF BatchSucceeds
    <3>4. submitted' = 1..d1
      BY <2>0, <2>9, <3>1 DEF BatchSucceeds
    <3>5. Done(batch)' = d1
      BY <2>9 DEF BatchSucceeds, Done
    <3>6. TypeOK'
      <4>1. submitted' \subseteq EarnIdx
        <5>1. d1 \in 0..numEarns /\ numEarns \in 0..MaxEarns
          BY <2>0 DEF TypeOK
        <5>2. QED
          BY <3>4, <5>1, BoundsAssumption DEF EarnIdx
      <4>2. QED
        BY <2>0, <2>9, <3>3, <4>1 DEF BatchSucceeds, TypeOK
    <3>7. Looping'
      BY <2>9, <3>1, <3>3, <3>4, <3>5 DEF BatchSucceeds, Looping
    <3>8. InOrder'
      <4>1. \A k \in 1..Len(succeeded') : succeeded'[k].earn = k
        BY <2>0, <3>1, <3>2, <3>3 DEF EInv, InOrder
      <4>2. QED
        BY <2>9, <3>1, <4>1, EmptySeq DEF BatchSucceeds, InOrder
    <3>9. (Fresh /\ Validated /\ Submitting /\ FailedBatchDone /\ Complete)'
      BY <2>9, <3>1 DEF BatchSucceeds, Fresh, Validated, Submitting,
                        FailedBatchDone, Complete, Returned, InvalidArguments,
                        Invoices
    <3>10. QED
      BY <3>6, <3>7, <3>8, <3>9 DEF EInv
  <2>10. CASE FillUnattempted
    <3> DEFINE L == Len(succeeded) + Len(failed)
               u == [k \in 1..(numEarns - Len(succeeded) - Len(failed)) |->
                       [earn |-> Len(succeeded) + Len(failed) + k,
                        hash |-> None, error |-> None]]
    (* Whether a sub-batch failed or none was left, the earns accounted    *)
    (* for are exactly the submitted ones, and a failed one is marked.     *)
    <3>0. /\ succeeded' = succeeded /\ submitted' = submitted
          /\ raised' = raised /\ numEarns' = numEarns /\ pc' = "done"
          /\ Len(succeeded) \in Nat /\ Len(failed) \in Nat
      BY <2>0, <2>10, LenProperties DEF FillUnattempted
    <3>1. /\ raised = "none" /\ ~InvalidArguments
          /\ L \in 0..numEarns
          /\ submitted = 1..L
          /\ \A k \in 1..Len(failed) :
                ~(failed[k].hash = None /\ failed[k].error = None)
      <4>1. CASE pc = "tail"
        BY <2>0, <4>1 DEF EInv, FailedBatchDone, Validated
      <4>2. CASE pc = "loop" /\ batch > NumBatches
        <5>1. (batch - 1) * BatchSize >= numEarns
          <6>1. batch <= NumBatches <=> (batch - 1) * BatchSize < numEarns
            BY <2>0, NumBatchesBound DEF NumBatches
          <6>2. NumBatches \in Int /\ (batch - 1) * BatchSize \in Int
            BY <2>0, BoundsAssumption DEF NumBatches
          <6>3. QED
            BY <2>0, <4>2, <6>1, <6>2
        <5>2. d = numEarns
          BY <2>0, <5>1, DoneRange
        <5>3. QED
          BY <2>0, <4>2, <5>2, EmptySeq DEF EInv, Looping, Validated
      <4>3. QED
        BY <2>10, <4>1, <4>2 DEF FillUnattempted
    <3>2. /\ numEarns - L \in Nat
          /\ u \in [1..(numEarns - L) -> R]
          /\ \A j \in 1..(numEarns - L) :
                u[j] = [earn |-> L + j, hash |-> None, error |-> None]
      BY <2>0, <3>1 DEF EarnResults, Hashes, TxErrors
    <3>9. failed' = failed \o u
      BY <2>10 DEF FillUnattempted
    <3> HIDE DEF u
    <3>3. /\ failed' \in Seq(R)
          /\ Len(failed') = numEarns - Len(succeeded)
          /\ \A k \in 1..(numEarns - Len(succeeded)) :
                failed'[k] = IF k <= Len(failed) THEN failed[k]
                             ELSE u[k - Len(failed)]
      <4>1. /\ failed \o u \in Seq(R)
            /\ Len(failed \o u) = Len(failed) + (numEarns - L)
            /\ \A k \in 1..(Len(failed) + (numEarns - L)) :
                  (failed \o u)[k] = IF k <= Len(failed) THEN failed[k]
                                     ELSE u[k - Len(failed)]
        <5>1. numEarns - L \in Nat /\ failed \in Seq(R)
          BY <2>0, <3>2
        <5>2. QED
          BY <5>1, <3>2, AppendResults
      <4>2. Len(failed) + (numEarns - L) = numEarns - Len(succeeded)
        BY <2>0, <3>0
      <4>3. QED
        BY <3>9, <4>1, <4>2
    <3>4. TypeOK'
      BY <2>0, <2>10, <3>3 DEF FillUnattempted, TypeOK
    (* Earn of the k-th failed result: k after the succeeded ones.         *)
    <3>5. \A k \in 1..Len(failed') : failed'[k].earn = Len(succeeded') + k
      <4> SUFFICES ASSUME NEW k \in 1..(numEarns - Len(succeeded))
                   PROVE  failed'[k].earn = Len(succeeded) + k
        BY <3>0, <3>3
      <4>1. CASE k <= Len(failed)
        <5>1. failed'[k] = failed[k]
          BY <3>3, <4>1
        <5>2. QED
          BY <3>0, <4>1, <5>1 DEF EInv, InOrder
      <4>2. CASE ~(k <= Len(failed))
        <5>1. failed'[k] = u[k - Len(failed)]
          BY <3>3, <4>2
        <5>2. k - Len(failed) \in 1..(numEarns - L)
          BY <2>0, <3>0, <4>2
        <5>3. u[k - Len(failed)].earn = L + (k - Len(failed))
          BY <3>2, <5>2
        <5>4. QED
          BY <3>0, <5>1, <5>3
      <4>3. QED
        BY <4>1, <4>2
    <3>6. Complete'
      <4>1. Len(succeeded') + Len(failed') = numEarns
        <5>1. Len(failed') = numEarns - Len(succeeded)
          BY <3>3
        <5>2. QED
          BY <2>0, <3>0, <5>1
      <4>2. ASSUME NEW k \in 1..Len(failed')
            PROVE  (failed'[k].hash = None /\ failed'[k].error = None)
                      <=> failed'[k].earn \notin submitted'
        <5>1. CASE k <= Len(failed)
          <6>1. failed'[k] = failed[k] /\ failed'[k].earn \in 1..L
            <7>1. k \in 1..(numEarns - Len(succeeded))
              BY <3>3, <4>2
            <7>2. failed'[k] = failed[k]
              BY <3>3, <5>1, <7>1
            <7>3. failed'[k].earn = Len(succeeded) + k
              BY <3>0, <3>5, <4>2
            <7>4. QED
              BY <3>0, <4>2, <5>1, <7>2, <7>3
          <6>2. QED
            BY <3>0, <3>1, <4>2, <5>1, <6>1
        <5>2. CASE ~(k <= Len(failed))
          <6>1. failed'[k] = [earn |-> L + (k - Len(failed)), hash |-> None,
                              error |-> None]
            <7>1. k \in 1..(numEarns - Len(succeeded))
              BY <3>3, <4>2
            <7>2. failed'[k] = u[k - Len(failed)]
              BY <3>3, <5>2, <7>1
            <7>3. k - Len(failed) \in 1..(numEarns - L)
              BY <2>0, <3>0, <5>2, <7>1
            <7>4. QED
              BY <3>2, <7>2, <7>3
          <6>2. QED
            BY <3>0, <3>1, <4>2, <5>2, <6>1
        <5>3. QED
          BY <5>1, <5>2
      <4>3. QED
        BY <3>0, <4>1, <4>2 DEF Complete, UnattemptedDistinguished, Returned
    <3>7. (Fresh /\ Validated /\ Looping /\ Submitting /\ FailedBatchDone)'
      BY <2>10, <3>1 DEF FillUnattempted, Fresh, Validated, Looping,
                         Submitting, FailedBatchDone, InvalidArguments, Invoices
    <3>8. QED
      BY <3>0, <3>4, <3>5, <3>6, <3>7 DEF EInv, InOrder
  <2>11. CASE UNCHANGED vars
    BY <2>11 DEF vars, EInv, TypeOK, Fresh, Validated, Looping, Submitting,
                 FailedBatchDone, InOrder, Complete, Returned,
                 UnattemptedDistinguished, InvalidArguments, Invoices, Done,
                 SubBatchMemo, InvoiceListOf, SubBatch
  <2>12. QED
    BY <2>3, <2>4, <2>5, <2>6, <2>7, <2>8, <2>9, <2>10, <2>11 DEF Next
<1>3. QED
  BY <1>1, <1>2, PTL DEF Spec

(* Every state of submit_earn_batch is well typed.                          *)
THEOREM EarnBatchTypeCorrect == Spec => []TypeOK
BY EarnBatchInductive, PTL DEF EInv

(***************************************************************************)
(* For every batch size and every number of earns, the returned            *)
(* BatchEarnResult lists each earn once and in input order, succeeded ones *)
(* first, whichever sub-batch failed and how (lines 326-353).              *)
(***************************************************************************)
THEOREM ResultPartitionInvariant == Spec => []ResultPartition
<1>1. EInv => ResultPartition
  <2> SUFFICES ASSUME EInv, Returned
               PROVE  EarnsOf(succeeded \o failed) = [i \in 1..numEarns |-> i]
    BY DEF ResultPartition
  <2> DEFINE R == EarnResults(numEarns)
             c == succeeded \o failed
  <2>1. /\ succeeded \in Seq(R) /\ failed \in Seq(R)
        /\ Len(succeeded) + Len(failed) = numEarns
        /\ \A k \in 1..Len(succeeded) : succeeded[k].earn = k
        /\ \A k \in 1..Len(failed) : failed[k].earn = Len(succeeded) + k
    BY DEF EInv, TypeOK, Complete, InOrder
  <2>2. /\ Len(failed) \in Nat /\ failed \in [1..Len(failed) -> R]
    BY <2>1, LenProperties
  <2>3. /\ Len(c) = Len(succeeded) + Len(failed)
        /\ \A k \in 1..(Len(succeeded) + Len(failed)) :
              c[k] = IF k <= Len(succeeded) THEN succeeded[k]
                     ELSE failed[k - Len(succeeded)]
    BY <2>1, <2>2, AppendResults
  <2>4. \A k \in 1..numEarns : c[k].earn = k
    <3> SUFFICES ASSUME NEW k \in 1..numEarns PROVE c[k].earn = k
      OBVIOUS
    <3>1. Len(succeeded) \in Nat /\ Len(failed) \in Nat
      BY <2>1, LenProperties
    <3>2. CASE k <= Len(succeeded)
      BY <2>1, <2>3, <3>1, <3>2
    <3>3. CASE ~(k <= Len(succeeded))
      <4>1. c[k] = failed[k - Len(succeeded)]
        BY <2>1, <2>3, <3>1, <3>3
      <4>2. k - Len(succeeded) \in 1..Len(failed)
        BY <2>1, <3>1, <3>3
      <4>3. QED
        BY <2>1, <4>1, <4>2, <3>1
    <3>4. QED
      BY <3>2, <3>3
  <2>5. QED
    BY <2>1, <2>3, <2>4 DEF EarnsOf
<1>2. QED
  BY <1>1, EarnBatchInductive, PTL

(***************************************************************************)
(* For every batch size and every number of earns, a failed EarnResult     *)
(* has neither hash nor error exactly when its earn was never submitted.   *)
(***************************************************************************)
THEOREM UnattemptedDistinguishedInvariant == Spec => []UnattemptedDistinguished
<1>1. EInv => UnattemptedDistinguished
  BY DEF EInv, Complete, UnattemptedDistinguished
<1>2. QED
  BY <1>1, EarnBatchInductive, PTL

(***************************************************************************)
(* For every batch size and every number of earns, a sub-batch transaction *)
(* carrying an InvoiceList has one invoice per earn of the sub-batch and   *)
(* the AgoraMemo of that list: the validation of lines 317-324 keeps the   *)
(* text memo that line 380 would let win away from invoices.               *)
(***************************************************************************)
THEOREM InvoicesBoundToTxInvariant == Spec => []InvoicesBoundToTx
<1>1. EInv => InvoicesBoundToTx
  <2> SUFFICES ASSUME EInv, pc = "submit", txInvoices # {}
               PROVE  /\ txInvoices = SubBatch(batch)
                      /\ txMemo = [kind |-> "hash", fk |-> txInvoices]
    BY DEF InvoicesBoundToTx
  <2>1. /\ txInvoices = InvoiceListOf(batch) /\ txMemo = SubBatchMemo(batch)
        /\ raised = "none"
    BY DEF EInv, Submitting, Looping
  <2>2. ~InvalidArguments
    BY <2>1 DEF EInv, Validated
  <2>3. /\ InvoiceListOf(batch) = SubBatch(batch) /\ ~memo /\ appIndex > 0
    BY <2>1, <2>2, InvoicesAllOrNone DEF EInv, TypeOK
  <2>4. QED
    BY <2>1, <2>3 DEF SubBatchMemo
<1>2. QED
  BY <1>1, EarnBatchInductive, PTL

-----------------------------------------------------------------------------
(***************************************************************************)
(* The refinement of EarnBatchContract.  The contract describes the        *)
(* returned lists in its own terms: the sub-batch of an earn by division,  *)
(* a failed sub-batch by its least earn and its size.  The invariant that  *)
(* carries the refinement states the loop's lists in those terms: each     *)
(* succeeded result carries its sub-batch's hash, the loop stops at most   *)
(* one past the last sub-batch, and a failed sub-batch's results are one  *)
(* block, with one raised error and no hash or with the transaction's     *)
(* hash and its error.                                                     *)
(***************************************************************************)
SucceededHashed ==
    \A k \in 1..Len(succeeded) :
        succeeded[k] = [earn |-> k, hash |-> Contract!BatchOf(k), error |-> None]

LoopBound == pc \in {"loop", "submit"} => batch <= NumBatches + 1

TailShape ==
    pc = "tail" =>
        \/ \E e \in RaisedErrors : failed = BatchResults(batch, None, e)
        \/ \E e \in {OpError} \cup TxErrors : failed = BatchResults(batch, batch, e)

RInv == SucceededHashed /\ LoopBound /\ TailShape

(* The contract's sub-batch of an earn, by division, is the sub-batch      *)
(* whose range holds it.                                                   *)
LEMMA BatchOfRange ==
    ASSUME NEW i \in Nat \ {0}, NEW b \in Nat \ {0}
    PROVE  Contract!BatchOf(i) = b <=>
              ((b - 1) * BatchSize < i /\ i <= b * BatchSize)
<1> DEFINE B == BatchSize
<1>1. B \in Nat \ {0}
  BY BoundsAssumption
<1>2. PICK q \in Nat, r \in 0..(B - 1) :
          /\ i - 1 = q * B + r
          /\ q = (i - 1) \div B
  BY <1>1
<1>3. Contract!BatchOf(i) = q + 1
  BY <1>2 DEF Contract!BatchOf
<1>4. q * B < i /\ i <= (q + 1) * B
  BY <1>1, <1>2
<1>5. ASSUME (b - 1) * B < i, i <= b * B PROVE q + 1 = b
  <2>1. ASSUME q + 1 > b PROVE FALSE
    <3>1. (q + 1 - b) * B \in Nat \ {0}
      BY <1>1, <2>1
    <3>2. q * B = (b - 1) * B + (q + 1 - b) * B
      BY <1>1
    <3>3. QED
      BY <1>1, <1>4, <1>5, <3>1, <3>2
  <2>2. ASSUME q + 1 < b PROVE FALSE
    <3>1. (b - 1 - q) * B \in Nat \ {0}
      BY <1>1, <2>2
    <3>2. (b - 1) * B = (q + 1) * B + (b - 2 - q) * B
      BY <1>1
    <3>3. (b - 2 - q) * B \in Nat
      BY <1>1, <2>2
    <3>4. QED
      BY <1>1, <1>4, <1>5, <3>2, <3>3
  <2>3. QED
    BY <2>1, <2>2
<1>6. QED
  BY <1>3, <1>4, <1>5

(* The contract's earns of sub-batch j are SubBatch(j).                     *)
LEMMA EarnsOfBatchIsSubBatch ==
    ASSUME numEarns \in Nat, NEW j \in Nat \ {0}
    PROVE  Contract!EarnsOfBatch(j) = SubBatch(j)
<1>1. \A i \in 1..numEarns :
        Contract!BatchOf(i) = j <=>
           ((j - 1) * BatchSize < i /\ i <= j * BatchSize)
  BY BatchOfRange
<1>2. QED
  BY <1>1 DEF Contract!EarnsOfBatch, SubBatch

(* The least element of a non-empty interval is its lower end.              *)
LEMMA LeastOfInterval ==
    ASSUME NEW a \in Int, NEW b \in Int, a <= b
    PROVE  Contract!LeastOf(a..b) = a
<1>1. \E x \in a..b : \A k \in a..b : x <= k
  BY a \in a..b
<1>2. PICK x \in a..b : /\ x = Contract!LeastOf(a..b)
                         /\ \A k \in a..b : x <= k
  BY <1>1 DEF Contract!LeastOf
<1>3. QED
  BY <1>2

(* The contract's invalid arguments are the ones lines 317-324 reject.      *)
LEMMA InvalidIsInvalidArguments ==
    ASSUME numEarns \in Nat, invoice \in [EarnIdx -> BOOLEAN]
    PROVE  Contract!Invalid <=> InvalidArguments
<1>1. Cardinality(Invoices) = numEarns <=> Invoices = 1..numEarns
  <2>1. IsFiniteSet(1..numEarns) /\ Cardinality(1..numEarns) = numEarns
    BY FS_Interval
  <2>2. Invoices \in SUBSET (1..numEarns)
    BY DEF Invoices
  <2>3. QED
    BY <2>1, <2>2, FS_Subset
<1>2. QED
  BY <1>1, Zenon DEF Contract!Invalid, InvalidArguments, Invoices

(* A block of BatchResults is a sequence of EarnResults.                   *)
LEMMA BatchResultsSeq ==
    ASSUME numEarns \in Nat, NEW b \in Nat \ {0},
           (b - 1) * BatchSize < numEarns,
           NEW h \in Hashes \cup {None},
           NEW e \in RaisedErrors \cup {OpError} \cup TxErrors
    PROVE  <<>> \o BatchResults(b, h, e) = BatchResults(b, h, e)
<1>0. /\ Done(b) < Done(b + 1)
      /\ BatchResults(b, h, e)
            \in [1..(Done(b + 1) - Done(b)) -> EarnResults(numEarns)]
  BY BatchResultsBlock
<1>1. /\ Done(b + 1) - Done(b) \in Nat
      /\ BatchResults(b, h, e)
            \in [1..(Done(b + 1) - Done(b)) -> EarnResults(numEarns)]
  <2>1. Done(b) \in 0..numEarns /\ Done(b + 1) \in 0..numEarns
    BY DoneRange
  <2>2. QED
    BY <1>0, <2>1
<1>2. BatchResults(b, h, e) \in Seq(EarnResults(numEarns))
  BY <1>1, SeqDef
<1>3. QED
  BY <1>2, ConcatEmptySeq

LEMMA RefinementInvariant == Spec => [](EInv /\ RInv)
<1>1. Init => RInv
  BY EmptySeq DEF Init, RInv, SucceededHashed, LoopBound, TailShape
<1>2. EInv /\ RInv /\ [Next]_vars => RInv'
  <2> SUFFICES ASSUME EInv, RInv, [Next]_vars PROVE RInv'
    OBVIOUS
  <2> DEFINE d  == Done(batch)
             d1 == Done(batch + 1)
             R  == EarnResults(numEarns)
  <2>0. /\ TypeOK /\ numEarns \in Nat /\ batch \in Nat \ {0}
        /\ d \in 0..numEarns /\ d1 \in 0..numEarns
        /\ succeeded \in Seq(R) /\ failed \in Seq(R)
        /\ NumBatches \in Nat
    BY DoneRange, BoundsAssumption DEF EInv, TypeOK, NumBatches
  (* A failed sub-batch leaves one block of results in failed.             *)
  <2>1. ASSUME pc = "submit",
               NEW h \in Hashes \cup {None},
               NEW e \in RaisedErrors \cup {OpError} \cup TxErrors,
               \/ h = None /\ e \in RaisedErrors
               \/ h = batch /\ e \in {OpError} \cup TxErrors,
               failed' = failed \o BatchResults(batch, h, e),
               pc' = "tail",
               UNCHANGED <<numEarns, batch, succeeded>>
        PROVE  RInv'
    <3>1. failed = <<>> /\ (batch - 1) * BatchSize < numEarns
      BY <2>1 DEF EInv, Looping, Submitting
    <3>2. failed' = BatchResults(batch, h, e)
      BY <2>0, <2>1, <3>1, BatchResultsSeq
    <3>3. TailShape'
      <4>1. \A hh, ee : BatchResults(batch, hh, ee)' = BatchResults(batch, hh, ee)
        BY <2>1 DEF BatchResults, Size, SubBatch, First
      <4>2. failed' = BatchResults(batch, h, e)'
        BY <3>2, <4>1
      <4>3. CASE h = None /\ e \in RaisedErrors
        BY <2>1, <4>2, <4>3 DEF TailShape
      <4>4. CASE h = batch /\ e \in {OpError} \cup TxErrors
        BY <2>1, <4>2, <4>4 DEF TailShape
      <4>5. QED
        BY <2>1, <4>3, <4>4
    <3>4. QED
      BY <2>1, <3>3 DEF RInv, SucceededHashed, LoopBound
  <2>2. CASE RejectArguments
    BY <2>2 DEF RejectArguments, RInv, SucceededHashed, LoopBound, TailShape
  <2>3. CASE AcceptArguments
    <3>1. batch = 1 /\ succeeded = <<>>
      BY <2>3 DEF AcceptArguments, EInv, Fresh
    <3>2. LoopBound'
      BY <2>0, <2>3, <3>1 DEF AcceptArguments, LoopBound, NumBatches
    <3>3. QED
      BY <2>3, <3>1, <3>2, EmptySeq DEF AcceptArguments, RInv, SucceededHashed,
                                     TailShape
  <2>4. CASE BuildTx
    <3>1. LoopBound'
      BY <2>0, <2>4 DEF BuildTx, LoopBound, NumBatches
    <3>2. QED
      BY <2>4, <3>1 DEF BuildTx, RInv, SucceededHashed, TailShape
  <2>5. CASE BatchRaises
    <3>1. PICK e \in RaisedErrors : failed' = failed \o BatchResults(batch, None, e)
      BY <2>5 DEF BatchRaises
    <3>2. QED
      BY <2>1, <2>5, <3>1 DEF BatchRaises
  <2>6. CASE BatchTxError
    <3>1. PICK e \in TxErrors : failed' = failed \o BatchResults(batch, batch, e)
      BY <2>6 DEF BatchTxError
    <3>2. batch \in Hashes
      BY <2>0 DEF Hashes
    <3>3. QED
      BY <2>1, <2>6, <3>1, <3>2 DEF BatchTxError
  <2>7. CASE BatchOpErrors
    <3>1. PICK n \in 1..(Size(batch) + 1) :
            IF n < Size(batch)
              THEN /\ raised' = "IndexError"
                   /\ pc' = "done"
                   /\ UNCHANGED failed
              ELSE /\ failed' = failed \o BatchResults(batch, batch, OpError)
                   /\ pc' = "tail"
                   /\ UNCHANGED raised
      BY <2>7 DEF BatchOpErrors
    <3>2. CASE n < Size(batch)
      BY <2>7, <3>1, <3>2 DEF BatchOpErrors, RInv, SucceededHashed, LoopBound,
                              TailShape
    <3>3. CASE ~(n < Size(batch))
      <4>1. batch \in Hashes
        BY <2>0 DEF Hashes
      <4>2. QED
        BY <2>1, <2>7, <3>1, <3>3, <4>1 DEF BatchOpErrors
    <3>4. QED
      BY <3>2, <3>3
  <2>8. CASE BatchSucceeds
    <3> DEFINE t == BatchResults(batch, batch, None)
    <3>1. /\ (batch - 1) * BatchSize < numEarns
          /\ Len(succeeded) = d
      BY <2>8 DEF BatchSucceeds, EInv, Submitting, Looping
    <3>2. /\ d < d1 /\ SubBatch(batch) = (d + 1)..d1
          /\ t \in [1..(d1 - d) -> R]
          /\ \A k \in 1..(d1 - d) :
                t[k] = [earn |-> d + k, hash |-> batch, error |-> None]
      <4>1. batch \in Hashes /\ None \in TxErrors
        BY <2>0 DEF Hashes, TxErrors
      <4>2. QED
        BY <2>0, <3>1, <4>1, BatchResultsBlock
    <3>3. /\ Len(succeeded') = d1
          /\ \A k \in 1..d1 :
                succeeded'[k] = IF k <= d THEN succeeded[k] ELSE t[k - d]
      <4>1. d1 - d \in Nat /\ succeeded \in Seq(R)
        BY <2>0, <3>2
      <4>2. /\ Len(succeeded \o t) = Len(succeeded) + (d1 - d)
            /\ \A k \in 1..(Len(succeeded) + (d1 - d)) :
                  (succeeded \o t)[k] = IF k <= Len(succeeded) THEN succeeded[k]
                                        ELSE t[k - Len(succeeded)]
        BY <4>1, <3>2, AppendResults
      <4>3. QED
        BY <2>0, <2>8, <3>1, <4>2 DEF BatchSucceeds
    <3>4. SucceededHashed'
      <4> SUFFICES ASSUME NEW k \in 1..d1
                   PROVE  succeeded'[k] =
                            [earn |-> k, hash |-> Contract!BatchOf(k), error |-> None]
        BY <3>3 DEF SucceededHashed
      <4>1. CASE k <= d
        BY <3>1, <3>3, <4>1 DEF RInv, SucceededHashed
      <4>2. CASE ~(k <= d)
        <5>1. succeeded'[k] = [earn |-> k, hash |-> batch, error |-> None]
          <6>1. k - d \in 1..(d1 - d)
            BY <2>0, <4>2
          <6>2. QED
            BY <2>0, <3>2, <3>3, <4>2, <6>1
        <5>2. k \in SubBatch(batch)
          BY <2>0, <3>2, <4>2
        <5>3. Contract!BatchOf(k) = batch
          <6>1. k \in Nat \ {0} /\ (batch - 1) * BatchSize < k /\ k <= batch * BatchSize
            BY <5>2 DEF SubBatch
          <6>2. QED
            BY <2>0, <6>1, BatchOfRange
        <5>4. QED
          BY <5>1, <5>3
      <4>3. QED
        BY <4>1, <4>2
    <3>5. LoopBound'
      <4>1. batch <= NumBatches
        BY <2>0, <3>1, NumBatchesBound DEF NumBatches
      <4>2. QED
        BY <2>0, <2>8, <4>1 DEF BatchSucceeds, LoopBound, NumBatches
    <3>6. QED
      BY <2>8, <3>4, <3>5 DEF BatchSucceeds, RInv, TailShape
  <2>9. CASE FillUnattempted
    BY <2>9 DEF FillUnattempted, RInv, SucceededHashed, LoopBound, TailShape
  <2>10. CASE UNCHANGED vars
    BY <2>10 DEF vars, RInv, SucceededHashed, LoopBound, TailShape, NumBatches,
                 BatchResults, Size, SubBatch, First
  <2>11. QED
    BY <2>2, <2>3, <2>4, <2>5, <2>6, <2>7, <2>8, <2>9, <2>10 DEF Next
<1>3. QED
  BY <1>1, <1>2, EarnBatchInductive, PTL DEF Spec

(* A block of BatchResults has one entry per earn of its sub-batch.       *)
LEMMA BatchResultsLen ==
    ASSUME numEarns \in Nat, NEW b \in Nat \ {0},
           (b - 1) * BatchSize < numEarns,
           NEW h \in Hashes \cup {None},
           NEW e \in RaisedErrors \cup {OpError} \cup TxErrors
    PROVE  Len(BatchResults(b, h, e)) = Done(b + 1) - Done(b)
<1>1. /\ Done(b) < Done(b + 1)
      /\ BatchResults(b, h, e)
            \in [1..(Done(b + 1) - Done(b)) -> EarnResults(numEarns)]
  BY BatchResultsBlock
<1>2. Done(b) \in 0..numEarns /\ Done(b + 1) \in 0..numEarns
  BY DoneRange
<1>3. BatchResults(b, h, e) \in Seq(EarnResults(numEarns))
  BY <1>1, <1>2, SeqDef
<1>4. QED
  BY <1>1, <1>2, <1>3, LenProperties

-----------------------------------------------------------------------------
(***************************************************************************)
(* submit_earn_batch implements its contract: every step of the loop is    *)
(* invisible to the caller, a rejection of the arguments is the contract's *)
(* RejectInvalid, the IndexError of lines 342-344 its InternalFault, and   *)
(* the tail fill of line 350 its Return with k = batch - 1 sub-batches     *)
(* succeeded.  RInv supplies what Return needs: the succeeded results      *)
(* carry their sub-batch's hash, and in the tail the failed list is one    *)
(* sub-batch's block.                                                      *)
(***************************************************************************)
THEOREM ImplementsContractTheorem == Spec => ImplementsContract
<1> DEFINE cs == IF ContractOutcome = "returned" THEN succeeded ELSE <<>>
           cf == IF ContractOutcome = "returned" THEN failed ELSE <<>>
<1>1. Init => Contract!Init
  BY DEF Init, Contract!Init, Contract!EarnIdx, EarnIdx, ContractOutcome
<1>2. EInv /\ RInv /\ [Next]_vars => [Contract!Next]_Contract!vars
  <2> SUFFICES ASSUME EInv, RInv, [Next]_vars
               PROVE  [Contract!Next]_Contract!vars
    OBVIOUS
  <2>0. /\ TypeOK /\ numEarns \in Nat /\ batch \in Nat \ {0}
        /\ invoice \in [EarnIdx -> BOOLEAN]
    BY DEF EInv, TypeOK
  <2>1. CASE UNCHANGED vars
    BY <2>1 DEF vars, Contract!vars, ContractOutcome
  <2>2. ASSUME Next
        PROVE  pc # "done" /\ UNCHANGED <<numEarns, invoice, memo, appIndex>>
    BY <2>2 DEF Next, RejectArguments, AcceptArguments, BuildTx, BatchRaises,
                BatchSucceeds, BatchOpErrors, BatchTxError, FillUnattempted
  (* A step that does not end the call is a stutter of the contract.       *)
  <2>3. ASSUME Next, pc' # "done"
        PROVE  UNCHANGED Contract!vars
    <3>1. ContractOutcome = "running" /\ ContractOutcome' = "running"
      BY <2>2, <2>3 DEF ContractOutcome
    <3>2. /\ cs' = <<>> /\ cs = <<>>
          /\ cf' = <<>> /\ cf = <<>>
      BY <3>1
    <3>3. /\ numEarns' = numEarns /\ invoice' = invoice
          /\ memo' = memo /\ appIndex' = appIndex
      BY <2>2, <2>3
    <3>4. QED
      BY <3>1, <3>2, <3>3 DEF Contract!vars
  <2>4. CASE RejectArguments
    <3>1. Contract!Invalid
      BY <2>0, <2>4, InvalidIsInvalidArguments DEF RejectArguments
    <3>2. ContractOutcome = "running" /\ ContractOutcome' = "ValueError"
      BY <2>4 DEF RejectArguments, ContractOutcome
    <3>3. QED
      BY <2>4, <3>1, <3>2 DEF RejectArguments, Contract!RejectInvalid, Contract!Next
  <2>5. CASE BatchOpErrors /\ pc' = "done"
    <3>1. raised' = "IndexError" /\ raised = "none"
      BY <2>5 DEF BatchOpErrors, EInv, Looping
    <3>2. ~Contract!Invalid
      BY <2>0, <2>5, <3>1, InvalidIsInvalidArguments DEF BatchOpErrors, EInv, Validated
    <3>3. ContractOutcome = "running" /\ ContractOutcome' = "InternalFault"
      BY <2>5, <3>1 DEF BatchOpErrors, ContractOutcome
    <3>4. QED
      BY <2>5, <3>2, <3>3 DEF BatchOpErrors, Contract!InternalFault, Contract!Next
  <2>6. CASE FillUnattempted
    <3> DEFINE d  == Done(batch)
               d1 == Done(batch + 1)
               u  == [k \in 1..(numEarns - Len(succeeded) - Len(failed)) |->
                        [earn |-> Len(succeeded) + Len(failed) + k, hash |-> None,
                         error |-> None]]
    <3>1. /\ raised = "none"
          /\ ~Contract!Invalid
          /\ ContractOutcome = "running" /\ ContractOutcome' = "returned"
      <4>1. raised = "none"
        BY <2>6 DEF FillUnattempted, EInv, Looping, FailedBatchDone
      <4>2. ~InvalidArguments
        BY <2>6, <4>1 DEF FillUnattempted, EInv, Validated
      <4>3. QED
        BY <2>0, <2>6, <4>1, <4>2, InvalidIsInvalidArguments
        DEF FillUnattempted, ContractOutcome
    <3>2. /\ d \in 0..numEarns /\ d1 \in 0..numEarns
          /\ NumBatches \in Nat
          /\ succeeded \in Seq(EarnResults(numEarns))
          /\ failed \in Seq(EarnResults(numEarns))
      BY <2>0, DoneRange, BoundsAssumption DEF TypeOK, NumBatches
    <3>3. ASSUME Len(succeeded) = d
          PROVE  succeeded = Contract!SucceededUpTo(d)
      <4>1. DOMAIN succeeded = 1..d
        BY <3>2, <3>3, LenProperties
      <4>2. \A k \in 1..d :
               succeeded[k] = [earn |-> k, hash |-> Contract!BatchOf(k), error |-> None]
        BY <3>3 DEF RInv, SucceededHashed
      <4>3. QED
        BY <3>2, <4>1, <4>2 DEF Contract!SucceededUpTo
    <3>4. failed' = failed \o u
      BY <2>6 DEF FillUnattempted
    <3>5. UNCHANGED <<numEarns, invoice, memo, appIndex, succeeded>>
      BY <2>6 DEF FillUnattempted
    <3>6. CASE pc = "loop" /\ batch > NumBatches
      <4>1. Len(succeeded) = d /\ failed = <<>>
        BY <3>6 DEF EInv, Looping
      <4>2. batch - 1 = NumBatches
        BY <2>0, <3>2, <3>6 DEF RInv, LoopBound
      <4>3. d = numEarns
        <5>1. ~((batch - 1) * BatchSize < numEarns)
          <6>1. batch <= NumBatches <=> (batch - 1) * BatchSize < numEarns
            BY <2>0, NumBatchesBound DEF NumBatches
          <6>2. QED
            BY <2>0, <3>2, <3>6, <6>1
        <5>2. QED
          BY <2>0, <5>1, DoneRange, BoundsAssumption
      <4>4. u = <<>>
        BY <3>2, <4>1, <4>3, EmptySeq
      <4>5. failed' = <<>>
        BY <3>4, <4>1, <4>4, EmptySeq, ConcatEmptySeq
      <4>6. /\ batch - 1 \in 0..Contract!Batches
            /\ batch - 1 = Contract!Batches
        BY <2>0, <4>2 DEF Contract!Batches, NumBatches
      <4>7. succeeded' = Contract!SucceededUpTo(d)
        BY <3>3, <3>5, <4>1
      <4>8. Contract!Return
        BY <2>6, <3>1, <3>5, <4>5, <4>6, <4>7 DEF Contract!Return, Done
      <4>9. QED
        BY <4>8 DEF Contract!Next
    <3>7. CASE pc = "tail"
      <4>1. /\ (batch - 1) * BatchSize < numEarns
            /\ Len(succeeded) + Len(failed) = d1
        BY <3>7 DEF EInv, FailedBatchDone
      <4>2. /\ d < d1
            /\ SubBatch(batch) = (d + 1)..d1
            /\ Size(batch) = d1 - d
            /\ d = (batch - 1) * BatchSize
        <5>1. batch \in Hashes /\ OpError \in {OpError} \cup TxErrors
          BY <2>0 DEF Hashes
        <5>2. QED
          BY <2>0, <4>1, <5>1, BatchResultsBlock DEF Done
      <4>3. Len(failed) = d1 - d
        <5>1. PICK h \in Hashes \cup {None},
                   e \in RaisedErrors \cup {OpError} \cup TxErrors :
                 failed = BatchResults(batch, h, e)
          <6>1. batch \in Hashes /\ None \in Hashes \cup {None}
            BY <2>0 DEF Hashes
          <6>2. QED
            BY <3>7, <6>1 DEF RInv, TailShape
        <5>2. QED
          BY <2>0, <4>1, <5>1, BatchResultsLen
      <4>4. Len(succeeded) = d
        BY <3>2, <4>1, <4>3
      <4>5. /\ Contract!Cardinality(Contract!EarnsOfBatch(batch)) = Size(batch)
            /\ Contract!LeastOf(Contract!EarnsOfBatch(batch)) = First(batch)
        <5>1. Contract!EarnsOfBatch(batch) = (d + 1)..d1
          BY <2>0, <4>2, EarnsOfBatchIsSubBatch
        <5>2. Contract!LeastOf((d + 1)..d1) = d + 1
          BY <3>2, <4>2, LeastOfInterval
        <5>3. Contract!Cardinality((d + 1)..d1) = Cardinality((d + 1)..d1)
          BY DEF Contract!Cardinality, Cardinality
        <5>4. QED
          BY <4>2, <5>1, <5>2, <5>3 DEF Size, First
      <4>6. failed \in Contract!FailedBatch(batch)
        <5> DEFINE nn == Contract!Cardinality(Contract!EarnsOfBatch(batch))
                   ff == Contract!LeastOf(Contract!EarnsOfBatch(batch))
                   Errs == RaisedErrors \cup {OpError} \cup TxErrors
        <5>1. CASE \E e \in RaisedErrors : failed = BatchResults(batch, None, e)
          <6>1. PICK e \in RaisedErrors : failed = BatchResults(batch, None, e)
            BY <5>1
          <6>2. e \in Errs \ {None}
            BY NoneAssumption
          <6>3. failed = [k \in 1..nn |-> [earn |-> ff + k - 1, hash |-> None, error |-> e]]
            BY <4>5, <6>1 DEF BatchResults
          <6>4. QED
            BY <6>2, <6>3 DEF Contract!FailedBatch
        <5>2. CASE \E e \in {OpError} \cup TxErrors : failed = BatchResults(batch, batch, e)
          <6>1. PICK e \in {OpError} \cup TxErrors : failed = BatchResults(batch, batch, e)
            BY <5>2
          <6> DEFINE es == [k \in 1..nn |-> e]
          <6>2. es \in [1..nn -> Errs]
            OBVIOUS
          <6>3. failed = [k \in 1..nn |-> [earn |-> ff + k - 1, hash |-> batch, error |-> es[k]]]
            BY <4>5, <6>1 DEF BatchResults
          <6>4. QED
            BY <6>2, <6>3 DEF Contract!FailedBatch
        <5>3. QED
          BY <3>7, <5>1, <5>2 DEF RInv, TailShape
      <4>7. u = Contract!UnattemptedAfter(d + Len(failed))
        <5>1. Len(failed) \in Nat /\ Len(succeeded) \in Nat
          BY <3>2, LenProperties
        <5>2. numEarns - Len(succeeded) - Len(failed) = numEarns - (d + Len(failed))
          BY <2>0, <3>2, <4>4, <5>1
        <5>3. QED
          BY <4>4, <5>2 DEF Contract!UnattemptedAfter
      <4>8. /\ batch - 1 \in 0..Contract!Batches
            /\ batch - 1 < Contract!Batches
            /\ batch - 1 + 1 = batch
        <5>1. batch <= NumBatches
          BY <2>0, <4>1, NumBatchesBound DEF NumBatches
        <5>2. QED
          BY <2>0, <3>2, <5>1 DEF Contract!Batches, NumBatches
      <4>9. succeeded' = Contract!SucceededUpTo(d)
        BY <3>3, <3>5, <4>4
      <4>10. Contract!Return
        BY <2>6, <3>1, <3>4, <3>5, <4>6, <4>7, <4>8, <4>9
        DEF Contract!Return, Done
      <4>11. QED
        BY <4>10 DEF Contract!Next
    <3>8. QED
      BY <2>6, <3>6, <3>7 DEF FillUnattempted
  <2>7. ASSUME Next, pc' = "done"
        PROVE  RejectArguments \/ (BatchOpErrors /\ pc' = "done") \/ FillUnattempted
    BY <2>7 DEF Next, AcceptArguments, BuildTx, BatchRaises, BatchSucceeds,
                BatchTxError
  <2>8. QED
    BY <2>1, <2>3, <2>4, <2>5, <2>6, <2>7
<1>3. QED
  BY <1>1, <1>2, RefinementInvariant, PTL DEF Spec, ImplementsContract, Contract!Spec

=============================================================================
