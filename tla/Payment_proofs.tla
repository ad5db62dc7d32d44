--------------------------- MODULE Payment_proofs ---------------------------
(***************************************************************************)
(* Proofs about submit_payment (module Payment): type correctness, that    *)
(* the sequence number is read from the transaction's source account, and *)
(* that an invoice is never dropped.                                       *)
(***************************************************************************)
EXTENDS Payment, SequenceTheorems, TLAPS

(***************************************************************************)
(* Neither property is inductive: both speak of fetchedFrom, which Submit  *)
(* sets from signers, which Build sets together with source, memoKind and  *)
(* invoiceSent from the validated arguments.  The strengthening follows    *)
(* the call: nothing is built before Build, the builder's fields agree     *)
(* with each other after it, and an invoice reaching Build has an app      *)
(* index and no text memo.                                                 *)
(***************************************************************************)
NotBuiltYet ==
    pc \in {"validate", "build"} =>
        /\ source = "none"
        /\ fetchedFrom = "none"
        /\ pc = "build" => ~(invoice /\ appIndex <= 0)

BuiltBeforeSubmit == pc = "submit" => source # "none"

BuilderConsistent ==
    source # "none" =>
        /\ Len(signers) >= 1
        /\ signers[1] = source
        /\ invoice => (invoiceSent /\ memoKind = "hash")

FetchedFromSigner ==
    fetchedFrom # "none" => (source # "none" /\ fetchedFrom = signers[1])

PInv ==
    /\ TypeOK
    /\ ~(invoice /\ memo)
    /\ NotBuiltYet
    /\ BuiltBeforeSubmit
    /\ BuilderConsistent
    /\ FetchedFromSigner

-----------------------------------------------------------------------------
(* The if-chain of lines 287-309 ends in one of the outcomes.              *)
LEMMA ResultOutcomeType ==
    ASSUME NEW r \in SubmitResults
    PROVE  ResultOutcome(r) \in Outcomes
BY DEF ResultOutcome, Outcomes

(* Build's signers: the source first, then the sender, then the whitelist *)
(* key.                                                                    *)
LEMMA BuildSigners ==
    ASSUME NEW ch \in BOOLEAN, NEW wl \in BOOLEAN, NEW s,
           s = (IF ch THEN <<"channel", "sender">> ELSE <<"sender">>)
               \o (IF wl THEN <<"whitelist">> ELSE <<>>)
    PROVE  /\ s \in Seq(Keys)
           /\ Len(s) >= 1
           /\ s[1] = IF ch THEN "channel" ELSE "sender"
<1> DEFINE a == IF ch THEN <<"channel", "sender">> ELSE <<"sender">>
           b == IF wl THEN <<"whitelist">> ELSE <<>>
<1>1. /\ a \in Seq(Keys)
      /\ Len(a) >= 1 /\ a[1] = IF ch THEN "channel" ELSE "sender"
  <2>1. CASE ch
    BY <2>1 DEF Keys
  <2>2. CASE ~ch
    BY <2>2 DEF Keys
  <2>3. QED
    BY <2>1, <2>2
<1>2. b \in Seq(Keys)
  <2>1. CASE wl
    BY <2>1 DEF Keys
  <2>2. CASE ~wl
    BY <2>2, EmptySeq
  <2>3. QED
    BY <2>1, <2>2
<1>3. QED
  BY <1>1, <1>2, ConcatProperties

LEMMA PaymentInductive == Spec => []PInv
<1> USE DEF PInv, NotBuiltYet, BuiltBeforeSubmit, BuilderConsistent,
            FetchedFromSigner
<1>1. Init => PInv
  <2> SUFFICES ASSUME Init PROVE PInv
    OBVIOUS
  <2>1. NoResult \in SubmitResults
    BY DEF NoResult, SubmitResults, Reasons
  <2>2. signers \in Seq(Keys)
    BY EmptySeq DEF Init
  <2>3. appIndex \in Nat /\ outcome \in Outcomes
    BY DEF Init, Outcomes
  <2>4. TypeOK
    BY <2>1, <2>2, <2>3, Zenon DEF Init, TypeOK, Keys
  <2>5. QED
    BY <2>4 DEF Init
<1>2. PInv /\ [Next]_vars => PInv'
  <2> SUFFICES ASSUME PInv, [Next]_vars PROVE PInv'
    OBVIOUS
  <2>1. CASE RejectInvoice
    BY <2>1 DEF RejectInvoice, TypeOK, Outcomes
  <2>2. CASE AcceptArguments
    BY <2>2 DEF AcceptArguments, TypeOK
  <2>3. CASE Build
    <3>1. /\ signers' \in Seq(Keys)
          /\ Len(signers') >= 1
          /\ signers'[1] = source'
      BY <2>3, BuildSigners DEF Build, TypeOK
    <3>2. invoice => (invoiceSent' /\ memoKind' = "hash")
      <4> SUFFICES ASSUME invoice PROVE invoiceSent' /\ memoKind' = "hash"
        OBVIOUS
      <4>1. ~memo /\ appIndex > 0
        BY <2>3 DEF Build, TypeOK
      <4>2. QED
        BY <4>1, <2>3 DEF Build
    <3>3. QED
      BY <2>3, <3>1, <3>2 DEF Build, TypeOK, Keys
  <2>4. CASE Submit
    <3>1. signers[1] \in Keys
      BY <2>4 DEF Submit, TypeOK
    <3>2. QED
      BY <2>4, <3>1 DEF Submit, TypeOK, Outcomes, CoordinatorErrors
  <2>5. CASE CheckResult
    BY <2>5, ResultOutcomeType DEF CheckResult, TypeOK
  <2>6. CASE UNCHANGED vars
    BY <2>6 DEF vars, TypeOK
  <2>7. QED
    BY <2>1, <2>2, <2>3, <2>4, <2>5, <2>6 DEF Next
<1>3. QED
  BY <1>1, <1>2, PTL DEF Spec

(* Every state of submit_payment is well typed.                            *)
THEOREM PaymentTypeCorrect == Spec => []TypeOK
BY PaymentInductive, PTL DEF PInv

(***************************************************************************)
(* The coordinator always reads the sequence number of the transaction's  *)
(* source account, the channel when there is one (lines 251, 278-286,     *)
(* 420).                                                                   *)
(***************************************************************************)
THEOREM SequenceFromSourceInvariant == Spec => []SequenceFromSource
<1>1. PInv => SequenceFromSource
  BY DEF PInv, FetchedFromSigner, BuilderConsistent, SequenceFromSource
<1>2. QED
  BY <1>1, PaymentInductive, PTL

(***************************************************************************)
(* A payment with an invoice reaches the network only with its InvoiceList *)
(* and a hash memo (lines 248-262).                                        *)
(***************************************************************************)
THEOREM InvoiceNeverDroppedInvariant == Spec => []InvoiceNeverDropped
<1>1. PInv => InvoiceNeverDropped
  BY DEF PInv, FetchedFromSigner, BuilderConsistent, InvoiceNeverDropped
<1>2. QED
  BY <1>1, PaymentInductive, PTL

=============================================================================
