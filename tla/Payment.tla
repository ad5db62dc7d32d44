------------------------------ MODULE Payment ------------------------------
(***************************************************************************)
(* A single payment, Client.submit_payment (client.py): check the invoice  *)
(* against the app index, build the transaction (source, memo, signers),   *)
(* submit it through the coordinator, and turn the result into a returned *)
(* hash or a raised error.                                                 *)
(*                                                                         *)
(* The coordinator (module SignAndSubmit) is abstracted to what it hands   *)
(* back: one of its exceptions, or any SubmitTransactionResult.            *)
(***************************************************************************)
EXTENDS Integers, Sequences

(* The reasons of an invoice error (InvoiceErrorReason); "OTHER" stands    *)
(* for any value without an error class of its own.                       *)
Reasons == {"ALREADY_PAID", "WRONG_DESTINATION", "SKU_NOT_FOUND", "OTHER"}

(***************************************************************************)
(* SubmitTransactionResult: tx_error (a TransactionErrors or None) with    *)
(* its op_errors and its own tx_error, and the invoice_errors.  Counts of  *)
(* errors stand for the lists; 2 stands for "more than one".               *)
(***************************************************************************)
SubmitResults ==
    {r \in [hasTxError : BOOLEAN, opErrors : 0..2, txError : BOOLEAN,
            invoiceErrors : 0..2, reason : Reasons] :
        ~r.hasTxError => r.opErrors = 0 /\ ~r.txError}

(* The value of res before the coordinator returned (never read then).    *)
NoResult ==
    [hasTxError |-> FALSE, opErrors |-> 0, txError |-> FALSE,
     invoiceErrors |-> 0, reason |-> "OTHER"]

(* What the coordinator raises instead of returning a result.             *)
CoordinatorErrors == {"Unavailable", "BadNonce"}

Outcomes ==
    {"none", "hash", "ValueError", "Error", "OpError", "TxError",
     "AlreadyPaid", "WrongDestination", "SkuNotFound"} \cup CoordinatorErrors

VARIABLES
    invoice,     \* payment.invoice is set
    memo,        \* payment.memo is set
    channel,     \* payment.channel is set
    appIndex,    \* the client's app_index
    whitelist,   \* the client has a whitelist_key
    pc,          \* where the call is
    source,      \* the source account of the builder
    memoKind,    \* the memo added to the builder: "text", "hash" or "none"
    invoiceSent, \* an InvoiceList is passed to the coordinator
    signers,     \* the signers, in signing order
    fetchedFrom, \* whose account the coordinator read the sequence of
    res,         \* the SubmitTransactionResult the coordinator returned
    outcome      \* what submit_payment returned or raised

vars == <<invoice, memo, channel, appIndex, whitelist, pc, source, memoKind,
          invoiceSent, signers, fetchedFrom, res, outcome>>

Keys == {"sender", "channel", "whitelist"}

TypeOK ==
    /\ invoice \in BOOLEAN /\ memo \in BOOLEAN /\ channel \in BOOLEAN
    /\ appIndex \in Nat /\ whitelist \in BOOLEAN
    /\ pc \in {"validate", "build", "submit", "check", "done"}
    /\ source \in Keys \cup {"none"}
    /\ memoKind \in {"text", "hash", "none"}
    /\ invoiceSent \in BOOLEAN
    /\ signers \in Seq(Keys)
    /\ fetchedFrom \in Keys \cup {"none"}
    /\ res \in SubmitResults
    /\ outcome \in Outcomes

(* A Payment carries a text memo or an invoice, not both (spec 3).         *)
Init ==
    /\ invoice \in BOOLEAN /\ memo \in BOOLEAN /\ ~(invoice /\ memo)
    /\ channel \in BOOLEAN
    /\ appIndex \in {0, 1}
    /\ whitelist \in BOOLEAN
    /\ pc = "validate"
    /\ source = "none" /\ memoKind = "none" /\ invoiceSent = FALSE
    /\ signers = <<>> /\ fetchedFrom = "none"
    /\ res = NoResult /\ outcome = "none"

-----------------------------------------------------------------------------
(* Lines 248-249: an invoice needs an app index.                           *)
RejectInvoice ==
    /\ pc = "validate"
    /\ invoice /\ appIndex <= 0
    /\ outcome' = "ValueError"
    /\ pc' = "done"
    /\ UNCHANGED <<invoice, memo, channel, appIndex, whitelist, source,
                   memoKind, invoiceSent, signers, fetchedFrom, res>>

(* Plausible bug: the invoice is not checked against the app index.       *)
AcceptArgumentsUnchecked ==
    /\ pc = "validate"
    /\ pc' = "build"
    /\ UNCHANGED <<invoice, memo, channel, appIndex, whitelist, source,
                   memoKind, invoiceSent, signers, fetchedFrom, res, outcome>>

AcceptArguments ==
    /\ pc = "validate"
    /\ ~(invoice /\ appIndex <= 0)
    /\ pc' = "build"
    /\ UNCHANGED <<invoice, memo, channel, appIndex, whitelist, source,
                   memoKind, invoiceSent, signers, fetchedFrom, res, outcome>>

(* Plausible bug: the channel signs after the sender.                      *)
BuildSenderFirst ==
    /\ pc = "build"
    /\ source' = IF channel THEN "channel" ELSE "sender"
    /\ memoKind' = IF memo THEN "text" ELSE IF appIndex > 0 THEN "hash" ELSE "none"
    /\ invoiceSent' = (~memo /\ appIndex > 0 /\ invoice)
    /\ signers' = (IF channel THEN <<"sender", "channel">> ELSE <<"sender">>)
                  \o (IF whitelist THEN <<"whitelist">> ELSE <<>>)
    /\ pc' = "submit"
    /\ UNCHANGED <<invoice, memo, channel, appIndex, whitelist, fetchedFrom,
                   res, outcome>>

(* Plausible bug: the whitelist key is appended even when there is none.  *)
BuildAlwaysWhitelist ==
    /\ pc = "build"
    /\ source' = IF channel THEN "channel" ELSE "sender"
    /\ memoKind' = IF memo THEN "text" ELSE IF appIndex > 0 THEN "hash" ELSE "none"
    /\ invoiceSent' = (~memo /\ appIndex > 0 /\ invoice)
    /\ signers' = (IF channel THEN <<"channel", "sender">> ELSE <<"sender">>)
                  \o <<IF whitelist THEN "whitelist" ELSE "none">>
    /\ pc' = "submit"
    /\ UNCHANGED <<invoice, memo, channel, appIndex, whitelist, fetchedFrom,
                   res, outcome>>

(* Lines 251-284: the builder's source is the channel if there is one; a  *)
(* text memo wins, otherwise with an app index a hash memo (carrying the   *)
(* invoice's fingerprint) and the InvoiceList; the source signs first,    *)
(* the whitelist key last.                                                 *)
Build ==
    /\ pc = "build"
    /\ source' = IF channel THEN "channel" ELSE "sender"
    /\ memoKind' = IF memo THEN "text" ELSE IF appIndex > 0 THEN "hash" ELSE "none"
    /\ invoiceSent' = (~memo /\ appIndex > 0 /\ invoice)
    /\ signers' = (IF channel THEN <<"channel", "sender">> ELSE <<"sender">>)
                  \o (IF whitelist THEN <<"whitelist">> ELSE <<>>)
    /\ pc' = "submit"
    /\ UNCHANGED <<invoice, memo, channel, appIndex, whitelist, fetchedFrom,
                   res, outcome>>

(* Line 286: _sign_and_submit_builder reads signers[0]'s sequence number   *)
(* and returns a result or raises.                                         *)
Submit ==
    /\ pc = "submit"
    /\ fetchedFrom' = signers[1]
    /\ \/ \E r \in SubmitResults : res' = r /\ pc' = "check" /\ UNCHANGED outcome
       \/ \E e \in CoordinatorErrors : outcome' = e /\ pc' = "done" /\ UNCHANGED res
    /\ UNCHANGED <<invoice, memo, channel, appIndex, whitelist, source,
                   memoKind, invoiceSent, signers>>

(* Lines 287-309: operation errors first (exactly one expected), then the  *)
(* whole-transaction error, then the invoice errors (exactly one           *)
(* expected, mapped by reason); otherwise the hash is returned.            *)
ResultOutcome(r) ==
    CASE r.hasTxError /\ r.opErrors > 1  -> "Error"
      [] r.hasTxError /\ r.opErrors = 1  -> "OpError"
      [] r.hasTxError /\ r.txError       -> "TxError"
      [] r.invoiceErrors > 1             -> "Error"
      [] r.invoiceErrors = 1 /\ r.reason = "ALREADY_PAID"      -> "AlreadyPaid"
      [] r.invoiceErrors = 1 /\ r.reason = "WRONG_DESTINATION" -> "WrongDestination"
      [] r.invoiceErrors = 1 /\ r.reason = "SKU_NOT_FOUND"     -> "SkuNotFound"
      [] r.invoiceErrors = 1             -> "Error"
      [] OTHER                           -> "hash"

CheckResult ==
    /\ pc = "check"
    /\ outcome' = ResultOutcome(res)
    /\ pc' = "done"
    /\ UNCHANGED <<invoice, memo, channel, appIndex, whitelist, source,
                   memoKind, invoiceSent, signers, fetchedFrom, res>>

Next ==
    \/ RejectInvoice \/ AcceptArguments \/ Build \/ Submit \/ CheckResult

Spec == Init /\ [][Next]_vars

-----------------------------------------------------------------------------
(* Properties.                                                             *)

(***************************************************************************)
(* The sequence number comes from the transaction's source account: the    *)
(* coordinator reads signers[0] (line 420) and the builder's source is     *)
(* payment.channel or payment.sender (line 251); with a channel, reading   *)
(* the sender's account would sign every attempt with a foreign nonce.     *)
(***************************************************************************)
SequenceFromSource == pc \in {"check", "done"} /\ fetchedFrom # "none"
                          => fetchedFrom = source

(***************************************************************************)
(* An invoice is never dropped silently: a payment with an invoice that    *)
(* reaches the network carries its InvoiceList and a hash memo.            *)
(***************************************************************************)
InvoiceNeverDropped ==
    (invoice /\ fetchedFrom # "none") => (invoiceSent /\ memoKind = "hash")

(***************************************************************************)
(* submit_payment returns a hash only for a result that reports no error   *)
(* of any kind (spec 6: otherwise it raises one of the error kinds).       *)
(***************************************************************************)
HashOnlyWhenAccepted ==
    outcome = "hash" =>
        /\ ~res.hasTxError
        /\ res.invoiceErrors = 0

=============================================================================
