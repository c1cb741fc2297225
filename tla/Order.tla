------------------------------- MODULE Order -------------------------------
(***************************************************************************)
(* The life of one order after createFromCart inserted it: the handlers of *)
(* the order controller, the checkout request that still has the charge's  *)
(* id to store, and the gateway's webhook.                                 *)
(*                                                                         *)
(* A handler whose write does not depend on what it read is one step.      *)
(* cancelOrder and refundOrder check the row they read, then write without *)
(* a condition: two steps, between which others run.  The timestamps only  *)
(* ever go from null to a date, so their set is kept.                      *)
(***************************************************************************)
EXTENDS Naturals

CONSTANTS Requests,  \* concurrent requests to cancelOrder and refundOrder
          Amounts,   \* refund amounts asked for
          Totals,    \* values of the order's total
          Tenant, Null,
          NaN        \* a total read back from the decimal column may be no number

ASSUME OrderAssumption ==
    /\ Amounts \subseteq Nat \ {0}
    /\ Totals \subseteq Nat \cup {NaN}
    /\ NaN \notin Nat
    /\ Tenant # Null

VARIABLES
    total, status, payment, fulfillment,
    stamps,          \* the timestamps that are set, named after the event
    refundedAmount,  \* 0 for null
    transaction,     \* is paymentTransactionId set?
    storing,         \* has the checkout request the charge's id left to store?
    request,         \* request -> what it has checked and is about to write
    answer           \* what the last webhook was answered (history)

row == <<total, status, payment, fulfillment, stamps, refundedAmount, transaction>>
vars == <<row, storing, request, answer>>

OrderStatus == {"pending", "processing", "paid", "shipped", "delivered", "completed",
                "cancelled", "refunded", "partially_refunded", "pending_payment",
                "payment_failed"}
PaymentStatus == {"pending", "paid", "failed", "refunded", "partially_refunded"}
FulfillmentStatus == {"unfulfilled", "partially_fulfilled", "fulfilled", "returned",
                      "partially_returned"}
Stamped == {"paid", "shipped", "delivered", "completed", "cancelled", "refunded"}
Events == {"PAYMENT_CONFIRMED", "PAYMENT_RECEIVED", "PAYMENT_OVERDUE", "PAYMENT_REFUNDED"}

Idle == [pc |-> "idle"]

Init == /\ total \in Totals
        /\ status = "pending"
        /\ payment = "pending"
        /\ fulfillment = "unfulfilled"
        /\ stamps = {}
        /\ refundedAmount = 0
        /\ transaction = FALSE
        /\ storing \in BOOLEAN
        /\ request = [r \in Requests |-> Idle]
        /\ answer = "none"

-----------------------------------------------------------------------------
(* The repository's updates *)

\* updateStatus
SetStatus(s) ==
    /\ status' = s
    /\ stamps' = stamps \cup ({s} \cap Stamped)
    /\ payment' = IF s \in {"paid", "refunded"} THEN s ELSE payment
    /\ UNCHANGED <<total, fulfillment, refundedAmount, transaction>>

\* updatePaymentStatus; without a transaction id the column is left alone
SetPaymentUnstamped(p, withId) ==  \* mutant: paidAt forgotten
    /\ payment' = p
    /\ transaction' = (transaction \/ withId)
    /\ status' = IF p \in {"paid", "refunded"} THEN p ELSE status
    /\ stamps' = stamps \cup ({p} \cap {"refunded"})
    /\ UNCHANGED <<total, fulfillment, refundedAmount>>
SetPayment(p, withId) ==
    /\ payment' = p
    /\ transaction' = (transaction \/ withId)
    /\ status' = IF p \in {"paid", "refunded"} THEN p ELSE status
    /\ stamps' = stamps \cup ({p} \cap {"paid", "refunded"})
    /\ UNCHANGED <<total, fulfillment, refundedAmount>>

\* updateFulfillmentStatus, and addTrackingInfo with its own status
SetFulfillment(f) ==
    /\ fulfillment' = f
    /\ IF f = "fulfilled"
       THEN status' = "shipped" /\ stamps' = stamps \cup {"shipped"}
       ELSE UNCHANGED <<status, stamps>>
    /\ UNCHANGED <<total, payment, refundedAmount, transaction>>

-----------------------------------------------------------------------------
(* The handlers *)

UpdateStatus(s) == SetStatus(s) /\ UNCHANGED <<storing, request, answer>>

UpdatePaymentStatus(p, withId) ==
    SetPayment(p, withId) /\ UNCHANGED <<storing, request, answer>>

UpdateFulfillmentStatus(f) == SetFulfillment(f) /\ UNCHANGED <<storing, request, answer>>

AddTrackingInfo ==
    SetFulfillment("partially_fulfilled") /\ UNCHANGED <<storing, request, answer>>

\* processCheckout stores the id of the charge when the gateway has answered.
StorePaymentId ==
    /\ storing
    /\ storing' = FALSE
    /\ SetPayment("pending", TRUE)
    /\ UNCHANGED <<request, answer>>

Checked(r, pc, amount) ==
    /\ request[r] = Idle
    /\ request' = [request EXCEPT ![r] = [pc |-> pc, amount |-> amount]]

CancelOrder(r) ==
    /\ status \notin {"delivered", "completed", "cancelled"}
    /\ Checked(r, "cancel", 0)
    /\ UNCHANGED <<row, storing, answer>>

WriteCancel(r) ==
    /\ request[r].pc = "cancel"
    /\ status' = "cancelled"
    /\ stamps' = stamps \cup {"cancelled"}
    /\ request' = [request EXCEPT ![r] = Idle]
    /\ UNCHANGED <<total, payment, fulfillment, refundedAmount, transaction, storing, answer>>

RefundOrderUnchecked(r, amount) ==  \* mutant: refunds what is not paid
    /\ Checked(r, "refund", amount)
    /\ UNCHANGED <<row, storing, answer>>
RefundOrder(r, amount) ==
    /\ payment = "paid"
    /\ Checked(r, "refund", amount)
    /\ UNCHANGED <<row, storing, answer>>

\* A comparison with NaN is false: such an order is only refunded in part.
IsFullRefund(amount) == total # NaN /\ amount >= total

WriteRefund(r) ==
    /\ request[r].pc = "refund"
    /\ LET s == IF IsFullRefund(request[r].amount) THEN "refunded" ELSE "partially_refunded" IN
          status' = s /\ payment' = s
    /\ refundedAmount' = request[r].amount
    /\ stamps' = stamps \cup {"refunded"}
    /\ request' = [request EXCEPT ![r] = Idle]
    /\ UNCHANGED <<total, fulfillment, transaction, storing, answer>>

\* handleAsaasWebhook looks the order up by tenantId = NULL, which in SQL is
\* true of no row, and by its id in columns that hold other things; when it
\* finds none it answers with an error.
SqlEqual(a, b) == a # Null /\ b # Null /\ a = b
Found == SqlEqual(Tenant, Null)

Apply(r, e) ==
    IF e \in {"PAYMENT_CONFIRMED", "PAYMENT_RECEIVED"}
    THEN SetPayment("paid", TRUE) /\ UNCHANGED request
    ELSE IF e = "PAYMENT_OVERDUE"
    THEN SetStatus("payment_failed") /\ UNCHANGED request
    ELSE \E a \in Amounts : Checked(r, "refund", a) /\ UNCHANGED row

HandleAsaasWebhook(r, e) ==
    /\ answer' = IF ~Found THEN "not_found"
                 ELSE IF e = "PAYMENT_REFUNDED" /\ payment # "paid" THEN "refused"
                 ELSE "success"
    /\ IF answer' = "success" THEN Apply(r, e) ELSE UNCHANGED <<row, request>>
    /\ UNCHANGED storing

Next ==
    \/ \E s \in OrderStatus : UpdateStatus(s)
    \/ \E p \in PaymentStatus, withId \in BOOLEAN : UpdatePaymentStatus(p, withId)
    \/ \E f \in FulfillmentStatus : UpdateFulfillmentStatus(f)
    \/ AddTrackingInfo
    \/ StorePaymentId
    \/ \E r \in Requests :
          \/ CancelOrder(r)
          \/ WriteCancel(r)
          \/ \E a \in Amounts : RefundOrder(r, a)
          \/ WriteRefund(r)
          \/ \E e \in Events : HandleAsaasWebhook(r, e)

Spec == Init /\ [][Next]_vars

-----------------------------------------------------------------------------
(* Properties *)

\* The columns hold values of their enums, a timestamp is set for an event that
\* has one, and a request holds the amount its handler was called with.
TypeOK ==
    /\ total \in Totals
    /\ status \in OrderStatus
    /\ payment \in PaymentStatus
    /\ fulfillment \in FulfillmentStatus
    /\ stamps \subseteq Stamped
    /\ refundedAmount \in Amounts \cup {0}
    /\ transaction \in BOOLEAN
    /\ storing \in BOOLEAN
    /\ request \in [Requests -> [pc : {"cancel", "refund"}, amount : Amounts \cup {0}] \cup {Idle}]
    /\ answer \in {"none", "success", "not_found", "refused"}

\* Whichever handler set them and in whatever order, a status or a payment
\* status that has a timestamp column never lacks its timestamp.
StampsMatch == {status, payment} \cap Stamped \subseteq stamps

\* A refund is recorded, or about to be, only for an order that was paid at
\* some time, although payment status, cancellation and refund race; a
\* recorded one has its date.
RefundsWerePaid ==
    /\ (\E r \in Requests : request[r].pc = "refund") => "paid" \in stamps
    /\ refundedAmount > 0 => {"paid", "refunded"} \subseteq stamps
=============================================================================
