------------------------------ MODULE Payment ------------------------------
(***************************************************************************)
(* The payments service: PaymentService, the transaction records beside a  *)
(* payment and the webhook of the gateway (Asaas), over one tenant's rows. *)
(*                                                                         *)
(* A worker runs one HTTP request.  Each await on the database or on the   *)
(* gateway ends a step, so two requests interleave at every statement; no  *)
(* handler uses a database transaction.  A payment row and its gateway     *)
(* charge share an identifier: processPayment makes the charge first and   *)
(* stores its id in the row (gatewayPaymentId).                            *)
(*                                                                         *)
(* The gateway is external.  It is modelled as far as src/ relies on it:   *)
(* its status values, which charges it refunds and cancels, one event per  *)
(* change of status, and a delivery that src/ does nothing to keep in      *)
(* order or free of duplicates (Ordered and Repeated choose).              *)
(***************************************************************************)
EXTENDS Naturals, Sequences, SequencesExt

CONSTANTS Charges,    \* gateway payment ids
          RefundIds,  \* ids the gateway gives its refunds
          Workers,    \* concurrent requests to the service
          Customers,  \* values of customerId in a payment request
          Tenant,     \* the tenantId of the rows
          Ordered,    \* does the gateway deliver events one at a time, in order?
          Repeated,   \* may an event be delivered again?
          Mortal      \* the operations whose requests may die between two
                      \* awaits or lose an answer of the gateway

Operations == {"process", "refund", "cancel", "webhook"}

ASSUME PaymentAssumption ==
    Ordered \in BOOLEAN /\ Repeated \in BOOLEAN /\ Mortal \subseteq Operations

VARIABLES
    gateway,    \* charge -> its status at the gateway, "none" before creation
    customer,   \* charge -> the customer it was created for
    refunds,    \* charge -> ids of the refunds the gateway made of it
    events,     \* webhook events on their way, oldest first
    status,     \* charge -> status of the payment row, "none" without a row
    txn,        \* charge -> status of its PAYMENT transaction, "none" without
    refundTxns, \* charge -> gatewayTransactionIds of its REFUND transactions
    worker,     \* worker -> the request it runs
    missed      \* events whose handler found no payment (history)

rows == <<status, txn, refundTxns>>
external == <<gateway, customer, refunds>>
vars == <<external, events, rows, worker, missed>>

PaymentStatus == {"pending", "confirmed", "received", "overdue", "refunded",
                  "partially_refunded", "cancelled", "failed"}
TransactionStatus == {"pending", "completed", "failed", "cancelled"}
GatewayStatus == {"PENDING", "CONFIRMED", "RECEIVED", "OVERDUE", "REFUNDED", "CANCELLED"}

\* mapAsaasStatusToPaymentStatus
MapAsaasStatus ==
    [PENDING |-> "pending", CONFIRMED |-> "confirmed", RECEIVED |-> "received",
     OVERDUE |-> "overdue", REFUNDED |-> "refunded", CANCELLED |-> "cancelled"]

\* The payment status an event asks for (its PAYMENT_ prefix left out).
EventStatusSwapped ==  \* mutant: two cases of the switch exchanged
    [CONFIRMED |-> "received", RECEIVED |-> "confirmed", OVERDUE |-> "overdue",
     REFUNDED |-> "refunded", CANCELLED |-> "cancelled"]
EventStatus ==
    [CONFIRMED |-> "confirmed", RECEIVED |-> "received", OVERDUE |-> "overdue",
     REFUNDED |-> "refunded", CANCELLED |-> "cancelled"]
Event == [charge : Charges, name : DOMAIN EventStatus]

\* The status updateStatus writes to the main transaction.  These strings are
\* not the values of TransactionStatus.
TransactionStatusFor(s) ==
    CASE s \in {"confirmed", "received"} -> "COMPLETED"
      [] s = "refunded" -> "REFUNDED"
      [] s = "cancelled" -> "CANCELLED"
      [] OTHER -> "PENDING"

Idle == [pc |-> "idle"]

Init == /\ gateway = [g \in Charges |-> "none"]
        /\ customer = [g \in Charges |-> Tenant]
        /\ refunds = [g \in Charges |-> {}]
        /\ events = <<>>
        /\ status = [g \in Charges |-> "none"]
        /\ txn = [g \in Charges |-> "none"]
        /\ refundTxns = [g \in Charges |-> {}]
        /\ worker = [w \in Workers |-> Idle]
        /\ missed = {}

-----------------------------------------------------------------------------
(* The gateway *)

Emit(g, s) ==
    events' = IF s \in DOMAIN EventStatus
              THEN Append(events, [charge |-> g, name |-> s]) ELSE events

SetGateway(g, s) ==
    /\ gateway' = [gateway EXCEPT ![g] = s]
    /\ Emit(g, s)

\* The customer pays, the money arrives, the due date passes.
GatewayAdvances(g) ==
    /\ \E s \in {"CONFIRMED", "RECEIVED", "OVERDUE"} :
          /\ gateway[g] \in CASE s = "CONFIRMED" -> {"PENDING", "OVERDUE"}
                              [] s = "RECEIVED" -> {"CONFIRMED"}
                              [] s = "OVERDUE" -> {"PENDING"}
          /\ SetGateway(g, s)
    /\ UNCHANGED <<customer, refunds, rows, worker, missed>>

Paid == {"CONFIRMED", "RECEIVED"}

\* A refund of the whole charge, or of a part that may be the last one.
MakesRefund(g, id) ==
    /\ gateway[g] \in Paid
    /\ \A h \in Charges : id \notin refunds[h]
    /\ refunds' = [refunds EXCEPT ![g] = @ \cup {id}]
    /\ UNCHANGED customer
    /\ \/ SetGateway(g, "REFUNDED")
       \/ UNCHANGED <<gateway, events>>

CancelsCharge(g) ==
    /\ gateway[g] \in {"PENDING", "OVERDUE"}
    /\ SetGateway(g, "CANCELLED")
    /\ UNCHANGED <<customer, refunds>>

-----------------------------------------------------------------------------
(* Workers *)

At(w, pc) == worker[w].pc = pc

Goto(w, pc) == worker' = [worker EXCEPT ![w].pc = pc]
Finish(w) == worker' = [worker EXCEPT ![w] = Idle]
Begin(w, pc, op, g, target) ==
    /\ At(w, "idle")
    /\ worker' = [worker EXCEPT ![w] =
                    [pc |-> pc, op |-> op, charge |-> g, target |-> target,
                     main |-> FALSE, id |-> "none"]]

\* processPayment: the charge is created at the gateway, a card charge
\* confirmed at once.  The answer may be lost: the caller gets a 400.
CreateCharge(w, g, c, s) ==
    /\ gateway[g] = "none"
    /\ SetGateway(g, s)
    /\ customer' = [customer EXCEPT ![g] = c]
    /\ \/ Begin(w, "insertPayment", "process", g, MapAsaasStatus[s])
       \/ "process" \in Mortal /\ At(w, "idle") /\ UNCHANGED worker
    /\ UNCHANGED <<refunds, rows, missed>>

\* create: two inserts, the payment and its PAYMENT transaction.
InsertPayment(w) ==
    /\ At(w, "insertPayment")
    /\ status' = [status EXCEPT ![worker[w].charge] = worker[w].target]
    /\ Goto(w, "insertTransaction")
    /\ UNCHANGED <<external, events, txn, refundTxns, missed>>

InsertTransaction(w) ==
    /\ At(w, "insertTransaction")
    /\ txn' = [txn EXCEPT ![worker[w].charge] = "pending"]
    /\ Finish(w)
    /\ UNCHANGED <<external, events, status, refundTxns, missed>>

\* refundPayment up to the call of the gateway.
Refundable == {"confirmed", "received"}
StartRefund(w, g) ==
    /\ status[g] \in Refundable
    /\ Begin(w, "refund", "refund", g, "refunded")
    /\ UNCHANGED <<external, events, rows, missed>>

\* The gateway refunds and answers, or the call fails and so does the request;
\* an answer that is lost also ends the request with an error.
Answered(w, id) ==
    worker' = [worker EXCEPT ![w] = [@ EXCEPT !.pc = "insertRefund", !.id = id]]
GatewayRefundUnanswered(w) ==  \* mutant: the gateway's answer is not awaited
    /\ At(w, "refund")
    /\ \E id \in RefundIds : Answered(w, id)
    /\ UNCHANGED <<external, events, rows, missed>>
GatewayRefund(w) ==
    /\ At(w, "refund")
    /\ \/ \E id \in RefundIds :
             /\ MakesRefund(worker[w].charge, id)
             /\ Answered(w, id) \/ ("refund" \in Mortal /\ Finish(w))
       \/ Finish(w) /\ UNCHANGED <<external, events>>
    /\ UNCHANGED <<rows, missed>>

InsertRefund(w) ==
    /\ At(w, "insertRefund")
    /\ refundTxns' = [refundTxns EXCEPT ![worker[w].charge] = @ \cup {worker[w].id}]
    /\ Goto(w, "read")
    /\ UNCHANGED <<external, events, status, txn, missed>>

\* cancelPayment up to the call of the gateway.
StartCancel(w, g) ==
    /\ status[g] = "pending"
    /\ Begin(w, "cancel", "cancel", g, "cancelled")
    /\ UNCHANGED <<external, events, rows, missed>>

GatewayCancelIgnored(w) ==  \* mutant: an error of the gateway is swallowed
    /\ At(w, "cancel")
    /\ \/ CancelsCharge(worker[w].charge)
       \/ UNCHANGED <<external, events>>
    /\ Goto(w, "read")
    /\ UNCHANGED <<rows, missed>>
GatewayCancel(w) ==
    /\ At(w, "cancel")
    /\ \/ /\ CancelsCharge(worker[w].charge)
          /\ \/ Goto(w, "read")
             \/ "cancel" \in Mortal /\ Finish(w)
       \/ Finish(w) /\ UNCHANGED <<external, events>>
    /\ UNCHANGED <<rows, missed>>

\* handlePaymentEvent up to updateStatus.  The lookup takes the customer of
\* the event for the tenant id; whatever happens, the answer is HTTP 200.
Found(e) == status[e.charge] # "none" /\ customer[e.charge] = Tenant
HandlesWebhook == \E v \in Workers : ~At(v, "idle") /\ worker[v].op = "webhook"
ReceiveEvent(w, i) ==
    /\ ~(Ordered /\ (i # 1 \/ HandlesWebhook))
    /\ \/ events' = RemoveAt(events, i)
       \/ Repeated /\ UNCHANGED events
    /\ LET e == events[i] IN
          \/ /\ Found(e)
             /\ Begin(w, "read", "webhook", e.charge, EventStatus[e.name])
             /\ UNCHANGED missed
          \/ /\ ~Found(e)
             /\ At(w, "idle")
             /\ missed' = missed \cup {e}
             /\ UNCHANGED worker
    /\ UNCHANGED <<external, rows>>

\* updateStatus has returned to its caller, whose request ends here: cancelPayment
\* still updates cancelReason, which the entity does not have, so that TypeORM
\* refuses the update and the caller gets an error with everything else written.
Return(w) == Finish(w)

\* updateStatus: the read and its early return,
Differs(w) ==
    worker' = [worker EXCEPT ![w] =
                 [@ EXCEPT !.pc = "write", !.main = txn[worker[w].charge] # "none"]]
ReadPaymentOnce(w) ==  \* mutant: returns early from any status but pending
    /\ At(w, "read")
    /\ IF status[worker[w].charge] \notin {worker[w].target, "pending"}
       THEN Return(w) ELSE Differs(w)
    /\ UNCHANGED <<external, events, rows, missed>>
ReadPayment(w) ==
    /\ At(w, "read")
    /\ IF status[worker[w].charge] = worker[w].target
       THEN Return(w) ELSE Differs(w)
    /\ UNCHANGED <<external, events, rows, missed>>

\* the write of the payment, whatever its status is by then,
WritePayment(w) ==
    /\ At(w, "write")
    /\ status' = [status EXCEPT ![worker[w].charge] = worker[w].target]
    /\ IF worker[w].main THEN Goto(w, "transaction") ELSE Return(w)
    /\ UNCHANGED <<external, events, txn, refundTxns, missed>>

\* and the write of the main transaction, which the database refuses (and so
\* the caller gets an error) unless the string is one of the column's enum.
WriteTransaction(w) ==
    /\ At(w, "transaction")
    /\ LET s == TransactionStatusFor(worker[w].target) IN
          IF s \in TransactionStatus
          THEN txn' = [txn EXCEPT ![worker[w].charge] = s] /\ Return(w)
          ELSE Finish(w) /\ UNCHANGED txn
    /\ UNCHANGED <<external, events, status, refundTxns, missed>>

\* The process dies, or a statement fails, between two awaits.
Die(w) ==
    /\ ~At(w, "idle")
    /\ worker[w].op \in Mortal
    /\ Finish(w)
    /\ UNCHANGED <<external, events, rows, missed>>

Next ==
    \/ \E g \in Charges : GatewayAdvances(g)
    \/ \E w \in Workers :
          \/ \E g \in Charges, c \in Customers, s \in {"PENDING", "CONFIRMED"} :
                CreateCharge(w, g, c, s)
          \/ \E g \in Charges : StartRefund(w, g) \/ StartCancel(w, g)
          \/ \E i \in DOMAIN events : ReceiveEvent(w, i)
          \/ InsertPayment(w) \/ InsertTransaction(w)
          \/ GatewayRefund(w) \/ InsertRefund(w) \/ GatewayCancel(w)
          \/ ReadPayment(w) \/ WritePayment(w) \/ WriteTransaction(w)
          \/ Die(w)

Spec == Init /\ [][Next]_vars

\* A request that started runs on, and the gateway delivers what it sent.
\* Strong fairness for the delivery: a worker is only a slot, the service
\* accepts a webhook whatever else it is doing.
Step(w) == \/ InsertPayment(w) \/ InsertTransaction(w)
           \/ GatewayRefund(w) \/ InsertRefund(w) \/ GatewayCancel(w)
           \/ ReadPayment(w) \/ WritePayment(w) \/ WriteTransaction(w)
Deliver == \E w \in Workers : events # <<>> /\ ReceiveEvent(w, 1)

FairSpec == /\ Spec
            /\ \A w \in Workers : WF_vars(Step(w))
            /\ SF_vars(Deliver)

-----------------------------------------------------------------------------
(* Properties *)

Request ==
    [pc : {"insertPayment", "insertTransaction", "refund", "insertRefund", "cancel",
           "read", "write", "transaction"},
     op : Operations,
     charge : Charges, target : PaymentStatus, main : BOOLEAN,
     id : RefundIds \cup {"none"}]

\* The columns hold values of their enums; a request that inserts a refund has
\* the id the gateway answered with.
TypeOK ==
    /\ gateway \in [Charges -> GatewayStatus \cup {"none"}]
    /\ customer \in [Charges -> Customers \cup {Tenant}]
    /\ refunds \in [Charges -> SUBSET RefundIds]
    /\ events \in Seq(Event)
    /\ status \in [Charges -> PaymentStatus \cup {"none"}]
    /\ txn \in [Charges -> TransactionStatus \cup {"none"}]
    /\ refundTxns \in [Charges -> SUBSET RefundIds]
    /\ worker \in [Workers -> Request \cup {Idle}]
    /\ missed \subseteq Event

\* What the gateway must have done for a payment to have status s.
Evidence(g, s) ==
    /\ gateway[g] # "none"
    /\ s = "confirmed" => gateway[g] \in {"CONFIRMED", "RECEIVED", "REFUNDED"}
    /\ s = "received" => gateway[g] \in {"RECEIVED", "REFUNDED"}
    /\ s = "refunded" => refunds[g] # {}
    /\ s = "cancelled" => gateway[g] = "CANCELLED"

\* A payment row never claims what did not happen at the gateway, whatever the
\* order of webhooks, refunds and cancellations and wherever a request dies:
\* it may be behind the gateway, or regress, but a confirmed payment was paid,
\* a refunded one was refunded, a cancelled one can no longer be paid.
NoPhantomStatus ==
    \A g \in Charges : status[g] # "none" => Evidence(g, status[g])

\* Every REFUND transaction in the books is a refund the gateway made of that
\* very charge.
RefundsAreBacked == \A g \in Charges : refundTxns[g] \subseteq refunds[g]

Quiet == events = <<>> /\ \A w \in Workers : At(w, "idle")

\* Every event is handled once, in the order of the gateway, to its end: what
\* handleAsaasWebhook needs, which answers 200 even to an event it failed on.
Dependable == Ordered /\ ~Repeated /\ "webhook" \notin Mortal

\* With dependable events, a quiet service agrees with the gateway about every
\* payment that is not refunded in part and whose row was there when its events
\* came, even if requests that charge, refund and cancel were cut short.
SettledAgreement ==
    Dependable /\ Quiet =>
        \A g \in Charges :
            \/ status[g] = "none"
            \/ \E e \in missed : e.charge = g
            \/ refunds[g] # {} /\ gateway[g] # "REFUNDED"
            \/ status[g] = MapAsaasStatus[gateway[g]]

\* With dependable events, a full refund ends as a refund in the books for good,
\* even if the request that asked for it died half-way, before its transaction
\* or its status was written: the event of the gateway repairs the status.
RefundSettles ==
    \A g \in Charges :
        gateway[g] = "REFUNDED" /\ customer[g] = Tenant ~> [](status[g] = "refunded")
=============================================================================
