---------------------------- MODULE OrderProofs ----------------------------
(***************************************************************************)
(* Order's type, the agreement of statuses and timestamps, and that only   *)
(* orders that were paid get refunded, for any number of requests and any  *)
(* amounts and totals.  The three together are inductive: that a refund is *)
(* of a paid order needs the timestamp that the payment status stands for. *)
(*                                                                         *)
(* Then the orders of the older services, OrderSaga: what their requests   *)
(* hold, and on that one invariant for each of the two properties.         *)
(***************************************************************************)
EXTENDS Order, OrderSaga, FiniteSetTheorems, TLAPS

IInv == TypeOK /\ StampsMatch /\ RefundsWerePaid

\* What an update of the row keeps, whichever handler runs it.
RowOK == /\ total \in Totals
         /\ status \in OrderStatus
         /\ payment \in PaymentStatus
         /\ fulfillment \in FulfillmentStatus
         /\ stamps \subseteq Stamped
         /\ refundedAmount \in Amounts \cup {0}
         /\ transaction \in BOOLEAN

LEMMA InitIInv == Init => IInv
<1> SUFFICES ASSUME Init PROVE IInv
  OBVIOUS
<1>1. request \in [Requests -> [pc : {"cancel", "refund"}, amount : Amounts \cup {0}] \cup {Idle}]
  BY DEF Init
<1>2. TypeOK
  BY <1>1 DEF Init, TypeOK, OrderStatus, PaymentStatus, FulfillmentStatus, Stamped
<1>3. StampsMatch
  BY DEF Init, StampsMatch, Stamped
<1>4. \A r \in Requests : request[r].pc # "refund"
  BY DEF Init, Idle
<1>5. RefundsWerePaid
  BY <1>4 DEF Init, RefundsWerePaid
<1> QED BY <1>2, <1>3, <1>5 DEF IInv

\* An update of the row by which no timestamp is lost and no refund recorded
\* keeps the invariant for the requests that go on.
LEMMA RowUpdate ==
    ASSUME IInv, RowOK', StampsMatch', stamps \subseteq stamps',
           refundedAmount' = refundedAmount,
           storing' \in BOOLEAN, UNCHANGED request,
           answer' \in {"none", "success", "not_found", "refused"}
    PROVE  IInv'
BY DEF IInv, TypeOK, RowOK, RefundsWerePaid, Idle

LEMMA SetStatusOK ==
    ASSUME IInv, NEW s \in OrderStatus, SetStatus(s)
    PROVE  RowOK' /\ StampsMatch' /\ stamps \subseteq stamps' /\ refundedAmount' = refundedAmount
BY DEF IInv, TypeOK, StampsMatch, SetStatus, RowOK, OrderStatus, PaymentStatus, Stamped

LEMMA SetPaymentOK ==
    ASSUME IInv, NEW p \in PaymentStatus, NEW withId \in BOOLEAN, SetPayment(p, withId)
    PROVE  RowOK' /\ StampsMatch' /\ stamps \subseteq stamps' /\ refundedAmount' = refundedAmount
BY DEF IInv, TypeOK, StampsMatch, SetPayment, RowOK, OrderStatus, PaymentStatus, Stamped

LEMMA SetFulfillmentOK ==
    ASSUME IInv, NEW f \in FulfillmentStatus, SetFulfillment(f)
    PROVE  RowOK' /\ StampsMatch' /\ stamps \subseteq stamps' /\ refundedAmount' = refundedAmount
BY DEF IInv, TypeOK, StampsMatch, SetFulfillment, RowOK, OrderStatus, PaymentStatus,
       FulfillmentStatus, Stamped

\* A request that has passed its check: the row is left alone, and a refund is
\* only due if the order was paid.
LEMMA CheckedOK ==
    ASSUME IInv, NEW r \in Requests, NEW pc \in {"cancel", "refund"},
           NEW amount \in Amounts \cup {0}, Checked(r, pc, amount),
           pc = "refund" => payment = "paid",
           UNCHANGED <<row, storing>>,
           answer' \in {"none", "success", "not_found", "refused"}
    PROVE  IInv'
<1>1. TypeOK'
  BY DEF IInv, TypeOK, Checked, row, Idle
<1>2. StampsMatch' BY DEF IInv, StampsMatch, row
<1>3. payment = "paid" => "paid" \in stamps
  BY DEF IInv, StampsMatch, Stamped
<1>4. ASSUME NEW q \in Requests, request'[q].pc = "refund" PROVE "paid" \in stamps'
  <2>1. CASE q = r
    BY <1>3, <1>4, <2>1 DEF Checked, row, IInv, TypeOK
  <2>2. CASE q # r
    BY <1>4, <2>2 DEF Checked, row, IInv, TypeOK, RefundsWerePaid
  <2> QED BY <2>1, <2>2
<1>5. RefundsWerePaid'
  BY <1>4 DEF IInv, RefundsWerePaid, row
<1> QED BY <1>1, <1>2, <1>5 DEF IInv

\* The write of a checked request frees it and leaves the others.
LEMMA Written ==
    ASSUME IInv, NEW r \in Requests, request' = [request EXCEPT ![r] = Idle],
           RowOK', StampsMatch', stamps \subseteq stamps', UNCHANGED <<storing, answer>>,
           refundedAmount' > 0 => {"paid", "refunded"} \subseteq stamps'
    PROVE  IInv'
<1>1. TypeOK' BY DEF IInv, TypeOK, RowOK, Idle
<1>2. ASSUME NEW q \in Requests, request'[q].pc = "refund" PROVE request[q].pc = "refund"
  BY <1>2 DEF IInv, TypeOK, Idle
<1>3. RefundsWerePaid' BY <1>2 DEF IInv, RefundsWerePaid
<1> QED BY <1>1, <1>3 DEF IInv

LEMMA StepIInv == IInv /\ [Next]_vars => IInv'
<1> SUFFICES ASSUME IInv, [Next]_vars PROVE IInv'
  OBVIOUS
<1>a. answer \in {"none", "success", "not_found", "refused"} /\ storing \in BOOLEAN
  BY DEF IInv, TypeOK
<1>1. ASSUME NEW s \in OrderStatus, UpdateStatus(s) PROVE IInv'
  BY <1>1, <1>a, SetStatusOK, RowUpdate DEF UpdateStatus
<1>2. ASSUME NEW p \in PaymentStatus, NEW withId \in BOOLEAN, UpdatePaymentStatus(p, withId)
      PROVE  IInv'
  BY <1>2, <1>a, SetPaymentOK, RowUpdate DEF UpdatePaymentStatus
<1>3. ASSUME NEW f \in FulfillmentStatus, UpdateFulfillmentStatus(f) PROVE IInv'
  BY <1>3, <1>a, SetFulfillmentOK, RowUpdate DEF UpdateFulfillmentStatus
<1>4. ASSUME AddTrackingInfo PROVE IInv'
  <2>1. "partially_fulfilled" \in FulfillmentStatus BY DEF FulfillmentStatus
  <2> QED BY <1>4, <1>a, <2>1, SetFulfillmentOK, RowUpdate DEF AddTrackingInfo
<1>5. ASSUME StorePaymentId PROVE IInv'
  <2>1. "pending" \in PaymentStatus /\ TRUE \in BOOLEAN BY DEF PaymentStatus
  <2> QED BY <1>5, <1>a, <2>1, SetPaymentOK, RowUpdate DEF StorePaymentId
<1>6. ASSUME NEW r \in Requests, CancelOrder(r) PROVE IInv'
  BY <1>6, <1>a, CheckedOK DEF CancelOrder
<1>7. ASSUME NEW r \in Requests, WriteCancel(r) PROVE IInv'
  <2>1. RowOK' /\ stamps \subseteq stamps'
    BY <1>7 DEF WriteCancel, IInv, TypeOK, RowOK, OrderStatus, Stamped
  <2>2. StampsMatch'
    BY <1>7 DEF WriteCancel, IInv, StampsMatch, Stamped
  <2>3. refundedAmount' > 0 => {"paid", "refunded"} \subseteq stamps'
    BY <1>7, <2>1 DEF WriteCancel, IInv, RefundsWerePaid
  <2> QED BY <1>7, <2>1, <2>2, <2>3, Written DEF WriteCancel
<1>8. ASSUME NEW r \in Requests, NEW a \in Amounts, RefundOrder(r, a) PROVE IInv'
  BY <1>8, <1>a, CheckedOK DEF RefundOrder
<1>9. ASSUME NEW r \in Requests, WriteRefund(r) PROVE IInv'
  <2>1. request[r].pc = "refund" /\ request[r].amount \in Amounts \cup {0}
    BY <1>9 DEF WriteRefund, IInv, TypeOK, Idle
  <2>2. "paid" \in stamps
    BY <2>1 DEF IInv, RefundsWerePaid
  <2>3. /\ payment' = status'
        /\ status' \in {"refunded", "partially_refunded"}
        /\ stamps' = stamps \cup {"refunded"}
    BY <1>9 DEF WriteRefund
  <2>4. RowOK' /\ stamps \subseteq stamps'
    BY <1>9, <2>1, <2>3 DEF WriteRefund, IInv, TypeOK, RowOK, OrderStatus, PaymentStatus, Stamped
  <2>5. StampsMatch'
    BY <2>3 DEF StampsMatch, Stamped
  <2> QED BY <1>9, <2>2, <2>3, <2>4, <2>5, Written DEF WriteRefund
<1>10. ASSUME NEW r \in Requests, NEW e \in Events, HandleAsaasWebhook(r, e) PROVE IInv'
  <2>1. answer' \in {"none", "success", "not_found", "refused"} /\ UNCHANGED storing
    BY <1>10 DEF HandleAsaasWebhook
  <2>2. CASE answer' # "success"
    BY <1>10, <1>a, <2>1, <2>2, RowUpdate DEF HandleAsaasWebhook, row, IInv, TypeOK, RowOK, StampsMatch
  <2>3. CASE answer' = "success"
    <3>1. Apply(r, e) /\ (e = "PAYMENT_REFUNDED" => payment = "paid")
      BY <1>10, <2>3 DEF HandleAsaasWebhook
    <3>2. CASE e \in {"PAYMENT_CONFIRMED", "PAYMENT_RECEIVED"}
      <4>1. "paid" \in PaymentStatus /\ TRUE \in BOOLEAN BY DEF PaymentStatus
      <4>2. SetPayment("paid", TRUE) /\ UNCHANGED request BY <3>1, <3>2 DEF Apply
      <4> QED BY <1>a, <2>1, <4>1, <4>2, SetPaymentOK, RowUpdate
    <3>3. CASE e = "PAYMENT_OVERDUE"
      <4>1. "payment_failed" \in OrderStatus BY DEF OrderStatus
      <4>2. SetStatus("payment_failed") /\ UNCHANGED request BY <3>1, <3>3 DEF Apply
      <4> QED BY <1>a, <2>1, <4>1, <4>2, SetStatusOK, RowUpdate
    <3>4. CASE e = "PAYMENT_REFUNDED"
      <4>1. PICK a \in Amounts : Checked(r, "refund", a) /\ UNCHANGED row
        BY <3>1, <3>4 DEF Apply
      <4> QED BY <2>1, <3>1, <3>4, <4>1, CheckedOK
    <3> QED BY <3>2, <3>3, <3>4 DEF Events
  <2> QED BY <2>2, <2>3
<1>11. ASSUME UNCHANGED vars PROVE IInv'
  BY <1>11 DEF vars, row, IInv, TypeOK, StampsMatch, RefundsWerePaid
<1> QED
  BY <1>1, <1>2, <1>3, <1>4, <1>5, <1>6, <1>7, <1>8, <1>9, <1>10, <1>11 DEF Next

THEOREM IInvariant == Spec => []IInv
<1> QED BY InitIInv, StepIInv, PTL DEF Spec

\* The row and the requests always have their types.
THEOREM OrderTypeCorrect == Spec => []TypeOK
<1>1. IInv => TypeOK BY DEF IInv
<1> QED BY <1>1, IInvariant, PTL

\* No handler, in any order, leaves a status without its timestamp.
THEOREM StampsAlwaysMatch == Spec => []StampsMatch
<1>1. IInv => StampsMatch BY DEF IInv
<1> QED BY <1>1, IInvariant, PTL

\* Whatever races with it, a refund is of an order that was paid.
THEOREM RefundsAlwaysPaid == Spec => []RefundsWerePaid
<1>1. IInv => RefundsWerePaid BY DEF IInv
<1> QED BY <1>1, IInvariant, PTL

-----------------------------------------------------------------------------
(* The older services *)

\* The requests that have taken a piece of p off the stock and not charged it yet.
Holding(p) == {w \in Workers : worker[w].pc = "reduce" /\ p \in worker[w].taken}

StockInv ==
    /\ SagaTypeOK
    /\ \A p \in Products : charged[p] + Cardinality(Holding(p)) <= Stock - stock[p]

ForgottenInv ==
    /\ SagaTypeOK
    /\ AcknowledgedIsCharged
    /\ \A o \in Orders : processor[o] = "answer" => payments[o] >= 1

\* What a request holds at each of its awaits.
LEMMA RequestFields ==
    ASSUME SagaTypeOK, NEW w \in Workers
    PROVE  /\ worker[w].pc = "addLine" => worker[w].product \in Products
           /\ worker[w].pc = "check" =>
                 worker[w].todo \in SUBSET Products /\ worker[w].lines \in SUBSET Products
           /\ worker[w].pc = "reduce" =>
                 worker[w].todo \in SUBSET Products /\ worker[w].taken \in SUBSET Products
           /\ worker[w].pc = "publish" => worker[w].order \in Orders
<1>1. worker[w] \in Request \cup {AtRest} BY DEF SagaTypeOK
<1> QED BY <1>1 DEF Request, AtRest

LEMMA InitSagaTypes == SagaInit => SagaTypeOK
<1> SUFFICES ASSUME SagaInit PROVE SagaTypeOK
  OBVIOUS
<1>1. Stock \in 0..Stock /\ 0 \in 0..MaxPayments BY OrderSagaAssumption
<1>2. AtRest \in Request \cup {AtRest} OBVIOUS
<1> QED BY <1>1, <1>2 DEF SagaInit, SagaTypeOK

\* A request goes on with what it may hold.
LEMMA BecomesRequest ==
    ASSUME SagaTypeOK, NEW w \in Workers, NEW r \in Request \cup {AtRest}, Become(w, r)
    PROVE  /\ worker' \in [Workers -> Request \cup {AtRest}]
           /\ worker'[w] = r
           /\ \A v \in Workers \ {w} : worker'[v] = worker[v]
BY DEF SagaTypeOK, Become

LEMMA StepSagaTypes == SagaTypeOK /\ [SagaNext]_sagaVars => SagaTypeOK'
<1> SUFFICES ASSUME SagaTypeOK, [SagaNext]_sagaVars PROVE SagaTypeOK'
  OBVIOUS
<1> USE DEF shop, rabbit, At
<1>1. ASSUME NEW w \in Workers, NEW r \in Request \cup {AtRest}, Become(w, r),
             UNCHANGED rabbit, cart' \subseteq Products, saved' \subseteq Orders,
             stock' \in [Products -> 0..Stock], charged' \in [Products -> Nat]
      PROVE  SagaTypeOK'
  BY <1>1, BecomesRequest DEF SagaTypeOK
<1>2. ASSUME NEW w \in Workers,
             \/ AddLine(w) \/ Die(w) \/ StartFromCart(w) \/ MakeOrder(w)
             \/ \E p \in Products : StartAdd(w, p) \/ CheckStock(w, p)
             \/ \E o \in Orders : Create(w, o)
      PROVE  SagaTypeOK'
  <2>1. \E r \in Request \cup {AtRest} : Become(w, r)
    <3>1. CASE AddLine(w) \/ Die(w) BY <3>1 DEF AddLine, Die, Finish
    <3>2. CASE StartFromCart(w)
      <4>1. [pc |-> "check", todo |-> cart, lines |-> cart] \in Request BY DEF Request, SagaTypeOK
      <4> QED BY <3>2, <4>1 DEF StartFromCart
    <3>3. CASE MakeOrder(w)
      <4>1. [pc |-> "reduce", todo |-> worker[w].lines, taken |-> {}] \in Request
        BY <3>3, RequestFields DEF MakeOrder, Request
      <4> QED BY <3>3, <4>1 DEF MakeOrder
    <3>4. ASSUME NEW p \in Products, StartAdd(w, p) PROVE <2>1
      <4>1. [pc |-> "addLine", product |-> p] \in Request BY DEF Request
      <4> QED BY <3>4, <4>1 DEF StartAdd
    <3>5. ASSUME NEW p \in Products, CheckStock(w, p) PROVE <2>1
      <4>1. [pc |-> "check", todo |-> worker[w].todo \ {p}, lines |-> worker[w].lines] \in Request
        BY <3>5, RequestFields DEF CheckStock, Request
      <4> QED BY <3>5, <4>1 DEF CheckStock, Finish
    <3>6. ASSUME NEW o \in Orders, Create(w, o) PROVE <2>1
      <4>1. [pc |-> "publish", order |-> o] \in Request BY DEF Request
      <4> QED BY <3>6, <4>1 DEF Create
    <3> QED BY <1>2, <3>1, <3>2, <3>3, <3>4, <3>5, <3>6
  <2>2. /\ UNCHANGED <<stock, charged, rabbit>> /\ saved' \subseteq Orders
    BY <1>2 DEF AddLine, Die, StartFromCart, MakeOrder, StartAdd, CheckStock, Create, SagaTypeOK
  <2>3. cart' \subseteq Products
    <3>1. CASE AddLine(w) BY <3>1, RequestFields DEF AddLine, SagaTypeOK
    <3> QED BY <1>2, <3>1 DEF Die, StartFromCart, MakeOrder, StartAdd, CheckStock, Create, SagaTypeOK
  <2> QED BY <1>1, <2>1, <2>2, <2>3 DEF SagaTypeOK
<1>3. ASSUME NEW w \in Workers, NEW p \in Products, ReduceStock(w, p) PROVE SagaTypeOK'
  <2>1. [pc |-> "reduce", todo |-> worker[w].todo \ {p}, taken |-> worker[w].taken \cup {p}] \in Request
    BY <1>3, RequestFields DEF ReduceStock, Request
  <2>2. \E r \in Request \cup {AtRest} : Become(w, r) BY <1>3, <2>1 DEF ReduceStock, Finish
  <2>3. stock' \in [Products -> 0..Stock] BY <1>3, OrderSagaAssumption DEF ReduceStock, SagaTypeOK
  <2> QED BY <1>1, <1>3, <2>2, <2>3 DEF ReduceStock, SagaTypeOK
<1>4. ASSUME NEW w \in Workers, Pay(w) PROVE SagaTypeOK'
  <2>1. charged' \in [Products -> Nat] BY <1>4 DEF Pay, SagaTypeOK
  <2>2. Become(w, AtRest) /\ UNCHANGED <<cart, stock, saved, rabbit>> BY <1>4 DEF Pay, Finish
  <2> QED BY <1>1, <2>1, <2>2 DEF SagaTypeOK
<1>5. ASSUME NEW w \in Workers, PublishCreated(w) PROVE SagaTypeOK'
  <2>1. worker' \in [Workers -> Request \cup {AtRest}] BY <1>5, BecomesRequest DEF PublishCreated, Finish
  <2> QED BY <1>5, <2>1 DEF PublishCreated, SagaTypeOK
<1>6. ASSUME NEW p \in Products, ProductDeleted(p) PROVE SagaTypeOK'
  BY <1>6 DEF ProductDeleted, SagaTypeOK
<1>7. ASSUME NEW o \in Orders, Deliver(o) \/ CreatePayment(o) PROVE SagaTypeOK'
  BY <1>7, OrderSagaAssumption DEF Deliver, CreatePayment, SagaTypeOK
<1>8. ASSUME NEW o \in Orders, Ack(o) PROVE SagaTypeOK'
  BY <1>8 DEF Ack, Deaf, SagaTypeOK
<1>9. ASSUME NEW o \in Orders, Nack(o) PROVE SagaTypeOK'
  BY <1>9 DEF Nack, Deaf, SagaTypeOK
<1>10. CASE StartConsumer BY <1>10 DEF StartConsumer, SagaTypeOK
<1>11. CASE LoseLink BY <1>11 DEF LoseLink, SagaTypeOK
<1>12. CASE Reconnect BY <1>12 DEF Reconnect, SagaTypeOK
<1>13. CASE UNCHANGED sagaVars BY <1>13 DEF sagaVars, SagaTypeOK
<1> QED BY <1>2, <1>3, <1>4, <1>5, <1>6, <1>7, <1>8, <1>9, <1>10, <1>11, <1>12, <1>13 DEF SagaNext

\* The stock, requests, orders and messages of the older services are what they are meant to be.
THEOREM SagaTypeCorrect == SagaSpec => []SagaTypeOK
<1> QED BY InitSagaTypes, StepSagaTypes, PTL DEF SagaSpec

-----------------------------------------------------------------------------
(* The stock *)

LEMMA HoldersCount ==
    ASSUME NEW S \in SUBSET Workers, NEW T \in SUBSET S
    PROVE  /\ IsFiniteSet(S) /\ Cardinality(S) \in Nat /\ Cardinality(T) \in Nat
           /\ Cardinality(T) <= Cardinality(S)
BY OrderSagaAssumption, FS_Subset, FS_CardinalityType

LEMMA InitStock == SagaInit => StockInv
<1> SUFFICES ASSUME SagaInit PROVE StockInv
  OBVIOUS
<1>1. \A p \in Products : Holding(p) = {} BY DEF SagaInit, Holding, AtRest
<1>2. \A p \in Products : charged[p] = 0 /\ stock[p] = Stock BY DEF SagaInit
<1> QED BY <1>1, <1>2, InitSagaTypes, FS_EmptySet, OrderSagaAssumption DEF StockInv

LEMMA StepStock == StockInv /\ [SagaNext]_sagaVars => StockInv'
<1> SUFFICES ASSUME StockInv, [SagaNext]_sagaVars PROVE StockInv'
  OBVIOUS
<1> USE DEF shop, rabbit, At
<1>0. /\ SagaTypeOK /\ SagaTypeOK'
      /\ \A p \in Products : Holding(p) \in SUBSET Workers /\ Holding(p)' \in SUBSET Workers
      /\ \A p \in Products : /\ charged[p] \in Nat /\ charged'[p] \in Nat
                             /\ stock[p] \in Int /\ stock'[p] \in Int
      /\ Stock \in Nat
  BY StepSagaTypes, OrderSagaAssumption DEF StockInv, SagaTypeOK, Holding
<1>1. ASSUME UNCHANGED <<stock, charged>>, \A p \in Products : Holding(p)' \subseteq Holding(p)
      PROVE  StockInv'
  <2> SUFFICES ASSUME NEW p \in Products
               PROVE  charged'[p] + Cardinality(Holding(p))' <= Stock - stock'[p]
    BY <1>0 DEF StockInv
  <2>1. /\ Cardinality(Holding(p)) \in Nat /\ Cardinality(Holding(p))' \in Nat
        /\ Cardinality(Holding(p))' <= Cardinality(Holding(p))
    BY <1>0, <1>1, HoldersCount
  <2>2. charged[p] + Cardinality(Holding(p)) <= Stock - stock[p] BY DEF StockInv
  <2> QED BY <1>0, <1>1, <2>1, <2>2
<1>2. ASSUME NEW w \in Workers, NEW r, Become(w, r), r.pc # "reduce" \/ r.taken = {},
             UNCHANGED <<stock, charged>>
      PROVE  StockInv'
  <2>1. \A p \in Products : Holding(p)' \subseteq Holding(p)
    BY <1>0, <1>2 DEF Holding, Become, SagaTypeOK
  <2> QED BY <1>1, <1>2, <2>1
<1>3. ASSUME NEW w \in Workers,
             \/ AddLine(w) \/ Die(w) \/ StartFromCart(w) \/ MakeOrder(w) \/ PublishCreated(w)
             \/ \E p \in Products : StartAdd(w, p) \/ CheckStock(w, p)
             \/ \E o \in Orders : Create(w, o)
      PROVE  StockInv'
  <2>1. UNCHANGED <<stock, charged>>
    BY <1>3 DEF AddLine, Die, StartFromCart, MakeOrder, PublishCreated, StartAdd, CheckStock, Create
  <2>2. AtRest.pc # "reduce" BY DEF AtRest
  <2>3. CASE AddLine(w) \/ Die(w) \/ PublishCreated(w)
    BY <1>2, <2>1, <2>2, <2>3 DEF AddLine, Die, PublishCreated, Finish
  <2>4. CASE StartFromCart(w) BY <1>2, <2>1, <2>4 DEF StartFromCart
  <2>5. CASE MakeOrder(w) BY <1>2, <2>1, <2>5 DEF MakeOrder
  <2>6. ASSUME NEW p \in Products, StartAdd(w, p) PROVE StockInv' BY <1>2, <2>1, <2>6 DEF StartAdd
  <2>7. ASSUME NEW p \in Products, CheckStock(w, p) PROVE StockInv'
    BY <1>2, <2>1, <2>2, <2>7 DEF CheckStock, Finish
  <2>8. ASSUME NEW o \in Orders, Create(w, o) PROVE StockInv' BY <1>2, <2>1, <2>8 DEF Create
  <2> QED BY <1>3, <2>3, <2>4, <2>5, <2>6, <2>7, <2>8
<1>4. ASSUME NEW w \in Workers, NEW p \in Products, ReduceStock(w, p) PROVE StockInv'
  <2>1. CASE stock[p] = 0 /\ Finish(w) /\ UNCHANGED stock
    BY <1>2, <1>4, <2>1 DEF ReduceStock, Finish, AtRest
  <2>2. CASE /\ stock' = [stock EXCEPT ![p] = @ - 1]
             /\ Become(w, [pc |-> "reduce", todo |-> worker[w].todo \ {p},
                           taken |-> worker[w].taken \cup {p}])
    <3>1. worker[w].pc = "reduce" /\ UNCHANGED charged BY <1>4 DEF ReduceStock
    <3>2. SUFFICES ASSUME NEW q \in Products
                   PROVE  charged'[q] + Cardinality(Holding(q))' <= Stock - stock'[q]
      BY <1>0 DEF StockInv
    <3>3. charged[q] + Cardinality(Holding(q)) <= Stock - stock[q] BY DEF StockInv
    <3>4. Holding(q)' \subseteq IF q = p THEN Holding(q) \cup {w} ELSE Holding(q)
      BY <1>0, <2>2, <3>1 DEF Holding, Become, SagaTypeOK
    <3>5. stock'[q] = IF q = p THEN stock[q] - 1 ELSE stock[q] BY <1>0, <2>2 DEF SagaTypeOK
    <3>6. IsFiniteSet(Holding(q)) /\ Cardinality(Holding(q)) \in Nat BY <1>0, HoldersCount
    <3>7. CASE q = p
      <4>1. Cardinality(Holding(q) \cup {w}) <= Cardinality(Holding(q)) + 1
            /\ Cardinality(Holding(q) \cup {w}) \in Nat
        BY <3>6, FS_AddElement
      <4>2. Holding(q) \cup {w} \in SUBSET Workers BY <1>0
      <4>3. Cardinality(Holding(q))' <= Cardinality(Holding(q) \cup {w})
            /\ Cardinality(Holding(q))' \in Nat
        BY <3>4, <3>7, <4>2, HoldersCount
      <4> QED BY <1>0, <3>1, <3>3, <3>5, <3>6, <3>7, <4>1, <4>3
    <3>8. CASE q # p
      <4>1. Cardinality(Holding(q))' <= Cardinality(Holding(q)) /\ Cardinality(Holding(q))' \in Nat
        BY <1>0, <3>4, <3>8, HoldersCount
      <4> QED BY <1>0, <3>1, <3>3, <3>5, <3>6, <3>8, <4>1
    <3> QED BY <3>7, <3>8
  <2> QED BY <1>4, <2>1, <2>2 DEF ReduceStock
<1>5. ASSUME NEW w \in Workers, Pay(w) PROVE StockInv'
  <2>1. CASE UNCHANGED charged BY <1>2, <1>5, <2>1 DEF Pay, Finish, AtRest
  <2>2. CASE charged' = [p \in Products |->
                           IF p \in worker[w].taken THEN charged[p] + 1 ELSE charged[p]]
    <3>1. worker[w].pc = "reduce" /\ UNCHANGED stock /\ Become(w, AtRest) BY <1>5 DEF Pay, Finish
    <3>2. SUFFICES ASSUME NEW q \in Products
                   PROVE  charged'[q] + Cardinality(Holding(q))' <= Stock - stock'[q]
      BY <1>0 DEF StockInv
    <3>3. charged[q] + Cardinality(Holding(q)) <= Stock - stock[q] BY DEF StockInv
    <3>4. Holding(q)' = Holding(q) \ {w} BY <1>0, <3>1 DEF Holding, Become, AtRest, SagaTypeOK
    <3>5. IsFiniteSet(Holding(q)) /\ Cardinality(Holding(q)) \in Nat BY <1>0, HoldersCount
    <3>6. Cardinality(Holding(q) \ {w})
            = IF w \in Holding(q) THEN Cardinality(Holding(q)) - 1 ELSE Cardinality(Holding(q))
      BY <3>5, FS_RemoveElement
    <3>7. w \in Holding(q) <=> q \in worker[w].taken BY <3>1 DEF Holding
    <3>8. charged'[q] = IF w \in Holding(q) THEN charged[q] + 1 ELSE charged[q] BY <2>2, <3>7
    <3> QED BY <1>0, <3>1, <3>3, <3>4, <3>5, <3>6, <3>8
  <2> QED BY <1>5, <2>1, <2>2 DEF Pay
<1>6. ASSUME UNCHANGED <<worker, stock, charged>> PROVE StockInv'
  BY <1>1, <1>6 DEF Holding
<1>7. ASSUME NEW p \in Products, ProductDeleted(p) PROVE StockInv' BY <1>6, <1>7 DEF ProductDeleted
<1>8. ASSUME NEW o \in Orders, Deliver(o) \/ CreatePayment(o) \/ Ack(o) \/ Nack(o) PROVE StockInv'
  BY <1>6, <1>8 DEF Deliver, CreatePayment, Ack, Nack
<1>9. CASE StartConsumer \/ LoseLink \/ Reconnect \/ UNCHANGED sagaVars
  BY <1>6, <1>9 DEF StartConsumer, LoseLink, Reconnect, sagaVars
<1> QED BY <1>3, <1>4, <1>5, <1>7, <1>8, <1>9 DEF SagaNext

\* Of a product, never more pieces are charged for than have left the stock.
THEOREM ChargedFromStock == SagaSpec => []NeverOversold
<1>1. StockInv => NeverOversold
  <2> SUFFICES ASSUME StockInv, NEW p \in Products PROVE charged[p] <= Stock - stock[p]
    BY DEF NeverOversold
  <2>1. charged[p] \in Nat /\ stock[p] \in Int /\ Stock \in Nat
    BY OrderSagaAssumption DEF StockInv, SagaTypeOK
  <2>2. Cardinality(Holding(p)) \in Nat BY HoldersCount DEF Holding
  <2>3. charged[p] + Cardinality(Holding(p)) <= Stock - stock[p] BY DEF StockInv
  <2> QED BY <2>1, <2>2, <2>3
<1> QED BY <1>1, InitStock, StepStock, PTL DEF SagaSpec

-----------------------------------------------------------------------------
(* The messages *)

LEMMA InitForgotten == SagaInit => ForgottenInv
<1> SUFFICES ASSUME SagaInit PROVE ForgottenInv
  OBVIOUS
<1> QED BY InitSagaTypes DEF SagaInit, ForgottenInv, AcknowledgedIsCharged, None

LEMMA StepForgotten == ForgottenInv /\ [SagaNext]_sagaVars => ForgottenInv'
<1> SUFFICES ASSUME ForgottenInv, [SagaNext]_sagaVars PROVE ForgottenInv'
  OBVIOUS
<1> USE DEF rabbit, At
<1>0. SagaTypeOK /\ SagaTypeOK' BY StepSagaTypes DEF ForgottenInv
<1>1. ASSUME \A o \in Orders : /\ payments'[o] = payments[o]
                               /\ msg'[o] = "done" => msg[o] = "done" \/ processor[o] = "answer"
                               /\ processor'[o] = "answer" => processor[o] = "answer"
      PROVE  ForgottenInv'
  BY <1>0, <1>1 DEF ForgottenInv, AcknowledgedIsCharged
<1>2. ASSUME NEW w \in Workers,
             \/ AddLine(w) \/ Die(w) \/ StartFromCart(w) \/ MakeOrder(w) \/ Pay(w)
             \/ \E p \in Products : StartAdd(w, p) \/ CheckStock(w, p) \/ ReduceStock(w, p)
             \/ \E o \in Orders : Create(w, o)
      PROVE  ForgottenInv'
  <2>1. UNCHANGED <<msg, processor, payments>>
    BY <1>2 DEF AddLine, Die, StartFromCart, MakeOrder, Pay, StartAdd, CheckStock, ReduceStock, Create
  <2> QED BY <1>1, <2>1
<1>3. ASSUME NEW w \in Workers, PublishCreated(w) PROVE ForgottenInv'
  BY <1>0, <1>1, <1>3 DEF PublishCreated, SagaTypeOK
<1>4. ASSUME NEW p \in Products, ProductDeleted(p) PROVE ForgottenInv'
  BY <1>1, <1>4 DEF ProductDeleted
<1>5. ASSUME NEW o \in Orders, Deliver(o) PROVE ForgottenInv'
  BY <1>0, <1>1, <1>5 DEF Deliver, SagaTypeOK
<1>6. ASSUME NEW o \in Orders, CreatePayment(o) PROVE ForgottenInv'
  <2>1. /\ UNCHANGED msg
        /\ \A x \in Orders : payments[x] \in Nat /\ payments'[x] >= payments[x]
        /\ payments'[o] >= 1
        /\ \A x \in Orders \ {o} : processor'[x] = processor[x] /\ payments'[x] = payments[x]
    BY <1>0, <1>6, OrderSagaAssumption DEF CreatePayment, SagaTypeOK
  <2> QED BY <1>0, <2>1 DEF ForgottenInv, AcknowledgedIsCharged
<1>7. ASSUME NEW o \in Orders, Ack(o) PROVE ForgottenInv'
  BY <1>0, <1>1, <1>7 DEF Ack, SagaTypeOK
<1>8. ASSUME NEW o \in Orders, Nack(o) PROVE ForgottenInv'
  BY <1>0, <1>1, <1>8 DEF Nack, SagaTypeOK
<1>9. CASE StartConsumer BY <1>1, <1>9 DEF StartConsumer
<1>10. CASE LoseLink BY <1>1, <1>10 DEF LoseLink
<1>11. CASE Reconnect \/ UNCHANGED sagaVars BY <1>1, <1>11 DEF Reconnect, sagaVars
<1> QED BY <1>2, <1>3, <1>4, <1>5, <1>6, <1>7, <1>8, <1>9, <1>10, <1>11 DEF SagaNext

\* However callbacks fail, channels are lost and the service restarts, RabbitMQ
\* forgets an order only after a payment was created for it.
THEOREM NoOrderForgotten == SagaSpec => []AcknowledgedIsCharged
<1>1. ForgottenInv => AcknowledgedIsCharged BY DEF ForgottenInv
<1> QED BY <1>1, InitForgotten, StepForgotten, PTL DEF SagaSpec
=============================================================================
