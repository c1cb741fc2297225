------------------------------ MODULE OrderSaga ------------------------------
(***************************************************************************)
(* The older checkout and payments services: an order is either saved and  *)
(* published on RabbitMQ (OrderService.create), to be charged by the       *)
(* payments service that consumes the message, or made from the cart step  *)
(* by step over HTTP (createOrderFromCart).                                *)
(*                                                                         *)
(* The second way never gets to its end: TypeORM's create saves nothing,   *)
(* so that the order has no id, and updateOrderStatus calls a findById     *)
(* that a Repository does not have.  Every request ends in an error after  *)
(* the charge at the latest; no status is written and the cart stays.      *)
(*                                                                         *)
(* One user's cart; every product is ordered in one piece, its quantity.   *)
(* RabbitMQService keeps one channel per process and requeues a message    *)
(* whose callback fails; it registers no consumer after a reconnection.    *)
(***************************************************************************)
EXTENDS Naturals, FiniteSets

CONSTANTS Orders, Products,
          Workers,      \* concurrent requests of the checkout service
          Stock,        \* pieces of each product at the start
          MaxPayments,  \* bound: payment rows of one order
          Faulty        \* may requests die and connections be lost?

ASSUME OrderSagaAssumption ==
    /\ IsFiniteSet(Workers)
    /\ Stock \in Nat /\ MaxPayments \in Nat \ {0} /\ Faulty \in BOOLEAN

None == "none"

VARIABLES
    cart,           \* products in the user's cart
    stock,          \* the catalog's
    charged,        \* product -> charges over HTTP for carts that held it
    saved,          \* orders with a row, those of OrderService.create
    worker,         \* worker -> the request it runs
    msg,            \* order -> its order.created message
    link,           \* RabbitMQService's channel in the payments process
    consumer,       \* is the consumer registered on that channel?
    processor,      \* order -> where the callback for its message is
    payments        \* order -> payment rows the callback has created

shop == <<cart, stock, charged>>
rabbit == <<msg, link, consumer, processor, payments>>
sagaVars == <<shop, saved, worker, rabbit>>

AtRest == [pc |-> "idle"]

SagaInit ==
    /\ cart = {}
    /\ stock = [p \in Products |-> Stock]
    /\ charged = [p \in Products |-> 0]
    /\ saved = {}
    /\ worker = [w \in Workers |-> AtRest]
    /\ msg = [o \in Orders |-> None]
    /\ link = None /\ consumer = None
    /\ processor = [o \in Orders |-> "idle"]
    /\ payments = [o \in Orders |-> 0]

At(w, pc) == worker[w].pc = pc
Become(w, r) == worker' = [worker EXCEPT ![w] = r]
Finish(w) == Become(w, AtRest)

-----------------------------------------------------------------------------
(* Cart *)

\* addItemToCart: the product is looked up first, the line written later.
StartAdd(w, p) ==
    /\ At(w, "idle") /\ stock[p] > 0
    /\ Become(w, [pc |-> "addLine", product |-> p])
    /\ UNCHANGED <<shop, saved, rabbit>>

AddLine(w) ==
    /\ At(w, "addLine")
    /\ cart' = cart \cup {worker[w].product}
    /\ Finish(w)
    /\ UNCHANGED <<stock, charged, saved, rabbit>>

\* product.deleted: its lines go.
ProductDeleted(p) ==
    /\ p \in cart
    /\ cart' = cart \ {p}
    /\ UNCHANGED <<stock, charged, saved, worker, rabbit>>

-----------------------------------------------------------------------------
(* createOrderFromCart *)

StartFromCart(w) ==
    /\ At(w, "idle") /\ cart # {}
    /\ Become(w, [pc |-> "check", todo |-> cart, lines |-> cart])
    /\ UNCHANGED <<shop, saved, rabbit>>

\* One request to the catalog per line; a missing piece ends it.
CheckStock(w, p) ==
    /\ At(w, "check") /\ p \in worker[w].todo
    /\ \/ stock[p] = 0 /\ Finish(w)
       \/ stock[p] > 0 /\ Become(w, [pc |-> "check", todo |-> worker[w].todo \ {p},
                                     lines |-> worker[w].lines])
    /\ UNCHANGED <<shop, saved, rabbit>>

\* The order is made in memory, and the stock reduced line by line.
MakeOrder(w) ==
    /\ At(w, "check") /\ worker[w].todo = {}
    /\ Become(w, [pc |-> "reduce", todo |-> worker[w].lines, taken |-> {}])
    /\ UNCHANGED <<shop, saved, rabbit>>

\* The catalog's reduce-stock is external: it may refuse, which ends the request.
ReduceUnanswered(w, p) ==  \* mutant: what the catalog answers is not looked at
    /\ At(w, "reduce") /\ p \in worker[w].todo
    /\ stock' = [stock EXCEPT ![p] = IF @ > 0 THEN @ - 1 ELSE @]
    /\ Become(w, [pc |-> "reduce", todo |-> worker[w].todo \ {p},
                  taken |-> worker[w].taken \cup {p}])
    /\ UNCHANGED <<cart, charged, saved, rabbit>>
ReduceStock(w, p) ==
    /\ At(w, "reduce") /\ p \in worker[w].todo
    /\ \/ /\ stock[p] > 0
          /\ stock' = [stock EXCEPT ![p] = @ - 1]
          /\ Become(w, [pc |-> "reduce", todo |-> worker[w].todo \ {p},
                        taken |-> worker[w].taken \cup {p}])
       \/ stock[p] = 0 /\ Finish(w) /\ UNCHANGED stock
    /\ UNCHANGED <<cart, charged, saved, rabbit>>

\* POST /payments: whatever it answers, the request ends there in an error.
Pay(w) ==
    /\ At(w, "reduce") /\ worker[w].todo = {}
    /\ \/ charged' = [p \in Products |->
                       IF p \in worker[w].taken THEN charged[p] + 1 ELSE charged[p]]
       \/ UNCHANGED charged
    /\ Finish(w)
    /\ UNCHANGED <<cart, stock, saved, rabbit>>

\* A call fails or the process dies between two awaits.
Die(w) ==
    /\ Faulty /\ ~At(w, "idle")
    /\ Finish(w)
    /\ UNCHANGED <<shop, saved, rabbit>>

-----------------------------------------------------------------------------
(* OrderService.create and the payments service's consumer *)

\* create: save the order,
Create(w, o) ==
    /\ At(w, "idle") /\ o \notin saved
    /\ saved' = saved \cup {o}
    /\ Become(w, [pc |-> "publish", order |-> o])
    /\ UNCHANGED <<shop, rabbit>>

\* then publish it; the queue is durable once the consumer has declared it, and
\* before that the exchange drops the message.
PublishCreated(w) ==
    /\ At(w, "publish")
    /\ msg' = [msg EXCEPT ![worker[w].order] = IF link = None THEN "dropped" ELSE "queued"]
    /\ Finish(w)
    /\ UNCHANGED <<shop, saved, link, consumer, processor, payments>>

\* onModuleInit of the payments process, the first time or after a restart.
StartConsumer ==
    /\ link # "open"
    /\ link' = "open" /\ consumer' = "registered"
    /\ processor' = [o \in Orders |-> "idle"]
    /\ UNCHANGED <<shop, saved, worker, msg, payments>>

\* The channel is lost: RabbitMQ requeues what is unacknowledged.
LoseLink ==
    /\ Faulty /\ link = "open"
    /\ link' = "closed" /\ consumer' = None
    /\ msg' = [o \in Orders |-> IF msg[o] = "unacked" THEN "queued" ELSE msg[o]]
    /\ UNCHANGED <<shop, saved, worker, processor, payments>>

\* reconnect() makes a new channel and registers no consumer on it.
Reconnect ==
    /\ link = "closed"
    /\ link' = "open"
    /\ UNCHANGED <<shop, saved, worker, msg, consumer, processor, payments>>

Deliver(o) ==
    /\ consumer = "registered"
    /\ msg[o] = "queued" /\ processor[o] = "idle"
    /\ msg' = [msg EXCEPT ![o] = "unacked"]
    /\ processor' = [processor EXCEPT ![o] = "create"]
    /\ UNCHANGED <<shop, saved, worker, link, consumer, payments>>

CreatePayment(o) ==
    /\ processor[o] = "create" /\ payments[o] < MaxPayments
    /\ payments' = [payments EXCEPT ![o] = @ + 1]
    /\ processor' = [processor EXCEPT ![o] = "answer"]
    /\ UNCHANGED <<shop, saved, worker, msg, link, consumer>>

\* An answer on a channel that did not deliver the message makes RabbitMQ close
\* it; the connection stays, so that nothing reconnects.
Deaf == link' = "deaf" /\ consumer' = None

\* payment.processed is published, which nobody consumes, and the message is
\* acknowledged.
Ack(o) ==
    /\ processor[o] = "answer" /\ link = "open"
    /\ processor' = [processor EXCEPT ![o] = "idle"]
    /\ IF msg[o] = "unacked"
       THEN msg' = [msg EXCEPT ![o] = "done"] /\ UNCHANGED <<link, consumer>>
       ELSE Deaf /\ UNCHANGED msg
    /\ UNCHANGED <<shop, saved, worker, payments>>

\* The callback fails: nack with requeue; on a closed channel that throws.
NackDropping(o) ==  \* mutant: the failure is logged and the message acknowledged
    /\ Faulty /\ processor[o] # "idle"
    /\ processor' = [processor EXCEPT ![o] = "idle"]
    /\ \/ msg[o] = "unacked" /\ msg' = [msg EXCEPT ![o] = "done"] /\ UNCHANGED <<link, consumer>>
       \/ /\ msg[o] # "unacked" /\ UNCHANGED msg
          /\ IF link = "open" THEN Deaf ELSE UNCHANGED <<link, consumer>>
    /\ UNCHANGED <<shop, saved, worker, payments>>
Nack(o) ==
    /\ Faulty /\ processor[o] # "idle"
    /\ processor' = [processor EXCEPT ![o] = "idle"]
    /\ \/ msg[o] = "unacked" /\ msg' = [msg EXCEPT ![o] = "queued"] /\ UNCHANGED <<link, consumer>>
       \/ /\ msg[o] # "unacked" /\ UNCHANGED msg
          /\ IF link = "open" THEN Deaf ELSE UNCHANGED <<link, consumer>>
    /\ UNCHANGED <<shop, saved, worker, payments>>

SagaNext ==
    \/ \E w \in Workers :
          \/ StartFromCart(w) \/ MakeOrder(w) \/ Pay(w)
          \/ AddLine(w) \/ PublishCreated(w) \/ Die(w)
          \/ \E p \in Products : StartAdd(w, p) \/ CheckStock(w, p) \/ ReduceStock(w, p)
          \/ \E o \in Orders : Create(w, o)
    \/ \E p \in Products : ProductDeleted(p)
    \/ \E o \in Orders : Deliver(o) \/ CreatePayment(o) \/ Ack(o) \/ Nack(o)
    \/ StartConsumer \/ LoseLink \/ Reconnect

SagaSpec == SagaInit /\ [][SagaNext]_sagaVars

-----------------------------------------------------------------------------
(* Properties *)

Request ==
    [pc : {"addLine"}, product : Products]
    \cup [pc : {"check"}, todo : SUBSET Products, lines : SUBSET Products]
    \cup [pc : {"reduce"}, todo : SUBSET Products, taken : SUBSET Products]
    \cup [pc : {"publish"}, order : Orders]

\* The services' rows, requests and messages have their types.
SagaTypeOK ==
    /\ cart \subseteq Products
    /\ stock \in [Products -> 0..Stock]
    /\ charged \in [Products -> Nat]
    /\ saved \subseteq Orders
    /\ worker \in [Workers -> Request \cup {AtRest}]
    /\ msg \in [Orders -> {None, "dropped", "queued", "unacked", "done"}]
    /\ link \in {None, "open", "closed", "deaf"} /\ consumer \in {None, "registered"}
    /\ processor \in [Orders -> {"idle", "create", "answer"}]
    /\ payments \in [Orders -> 0..MaxPayments]

\* Every charge of a cart is for pieces that this very request has taken off the
\* stock, although the stock it checked may have gone to another one since: of a
\* product, never more is charged than has left the stock.
NeverOversold == \A p \in Products : charged[p] <= Stock - stock[p]

\* RabbitMQ forgets an order only after a payment was created for it, however
\* the callback fails, the channel is lost under it and the service restarts.
AcknowledgedIsCharged == \A o \in Orders : msg[o] = "done" => payments[o] >= 1
=============================================================================
