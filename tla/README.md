# Verification of the multi-tenant commerce back end

TLA+ models of the services and front ends in this repository, the TLC runs that
check them on small instances, and theorems about them that TLAPS proves for every
instance. `PROJECT.json` names, for every definition, the lines it is translated
from.

Contents: 1 the system, 2 how it is modelled, 3 the modules, 4 the runs,
5 what is proved, 6 what the models show of the code, 7 what is not modelled,
8 the plan.

## 1. The system

The repository holds NestJS services on PostgreSQL (TypeORM) under
`src/backend/microservices`, an older set of services joined by RabbitMQ under
`src/microservices`, shared client code under `src/shared`, and three front
ends. Browsers call the services through a stateless gateway; the services call
each other over HTTP behind a circuit breaker; the payment gateway Asaas is
called over HTTP and calls back through webhooks.

| component | state it keeps | operations | what is hard | what makes it correct | module |
|---|---|---|---|---|---|
| Circuit breaker `shared/communication/circuit-breaker.ts` | state, two counters, last failure, interval | execute, reset, destroy, the interval | calls admitted in one state settle in another | counters belong to the state; it gets out of OPEN; it is a circuit breaker | CircuitBreaker |
| Payments, transactions `payments/src` | rows of payments and transactions | process, refund, cancel, updateStatus | no database transactions; the gateway acts before the row is written | the books never claim what the gateway did not do; refunds are recorded | Payment |
| Payment webhook `webhook.controller.ts` | none | handleAsaasWebhook | late, repeated, reordered events; errors answered with 200 | books agree with the gateway in the end | Payment, Subscription |
| Subscriptions `subscription.service.ts` | rows of subscriptions | create, convert, change plan, cancel, renewals, trial endings | the gateway and the row change in two steps; a counter is read and written back | an active row is backed by its own subscription; both sides agree | Subscription |
| Checkout, order creation | carts, orders, items, numbers | processCheckout, createFromCart | eight awaits without a transaction; midnight; a cart edited meanwhile | numbers unique and sequential; charges only for complete orders | Checkout |
| Order life cycle | statuses, timestamps, refund | five updates, cancel, refund, webhook | check-then-write races; three status columns | statuses with their timestamps; refunds of paid orders | Order |
| Cart | lines, totals | add, update, remove, clear, shipping, coupon | the whole cart is saved from an earlier read | totals add up | Cart |
| Message broker `shared/communication/message-broker.ts` | connection, channel, attempts, handlers | connect, reconnect, publish, subscribe, disconnect | one outage seen by several callbacks; a channel that changed under a handler | it goes on trying; messages are not lost | MessageBroker |
| Order saga `src/microservices`, RabbitMQ service, event bus | orders, items, stock, payments, messages | create, createOrderFromCart, payment events, order.created | redelivery, calls without compensation, an order that is never saved | no more is charged than left the stock; no order is forgotten | OrderSaga |
| Authentication, tenants `auth/src` | tenants, users, tokens | register, login, refresh, logout, verify, reset, billing events | whole rows saved from an earlier read; tenant and owner in two steps | what was revoked stays so; tenants have owners; cancelled tenants are out | Auth |
| Login rate limiter | attempts per identifier | register, reset, remaining time | boundaries of count and time | a lockout starts, holds and ends | RateLimiter |
| Category tree, products, attributes `catalog/src` | rows and their references | create, move, remove, stock, import, defaults | two moves at once; stock written with the row read before | a forest; no dangling reference; hidden products stay hidden | Catalog |
| Administrators' portal | session, lists, dialogs | login, filters, pager, status changes | two copies of a list, effects after rendering | the copies agree; no page without a session stays | AdminPortal |
| Merchants' portal | session, lists, forms, addresses | edits, saves, reports | timers that outlive a rendering or a page | one default address; nothing saved is lost | MerchantPortal |
| Storefront | cart, filters, checkout forms | cart, coupon, freight, address | two slices of one cart, derived amounts | lines have pieces | Storefront |
| Shipping and payment methods, token service, gateways, HTTP client, deployment | - | - | - | - | section 7 |

How they meet: a **cart** becomes an **order** in processCheckout, which asks
**Asaas** for a charge and stores its id in the order; the gateway's webhook is
to tell the order that it was paid. The **payments** service does the same for
its own payments and subscriptions, and the **auth** service lets a tenant in or
keeps it out by the same gateway's events. Every outgoing call of the HTTP client
runs inside a **circuit breaker**. The older services replace some of these calls
by messages (**broker**, **event bus**). The front ends, as they are, work on
sample data of their own: of the services they call the two logins alone.

## 2. How it is modelled

*Steps.* Node runs one callback at a time and gives up control only at an
`await`. So the code between two awaits is one action, and everything else may
run between two actions of a request: other requests, webhooks, the interval,
midnight. A request is a record whose `pc` is the await it stands at and whose
other fields are the local variables it will still use. None of the handlers
uses a database transaction, so each statement is a step of its own. A handler
that reads and then writes without letting what it read influence the write is
one step. In a browser the same holds of event handlers, timers and effects: a
page is a record of its state, made anew when it is entered.

*Failures.* Where `Faulty` is TRUE a request may die at any await (`Die`: the
process ends, or a statement is refused), and the gateway may act while its
answer is lost. Payment has three constants instead: `Mortal`, the operations whose
requests may die so or lose an answer, and `Ordered` and `Repeated` for the events.
In Auth any request may be cut off (`CutOff`), in MessageBroker and OrderSaga
connections and channels are lost.

*External parts*, modelled from how the code uses them:
- Asaas: statuses, which charges can be refunded and cancelled, subscriptions, one
  event per change of status. Nothing in the code keeps its events in order or
  free of duplicates, so where a run asks what the code can do by itself they are not.
- RabbitMQ: durable queues, delivery tags that count per channel, redelivery of
  what a lost channel left unacknowledged, a channel that is closed by an
  acknowledgement it does not know.
- TypeORM: `save()` reads the rows it is about to write, compares, and writes the
  difference in one transaction (`Cart!Load`, `Cart!Store`); an undefined property
  is left alone; a null in a where clause is passed over. `update()` of a column the
  entity does not have is refused. A repository's `create()` builds an entity in
  memory and saves nothing, and there is no `findById` in it. Decimal columns come
  back from the driver as strings.
- The unique indices and the foreign keys.
- The browser's history, cookies and timers.

*Data.* Ids are model values. Money is kept where a property tells amounts apart
(refund against total, the summary of the storefront) and otherwise left out; a
cart's subtotal is known by the quantities it was summed from, so "the subtotal is
right" is an equation between two functions and no arithmetic. A row is the
columns its properties are about; of several text fields of a form one is kept.

*Input over HTTP.* Each service's `main.ts` installs a ValidationPipe with
`whitelist` and `forbidNonWhitelisted`, while the DTO classes carry no decorators,
so that a body with any field is refused as it stands. The models take the
operations of the services as they are called with the DTO's fields.

*Histories.* Variables that record the past and that no guard of the code's
behaviour reads are marked (history) where they are declared.

## 3. The modules

**CircuitBreaker** - one action per callback: `Execute` (up to the await),
`Succeed` and `Fail` (the continuations), `Monitor` (the interval), `Reset`,
`Destroy`, and `Tick`. Only `Date.now() - lastFailureTime` is ever used, so that
difference is the variable `sinceFailure`, cut off one past the timeout; each
call in flight has an age, at most `CallTimeout` (the axios timeout).
**Breaker** says what a circuit breaker promises, without clocks and counters:
a run of failures opens it, only a quiet period lets probes through, a run of
good probes closes it. **CircuitBreakerRefines** has the refinement mapping.

**Payment** - `CreateCharge`, `InsertPayment`, `InsertTransaction`
(processPayment, create); `StartRefund`, `GatewayRefund`, `InsertRefund`
(refundPayment); `StartCancel`, `GatewayCancel` (cancelPayment); `ReadPayment`,
`WritePayment`, `WriteTransaction` (updateStatus, which the others call);
`ReceiveEvent` (the webhook); `GatewayAdvances` (the customer pays or is late).
A cancellation ends after updateStatus, with an error where a reason was given:
the update of cancelReason names a column that the entity does not have.

**Subscription** - the same service's subscriptions: `StartCreate`/`StartConvert`,
`GatewayCreate`, `StoreActive`, `GetInvoices`, `InsertPayment`, `CountFirst`;
`StartCancel`, `GatewayCancel`, `CancelRow`; `StartChange`, `GatewayUpdate`,
`ChangeRow`; `StartRenewals`, `RenewRow`; `CreateTrial`, `EndTrial`; the
SUBSCRIPTION_* events (`ReceiveEvent`, `WriteDeleted`) and what Asaas does by
itself (`GatewayDeletes`, `GatewayRenews`). The row and its subscription at the
gateway meet in the request that carries the latter's id.

**Checkout** - one request is one POST to processCheckout: `Start`, `ReadCart`,
`CountOrders`, `InsertOrder`, `AddItem`, `MarkAsAbandoned`, `Charge`,
`StorePayment`, `StoreMetadata`; around it `SetAddress`, `NextDay` and the edits of
the cart. An edit changes the lines (`EditCart`), reads the whole cart (`Calculate`),
and saves it (`Load`, `Store`): the row of an earlier moment, so that it may put
back lines, take addresses away again, and set isAbandoned to what it was. The
carts are at first in any state that earlier requests leave.

**Order** - one order after its creation: the repository's updates as operators
(`SetStatus`, `SetPayment`, `SetFulfillment`), the handlers that call them as
actions, `CancelOrder`/`WriteCancel` and `RefundOrder`/`WriteRefund` in two steps
each, `StorePaymentId` (the late write of processCheckout) and
`HandleAsaasWebhook`.

**Cart** - one cart's lines and totals: `FindItem`/`InsertItem` (addItem),
`FindLine`/`UpdateItem`, `FindToRemove`/`RemoveItems` (removeItem, clearCart),
`UpdateCart` (shipping, coupon), then for each of them `Calculate`, `Load`,
`Store` (calculateTotals).

Checkout and Order meet in the order's row: Checkout ends where the charge's id
is stored, Order begins with that write still to come (`storing`). Cart hands
Order its total: 0 or NaN, the two values of `Order!Totals` in the runs. They are
not composed in one state space; each interface is a value that the one module
produces and the other starts from.

**MessageBroker** - one service's broker object, its successive connections and one
topic. The awaits of connect() are `Dial`, `CreateChannel`, `Connected` (or
`ConnectFails`), with `Reconnect` called by whatever notices the outage; `Timer` is
its timeout, `Lose` the end of a connection with the one or two events the
code listens to (`listening`: the connections it has put its listeners on).
`OnMessage` registers a handler; the awaits of subscribe() are `StartSubscribe`,
`QueueDeclared` and `QueueBound`, each on the channel the object has by then, those
of disconnect() `Disconnect`, `ChannelClosed` and `ConnectionClosed`. What is sent
on an open channel RabbitMQ does at once, and its answer is the next step; a
connection lost between the two leaves the caller waiting for ever. `Publish` and
`PublishConnects` send, `Deliver` and `Answer` are a message's way through the
handlers to the acknowledgement - on the channel the object has by then.

**OrderSaga** - the older checkout and payments services with the RabbitMQ service
(order.created, with requeueing) between them: `StartAdd`, `AddLine`,
`ProductDeleted` (the cart); `StartFromCart`, `CheckStock`, `MakeOrder`,
`ReduceStock`, `Pay` (createOrderFromCart, whose order exists in memory only);
`Create`, `PublishCreated` (OrderService.create, which saves it); `StartConsumer`,
`Deliver`, `CreatePayment`, `Ack`, `Nack`, `LoseLink`, `Reconnect` (the consumer).
`Pay` is the end of every request: whatever the payments service answers, the code
goes on to updateOrderStatus, whose findById is no function, and ends in an error.

**Catalog** - the rows of one tenant and the references between them. A worker
serves one kind of request (`serves`), so that every pair of kinds meets: moves of
categories walk up the tree one read per step (`FindTarget`, `Walk`, `WriteMove`),
removals count products, read children, hand them over and delete
(`CountProducts`, `ReadChildren`, `Reparent`, `DeleteCategory`); stock writes read
and save a whole row (`ReadStock`, `SaveStock`); the import and the default
attributes insert several rows at once.

**Auth** - tenants and users. A save of a password is `ReadAgain` and
`SavePassword`, since TypeORM writes the columns that differ from what it
reads; registration is `CheckEmail`, `InsertTenant`, `InsertUser`; what lets a
request in is `Served` and `RefreshAccepted`. **RateLimiter** - the limiter of
logins, each method one step, with a clock.

**AdminPortal**, **MerchantPortal**, **Storefront** - one browser tab each: the page
shown, its local state, the store, the cookie, and what pages that were left will
still do (`portalLate`, `storeLate`). Every page that keeps state is there: its
load (an effect and a timer), the handlers of its buttons and fields, and the
conditions under which the page shows them. The effect that computes the summary of
the storefront's cart is a step of its own (`RecalculateSummary`), so a click may
come before it and find the former amounts.

The MC modules give TLC its symmetries. MCAuth and MCFrontends put modules that
share nothing side by side: a behaviour is one of the one or one of the other.

The proof modules, eight of them, are listed in section 5. Where one EXTENDS two
components, their definitions have different names: `SagaSpec` beside `Spec`,
`CartTypeOK` beside `TypeOK`, and so on.

## 4. The runs

| run | instance | states | what it shows |
|---|---|---|---|
| `breaker` | 3 callers, both thresholds 2, ResetTimeout 1, CallTimeout 3, fair | 16 thousand | each counter belongs to the state; OPEN is left; implements Breaker |
| `payment_faulty` | 1 charge, 2 refund ids, 2 requests, events reordered and repeated, deaths, lost answers | 1.6 million | no status or refund transaction without its evidence at the gateway |
| `payment_live` | the same, events in order and once and handled to their end, all other requests die or lose answers, fair | 35 thousand | a quiet service agrees with the gateway; a refund at the gateway ends in the books for good, though the request for it died |
| `checkout` | 2 requests on 1 cart with up to 2 lines (one to be shipped), 1 edit, 2 days, faults, fair | 1.7 million | next number free; days gapless; charges only for complete orders; orders shippable; orders get complete |
| `order_statuses` | 2 cancel/refund requests among all handlers | 1.0 million | statuses keep timestamps; refunds are of orders once paid |
| `cart` | 2 requests, 3 lines (two without, one with variant), quantities to 2, deaths | 2.6 million | a request that runs alone leaves the right subtotal, whatever came before |
| `subscription` | 1 row, 2 subscriptions at the gateway, 2 requests, 2 renewals, events in any order, deaths, lost answers | 3.4 million | an active row is backed by its own subscription; undisturbed rows agree with the gateway; overlapping counts add up to no more than there were |
| `message_broker` | 1 message, 2 attempts, 2 connections that may both be lost, 2 handlers, one disconnect, fair | 0.8 million | there is a connection or another try to come; the first connection loses nothing; service recovers |
| `order_saga` | 2 orders, 2 products with one piece each, 2 requests, 2 payments of an order, deaths, lost channels | 0.43 million | no cart is charged for a piece another request took; no order's message is forgotten before its payment |
| `catalog` | 3 categories (2 at the start), 1 product, 3 attributes, 2 requests of any two kinds | 1.5 million | no dangling reference; a forest unless two writes overlap; hidden products are not sold; default attributes stay |
| `auth` | 2 tenants, 2 users, 2 requests of any two kinds, cut off anywhere; limiter with 3 attempts, lockout 2, time to 6 | 0.2 million | cleared tokens do not come back by themselves; tenants have owners; guarded requests of cancelled tenants are refused; lockouts start, hold and end |
| `frontends` | one tab on one of the three front ends: 2 rows, 1 per page, 3 addresses, stock 2, one timer of a left page at a time | 0.76 million | lists, addresses, report and cart lines stay consistent; no page without a session stays |

**Why the bounds are enough.**
- Breaker: two thresholds of 2 tell "one of several" from "the last one"; three
  callers give two stragglers beside a probe; a call may live longer than the
  reset timeout, so calls admitted in CLOSED settle in OPEN, in HALF_OPEN and
  in the next CLOSED. In the shipped configuration (timeout 5 s beside reset
  10 s) that cannot happen: theorem `OnlyProbesHalfOpen`.
- Payment: no action reads two charges except for the uniqueness of refund ids,
  so one charge has every race; two requests is the least that interleave, and
  with deaths and repeated events any number follow one another.
- Checkout: the second request is the other of a race and, after the first died,
  the retry. Two days have one midnight, which can fall into any gap. The two
  lines differ in whether they need an address and make the item loop a loop. One
  edit is enough to put an old row back over any step of a request, and the carts
  start in every state that edits before it could have left.
- Order: an amount above and not above the total, since a total is 0 or NaN.
- Cart: two inserts of one product, a line removed and inserted again, and a
  line of another variant need three lines.
- Subscription: no action but the renewals reads two rows; two subscriptions at the
  gateway are what two conversions of one trial make, and two renewals are one
  lost update.
- MessageBroker: the second attempt is the last, so that "one left" and "none left"
  both occur; two connections are the first and the one after a loss or beside it,
  and the second may be lost as well, so that the attempts run out. `Recovers` asks
  nothing once both numbers are used and lost, where the model can make no third.
- OrderSaga: two requests for one piece are a race for stock; two products make the
  loop of updates a loop that can end in its middle; two payments are what one
  redelivery makes of an order.
- Catalog: two moves of two categories can close a cycle without either being wrong
  when it looked; a third category, created meanwhile, makes walks of two steps and
  a child that a removal hands over.
- Auth: two tenants because a registration and a billing event meet over one and
  leave the other; a second login or reset is what the first must survive.
- RateLimiter: three attempts tell the last from the others, and the clock runs long
  enough for a lockout, its end and a second one.
- Front ends: two rows at one per page make two pages and a filter that shortens the
  list; a stock of two tells "one more" from "too many"; page numbers run one past
  what the buttons offer.
- The theorems of section 5 have no bounds at all.

**Fairness.** `WF` on a request's next step: the event loop serves every
continuation, and a call of the gateway or database that gets no answer ends in an
error by its timeout. In Checkout a request that died takes no more steps, so
nothing is promised of it; in Payment it leaves its worker free, and `RefundSettles`
promises that the webhook makes up for it. `WF` on Monitor and Tick: an installed
interval fires and time passes. `WF` on a call settling: its socket times out. `SF`
on the delivery of an event: Asaas repeats until it is answered, and "a slot is
free" is the model's bound, not the service's, so it may come and go. In
MessageBroker `WF` on the steps of connect() and on the timer, for the same reasons,
and none on subscribe() and disconnect(), which may wait for ever; that RabbitMQ
comes back and stays is a premise of `Recovers`, not fairness. In AdminPortal `WF`
on the effect that looks for a session, which the browser runs after it has
rendered. Nothing is assumed of customers, who may never pay, edit, click or call
again.

**Deadlock** is checked, except in the runs of Payment, Subscription and Auth: there
everything may be refunded, cancelled or locked and nothing be left to do.

**Symmetry** is used in runs that check invariants only.

**Mutants.** For each property a plausible bug in the mapped code (an off-by-one,
a lost guard, an unawaited loop, a date range forgotten, an option read in the
wrong unit) that TLC then finds to violate it; they stand beside the definitions.

**Type invariants.** Where a theorem states it for every instance (section 5), the
type invariant is not checked again by a run, Catalog excepted, whose `TypeOK` also
says that no reference dangles. The proofs about the front ends type a page by the
names of its fields, as far as their properties need it.

## 5. What is proved

TLAPS proves the following for any number of callers, requests, charges, lines,
days, rows, products and messages, for any thresholds, timeouts and amounts, and
with faults or without. Every safety property that a run checks is among it. The
theorems of a component are in the module named first; related components share one.

| proof module | about | theorems that state what a run checks |
|---|---|---|
| CommunicationProofs | CircuitBreaker, MessageBroker | CountersCorrect, Refinement, NeverWaitsForNothing, FirstConnectionDelivers |
| PaymentProofs | Payment | NeverPhantom, RefundsCorrect, QuietServiceAgrees |
| CheckoutProofs | Checkout | NumberAlwaysFree, NumbersGapless, ChargesCorrect, OrdersCanBeShipped |
| OrderProofs | Order, OrderSaga | StampsAlwaysMatch, RefundsAlwaysPaid, ChargedFromStock, NoOrderForgotten |
| ShopProofs | Catalog, Cart | CatalogTypeCorrect, HiddenNotSold, DefaultsKeptForGood, ForestStays, CalmCartsAddUp |
| SubscriptionProofs | Subscription | ActiveAlwaysBacked, UndisturbedAgrees, TotalsStayWithin |
| AuthProofs | Auth, RateLimiter | TokensStayDead, OwnersFound, CancelledNeverServed, LockoutEnforced |
| FrontendProofs | AdminPortal, MerchantPortal, Storefront | ListsStayAlike, PagesHaveRows, DefaultIsSingle, AddressesStay, ReportsSettle, PiecesArePositive |

Few of these properties are inductive. What each proof adds says what the code
relies on without saying so, and is the most useful thing to read in it.

*Circuit breaker* (from `BreakerAssumption`: finite callers, positive
thresholds). `FieldsInv` = TypeOK, CountersMatchState and HalfOpenIsQuiet is
inductive as it stands, since each handler's writes depend on state and counters
only: `TypeCorrect`, `CountersCorrect`, `HalfOpenQuiet`. `StragglersOld` needs a
relation between the two clocks: while OPEN, every call in flight is at least as
old as the last failure (`OlderThanLastFailure`), because none is admitted and a
failure only makes the last failure younger. `OnlyProbesHalfOpen` follows for
CallTimeout <= ResetTimeout. `StragglersCounted` counts: each late failure takes
one from the calls in flight. `Refinement` is the step simulation: `run` is the
counter of the current state, `quiet` is sinceFailure > ResetTimeout.

*Message broker.* `KeepsTrying` needs one more fact: when the last await of
connect() returns, the service has that connection and its channel (`ChannelIsNew`),
unless it was told to disconnect, which sets both to null under it.
`FirstConnectionLosesNothing` fails when a message is acknowledged on another
channel than its own; with one connection there is one channel (`UsedSound`), and
there a tag belongs to one message (`TagsSound`).

*Payments.* `NoPhantomStatus` is not inductive: a request that is about to
write, or an event on its way, could write anything. `BooksInv` adds that each
event under way and each request past its gateway call already has evidence for
what it will write (`Justified`); the gateway never takes evidence back
(`GatewayMoves`). Order and number of deliveries play no role in that argument,
which is why it survives reordering and duplication. In `SettledAgreement` they
are everything (`Dependable`), while deaths of the other requests are none of its
concern: the last event under way for a charge is the true
one (`LastEventsTrue`), once none is under way the webhook that handles the
charge carries the true one (`HandledTrue`), and a row that differs has one of
the two still to come (`RowsFollow`). What makes it delicate is the charge whose
row is not there yet: its events are missed, which `RowlessTold` and
`InsertsFresh` account for.

*Checkout* (from `CheckoutAssumption`: finitely many requests). `CheckoutInv`
says of each request what it has left in the database at its `pc`
(`Consistent`), in particular that a number still to be inserted is at most one
above the count of its day; with `UniqueNumbers` (the index) and
`CountedNumbers` that gives `NumberAlwaysFree`. `NumbersGapless` is a
pigeonhole: n different numbers in 1..n are all of them. `ChargesCorrect` and
`OrdersCanBeShipped` are read off `Consistent`, which says of the lines and addresses
a request has copied, and of its order, that they suit one another (`Orderable`).
Nothing is said there of the cart, which an edit may save over at any step.
`CheckoutTypeCorrect` bounds the sequence numbers.

*Orders.* TypeOK, StampsMatch and RefundsWerePaid are inductive together
(`IInv`): a stamp is never taken away, so what a refund request once read of the
payment status stays witnessed by the stamp.

*Order saga.* For `NeverOversold`: the pieces charged and those that requests hold
beyond them have all left the stock (`StockInv`); a charge moves a piece from the
one to the other. For `AcknowledgedIsCharged`: a callback that has come to its
answer has made its payment (`ForgottenInv`).

*Catalog.* `TypeOK` is about references: it follows from the foreign keys and
from what each worker holds being rows that were there. `HiddenStaysHidden` needs
that a stock write saves the flags of a product as hidden as it was read when that
was after the hiding (`SavesHidden`); `DefaultsStay` that a removal under
way is of an attribute of the tenant's own (`RemovesOwn`) and that codes are
unique (`CodesUnique`), so that what was inserted as a default cannot be replaced.
`NoCycle` is about paths, yet is proved without induction over them: a forest is
said as "every set of categories has one whose parent is outside it" (`Acyclic`), and
what a walk up the tree has seen as a set of categories that is closed under parents
up to where the walk stands, and leaves the moved category out (`Trail`,
`Careful`). Each step of the walk makes that set larger by one; the end of the walk
closes it; and hanging a category below a set it is not in closes no cycle
(`GraftingKeepsAcyclic`).

*Cart.* `TypeInv` adds to CartTypeOK that what a save will insert was in its
image and inserted once before (`Known`). `CalmInv`: in a calm cart at most one
request is under way (`Lone`), and its save meets the rows it read
(`Undisturbed`), hence inserts and detaches nothing.

*Subscriptions.* `ActiveIsBacked` is not inductive: a request stores the id it
carries over several awaits, so that id must already belong to a subscription the
gateway made for the row (`Carried`), and the gateway forgets none
(`GatewayGrows`). `TotalWithinCounts` likewise needs that the total a renewal
has read, and will write back plus one, is none too large (`SnapshotsSound`); it
may be too small, which is the lost update the code really has.
`UndisturbedAgrees` says for each await of a row's only request in what row and
gateway differ there (`Stage`), that a free row agrees (`Agrees`), and that events
of deletions are told of subscriptions that are gone (`DeletionsTrue`).

*Authentication.* `CancelledNotServed` needs little: a cancelled tenant has its row,
so no registration makes it anew (`OutInv`). `TenantsHaveOwners` needs that the
address a registration has looked up is still free when it inserts its user, or
was contested by another registration (`AddressFree`, `OnePerAddress`), and that a
password saved with a stale row never moves a user to another tenant
(`RowsAgree`). `CancelledNotServed` speaks of guarded requests only, and
`NothingRevived` lets a login store the very token that a logout of the same second
cleared. The latter needs that a save nobody overtook writes the row as
it is (`SaveIsCurrent`), and that a reset token about to be stored is neither spent
nor held by anybody (`FreshResets`), which is where the randomness of the tokens
comes in: they are numbered as they are made.

*Login rate limiter.* The run of attempts an identifier is in are the last ones of
those let through, and the one before them is at least a lockout older (`RunOK`).
So among any `Limit` + 1 attempts in a row the first belongs to an earlier run than
the last, and a lockout lies between them.

*Administrators' portal.* `ListsInv`: both lists have the rows a filter can leave,
and the pager is within the pages of the filtered list. That such a page has a row
is arithmetic (`PagesFit`) and a count: among finitely many row numbers there is
one of every rank (`RankReached`, by a bijection with an interval).

*Merchants' portal.* A save puts the customer of its click back, so the list it
carries must be as good as the one on the screen, now and after everything that may
happen until it answers (`CustomerInv`, `GoodList`); and an open dialog covers the
page, so the address it was opened for is still there when it is saved, if no save
was under way (`DialogInv`). `ReportInv`: the last fetch pending is the one of the
range chosen last.

*Storefront.* `StoreInv`: lines have pieces, and so has the choice of the product
page that may become a line.

**Only model-checked:** liveness (`OpenIsLeft`, `RefundSettles`, `OrdersComplete`,
`Recovers`, `AdminPagesNeedLogin`), which is out of the prover's reach, as is
ENABLED. Breaker states safety only, so `Refinement` is all of `ImplementsBreaker`.

## 6. What the models show of the code

The models keep the code's behaviour where it surprises. None of the following is
checked by a run; each is behaviour of a definition and can be read at the lines
`map` gives it.

*Payments.* `payment.service.ts:97` announces an "Update transaction status based on
payment status"; the strings written are not in the column's enum and the
transaction stays pending. A cancellation with a reason cancels at the gateway and
in the row and then fails (`payment.service.ts:238`). The webhook's look-up passes
the gateway's customer id as tenant id (`webhook.controller.ts:59`).

*Checkout and orders.* "Prevent further modifications" (`order.service.ts:147`) sets
isAbandoned, which nothing that changes a cart reads, and which the save of an edit
begun before sets back, as it does with the addresses (`cart.repository.ts:154`). A
checkout tried again after a lost answer makes a second order and a second charge,
as do two that overlap; no property claims otherwise. The order webhook searches
with tenantId NULL (`checkout.service.ts:264`) and so never gets past its look-up;
an order learns of its payment through `PUT :id/payment-status` alone. "Only paid
orders can be refunded" (`order.service.ts:270`) is checked one await before the
write. A cancellation may overwrite a delivery; the late `StorePaymentId` sets a
paid order back to payment pending.

*Cart.* `calculateTotals` adds a decimal string to a number, subtracts, and gets NaN
(`cart.entity.ts:112`), as long as a freight or discount is set. Two concurrent
adds may make two lines, or count once; a product without a variant is added to a
line of any variant (`Matches`).

*Subscriptions.* Two conversions of one trial make two subscriptions at the gateway,
of which the row keeps the last. A cancellation that fails between gateway and row
leaves the row active. processTrialEndings changes nothing. One renewal is counted
twice, by processRenewals and by its event, and again by an event that comes again.

*Messages.* A message whose handler outlives its channel is acknowledged on another
(`message-broker.ts:196`), which RabbitMQ answers by closing that one. Handlers
registered before the first connection are subscribed only by a reconnection. The
RabbitMQ service registers no consumer again after it has reconnected
(`rabbitmq.ts:36`). A disconnect() that waits for a close sets to null whatever
connection was made meanwhile (`message-broker.ts:249`), which nobody then closes.

*Order saga.* createOrderFromCart calls `create` where it would have to save
(`order.service.ts:102`), and its updates of the status call `findById`, which is no
function. So every such request ends in an error: the stock is reduced, the payments
service was asked, the cart is full as before, and the customer who tries again is
charged again. A redelivered order.created makes a second payment. The class of
`orderItemRepository` is declared nowhere; it is taken for a repository of TypeORM.

*Catalog.* "Prevent circular references" (`category.service.ts:74`) holds for one
move, not for two that overlap, nor for a move beside a removal. A product removed
during a stock write comes back. One doubled slug fails a whole batch of an
import. `@Put('sort-order')` and `@Get('with-product-counts')` come after `:id` and
are never reached; `where {parentId: null}` is passed over by TypeORM.

*Authentication.* The end of a trial is never looked at. A registration that fails
half-way leaves a tenant without owner and its subdomain taken. A refresh token is
good though its user was made inactive, its tenant cancelled or its password reset.
A late PAYMENT_CONFIRMED lets a cancelled tenant in again, and a late
PAYMENT_OVERDUE makes its status pending_payment, with which its users log in and
get tokens (`auth.service.ts:41`), though the guard refuses what they ask for. A
reset token serves twice when two resets overlap. Two logins within a second share a
token. The limiter locks at the last attempt it was to allow, and nothing calls it.

*Administrators' portal.* Logging out shows a message and does no more. A cookie
does not restore a session after a reload. A filter chosen while the list loads is
forgotten when it has loaded; a row stays listed after its status has changed;
"Próximo" goes on where there are no pages.

*Merchants' portal.* The login reads `token` where the service answers
`accessToken`, and no page asks for a session. "Desativar" saves the form's former
status. Saving a customer undoes changes made to the addresses meanwhile. A form
left before its timer still redirects. Statistics are not computed again.

*Storefront.* The payment page uses a constant before its declaration
(`pagamento/page.tsx:81`) and throws on every rendering, so no order can be
completed. There are two cart slices of one name: the quantities on `/carrinho` do
not change and totals are NaN. The product page shows one product whatever its id;
adding it raises another line's quantity at that line's price. A discount survives
the lines it was computed from, so a total may be negative. The confirmation
empties the cart whenever it is entered.

## 7. What is not modelled, and why

- Queries, statistics, exports: they change nothing.
- Payments: manual transactions, split amounts, timestamps.
- Orders: the statuses of single items, admin notes.
- Cart: findOrCreateCart, deleteCart, startCheckout, the price that
  applyShippingMethod computes; addresses and the abandoned mark are in Checkout.
- `reset()` in CLOSED and `execute()` in OPEN change nothing and are stutters.
- RabbitMQ service: what the order saga uses of it. Event bus: its product.deleted
  alone; the handlers of payment events in the order service reject before they have
  changed anything, since they begin with findById.
- Shipping and payment method records: single-row changes; prices are arithmetic.
- The token service stores nothing, and its controller is a fragment.
- Gateways, HTTP client, logging, deployment: no state of their own that a
  property could be about (the client's timeout is `CallTimeout`).
- Front ends: search boxes, sort orders, static pages, menus.

## 8. The plan

What is left, in order of importance:

1. findOrCreateCart beside Cart; an abstract cart that Cart implements when requests
   do not overlap.
2. Cart, Checkout and Order in one state space, on an instance smaller than any of
   the three.
3. Freight prices as a pure function with its laws.

Runs are kept few: where several questions fit one instance they share a run.
