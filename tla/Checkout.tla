------------------------------ MODULE Checkout ------------------------------
(***************************************************************************)
(* processCheckout: one tenant's carts become orders, and an order becomes *)
(* a charge at the gateway.                                                *)
(*                                                                         *)
(* A request is one POST /checkout/:cartId/process; a customer who tries   *)
(* again sends another.  Each await ends a step and there is no database   *)
(* transaction around them, so requests interleave at every statement with *)
(* each other, with edits of the cart and with midnight.  An order is      *)
(* named after the request that inserts it (a request inserts at most one).*)
(*                                                                         *)
(* Whoever edits the cart ends with calculateTotals, which saves the whole *)
(* row and the lines it read some awaits before; what it makes of the      *)
(* totals is in Cart.                                                      *)
(***************************************************************************)
EXTENDS Naturals, FiniteSets

CONSTANTS Requests,  \* the checkouts that are sent
          Edits,     \* the requests that edit the lines of a cart
          Carts,
          Items,     \* cart lines; an order's items are copies of them
          Physical,  \* the lines with requiresShipping
          LastDay,   \* bound on the days that pass
          Faulty     \* may a request die between two awaits, or an answer
                     \* of the gateway be lost?

ASSUME CheckoutAssumption ==
    /\ IsFiniteSet(Requests)
    /\ Physical \subseteq Items
    /\ LastDay \in Nat \ {0}
    /\ Faulty \in BOOLEAN

VARIABLES
    cart,     \* cart -> its lines
    columns,  \* cart -> which of its addresses are set, and whether isAbandoned is
    edit,     \* edit -> its progress
    day,      \* today
    order,    \* request -> the row it inserted in orders, or NoOrder
    charges,  \* requests whose order the gateway made a charge for
    request   \* request -> its progress

carts == <<cart, columns>>
vars == <<carts, edit, day, order, charges, request>>

Days == 1..LastDay
Addresses == {"shipping", "billing"}
Columns == Addresses \cup {"abandoned"}
NoNumber == [day |-> 0, seq |-> 0]
NoOrder == [number |-> NoNumber]
NoEdit == [pc |-> "unsent"]
Edited == [pc |-> "done"]
Placed == {r \in Requests : order[r] # NoOrder}

\* The carts are as earlier requests left them.
Init == /\ cart \in [Carts -> SUBSET Items]
        /\ columns \in [Carts -> SUBSET Addresses]
        /\ edit = [e \in Edits |-> NoEdit]
        /\ day = 1
        /\ order = [r \in Requests |-> NoOrder]
        /\ charges = {}
        /\ request = [r \in Requests |-> [pc |-> "unsent"]]

-----------------------------------------------------------------------------
(* Around the checkouts: the calendar and the customer.  The cart service   *)
(* never looks at isAbandoned.                                              *)

NextDay == /\ day < LastDay
           /\ day' = day + 1
           /\ UNCHANGED <<carts, edit, order, charges, request>>

\* Two updates of one column.
SetAddress(c) ==
    /\ \E a \in Addresses : columns' = [columns EXCEPT ![c] = @ \cup {a}]
    /\ UNCHANGED <<cart, edit, day, order, charges, request>>

EditGoto(e, progress) == edit' = [edit EXCEPT ![e] = progress]

\* A line is added, or one, all or (a change of quantity) none are removed.
EditCart(e, c) ==
    /\ edit[e] = NoEdit
    /\ \/ \E i \in Items : cart' = [cart EXCEPT ![c] = @ \cup {i}]
       \/ \E lines \in {{}, cart[c]} \cup {{i} : i \in cart[c]} :
             cart' = [cart EXCEPT ![c] = @ \ lines]
    /\ EditGoto(e, [pc |-> "calculate", cart |-> c])
    /\ UNCHANGED <<columns, day, order, charges, request>>

\* calculateTotals: the row is read with its lines,
Calculate(e) ==
    /\ edit[e].pc = "calculate"
    /\ LET c == edit[e].cart IN
          EditGoto(e, [pc |-> "load", cart |-> c, lines |-> cart[c], known |-> columns[c]])
    /\ UNCHANGED <<carts, day, order, charges, request>>

\* save() compares them with what is there by now,
Load(e) ==
    /\ edit[e].pc = "load"
    /\ LET q == edit[e]
           c == q.cart
       IN  EditGoto(e, [pc |-> "store", cart |-> c,
                        insert |-> q.lines \ cart[c], detach |-> cart[c] \ q.lines,
                        set |-> q.known \ columns[c], unset |-> columns[c] \ q.known])
    /\ UNCHANGED <<carts, day, order, charges, request>>

\* and writes the difference: old addresses come back, new ones go, the cart is
\* open again.  As a whole it fails on a line that is there again or still.
Store(e) ==
    /\ edit[e].pc = "store"
    /\ LET q == edit[e]
           c == q.cart
       IN  IF (q.insert \cup q.detach) \cap cart[c] # {}
           THEN UNCHANGED carts
           ELSE /\ cart' = [cart EXCEPT ![c] = @ \cup q.insert]
                /\ columns' = [columns EXCEPT ![c] = (@ \ q.unset) \cup q.set]
    /\ EditGoto(e, Edited)
    /\ UNCHANGED <<day, order, charges, request>>

EditDies(e) ==
    /\ Faulty
    /\ edit[e] \notin {NoEdit, Edited}
    /\ EditGoto(e, Edited)
    /\ UNCHANGED <<carts, day, order, charges, request>>

-----------------------------------------------------------------------------
(* processCheckout *)

At(r, pc) == request[r].pc = pc
Goto(r, pc) == request' = [request EXCEPT ![r].pc = pc]
\* What was read for the row is in the row, or no longer needed.
Settle(r, pc) == request' = [request EXCEPT ![r] =
                               [@ EXCEPT !.pc = pc, !.known = {}, !.number = NoNumber]]

\* The first read of the cart, and the payment method: an empty cart or an
\* unknown method refuses the request.  Only Asaas methods reach the gateway.
Start(r, c, asaas) ==
    /\ At(r, "unsent")
    /\ cart[c] # {}
    /\ request' = [request EXCEPT ![r] =
                     [pc |-> "read", cart |-> c, asaas |-> asaas,
                      items |-> {}, known |-> {}, number |-> NoNumber]]
    /\ UNCHANGED <<carts, edit, day, order, charges>>

\* createFromCart reads the cart again and checks what it will copy.
Orderable(items, known) ==
    /\ items # {}
    /\ items \cap Physical # {} => "shipping" \in known
    /\ "billing" \in known

ReadCart(r) ==
    /\ At(r, "read")
    /\ LET c == request[r].cart IN
          IF Orderable(cart[c], columns[c])
          THEN request' = [request EXCEPT ![r] =
                             [@ EXCEPT !.pc = "count", !.items = cart[c],
                                       !.known = columns[c] \cap Addresses]]
          ELSE Goto(r, "refused")
    /\ UNCHANGED <<carts, edit, day, order, charges>>

\* generateOrderNumber: the day and one more than the orders created in it.
CreatedOn(d) == {r \in Placed : order[r].created = d}

CountAllOrders(r) ==  \* mutant: the date range is missing from the count
    /\ At(r, "count")
    /\ request' = [request EXCEPT ![r] =
                     [@ EXCEPT !.pc = "insert",
                               !.number = [day |-> day, seq |-> Cardinality(Placed) + 1]]]
    /\ UNCHANGED <<carts, edit, day, order, charges>>
CountOrders(r) ==
    /\ At(r, "count")
    /\ request' = [request EXCEPT ![r] =
                     [@ EXCEPT !.pc = "insert",
                               !.number = [day |-> day, seq |-> Cardinality(CreatedOn(day)) + 1]]]
    /\ UNCHANGED <<carts, edit, day, order, charges>>

\* The insert; the unique index on the number refuses a number taken since.
TakenNever(number) == FALSE  \* mutant: the index is not unique
Taken(number) == \E s \in Placed : order[s].number = number

InsertRow(r, known) ==
    /\ At(r, "insert")
    /\ IF Taken(request[r].number)
       THEN Settle(r, "refused") /\ UNCHANGED order
       ELSE /\ order' = [order EXCEPT ![r] =
                           [number |-> request[r].number, created |-> day,
                            addresses |-> known, items |-> {}, transaction |-> "none"]]
            /\ Settle(r, "items")
    /\ UNCHANGED <<carts, edit, day, charges>>
InsertOrderRereading(r) ==  \* mutant: copies the addresses the cart has by now
    InsertRow(r, columns[request[r].cart] \cap Addresses)
InsertOrder(r) == InsertRow(r, request[r].known)

\* One insert per line.
AddItemUnawaited(r) ==  \* mutant: the loop does not wait for its inserts
    /\ At(r, "items")
    /\ \E i \in request[r].items \ order[r].items :
          order' = [order EXCEPT ![r].items = @ \cup {i}]
    /\ Goto(r, "abandon")
    /\ UNCHANGED <<carts, edit, day, charges>>
AddItem(r) ==
    /\ At(r, "items")
    /\ \E i \in request[r].items \ order[r].items :
          /\ order' = [order EXCEPT ![r].items = @ \cup {i}]
          /\ IF request[r].items = order[r].items \cup {i}
             THEN Goto(r, "abandon")
             ELSE UNCHANGED request
    /\ UNCHANGED <<carts, edit, day, charges>>

MarkAsAbandoned(r) ==
    /\ At(r, "abandon")
    /\ columns' = [columns EXCEPT ![request[r].cart] = @ \cup {"abandoned"}]
    /\ Goto(r, IF request[r].asaas THEN "charge" ELSE "done")
    /\ UNCHANGED <<cart, edit, day, order, charges>>

\* processAsaasPayment: charged and answered, charged and the answer lost, or
\* refused.  Without an answer the request fails; order and cart stay.
Charge(r) ==
    /\ At(r, "charge")
    /\ \/ /\ charges' = charges \cup {r}
          /\ Goto(r, "store") \/ (Faulty /\ Goto(r, "refused"))
       \/ Goto(r, "refused") /\ UNCHANGED charges
    /\ UNCHANGED <<carts, edit, day, order>>

\* updatePaymentStatus(PENDING, id), then the id in the first item's metadata.
StorePayment(r) ==
    /\ At(r, "store")
    /\ order' = [order EXCEPT ![r].transaction = "order"]
    /\ Goto(r, "metadata")
    /\ UNCHANGED <<carts, edit, day, charges>>

StoreMetadata(r) ==
    /\ At(r, "metadata")
    /\ order' = [order EXCEPT ![r].transaction = "item"]
    /\ Goto(r, "done")
    /\ UNCHANGED <<carts, edit, day, charges>>

Running(r) == request[r].pc \notin {"unsent", "refused", "done"}

\* The process dies, or a statement fails, between two awaits.
Die(r) ==
    /\ Faulty
    /\ Running(r)
    /\ Settle(r, "refused")
    /\ UNCHANGED <<carts, edit, day, order, charges>>

Step(r) == \/ ReadCart(r) \/ CountOrders(r) \/ InsertOrder(r) \/ AddItem(r)
           \/ MarkAsAbandoned(r) \/ Charge(r) \/ StorePayment(r) \/ StoreMetadata(r)

Next ==
    \/ NextDay
    \/ \E c \in Carts : SetAddress(c)
    \/ \E e \in Edits :
          \/ \E c \in Carts : EditCart(e, c)
          \/ Calculate(e) \/ Load(e) \/ Store(e) \/ EditDies(e)
    \/ \E r \in Requests :
          \/ \E c \in Carts, asaas \in BOOLEAN : Start(r, c, asaas)
          \/ Step(r)
          \/ Die(r)

Spec == Init /\ [][Next]_vars

\* A request that started runs on: the event loop serves every continuation.
FairSpec == Spec /\ \A r \in Requests : WF_vars(Step(r))

-----------------------------------------------------------------------------
(* Properties *)

Number == [day : Days, seq : 1..Cardinality(Requests)]
OrderRow == [number : Number, created : Days, addresses : SUBSET Addresses,
             items : SUBSET Items, transaction : {"none", "order", "item"}]
Progress == [pc : {"read", "count", "insert", "items", "abandon", "charge", "store",
                   "metadata", "done", "refused"},
             cart : Carts, asaas : BOOLEAN, items : SUBSET Items,
             known : SUBSET Addresses, number : Number \cup {NoNumber}]
Editing == [pc : {"calculate"}, cart : Carts]
           \cup [pc : {"load"}, cart : Carts, lines : SUBSET Items, known : SUBSET Columns]
           \cup [pc : {"store"}, cart : Carts, insert : SUBSET Items, detach : SUBSET Items,
                 set : SUBSET Columns, unset : SUBSET Columns]

\* The fields have their types; a sequence number never exceeds the number of
\* requests.
TypeOK ==
    /\ cart \in [Carts -> SUBSET Items]
    /\ columns \in [Carts -> SUBSET Columns]
    /\ edit \in [Edits -> Editing \cup {NoEdit, Edited}]
    /\ day \in Days
    /\ order \in [Requests -> OrderRow \cup {NoOrder}]
    /\ charges \subseteq Requests
    /\ request \in [Requests -> Progress \cup {[pc |-> "unsent"]}]

\* The number that generateOrderNumber gives next is always free, whatever
\* requests lost the race for theirs, died or inserted after midnight: so a
\* checkout refused by the unique index succeeds when it is tried again alone.
NextNumberFree ==
    \A r \in Placed :
        order[r].number.day = day =>
            order[r].number.seq <= Cardinality(CreatedOn(day))

\* The numbers of a day are sequential without gap or repetition, unless an
\* order of that day crossed midnight between its number and its insert.
NumberedOn(d) == {r \in Placed : order[r].number.day = d}
GaplessDays ==
    \A d \in Days :
        NumberedOn(d) = CreatedOn(d) =>
            {order[r].number.seq : r \in NumberedOn(d)} = 1..Cardinality(CreatedOn(d))

\* A customer is charged only for an order that is there with every line it
\* was made for, whatever became of the cart since; the id of a charge is stored
\* only when there is one.
ChargesAreBacked ==
    /\ \A r \in charges : r \in Placed /\ order[r].items = request[r].items
    /\ \A r \in Placed : order[r].transaction # "none" => r \in charges

\* An order has the addresses that its own lines need, although the customer
\* edits the cart between the reads of it, and the saves of overlapping edits
\* take addresses and lines away again and put old ones back.
OrdersAreShippable ==
    \A r \in Placed :
        /\ order[r].items \cap Physical # {} => "shipping" \in order[r].addresses
        /\ "billing" \in order[r].addresses

\* An order that was inserted gets all its lines, unless its request dies on the
\* way: the loop of createFromCart ends, whatever becomes of the cart it copies.
Complete(r) == r \in Placed /\ order[r].items = request[r].items
OrdersComplete == \A r \in Requests : r \in Placed ~> Complete(r) \/ At(r, "refused")
=============================================================================
