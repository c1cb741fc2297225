-------------------------------- MODULE Cart --------------------------------
(***************************************************************************)
(* The lines and the totals of one cart, as concurrent requests change     *)
(* them.  Every operation writes its rows and then calls calculateTotals,  *)
(* which reads the cart again and saves it with its lines.                 *)
(*                                                                         *)
(* save() is TypeORM's (external): it loads the rows it is about to write, *)
(* compares, and in one transaction inserts what it did not find and       *)
(* updates what differs.  Lines it found that the saved cart lacks are     *)
(* detached, which the not-null cartId refuses.                            *)
(*                                                                         *)
(* A line is named after its product and variant and numbered, as ids are  *)
(* never used twice.  Prices belong to lines: a subtotal is known by the   *)
(* quantities it was summed from.                                          *)
(***************************************************************************)
EXTENDS Naturals, FiniteSets

CONSTANTS Requests,  \* concurrent requests on the cart
          ProductIds, Variants, NoVariant,
          Lines,     \* the lines that may ever be made
          MaxQty,    \* bound on quantities
          NaN,
          Faulty     \* may a request die between two awaits?

Kind == [product : ProductIds, variant : Variants \cup {NoVariant}]

ASSUME CartAssumption ==
    /\ NoVariant \notin Variants
    /\ Lines \subseteq [kind : Kind, copy : Nat]
    /\ MaxQty \in Nat \ {0}
    /\ NaN \notin Nat
    /\ Faulty \in BOOLEAN

VARIABLES
    quantity,  \* line -> quantity of its row, 0 without a row
    used,      \* the lines that were ever inserted
    summed,    \* the quantities behind the column subtotal
    total,     \* the column total: 0 or NaN
    request,   \* request -> its progress
    calm       \* has the last request run alone, and to its end? (history)

columns == <<summed, total>>
cartVars == <<quantity, used, columns, request, calm>>

Quantities == [Lines -> 0..MaxQty]
Empty == [l \in Lines |-> 0]
InCart(q) == {l \in Lines : q[l] > 0}

NoRequest == [pc |-> "idle"]
Others(r) == {s \in Requests \ {r} : request[s] # NoRequest}

CartInit ==
    /\ quantity = Empty
    /\ used = {}
    /\ summed = Empty
    /\ total = 0
    /\ request = [r \in Requests |-> NoRequest]
    /\ calm = TRUE

-----------------------------------------------------------------------------
RequestAt(r, pc) == request[r].pc = pc
Goto(r, progress) == request' = [request EXCEPT ![r] = progress] /\ UNCHANGED calm
Begin(r, progress) ==
    /\ RequestAt(r, "idle")
    /\ request' = [request EXCEPT ![r] = progress]
    /\ calm' = (Others(r) = {})

Recalculate == [pc |-> "calculate"]
\* A save of the lines in image, of the whole cart or of its one line.
Save(image, whole) == [pc |-> "load", image |-> image, whole |-> whole]

\* addItem: the look-up of a line to add to.  In a where clause TypeORM passes
\* over a null: without a variant, a line of any variant is found.
Matches(l, k) ==
    /\ l.kind.product = k.product
    /\ k.variant # NoVariant => l.kind.variant = k.variant
Fresh(k) == {l \in Lines \ used : l.kind = k}
Pending(k) == {s \in Requests : RequestAt(s, "insert") /\ request[s].kind = k}

FindItem(r, k) ==
    LET existing == {l \in InCart(quantity) : Matches(l, k)} IN
    /\ \/ /\ existing = {}
          /\ Cardinality(Pending(k)) < Cardinality(Fresh(k))
          /\ Begin(r, [pc |-> "insert", kind |-> k])
       \/ \E l \in existing :
             /\ quantity[l] < MaxQty
             /\ Begin(r, Save([Empty EXCEPT ![l] = quantity[l] + 1], FALSE))
    /\ UNCHANGED <<quantity, used, columns>>

InsertItem(r) ==
    /\ RequestAt(r, "insert")
    /\ \E l \in Fresh(request[r].kind) :
          /\ quantity' = [quantity EXCEPT ![l] = 1]
          /\ used' = used \cup {l}
    /\ Goto(r, Recalculate)
    /\ UNCHANGED columns

\* updateItemQuantity: the checks, then an update of the row if it is still there.
FindLine(r, l, q) ==
    /\ l \in InCart(quantity)
    /\ Begin(r, [pc |-> "set", line |-> l, quantity |-> q])
    /\ UNCHANGED <<quantity, used, columns>>

UpdateItem(r) ==
    /\ RequestAt(r, "set")
    /\ LET l == request[r].line IN
          quantity' = IF quantity[l] = 0 THEN quantity
                      ELSE [quantity EXCEPT ![l] = request[r].quantity]
    /\ Goto(r, Recalculate)
    /\ UNCHANGED <<used, columns>>

\* removeItem of a line it finds, clearCart of every line.
FindToRemove(r, lines) ==
    /\ lines = Lines \/ \E l \in InCart(quantity) : lines = {l}
    /\ Begin(r, [pc |-> "remove", lines |-> lines])
    /\ UNCHANGED <<quantity, used, columns>>

DeleteItems(r, next) ==
    /\ RequestAt(r, "remove")
    /\ quantity' = [l \in Lines |-> IF l \in request[r].lines THEN 0 ELSE quantity[l]]
    /\ Goto(r, next)
    /\ UNCHANGED <<used, columns>>
RemoveItemsOnly(r) == DeleteItems(r, NoRequest)  \* mutant: the totals are left as they are
RemoveItems(r) == DeleteItems(r, Recalculate)

\* applyShipping and applyCoupon write columns that the totals add, no line.
UpdateCart(r) ==
    /\ Begin(r, Recalculate)
    /\ UNCHANGED <<quantity, used, columns>>

\* calculateTotals: the cart with its lines is read,
Calculate(r) ==
    /\ RequestAt(r, "calculate")
    /\ Goto(r, Save(quantity, TRUE))
    /\ UNCHANGED <<quantity, used, columns>>

\* then save() loads what is there by now and compares,
Load(r) ==
    /\ RequestAt(r, "load")
    /\ LET image == request[r].image
           whole == request[r].whole
       IN  Goto(r, [pc |-> "store", image |-> image, whole |-> whole,
                    insert |-> InCart(image) \ InCart(quantity),
                    update |-> {l \in InCart(image) \cap InCart(quantity) :
                                    image[l] # quantity[l]},
                    detach |-> IF whole THEN InCart(quantity) \ InCart(image) ELSE {}])
    /\ UNCHANGED <<quantity, used, columns>>

\* The columns shippingAmount, taxAmount and discountAmount come back from the
\* database as strings: number + "0.00" + "0.00" joins them to something that
\* is no numeral, and - "0.00" makes NaN of it.
Total(image) == IF InCart(image) = {} THEN 0 ELSE NaN

\* and writes the difference.  The transaction fails, and the request with it,
\* when a row to insert is there again or a row to detach is still there.
Store(r) ==
    /\ RequestAt(r, "store")
    /\ LET q == request[r]
           written == q.insert \cup (q.update \cap InCart(quantity))
       IN  IF (q.insert \cup q.detach) \cap InCart(quantity) # {}
           THEN Goto(r, NoRequest) /\ UNCHANGED <<quantity, columns>>
           ELSE /\ quantity' = [l \in Lines |-> IF l \in written THEN q.image[l] ELSE quantity[l]]
                /\ summed' = IF q.whole THEN q.image ELSE summed
                /\ total' = IF q.whole THEN Total(q.image) ELSE total
                /\ Goto(r, IF q.whole THEN NoRequest ELSE Recalculate)
    /\ UNCHANGED used

Die(r) ==
    /\ Faulty
    /\ ~RequestAt(r, "idle")
    /\ request' = [request EXCEPT ![r] = NoRequest]
    /\ calm' = FALSE
    /\ UNCHANGED <<quantity, used, columns>>

CartNext == \E r \in Requests :
    \/ \E k \in Kind : FindItem(r, k)
    \/ InsertItem(r)
    \/ \E l \in Lines, q \in 1..MaxQty : FindLine(r, l, q)
    \/ UpdateItem(r)
    \/ \E lines \in {Lines} \cup {{l} : l \in Lines} : FindToRemove(r, lines)
    \/ RemoveItems(r)
    \/ UpdateCart(r)
    \/ Calculate(r)
    \/ Load(r)
    \/ Store(r)
    \/ Die(r)

CartSpec == CartInit /\ [][CartNext]_cartVars

-----------------------------------------------------------------------------
(* Properties *)

Progress ==
    [pc : {"insert"}, kind : Kind]
    \cup [pc : {"set"}, line : Lines, quantity : 1..MaxQty]
    \cup [pc : {"remove"}, lines : SUBSET Lines]
    \cup [pc : {"load"}, image : Quantities, whole : BOOLEAN]
    \cup [pc : {"store"}, image : Quantities, whole : BOOLEAN,
          insert : SUBSET Lines, update : SUBSET Lines, detach : SUBSET Lines]
    \cup {Recalculate, NoRequest}

\* Rows and columns have their types; a row in the cart was inserted once.
CartTypeOK ==
    /\ quantity \in Quantities
    /\ used \in SUBSET Lines
    /\ InCart(quantity) \subseteq used
    /\ summed \in Quantities
    /\ total \in {0, NaN}
    /\ request \in [Requests -> Progress]
    /\ calm \in BOOLEAN

\* Whatever races, failed saves and crashes left in the cart, the next request
\* that runs alone and to its end repairs the subtotal: it is then the sum of
\* the lines that are there.
CalmTotals ==
    calm /\ (\A r \in Requests : RequestAt(r, "idle")) => summed = quantity
=============================================================================
