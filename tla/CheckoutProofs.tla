-------------------------- MODULE CheckoutProofs ---------------------------
(***************************************************************************)
(* Proofs about Checkout: for any number of concurrent checkouts, with or  *)
(* without faults and whenever midnight comes.                             *)
(***************************************************************************)
EXTENDS Checkout, FiniteSetTheorems, TLAPS

LEMMA CountBound ==
    ASSUME NEW S \in SUBSET Requests
    PROVE  /\ IsFiniteSet(S)
           /\ Cardinality(S) \in 0..Cardinality(Requests)
  BY CheckoutAssumption, FS_Subset, FS_CardinalityType

\* A set that misses a request is smaller than the whole.
LEMMA CountRoom ==
    ASSUME NEW S \in SUBSET Requests, NEW r \in Requests, r \notin S
    PROVE  /\ Cardinality(S) + 1 \in 1..Cardinality(Requests)
           /\ Cardinality(S \cup {r}) = Cardinality(S) + 1
<1>1. S \cup {r} \in SUBSET Requests
  OBVIOUS
<1>2. Cardinality(S \cup {r}) = Cardinality(S) + 1
  BY CountBound, FS_AddElement
<1>3. QED
  BY <1>1, <1>2, CountBound

LEMMA NumberType ==
    ASSUME NEW n \in Number
    PROVE  n.day \in Nat /\ n.seq \in Nat
<1>1. Cardinality(Requests) \in Nat
  BY CheckoutAssumption, FS_CardinalityType
<1>2. QED
  BY <1>1, CheckoutAssumption DEF Number, Days

-----------------------------------------------------------------------------
(* The inductive invariant: where a request stands tells what it has left   *)
(* in the database, and a number it is about to insert was free when made.  *)

Consistent(r) ==
    LET q == request[r]
        row == order[r]
    IN
    /\ q.pc \in {"unsent", "read", "count", "insert"} => r \notin Placed
    /\ q.pc = "insert" =>
          /\ q.number \in Number
          /\ q.number.day <= day
          /\ q.number.day = day => q.number.seq <= Cardinality(CreatedOn(day)) + 1
    /\ q.pc \in {"items", "abandon", "charge", "store", "metadata", "done"} => r \in Placed
    /\ q.pc \in {"abandon", "charge", "store", "metadata", "done"} => row.items = q.items
    /\ q.pc \in {"count", "insert"} => Orderable(q.items, q.known)
    /\ q.pc \in {"store", "metadata"} => r \in charges
    /\ r \in charges =>
          /\ r \in Placed
          /\ q.pc \in {"store", "metadata", "done", "refused"}
          /\ row.items = q.items
    /\ r \in Placed =>
          /\ row.items \subseteq q.items
          /\ Orderable(q.items, row.addresses)
          /\ row.number.day <= row.created
          /\ row.created <= day
          /\ row.transaction # "none" => r \in charges

UniqueNumbers ==
    \A r, s \in Placed : order[r].number = order[s].number => r = s

\* An order inserted on the day of its number has a number within the count.
CountedNumbers ==
    \A r \in Placed :
        order[r].number.day = order[r].created =>
            order[r].number.seq <= Cardinality(CreatedOn(order[r].created))

CheckoutInv ==
    /\ TypeOK
    /\ \A r \in Requests : Consistent(r)
    /\ UniqueNumbers
    /\ CountedNumbers

LEMMA InitCheckout == Init => CheckoutInv
<1> SUFFICES ASSUME Init
             PROVE  CheckoutInv
  OBVIOUS
<1>1. Placed = {}
  BY DEF Init, Placed
<1>2. TypeOK
  <2>1. columns \in [Carts -> SUBSET Columns]
    BY DEF Init, Columns
  <2>2. QED
    BY <2>1, CheckoutAssumption DEF Init, TypeOK, Days
<1>3. \A r \in Requests : Consistent(r)
  BY <1>1 DEF Init, Consistent
<1>4. QED
  BY <1>1, <1>2, <1>3 DEF CheckoutInv, UniqueNumbers, CountedNumbers

-----------------------------------------------------------------------------
(* One step *)

\* What other requests rely on.
Onward ==
    /\ day <= day'
    /\ \A d \in Days : Cardinality(CreatedOn(d)) <= Cardinality(CreatedOn(d))'

LEMMA OthersStayConsistent ==
    ASSUME TypeOK, TypeOK', Onward, NEW s \in Requests, Consistent(s),
           request'[s] = request[s], order'[s] = order[s], s \in charges' <=> s \in charges
    PROVE  Consistent(s)'
<1>1. s \in Placed' <=> s \in Placed
  BY DEF Placed
<1>2. day \in Days /\ day' \in Days /\ Days \subseteq Nat
  BY DEF TypeOK, Days
<1>3. request[s].pc = "insert" =>
         (/\ request[s].number \in Number
          /\ request[s].number.day <= day
          /\ request[s].number.day = day =>
                request[s].number.seq <= Cardinality(CreatedOn(day)) + 1)'
  <2>1. SUFFICES ASSUME request[s].pc = "insert"
                 PROVE  (/\ request[s].number \in Number
                         /\ request[s].number.day <= day
                         /\ request[s].number.day = day =>
                               request[s].number.seq <= Cardinality(CreatedOn(day)) + 1)'
    OBVIOUS
  <2>2. /\ request[s].number \in Number
        /\ request[s].number.day <= day
        /\ request[s].number.day = day =>
              request[s].number.seq <= Cardinality(CreatedOn(day)) + 1
    BY <2>1 DEF Consistent
  <2>3. request[s].number.day \in Nat /\ request[s].number.seq \in Nat
    BY <2>2, <1>2, NumberType
  <2>4. CASE day' = day
    <3>1. Cardinality(CreatedOn(day)) <= Cardinality(CreatedOn(day))'
      BY <1>2, <2>4 DEF Onward
    <3>2. Cardinality(CreatedOn(day)) \in Nat /\ Cardinality(CreatedOn(day))' \in Nat
      BY CountBound DEF CreatedOn, Placed
    <3>3. QED
      BY <2>2, <2>3, <2>4, <3>1, <3>2 DEF Number
  <2>5. CASE day' # day
    BY <2>2, <2>3, <2>5, <1>2 DEF Onward, Number
  <2>6. QED
    BY <2>4, <2>5
<1>4. s \in Placed => order[s].created <= day'
  <2>1. s \in Placed => order[s].created \in Nat /\ order[s].created <= day
    BY <1>2 DEF TypeOK, Consistent, Placed, OrderRow
  <2>2. QED
    BY <2>1, <1>2 DEF Onward
<1>5. QED
  BY <1>1, <1>3, <1>4 DEF Consistent

\* Steps that neither place an order nor touch a number.
SameNumbers ==
    /\ day <= day'
    /\ Placed' = Placed
    /\ \A s \in Placed :
          /\ order'[s].number = order[s].number
          /\ order'[s].created = order[s].created

LEMMA SameNumbersKeep ==
    ASSUME CheckoutInv, TypeOK', SameNumbers
    PROVE  UniqueNumbers' /\ CountedNumbers' /\ Onward
<1>1. \A d : CreatedOn(d)' = CreatedOn(d)
  BY DEF CreatedOn, SameNumbers
<1>2. UniqueNumbers'
  BY DEF CheckoutInv, UniqueNumbers, SameNumbers
<1>3. CountedNumbers'
  BY <1>1 DEF CheckoutInv, CountedNumbers, SameNumbers
<1>4. \A d \in Days : Cardinality(CreatedOn(d)) \in Nat
  BY CountBound DEF CreatedOn, Placed
<1>5. Onward
  BY <1>1, <1>4 DEF Onward, SameNumbers
<1>6. QED
  BY <1>2, <1>3, <1>5

\* Such a step of request r.
LEMMA QuietStep ==
    ASSUME CheckoutInv, TypeOK', SameNumbers, NEW r \in Requests, Consistent(r)',
           \A s \in Requests \ {r} :
              /\ request'[s] = request[s]
              /\ order'[s] = order[s]
              /\ s \in charges' <=> s \in charges
    PROVE  CheckoutInv'
<1>1. ASSUME NEW s \in Requests \ {r}
      PROVE  Consistent(s)'
  <2>1. TypeOK /\ Onward /\ Consistent(s)
    BY SameNumbersKeep DEF CheckoutInv
  <2>2. QED
    BY <2>1, OthersStayConsistent
<1>2. QED
  BY <1>1, SameNumbersKeep DEF CheckoutInv

LEMMA InsertStep ==
    ASSUME CheckoutInv, NEW r \in Requests, At(r, "insert"), ~Taken(request[r].number),
           InsertOrder(r)
    PROVE  CheckoutInv'
<1> DEFINE row == [number |-> request[r].number, created |-> day,
                   addresses |-> request[r].known, items |-> {}, transaction |-> "none"]
<1>1. /\ TypeOK /\ Consistent(r) /\ day \in Nat /\ day \in Days
      /\ request[r] \in Progress
      /\ r \notin Placed /\ r \notin charges
  BY DEF CheckoutInv, TypeOK, At, Consistent, Days
<1>2. /\ request[r].number \in Number
      /\ request[r].number.day <= day
      /\ request[r].number.day = day =>
            request[r].number.seq <= Cardinality(CreatedOn(day)) + 1
  BY <1>1 DEF Consistent, At
<1>3. /\ order' = [order EXCEPT ![r] = row]
      /\ Settle(r, "items")
      /\ UNCHANGED <<carts, edit, day, charges>>
  BY DEF InsertOrder, InsertRow
<1>4. row \in OrderRow /\ row # NoOrder
  <2>1. request[r].known \in SUBSET Addresses
    BY <1>1 DEF Progress
  <2>2. request[r].number.day \in Days /\ 0 \notin Days
    BY <1>2, CheckoutAssumption DEF Number, Days
  <2>3. row \in OrderRow
    BY <1>1, <1>2, <2>1 DEF OrderRow
  <2>4. QED
    BY <2>2, <2>3 DEF NoOrder, NoNumber
<1>r. /\ request'[r] = [request[r] EXCEPT !.pc = "items", !.known = {}, !.number = NoNumber]
      /\ request'[r].pc = "items" /\ request'[r].items = request[r].items
      /\ request'[r] \in Progress
      /\ \A s \in Requests \ {r} : request'[s] = request[s]
      /\ request' \in [Requests -> Progress \cup {[pc |-> "unsent"]}]
  BY <1>1, <1>3 DEF TypeOK, Settle, Progress
<1>5. TypeOK'
  BY <1>1, <1>3, <1>4, <1>r DEF TypeOK, carts
<1>6. /\ Placed' = Placed \cup {r}
      /\ order'[r] = row
      /\ \A s \in Requests \ {r} : order'[s] = order[s]
  BY <1>1, <1>3, <1>4 DEF TypeOK, Placed
<1>7. CreatedOn(day)' = CreatedOn(day) \cup {r} /\ r \notin CreatedOn(day)
  BY <1>1, <1>3, <1>6 DEF CreatedOn, Placed
<1>8. \A d \in Days \ {day} : CreatedOn(d)' = CreatedOn(d)
  BY <1>1, <1>6 DEF CreatedOn, Placed
<1>9. /\ \A d \in Days : Cardinality(CreatedOn(d)) \in Nat
      /\ Cardinality(CreatedOn(day))' = Cardinality(CreatedOn(day)) + 1
  BY <1>3, <1>7, CountBound, CountRoom DEF CreatedOn, Placed
<1>10. Onward
  BY <1>1, <1>3, <1>8, <1>9 DEF Onward
<1>11. Consistent(r)'
  <2>1. Orderable(request[r].items, request[r].known) /\ row.addresses = request[r].known
        /\ row.items = {}
    BY <1>1 DEF Consistent, At
  <2>2. QED
    BY <1>1, <1>2, <1>3, <1>6, <1>r, <2>1 DEF Consistent
<1>12. \A s \in Requests \ {r} : Consistent(s)'
  BY <1>1, <1>3, <1>5, <1>6, <1>r, <1>10, OthersStayConsistent DEF CheckoutInv
<1>13. UniqueNumbers'
  BY <1>1, <1>6 DEF CheckoutInv, UniqueNumbers, Taken, Placed
<1>14. CountedNumbers'
  <2>1. SUFFICES ASSUME NEW s \in Placed', order'[s].number.day = order'[s].created
                 PROVE  order'[s].number.seq <= Cardinality(CreatedOn(order[s].created))'
    BY DEF CountedNumbers
  <2>2. CASE s = r
    BY <1>2, <1>3, <1>6, <1>9, <2>1, <2>2, NumberType
  <2>3. CASE s # r
    <3>1. /\ s \in Placed /\ order'[s] = order[s]
          /\ order[s].created \in Days /\ order[s].number \in Number
      BY <1>1, <1>6, <2>3 DEF Placed, TypeOK, OrderRow
    <3>2. order[s].number.seq <= Cardinality(CreatedOn(order[s].created))
      BY <2>1, <3>1 DEF CheckoutInv, CountedNumbers
    <3>3. PICK d \in Days : d = order[s].created
      BY <3>1
    <3>4. Cardinality(CreatedOn(d)) <= Cardinality(CreatedOn(d))'
      BY <1>10 DEF Onward
    <3>5. Cardinality(CreatedOn(d)) \in Nat /\ Cardinality(CreatedOn(d))' \in Nat
      BY CountBound DEF CreatedOn, Placed
    <3>6. order[s].number.seq <= Cardinality(CreatedOn(d))'
      BY <3>1, <3>2, <3>3, <3>4, <3>5, NumberType
    <3>7. QED
      BY <3>1, <3>3, <3>6
  <2>4. QED
    BY <2>2, <2>3
<1>15. QED
  BY <1>5, <1>11, <1>12, <1>13, <1>14 DEF CheckoutInv

\* The edits of a cart leave rows of carts, and progress of their own.
LEMMA EditTypes ==
    ASSUME TypeOK, NEW e \in Edits,
           \/ \E c \in Carts : EditCart(e, c)
           \/ Calculate(e) \/ Load(e) \/ Store(e) \/ EditDies(e)
    PROVE  TypeOK'
<1> DEFINE Loading == [pc : {"load"}, cart : Carts, lines : SUBSET Items, known : SUBSET Columns]
           Storing == [pc : {"store"}, cart : Carts, insert : SUBSET Items, detach : SUBSET Items,
                       set : SUBSET Columns, unset : SUBSET Columns]
<1>1. SUFFICES /\ cart' \in [Carts -> SUBSET Items]
               /\ columns' \in [Carts -> SUBSET Columns]
               /\ edit' \in [Edits -> Editing \cup {NoEdit, Edited}]
  BY DEF TypeOK, EditCart, Calculate, Load, Store, EditDies
<1>2. ASSUME NEW q \in Editing \cup {NoEdit, Edited}, EditGoto(e, q)
      PROVE  edit' \in [Edits -> Editing \cup {NoEdit, Edited}]
  BY <1>2 DEF TypeOK, EditGoto
<1>3. ASSUME NEW c \in Carts, EditCart(e, c)
      PROVE  <1>1!1
  <2>1. [pc |-> "calculate", cart |-> c] \in Editing
    BY DEF Editing
  <2>2. QED
    BY <1>2, <1>3, <2>1 DEF EditCart, TypeOK
<1>4. CASE Calculate(e)
  <2>1. PICK c : c = edit[e].cart
    OBVIOUS
  <2>2. c \in Carts /\ edit[e].pc = "calculate"
    BY <1>4, <2>1 DEF Calculate, TypeOK, Editing, NoEdit, Edited
  <2>3. [pc |-> "load", cart |-> c, lines |-> cart[c], known |-> columns[c]] \in Loading
    BY <2>2 DEF TypeOK
  <2>4. Loading \subseteq Editing
    BY DEF Editing
  <2>5. EditGoto(e, [pc |-> "load", cart |-> c, lines |-> cart[c], known |-> columns[c]])
    BY <1>4, <2>1 DEF Calculate
  <2> HIDE DEF Loading
  <2>6. QED
    BY <1>2, <1>4, <2>3, <2>4, <2>5 DEF Calculate, TypeOK, carts
<1>5. CASE Load(e)
  <2>1. PICK q, c : q = edit[e] /\ c = q.cart
    OBVIOUS
  <2>2. q \in Loading
    BY <1>5, <2>1 DEF Load, TypeOK, Editing, NoEdit, Edited
  <2> DEFINE p == [pc |-> "store", cart |-> c,
                   insert |-> q.lines \ cart[c], detach |-> cart[c] \ q.lines,
                   set |-> q.known \ columns[c], unset |-> columns[c] \ q.known]
  <2>3. p \in Storing
    BY <2>1, <2>2 DEF TypeOK
  <2>4. Storing \subseteq Editing
    BY DEF Editing
  <2>5. EditGoto(e, p)
    BY <1>5, <2>1 DEF Load
  <2> HIDE DEF p, Storing
  <2>6. QED
    BY <1>2, <1>5, <2>3, <2>4, <2>5 DEF Load, TypeOK, carts
<1>6. CASE Store(e)
  <2>1. PICK q, c : q = edit[e] /\ c = q.cart
    OBVIOUS
  <2>2. q \in Storing
    BY <1>6, <2>1 DEF Store, TypeOK, Editing, NoEdit, Edited
  <2>3. c \in Carts /\ q.insert \subseteq Items /\ q.set \subseteq Columns
    BY <2>1, <2>2
  <2>4. \/ UNCHANGED carts
        \/ /\ cart' = [cart EXCEPT ![c] = @ \cup q.insert]
           /\ columns' = [columns EXCEPT ![c] = (@ \ q.unset) \cup q.set]
    BY <1>6, <2>1 DEF Store
  <2>5. cart' \in [Carts -> SUBSET Items] /\ columns' \in [Carts -> SUBSET Columns]
    BY <2>3, <2>4 DEF TypeOK, carts
  <2>6. QED
    BY <1>2, <1>6, <2>5 DEF Store
<1>7. CASE EditDies(e)
  BY <1>2, <1>7 DEF EditDies, TypeOK, carts
<1>8. QED
  BY <1>3, <1>4, <1>5, <1>6, <1>7

LEMMA StepCheckout == CheckoutInv /\ [Next]_vars => CheckoutInv'
<1> SUFFICES ASSUME CheckoutInv, [Next]_vars
             PROVE  CheckoutInv'
  OBVIOUS
<1>t. TypeOK /\ (\A r \in Requests : Consistent(r)) /\ day \in Nat
  BY DEF CheckoutInv, TypeOK, Days
<1>0. ASSUME UNCHANGED <<order, charges, request>>, TypeOK', day <= day'
      PROVE  CheckoutInv'
  <2>1. SameNumbers
    BY <1>0 DEF SameNumbers, Placed
  <2>2. \A s \in Requests : Consistent(s)'
    <3>1. SUFFICES ASSUME NEW s \in Requests
                   PROVE  Consistent(s)'
      OBVIOUS
    <3>2. Consistent(s) /\ Onward
      BY <2>1, <1>0, <1>t, SameNumbersKeep
    <3>3. QED
      BY <3>2, <1>0, <1>t, OthersStayConsistent
  <2>3. QED
    BY <2>1, <2>2, <1>0, SameNumbersKeep DEF CheckoutInv
<1>1. CASE NextDay
  <2>1. TypeOK' /\ day <= day'
    BY <1>1, <1>t, CheckoutAssumption DEF NextDay, TypeOK, Days, carts
  <2>2. QED
    BY <1>0, <1>1, <2>1 DEF NextDay
<1>2. ASSUME NEW c \in Carts, SetAddress(c)
      PROVE  CheckoutInv'
  <2>1. TypeOK' /\ day <= day'
    BY <1>2, <1>t DEF SetAddress, TypeOK, Columns
  <2>2. QED
    BY <1>0, <1>2, <2>1 DEF SetAddress
<1>e. ASSUME NEW e \in Edits,
             \/ \E c \in Carts : EditCart(e, c)
             \/ Calculate(e) \/ Load(e) \/ Store(e) \/ EditDies(e)
      PROVE  CheckoutInv'
  <2>1. TypeOK'
    BY <1>e, <1>t, EditTypes
  <2>2. UNCHANGED <<order, charges, request, day>>
    BY <1>e DEF EditCart, Calculate, Load, Store, EditDies
  <2>3. QED
    BY <1>0, <1>t, <2>1, <2>2
<1>3. ASSUME NEW r \in Requests, NEW c \in Carts, NEW asaas \in BOOLEAN,
             Start(r, c, asaas)
      PROVE  CheckoutInv'
  <2>1. TypeOK'
    BY <1>3, <1>t DEF Start, TypeOK, Progress, carts
  <2>2. SameNumbers
    BY <1>3, <1>t DEF Start, SameNumbers, Placed
  <2>3. Consistent(r)'
    BY <1>3, <1>t DEF Start, Consistent, Placed, TypeOK, At
  <2>4. QED
    BY <1>3, <1>t, <2>1, <2>2, <2>3, QuietStep DEF Start, TypeOK
<1>4. ASSUME NEW r \in Requests, ReadCart(r)
      PROVE  CheckoutInv'
  <2>0. request[r] \in Progress
    BY <1>4, <1>t DEF ReadCart, At, TypeOK
  <2> DEFINE c == request[r].cart
  <2>c. cart[c] \in SUBSET Items /\ columns[c] \cap Addresses \in SUBSET Addresses
    BY <1>t, <2>0 DEF TypeOK, Progress
  <2>r. PICK q \in Progress :
           /\ request' = [request EXCEPT ![r] = q]
           /\ q.pc \in {"count", "refused"}
           /\ q.pc = "count" => Orderable(q.items, q.known)
    <3>1. CASE Orderable(cart[c], columns[c])
      <4>1. PICK q : q = [request[r] EXCEPT !.pc = "count", !.items = cart[c],
                                            !.known = columns[c] \cap Addresses]
        OBVIOUS
      <4>2. q \in Progress /\ q.pc = "count" /\ q.items = cart[c]
            /\ q.known = columns[c] \cap Addresses
        BY <2>0, <2>c, <4>1 DEF Progress
      <4>3. Orderable(q.items, q.known)
        BY <3>1, <4>2 DEF Orderable, Addresses
      <4>4. request' = [request EXCEPT ![r] = q]
        BY <1>4, <3>1, <4>1 DEF ReadCart
      <4>5. QED
        BY <4>2, <4>3, <4>4
    <3>2. CASE ~Orderable(cart[c], columns[c])
      <4>1. PICK q : q = [request[r] EXCEPT !.pc = "refused"]
        OBVIOUS
      <4>2. q \in Progress /\ q.pc = "refused"
        BY <2>0, <4>1 DEF Progress
      <4>3. request' = [request EXCEPT ![r] = q]
        BY <1>4, <3>2, <4>1 DEF ReadCart, Goto
      <4>4. QED
        BY <4>2, <4>3
    <3>3. QED
      BY <3>1, <3>2
  <2> HIDE DEF c
  <2>1. TypeOK'
    BY <1>4, <1>t, <2>0, <2>r DEF ReadCart, TypeOK, Progress, carts
  <2>2. SameNumbers
    BY <1>4, <1>t DEF ReadCart, SameNumbers, Placed
  <2>3. Consistent(r)'
    BY <1>4, <1>t, <2>0, <2>r DEF ReadCart, Consistent, Placed, TypeOK, At, Progress
  <2>4. QED
    BY <1>4, <1>t, <2>r, <2>1, <2>2, <2>3, QuietStep DEF ReadCart, TypeOK
<1>5. ASSUME NEW r \in Requests, CountOrders(r)
      PROVE  CheckoutInv'
  <2>0. request[r] \in Progress
    BY <1>5, <1>t DEF CountOrders, At, TypeOK
  <2>n. /\ [day |-> day, seq |-> Cardinality(CreatedOn(day)) + 1] \in Number
        /\ Cardinality(CreatedOn(day)) \in Nat
    <3>1. r \notin CreatedOn(day) /\ CreatedOn(day) \in SUBSET Requests
      BY <1>5, <1>t DEF CountOrders, At, Consistent, CreatedOn, Placed
    <3>2. Cardinality(CreatedOn(day)) \in Nat
      BY <3>1, CountBound
    <3>3. Cardinality(CreatedOn(day)) + 1 \in 1..Cardinality(Requests)
      BY <3>1, CountRoom
    <3>4. QED
      BY <3>2, <3>3, <1>t DEF Number, TypeOK
  <2>1. TypeOK'
    BY <1>5, <1>t, <2>0, <2>n DEF CountOrders, TypeOK, Progress, carts
  <2>2. SameNumbers
    BY <1>5, <1>t DEF CountOrders, SameNumbers, Placed
  <2>3. Consistent(r)'
    <3>1. CreatedOn(day)' = CreatedOn(day) /\ day' = day
      BY <1>5 DEF CountOrders, CreatedOn, Placed
    <3>2. QED
      BY <1>5, <1>t, <2>0, <2>n, <3>1 DEF CountOrders, Consistent, Placed, TypeOK, At, Progress
  <2>4. QED
    BY <1>5, <1>t, <2>1, <2>2, <2>3, QuietStep DEF CountOrders, TypeOK
<1>s. ASSUME NEW r \in Requests, Settle(r, "refused"), request[r] \in Progress,
             UNCHANGED <<cart, columns, edit, day, order, charges>>, Consistent(r)'
      PROVE  CheckoutInv'
  <2>1. /\ request' \in [Requests -> Progress \cup {[pc |-> "unsent"]}]
        /\ \A s \in Requests \ {r} : request'[s] = request[s]
    BY <1>s, <1>t DEF TypeOK, Settle, Progress
  <2>2. TypeOK'
    BY <1>s, <1>t, <2>1 DEF TypeOK
  <2>3. SameNumbers
    BY <1>s, <1>t DEF SameNumbers, Placed
  <2>4. QED
    BY <1>s, <2>1, <2>2, <2>3, QuietStep
<1>6. ASSUME NEW r \in Requests, InsertOrder(r)
      PROVE  CheckoutInv'
  <2>1. CASE ~Taken(request[r].number)
    BY <1>6, <2>1, InsertStep DEF InsertOrder, InsertRow
  <2>2. CASE Taken(request[r].number)
    <3>0. request[r] \in Progress
      BY <1>6, <1>t DEF InsertOrder, InsertRow, At, TypeOK
    <3>1. /\ Settle(r, "refused") /\ At(r, "insert")
          /\ UNCHANGED <<cart, columns, edit, day, order, charges>>
      BY <1>6, <2>2 DEF InsertOrder, InsertRow, carts
    <3>2. Consistent(r)'
      BY <1>t, <3>0, <3>1 DEF Settle, Consistent, Placed, TypeOK, At, Progress
    <3>3. QED
      BY <1>s, <3>0, <3>1, <3>2
  <2>3. QED
    BY <2>1, <2>2
<1>7. ASSUME NEW r \in Requests, AddItem(r)
      PROVE  CheckoutInv'
  <2>1. /\ request[r] \in Progress /\ r \in Placed /\ order[r] \in OrderRow
        /\ request[r].pc = "items"
    BY <1>7, <1>t DEF AddItem, At, TypeOK, Consistent, Placed
  <2>2. PICK i \in request[r].items \ order[r].items :
           /\ order' = [order EXCEPT ![r].items = @ \cup {i}]
           /\ \/ /\ request[r].items = order[r].items \cup {i}
                 /\ Goto(r, "abandon")
              \/ UNCHANGED request
    BY <1>7 DEF AddItem
  <2>3. /\ order'[r] = [order[r] EXCEPT !.items = order[r].items \cup {i}]
        /\ order'[r] \in OrderRow
        /\ \A s \in Requests \ {r} : order'[s] = order[s]
        /\ order' \in [Requests -> OrderRow \cup {NoOrder}]
    <3>1. PICK row \in OrderRow : row = [order[r] EXCEPT !.items = order[r].items \cup {i}]
      <4>1. order[r].items \cup {i} \in SUBSET Items
        BY <2>1, <2>2 DEF OrderRow, Progress
      <4>2. QED
        BY <2>1, <4>1 DEF OrderRow
    <3>2. order' = [order EXCEPT ![r] = row]
      BY <2>2, <3>1
    <3>3. QED
      BY <1>t, <3>1, <3>2 DEF TypeOK
  <2>4. /\ request' \in [Requests -> Progress \cup {[pc |-> "unsent"]}]
        /\ \A s \in Requests \ {r} : request'[s] = request[s]
        /\ request'[r].items = request[r].items /\ request'[r].cart = request[r].cart
        /\ \/ request'[r].pc = "items"
           \/ request'[r].pc = "abandon" /\ request[r].items = order[r].items \cup {i}
    BY <1>t, <2>1, <2>2 DEF TypeOK, Goto, Progress
  <2>5. TypeOK'
    BY <1>7, <1>t, <2>3, <2>4 DEF AddItem, TypeOK, carts
  <2>6. order'[r].number = order[r].number /\ order'[r].created = order[r].created
    BY <2>1, <2>3 DEF OrderRow
  <2>7. Placed' = Placed
    BY <1>t, <2>1, <2>3, <2>6 DEF Placed, OrderRow, NoOrder, NoNumber, Number, Days
  <2>8. SameNumbers
    BY <1>7, <1>t, <2>3, <2>6, <2>7 DEF AddItem, SameNumbers, Placed
  <2>9. Consistent(r)'
    BY <1>7, <1>t, <2>1, <2>3, <2>4, <2>6, <2>7 DEF AddItem, Consistent, OrderRow
  <2>10. QED
    BY <1>7, <2>3, <2>4, <2>5, <2>8, <2>9, QuietStep DEF AddItem
<1>8. ASSUME NEW r \in Requests, NEW pc \in {"charge", "store", "done", "refused"},
             Goto(r, pc), request[r] \in Progress, UNCHANGED <<cart, edit, day, order>>,
             columns' \in [Carts -> SUBSET Columns],
             charges' = charges \/ charges' = charges \cup {r},
             Consistent(r)'
      PROVE  CheckoutInv'
  <2>1. TypeOK'
    BY <1>8, <1>t DEF TypeOK, Goto, Progress, carts
  <2>2. SameNumbers
    BY <1>8, <1>t DEF SameNumbers, Placed
  <2>3. QED
    BY <1>8, <1>t, <2>1, <2>2, QuietStep DEF Goto, TypeOK
<1>9. ASSUME NEW r \in Requests, MarkAsAbandoned(r)
      PROVE  CheckoutInv'
  <2>1. request[r] \in Progress
    BY <1>9, <1>t DEF MarkAsAbandoned, At, TypeOK
  <2>2. columns' \in [Carts -> SUBSET Columns]
    BY <1>9, <1>t, <2>1 DEF MarkAsAbandoned, TypeOK, Progress, Columns
  <2>3. Consistent(r)'
    BY <1>9, <1>t, <2>1 DEF MarkAsAbandoned, Goto, Consistent, Placed, TypeOK, At, Progress
  <2>4. QED
    BY <1>8, <1>9, <2>1, <2>2, <2>3 DEF MarkAsAbandoned
<1>10. ASSUME NEW r \in Requests, Charge(r)
       PROVE  CheckoutInv'
  <2>1. request[r] \in Progress
    BY <1>10, <1>t DEF Charge, At, TypeOK
  <2>2. Consistent(r)'
    BY <1>10, <1>t, <2>1 DEF Charge, Goto, Consistent, Placed, TypeOK, At, Progress
  <2>3. columns' \in [Carts -> SUBSET Columns]
    BY <1>10, <1>t DEF Charge, TypeOK, carts
  <2>4. QED
    BY <1>8, <1>10, <2>1, <2>2, <2>3 DEF Charge, carts
<1>11. ASSUME NEW r \in Requests, Die(r)
       PROVE  CheckoutInv'
  <2>1. request[r] \in Progress
    BY <1>11, <1>t DEF Die, Running, TypeOK
  <2>2. Consistent(r)'
    BY <1>11, <1>t, <2>1 DEF Die, Running, Settle, Consistent, Placed, TypeOK, Progress
  <2>3. QED
    BY <1>s, <1>11, <2>1, <2>2 DEF Die, carts
<1>12. ASSUME NEW r \in Requests, StorePayment(r) \/ StoreMetadata(r)
       PROVE  CheckoutInv'
  <2>1. /\ request[r] \in Progress /\ r \in Placed /\ order[r] \in OrderRow
        /\ request[r].pc \in {"store", "metadata"} /\ r \in charges
    BY <1>12, <1>t DEF StorePayment, StoreMetadata, At, TypeOK, Consistent, Placed
  <2>2. PICK t \in {"order", "item"}, pc \in {"metadata", "done"} :
           /\ order' = [order EXCEPT ![r].transaction = t]
           /\ Goto(r, pc)
    BY <1>12 DEF StorePayment, StoreMetadata
  <2>3. /\ order'[r] = [order[r] EXCEPT !.transaction = t]
        /\ order'[r] \in OrderRow
        /\ \A s \in Requests \ {r} : order'[s] = order[s]
        /\ order' \in [Requests -> OrderRow \cup {NoOrder}]
    BY <1>t, <2>1, <2>2 DEF TypeOK, OrderRow
  <2>4. /\ request' \in [Requests -> Progress \cup {[pc |-> "unsent"]}]
        /\ \A s \in Requests \ {r} : request'[s] = request[s]
        /\ request'[r].items = request[r].items /\ request'[r].cart = request[r].cart
        /\ request'[r].pc = pc
    BY <1>t, <2>1, <2>2 DEF TypeOK, Goto, Progress
  <2>5. UNCHANGED <<carts, edit, day, charges>>
    BY <1>12 DEF StorePayment, StoreMetadata
  <2>6. TypeOK'
    BY <1>t, <2>3, <2>4, <2>5 DEF TypeOK, carts
  <2>7. /\ order'[r].number = order[r].number /\ order'[r].created = order[r].created
        /\ order'[r].items = order[r].items
    BY <2>1, <2>3 DEF OrderRow
  <2>8. Placed' = Placed
    BY <1>t, <2>1, <2>3, <2>7 DEF Placed, OrderRow, NoOrder, NoNumber, Number, Days
  <2>9. SameNumbers
    <3>1. \A s \in Placed :
             order'[s].number = order[s].number /\ order'[s].created = order[s].created
      BY <2>3, <2>7 DEF Placed
    <3>2. QED
      BY <1>t, <2>5, <2>8, <3>1 DEF SameNumbers
  <2>10. Consistent(r)'
    BY <1>t, <2>1, <2>3, <2>4, <2>5, <2>7, <2>8 DEF Consistent
  <2>11. QED
    BY <2>3, <2>4, <2>5, <2>6, <2>9, <2>10, QuietStep
<1>13. CASE UNCHANGED vars
  <2>1. TypeOK' /\ day <= day'
    BY <1>13, <1>t DEF vars, carts, TypeOK
  <2>2. QED
    BY <1>0, <1>13, <2>1 DEF vars
<1>14. QED
  BY <1>1, <1>2, <1>e, <1>3, <1>4, <1>5, <1>6, <1>7, <1>9, <1>10, <1>11, <1>12, <1>13
  DEF Next, Step

LEMMA SpecCheckout == Spec => []CheckoutInv
  BY InitCheckout, StepCheckout, PTL DEF Spec

-----------------------------------------------------------------------------
(* Theorems *)

\* The rows are well typed, and no sequence number exceeds the number of
\* checkouts that were sent.
THEOREM CheckoutTypeCorrect == Spec => []TypeOK
<1>1. CheckoutInv => TypeOK
  BY DEF CheckoutInv
<1>2. QED
  BY <1>1, SpecCheckout, PTL

\* generateOrderNumber gives a number that no order has, whenever it is called:
\* retrying a checkout that lost its number to another one cannot fail for ever.
THEOREM NumberAlwaysFree == Spec => []NextNumberFree
<1>1. CheckoutInv => NextNumberFree
  <2>1. SUFFICES ASSUME CheckoutInv, NEW r \in Placed, order[r].number.day = day
                 PROVE  order[r].number.seq <= Cardinality(CreatedOn(day))
    BY DEF NextNumberFree
  <2>2. /\ order[r] \in OrderRow
        /\ order[r].number.day <= order[r].created /\ order[r].created <= day
    BY <2>1 DEF CheckoutInv, TypeOK, Consistent, Placed
  <2>3. order[r].created \in Nat /\ day \in Nat
    BY <2>1, <2>2 DEF CheckoutInv, TypeOK, OrderRow, Days
  <2>4. order[r].created = day
    BY <2>1, <2>2, <2>3
  <2>5. QED
    BY <2>1, <2>4 DEF CheckoutInv, CountedNumbers
<1>2. QED
  BY <1>1, SpecCheckout, PTL

\* The numbers of a day none of whose orders crossed midnight are exactly
\* 1, 2, ..., the number of its orders.
THEOREM NumbersGapless == Spec => []GaplessDays
<1>1. CheckoutInv => GaplessDays
  <2>1. SUFFICES ASSUME CheckoutInv, NEW d \in Days, NumberedOn(d) = CreatedOn(d)
                 PROVE  {order[r].number.seq : r \in NumberedOn(d)}
                          = 1..Cardinality(CreatedOn(d))
    BY DEF GaplessDays
  <2> DEFINE N == CreatedOn(d)
             n == Cardinality(N)
             f == [r \in N |-> order[r].number.seq]
  <2>2. IsFiniteSet(N) /\ n \in Nat
    BY CountBound DEF CreatedOn, Placed
  <2>3. \A r \in N : /\ r \in Placed /\ order[r] \in OrderRow
                     /\ order[r].created = d /\ order[r].number.day = d
    BY <2>1 DEF CheckoutInv, TypeOK, CreatedOn, NumberedOn, Placed
  <2>4. ASSUME NEW r \in N
        PROVE  order[r].number.seq \in 1..n
    <3>1. order[r].number.seq <= n
      BY <2>1, <2>3 DEF CheckoutInv, CountedNumbers
    <3>2. order[r].number \in Number
      BY <2>3 DEF OrderRow
    <3>3. order[r].number.seq \in 1..Cardinality(Requests) /\ Cardinality(Requests) \in Nat
      BY <3>2, CheckoutAssumption, FS_CardinalityType DEF Number
    <3>4. QED
      BY <2>2, <3>1, <3>3
  <2>5. ASSUME NEW r \in N, NEW s \in N, order[r].number.seq = order[s].number.seq
        PROVE  r = s
    <3>1. order[r].number \in Number /\ order[s].number \in Number
      BY <2>3 DEF OrderRow
    <3>2. order[r].number = order[s].number
      BY <2>3, <2>5, <3>1 DEF Number
    <3>3. QED
      BY <2>1, <2>3, <3>2 DEF CheckoutInv, UniqueNumbers
  <2>6. f \in Injection(N, 1..n)
    BY <2>4, <2>5 DEF Injection, IsInjective
  <2>7. IsFiniteSet(1..n) /\ Cardinality(1..n) = n
    BY <2>2, FS_Interval
  <2>8. f \in Surjection(N, 1..n)
    BY <2>6, <2>7, FS_Injection
  <2>9. \A k \in 1..n : \E r \in N : order[r].number.seq = k
    BY <2>8 DEF Surjection
  <2>10. QED
    BY <2>1, <2>4, <2>9
<1>2. QED
  BY <1>1, SpecCheckout, PTL

\* processAsaasPayment charges only for an order whose lines are all there, and
\* the order never names a charge that was not made.
THEOREM ChargesCorrect == Spec => []ChargesAreBacked
<1>1. CheckoutInv => ChargesAreBacked
  <2>1. SUFFICES ASSUME CheckoutInv
                 PROVE  ChargesAreBacked
    OBVIOUS
  <2>2. charges \subseteq Requests /\ Placed \subseteq Requests
    BY <2>1 DEF CheckoutInv, TypeOK, Placed
  <2>3. QED
    BY <2>1, <2>2 DEF CheckoutInv, Consistent, ChargesAreBacked
<1>2. QED
  BY <1>1, SpecCheckout, PTL

\* The row createFromCart inserts has the addresses that the lines it then adds
\* need: lines and addresses are of one read, whatever edits and saves of the
\* cart come in between.
THEOREM OrdersCanBeShipped == Spec => []OrdersAreShippable
<1>1. CheckoutInv => OrdersAreShippable
  <2>1. SUFFICES ASSUME CheckoutInv, NEW r \in Placed
                 PROVE  /\ order[r].items \cap Physical # {} => "shipping" \in order[r].addresses
                        /\ "billing" \in order[r].addresses
    BY DEF OrdersAreShippable
  <2>2. r \in Requests /\ Consistent(r)
    BY <2>1 DEF CheckoutInv, Placed
  <2>3. /\ order[r].items \subseteq request[r].items
        /\ Orderable(request[r].items, order[r].addresses)
    BY <2>2 DEF Consistent
  <2>4. QED
    BY <2>3 DEF Orderable
<1>2. QED
  BY <1>1, SpecCheckout, PTL
=============================================================================
