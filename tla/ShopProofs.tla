----------------------------- MODULE ShopProofs -----------------------------
(***************************************************************************)
(* Proofs about what a shop offers, Catalog, and about the cart it goes    *)
(* into, Cart.                                                             *)
(*                                                                         *)
(* No reference of the catalog dangles, stock writes sell nothing that was *)
(* hidden, default attributes stay and the categories stay a forest, for   *)
(* any number of rows and concurrent requests.                             *)
(*                                                                         *)
(* The last three are not inductive: a stock write carries a row that was  *)
(* computed earlier (SavesHidden), a removal trusts an isSystem it has     *)
(* read (RemovesOwn) and the index of codes (CodesUnique), a move and the  *)
(* removal of a category trust what they have seen of the tree (Careful).  *)
(*                                                                         *)
(* A request that runs alone on a cart leaves a subtotal that is the sum   *)
(* of the lines, for any number of requests, products, variants and        *)
(* quantities and whatever happened before: while the cart is calm a save  *)
(* meets the rows that were read (Undisturbed).                            *)
(***************************************************************************)
EXTENDS Catalog, Cart, TLAPS

SavesHidden ==
    \A w \in Workers : worker[w].pc = "save" =>
        /\ product[worker[w].product] # NoRow
        /\ hidden[worker[w].product] = "hidden" => worker[w].row.status # "active"

RemovesOwn ==
    \A w \in Workers : worker[w].pc = "removeAttribute" =>
        /\ attribute[worker[w].attr] # NoAttribute
        /\ initialised = "yes" /\ edited = "no" => attribute[worker[w].attr].code \notin Defaults

CodesUnique ==
    \A a, b \in Attributes : HasAttribute(a) /\ attribute[a].code = attribute[b].code => a = b

IInv == TypeOK /\ HiddenStaysHidden /\ SavesHidden /\ DefaultsStay /\ RemovesOwn /\ CodesUnique

LEMMA InitIInv == Init => IInv
<1> SUFFICES ASSUME Init PROVE IInv
  OBVIOUS
<1> USE CatalogAssumption DEF Init
<1>1. TypeOK
  BY DEF TypeOK, HasProduct, NoRow, ProductStatus, HasCategory, None, Root, Gone
<1>2. HiddenStaysHidden /\ SavesHidden
  BY DEF HiddenStaysHidden, SavesHidden, Idle
<1>3. DefaultsStay /\ RemovesOwn /\ CodesUnique
  BY DEF DefaultsStay, RemovesOwn, CodesUnique, Idle, HasAttribute, NoAttribute, None
<1> QED BY <1>1, <1>2, <1>3 DEF IInv

\* The requests of the other workers stay typed when w turns to r.
LEMMA BecomeTyped ==
    ASSUME TypeOK, NEW w \in Workers, NEW r \in Request \cup {Idle}, Become(w, r)
    PROVE  worker' \in [Workers -> Request \cup {Idle}]
BY DEF TypeOK, Become

Same == UNCHANGED <<parent, product, attribute, history>>

\* A step that only turns a worker to something typed.
LEMMA OnlyBecome ==
    ASSUME TypeOK, worker' \in [Workers -> Request \cup {Idle}], Same, UNCHANGED serves
    PROVE  TypeOK'
BY DEF TypeOK, Same, history, HasProduct, HasCategory, CategoryOk

LEMMA CategoryStepTypeOK ==
    ASSUME TypeOK, NEW w \in Workers, CategoryRequest(w)
    PROVE  TypeOK'
<1> USE CatalogAssumption
<1>1. ASSUME NEW q \in Categories \cup {Root}, StartCreateCategory(w, q) PROVE TypeOK'
  <2>1. [pc |-> "insertCategory", up |-> q] \in Request BY DEF Request
  <2> QED BY <1>1, <2>1, BecomeTyped, OnlyBecome DEF StartCreateCategory, rows, Same
<1>2. ASSUME NEW q \in Categories \cup {Root}, NEW c \in Categories, StartMove(w, c, q) PROVE TypeOK'
  <2>1. [pc |-> IF q = Root THEN "write" ELSE "target", cat |-> c, to |-> q] \in Request
    BY DEF Request, Root
  <2> QED BY <1>2, <2>1, BecomeTyped, OnlyBecome DEF StartMove, rows, Same
<1>3. ASSUME NEW c \in Categories, InsertCategory(w, c) PROVE TypeOK'
  <2>1. worker[w].up \in Categories \cup {Root}
    BY <1>3 DEF InsertCategory, At, TypeOK, Request, Idle
  <2>2. worker' \in [Workers -> Request \cup {Idle}]
    BY <1>3, BecomeTyped DEF InsertCategory, Finish
  <2>3. parent' \in [Categories -> Categories \cup {None, Root, Gone}]
    BY <1>3, <2>1 DEF InsertCategory, TypeOK
  <2>4. \A d \in Categories : HasCategory(d) => HasCategory(d)'
    BY <1>3, <2>1 DEF InsertCategory, TypeOK, HasCategory, None, Root, Gone
  <2>5. \A d \in Categories : parent'[d] \in Categories => HasCategory(parent'[d])
    BY <1>3, <2>1, <2>4 DEF InsertCategory, TypeOK, ParentOk, HasCategory
  <2> QED BY <1>3, <2>2, <2>3, <2>4, <2>5 DEF InsertCategory, TypeOK, HasProduct, CategoryOk, HasCategory, history
<1>4. ASSUME NEW c \in Categories, StartRemove(w, c) PROVE TypeOK'
  <2>1. [pc |-> "count", cat |-> c] \in Request BY DEF Request
  <2> QED BY <1>4, <2>1, BecomeTyped, OnlyBecome DEF StartRemove, rows, Same
<1>5. ASSUME FindTarget(w) PROVE TypeOK'
  <2>1. worker[w].cat \in Categories /\ worker[w].to \in Categories
    BY <1>5 DEF FindTarget, At, TypeOK, Request, Idle
  <2>2. HasCategory(worker[w].to) => parent[worker[w].to] \in Categories \cup {Root}
    BY <2>1 DEF HasCategory, TypeOK
  <2>3. HasCategory(worker[w].to) =>
          [pc |-> "walk", cat |-> worker[w].cat, to |-> worker[w].to, up |-> parent[worker[w].to]] \in Request
    BY <2>1, <2>2 DEF Request
  <2>4. worker' \in [Workers -> Request \cup {Idle}]
    BY <1>5, <2>3, BecomeTyped DEF FindTarget, Finish, Checks
  <2> QED BY <1>5, <2>4, OnlyBecome DEF FindTarget, rows, Same
<1>6. ASSUME Walk(w) PROVE TypeOK'
  <2>1. /\ worker[w].cat \in Categories /\ worker[w].to \in Categories
        /\ worker[w].up \in Categories \cup {Root}
    BY <1>6 DEF Walk, At, TypeOK, Request, Idle
  <2>2. worker[w].up # Root /\ HasCategory(worker[w].up) => parent[worker[w].up] \in Categories \cup {Root}
    BY <2>1 DEF HasCategory, TypeOK
  <2>3. /\ [pc |-> "write", cat |-> worker[w].cat, to |-> worker[w].to] \in Request
        /\ worker[w].up # Root /\ HasCategory(worker[w].up) =>
             [pc |-> "walk", cat |-> worker[w].cat, to |-> worker[w].to, up |-> parent[worker[w].up]] \in Request
    BY <2>1, <2>2 DEF Request
  <2>4. worker' \in [Workers -> Request \cup {Idle}]
    BY <1>6, <2>3, BecomeTyped DEF Walk, Checks, Passes, Finish
  <2> QED BY <1>6, <2>4, OnlyBecome DEF Walk, rows, Same
<1>7. ASSUME WriteMove(w) PROVE TypeOK'
  <2>1. worker[w].cat \in Categories /\ worker[w].to \in Categories \cup {Root}
    BY <1>7 DEF WriteMove, At, TypeOK, Request, Idle
  <2>2. worker' \in [Workers -> Request \cup {Idle}]
    BY <1>7, BecomeTyped DEF WriteMove, Finish
  <2>3. parent' \in [Categories -> Categories \cup {None, Root, Gone}]
    BY <1>7, <2>1 DEF WriteMove, TypeOK
  <2>4. \A d \in Categories : HasCategory(d) => HasCategory(d)'
    BY <1>7, <2>1 DEF WriteMove, TypeOK, HasCategory, None, Root, Gone
  <2>5. \A d \in Categories : parent'[d] \in Categories => HasCategory(parent'[d])
    BY <1>7, <2>1 DEF WriteMove, TypeOK, ParentOk, HasCategory
  <2>6. \A d \in Categories : parent'[d] \in Categories => HasCategory(parent[d])'
    BY <2>3, <2>4, <2>5
  <2>7. \A p \in Products : HasProduct(p) => product[p].category \in Categories \cup {None}
    BY DEF TypeOK, HasProduct, Product, NoRow, ProductStatus, None, Gone
  <2>8. \A p \in Products : HasProduct(p)' => CategoryOk(product[p].category)'
    BY <1>7, <2>4, <2>7 DEF WriteMove, TypeOK, HasProduct, CategoryOk
  <2> QED BY <1>7, <2>2, <2>3, <2>6, <2>8 DEF WriteMove, TypeOK
<1>8. ASSUME CountProducts(w) PROVE TypeOK'
  <2>1. worker[w].cat \in Categories
    BY <1>8 DEF CountProducts, At, TypeOK, Request, Idle
  <2>2. [pc |-> "children", cat |-> worker[w].cat] \in Request
    BY <2>1 DEF Request
  <2>3. worker' \in [Workers -> Request \cup {Idle}]
    BY <1>8, <2>2, BecomeTyped DEF CountProducts, Finish
  <2> QED BY <1>8, <2>3, OnlyBecome DEF CountProducts, rows, Same
<1>9. ASSUME ReadChildren(w) PROVE TypeOK'
  <2>1. worker[w].cat \in Categories
    BY <1>9 DEF ReadChildren, At, TypeOK, Request, Idle
  <2>2. /\ [pc |-> "delete", cat |-> worker[w].cat] \in Request
        /\ HasCategory(worker[w].cat) =>
             [pc |-> "reparent", cat |-> worker[w].cat, up |-> parent[worker[w].cat]] \in Request
    BY <2>1 DEF Request, HasCategory, TypeOK
  <2>3. worker' \in [Workers -> Request \cup {Idle}]
    BY <1>9, <2>2, BecomeTyped DEF ReadChildren
  <2> QED BY <1>9, <2>3, OnlyBecome DEF ReadChildren, rows, Same
<1>10. ASSUME Reparent(w) PROVE TypeOK'
  <2>1. worker[w].cat \in Categories /\ worker[w].up \in Categories \cup {Root}
    BY <1>10 DEF Reparent, At, TypeOK, Request, Idle
  <2>2. worker' \in [Workers -> Request \cup {Idle}]
    <3>1. [pc |-> "delete", cat |-> worker[w].cat] \in Request BY <2>1 DEF Request
    <3> QED BY <1>10, <3>1, BecomeTyped DEF Reparent
  <2>3. parent' \in [Categories -> Categories \cup {None, Root, Gone}]
    BY <1>10, <2>1 DEF Reparent, TypeOK
  <2>4. \A d \in Categories : HasCategory(d) => HasCategory(d)'
    BY <1>10, <2>1 DEF Reparent, TypeOK, HasCategory, None, Root, Gone
  <2>5. \A d \in Categories : parent'[d] \in Categories => HasCategory(parent'[d])
    BY <1>10, <2>1 DEF Reparent, TypeOK, ParentOk, HasCategory, Children
  <2>6. \A d \in Categories : parent'[d] \in Categories => HasCategory(parent[d])'
    BY <2>3, <2>4, <2>5
  <2>7. \A p \in Products : HasProduct(p) => product[p].category \in Categories \cup {None}
    BY DEF TypeOK, HasProduct, Product, NoRow, ProductStatus, None, Gone
  <2>8. \A p \in Products : HasProduct(p)' => CategoryOk(product[p].category)'
    BY <1>10, <2>4, <2>7 DEF Reparent, TypeOK, HasProduct, CategoryOk
  <2> QED BY <1>10, <2>2, <2>3, <2>6, <2>8 DEF Reparent, TypeOK
<1>11. ASSUME DeleteCategory(w) PROVE TypeOK'
  <2>1. worker[w].cat \in Categories
    BY <1>11 DEF DeleteCategory, At, TypeOK, Request, Idle
  <2>2. worker' \in [Workers -> Request \cup {Idle}]
    BY <1>11, BecomeTyped DEF DeleteCategory, Finish
  <2>3. parent' \in [Categories -> Categories \cup {None, Root, Gone}]
    BY <1>11, <2>1 DEF DeleteCategory, TypeOK
  <2>4. CASE ~HasCategory(worker[w].cat)
    BY <1>11, <2>2, <2>4 DEF DeleteCategory, TypeOK, HasProduct, HasCategory, CategoryOk, history
  <2>5. CASE HasCategory(worker[w].cat)
    <3>1. ~Referenced(worker[w].cat) /\ parent' = [parent EXCEPT ![worker[w].cat] = Gone]
      BY <1>11, <2>5 DEF DeleteCategory
    <3>2. \A d \in Categories \ {worker[w].cat} : HasCategory(d) => HasCategory(d)'
      BY <3>1 DEF HasCategory, TypeOK
    <3>3. \A d \in Categories : parent'[d] \in Categories =>
             parent[d] = parent'[d] /\ parent[d] # worker[w].cat
      BY <2>1, <3>1 DEF TypeOK, Referenced, Children
    <3>4. \A d \in Categories : parent'[d] \in Categories => HasCategory(parent[d])'
      BY <3>2, <3>3 DEF TypeOK
    <3>5. \A p \in Products : HasProduct(p) => product[p].category \in (Categories \cup {None}) \ {worker[w].cat}
      BY <3>1 DEF Referenced, TypeOK, HasProduct, Product, NoRow, ProductStatus, None, Gone
    <3>6. \A p \in Products : HasProduct(p)' => CategoryOk(product[p].category)'
      BY <1>11, <3>2, <3>5 DEF DeleteCategory, TypeOK, HasProduct, CategoryOk
    <3> QED BY <1>11, <2>2, <2>3, <3>4, <3>6 DEF DeleteCategory, TypeOK, history
  <2> QED BY <2>4, <2>5
<1> QED
  BY <1>1, <1>2, <1>3, <1>4, <1>5, <1>6, <1>7, <1>8, <1>9, <1>10, <1>11 DEF CategoryRequest

\* A step that may change product rows, but no category, and hides what it hides.
LEMMA ProductsTyped ==
    ASSUME TypeOK, worker' \in [Workers -> Request \cup {Idle}],
           product' \in [Products -> Product \cup {NoRow, [status |-> Gone]}],
           hidden' \in [Products -> {"no", "hidden"}],
           UNCHANGED <<parent, attribute, serves, raced, initialised, edited>>,
           \A p \in Products : product'[p] # product[p] /\ product'[p].status \in ProductStatus =>
               CategoryOk(product'[p].category)
    PROVE  TypeOK'
<1>1. \A p \in Products : HasProduct(p)' => CategoryOk(product[p].category)'
  BY DEF TypeOK, HasProduct, CategoryOk, HasCategory
<1> QED BY <1>1 DEF TypeOK, HasCategory

LEMMA ProductStepTypeOK ==
    ASSUME TypeOK, NEW w \in Workers, ProductRequest(w)
    PROVE  TypeOK'
<1> USE CatalogAssumption
<1>1. ASSUME NEW ps \in SUBSET Products, NEW r \in Choices, StartImport(w, ps, r) PROVE TypeOK'
  <2>1. r \in Product
    BY DEF Choices, Product, ProductStatus, Inventory
  <2>2. [pc |-> "import", todo |-> ps, row |-> r] \in Request BY <2>1 DEF Request
  <2> QED BY <1>1, <2>2, BecomeTyped, OnlyBecome DEF StartImport, rows, Same
<1>2. ASSUME NEW p \in Products, NEW f \in Field, StartUpdate(w, p, f) PROVE TypeOK'
  <2>1. [pc |-> "update", product |-> p, field |-> f] \in Request BY DEF Request
  <2> QED BY <1>2, <2>1, BecomeTyped, OnlyBecome DEF StartUpdate, rows, Same
<1>3. ASSUME NEW p \in Products, StartRemoveProduct(w, p) PROVE TypeOK'
  <2>1. [pc |-> "removeProduct", product |-> p] \in Request BY DEF Request
  <2> QED BY <1>3, <2>1, BecomeTyped, OnlyBecome DEF StartRemoveProduct, rows, Same
<1>4. ASSUME NEW p \in Products, NEW n \in 0..MaxStock, StartStock(w, p, n) PROVE TypeOK'
  <2>1. [pc |-> "stock", product |-> p, quantity |-> n] \in Request BY DEF Request
  <2> QED BY <1>4, <2>1, BecomeTyped, OnlyBecome DEF StartStock, rows, Same
<1>5. ASSUME Import(w) PROVE TypeOK'
  <2>1. worker[w].row \in Product
    BY <1>5 DEF Import, At, TypeOK, Request, Idle
  <2>2. worker' \in [Workers -> Request \cup {Idle}]
    BY <1>5, BecomeTyped DEF Import, Finish
  <2>3. product' \in [Products -> Product \cup {NoRow, [status |-> Gone]}]
    BY <1>5, <2>1 DEF Import, TypeOK
  <2>4. hidden' \in [Products -> {"no", "hidden"}]
    BY <1>5 DEF Import, TypeOK
  <2>5. \A p \in Products : product'[p] # product[p] => CategoryOk(product'[p].category)
    BY <1>5 DEF Import, TypeOK
  <2> QED BY <1>5, <2>2, <2>3, <2>4, <2>5, ProductsTyped DEF Import
<1>6. ASSUME UpdateProduct(w) PROVE TypeOK'
  <2> DEFINE p == worker[w].product
             f == worker[w].field
  <2>1. p \in Products /\ f \in Field
    BY <1>6 DEF UpdateProduct, At, TypeOK, Request, Idle
  <2>2. worker' \in [Workers -> Request \cup {Idle}]
    BY <1>6, BecomeTyped DEF UpdateProduct, Finish
  <2>3. CASE ~HasProduct(p)
    BY <1>6, <2>2, <2>3, OnlyBecome DEF UpdateProduct, Same, history
  <2>4. CASE HasProduct(p)
    <3>1. product[p] \in Product
      BY <2>1, <2>4 DEF TypeOK, HasProduct, ProductStatus, NoRow, None, Gone
    <3>2. product'[p] \in Product
      BY <1>6, <2>1, <2>4, <3>1 DEF UpdateProduct, TypeOK, Product, Field, ProductStatus
    <3>3. product' = [product EXCEPT ![p] = product'[p]]
      BY <1>6, <2>1, <2>4 DEF UpdateProduct, TypeOK
    <3>4. hidden' \in [Products -> {"no", "hidden"}]
      BY <1>6, <2>1, <2>4 DEF UpdateProduct, TypeOK
    <3>5. CategoryOk(product'[p].category)
      BY <1>6, <2>1, <2>4 DEF UpdateProduct, TypeOK
    <3> HIDE DEF p, f
    <3>6. product' \in [Products -> Product \cup {NoRow, [status |-> Gone]}]
      BY <2>1, <3>2, <3>3 DEF TypeOK
    <3>7. \A q \in Products : product'[q] # product[q] => CategoryOk(product'[q].category)
      BY <2>1, <3>3, <3>5 DEF TypeOK
    <3> QED BY <1>6, <2>2, <3>4, <3>6, <3>7, ProductsTyped DEF UpdateProduct
  <2> QED BY <2>3, <2>4
<1>7. ASSUME RemoveProduct(w) PROVE TypeOK'
  <2>1. worker[w].product \in Products
    BY <1>7 DEF RemoveProduct, At, TypeOK, Request, Idle
  <2>2. worker' \in [Workers -> Request \cup {Idle}]
    BY <1>7, BecomeTyped DEF RemoveProduct, Finish
  <2>3. /\ product' \in [Products -> Product \cup {NoRow, [status |-> Gone]}]
        /\ hidden' \in [Products -> {"no", "hidden"}]
    BY <1>7, <2>1 DEF RemoveProduct, TypeOK
  <2>4. \A q \in Products : product'[q] # product[q] => product'[q].status \notin ProductStatus
    BY <1>7, <2>1 DEF RemoveProduct, TypeOK, ProductStatus, Gone
  <2> QED BY <1>7, <2>2, <2>3, <2>4, ProductsTyped DEF RemoveProduct
<1>8. ASSUME ReadStock(w) PROVE TypeOK'
  <2> DEFINE p == worker[w].product
             n == worker[w].quantity
             r == [product[p] EXCEPT !.stock = n, !.status = StatusAfter(product[p], n)]
  <2>1. p \in Products /\ n \in 0..MaxStock
    BY <1>8 DEF ReadStock, At, TypeOK, Request, Idle
  <2>2. HasProduct(p) => [pc |-> "save", product |-> p, row |-> r] \in Request
    <3>1. SUFFICES ASSUME HasProduct(p) PROVE r \in Product
      BY <2>1 DEF Request
    <3>2. product[p] \in Product
      BY <2>1, <3>1 DEF TypeOK, HasProduct, ProductStatus, NoRow, None, Gone
    <3>3. StatusAfter(product[p], n) \in ProductStatus
      BY <3>2 DEF StatusAfter, Product, ProductStatus
    <3> QED BY <2>1, <3>2, <3>3 DEF Product
  <2>3. worker' \in [Workers -> Request \cup {Idle}]
    BY <1>8, <2>2, BecomeTyped DEF ReadStock, Finish
  <2> QED BY <1>8, <2>3, OnlyBecome DEF ReadStock, rows, Same
<1>9. ASSUME SaveStock(w) PROVE TypeOK'
  <2>1. worker[w].product \in Products /\ worker[w].row \in Product
    BY <1>9 DEF SaveStock, At, TypeOK, Request, Idle
  <2>2. worker' \in [Workers -> Request \cup {Idle}]
    BY <1>9, BecomeTyped DEF SaveStock, Finish
  <2>3. /\ product' \in [Products -> Product \cup {NoRow, [status |-> Gone]}]
        /\ hidden' \in [Products -> {"no", "hidden"}]
    BY <1>9, <2>1 DEF SaveStock, TypeOK
  <2>4. \A q \in Products : product'[q] # product[q] => CategoryOk(product'[q].category)
    BY <1>9, <2>1 DEF SaveStock, TypeOK
  <2> QED BY <1>9, <2>2, <2>3, <2>4, ProductsTyped DEF SaveStock
<1> QED
  BY <1>1, <1>2, <1>3, <1>4, <1>5, <1>6, <1>7, <1>8, <1>9 DEF ProductRequest
\* A step that changes attribute rows only.
LEMMA AttributesTyped ==
    ASSUME TypeOK, worker' \in [Workers -> Request \cup {Idle}],
           attribute' \in [Attributes -> Attribute \cup {NoAttribute, [code |-> Gone]}],
           edited' \in {"yes", "no"}, initialised' \in {"yes", "no"},
           UNCHANGED <<parent, product, serves, raced, hidden>>
    PROVE  TypeOK'
BY DEF TypeOK, HasProduct, HasCategory, CategoryOk

\* What Insert does to a row.
LEMMA InsertTyped ==
    ASSUME TypeOK, NEW rs \in SUBSET Attribute, NEW ids \in [rs -> Attributes], Insert(rs, ids)
    PROVE  /\ attribute' \in [Attributes -> Attribute \cup {NoAttribute, [code |-> Gone]}]
           /\ \A a \in Attributes :
                 \/ attribute'[a] = attribute[a] /\ \A r \in rs : ids[r] # a
                 \/ \E r \in rs : /\ ids[r] = a /\ attribute'[a] = r
                                  /\ attribute[a] = NoAttribute /\ ~Taken(r.code)
<1>1. \A a \in Attributes : (\E r \in rs : ids[r] = a) =>
          \E r \in rs : ids[r] = a /\ r = CHOOSE q \in rs : ids[q] = a
  OBVIOUS
<1>2. \A a \in Attributes :
          \/ attribute'[a] = attribute[a] /\ \A r \in rs : ids[r] # a
          \/ \E r \in rs : /\ ids[r] = a /\ attribute'[a] = r
                           /\ attribute[a] = NoAttribute /\ ~Taken(r.code)
  BY <1>1 DEF Insert
<1>3. attribute' \in [Attributes -> Attribute \cup {NoAttribute, [code |-> Gone]}]
  <2>1. \A a \in Attributes : attribute'[a] \in Attribute \cup {NoAttribute, [code |-> Gone]}
    BY <1>2 DEF TypeOK
  <2> QED BY <2>1 DEF Insert
<1> QED BY <1>2, <1>3

LEMMA AttributeStepTypeOK ==
    ASSUME TypeOK, NEW w \in Workers, AttributeRequest(w)
    PROVE  TypeOK'
<1>1. ASSUME NEW rs \in SUBSET Attribute, StartCreateAttributes(w, rs) PROVE TypeOK'
  <2>1. [pc |-> "insertAttributes", todo |-> rs] \in Request BY DEF Request
  <2> QED BY <1>1, <2>1, BecomeTyped, OnlyBecome DEF StartCreateAttributes, rows, Same
<1>2. ASSUME At(w, "insertAttributes"), NEW ids \in [worker[w].todo -> Attributes], InsertAttributes(w, ids)
      PROVE  TypeOK'
  <2>1. worker[w].todo \in SUBSET Attribute
    BY <1>2 DEF At, TypeOK, Request, Idle
  <2>2. worker' \in [Workers -> Request \cup {Idle}]
    BY <1>2, BecomeTyped DEF InsertAttributes, Finish
  <2> QED BY <1>2, <2>1, <2>2, InsertTyped, AttributesTyped DEF InsertAttributes, history, TypeOK
<1>3. ASSUME NEW a \in Attributes, StartRemoveAttribute(w, a) PROVE TypeOK'
  <2>1. [pc |-> "removeAttribute", attr |-> a] \in Request BY DEF Request
  <2> QED BY <1>3, <2>1, BecomeTyped, OnlyBecome DEF StartRemoveAttribute, rows, Same
<1>4. ASSUME NEW a \in Attributes, NEW r \in Attribute, StartUpdateAttribute(w, a, r) PROVE TypeOK'
  <2>1. [pc |-> "updateAttribute", attr |-> a, row |-> r] \in Request BY DEF Request
  <2> QED BY <1>4, <2>1, BecomeTyped, OnlyBecome DEF StartUpdateAttribute, rows, Same
<1>5. ASSUME UpdateAttribute(w) PROVE TypeOK'
  <2>1. worker[w].row \in Attribute
    BY <1>5 DEF UpdateAttribute, At, TypeOK, Request, Idle
  <2>2. worker' \in [Workers -> Request \cup {Idle}]
    BY <1>5, BecomeTyped DEF UpdateAttribute, Finish
  <2> QED BY <1>5, <2>1, <2>2, AttributesTyped DEF UpdateAttribute, TypeOK
<1>6. ASSUME RemoveAttribute(w) PROVE TypeOK'
  <2>1. worker' \in [Workers -> Request \cup {Idle}]
    BY <1>6, BecomeTyped DEF RemoveAttribute, Finish
  <2> QED BY <1>6, <2>1, AttributesTyped DEF RemoveAttribute, history, TypeOK
<1>7. ASSUME NEW ids \in [DefaultRows -> Attributes], InitializeDefaults(w, ids) PROVE TypeOK'
  <2>1. DefaultRows \in SUBSET Attribute
    BY CatalogAssumption DEF DefaultRows, Attribute
  <2> QED BY <1>7, <2>1, InsertTyped, AttributesTyped DEF InitializeDefaults, TypeOK
<1> QED
  BY <1>1, <1>2, <1>3, <1>4, <1>5, <1>6, <1>7 DEF AttributeRequest

LEMMA StepTypeOK == TypeOK /\ [Next]_vars => TypeOK'
<1> SUFFICES ASSUME TypeOK, [Next]_vars PROVE TypeOK'
  OBVIOUS
<1>1. ASSUME NEW w \in Workers, Fail(w) PROVE TypeOK'
  <2>1. worker' \in [Workers -> Request \cup {Idle}]
    BY <1>1, BecomeTyped DEF Fail, Finish
  <2> QED BY <1>1, <2>1, OnlyBecome DEF Fail, rows, Same
<1>2. CASE UNCHANGED vars
  BY <1>2, OnlyBecome DEF vars, history, Same, TypeOK
<1> QED
  BY <1>1, <1>2, CategoryStepTypeOK, ProductStepTypeOK, AttributeStepTypeOK DEF Next

-----------------------------------------------------------------------------
(* What stock writes and removals carry *)

\* A step that leaves products alone, and starts no save.
LEMMA HiddenKept ==
    ASSUME HiddenStaysHidden, SavesHidden, UNCHANGED <<product, hidden>>,
           \A w \in Workers : worker'[w].pc = "save" => worker'[w] = worker[w]
    PROVE  HiddenStaysHidden' /\ SavesHidden'
BY DEF HiddenStaysHidden, SavesHidden

\* A step that leaves attributes alone, and starts no removal.
LEMMA DefaultsKept ==
    ASSUME DefaultsStay, RemovesOwn, CodesUnique, UNCHANGED <<attribute, initialised, edited>>,
           \A w \in Workers : worker'[w].pc = "removeAttribute" => worker'[w] = worker[w]
    PROVE  DefaultsStay' /\ RemovesOwn' /\ CodesUnique'
BY DEF DefaultsStay, RemovesOwn, CodesUnique, HasAttribute

\* A worker that turns to something else than pc leaves the others where they are.
LEMMA NotTo ==
    ASSUME TypeOK, NEW w \in Workers, NEW r, Become(w, r), NEW pc, r.pc # pc
    PROVE  \A v \in Workers : worker'[v].pc = pc => worker'[v] = worker[v]
BY DEF TypeOK, Become
\* Category requests end in no save and no removal of an attribute.
LEMMA CategoryApart ==
    ASSUME TypeOK, NEW w \in Workers, CategoryRequest(w) \/ Fail(w)
    PROVE  /\ UNCHANGED <<product, hidden, attribute, initialised, edited>>
           /\ \A v \in Workers : worker'[v].pc \in {"save", "removeAttribute"} => worker'[v] = worker[v]
<1> SUFFICES ASSUME NEW v \in Workers
    PROVE  /\ UNCHANGED <<product, hidden, attribute, initialised, edited>>
           /\ worker'[v].pc \in {"save", "removeAttribute"} => worker'[v] = worker[v]
  OBVIOUS
<1> USE DEF TypeOK, Become, Finish, Idle, rows, history
<1>1. CASE FindTarget(w) \/ Walk(w)
  BY <1>1 DEF FindTarget, Walk, Checks, Passes
<1>2. CASE CountProducts(w) \/ ReadChildren(w)
  BY <1>2 DEF CountProducts, ReadChildren
<1>3. CASE WriteMove(w) \/ Reparent(w)
  BY <1>3 DEF WriteMove, Reparent
<1>4. CASE DeleteCategory(w) \/ Fail(w)
  BY <1>4 DEF DeleteCategory, Fail
<1>5. CASE \E q \in Categories \cup {Root} :
          StartCreateCategory(w, q) \/ \E c \in Categories : StartMove(w, c, q)
  BY <1>5 DEF StartCreateCategory, StartMove
<1>6. CASE \E c \in Categories : InsertCategory(w, c) \/ StartRemove(w, c)
  BY <1>6 DEF InsertCategory, StartRemove
<1> QED
  BY <1>1, <1>2, <1>3, <1>4, <1>5, <1>6 DEF CategoryRequest

LEMMA ProductStepHidden ==
    ASSUME TypeOK, HiddenStaysHidden, SavesHidden, NEW w \in Workers, ProductRequest(w)
    PROVE  HiddenStaysHidden' /\ SavesHidden'
<1>1. ASSUME NEW ps \in SUBSET Products, NEW r \in Choices, StartImport(w, ps, r)
      PROVE  HiddenStaysHidden' /\ SavesHidden'
  BY <1>1, NotTo, HiddenKept DEF StartImport, rows, history
<1>2. ASSUME NEW p \in Products, NEW f \in Field, StartUpdate(w, p, f)
      PROVE  HiddenStaysHidden' /\ SavesHidden'
  BY <1>2, NotTo, HiddenKept DEF StartUpdate, rows, history
<1>3. ASSUME NEW p \in Products, StartRemoveProduct(w, p)
      PROVE  HiddenStaysHidden' /\ SavesHidden'
  BY <1>3, NotTo, HiddenKept DEF StartRemoveProduct, rows, history
<1>4. ASSUME NEW p \in Products, NEW n \in 0..MaxStock, StartStock(w, p, n)
      PROVE  HiddenStaysHidden' /\ SavesHidden'
  BY <1>4, NotTo, HiddenKept DEF StartStock, rows, history
<1>5. CASE Import(w)
  <2>1. \A v \in Workers : worker'[v].pc = "save" => worker'[v] = worker[v]
    BY <1>5, NotTo DEF Import, Finish, Idle
  <2>2. HiddenStaysHidden'
    BY <1>5 DEF Import, HiddenStaysHidden, TypeOK
  <2>3. \A v \in Workers : worker[v].pc = "save" => worker[v].product \in Products
    BY DEF TypeOK, Request, Idle
  <2>4. worker[w].row # NoRow
    BY <1>5 DEF Import, At, TypeOK, Request, Idle, Product, ProductStatus, NoRow, None
  <2>5. SavesHidden'
    BY <1>5, <2>1, <2>3, <2>4 DEF Import, SavesHidden, TypeOK
  <2> QED BY <2>2, <2>5
<1>6. CASE UpdateProduct(w)
  <2> DEFINE p == worker[w].product
             f == worker[w].field
  <2>1. p \in Products /\ f \in Field
    BY <1>6 DEF UpdateProduct, At, TypeOK, Request, Idle
  <2>2. \A v \in Workers : worker'[v].pc = "save" => worker'[v] = worker[v]
    BY <1>6, NotTo DEF UpdateProduct, Finish, Idle
  <2>3. CASE ~HasProduct(p)
    BY <1>6, <2>2, <2>3, HiddenKept DEF UpdateProduct
  <2>4. CASE HasProduct(p)
    <3>1. HiddenStaysHidden'
      BY <1>6, <2>1, <2>4 DEF UpdateProduct, HiddenStaysHidden, TypeOK, Field
    <3>2. \A v \in Workers : worker[v].pc = "save" => worker[v].product \in Products
      BY DEF TypeOK, Request, Idle
    <3>3. product'[p] # NoRow
      BY <1>6, <2>1, <2>4 DEF UpdateProduct, NoRow, TypeOK
    <3>4. \A q \in Products : hidden'[q] = "hidden" => hidden[q] = "hidden" \/ ~Saving(q)
      BY <1>6, <2>1, <2>4 DEF UpdateProduct, TypeOK
    <3>5. \A q \in Products : product'[q] = product[q] \/ q = p
      BY <1>6, <2>1, <2>4 DEF UpdateProduct, TypeOK
    <3> HIDE DEF p, f
    <3> QED BY <2>2, <3>1, <3>2, <3>3, <3>4, <3>5 DEF SavesHidden, Saving, At
  <2> QED BY <2>3, <2>4
<1>7. CASE RemoveProduct(w)
  <2>1. \A v \in Workers : worker'[v].pc = "save" => worker'[v] = worker[v]
    BY <1>7, NotTo DEF RemoveProduct, Finish, Idle
  <2>2. HiddenStaysHidden'
    BY <1>7 DEF RemoveProduct, HiddenStaysHidden, TypeOK
  <2>3. [status |-> Gone] # NoRow
    BY DEF NoRow, Gone, None
  <2>4. \A v \in Workers : worker[v].pc = "save" => worker[v].product \in Products
    BY DEF TypeOK, Request, Idle
  <2> QED BY <1>7, <2>1, <2>2, <2>3, <2>4 DEF RemoveProduct, SavesHidden, TypeOK
<1>8. CASE ReadStock(w)
  <2> DEFINE p == worker[w].product
             n == worker[w].quantity
             r == [product[p] EXCEPT !.stock = n, !.status = StatusAfter(product[p], n)]
  <2>1. p \in Products
    BY <1>8 DEF ReadStock, At, TypeOK, Request, Idle
  <2>2. CASE ~HasProduct(p) \/ product[p].inventory = "unmanaged"
    BY <1>8, <2>2, NotTo, HiddenKept DEF ReadStock, Finish, Idle, rows, history
  <2>3. CASE HasProduct(p) /\ product[p].inventory # "unmanaged"
    <3>1. Become(w, [pc |-> "save", product |-> p, row |-> r]) /\ UNCHANGED <<product, hidden>>
      BY <1>8, <2>3 DEF ReadStock, rows, history
    <3>2. product[p] # NoRow
      BY <2>3 DEF HasProduct, NoRow, ProductStatus, None
    <3>3. product[p] \in Product
      BY <2>1, <2>3 DEF TypeOK, HasProduct, ProductStatus, NoRow, None, Gone
    <3>4. hidden[p] = "hidden" => r.status # "active"
      BY <2>1, <3>3 DEF HiddenStaysHidden, StatusAfter, Product
    <3> HIDE DEF r
    <3>5. SavesHidden'
      BY <3>1, <3>2, <3>4 DEF Become, SavesHidden, TypeOK
    <3> QED BY <3>1, <3>5 DEF HiddenStaysHidden
  <2> QED BY <2>2, <2>3
<1>9. CASE SaveStock(w)
  <2> DEFINE p == worker[w].product
             r == worker[w].row
  <2>1. p \in Products /\ r \in Product /\ r # NoRow
    BY <1>9 DEF SaveStock, At, TypeOK, Request, Idle, Product, ProductStatus, NoRow, None
  <2>2. \A v \in Workers : worker'[v].pc = "save" => worker'[v] = worker[v]
    BY <1>9, NotTo DEF SaveStock, Finish, Idle
  <2>3. hidden[p] = "hidden" => r.status # "active"
    BY <1>9 DEF SaveStock, At, SavesHidden
  <2>4. HiddenStaysHidden'
    BY <1>9, <2>1, <2>3 DEF SaveStock, HiddenStaysHidden, TypeOK, Product, ProductStatus
  <2>5. \A v \in Workers : worker[v].pc = "save" => worker[v].product \in Products
    BY DEF TypeOK, Request, Idle
  <2>6. \A q \in Products : hidden'[q] = "hidden" => hidden[q] = "hidden"
    BY <1>9, <2>1 DEF SaveStock, TypeOK
  <2>7. \A q \in Products : product'[q] = product[q] \/ product'[q] # NoRow
    BY <1>9, <2>1 DEF SaveStock, TypeOK
  <2> QED BY <2>2, <2>4, <2>5, <2>6, <2>7 DEF SavesHidden
<1> QED
  BY <1>1, <1>2, <1>3, <1>4, <1>5, <1>6, <1>7, <1>8, <1>9 DEF ProductRequest
\* Product and attribute requests leave each other's rows alone.
LEMMA ProductApart ==
    ASSUME TypeOK, NEW w \in Workers, ProductRequest(w)
    PROVE  /\ UNCHANGED <<attribute, initialised, edited>>
           /\ \A v \in Workers : worker'[v].pc = "removeAttribute" => worker'[v] = worker[v]
<1> SUFFICES ASSUME NEW v \in Workers
    PROVE  /\ UNCHANGED <<attribute, initialised, edited>>
           /\ worker'[v].pc = "removeAttribute" => worker'[v] = worker[v]
  OBVIOUS
<1> USE DEF TypeOK, Become, Finish, Idle, rows, history
<1>1. CASE \E ps \in SUBSET Products, r \in Choices : StartImport(w, ps, r)
  BY <1>1 DEF StartImport
<1>2. CASE \E p \in Products :
          \/ \E f \in Field : StartUpdate(w, p, f)
          \/ StartRemoveProduct(w, p)
          \/ \E n \in 0..MaxStock : StartStock(w, p, n)
  BY <1>2 DEF StartUpdate, StartRemoveProduct, StartStock
<1>3. CASE Import(w) \/ UpdateProduct(w) \/ RemoveProduct(w)
  BY <1>3 DEF Import, UpdateProduct, RemoveProduct
<1>4. CASE ReadStock(w) \/ SaveStock(w)
  BY <1>4 DEF ReadStock, SaveStock
<1> QED
  BY <1>1, <1>2, <1>3, <1>4 DEF ProductRequest

LEMMA AttributeApart ==
    ASSUME TypeOK, NEW w \in Workers, AttributeRequest(w)
    PROVE  /\ UNCHANGED <<product, hidden>>
           /\ \A v \in Workers : worker'[v].pc = "save" => worker'[v] = worker[v]
<1> SUFFICES ASSUME NEW v \in Workers
    PROVE  /\ UNCHANGED <<product, hidden>>
           /\ worker'[v].pc = "save" => worker'[v] = worker[v]
  OBVIOUS
<1> USE DEF TypeOK, Become, Finish, Idle, rows, history
<1>1. CASE \E rs \in SUBSET Attribute : StartCreateAttributes(w, rs)
  BY <1>1 DEF StartCreateAttributes
<1>2. CASE \E ids \in [worker[w].todo -> Attributes] : InsertAttributes(w, ids)
  BY <1>2 DEF InsertAttributes
<1>3. CASE \E a \in Attributes :
          StartRemoveAttribute(w, a) \/ \E r \in Attribute : StartUpdateAttribute(w, a, r)
  BY <1>3 DEF StartRemoveAttribute, StartUpdateAttribute
<1>4. CASE UpdateAttribute(w) \/ RemoveAttribute(w)
  BY <1>4 DEF UpdateAttribute, RemoveAttribute
<1>5. CASE \E ids \in [DefaultRows -> Attributes] : InitializeDefaults(w, ids)
  BY <1>5 DEF InitializeDefaults
<1> QED
  BY <1>1, <1>2, <1>3, <1>4, <1>5 DEF AttributeRequest

\* New rows have new codes, and no removal knows them.
LEMMA InsertKeeps ==
    ASSUME TypeOK, DefaultsStay, RemovesOwn, CodesUnique, UNCHANGED <<initialised, edited>>,
           NEW rs \in SUBSET Attribute, NEW ids \in [rs -> Attributes], Insert(rs, ids),
           \A v \in Workers : worker'[v].pc = "removeAttribute" => worker'[v] = worker[v]
    PROVE  DefaultsStay' /\ RemovesOwn' /\ CodesUnique'
<1>1. \A a \in Attributes :
          \/ attribute'[a] = attribute[a] /\ \A r \in rs : ids[r] # a
          \/ \E r \in rs : /\ ids[r] = a /\ attribute'[a] = r
                           /\ attribute[a] = NoAttribute /\ ~Taken(r.code)
  BY InsertTyped
<1>2. \A r, q \in rs : r # q => r.code # q.code
  BY DEF Insert
<1>3. \A r \in rs : r.code \in Codes /\ r # NoAttribute
  BY CatalogAssumption DEF Attribute, NoAttribute
<1>4. CodesUnique'
  BY <1>1, <1>2, <1>3 DEF CodesUnique, HasAttribute, Taken
<1>5. DefaultsStay'
  BY <1>1, CatalogAssumption DEF DefaultsStay, NoAttribute
<1>6. \A v \in Workers : worker[v].pc = "removeAttribute" => worker[v].attr \in Attributes
  BY DEF TypeOK, Request, Idle
<1>7. RemovesOwn'
  BY <1>1, <1>6 DEF RemovesOwn
<1> QED BY <1>4, <1>5, <1>7

LEMMA AttributeStepDefaults ==
    ASSUME TypeOK, DefaultsStay, RemovesOwn, CodesUnique, NEW w \in Workers, AttributeRequest(w)
    PROVE  DefaultsStay' /\ RemovesOwn' /\ CodesUnique'
<1> DEFINE Goal == DefaultsStay' /\ RemovesOwn' /\ CodesUnique'
<1>0. \A v \in Workers : worker[v].pc = "removeAttribute" => worker[v].attr \in Attributes
  BY DEF TypeOK, Request, Idle
<1>1. ASSUME NEW rs \in SUBSET Attribute, StartCreateAttributes(w, rs) PROVE Goal
  BY <1>1, NotTo, DefaultsKept DEF StartCreateAttributes, rows, history
<1>2. ASSUME At(w, "insertAttributes"), NEW ids \in [worker[w].todo -> Attributes], InsertAttributes(w, ids)
      PROVE  Goal
  <2>1. worker[w].todo \in SUBSET Attribute
    BY <1>2 DEF At, TypeOK, Request, Idle
  <2>2. \A v \in Workers : worker'[v].pc = "removeAttribute" => worker'[v] = worker[v]
    BY <1>2, NotTo DEF InsertAttributes, Finish, Idle
  <2> QED BY <1>2, <2>1, <2>2, InsertKeeps DEF InsertAttributes, history
<1>3. ASSUME NEW a \in Attributes, StartRemoveAttribute(w, a) PROVE Goal
  <2>1. attribute[a] # NoAttribute
    BY <1>3, CatalogAssumption DEF StartRemoveAttribute, HasAttribute, NoAttribute
  <2>2. initialised = "yes" /\ edited = "no" => attribute[a].code \notin Defaults
    <3>1. attribute[a].system = "no" /\ HasAttribute(a)
      BY <1>3 DEF StartRemoveAttribute
    <3>2. SUFFICES ASSUME initialised = "yes", edited = "no", attribute[a].code \in Defaults PROVE FALSE
      OBVIOUS
    <3>3. PICK b \in Attributes : attribute[b] = [code |-> attribute[a].code, system |-> "yes"]
      BY <3>2 DEF DefaultsStay
    <3> QED BY <3>1, <3>3 DEF CodesUnique
  <2>3. RemovesOwn'
    BY <1>3, <2>1, <2>2 DEF StartRemoveAttribute, RemovesOwn, Become, TypeOK, rows, history
  <2> QED BY <1>3, <2>3 DEF StartRemoveAttribute, rows, history, DefaultsStay, CodesUnique, HasAttribute
<1>4. ASSUME NEW a \in Attributes, NEW r \in Attribute, StartUpdateAttribute(w, a, r) PROVE Goal
  BY <1>4, NotTo, DefaultsKept DEF StartUpdateAttribute, rows, history
<1>5. CASE UpdateAttribute(w)
  <2> DEFINE a == worker[w].attr
             r == worker[w].row
  <2>1. a \in Attributes /\ r \in Attribute
    BY <1>5 DEF UpdateAttribute, At, TypeOK, Request, Idle
  <2>2. \A v \in Workers : worker'[v].pc = "removeAttribute" => worker'[v] = worker[v]
    BY <1>5, NotTo DEF UpdateAttribute, Finish, Idle
  <2>3. CASE ~HasAttribute(a)
    BY <1>5, <2>2, <2>3, DefaultsKept DEF UpdateAttribute
  <2>4. CASE HasAttribute(a)
    <3>1. /\ attribute' = [attribute EXCEPT ![a] = r]
          /\ r.code # attribute[a].code => ~Taken(r.code)
          /\ initialised' = initialised
          /\ edited' = IF attribute[a].system = "yes" THEN "yes" ELSE edited
      BY <1>5, <2>4 DEF UpdateAttribute
    <3>2. r.code \in Codes /\ r # NoAttribute
      BY <2>1, CatalogAssumption DEF Attribute, NoAttribute
    <3> HIDE DEF a, r
    <3>3. CodesUnique'
      BY <2>1, <2>4, <3>1, <3>2 DEF CodesUnique, HasAttribute, Taken, TypeOK
    <3>4. DefaultsStay'
      BY <2>1, <2>4, <3>1 DEF DefaultsStay, TypeOK
    <3>5. initialised = "yes" /\ edited' = "no" => r.code = attribute[a].code \/ r.code \notin Defaults
      <4>1. SUFFICES ASSUME initialised = "yes", edited' = "no", r.code \in Defaults, r.code # attribute[a].code
                     PROVE  FALSE
        OBVIOUS
      <4>2. edited = "no"
        BY <3>1, <4>1
      <4>3. PICK b \in Attributes : attribute[b] = [code |-> r.code, system |-> "yes"]
        BY <4>1, <4>2 DEF DefaultsStay
      <4> QED BY <3>1, <4>1, <4>3 DEF Taken
    <3>6. RemovesOwn'
      BY <1>0, <2>1, <2>2, <3>1, <3>2, <3>5 DEF RemovesOwn, TypeOK
    <3> QED BY <3>3, <3>4, <3>6
  <2> QED BY <2>3, <2>4
<1>6. CASE RemoveAttribute(w)
  <2> DEFINE a == worker[w].attr
  <2>1. a \in Attributes /\ worker[w].pc = "removeAttribute"
    BY <1>6, <1>0 DEF RemoveAttribute, At
  <2>2. \A v \in Workers : worker'[v].pc = "removeAttribute" => worker'[v] = worker[v]
    BY <1>6, NotTo DEF RemoveAttribute, Finish, Idle
  <2>3. attribute' = [attribute EXCEPT ![a] = [code |-> Gone]] /\ UNCHANGED <<initialised, edited>>
    BY <1>6 DEF RemoveAttribute, history
  <2>4. initialised = "yes" /\ edited = "no" => attribute[a].code \notin Defaults
    BY <2>1 DEF RemovesOwn
  <2>5. [code |-> Gone] # NoAttribute /\ Gone \notin Codes /\ Gone \notin Defaults
    BY CatalogAssumption DEF NoAttribute, None, Gone
  <2> HIDE DEF a
  <2>6. CodesUnique'
    BY <2>1, <2>3, <2>5 DEF CodesUnique, HasAttribute, TypeOK
  <2>7. DefaultsStay'
    BY <2>1, <2>3, <2>4 DEF DefaultsStay, TypeOK
  <2>8. RemovesOwn'
    BY <1>0, <2>1, <2>2, <2>3, <2>5 DEF RemovesOwn, TypeOK
  <2> QED BY <2>6, <2>7, <2>8
<1>7. ASSUME NEW ids \in [DefaultRows -> Attributes], InitializeDefaults(w, ids) PROVE Goal
  <2>1. DefaultRows \in SUBSET Attribute
    BY CatalogAssumption DEF DefaultRows, Attribute
  <2>2. \A a \in Attributes :
            \/ attribute'[a] = attribute[a] /\ \A r \in DefaultRows : ids[r] # a
            \/ \E r \in DefaultRows : /\ ids[r] = a /\ attribute'[a] = r
                                      /\ attribute[a] = NoAttribute /\ ~Taken(r.code)
    BY <1>7, <2>1, InsertTyped DEF InitializeDefaults
  <2>3. UNCHANGED <<worker, edited>>
    BY <1>7 DEF InitializeDefaults
  <2>4. \A k \in Defaults : [code |-> k, system |-> "yes"] \in DefaultRows /\ ~Taken(k)
    <3>1. \A r \in DefaultRows : ~Taken(r.code)
      BY <1>7 DEF InitializeDefaults, Insert
    <3>2. \A k \in Defaults : [code |-> k, system |-> "yes"] \in DefaultRows
      BY DEF DefaultRows
    <3>3. \A k \in Defaults : [code |-> k, system |-> "yes"].code = k
      OBVIOUS
    <3> QED BY <3>1, <3>2, <3>3
  <2>5. DefaultsStay'
    <3>1. \A r \in DefaultRows : attribute'[ids[r]] = r
      BY <1>7 DEF InitializeDefaults, Insert
    <3> QED BY <2>4, <3>1 DEF DefaultsStay
  <2>6. CodesUnique'
    <3>1. \A r, q \in DefaultRows : r # q => r.code # q.code
      BY <1>7 DEF InitializeDefaults, Insert
    <3>2. \A r \in DefaultRows : r.code \in Codes
      BY <2>1 DEF Attribute
    <3> QED BY <2>2, <3>1, <3>2 DEF CodesUnique, HasAttribute, Taken
  <2>7. RemovesOwn'
    BY <1>0, <2>2, <2>3, <2>4 DEF RemovesOwn, Taken
  <2> QED BY <2>5, <2>6, <2>7
<1> QED
  BY <1>1, <1>2, <1>3, <1>4, <1>5, <1>6, <1>7 DEF AttributeRequest
LEMMA StepIInv == IInv /\ [Next]_vars => IInv'
<1> SUFFICES ASSUME IInv, [Next]_vars PROVE IInv'
  OBVIOUS
<1> USE DEF IInv
<1>1. TypeOK'
  BY StepTypeOK
<1>2. HiddenStaysHidden' /\ SavesHidden'
  <2>1. ASSUME NEW w \in Workers, CategoryRequest(w) \/ Fail(w) PROVE HiddenStaysHidden' /\ SavesHidden'
    BY <2>1, CategoryApart, HiddenKept
  <2>2. ASSUME NEW w \in Workers, AttributeRequest(w) PROVE HiddenStaysHidden' /\ SavesHidden'
    BY <2>2, AttributeApart, HiddenKept
  <2>3. CASE UNCHANGED vars
    BY <2>3, HiddenKept DEF vars, history
  <2> QED BY <2>1, <2>2, <2>3, ProductStepHidden DEF Next
<1>3. DefaultsStay' /\ RemovesOwn' /\ CodesUnique'
  <2>1. ASSUME NEW w \in Workers, CategoryRequest(w) \/ Fail(w)
        PROVE  DefaultsStay' /\ RemovesOwn' /\ CodesUnique'
    BY <2>1, CategoryApart, DefaultsKept
  <2>2. ASSUME NEW w \in Workers, ProductRequest(w)
        PROVE  DefaultsStay' /\ RemovesOwn' /\ CodesUnique'
    BY <2>2, ProductApart, DefaultsKept
  <2>3. CASE UNCHANGED vars
    BY <2>3, DefaultsKept DEF vars, history
  <2> QED BY <2>1, <2>2, <2>3, AttributeStepDefaults DEF Next
<1> QED BY <1>1, <1>2, <1>3

LEMMA IInvariant == Spec => []IInv
BY InitIInv, StepIInv, PTL DEF Spec

\* Rows and requests are typed, and no reference to a category dangles.
THEOREM CatalogTypeCorrect == Spec => []TypeOK
<1>1. IInv => TypeOK BY DEF IInv
<1> QED BY <1>1, IInvariant, PTL

\* Stock writes alone never put a hidden product on sale (updateStock).
THEOREM HiddenNotSold == Spec => []HiddenStaysHidden
<1>1. IInv => HiddenStaysHidden BY DEF IInv
<1> QED BY <1>1, IInvariant, PTL

\* No interleaving of attribute requests loses a default attribute.
THEOREM DefaultsKeptForGood == Spec => []DefaultsStay
<1>1. IInv => DefaultsStay BY DEF IInv
<1> QED BY <1>1, IInvariant, PTL

-----------------------------------------------------------------------------
(* The tree.  A request that is about to put a category below another has   *)
(* seen a trail of categories above the new parent that leaves the moved    *)
(* one out.                                                                 *)

\* T leads from `from` up to where a walk goes on, past c.
Trail(T, from, c, up) ==
    /\ from \in T /\ c \notin T
    /\ \A d \in T : parent[d] # None /\ (parent[d] \in Categories => parent[d] \in T \cup {up})
Clear(from, c, up) == \E T \in SUBSET Categories : Trail(T, from, c, up)

Careful(r) ==
    /\ r.pc = "target" => r.to # r.cat
    /\ r.pc = "walk" => Clear(r.to, r.cat, r.up)
    /\ r.pc = "write" /\ r.to # Root => Clear(r.to, r.cat, Root)
    /\ r.pc = "reparent" /\ r.up # Root => Clear(r.up, r.cat, Root)

TreeInv == raced = "no" => Acyclic /\ \A w \in Workers : Careful(worker[w])

\* No category is put below another, except a new one.
Prunes == \A d \in Categories :
    \/ parent'[d] = parent[d]
    \/ parent'[d] \in {Root, Gone}
    \/ parent[d] = None /\ parent'[d] \in Categories /\ HasCategory(parent'[d])

LEMMA ClearKept ==
    ASSUME Prunes, NEW from, NEW c, NEW up, Clear(from, c, up)
    PROVE  Clear(from, c, up)'
<1>1. PICK T \in SUBSET Categories : Trail(T, from, c, up) BY DEF Clear
<1>2. Trail(T, from, c, up)'
  BY <1>1, CatalogAssumption DEF Trail, Prunes, None, Root, Gone
<1> QED BY <1>2 DEF Clear

LEMMA CarefulKept ==
    ASSUME Prunes, NEW r, Careful(r)
    PROVE  Careful(r)'
<1>1. r.pc = "walk" => Clear(r.to, r.cat, r.up)' BY ClearKept DEF Careful
<1>2. r.pc = "write" /\ r.to # Root => Clear(r.to, r.cat, Root)' BY ClearKept DEF Careful
<1>3. r.pc = "reparent" /\ r.up # Root => Clear(r.up, r.cat, Root)' BY ClearKept DEF Careful
<1> QED BY <1>1, <1>2, <1>3 DEF Careful

LEMMA PruningKeepsAcyclic ==
    ASSUME TypeOK, Acyclic, Prunes
    PROVE  Acyclic'
<1> SUFFICES ASSUME NEW cs \in SUBSET Categories, cs # {}, \A c \in cs : parent'[c] \in cs
             PROVE  FALSE
  BY DEF Acyclic
<1> DEFINE old == {c \in cs : parent[c] # None}
<1>1. \A c \in cs : parent'[c] = parent[c] \/ (parent[c] = None /\ HasCategory(parent'[c]))
  BY CatalogAssumption DEF Prunes
<1>2. \A c \in old : parent[c] \in old
  BY <1>1 DEF TypeOK, HasCategory
<1>3. old # {}
  <2>1. PICK k \in cs : TRUE OBVIOUS
  <2>2. CASE parent[k] # None BY <2>2
  <2>3. CASE parent[k] = None
    <3>1. HasCategory(parent'[k]) \/ parent'[k] = None BY <1>1, <2>3
    <3> QED BY <2>3, <3>1, CatalogAssumption DEF HasCategory
  <2> QED BY <2>2, <2>3
<1> QED BY <1>2, <1>3 DEF Acyclic

\* The categories K go below up, from where a trail leads to the root past all of them.
LEMMA GraftingKeepsAcyclic ==
    ASSUME Acyclic, NEW K \in SUBSET Categories, NEW up, NEW T \in SUBSET Categories,
           up \in T, K \cap T = {},
           \A d \in T : parent[d] \in Categories => parent[d] \in T,
           \A d \in Categories : parent'[d] = IF d \in K THEN up ELSE parent[d]
    PROVE  Acyclic'
<1> SUFFICES ASSUME NEW cs \in SUBSET Categories, cs # {}, \A c \in cs : parent'[c] \in cs
             PROVE  FALSE
  BY DEF Acyclic
<1>1. CASE cs \cap K = {} BY <1>1 DEF Acyclic
<1>2. CASE cs \cap K # {}
  <2>1. up \in cs \cap T BY <1>2
  <2>2. \A d \in cs \cap T : parent[d] \in cs \cap T OBVIOUS
  <2> QED BY <2>1, <2>2 DEF Acyclic
<1> QED BY <1>1, <1>2

\* What is above a category in a forest is a trail past it: the least set that
\* holds its parent and the parents of its elements.
Upward(S) == \A d \in S : parent[d] \in Categories => parent[d] \in S

LEMMA AncestorsClear ==
    ASSUME TypeOK, Acyclic, NEW c \in Categories, parent[c] \in Categories
    PROVE  Clear(parent[c], c, Root)
<1> DEFINE L(x) == {d \in Categories : \A S \in SUBSET Categories : Upward(S) /\ x \in S => d \in S}
           A == {d \in L(parent[c]) : c \in L(d)}
<1>1. \A x \in Categories : x \in L(x) /\ Upward(L(x)) BY DEF Upward
<1>2. \A x \in Categories : \A S \in SUBSET Categories : Upward(S) /\ x \in S => L(x) \subseteq S
  OBVIOUS
<1> HIDE DEF L
<1>3. \A x \in Categories : L(x) \in SUBSET Categories BY DEF L
<1>4. ASSUME NEW d \in Categories, d # c, c \in L(d)
      PROVE  parent[d] \in Categories /\ c \in L(parent[d])
  <2>1. CASE parent[d] \notin Categories
    <3>1. Upward({d}) BY <2>1 DEF Upward
    <3> QED BY <1>2, <1>4, <3>1
  <2>2. CASE parent[d] \in Categories
    <3>1. Upward({d} \cup L(parent[d])) BY <1>1, <2>2 DEF Upward
    <3>2. {d} \cup L(parent[d]) \in SUBSET Categories BY <1>3, <2>2
    <3>3. L(d) \subseteq {d} \cup L(parent[d]) BY <1>2, <3>1, <3>2
    <3> QED BY <1>4, <2>2, <3>3
  <2> QED BY <2>1, <2>2
<1>5. c \notin L(parent[c])
  <2> SUFFICES ASSUME c \in L(parent[c]) PROVE FALSE
    OBVIOUS
  <2>1. A \in SUBSET Categories /\ c \in A BY <1>1, <1>3
  <2>2. ASSUME NEW d \in A PROVE parent[d] \in A
    <3>1. CASE d = c BY <1>1, <3>1 DEF Upward
    <3>2. CASE d # c BY <1>1, <1>3, <1>4, <3>2 DEF Upward
    <3> QED BY <3>1, <3>2
  <2> QED BY <2>1, <2>2 DEF Acyclic
<1>6. \A d \in L(parent[c]) : HasCategory(d)
  <2> DEFINE E == {d \in Categories : HasCategory(d)}
  <2>1. Upward(E) /\ parent[c] \in E BY DEF TypeOK, Upward
  <2> QED BY <1>2, <2>1
<1>7. Trail(L(parent[c]), parent[c], c, Root)
  BY <1>1, <1>3, <1>5, <1>6 DEF Trail, HasCategory, Upward
<1> QED BY <1>3, <1>7 DEF Clear

\* A request goes on without putting a category below another.
LEMMA TurnKeepsTree ==
    ASSUME TypeOK, TreeInv, NEW w \in Workers, NEW r, Become(w, r), UNCHANGED raced, Prunes,
           raced = "no" => Careful(r)'
    PROVE  TreeInv'
<1>1. worker'[w] = r /\ \A v \in Workers \ {w} : worker'[v] = worker[v] BY DEF TypeOK, Become
<1> SUFFICES ASSUME raced = "no" PROVE Acyclic' /\ \A v \in Workers : Careful(worker[v])'
  BY DEF TreeInv
<1>2. Acyclic' BY PruningKeepsAcyclic DEF TreeInv
<1>3. ASSUME NEW v \in Workers PROVE Careful(worker[v])'
  <2>1. CASE v = w BY <1>1, <2>1 DEF Careful
  <2>2. CASE v # w
    <3>1. Careful(worker[v]) BY DEF TreeInv
    <3>2. PICK q : q = worker[v] OBVIOUS
    <3>3. Careful(q)' BY <3>1, <3>2, CarefulKept DEF Careful
    <3>4. worker'[v] = q BY <1>1, <2>2, <3>2
    <3> QED BY <3>3, <3>4 DEF Careful
  <2> QED BY <2>1, <2>2
<1> QED BY <1>2, <1>3

\* A category was put below another: nobody else is relying on the tree.
LEMMA AdoptionKeepsTree ==
    ASSUME TypeOK, TreeInv, NEW w \in Workers, NEW r, Become(w, r),
           r.pc \notin {"target", "walk", "write", "reparent"},
           raced' = IF Holding(w) THEN "yes" ELSE raced,
           raced = "no" => Acyclic'
    PROVE  TreeInv'
<1>1. worker'[w] = r /\ \A v \in Workers \ {w} : worker'[v] = worker[v] BY DEF TypeOK, Become
<1> SUFFICES ASSUME raced' = "no" PROVE Acyclic' /\ \A v \in Workers : Careful(worker[v])'
  BY DEF TreeInv
<1>2. raced = "no" /\ ~Holding(w) OBVIOUS
<1>3. ASSUME NEW v \in Workers PROVE Careful(worker[v])'
  <2>1. CASE v = w BY <1>1, <2>1 DEF Careful
  <2>2. CASE v # w
    <3>1. worker'[v] = worker[v] /\ worker[v].pc \notin {"walk", "write", "reparent"}
      BY <1>1, <1>2, <2>2 DEF Holding
    <3> QED BY <1>2, <3>1 DEF Careful, TreeInv
  <2> QED BY <2>1, <2>2
<1> QED BY <1>2, <1>3

LEMMA CategoryStepTree ==
    ASSUME TypeOK, TreeInv, NEW w \in Workers, CategoryRequest(w)
    PROVE  TreeInv'
<1>0. UNCHANGED parent => Prunes BY DEF Prunes
<1>i. Careful(Idle)' BY DEF Careful, Idle
<1>1. ASSUME NEW q \in Categories \cup {Root}, StartCreateCategory(w, q) PROVE TreeInv'
  <2>1. PICK r : r = [pc |-> "insertCategory", up |-> q] OBVIOUS
  <2>2. Careful(r)' BY <2>1 DEF Careful
  <2> QED BY <1>0, <1>1, <2>1, <2>2, TurnKeepsTree DEF StartCreateCategory, rows, history
<1>2. ASSUME NEW q \in Categories \cup {Root}, NEW c \in Categories, StartMove(w, c, q)
      PROVE  TreeInv'
  <2>1. PICK r : r = [pc |-> IF q = Root THEN "write" ELSE "target", cat |-> c, to |-> q] OBVIOUS
  <2>2. r.pc = "target" => r.to # r.cat BY <1>2, <2>1 DEF StartMove
  <2>3. r.pc \in {"write", "target"} /\ (r.pc = "write" => r.to = Root) BY <2>1
  <2>4. Careful(r)' BY <2>2, <2>3 DEF Careful
  <2> QED BY <1>0, <1>2, <2>1, <2>4, TurnKeepsTree DEF StartMove, rows, history
<1>3. ASSUME NEW c \in Categories, InsertCategory(w, c) PROVE TreeInv'
  <2>1. worker[w].up \in Categories \cup {Root}
    BY <1>3 DEF InsertCategory, At, TypeOK, Request, Idle
  <2>2. Prunes BY <1>3, <2>1 DEF InsertCategory, Prunes, ParentOk, TypeOK
  <2> QED BY <1>3, <1>i, <2>2, TurnKeepsTree DEF InsertCategory, Finish, history
<1>4. ASSUME NEW c \in Categories, StartRemove(w, c) PROVE TreeInv'
  <2>1. PICK r : r = [pc |-> "count", cat |-> c] OBVIOUS
  <2>2. Careful(r)' BY <2>1 DEF Careful
  <2> QED BY <1>0, <1>4, <2>1, <2>2, TurnKeepsTree DEF StartRemove, rows, history
<1>5. ASSUME FindTarget(w) PROVE TreeInv'
  <2>1. UNCHANGED <<parent, raced>> BY <1>5 DEF FindTarget, rows, history
  <2>2. CASE Finish(w) BY <1>0, <1>i, <2>1, <2>2, TurnKeepsTree DEF Finish
  <2>3. CASE HasCategory(worker[w].to) /\ Checks(w, parent[worker[w].to])
    <3>1. PICK c, q : c = worker[w].cat /\ q = worker[w].to OBVIOUS
    <3>2. c \in Categories /\ q \in Categories
      BY <1>5, <3>1 DEF FindTarget, At, TypeOK, Request, Idle
    <3>3. raced = "no" => q # c BY <1>5, <3>1 DEF FindTarget, At, TreeInv, Careful
    <3>4. PICK up : up = parent[q] OBVIOUS
    <3>5. PICK r : r = [pc |-> "walk", cat |-> c, to |-> q, up |-> up] OBVIOUS
    <3>6. Become(w, r) BY <2>3, <3>1, <3>4, <3>5 DEF Checks
    <3>7. q # c => Clear(q, c, up)
      <4>1. q # c => Trail({q}, q, c, up) BY <2>3, <3>1, <3>4 DEF Trail, HasCategory
      <4> QED BY <3>2, <4>1 DEF Clear
    <3>8. q # c => Careful(r) BY <3>5, <3>7 DEF Careful
    <3>9. q # c => Careful(r)' BY <1>0, <2>1, <3>8, CarefulKept
    <3> QED BY <1>0, <2>1, <3>3, <3>6, <3>9, TurnKeepsTree
  <2> QED BY <1>5, <2>2, <2>3 DEF FindTarget
<1>6. ASSUME Walk(w) PROVE TreeInv'
  <2>1. UNCHANGED <<parent, raced>> BY <1>6 DEF Walk, rows, history
  <2>2. PICK c, q, up : c = worker[w].cat /\ q = worker[w].to /\ up = worker[w].up OBVIOUS
  <2>3. c \in Categories /\ q \in Categories /\ up \in Categories \cup {Root}
    BY <1>6, <2>2 DEF Walk, At, TypeOK, Request, Idle
  <2>4. raced = "no" => Clear(q, c, up) BY <1>6, <2>2 DEF Walk, At, TreeInv, Careful
  <2>5. CASE Finish(w) BY <1>0, <1>i, <2>1, <2>5, TurnKeepsTree DEF Finish
  <2>6. CASE up = Root /\ Passes(w)
    <3>1. PICK r : r = [pc |-> "write", cat |-> c, to |-> q] OBVIOUS
    <3>2. Become(w, r) BY <2>2, <2>6, <3>1 DEF Passes
    <3>3. raced = "no" => Careful(r) BY <2>4, <2>6, <3>1 DEF Careful
    <3>4. raced = "no" => Careful(r)' BY <1>0, <2>1, <3>3, CarefulKept
    <3> QED BY <1>0, <2>1, <3>2, <3>4, TurnKeepsTree
  <2>7. CASE up \notin {Root, c} /\ HasCategory(up) /\ Checks(w, parent[up])
    <3>1. PICK next : next = parent[up] OBVIOUS
    <3>2. PICK r : r = [pc |-> "walk", cat |-> c, to |-> q, up |-> next] OBVIOUS
    <3>3. Become(w, r) BY <2>2, <2>7, <3>1, <3>2 DEF Checks
    <3>4. Clear(q, c, up) => Clear(q, c, next)
      <4> SUFFICES ASSUME Clear(q, c, up) PROVE Clear(q, c, next)
        OBVIOUS
      <4>1. PICK T \in SUBSET Categories : Trail(T, q, c, up) BY DEF Clear
      <4>2. Trail(T \cup {up}, q, c, next) BY <2>7, <3>1, <4>1 DEF Trail, HasCategory
      <4> QED BY <2>3, <2>7, <4>2 DEF Clear
    <3>5. raced = "no" => Careful(r) BY <2>4, <3>2, <3>4 DEF Careful
    <3>6. raced = "no" => Careful(r)' BY <1>0, <2>1, <3>5, CarefulKept
    <3> QED BY <1>0, <2>1, <3>3, <3>6, TurnKeepsTree
  <2> QED BY <1>6, <2>2, <2>5, <2>6, <2>7 DEF Walk
<1>7. ASSUME WriteMove(w) PROVE TreeInv'
  <2>1. PICK c, q : c = worker[w].cat /\ q = worker[w].to OBVIOUS
  <2>2. c \in Categories /\ q \in Categories \cup {Root} /\ worker[w].pc = "write"
    BY <1>7, <2>1 DEF WriteMove, At, TypeOK, Request, Idle
  <2>3. /\ parent' = IF HasCategory(c) THEN [parent EXCEPT ![c] = q] ELSE parent
        /\ raced' = IF q # Root /\ Holding(w) THEN "yes" ELSE raced
        /\ Become(w, Idle)
    BY <1>7, <2>1 DEF WriteMove, Finish
  <2>4. CASE q = Root
    <3>1. Prunes BY <2>2, <2>3, <2>4 DEF Prunes, TypeOK
    <3> QED BY <1>i, <2>3, <2>4, <3>1, TurnKeepsTree
  <2>5. CASE q # Root
    <3>1. ASSUME raced = "no" PROVE Acyclic'
      <4>1. CASE ~HasCategory(c) BY <2>3, <3>1, <4>1 DEF TreeInv, Acyclic
      <4>2. CASE HasCategory(c)
        <5>1. PICK T \in SUBSET Categories : Trail(T, q, c, Root)
          BY <2>1, <2>2, <2>5, <3>1 DEF TreeInv, Careful, Clear
        <5>2. /\ {c} \in SUBSET Categories /\ q \in T /\ {c} \cap T = {}
              /\ \A d \in T : parent[d] \in Categories => parent[d] \in T
          BY <2>2, <5>1, CatalogAssumption DEF Trail
        <5>3. \A d \in Categories : parent'[d] = IF d \in {c} THEN q ELSE parent[d]
          BY <2>2, <2>3, <4>2 DEF TypeOK
        <5> QED BY <3>1, <5>2, <5>3, GraftingKeepsAcyclic DEF TreeInv
      <4> QED BY <4>1, <4>2
    <3> QED BY <2>3, <2>5, <3>1, AdoptionKeepsTree DEF Idle
  <2> QED BY <2>4, <2>5
<1>8. ASSUME CountProducts(w) PROVE TreeInv'
  <2>1. PICK r : /\ Become(w, r) /\ r.pc \notin {"target", "walk", "write", "reparent"}
    BY <1>8 DEF CountProducts, Finish, Idle
  <2>2. Careful(r)' BY <2>1 DEF Careful
  <2> QED BY <1>0, <1>8, <2>1, <2>2, TurnKeepsTree DEF CountProducts, rows, history
<1>9. ASSUME ReadChildren(w) PROVE TreeInv'
  <2>1. PICK c : c = worker[w].cat OBVIOUS
  <2>2. c \in Categories BY <1>9, <2>1 DEF ReadChildren, At, TypeOK, Request, Idle
  <2>3. UNCHANGED <<parent, raced>> BY <1>9 DEF ReadChildren, rows, history
  <2>4. CASE Become(w, [pc |-> "delete", cat |-> c])
    <3>1. PICK r : r = [pc |-> "delete", cat |-> c] OBVIOUS
    <3>2. Careful(r)' BY <3>1 DEF Careful
    <3> QED BY <1>0, <2>3, <2>4, <3>1, <3>2, TurnKeepsTree
  <2>5. CASE HasCategory(c) /\ Become(w, [pc |-> "reparent", cat |-> c, up |-> parent[c]])
    <3>1. PICK up : up = parent[c] OBVIOUS
    <3>2. PICK r : r = [pc |-> "reparent", cat |-> c, up |-> up] OBVIOUS
    <3>3. raced = "no" /\ up # Root => Clear(up, c, Root)
      <4>1. up # Root => up \in Categories BY <2>2, <2>5, <3>1 DEF TypeOK, HasCategory
      <4> QED BY <2>2, <3>1, <4>1, AncestorsClear DEF TreeInv
    <3>4. raced = "no" => Careful(r) BY <3>2, <3>3 DEF Careful
    <3>5. raced = "no" => Careful(r)' BY <1>0, <2>3, <3>4, CarefulKept
    <3>6. Become(w, r) BY <2>5, <3>1, <3>2
    <3> QED BY <1>0, <2>3, <3>5, <3>6, TurnKeepsTree
  <2> QED BY <1>9, <2>1, <2>4, <2>5 DEF ReadChildren
<1>10. ASSUME Reparent(w) PROVE TreeInv'
  <2>1. PICK c, up : c = worker[w].cat /\ up = worker[w].up OBVIOUS
  <2>2. c \in Categories /\ up \in Categories \cup {Root} /\ worker[w].pc = "reparent"
    BY <1>10, <2>1 DEF Reparent, At, TypeOK, Request, Idle
  <2>3. PICK r : r = [pc |-> "delete", cat |-> c] OBVIOUS
  <2>4. /\ parent' = [d \in Categories |-> IF d \in Children(c) THEN up ELSE parent[d]]
        /\ raced' = IF up # Root /\ Holding(w) THEN "yes" ELSE raced
        /\ Become(w, r)
    BY <1>10, <2>1, <2>3 DEF Reparent
  <2>5. CASE up = Root
    <3>1. Prunes BY <2>4, <2>5 DEF Prunes
    <3>2. Careful(r)' BY <2>3 DEF Careful
    <3> QED BY <2>4, <2>5, <3>1, <3>2, TurnKeepsTree
  <2>6. CASE up # Root
    <3>1. ASSUME raced = "no" PROVE Acyclic'
      <4>1. PICK T \in SUBSET Categories : Trail(T, up, c, Root)
        BY <2>1, <2>2, <2>6, <3>1 DEF TreeInv, Careful, Clear
      <4>2. /\ Children(c) \in SUBSET Categories /\ up \in T
            /\ \A d \in T : parent[d] \in Categories => parent[d] \in T
        BY <4>1, CatalogAssumption DEF Trail, Children
      <4>3. Children(c) \cap T = {} BY <2>2, <4>1, <4>2 DEF Children, Trail
      <4>4. \A d \in Categories : parent'[d] = IF d \in Children(c) THEN up ELSE parent[d]
        BY <2>4
      <4> QED BY <3>1, <4>2, <4>3, <4>4, GraftingKeepsAcyclic DEF TreeInv
    <3> QED BY <2>3, <2>4, <2>6, <3>1, AdoptionKeepsTree
  <2> QED BY <2>5, <2>6
<1>11. ASSUME DeleteCategory(w) PROVE TreeInv'
  <2>1. Prunes BY <1>11 DEF DeleteCategory, Prunes, TypeOK
  <2> QED BY <1>11, <1>i, <2>1, TurnKeepsTree DEF DeleteCategory, Finish, history
<1> QED
  BY <1>1, <1>2, <1>3, <1>4, <1>5, <1>6, <1>7, <1>8, <1>9, <1>10, <1>11 DEF CategoryRequest

\* No other request touches the tree or relies on it.
LEMMA OthersApart ==
    ASSUME TypeOK, NEW w \in Workers, ProductRequest(w) \/ AttributeRequest(w) \/ Fail(w)
    PROVE  /\ UNCHANGED <<parent, raced>>
           /\ \A v \in Workers : worker'[v].pc \in {"target", "walk", "write", "reparent"} =>
                 worker'[v] = worker[v]
<1> SUFFICES ASSUME NEW v \in Workers
    PROVE  /\ UNCHANGED <<parent, raced>>
           /\ worker'[v].pc \in {"target", "walk", "write", "reparent"} => worker'[v] = worker[v]
  OBVIOUS
<1> USE DEF TypeOK, Become, Finish, Idle, rows, history
<1>1. CASE \E ps \in SUBSET Products, r \in Choices : StartImport(w, ps, r)
  BY <1>1 DEF StartImport
<1>2. CASE \E p \in Products :
          \/ \E f \in Field : StartUpdate(w, p, f)
          \/ StartRemoveProduct(w, p)
          \/ \E n \in 0..MaxStock : StartStock(w, p, n)
  BY <1>2 DEF StartUpdate, StartRemoveProduct, StartStock
<1>3. CASE Import(w) \/ UpdateProduct(w) \/ RemoveProduct(w)
  BY <1>3 DEF Import, UpdateProduct, RemoveProduct
<1>4. CASE ReadStock(w) \/ SaveStock(w)
  BY <1>4 DEF ReadStock, SaveStock
<1>5. CASE \E rs \in SUBSET Attribute : StartCreateAttributes(w, rs)
  BY <1>5 DEF StartCreateAttributes
<1>6. CASE \E ids \in [worker[w].todo -> Attributes] : InsertAttributes(w, ids)
  BY <1>6 DEF InsertAttributes
<1>7. CASE \E a \in Attributes :
          StartRemoveAttribute(w, a) \/ \E r \in Attribute : StartUpdateAttribute(w, a, r)
  BY <1>7 DEF StartRemoveAttribute, StartUpdateAttribute
<1>8. CASE UpdateAttribute(w) \/ RemoveAttribute(w)
  BY <1>8 DEF UpdateAttribute, RemoveAttribute
<1>9. CASE \E ids \in [DefaultRows -> Attributes] : InitializeDefaults(w, ids)
  BY <1>9 DEF InitializeDefaults
<1>10. CASE Fail(w) BY <1>10 DEF Fail
<1> QED
  BY <1>1, <1>2, <1>3, <1>4, <1>5, <1>6, <1>7, <1>8, <1>9, <1>10
  DEF ProductRequest, AttributeRequest

LEMMA StepTree == TypeOK /\ TreeInv /\ [Next]_vars => TreeInv'
<1> SUFFICES ASSUME TypeOK, TreeInv, [Next]_vars PROVE TreeInv'
  OBVIOUS
<1>1. ASSUME UNCHANGED <<parent, raced>>,
             \A v \in Workers : worker'[v].pc \in {"target", "walk", "write", "reparent"} =>
                worker'[v] = worker[v]
      PROVE  TreeInv'
  <2> SUFFICES ASSUME raced = "no" PROVE Acyclic' /\ \A v \in Workers : Careful(worker[v])'
    BY <1>1 DEF TreeInv
  <2>1. Acyclic' BY <1>1 DEF TreeInv, Acyclic
  <2>2. ASSUME NEW v \in Workers PROVE Careful(worker[v])'
    BY <1>1 DEF TreeInv, Careful, Clear, Trail
  <2> QED BY <2>1, <2>2
<1>2. CASE UNCHANGED vars BY <1>1, <1>2 DEF vars, history
<1> QED BY <1>1, <1>2, CategoryStepTree, OthersApart DEF Next

LEMMA InitTree == Init => TreeInv
<1> SUFFICES ASSUME Init PROVE TreeInv
  OBVIOUS
<1>1. Acyclic
  <2>1. ASSUME NEW c \in Categories PROVE parent[c] = Root \/ parent[c] = None
    <3>1. parent = [d \in Categories |-> IF d \in Categories0 THEN Root ELSE None] BY DEF Init
    <3> QED BY ONLY <3>1
  <2>2. ASSUME NEW cs \in (SUBSET Categories) \ {{}} PROVE \E c \in cs : parent[c] \notin cs
    <3>1. PICK c : c \in cs BY <2>2
    <3>2. parent[c] \notin Categories BY <2>1, <3>1, CatalogAssumption
    <3> QED BY <3>1, <3>2
  <2> QED BY <2>2 DEF Acyclic
<1>2. \A w \in Workers : Careful(worker[w]) BY DEF Init, Careful, Idle
<1> QED BY <1>1, <1>2 DEF TreeInv

\* The categories stay a forest until a category is put below another while a
\* second request relies on the tree (the walk of update, the children of remove).
THEOREM ForestStays == Spec => []NoCycle
<1>1. TreeInv => NoCycle BY DEF TreeInv, NoCycle
<1>2. IInv => TypeOK BY DEF IInv
<1>3. Spec => []TreeInv BY <1>2, InitTree, StepTree, IInvariant, PTL DEF Spec
<1> QED BY <1>1, <1>3, PTL

-----------------------------------------------------------------------------
(* The cart *)

\* A saved image only has lines that were inserted once; what a save will
\* insert is among them.
Known(r) ==
    /\ request[r].pc \in {"load", "store"} => InCart(request[r].image) \subseteq used
    /\ RequestAt(r, "store") =>
          /\ request[r].insert \subseteq InCart(request[r].image)
          /\ request[r].update \subseteq InCart(request[r].image)

TypeInv == CartTypeOK /\ \A r \in Requests : Known(r)

\* Two requests run together only in a cart that is not calm.
Lone == calm => \A r, s \in Requests : r # s => request[r] = NoRequest \/ request[s] = NoRequest

\* In a calm cart a save meets the rows that were read, so it inserts and
\* detaches nothing, and the image of the whole cart is what is there.
Undisturbed(r) ==
    /\ RequestAt(r, "load") =>
          IF request[r].whole THEN request[r].image = quantity
          ELSE InCart(request[r].image) \subseteq InCart(quantity)
    /\ RequestAt(r, "store") =>
          /\ request[r].insert = {}
          /\ request[r].detach = {}
          /\ request[r].whole => request[r].update = {} /\ request[r].image = quantity

CalmInv == /\ Lone
           /\ calm => \A r \in Requests : Undisturbed(r)
           /\ CalmTotals

-----------------------------------------------------------------------------
(* What a request's progress is, by its pc *)

LEMMA ProgressCases ==
    ASSUME CartTypeOK, NEW r \in Requests
    PROVE  /\ RequestAt(r, "idle") <=> request[r] = NoRequest
           /\ RequestAt(r, "insert") => request[r].kind \in Kind
           /\ RequestAt(r, "set") => request[r].line \in Lines /\ request[r].quantity \in 1..MaxQty
           /\ RequestAt(r, "remove") => request[r].lines \in SUBSET Lines
           /\ request[r].pc \in {"load", "store"} =>
                 request[r].image \in Quantities /\ request[r].whole \in BOOLEAN
           /\ RequestAt(r, "store") => /\ request[r].insert \in SUBSET Lines
                                /\ request[r].update \in SUBSET Lines
                                /\ request[r].detach \in SUBSET Lines
<1>1. request[r] \in Progress
  BY DEF CartTypeOK
<1>2. CASE request[r] \in [pc : {"insert"}, kind : Kind]
  BY <1>2 DEF RequestAt, NoRequest
<1>3. CASE request[r] \in [pc : {"set"}, line : Lines, quantity : 1..MaxQty]
  BY <1>3 DEF RequestAt, NoRequest
<1>4. CASE request[r] \in [pc : {"remove"}, lines : SUBSET Lines]
  BY <1>4 DEF RequestAt, NoRequest
<1>5. CASE request[r] \in [pc : {"load"}, image : Quantities, whole : BOOLEAN]
  BY <1>5 DEF RequestAt, NoRequest
<1>6. CASE request[r] \in [pc : {"store"}, image : Quantities, whole : BOOLEAN,
                           insert : SUBSET Lines, update : SUBSET Lines,
                           detach : SUBSET Lines]
  BY <1>6 DEF RequestAt, NoRequest
<1>7. CASE request[r] \in {Recalculate, NoRequest}
  BY <1>7 DEF RequestAt, NoRequest, Recalculate
<1> QED BY <1>1, <1>2, <1>3, <1>4, <1>5, <1>6, <1>7 DEF Progress

\* A step that gives request r its progress p and changes the rows in a typed
\* way keeps the type invariant.
LEMMA Progresses ==
    ASSUME TypeInv, NEW r \in Requests, NEW p \in Progress,
           request' = [request EXCEPT ![r] = p],
           quantity' \in Quantities, used' \in SUBSET Lines, used \subseteq used',
           InCart(quantity') \subseteq used',
           summed' \in Quantities, total' \in {0, NaN}, calm' \in BOOLEAN,
           p.pc \in {"load", "store"} => InCart(p.image) \subseteq used',
           p.pc = "store" => /\ p.insert \subseteq InCart(p.image)
                             /\ p.update \subseteq InCart(p.image)
    PROVE  TypeInv'
<1>1. CartTypeOK'
  BY DEF TypeInv, CartTypeOK
<1>2. ASSUME NEW s \in Requests PROVE Known(s)'
  <2>1. CASE s = r
    BY <2>1 DEF TypeInv, CartTypeOK, Known, RequestAt
  <2>2. CASE s # r
    <3>1. request'[s] = request[s]
      BY <2>2 DEF TypeInv, CartTypeOK
    <3> QED BY <3>1 DEF TypeInv, Known, RequestAt
  <2> QED BY <2>1, <2>2
<1> QED BY <1>1, <1>2 DEF TypeInv

\* The same for a step that leaves the rows alone.
LEMMA ProgressesOnly ==
    ASSUME TypeInv, NEW r \in Requests, NEW p \in Progress,
           request' = [request EXCEPT ![r] = p],
           UNCHANGED <<quantity, used, columns>>, calm' \in BOOLEAN,
           p.pc \in {"load", "store"} => InCart(p.image) \subseteq used,
           p.pc = "store" => /\ p.insert \subseteq InCart(p.image)
                             /\ p.update \subseteq InCart(p.image)
    PROVE  TypeInv'
<1>1. /\ quantity' \in Quantities /\ used' \in SUBSET Lines /\ used \subseteq used'
      /\ InCart(quantity') \subseteq used' /\ summed' \in Quantities /\ total' \in {0, NaN}
      /\ used' = used
  BY DEF TypeInv, CartTypeOK, columns
<1> QED BY <1>1, Progresses

-----------------------------------------------------------------------------
LEMMA InitType == CartInit => TypeInv
<1> SUFFICES ASSUME CartInit PROVE TypeInv
  OBVIOUS
<1>1. Empty \in Quantities /\ InCart(Empty) = {}
  BY CartAssumption DEF Empty, Quantities, InCart
<1>2. request \in [Requests -> Progress]
  BY DEF CartInit, Progress
<1>3. CartTypeOK
  BY <1>1, <1>2 DEF CartInit, CartTypeOK
<1>4. \A r \in Requests : Known(r)
  BY DEF CartInit, Known, RequestAt, NoRequest
<1> QED BY <1>3, <1>4 DEF TypeInv

LEMMA Types ==
    ASSUME TypeInv
    PROVE  /\ CartTypeOK
           /\ quantity \in [Lines -> 0..MaxQty]
           /\ used \subseteq Lines
           /\ InCart(quantity) \subseteq used
           /\ summed \in Quantities
           /\ total \in {0, NaN}
           /\ calm \in BOOLEAN
           /\ MaxQty \in Nat \ {0}
BY CartAssumption DEF TypeInv, CartTypeOK, Quantities

LEMMA StepType == TypeInv /\ [CartNext]_cartVars => TypeInv'
<1> SUFFICES ASSUME TypeInv, [CartNext]_cartVars PROVE TypeInv'
  OBVIOUS
<1>t. /\ NoRequest \in Progress /\ Recalculate \in Progress
      /\ NoRequest.pc = "idle" /\ Recalculate.pc = "calculate"
  BY DEF Progress, NoRequest, Recalculate
<1>b. ASSUME NEW r \in Requests, NEW p, Begin(r, p)
      PROVE  request' = [request EXCEPT ![r] = p] /\ calm' \in BOOLEAN
  BY <1>b DEF Begin
<1>g. ASSUME NEW r \in Requests, NEW p, Goto(r, p)
      PROVE  request' = [request EXCEPT ![r] = p] /\ calm' = calm
  BY <1>g DEF Goto
<1>1. ASSUME NEW r \in Requests, NEW k \in Kind, FindItem(r, k) PROVE TypeInv'
  <2>1. UNCHANGED <<quantity, used, columns>>
    BY <1>1 DEF FindItem
  <2>2. CASE Begin(r, [pc |-> "insert", kind |-> k])
    <3>1. [pc |-> "insert", kind |-> k] \in Progress
      BY DEF Progress
    <3> QED BY <2>1, <2>2, <3>1, <1>b, ProgressesOnly
  <2>3. ASSUME NEW l \in InCart(quantity), quantity[l] < MaxQty,
               Begin(r, Save([Empty EXCEPT ![l] = quantity[l] + 1], FALSE))
        PROVE  TypeInv'
    <3> DEFINE image == [Empty EXCEPT ![l] = quantity[l] + 1]
    <3>1. image \in Quantities /\ InCart(image) = {l}
      BY <2>3, Types DEF Empty, Quantities, InCart
    <3>2. Save(image, FALSE) \in Progress /\ Save(image, FALSE).pc = "load"
          /\ Save(image, FALSE).image = image
      BY <3>1 DEF Save, Progress
    <3>3. InCart(image) \subseteq used
      BY <3>1, Types
    <3> HIDE DEF image
    <3> QED BY <2>1, <2>3, <3>2, <3>3, <1>b, ProgressesOnly DEF image
  <2> QED BY <1>1, <2>2, <2>3 DEF FindItem
<1>2. ASSUME NEW r \in Requests, InsertItem(r) PROVE TypeInv'
  <2>1. PICK l \in Fresh(request[r].kind) :
           quantity' = [quantity EXCEPT ![l] = 1] /\ used' = used \cup {l}
    BY <1>2 DEF InsertItem
  <2>2. Goto(r, Recalculate) /\ UNCHANGED columns
    BY <1>2 DEF InsertItem
  <2>3. /\ quantity' \in Quantities /\ used' \in SUBSET Lines /\ used \subseteq used'
        /\ InCart(quantity') \subseteq used' /\ summed' \in Quantities /\ total' \in {0, NaN}
    BY <2>1, <2>2, Types DEF Fresh, Quantities, InCart, columns
  <2> QED BY <2>2, <2>3, <1>t, <1>g, Types, Progresses
<1>3. ASSUME NEW r \in Requests, NEW l \in Lines, NEW q \in 1..MaxQty, FindLine(r, l, q)
      PROVE  TypeInv'
  <2>1. [pc |-> "set", line |-> l, quantity |-> q] \in Progress
    BY DEF Progress
  <2> QED BY <1>3, <2>1, <1>b, ProgressesOnly DEF FindLine
<1>4. ASSUME NEW r \in Requests, UpdateItem(r) PROVE TypeInv'
  <2>1. request[r].line \in Lines /\ request[r].quantity \in 1..MaxQty
    BY <1>4, Types, ProgressCases DEF UpdateItem
  <2>2. quantity' \in Quantities /\ InCart(quantity') \subseteq used
    BY <1>4, <2>1, Types DEF UpdateItem, Quantities, InCart
  <2>3. UNCHANGED <<used, columns>> /\ Goto(r, Recalculate)
    BY <1>4 DEF UpdateItem
  <2> QED BY <2>2, <2>3, <1>t, <1>g, Types, Progresses DEF columns
<1>5. ASSUME NEW r \in Requests, NEW lines \in {Lines} \cup {{l} : l \in Lines},
             FindToRemove(r, lines)
      PROVE  TypeInv'
  <2>1. [pc |-> "remove", lines |-> lines] \in Progress
    BY DEF Progress
  <2> QED BY <1>5, <2>1, <1>b, ProgressesOnly DEF FindToRemove
<1>6. ASSUME NEW r \in Requests, RemoveItems(r) PROVE TypeInv'
  <2>1. quantity' \in Quantities /\ InCart(quantity') \subseteq used
    BY <1>6, Types DEF RemoveItems, DeleteItems, Quantities, InCart
  <2>2. UNCHANGED <<used, columns>> /\ Goto(r, Recalculate)
    BY <1>6 DEF RemoveItems, DeleteItems
  <2> QED BY <2>1, <2>2, <1>t, <1>g, Types, Progresses DEF columns
<1>7. ASSUME NEW r \in Requests, UpdateCart(r) PROVE TypeInv'
  BY <1>7, <1>t, <1>b, ProgressesOnly DEF UpdateCart
<1>8. ASSUME NEW r \in Requests, Calculate(r) PROVE TypeInv'
  <2>1. Save(quantity, TRUE) \in Progress /\ Save(quantity, TRUE).pc = "load"
        /\ Save(quantity, TRUE).image = quantity
    BY Types DEF Save, Progress, Quantities
  <2> QED BY <1>8, <2>1, <1>g, Types, ProgressesOnly DEF Calculate
<1>9. ASSUME NEW r \in Requests, Load(r) PROVE TypeInv'
  <2> DEFINE image == request[r].image
             whole == request[r].whole
             p == [pc |-> "store", image |-> image, whole |-> whole,
                   insert |-> InCart(image) \ InCart(quantity),
                   update |-> {l \in InCart(image) \cap InCart(quantity) :
                                   image[l] # quantity[l]},
                   detach |-> IF whole THEN InCart(quantity) \ InCart(image) ELSE {}]
  <2>1. image \in Quantities /\ whole \in BOOLEAN
    BY <1>9, Types, ProgressCases DEF Load, RequestAt
  <2>2. InCart(image) \subseteq used
    BY <1>9 DEF Load, RequestAt, TypeInv, Known
  <2>3. InCart(image) \subseteq Lines /\ InCart(quantity) \subseteq Lines
    BY DEF InCart
  <2>4. Goto(r, p) /\ UNCHANGED <<quantity, used, columns>>
    BY <1>9 DEF Load
  <2>5. /\ p.pc = "store" /\ p.image = image
        /\ p.insert \subseteq InCart(image) /\ p.update \subseteq InCart(image)
    OBVIOUS
  <2>6. p \in Progress
    <3>1. /\ p.insert \in SUBSET Lines /\ p.update \in SUBSET Lines
          /\ p.detach \in SUBSET Lines
      BY <2>3
    <3> QED BY <2>1, <3>1 DEF Progress
  <2> HIDE DEF p
  <2> QED BY <2>2, <2>4, <2>5, <2>6, <1>g, Types, ProgressesOnly
<1>10. ASSUME NEW r \in Requests, Store(r) PROVE TypeInv'
  <2> DEFINE q == request[r]
             written == q.insert \cup (q.update \cap InCart(quantity))
  <2>1. /\ q.image \in Quantities /\ q.insert \in SUBSET Lines /\ q.update \in SUBSET Lines
        /\ InCart(q.image) \subseteq used
        /\ written \subseteq InCart(q.image)
    BY <1>10, Types, ProgressCases DEF Store, RequestAt, TypeInv, Known
  <2>2. CASE (q.insert \cup q.detach) \cap InCart(quantity) # {}
    <3>1. Goto(r, NoRequest) /\ UNCHANGED <<quantity, used, columns>>
      BY <1>10, <2>2 DEF Store
    <3> QED BY <3>1, <1>t, <1>g, Types, ProgressesOnly
  <2>3. CASE (q.insert \cup q.detach) \cap InCart(quantity) = {}
    <3>1. /\ quantity' = [l \in Lines |-> IF l \in written THEN q.image[l] ELSE quantity[l]]
          /\ summed' = IF q.whole THEN q.image ELSE summed
          /\ total' = IF q.whole THEN Total(q.image) ELSE total
          /\ Goto(r, IF q.whole THEN NoRequest ELSE Recalculate)
          /\ used' = used
      BY <1>10, <2>3 DEF Store
    <3> HIDE DEF written
    <3>2. quantity' \in Quantities /\ InCart(quantity') \subseteq used
      BY <2>1, <3>1, Types DEF Quantities, InCart
    <3>3. summed' \in Quantities /\ total' \in {0, NaN}
      BY <2>1, <3>1, Types DEF Total
    <3>4. CASE q.whole
      <4>1. Goto(r, NoRequest)
        BY <3>1, <3>4
      <4> QED BY <3>1, <3>2, <3>3, <4>1, <1>t, <1>g, Types, Progresses
    <3>5. CASE ~q.whole
      <4>1. Goto(r, Recalculate)
        BY <3>1, <3>5
      <4> QED BY <3>1, <3>2, <3>3, <4>1, <1>t, <1>g, Types, Progresses
    <3> QED BY <3>4, <3>5
  <2> QED BY <2>2, <2>3
<1>11. ASSUME NEW r \in Requests, Die(r) PROVE TypeInv'
  BY <1>11, <1>t, ProgressesOnly DEF Die
<1>12. ASSUME UNCHANGED cartVars PROVE TypeInv'
  BY <1>12 DEF cartVars, columns, TypeInv, CartTypeOK, Known, RequestAt
<1> QED
  BY <1>1, <1>2, <1>3, <1>4, <1>5, <1>6, <1>7, <1>8, <1>9, <1>10, <1>11, <1>12 DEF CartNext

\* Rows, columns and requests always have their types, and no save brings a
\* line into the cart that was never added.
THEOREM CartTypeCorrect == CartSpec => []CartTypeOK
<1>1. TypeInv => CartTypeOK BY DEF TypeInv
<1> QED BY <1>1, InitType, StepType, PTL DEF CartSpec

-----------------------------------------------------------------------------
(* The calm cart *)

LEMMA InitCalm == CartInit => CalmInv
BY DEF CartInit, CalmInv, Lone, Undisturbed, CalmTotals, RequestAt, NoRequest

\* A step of request r keeps CalmInv if a calm cart then holds no other
\* request and r is undisturbed or through.
LEMMA Calms ==
    ASSUME TypeInv, NEW r \in Requests, NEW p,
           request' = [request EXCEPT ![r] = p],
           calm' => /\ \A s \in Requests \ {r} : request[s] = NoRequest
                    /\ p.pc = "idle" => summed' = quantity'
                    /\ p.pc = "load" =>
                          IF p.whole THEN p.image = quantity'
                          ELSE InCart(p.image) \subseteq InCart(quantity')
                    /\ p.pc = "store" =>
                          /\ p.insert = {}
                          /\ p.detach = {}
                          /\ p.whole => p.update = {} /\ p.image = quantity'
    PROVE  CalmInv'
<1> SUFFICES ASSUME calm' PROVE CalmInv'
  BY DEF CalmInv, Lone, CalmTotals
<1>1. request'[r] = p /\ \A s \in Requests \ {r} : request'[s] = NoRequest
  BY DEF TypeInv, CartTypeOK
<1>2. Lone'
  BY <1>1 DEF Lone
<1>3. Undisturbed(r)'
  BY <1>1 DEF Undisturbed, RequestAt
<1>4. \A s \in Requests \ {r} : Undisturbed(s)'
  BY <1>1 DEF Undisturbed, RequestAt, NoRequest
<1>5. CalmTotals'
  BY <1>1 DEF CalmTotals, RequestAt
<1> QED BY <1>2, <1>3, <1>4, <1>5 DEF CalmInv

LEMMA StepCalm == TypeInv /\ CalmInv /\ [CartNext]_cartVars => CalmInv'
<1> SUFFICES ASSUME TypeInv, CalmInv, [CartNext]_cartVars PROVE CalmInv'
  OBVIOUS
<1>t. NoRequest.pc = "idle" /\ Recalculate.pc = "calculate"
  BY DEF NoRequest, Recalculate
<1>b. ASSUME NEW r \in Requests, NEW p, Begin(r, p)
      PROVE  /\ request' = [request EXCEPT ![r] = p]
             /\ calm' => \A s \in Requests \ {r} : request[s] = NoRequest
  BY <1>b DEF Begin, Others
<1>g. ASSUME NEW r \in Requests, NEW p, ~RequestAt(r, "idle"), Goto(r, p)
      PROVE  /\ request' = [request EXCEPT ![r] = p]
             /\ calm' => /\ \A s \in Requests \ {r} : request[s] = NoRequest
                         /\ Undisturbed(r)
  BY <1>g, Types, ProgressCases DEF Goto, CalmInv, Lone
<1>1. ASSUME NEW r \in Requests, NEW k \in Kind, FindItem(r, k) PROVE CalmInv'
  <2>1. UNCHANGED quantity
    BY <1>1 DEF FindItem
  <2>2. CASE Begin(r, [pc |-> "insert", kind |-> k])
    BY <2>2, <1>b, Calms
  <2>3. ASSUME NEW l \in InCart(quantity), quantity[l] < MaxQty,
               Begin(r, Save([Empty EXCEPT ![l] = quantity[l] + 1], FALSE))
        PROVE  CalmInv'
    <3> DEFINE image == [Empty EXCEPT ![l] = quantity[l] + 1]
    <3>1. InCart(image) \subseteq InCart(quantity)
      BY DEF Empty, InCart
    <3>2. /\ Save(image, FALSE).pc = "load" /\ Save(image, FALSE).image = image
          /\ Save(image, FALSE).whole = FALSE
      BY DEF Save
    <3> HIDE DEF image
    <3> QED BY <2>1, <2>3, <3>1, <3>2, <1>b, Calms DEF image
  <2> QED BY <1>1, <2>2, <2>3 DEF FindItem
<1>2. ASSUME NEW r \in Requests, InsertItem(r) PROVE CalmInv'
  BY <1>2, <1>t, <1>g, Calms DEF InsertItem, RequestAt
<1>3. ASSUME NEW r \in Requests, NEW l \in Lines, NEW q \in 1..MaxQty, FindLine(r, l, q)
      PROVE  CalmInv'
  BY <1>3, <1>b, Calms DEF FindLine
<1>4. ASSUME NEW r \in Requests, UpdateItem(r) PROVE CalmInv'
  <2>1. Goto(r, Recalculate) /\ ~RequestAt(r, "idle")
    BY <1>4 DEF UpdateItem, RequestAt
  <2> QED BY <2>1, <1>t, <1>g, Calms
<1>5. ASSUME NEW r \in Requests, NEW lines \in {Lines} \cup {{l} : l \in Lines},
             FindToRemove(r, lines)
      PROVE  CalmInv'
  BY <1>5, <1>b, Calms DEF FindToRemove
<1>6. ASSUME NEW r \in Requests, RemoveItems(r) PROVE CalmInv'
  <2>1. Goto(r, Recalculate) /\ ~RequestAt(r, "idle")
    BY <1>6 DEF RemoveItems, DeleteItems, RequestAt
  <2> QED BY <2>1, <1>t, <1>g, Calms
<1>7. ASSUME NEW r \in Requests, UpdateCart(r) PROVE CalmInv'
  BY <1>7, <1>t, <1>b, Calms DEF UpdateCart
<1>8. ASSUME NEW r \in Requests, Calculate(r) PROVE CalmInv'
  <2>1. Goto(r, Save(quantity, TRUE)) /\ ~RequestAt(r, "idle") /\ quantity' = quantity
    BY <1>8 DEF Calculate, RequestAt
  <2>2. /\ Save(quantity, TRUE).pc = "load" /\ Save(quantity, TRUE).image = quantity
        /\ Save(quantity, TRUE).whole
    BY DEF Save
  <2> QED BY <2>1, <2>2, <1>g, Calms
<1>9. ASSUME NEW r \in Requests, Load(r) PROVE CalmInv'
  <2> DEFINE image == request[r].image
             whole == request[r].whole
             p == [pc |-> "store", image |-> image, whole |-> whole,
                   insert |-> InCart(image) \ InCart(quantity),
                   update |-> {l \in InCart(image) \cap InCart(quantity) :
                                   image[l] # quantity[l]},
                   detach |-> IF whole THEN InCart(quantity) \ InCart(image) ELSE {}]
  <2>1. RequestAt(r, "load") /\ ~RequestAt(r, "idle") /\ Goto(r, p) /\ quantity' = quantity
    BY <1>9 DEF Load, RequestAt
  <2>2. calm' => IF whole THEN image = quantity ELSE InCart(image) \subseteq InCart(quantity)
    <3>1. calm' => Undisturbed(r)
      BY <2>1, <1>g
    <3> QED BY <2>1, <3>1 DEF Undisturbed
  <2>3. p.pc = "store"
    OBVIOUS
  <2>4. calm' => p.insert = {} /\ p.detach = {} /\ (p.whole => p.update = {} /\ p.image = quantity)
    BY <2>2
  <2> HIDE DEF p
  <2> QED BY <2>1, <2>3, <2>4, <1>g, Calms
<1>10. ASSUME NEW r \in Requests, Store(r) PROVE CalmInv'
  <2> DEFINE q == request[r]
             written == q.insert \cup (q.update \cap InCart(quantity))
  <2>1. ~RequestAt(r, "idle") /\ RequestAt(r, "store")
    BY <1>10 DEF Store, RequestAt
  <2>2. \E p : Goto(r, p)
    BY <1>10 DEF Store
  <2>3. calm' => /\ \A s \in Requests \ {r} : request[s] = NoRequest
                 /\ q.insert = {} /\ q.detach = {}
                 /\ q.whole => q.update = {} /\ q.image = quantity
    BY <2>1, <2>2, <1>g DEF Undisturbed
  <2>4. CASE (q.insert \cup q.detach) \cap InCart(quantity) # {}
    <3>1. Goto(r, NoRequest) /\ ~calm'
      BY <1>10, <2>3, <2>4 DEF Store
    <3> QED BY <2>1, <3>1, <1>g, Calms
  <2>5. CASE (q.insert \cup q.detach) \cap InCart(quantity) = {}
    <3>1. /\ quantity' = [l \in Lines |-> IF l \in written THEN q.image[l] ELSE quantity[l]]
          /\ summed' = IF q.whole THEN q.image ELSE summed
          /\ Goto(r, IF q.whole THEN NoRequest ELSE Recalculate)
      BY <1>10, <2>5 DEF Store
    <3>2. CASE q.whole
      <4>1. Goto(r, NoRequest) /\ summed' = q.image
        BY <3>1, <3>2
      <4>2. calm' => quantity' = quantity
        BY <2>3, <3>1, <3>2, Types
      <4> QED BY <2>1, <2>3, <3>2, <4>1, <4>2, <1>t, <1>g, Calms
    <3>3. CASE ~q.whole
      <4>1. Goto(r, Recalculate)
        BY <3>1, <3>3
      <4> QED BY <2>1, <4>1, <1>t, <1>g, Calms
    <3> QED BY <3>2, <3>3
  <2> QED BY <2>4, <2>5
<1>11. ASSUME NEW r \in Requests, Die(r) PROVE CalmInv'
  BY <1>11, Calms DEF Die
<1>12. ASSUME UNCHANGED cartVars PROVE CalmInv'
  BY <1>12 DEF cartVars, columns, CalmInv, Lone, Undisturbed, CalmTotals, RequestAt
<1> QED
  BY <1>1, <1>2, <1>3, <1>4, <1>5, <1>6, <1>7, <1>8, <1>9, <1>10, <1>11, <1>12 DEF CartNext

\* Whatever earlier races, failed saves and crashes left behind, a request that
\* ran alone and to its end leaves a subtotal that is the sum of the lines.
THEOREM CalmCartsAddUp == CartSpec => []CalmTotals
<1>1. CalmInv => CalmTotals BY DEF CalmInv
<1> QED BY <1>1, InitType, StepType, InitCalm, StepCalm, PTL DEF CartSpec
=============================================================================
