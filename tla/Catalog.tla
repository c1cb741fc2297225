------------------------------- MODULE Catalog -------------------------------
(***************************************************************************)
(* The catalog service of one tenant: the tree of categories, the products *)
(* with their stock, the attributes, and the foreign keys between them.    *)
(*                                                                         *)
(* A worker runs one HTTP request and every await ends a step.  The kind   *)
(* of request a worker runs is fixed by `serves`: every pair of kinds can  *)
(* meet.  Rows have fresh ids, so that an id deleted once stays unused     *)
(* unless a request saves its row again.  Names, slugs, prices and sort    *)
(* orders are left out, up to the refusal of a slug that is taken (Fail).  *)
(***************************************************************************)
EXTENDS Naturals

CONSTANTS Categories, Products, Attributes,  \* ids of rows, used or not yet
          Codes,      \* codes of attributes
          Defaults,   \* the codes initializeDefaultAttributes creates
          Workers,    \* concurrent requests
          MaxStock,
          Categories0 \* the categories there are at the start, all roots

None == "none"  \* no row yet, or a null column
Root == "root"  \* parentId is null
Gone == "gone"  \* deleted

ASSUME CatalogAssumption ==
    /\ MaxStock \in Nat
    /\ {None, Root, Gone} \cap Categories = {}
    /\ Defaults \subseteq Codes
    /\ {None, Gone} \cap Codes = {}

VARIABLES
    parent,    \* category -> its parentId
    product,   \* product -> its row
    attribute, \* attribute -> its row
    serves, worker,
    raced,     \* did a category move while another request walked or reparented? (history)
    hidden,    \* product -> taken off the shop, and no stock write relevant since (history)
    initialised, edited  \* the defaults were created; somebody wrote isSystem (history)

history == <<raced, hidden, initialised, edited>>
vars == <<parent, product, attribute, serves, worker, history>>

\* "archived" stands for every status a product is not sold in.
ProductStatus == {"active", "archived", "out_of_stock"}
\* manageInventory and, where it is set, allowBackorders.
Inventory == {"unmanaged", "managed", "backorders"}
Product == [status : ProductStatus, stock : 0..MaxStock, inventory : Inventory,
            category : Categories \cup {None}]
Attribute == [code : Codes, system : {"yes", "no"}]

NoRow == [status |-> None]
NoAttribute == [code |-> None]
Idle == [pc |-> "idle"]
Kinds == {"categories", "products", "attributes"}

Init == /\ parent = [c \in Categories |-> IF c \in Categories0 THEN Root ELSE None]
        /\ product = [p \in Products |-> NoRow]
        /\ attribute = [a \in Attributes |-> NoAttribute]
        /\ serves \in [Workers -> Kinds]
        /\ worker = [w \in Workers |-> Idle]
        /\ raced = "no"
        /\ hidden = [p \in Products |-> "no"]
        /\ initialised = "no" /\ edited = "no"

At(w, pc) == worker[w].pc = pc
Free(w, kind) == worker[w] = Idle /\ serves[w] = kind
Become(w, r) == worker' = [worker EXCEPT ![w] = r]
Finish(w) == Become(w, Idle)

HasCategory(c) == parent[c] \notin {None, Gone}
HasProduct(p) == product[p].status \in ProductStatus
HasAttribute(a) == attribute[a].code \in Codes
ParentOk(q) == q # Root => HasCategory(q)
Children(c) == {d \in Categories : parent[d] = c}

rows == <<parent, product, attribute>>

\* Every write may be refused by a unique index (a slug or sku that is taken
\* by then, whatever generateUniqueSlug found) or fail with the connection.
Fail(w) ==
    /\ worker[w] # Idle
    /\ Finish(w)
    /\ UNCHANGED <<rows, serves, history>>

-----------------------------------------------------------------------------
(* Categories *)

\* create: the parent is looked up when one is given,
StartCreateCategory(w, q) ==
    /\ Free(w, "categories")
    /\ ParentOk(q)
    /\ Become(w, [pc |-> "insertCategory", up |-> q])
    /\ UNCHANGED <<rows, serves, history>>

\* and has to be there still when the row is inserted (foreign key).
InsertCategory(w, c) ==
    /\ At(w, "insertCategory") /\ parent[c] = None
    /\ ParentOk(worker[w].up)
    /\ parent' = [parent EXCEPT ![c] = worker[w].up]
    /\ Finish(w)
    /\ UNCHANGED <<product, attribute, serves, history>>

\* update with a parentId; null is not checked any further.
StartMove(w, c, q) ==
    /\ Free(w, "categories")
    /\ HasCategory(c) /\ q # c
    /\ Become(w, [pc |-> IF q = Root THEN "write" ELSE "target", cat |-> c, to |-> q])
    /\ UNCHANGED <<rows, serves, history>>

\* The check of a move found what is above the new parent, or may write.
Checks(w, up) == Become(w, [pc |-> "walk", cat |-> worker[w].cat, to |-> worker[w].to, up |-> up])
Passes(w) == Become(w, [pc |-> "write", cat |-> worker[w].cat, to |-> worker[w].to])

\* The new parent is found, and its parentId kept as the next one to look at.
FindTarget(w) ==
    /\ At(w, "target")
    /\ IF HasCategory(worker[w].to) THEN Checks(w, parent[worker[w].to]) ELSE Finish(w)
    /\ UNCHANGED <<rows, serves, history>>

\* One look at the walk to the root: refuse, end or climb.  A parent that was
\* deleted under the walk ends the request with a TypeError.
WalkOneLevel(w) ==  \* mutant: only the grandparent is looked at
    /\ At(w, "walk")
    /\ IF worker[w].up = worker[w].cat THEN Finish(w) ELSE Passes(w)
    /\ UNCHANGED <<rows, serves, history>>
Walk(w) ==
    /\ At(w, "walk")
    /\ LET up == worker[w].up IN
          \/ up = Root /\ Passes(w)
          \/ up = worker[w].cat /\ Finish(w)
          \/ /\ up \notin {Root, worker[w].cat}
             /\ \/ ~HasCategory(up) /\ Finish(w)
                \/ HasCategory(up) /\ Checks(w, parent[up])
    /\ UNCHANGED <<rows, serves, history>>

\* The other requests that hold what they read of the tree.
Holding(w) == \E v \in Workers \ {w} : worker[v].pc \in {"walk", "write", "reparent"}

\* UPDATE by id: no row, no effect; a parent that is gone is refused.
WriteMove(w) ==
    /\ At(w, "write")
    /\ LET c == worker[w].cat
           q == worker[w].to IN
          /\ ParentOk(q)
          /\ parent' = IF HasCategory(c) THEN [parent EXCEPT ![c] = q] ELSE parent
          /\ raced' = IF q # Root /\ Holding(w) THEN "yes" ELSE raced
    /\ Finish(w)
    /\ UNCHANGED <<product, attribute, serves, hidden, initialised, edited>>

\* remove: the category exists,
StartRemove(w, c) ==
    /\ Free(w, "categories") /\ HasCategory(c)
    /\ Become(w, [pc |-> "count", cat |-> c])
    /\ UNCHANGED <<rows, serves, history>>

\* holds no product,
CountProducts(w) ==
    /\ At(w, "count")
    /\ IF \E p \in Products : HasProduct(p) /\ product[p].category = worker[w].cat
       THEN Finish(w) ELSE Become(w, [pc |-> "children", cat |-> worker[w].cat])
    /\ UNCHANGED <<rows, serves, history>>

\* is read again with its children,
ReadChildren(w) ==
    /\ At(w, "children")
    /\ LET c == worker[w].cat IN
          IF HasCategory(c) /\ Children(c) # {}
          THEN Become(w, [pc |-> "reparent", cat |-> c, up |-> parent[c]])
          ELSE Become(w, [pc |-> "delete", cat |-> c])
    /\ UNCHANGED <<rows, serves, history>>

\* hands the children it has by now to the parent it had then,
Reparent(w) ==
    /\ At(w, "reparent")
    /\ LET up == worker[w].up
           kids == Children(worker[w].cat) IN
          /\ kids # {} => ParentOk(up)
          /\ parent' = [d \in Categories |-> IF d \in kids THEN up ELSE parent[d]]
          /\ raced' = IF up # Root /\ Holding(w) THEN "yes" ELSE raced
    /\ Become(w, [pc |-> "delete", cat |-> worker[w].cat])
    /\ UNCHANGED <<product, attribute, serves, hidden, initialised, edited>>

\* and is deleted, unless a row still refers to it.
ReferencedByProduct(c) ==  \* mutant: categories.parentId is no foreign key
    \E p \in Products : HasProduct(p) /\ product[p].category = c
Referenced(c) ==
    \/ Children(c) \ {c} # {}
    \/ \E p \in Products : HasProduct(p) /\ product[p].category = c
DeleteCategory(w) ==
    /\ At(w, "delete")
    /\ LET c == worker[w].cat IN
          /\ HasCategory(c) => ~Referenced(c)
          /\ parent' = IF HasCategory(c) THEN [parent EXCEPT ![c] = Gone] ELSE parent
    /\ Finish(w)
    /\ UNCHANGED <<product, attribute, serves, history>>

-----------------------------------------------------------------------------
(* Products *)

CategoryOk(q) == q # None => HasCategory(q)

\* create, and each product of a bulk import: its category is looked up; what
\* fails there is left out of the import.
Choices == [status : {"active", "archived"}, stock : {MaxStock}, inventory : {"managed"},
            category : Categories \cup {None}]
StartImport(w, ps, r) ==
    /\ Free(w, "products") /\ ps # {}
    /\ CategoryOk(r.category)
    /\ Become(w, [pc |-> "import", todo |-> ps, row |-> r])
    /\ UNCHANGED <<rows, serves, history>>

\* One save inserts all that passed in one transaction, or nothing.
Import(w) ==
    /\ At(w, "import") /\ CategoryOk(worker[w].row.category)
    /\ LET ps == worker[w].todo IN
          /\ \A p \in ps : product[p] = NoRow
          /\ product' = [p \in Products |-> IF p \in ps THEN worker[w].row ELSE product[p]]
          /\ hidden' = [p \in Products |->
                IF p \notin ps THEN hidden[p]
                ELSE IF worker[w].row.status = "archived" THEN "hidden" ELSE "no"]
    /\ Finish(w)
    /\ UNCHANGED <<parent, attribute, serves, raced, initialised, edited>>

\* update: product and category are looked up; `field` is the part of the body
\* that matters here.
Field == [name : {"status"}, value : {"active", "archived"}]
         \cup [name : {"inventory"}, value : Inventory]
         \cup [name : {"stock"}, value : 0..MaxStock]
         \cup [name : {"category"}, value : Categories \cup {None}]
StartUpdate(w, p, f) ==
    /\ Free(w, "products") /\ HasProduct(p)
    /\ f.name = "category" => CategoryOk(f.value)
    /\ Become(w, [pc |-> "update", product |-> p, field |-> f])
    /\ UNCHANGED <<rows, serves, history>>

\* A stock write that holds the row as it was before.
Saving(p) == \E w \in Workers : At(w, "save") /\ worker[w].product = p

\* UPDATE by id, of the columns given.
UpdateProduct(w) ==
    /\ At(w, "update")
    /\ LET p == worker[w].product
           f == worker[w].field IN
          /\ f.name = "category" => CategoryOk(f.value)
          /\ \/ ~HasProduct(p) /\ UNCHANGED <<product, hidden>>
             \/ /\ HasProduct(p)
                /\ product' = [product EXCEPT ![p] =
                      [status |-> IF f.name = "status" THEN f.value ELSE @.status,
                       stock |-> IF f.name = "stock" THEN f.value ELSE @.stock,
                       inventory |-> IF f.name = "inventory" THEN f.value ELSE @.inventory,
                       category |-> IF f.name = "category" THEN f.value ELSE @.category]]
                /\ hidden' = IF f.name # "status" THEN hidden ELSE
                      [hidden EXCEPT ![p] =
                         IF f.value = "archived" /\ ~Saving(p) THEN "hidden" ELSE "no"]
    /\ Finish(w)
    /\ UNCHANGED <<parent, attribute, serves, raced, initialised, edited>>

\* remove: found, then deleted by id.
StartRemoveProduct(w, p) ==
    /\ Free(w, "products") /\ HasProduct(p)
    /\ Become(w, [pc |-> "removeProduct", product |-> p])
    /\ UNCHANGED <<rows, serves, history>>

RemoveProduct(w) ==
    /\ At(w, "removeProduct")
    /\ product' = [product EXCEPT ![worker[w].product] = [status |-> Gone]]
    /\ hidden' = [hidden EXCEPT ![worker[w].product] = "no"]
    /\ Finish(w)
    /\ UNCHANGED <<parent, attribute, serves, raced, initialised, edited>>

\* updateStock of the service: the product must manage its inventory.
StartStock(w, p, n) ==
    /\ Free(w, "products") /\ HasProduct(p)
    /\ product[p].inventory # "unmanaged"
    /\ Become(w, [pc |-> "stock", product |-> p, quantity |-> n])
    /\ UNCHANGED <<rows, serves, history>>

StatusAfterAlways(r, n) ==  \* mutant: any product with stock becomes active
    IF n = 0 /\ r.inventory # "backorders" THEN "out_of_stock" ELSE "active"
StatusAfter(r, n) ==
    IF n = 0 /\ r.inventory # "backorders" THEN "out_of_stock"
    ELSE IF r.status = "out_of_stock" THEN "active" ELSE r.status

\* updateStock of the repository reads the product again and computes the row.
ReadStock(w) ==
    /\ At(w, "stock")
    /\ LET p == worker[w].product
           r == product[p]
           n == worker[w].quantity IN
          IF HasProduct(p) /\ r.inventory # "unmanaged"
          THEN Become(w, [pc |-> "save", product |-> p,
                          row |-> [r EXCEPT !.stock = n, !.status = StatusAfter(r, n)]])
          ELSE Finish(w)
    /\ UNCHANGED <<rows, serves, history>>

\* save writes every column that differs from the row by then, and inserts the
\* row again when it was deleted in between.
SaveStock(w) ==
    /\ At(w, "save")
    /\ LET p == worker[w].product
           r == worker[w].row IN
          /\ CategoryOk(r.category)
          /\ product' = [product EXCEPT ![p] = r]
          /\ hidden' = [hidden EXCEPT ![p] =
                IF r.status = "out_of_stock" \/ ~HasProduct(p) THEN "no" ELSE @]
    /\ Finish(w)
    /\ UNCHANGED <<parent, attribute, serves, raced, initialised, edited>>

-----------------------------------------------------------------------------
(* Attributes *)

Taken(k) == \E a \in Attributes : attribute[a].code = k

\* create, and bulkCreate, which leaves out the rows that fail: codes are looked up.
StartCreateAttributes(w, rs) ==
    /\ Free(w, "attributes") /\ rs # {}
    /\ \A r \in rs : ~Taken(r.code)
    /\ Become(w, [pc |-> "insertAttributes", todo |-> rs])
    /\ UNCHANGED <<rows, serves, history>>

\* One save inserts the rows under new ids, or none of them: the index on tenant
\* and code refuses a code that is taken by now, or twice in the batch.
Insert(rs, ids) ==
    /\ \A r \in rs : attribute[ids[r]] = NoAttribute /\ ~Taken(r.code)
    /\ \A r, q \in rs : r # q => ids[r] # ids[q] /\ r.code # q.code
    /\ attribute' = [a \in Attributes |->
          IF \E r \in rs : ids[r] = a THEN CHOOSE r \in rs : ids[r] = a ELSE attribute[a]]
InsertAttributes(w, ids) ==
    /\ At(w, "insertAttributes")
    /\ Insert(worker[w].todo, ids)
    /\ Finish(w)
    /\ UNCHANGED <<parent, product, serves, history>>

\* update: found, a new code looked up; a body may change isSystem.
StartUpdateAttribute(w, a, r) ==
    /\ Free(w, "attributes") /\ HasAttribute(a)
    /\ r.code # attribute[a].code => ~Taken(r.code)
    /\ Become(w, [pc |-> "updateAttribute", attr |-> a, row |-> r])
    /\ UNCHANGED <<rows, serves, history>>

UpdateAttribute(w) ==
    /\ At(w, "updateAttribute")
    /\ LET a == worker[w].attr
           r == worker[w].row IN
          /\ HasAttribute(a) /\ r.code # attribute[a].code => ~Taken(r.code)
          /\ IF HasAttribute(a)
             THEN /\ attribute' = [attribute EXCEPT ![a] = r]
                  /\ edited' = IF attribute[a].system = "yes" THEN "yes" ELSE edited
             ELSE UNCHANGED <<attribute, edited>>
    /\ Finish(w)
    /\ UNCHANGED <<parent, product, serves, raced, hidden, initialised>>

\* remove: a system attribute is refused.
StartRemoveAny(w, a) ==  \* mutant: isSystem is not looked at
    /\ Free(w, "attributes") /\ HasAttribute(a)
    /\ Become(w, [pc |-> "removeAttribute", attr |-> a])
    /\ UNCHANGED <<rows, serves, history>>
StartRemoveAttribute(w, a) ==
    /\ Free(w, "attributes") /\ HasAttribute(a)
    /\ attribute[a].system = "no"
    /\ Become(w, [pc |-> "removeAttribute", attr |-> a])
    /\ UNCHANGED <<rows, serves, history>>

RemoveAttribute(w) ==
    /\ At(w, "removeAttribute")
    /\ attribute' = [attribute EXCEPT ![worker[w].attr] = [code |-> Gone]]
    /\ Finish(w)
    /\ UNCHANGED <<parent, product, serves, history>>

\* initializeDefaultAttributes: one such save without looking.
DefaultRows == [code : Defaults, system : {"yes"}]
InitializeDefaults(w, ids) ==
    /\ Free(w, "attributes")
    /\ Insert(DefaultRows, ids)
    /\ initialised' = "yes"
    /\ UNCHANGED <<parent, product, serves, worker, raced, hidden, edited>>

CategoryRequest(w) ==
    \/ \E q \in Categories \cup {Root} :
          StartCreateCategory(w, q) \/ \E c \in Categories : StartMove(w, c, q)
    \/ \E c \in Categories : InsertCategory(w, c) \/ StartRemove(w, c)
    \/ FindTarget(w) \/ Walk(w) \/ WriteMove(w)
    \/ CountProducts(w) \/ ReadChildren(w) \/ Reparent(w) \/ DeleteCategory(w)

ProductRequest(w) ==
    \/ \E ps \in SUBSET Products, r \in Choices : StartImport(w, ps, r)
    \/ \E p \in Products :
          \/ \E f \in Field : StartUpdate(w, p, f)
          \/ StartRemoveProduct(w, p)
          \/ \E n \in 0..MaxStock : StartStock(w, p, n)
    \/ Import(w) \/ UpdateProduct(w) \/ RemoveProduct(w) \/ ReadStock(w) \/ SaveStock(w)

AttributeRequest(w) ==
    \/ \E rs \in SUBSET Attribute : StartCreateAttributes(w, rs)
    \/ At(w, "insertAttributes") /\ \E ids \in [worker[w].todo -> Attributes] : InsertAttributes(w, ids)
    \/ \E a \in Attributes :
          StartRemoveAttribute(w, a) \/ \E r \in Attribute : StartUpdateAttribute(w, a, r)
    \/ UpdateAttribute(w) \/ RemoveAttribute(w)
    \/ \E ids \in [DefaultRows -> Attributes] : InitializeDefaults(w, ids)

Next == \E w \in Workers :
    CategoryRequest(w) \/ ProductRequest(w) \/ AttributeRequest(w) \/ Fail(w)

Spec == Init /\ [][Next]_vars

-----------------------------------------------------------------------------
(* Properties *)

Request ==
    [pc : {"insertCategory"}, up : Categories \cup {Root}]
    \cup [pc : {"target"}, cat : Categories, to : Categories]
    \cup [pc : {"write"}, cat : Categories, to : Categories \cup {Root}]
    \cup [pc : {"walk"}, cat : Categories, to : Categories, up : Categories \cup {Root}]
    \cup [pc : {"count", "children", "delete"}, cat : Categories]
    \cup [pc : {"reparent"}, cat : Categories, up : Categories \cup {Root}]
    \cup [pc : {"import"}, todo : SUBSET Products, row : Product]
    \cup [pc : {"update"}, product : Products, field : Field]
    \cup [pc : {"removeProduct"}, product : Products]
    \cup [pc : {"stock"}, product : Products, quantity : 0..MaxStock]
    \cup [pc : {"save"}, product : Products, row : Product]
    \cup [pc : {"insertAttributes"}, todo : SUBSET Attribute]
    \cup [pc : {"updateAttribute"}, attr : Attributes, row : Attribute]
    \cup [pc : {"removeAttribute"}, attr : Attributes]

\* Rows and requests have their types, and no row refers to a category that was
\* deleted, however deletions overlap with moves, creations and stock writes.
TypeOK ==
    /\ parent \in [Categories -> Categories \cup {None, Root, Gone}]
    /\ product \in [Products -> Product \cup {NoRow, [status |-> Gone]}]
    /\ attribute \in [Attributes -> Attribute \cup {NoAttribute, [code |-> Gone]}]
    /\ serves \in [Workers -> Kinds]
    /\ worker \in [Workers -> Request \cup {Idle}]
    /\ raced \in {"yes", "no"} /\ hidden \in [Products -> {"no", "hidden"}]
    /\ initialised \in {"yes", "no"} /\ edited \in {"yes", "no"}
    /\ \A c \in Categories : parent[c] \in Categories => HasCategory(parent[c])
    /\ \A p \in Products : HasProduct(p) => CategoryOk(product[p].category)

\* Nobody is his own ancestor: no set of categories has all its parents inside.
Acyclic == \A cs \in (SUBSET Categories) \ {{}} : \E c \in cs : parent[c] \notin cs

\* The categories stay a forest as long as no category is put below another, by
\* a move or by the removal of its parent, while a second request relies on what
\* it has read of the tree; creations, deletions and moves to the root may
\* overlap with anything.
NoCycle == raced = "no" => Acyclic

\* A product taken off the shop is not put on sale by stock writes, as long as
\* none of them was under way and its stock never ran out.
HiddenStaysHidden ==
    \A p \in Products : hidden[p] = "hidden" => product[p].status = "archived"

\* Once created, the default attributes stay, whatever is created, changed and
\* removed around them, until a system attribute is itself changed.
DefaultsStay ==
    initialised = "yes" /\ edited = "no" =>
        \A k \in Defaults : \E a \in Attributes : attribute[a] = [code |-> k, system |-> "yes"]
=============================================================================
