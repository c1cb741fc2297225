----------------------------- MODULE Storefront -----------------------------
(***************************************************************************)
(* The shop in one browser tab: the cart of its Redux store, the pages     *)
(* with their local state, and the timers that stand in for calls of the   *)
(* API.  A page's state is made anew whenever the page is entered; a timer *)
(* writes to nothing once its page is left, but the redirects of the login *)
(* and registration forms are made wherever the customer is by then.  The  *)
(* effect that adds up the checkout's summary is a step of its own: a      *)
(* click before it finds the summary it has not replaced yet.              *)
(*                                                                         *)
(* Two slices of the store define the actions of the cart.  Only the newer *)
(* one is installed; it handles the older one's actions of the same name,  *)
(* and nobody handles the older one's change of a quantity.                *)
(*                                                                         *)
(* Every product of the lists has one price, and the product page shows    *)
(* one product at one price whatever its address says.  Amounts are        *)
(* counted in tenths, so that a tenth of one is whole.  Of the fields of a *)
(* form one stands for all that need a text.                               *)
(***************************************************************************)
EXTENDS Integers, FiniteSets, Functions

CONSTANTS Products,    \* numbers of the products in the lists
          Slugs,       \* the names their links open the product page with
          ListPrice, PagePrice,
          FreeAbove,   \* a subtotal above it is delivered for nothing
          Freight,
          Stock,       \* pieces the product page says there are
          ListPages,   \* pages of the list without a filter
          MaxPieces    \* bound: pieces on a line of the cart

ASSUME StoreAssumption == /\ {ListPrice, PagePrice, FreeAbove, Freight} \subseteq Nat
                          /\ {Stock, ListPages, MaxPieces} \subseteq Nat \ {0}

VARIABLES storePage,    \* the page shown
          storeVisited, \* pages without a general link that the back button leads to
          storeUi,      \* local state of the page shown
          storeCart,    \* the cart: from the lines' products to price and quantity
          storeLate     \* pages that forms which were left will still open

storeVars == <<storePage, storeVisited, storeUi, storeCart, storeLate>>

ProductIds == Products \cup Slugs
NoLine == [i \in {} |-> 0]
Unknown == "unknown"

Tenths == 10
Subtotal(cart) == FoldFunction(+, 0, [i \in DOMAIN cart |-> Tenths * cart[i].price * cart[i].quantity])
FreightOf(subtotal) == IF subtotal > Tenths * FreeAbove THEN 0 ELSE Tenths * Freight
SummaryOf(subtotal, discount) ==
    [subtotal |-> subtotal, freight |-> FreightOf(subtotal),
     total |-> subtotal + FreightOf(subtotal) - discount]
NoSummary == [subtotal |-> 0, freight |-> 0, total |-> 0]

\* Links of the header, the footer and the bodies of the pages.  "text" stands for
\* the pages about the shop, its terms, privacy and licence, which keep no state.
Everywhere == {"home", "products", "promotions", "contact", "category", "cart", "text"}
Steps == <<"checkoutCart", "delivery", "payment", "confirmation">>
Checkout == {Steps[k] : k \in 1..4}
Account == {"login", "register", "recover"}
StorePages == Everywhere \cup Checkout \cup Account \cup {"product", "categories", "notFound"}

Links(p) ==
    Everywhere \cup
    CASE p = "cart" -> {"notFound"}
      [] p = "register" -> {"login"}
      [] p = "login" -> {"register", "recover"}
      [] p = "recover" -> {"login"}
      [] p \in Checkout -> {Steps[k] : k \in 1..(CHOOSE k \in 1..4 : Steps[k] = p) - 1}
                            \cup (IF p = "confirmation" THEN {"notFound"} ELSE {})
      [] OTHER -> {}

FreshForm == [complete |-> FALSE, errors |-> FALSE, submitting |-> FALSE, sent |-> FALSE]

\* The states a page may begin in, given the cart.
FreshPage(p, cart) ==
    CASE p = "products" -> {[loading |-> TRUE, pages |-> ListPages, at |-> 1]}
      [] p = "promotions" -> {[loading |-> TRUE, filtered |-> FALSE]}
      [] p \in {"category", "categories"} -> {[loading |-> TRUE, crashed |-> FALSE]}
      [] p = "product" -> [id : ProductIds, loading : {TRUE}, quantity : {1}, image : {1},
                           tab : {"description"}]
      [] p = "cart" -> {[selected |-> [i \in DOMAIN cart |-> cart[i].quantity]]}
      [] p = "checkoutCart" -> {[summary |-> NoSummary, due |-> TRUE, discount |-> 0,
                                  applied |-> FALSE, cep |-> FALSE, cepError |-> FALSE]}
      [] p = "delivery" -> {[cep |-> Unknown, street |-> Unknown, rest |-> FALSE, errors |-> {},
                             searched |-> Unknown]}
      [] p = "payment" -> {[crashed |-> TRUE]}
      [] p = "confirmation" -> {[number |-> FALSE]}
      [] p \in Account \cup {"contact"} -> {FreshForm}
      [] OTHER -> {[still |-> TRUE]}

StoreInit ==
    /\ storePage \in StorePages
    /\ storeVisited = {storePage} \ Everywhere
    /\ storeCart = NoLine
    /\ storeUi \in FreshPage(storePage, storeCart)
    /\ storeLate = {}

Here(p) == storePage = p
Crashed == /\ storePage \in {"payment", "category"}
           /\ storeUi.crashed
Blank == \/ Here("confirmation") /\ ~ storeUi.number
         \/ Here("delivery") /\ storeCart = NoLine

Draw(ui) == /\ storeUi' = ui
            /\ UNCHANGED <<storePage, storeVisited, storeCart, storeLate>>

\* The page that the form of the page shown is about to open.
AboutToOpen == IF Here("login") /\ storeUi.submitting THEN {"home"}
               ELSE IF Here("register") /\ storeUi.submitting THEN {"login"} ELSE {}

\* The router opens p.  At most one redirect of each form is pending.
Open(p, late) ==
    IF Here(p)
    THEN storeLate' = late /\ UNCHANGED <<storePage, storeVisited, storeUi, storeCart>>
    ELSE /\ storePage' = p
         /\ storeVisited' = storeVisited \cup ({p} \ Everywhere)
         /\ storeUi' \in FreshPage(p, storeCart)
         /\ AboutToOpen \cap late = {}
         /\ storeLate' = late \cup AboutToOpen
         /\ UNCHANGED storeCart

-----------------------------------------------------------------------------
(* Navigation *)

FollowLink == /\ ~ Crashed /\ ~ Blank
              /\ \E p \in Links(storePage) \ {storePage} : Open(p, storeLate)

\* The product page that was left may be any.
PressBack == /\ ~ Crashed
             /\ \E p \in storeVisited \ {storePage} : Open(p, storeLate)

\* An address typed, or a reload: the cart is kept nowhere else.
LoadStore ==
    /\ storePage' \in StorePages
    /\ storeVisited' = {storePage'} \ Everywhere
    /\ storeCart' = NoLine
    /\ storeUi' \in FreshPage(storePage', NoLine)
    /\ storeLate' = {}

LateOpening == /\ ~ Crashed
               /\ \E p \in storeLate : Open(p, storeLate \ {p})

-----------------------------------------------------------------------------
(* The cart of the store *)

Line(price, quantity) == [price |-> price, quantity |-> quantity]

\* A product that is in the cart keeps the price it was first added at.
AddToCart(id, price, quantity) ==
    LET pieces == IF quantity = 0 THEN 1 ELSE quantity
        added == IF id \in DOMAIN storeCart
                 THEN [storeCart[id] EXCEPT !.quantity = @ + pieces]
                 ELSE Line(price, pieces)
    IN /\ added.quantity <= MaxPieces
       /\ storeCart' = [i \in DOMAIN storeCart \cup {id} |-> IF i = id THEN added ELSE storeCart[i]]
       /\ UNCHANGED <<storePage, storeVisited, storeUi, storeLate>>

WithoutLine(id) == Restrict(storeCart, DOMAIN storeCart \ {id})

-----------------------------------------------------------------------------
(* Lists of products *)

LoadStoreProducts ==
    /\ Here("products") /\ storeUi.loading
    /\ Draw([storeUi EXCEPT !.loading = FALSE])

\* Category and price range; every one of them, and the order, goes back to page 1.
HandleFilterChange(pages) ==
    /\ Here("products")
    /\ Draw([storeUi EXCEPT !.pages = pages, !.at = 1])

\* The second button, which there is when no product is left, keeps the page.
ClearFilters ==
    /\ Here("products")
    /\ \/ Draw([storeUi EXCEPT !.pages = ListPages, !.at = 1])
       \/ ~ storeUi.loading /\ storeUi.pages = 0 /\ Draw([storeUi EXCEPT !.pages = ListPages])

Paginate(n) ==
    /\ Here("products") /\ ~ storeUi.loading /\ storeUi.pages > 1
    /\ n \in 1..storeUi.pages
    /\ Draw([storeUi EXCEPT !.at = n])

ListShown == \/ Here("products") /\ ~ storeUi.loading /\ storeUi.at <= storeUi.pages
             \/ Here("promotions") /\ ~ storeUi.loading

AddFromList(id) ==
    /\ Here("products") /\ ListShown
    /\ AddToCart(id, ListPrice, 1)

LoadPromotions == /\ Here("promotions") /\ storeUi.loading
                  /\ Draw([storeUi EXCEPT !.loading = FALSE])

FilterPromotions(one) == /\ Here("promotions")
                         /\ Draw([storeUi EXCEPT !.filtered = one])

AddPromotion(id) ==
    /\ Here("promotions") /\ ListShown
    /\ AddToCart(id, ListPrice, 1)

\* The page of a category sets its state while it renders the products, again and
\* again, until React gives up.
LoadCategory == /\ Here("category") /\ storeUi.loading
                /\ Draw([loading |-> FALSE, crashed |-> TRUE])

LoadCategories == /\ Here("categories") /\ storeUi.loading
                  /\ Draw([storeUi EXCEPT !.loading = FALSE])

ChooseCategory == /\ Here("categories") /\ ~ storeUi.loading
                  /\ Open("category", storeLate)

-----------------------------------------------------------------------------
(* One product *)

OpenProduct(id) ==
    /\ \/ Here("home") /\ id \in Products
       \/ ListShown /\ id \in Slugs
       \/ Here("checkoutCart") /\ id \in DOMAIN storeCart
    /\ Open("product", storeLate)
    /\ storeUi'.id = id

LoadStoreProduct == /\ Here("product") /\ storeUi.loading
                    /\ Draw([storeUi EXCEPT !.loading = FALSE])

ProductShown == Here("product") /\ ~ storeUi.loading

\* mutant: what is typed is taken as it is
TakeQuantity(n) ==
    /\ ProductShown
    /\ Draw([storeUi EXCEPT !.quantity = n])
\* A text that is no number is a number below 1 here.
HandleQuantityChange(n) ==
    /\ ProductShown
    /\ Draw([storeUi EXCEPT !.quantity = IF n < 1 THEN 1 ELSE IF n > Stock THEN Stock ELSE n])

HandleIncrement == /\ ProductShown /\ storeUi.quantity < Stock
                   /\ Draw([storeUi EXCEPT !.quantity = @ + 1])

HandleDecrement == /\ ProductShown /\ storeUi.quantity > 1
                   /\ Draw([storeUi EXCEPT !.quantity = @ - 1])

HandleImageClick(image) == /\ ProductShown
                           /\ Draw([storeUi EXCEPT !.image = image])

SetActiveTab(tab) == /\ ProductShown
                     /\ Draw([storeUi EXCEPT !.tab = tab])

AddProduct == /\ ProductShown
              /\ AddToCart(storeUi.id, PagePrice, storeUi.quantity)

-----------------------------------------------------------------------------
(* The cart's own page *)

\* The choice stays with the page: no reducer handles it.
SelectQuantity(id, n) ==
    /\ Here("cart") /\ id \in DOMAIN storeCart
    /\ Draw([storeUi EXCEPT !.selected[id] = n])

HandleRemove(id) ==
    /\ Here("cart") /\ id \in DOMAIN storeCart
    /\ storeCart' = WithoutLine(id)
    /\ storeUi' = [storeUi EXCEPT !.selected = Restrict(@, DOMAIN @ \ {id})]
    /\ UNCHANGED <<storePage, storeVisited, storeLate>>

-----------------------------------------------------------------------------
(* Checkout: the cart *)

\* The effect is due once the page is shown, and again when the cart or the discount
\* is another.
RecalculateSummary ==
    /\ Here("checkoutCart") /\ storeUi.due
    /\ Draw([storeUi EXCEPT !.summary = SummaryOf(Subtotal(storeCart), storeUi.discount),
                            !.due = FALSE])

ChangeLines(cart) ==
    /\ Here("checkoutCart")
    /\ storeCart' = cart
    /\ storeUi' = [storeUi EXCEPT !.due = TRUE]
    /\ UNCHANGED <<storePage, storeVisited, storeLate>>

HandleIncrementQuantity(id) ==
    /\ id \in DOMAIN storeCart /\ storeCart[id].quantity < MaxPieces
    /\ ChangeLines([storeCart EXCEPT ![id].quantity = @ + 1])

HandleDecrementQuantity(id) ==
    /\ id \in DOMAIN storeCart /\ storeCart[id].quantity > 1
    /\ ChangeLines([storeCart EXCEPT ![id].quantity = @ - 1])

HandleRemoveItem(id) ==
    /\ id \in DOMAIN storeCart
    /\ ChangeLines(WithoutLine(id))

\* A tenth of the subtotal there is; lines that go later do not change it.  A coupon
\* that is not valid leaves the discount at nothing.
HandleAplicarCupom ==
    /\ Here("checkoutCart") /\ ~ storeUi.applied
    /\ LET discount == storeUi.summary.subtotal \div Tenths
       IN Draw([storeUi EXCEPT !.discount = discount, !.applied = TRUE,
                               !.due = @ \/ discount # storeUi.discount])

HandleCepChange(valid) ==
    /\ Here("checkoutCart")
    /\ Draw([storeUi EXCEPT !.cep = valid, !.cepError = FALSE])

\* The subtotal is the one the effect left.
HandleCalcularFrete ==
    /\ Here("checkoutCart")
    /\ Draw([storeUi EXCEPT !.cepError = ~ storeUi.cep,
                !.summary = IF storeUi.cep THEN SummaryOf(@.subtotal, storeUi.discount) ELSE @])

HandleContinuar == /\ Here("checkoutCart") /\ storeCart # NoLine
                   /\ Open("delivery", storeLate)

-----------------------------------------------------------------------------
(* Checkout: delivery.  A postal code is Unknown until it has eight digits. *)

DeliveryForm == Here("delivery") /\ storeCart # NoLine

\* A customer without a line in the cart is sent back.
RedirectEmpty == /\ Here("delivery") /\ storeCart = NoLine
                 /\ Open("checkoutCart", storeLate)

PostalCodes == {Unknown, "12345678", "another"}

HandleChange ==
    /\ DeliveryForm
    /\ \/ \E cep \in PostalCodes : Draw([storeUi EXCEPT !.cep = cep, !.errors = @ \ {"cep"}])
       \/ \E street \in {Unknown, "typed"} :
             Draw([storeUi EXCEPT !.street = street, !.errors = @ \ {"street"}])
       \/ \E rest \in BOOLEAN : Draw([storeUi EXCEPT !.rest = rest, !.errors = @ \ {"rest"}])

BuscarEnderecoPorCEP ==
    /\ DeliveryForm /\ storeUi.searched = Unknown /\ storeUi.cep # Unknown
    /\ Draw([storeUi EXCEPT !.searched = storeUi.cep])

\* The address of the code at the click replaces the one typed since.
AddressFound ==
    /\ Here("delivery") /\ storeUi.searched # Unknown
    /\ Draw([storeUi EXCEPT !.searched = Unknown,
                !.street = IF storeUi.searched = "12345678" THEN "Avenida Brasil" ELSE "Rua Principal"])

ValidateForm == {field \in {"cep", "street"} : storeUi[field] = Unknown}
                \cup (IF storeUi.rest THEN {} ELSE {"rest"})

SubmitDelivery ==
    /\ DeliveryForm
    /\ IF ValidateForm = {} THEN Open("payment", storeLate)
       ELSE Draw([storeUi EXCEPT !.errors = ValidateForm])

HandleVoltar == /\ DeliveryForm
                /\ Open("checkoutCart", storeLate)

-----------------------------------------------------------------------------
(* Checkout: confirmation *)

\* However the customer came here, the cart is emptied.
ConfirmOrder ==
    /\ Here("confirmation") /\ ~ storeUi.number
    /\ storeUi' = [number |-> TRUE]
    /\ storeCart' = NoLine
    /\ UNCHANGED <<storePage, storeVisited, storeLate>>

-----------------------------------------------------------------------------
(* Forms that ask nobody: login, registration, recovery of a password, contact *)

TypeText(p) == /\ Here(p) /\ ~ storeUi.sent
               /\ \E complete \in BOOLEAN :
                     Draw([storeUi EXCEPT !.complete = complete, !.errors = FALSE])

TypeCredentials == TypeText("login")
TypeRegistration == TypeText("register")
TypeEmail == TypeText("recover")
TypeMessage == TypeText("contact")

SubmitText(p) == /\ Here(p) /\ ~ storeUi.submitting /\ ~ storeUi.sent
                 /\ Draw([storeUi EXCEPT !.errors = ~ storeUi.complete,
                                         !.submitting = storeUi.complete])

SubmitCredentials == SubmitText("login")
SubmitRegistration == SubmitText("register")
SubmitEmail == SubmitText("recover")
\* The browser refuses an empty field.
SubmitMessage == Here("contact") /\ storeUi.complete /\ SubmitText("contact")

Opened(p, next) ==
    /\ Here(p) /\ storeUi.submitting
    /\ storePage' = next
    /\ storeVisited' = storeVisited \cup ({next} \ Everywhere)
    /\ storeUi' \in FreshPage(next, storeCart)
    /\ UNCHANGED <<storeCart, storeLate>>

LoggedIn == Opened("login", "home")
Registered == Opened("register", "login")

\* The form gives way to a note.
EmailSent == /\ Here("recover") /\ storeUi.submitting
             /\ Draw([storeUi EXCEPT !.submitting = FALSE, !.sent = TRUE])

MessageSent == /\ Here("contact") /\ storeUi.submitting
               /\ Draw(FreshForm)

-----------------------------------------------------------------------------
StoreNext ==
    \/ FollowLink \/ PressBack \/ LoadStore \/ LateOpening
    \/ LoadStoreProducts \/ ClearFilters \/ LoadPromotions \/ LoadCategory \/ LoadCategories
    \/ ChooseCategory
    \/ \E pages \in 0..ListPages : HandleFilterChange(pages) \/ Paginate(pages)
    \/ \E one \in BOOLEAN : FilterPromotions(one) \/ HandleCepChange(one)
    \/ \E id \in Products : AddFromList(id) \/ AddPromotion(id)
    \/ LoadStoreProduct \/ HandleIncrement \/ HandleDecrement \/ AddProduct
    \/ \E n \in -1..Stock + 1 : HandleQuantityChange(n)
    \/ \E image \in 1..2 : HandleImageClick(image)
    \/ \E tab \in {"description", "specifications", "reviews"} : SetActiveTab(tab)
    \/ \E id \in ProductIds : \/ OpenProduct(id) \/ HandleRemove(id) \/ HandleRemoveItem(id)
                              \/ HandleIncrementQuantity(id) \/ HandleDecrementQuantity(id)
                              \/ \E n \in 1..MaxPieces : SelectQuantity(id, n)
    \/ RecalculateSummary \/ HandleAplicarCupom \/ HandleCalcularFrete \/ HandleContinuar
    \/ RedirectEmpty \/ HandleChange \/ BuscarEnderecoPorCEP \/ AddressFound \/ SubmitDelivery
    \/ HandleVoltar \/ ConfirmOrder
    \/ TypeCredentials \/ TypeRegistration \/ TypeEmail \/ TypeMessage
    \/ SubmitCredentials \/ SubmitRegistration \/ SubmitEmail \/ SubmitMessage
    \/ LoggedIn \/ Registered \/ EmailSent \/ MessageSent

StoreSpec == StoreInit /\ [][StoreNext]_storeVars

-----------------------------------------------------------------------------
(* Properties *)

\* Through lists, product pages, both pages of the cart and whatever is typed for a
\* quantity, a line of the cart has at least one piece, so that no line lowers the
\* amount to pay.
LinesHavePieces == \A id \in DOMAIN storeCart : storeCart[id].quantity >= 1
=============================================================================
