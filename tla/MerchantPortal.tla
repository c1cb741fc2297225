--------------------------- MODULE MerchantPortal ---------------------------
(***************************************************************************)
(* The merchants' portal in one browser tab: its session, its pages with   *)
(* their local state, and the timers that stand in for calls of the API.   *)
(* A page's state is made anew whenever the page is entered.  A timer      *)
(* writes to the page that started it, and to nothing once that page is    *)
(* left; only the redirects of the product forms outlive their page.       *)
(*                                                                         *)
(* What a page loads is sample data of its own: a list is a function from  *)
(* row numbers to statuses; of the fields of a form one is kept.  Search   *)
(* boxes, further filters and sort orders, which only choose what is on    *)
(* the screen, are left out.                                               *)
(***************************************************************************)
EXTENDS Naturals, FiniteSets, Sequences, Functions

CONSTANTS MaxAddress, \* bound: addresses a customer page can number
          MaxLate     \* bound: redirects, logins and reports pending at a time

ASSUME MerchantAssumption == MaxAddress \in Nat \ {0, 1} /\ MaxLate \in Nat \ {0}

VARIABLES portalPage,   \* the page shown
          portalUi,     \* local state of the page shown
          portalAuth,   \* the store: isAuthenticated; nothing reads the cookie beside it
          portalLogins, \* logins of left pages that are not answered
          portalLate    \* redirects to the products that left pages will make

portalSession == <<portalAuth, portalLogins>>
portalVars == <<portalPage, portalUi, portalSession, portalLate>>

None == "none"
NoId == 0
All == "all"
Empty == [i \in {} |-> None]

Inside == {"dashboard", "orders", "order", "products", "product", "unknownProduct",
           "newProduct", "customers", "customer", "payments", "reports", "settings",
           "notFound"}
PortalPages == Inside \cup {"login"}

Ranges == {"last30days", "allTime"}
NoOrder == [status |-> None, payment |-> None, shipping |-> None]
NoCustomer == [status |-> None, addresses |-> Empty]
NoSave == [customer |-> NoCustomer, form |-> None]
NoAddress == [current |-> NoId, id |-> NoId, isDefault |-> FALSE, complete |-> FALSE, calm |-> FALSE]
NoForm == [complete |-> FALSE, images |-> 0]

\* The state of a page at its first rendering, before its effects run.
PageState(p) ==
    CASE p = "login" -> [submitting |-> FALSE]
      [] p \in {"dashboard", "orders", "products", "customers", "payments"} ->
            [loading |-> TRUE, rows |-> Empty, filter |-> All]
      [] p = "order" -> [loading |-> TRUE, order |-> NoOrder, form |-> NoOrder, updating |-> FALSE,
                         click |-> NoOrder]
      [] p = "customer" ->
            [loading |-> TRUE, customer |-> NoCustomer, form |-> None, editing |-> FALSE,
             saving |-> FALSE, click |-> NoSave, dialog |-> FALSE, address |-> NoAddress,
             next |-> 3, safe |-> {}, gone |-> {}]
      [] p = "product" ->
            [loading |-> TRUE, form |-> NoForm, errors |-> {}, submitting |-> FALSE]
      [] p = "newProduct" ->
            [loading |-> FALSE, form |-> NoForm, errors |-> {}, submitting |-> FALSE]
      [] p = "reports" -> [loading |-> TRUE, range |-> "last30days", shown |-> None,
                           pending |-> <<"last30days">>]
      [] p = "settings" -> [tab |-> "store", renamed |-> FALSE, installments |-> TRUE, freeShipping |-> TRUE]
      [] OTHER -> [loading |-> FALSE]

PortalInit ==
    /\ portalPage \in PortalPages
    /\ portalUi = PageState(portalPage)
    /\ portalAuth = FALSE
    /\ portalLogins = 0
    /\ portalLate = 0

\* Does the page shown have a timer that ends with a redirect?
Redirects == \/ portalPage \in {"product", "newProduct"} /\ portalUi.submitting
             \/ portalPage = "unknownProduct"

Asking == portalPage = "login" /\ portalUi.submitting

Move(p) == /\ portalPage' = p
           /\ portalUi' = PageState(p)

\* The router opens p, given the redirects and logins that are pending besides
\* those of the page that is left.
Push(p, late, logins) ==
    IF portalPage = p
    THEN /\ portalLate' = late /\ portalLogins' = logins
         /\ UNCHANGED <<portalPage, portalUi>>
    ELSE /\ Move(p)
         /\ portalLate' = IF Redirects THEN late + 1 ELSE late
         /\ portalLogins' = IF Asking THEN logins + 1 ELSE logins
         /\ portalLate' + portalLogins' <= MaxLate

Put(ui) == /\ portalUi' = ui
           /\ UNCHANGED <<portalPage, portalSession, portalLate>>

At(p) == portalPage = p

-----------------------------------------------------------------------------
(* Session and navigation *)

HandleSubmit ==
    /\ At("login") /\ ~ portalUi.submitting
    /\ Put([submitting |-> TRUE])

\* The form that asked opens the dashboard, wherever the merchant is by then.
LoginSucceeds ==
    /\ portalAuth' = TRUE
    /\ \/ Asking /\ Move("dashboard") /\ UNCHANGED <<portalLogins, portalLate>>
       \/ portalLogins > 0 /\ Push("dashboard", portalLate, portalLogins - 1)

LoginFails ==
    /\ UNCHANGED <<portalPage, portalAuth, portalLate>>
    /\ \/ Asking /\ portalUi' = [submitting |-> FALSE] /\ UNCHANGED portalLogins
       \/ portalLogins > 0 /\ portalLogins' = portalLogins - 1 /\ UNCHANGED portalUi

\* The merchant stays on the page: no page asks for a session.
Logout ==
    /\ portalPage \in Inside
    /\ portalAuth' = FALSE
    /\ UNCHANGED <<portalPage, portalUi, portalLogins, portalLate>>

\* Links of the layout and of the pages, and the browser's buttons: the way back
\* may lead to the login page, which no link does.
Navigate ==
    \E p \in PortalPages \ {portalPage} :
        /\ Push(p, portalLate, portalLogins)
        /\ UNCHANGED portalAuth

LoadPage ==
    /\ \E p \in PortalPages : /\ portalPage' = p
                              /\ portalUi' = PageState(p)
    /\ portalAuth' = FALSE
    /\ portalLogins' = 0
    /\ portalLate' = 0

-----------------------------------------------------------------------------
(* Lists *)

Loaded(p, rows) == /\ At(p) /\ portalUi.loading
                   /\ Put([portalUi EXCEPT !.loading = FALSE, !.rows = rows])

LoadDashboard == Loaded("dashboard", Empty)
LoadOrders == Loaded("orders", <<"processing", "completed">>)
LoadProducts == Loaded("products", <<"active", "draft">>)
LoadCustomers == Loaded("customers", <<"active", "inactive">>)
LoadPayments == Loaded("payments", <<"received", "pending">>)

\* The rows the filter of statuses leaves, and the choice of another filter.
Listed(i) == i \in DOMAIN portalUi.rows /\ portalUi.filter \in {All, portalUi.rows[i]}
Filter(p, statuses) == /\ At(p)
                       /\ \E status \in statuses \cup {All} : Put([portalUi EXCEPT !.filter = status])

OrderStatus == {"pending", "processing", "completed", "cancelled", "refunded"}
FilterOrders == Filter("orders", OrderStatus)
FilterProducts == Filter("products", {"active", "inactive", "draft"})
FilterCustomers == Filter("customers", {"active", "inactive"})
FilterPayments == Filter("payments", {"pending", "confirmed", "received", "overdue", "refunded", "cancelled"})

OrderRow(i) == At("orders") /\ Listed(i)
ProductRow(i) == At("products") /\ Listed(i)
CustomerRow(i) == At("customers") /\ Listed(i)
PaymentRow(i) == At("payments") /\ Listed(i)

\* Any status may follow any other.
UpdateOrderStatus(i, status) ==
    /\ OrderRow(i) /\ status \in OrderStatus
    /\ Put([portalUi EXCEPT !.rows[i] = status])

DeleteProduct(i) ==
    /\ ProductRow(i)
    /\ Put([portalUi EXCEPT !.rows = Restrict(@, DOMAIN @ \ {i})])

UpdateCustomerStatus(i) ==
    /\ CustomerRow(i)
    /\ Put([portalUi EXCEPT !.rows[i] = IF @ = "active" THEN "inactive" ELSE "active"])

RefundPayment(i) ==
    /\ PaymentRow(i) /\ portalUi.rows[i] = "received"
    /\ Put([portalUi EXCEPT !.rows[i] = "refunded"])

CancelPayment(i) ==
    /\ PaymentRow(i) /\ portalUi.rows[i] \in {"pending", "confirmed"}
    /\ Put([portalUi EXCEPT !.rows[i] = "cancelled"])

-----------------------------------------------------------------------------
(* One order *)

SampleOrder == [status |-> "processing", payment |-> "paid", shipping |-> "pending"]
FieldValues == [status |-> {"processing", "completed"}, payment |-> {"paid", "refunded"},
                shipping |-> {"pending", "shipped"}]

LoadOrder ==
    /\ At("order") /\ portalUi.loading
    /\ Put([portalUi EXCEPT !.loading = FALSE, !.order = SampleOrder, !.form = SampleOrder])

ChooseOrderField(field, value) ==
    /\ At("order") /\ ~ portalUi.loading
    /\ value \in FieldValues[field]
    /\ Put([portalUi EXCEPT !.form[field] = value])

\* What is written is the form as it was at the click.
UpdateOrder ==
    /\ At("order") /\ ~ portalUi.loading /\ ~ portalUi.updating
    /\ Put([portalUi EXCEPT !.updating = TRUE, !.click = portalUi.form])

FinishOrder ==
    /\ At("order") /\ portalUi.updating
    /\ Put([portalUi EXCEPT !.order = portalUi.click, !.updating = FALSE, !.click = NoOrder])

-----------------------------------------------------------------------------
(* One product *)

EditForm == At("product") /\ ~ portalUi.loading
NewForm == At("newProduct")
OnProductForm == EditForm \/ NewForm

LoadProduct ==
    /\ At("product") /\ portalUi.loading
    /\ Put([portalUi EXCEPT !.loading = FALSE, !.form = [complete |-> TRUE, images |-> 2]])

\* The sample has three products, the list seven.
MissProduct ==
    /\ At("unknownProduct")
    /\ Move("products")
    /\ UNCHANGED <<portalSession, portalLate>>

\* The fields with a text stand for one, which is acceptable or not.
TypeProduct(complete) ==
    /\ OnProductForm
    /\ Put([portalUi EXCEPT !.form.complete = complete, !.errors = @ \ {"fields"}])

AddImage ==
    /\ OnProductForm /\ portalUi.form.images < 2
    /\ Put([portalUi EXCEPT !.form.images = @ + 1])

RemoveImage ==
    /\ OnProductForm /\ portalUi.form.images > 0
    /\ Put([portalUi EXCEPT !.form.images = @ - 1])

Mistakes(form) == (IF form.complete THEN {} ELSE {"fields"})
                  \cup (IF form.images = 0 THEN {"images"} ELSE {})

SubmitEdited ==
    /\ EditForm /\ ~ portalUi.submitting
    /\ Put([portalUi EXCEPT !.errors = Mistakes(portalUi.form),
                            !.submitting = (Mistakes(portalUi.form) = {})])

SubmitNew ==
    /\ NewForm /\ ~ portalUi.submitting
    /\ Put([portalUi EXCEPT !.errors = Mistakes(portalUi.form),
                            !.submitting = (Mistakes(portalUi.form) = {})])

FinishProduct ==
    /\ OnProductForm /\ portalUi.submitting
    /\ Move("products")
    /\ UNCHANGED <<portalSession, portalLate>>

\* The redirect of a form that was left takes the merchant from another page.
LateRedirect ==
    /\ portalLate > 0
    /\ Push("products", portalLate - 1, portalLogins)
    /\ UNCHANGED portalAuth

-----------------------------------------------------------------------------
(* One customer.  `safe' and `gone' are history: the addresses saved from a   *)
(* dialog that was opened, and those deleted, with no save of the customer in  *)
(* flight (`calm').                                                           *)

SampleCustomer ==
    [status |-> "active", addresses |-> [i \in {1, 2} |-> i = 1]]

LoadCustomer ==
    /\ At("customer") /\ portalUi.loading
    /\ Put([portalUi EXCEPT !.loading = FALSE, !.customer = SampleCustomer,
                            !.form = SampleCustomer.status])

\* The dialog of an address covers the page.
OnCustomer == At("customer") /\ ~ portalUi.loading /\ ~ portalUi.dialog
OnDialog == At("customer") /\ portalUi.dialog

\* The head of the page, and the fields it shows while the customer is edited.
Editing == OnCustomer /\ portalUi.editing

EditCustomer == /\ OnCustomer /\ ~ portalUi.editing
                /\ Put([portalUi EXCEPT !.editing = TRUE])

ChangeCustomer(status) ==
    /\ Editing
    /\ Put([portalUi EXCEPT !.form = status])

\* The form keeps what was typed.
CancelEdit == /\ Editing /\ ~ portalUi.saving
              /\ Put([portalUi EXCEPT !.editing = FALSE])

\* The customer and the form of the rendering in which the button was pressed.
AtClick == [customer |-> portalUi.customer, form |-> portalUi.form]

SaveCustomer ==
    /\ Editing /\ ~ portalUi.saving
    /\ Put([portalUi EXCEPT !.saving = TRUE, !.click = AtClick])

\* "Desativar" and "Ativar" set the form's status and save the form of before.
ToggleCustomer ==
    /\ OnCustomer /\ ~ portalUi.saving
    /\ Put([portalUi EXCEPT
               !.form = IF portalUi.customer.status = "active" THEN "inactive" ELSE "active",
               !.saving = TRUE, !.click = AtClick])

\* mutant: the save is over the customer as it was loaded
FinishOverSample ==
    /\ At("customer") /\ portalUi.saving
    /\ Put([portalUi EXCEPT
               !.customer = [SampleCustomer EXCEPT !.status = portalUi.click.form],
               !.editing = FALSE, !.saving = FALSE, !.click = NoSave])
\* What was done to the addresses since the click is undone.
FinishCustomer ==
    /\ At("customer") /\ portalUi.saving
    /\ Put([portalUi EXCEPT
               !.customer = [portalUi.click.customer EXCEPT !.status = portalUi.click.form],
               !.editing = FALSE, !.saving = FALSE, !.click = NoSave])

\* A new address has a random number, one with no number yet.
OpenNewAddress ==
    /\ OnCustomer /\ portalUi.next <= MaxAddress
    /\ Put([portalUi EXCEPT
               !.dialog = TRUE, !.address = [current |-> NoId, id |-> portalUi.next, isDefault |-> FALSE,
                            complete |-> FALSE, calm |-> ~ portalUi.saving],
               !.next = @ + 1])

AddressCard(i) == OnCustomer /\ i \in DOMAIN portalUi.customer.addresses

OpenAddress(i) ==
    /\ AddressCard(i)
    /\ Put([portalUi EXCEPT
               !.dialog = TRUE, !.address = [current |-> i, id |-> i, complete |-> TRUE, calm |-> ~ portalUi.saving,
                            isDefault |-> portalUi.customer.addresses[i]]])

TypeAddress(complete) ==
    /\ OnDialog
    /\ Put([portalUi EXCEPT !.address.complete = complete])

CheckDefault(isDefault) ==
    /\ OnDialog
    /\ Put([portalUi EXCEPT !.address.isDefault = isDefault])

CloseAddress == /\ OnDialog
                /\ Put([portalUi EXCEPT !.dialog = FALSE, !.address = NoAddress])

\* The list with the address of the dialog in it; one that was to be edited and
\* has disappeared stays away.
WithAddress(addresses, a) ==
    IF a.current # NoId /\ a.current \notin DOMAIN addresses THEN addresses
    ELSE [i \in DOMAIN addresses \cup {a.id} |-> IF i = a.id THEN a.isDefault ELSE addresses[i]]

\* mutant: an address that was edited does not take the default from the others
DefaultOfNew(addresses, a) ==
    IF a.isDefault /\ a.current = NoId THEN [i \in DOMAIN addresses |-> i = a.id /\ addresses[i]]
    ELSE addresses
OneDefault(addresses, a) ==
    IF a.isDefault THEN [i \in DOMAIN addresses |-> i = a.id /\ addresses[i]]
    ELSE addresses

SaveAddress ==
    /\ OnDialog /\ portalUi.address.complete
    /\ LET a == portalUi.address
           old == portalUi.customer.addresses
           new == OneDefault(WithAddress(old, a), a)
       IN Put([portalUi EXCEPT
                 !.customer.addresses = new,
                 !.dialog = FALSE, !.address = NoAddress,
                 !.safe = IF a.calm THEN @ \cup {a.id} ELSE @])

DeleteAddress(i) ==
    /\ AddressCard(i)
    /\ Put([portalUi EXCEPT
               !.customer.addresses = Restrict(@, DOMAIN @ \ {i}),
               !.safe = @ \ {i},
               !.gone = IF portalUi.saving THEN @ ELSE @ \cup {i}])

-----------------------------------------------------------------------------
(* Reports and settings *)

\* mutant: a range chosen while another one is fetched is not fetched
ChooseIdleRange(range) ==
    /\ At("reports") /\ range # portalUi.range
    /\ Len(portalUi.pending) < MaxLate + 1
    /\ Put([portalUi EXCEPT !.range = range, !.loading = TRUE,
               !.pending = IF @ = <<>> THEN <<range>> ELSE @])
ChooseRange(range) ==
    /\ At("reports") /\ range # portalUi.range
    /\ Len(portalUi.pending) < MaxLate + 1
    /\ Put([portalUi EXCEPT !.range = range, !.loading = TRUE, !.pending = Append(@, range)])

\* The fetches take a second each and end in the order they began in.
LoadReport ==
    /\ At("reports") /\ portalUi.pending # <<>>
    /\ Put([portalUi EXCEPT !.shown = Head(portalUi.pending), !.pending = Tail(@),
                            !.loading = FALSE])

ChooseTab(tab) == /\ At("settings") /\ tab # portalUi.tab
                  /\ Put([portalUi EXCEPT !.tab = tab])

StoreTab == At("settings") /\ portalUi.tab = "store"
PaymentTab == At("settings") /\ portalUi.tab = "payment"
ShippingTab == At("settings") /\ portalUi.tab = "shipping"

\* One field of each form stands for all; "Salvar" only says that it saved.
ChangeStoreInfo == StoreTab /\ Put([portalUi EXCEPT !.renamed = TRUE])

ChangePaymentSettings == /\ PaymentTab
                         /\ Put([portalUi EXCEPT !.installments = ~ @])

ChangeShippingSettings == /\ ShippingTab
                          /\ Put([portalUi EXCEPT !.freeShipping = ~ @])

-----------------------------------------------------------------------------
PortalNext ==
    \/ HandleSubmit \/ LoginSucceeds \/ LoginFails \/ Logout \/ Navigate \/ LoadPage
    \/ LoadDashboard \/ LoadOrders \/ LoadProducts \/ LoadCustomers \/ LoadPayments
    \/ FilterOrders \/ FilterProducts \/ FilterCustomers \/ FilterPayments
    \/ \E i \in 1..2 : \/ \E status \in OrderStatus : UpdateOrderStatus(i, status)
                       \/ DeleteProduct(i) \/ UpdateCustomerStatus(i)
                       \/ RefundPayment(i) \/ CancelPayment(i)
    \/ LoadOrder \/ UpdateOrder \/ FinishOrder
    \/ \E field \in DOMAIN FieldValues : \E value \in FieldValues[field] :
          ChooseOrderField(field, value)
    \/ LoadProduct \/ MissProduct \/ AddImage \/ RemoveImage
    \/ \E complete \in BOOLEAN : TypeProduct(complete)
    \/ SubmitEdited \/ SubmitNew \/ FinishProduct \/ LateRedirect
    \/ LoadCustomer \/ EditCustomer \/ CancelEdit \/ SaveCustomer \/ ToggleCustomer
    \/ \E status \in {"active", "inactive"} : ChangeCustomer(status)
    \/ FinishCustomer \/ OpenNewAddress \/ CloseAddress \/ SaveAddress
    \/ \E i \in 1..MaxAddress : OpenAddress(i) \/ DeleteAddress(i)
    \/ \E yes \in BOOLEAN : TypeAddress(yes) \/ CheckDefault(yes)
    \/ \E range \in Ranges : ChooseRange(range)
    \/ LoadReport
    \/ \E tab \in {"store", "payment", "shipping"} : ChooseTab(tab)
    \/ ChangeStoreInfo \/ ChangePaymentSettings \/ ChangeShippingSettings

PortalSpec == PortalInit /\ [][PortalNext]_portalVars

-----------------------------------------------------------------------------
(* Properties *)

Addresses == IF At("customer") /\ ~ portalUi.loading THEN portalUi.customer.addresses ELSE Empty

\* Whatever is added, edited, deleted and saved in between, and although a save of
\* the customer puts an older list of addresses back, one address at most is the
\* default one.
SingleDefault == \A i, j \in DOMAIN Addresses : Addresses[i] = TRUE /\ Addresses[j] = TRUE => i = j

\* An address saved from a dialog that no save of the customer overlaps stays until
\* it is deleted, and one deleted while no save is in flight does not come back.
AddressesKept ==
    At("customer") /\ ~ portalUi.loading =>
        portalUi.safe \subseteq DOMAIN Addresses /\ portalUi.gone \cap DOMAIN Addresses = {}

\* Ranges may be chosen faster than their reports come; once nothing is pending the
\* report on the screen is the one of the range chosen last.
ReportSettles == At("reports") /\ portalUi.pending = <<>> => portalUi.shown = portalUi.range
=============================================================================
