---------------------------- MODULE AdminPortal ----------------------------
(***************************************************************************)
(* The administrators' portal in one browser tab: the session kept by its  *)
(* Redux store and a cookie, the pages with their local state, and the     *)
(* navigation between them.  A page's state is made anew whenever the page *)
(* is entered; a timer of a page that was left writes to nothing, so that  *)
(* `loading' stands for the timer that is still to fire.                   *)
(*                                                                         *)
(* The lists are sample data the pages make themselves.  A row is its      *)
(* number and its status; the words, plans and cycles a filter may ask for *)
(* are the set of the rows that have them.                                 *)
(***************************************************************************)
EXTENDS Naturals, FiniteSets, Functions

CONSTANTS RowCount,  \* rows of the sample lists
          RowsPerPage,
          MaxPage    \* bound: page numbers behind the last page

ASSUME AdminAssumption == /\ RowCount \in Nat
                          /\ RowsPerPage \in Nat \ {0}
                          /\ MaxPage \in Nat

VARIABLES adminPage,     \* the page shown
          adminVisited,  \* pages the browser's back and forward buttons lead to
          adminUi,       \* local state of the page shown
          adminAuth,     \* the store: [isAuthenticated, token, status, error]
          adminCookie    \* is there a cookie adminToken?

adminVars == <<adminPage, adminVisited, adminUi, adminAuth, adminCookie>>

NoRow == 0
RowIds == 1..RowCount
NoRows == [i \in {} |-> "active"]
Every == "everyStatus"

Subscriptions == "subscriptions"
TenantList == "tenants"
Guarded == {"dashboard", "plans", TenantList, Subscriptions}
\* Links to pages that were not written end on the not-found page.
AdminPages == Guarded \cup {"login", "notFound"}

SampleStatus == {"active", "trial"}
OfferedSubscription == {"active", "canceled", "undefined"}
OfferedTenant == {"active", "inactive", "suspended"}

FreshUi(p) ==
    CASE p \in {TenantList, Subscriptions} ->
            [loading |-> TRUE, rows |-> NoRows, shown |-> NoRows, at |-> 1]
      [] p = "plans" ->
            [loading |-> TRUE, rows |-> NoRows, modal |-> FALSE, editing |-> NoRow]
      [] OTHER -> [loading |-> FALSE]

FreshAuth == [isAuthenticated |-> FALSE, token |-> adminCookie, status |-> "idle", error |-> FALSE]

AdminInit ==
    /\ adminPage \in AdminPages
    /\ adminVisited = {adminPage}
    /\ adminUi = FreshUi(adminPage)
    /\ adminCookie = FALSE
    /\ adminAuth = FreshAuth

GoTo(p) == /\ adminPage' = p
           /\ adminVisited' = adminVisited \cup {p}
           /\ adminUi' = FreshUi(p)

Show(ui) == /\ adminUi' = ui
            /\ UNCHANGED <<adminPage, adminVisited, adminAuth, adminCookie>>

-----------------------------------------------------------------------------
(* Session *)

\* The button is off while an answer is awaited.
SubmitLogin ==
    /\ adminPage = "login"
    /\ adminAuth.status # "loading"
    /\ adminAuth' = [adminAuth EXCEPT !.status = "loading", !.error = FALSE]
    /\ UNCHANGED <<adminPage, adminVisited, adminUi, adminCookie>>

LoginAccepted ==
    /\ adminAuth.status = "loading"
    /\ adminCookie' = TRUE
    /\ adminAuth' = [isAuthenticated |-> TRUE, token |-> TRUE, status |-> "succeeded", error |-> FALSE]
    /\ UNCHANGED <<adminPage, adminVisited, adminUi>>

\* The message is missing when the answer has a body without one.
LoginRejected ==
    /\ adminAuth.status = "loading"
    /\ \E message \in BOOLEAN :
          adminAuth' = [adminAuth EXCEPT !.status = "failed", !.error = message]
    /\ UNCHANGED <<adminPage, adminVisited, adminUi, adminCookie>>

\* The effects of the login page.
Welcome ==
    /\ adminPage = "login" /\ adminAuth.isAuthenticated
    /\ GoTo("dashboard")
    /\ UNCHANGED <<adminAuth, adminCookie>>

ReportFailure ==
    /\ adminPage = "login" /\ adminAuth.status = "failed" /\ adminAuth.error
    /\ adminAuth' = [adminAuth EXCEPT !.status = "idle", !.error = FALSE]
    /\ UNCHANGED <<adminPage, adminVisited, adminUi, adminCookie>>

\* mutant: the effect is missing on the page of the plans
GuardMostPages ==
    /\ adminPage \in Guarded \ {"plans"} /\ ~ adminAuth.isAuthenticated
    /\ GoTo("login")
    /\ UNCHANGED <<adminAuth, adminCookie>>
\* The effect that every page under /dashboard has.
Guard ==
    /\ adminPage \in Guarded /\ ~ adminAuth.isAuthenticated
    /\ GoTo("login")
    /\ UNCHANGED <<adminAuth, adminCookie>>

\* "Sair" reports success; the call that ends the session is commented out.
HandleLogout ==
    /\ adminPage \in Guarded
    /\ UNCHANGED adminVars

-----------------------------------------------------------------------------
(* Navigation *)

Link ==
    /\ adminPage \in Guarded
    /\ \E p \in (Guarded \cup {"notFound"}) \ {adminPage} : GoTo(p)
    /\ UNCHANGED <<adminAuth, adminCookie>>

\* The buttons that open one row, or a form for a new one.
OpenRow ==
    /\ adminPage \in {"dashboard", TenantList, Subscriptions}
    /\ GoTo("notFound")
    /\ UNCHANGED <<adminAuth, adminCookie>>

BackOrForward ==
    /\ \E p \in adminVisited \ {adminPage} : GoTo(p)
    /\ UNCHANGED <<adminAuth, adminCookie>>

\* An address typed, or a reload: the store starts again from the cookie, which
\* says who the administrator is but not that there is a session.
Reload ==
    /\ \E p \in AdminPages : /\ adminPage' = p
                             /\ adminVisited' = {p}
                             /\ adminUi' = FreshUi(p)
    /\ adminAuth' = FreshAuth
    /\ UNCHANGED adminCookie

-----------------------------------------------------------------------------
(* Lists of subscriptions and of tenants *)

On(p) == adminPage = p
OnList == adminPage \in {TenantList, Subscriptions}

\* What the form of the filters can be submitted with; "Limpar" submits nothing
\* to look for, which finds every row of every status.
SubscriptionFilters == [status : {Every, "active", "trial", "canceled"}, found : SUBSET RowIds]
TenantFilters == [status : {Every, "active", "trial", "inactive", "suspended"}, found : SUBSET RowIds]

Matching(rows, filters) ==
    Restrict(rows, {i \in DOMAIN rows : i \in filters.found /\ filters.status \in {Every, rows[i]}})

LastPage == (Cardinality(DOMAIN adminUi.shown) + RowsPerPage - 1) \div RowsPerPage

\* The rows of the page the pager is at.
Rank(i) == Cardinality({j \in DOMAIN adminUi.shown : j <= i})
OnPage == {i \in DOMAIN adminUi.shown : /\ (adminUi.at - 1) * RowsPerPage < Rank(i)
                                        /\ Rank(i) <= adminUi.at * RowsPerPage}

SetStatus(rows, i, status) ==
    IF i \in DOMAIN rows THEN [rows EXCEPT ![i] = status] ELSE rows

LoadSubscriptions ==
    /\ On(Subscriptions) /\ adminUi.loading
    /\ \E rows \in [RowIds -> SampleStatus] :
          Show([adminUi EXCEPT !.loading = FALSE, !.rows = rows, !.shown = rows])

LoadTenants ==
    /\ On(TenantList) /\ adminUi.loading
    /\ \E rows \in [RowIds -> SampleStatus] :
          Show([adminUi EXCEPT !.loading = FALSE, !.rows = rows, !.shown = rows])

\* mutant: the pager stays where it is
FilterKeepingPage(filters) ==
    /\ On(Subscriptions)
    /\ Show([adminUi EXCEPT !.shown = Matching(adminUi.rows, filters)])
FilterSubscriptions(filters) ==
    /\ On(Subscriptions)
    /\ Show([adminUi EXCEPT !.shown = Matching(adminUi.rows, filters), !.at = 1])

FilterTenants(filters) ==
    /\ On(TenantList)
    /\ Show([adminUi EXCEPT !.shown = Matching(adminUi.rows, filters), !.at = 1])

SubscriptionRow(i) == On(Subscriptions) /\ ~ adminUi.loading /\ i \in OnPage
TenantRow(i) == On(TenantList) /\ ~ adminUi.loading /\ i \in OnPage

\* The enumeration of the subscriptions' statuses has no SUSPENDED, so that
\* "Suspender" writes undefined.
ChangeSubscription(i, status) ==
    /\ SubscriptionRow(i) /\ status \in OfferedSubscription
    /\ Show([adminUi EXCEPT !.rows = SetStatus(@, i, status), !.shown = SetStatus(@, i, status)])

\* mutant: only the list on the screen is changed
ChangeShown(i, status) ==
    /\ TenantRow(i) /\ status \in OfferedTenant
    /\ Show([adminUi EXCEPT !.shown = SetStatus(@, i, status)])
ChangeTenant(i, status) ==
    /\ TenantRow(i) /\ status \in OfferedTenant
    /\ Show([adminUi EXCEPT !.rows = SetStatus(@, i, status), !.shown = SetStatus(@, i, status)])

\* "Anterior" is off on page 1 and "Próximo" on the last page; with no row there
\* are 0 pages, page 1 is not the last, and "Próximo" goes on and on.
Pager == {n \in 1..MaxPage : \/ n \in 1..LastPage
                             \/ n = adminUi.at - 1
                             \/ n = adminUi.at + 1 /\ adminUi.at # LastPage}

TurnSubscriptions(n) ==
    /\ On(Subscriptions) /\ ~ adminUi.loading
    /\ n \in Pager
    /\ Show([adminUi EXCEPT !.at = n])

TurnTenants(n) ==
    /\ On(TenantList) /\ ~ adminUi.loading
    /\ n \in Pager
    /\ Show([adminUi EXCEPT !.at = n])

-----------------------------------------------------------------------------
(* Plans *)

LoadPlans ==
    /\ On("plans") /\ adminUi.loading
    /\ Show([adminUi EXCEPT !.loading = FALSE,
                            !.rows = [i \in RowIds |-> IF i = RowCount THEN "inactive" ELSE "active"]])

\* The dialog covers the page.
AddPlan == /\ On("plans") /\ ~ adminUi.modal
           /\ Show([adminUi EXCEPT !.modal = TRUE])

PlanCard(i) == On("plans") /\ ~ adminUi.modal /\ i \in DOMAIN adminUi.rows

EditPlan(i) == /\ PlanCard(i)
               /\ Show([adminUi EXCEPT !.modal = TRUE, !.editing = i])

TogglePlan(i) ==
    /\ PlanCard(i)
    /\ Show([adminUi EXCEPT !.rows[i] = IF @ = "active" THEN "inactive" ELSE "active"])

CloseDialog == /\ On("plans") /\ adminUi.modal
               /\ Show([adminUi EXCEPT !.modal = FALSE, !.editing = NoRow])

-----------------------------------------------------------------------------
AdminNext ==
    \/ SubmitLogin \/ LoginAccepted \/ LoginRejected \/ Welcome \/ ReportFailure
    \/ Guard \/ HandleLogout \/ Link \/ OpenRow \/ BackOrForward \/ Reload
    \/ LoadSubscriptions \/ LoadTenants \/ LoadPlans
    \/ \E filters \in SubscriptionFilters : FilterSubscriptions(filters)
    \/ \E filters \in TenantFilters : FilterTenants(filters)
    \/ \E i \in RowIds, status \in OfferedSubscription \cup OfferedTenant :
          ChangeSubscription(i, status) \/ ChangeTenant(i, status)
    \/ \E n \in 1..MaxPage : TurnSubscriptions(n) \/ TurnTenants(n)
    \/ AddPlan \/ CloseDialog
    \/ \E i \in RowIds : EditPlan(i) \/ TogglePlan(i)

AdminSpec == AdminInit /\ [][AdminNext]_adminVars

-----------------------------------------------------------------------------
(* Properties *)

\* A list is kept twice, all of it and what the filter left; a status changed on
\* the screen is changed in both, so that a later filter sees what was shown.
ListsAgree ==
    OnList => \A i \in DOMAIN adminUi.shown :
                 i \in DOMAIN adminUi.rows /\ adminUi.shown[i] = adminUi.rows[i]

\* After any filters, page turns and status changes the pager is at a page that
\* has rows, unless no row is left at all.
PageShowsRows == OnList /\ adminUi.shown # NoRows => OnPage # {}

\* A page of the portal does not stay on the screen of somebody without a session.
AdminPagesNeedLogin ==
    (adminPage \in Guarded /\ ~ adminAuth.isAuthenticated)
       ~> (adminPage \notin Guarded \/ adminAuth.isAuthenticated)
=============================================================================
