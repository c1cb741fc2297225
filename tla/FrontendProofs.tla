--------------------------- MODULE FrontendProofs ---------------------------
(***************************************************************************)
(* Proofs about the three front ends: the lists and pagers of AdminPortal, *)
(* the addresses and reports of MerchantPortal and the cart and summaries  *)
(* of Storefront, for any number of rows, any sizes of pages and any       *)
(* prices.                                                                 *)
(*                                                                         *)
(* An invariant says something only of the pages whose state matters, so   *)
(* that each proof first shows that such a page begins well, whoever opens *)
(* it, and that an action of another page leaves the invariant alone.  A   *)
(* page's state is typed by the names of its fields.                       *)
(***************************************************************************)
EXTENDS AdminPortal, MerchantPortal, Storefront, FiniteSetTheorems, SequenceTheorems, TLAPS

\* Whole pages: the rows of the pages before a page, and that the last one is not empty.
LEMMA PagesFit ==
    ASSUME NEW n \in Nat, NEW R \in Nat \ {0}, NEW q \in Nat, q = (n + R - 1) \div R, n > 0
    PROVE  q >= 1 /\ \A a \in 1..q : (a - 1) * R + 1 \in 1..n /\ (a - 1) * R + 1 <= a * R
<1>1. q * R <= n + R - 1 BY SMTT(20)
<1>2. q >= 1 BY SMTT(20)
<1>3. ASSUME NEW a \in 1..q PROVE (a - 1) * R + 1 \in 1..n /\ (a - 1) * R + 1 <= a * R
  <2>1. a * R <= q * R BY SMTT(20)
  <2>2. (a - 1) * R = a * R - R BY SMTT(20)
  <2>3. (a - 1) * R \in Nat /\ a * R \in Nat BY SMTT(20)
  <2> QED BY <1>1, <2>1, <2>2, <2>3
<1> QED BY <1>2, <1>3

\* Among finitely many numbers there is one of every rank.
LEMMA RankReached ==
    ASSUME NEW S \in SUBSET Nat, IsFiniteSet(S), NEW k \in 1..Cardinality(S)
    PROVE  \E i \in S : Cardinality({j \in S : j <= i}) = k
<1> DEFINE Below(i) == {j \in S : j <= i}
           f == [i \in S |-> Cardinality(Below(i))]
           n == Cardinality(S)
<1>1. n \in Nat BY FS_CardinalityType
<1>2. ASSUME NEW i \in S
      PROVE  IsFiniteSet(Below(i)) /\ Cardinality(Below(i)) \in 1..n
  <2>1. IsFiniteSet(Below(i)) /\ Cardinality(Below(i)) <= n BY FS_Subset
  <2>2. Cardinality(Below(i)) \in Nat BY <2>1, FS_CardinalityType
  <2>3. i \in Below(i) OBVIOUS
  <2>4. Cardinality(Below(i)) # 0 BY <2>1, <2>3, FS_EmptySet
  <2> QED BY <1>1, <2>1, <2>2, <2>4
<1>3. ASSUME NEW i \in S, NEW j \in S, i < j PROVE Cardinality(Below(i)) < Cardinality(Below(j))
  <2>1. j \notin Below(i) /\ Below(i) \cup {j} \subseteq Below(j)
    <3>1. i \in Nat /\ j \in Nat /\ \A x \in S : x \in Nat OBVIOUS
    <3>2. \A x \in S : x <= i => x <= j BY <1>3, <3>1
    <3>3. ~ (j <= i) /\ j <= j BY <1>3, <3>1
    <3> QED BY <3>2, <3>3
  <2>2. /\ IsFiniteSet(Below(i) \cup {j})
        /\ Cardinality(Below(i) \cup {j}) = Cardinality(Below(i)) + 1
    BY <1>2, <2>1, FS_AddElement
  <2>3. Cardinality(Below(i)) + 1 <= Cardinality(Below(j)) BY <1>2, <2>1, <2>2, FS_Subset
  <2>4. Cardinality(Below(i)) \in Nat /\ Cardinality(Below(j)) \in Nat BY <1>2
  <2> QED BY <2>3, <2>4
<1> HIDE DEF Below
<1>4. f \in [S -> 1..n] BY <1>2
<1>5. ASSUME NEW i \in S, NEW j \in S, f[i] = f[j] PROVE i = j
  <2>1. Cardinality(Below(i)) = Cardinality(Below(j)) BY <1>5
  <2>2. ~ (i < j) /\ ~ (j < i) BY <1>2, <1>3, <2>1
  <2> QED BY <2>2
<1>6. f \in Injection(S, 1..n) BY <1>4, <1>5 DEF Injection, IsInjective
<1>7. IsFiniteSet(1..n) /\ Cardinality(1..n) = n BY <1>1, FS_Interval
<1>8. f \in Surjection(S, 1..n) BY <1>6, <1>7, FS_Injection
<1>9. PICK i \in S : f[i] = k BY <1>8 DEF Surjection
<1> QED BY <1>9 DEF Below

-----------------------------------------------------------------------------
(* The administrators' portal *)

RowStatus == {"active", "trial", "inactive", "suspended", "canceled", "undefined"}
Lists == UNION {[S -> RowStatus] : S \in SUBSET RowIds}

\* The pager shows a page of the list, unless the list is empty; a list is filtered after it came.
ListsInv ==
    OnList =>
       /\ adminUi \in [loading : BOOLEAN, rows : Lists, shown : Lists, at : Nat]
       /\ DOMAIN adminUi.shown \subseteq DOMAIN adminUi.rows
       /\ \A i \in DOMAIN adminUi.shown : adminUi.shown[i] = adminUi.rows[i]
       /\ adminUi.loading => adminUi.at = 1
       /\ DOMAIN adminUi.shown # {} => adminUi.at \in 1..LastPage

LEMMA ListIs ==
    /\ \A rows : rows \in Lists <=> \E S \in SUBSET RowIds : rows \in [S -> RowStatus]
    /\ \A rows \in Lists : /\ DOMAIN rows \subseteq RowIds /\ IsFiniteSet(DOMAIN rows)
                           /\ Cardinality(DOMAIN rows) \in Nat
                           /\ DOMAIN rows \in SUBSET Nat
                           /\ rows \in [DOMAIN rows -> RowStatus]
                           /\ DOMAIN rows # {} <=> rows # NoRows
                           /\ DOMAIN rows # {} => Cardinality(DOMAIN rows) > 0
    /\ NoRows \in Lists
<1>1. \A rows : rows \in Lists <=> \E S \in SUBSET RowIds : rows \in [S -> RowStatus] BY DEF Lists
<1>2. ASSUME NEW rows \in Lists
      PROVE  /\ DOMAIN rows \subseteq RowIds /\ IsFiniteSet(DOMAIN rows)
             /\ Cardinality(DOMAIN rows) \in Nat
             /\ DOMAIN rows \in SUBSET Nat
             /\ rows \in [DOMAIN rows -> RowStatus]
             /\ DOMAIN rows # {} <=> rows # NoRows
             /\ DOMAIN rows # {} => Cardinality(DOMAIN rows) > 0
  <2>1. PICK S \in SUBSET RowIds : rows \in [S -> RowStatus] BY <1>1
  <2>2. IsFiniteSet(RowIds) BY FS_Interval, AdminAssumption DEF RowIds
  <2>3. DOMAIN rows = S /\ IsFiniteSet(S) BY <2>1, <2>2, FS_Subset
  <2>7. RowIds \subseteq Nat BY AdminAssumption DEF RowIds
  <2>4. Cardinality(S) \in Nat /\ (S # {} => Cardinality(S) # 0)
    BY <2>3, FS_CardinalityType, FS_EmptySet
  <2>5. S = {} => rows = NoRows BY <2>1 DEF NoRows
  <2>6. DOMAIN NoRows = {} BY DEF NoRows
  <2> QED BY <2>1, <2>3, <2>4, <2>5, <2>6, <2>7
<1>3. NoRows \in [{} -> RowStatus] BY DEF NoRows
<1> QED BY <1>1, <1>2, <1>3

\* A filter leaves some of the rows as they are.
LEMMA FilterLists ==
    ASSUME NEW rows \in Lists, NEW filters
    PROVE  /\ Matching(rows, filters) \in Lists
           /\ DOMAIN Matching(rows, filters) \subseteq DOMAIN rows
           /\ \A i \in DOMAIN Matching(rows, filters) : Matching(rows, filters)[i] = rows[i]
<1> DEFINE S == {i \in DOMAIN rows : i \in filters.found /\ filters.status \in {Every, rows[i]}}
<1>1. Matching(rows, filters) = [i \in S |-> rows[i]] BY DEF Matching, Restrict
<1>2. S \subseteq DOMAIN rows OBVIOUS
<1> HIDE DEF S
<1>3. [i \in S |-> rows[i]] \in [S -> RowStatus] BY <1>2, ListIs
<1>4. S \in SUBSET RowIds BY <1>2, ListIs
<1> QED BY <1>1, <1>2, <1>3, <1>4, ListIs

LEMMA SetStatusLists ==
    ASSUME NEW rows \in Lists, NEW i, NEW status \in RowStatus
    PROVE  /\ SetStatus(rows, i, status) \in Lists
           /\ DOMAIN SetStatus(rows, i, status) = DOMAIN rows
           /\ \A j \in DOMAIN rows : SetStatus(rows, i, status)[j] = IF j = i THEN status ELSE rows[j]
<1>1. PICK S \in SUBSET RowIds : rows \in [S -> RowStatus] BY ListIs
<1>2. SetStatus(rows, i, status) \in [S -> RowStatus] BY <1>1 DEF SetStatus
<1> QED BY <1>1, <1>2, ListIs DEF SetStatus

\* Whatever a page begins with, and every page but the lists, is as the invariant has it.
LEMMA FreshLists ==
    ASSUME NEW p \in AdminPages, adminPage' = p, adminUi' = FreshUi(p)
    PROVE  ListsInv'
<1> SUFFICES ASSUME p \in {TenantList, Subscriptions} PROVE ListsInv'
  BY DEF ListsInv, OnList
<1>1. adminUi' = [loading |-> TRUE, rows |-> NoRows, shown |-> NoRows, at |-> 1]
  BY DEF FreshUi, TenantList, Subscriptions
<1>2. DOMAIN NoRows = {} /\ NoRows \in Lists BY ListIs DEF NoRows
<1> QED BY <1>1, <1>2 DEF ListsInv

LEMMA InitLists == AdminInit => ListsInv
<1> SUFFICES ASSUME AdminInit PROVE ListsInv
  OBVIOUS
<1>1. CASE OnList
  <2>1. adminUi = [loading |-> TRUE, rows |-> NoRows, shown |-> NoRows, at |-> 1]
    BY <1>1 DEF OnList, AdminInit, FreshUi, TenantList, Subscriptions
  <2>2. DOMAIN NoRows = {} /\ NoRows \in Lists BY ListIs DEF NoRows
  <2> QED BY <2>1, <2>2 DEF ListsInv
<1>2. CASE ~ OnList BY <1>2 DEF ListsInv
<1> QED BY <1>1, <1>2

\* The pages of a list that has rows, from the number of its rows.
LEMMA PagesOfList ==
    ASSUME ListsInv, OnList
    PROVE  /\ LastPage \in Nat
           /\ DOMAIN adminUi.shown # {} => LastPage >= 1
<1>1. adminUi.shown \in Lists BY DEF ListsInv
<1>2. Cardinality(DOMAIN adminUi.shown) \in Nat
      /\ (DOMAIN adminUi.shown # {} => Cardinality(DOMAIN adminUi.shown) > 0)
  BY <1>1, ListIs
<1>3. PICK n : n = Cardinality(DOMAIN adminUi.shown) OBVIOUS
<1>4. LastPage = (n + RowsPerPage - 1) \div RowsPerPage BY <1>3 DEF LastPage
<1>5. (n + RowsPerPage - 1) \div RowsPerPage \in Nat BY <1>2, <1>3, AdminAssumption, SMTT(20)
<1>6. n > 0 => (n + RowsPerPage - 1) \div RowsPerPage >= 1
  BY <1>2, <1>3, <1>5, AdminAssumption, PagesFit
<1> QED BY <1>2, <1>3, <1>4, <1>5, <1>6

\* A list in which the same rows are shown is at a page as before.
LEMMA StepLists == ListsInv /\ [AdminNext]_adminVars => ListsInv'
<1> SUFFICES ASSUME ListsInv, [AdminNext]_adminVars PROVE ListsInv'
  OBVIOUS
<1> USE DEF On
<1>1. ASSUME NEW p \in AdminPages, GoTo(p) PROVE ListsInv' BY <1>1, FreshLists DEF GoTo
<1>2. ASSUME adminPage' = adminPage, adminUi' = adminUi PROVE ListsInv'
  BY <1>2 DEF ListsInv, OnList, LastPage
<1>3. CASE SubmitLogin \/ LoginAccepted \/ LoginRejected \/ ReportFailure \/ HandleLogout
  BY <1>2, <1>3 DEF SubmitLogin, LoginAccepted, LoginRejected, ReportFailure, HandleLogout, adminVars
<1>4. CASE Welcome \/ Guard \/ Link \/ OpenRow
  BY <1>1, <1>4 DEF Welcome, Guard, Link, OpenRow, AdminPages, Guarded
<1>5. CASE BackOrForward
  <2>1. PICK p \in adminVisited : GoTo(p) BY <1>5 DEF BackOrForward
  <2>2. CASE p \in AdminPages BY <1>1, <2>1, <2>2
  <2>3. CASE p \notin AdminPages
    BY <2>1, <2>3 DEF GoTo, ListsInv, OnList, AdminPages, Guarded
  <2> QED BY <2>2, <2>3
<1>6. CASE Reload BY <1>6, FreshLists DEF Reload
<1>7. ASSUME OnList, adminUi.loading, NEW rows \in [RowIds -> SampleStatus],
             Show([adminUi EXCEPT !.loading = FALSE, !.rows = rows, !.shown = rows])
      PROVE  ListsInv'
  <2>1. rows \in Lists BY ListIs DEF SampleStatus, RowStatus
  <2>2. adminUi \in [loading : BOOLEAN, rows : Lists, shown : Lists, at : Nat] /\ adminUi.at = 1
    BY <1>7 DEF ListsInv
  <2>3. adminUi' = [loading |-> FALSE, rows |-> rows, shown |-> rows, at |-> 1] /\ OnList'
    BY <1>7, <2>2 DEF Show, OnList
  <2>4. PICK n : n = Cardinality(DOMAIN rows) OBVIOUS
  <2>5. n \in Nat /\ (DOMAIN rows # {} => n > 0) BY <2>1, <2>4, ListIs
  <2>6. LastPage' = (n + RowsPerPage - 1) \div RowsPerPage BY <2>3, <2>4 DEF LastPage
  <2>7. (n + RowsPerPage - 1) \div RowsPerPage \in Nat BY <2>5, AdminAssumption, SMTT(20)
  <2>8. n > 0 => LastPage' \in Nat /\ LastPage' >= 1 BY <2>5, <2>6, <2>7, AdminAssumption, PagesFit
  <2>9. DOMAIN adminUi'.shown # {} => adminUi'.at \in 1..LastPage' BY <2>3, <2>5, <2>8
  <2> QED BY <2>1, <2>3, <2>9 DEF ListsInv
<1>8. CASE LoadSubscriptions \/ LoadTenants
  BY <1>7, <1>8 DEF LoadSubscriptions, LoadTenants, OnList
<1>9. ASSUME OnList, NEW filters,
             Show([adminUi EXCEPT !.shown = Matching(adminUi.rows, filters), !.at = 1])
      PROVE  ListsInv'
  <2>1. adminUi \in [loading : BOOLEAN, rows : Lists, shown : Lists, at : Nat] BY <1>9 DEF ListsInv
  <2>2. PICK new : new = Matching(adminUi.rows, filters) OBVIOUS
  <2>3. /\ new \in Lists /\ DOMAIN new \subseteq DOMAIN adminUi.rows
        /\ \A i \in DOMAIN new : new[i] = adminUi.rows[i]
    BY <2>1, <2>2, FilterLists
  <2>4. /\ adminUi' = [loading |-> adminUi.loading, rows |-> adminUi.rows, shown |-> new, at |-> 1]
        /\ OnList'
    BY <1>9, <2>1, <2>2 DEF Show, OnList
  <2>5. PICK n : n = Cardinality(DOMAIN new) OBVIOUS
  <2>6. n \in Nat /\ (DOMAIN new # {} => n > 0) BY <2>3, <2>5, ListIs
  <2>7. LastPage' = (n + RowsPerPage - 1) \div RowsPerPage BY <2>4, <2>5 DEF LastPage
  <2>8. (n + RowsPerPage - 1) \div RowsPerPage \in Nat BY <2>6, AdminAssumption, SMTT(20)
  <2>9. n > 0 => LastPage' \in Nat /\ LastPage' >= 1 BY <2>6, <2>7, <2>8, AdminAssumption, PagesFit
  <2>10. DOMAIN adminUi'.shown # {} => adminUi'.at \in 1..LastPage' BY <2>4, <2>6, <2>9
  <2> QED BY <2>1, <2>3, <2>4, <2>10 DEF ListsInv
<1>10. ASSUME NEW filters, FilterSubscriptions(filters) \/ FilterTenants(filters) PROVE ListsInv'
  BY <1>9, <1>10 DEF FilterSubscriptions, FilterTenants, OnList
<1>11. ASSUME OnList, NEW i, NEW status \in RowStatus,
              Show([adminUi EXCEPT !.rows = SetStatus(@, i, status), !.shown = SetStatus(@, i, status)])
       PROVE  ListsInv'
  <2>1. adminUi \in [loading : BOOLEAN, rows : Lists, shown : Lists, at : Nat] BY <1>11 DEF ListsInv
  <2>2. PICK rows, shown : /\ rows = SetStatus(adminUi.rows, i, status)
                           /\ shown = SetStatus(adminUi.shown, i, status)
    OBVIOUS
  <2>3. /\ rows \in Lists /\ DOMAIN rows = DOMAIN adminUi.rows
        /\ \A j \in DOMAIN rows : rows[j] = IF j = i THEN status ELSE adminUi.rows[j]
    BY <2>1, <2>2, SetStatusLists
  <2>4. /\ shown \in Lists /\ DOMAIN shown = DOMAIN adminUi.shown
        /\ \A j \in DOMAIN shown : shown[j] = IF j = i THEN status ELSE adminUi.shown[j]
    BY <2>1, <2>2, SetStatusLists
  <2>5. /\ adminUi' = [loading |-> adminUi.loading, rows |-> rows, shown |-> shown, at |-> adminUi.at]
        /\ OnList'
    BY <1>11, <2>1, <2>2 DEF Show, OnList
  <2>6. LastPage' = LastPage BY <2>4, <2>5 DEF LastPage
  <2> QED BY <1>11, <2>1, <2>3, <2>4, <2>5, <2>6 DEF ListsInv
<1>12. ASSUME NEW i, NEW status, ChangeSubscription(i, status) \/ ChangeTenant(i, status)
       PROVE  ListsInv'
  <2>1. status \in RowStatus /\ OnList
    BY <1>12 DEF ChangeSubscription, ChangeTenant, SubscriptionRow, TenantRow, OnList,
                 OfferedSubscription, OfferedTenant, RowStatus
  <2> QED BY <1>11, <1>12, <2>1 DEF ChangeSubscription, ChangeTenant
<1>13. ASSUME NEW n \in 1..MaxPage, TurnSubscriptions(n) \/ TurnTenants(n) PROVE ListsInv'
  <2>1. /\ OnList /\ ~ adminUi.loading /\ n \in Pager /\ Show([adminUi EXCEPT !.at = n])
    BY <1>13 DEF TurnSubscriptions, TurnTenants, OnList
  <2>2. adminUi \in [loading : BOOLEAN, rows : Lists, shown : Lists, at : Nat] BY <2>1 DEF ListsInv
  <2>3. /\ adminUi' = [loading |-> FALSE, rows |-> adminUi.rows, shown |-> adminUi.shown, at |-> n]
        /\ OnList'
    BY <2>1, <2>2 DEF Show, OnList
  <2>4. LastPage' = LastPage BY <2>3 DEF LastPage
  <2>5. DOMAIN adminUi.shown # {} => n \in 1..LastPage
    BY <2>1, PagesOfList DEF Pager, ListsInv
  <2> QED BY <2>1, <2>2, <2>3, <2>4, <2>5 DEF ListsInv
<1>14. CASE LoadPlans \/ AddPlan \/ CloseDialog
  BY <1>14 DEF LoadPlans, AddPlan, CloseDialog, Show, ListsInv, OnList, TenantList, Subscriptions
<1>15. ASSUME NEW i, EditPlan(i) \/ TogglePlan(i) PROVE ListsInv'
  BY <1>15 DEF EditPlan, TogglePlan, PlanCard, Show, ListsInv, OnList, TenantList, Subscriptions
<1>16. CASE UNCHANGED adminVars BY <1>2, <1>16 DEF adminVars
<1> QED BY <1>3, <1>4, <1>5, <1>6, <1>8, <1>10, <1>12, <1>13, <1>14, <1>15, <1>16 DEF AdminNext

\* For any number of rows and of rows to a page: a status changed on the screen is changed in the
\* whole list.
THEOREM ListsStayAlike == AdminSpec => []ListsAgree
<1>1. ListsInv => ListsAgree BY DEF ListsInv, ListsAgree
<1> QED BY <1>1, InitLists, StepLists, PTL DEF AdminSpec

\* For any number of rows and of rows to a page, the pager never shows an empty page of a list
\* that has rows.
THEOREM PagesHaveRows == AdminSpec => []PageShowsRows
<1>1. ASSUME ListsInv, OnList, adminUi.shown # NoRows PROVE OnPage # {}
  <2>1. PICK S : S = DOMAIN adminUi.shown OBVIOUS
  <2>2. S # {} /\ S \in SUBSET Nat /\ IsFiniteSet(S) /\ Cardinality(S) \in Nat /\ Cardinality(S) > 0
    BY <1>1, <2>1, ListIs DEF ListsInv
  <2>3. LastPage \in Nat /\ LastPage = (Cardinality(S) + RowsPerPage - 1) \div RowsPerPage
    BY <1>1, <2>1, PagesOfList DEF LastPage
  <2>4. PICK a : a = adminUi.at OBVIOUS
  <2>5. a \in 1..LastPage BY <1>1, <2>1, <2>2, <2>4 DEF ListsInv
  <2>6. /\ (a - 1) * RowsPerPage + 1 \in 1..Cardinality(S)
        /\ (a - 1) * RowsPerPage + 1 <= a * RowsPerPage
    BY <2>2, <2>3, <2>5, PagesFit, AdminAssumption
  <2>7. PICK i \in S : Cardinality({j \in S : j <= i}) = (a - 1) * RowsPerPage + 1
    BY <2>2, <2>6, RankReached
  <2>8. Rank(i) = (a - 1) * RowsPerPage + 1 BY <2>1, <2>7 DEF Rank
  <2>9. (a - 1) * RowsPerPage \in Int BY <2>5, <2>3, AdminAssumption, SMTT(20)
  <2>10. (a - 1) * RowsPerPage < Rank(i) /\ Rank(i) <= a * RowsPerPage BY <2>6, <2>8, <2>9
  <2> QED BY <2>1, <2>4, <2>10 DEF OnPage
<1>2. ListsInv => PageShowsRows BY <1>1 DEF PageShowsRows
<1> QED BY <1>2, InitLists, StepLists, PTL DEF AdminSpec

-----------------------------------------------------------------------------
(* The merchants' portal *)

AddressLists == UNION {[S -> BOOLEAN] : S \in SUBSET (Nat \ {0})}

\* The state of the page of one customer, as far as the addresses go.
CustomerPage(ui) ==
    /\ DOMAIN ui = {"loading", "customer", "form", "editing", "saving", "click", "dialog",
                    "address", "next", "safe", "gone"}
    /\ DOMAIN ui.customer = {"status", "addresses"}
    /\ ui.saving \in BOOLEAN
    /\ ui.saving => DOMAIN ui.click.customer = {"status", "addresses"}
    /\ DOMAIN ui.address = {"current", "id", "isDefault", "complete", "calm"}
    /\ ui.address.isDefault \in BOOLEAN
    /\ ui.next \in Nat \ {0}

\* A list of addresses with one default at most, numbered below n, with all of safe and
\* none of gone.
GoodList(list, n, safe, gone) ==
    /\ list \in AddressLists
    /\ \A i \in DOMAIN list : i < n
    /\ \A i, j \in DOMAIN list : list[i] = TRUE /\ list[j] = TRUE => i = j
    /\ safe \subseteq DOMAIN list
    /\ gone \cap DOMAIN list = {}

\* The dialog covers the page, so that nobody changes the list under it but a save that was in
\* flight before.
DialogInv(ui) ==
    /\ ui.address.id \in 1..ui.next - 1
    /\ ui.address.id \notin ui.gone
    /\ ui.address.current \in {NoId, ui.address.id}
    /\ ui.address.calm => /\ ~ ui.saving
                          /\ ui.address.current # NoId =>
                                ui.address.current \in DOMAIN ui.customer.addresses

\* Both the list on the screen and the one a save will put back are good.
CustomerInv(ui) ==
    /\ CustomerPage(ui)
    /\ \A i \in ui.gone : i \in Nat /\ i < ui.next
    /\ GoodList(ui.customer.addresses, ui.next, ui.safe, ui.gone)
    /\ ui.saving => GoodList(ui.click.customer.addresses, ui.next, ui.safe, ui.gone)
    /\ ui.loading => ~ ui.saving /\ ~ ui.dialog /\ ui.safe = {} /\ ui.gone = {} /\ ui.next = 3
    /\ ui.dialog => DialogInv(ui)

\* The range chosen last is the last one that is fetched.
ReportInv(ui) ==
    /\ DOMAIN ui = {"loading", "range", "shown", "pending"}
    /\ ui.pending \in Seq(Ranges)
    /\ IF Len(ui.pending) = 0 THEN ui.shown = ui.range ELSE ui.pending[Len(ui.pending)] = ui.range

MerchantInv == /\ At("customer") => CustomerInv(portalUi)
               /\ At("reports") => ReportInv(portalUi)

LEMMA AddressListIs ==
    ASSUME NEW list
    PROVE  list \in AddressLists <=> /\ DOMAIN list \subseteq Nat \ {0}
                                     /\ list = [i \in DOMAIN list |-> list[i]]
                                     /\ \A i \in DOMAIN list : list[i] \in BOOLEAN
<1>1. ASSUME list \in AddressLists
      PROVE  /\ DOMAIN list \subseteq Nat \ {0}
             /\ list = [i \in DOMAIN list |-> list[i]]
             /\ \A i \in DOMAIN list : list[i] \in BOOLEAN
  <2>1. PICK S \in SUBSET (Nat \ {0}) : list \in [S -> BOOLEAN] BY <1>1 DEF AddressLists
  <2> QED BY <2>1
<1>2. ASSUME DOMAIN list \subseteq Nat \ {0}, list = [i \in DOMAIN list |-> list[i]],
             \A i \in DOMAIN list : list[i] \in BOOLEAN
      PROVE  list \in AddressLists
  <2>1. list \in [DOMAIN list -> BOOLEAN] BY <1>2
  <2> QED BY <1>2, <2>1 DEF AddressLists
<1> QED BY <1>1, <1>2

\* The address of a dialog is put into the list, and takes the default from the others.
LEMMA SavedList ==
    ASSUME NEW list, NEW n \in Nat, NEW safe, NEW gone, NEW a, NEW new,
           GoodList(list, n, safe, gone), a.id \in 1..n - 1, a.id \notin gone,
           a.current \in {NoId, a.id}, a.isDefault \in BOOLEAN,
           new = OneDefault(WithAddress(list, a), a)
    PROVE  /\ GoodList(new, n, safe, gone)
           /\ (a.current # NoId => a.current \in DOMAIN list) => a.id \in DOMAIN new
<1>1. /\ DOMAIN list \subseteq Nat \ {0} /\ \A i \in DOMAIN list : list[i] \in BOOLEAN
      /\ \A i \in DOMAIN list : i < n
      /\ \A i, j \in DOMAIN list : list[i] = TRUE /\ list[j] = TRUE => i = j
      /\ safe \subseteq DOMAIN list
      /\ gone \cap DOMAIN list = {}
  BY AddressListIs DEF GoodList
<1>2. PICK mid : mid = WithAddress(list, a) OBVIOUS
<1>3. /\ \/ mid = list
         \/ mid = [i \in DOMAIN list \cup {a.id} |-> IF i = a.id THEN a.isDefault ELSE list[i]]
      /\ (a.current # NoId => a.current \in DOMAIN list) => a.id \in DOMAIN mid
  BY <1>2 DEF WithAddress
<1>4. /\ DOMAIN mid \subseteq Nat \ {0} /\ \A i \in DOMAIN mid : mid[i] \in BOOLEAN
      /\ \A i \in DOMAIN mid : i < n
      /\ safe \subseteq DOMAIN mid
      /\ gone \cap DOMAIN mid = {}
      /\ mid = [i \in DOMAIN mid |-> mid[i]]
  <2>1. CASE mid = list BY <1>1, <2>1, AddressListIs DEF GoodList
  <2>2. CASE mid = [i \in DOMAIN list \cup {a.id} |-> IF i = a.id THEN a.isDefault ELSE list[i]]
    BY <1>1, <2>2
  <2> QED BY <1>3, <2>1, <2>2
<1>5. CASE a.isDefault = TRUE
  <2>1. new = [i \in DOMAIN mid |-> i = a.id /\ mid[i]] BY <1>2, <1>5 DEF OneDefault
  <2>2. DOMAIN new = DOMAIN mid BY <2>1
  <2>3. ASSUME NEW i \in DOMAIN new PROVE new[i] \in BOOLEAN /\ (new[i] = TRUE => i = a.id)
    <3>1. new[i] = (i = a.id /\ mid[i]) BY <2>1
    <3> QED BY <3>1, Zenon
  <2>4. new \in [DOMAIN mid -> BOOLEAN] BY <2>1, <2>2, <2>3, Zenon
  <2>5. new \in AddressLists BY <1>4, <2>4 DEF AddressLists
  <2> QED BY <1>3, <1>4, <2>2, <2>3, <2>5 DEF GoodList
<1>6. CASE a.isDefault = FALSE
  <2>1. new = mid BY <1>2, <1>6 DEF OneDefault
  <2>2. new \in AddressLists BY <1>4, <2>1, AddressListIs
  <2>3. \A i, j \in DOMAIN new : new[i] = TRUE /\ new[j] = TRUE => i = j
    BY <1>1, <1>3, <1>6, <2>1
  <2> QED BY <1>3, <1>4, <2>1, <2>2, <2>3 DEF GoodList
<1> QED BY <1>5, <1>6

LEMMA DeletedList ==
    ASSUME NEW list, NEW n \in Nat, NEW safe, NEW gone, NEW i,
           GoodList(list, n, safe, gone)
    PROVE  GoodList(Restrict(list, DOMAIN list \ {i}), n, safe \ {i}, gone \cup {i})
<1> DEFINE new == Restrict(list, DOMAIN list \ {i})
<1>1. new = [j \in DOMAIN list \ {i} |-> list[j]] BY DEF Restrict
<1>2. DOMAIN list \subseteq Nat \ {0} /\ \A j \in DOMAIN list : list[j] \in BOOLEAN
  BY AddressListIs DEF GoodList
<1>3. new \in AddressLists BY <1>1, <1>2, AddressListIs
<1> QED BY <1>1, <1>3 DEF GoodList

\* Fewer addresses have to be there, or higher numbers are used up.
LEMMA WeakerList ==
    ASSUME NEW list, NEW n \in Nat, NEW m \in Nat, NEW safe, NEW safer, NEW gone, NEW less,
           GoodList(list, n, safer, gone), n <= m, safe \subseteq safer, less \subseteq gone
    PROVE  GoodList(list, m, safe, less)
BY AddressListIs DEF GoodList

LEMMA FreshPages == CustomerInv(PageState("customer")) /\ ReportInv(PageState("reports"))
<1>1. CustomerInv(PageState("customer"))
  <2>1. PICK ui :
            ui = [loading |-> TRUE, customer |-> NoCustomer, form |-> None, editing |-> FALSE,
                  saving |-> FALSE, click |-> NoSave, dialog |-> FALSE, address |-> NoAddress,
                  next |-> 3, safe |-> {}, gone |-> {}]
    OBVIOUS
  <2>2. Empty \in AddressLists /\ DOMAIN Empty = {} BY AddressListIs DEF Empty
  <2>3. CustomerPage(ui)
    <3>1. /\ DOMAIN NoCustomer = {"status", "addresses"}
          /\ DOMAIN NoAddress = {"current", "id", "isDefault", "complete", "calm"}
          /\ NoAddress.isDefault \in BOOLEAN
      BY DEF NoCustomer, NoAddress, NoId
    <3> QED BY <2>1, <3>1 DEF CustomerPage
  <2>4. GoodList(Empty, 3, {}, {}) BY <2>2 DEF GoodList
  <2>5. CustomerInv(ui) BY <2>1, <2>3, <2>4 DEF CustomerInv, NoCustomer
  <2>6. PageState("customer") = ui BY <2>1 DEF PageState
  <2> QED BY <2>5, <2>6
<1>2. ReportInv(PageState("reports"))
  <2>1. PICK ui : ui = [loading |-> TRUE, range |-> "last30days", shown |-> None,
                        pending |-> <<"last30days">>]
    OBVIOUS
  <2>2. ReportInv(ui)
    BY <2>1 DEF ReportInv, Ranges
  <2>3. PageState("reports") = ui BY <2>1 DEF PageState
  <2> QED BY <2>2, <2>3
<1> QED BY <1>1, <1>2

LEMMA InitPortal == PortalInit => MerchantInv
BY FreshPages DEF PortalInit, MerchantInv, At

LEMMA FreshPortal ==
    ASSUME portalUi' = PageState(portalPage')
    PROVE  MerchantInv'
<1>1. CASE portalPage' = "customer"
  <2>1. CustomerInv(portalUi') BY <1>1, FreshPages
  <2> QED BY <1>1, <2>1 DEF MerchantInv, At
<1>2. CASE portalPage' = "reports"
  <2>1. ReportInv(portalUi') BY <1>2, FreshPages
  <2> QED BY <1>2, <2>1 DEF MerchantInv, At
<1> QED BY <1>1, <1>2 DEF MerchantInv, At

LEMMA OtherPage ==
    ASSUME portalPage' = portalPage, portalPage \notin {"customer", "reports"}
    PROVE  MerchantInv'
BY DEF MerchantInv, At

LEMMA SamePage ==
    ASSUME MerchantInv, UNCHANGED <<portalPage, portalUi>>
    PROVE  MerchantInv'
BY DEF MerchantInv, At

LEMMA Pushed ==
    ASSUME MerchantInv, NEW p, NEW late, NEW logins, Push(p, late, logins)
    PROVE  MerchantInv'
BY FreshPortal, SamePage DEF Push, Move

LEMMA OnCustomerPage ==
    ASSUME portalPage' = portalPage, At("customer"), CustomerInv(portalUi')
    PROVE  MerchantInv'
BY DEF MerchantInv, At

LEMMA StepPortal == MerchantInv /\ [PortalNext]_portalVars => MerchantInv'
<1> SUFFICES ASSUME MerchantInv, [PortalNext]_portalVars PROVE MerchantInv'
  OBVIOUS
<1>c. ASSUME At("customer") PROVE CustomerInv(portalUi)
  BY <1>c DEF MerchantInv
<1>1. CASE HandleSubmit
  BY <1>1, OtherPage DEF HandleSubmit, Put, At
<1>2. CASE LoginSucceeds
  BY <1>2, FreshPortal, Pushed DEF LoginSucceeds, Move
<1>3. CASE LoginFails
  BY <1>3, OtherPage, SamePage DEF LoginFails, Asking
<1>4. CASE Logout \/ UNCHANGED portalVars
  BY <1>4, SamePage DEF Logout, portalVars
<1>5. CASE Navigate \/ LateRedirect
  BY <1>5, Pushed DEF Navigate, LateRedirect
<1>6. CASE LoadPage \/ MissProduct \/ FinishProduct
  BY <1>6, FreshPortal DEF LoadPage, MissProduct, FinishProduct, Move
<1>7. CASE LoadDashboard \/ LoadOrders \/ LoadProducts \/ LoadCustomers \/ LoadPayments
  BY <1>7, OtherPage DEF LoadDashboard, LoadOrders, LoadProducts, LoadCustomers, LoadPayments,
                         Loaded, Put, At
<1>8. CASE FilterOrders \/ FilterProducts \/ FilterCustomers \/ FilterPayments
  BY <1>8, OtherPage DEF FilterOrders, FilterProducts, FilterCustomers, FilterPayments,
                         Filter, Put, At
<1>9. ASSUME NEW i, NEW status,
             \/ UpdateOrderStatus(i, status) \/ DeleteProduct(i) \/ UpdateCustomerStatus(i)
             \/ RefundPayment(i) \/ CancelPayment(i)
      PROVE  MerchantInv'
  BY <1>9, OtherPage DEF UpdateOrderStatus, DeleteProduct, UpdateCustomerStatus, RefundPayment,
                         CancelPayment, OrderRow, ProductRow, CustomerRow, PaymentRow, Put, At
<1>10. CASE LoadOrder \/ UpdateOrder \/ FinishOrder
  BY <1>10, OtherPage DEF LoadOrder, UpdateOrder, FinishOrder, Put, At
<1>11. ASSUME NEW field, NEW value, ChooseOrderField(field, value) PROVE MerchantInv'
  BY <1>11, OtherPage DEF ChooseOrderField, Put, At
<1>12. CASE LoadProduct \/ AddImage \/ RemoveImage \/ SubmitEdited \/ SubmitNew
  BY <1>12, OtherPage DEF LoadProduct, AddImage, RemoveImage, SubmitEdited, SubmitNew,
                          OnProductForm, EditForm, NewForm, Put, At
<1>13. ASSUME NEW complete, TypeProduct(complete) PROVE MerchantInv'
  BY <1>13, OtherPage DEF TypeProduct, OnProductForm, EditForm, NewForm, Put, At
<1>14. CASE LoadCustomer
  <2>1. /\ At("customer") /\ portalPage' = portalPage /\ portalUi.loading
        /\ portalUi' = [portalUi EXCEPT !.loading = FALSE, !.customer = SampleCustomer,
                                        !.form = SampleCustomer.status]
    BY <1>14 DEF LoadCustomer, Put
  <2>2. PICK sample : sample = SampleCustomer OBVIOUS
  <2>3. DOMAIN sample = {"status", "addresses"} /\ GoodList(sample.addresses, 3, {}, {})
    <3>1. PICK list : list = [i \in {1, 2} |-> i = 1] OBVIOUS
    <3>2. list \in [{1, 2} -> BOOLEAN] BY <3>1, Zenon
    <3>3. list \in AddressLists BY <3>2 DEF AddressLists
    <3>4. \A i \in DOMAIN list : list[i] = TRUE => i = 1 BY <3>1
    <3>5. GoodList(list, 3, {}, {}) BY <3>1, <3>3, <3>4 DEF GoodList
    <3> QED BY <2>2, <3>1, <3>5 DEF SampleCustomer
  <2>4. CustomerInv(portalUi')
    BY <1>c, <2>1, <2>2, <2>3 DEF CustomerInv, CustomerPage
  <2> QED BY <2>1, <2>4, OnCustomerPage
<1>15. CASE EditCustomer \/ CancelEdit
  <2>1. /\ At("customer") /\ portalPage' = portalPage
        /\ \E editing \in BOOLEAN : portalUi' = [portalUi EXCEPT !.editing = editing]
    BY <1>15 DEF EditCustomer, CancelEdit, OnCustomer, Editing, Put
  <2>2. CustomerInv(portalUi') BY <1>c, <2>1 DEF CustomerInv, CustomerPage, DialogInv
  <2> QED BY <2>1, <2>2, OnCustomerPage
<1>16. ASSUME NEW status, ChangeCustomer(status) PROVE MerchantInv'
  <2>1. /\ At("customer") /\ portalPage' = portalPage
        /\ portalUi' = [portalUi EXCEPT !.form = status]
    BY <1>16 DEF ChangeCustomer, Editing, OnCustomer, Put
  <2>2. CustomerInv(portalUi') BY <1>c, <2>1 DEF CustomerInv, CustomerPage, DialogInv
  <2> QED BY <2>1, <2>2, OnCustomerPage
<1>17. CASE SaveCustomer \/ ToggleCustomer
  <2>1. /\ At("customer") /\ portalPage' = portalPage /\ ~ portalUi.loading /\ ~ portalUi.dialog
        /\ \/ portalUi' = [portalUi EXCEPT !.saving = TRUE, !.click = AtClick]
           \/ \E form : portalUi' = [portalUi EXCEPT !.form = form, !.saving = TRUE,
                                                     !.click = AtClick]
    BY <1>17 DEF SaveCustomer, ToggleCustomer, Editing, OnCustomer, Put
  <2>2. AtClick.customer = portalUi.customer BY DEF AtClick
  <2>3. CustomerInv(portalUi') BY <1>c, <2>1, <2>2 DEF CustomerInv, CustomerPage
  <2> QED BY <2>1, <2>3, OnCustomerPage
<1>18. CASE FinishCustomer
  <2>1. PICK saved :
           /\ At("customer") /\ portalPage' = portalPage /\ portalUi.saving
           /\ saved = [portalUi.click.customer EXCEPT !.status = portalUi.click.form]
           /\ portalUi' = [portalUi EXCEPT !.customer = saved, !.editing = FALSE,
                                           !.saving = FALSE, !.click = NoSave]
    BY <1>18 DEF FinishCustomer, Put
  <2>2. DOMAIN saved = {"status", "addresses"} /\ saved.addresses = portalUi.click.customer.addresses
    BY <1>c, <2>1 DEF CustomerInv, CustomerPage
  <2>3. CustomerInv(portalUi')
    BY <1>c, <2>1, <2>2 DEF CustomerInv, CustomerPage, DialogInv
  <2> QED BY <2>1, <2>3, OnCustomerPage
<1>19. CASE OpenNewAddress
  <2>1. PICK a, n : /\ n = portalUi.next
                    /\ a = [current |-> NoId, id |-> n, isDefault |-> FALSE,
                            complete |-> FALSE, calm |-> ~ portalUi.saving]
    OBVIOUS
  <2>2. /\ At("customer") /\ portalPage' = portalPage /\ ~ portalUi.loading
        /\ portalUi' = [portalUi EXCEPT !.dialog = TRUE, !.address = a, !.next = n + 1]
    BY <1>19, <2>1 DEF OpenNewAddress, OnCustomer, Put
  <2>3. n \in Nat \ {0} /\ CustomerPage(portalUi)
    BY <1>c, <2>1, <2>2 DEF CustomerInv, CustomerPage
  <2>4. /\ DOMAIN a = {"current", "id", "isDefault", "complete", "calm"} /\ a.isDefault \in BOOLEAN
        /\ a.id = n /\ a.current = NoId /\ (a.calm => ~ portalUi.saving)
    BY <2>1, <2>3 DEF CustomerPage
  <2>5. /\ portalUi'.next = n + 1 /\ portalUi'.address = a
        /\ portalUi'.safe = portalUi.safe /\ portalUi'.gone = portalUi.gone
        /\ portalUi'.customer = portalUi.customer /\ portalUi'.click = portalUi.click
        /\ portalUi'.saving = portalUi.saving /\ portalUi'.loading = portalUi.loading
        /\ DOMAIN portalUi' = DOMAIN portalUi
    BY <2>2, <2>3 DEF CustomerPage
  <2>6. CustomerPage(portalUi') BY <2>3, <2>4, <2>5 DEF CustomerPage
  <2>7. /\ \A i \in portalUi.gone : i \in Nat /\ i < n
        /\ GoodList(portalUi.customer.addresses, n, portalUi.safe, portalUi.gone)
        /\ portalUi.saving => GoodList(portalUi.click.customer.addresses, n, portalUi.safe, portalUi.gone)
    BY <1>c, <2>1, <2>2 DEF CustomerInv
  <2>8. \A list : GoodList(list, n, portalUi.safe, portalUi.gone) =>
                  GoodList(list, n + 1, portalUi.safe, portalUi.gone)
    BY <2>3, WeakerList
  <2>9. DialogInv(portalUi')
    <3>1. n \in 1..(n + 1) - 1 /\ n \notin portalUi.gone BY <2>3, <2>7
    <3> QED BY <2>4, <2>5, <3>1 DEF DialogInv
  <2>10. CustomerInv(portalUi')
    <3>1. \A i \in portalUi.gone : i \in Nat /\ i < n + 1 BY <2>3, <2>7
    <3> QED BY <2>2, <2>5, <2>6, <2>7, <2>8, <2>9, <3>1 DEF CustomerInv
  <2> QED BY <2>2, <2>10, OnCustomerPage
<1>20. CASE CloseAddress
  <2>1. /\ At("customer") /\ portalPage' = portalPage
        /\ portalUi' = [portalUi EXCEPT !.dialog = FALSE, !.address = NoAddress]
    BY <1>20 DEF CloseAddress, OnDialog, Put
  <2>2. CustomerInv(portalUi')
    BY <1>c, <2>1 DEF CustomerInv, CustomerPage, NoAddress
  <2> QED BY <2>1, <2>2, OnCustomerPage
<1>21. CASE SaveAddress
  <2>a. PICK a, new, safe :
           /\ a = portalUi.address
           /\ new = OneDefault(WithAddress(portalUi.customer.addresses, a), a)
           /\ safe = IF a.calm THEN portalUi.safe \cup {a.id} ELSE portalUi.safe
    OBVIOUS
  <2>1. /\ At("customer") /\ portalPage' = portalPage /\ portalUi.dialog
        /\ a = portalUi.address
        /\ new = OneDefault(WithAddress(portalUi.customer.addresses, a), a)
        /\ safe = IF a.calm THEN portalUi.safe \cup {a.id} ELSE portalUi.safe
        /\ portalUi' = [portalUi EXCEPT !.customer.addresses = new, !.dialog = FALSE,
                                        !.address = NoAddress, !.safe = safe]
    BY <1>c, <1>21, <2>a DEF SaveAddress, OnDialog, Put, CustomerInv, CustomerPage
  <2>2. /\ a.id \in 1..portalUi.next - 1 /\ a.id \notin portalUi.gone
        /\ a.current \in {NoId, a.id} /\ portalUi.next \in Nat /\ a.isDefault \in BOOLEAN
        /\ a.calm => /\ ~ portalUi.saving
                     /\ a.current # NoId => a.current \in DOMAIN portalUi.customer.addresses
        /\ GoodList(portalUi.customer.addresses, portalUi.next, portalUi.safe, portalUi.gone)
    BY <1>c, <2>1 DEF CustomerInv, CustomerPage, DialogInv
  <2>3. /\ GoodList(new, portalUi.next, portalUi.safe, portalUi.gone)
        /\ a.calm => a.id \in DOMAIN new
    BY <2>1, <2>2, SavedList
  <2>4. /\ GoodList(new, portalUi.next, safe, portalUi.gone)
        /\ portalUi.saving =>
              GoodList(portalUi.click.customer.addresses, portalUi.next, safe, portalUi.gone)
    BY <1>c, <2>1, <2>2, <2>3 DEF GoodList, CustomerInv
  <2>5. CustomerInv(portalUi')
    BY <1>c, <2>1, <2>4 DEF CustomerInv, CustomerPage, NoAddress
  <2> QED BY <2>1, <2>5, OnCustomerPage
<1>22. ASSUME NEW i, OpenAddress(i) PROVE MerchantInv'
  <2>1. PICK a : a = [current |-> i, id |-> i, complete |-> TRUE, calm |-> ~ portalUi.saving,
                      isDefault |-> portalUi.customer.addresses[i]]
    OBVIOUS
  <2>2. /\ At("customer") /\ portalPage' = portalPage /\ ~ portalUi.loading
        /\ i \in DOMAIN portalUi.customer.addresses
        /\ portalUi' = [portalUi EXCEPT !.dialog = TRUE, !.address = a]
    BY <1>22, <2>1 DEF OpenAddress, AddressCard, OnCustomer, Put
  <2>3. /\ i \in Nat \ {0} /\ i < portalUi.next /\ i \notin portalUi.gone
        /\ portalUi.customer.addresses[i] \in BOOLEAN
        /\ CustomerPage(portalUi)
    BY <1>c, <2>2, AddressListIs DEF CustomerInv, GoodList
  <2>4. /\ DOMAIN a = {"current", "id", "isDefault", "complete", "calm"} /\ a.isDefault \in BOOLEAN
        /\ a.id = i /\ a.current = i /\ (a.calm => ~ portalUi.saving)
    BY <2>1, <2>3 DEF CustomerPage
  <2>5. /\ portalUi'.next = portalUi.next /\ portalUi'.address = a
        /\ portalUi'.safe = portalUi.safe /\ portalUi'.gone = portalUi.gone
        /\ portalUi'.customer = portalUi.customer /\ portalUi'.click = portalUi.click
        /\ portalUi'.saving = portalUi.saving /\ portalUi'.loading = portalUi.loading
        /\ DOMAIN portalUi' = DOMAIN portalUi
    BY <2>2, <2>3 DEF CustomerPage
  <2>6. CustomerPage(portalUi') BY <2>3, <2>4, <2>5 DEF CustomerPage
  <2>7. DialogInv(portalUi')
    <3>1. i \in 1..portalUi.next - 1 BY <2>3 DEF CustomerPage
    <3> QED BY <2>2, <2>3, <2>4, <2>5, <3>1 DEF DialogInv
  <2>8. CustomerInv(portalUi')
    BY <1>c, <2>2, <2>5, <2>6, <2>7 DEF CustomerInv
  <2> QED BY <2>2, <2>8, OnCustomerPage
<1>23. ASSUME NEW i, DeleteAddress(i) PROVE MerchantInv'
  <2>a. PICK n, old, new, safe, gone :
           /\ n = portalUi.next
           /\ old = portalUi.customer.addresses /\ new = Restrict(old, DOMAIN old \ {i})
           /\ safe = portalUi.safe \ {i}
           /\ gone = IF portalUi.saving THEN portalUi.gone ELSE portalUi.gone \cup {i}
    OBVIOUS
  <2>1. /\ At("customer") /\ portalPage' = portalPage /\ ~ portalUi.loading /\ ~ portalUi.dialog
        /\ n = portalUi.next
        /\ old = portalUi.customer.addresses /\ i \in DOMAIN old
        /\ new = Restrict(old, DOMAIN old \ {i})
        /\ safe = portalUi.safe \ {i}
        /\ gone = IF portalUi.saving THEN portalUi.gone ELSE portalUi.gone \cup {i}
        /\ portalUi' = [portalUi EXCEPT !.customer.addresses = new, !.safe = safe, !.gone = gone]
    BY <1>c, <1>23, <2>a DEF DeleteAddress, AddressCard, OnCustomer, Put, CustomerInv, CustomerPage
  <2>2. n \in Nat /\ GoodList(old, n, portalUi.safe, portalUi.gone)
    BY <1>c, <2>1 DEF CustomerInv, CustomerPage
  <2>3. i \in Nat /\ i < n BY <2>1, <2>2, AddressListIs DEF GoodList
  <2>4. GoodList(new, n, safe, portalUi.gone \cup {i}) BY <2>1, <2>2, DeletedList
  <2>5. /\ GoodList(new, n, safe, gone)
        /\ portalUi.saving => GoodList(portalUi.click.customer.addresses, n, safe, gone)
    BY <1>c, <2>1, <2>4 DEF GoodList, CustomerInv
  <2>6. \A j \in gone : j \in Nat /\ j < n BY <1>c, <2>1, <2>3 DEF CustomerInv
  <2>7. CustomerInv(portalUi')
    BY <1>c, <2>1, <2>5, <2>6 DEF CustomerInv, CustomerPage
  <2> QED BY <2>1, <2>7, OnCustomerPage
<1>24. ASSUME NEW yes \in BOOLEAN, TypeAddress(yes) \/ CheckDefault(yes) PROVE MerchantInv'
  <2>1. /\ At("customer") /\ portalPage' = portalPage /\ portalUi.dialog
        /\ \/ portalUi' = [portalUi EXCEPT !.address.complete = yes]
           \/ portalUi' = [portalUi EXCEPT !.address.isDefault = yes]
    BY <1>24 DEF TypeAddress, CheckDefault, OnDialog, Put
  <2>2. CustomerInv(portalUi')
    BY <1>c, <2>1 DEF CustomerInv, CustomerPage, DialogInv
  <2> QED BY <2>1, <2>2, OnCustomerPage
<1>r. ASSUME At("reports") PROVE ReportInv(portalUi)
  BY <1>r DEF MerchantInv
<1>25. ASSUME NEW range \in Ranges, ChooseRange(range) PROVE MerchantInv'
  <2>1. /\ At("reports") /\ portalPage' = portalPage
        /\ portalUi' = [portalUi EXCEPT !.range = range, !.loading = TRUE,
                                        !.pending = Append(@, range)]
    BY <1>25 DEF ChooseRange, Put
  <2>2. PICK q : q = portalUi.pending OBVIOUS
  <2>3. q \in Seq(Ranges) BY <1>r, <2>1, <2>2 DEF ReportInv
  <2>4. /\ Append(q, range) \in Seq(Ranges) /\ Len(Append(q, range)) # 0
        /\ Append(q, range)[Len(Append(q, range))] = range
    BY <2>3
  <2>5. /\ DOMAIN portalUi' = DOMAIN portalUi /\ portalUi'.range = range
        /\ portalUi'.pending = Append(q, range)
    BY <1>r, <2>1, <2>2 DEF ReportInv
  <2>6. ReportInv(portalUi') BY <1>r, <2>1, <2>4, <2>5 DEF ReportInv
  <2> QED BY <2>1, <2>6 DEF MerchantInv, At
<1>26. CASE LoadReport
  <2>1. /\ At("reports") /\ portalPage' = portalPage /\ portalUi.pending # <<>>
        /\ portalUi' = [portalUi EXCEPT !.shown = Head(portalUi.pending), !.pending = Tail(@),
                                        !.loading = FALSE]
    BY <1>26 DEF LoadReport, Put
  <2>2. PICK q : q = portalUi.pending OBVIOUS
  <2>3. q \in Seq(Ranges) /\ Len(q) \in Nat \ {0} /\ q[Len(q)] = portalUi.range
    BY <1>r, <2>1, <2>2, EmptySeq DEF ReportInv
  <2>4. /\ Tail(q) \in Seq(Ranges)
        /\ IF Len(Tail(q)) = 0 THEN Head(q) = q[Len(q)] ELSE Tail(q)[Len(Tail(q))] = q[Len(q)]
    <3>1. Tail(q) \in Seq(Ranges) /\ Len(Tail(q)) = Len(q) - 1 /\ Head(q) = q[1] BY <2>3
    <3>2. ASSUME Len(q) # 1 PROVE Tail(q)[Len(q) - 1] = q[Len(q)] BY <2>3, <3>1, <3>2
    <3> QED BY <2>3, <3>1, <3>2
  <2>5. /\ DOMAIN portalUi' = DOMAIN portalUi /\ portalUi'.range = portalUi.range
        /\ portalUi'.pending = Tail(q) /\ portalUi'.shown = Head(q)
    BY <1>r, <2>1, <2>2 DEF ReportInv
  <2>6. ReportInv(portalUi') BY <1>r, <2>1, <2>3, <2>4, <2>5 DEF ReportInv
  <2> QED BY <2>1, <2>6 DEF MerchantInv, At
<1>27. ASSUME NEW tab, ChooseTab(tab) PROVE MerchantInv'
  BY <1>27, OtherPage DEF ChooseTab, Put, At
<1>28. CASE ChangeStoreInfo \/ ChangePaymentSettings \/ ChangeShippingSettings
  BY <1>28, OtherPage DEF ChangeStoreInfo, ChangePaymentSettings, ChangeShippingSettings,
                          StoreTab, PaymentTab, ShippingTab, Put, At
<1> QED
  BY <1>1, <1>2, <1>3, <1>4, <1>5, <1>6, <1>7, <1>8, <1>9, <1>10, <1>11, <1>12, <1>13, <1>14,
     <1>15, <1>16, <1>17, <1>18, <1>19, <1>20, <1>21, <1>22, <1>23, <1>24, <1>25, <1>26, <1>27,
     <1>28 DEF PortalNext

\* Whatever is added, edited, deleted and saved in between, at most one address is the default one.
THEOREM DefaultIsSingle == PortalSpec => []SingleDefault
<1>1. ASSUME MerchantInv PROVE SingleDefault
  <2>1. CASE At("customer")
    BY <1>1, <2>1 DEF MerchantInv, CustomerInv, GoodList, SingleDefault, Addresses, Empty
  <2>2. CASE ~ At("customer")
    BY <2>2 DEF SingleDefault, Addresses, Empty
  <2> QED BY <2>1, <2>2
<1> QED BY <1>1, InitPortal, StepPortal, PTL DEF PortalSpec

\* A save of the customer takes back no address that was saved, and brings back none that was
\* deleted, while no save was in flight.
THEOREM AddressesStay == PortalSpec => []AddressesKept
<1>1. MerchantInv => AddressesKept
  BY DEF MerchantInv, CustomerInv, GoodList, AddressesKept, Addresses
<1> QED BY <1>1, InitPortal, StepPortal, PTL DEF PortalSpec

\* However many ranges are chosen before the first report is there, the report that stays is the
\* one of the range chosen last.
THEOREM ReportsSettle == PortalSpec => []ReportSettles
<1>1. MerchantInv => ReportSettles
  BY DEF MerchantInv, ReportInv, ReportSettles
<1> QED BY <1>1, InitPortal, StepPortal, PTL DEF PortalSpec

-----------------------------------------------------------------------------
(* The storefront *)

\* Every line has at least one piece, and so has the choice of the product page.
StoreLines == \A id \in DOMAIN storeCart : /\ DOMAIN storeCart[id] = {"price", "quantity"}
                                           /\ storeCart[id].quantity \in Nat \ {0}
ProductInv(ui) ==
    /\ DOMAIN ui = {"id", "loading", "quantity", "image", "tab"}
    /\ ui.quantity \in Nat \ {0}

StoreInv == /\ StoreLines
            /\ Here("product") => ProductInv(storeUi)

LEMMA FreshProduct ==
    ASSUME NEW cart, NEW ui \in FreshPage("product", cart)
    PROVE  ProductInv(ui)
<1>1. PICK S :
          S = [id : ProductIds, loading : {TRUE}, quantity : {1}, image : {1}, tab : {"description"}]
  OBVIOUS
<1>2. FreshPage("product", cart) = S BY <1>1 DEF FreshPage, Account
<1>3. DOMAIN ui = {"id", "loading", "quantity", "image", "tab"} /\ ui.quantity = 1
  <2>1. ui \in S BY <1>2
  <2> QED BY <1>1, <2>1
<1> QED BY <1>3 DEF ProductInv

LEMMA InitStore == StoreInit => StoreInv
<1> SUFFICES ASSUME StoreInit PROVE StoreInv
  OBVIOUS
<1>1. StoreLines BY DEF StoreInit, StoreLines, NoLine
<1>2. ASSUME Here("product") PROVE ProductInv(storeUi)
  BY <1>2, FreshProduct DEF StoreInit, Here
<1> QED BY <1>1, <1>2 DEF StoreInv

LEMMA FreshStore ==
    ASSUME StoreLines', storeUi' \in FreshPage(storePage', storeCart')
    PROVE  StoreInv'
<1>1. ASSUME Here("product")' PROVE ProductInv(storeUi')
  BY <1>1, FreshProduct DEF Here
<1> QED BY <1>1 DEF StoreInv, Here

LEMMA SameStore ==
    ASSUME StoreInv, UNCHANGED <<storePage, storeUi, storeCart>>
    PROVE  StoreInv'
BY DEF StoreInv, StoreLines, ProductInv, Here

LEMMA Opens ==
    ASSUME StoreInv, NEW p, NEW late, Open(p, late)
    PROVE  StoreInv'
<1>1. CASE Here(p) BY <1>1, SameStore DEF Open
<1>2. CASE ~ Here(p)
  <2>1. storePage' = p /\ storeUi' \in FreshPage(p, storeCart) /\ storeCart' = storeCart
    BY <1>2 DEF Open
  <2>2. StoreLines' BY <2>1 DEF StoreInv, StoreLines
  <2> QED BY <2>1, <2>2, FreshStore
<1> QED BY <1>1, <1>2

\* A page that is not one product's keeps the invariant if the lines keep theirs.
LEMMA OtherStorePage ==
    ASSUME StoreLines', storePage' = storePage, storePage # "product"
    PROVE  StoreInv'
BY DEF StoreInv, Here

LEMMA DrawElsewhere ==
    ASSUME StoreInv, NEW ui, Draw(ui), storePage # "product"
    PROVE  StoreInv'
BY OtherStorePage DEF StoreInv, StoreLines, Draw

LEMMA DrawProduct ==
    ASSUME StoreInv, NEW ui, Draw(ui), Here("product"), ProductInv(ui)
    PROVE  StoreInv'
BY DEF StoreInv, StoreLines, Draw, Here, ProductInv

LEMMA Added ==
    ASSUME StoreInv, NEW id, NEW price, NEW quantity \in Nat, AddToCart(id, price, quantity)
    PROVE  StoreLines'
<1>1. PICK pieces : pieces = IF quantity = 0 THEN 1 ELSE quantity OBVIOUS
<1>2. PICK added : added = IF id \in DOMAIN storeCart
                           THEN [storeCart[id] EXCEPT !.quantity = @ + pieces]
                           ELSE Line(price, pieces)
  OBVIOUS
<1>3. storeCart' = [i \in DOMAIN storeCart \cup {id} |-> IF i = id THEN added ELSE storeCart[i]]
  BY <1>1, <1>2 DEF AddToCart
<1>4. DOMAIN added = {"price", "quantity"} /\ added.quantity \in Nat \ {0}
  <2>1. pieces \in Nat \ {0} BY <1>1
  <2>2. CASE id \in DOMAIN storeCart
    <3>1. PICK row : row = storeCart[id] OBVIOUS
    <3>2. DOMAIN row = {"price", "quantity"} /\ row.quantity \in Nat \ {0}
      BY <2>2, <3>1 DEF StoreInv, StoreLines
    <3>3. added = [row EXCEPT !.quantity = row.quantity + pieces] BY <1>2, <2>2, <3>1
    <3> QED BY <2>1, <3>2, <3>3
  <2>3. CASE id \notin DOMAIN storeCart
    BY <1>2, <2>1, <2>3 DEF Line
  <2> QED BY <2>2, <2>3
<1> QED BY <1>3, <1>4 DEF StoreInv, StoreLines

LEMMA Removed ==
    ASSUME StoreInv, NEW id, storeCart' = WithoutLine(id)
    PROVE  StoreLines'
BY DEF StoreInv, StoreLines, WithoutLine, Restrict

LEMMA StepStore == StoreInv /\ [StoreNext]_storeVars => StoreInv'
<1> SUFFICES ASSUME StoreInv, [StoreNext]_storeVars PROVE StoreInv'
  OBVIOUS
<1>p. ASSUME Here("product") PROVE ProductInv(storeUi)
  BY <1>p DEF StoreInv
<1>1. CASE FollowLink \/ PressBack \/ LateOpening \/ ChooseCategory \/ HandleContinuar
           \/ RedirectEmpty \/ HandleVoltar
  BY <1>1, Opens DEF FollowLink, PressBack, LateOpening, ChooseCategory, HandleContinuar,
                     RedirectEmpty, HandleVoltar
<1>2. CASE LoadStore
  BY <1>2, FreshStore DEF LoadStore, StoreLines, NoLine
<1>3. CASE LoadStoreProducts \/ ClearFilters \/ LoadPromotions \/ LoadCategory \/ LoadCategories
  BY <1>3, DrawElsewhere DEF LoadStoreProducts, ClearFilters, LoadPromotions, LoadCategory,
                             LoadCategories, Here
<1>4. ASSUME NEW n, HandleFilterChange(n) \/ Paginate(n) \/ FilterPromotions(n) PROVE StoreInv'
  BY <1>4, DrawElsewhere DEF HandleFilterChange, Paginate, FilterPromotions, Here
<1>5. ASSUME NEW id, AddFromList(id) \/ AddPromotion(id) PROVE StoreInv'
  <2>1. AddToCart(id, ListPrice, 1) /\ storePage \in {"products", "promotions"}
    BY <1>5 DEF AddFromList, AddPromotion, Here
  <2> QED BY <2>1, Added, OtherStorePage DEF AddToCart
<1>6. CASE LoadStoreProduct
  <2>1. ProductInv([storeUi EXCEPT !.loading = FALSE])
    BY <1>6, <1>p DEF LoadStoreProduct, ProductInv
  <2> QED BY <1>6, <2>1, DrawProduct DEF LoadStoreProduct
<1>7. ASSUME NEW n \in Int, HandleQuantityChange(n) PROVE StoreInv'
  <2>1. PICK q : q = IF n < 1 THEN 1 ELSE IF n > Stock THEN Stock ELSE n OBVIOUS
  <2>2. q \in Nat \ {0} BY <2>1, StoreAssumption
  <2>3. Here("product") /\ Draw([storeUi EXCEPT !.quantity = q])
    BY <1>7, <2>1 DEF HandleQuantityChange, ProductShown
  <2>4. ProductInv([storeUi EXCEPT !.quantity = q]) BY <1>p, <2>2, <2>3 DEF ProductInv
  <2> QED BY <2>3, <2>4, DrawProduct
<1>8. CASE HandleIncrement \/ HandleDecrement
  <2>1. PICK q : /\ Here("product") /\ Draw([storeUi EXCEPT !.quantity = q])
                 /\ \/ q = storeUi.quantity + 1
                    \/ q = storeUi.quantity - 1 /\ storeUi.quantity > 1
    BY <1>8 DEF HandleIncrement, HandleDecrement, ProductShown
  <2>2. ProductInv([storeUi EXCEPT !.quantity = q]) BY <1>p, <2>1 DEF ProductInv
  <2> QED BY <2>1, <2>2, DrawProduct
<1>9. ASSUME NEW x, HandleImageClick(x) \/ SetActiveTab(x) PROVE StoreInv'
  <2>1. PICK ui : /\ Here("product") /\ Draw(ui)
                  /\ \/ ui = [storeUi EXCEPT !.image = x]
                     \/ ui = [storeUi EXCEPT !.tab = x]
    BY <1>9 DEF HandleImageClick, SetActiveTab, ProductShown
  <2>2. ProductInv(ui) BY <1>p, <2>1 DEF ProductInv
  <2> QED BY <2>1, <2>2, DrawProduct
<1>10. CASE AddProduct
  <2>1. /\ Here("product") /\ AddToCart(storeUi.id, PagePrice, storeUi.quantity)
        /\ storeUi.quantity \in Nat
    BY <1>10, <1>p DEF AddProduct, ProductShown, ProductInv
  <2>2. StoreLines' BY <2>1, Added
  <2>3. UNCHANGED <<storePage, storeUi>> BY <2>1 DEF AddToCart
  <2> QED BY <1>p, <2>1, <2>2, <2>3 DEF StoreInv, Here, ProductInv
<1>11. ASSUME NEW id, OpenProduct(id) PROVE StoreInv'
  BY <1>11, Opens DEF OpenProduct
<1>12. ASSUME NEW id, HandleRemove(id) PROVE StoreInv'
  BY <1>12, Removed, OtherStorePage DEF HandleRemove, Here
<1>13. ASSUME NEW id, HandleRemoveItem(id) PROVE StoreInv'
  BY <1>13, Removed, OtherStorePage DEF HandleRemoveItem, ChangeLines, Here
<1>14. ASSUME NEW id, HandleIncrementQuantity(id) \/ HandleDecrementQuantity(id) PROVE StoreInv'
  <2>1. PICK cart, q :
           /\ id \in DOMAIN storeCart
           /\ cart = [storeCart EXCEPT ![id].quantity = q] /\ ChangeLines(cart)
           /\ \/ q = storeCart[id].quantity + 1
              \/ q = storeCart[id].quantity - 1 /\ storeCart[id].quantity > 1
    BY <1>14 DEF HandleIncrementQuantity, HandleDecrementQuantity
  <2>2. q \in Nat \ {0}
    <3>1. PICK old : old = storeCart[id].quantity OBVIOUS
    <3>2. old \in Nat \ {0} BY <2>1, <3>1 DEF StoreInv, StoreLines
    <3> QED BY <2>1, <3>1, <3>2
  <2>3. StoreLines' BY <2>1, <2>2 DEF StoreInv, StoreLines, ChangeLines
  <2> QED BY <2>1, <2>3, OtherStorePage DEF ChangeLines, Here
<1>15. ASSUME NEW id, NEW n, SelectQuantity(id, n) PROVE StoreInv'
  BY <1>15, DrawElsewhere DEF SelectQuantity, Here
<1>16. CASE RecalculateSummary \/ HandleAplicarCupom
  BY <1>16, DrawElsewhere DEF RecalculateSummary, HandleAplicarCupom, Here
<1>17. ASSUME NEW valid, HandleCepChange(valid) PROVE StoreInv'
  BY <1>17, DrawElsewhere DEF HandleCepChange, Here
<1>18. CASE HandleCalcularFrete
  BY <1>18, DrawElsewhere DEF HandleCalcularFrete, Here
<1>19. CASE HandleChange \/ BuscarEnderecoPorCEP \/ AddressFound
  BY <1>19, DrawElsewhere DEF HandleChange, BuscarEnderecoPorCEP, AddressFound, DeliveryForm, Here
<1>20. CASE SubmitDelivery
  BY <1>20, Opens, DrawElsewhere DEF SubmitDelivery, DeliveryForm, Here
<1>21. CASE ConfirmOrder
  BY <1>21, OtherStorePage DEF ConfirmOrder, Here, StoreLines, NoLine
<1>22. CASE TypeCredentials \/ TypeRegistration \/ TypeEmail \/ TypeMessage
  BY <1>22, DrawElsewhere DEF TypeCredentials, TypeRegistration, TypeEmail, TypeMessage, TypeText, Here
<1>23. CASE SubmitCredentials \/ SubmitRegistration \/ SubmitEmail \/ SubmitMessage
  BY <1>23, DrawElsewhere DEF SubmitCredentials, SubmitRegistration, SubmitEmail, SubmitMessage,
                              SubmitText, Here
<1>24. CASE LoggedIn \/ Registered
  BY <1>24, FreshStore DEF LoggedIn, Registered, Opened, StoreInv, StoreLines
<1>25. CASE EmailSent \/ MessageSent
  BY <1>25, DrawElsewhere DEF EmailSent, MessageSent, Here
<1>26. CASE UNCHANGED storeVars
  BY <1>26, SameStore DEF storeVars
<1> QED
  BY <1>1, <1>2, <1>3, <1>4, <1>5, <1>6, <1>7, <1>8, <1>9, <1>10, <1>11, <1>12, <1>13, <1>14,
     <1>15, <1>16, <1>17, <1>18, <1>19, <1>20, <1>21, <1>22, <1>23, <1>24, <1>25, <1>26
  DEF StoreNext

\* For any prices and products, stock and cart: no line has less than one piece.
THEOREM PiecesArePositive == StoreSpec => []LinesHavePieces
<1>1. ASSUME StoreInv, NEW id \in DOMAIN storeCart PROVE storeCart[id].quantity >= 1
  <2>1. storeCart[id].quantity \in Nat \ {0} BY <1>1 DEF StoreInv, StoreLines
  <2> QED BY <2>1
<1>2. StoreInv => LinesHavePieces BY <1>1 DEF LinesHavePieces
<1> QED BY <1>2, InitStore, StepStore, PTL DEF StoreSpec
=============================================================================
