---------------------------- MODULE Subscription ----------------------------
(***************************************************************************)
(* SubscriptionService: the subscriptions of one tenant, the subscriptions *)
(* the gateway (Asaas) bills for them, and the SUBSCRIPTION_* events of    *)
(* its webhook.                                                            *)
(*                                                                         *)
(* As in Payment a worker runs one HTTP request and every await ends a     *)
(* step.  A plan stands for amount and cycle, which always travel          *)
(* together.  Dates are left out: findDueForRenewal(0) asks for a billing  *)
(* date between now and now, so which rows are due is left open.           *)
(***************************************************************************)
EXTENDS Naturals

CONSTANTS Subs,        \* ids of subscription rows
          GwSubs,      \* ids the gateway gives its subscriptions
          Plans,
          Customers,   \* values of customerId in a request
          Tenant,      \* the tenantId of the rows
          Workers,     \* concurrent requests
          MaxRenewals, \* bound: renewals counted for one row
          Faulty       \* may a request die, an answer be lost, an event come twice?

None == "none"

ASSUME SubscriptionAssumption ==
    /\ MaxRenewals \in Nat
    /\ Faulty \in BOOLEAN
    /\ None \notin GwSubs

VARIABLES
    gateway,     \* gateway id -> the subscription there
    events,      \* webhook events on their way, in no order
    status, plan, gatewayId, totalPayments,  \* the row's columns
    payments,    \* payment rows of first invoices: [sub, gw]
    worker,      \* worker -> the request it runs
    renewed,     \* row -> renewals somebody set out to count (history)
    disturbed,   \* rows whose requests overlapped or failed half-way (history)
    missed       \* gateway ids whose deletion found no row (history)

row == <<status, plan, gatewayId>>
books == <<row, totalPayments, payments>>
vars == <<gateway, events, books, worker, renewed, disturbed, missed>>

SubscriptionStatus ==
    {"active", "inactive", "pending", "overdue", "cancelled", "ended", "trial"}
Event == [gw : GwSubs, name : {"DELETED", "RENEWED"}]

Idle == [pc |-> "idle"]
Unknown == [status |-> None]  \* a gateway id not given yet

Init == /\ gateway = [g \in GwSubs |-> Unknown]
        /\ events = {}
        /\ status = [s \in Subs |-> None]
        /\ plan = [s \in Subs |-> None]
        /\ gatewayId = [s \in Subs |-> None]
        /\ totalPayments = [s \in Subs |-> 0]
        /\ payments = {}
        /\ worker = [w \in Workers |-> Idle]
        /\ renewed = [s \in Subs |-> 0]
        /\ disturbed = {}
        /\ missed = {}

-----------------------------------------------------------------------------
(* The gateway, as far as src/ relies on it *)

\* SUBSCRIPTION_UPDATED is left out: its handler writes a cycle in upper case,
\* which the column's enum refuses together with the rest of the update.
\* Bound: an event of a subscription is on its way once.
Emit(g, name) == events' = events \cup {[gw |-> g, name |-> name]}

\* An operator of the gateway ends a subscription, or a period passes there.
GatewayDeletes(g) ==
    /\ gateway[g].status = "ACTIVE"
    /\ gateway' = [gateway EXCEPT ![g].status = "CANCELLED"]
    /\ Emit(g, "DELETED")
    /\ UNCHANGED <<books, worker, renewed, disturbed, missed>>

GatewayRenews(g) ==
    /\ gateway[g].status = "ACTIVE"
    /\ Emit(g, "RENEWED")
    /\ UNCHANGED <<gateway, books, worker, renewed, disturbed, missed>>

-----------------------------------------------------------------------------
(* Requests *)

At(w, pc) == worker[w].pc = pc
Goto(w, pc) == worker' = [worker EXCEPT ![w].pc = pc]
Finish(w) == worker' = [worker EXCEPT ![w] = Idle]

\* Requests that change the row or its subscription at the gateway.
Works(w, s) == worker[w].pc \notin {"idle", "renew", "event"} /\ worker[w].sub = s
Free(s) == \A w \in Workers : ~Works(w, s)

Disturb(s) == disturbed' = disturbed \cup {s}
Begin(w, pc, op, s, g, p) ==
    /\ At(w, "idle")
    /\ worker' = [worker EXCEPT ![w] = [pc |-> pc, op |-> op, sub |-> s, gw |-> g, plan |-> p]]
    /\ IF Free(s) THEN UNCHANGED disturbed ELSE Disturb(s)

\* The process dies, a statement fails or an answer of the gateway is lost:
\* the caller gets an error, what was done stays done.
Abandon(w) == Faulty /\ Finish(w) /\ Disturb(worker[w].sub)

\* createSubscription of a trial is one insert.
CreateTrial(s, p) ==
    /\ status[s] = None /\ Free(s)
    /\ status' = [status EXCEPT ![s] = "trial"]
    /\ plan' = [plan EXCEPT ![s] = p]
    /\ UNCHANGED <<gateway, events, gatewayId, totalPayments, payments, worker, renewed, disturbed, missed>>

StartCreate(w, s, p) ==
    /\ status[s] = None /\ Free(s)
    /\ Begin(w, "gwCreate", "create", s, None, p)
    /\ UNCHANGED <<gateway, events, books, renewed, missed>>

\* convertTrialToActive up to the call of the gateway.
StartConvert(w, s) ==
    /\ status[s] = "trial"
    /\ Begin(w, "gwCreate", "convert", s, None, plan[s])
    /\ UNCHANGED <<gateway, events, books, renewed, missed>>

\* The row has no customerId column: a conversion sends no customer.
CustomersOf(op) == IF op = "convert" THEN {None} ELSE Customers
GatewayCreateUnchecked(w) ==  \* mutant: an error of the gateway is swallowed
    /\ At(w, "gwCreate")
    /\ Goto(w, "store")
    /\ UNCHANGED <<gateway, events, books, renewed, disturbed, missed>>
GatewayCreate(w) ==
    /\ At(w, "gwCreate")
    /\ \/ \E g \in GwSubs, c \in CustomersOf(worker[w].op) :
             /\ gateway[g] = Unknown
             /\ gateway' = [gateway EXCEPT ![g] =
                   [status |-> "ACTIVE", owner |-> worker[w].sub, plan |-> worker[w].plan, customer |-> c]]
             /\ \/ /\ worker' = [worker EXCEPT ![w].pc = "store", ![w].gw = g]
                   /\ UNCHANGED disturbed
                \/ Abandon(w)
       \/ Finish(w) /\ UNCHANGED <<gateway, disturbed>>
    /\ UNCHANGED <<events, books, renewed, missed>>

\* The row of a new subscription is inserted, that of a trial updated.
StoreActive(w) ==
    /\ At(w, "store")
    /\ LET r == worker[w] IN
          /\ status' = [status EXCEPT ![r.sub] = "active"]
          /\ gatewayId' = [gatewayId EXCEPT ![r.sub] = r.gw]
          /\ plan' = IF r.op = "create" THEN [plan EXCEPT ![r.sub] = r.plan] ELSE plan
    /\ Goto(w, "invoices")
    /\ UNCHANGED <<gateway, events, totalPayments, payments, renewed, disturbed, missed>>

\* getSubscriptionInvoices fails, or finds no invoice, or finds the first.
GetInvoices(w) ==
    /\ At(w, "invoices")
    /\ Finish(w) \/ Goto(w, "insertPayment")
    /\ UNCHANGED <<gateway, events, books, renewed, disturbed, missed>>

InsertPayment(w) ==
    /\ At(w, "insertPayment")
    /\ payments' = payments \cup {[sub |-> worker[w].sub, gw |-> worker[w].gw]}
    /\ Goto(w, "count")
    /\ UNCHANGED <<gateway, events, row, totalPayments, renewed, disturbed, missed>>

CountFirstAdded(w) ==  \* mutant: adds the first payment instead of setting it
    /\ At(w, "count")
    /\ totalPayments' = [totalPayments EXCEPT ![worker[w].sub] = @ + 1]
    /\ Finish(w)
    /\ UNCHANGED <<gateway, events, row, payments, renewed, disturbed, missed>>
CountFirst(w) ==
    /\ At(w, "count")
    /\ totalPayments' = [totalPayments EXCEPT ![worker[w].sub] = 1]
    /\ Finish(w)
    /\ UNCHANGED <<gateway, events, row, payments, renewed, disturbed, missed>>

\* cancel: any row, whatever its status.
StartCancel(w, s) ==
    /\ status[s] # None
    /\ Begin(w, IF gatewayId[s] = None THEN "cancelRow" ELSE "gwCancel", "cancel",
             s, gatewayId[s], None)
    /\ UNCHANGED <<gateway, events, books, renewed, missed>>

\* One that is cancelled already the gateway may refuse or accept once more.
GatewayCancel(w) ==
    /\ At(w, "gwCancel")
    /\ LET g == worker[w].gw IN
          \/ /\ gateway' = [gateway EXCEPT ![g].status = "CANCELLED"]
             /\ IF gateway[g].status = "ACTIVE" THEN Emit(g, "DELETED") ELSE UNCHANGED events
             /\ (Goto(w, "cancelRow") /\ UNCHANGED disturbed) \/ Abandon(w)
          \/ Finish(w) /\ UNCHANGED <<gateway, events, disturbed>>
    /\ UNCHANGED <<books, renewed, missed>>

CancelRow(w) ==
    /\ At(w, "cancelRow")
    /\ status' = [status EXCEPT ![worker[w].sub] = "cancelled"]
    /\ Finish(w)
    /\ UNCHANGED <<gateway, events, plan, gatewayId, totalPayments, payments, renewed, disturbed, missed>>

\* changePlan
StartChange(w, s, p) ==
    /\ status[s] = "active"
    /\ Begin(w, IF gatewayId[s] = None THEN "changeRow" ELSE "gwUpdate", "change",
             s, gatewayId[s], p)
    /\ UNCHANGED <<gateway, events, books, renewed, missed>>

GatewayUpdateIgnored(w) ==  \* mutant: the gateway's refusal is ignored
    /\ At(w, "gwUpdate")
    /\ Goto(w, "changeRow")
    /\ \/ gateway' = [gateway EXCEPT ![worker[w].gw].plan = worker[w].plan]
       \/ UNCHANGED gateway
    /\ UNCHANGED <<events, books, renewed, disturbed, missed>>
GatewayUpdate(w) ==
    /\ At(w, "gwUpdate")
    /\ LET g == worker[w].gw IN
          \/ /\ gateway' = [gateway EXCEPT ![g].plan = worker[w].plan]
             /\ (Goto(w, "changeRow") /\ UNCHANGED disturbed) \/ Abandon(w)
          \/ Finish(w) /\ UNCHANGED <<gateway, disturbed>>
    /\ UNCHANGED <<events, books, renewed, missed>>

ChangeRow(w) ==
    /\ At(w, "changeRow")
    /\ plan' = [plan EXCEPT ![worker[w].sub] = worker[w].plan]
    /\ Finish(w)
    /\ UNCHANGED <<gateway, events, status, gatewayId, totalPayments, payments, renewed, disturbed, missed>>

-----------------------------------------------------------------------------
(* Renewals and trial endings, started by an administrator *)

Snapshot(ss) == {[sub |-> s, total |-> totalPayments[s]] : s \in ss}

SetsOut(ss) ==
    /\ \A s \in ss : renewed[s] < MaxRenewals
    /\ renewed' = [s \in Subs |-> IF s \in ss THEN renewed[s] + 1 ELSE renewed[s]]

\* processRenewals: the due rows are read at once,
StartRenewals(w, due) ==
    /\ At(w, "idle")
    /\ due # {} /\ \A s \in due : status[s] = "active"
    /\ SetsOut(due)
    /\ worker' = [worker EXCEPT ![w] = [pc |-> "renew", due |-> Snapshot(due)]]
    /\ UNCHANGED <<gateway, events, books, disturbed, missed>>

\* then written one after the other; a row that fails is skipped.
RenewRow(w, d) ==
    /\ At(w, "renew") /\ d \in worker[w].due
    /\ \/ totalPayments' = [totalPayments EXCEPT ![d.sub] = d.total + 1]
       \/ Faulty /\ UNCHANGED totalPayments
    /\ IF worker[w].due = {d} THEN Finish(w) ELSE worker' = [worker EXCEPT ![w].due = @ \ {d}]
    /\ UNCHANGED <<gateway, events, row, payments, renewed, disturbed, missed>>

\* processTrialEndings writes SubscriptionStatus.EXPIRED, which the enum lacks:
\* it is undefined, and an undefined column is not updated.
EndTrial(s) ==
    /\ status[s] = "trial"
    /\ status' = [status EXCEPT ![s] = IF "expired" \in SubscriptionStatus THEN "expired" ELSE @]
    /\ UNCHANGED <<gateway, events, plan, gatewayId, totalPayments, payments, worker, renewed, disturbed, missed>>

-----------------------------------------------------------------------------
(* The webhook *)

\* findByGatewayId takes the customer of the event for the tenant id.
Finds(g) == {s \in Subs : gatewayId[s] = g /\ gateway[g].customer = Tenant}

\* handleSubscriptionEvent up to its write.
ReceiveEvent(w, e) ==
    /\ At(w, "idle")
    /\ events' = events \ {e} \/ (Faulty /\ UNCHANGED events)
    /\ \/ /\ Finds(e.gw) = {}
          /\ missed' = IF e.name = "DELETED" THEN missed \cup {e.gw} ELSE missed
          /\ UNCHANGED <<worker, renewed>>
       \/ \E s \in Finds(e.gw) :
          /\ \/ /\ e.name = "DELETED"
                /\ worker' = [worker EXCEPT ![w] = [pc |-> "event", sub |-> s, gw |-> e.gw]]
                /\ UNCHANGED renewed
             \/ /\ e.name = "RENEWED"
                /\ SetsOut({s})
                /\ worker' = [worker EXCEPT ![w] = [pc |-> "renew", due |-> Snapshot({s})]]
          /\ UNCHANGED missed
    /\ UNCHANGED <<gateway, books, disturbed>>

\* updateStatus(CANCELLED).
WriteDeleted(w) ==
    /\ At(w, "event")
    /\ status' = [status EXCEPT ![worker[w].sub] = "cancelled"]
    /\ Finish(w)
    /\ UNCHANGED <<gateway, events, plan, gatewayId, totalPayments, payments, renewed, disturbed, missed>>

\* A request fails between two awaits; the webhook answers 200 all the same.
Die(w) ==
    /\ Faulty
    /\ ~At(w, "idle")
    /\ Finish(w)
    /\ disturbed' = IF At(w, "renew") THEN disturbed ELSE disturbed \cup {worker[w].sub}
    /\ UNCHANGED <<gateway, events, books, renewed, missed>>

Next ==
    \/ \E g \in GwSubs : GatewayDeletes(g) \/ GatewayRenews(g)
    \/ \E s \in Subs : EndTrial(s) \/ \E p \in Plans : CreateTrial(s, p)
    \/ \E w \in Workers :
          \/ \E s \in Subs :
                \/ StartConvert(w, s) \/ StartCancel(w, s)
                \/ \E p \in Plans : StartCreate(w, s, p) \/ StartChange(w, s, p)
          \/ GatewayCreate(w) \/ StoreActive(w) \/ GetInvoices(w)
          \/ InsertPayment(w) \/ CountFirst(w)
          \/ GatewayCancel(w) \/ CancelRow(w)
          \/ GatewayUpdate(w) \/ ChangeRow(w)
          \/ \E due \in SUBSET Subs : StartRenewals(w, due)
          \/ At(w, "renew") /\ \E d \in worker[w].due : RenewRow(w, d)
          \/ \E e \in events : ReceiveEvent(w, e)
          \/ WriteDeleted(w) \/ Die(w)

Spec == Init /\ [][Next]_vars

-----------------------------------------------------------------------------
(* Properties *)

Request ==
    [pc : {"gwCreate", "store", "invoices", "insertPayment", "count"},
     op : {"create", "convert"}, sub : Subs, gw : GwSubs \cup {None}, plan : Plans \cup {None}]
    \cup [pc : {"gwCancel", "cancelRow", "gwUpdate", "changeRow"}, op : {"cancel", "change"},
          sub : Subs, gw : GwSubs \cup {None}, plan : Plans \cup {None}]
    \cup [pc : {"renew"}, due : SUBSET [sub : Subs, total : Nat]]
    \cup [pc : {"event"}, sub : Subs, gw : GwSubs]

GatewaySub == [status : {"ACTIVE", "CANCELLED"}, owner : Subs, plan : Plans \cup {None},
               customer : Customers \cup {None}]

\* The columns hold values of their types, also after a trial has ended.
TypeOK ==
    /\ gateway \in [GwSubs -> GatewaySub \cup {Unknown}]
    /\ events \subseteq Event
    /\ status \in [Subs -> SubscriptionStatus \cup {None}]
    /\ plan \in [Subs -> Plans \cup {None}]
    /\ gatewayId \in [Subs -> GwSubs \cup {None}]
    /\ totalPayments \in [Subs -> Nat]
    /\ payments \subseteq [sub : Subs, gw : GwSubs]
    /\ worker \in [Workers -> Request \cup {Idle}]
    /\ renewed \in [Subs -> Nat]
    /\ disturbed \subseteq Subs
    /\ missed \subseteq GwSubs

Backs(g, s) == gateway[g] # Unknown /\ gateway[g].owner = s

\* A row is active only with a subscription the gateway made for that very row,
\* and its payments are invoices of such subscriptions, however conversions,
\* cancellations and failures interleave: nobody is billed for another's row.
ActiveIsBacked ==
    /\ \A s \in Subs : status[s] = "active" => gatewayId[s] # None
    /\ \A s \in Subs : gatewayId[s] # None => Backs(gatewayId[s], s)
    /\ \A p \in payments : Backs(p.gw, p.sub)

DeletionUnderWay(g) ==
    \/ g \in missed
    \/ [gw |-> g, name |-> "DELETED"] \in events
    \/ \E w \in Workers : At(w, "event") /\ worker[w].gw = g

\* As long as the requests for a row neither overlap nor fail half-way, row and
\* gateway agree between them: the gateway bills exactly the active row, under
\* the row's plan, unless a deletion made at the gateway is still on its way
\* or its event came before the row or with another customer.
UndisturbedAgreement ==
    \A s \in Subs \ disturbed : Free(s) =>
        /\ \A g \in GwSubs : Backs(g, s) /\ gateway[g].status = "ACTIVE" =>
              status[s] = "active" /\ gatewayId[s] = g
        /\ status[s] = "active" =>
              /\ gateway[gatewayId[s]].plan = plan[s]
              /\ gateway[gatewayId[s]].status = "ACTIVE" \/ DeletionUnderWay(gatewayId[s])

\* Although each count writes back a total read some awaits before, overlapping
\* counts never add up to more than there were of them: the total is at most the
\* first payment and one for each time that processRenewals picked the row or a
\* RENEWED event reached it.  It is no bound on payments: the two do not know of
\* each other, and both may count one renewal, as may an event that comes twice.
TotalWithinCounts == \A s \in Subs : totalPayments[s] <= 1 + renewed[s]
=============================================================================
