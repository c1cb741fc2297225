------------------------ MODULE SubscriptionProofs ------------------------
(***************************************************************************)
(* Subscription's type, that active rows and payments are backed by the    *)
(* row's own subscriptions at the gateway, that totals keep to the counts  *)
(* made of them, and that undisturbed rows agree with the gateway, for any *)
(* number of rows, subscriptions and requests.                             *)
(*                                                                         *)
(* ActiveIsBacked is not inductive: a request stores the id it carries, so *)
(* that id must be backed too (Carried); likewise a renewal stores the     *)
(* total it has read, which must not be too large (SnapshotsSound).        *)
(***************************************************************************)
EXTENDS Subscription, TLAPS

Carries == {"store", "invoices", "insertPayment", "count"}

Carried ==
    \A w \in Workers :
        /\ worker[w].pc \in Carries =>
              worker[w].gw # None /\ Backs(worker[w].gw, worker[w].sub)
        /\ worker[w].pc \in {"gwCancel", "gwUpdate"} =>
              worker[w].gw # None /\ Backs(worker[w].gw, worker[w].sub)

SnapshotsSound ==
    \A w \in Workers : worker[w].pc = "renew" =>
        \A d \in worker[w].due : d.total <= renewed[d.sub]

IInv == TypeOK /\ ActiveIsBacked /\ Carried /\ TotalWithinCounts /\ SnapshotsSound

LEMMA InitIInv == Init => IInv
<1> SUFFICES ASSUME Init PROVE IInv
  OBVIOUS
<1>1. TypeOK
  BY DEF Init, TypeOK, Unknown, SubscriptionStatus
<1>2. ActiveIsBacked /\ TotalWithinCounts
  BY DEF Init, ActiveIsBacked, TotalWithinCounts, None
<1>3. Carried /\ SnapshotsSound
  BY DEF Init, Carried, SnapshotsSound, Carries, Idle
<1> QED BY <1>1, <1>2, <1>3 DEF IInv

\* What the gateway made stays made, for the same row.
GatewayGrows ==
    \A g \in GwSubs : gateway[g] # Unknown =>
        gateway'[g] # Unknown /\ gateway'[g].owner = gateway[g].owner

\* A row's requests keep what they carry when the gateway only grows.
LEMMA RowsStayBacked ==
    ASSUME IInv, GatewayGrows, UNCHANGED <<status, gatewayId, payments>>
    PROVE  ActiveIsBacked'
BY DEF IInv, TypeOK, ActiveIsBacked, GatewayGrows, Backs

\* One worker w takes a step to the record r; the others go on.
Moves(w, r) == worker' = [worker EXCEPT ![w] = r]

LEMMA WorkerMoves ==
    ASSUME IInv, GatewayGrows, NEW w \in Workers, NEW r \in Request \cup {Idle}, Moves(w, r),
           r.pc \in Carries \cup {"gwCancel", "gwUpdate"} =>
               r.gw \in GwSubs /\ gateway'[r.gw] # Unknown /\ gateway'[r.gw].owner = r.sub
    PROVE  Carried'
<1> SUFFICES ASSUME NEW v \in Workers, worker'[v].pc \in Carries \cup {"gwCancel", "gwUpdate"}
             PROVE  (worker[v].gw # None /\ Backs(worker[v].gw, worker[v].sub))'
  BY DEF Carried, Carries
<1>1. CASE v = w
  <2>1. worker'[v] = r BY <1>1 DEF IInv, TypeOK, Moves
  <2> QED BY <2>1, SubscriptionAssumption DEF Backs
<1>2. CASE v # w
  <2>1. worker'[v] = worker[v] /\ worker[v] \in Request \cup {Idle}
    BY <1>2 DEF IInv, TypeOK, Moves
  <2>2. worker[v].gw # None /\ Backs(worker[v].gw, worker[v].sub)
    BY <2>1 DEF IInv, Carried
  <2>3. worker[v].gw \in GwSubs \cup {None}
    BY <2>1 DEF Request, Idle, Carries
  <2> QED BY <2>1, <2>2, <2>3 DEF Backs, GatewayGrows
<1> QED BY <1>1, <1>2

LEMMA OthersCarry ==
    ASSUME IInv, GatewayGrows, UNCHANGED worker
    PROVE  Carried'
<1> SUFFICES ASSUME NEW v \in Workers, worker[v].pc \in Carries \cup {"gwCancel", "gwUpdate"}
             PROVE  (worker[v].gw # None /\ Backs(worker[v].gw, worker[v].sub))'
  BY DEF Carried, Carries
<1>1. worker[v].gw \in GwSubs \cup {None}
  BY DEF IInv, TypeOK, Request, Idle, Carries
<1>2. worker[v].gw # None /\ Backs(worker[v].gw, worker[v].sub)
  BY DEF IInv, Carried
<1> QED BY <1>1, <1>2 DEF Backs, GatewayGrows

LEMMA SnapshotsKept ==
    ASSUME IInv, NEW w \in Workers, NEW r \in Request \cup {Idle}, Moves(w, r),
           r.pc = "renew" => \A d \in r.due : d.total <= renewed'[d.sub],
           renewed' \in [Subs -> Nat], \A s \in Subs : renewed[s] <= renewed'[s]
    PROVE  SnapshotsSound'
<1> SUFFICES ASSUME NEW v \in Workers, worker'[v].pc = "renew", NEW d \in worker'[v].due
             PROVE  d.total <= renewed'[d.sub]
  BY DEF SnapshotsSound
<1>1. CASE v = w
  BY <1>1 DEF IInv, TypeOK, Moves
<1>2. CASE v # w
  <2>1. worker'[v] = worker[v] /\ worker[v] \in Request \cup {Idle}
    BY <1>2 DEF IInv, TypeOK, Moves
  <2>2. d \in [sub : Subs, total : Nat]
    BY <2>1 DEF Request, Idle
  <2>3. d.total <= renewed[d.sub]
    BY <2>1 DEF IInv, SnapshotsSound
  <2> QED BY <2>2, <2>3 DEF IInv, TypeOK
<1> QED BY <1>1, <1>2

\* A subscription the gateway has made keeps its type under a change of one field.
LEMMA FieldSet ==
    ASSUME TypeOK, NEW g \in GwSubs, gateway[g] # Unknown, NEW p \in Plans \cup {None}
    PROVE  /\ [gateway EXCEPT ![g].status = "CANCELLED"] \in [GwSubs -> GatewaySub \cup {Unknown}]
           /\ [gateway EXCEPT ![g].plan = p] \in [GwSubs -> GatewaySub \cup {Unknown}]
<1>1. gateway[g] \in GatewaySub BY DEF TypeOK
<1>2. /\ [gateway[g] EXCEPT !.status = "CANCELLED"] \in GatewaySub
      /\ [gateway[g] EXCEPT !.plan = p] \in GatewaySub
  BY <1>1 DEF GatewaySub
<1> QED BY <1>2 DEF TypeOK

LEMMA StepTypeOK == IInv /\ [Next]_vars => TypeOK'
<1> SUFFICES ASSUME IInv, TypeOK, [Next]_vars PROVE TypeOK'
  BY DEF IInv
<1> USE DEF TypeOK
<1>1. ASSUME NEW g \in GwSubs, GatewayDeletes(g) \/ GatewayRenews(g) PROVE TypeOK'
  <2>1. gateway[g].status = "ACTIVE" => gateway[g] # Unknown BY DEF Unknown, None
  <2>2. gateway' \in [GwSubs -> GatewaySub \cup {Unknown}]
    BY <1>1, <2>1, FieldSet DEF GatewayDeletes, GatewayRenews
  <2> QED BY <1>1, <2>2 DEF GatewayDeletes, GatewayRenews, Emit, Event, books, row
<1>2. ASSUME NEW s \in Subs, EndTrial(s) PROVE TypeOK'
  BY <1>2 DEF EndTrial, SubscriptionStatus
<1>3. ASSUME NEW s \in Subs, NEW p \in Plans, CreateTrial(s, p) PROVE TypeOK'
  BY <1>3 DEF CreateTrial, SubscriptionStatus
<1>4. ASSUME NEW w \in Workers, NEW s \in Subs, StartConvert(w, s) \/ StartCancel(w, s) PROVE TypeOK'
  BY <1>4 DEF StartConvert, StartCancel, Begin, Disturb, Request, books, row
<1>5. ASSUME NEW w \in Workers, NEW s \in Subs, NEW p \in Plans, StartCreate(w, s, p) \/ StartChange(w, s, p) PROVE TypeOK'
  BY <1>5 DEF StartCreate, StartChange, Begin, Disturb, Request, books, row
<1>6. ASSUME NEW w \in Workers, GatewayCreate(w) PROVE TypeOK'
  BY <1>6 DEF GatewayCreate, At, CustomersOf, Abandon, Finish, Disturb, Request, Idle, GatewaySub, books, row
<1>7. ASSUME NEW w \in Workers, StoreActive(w) PROVE TypeOK'
  BY <1>7 DEF StoreActive, At, Goto, Request, Idle, SubscriptionStatus
<1>8. ASSUME NEW w \in Workers, GetInvoices(w) PROVE TypeOK'
  BY <1>8 DEF GetInvoices, At, Goto, Finish, Request, Idle, books, row
<1>9. ASSUME NEW w \in Workers, InsertPayment(w) \/ CountFirst(w) PROVE TypeOK'
  <2>1. worker[w].sub \in Subs /\ worker[w].gw \in GwSubs
    BY <1>9 DEF InsertPayment, CountFirst, At, Request, Idle, IInv, Carried, Carries
  <2>2. worker' \in [Workers -> Request \cup {Idle}]
    BY <1>9 DEF InsertPayment, CountFirst, At, Goto, Finish, Request, Idle
  <2> QED BY <1>9, <2>1, <2>2 DEF InsertPayment, CountFirst, row
<1>10. ASSUME NEW w \in Workers, GatewayCancel(w) PROVE TypeOK'
  <2>1. /\ worker[w] \in Request /\ worker[w].sub \in Subs
        /\ worker[w].gw \in GwSubs /\ gateway[worker[w].gw] # Unknown
    BY <1>10 DEF GatewayCancel, At, Request, Idle, IInv, Carried, Backs
  <2>2. worker' \in [Workers -> Request \cup {Idle}] /\ disturbed' \subseteq Subs
    BY <1>10, <2>1 DEF GatewayCancel, At, Abandon, Finish, Goto, Disturb, Request
  <2>3. gateway' \in [GwSubs -> GatewaySub \cup {Unknown}]
    BY <1>10, <2>1, FieldSet DEF GatewayCancel
  <2>4. events' \subseteq Event
    BY <1>10, <2>1 DEF GatewayCancel, Emit, Event
  <2> QED BY <1>10, <2>2, <2>3, <2>4 DEF GatewayCancel, books, row
<1>11. ASSUME NEW w \in Workers, CancelRow(w) \/ ChangeRow(w) \/ WriteDeleted(w) PROVE TypeOK'
  BY <1>11 DEF CancelRow, ChangeRow, WriteDeleted, At, Finish, Request, Idle, SubscriptionStatus
<1>12. ASSUME NEW w \in Workers, GatewayUpdate(w) PROVE TypeOK'
  <2>1. /\ worker[w] \in Request /\ worker[w].sub \in Subs /\ worker[w].plan \in Plans \cup {None}
        /\ worker[w].gw \in GwSubs /\ gateway[worker[w].gw] # Unknown
    BY <1>12 DEF GatewayUpdate, At, Request, Idle, IInv, Carried, Backs
  <2>2. worker' \in [Workers -> Request \cup {Idle}] /\ disturbed' \subseteq Subs
    BY <1>12, <2>1 DEF GatewayUpdate, At, Abandon, Finish, Goto, Disturb, Request
  <2>3. gateway' \in [GwSubs -> GatewaySub \cup {Unknown}]
    <3>1. [gateway EXCEPT ![worker[w].gw].plan = worker[w].plan] \in [GwSubs -> GatewaySub \cup {Unknown}]
      BY <2>1, FieldSet
    <3> QED BY <1>12, <3>1 DEF GatewayUpdate
  <2> QED BY <1>12, <2>2, <2>3 DEF GatewayUpdate, books, row
<1>13. ASSUME NEW w \in Workers, NEW due \in SUBSET Subs, StartRenewals(w, due) PROVE TypeOK'
  BY <1>13 DEF StartRenewals, SetsOut, Snapshot, Request, books, row
<1>14. ASSUME NEW w \in Workers, NEW d \in worker[w].due, RenewRow(w, d) PROVE TypeOK'
  <2>1. worker[w] \in [pc : {"renew"}, due : SUBSET [sub : Subs, total : Nat]]
    BY <1>14 DEF RenewRow, At, Request, Idle
  <2>2. d \in [sub : Subs, total : Nat] BY <2>1
  <2>3. [worker[w] EXCEPT !.due = worker[w].due \ {d}] \in Request
    BY <2>1 DEF Request
  <2>4. worker' \in [Workers -> Request \cup {Idle}]
    <3>1. CASE worker[w].due = {d}
      <4>1. worker' = [worker EXCEPT ![w] = Idle] BY <1>14, <3>1 DEF RenewRow, Finish
      <4> QED BY <4>1
    <3>2. CASE worker[w].due # {d}
      <4>1. worker' = [worker EXCEPT ![w] = [worker[w] EXCEPT !.due = worker[w].due \ {d}]]
        BY <1>14, <3>2 DEF RenewRow
      <4> QED BY <4>1, <2>3
    <3> QED BY <3>1, <3>2
  <2> QED BY <1>14, <2>2, <2>4 DEF RenewRow, row
<1>15. ASSUME NEW w \in Workers, NEW e \in events, ReceiveEvent(w, e) PROVE TypeOK'
  <2>1. e \in Event /\ e.gw \in GwSubs BY DEF Event
  <2>2. events' \subseteq Event /\ missed' \subseteq GwSubs
    BY <1>15, <2>1 DEF ReceiveEvent
  <2>3. ASSUME NEW s \in Subs
        PROVE  /\ [pc |-> "event", sub |-> s, gw |-> e.gw] \in Request
               /\ [pc |-> "renew", due |-> Snapshot({s})] \in Request
    BY <2>1 DEF Snapshot, Request
  <2>4. worker' \in [Workers -> Request \cup {Idle}]
    BY <1>15, <2>3 DEF ReceiveEvent, Finds
  <2>5. renewed' \in [Subs -> Nat]
    <3>1. ASSUME NEW s \in Subs, SetsOut({s}) PROVE renewed' \in [Subs -> Nat]
      BY <3>1 DEF SetsOut
    <3> QED BY <1>15, <3>1 DEF ReceiveEvent, Finds
  <2> QED BY <1>15, <2>2, <2>4, <2>5 DEF ReceiveEvent, books, row
<1>16. ASSUME NEW w \in Workers, Die(w) PROVE TypeOK'
  BY <1>16 DEF Die, At, Finish, Request, Idle, books, row
<1>17. ASSUME UNCHANGED vars PROVE TypeOK'
  BY <1>17 DEF vars, books, row
<1> QED
  BY <1>1, <1>2, <1>3, <1>4, <1>5, <1>6, <1>7, <1>8, <1>9, <1>10, <1>11, <1>12, <1>13,
     <1>14, <1>15, <1>16, <1>17 DEF Next

LEMMA StepIInv == IInv /\ [Next]_vars => IInv'
<1> SUFFICES ASSUME IInv, [Next]_vars PROVE IInv'
  OBVIOUS
<1> USE StepTypeOK
<1>0. TypeOK' /\ TypeOK BY DEF IInv
<1>1. ASSUME NEW g \in GwSubs, GatewayDeletes(g) \/ GatewayRenews(g)
      PROVE  ActiveIsBacked' /\ Carried' /\ TotalWithinCounts' /\ SnapshotsSound'
  <2>1. GatewayGrows
    BY <1>1, <1>0 DEF GatewayGrows, GatewayDeletes, GatewayRenews, TypeOK, Unknown, None, GatewaySub
  <2>2. UNCHANGED <<books, worker, renewed>> BY <1>1 DEF GatewayDeletes, GatewayRenews
  <2> QED BY <2>1, <2>2, RowsStayBacked, OthersCarry DEF IInv, books, row, TotalWithinCounts, SnapshotsSound
<1>2. ASSUME NEW s \in Subs, EndTrial(s) \/ \E p \in Plans : CreateTrial(s, p)
      PROVE  ActiveIsBacked' /\ Carried' /\ TotalWithinCounts' /\ SnapshotsSound'
  <2>1. GatewayGrows /\ UNCHANGED <<gateway, gatewayId, worker, renewed, totalPayments, payments>>
    BY <1>2 DEF EndTrial, CreateTrial, GatewayGrows
  <2>2. \A t \in Subs : status'[t] = "active" => status[t] = "active"
    BY <1>2, <1>0 DEF EndTrial, CreateTrial, TypeOK
  <2>3. ActiveIsBacked' BY <2>1, <2>2 DEF IInv, ActiveIsBacked, Backs
  <2> QED BY <2>1, <2>3, OthersCarry DEF IInv, TotalWithinCounts, SnapshotsSound
<1>3. ASSUME NEW w \in Workers, NEW r \in Request \cup {Idle}, Moves(w, r), GatewayGrows,
             UNCHANGED <<books, renewed>>,
             r.pc # "renew",
             r.pc \in Carries \cup {"gwCancel", "gwUpdate"} =>
                 r.gw \in GwSubs /\ gateway'[r.gw] # Unknown /\ gateway'[r.gw].owner = r.sub
      PROVE  ActiveIsBacked' /\ Carried' /\ TotalWithinCounts' /\ SnapshotsSound'
  <2>1. Carried' BY <1>3, WorkerMoves
  <2>2. ActiveIsBacked' BY <1>3, RowsStayBacked DEF books, row
  <2>3. TotalWithinCounts' BY <1>3 DEF IInv, TotalWithinCounts, books
  <2>4. SnapshotsSound' BY <1>3, <1>0, SnapshotsKept DEF TypeOK
  <2> QED BY <2>1, <2>2, <2>3, <2>4
<1>4. ASSUME NEW w \in Workers, Finish(w), GatewayGrows, UNCHANGED <<books, renewed>>
      PROVE  ActiveIsBacked' /\ Carried' /\ TotalWithinCounts' /\ SnapshotsSound'
  <2>1. Moves(w, Idle) BY <1>4 DEF Finish, Moves
  <2>2. Idle.pc \notin Carries \cup {"gwCancel", "gwUpdate", "renew"} BY DEF Idle, Carries
  <2> QED BY <1>3, <1>4, <2>1, <2>2
<1>5. ASSUME NEW w \in Workers, NEW pc, NEW op, NEW s \in Subs, NEW g, NEW p, Begin(w, pc, op, s, g, p),
             [pc |-> pc, op |-> op, sub |-> s, gw |-> g, plan |-> p] \in Request,
             pc \notin Carries, pc # "renew",
             pc \in {"gwCancel", "gwUpdate"} => g = gatewayId[s] /\ g # None,
             UNCHANGED <<gateway, books, renewed>>
      PROVE  ActiveIsBacked' /\ Carried' /\ TotalWithinCounts' /\ SnapshotsSound'
  <2> DEFINE r == [pc |-> pc, op |-> op, sub |-> s, gw |-> g, plan |-> p]
  <2>1. Moves(w, r) BY <1>5 DEF Begin, Moves
  <2>2. GatewayGrows BY <1>5 DEF GatewayGrows
  <2>3. pc \in {"gwCancel", "gwUpdate"} =>
          g \in GwSubs /\ gateway'[g] # Unknown /\ gateway'[g].owner = s
    BY <1>5, <1>0 DEF IInv, ActiveIsBacked, Backs, TypeOK
  <2>4. r \in Request /\ r.pc = pc /\ r.gw = g /\ r.sub = s BY <1>5
  <2> HIDE DEF r
  <2> QED BY <1>3, <1>5, <2>1, <2>2, <2>3, <2>4
<1>6. ASSUME NEW w \in Workers, NEW s \in Subs, StartConvert(w, s) \/ StartCancel(w, s)
      PROVE  ActiveIsBacked' /\ Carried' /\ TotalWithinCounts' /\ SnapshotsSound'
  <2>1. CASE StartConvert(w, s)
    <3>1. [pc |-> "gwCreate", op |-> "convert", sub |-> s, gw |-> None, plan |-> plan[s]] \in Request
      BY <1>0 DEF Request, TypeOK
    <3> QED BY <1>5, <2>1, <3>1 DEF StartConvert, Carries
  <2>2. CASE StartCancel(w, s)
    <3> DEFINE pc == IF gatewayId[s] = None THEN "cancelRow" ELSE "gwCancel"
    <3>1. [pc |-> pc, op |-> "cancel", sub |-> s, gw |-> gatewayId[s], plan |-> None] \in Request
      BY <1>0 DEF Request, TypeOK
    <3>2. Begin(w, pc, "cancel", s, gatewayId[s], None) BY <2>2 DEF StartCancel
    <3>3. UNCHANGED <<gateway, books, renewed>> BY <2>2 DEF StartCancel
    <3>4. /\ pc \notin Carries /\ pc # "renew"
          /\ pc \in {"gwCancel", "gwUpdate"} => gatewayId[s] # None
      BY DEF Carries
    <3> HIDE DEF pc
    <3> QED BY <1>5, <3>1, <3>2, <3>3, <3>4
  <2> QED BY <1>6, <2>1, <2>2
<1>7. ASSUME NEW w \in Workers, NEW s \in Subs, NEW p \in Plans, StartCreate(w, s, p) \/ StartChange(w, s, p)
      PROVE  ActiveIsBacked' /\ Carried' /\ TotalWithinCounts' /\ SnapshotsSound'
  <2>1. CASE StartCreate(w, s, p)
    <3>1. [pc |-> "gwCreate", op |-> "create", sub |-> s, gw |-> None, plan |-> p] \in Request
      BY DEF Request
    <3> QED BY <1>5, <2>1, <3>1 DEF StartCreate, Carries
  <2>2. CASE StartChange(w, s, p)
    <3> DEFINE pc == IF gatewayId[s] = None THEN "changeRow" ELSE "gwUpdate"
    <3>1. [pc |-> pc, op |-> "change", sub |-> s, gw |-> gatewayId[s], plan |-> p] \in Request
      BY <1>0 DEF Request, TypeOK
    <3>2. Begin(w, pc, "change", s, gatewayId[s], p) BY <2>2 DEF StartChange
    <3>3. UNCHANGED <<gateway, books, renewed>> BY <2>2 DEF StartChange
    <3>4. /\ pc \notin Carries /\ pc # "renew"
          /\ pc \in {"gwCancel", "gwUpdate"} => gatewayId[s] # None
      BY DEF Carries
    <3> HIDE DEF pc
    <3> QED BY <1>5, <3>1, <3>2, <3>3, <3>4
  <2> QED BY <1>7, <2>1, <2>2
<1>8. ASSUME NEW w \in Workers, GatewayCreate(w)
      PROVE  ActiveIsBacked' /\ Carried' /\ TotalWithinCounts' /\ SnapshotsSound'
  <2>1. GatewayGrows
    BY <1>8, <1>0 DEF GatewayCreate, GatewayGrows, TypeOK
  <2>2. UNCHANGED <<books, renewed>> BY <1>8 DEF GatewayCreate
  <2>3. CASE ~Finish(w)
    <3>1. PICK g \in GwSubs, c \in CustomersOf(worker[w].op) :
             /\ gateway' = [gateway EXCEPT ![g] =
                   [status |-> "ACTIVE", owner |-> worker[w].sub, plan |-> worker[w].plan, customer |-> c]]
             /\ worker' = [worker EXCEPT ![w].pc = "store", ![w].gw = g]
      BY <1>8, <2>3 DEF GatewayCreate, Abandon
    <3> DEFINE r == [worker[w] EXCEPT !.pc = "store", !.gw = g]
    <3>2. worker[w] \in Request /\ worker[w].pc = "gwCreate"
      BY <1>8, <1>0 DEF GatewayCreate, At, TypeOK, Idle
    <3>3. r \in Request /\ r.pc = "store" /\ r.gw = g /\ r.sub = worker[w].sub
      BY <3>2 DEF Request
    <3>4. Moves(w, r) BY <3>1, <1>0 DEF Moves, TypeOK
    <3>5. gateway'[g] # Unknown /\ gateway'[g].owner = worker[w].sub
      BY <3>1, <1>0 DEF TypeOK, Unknown, None
    <3> HIDE DEF r
    <3> QED BY <1>3, <2>1, <2>2, <3>3, <3>4, <3>5
  <2> QED BY <1>4, <2>1, <2>2, <2>3
<1>9. ASSUME NEW w \in Workers, NEW pc, Goto(w, pc), [worker[w] EXCEPT !.pc = pc] \in Request,
             worker[w] \in Request, pc # "renew",
             pc \in Carries => worker[w].pc \in Carries,
             pc \notin {"gwCancel", "gwUpdate"}, GatewayGrows, UNCHANGED renewed
      PROVE  Carried' /\ SnapshotsSound'
  <2> DEFINE r == [worker[w] EXCEPT !.pc = pc]
  <2>1. Moves(w, r) BY <1>9, <1>0 DEF Goto, Moves, TypeOK
  <2>2. r.pc = pc BY <1>9 DEF Request
  <2>3. pc \in Carries => r.gw = worker[w].gw /\ r.sub = worker[w].sub
    BY <1>9 DEF Request, Carries
  <2>4. pc \in Carries => worker[w].gw \in GwSubs /\ gateway'[worker[w].gw] # Unknown
                           /\ gateway'[worker[w].gw].owner = worker[w].sub
    <3>1. SUFFICES ASSUME pc \in Carries
          PROVE worker[w].gw \in GwSubs /\ gateway'[worker[w].gw] # Unknown
                           /\ gateway'[worker[w].gw].owner = worker[w].sub
      OBVIOUS
    <3>2. worker[w].gw # None /\ Backs(worker[w].gw, worker[w].sub)
      BY <1>9, <3>1 DEF IInv, Carried
    <3>3. worker[w].gw \in GwSubs
      BY <1>9, <3>1, <3>2 DEF Request, Carries
    <3> QED BY <1>9, <3>2, <3>3 DEF Backs, GatewayGrows
  <2>5. r \in Request BY <1>9
  <2> HIDE DEF r
  <2>6. Carried' BY <1>9, <2>1, <2>2, <2>3, <2>4, <2>5, WorkerMoves
  <2>7. SnapshotsSound' BY <1>9, <1>0, <2>1, <2>2, <2>5, SnapshotsKept DEF TypeOK
  <2> QED BY <2>6, <2>7
<1>10. ASSUME NEW w \in Workers, StoreActive(w)
      PROVE  ActiveIsBacked' /\ Carried' /\ TotalWithinCounts' /\ SnapshotsSound'
  <2>1. worker[w] \in Request /\ worker[w].pc = "store" /\ worker[w].sub \in Subs
    BY <1>10, <1>0 DEF StoreActive, At, TypeOK, Idle, Request
  <2>2. GatewayGrows BY <1>10 DEF StoreActive, GatewayGrows
  <2>3. [worker[w] EXCEPT !.pc = "invoices"] \in Request BY <2>1 DEF Request
  <2>4. Carried' /\ SnapshotsSound'
    BY <1>9, <1>10, <2>1, <2>2, <2>3 DEF StoreActive, Carries
  <2>5. worker[w].gw # None /\ Backs(worker[w].gw, worker[w].sub)
    BY <2>1 DEF IInv, Carried, Carries
  <2>6. ActiveIsBacked'
    BY <1>10, <1>0, <2>1, <2>5 DEF StoreActive, IInv, ActiveIsBacked, Backs, TypeOK
  <2>7. TotalWithinCounts' BY <1>10 DEF StoreActive, IInv, TotalWithinCounts
  <2> QED BY <2>4, <2>6, <2>7
<1>11. ASSUME NEW w \in Workers, GetInvoices(w)
      PROVE  ActiveIsBacked' /\ Carried' /\ TotalWithinCounts' /\ SnapshotsSound'
  <2>1. worker[w] \in Request /\ worker[w].pc = "invoices"
    BY <1>11, <1>0 DEF GetInvoices, At, TypeOK, Idle
  <2>2. GatewayGrows BY <1>11 DEF GetInvoices, GatewayGrows
  <2>3. CASE Goto(w, "insertPayment")
    <3>1. [worker[w] EXCEPT !.pc = "insertPayment"] \in Request BY <2>1 DEF Request
    <3>2. Carried' /\ SnapshotsSound'
      BY <1>9, <1>11, <2>1, <2>2, <2>3, <3>1 DEF GetInvoices, Carries
    <3> QED BY <1>11, <2>2, <3>2, RowsStayBacked DEF GetInvoices, books, row, IInv, TotalWithinCounts
  <2> QED BY <1>4, <1>11, <2>2, <2>3 DEF GetInvoices
<1>12. ASSUME NEW w \in Workers, InsertPayment(w)
      PROVE  ActiveIsBacked' /\ Carried' /\ TotalWithinCounts' /\ SnapshotsSound'
  <2>1. worker[w] \in Request /\ worker[w].pc = "insertPayment"
    BY <1>12, <1>0 DEF InsertPayment, At, TypeOK, Idle
  <2>2. GatewayGrows BY <1>12 DEF InsertPayment, GatewayGrows
  <2>3. [worker[w] EXCEPT !.pc = "count"] \in Request BY <2>1 DEF Request
  <2>4. Carried' /\ SnapshotsSound'
    BY <1>9, <1>12, <2>1, <2>2, <2>3 DEF InsertPayment, Carries
  <2>5. Backs(worker[w].gw, worker[w].sub)
    BY <2>1 DEF IInv, Carried, Carries
  <2>6. ActiveIsBacked'
    BY <1>12, <2>5 DEF InsertPayment, IInv, ActiveIsBacked, Backs, row
  <2> QED BY <1>12, <2>4, <2>6 DEF InsertPayment, IInv, TotalWithinCounts
<1>13. ASSUME NEW w \in Workers, CountFirst(w)
      PROVE  ActiveIsBacked' /\ Carried' /\ TotalWithinCounts' /\ SnapshotsSound'
  <2>1. GatewayGrows BY <1>13 DEF CountFirst, GatewayGrows
  <2>2. Moves(w, Idle) BY <1>13 DEF CountFirst, Finish, Moves
  <2>3. Idle.pc \notin Carries \cup {"gwCancel", "gwUpdate", "renew"} BY DEF Idle, Carries
  <2>4. Carried' BY <2>1, <2>2, <2>3, WorkerMoves
  <2>5. SnapshotsSound' BY <1>13, <1>0, <2>2, <2>3, SnapshotsKept DEF CountFirst, TypeOK
  <2>6. ActiveIsBacked' BY <1>13, <2>1, RowsStayBacked DEF CountFirst, row
  <2>7. TotalWithinCounts' BY <1>13, <1>0 DEF CountFirst, IInv, TotalWithinCounts, TypeOK
  <2> QED BY <2>4, <2>5, <2>6, <2>7
<1>14. ASSUME NEW w \in Workers, GatewayCancel(w) \/ GatewayUpdate(w)
      PROVE  ActiveIsBacked' /\ Carried' /\ TotalWithinCounts' /\ SnapshotsSound'
  <2>1. /\ worker[w] \in Request /\ worker[w].pc \in {"gwCancel", "gwUpdate"}
        /\ worker[w].gw \in GwSubs /\ gateway[worker[w].gw] # Unknown
    BY <1>14, <1>0 DEF GatewayCancel, GatewayUpdate, At, TypeOK, Idle, IInv, Carried, Backs, Request
  <2>2. gateway[worker[w].gw] \in GatewaySub BY <2>1, <1>0 DEF TypeOK
  <2>3. GatewayGrows
    <3>1. CASE gateway' = gateway BY <3>1 DEF GatewayGrows
    <3>2. CASE gateway' = [gateway EXCEPT ![worker[w].gw].status = "CANCELLED"]
      BY <3>2, <1>0, <2>2 DEF GatewayGrows, TypeOK, GatewaySub, Unknown, None
    <3>3. CASE gateway' = [gateway EXCEPT ![worker[w].gw].plan = worker[w].plan]
      BY <3>3, <1>0, <2>2 DEF GatewayGrows, TypeOK, GatewaySub, Unknown, None
    <3> QED BY <1>14, <3>1, <3>2, <3>3 DEF GatewayCancel, GatewayUpdate
  <2>4. UNCHANGED <<books, renewed>> BY <1>14 DEF GatewayCancel, GatewayUpdate
  <2>5. ASSUME NEW pc \in {"cancelRow", "changeRow"}, Goto(w, pc)
        PROVE  ActiveIsBacked' /\ Carried' /\ TotalWithinCounts' /\ SnapshotsSound'
    <3>1. [worker[w] EXCEPT !.pc = pc] \in Request BY <2>1 DEF Request
    <3>2. Carried' /\ SnapshotsSound'
      BY <1>9, <2>1, <2>3, <2>4, <2>5, <3>1 DEF Carries
    <3> QED BY <2>3, <2>4, <3>2, RowsStayBacked DEF books, row, IInv, TotalWithinCounts
  <2>6. Finish(w) \/ Goto(w, "cancelRow") \/ Goto(w, "changeRow")
    BY <1>14 DEF GatewayCancel, GatewayUpdate, Abandon
  <2> QED BY <1>4, <2>3, <2>4, <2>5, <2>6
<1>15. ASSUME NEW w \in Workers, CancelRow(w) \/ ChangeRow(w) \/ WriteDeleted(w)
      PROVE  ActiveIsBacked' /\ Carried' /\ TotalWithinCounts' /\ SnapshotsSound'
  <2>1. GatewayGrows /\ UNCHANGED <<gateway, gatewayId, renewed, totalPayments, payments>>
    BY <1>15 DEF CancelRow, ChangeRow, WriteDeleted, GatewayGrows
  <2>2. Moves(w, Idle) BY <1>15 DEF CancelRow, ChangeRow, WriteDeleted, Finish, Moves
  <2>3. Idle.pc \notin Carries \cup {"gwCancel", "gwUpdate", "renew"} BY DEF Idle, Carries
  <2>4. Carried' BY <2>1, <2>2, <2>3, WorkerMoves
  <2>5. SnapshotsSound' BY <1>0, <2>1, <2>2, <2>3, SnapshotsKept DEF TypeOK
  <2>6. \A s \in Subs : status'[s] = "active" => status[s] = "active"
    BY <1>15, <1>0 DEF CancelRow, ChangeRow, WriteDeleted, TypeOK
  <2>7. ActiveIsBacked' BY <2>1, <2>6 DEF IInv, ActiveIsBacked, Backs
  <2> QED BY <2>1, <2>4, <2>5, <2>7 DEF IInv, TotalWithinCounts
<1>16. ASSUME NEW w \in Workers, NEW ss \in SUBSET Subs, SetsOut(ss), UNCHANGED <<gateway, books>>,
              worker' = [worker EXCEPT ![w] = [pc |-> "renew", due |-> Snapshot(ss)]]
      PROVE  ActiveIsBacked' /\ Carried' /\ TotalWithinCounts' /\ SnapshotsSound'
  <2> DEFINE r == [pc |-> "renew", due |-> Snapshot(ss)]
  <2>1. r \in Request BY <1>0 DEF Snapshot, Request, TypeOK
  <2>2. Moves(w, r) BY <1>16 DEF Moves
  <2>3. GatewayGrows BY <1>16 DEF GatewayGrows
  <2>4. /\ renewed' \in [Subs -> Nat]
        /\ \A s \in Subs : renewed[s] <= renewed'[s]
        /\ \A s \in ss : renewed'[s] = renewed[s] + 1
    BY <1>16, <1>0 DEF SetsOut, TypeOK
  <2>5. \A d \in r.due : d.total <= renewed'[d.sub]
    BY <2>4, <1>0 DEF Snapshot, IInv, TotalWithinCounts, TypeOK
  <2>6. r.pc = "renew" OBVIOUS
  <2> HIDE DEF r
  <2>7. Carried' BY <2>1, <2>2, <2>3, <2>6, WorkerMoves DEF Carries
  <2>8. SnapshotsSound' BY <2>1, <2>2, <2>4, <2>5, SnapshotsKept
  <2>9. ActiveIsBacked' BY <1>16, <2>3, RowsStayBacked DEF books, row
  <2>10. TotalWithinCounts'
    BY <1>16, <1>0, <2>4 DEF IInv, TotalWithinCounts, TypeOK, books
  <2> QED BY <2>7, <2>8, <2>9, <2>10
<1>17. ASSUME NEW w \in Workers, NEW d \in worker[w].due, RenewRow(w, d)
      PROVE  ActiveIsBacked' /\ Carried' /\ TotalWithinCounts' /\ SnapshotsSound'
  <2>1. worker[w] \in [pc : {"renew"}, due : SUBSET [sub : Subs, total : Nat]]
    BY <1>17, <1>0 DEF RenewRow, At, Request, Idle, TypeOK
  <2>2. d \in [sub : Subs, total : Nat] /\ d.total <= renewed[d.sub]
    BY <2>1 DEF IInv, SnapshotsSound
  <2>4. GatewayGrows /\ UNCHANGED gateway /\ UNCHANGED row /\ UNCHANGED renewed /\ UNCHANGED payments
    BY <1>17 DEF RenewRow, GatewayGrows, books, row
  <2>3. ASSUME NEW r \in Request \cup {Idle}, Moves(w, r), r.pc \in {"idle", "renew"},
               r.pc = "renew" => r.due \subseteq worker[w].due
        PROVE  Carried' /\ SnapshotsSound'
    <3>1. Carried' BY <2>3, <2>4, WorkerMoves DEF Carries
    <3>2. \A e \in worker[w].due : e.total <= renewed[e.sub]
      BY <2>1 DEF IInv, SnapshotsSound
    <3>3. r.pc = "renew" => \A e \in r.due : e.total <= renewed'[e.sub]
      BY <2>3, <2>4, <3>2
    <3>4. renewed' \in [Subs -> Nat] /\ \A s \in Subs : renewed[s] <= renewed'[s]
      BY <1>0, <2>4 DEF TypeOK
    <3>5. SnapshotsSound' BY <2>3, <3>3, <3>4, SnapshotsKept
    <3> QED BY <3>1, <3>5
  <2>5. Carried' /\ SnapshotsSound'
    <3>1. CASE worker[w].due = {d}
      <4>1. Moves(w, Idle) BY <1>17, <3>1 DEF RenewRow, Finish, Moves
      <4>2. Idle \in Request \cup {Idle} /\ Idle.pc = "idle" BY DEF Idle
      <4> QED BY <4>1, <4>2, <2>3
    <3>2. CASE worker[w].due # {d}
      <4> DEFINE q == [worker[w] EXCEPT !.due = worker[w].due \ {d}]
      <4>1. Moves(w, q) BY <1>17, <3>2 DEF RenewRow, Moves
      <4>2. q \in Request /\ q.pc = "renew" /\ q.due \subseteq worker[w].due
        BY <2>1 DEF Request
      <4> HIDE DEF q
      <4> QED BY <4>1, <4>2, <2>3
    <3> QED BY <3>1, <3>2
  <2>8. ActiveIsBacked' BY <2>4, RowsStayBacked DEF row
  <2>9. TotalWithinCounts'
    BY <1>17, <1>0, <2>2, <2>4 DEF RenewRow, IInv, TotalWithinCounts, TypeOK
  <2> QED BY <2>5, <2>8, <2>9
<1>18. ASSUME NEW w \in Workers, NEW e \in events, ReceiveEvent(w, e)
      PROVE  ActiveIsBacked' /\ Carried' /\ TotalWithinCounts' /\ SnapshotsSound'
  <2>1. GatewayGrows /\ UNCHANGED <<gateway, books>> BY <1>18 DEF ReceiveEvent, GatewayGrows
  <2>2. CASE UNCHANGED <<worker, renewed>>
    BY <2>1, <2>2, OthersCarry, RowsStayBacked DEF books, row, IInv, TotalWithinCounts, SnapshotsSound
  <2>3. ASSUME NEW s \in Subs, SetsOut({s}),
               worker' = [worker EXCEPT ![w] = [pc |-> "renew", due |-> Snapshot({s})]]
        PROVE  ActiveIsBacked' /\ Carried' /\ TotalWithinCounts' /\ SnapshotsSound'
    BY <1>16, <2>1, <2>3
  <2>4. ASSUME NEW s \in Subs, UNCHANGED renewed,
               worker' = [worker EXCEPT ![w] = [pc |-> "event", sub |-> s, gw |-> e.gw]]
        PROVE  ActiveIsBacked' /\ Carried' /\ TotalWithinCounts' /\ SnapshotsSound'
    <3> DEFINE r == [pc |-> "event", sub |-> s, gw |-> e.gw]
    <3>1. r \in Request /\ r.pc = "event" BY <1>0 DEF Request, TypeOK, Event
    <3>2. Moves(w, r) BY <2>4 DEF Moves
    <3> HIDE DEF r
    <3> QED BY <1>3, <2>1, <2>4, <3>1, <3>2 DEF Carries
  <2> QED BY <1>18, <2>2, <2>3, <2>4 DEF ReceiveEvent, Finds
<1>19. ASSUME NEW w \in Workers, Die(w)
      PROVE  ActiveIsBacked' /\ Carried' /\ TotalWithinCounts' /\ SnapshotsSound'
  BY <1>4, <1>19 DEF Die, GatewayGrows
<1>20. ASSUME UNCHANGED vars
      PROVE  ActiveIsBacked' /\ Carried' /\ TotalWithinCounts' /\ SnapshotsSound'
  <2>1. GatewayGrows BY <1>20 DEF vars, GatewayGrows
  <2> QED BY <1>20, <2>1, OthersCarry, RowsStayBacked DEF vars, books, row, IInv, TotalWithinCounts, SnapshotsSound
<1>21. ASSUME NEW w \in Workers, NEW due \in SUBSET Subs, StartRenewals(w, due)
      PROVE  ActiveIsBacked' /\ Carried' /\ TotalWithinCounts' /\ SnapshotsSound'
  BY <1>16, <1>21 DEF StartRenewals
<1> QED
  BY <1>0, <1>1, <1>2, <1>6, <1>7, <1>8, <1>10, <1>11, <1>12, <1>13, <1>14, <1>15, <1>17,
     <1>18, <1>19, <1>20, <1>21 DEF Next, IInv

THEOREM IInvariant == Spec => []IInv
<1> QED BY InitIInv, StepIInv, PTL DEF Spec

\* The columns and the requests always have their types.
THEOREM SubscriptionTypeCorrect == Spec => []TypeOK
<1>1. IInv => TypeOK BY DEF IInv
<1> QED BY <1>1, IInvariant, PTL

\* However requests interleave and fail, an active row and a payment belong to
\* a subscription the gateway made for that row.
THEOREM ActiveAlwaysBacked == Spec => []ActiveIsBacked
<1>1. IInv => ActiveIsBacked BY DEF IInv
<1> QED BY <1>1, IInvariant, PTL

\* However counts of renewals overlap with each other and with conversions, a
\* total is at most the first payment and one for each count that was begun.
THEOREM TotalsStayWithin == Spec => []TotalWithinCounts
<1>1. IInv => TotalWithinCounts BY DEF IInv
<1> QED BY <1>1, IInvariant, PTL

-----------------------------------------------------------------------------
(***************************************************************************)
(* UndisturbedAgreement.  While one request works on a row, the row and    *)
(* the gateway differ in a way that depends on how far the request is      *)
(* (Stage); no second request works on an undisturbed row, and a row has   *)
(* no subscription before it is active.  An event of a deletion is about a *)
(* subscription that has ended (DeletionsTrue).                            *)
(***************************************************************************)
NoneActive(s) == \A g \in GwSubs : Backs(g, s) => gateway[g].status # "ACTIVE"
OnlyActive(s, g) == \A h \in GwSubs : Backs(h, s) /\ gateway[h].status = "ACTIVE" => h = g
Billed(g) == gateway[g].status = "ACTIVE" \/ DeletionUnderWay(g)

\* The gateway bills exactly the active row, and under the plan p.
Agrees(s, p) ==
    /\ \A g \in GwSubs : Backs(g, s) /\ gateway[g].status = "ACTIVE" =>
          status[s] = "active" /\ gatewayId[s] = g
    /\ status[s] = "active" =>
          gateway[gatewayId[s]].plan = p /\ Billed(gatewayId[s])

Stage(r, s) ==
    /\ r.pc \in {"gwCreate", "store"} =>
          gatewayId[s] = None /\ (r.op = "convert" => r.plan = plan[s])
    /\ r.pc = "gwCreate" => NoneActive(s)
    /\ r.pc = "store" => OnlyActive(s, r.gw) /\ gateway[r.gw].plan = r.plan /\ Billed(r.gw)
    /\ r.pc \in {"invoices", "insertPayment", "count", "gwCancel", "gwUpdate"} => Agrees(s, plan[s])
    /\ r.pc \in {"gwCancel", "gwUpdate"} => r.gw = gatewayId[s]
    /\ r.pc = "cancelRow" => NoneActive(s)
    /\ r.pc = "changeRow" => Agrees(s, r.plan)

Orderly(s) ==
    /\ \A v, w \in Workers : Works(v, s) /\ Works(w, s) => v = w
    /\ status[s] \in {None, "trial"} => gatewayId[s] = None
    /\ Free(s) => Agrees(s, plan[s])
    /\ \A w \in Workers : Works(w, s) => Stage(worker[w], s)

DeletionsTrue ==
    /\ \A e \in events : e.name = "DELETED" => gateway[e.gw].status = "CANCELLED"
    /\ \A w \in Workers : worker[w].pc = "event" =>
          /\ Backs(worker[w].gw, worker[w].sub)
          /\ gateway[worker[w].gw].status = "CANCELLED"
          /\ worker[w].sub \notin disturbed => gatewayId[worker[w].sub] = worker[w].gw

AgreeInv == IInv /\ DeletionsTrue /\ \A s \in Subs \ disturbed : Orderly(s)

LEMMA InitAgree == Init => AgreeInv
<1> SUFFICES ASSUME Init PROVE AgreeInv
  OBVIOUS
<1>1. IInv BY InitIInv
<1>2. DeletionsTrue BY DEF Init, DeletionsTrue, Idle
<1>3. ASSUME NEW s \in Subs PROVE Orderly(s)
  <2>1. \A w \in Workers : ~Works(w, s) BY DEF Init, Works, Idle
  <2>2. \A g \in GwSubs : ~Backs(g, s) BY DEF Init, Backs
  <2> QED BY <2>1, <2>2 DEF Init, Orderly, Agrees, None
<1> QED BY <1>1, <1>2, <1>3 DEF AgreeInv

\* The subscriptions of row s at the gateway stay as they are, or end with their
\* deletion reported.
GatewayKeeps(s) ==
    /\ \A g \in GwSubs : Backs(g, s)' <=> Backs(g, s)
    /\ \A g \in GwSubs : Backs(g, s) =>
          /\ gateway'[g].plan = gateway[g].plan
          /\ \/ gateway'[g].status = gateway[g].status
             \/ gateway'[g].status = "CANCELLED" /\ DeletionUnderWay(g)'
          /\ DeletionUnderWay(g) => DeletionUnderWay(g)'

RowKeeps(s) == status'[s] = status[s] /\ plan'[s] = plan[s] /\ gatewayId'[s] = gatewayId[s]

LEMMA AgreesKeeps ==
    ASSUME AgreeInv, NEW s \in Subs, GatewayKeeps(s), NEW p,
           status'[s] = status[s], gatewayId'[s] = gatewayId[s]
    PROVE  /\ Agrees(s, p) => Agrees(s, p)'
           /\ NoneActive(s) => NoneActive(s)'
           /\ \A g : OnlyActive(s, g) => OnlyActive(s, g)'
           /\ \A g \in GwSubs : Backs(g, s) /\ Billed(g) => Billed(g)'
<1>1. NoneActive(s) => NoneActive(s)' BY DEF GatewayKeeps, NoneActive
<1>2. \A g : OnlyActive(s, g) => OnlyActive(s, g)' BY DEF GatewayKeeps, OnlyActive
<1>3. \A g \in GwSubs : Backs(g, s) /\ Billed(g) => Billed(g)' BY DEF GatewayKeeps, Billed
<1>4. ASSUME Agrees(s, p) PROVE Agrees(s, p)'
  <2>1. status[s] = "active" => gatewayId[s] \in GwSubs /\ Backs(gatewayId[s], s)
    BY DEF AgreeInv, IInv, ActiveIsBacked, TypeOK
  <2>2. status[s] = "active" => gateway'[gatewayId[s]].plan = p /\ Billed(gatewayId[s])'
    BY <1>3, <1>4, <2>1 DEF Agrees, GatewayKeeps
  <2>3. \A g \in GwSubs : Backs(g, s)' /\ gateway'[g].status = "ACTIVE" =>
            status[s] = "active" /\ gatewayId[s] = g
    BY <1>4 DEF Agrees, GatewayKeeps
  <2> QED BY <2>2, <2>3 DEF Agrees
<1> QED BY <1>1, <1>2, <1>3, <1>4

LEMMA StageKeeps ==
    ASSUME AgreeInv, NEW s \in Subs, GatewayKeeps(s), RowKeeps(s),
           NEW w \in Workers, Works(w, s), Stage(worker[w], s), worker'[w] = worker[w]
    PROVE  Stage(worker[w], s)'
<1> DEFINE r == worker[w]
<1>1. worker[w].pc = "store" => worker[w].gw \in GwSubs /\ Backs(worker[w].gw, s)
  BY DEF AgreeInv, IInv, Carried, Carries, TypeOK, Request, Idle, Works
<1>2. \A p : Agrees(s, p) => Agrees(s, p)' BY AgreesKeeps DEF RowKeeps
<1>3. NoneActive(s) => NoneActive(s)' BY AgreesKeeps DEF RowKeeps
<1>4. worker[w].pc = "store" =>
        (OnlyActive(s, worker[w].gw) /\ gateway[worker[w].gw].plan = worker[w].plan /\ Billed(worker[w].gw))'
  <2>1. ASSUME worker[w].pc = "store"
        PROVE  OnlyActive(s, worker[w].gw) /\ gateway[worker[w].gw].plan = worker[w].plan /\ Billed(worker[w].gw)
    BY <2>1 DEF Stage
  <2>2. OnlyActive(s, worker[w].gw) => OnlyActive(s, worker[w].gw)'
    BY DEF OnlyActive, GatewayKeeps
  <2>3. ASSUME worker[w].pc = "store" PROVE Billed(worker[w].gw)'
    BY <1>1, <2>1, <2>3 DEF Billed, GatewayKeeps, DeletionUnderWay
  <2> QED BY <1>1, <2>1, <2>2, <2>3 DEF GatewayKeeps
<1> QED BY <1>2, <1>3, <1>4 DEF Stage, RowKeeps

\* A step that leaves a row, its requests and its subscriptions alone.
LEMMA RowUntouched ==
    ASSUME AgreeInv, NEW s \in Subs \ disturbed, GatewayKeeps(s), RowKeeps(s),
           \A w \in Workers : Works(w, s)' <=> Works(w, s),
           \A w \in Workers : Works(w, s) => worker'[w] = worker[w]
    PROVE  Orderly(s)'
<1>1. Orderly(s) BY DEF AgreeInv
<1>2. (\A v, w \in Workers : Works(v, s) /\ Works(w, s) => v = w)' BY <1>1 DEF Orderly
<1>3. (status[s] \in {None, "trial"} => gatewayId[s] = None)' BY <1>1 DEF Orderly, RowKeeps
<1>4. (Free(s) => Agrees(s, plan[s]))'
  <2>1. Free(s)' => Free(s) BY DEF Free
  <2>2. Agrees(s, plan[s]) => Agrees(s, plan[s])' BY AgreesKeeps DEF RowKeeps, Agrees
  <2> QED BY <1>1, <2>1, <2>2 DEF Orderly
<1>5. (\A w \in Workers : Works(w, s) => Stage(worker[w], s))'
  BY <1>1, StageKeeps DEF Orderly, Stage
<1> QED BY <1>2, <1>3, <1>4, <1>5 DEF Orderly

\* A step of the only request there is for a row, which goes on as r.
LEMMA RowAlone ==
    ASSUME AgreeInv, NEW s \in Subs, NEW w \in Workers, NEW r \in Request \cup {Idle}, Moves(w, r),
           \A v \in Workers \ {w} : ~Works(v, s),
           status'[s] \in {None, "trial"} => gatewayId'[s] = None,
           r.pc \in {"idle", "renew", "event"} \/ r.sub # s => Agrees(s, plan[s])',
           r.pc \notin {"idle", "renew", "event"} => Stage(worker[w], s)'
    PROVE  Orderly(s)'
<1>1. worker'[w] = r /\ \A v \in Workers \ {w} : worker'[v] = worker[v]
  BY DEF AgreeInv, IInv, TypeOK, Moves
<1>2. \A v \in Workers : Works(v, s)' => v = w BY <1>1 DEF Works
<1>3. Works(w, s)' <=> r.pc \notin {"idle", "renew", "event"} /\ r.sub = s BY <1>1 DEF Works
<1>4. Free(s)' => Agrees(s, plan[s])' BY <1>3 DEF Free
<1> QED BY <1>2, <1>3, <1>4 DEF Orderly

-----------------------------------------------------------------------------
(* The steps of requests, seen from the row they work on and from others *)

LEMMA Own ==
    ASSUME AgreeInv, NEW w \in Workers, NEW s \in Subs \ disturbed, Works(w, s)
    PROVE  /\ Stage(worker[w], s)
           /\ \A v \in Workers \ {w} : ~Works(v, s)
           /\ status[s] \in {None, "trial"} => gatewayId[s] = None
BY DEF AgreeInv, Orderly

\* A request that does not answer a deletion drops none.
LEMMA DeletionsStay ==
    ASSUME AgreeInv, NEW w \in Workers, NEW r, Moves(w, r), NEW g \in GwSubs,
           worker[w].pc = "event" => worker[w].gw # g,
           missed \subseteq missed', events \subseteq events',
           DeletionUnderWay(g)
    PROVE  DeletionUnderWay(g)'
<1>1. \A v \in Workers : At(v, "event") /\ worker[v].gw = g => worker'[v] = worker[v]
  BY DEF AgreeInv, IInv, TypeOK, Moves, At
<1> QED BY <1>1 DEF DeletionUnderWay, At

LEMMA GatewayStays ==
    ASSUME AgreeInv, NEW w \in Workers, NEW r, Moves(w, r), NEW s \in Subs,
           worker[w].pc = "event" => ~Backs(worker[w].gw, s),
           missed \subseteq missed', events \subseteq events',
           \A g \in GwSubs : Backs(g, s)' <=> Backs(g, s),
           \A g \in GwSubs : Backs(g, s) => gateway'[g] = gateway[g]
    PROVE  GatewayKeeps(s)
BY DeletionsStay DEF GatewayKeeps

\* A row another request works on, or none.
LEMMA Elsewhere ==
    ASSUME AgreeInv, NEW w \in Workers, NEW r \in Request \cup {Idle}, Moves(w, r),
           NEW s \in Subs \ disturbed, ~Works(w, s), RowKeeps(s),
           r.pc \in {"idle", "renew", "event"} \/ r.sub # s,
           worker[w].pc = "event" => ~Backs(worker[w].gw, s),
           missed \subseteq missed', events \subseteq events',
           \A g \in GwSubs : Backs(g, s)' <=> Backs(g, s),
           \A g \in GwSubs : Backs(g, s) => gateway'[g] = gateway[g]
    PROVE  Orderly(s)'
<1>1. GatewayKeeps(s) BY GatewayStays
<1>2. worker'[w] = r /\ \A v \in Workers \ {w} : worker'[v] = worker[v]
  BY DEF AgreeInv, IInv, TypeOK, Moves
<1>3. \A v \in Workers : Works(v, s)' <=> Works(v, s) BY <1>2 DEF Works
<1>4. \A v \in Workers : Works(v, s) => worker'[v] = worker[v] BY <1>2
<1> QED BY <1>1, <1>3, <1>4, RowUntouched

\* The same for a step that moves one request and touches at most its own row.
LEMMA OtherRows ==
    ASSUME AgreeInv, NEW w \in Workers, NEW r \in Request \cup {Idle}, Moves(w, r),
           worker[w].pc \notin {"idle", "renew"},
           r.pc \in {"idle", "renew", "event"} \/ r.sub = worker[w].sub,
           missed \subseteq missed', events \subseteq events', disturbed \subseteq disturbed',
           \A s \in Subs \ {worker[w].sub} : RowKeeps(s),
           \A g \in GwSubs : gateway'[g] # gateway[g] =>
              \/ Backs(g, worker[w].sub) /\ gateway'[g] # Unknown /\ gateway'[g].owner = worker[w].sub
              \/ gateway[g] = Unknown /\ gateway'[g].owner = worker[w].sub,
           NEW s \in Subs \ disturbed', s # worker[w].sub
    PROVE  Orderly(s)'
<1>1. ~Works(w, s) BY DEF Works
<1>2. worker[w].pc = "event" => ~Backs(worker[w].gw, s)
  BY DEF AgreeInv, DeletionsTrue, Backs
<1>3. /\ \A g \in GwSubs : Backs(g, s)' <=> Backs(g, s)
      /\ \A g \in GwSubs : Backs(g, s) => gateway'[g] = gateway[g]
  BY DEF Backs
<1> QED BY <1>1, <1>2, <1>3, Elsewhere

\* A new request for row s, which nobody works on when it stays undisturbed.
LEMMA Begins ==
    ASSUME AgreeInv, NEW w \in Workers, NEW pc, NEW op, NEW s \in Subs, NEW g, NEW p,
           Begin(w, pc, op, s, g, p),
           [pc |-> pc, op |-> op, sub |-> s, gw |-> g, plan |-> p] \in Request,
           pc \notin {"idle", "renew", "event", "store"},
           UNCHANGED <<gateway, events, books, missed>>,
           s \notin disturbed /\ Free(s) => Stage([pc |-> pc, op |-> op, sub |-> s, gw |-> g, plan |-> p], s)
    PROVE  \A t \in Subs \ disturbed' : Orderly(t)'
<1> DEFINE r == [pc |-> pc, op |-> op, sub |-> s, gw |-> g, plan |-> p]
<1>1. Moves(w, r) /\ worker[w].pc = "idle" BY DEF Begin, Moves, At
<1>2. r \in Request /\ r.pc = pc /\ r.sub = s OBVIOUS
<1>3. worker'[w] = r BY <1>1 DEF Moves, AgreeInv, IInv, TypeOK
<1>4. disturbed \subseteq disturbed' /\ (s \notin disturbed' => Free(s)) BY DEF Begin, Disturb
<1>s. s \notin disturbed /\ Free(s) => Stage(r, s) OBVIOUS
<1> HIDE DEF r
<1>5. \A t \in Subs : RowKeeps(t) BY DEF RowKeeps, books, row
<1>6. \A t \in Subs : GatewayKeeps(t)
  BY <1>1, GatewayStays DEF Backs
<1>7. ASSUME NEW t \in Subs \ disturbed', t # s PROVE Orderly(t)'
  <2>1. ~Works(w, t) BY <1>1 DEF Works
  <2> QED BY <1>1, <1>2, <1>4, <1>5, <1>7, <2>1, Elsewhere DEF Backs
<1>8. ASSUME s \notin disturbed' PROVE Orderly(s)'
  <2>1. Free(s) /\ s \notin disturbed /\ Orderly(s) BY <1>4, <1>8 DEF AgreeInv
  <2>2. \A v \in Workers : ~Works(v, s) BY <2>1 DEF Free
  <2>3. Stage(r, s) BY <1>s, <2>1
  <2>4. r.pc # "store" => Stage(worker[w], s)'
    <3>1. \A q : Agrees(s, q) => Agrees(s, q)' BY <1>5, <1>6, AgreesKeeps DEF RowKeeps
    <3>2. NoneActive(s) => NoneActive(s)' BY <1>5, <1>6, AgreesKeeps DEF RowKeeps
    <3> QED BY <1>3, <1>5, <2>3, <3>1, <3>2 DEF Stage, RowKeeps
  <2>5. r.pc # "store"
    BY <1>2
  <2> QED BY <1>1, <1>2, <1>5, <2>1, <2>2, <2>4, <2>5, RowAlone DEF Orderly, RowKeeps
<1> QED BY <1>7, <1>8

-----------------------------------------------------------------------------
(* Each action keeps the undisturbed rows orderly *)

AllOrderly == \A s \in Subs \ disturbed : Orderly(s)

LEMMA GatewayActsOrderly ==
    ASSUME AgreeInv, NEW g \in GwSubs, GatewayDeletes(g) \/ GatewayRenews(g)
    PROVE  AllOrderly'
<1>1. UNCHANGED <<books, worker, disturbed, missed>> BY DEF GatewayDeletes, GatewayRenews
<1>2. events \subseteq events' BY DEF GatewayDeletes, GatewayRenews, Emit
<1>3. \A h \in GwSubs : DeletionUnderWay(h) => DeletionUnderWay(h)'
  BY <1>1, <1>2 DEF DeletionUnderWay, At
<1>4. ASSUME NEW s \in Subs PROVE GatewayKeeps(s)
  <2>1. CASE GatewayRenews(g) BY <1>3, <2>1 DEF GatewayRenews, GatewayKeeps, Backs
  <2>2. CASE GatewayDeletes(g)
    <3>1. gateway[g] \in GatewaySub
      BY <2>2 DEF GatewayDeletes, AgreeInv, IInv, TypeOK, Unknown, None
    <3>2. /\ gateway'[g] = [gateway[g] EXCEPT !.status = "CANCELLED"]
          /\ \A h \in GwSubs \ {g} : gateway'[h] = gateway[h]
      BY <2>2 DEF GatewayDeletes, AgreeInv, IInv, TypeOK
    <3>3. /\ gateway'[g].owner = gateway[g].owner /\ gateway'[g].plan = gateway[g].plan
          /\ gateway'[g].status = "CANCELLED"
      BY <3>1, <3>2 DEF GatewaySub
    <3>4. gateway'[g] # Unknown /\ gateway[g] # Unknown
      BY <3>1, <3>3 DEF GatewaySub, Unknown, None
    <3>5. DeletionUnderWay(g)' BY <2>2 DEF GatewayDeletes, Emit, DeletionUnderWay
    <3> QED BY <1>3, <3>2, <3>3, <3>4, <3>5 DEF GatewayKeeps, Backs
  <2> QED BY <2>1, <2>2
<1> QED BY <1>1, <1>4, RowUntouched DEF AllOrderly, RowKeeps, books, row, Works

LEMMA TrialsOrderly ==
    ASSUME AgreeInv, NEW s \in Subs, EndTrial(s) \/ \E p \in Plans : CreateTrial(s, p)
    PROVE  AllOrderly'
<1>1. UNCHANGED <<gateway, events, gatewayId, worker, disturbed, missed>> BY DEF EndTrial, CreateTrial
<1>2. \A t \in Subs : GatewayKeeps(t) BY <1>1 DEF GatewayKeeps, Backs, DeletionUnderWay, At
<1>3. \A t \in Subs : RowKeeps(t) => t \in disturbed \/ Orderly(t)'
  BY <1>1, <1>2, RowUntouched DEF Works
<1>4. CASE EndTrial(s)
  <2>1. \A t \in Subs : RowKeeps(t)
    BY <1>4 DEF EndTrial, RowKeeps, SubscriptionStatus, AgreeInv, IInv, TypeOK
  <2> QED BY <1>1, <1>3, <2>1 DEF AllOrderly
<1>5. ASSUME NEW p \in Plans, CreateTrial(s, p) PROVE AllOrderly'
  <2>1. \A t \in Subs \ {s} : RowKeeps(t) BY <1>5 DEF CreateTrial, RowKeeps, AgreeInv, IInv, TypeOK
  <2>2. ASSUME s \notin disturbed PROVE Orderly(s)'
    <3>1. /\ Orderly(s) /\ Free(s) /\ status[s] = None
          /\ status'[s] = "trial" /\ gatewayId'[s] = gatewayId[s]
      BY <1>5, <2>2 DEF CreateTrial, AgreeInv, IInv, TypeOK
    <3>2. \A w \in Workers : ~Works(w, s)' BY <1>1, <3>1 DEF Free, Works
    <3>3. \A g \in GwSubs : ~(Backs(g, s) /\ gateway[g].status = "ACTIVE")
      BY <3>1 DEF Orderly, Agrees, None
    <3>4. Agrees(s, plan[s])' BY <1>1, <3>1, <3>3 DEF Agrees, Backs
    <3> QED BY <3>1, <3>2, <3>4 DEF Orderly
  <2> QED BY <1>1, <1>3, <2>1, <2>2 DEF AllOrderly
<1> QED BY <1>4, <1>5

LEMMA StartsOrderly ==
    ASSUME AgreeInv, NEW w \in Workers, NEW s \in Subs,
           \/ StartConvert(w, s) \/ StartCancel(w, s)
           \/ \E p \in Plans : StartCreate(w, s, p) \/ StartChange(w, s, p)
    PROVE  AllOrderly'
<1>0. TypeOK /\ (s \notin disturbed => Orderly(s)) BY DEF AgreeInv, IInv
<1>1. ASSUME s \notin disturbed, Free(s), status[s] # "active" PROVE NoneActive(s)
  BY <1>0, <1>1 DEF Orderly, Agrees, NoneActive
<1>2. CASE StartConvert(w, s)
  <2> DEFINE r == [pc |-> "gwCreate", op |-> "convert", sub |-> s, gw |-> None, plan |-> plan[s]]
  <2>1. r \in Request BY <1>0 DEF Request, TypeOK
  <2>2. s \notin disturbed /\ Free(s) => Stage(r, s)
    BY <1>0, <1>1, <1>2 DEF StartConvert, Stage, Orderly
  <2> QED BY <1>2, <2>1, <2>2, Begins DEF StartConvert, AllOrderly
<1>3. CASE StartCancel(w, s)
  <2> DEFINE pc == IF gatewayId[s] = None THEN "cancelRow" ELSE "gwCancel"
             r == [pc |-> pc, op |-> "cancel", sub |-> s, gw |-> gatewayId[s], plan |-> None]
  <2>1. r \in Request BY <1>0 DEF Request, TypeOK
  <2>2. s \notin disturbed /\ Free(s) => Stage(r, s)
    BY <1>0, SubscriptionAssumption DEF Stage, Orderly, Agrees, NoneActive
  <2>3. Begin(w, pc, "cancel", s, gatewayId[s], None) /\ UNCHANGED <<gateway, events, books, missed>>
    BY <1>3 DEF StartCancel
  <2>4. pc \notin {"idle", "renew", "event", "store"} OBVIOUS
  <2> HIDE DEF pc
  <2> QED BY <2>1, <2>2, <2>3, <2>4, Begins DEF AllOrderly
<1>4. ASSUME NEW p \in Plans, StartCreate(w, s, p) PROVE AllOrderly'
  <2> DEFINE r == [pc |-> "gwCreate", op |-> "create", sub |-> s, gw |-> None, plan |-> p]
  <2>1. r \in Request BY DEF Request
  <2>2. s \notin disturbed /\ Free(s) => Stage(r, s)
    BY <1>0, <1>1, <1>4 DEF StartCreate, Stage, Orderly, None
  <2> QED BY <1>4, <2>1, <2>2, Begins DEF StartCreate, AllOrderly
<1>5. ASSUME NEW p \in Plans, StartChange(w, s, p) PROVE AllOrderly'
  <2> DEFINE r == [pc |-> "gwUpdate", op |-> "change", sub |-> s, gw |-> gatewayId[s], plan |-> p]
  <2>1. r \in Request BY <1>0 DEF Request, TypeOK
  <2>2. s \notin disturbed /\ Free(s) => Stage(r, s)
    BY <1>0 DEF Stage, Orderly
  <2>3. gatewayId[s] # None BY <1>5 DEF StartChange, AgreeInv, IInv, ActiveIsBacked
  <2>4. Begin(w, "gwUpdate", "change", s, gatewayId[s], p) /\ UNCHANGED <<gateway, events, books, missed>>
    BY <1>5, <2>3 DEF StartChange
  <2> QED BY <2>1, <2>2, <2>4, Begins DEF AllOrderly
<1> QED BY <1>2, <1>3, <1>4, <1>5

\* What the rows have in common when a request works on one of them.
LEMMA Working ==
    ASSUME AgreeInv, NEW w \in Workers, worker[w].pc \notin {"idle", "renew", "event"}
    PROVE  /\ worker[w] \in Request /\ worker[w].sub \in Subs /\ Works(w, worker[w].sub)
           /\ worker[w].pc \in Carries \cup {"gwCancel", "gwUpdate"} =>
                 worker[w].gw \in GwSubs /\ Backs(worker[w].gw, worker[w].sub)
           /\ worker[w].pc \in Carries \cup {"gwCreate"} => worker[w].op \in {"create", "convert"}
<1>1. worker[w] \in Request /\ worker[w].sub \in Subs
  BY DEF AgreeInv, IInv, TypeOK, Request, Idle
<1>2. worker[w].pc \in Carries \cup {"gwCancel", "gwUpdate"} =>
         worker[w].gw \in GwSubs /\ Backs(worker[w].gw, worker[w].sub)
  <2>1. worker[w].pc \in Carries \cup {"gwCancel", "gwUpdate"} =>
           worker[w].gw # None /\ Backs(worker[w].gw, worker[w].sub)
    BY DEF AgreeInv, IInv, Carried
  <2>2. worker[w].pc \in Carries \cup {"gwCancel", "gwUpdate"} => worker[w].gw \in GwSubs \cup {None}
    BY <1>1 DEF Request, Carries
  <2> QED BY <2>1, <2>2
<1>3. worker[w].pc \in Carries \cup {"gwCreate"} => worker[w].op \in {"create", "convert"}
  BY <1>1 DEF Request, Carries
<1> QED BY <1>1, <1>2, <1>3 DEF Works

\* Going on to another await changes nothing else of a request.
LEMMA GoesOn ==
    ASSUME AgreeInv, NEW w \in Workers, worker[w] \in Request, NEW pc, Goto(w, pc),
           worker[w].pc \notin {"idle", "renew", "event"},
           \/ /\ pc \in {"invoices", "insertPayment", "count"}
              /\ worker[w].pc \in {"store", "invoices", "insertPayment"}
           \/ /\ pc \in {"cancelRow", "changeRow"}
              /\ worker[w].pc \in {"gwCancel", "gwUpdate"}
    PROVE  \E r \in Request : /\ Moves(w, r) /\ worker'[w] = r
                              /\ r.pc = pc /\ r.sub = worker[w].sub /\ r.gw = worker[w].gw
                              /\ r.plan = worker[w].plan /\ r.op = worker[w].op
<1> DEFINE r == [worker[w] EXCEPT !.pc = pc]
<1>1. r \in Request /\ r.pc = pc /\ r.sub = worker[w].sub /\ r.gw = worker[w].gw
      /\ r.plan = worker[w].plan /\ r.op = worker[w].op
  BY DEF Request
<1>2. Moves(w, r) /\ worker'[w] = r BY DEF Goto, Moves, AgreeInv, IInv, TypeOK
<1> QED BY <1>1, <1>2

LEMMA Finishes ==
    ASSUME AgreeInv, NEW w \in Workers, Finish(w)
    PROVE  Moves(w, Idle) /\ Idle.pc = "idle" /\ worker'[w] = Idle
BY DEF Finish, Moves, Idle, AgreeInv, IInv, TypeOK

\* A request goes on or finishes without touching its row and the gateway.
LEMMA PassesOrderly ==
    ASSUME AgreeInv, NEW w \in Workers, worker[w].pc \notin {"idle", "renew", "event"},
           NEW r \in Request \cup {Idle}, Moves(w, r),
           r.pc = "idle" \/ r.sub = worker[w].sub,
           UNCHANGED <<gateway, missed, row>>, events \subseteq events',
           disturbed \subseteq disturbed',
           worker[w].sub \notin disturbed' =>
               \/ r.pc \in {"idle", "invoices", "insertPayment", "count"} /\ Agrees(worker[w].sub, plan[worker[w].sub])
               \/ r.pc = "cancelRow" /\ NoneActive(worker[w].sub)
    PROVE  AllOrderly'
<1>0. PICK s \in Subs : s = worker[w].sub BY Working
<1> USE <1>0
<1>1. Works(w, s) BY Working
<1>2. \A t \in Subs : RowKeeps(t) BY DEF RowKeeps, row
<1>3. GatewayKeeps(s) BY <1>1, GatewayStays DEF Backs
<1>4. ASSUME s \notin disturbed' PROVE Orderly(s)'
  <2>1. /\ \A v \in Workers \ {w} : ~Works(v, s)
        /\ status[s] \in {None, "trial"} => gatewayId[s] = None
    BY <1>1, <1>4, Own
  <2>2. worker'[w] = r BY DEF Moves, AgreeInv, IInv, TypeOK
  <2>3. Agrees(s, plan[s]) => Agrees(s, plan[s])'
    BY <1>1, <1>2, <1>3, AgreesKeeps DEF RowKeeps, Agrees
  <2>4. NoneActive(s) => NoneActive(s)' BY <1>3 DEF NoneActive, GatewayKeeps
  <2>5. r.pc \in {"idle", "renew", "event"} \/ r.sub # s => Agrees(s, plan[s])'
    BY <1>4, <2>3
  <2>6. r.pc \notin {"idle", "renew", "event"} => Stage(worker[w], s)'
    BY <1>4, <2>2, <2>3, <2>4 DEF Stage
  <2> QED BY <1>1, <1>2, <2>1, <2>5, <2>6, RowAlone DEF RowKeeps
<1>5. ASSUME NEW t \in Subs \ disturbed', t # s PROVE Orderly(t)'
  BY <1>2, <1>5, OtherRows
<1> QED BY <1>4, <1>5 DEF AllOrderly

LEMMA CreatesOrderly ==
    ASSUME AgreeInv, NEW w \in Workers, GatewayCreate(w)
    PROVE  AllOrderly'
<1>1. worker[w].pc = "gwCreate" BY DEF GatewayCreate, At
<1>0. PICK s \in Subs : s = worker[w].sub BY <1>1, Working
<1> USE <1>0
<1>2. worker[w] \in Request /\ Works(w, s) /\ worker[w].op \in {"create", "convert"}
  BY <1>1, Working
<1>3. UNCHANGED <<events, books, missed>> /\ disturbed \subseteq disturbed'
  BY DEF GatewayCreate, Abandon, Disturb
<1>4. \A t \in Subs : RowKeeps(t) BY <1>3 DEF RowKeeps, books, row
<1>5. s \notin disturbed' => /\ Stage(worker[w], s) /\ \A v \in Workers \ {w} : ~Works(v, s)
                             /\ status[s] \in {None, "trial"} => gatewayId[s] = None
  BY <1>2, <1>3, Own
<1>6. CASE Finish(w) /\ UNCHANGED gateway
  <2>1. Moves(w, Idle) /\ Idle.pc = "idle" BY <1>6, Finishes
  <2>2. s \notin disturbed' => Agrees(s, plan[s])
    BY <1>1, <1>2, <1>5 DEF Stage, NoneActive, Agrees, AgreeInv, IInv, ActiveIsBacked
  <2> QED BY <1>1, <1>3, <1>6, <2>1, <2>2, PassesOrderly DEF books
<1>7. ASSUME NEW g \in GwSubs, NEW c, gateway[g] = Unknown,
             gateway' = [gateway EXCEPT ![g] =
                [status |-> "ACTIVE", owner |-> s, plan |-> worker[w].plan, customer |-> c]],
             \/ worker' = [worker EXCEPT ![w].pc = "store", ![w].gw = g]
             \/ Abandon(w)
      PROVE  AllOrderly'
  <2>1. /\ gateway'[g] = [status |-> "ACTIVE", owner |-> s, plan |-> worker[w].plan, customer |-> c]
        /\ \A h \in GwSubs \ {g} : gateway'[h] = gateway[h]
    BY <1>7 DEF AgreeInv, IInv, TypeOK
  <2>2. ASSUME NEW r \in Request \cup {Idle}, Moves(w, r), r.pc = "idle" \/ r.sub = s,
               NEW t \in Subs \ disturbed', t # s
        PROVE  Orderly(t)'
    BY <1>1, <1>3, <1>4, <1>7, <2>1, <2>2, OtherRows
  <2>3. CASE Abandon(w)
    <3>1. Moves(w, Idle) /\ Idle.pc = "idle" BY <2>3, Finishes DEF Abandon
    <3>2. s \in disturbed' BY <2>3 DEF Abandon, Disturb
    <3> QED BY <2>2, <3>1, <3>2 DEF AllOrderly
  <2>4. CASE worker' = [worker EXCEPT ![w].pc = "store", ![w].gw = g]
    <3> DEFINE r == [worker[w] EXCEPT !.pc = "store", !.gw = g]
    <3>1. /\ r \in Request /\ r.pc = "store" /\ r.gw = g /\ r.sub = s
          /\ r.plan = worker[w].plan /\ r.op = worker[w].op
      BY <1>1, <1>2 DEF Request
    <3>2. Moves(w, r) /\ worker'[w] = r BY <2>4 DEF Moves, AgreeInv, IInv, TypeOK
    <3> HIDE DEF r
    <3>3. ASSUME s \notin disturbed' PROVE Orderly(s)'
      <4>1. NoneActive(s) /\ gatewayId[s] = None /\ (worker[w].op = "convert" => worker[w].plan = plan[s])
        BY <1>1, <1>5, <3>3 DEF Stage
      <4>2. OnlyActive(s, g)' BY <2>1, <4>1 DEF OnlyActive, NoneActive, Backs
      <4>3. (gateway[g].plan = worker[w].plan)' BY <2>1, <3>1, <3>2
      <4>4. Stage(worker[w], s)'
        BY <1>2, <1>4, <2>1, <3>1, <3>2, <4>1, <4>2, <4>3 DEF Stage, Billed, RowKeeps
      <4> QED BY <1>2, <1>4, <1>5, <3>1, <3>2, <3>3, <4>4, RowAlone DEF RowKeeps
    <3> QED BY <2>2, <3>1, <3>2, <3>3 DEF AllOrderly
  <2> QED BY <1>7, <2>3, <2>4
<1> QED BY <1>6, <1>7 DEF GatewayCreate

LEMMA StoresOrderly ==
    ASSUME AgreeInv, NEW w \in Workers, StoreActive(w)
    PROVE  AllOrderly'
<1>1. worker[w].pc = "store" BY DEF StoreActive, At
<1>0. PICK s \in Subs, g \in GwSubs : s = worker[w].sub /\ g = worker[w].gw
  BY <1>1, Working DEF Carries
<1> USE <1>0
<1>2. /\ worker[w] \in Request /\ Works(w, s) /\ worker[w].op \in {"create", "convert"}
      /\ Backs(g, s)
  BY <1>1, Working DEF Carries
<1>3. PICK r \in Request : Moves(w, r) /\ worker'[w] = r /\ r.pc = "invoices" /\ r.sub = s
  <2>1. Goto(w, "invoices") BY DEF StoreActive
  <2>2. \E r \in Request : Moves(w, r) /\ worker'[w] = r /\ r.pc = "invoices" /\ r.sub = worker[w].sub
    BY <1>1, <1>2, <2>1, GoesOn
  <2> QED BY <2>2
<1>4. UNCHANGED <<gateway, events, disturbed, missed>> BY DEF StoreActive
<1>5. \A t \in Subs \ {s} : RowKeeps(t) BY DEF StoreActive, RowKeeps, AgreeInv, IInv, TypeOK
<1>6. ASSUME NEW t \in Subs \ disturbed', t # s PROVE Orderly(t)'
  BY <1>1, <1>3, <1>4, <1>5, <1>6, OtherRows
<1>7. ASSUME s \notin disturbed' PROVE Orderly(s)'
  <2>1. Stage(worker[w], s) /\ \A v \in Workers \ {w} : ~Works(v, s) BY <1>2, <1>4, <1>7, Own
  <2>2. status'[s] = "active" /\ gatewayId'[s] = g BY <1>2 DEF StoreActive, AgreeInv, IInv, TypeOK
  <2>3. plan'[s] = worker[w].plan
    BY <1>1, <1>2, <2>1 DEF StoreActive, Stage, AgreeInv, IInv, TypeOK
  <2>4. OnlyActive(s, g) /\ gateway[g].plan = worker[w].plan /\ Billed(g)
    BY <1>1, <2>1 DEF Stage
  <2>5. Billed(g)' BY <1>1, <1>2, <1>3, <1>4, <2>4, DeletionsStay DEF Billed
  <2>6. Agrees(s, plan[s])'
    BY <1>4, <2>2, <2>3, <2>4, <2>5 DEF Agrees, OnlyActive, Backs
  <2>7. Stage(worker[w], s)' BY <1>3, <2>6 DEF Stage
  <2> QED BY <1>2, <1>3, <2>1, <2>2, <2>6, <2>7, RowAlone DEF None
<1> QED BY <1>6, <1>7 DEF AllOrderly

LEMMA FirstPaymentsOrderly ==
    ASSUME AgreeInv, NEW w \in Workers, GetInvoices(w) \/ InsertPayment(w) \/ CountFirst(w)
    PROVE  AllOrderly'
<1>1. worker[w].pc \in {"invoices", "insertPayment", "count"}
  BY DEF GetInvoices, InsertPayment, CountFirst, At
<1>0. PICK s \in Subs : s = worker[w].sub BY <1>1, Working
<1> USE <1>0
<1>2. worker[w] \in Request /\ Works(w, s) BY <1>0, <1>1, Working
<1>3. UNCHANGED <<gateway, events, row, disturbed, missed>>
  BY DEF GetInvoices, InsertPayment, CountFirst, books
<1>4. s \notin disturbed' => Agrees(s, plan[s]) BY <1>1, <1>2, <1>3, Own DEF Stage
<1>5. \E r \in Request \cup {Idle} : Moves(w, r) /\ (r.pc = "idle" \/ r.sub = s)
                                    /\ r.pc \in {"idle", "invoices", "insertPayment", "count"}
  <2>1. CASE Finish(w) BY <2>1, Finishes
  <2>2. ASSUME NEW pc \in {"insertPayment", "count"}, Goto(w, pc),
               worker[w].pc \in {"invoices", "insertPayment"}
        PROVE  \E r \in Request : Moves(w, r) /\ r.sub = s /\ r.pc = pc
    <3>1. \E r \in Request : Moves(w, r) /\ r.sub = worker[w].sub /\ r.pc = pc
      BY <1>2, <2>2, GoesOn
    <3> QED BY <3>1
  <2> QED BY <2>1, <2>2 DEF GetInvoices, InsertPayment, CountFirst, At
<1> QED BY <1>1, <1>3, <1>4, <1>5, PassesOrderly

LEMMA CancelsOrderly ==
    ASSUME AgreeInv, NEW w \in Workers, GatewayCancel(w) \/ GatewayUpdate(w)
    PROVE  AllOrderly'
<1>1. worker[w].pc \in {"gwCancel", "gwUpdate"} BY DEF GatewayCancel, GatewayUpdate, At
<1>0. PICK s \in Subs, g \in GwSubs : s = worker[w].sub /\ g = worker[w].gw
  BY <1>1, Working
<1> USE <1>0
<1>2. worker[w] \in Request /\ Works(w, s) /\ Backs(g, s) BY <1>1, Working
<1>3. /\ UNCHANGED <<books, missed>> /\ disturbed \subseteq disturbed' /\ events \subseteq events'
  BY DEF GatewayCancel, GatewayUpdate, Abandon, Disturb, Emit
<1>4. \A t \in Subs : RowKeeps(t) BY <1>3 DEF RowKeeps, books, row
<1>5. s \notin disturbed' =>
         /\ Agrees(s, plan[s]) /\ g = gatewayId[s] /\ \A v \in Workers \ {w} : ~Works(v, s)
         /\ status[s] \in {None, "trial"} => gatewayId[s] = None
  BY <1>1, <1>2, <1>3, Own DEF Stage
<1>6. gateway[g] \in GatewaySub BY <1>2 DEF Backs, AgreeInv, IInv, TypeOK
\* The call is refused.
<1>7. CASE Finish(w) /\ UNCHANGED <<gateway, events, disturbed>>
  <2>1. Moves(w, Idle) /\ Idle.pc = "idle" BY <1>7, Finishes
  <2> QED BY <1>1, <1>3, <1>5, <1>7, <2>1, PassesOrderly DEF books
\* The call is made: the subscription stays the row's.
<1>8. ASSUME gateway'[g] # Unknown, gateway'[g].owner = gateway[g].owner,
             \A h \in GwSubs \ {g} : gateway'[h] = gateway[h],
             Abandon(w) \/ \E pc \in {"cancelRow", "changeRow"} : Goto(w, pc),
             NEW t \in Subs \ disturbed', t # s
      PROVE  Orderly(t)'
  <2>1. \E r \in Request \cup {Idle} : Moves(w, r) /\ (r.pc = "idle" \/ r.sub = worker[w].sub)
    <3>1. CASE Abandon(w) BY <3>1, Finishes DEF Abandon
    <3>2. ASSUME NEW pc \in {"cancelRow", "changeRow"}, Goto(w, pc)
          PROVE  \E r \in Request : Moves(w, r) /\ r.sub = worker[w].sub
      BY <1>1, <1>2, <3>2, GoesOn
    <3> QED BY <1>8, <3>1, <3>2
  <2>2. PICK r \in Request \cup {Idle} : Moves(w, r) /\ (r.pc = "idle" \/ r.sub = worker[w].sub)
    BY <2>1
  <2> QED BY <1>1, <1>2, <1>3, <1>4, <1>8, <2>2, OtherRows DEF Backs
<1>9. CASE Abandon(w)
  <2>1. s \in disturbed' BY <1>9 DEF Abandon, Disturb
  <2>2. /\ gateway'[g] # Unknown /\ gateway'[g].owner = gateway[g].owner
        /\ \A h \in GwSubs \ {g} : gateway'[h] = gateway[h]
    <3>1. \/ gateway' = [gateway EXCEPT ![g].status = "CANCELLED"]
          \/ gateway' = [gateway EXCEPT ![g].plan = worker[w].plan]
          \/ gateway' = gateway
      BY DEF GatewayCancel, GatewayUpdate
    <3>2. Unknown \notin GatewaySub /\ gateway[g] # Unknown BY <1>2 DEF Backs, GatewaySub, Unknown, None
    <3> QED BY <1>6, <3>1, <3>2 DEF AgreeInv, IInv, TypeOK, GatewaySub, Unknown, None
  <2> QED BY <1>8, <1>9, <2>1, <2>2 DEF AllOrderly
\* The subscription has ended at the gateway.
<1>10. CASE gateway' = [gateway EXCEPT ![g].status = "CANCELLED"] /\ Goto(w, "cancelRow")
  <2>1. /\ gateway'[g].status = "CANCELLED" /\ gateway'[g].owner = gateway[g].owner
        /\ \A h \in GwSubs \ {g} : gateway'[h] = gateway[h]
        /\ gateway'[g] # Unknown
    BY <1>6, <1>10 DEF AgreeInv, IInv, TypeOK, GatewaySub, Unknown, None
  <2>2. \E r \in Request : /\ Moves(w, r) /\ worker'[w] = r
                           /\ r.pc = "cancelRow" /\ r.sub = worker[w].sub
    <3>1. worker[w].pc = "gwCancel" \/ worker[w].pc = "gwUpdate" BY <1>1
    <3> QED BY <1>2, <1>10, <3>1, GoesOn
  <2>3. PICK r \in Request : Moves(w, r) /\ worker'[w] = r /\ r.pc = "cancelRow" /\ r.sub = s
    BY <2>2
  <2>4. ASSUME s \notin disturbed' PROVE Orderly(s)'
    <3>1. NoneActive(s)' BY <1>5, <2>1, <2>4 DEF Agrees, NoneActive, Backs
    <3>2. Stage(worker[w], s)' BY <2>3, <3>1 DEF Stage
    <3> QED BY <1>2, <1>4, <1>5, <2>3, <2>4, <3>2, RowAlone DEF RowKeeps
  <2> QED BY <1>8, <1>10, <2>1, <2>4 DEF AllOrderly
\* The subscription has another plan at the gateway.
<1>11. CASE gateway' = [gateway EXCEPT ![g].plan = worker[w].plan] /\ Goto(w, "changeRow")
  <2>1. /\ gateway'[g].status = gateway[g].status /\ gateway'[g].owner = gateway[g].owner
        /\ gateway'[g].plan = worker[w].plan
        /\ \A h \in GwSubs \ {g} : gateway'[h] = gateway[h]
        /\ gateway'[g] # Unknown
    BY <1>6, <1>2, <1>11 DEF AgreeInv, IInv, TypeOK, GatewaySub, Unknown, None, Backs
  <2>2. \E r \in Request : /\ Moves(w, r) /\ worker'[w] = r /\ r.plan = worker[w].plan
                           /\ r.pc = "changeRow" /\ r.sub = worker[w].sub
    <3>1. worker[w].pc = "gwCancel" \/ worker[w].pc = "gwUpdate" BY <1>1
    <3> QED BY <1>2, <1>11, <3>1, GoesOn
  <2>3. PICK r \in Request : /\ Moves(w, r) /\ worker'[w] = r /\ r.plan = worker[w].plan
                             /\ r.pc = "changeRow" /\ r.sub = s
    BY <2>2
  <2>4. ASSUME s \notin disturbed' PROVE Orderly(s)'
    <3>1. UNCHANGED <<status, gatewayId>> BY <1>3 DEF books, row
    <3>2. Billed(g) => Billed(g)' BY <1>1, <1>3, <2>1, <2>3, DeletionsStay DEF Billed
    <3>3. status[s] = "active" => Billed(g) BY <1>5, <2>4 DEF Agrees
    <3>4. ASSUME NEW h \in GwSubs, Backs(h, s)', gateway'[h].status = "ACTIVE"
          PROVE  status'[s] = "active" /\ gatewayId'[s] = h
      <4>1. Backs(h, s) /\ gateway[h].status = "ACTIVE" BY <1>2, <2>1, <3>4 DEF Backs
      <4> QED BY <1>5, <2>4, <3>1, <4>1 DEF Agrees
    <3>5. \A q : q = worker[w].plan => Agrees(s, q)'
      BY <1>5, <2>1, <2>4, <3>1, <3>2, <3>3, <3>4 DEF Agrees
    <3>6. Stage(worker[w], s)' BY <2>3, <3>5 DEF Stage
    <3> QED BY <1>2, <1>4, <1>5, <2>3, <2>4, <3>6, RowAlone DEF RowKeeps
  <2> QED BY <1>8, <1>11, <2>1, <2>4 DEF AllOrderly
<1> QED BY <1>7, <1>9, <1>10, <1>11 DEF GatewayCancel, GatewayUpdate

LEMMA RowWritesOrderly ==
    ASSUME AgreeInv, NEW w \in Workers, CancelRow(w) \/ ChangeRow(w)
    PROVE  AllOrderly'
<1>1. worker[w].pc \in {"cancelRow", "changeRow"} BY DEF CancelRow, ChangeRow, At
<1>0. PICK s \in Subs : s = worker[w].sub BY <1>1, Working
<1> USE <1>0
<1>2. Works(w, s) BY <1>1, Working
<1>3. UNCHANGED <<gateway, events, gatewayId, disturbed, missed>> BY DEF CancelRow, ChangeRow
<1>4. Moves(w, Idle) /\ Idle.pc = "idle" BY Finishes DEF CancelRow, ChangeRow
<1>5. \A t \in Subs \ {s} : RowKeeps(t)
  BY DEF CancelRow, ChangeRow, RowKeeps, AgreeInv, IInv, TypeOK
<1>6. ASSUME NEW t \in Subs \ disturbed', t # s PROVE Orderly(t)'
  BY <1>1, <1>3, <1>4, <1>5, <1>6, OtherRows
<1>7. ASSUME s \notin disturbed' PROVE Orderly(s)'
  <2>1. /\ Stage(worker[w], s) /\ \A v \in Workers \ {w} : ~Works(v, s)
        /\ status[s] \in {None, "trial"} => gatewayId[s] = None
    BY <1>2, <1>3, <1>7, Own
  <2>2. CASE CancelRow(w)
    <3>1. status'[s] = "cancelled" BY <2>2 DEF CancelRow, AgreeInv, IInv, TypeOK
    <3>2. NoneActive(s) BY <2>1, <2>2 DEF Stage, CancelRow, At
    <3>3. Agrees(s, plan[s])' BY <1>3, <3>1, <3>2 DEF Agrees, NoneActive, Backs
    <3> QED BY <1>4, <2>1, <3>1, <3>3, RowAlone DEF None
  <2>3. CASE ChangeRow(w)
    <3>1. plan'[s] = worker[w].plan /\ status' = status
      BY <2>3 DEF ChangeRow, AgreeInv, IInv, TypeOK
    <3>2. Agrees(s, worker[w].plan) BY <2>1, <2>3 DEF Stage, ChangeRow, At
    <3>3. GatewayKeeps(s) BY <1>1, <1>3, <1>4, GatewayStays DEF Backs
    <3>4. \A q : Agrees(s, q) => Agrees(s, q)' BY <1>3, <3>1, <3>3, AgreesKeeps
    <3>5. Agrees(s, plan[s])' BY <3>1, <3>2, <3>4
    <3> QED BY <1>3, <1>4, <2>1, <3>1, <3>5, RowAlone
  <2> QED BY <2>2, <2>3
<1> QED BY <1>6, <1>7 DEF AllOrderly

\* The answer to a deletion event: its row is cancelled.
LEMMA DeletionOrderly ==
    ASSUME AgreeInv, NEW w \in Workers, WriteDeleted(w)
    PROVE  AllOrderly'
<1>1. worker[w].pc = "event" BY DEF WriteDeleted, At
<1>0. PICK s \in Subs, g \in GwSubs : s = worker[w].sub /\ g = worker[w].gw
  BY <1>1 DEF AgreeInv, IInv, TypeOK, Request, Idle
<1> USE <1>0
<1>2. Backs(g, s) /\ gateway[g].status = "CANCELLED" /\ (s \notin disturbed => gatewayId[s] = g)
  BY <1>1 DEF AgreeInv, DeletionsTrue
<1>3. UNCHANGED <<gateway, events, plan, gatewayId, disturbed, missed>> BY DEF WriteDeleted
<1>4. Moves(w, Idle) /\ Idle.pc = "idle" /\ worker'[w] = Idle BY Finishes DEF WriteDeleted
<1>5. \A t \in Subs \ {s} : RowKeeps(t) BY DEF WriteDeleted, RowKeeps, AgreeInv, IInv, TypeOK
<1>6. ASSUME NEW t \in Subs \ disturbed', t # s PROVE Orderly(t)'
  BY <1>1, <1>3, <1>4, <1>5, <1>6, OtherRows
<1>7. ASSUME s \notin disturbed' PROVE Orderly(s)'
  <2>1. Orderly(s) /\ gatewayId[s] = g BY <1>2, <1>3, <1>7 DEF AgreeInv
  <2>2. status'[s] = "cancelled" BY DEF WriteDeleted, AgreeInv, IInv, TypeOK
  <2>3. \A v \in Workers : (Works(v, s)' <=> Works(v, s)) /\ (Works(v, s) => worker'[v] = worker[v])
    BY <1>1, <1>4 DEF Works, Moves, AgreeInv, IInv, TypeOK
  <2>4. \A q : Agrees(s, q) => NoneActive(s)
    BY <1>2, <2>1 DEF Agrees, NoneActive
  <2>5. NoneActive(s) => NoneActive(s)' BY <1>3 DEF NoneActive, Backs
  <2>6. \A q : NoneActive(s)' => Agrees(s, q)' BY <2>2 DEF Agrees, NoneActive
  <2>7. \A q : Agrees(s, q) => Agrees(s, q)' BY <2>4, <2>5, <2>6
  <2>8. Agrees(s, plan[s]) => Agrees(s, plan[s])' BY <1>3, <2>7
  <2>9. Free(s)' => Free(s) BY <2>3 DEF Free
  <2>10. ASSUME NEW v \in Workers, Works(v, s) PROVE Stage(worker[v], s)'
    <3>1. Stage(worker[v], s) /\ worker'[v] = worker[v] BY <2>1, <2>3, <2>10 DEF Orderly
    <3>2. worker[v].pc \notin {"gwCreate", "store"}
      BY <2>1, <3>1, SubscriptionAssumption DEF Stage
    <3>3. Agrees(s, worker[v].plan) => Agrees(s, worker[v].plan)' BY <2>7, <3>1
    <3> QED BY <1>3, <2>5, <2>8, <3>1, <3>2, <3>3 DEF Stage
  <2> QED BY <1>3, <2>1, <2>2, <2>3, <2>8, <2>9, <2>10 DEF Orderly, None
<1> QED BY <1>6, <1>7 DEF AllOrderly

\* Renewals and failures.
LEMMA RenewalsOrderly ==
    ASSUME AgreeInv, NEW w \in Workers,
           \/ \E due \in SUBSET Subs : StartRenewals(w, due)
           \/ worker[w].pc = "renew" /\ \E d \in worker[w].due : RenewRow(w, d)
    PROVE  AllOrderly'
<1>1. worker[w].pc \in {"idle", "renew"} BY DEF StartRenewals, At
<1>2. UNCHANGED <<gateway, events, row, disturbed, missed>> BY DEF StartRenewals, RenewRow, books
<1>3. \E r \in Request \cup {Idle} : Moves(w, r) /\ r.pc \in {"idle", "renew"}
  <2>1. ASSUME NEW due \in SUBSET Subs, StartRenewals(w, due)
        PROVE  \E r \in Request : Moves(w, r) /\ r.pc = "renew"
    <3> DEFINE r == [pc |-> "renew", due |-> Snapshot(due)]
    <3>1. r \in Request BY DEF Snapshot, Request, AgreeInv, IInv, TypeOK
    <3>2. Moves(w, r) /\ r.pc = "renew" BY <2>1 DEF StartRenewals, Moves
    <3> QED BY <3>1, <3>2
  <2>2. ASSUME NEW d \in worker[w].due, RenewRow(w, d), worker[w].pc = "renew"
        PROVE  \E r \in Request \cup {Idle} : Moves(w, r) /\ r.pc \in {"idle", "renew"}
    <3>1. CASE Finish(w) BY <3>1, Finishes
    <3>2. CASE worker' = [worker EXCEPT ![w].due = worker[w].due \ {d}]
      <4> DEFINE r == [worker[w] EXCEPT !.due = worker[w].due \ {d}]
      <4>1. worker[w] \in [pc : {"renew"}, due : SUBSET [sub : Subs, total : Nat]]
        BY <2>2 DEF AgreeInv, IInv, TypeOK, Request, Idle
      <4>2. r \in Request /\ r.pc = "renew" BY <4>1 DEF Request
      <4>3. Moves(w, r) BY <3>2 DEF Moves
      <4> QED BY <4>2, <4>3
    <3> QED BY <2>2, <3>1, <3>2 DEF RenewRow
  <2> QED BY <2>1, <2>2
<1>4. PICK r \in Request \cup {Idle} : Moves(w, r) /\ r.pc \in {"idle", "renew"} BY <1>3
<1>5. ASSUME NEW s \in Subs \ disturbed PROVE Orderly(s)'
  <2>1. ~Works(w, s) BY <1>1 DEF Works
  <2>2. RowKeeps(s) BY <1>2 DEF RowKeeps, row
  <2> QED BY <1>1, <1>2, <1>4, <2>1, <2>2, Elsewhere DEF Backs
<1> QED BY <1>2, <1>5 DEF AllOrderly

LEMMA DeathsOrderly ==
    ASSUME AgreeInv, NEW w \in Workers, Die(w)
    PROVE  AllOrderly'
<1>1. Moves(w, Idle) /\ Idle.pc = "idle" BY Finishes DEF Die
<1>2. UNCHANGED <<gateway, events, books, missed>> BY DEF Die
<1>3. disturbed \subseteq disturbed' /\ (worker[w].pc # "renew" => worker[w].sub \in disturbed')
  BY DEF Die, At
<1>4. ASSUME NEW s \in Subs \ disturbed' PROVE Orderly(s)'
  <2>1. ~Works(w, s) BY <1>3, <1>4 DEF Works
  <2>2. RowKeeps(s) BY <1>2 DEF RowKeeps, books, row
  <2>3. worker[w].pc = "event" => ~Backs(worker[w].gw, s)
    BY <1>3, <1>4 DEF AgreeInv, DeletionsTrue, Backs
  <2> QED BY <1>1, <1>2, <1>3, <1>4, <2>1, <2>2, <2>3, Elsewhere DEF Backs
<1> QED BY <1>4 DEF AllOrderly

\* An event finds no row, or a row whose deletion or renewal it reports.
LEMMA Receives ==
    ASSUME NEW w \in Workers, NEW e \in events, ReceiveEvent(w, e)
    PROVE  \/ UNCHANGED worker
           \/ \E s \in Finds(e.gw) : /\ e.name = "DELETED"
                                     /\ Moves(w, [pc |-> "event", sub |-> s, gw |-> e.gw])
           \/ \E s \in Finds(e.gw) : Moves(w, [pc |-> "renew", due |-> Snapshot({s})])
BY DEF ReceiveEvent, Moves

\* The arrival of an event: a deletion that was on its way is now missed or answered.
LEMMA EventsOrderly ==
    ASSUME AgreeInv, NEW w \in Workers, NEW e \in events, ReceiveEvent(w, e)
    PROVE  AllOrderly'
<1>1. UNCHANGED <<gateway, books, disturbed>> /\ worker[w].pc = "idle" /\ missed \subseteq missed'
  BY DEF ReceiveEvent, At
<1>2. \A v \in Workers \ {w} : worker'[v] = worker[v]
  BY DEF ReceiveEvent, AgreeInv, IInv, TypeOK
<1>3. worker'[w].pc \in {"idle", "renew", "event"}
  <2>1. CASE UNCHANGED worker BY <1>1, <2>1
  <2>2. ASSUME NEW s, Moves(w, [pc |-> "renew", due |-> Snapshot({s})]) PROVE worker'[w].pc = "renew"
    BY <2>2 DEF Moves, AgreeInv, IInv, TypeOK
  <2>3. ASSUME NEW s, Moves(w, [pc |-> "event", sub |-> s, gw |-> e.gw]) PROVE worker'[w].pc = "event"
    BY <2>3 DEF Moves, AgreeInv, IInv, TypeOK
  <2> QED BY <2>1, <2>2, <2>3, Receives
<1>4. ASSUME NEW g \in GwSubs, DeletionUnderWay(g) PROVE DeletionUnderWay(g)'
  <2>1. CASE g \in missed BY <1>1, <2>1 DEF DeletionUnderWay
  <2>2. CASE [gw |-> g, name |-> "DELETED"] \in events
    <3>1. CASE e = [gw |-> g, name |-> "DELETED"]
      <4>1. g \in missed' \/ (worker'[w].pc = "event" /\ worker'[w].gw = g)
        BY <1>1, <3>1 DEF ReceiveEvent, AgreeInv, IInv, TypeOK
      <4> QED BY <4>1 DEF DeletionUnderWay, At
    <3>2. CASE e # [gw |-> g, name |-> "DELETED"]
      BY <2>2, <3>2 DEF ReceiveEvent, DeletionUnderWay
    <3> QED BY <3>1, <3>2
  <2>3. ASSUME NEW v \in Workers, worker[v].pc = "event", worker[v].gw = g PROVE DeletionUnderWay(g)'
    BY <1>1, <1>2, <2>3 DEF DeletionUnderWay, At
  <2> QED BY <1>4, <2>1, <2>2, <2>3 DEF DeletionUnderWay, At
<1>5. \A s \in Subs : GatewayKeeps(s) /\ RowKeeps(s)
  BY <1>1, <1>4 DEF GatewayKeeps, RowKeeps, books, row, Backs
<1>6. ASSUME NEW s \in Subs
      PROVE  \A v \in Workers : (Works(v, s)' <=> Works(v, s)) /\ (Works(v, s) => worker'[v] = worker[v])
  BY <1>1, <1>2, <1>3 DEF Works
<1> QED BY <1>1, <1>5, <1>6, RowUntouched DEF AllOrderly

LEMMA StepDeletions == AgreeInv /\ [Next]_vars => DeletionsTrue'
<1> SUFFICES ASSUME AgreeInv, [Next]_vars PROVE DeletionsTrue'
  OBVIOUS
<1>0. TypeOK /\ TypeOK' BY StepTypeOK DEF AgreeInv, IInv
<1>d. DeletionsTrue BY DEF AgreeInv
\* What was deleted at the gateway stays so, and an answer keeps its row's link.
<1>1. ASSUME \A g \in GwSubs : gateway[g].status = "CANCELLED" =>
                gateway'[g].status = "CANCELLED" /\ gateway'[g].owner = gateway[g].owner
                /\ (gateway[g] # Unknown => gateway'[g] # Unknown),
             \A e \in events' : e \in events \/ (e.name = "DELETED" => gateway'[e.gw].status = "CANCELLED"),
             disturbed \subseteq disturbed',
             \A s \in Subs \ disturbed' : gatewayId'[s] = gatewayId[s] \/ gatewayId[s] = None,
             \A w \in Workers : worker'[w].pc = "event" =>
                \/ worker'[w] = worker[w]
                \/ /\ Backs(worker[w].gw, worker[w].sub)' /\ gateway'[worker'[w].gw].status = "CANCELLED"
                   /\ gatewayId'[worker'[w].sub] = worker'[w].gw
      PROVE  DeletionsTrue'
  <2>1. \A e \in events' : e.name = "DELETED" => gateway'[e.gw].status = "CANCELLED"
    BY <1>0, <1>1, <1>d DEF DeletionsTrue, TypeOK, Event
  <2>2. ASSUME NEW w \in Workers, worker'[w].pc = "event", worker'[w] = worker[w]
        PROVE  /\ Backs(worker[w].gw, worker[w].sub)' /\ gateway'[worker'[w].gw].status = "CANCELLED"
               /\ worker'[w].sub \notin disturbed' => gatewayId'[worker'[w].sub] = worker'[w].gw
    <3>1. worker[w].gw \in GwSubs /\ worker[w].sub \in Subs
      BY <1>0, <2>2 DEF TypeOK, Request, Idle
    <3>2. /\ Backs(worker[w].gw, worker[w].sub) /\ gateway[worker[w].gw].status = "CANCELLED"
          /\ worker[w].sub \notin disturbed => gatewayId[worker[w].sub] = worker[w].gw
      BY <1>d, <2>2 DEF DeletionsTrue
    <3> QED BY <1>1, <2>2, <3>1, <3>2, SubscriptionAssumption DEF Backs
  <2>3. ASSUME NEW w \in Workers, worker'[w].pc = "event"
        PROVE  (/\ Backs(worker[w].gw, worker[w].sub) /\ gateway[worker[w].gw].status = "CANCELLED"
                /\ worker[w].sub \notin disturbed => gatewayId[worker[w].sub] = worker[w].gw)'
    BY <1>1, <2>2, <2>3
  <2> QED BY <2>1, <2>3 DEF DeletionsTrue
\* A step that no event, answer or link takes part in.
<1>2. ASSUME UNCHANGED <<gateway, gatewayId>>, events' \subseteq events, disturbed \subseteq disturbed',
             \A w \in Workers : worker'[w].pc = "event" => worker'[w] = worker[w]
      PROVE  DeletionsTrue'
  BY <1>1, <1>2
<1>3. ASSUME NEW w \in Workers, NEW r, Moves(w, r), r.pc # "event"
      PROVE  \A v \in Workers : worker'[v].pc = "event" => worker'[v] = worker[v]
  BY <1>0, <1>3 DEF Moves, TypeOK
<1>4. ASSUME NEW w \in Workers, Finish(w)
      PROVE  \A v \in Workers : worker'[v].pc = "event" => worker'[v] = worker[v]
  <2>1. Moves(w, Idle) /\ Idle.pc # "event" BY <1>4, Finishes
  <2> QED BY <1>3, <2>1
<1>5. ASSUME NEW w \in Workers, NEW pc, Goto(w, pc), worker[w].pc # "event", worker[w].pc # "idle", pc # "event"
      PROVE  \A v \in Workers : worker'[v].pc = "event" => worker'[v] = worker[v]
  <2>1. worker[w] \in Request BY <1>0, <1>5 DEF TypeOK, Idle
  <2>2. [worker[w] EXCEPT !.pc = pc].pc = pc BY <2>1 DEF Request
  <2> QED BY <1>0, <1>5, <2>2 DEF Goto, TypeOK
<1>6. ASSUME NEW g \in GwSubs, GatewayDeletes(g) \/ GatewayRenews(g) PROVE DeletionsTrue'
  <2>1. UNCHANGED <<gatewayId, disturbed, worker>>
    BY <1>6 DEF GatewayDeletes, GatewayRenews, books, row
  <2>2. CASE GatewayRenews(g)
    BY <1>1, <2>1, <2>2 DEF GatewayRenews, Emit
  <2>3. CASE GatewayDeletes(g)
    <3>1. gateway[g] \in GatewaySub
      BY <1>0, <2>3 DEF GatewayDeletes, TypeOK, Unknown, None
    <3>2. gateway'[g].status = "CANCELLED" /\ \A h \in GwSubs \ {g} : gateway'[h] = gateway[h]
      BY <1>0, <2>3, <3>1 DEF GatewayDeletes, TypeOK, GatewaySub
    <3>3. gateway[g].status # "CANCELLED" BY <2>3 DEF GatewayDeletes
    <3>4. \A e \in events' : e \in events \/ e.gw = g BY <2>3 DEF GatewayDeletes, Emit
    <3> QED BY <1>1, <2>1, <3>2, <3>3, <3>4
  <2> QED BY <1>6, <2>2, <2>3
<1>7. ASSUME NEW s \in Subs, EndTrial(s) \/ \E p \in Plans : CreateTrial(s, p) PROVE DeletionsTrue'
  BY <1>2, <1>7 DEF EndTrial, CreateTrial
<1>8. ASSUME NEW w \in Workers, NEW s \in Subs,
             \/ StartConvert(w, s) \/ StartCancel(w, s)
             \/ \E p \in Plans : StartCreate(w, s, p) \/ StartChange(w, s, p)
      PROVE  DeletionsTrue'
  <2>1. ASSUME NEW pc, NEW op, NEW g, NEW p, Begin(w, pc, op, s, g, p), pc # "event"
        PROVE  /\ disturbed \subseteq disturbed'
               /\ \A v \in Workers : worker'[v].pc = "event" => worker'[v] = worker[v]
    BY <1>0, <2>1 DEF Begin, Disturb, TypeOK
  <2>2. UNCHANGED <<gateway, events, gatewayId>>
    BY <1>8 DEF StartConvert, StartCancel, StartCreate, StartChange, books, row
  <2>3. /\ disturbed \subseteq disturbed'
        /\ \A v \in Workers : worker'[v].pc = "event" => worker'[v] = worker[v]
    BY <1>8, <2>1 DEF StartConvert, StartCancel, StartCreate, StartChange
  <2> QED BY <1>2, <2>2, <2>3
<1>9. ASSUME NEW w \in Workers, GatewayCreate(w) PROVE DeletionsTrue'
  <2>1. UNCHANGED <<events, gatewayId>> /\ disturbed \subseteq disturbed' /\ worker[w].pc = "gwCreate"
    BY <1>9 DEF GatewayCreate, books, row, Abandon, Disturb, At
  <2>2. \A g \in GwSubs : gateway[g].status = "CANCELLED" => gateway'[g] = gateway[g]
    BY <1>0, <1>9 DEF GatewayCreate, TypeOK, Unknown, None
  <2>3. \A v \in Workers : worker'[v].pc = "event" => worker'[v] = worker[v]
    <3>1. CASE Finish(w) BY <1>4, <3>1
    <3>2. CASE \E g \in GwSubs : worker' = [worker EXCEPT ![w].pc = "store", ![w].gw = g]
      <4>1. worker[w] \in Request BY <1>0, <2>1 DEF TypeOK, Idle
      <4>2. \A g : [worker[w] EXCEPT !.pc = "store", !.gw = g].pc = "store"
        BY <2>1, <4>1 DEF Request
      <4> QED BY <1>0, <3>2, <4>2 DEF TypeOK
    <3> QED BY <1>9, <3>1, <3>2 DEF GatewayCreate, Abandon
  <2> QED BY <1>1, <2>1, <2>2, <2>3
<1>10. ASSUME NEW w \in Workers, StoreActive(w) PROVE DeletionsTrue'
  <2>1. worker[w].pc = "store" BY <1>10 DEF StoreActive, At
  <2>2. UNCHANGED <<gateway, events, disturbed>> /\ Goto(w, "invoices")
    BY <1>10 DEF StoreActive
  <2>3. Works(w, worker[w].sub) /\ worker[w].sub \in Subs BY <2>1, Working
  <2>4. worker[w].sub \notin disturbed => gatewayId[worker[w].sub] = None
    BY <2>1, <2>3, Own DEF Stage
  <2>5. \A s \in Subs \ {worker[w].sub} : gatewayId'[s] = gatewayId[s]
    BY <1>0, <1>10 DEF StoreActive, TypeOK
  <2>6. \A v \in Workers : worker'[v].pc = "event" => worker'[v] = worker[v]
    BY <1>5, <2>1, <2>2
  <2> QED BY <1>1, <2>2, <2>4, <2>5, <2>6
<1>11. ASSUME NEW w \in Workers,
              GetInvoices(w) \/ InsertPayment(w) \/ CountFirst(w) \/ CancelRow(w) \/ ChangeRow(w) \/ WriteDeleted(w)
       PROVE  DeletionsTrue'
  <2>1. UNCHANGED <<gateway, gatewayId, events, disturbed>>
    BY <1>11 DEF GetInvoices, InsertPayment, CountFirst, CancelRow, ChangeRow, WriteDeleted, books, row
  <2>2. Finish(w) \/ (worker[w].pc \in {"invoices", "insertPayment"}
                      /\ \E pc \in {"insertPayment", "count"} : Goto(w, pc))
    BY <1>11 DEF GetInvoices, InsertPayment, CountFirst, CancelRow, ChangeRow, WriteDeleted, At
  <2>3. \A v \in Workers : worker'[v].pc = "event" => worker'[v] = worker[v]
    BY <1>4, <1>5, <2>2
  <2> QED BY <1>2, <2>1, <2>3
<1>12. ASSUME NEW w \in Workers, GatewayCancel(w) \/ GatewayUpdate(w) PROVE DeletionsTrue'
  <2>1. worker[w].pc \in {"gwCancel", "gwUpdate"} BY <1>12 DEF GatewayCancel, GatewayUpdate, At
  <2>2. worker[w].gw \in GwSubs /\ gateway[worker[w].gw] \in GatewaySub
    BY <1>0, <2>1, Working DEF Backs, TypeOK
  <2>3. UNCHANGED gatewayId /\ disturbed \subseteq disturbed'
    BY <1>12 DEF GatewayCancel, GatewayUpdate, books, row, Abandon, Disturb
  <2>4. Finish(w) \/ Goto(w, "cancelRow") \/ Goto(w, "changeRow")
    BY <1>12 DEF GatewayCancel, GatewayUpdate, Abandon
  <2>5. \A v \in Workers : worker'[v].pc = "event" => worker'[v] = worker[v]
    BY <1>4, <1>5, <2>1, <2>4
  <2>6. Unknown \notin GatewaySub BY DEF Unknown, GatewaySub, None
  <2>7. \A g \in GwSubs : gateway[g].status = "CANCELLED" =>
           gateway'[g].status = "CANCELLED" /\ gateway'[g].owner = gateway[g].owner
           /\ (gateway[g] # Unknown => gateway'[g] # Unknown)
    <3>1. CASE gateway' = gateway BY <3>1
    <3>2. CASE gateway' = [gateway EXCEPT ![worker[w].gw].status = "CANCELLED"]
      BY <1>0, <2>2, <2>6, <3>2 DEF TypeOK, GatewaySub
    <3>3. CASE gateway' = [gateway EXCEPT ![worker[w].gw].plan = worker[w].plan]
      <4>1. \A g \in GwSubs \ {worker[w].gw} : gateway'[g] = gateway[g] BY <1>0, <3>3 DEF TypeOK
      <4>2. /\ gateway'[worker[w].gw].status = gateway[worker[w].gw].status
            /\ gateway'[worker[w].gw].owner = gateway[worker[w].gw].owner
        BY <1>0, <2>2, <3>3 DEF TypeOK, GatewaySub
      <4>3. gateway[worker[w].gw].status # None BY <2>2 DEF GatewaySub, None
      <4>4. gateway'[worker[w].gw] # Unknown BY <4>2, <4>3 DEF Unknown
      <4> QED BY <4>1, <4>2, <4>4
    <3> QED BY <1>12, <3>1, <3>2, <3>3 DEF GatewayCancel, GatewayUpdate
  <2>8. \A e \in events' : e \in events \/ gateway'[e.gw].status = "CANCELLED"
    <3>1. CASE events' = events BY <3>1
    <3>2. CASE /\ Emit(worker[w].gw, "DELETED")
               /\ gateway' = [gateway EXCEPT ![worker[w].gw].status = "CANCELLED"]
      <4>1. gateway'[worker[w].gw].status = "CANCELLED" BY <1>0, <2>2, <3>2 DEF TypeOK, GatewaySub
      <4> QED BY <3>2, <4>1 DEF Emit
    <3> QED BY <1>12, <3>1, <3>2 DEF GatewayCancel, GatewayUpdate
  <2> QED BY <1>1, <2>3, <2>5, <2>7, <2>8
<1>13. ASSUME NEW w \in Workers,
              \/ \E due \in SUBSET Subs : StartRenewals(w, due)
              \/ worker[w].pc = "renew" /\ \E d \in worker[w].due : RenewRow(w, d)
       PROVE  DeletionsTrue'
  <2>1. UNCHANGED <<gateway, gatewayId, events, disturbed>>
    BY <1>13 DEF StartRenewals, RenewRow, books, row
  <2>2. \A v \in Workers : worker'[v].pc = "event" => worker'[v] = worker[v]
    <3>1. CASE Finish(w) BY <1>4, <3>1
    <3>2. ASSUME NEW due \in SUBSET Subs, StartRenewals(w, due)
          PROVE  \A v \in Workers : worker'[v].pc = "event" => worker'[v] = worker[v]
      BY <1>0, <3>2 DEF StartRenewals, TypeOK
    <3>3. ASSUME NEW d, worker[w].pc = "renew", worker' = [worker EXCEPT ![w].due = worker[w].due \ {d}]
          PROVE  \A v \in Workers : worker'[v].pc = "event" => worker'[v] = worker[v]
      <4>1. worker[w] \in Request BY <1>0, <3>3 DEF TypeOK, Idle
      <4>2. [worker[w] EXCEPT !.due = worker[w].due \ {d}].pc = "renew" BY <3>3, <4>1 DEF Request
      <4> QED BY <1>0, <3>3, <4>2 DEF TypeOK
    <3> QED BY <1>13, <3>1, <3>2, <3>3 DEF RenewRow
  <2> QED BY <1>2, <2>1, <2>2
<1>14. ASSUME NEW w \in Workers, NEW e \in events, ReceiveEvent(w, e) PROVE DeletionsTrue'
  <2>1. UNCHANGED <<gateway, gatewayId, disturbed>> /\ events' \subseteq events
    BY <1>14 DEF ReceiveEvent, books, row
  <2>2. ASSUME NEW v \in Workers, worker'[v].pc = "event", worker'[v] # worker[v]
        PROVE  /\ Backs(worker[v].gw, worker[v].sub)' /\ gateway'[worker'[v].gw].status = "CANCELLED"
               /\ gatewayId'[worker'[v].sub] = worker'[v].gw
    <3>1. v = w /\ \E s \in Finds(e.gw) :
             /\ e.name = "DELETED" /\ worker'[w] = [pc |-> "event", sub |-> s, gw |-> e.gw]
      <4>1. CASE UNCHANGED worker BY <2>2, <4>1
      <4>2. ASSUME NEW s \in Finds(e.gw), Moves(w, [pc |-> "renew", due |-> Snapshot({s})])
            PROVE  FALSE
        BY <1>0, <2>2, <4>2 DEF Moves, TypeOK
      <4>3. ASSUME NEW s \in Finds(e.gw), Moves(w, [pc |-> "event", sub |-> s, gw |-> e.gw])
            PROVE  v = w /\ worker'[w] = [pc |-> "event", sub |-> s, gw |-> e.gw]
        BY <1>0, <2>2, <4>3 DEF Moves, TypeOK
      <4> QED BY <1>14, <4>1, <4>2, <4>3, Receives
    <3>2. PICK s \in Subs : /\ gatewayId[s] = e.gw
                            /\ worker'[w] = [pc |-> "event", sub |-> s, gw |-> e.gw]
      BY <3>1 DEF Finds
    <3>3. e.gw \in GwSubs /\ e.gw # None BY <1>0, SubscriptionAssumption DEF TypeOK, Event
    <3>4. Backs(e.gw, s) BY <3>2, <3>3 DEF AgreeInv, IInv, ActiveIsBacked
    <3>5. gateway[e.gw].status = "CANCELLED" BY <1>d, <3>1 DEF DeletionsTrue
    <3> QED BY <2>1, <3>1, <3>2, <3>4, <3>5 DEF Backs
  <2> QED BY <1>1, <2>1, <2>2
<1>15. ASSUME NEW w \in Workers, Die(w) PROVE DeletionsTrue'
  <2>1. UNCHANGED <<gateway, gatewayId, events>> /\ disturbed \subseteq disturbed' /\ Finish(w)
    BY <1>15 DEF Die, books, row
  <2> QED BY <1>2, <1>4, <2>1
<1>16. ASSUME UNCHANGED vars PROVE DeletionsTrue'
  BY <1>2, <1>16 DEF vars, books, row
<1> QED
  BY <1>6, <1>7, <1>8, <1>9, <1>10, <1>11, <1>12, <1>13, <1>14, <1>15, <1>16 DEF Next, At

LEMMA StepAgree == AgreeInv /\ [Next]_vars => AgreeInv'
<1> SUFFICES ASSUME AgreeInv, [Next]_vars PROVE AgreeInv'
  OBVIOUS
<1>1. IInv' /\ DeletionsTrue' BY StepIInv, StepDeletions DEF AgreeInv
<1>2. CASE UNCHANGED vars
  <2>1. \A s \in Subs : GatewayKeeps(s) /\ RowKeeps(s)
    BY <1>2 DEF vars, books, row, GatewayKeeps, RowKeeps, Backs, DeletionUnderWay, At
  <2> QED BY <1>1, <1>2, <2>1, RowUntouched DEF AgreeInv, vars, Works
<1>3. CASE Next
  BY <1>1, <1>3, GatewayActsOrderly, TrialsOrderly, StartsOrderly, CreatesOrderly, StoresOrderly,
     FirstPaymentsOrderly, CancelsOrderly, RowWritesOrderly, DeletionOrderly, RenewalsOrderly,
     DeathsOrderly, EventsOrderly DEF Next, At, AgreeInv, AllOrderly
<1> QED BY <1>2, <1>3

\* Whatever the gateway does and however its events arrive, a row whose requests
\* did not overlap or fail is what the gateway bills, under the row's plan.
THEOREM UndisturbedAgrees == Spec => []UndisturbedAgreement
<1>1. AgreeInv => UndisturbedAgreement
  BY DEF AgreeInv, Orderly, Agrees, Billed, UndisturbedAgreement
<1> QED BY <1>1, InitAgree, StepAgree, PTL DEF Spec
=============================================================================
