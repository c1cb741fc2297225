--------------------------- MODULE PaymentProofs ---------------------------
(***************************************************************************)
(* Proofs about Payment: for any number of charges and requests, with or   *)
(* without faults and whatever the order of the events, the books never    *)
(* claim more than the gateway did; with events that come once and in      *)
(* order, they agree with it whenever nothing is under way, whichever      *)
(* other requests were cut short.                                          *)
(***************************************************************************)
EXTENDS Payment, SequenceTheorems, TLAPS

LEMMA RemoveAtType ==
    ASSUME NEW S, NEW s \in Seq(S), NEW i \in 1..Len(s)
    PROVE  RemoveAt(s, i) \in Seq(S)
<1>1. SubSeq(s, 1, i - 1) \in Seq(S)
  <2>1. \A k \in 1..i - 1 : s[k] \in S
    BY ElementOfSeq
  <2>2. QED
    BY <2>1, SubSeqProperties
<1>2. SubSeq(s, i + 1, Len(s)) \in Seq(S)
  <2>1. \A k \in i + 1..Len(s) : s[k] \in S
    BY ElementOfSeq
  <2>2. QED
    BY <2>1, SubSeqProperties
<1>3. QED
  BY <1>1, <1>2, ConcatProperties DEF RemoveAt

-----------------------------------------------------------------------------
(* The inductive invariant: everything that may still be written to the     *)
(* books, by an event or by a request in progress, has its evidence.        *)

JustifiedEvents == {e \in Event : Evidence(e.charge, EventStatus[e.name])}

Justified(r) ==
    /\ r.pc \in {"refund", "insertRefund"} => r.target = "refunded"
    /\ r.op = "cancel" => r.target = "cancelled"
    /\ r.pc = "cancel" => r.op = "cancel"
    /\ r.pc \notin {"refund", "cancel"} => Evidence(r.charge, r.target)
    /\ r.pc = "insertRefund" => r.id \in refunds[r.charge]

BooksInv ==
    /\ TypeOK
    /\ NoPhantomStatus
    /\ RefundsAreBacked
    /\ events \in Seq(JustifiedEvents)
    /\ \A w \in Workers : ~At(w, "idle") => Justified(worker[w])

LEMMA InitBooks == Init => BooksInv
  BY EmptySeq
  DEF Init, BooksInv, TypeOK, NoPhantomStatus, RefundsAreBacked, Idle, At

-----------------------------------------------------------------------------
(* The gateway never takes evidence back. *)

GatewayMoves ==
    /\ gateway' \in [Charges -> GatewayStatus \cup {"none"}]
    /\ refunds' \in [Charges -> SUBSET RefundIds]
    /\ \A g \in Charges :
          /\ refunds[g] \subseteq refunds'[g]
          /\ \A s \in PaymentStatus : Evidence(g, s) => Evidence(g, s)'
    /\ events' \in Seq(JustifiedEvents')

\* Nothing the gateway does invalidates an event already sent.
LEMMA EventsStayJustified ==
    ASSUME TypeOK, events \in Seq(JustifiedEvents),
           \A g \in Charges, s \in PaymentStatus : Evidence(g, s) => Evidence(g, s)'
    PROVE  events \in Seq(JustifiedEvents')
<1>1. \A e \in Event : e.charge \in Charges /\ EventStatus[e.name] \in PaymentStatus
  BY DEF Event, EventStatus, PaymentStatus
<1>2. JustifiedEvents \subseteq JustifiedEvents'
  BY <1>1 DEF JustifiedEvents
<1>3. QED
  BY <1>2, SeqMonotonic

\* A change of status at the gateway that moves forward.
LEMMA SetGatewayMoves ==
    ASSUME BooksInv, NEW g \in Charges, NEW s \in GatewayStatus,
           SetGateway(g, s),
           \/ gateway[g] = "none" /\ s \in {"PENDING", "CONFIRMED"} /\ UNCHANGED refunds
           \/ gateway[g] = "PENDING" /\ s = "OVERDUE" /\ UNCHANGED refunds
           \/ gateway[g] \in {"PENDING", "OVERDUE"} /\ s = "CONFIRMED" /\ UNCHANGED refunds
           \/ gateway[g] = "CONFIRMED" /\ s = "RECEIVED" /\ UNCHANGED refunds
           \/ gateway[g] \in {"PENDING", "OVERDUE"} /\ s = "CANCELLED" /\ UNCHANGED refunds
           \/ /\ gateway[g] \in Paid /\ s = "REFUNDED"
              /\ \E id \in RefundIds : refunds' = [refunds EXCEPT ![g] = @ \cup {id}]
    PROVE  GatewayMoves
<1>1. gateway' = [gateway EXCEPT ![g] = s]
  BY DEF SetGateway
<1>2. TypeOK /\ events \in Seq(JustifiedEvents)
  BY DEF BooksInv
<1>3. /\ gateway' \in [Charges -> GatewayStatus \cup {"none"}]
      /\ refunds' \in [Charges -> SUBSET RefundIds]
  BY <1>1, <1>2 DEF TypeOK
<1>4. \A h \in Charges : refunds[h] \subseteq refunds'[h]
  BY <1>2 DEF TypeOK
<1>5. \A h \in Charges, t \in PaymentStatus : Evidence(h, t) => Evidence(h, t)'
  BY <1>1, <1>2, <1>4 DEF TypeOK, Evidence, Paid
<1>6. events \in Seq(JustifiedEvents')
  BY <1>2, <1>5, EventsStayJustified
<1>7. ASSUME s \in DOMAIN EventStatus
      PROVE  [charge |-> g, name |-> s] \in JustifiedEvents'
  <2>0. \/ s = "CONFIRMED" /\ EventStatus[s] = "confirmed"
        \/ s = "RECEIVED" /\ EventStatus[s] = "received"
        \/ s = "OVERDUE" /\ EventStatus[s] = "overdue"
        \/ s = "REFUNDED" /\ EventStatus[s] = "refunded"
        \/ s = "CANCELLED" /\ EventStatus[s] = "cancelled"
    BY <1>7 DEF EventStatus
  <2>r. s = "REFUNDED" => refunds'[g] # {}
    BY <1>2 DEF TypeOK
  <2>g. gateway'[g] = s
    BY <1>1, <1>2 DEF TypeOK
  <2>1. Evidence(g, EventStatus[s])'
    BY <2>0, <2>r, <2>g DEF Evidence
  <2>2. QED
    BY <2>1, <1>7 DEF JustifiedEvents, Event
<1>8. events' \in Seq(JustifiedEvents')
  BY <1>6, <1>7 DEF SetGateway, Emit
<1>9. QED
  BY <1>3, <1>4, <1>5, <1>8 DEF GatewayMoves

\* Steps that leave the gateway and its events alone.
LEMMA NothingMoves ==
    ASSUME BooksInv, UNCHANGED <<gateway, refunds, events>>
    PROVE  GatewayMoves
<1>1. \A g \in Charges, s \in PaymentStatus : Evidence(g, s) => Evidence(g, s)'
  BY DEF Evidence
<1>2. QED
  BY <1>1, EventsStayJustified DEF BooksInv, TypeOK, GatewayMoves

-----------------------------------------------------------------------------
(* One step *)

\* What a step has to respect: the gateway moves forward, what is written to
\* the books has its evidence, and a request that goes on is justified.
KeepsBooks ==
    /\ GatewayMoves
    /\ customer' \in [Charges -> Customers \cup {Tenant}]
    /\ missed' \subseteq Event
    /\ txn' \in [Charges -> TransactionStatus \cup {"none"}]
    /\ status' \in [Charges -> PaymentStatus \cup {"none"}]
    /\ \A g \in Charges :
          \/ status'[g] = status[g]
          \/ Evidence(g, status[g])'
    /\ refundTxns' \in [Charges -> SUBSET RefundIds]
    /\ \A g \in Charges : refundTxns'[g] \subseteq refundTxns[g] \cup refunds'[g]
    /\ worker' \in [Workers -> Request \cup {Idle}]
    /\ \A w \in Workers :
          \/ worker'[w] = worker[w]
          \/ worker'[w] = Idle
          \/ Justified(worker[w])'

LEMMA KeepingBooks ==
    ASSUME BooksInv, KeepsBooks
    PROVE  BooksInv'
<1>1. TypeOK'
  <2>1. Seq(JustifiedEvents') \subseteq Seq(Event)
    BY SeqMonotonic DEF JustifiedEvents
  <2>2. QED
    BY <2>1 DEF KeepsBooks, GatewayMoves, TypeOK
<1>2. NoPhantomStatus'
  <2>1. ASSUME NEW g \in Charges, status'[g] # "none"
        PROVE  Evidence(g, status[g])'
    <3>1. CASE status'[g] = status[g]
      <4>1. status[g] \in PaymentStatus /\ Evidence(g, status[g])
        BY <2>1, <3>1 DEF BooksInv, TypeOK, NoPhantomStatus
      <4>2. DEFINE t == status[g]
      <4>3. Evidence(g, t)'
        BY <3>1, <4>1 DEF KeepsBooks, GatewayMoves, Evidence
      <4>4. QED
        BY <4>3, <3>1
    <3>2. CASE status'[g] # status[g]
      BY <3>2 DEF KeepsBooks
    <3>3. QED
      BY <3>1, <3>2
  <2>2. QED
    BY <2>1 DEF NoPhantomStatus
<1>3. RefundsAreBacked'
  <2>1. ASSUME NEW g \in Charges
        PROVE  refundTxns'[g] \subseteq refunds'[g]
    BY DEF BooksInv, RefundsAreBacked, KeepsBooks, GatewayMoves
  <2>2. QED
    BY <2>1 DEF RefundsAreBacked
<1>4. events' \in Seq(JustifiedEvents')
  BY DEF KeepsBooks, GatewayMoves
<1>5. ASSUME NEW w \in Workers, (~At(w, "idle"))'
      PROVE  Justified(worker[w])'
  <2>1. CASE worker'[w] = worker[w]
    <3>1. /\ worker[w] \in Request
          /\ Justified(worker[w])
      BY <1>5, <2>1 DEF BooksInv, TypeOK, At, Idle
    <3>2. /\ worker[w].charge \in Charges
          /\ worker[w].target \in PaymentStatus
      BY <3>1 DEF Request
    <3>3. Evidence(worker[w].charge, worker[w].target)
            => Evidence(worker[w].charge, worker[w].target)'
      BY <2>1, <3>2 DEF KeepsBooks, GatewayMoves, Evidence
    <3>4. refunds[worker[w].charge] \subseteq refunds'[worker[w].charge]
      BY <3>2 DEF KeepsBooks, GatewayMoves
    <3>5. QED
      BY <2>1, <3>1, <3>3, <3>4 DEF Justified
  <2>2. CASE worker'[w] = Idle
    BY <1>5, <2>2 DEF At, Idle
  <2>3. QED
    BY <2>1, <2>2 DEF KeepsBooks
<1>6. QED
  BY <1>1, <1>2, <1>3, <1>4, <1>5 DEF BooksInv

\* A request in progress: its record, and what is known of it.
LEMMA Running ==
    ASSUME BooksInv, NEW w \in Workers, ~At(w, "idle")
    PROVE  /\ worker[w] \in Request
           /\ worker[w].charge \in Charges
           /\ worker[w].target \in PaymentStatus
           /\ Justified(worker[w])
  BY DEF BooksInv, TypeOK, At, Idle, Request

LEMMA StepBooks == BooksInv /\ [Next]_vars => BooksInv'
<1> SUFFICES ASSUME BooksInv, [Next]_vars
             PROVE  KeepsBooks
  BY KeepingBooks
<1>t. TypeOK
  BY DEF BooksInv
<1> USE DEF At
<1>1. ASSUME NEW g \in Charges, GatewayAdvances(g)
      PROVE  KeepsBooks
  <2>1. PICK s \in {"CONFIRMED", "RECEIVED", "OVERDUE"} :
           /\ SetGateway(g, s)
           /\ \/ s = "CONFIRMED" /\ gateway[g] \in {"PENDING", "OVERDUE"}
              \/ s = "RECEIVED" /\ gateway[g] = "CONFIRMED"
              \/ s = "OVERDUE" /\ gateway[g] = "PENDING"
    BY <1>1 DEF GatewayAdvances
  <2>2. GatewayMoves
    BY <1>1, <2>1, SetGatewayMoves DEF GatewayAdvances, GatewayStatus
  <2>3. QED
    BY <1>1, <1>t, <2>2 DEF GatewayAdvances, KeepsBooks, TypeOK, rows
<1>2. ASSUME NEW w \in Workers, NEW g \in Charges, NEW c \in Customers,
             NEW s \in {"PENDING", "CONFIRMED"}, CreateCharge(w, g, c, s)
      PROVE  KeepsBooks
  <2>1. GatewayMoves
    BY <1>2, SetGatewayMoves DEF CreateCharge, GatewayStatus
  <2>2. /\ MapAsaasStatus[s] \in PaymentStatus
        /\ Evidence(g, MapAsaasStatus[s])'
    <3>1. gateway'[g] = s
      BY <1>2, <1>t DEF CreateCharge, SetGateway, TypeOK
    <3>2. \/ s = "PENDING" /\ MapAsaasStatus[s] = "pending"
          \/ s = "CONFIRMED" /\ MapAsaasStatus[s] = "confirmed"
      BY DEF MapAsaasStatus
    <3>3. QED
      BY <3>1, <3>2 DEF Evidence, PaymentStatus
  <2>3. CASE UNCHANGED worker
    BY <1>2, <1>t, <2>1, <2>3 DEF CreateCharge, KeepsBooks, TypeOK, rows
  <2>4. CASE Begin(w, "insertPayment", "process", g, MapAsaasStatus[s])
    <3>1. /\ worker' \in [Workers -> Request \cup {Idle}]
          /\ \A v \in Workers : worker'[v] = worker[v] \/ Justified(worker[v])'
      BY <2>2, <2>4, <1>t DEF Begin, Request, Operations, TypeOK, Justified
    <3>2. QED
      BY <1>2, <1>t, <2>1, <3>1 DEF CreateCharge, KeepsBooks, TypeOK, rows
  <2>5. QED
    BY <1>2, <2>3, <2>4 DEF CreateCharge
<1>3. ASSUME NEW w \in Workers, NEW g \in Charges, StartRefund(w, g)
      PROVE  KeepsBooks
  <2>1. GatewayMoves
    BY <1>3, NothingMoves DEF StartRefund, external
  <2>2. /\ worker' \in [Workers -> Request \cup {Idle}]
        /\ \A v \in Workers : worker'[v] = worker[v] \/ Justified(worker[v])'
    BY <1>3, <1>t DEF StartRefund, Begin, Request, Operations, TypeOK, Justified, PaymentStatus
  <2>3. QED
    BY <1>3, <1>t, <2>1, <2>2 DEF StartRefund, KeepsBooks, TypeOK, rows, external
<1>4. ASSUME NEW w \in Workers, NEW g \in Charges, StartCancel(w, g)
      PROVE  KeepsBooks
  <2>1. GatewayMoves
    BY <1>4, NothingMoves DEF StartCancel, external
  <2>2. /\ worker' \in [Workers -> Request \cup {Idle}]
        /\ \A v \in Workers : worker'[v] = worker[v] \/ Justified(worker[v])'
    BY <1>4, <1>t DEF StartCancel, Begin, Request, Operations, TypeOK, Justified, PaymentStatus
  <2>3. QED
    BY <1>4, <1>t, <2>1, <2>2 DEF StartCancel, KeepsBooks, TypeOK, rows, external
<1>5. ASSUME NEW w \in Workers, NEW i \in DOMAIN events, ReceiveEvent(w, i)
      PROVE  KeepsBooks
  <2>1. /\ events \in Seq(JustifiedEvents)
        /\ i \in 1..Len(events)
    BY DEF BooksInv
  <2>2. /\ events[i] \in Event
        /\ Evidence(events[i].charge, EventStatus[events[i].name])
    BY <2>1, ElementOfSeq DEF JustifiedEvents
  <2>3. /\ events[i].charge \in Charges
        /\ EventStatus[events[i].name] \in PaymentStatus
    BY <2>2 DEF Event, EventStatus, PaymentStatus
  <2>4. events' \in Seq(JustifiedEvents)
    BY <1>5, <2>1, RemoveAtType DEF ReceiveEvent
  <2>5. JustifiedEvents' = JustifiedEvents
    BY <1>5 DEF ReceiveEvent, external, JustifiedEvents, Evidence
  <2>6. GatewayMoves
    BY <1>5, <1>t, <2>4, <2>5 DEF ReceiveEvent, external, GatewayMoves, TypeOK, Evidence
  <2>7. /\ worker' \in [Workers -> Request \cup {Idle}]
        /\ \A v \in Workers : worker'[v] = worker[v] \/ Justified(worker[v])'
    <3>1. CASE UNCHANGED worker
      BY <3>1, <1>t DEF TypeOK
    <3>2. CASE Begin(w, "read", "webhook", events[i].charge, EventStatus[events[i].name])
      <4>1. PICK g \in Charges, s \in PaymentStatus :
               /\ g = events[i].charge /\ s = EventStatus[events[i].name]
               /\ Evidence(g, s)
        BY <2>2, <2>3
      <4>2. Evidence(g, s)'
        BY <4>1, <1>5 DEF ReceiveEvent, external, Evidence
      <4>3. worker' = [worker EXCEPT ![w] =
                         [pc |-> "read", op |-> "webhook", charge |-> g,
                          target |-> s, main |-> FALSE, id |-> "none"]]
        BY <3>2, <4>1 DEF Begin
      <4>4. QED
        BY <4>2, <4>3, <1>t DEF Request, Operations, TypeOK, Justified
    <3>3. QED
      BY <1>5, <3>1, <3>2 DEF ReceiveEvent
  <2>8. missed' \subseteq Event
    BY <1>5, <1>t, <2>2 DEF ReceiveEvent, TypeOK
  <2>9. QED
    BY <1>5, <1>t, <2>6, <2>7, <2>8 DEF ReceiveEvent, KeepsBooks, TypeOK, rows, external
<1>6. ASSUME NEW w \in Workers, InsertPayment(w)
      PROVE  KeepsBooks
  <2>1. GatewayMoves
    BY <1>6, NothingMoves DEF InsertPayment, external
  <2>2. /\ worker[w] \in Request
        /\ Justified(worker[w])
        /\ worker[w].pc = "insertPayment"
    BY <1>6, Running DEF InsertPayment
  <2>3. Evidence(worker[w].charge, worker[w].target)
    BY <2>2 DEF Justified
  <2>4. Evidence(worker[w].charge, worker[w].target)
          => \A g \in Charges : status'[g] = status[g] \/ Evidence(g, status[g])'
    BY <1>6, <1>t, <2>2 DEF InsertPayment, TypeOK, Request, Evidence, external
  <2>5. /\ worker'[w] = [worker[w] EXCEPT !.pc = "insertTransaction"]
        /\ \A v \in Workers \ {w} : worker'[v] = worker[v]
        /\ worker' \in [Workers -> Request \cup {Idle}]
    BY <1>6, <1>t, <2>2 DEF InsertPayment, Goto, TypeOK, Request
  <2>6. Justified(worker[w])'
    BY <1>6, <2>2, <2>3, <2>5 DEF Justified, InsertPayment, Evidence, Request, external
  <2>7. QED
    BY <1>6, <1>t, <2>1, <2>2, <2>3, <2>4, <2>5, <2>6
    DEF InsertPayment, KeepsBooks, TypeOK, external, Request
<1>7. ASSUME NEW w \in Workers, InsertTransaction(w)
      PROVE  KeepsBooks
  <2>1. GatewayMoves
    BY <1>7, NothingMoves DEF InsertTransaction, external
  <2>2. /\ worker' \in [Workers -> Request \cup {Idle}]
        /\ \A v \in Workers : worker'[v] = worker[v] \/ worker'[v] = Idle
    BY <1>7, <1>t DEF InsertTransaction, Finish, TypeOK
  <2>3. QED
    BY <1>7, <1>t, <2>1, <2>2
    DEF InsertTransaction, KeepsBooks, TypeOK, external, TransactionStatus
<1>8. ASSUME NEW w \in Workers, GatewayRefund(w)
      PROVE  KeepsBooks
  <2>1. /\ worker[w] \in Request /\ worker[w].charge \in Charges
        /\ Justified(worker[w]) /\ worker[w].pc = "refund"
    BY <1>8, Running DEF GatewayRefund
  <2>2. worker[w].target = "refunded"
    BY <2>1 DEF Justified
  <2>3. CASE UNCHANGED <<external, events>> /\ Finish(w)
    <3>1. GatewayMoves
      BY <2>3, NothingMoves DEF external
    <3>2. /\ worker' \in [Workers -> Request \cup {Idle}]
          /\ \A v \in Workers : worker'[v] = worker[v] \/ worker'[v] = Idle
      BY <2>3, <1>t DEF Finish, TypeOK
    <3>3. QED
      BY <1>8, <1>t, <2>3, <3>1, <3>2 DEF GatewayRefund, KeepsBooks, TypeOK, rows, external
  <2>4. ASSUME NEW id \in RefundIds,
               MakesRefund(worker[w].charge, id), Answered(w, id) \/ Finish(w)
        PROVE  KeepsBooks
    <3>1. PICK g \in Charges : g = worker[w].charge
      BY <2>1
    <3>2. /\ MakesRefund(g, id)
          /\ refunds' = [refunds EXCEPT ![g] = @ \cup {id}]
          /\ gateway[g] \in Paid
      BY <2>4, <3>1 DEF MakesRefund
    <3>3. GatewayMoves
      <4>1. CASE SetGateway(g, "REFUNDED")
        BY <3>2, <4>1, SetGatewayMoves DEF GatewayStatus
      <4>2. CASE UNCHANGED <<gateway, events>>
        <5>1. \A h \in Charges, s \in PaymentStatus : Evidence(h, s) => Evidence(h, s)'
          BY <3>2, <4>2, <1>t DEF Evidence, TypeOK
        <5>2. events \in Seq(JustifiedEvents')
          BY <5>1, <1>t, EventsStayJustified DEF BooksInv
        <5>3. QED
          BY <3>2, <4>2, <5>1, <5>2, <1>t DEF GatewayMoves, TypeOK
      <4>3. QED
        BY <3>2, <4>1, <4>2 DEF MakesRefund
    <3>4. Evidence(g, "refunded")' /\ id \in refunds'[g]
      BY <3>2, <1>t DEF Evidence, MakesRefund, SetGateway, TypeOK, Paid
    <3>5. /\ worker' \in [Workers -> Request \cup {Idle}]
          /\ \A v \in Workers : \/ worker'[v] = worker[v]
                                 \/ worker'[v] = Idle
                                 \/ Justified(worker[v])'
      <4>1. CASE Finish(w)
        BY <4>1, <1>t DEF Finish, TypeOK
      <4>2. CASE Answered(w, id)
        <5>1. /\ worker'[w] = [worker[w] EXCEPT !.pc = "insertRefund", !.id = id]
              /\ \A v \in Workers \ {w} : worker'[v] = worker[v]
              /\ worker' \in [Workers -> Request \cup {Idle}]
          BY <4>2, <2>1, <1>t DEF Answered, TypeOK, Request
        <5>2. /\ worker'[w].pc = "insertRefund" /\ worker'[w].id = id
              /\ worker'[w].charge = g /\ worker'[w].target = "refunded"
              /\ worker'[w].op = worker[w].op
          BY <5>1, <2>1, <2>2, <3>1 DEF Request
        <5>3. Justified(worker[w])'
          BY <5>2, <3>4, <2>1, <2>2 DEF Justified
        <5>4. QED
          BY <5>1, <5>3
      <4>3. QED
        BY <2>4, <4>1, <4>2
    <3>6. QED
      BY <1>8, <1>t, <3>2, <3>3, <3>5
      DEF GatewayRefund, MakesRefund, KeepsBooks, TypeOK, rows
  <2>5. QED
    BY <1>8, <2>3, <2>4 DEF GatewayRefund
<1>9. ASSUME NEW w \in Workers, InsertRefund(w)
      PROVE  KeepsBooks
  <2>1. /\ worker[w] \in Request /\ worker[w].charge \in Charges
        /\ Justified(worker[w]) /\ worker[w].pc = "insertRefund"
    BY <1>9, Running DEF InsertRefund
  <2>2. GatewayMoves
    BY <1>9, NothingMoves DEF InsertRefund, external
  <2>3. worker[w].id \in refunds[worker[w].charge] /\ worker[w].id \in RefundIds
    BY <2>1, <1>t DEF Justified, TypeOK
  <2>4. /\ refundTxns' \in [Charges -> SUBSET RefundIds]
        /\ \A g \in Charges : refundTxns'[g] \subseteq refundTxns[g] \cup refunds'[g]
    BY <1>9, <1>t, <2>1, <2>3 DEF InsertRefund, external, TypeOK
  <2>5. /\ worker'[w] = [worker[w] EXCEPT !.pc = "read"]
        /\ \A v \in Workers \ {w} : worker'[v] = worker[v]
        /\ worker' \in [Workers -> Request \cup {Idle}]
    BY <1>9, <1>t, <2>1 DEF InsertRefund, Goto, TypeOK, Request
  <2>6. Justified(worker[w])'
    BY <1>9, <2>1, <2>5 DEF Justified, InsertRefund, Evidence, Request, external
  <2>7. QED
    BY <1>9, <1>t, <2>2, <2>4, <2>5, <2>6 DEF InsertRefund, KeepsBooks, TypeOK, external
<1>10. ASSUME NEW w \in Workers, GatewayCancel(w)
       PROVE  KeepsBooks
  <2>1. /\ worker[w] \in Request /\ worker[w].charge \in Charges
        /\ Justified(worker[w]) /\ worker[w].pc = "cancel"
    BY <1>10, Running DEF GatewayCancel
  <2>2. worker[w].target = "cancelled" /\ worker[w].op = "cancel"
    BY <2>1 DEF Justified
  <2>3. CASE UNCHANGED <<external, events>> /\ Finish(w)
    <3>1. GatewayMoves
      BY <2>3, NothingMoves DEF external
    <3>2. /\ worker' \in [Workers -> Request \cup {Idle}]
          /\ \A v \in Workers : worker'[v] = worker[v] \/ worker'[v] = Idle
      BY <2>3, <1>t DEF Finish, TypeOK
    <3>3. QED
      BY <1>10, <1>t, <2>3, <3>1, <3>2 DEF GatewayCancel, KeepsBooks, TypeOK, rows, external
  <2>4. CASE CancelsCharge(worker[w].charge) /\ (Goto(w, "read") \/ Finish(w))
    <3>1. PICK g \in Charges : g = worker[w].charge
      BY <2>1
    <3>2. GatewayMoves
      BY <2>4, <3>1, SetGatewayMoves DEF CancelsCharge, GatewayStatus
    <3>3. Evidence(g, "cancelled")'
      BY <2>4, <3>1, <1>t DEF CancelsCharge, SetGateway, Evidence, TypeOK
    <3>4. /\ worker' \in [Workers -> Request \cup {Idle}]
          /\ \A v \in Workers : \/ worker'[v] = worker[v]
                                 \/ worker'[v] = Idle
                                 \/ Justified(worker[v])'
      <4>1. CASE Finish(w)
        BY <4>1, <1>t DEF Finish, TypeOK
      <4>2. CASE Goto(w, "read")
        <5>1. /\ worker'[w] = [worker[w] EXCEPT !.pc = "read"]
              /\ \A v \in Workers \ {w} : worker'[v] = worker[v]
              /\ worker' \in [Workers -> Request \cup {Idle}]
          BY <4>2, <2>1, <1>t DEF Goto, TypeOK, Request
        <5>2. /\ worker'[w].pc = "read" /\ worker'[w].op = "cancel"
              /\ worker'[w].charge = g /\ worker'[w].target = "cancelled"
          BY <5>1, <2>1, <2>2, <3>1 DEF Request
        <5>3. Justified(worker[w])'
          BY <5>2, <3>3 DEF Justified
        <5>4. QED
          BY <5>1, <5>3
      <4>3. QED
        BY <2>4, <4>1, <4>2
    <3>5. QED
      BY <1>10, <1>t, <2>4, <3>2, <3>4
      DEF GatewayCancel, CancelsCharge, KeepsBooks, TypeOK, rows
  <2>5. QED
    BY <1>10, <2>3, <2>4 DEF GatewayCancel
<1>11. ASSUME NEW w \in Workers, ReadPayment(w)
       PROVE  KeepsBooks
  <2>1. /\ worker[w] \in Request /\ Justified(worker[w]) /\ worker[w].pc = "read"
    BY <1>11, Running DEF ReadPayment
  <2>2. GatewayMoves
    BY <1>11, NothingMoves DEF ReadPayment, external
  <2>3. /\ worker' \in [Workers -> Request \cup {Idle}]
        /\ \A v \in Workers : \/ worker'[v] = worker[v]
                               \/ worker'[v] = Idle
                               \/ Justified(worker[v])'
    <3>1. CASE Finish(w)
      BY <3>1, <1>t DEF Finish, TypeOK
    <3>3. CASE Differs(w)
      <4>1. PICK b \in BOOLEAN : b = (txn[worker[w].charge] # "none")
        OBVIOUS
      <4>2. worker' = [worker EXCEPT ![w] = [@ EXCEPT !.pc = "write", !.main = b]]
        BY <3>3, <4>1 DEF Differs
      <4>3. /\ worker'[w] = [worker[w] EXCEPT !.pc = "write", !.main = b]
            /\ \A v \in Workers \ {w} : worker'[v] = worker[v]
            /\ worker' \in [Workers -> Request \cup {Idle}]
        BY <4>2, <2>1, <1>t DEF TypeOK, Request
      <4>4. Justified(worker[w])'
        BY <1>11, <2>1, <4>3 DEF Justified, ReadPayment, Evidence, Request, external
      <4>5. QED
        BY <4>3, <4>4
    <3>4. QED
      BY <1>11, <3>1, <3>3 DEF ReadPayment, Return
  <2>4. QED
    BY <1>11, <1>t, <2>2, <2>3 DEF ReadPayment, KeepsBooks, TypeOK, rows, external
<1>12. ASSUME NEW w \in Workers, Goto(w, "transaction"),
              UNCHANGED <<external, events>>, worker[w].pc = "write"
       PROVE  /\ worker' \in [Workers -> Request \cup {Idle}]
              /\ \A v \in Workers : worker'[v] = worker[v] \/ Justified(worker[v])'
  <2>1. worker[w] \in Request /\ Justified(worker[w])
    BY <1>12, Running
  <2>2. /\ worker'[w] = [worker[w] EXCEPT !.pc = "transaction"]
        /\ \A v \in Workers \ {w} : worker'[v] = worker[v]
        /\ worker' \in [Workers -> Request \cup {Idle}]
    BY <1>12, <2>1, <1>t DEF Goto, TypeOK, Request
  <2>3. Justified(worker[w])'
    BY <1>12, <2>1, <2>2 DEF Justified, Evidence, Request, external
  <2>4. QED
    BY <2>2, <2>3
<1>13. ASSUME NEW w \in Workers, Finish(w)
       PROVE  /\ worker' \in [Workers -> Request \cup {Idle}]
              /\ \A v \in Workers : worker'[v] = worker[v] \/ worker'[v] = Idle
  BY <1>13, <1>t DEF Finish, TypeOK
<1>14. ASSUME NEW w \in Workers, WritePayment(w)
       PROVE  KeepsBooks
  <2>1. GatewayMoves
    BY <1>14, NothingMoves DEF WritePayment, external
  <2>2. /\ worker[w] \in Request /\ Justified(worker[w]) /\ worker[w].pc = "write"
    BY <1>14, Running DEF WritePayment
  <2>3. Evidence(worker[w].charge, worker[w].target)
    BY <2>2 DEF Justified
  <2>4. /\ status' \in [Charges -> PaymentStatus \cup {"none"}]
        /\ \A g \in Charges : status'[g] = status[g] \/ Evidence(g, status[g])'
    BY <1>14, <1>t, <2>2, <2>3 DEF WritePayment, TypeOK, Request, Evidence, external
  <2>5. Finish(w) \/ Goto(w, "transaction")
    BY <1>14 DEF WritePayment, Return
  <2>6. /\ worker' \in [Workers -> Request \cup {Idle}]
        /\ \A v \in Workers : \/ worker'[v] = worker[v]
                               \/ worker'[v] = Idle
                               \/ Justified(worker[v])'
    BY <1>12, <1>13, <1>14, <2>2, <2>5 DEF WritePayment
  <2>7. QED
    BY <1>14, <1>t, <2>1, <2>4, <2>6 DEF WritePayment, KeepsBooks, TypeOK, external
<1>15. ASSUME NEW w \in Workers, WriteTransaction(w)
       PROVE  KeepsBooks
  <2>1. GatewayMoves
    BY <1>15, NothingMoves DEF WriteTransaction, external
  <2>2. /\ worker[w] \in Request /\ worker[w].pc = "transaction"
    BY <1>15, Running DEF WriteTransaction
  <2>3. txn' \in [Charges -> TransactionStatus \cup {"none"}]
    BY <1>15, <1>t, <2>2 DEF WriteTransaction, TypeOK, Request
  <2>4. Finish(w)
    BY <1>15 DEF WriteTransaction, Return
  <2>5. /\ worker' \in [Workers -> Request \cup {Idle}]
        /\ \A v \in Workers : \/ worker'[v] = worker[v]
                               \/ worker'[v] = Idle
                               \/ Justified(worker[v])'
    BY <1>13, <2>4
  <2>6. QED
    BY <1>15, <1>t, <2>1, <2>3, <2>5 DEF WriteTransaction, KeepsBooks, TypeOK, external
<1>16. ASSUME NEW w \in Workers, Die(w)
       PROVE  KeepsBooks
  <2>1. GatewayMoves
    BY <1>16, NothingMoves DEF Die, external
  <2>2. QED
    BY <1>13, <1>16, <1>t, <2>1 DEF Die, KeepsBooks, TypeOK, external, rows
<1>17. CASE UNCHANGED vars
  <2>1. GatewayMoves
    BY <1>17, NothingMoves DEF vars, external
  <2>2. QED
    BY <1>17, <1>t, <2>1 DEF KeepsBooks, TypeOK, vars, external, rows
<1>18. QED
  BY <1>1, <1>2, <1>3, <1>4, <1>5, <1>6, <1>7, <1>8, <1>9, <1>10, <1>11,
     <1>14, <1>15, <1>16, <1>17 DEF Next

LEMMA SpecBooks == Spec => []BooksInv
  BY InitBooks, StepBooks, PTL DEF Spec

\* The columns of payments and transactions only ever hold values of their
\* enums, and a request inserts a REFUND transaction only with an id the
\* gateway answered with, for every number of charges and concurrent requests.
THEOREM PaymentTypeCorrect == Spec => []TypeOK
<1>1. BooksInv => TypeOK
  BY DEF BooksInv
<1>2. QED
  BY <1>1, SpecBooks, PTL

\* updateStatus, refundPayment and cancelPayment, interleaved with webhooks in
\* any order, repeated or lost, and cut short anywhere, never record a
\* confirmation, refund or cancellation that did not happen at the gateway.
THEOREM NeverPhantom == Spec => []NoPhantomStatus
<1>1. BooksInv => NoPhantomStatus
  BY DEF BooksInv
<1>2. QED
  BY <1>1, SpecBooks, PTL

\* createRefundTransaction only ever books a refund that the gateway made of
\* the charge of that payment.
THEOREM RefundsCorrect == Spec => []RefundsAreBacked
<1>1. BooksInv => RefundsAreBacked
  BY DEF BooksInv
<1>2. QED
  BY <1>1, SpecBooks, PTL

-----------------------------------------------------------------------------
(* SettledAgreement: with dependable events, what will make the row agree   *)
(* is always still to come, whatever other requests die.                    *)

Queued(g) == \E i \in DOMAIN events : events[i].charge = g

\* The last event under way for a charge tells its present status.
LastEventsTrue ==
    \A i \in DOMAIN events :
        (\A j \in DOMAIN events : j > i => events[j].charge # events[i].charge)
            => events[i].name = gateway[events[i].charge]

\* A webhook that may still write, and which charge it is about.
Handling(w) == worker[w].pc \in {"read", "write"} /\ worker[w].op = "webhook"
Handles(w, g) == Handling(w) /\ worker[w].charge = g

HandledTrue ==
    \A w \in Workers, g \in Charges :
        Handles(w, g) /\ ~Queued(g) => worker[w].target = MapAsaasStatus[gateway[g]]

Missed(g) == \E e \in missed : e.charge = g
Excused(g) == Missed(g) \/ (refunds[g] # {} /\ gateway[g] # "REFUNDED")

RowsFollow ==
    \A g \in Charges : status[g] # "none" =>
        \/ Excused(g) \/ Queued(g)
        \/ \E w \in Workers : Handles(w, g)
        \/ status[g] = MapAsaasStatus[gateway[g]]

\* A charge that moved on before its row was inserted has told so.
RowlessTold ==
    \A g \in Charges : status[g] = "none" /\ gateway[g] \notin {"none", "PENDING"} =>
        Queued(g) \/ Missed(g)

InsertsFresh ==
    \A w \in Workers : At(w, "insertPayment") =>
        /\ status[worker[w].charge] = "none"
        /\ gateway[worker[w].charge] = "PENDING" => worker[w].target = "pending"
        /\ \A v \in Workers :
              At(v, "insertPayment") /\ worker[v].charge = worker[w].charge => v = w

Orderly(r) ==
    /\ r.op = "process" => r.pc \in {"insertPayment", "insertTransaction"}
    /\ r.op = "refund" => r.target = "refunded"
    /\ r.op = "webhook" => r.pc \in {"read", "write", "transaction"}

RequestsOrderly == \A w \in Workers : ~At(w, "idle") => Orderly(worker[w])

\* Only the request that makes a payment runs before there is a row.
RowsThere ==
    \A w \in Workers : ~At(w, "idle") =>
        worker[w].op = "process" \/ status[worker[w].charge] # "none"

OrderedInv ==
    /\ LastEventsTrue /\ HandledTrue /\ RowsFollow /\ RowlessTold
    /\ InsertsFresh /\ RequestsOrderly

SettledInv == BooksInv /\ RowsThere /\ (Dependable => OrderedInv)

LEMMA InitSettled == Init => SettledInv
<1> SUFFICES ASSUME Init PROVE SettledInv
  OBVIOUS
<1>1. BooksInv BY InitBooks
<1>2. DOMAIN events = {} /\ \A w \in Workers : At(w, "idle")
  BY DEF Init, At, Idle
<1>3. OrderedInv
  BY <1>2 DEF Init, OrderedInv, LastEventsTrue, HandledTrue, Handles, Handling, RowsFollow,
     RowlessTold, InsertsFresh, RequestsOrderly, At
<1> QED BY <1>1, <1>2, <1>3 DEF SettledInv, RowsThere

\* The events, as the invariants of BooksInv have them.
LEMMA QueueFacts ==
    ASSUME BooksInv
    PROVE  /\ DOMAIN events = 1..Len(events) /\ Len(events) \in Nat
           /\ \A i \in DOMAIN events :
                 /\ events[i] \in Event /\ events[i].charge \in Charges
                 /\ Evidence(events[i].charge, EventStatus[events[i].name])
<1>1. events \in Seq(JustifiedEvents) BY DEF BooksInv
<1>2. \A i \in 1..Len(events) : events[i] \in JustifiedEvents BY <1>1, ElementOfSeq
<1> QED BY <1>1, <1>2 DEF JustifiedEvents, Event

\* A change of status at the gateway and what it tells.
LEMMA Emission ==
    ASSUME BooksInv, LastEventsTrue, NEW g \in Charges, NEW s \in GatewayStatus,
           SetGateway(g, s),
           gateway[g] = "none" \/ s \in DOMAIN EventStatus
    PROVE  /\ LastEventsTrue'
           /\ \A h \in Charges : Queued(h) => Queued(h)'
           /\ s # "PENDING" => Queued(g)'
<1>t. /\ gateway' = [gateway EXCEPT ![g] = s]
      /\ gateway \in [Charges -> GatewayStatus \cup {"none"}]
      /\ events \in Seq(Event)
  BY DEF SetGateway, BooksInv, TypeOK
<1>1. CASE s \in DOMAIN EventStatus
  <2> DEFINE e == [charge |-> g, name |-> s]
  <2>1. events' = Append(events, e) BY <1>1 DEF SetGateway, Emit
  <2>2. e \in Event BY <1>1 DEF Event
  <2>3. /\ Len(events') = Len(events) + 1
        /\ DOMAIN events' = 1..Len(events) + 1
        /\ \A i \in 1..Len(events) : events'[i] = events[i]
        /\ events'[Len(events) + 1] = e
    BY <1>t, <2>1, <2>2, AppendProperties
  <2>4. e.charge = g /\ e.name = s OBVIOUS
  <2> HIDE DEF e
  <2>5. Queued(g)' /\ \A h \in Charges : Queued(h) => Queued(h)'
    BY <2>3, <2>4, QueueFacts DEF Queued
  <2>6. ASSUME NEW i \in DOMAIN events',
               \A j \in DOMAIN events' : j > i => events'[j].charge # events'[i].charge
        PROVE  events'[i].name = gateway'[events'[i].charge]
    <3>1. CASE i = Len(events) + 1 BY <1>t, <2>3, <2>4, <3>1
    <3>2. CASE i # Len(events) + 1
      <4>1. i \in DOMAIN events /\ events'[i] = events[i] /\ events[i].charge \in Charges
        BY <2>3, <3>2, QueueFacts
      <4>2. events[i].charge # g
        BY <2>3, <2>4, <2>6, <4>1, QueueFacts
      <4>3. \A j \in DOMAIN events : j > i => events[j].charge # events[i].charge
        BY <2>3, <2>6, <4>1, QueueFacts
      <4> QED BY <1>t, <4>1, <4>2, <4>3 DEF LastEventsTrue
    <3> QED BY <3>1, <3>2
  <2> QED BY <2>5, <2>6 DEF LastEventsTrue
<1>2. CASE s \notin DOMAIN EventStatus
  <2>1. s = "PENDING" /\ gateway[g] = "none" BY <1>2 DEF GatewayStatus, EventStatus
  <2>2. events' = events BY <1>2 DEF SetGateway, Emit
  <2>3. \A i \in DOMAIN events : events[i].charge # g BY <2>1, QueueFacts DEF Evidence
  <2> QED BY <1>t, <2>1, <2>2, <2>3, QueueFacts DEF LastEventsTrue, Queued
<1> QED BY <1>1, <1>2

\* A request that is changed by a step was no webhook about to write, and is
\* none afterwards.
Unhurried ==
    \A v \in Workers : worker'[v] # worker[v] =>
        /\ ~Handling(v) /\ ~Handling(v)'
        /\ (~At(v, "idle"))' => Orderly(worker[v])'

LEMMA GatewayStep ==
    ASSUME BooksInv, OrderedInv, NEW g \in Charges, NEW s \in GatewayStatus, SetGateway(g, s),
           gateway[g] = "none" \/ s \in DOMAIN EventStatus,
           \A h \in Charges \ {g} : refunds'[h] = refunds[h],
           UNCHANGED <<status, missed>>, Unhurried
    PROVE  LastEventsTrue' /\ HandledTrue' /\ RowsFollow' /\ RowlessTold' /\ RequestsOrderly'
<1>t. /\ gateway' = [gateway EXCEPT ![g] = s]
      /\ gateway \in [Charges -> GatewayStatus \cup {"none"}]
      /\ worker \in [Workers -> Request \cup {Idle}]
  BY DEF SetGateway, BooksInv, TypeOK
<1>1. /\ LastEventsTrue'
      /\ \A h \in Charges : Queued(h) => Queued(h)'
      /\ s # "PENDING" => Queued(g)'
  BY Emission DEF OrderedInv
<1>2. \A v \in Workers, h \in Charges :
         /\ Handles(v, h)' <=> Handles(v, h)
         /\ Handles(v, h) => worker'[v] = worker[v] /\ gateway[h] # "none"
  <2>1. ASSUME NEW v \in Workers, NEW h \in Charges, Handles(v, h)
        PROVE  gateway[h] # "none"
    BY <2>1, Running DEF Handles, Handling, Justified, Evidence, At
  <2> QED BY <2>1 DEF Unhurried, Handles, Handling
<1>3. HandledTrue'
  <2> SUFFICES ASSUME NEW v \in Workers, NEW h \in Charges, Handles(v, h)', ~Queued(h)'
               PROVE  worker'[v].target = MapAsaasStatus[gateway'[h]]
    BY DEF HandledTrue
  <2>1. Handles(v, h) /\ ~Queued(h) /\ worker'[v] = worker[v] /\ gateway[h] # "none"
    BY <1>1, <1>2
  <2>2. h # g
    BY <1>1, <2>1 DEF EventStatus
  <2> QED BY <1>t, <2>1, <2>2 DEF OrderedInv, HandledTrue
<1>4. RowsFollow'
  <2> SUFFICES ASSUME NEW h \in Charges, status'[h] # "none",
                      ~Excused(h)', ~Queued(h)', \A w \in Workers : ~Handles(w, h)'
               PROVE  status'[h] = MapAsaasStatus[gateway'[h]]
    BY DEF RowsFollow
  <2>1. CASE h = g
    <3>1. s = "PENDING" /\ gateway[g] = "none"
      BY <1>1, <2>1 DEF EventStatus
    <3> QED BY <2>1, <3>1 DEF BooksInv, NoPhantomStatus, Evidence
  <2>2. CASE h # g
    <3>1. gateway'[h] = gateway[h] /\ ~Excused(h) /\ ~Queued(h) /\ \A w \in Workers : ~Handles(w, h)
      BY <1>t, <1>1, <1>2, <2>2 DEF Excused, Missed
    <3> QED BY <3>1 DEF OrderedInv, RowsFollow
  <2> QED BY <2>1, <2>2
<1>5. RowlessTold'
  BY <1>t, <1>1 DEF OrderedInv, RowlessTold, Missed
<1>6. RequestsOrderly'
  BY DEF Unhurried, RequestsOrderly, OrderedInv, At
<1> QED BY <1>1, <1>3, <1>4, <1>5, <1>6

\* The same for requests about to insert a payment: none begins.
LEMMA InsertsStayFresh ==
    ASSUME BooksInv, OrderedInv, UNCHANGED status,
           \A h \in Charges :
              gateway[h] # "none" /\ gateway'[h] = "PENDING" => gateway[h] = "PENDING",
           \A v \in Workers : worker'[v] # worker[v] => worker'[v].pc # "insertPayment"
    PROVE  InsertsFresh'
<1> SUFFICES ASSUME NEW w \in Workers, At(w, "insertPayment")'
             PROVE  /\ status'[worker'[w].charge] = "none"
                    /\ gateway'[worker'[w].charge] = "PENDING" => worker'[w].target = "pending"
                    /\ \A v \in Workers : At(v, "insertPayment")'
                          /\ worker'[v].charge = worker'[w].charge => v = w
  BY DEF InsertsFresh
<1>1. worker'[w] = worker[w] /\ At(w, "insertPayment") BY DEF At
<1>2. worker[w].charge \in Charges /\ gateway[worker[w].charge] # "none"
  BY <1>1, Running DEF Justified, Evidence, At
<1> QED BY <1>1, <1>2 DEF At, OrderedInv, InsertsFresh

\* A step of requests alone.
LEMMA WorkerStep ==
    ASSUME BooksInv, OrderedInv, UNCHANGED <<gateway, refunds, events, status, missed>>, Unhurried,
           \A v \in Workers : worker'[v] # worker[v] => worker'[v].pc # "insertPayment"
    PROVE  OrderedInv'
<1>1. \A v \in Workers, h \in Charges :
         /\ Handles(v, h)' <=> Handles(v, h)
         /\ Handles(v, h) => worker'[v] = worker[v]
  BY DEF Unhurried, Handles, Handling
<1>2. LastEventsTrue' BY DEF OrderedInv, LastEventsTrue
<1>3. HandledTrue' BY <1>1 DEF OrderedInv, HandledTrue, Queued
<1>4. RowsFollow' BY <1>1 DEF OrderedInv, RowsFollow, Excused, Missed, Queued
<1>5. RowlessTold' BY DEF OrderedInv, RowlessTold, Missed, Queued
<1>6. InsertsFresh' BY InsertsStayFresh
<1>7. RequestsOrderly' BY DEF Unhurried, RequestsOrderly, OrderedInv, At
<1> QED BY <1>2, <1>3, <1>4, <1>5, <1>6, <1>7 DEF OrderedInv

LEMMA OrderlyStay ==
    ASSUME OrderedInv, \A v \in Workers : \/ worker'[v] = worker[v] \/ worker'[v] = Idle
                                           \/ Orderly(worker'[v])
    PROVE  RequestsOrderly'
BY DEF OrderedInv, RequestsOrderly, Orderly, At, Idle

\* A request that goes on keeps its operation, its charge and its target.
Continues(w) ==
    /\ \A v \in Workers \ {w} : worker'[v] = worker[v]
    /\ \/ worker'[w] = Idle
       \/ /\ worker'[w].op = worker[w].op /\ worker'[w].charge = worker[w].charge
          /\ worker'[w].target = worker[w].target

LEMMA GoesOn ==
    ASSUME BooksInv, NEW w \in Workers, ~At(w, "idle"), NEW pc, Finish(w) \/ Goto(w, pc)
    PROVE  Continues(w)
<1>1. worker[w] \in Request /\ worker \in [Workers -> Request \cup {Idle}]
  BY Running DEF BooksInv, TypeOK
<1>2. PICK q : /\ worker' = [worker EXCEPT ![w] = q]
               /\ q = Idle \/ q = [worker[w] EXCEPT !.pc = pc]
  BY <1>1 DEF Finish, Goto
<1>3. q = Idle \/ (q.op = worker[w].op /\ q.charge = worker[w].charge
                  /\ q.target = worker[w].target)
  BY <1>1, <1>2 DEF Request
<1>4. worker'[w] = q /\ \A v \in Workers \ {w} : worker'[v] = worker[v] BY <1>1, <1>2
<1> QED BY <1>3, <1>4 DEF Continues

LEMMA StepsContinue ==
    ASSUME BooksInv, NEW w \in Workers, Step(w) \/ Die(w)
    PROVE  ~At(w, "idle") /\ Continues(w)
<1>1. ~At(w, "idle")
  BY DEF Step, InsertPayment, InsertTransaction, GatewayRefund, InsertRefund, GatewayCancel,
     ReadPayment, WritePayment, WriteTransaction, Die, At
<1>2. worker[w] \in Request /\ worker \in [Workers -> Request \cup {Idle}]
  BY <1>1, Running DEF BooksInv, TypeOK
<1>3. CASE GatewayRefund(w)
  <2>1. ASSUME NEW id \in RefundIds, Answered(w, id) PROVE Continues(w)
    <3>1. PICK q : q = [worker[w] EXCEPT !.pc = "insertRefund", !.id = id]
      OBVIOUS
    <3>2. worker' = [worker EXCEPT ![w] = q] BY <2>1, <3>1 DEF Answered
    <3>3. worker'[w] = q /\ \A v \in Workers \ {w} : worker'[v] = worker[v] BY <1>2, <3>2
    <3>4. q.op = worker[w].op /\ q.charge = worker[w].charge /\ q.target = worker[w].target
      BY <1>2, <3>1 DEF Request
    <3> QED BY <3>3, <3>4 DEF Continues
  <2>2. CASE Finish(w) BY <1>1, <2>2, GoesOn
  <2> QED BY <1>1, <1>3, <2>1, <2>2 DEF GatewayRefund
<1>4. CASE ReadPayment(w)
  <2>1. CASE Return(w) BY <1>1, <2>1, GoesOn DEF Return
  <2>2. CASE Differs(w)
    <3>1. PICK b : b = (txn[worker[w].charge] # "none")
      OBVIOUS
    <3>2. PICK q : q = [worker[w] EXCEPT !.pc = "write", !.main = b]
      OBVIOUS
    <3>3. worker' = [worker EXCEPT ![w] = q] BY <2>2, <3>1, <3>2 DEF Differs
    <3>4. worker'[w] = q /\ \A v \in Workers \ {w} : worker'[v] = worker[v] BY <1>2, <3>3
    <3>5. q.op = worker[w].op /\ q.charge = worker[w].charge /\ q.target = worker[w].target
      BY <1>2, <3>2 DEF Request
    <3> QED BY <1>1, <3>4, <3>5 DEF Continues
  <2> QED BY <1>4, <2>1, <2>2 DEF ReadPayment
<1>5. CASE ~GatewayRefund(w) /\ ~ReadPayment(w)
  <2>1. Finish(w) \/ \E pc : Goto(w, pc)
    BY <1>5 DEF Step, InsertPayment, InsertTransaction, InsertRefund, GatewayCancel,
       WritePayment, WriteTransaction, Die, Return
  <2> QED BY <1>1, <2>1, GoesOn
<1> QED BY <1>1, <1>3, <1>4, <1>5

LEMMA StepRows == BooksInv /\ RowsThere /\ [Next]_vars => RowsThere'
<1> SUFFICES ASSUME BooksInv, RowsThere, [Next]_vars PROVE RowsThere'
  OBVIOUS
<1>t. TypeOK BY DEF BooksInv
<1> DEFINE Stays == \A g \in Charges : status[g] # "none" => status'[g] # "none"
           Has(w) == \/ worker'[w] = worker[w] \/ worker'[w] = Idle
                     \/ worker'[w].op = "process"
                     \/ status[worker'[w].charge] # "none" /\ worker'[w].charge \in Charges
<1>1. SUFFICES ASSUME TRUE PROVE Stays /\ \A w \in Workers : Has(w)
  BY Running DEF RowsThere, At, Idle
<1>2. ASSUME NEW v \in Workers, Step(v) \/ Die(v) PROVE Stays /\ \A w \in Workers : Has(w)
  <2>1. ~At(v, "idle") /\ Continues(v) BY <1>2, StepsContinue
  <2>2. worker[v].charge \in Charges /\ worker[v].target \in PaymentStatus BY <2>1, Running
  <2>3. \/ UNCHANGED status
        \/ status' = [status EXCEPT ![worker[v].charge] = worker[v].target]
    <3>1. CASE InsertPayment(v) \/ WritePayment(v) BY <3>1 DEF InsertPayment, WritePayment
    <3>2. CASE GatewayRefund(v) BY <3>2 DEF GatewayRefund, rows
    <3>3. CASE ReadPayment(v) BY <3>3 DEF ReadPayment, rows
    <3>4. CASE GatewayCancel(v) \/ Die(v) BY <3>4 DEF GatewayCancel, Die, rows
    <3>5. CASE InsertTransaction(v) \/ InsertRefund(v) \/ WriteTransaction(v)
      BY <3>5 DEF InsertTransaction, InsertRefund, WriteTransaction
    <3> QED BY <1>2, <3>1, <3>2, <3>3, <3>4, <3>5 DEF Step
  <2>4. Stays BY <1>t, <2>2, <2>3 DEF TypeOK, PaymentStatus
  <2>5. \A w \in Workers : Has(w) BY <2>1, <2>2 DEF Continues, RowsThere
  <2> QED BY <2>4, <2>5
<1>3. ASSUME NEW v \in Workers, NEW pc, NEW op, NEW g \in Charges, NEW target,
             Begin(v, pc, op, g, target), op = "process" \/ status[g] # "none"
      PROVE  \A w \in Workers : Has(w)
  <2>1. PICK r : /\ r = [pc |-> pc, op |-> op, charge |-> g, target |-> target,
                         main |-> FALSE, id |-> "none"]
                 /\ worker' = [worker EXCEPT ![v] = r]
    BY <1>3 DEF Begin
  <2>2. r.op = op /\ r.charge = g BY <2>1
  <2> HIDE DEF Has
  <2>3. ASSUME NEW w \in Workers PROVE Has(w)
    <3>1. worker'[w] = worker[w] \/ worker'[w] = r BY <1>t, <2>1 DEF TypeOK
    <3> QED BY <1>3, <2>2, <3>1 DEF Has
  <2> QED BY <2>3
<1>4. ASSUME NEW v \in Workers, NEW g \in Charges, NEW c \in Customers,
             NEW s \in {"PENDING", "CONFIRMED"}, CreateCharge(v, g, c, s)
      PROVE  Stays /\ \A w \in Workers : Has(w)
  <2>1. Stays BY <1>4 DEF CreateCharge, rows
  <2>2. CASE UNCHANGED worker BY <2>1, <2>2
  <2>3. CASE Begin(v, "insertPayment", "process", g, MapAsaasStatus[s]) BY <1>3, <2>1, <2>3
  <2> QED BY <1>4, <2>2, <2>3 DEF CreateCharge
<1>5. ASSUME NEW v \in Workers, NEW i \in DOMAIN events, ReceiveEvent(v, i)
      PROVE  Stays /\ \A w \in Workers : Has(w)
  <2>1. Stays BY <1>5 DEF ReceiveEvent, rows
  <2>2. CASE UNCHANGED worker BY <2>1, <2>2
  <2>3. CASE /\ status[events[i].charge] # "none"
             /\ Begin(v, "read", "webhook", events[i].charge, EventStatus[events[i].name])
    BY <1>3, <2>1, <2>3, QueueFacts
  <2> QED BY <1>5, <2>2, <2>3 DEF ReceiveEvent, Found
<1>6. ASSUME NEW v \in Workers, NEW g \in Charges, StartRefund(v, g) \/ StartCancel(v, g)
      PROVE  Stays /\ \A w \in Workers : Has(w)
  <2>1. Stays BY <1>6 DEF StartRefund, StartCancel, rows
  <2>2. status[g] # "none" BY <1>6 DEF StartRefund, StartCancel, Refundable
  <2> QED BY <1>3, <1>6, <2>1, <2>2 DEF StartRefund, StartCancel
<1>7. ASSUME NEW g \in Charges, GatewayAdvances(g) PROVE Stays /\ \A w \in Workers : Has(w)
  <2>1. UNCHANGED <<status, worker>> BY <1>7 DEF GatewayAdvances, rows
  <2> QED BY <2>1
<1>8. CASE UNCHANGED vars
  <2>1. UNCHANGED <<status, worker>> BY <1>8 DEF vars, rows
  <2> QED BY <2>1
<1> HIDE DEF Stays, Has
<1> QED BY <1>2, <1>4, <1>5, <1>6, <1>7, <1>8 DEF Next, Step

\* The step of a request that begins, goes on or ends, as Unhurried has it.
LEMMA MovesOn ==
    ASSUME NEW w \in Workers, NEW r, BooksInv, worker' = [worker EXCEPT ![w] = r]
    PROVE  worker'[w] = r /\ \A v \in Workers \ {w} : worker'[v] = worker[v]
BY DEF BooksInv, TypeOK

LEMMA StepSettled ==
    ASSUME BooksInv, RowsThere, OrderedInv, Dependable, [Next]_vars
    PROVE  OrderedInv'
<1>t. TypeOK BY DEF BooksInv
<1>s. \A w \in Workers : ~At(w, "idle") => worker[w] \in Request /\ worker[w].charge \in Charges
  BY Running
<1>1. ASSUME NEW g \in Charges, GatewayAdvances(g) PROVE OrderedInv'
  <2>1. PICK s \in {"CONFIRMED", "RECEIVED", "OVERDUE"} : SetGateway(g, s)
    BY <1>1 DEF GatewayAdvances
  <2>2. s \in GatewayStatus /\ s \in DOMAIN EventStatus BY DEF GatewayStatus, EventStatus
  <2>3. UNCHANGED <<status, missed, worker, refunds>> BY <1>1 DEF GatewayAdvances, rows
  <2>4. Unhurried BY <2>3 DEF Unhurried
  <2>5. gateway' = [gateway EXCEPT ![g] = s] BY <2>1 DEF SetGateway
  <2>6. InsertsFresh' BY <2>3, <2>5, <1>t, InsertsStayFresh DEF TypeOK
  <2> QED BY <2>1, <2>2, <2>3, <2>4, <2>6, GatewayStep DEF OrderedInv
<1>2. ASSUME NEW w \in Workers, NEW g \in Charges, NEW c \in Customers,
             NEW s \in {"PENDING", "CONFIRMED"}, CreateCharge(w, g, c, s)
      PROVE  OrderedInv'
  <2>0. CASE UNCHANGED worker
    <3>1. SetGateway(g, s) /\ gateway[g] = "none" /\ UNCHANGED <<status, missed, refunds>>
      BY <1>2 DEF CreateCharge, rows
    <3>2. Unhurried BY <2>0 DEF Unhurried
    <3>3. gateway' = [gateway EXCEPT ![g] = s] BY <3>1 DEF SetGateway
    <3>4. s \in GatewayStatus BY DEF GatewayStatus
    <3>5. InsertsFresh' BY <2>0, <3>1, <3>3, <1>t, InsertsStayFresh DEF TypeOK
    <3> QED BY <3>1, <3>2, <3>4, <3>5, GatewayStep DEF OrderedInv
  <2>b. SUFFICES ASSUME Begin(w, "insertPayment", "process", g, MapAsaasStatus[s])
                 PROVE  OrderedInv'
    BY <1>2, <2>0 DEF CreateCharge
  <2> DEFINE r == [pc |-> "insertPayment", op |-> "process", charge |-> g,
                   target |-> MapAsaasStatus[s], main |-> FALSE, id |-> "none"]
  <2>1. /\ gateway[g] = "none" /\ SetGateway(g, s)
        /\ UNCHANGED <<status, missed, refunds>>
        /\ At(w, "idle") /\ worker' = [worker EXCEPT ![w] = r]
    BY <1>2, <2>b DEF CreateCharge, Begin, rows
  <2>2. r.pc = "insertPayment" /\ r.op = "process" /\ r.charge = g /\ r.target = MapAsaasStatus[s]
    OBVIOUS
  <2> HIDE DEF r
  <2>3. worker'[w] = r /\ \A v \in Workers \ {w} : worker'[v] = worker[v] BY <2>1, MovesOn
  <2>4. Unhurried BY <2>1, <2>2, <2>3 DEF Unhurried, Handling, At, Orderly
  <2>5. s \in GatewayStatus BY DEF GatewayStatus
  <2>6. gateway' = [gateway EXCEPT ![g] = s] BY <2>1 DEF SetGateway
  <2>7. status[g] = "none" BY <2>1 DEF BooksInv, NoPhantomStatus, Evidence
  <2>8. \A v \in Workers : At(v, "insertPayment") => worker[v].charge # g
    BY <2>1, Running DEF Justified, Evidence, At
  <2>9. InsertsFresh'
    <3> SUFFICES ASSUME NEW v \in Workers, At(v, "insertPayment")'
                 PROVE  /\ status'[worker'[v].charge] = "none"
                        /\ gateway'[worker'[v].charge] = "PENDING" => worker'[v].target = "pending"
                        /\ \A u \in Workers : At(u, "insertPayment")'
                              /\ worker'[u].charge = worker'[v].charge => u = v
      BY DEF InsertsFresh
    <3>1. CASE v = w
      <4>1. gateway'[g] = "PENDING" => r.target = "pending"
        BY <2>2, <2>6, <1>t DEF MapAsaasStatus, TypeOK
      <4> QED BY <2>1, <2>2, <2>3, <2>7, <2>8, <3>1, <4>1 DEF At
    <3>2. CASE v # w
      BY <2>1, <2>2, <2>3, <2>6, <2>8, <3>2, <1>t, <1>s DEF At, TypeOK, OrderedInv, InsertsFresh
    <3> QED BY <3>1, <3>2
  <2> QED BY <2>1, <2>4, <2>5, <2>9, GatewayStep DEF OrderedInv
\* The steps of a request that touch neither the gateway nor a status.
<1>3. ASSUME NEW w \in Workers, NEW r, worker' = [worker EXCEPT ![w] = r],
             UNCHANGED <<gateway, refunds, events, status, missed>>,
             ~Handling(w),
             \/ r = Idle
             \/ /\ r.pc # "insertPayment" /\ Orderly(r)
                /\ ~(r.pc \in {"read", "write"} /\ r.op = "webhook")
      PROVE  OrderedInv'
  <2>1. worker'[w] = r /\ \A v \in Workers \ {w} : worker'[v] = worker[v] BY <1>3, MovesOn
  <2>2. Unhurried BY <1>3, <2>1 DEF Unhurried, Handling, At, Idle
  <2> QED BY <1>3, <2>1, <2>2, WorkerStep DEF Idle
<1>4. ASSUME NEW w \in Workers, NEW g \in Charges, StartRefund(w, g) \/ StartCancel(w, g)
      PROVE  OrderedInv'
  <2>1. PICK pc \in {"refund", "cancel"}, target \in {"refunded", "cancelled"} :
           /\ pc = "refund" => target = "refunded"
           /\ Begin(w, pc, pc, g, target)
    BY <1>4 DEF StartRefund, StartCancel
  <2>2. ~Handling(w) BY <2>1 DEF Begin, At, Handling
  <2>3. UNCHANGED <<gateway, refunds, events, status, missed>>
    BY <1>4 DEF StartRefund, StartCancel, external, rows
  <2>4. PICK r : /\ r = [pc |-> pc, op |-> pc, charge |-> g, target |-> target,
                         main |-> FALSE, id |-> "none"]
                 /\ worker' = [worker EXCEPT ![w] = r]
    BY <2>1 DEF Begin
  <2>5. r.pc = pc /\ r.op = pc /\ r.target = target BY <2>4
  <2> QED BY <1>3, <2>1, <2>2, <2>3, <2>4, <2>5 DEF Orderly
<1>5. ASSUME NEW w \in Workers, ReceiveEvent(w, 1), 1 \in DOMAIN events PROVE OrderedInv'
  <2>0. PICK e : e = events[1]
    OBVIOUS
  <2>1. /\ e \in Event /\ e.charge \in Charges /\ events \in Seq(Event)
        /\ DOMAIN events = 1..Len(events) /\ Len(events) \in Nat
    BY <1>5, <1>t, <2>0, QueueFacts DEF TypeOK
  <2>2. /\ events' = RemoveAt(events, 1) /\ UNCHANGED <<gateway, refunds, status>>
        /\ At(w, "idle")
        /\ \A v \in Workers : At(v, "idle") \/ worker[v].op # "webhook"
    BY <1>5, Dependable DEF Dependable, ReceiveEvent, external, rows, HandlesWebhook, Begin
  <2>3. /\ DOMAIN events' = 1..Len(events) - 1
        /\ \A i \in 1..Len(events) - 1 : events'[i] = events[i + 1]
    <3>1. SubSeq(events, 1, 0) = <<>> BY <2>1, SubSeqProperties, EmptySeq
    <3>2. events' = SubSeq(events, 2, Len(events))
      BY <2>1, <2>2, <3>1, SubSeqProperties, ConcatEmptySeq DEF RemoveAt
    <3> QED BY <1>5, <2>1, <3>2, SubSeqProperties
  <2>4. \A h \in Charges : Queued(h) <=> (h = e.charge \/ Queued(h)')
    <3>1. \A i \in DOMAIN events : i = 1 \/ (i - 1 \in DOMAIN events' /\ events'[i - 1] = events[i])
      BY <2>1, <2>3
    <3>2. \A i \in DOMAIN events' : i + 1 \in DOMAIN events /\ events'[i] = events[i + 1]
      BY <2>1, <2>3
    <3> QED BY <1>5, <2>0, <2>1, <3>1, <3>2 DEF Queued
  <2>5. LastEventsTrue'
    <3> SUFFICES ASSUME NEW i \in DOMAIN events',
                        \A j \in DOMAIN events' : j > i => events'[j].charge # events'[i].charge
                 PROVE  events'[i].name = gateway'[events'[i].charge]
      BY DEF LastEventsTrue
    <3>1. i + 1 \in DOMAIN events /\ events'[i] = events[i + 1] BY <2>1, <2>3
    <3>2. ASSUME NEW j \in DOMAIN events, j > i + 1 PROVE events[j].charge # events[i + 1].charge
      <4>1. j - 1 \in DOMAIN events' /\ events'[j - 1] = events[j] /\ j - 1 > i
        BY <2>1, <2>3, <3>2
      <4> QED BY <3>1, <4>1
    <3> QED BY <2>2, <3>1, <3>2 DEF OrderedInv, LastEventsTrue
  <2>6. ASSUME ~Queued(e.charge)' PROVE e.name = gateway[e.charge]
    <3>1. ASSUME NEW j \in DOMAIN events, j > 1 PROVE events[j].charge # e.charge
      <4>1. j - 1 \in DOMAIN events' /\ events'[j - 1] = events[j] BY <2>1, <2>3, <3>1
      <4> QED BY <2>6, <4>1 DEF Queued
    <3> QED BY <1>5, <2>0, <3>1 DEF OrderedInv, LastEventsTrue
  <2>7. EventStatus[e.name] = MapAsaasStatus[e.name]
    BY <2>1 DEF Event, EventStatus, MapAsaasStatus
  <2>8. CASE ~Found(e)
    <3>1. UNCHANGED worker /\ missed' = missed \cup {e}
      BY <1>5, <2>0, <2>2, <2>8 DEF ReceiveEvent, Begin, Found
    <3>2. \A h \in Charges : Missed(h)' <=> Missed(h) \/ h = e.charge BY <3>1 DEF Missed
    <3>3. \A v \in Workers, h \in Charges : ~Handles(v, h) /\ ~Handles(v, h)'
      BY <2>2, <3>1 DEF Handles, Handling, At
    <3>4. HandledTrue' BY <3>3 DEF HandledTrue
    <3>5. RowsFollow'
      BY <2>2, <2>4, <3>2, <3>3 DEF OrderedInv, RowsFollow, Excused
    <3>6. RowlessTold' BY <2>2, <2>4, <3>2 DEF OrderedInv, RowlessTold
    <3>7. InsertsFresh' BY <2>2, <3>1, InsertsStayFresh
    <3>8. RequestsOrderly' BY <3>1, OrderlyStay
    <3> QED BY <2>5, <3>4, <3>5, <3>6, <3>7, <3>8 DEF OrderedInv
  <2>9. CASE Found(e)
    <3>1. PICK r : /\ r = [pc |-> "read", op |-> "webhook", charge |-> e.charge,
                           target |-> EventStatus[e.name], main |-> FALSE, id |-> "none"]
                   /\ worker' = [worker EXCEPT ![w] = r]
      BY <1>5, <2>0, <2>9 DEF ReceiveEvent, Begin, Found
    <3>2. r.pc = "read" /\ r.op = "webhook" /\ r.charge = e.charge /\ r.target = EventStatus[e.name]
      BY <3>1
    <3>3. worker'[w] = r /\ \A v \in Workers \ {w} : worker'[v] = worker[v] BY <3>1, MovesOn
    <3>4. UNCHANGED missed BY <1>5, <2>0, <2>9 DEF ReceiveEvent, Found
    <3>5. \A v \in Workers, h \in Charges :
             /\ ~Handles(v, h)
             /\ Handles(v, h)' <=> v = w /\ h = e.charge
      BY <2>2, <3>2, <3>3 DEF Handles, Handling, At
    <3>6. HandledTrue'
      BY <2>1, <2>2, <2>6, <2>7, <3>2, <3>3, <3>5 DEF HandledTrue
    <3>7. RowsFollow'
      BY <2>2, <2>4, <3>4, <3>5 DEF OrderedInv, RowsFollow, Excused, Missed
    <3>8. RowlessTold'
      BY <2>2, <2>4, <2>9, <3>4 DEF OrderedInv, RowlessTold, Missed, Found
    <3>9. InsertsFresh' BY <2>2, <3>2, <3>3, InsertsStayFresh
    <3>10. RequestsOrderly'
      BY <3>2, <3>3, OrderlyStay DEF Orderly
    <3> QED BY <2>5, <3>6, <3>7, <3>8, <3>9, <3>10 DEF OrderedInv
  <2> QED BY <2>8, <2>9
<1>6. ASSUME NEW w \in Workers, InsertPayment(w) PROVE OrderedInv'
  <2>0. PICK r, g : r = worker[w] /\ g = worker[w].charge
    OBVIOUS
  <2>1. r \in Request /\ g \in Charges /\ r.pc = "insertPayment" /\ gateway[g] # "none"
        /\ r.target \in PaymentStatus
    BY <2>0, <1>6, Running DEF InsertPayment, At, Justified, Evidence
  <2>2. /\ status[g] = "none" /\ (gateway[g] = "PENDING" => r.target = "pending")
        /\ \A v \in Workers \ {w} : At(v, "insertPayment") => worker[v].charge # g
    BY <2>0, <1>6 DEF InsertPayment, OrderedInv, InsertsFresh
  <2>3. /\ UNCHANGED <<gateway, refunds, events, missed>>
        /\ status' = [status EXCEPT ![g] = r.target]
        /\ worker' = [worker EXCEPT ![w] = [r EXCEPT !.pc = "insertTransaction"]]
    BY <2>0, <1>6 DEF InsertPayment, Goto, external
  <2>4. /\ worker'[w] = [r EXCEPT !.pc = "insertTransaction"]
        /\ \A v \in Workers \ {w} : worker'[v] = worker[v]
    BY <2>0, <2>3, MovesOn
  <2>5. worker'[w].pc = "insertTransaction" /\ worker'[w].op = r.op /\ worker'[w].target = r.target
    BY <2>0, <2>1, <2>4 DEF Request
  <2>6. \A v \in Workers, h \in Charges : Handles(v, h)' <=> Handles(v, h)
    BY <2>0, <2>1, <2>4, <2>5 DEF Handles, Handling
  <2>7. \A v \in Workers : Handling(v) => worker'[v] = worker[v]
    BY <2>0, <2>1, <2>4 DEF Handling
  <2>8. LastEventsTrue' BY <2>0, <2>3 DEF OrderedInv, LastEventsTrue
  <2>9. HandledTrue' BY <2>0, <2>3, <2>6, <2>7 DEF OrderedInv, HandledTrue, Queued, Handles
  <2>10. RowsFollow'
    <3> SUFFICES ASSUME NEW h \in Charges, status'[h] # "none", ~Excused(h)', ~Queued(h)',
                        \A v \in Workers : ~Handles(v, h)'
                 PROVE  status'[h] = MapAsaasStatus[gateway'[h]]
      BY DEF RowsFollow
    <3>1. ~Excused(h) /\ ~Queued(h) /\ \A v \in Workers : ~Handles(v, h)
      BY <2>0, <2>3, <2>6 DEF Excused, Missed, Queued
    <3>2. CASE h = g
      <4>1. gateway[g] = "PENDING"
        BY <2>0, <2>1, <2>2, <3>1, <3>2 DEF OrderedInv, RowlessTold, Excused
      <4> QED BY <2>0, <1>t, <2>1, <2>2, <2>3, <3>2, <4>1 DEF TypeOK, MapAsaasStatus
    <3>3. CASE h # g
      BY <2>0, <1>t, <2>3, <3>1, <3>3 DEF OrderedInv, RowsFollow, TypeOK
    <3> QED BY <2>0, <3>2, <3>3
  <2>11. RowlessTold'
    BY <2>0, <1>t, <2>1, <2>3 DEF OrderedInv, RowlessTold, Missed, Queued, TypeOK, PaymentStatus
  <2>12. InsertsFresh'
    BY <2>0, <1>t, <1>s, <2>2, <2>3, <2>4, <2>5 DEF OrderedInv, InsertsFresh, At, TypeOK
  <2>13. RequestsOrderly'
    <3>1. Orderly(worker'[w]) BY <2>0, <2>1, <2>5 DEF OrderedInv, RequestsOrderly, At, Orderly
    <3> QED BY <2>4, <3>1, OrderlyStay
  <2> QED BY <2>0, <2>8, <2>9, <2>10, <2>11, <2>12, <2>13 DEF OrderedInv
\* updateStatus: an early return leaves what agrees, or what was no webhook.
<1>7. ASSUME NEW w \in Workers, ReadPayment(w) PROVE OrderedInv'
  <2>0. PICK r, g : r = worker[w] /\ g = worker[w].charge
    OBVIOUS
  <2>1. r \in Request /\ g \in Charges /\ r.pc = "read" /\ Orderly(r) /\ r.op # "process"
    BY <2>0, <1>7, <1>s DEF ReadPayment, At, OrderedInv, RequestsOrderly, Orderly
  <2>2. UNCHANGED <<gateway, refunds, events, status, missed>>
    BY <2>0, <1>7 DEF ReadPayment, external, rows
  <2>3. CASE Differs(w)
    <3>1. /\ worker'[w] = [r EXCEPT !.pc = "write", !.main = txn[g] # "none"]
          /\ \A v \in Workers \ {w} : worker'[v] = worker[v]
      BY <2>0, <2>3, <1>t, <2>1 DEF Differs, TypeOK
    <3>2. worker'[w].pc = "write" /\ worker'[w].op = r.op /\ worker'[w].charge = g
          /\ worker'[w].target = r.target
      BY <2>0, <2>1, <3>1 DEF Request
    <3>3. \A v \in Workers, h \in Charges :
             /\ Handles(v, h)' <=> Handles(v, h)
             /\ Handles(v, h) => worker'[v].target = worker[v].target
      <4>1. ASSUME NEW h \in Charges PROVE
               /\ Handles(w, h)' <=> Handles(w, h)
               /\ worker'[w].target = worker[w].target
        BY <2>0, <2>1, <3>2 DEF Handles, Handling
      <4> QED BY <3>1, <4>1 DEF Handles, Handling
    <3>4. LastEventsTrue' BY <2>0, <2>2 DEF OrderedInv, LastEventsTrue
    <3>5. HandledTrue' BY <2>0, <2>2, <3>3 DEF OrderedInv, HandledTrue, Queued
    <3>6. RowsFollow' BY <2>0, <2>2, <3>3 DEF OrderedInv, RowsFollow, Excused, Missed, Queued
    <3>7. RowlessTold' BY <2>0, <2>2 DEF OrderedInv, RowlessTold, Missed, Queued
    <3>8. InsertsFresh' BY <2>0, <2>2, <3>1, <3>2, InsertsStayFresh
    <3>9. RequestsOrderly'
      <4>1. Orderly(worker'[w]) BY <2>1, <3>2 DEF Orderly
      <4> QED BY <3>1, <4>1, OrderlyStay
    <3> QED BY <2>0, <3>4, <3>5, <3>6, <3>7, <3>8, <3>9 DEF OrderedInv
  <2>4. CASE status[g] = r.target /\ Return(w)
    <3>1. PICK q : /\ worker' = [worker EXCEPT ![w] = q]
                   /\ q = Idle
      BY <2>0, <2>4 DEF Return, Finish
    <3>2. worker'[w] = q /\ \A v \in Workers \ {w} : worker'[v] = worker[v] BY <2>0, <3>1, MovesOn
    <3>3. q = Idle
      BY <3>1
    <3>4. \A v \in Workers, h \in Charges :
             /\ Handles(v, h)' <=> Handles(v, h) /\ v # w
             /\ Handles(v, h)' => worker'[v] = worker[v]
             /\ Handles(w, h) => h = g
      BY <2>0, <2>1, <3>2, <3>3 DEF Handles, Handling, Idle
    <3>5. LastEventsTrue' BY <2>0, <2>2 DEF OrderedInv, LastEventsTrue
    <3>6. HandledTrue' BY <2>0, <2>2, <3>4 DEF OrderedInv, HandledTrue, Queued
    <3>7. RowsFollow'
      <4> SUFFICES ASSUME NEW h \in Charges, status'[h] # "none", ~Excused(h)', ~Queued(h)',
                          \A v \in Workers : ~Handles(v, h)'
                   PROVE  status'[h] = MapAsaasStatus[gateway'[h]]
        BY DEF RowsFollow
      <4>1. ~Excused(h) /\ ~Queued(h) /\ \A v \in Workers \ {w} : ~Handles(v, h)
        BY <2>0, <2>2, <3>4 DEF Excused, Missed, Queued
      <4>2. CASE Handles(w, h)
        <5>1. r.target = MapAsaasStatus[gateway[h]] /\ h = g
          BY <2>0, <3>4, <4>1, <4>2 DEF OrderedInv, HandledTrue
        <5> QED BY <2>0, <2>2, <2>4, <5>1
      <4>3. CASE ~Handles(w, h)
        BY <2>0, <2>2, <4>1, <4>3 DEF OrderedInv, RowsFollow
      <4> QED BY <2>0, <4>2, <4>3
    <3>8. RowlessTold' BY <2>0, <2>2 DEF OrderedInv, RowlessTold, Missed, Queued
    <3>9. InsertsFresh' BY <2>0, <2>2, <3>2, <3>3, InsertsStayFresh DEF Idle
    <3>10. RequestsOrderly'
      BY <2>1, <3>2, <3>3, OrderlyStay DEF Orderly
    <3> QED BY <2>0, <3>5, <3>6, <3>7, <3>8, <3>9, <3>10 DEF OrderedInv
  <2> QED BY <2>0, <1>7, <2>3, <2>4 DEF ReadPayment
\* Whoever writes, writes what the gateway has reached, unless that is a refund in part.
<1>8. ASSUME NEW w \in Workers, WritePayment(w) PROVE OrderedInv'
  <2>0. PICK r, g : r = worker[w] /\ g = worker[w].charge
    OBVIOUS
  <2>1. /\ r \in Request /\ g \in Charges /\ r.pc = "write" /\ Orderly(r) /\ r.op # "process"
        /\ Justified(r) /\ r.target \in PaymentStatus
    BY <2>0, <1>8, Running DEF WritePayment, At, OrderedInv, RequestsOrderly, Orderly
  <2>2. /\ UNCHANGED <<gateway, refunds, events, missed>>
        /\ status' = [status EXCEPT ![g] = r.target]
    BY <2>0, <1>8 DEF WritePayment, external
  <2>3. PICK q : /\ worker' = [worker EXCEPT ![w] = q]
                 /\ q = Idle \/ q = [r EXCEPT !.pc = "transaction"]
    BY <2>0, <1>8 DEF WritePayment, Return, Goto, Finish
  <2>4. worker'[w] = q /\ \A v \in Workers \ {w} : worker'[v] = worker[v] BY <2>0, <2>3, MovesOn
  <2>5. q = Idle \/ (/\ q.pc = "transaction"
                    /\ q.op = r.op /\ q.target = r.target /\ q.charge = g)
    BY <2>0, <2>1, <2>3 DEF Request
  <2>6. \A v \in Workers, h \in Charges :
           /\ Handles(v, h)' <=> Handles(v, h) /\ v # w
           /\ Handles(v, h)' => worker'[v] = worker[v]
           /\ Handles(w, h) => h = g
    BY <2>0, <2>1, <2>4, <2>5 DEF Handles, Handling, Idle
  <2>7. Excused(g) \/ Queued(g) \/ r.target = MapAsaasStatus[gateway[g]]
    <3>1. CASE r.op = "webhook"
      BY <2>0, <2>1, <3>1 DEF OrderedInv, HandledTrue, Handles, Handling
    <3>2. CASE r.op = "refund"
      BY <2>0, <2>1, <3>2 DEF Orderly, Justified, Evidence, Excused, MapAsaasStatus
    <3>3. CASE r.op = "cancel"
      BY <2>0, <2>1, <3>3 DEF Justified, Evidence, MapAsaasStatus
    <3> QED BY <2>0, <2>1, <3>1, <3>2, <3>3 DEF Request, Operations
  <2>8. LastEventsTrue' BY <2>0, <2>2 DEF OrderedInv, LastEventsTrue
  <2>9. HandledTrue' BY <2>0, <2>2, <2>6 DEF OrderedInv, HandledTrue, Queued
  <2>10. RowsFollow'
    <3> SUFFICES ASSUME NEW h \in Charges, status'[h] # "none", ~Excused(h)', ~Queued(h)',
                        \A v \in Workers : ~Handles(v, h)'
                 PROVE  status'[h] = MapAsaasStatus[gateway'[h]]
      BY DEF RowsFollow
    <3>1. ~Excused(h) /\ ~Queued(h) /\ \A v \in Workers \ {w} : ~Handles(v, h)
      BY <2>0, <2>2, <2>6 DEF Excused, Missed, Queued
    <3>2. CASE h = g
      BY <2>0, <1>t, <2>1, <2>2, <2>7, <3>1, <3>2 DEF TypeOK
    <3>3. CASE h # g
      BY <2>0, <1>t, <2>2, <2>6, <3>1, <3>3 DEF OrderedInv, RowsFollow, TypeOK
    <3> QED BY <2>0, <3>2, <3>3
  <2>11. RowlessTold'
    BY <2>0, <1>t, <2>1, <2>2 DEF OrderedInv, RowlessTold, Missed, Queued, TypeOK, PaymentStatus
  <2>12. InsertsFresh'
    <3>1. ASSUME NEW v \in Workers, At(v, "insertPayment")' PROVE
             /\ v # w /\ worker'[v] = worker[v] /\ worker[v].charge # g
             /\ worker[v].charge \in Charges
      <4>1. v # w /\ worker'[v] = worker[v] BY <2>0, <2>4, <2>5, <3>1 DEF At, Idle
      <4>2. status[worker[v].charge] = "none" /\ At(v, "insertPayment")
        BY <2>0, <3>1, <4>1 DEF OrderedInv, InsertsFresh, At
      <4>3. status[g] # "none" BY <2>0, <1>8, <2>1 DEF RowsThere, WritePayment, At
      <4> QED BY <2>0, <1>s, <4>1, <4>2, <4>3 DEF At
    <3> QED BY <2>0, <1>t, <2>2, <3>1 DEF OrderedInv, InsertsFresh, At, TypeOK
  <2>13. RequestsOrderly'
    BY <2>1, <2>4, <2>5, OrderlyStay DEF Orderly
  <2> QED BY <2>0, <2>8, <2>9, <2>10, <2>11, <2>12, <2>13 DEF OrderedInv
<1>9. ASSUME NEW w \in Workers,
             InsertTransaction(w) \/ InsertRefund(w) \/ WriteTransaction(w)
      PROVE  OrderedInv'
  <2>1. /\ worker[w] \in Request /\ Orderly(worker[w])
        /\ worker[w].pc \in {"insertTransaction", "insertRefund", "transaction"}
        /\ worker[w].pc = "insertRefund" => worker[w].target = "refunded"
    BY <1>9, Running DEF InsertTransaction, InsertRefund, WriteTransaction, At,
       OrderedInv, RequestsOrderly, Justified
  <2>2. UNCHANGED <<gateway, refunds, events, status, missed>>
    BY <1>9 DEF InsertTransaction, InsertRefund, WriteTransaction, external
  <2>3. PICK q : /\ worker' = [worker EXCEPT ![w] = q]
                 /\ \/ q = Idle
                    \/ worker[w].pc = "insertRefund" /\ q = [worker[w] EXCEPT !.pc = "read"]
    BY <1>9 DEF InsertTransaction, InsertRefund, WriteTransaction, Return, Goto,
       Finish, At
  <2>4. \/ q = Idle
        \/ /\ q.op = worker[w].op /\ q.target = worker[w].target
           /\ worker[w].pc = "insertRefund" /\ q.pc = "read"
    BY <2>1, <2>3 DEF Request
  <2>5. worker' = [worker EXCEPT ![w] = q] BY <2>3
  <2> QED BY <1>3, <2>1, <2>2, <2>4, <2>5 DEF Handling, Orderly
<1>10. ASSUME NEW w \in Workers, GatewayRefund(w) PROVE OrderedInv'
  <2>0. PICK r, g : r = worker[w] /\ g = worker[w].charge
    OBVIOUS
  <2>1. /\ r \in Request /\ g \in Charges /\ r.pc = "refund" /\ Orderly(r) /\ r.target = "refunded"
    <3>1. At(w, "refund") BY <1>10 DEF GatewayRefund
    <3> QED BY <2>0, <3>1, Running DEF At, OrderedInv, RequestsOrderly, Justified
  <2>2. UNCHANGED <<status, missed>> BY <1>10 DEF GatewayRefund, rows
  <2>3. \E q : /\ worker' = [worker EXCEPT ![w] = q]
               /\ q = Idle \/ (q.pc = "insertRefund" /\ q.op = r.op /\ q.target = r.target)
    <3>1. ASSUME NEW id \in RefundIds,
                 Answered(w, id)
          PROVE  \E q : /\ worker' = [worker EXCEPT ![w] = q]
                        /\ q.pc = "insertRefund" /\ q.op = r.op /\ q.target = r.target
      <4>1. PICK q : q = [worker[w] EXCEPT !.pc = "insertRefund", !.id = id]
        OBVIOUS
      <4>2. q.pc = "insertRefund" /\ q.op = r.op /\ q.target = r.target
        BY <2>0, <2>1, <4>1 DEF Request
      <4>3. worker' = [worker EXCEPT ![w] = q] BY <3>1, <4>1 DEF Answered
      <4> QED BY <4>2, <4>3
    <3>2. CASE Finish(w) BY <3>2 DEF Finish
    <3> QED BY <1>10, <3>1, <3>2 DEF GatewayRefund
  <2>4. PICK q : /\ worker' = [worker EXCEPT ![w] = q]
                 /\ q = Idle \/ (q.pc = "insertRefund" /\ q.op = r.op /\ q.target = r.target)
    BY <2>3
  <2>5. worker'[w] = q /\ \A v \in Workers \ {w} : worker'[v] = worker[v] BY <2>4, MovesOn
  <2>6. ~Handling(w) BY <2>0, <2>1 DEF Handling
  <2>7. CASE UNCHANGED <<external, events>>
    BY <1>3, <2>1, <2>2, <2>4, <2>6, <2>7 DEF external, Orderly
  <2>8. ASSUME NEW id \in RefundIds, MakesRefund(g, id) PROVE OrderedInv'
    <3>1. Unhurried BY <2>1, <2>4, <2>5, <2>6 DEF Unhurried, Handling, Orderly, Idle, At
    <3>2. refunds' = [refunds EXCEPT ![g] = @ \cup {id}] /\ gateway[g] \in Paid
      BY <2>8 DEF MakesRefund
    <3>3. \A h \in Charges \ {g} : refunds'[h] = refunds[h] BY <1>t, <3>2 DEF TypeOK
    <3>4. CASE SetGateway(g, "REFUNDED")
      <4>1. "REFUNDED" \in GatewayStatus /\ "REFUNDED" \in DOMAIN EventStatus
        BY DEF GatewayStatus, EventStatus
      <4>2. gateway' = [gateway EXCEPT ![g] = "REFUNDED"] BY <3>4 DEF SetGateway
      <4>3. InsertsFresh'
        BY <1>t, <2>2, <2>4, <2>5, <4>2, InsertsStayFresh DEF TypeOK, Idle
      <4> QED BY <2>1, <2>2, <3>1, <3>3, <3>4, <4>1, <4>3, GatewayStep DEF OrderedInv
    <3>5. CASE UNCHANGED <<gateway, events>>
      <4>1. \A v \in Workers, h \in Charges :
               /\ Handles(v, h)' <=> Handles(v, h)
               /\ Handles(v, h) => worker'[v] = worker[v]
        BY <3>1 DEF Unhurried, Handles, Handling
      <4>2. LastEventsTrue' BY <3>5 DEF OrderedInv, LastEventsTrue
      <4>3. HandledTrue' BY <3>5, <4>1 DEF OrderedInv, HandledTrue, Queued
      <4>4. RowsFollow'
        <5>1. \A h \in Charges : Excused(h) => Excused(h)'
          BY <1>t, <2>2, <3>2, <3>5 DEF Excused, Missed, TypeOK
        <5> QED BY <2>2, <3>5, <4>1, <5>1 DEF OrderedInv, RowsFollow, Queued
      <4>5. RowlessTold' BY <2>2, <3>5 DEF OrderedInv, RowlessTold, Missed, Queued
      <4>6. InsertsFresh' BY <2>2, <2>4, <2>5, <3>5, InsertsStayFresh DEF Idle
      <4>7. RequestsOrderly' BY <2>1, <2>4, <2>5, OrderlyStay DEF Orderly
      <4> QED BY <4>2, <4>3, <4>4, <4>5, <4>6, <4>7 DEF OrderedInv
    <3> QED BY <2>8, <3>4, <3>5 DEF MakesRefund
  <2> QED BY <1>10, <2>0, <2>7, <2>8 DEF GatewayRefund
<1>11. ASSUME NEW w \in Workers, GatewayCancel(w) PROVE OrderedInv'
  <2>0. PICK r, g : r = worker[w] /\ g = worker[w].charge
    OBVIOUS
  <2>1. /\ r \in Request /\ g \in Charges /\ r.pc = "cancel" /\ r.op = "cancel"
    BY <1>11, <2>0, Running DEF GatewayCancel, At, Justified
  <2>2. UNCHANGED <<status, missed>> BY <1>11 DEF GatewayCancel, rows
  <2>3. PICK q : /\ worker' = [worker EXCEPT ![w] = q]
                 /\ q = Idle \/ q = [r EXCEPT !.pc = "read"]
    BY <1>11, <1>t, <2>0 DEF GatewayCancel, Goto, Finish, TypeOK
  <2>4. q = Idle \/ (q.pc = "read" /\ q.op = "cancel")
    BY <2>1, <2>3 DEF Request
  <2>5. worker'[w] = q /\ \A v \in Workers \ {w} : worker'[v] = worker[v] BY <2>3, MovesOn
  <2>6. ~Handling(w) BY <2>0, <2>1 DEF Handling
  <2>7. CASE UNCHANGED <<external, events>>
    BY <1>3, <2>1, <2>2, <2>3, <2>4, <2>6, <2>7 DEF external, Orderly
  <2>8. CASE CancelsCharge(g)
    <3>1. Unhurried BY <2>1, <2>4, <2>5, <2>6 DEF Unhurried, Handling, Orderly, Idle, At
    <3>2. "CANCELLED" \in GatewayStatus /\ "CANCELLED" \in DOMAIN EventStatus
      BY DEF GatewayStatus, EventStatus
    <3>3. SetGateway(g, "CANCELLED") /\ UNCHANGED refunds BY <2>8 DEF CancelsCharge
    <3>4. gateway' = [gateway EXCEPT ![g] = "CANCELLED"] BY <3>3 DEF SetGateway
    <3>5. InsertsFresh'
      BY <1>t, <2>2, <2>4, <2>5, <3>4, InsertsStayFresh DEF TypeOK, Idle
    <3> QED BY <2>1, <2>2, <3>1, <3>2, <3>3, <3>5, GatewayStep DEF OrderedInv
  <2> QED BY <1>11, <2>0, <2>7, <2>8 DEF GatewayCancel
<1>12. CASE UNCHANGED vars
  <2>1. UNCHANGED <<gateway, refunds, events, status, missed, worker>>
    BY <1>12 DEF vars, external, rows
  <2> QED BY <2>1, WorkerStep DEF Unhurried
<1>13. ASSUME NEW w \in Workers, NEW i \in DOMAIN events, ReceiveEvent(w, i)
       PROVE  i = 1
  BY <1>13, Dependable DEF Dependable, ReceiveEvent
\* A request that dies was no webhook.
<1>14. ASSUME NEW w \in Workers, Die(w) PROVE OrderedInv'
  <2>1. worker[w].op # "webhook" BY <1>14 DEF Die, Dependable
  <2>2. ~Handling(w) BY <2>1 DEF Handling
  <2>3. /\ UNCHANGED <<gateway, refunds, events, status, missed>>
        /\ worker' = [worker EXCEPT ![w] = Idle]
    BY <1>14 DEF Die, external, rows, Finish
  <2> QED BY <1>3, <2>2, <2>3
<1> QED
  BY <1>1, <1>2, <1>4, <1>5, <1>6, <1>7, <1>8, <1>9, <1>10, <1>11, <1>12, <1>13, <1>14 DEF Next

LEMMA SpecSettled == Spec => []SettledInv
<1>1. SettledInv /\ [Next]_vars => SettledInv'
  BY StepBooks, StepRows, StepSettled DEF SettledInv
<1> QED BY <1>1, InitSettled, PTL DEF Spec

\* When nothing is under way and nothing was lost, the row of a payment that
\* was not refunded in part says what the gateway says, for any number of
\* charges and requests: the last event of each charge is the one that is
\* handled last.
THEOREM QuietServiceAgrees == Spec => []SettledAgreement
<1>1. SettledInv => SettledAgreement
  <2> SUFFICES ASSUME SettledInv, Dependable, Quiet, NEW g \in Charges, status[g] # "none",
                      ~Excused(g)
               PROVE  status[g] = MapAsaasStatus[gateway[g]]
    BY DEF SettledAgreement, Excused, Missed
  <2>1. ~Queued(g) BY DEF Quiet, Queued
  <2>2. \A w \in Workers : ~Handles(w, g) BY DEF Quiet, At, Handles, Handling
  <2> QED BY <2>1, <2>2 DEF SettledInv, OrderedInv, RowsFollow
<1> QED BY <1>1, SpecSettled, PTL
=============================================================================
