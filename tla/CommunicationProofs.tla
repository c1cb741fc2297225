------------------------- MODULE CommunicationProofs -------------------------
(***************************************************************************)
(* What services talk to each other through: proofs about CircuitBreaker   *)
(* and its refinement of Breaker, for every set of callers, threshold and  *)
(* timeout, and about MessageBroker - its type, that a service never waits *)
(* for nothing, and that its first connection loses no message - for any   *)
(* number of connections, losses, attempts and handlers.                   *)
(***************************************************************************)
EXTENDS CircuitBreakerRefines, MessageBroker, FiniteSetTheorems, TLAPS

-----------------------------------------------------------------------------
(* The circuit breaker *)

\* The fields keep their types and a closed or open breaker its counters: the
\* two are inductive together, because the bound on successCount rests on
\* OPEN (and CLOSED) being entered with the counter at zero.
FieldsInv == TypeOK /\ CountersMatchState /\ HalfOpenIsQuiet

LEMMA InitFields == Init => FieldsInv
  BY BreakerAssumption
  DEF Init, FieldsInv, TypeOK, CountersMatchState, HalfOpenIsQuiet,
      CircuitState, Expired

LEMMA StepFields == FieldsInv /\ [Next]_vars => FieldsInv'
<1> SUFFICES ASSUME FieldsInv, [Next]_vars
             PROVE  FieldsInv'
  OBVIOUS
<1> USE BreakerAssumption
    DEF FieldsInv, TypeOK, CountersMatchState, HalfOpenIsQuiet,
        CircuitState, Expired, calls, counters
<1>1. ASSUME NEW c \in Callers, Execute(c)
      PROVE  FieldsInv'
  BY <1>1 DEF Execute, Admitted
<1>2. ASSUME NEW c \in Callers, Succeed(c)
      PROVE  FieldsInv'
  BY <1>2 DEF Succeed, Settle, RecordSuccess, Closes, TransitionToState
<1>3. ASSUME NEW c \in Callers, Fail(c)
      PROVE  FieldsInv'
  BY <1>3 DEF Fail, Settle, RecordFailure, Trips, TransitionToState
<1>4. CASE Monitor
  BY <1>4 DEF Monitor, MonitorDue, TransitionToState
<1>5. CASE Reset
  BY <1>5 DEF Reset, TransitionToState
<1>6. CASE Destroy
  BY <1>6 DEF Destroy
<1>7. CASE Tick
  BY <1>7 DEF Tick
<1>8. CASE UNCHANGED vars
  BY <1>8 DEF vars
<1>9. QED
  BY <1>1, <1>2, <1>3, <1>4, <1>5, <1>6, <1>7, <1>8 DEF Next

\* Every reachable state of the breaker is well typed, for any number of
\* concurrent calls (the code's fields, TypeOK).
THEOREM TypeCorrect == Spec => []TypeOK
<1>1. FieldsInv => TypeOK
  BY DEF FieldsInv
<1>2. QED
  BY <1>1, InitFields, StepFields, PTL DEF Spec

\* No interleaving of late answers leaves a counter behind that belongs to
\* another state (the resets in transitionToState suffice).
THEOREM CountersCorrect == Spec => []CountersMatchState
<1>1. FieldsInv => CountersMatchState
  BY DEF FieldsInv
<1>2. QED
  BY <1>1, InitFields, StepFields, PTL DEF Spec

\* A half-open breaker has had no failure for longer than resetTimeout.
THEOREM HalfOpenQuiet == Spec => []HalfOpenIsQuiet
<1>1. FieldsInv => HalfOpenIsQuiet
  BY DEF FieldsInv
<1>2. QED
  BY <1>1, InitFields, StepFields, PTL DEF Spec

-----------------------------------------------------------------------------
(* Stragglers *)

\* While OPEN, every call in flight is at least as old as the last failure:
\* none is admitted, and a failure only makes the last failure younger.
OlderThanLastFailure ==
    state = "OPEN" => \A c \in inFlight : sinceFailure <= age[c]

LEMMA StepOlder ==
    FieldsInv /\ OlderThanLastFailure /\ [Next]_vars => OlderThanLastFailure'
<1> SUFFICES ASSUME FieldsInv, OlderThanLastFailure, [Next]_vars
             PROVE  OlderThanLastFailure'
  OBVIOUS
<1> USE BreakerAssumption
    DEF FieldsInv, TypeOK, OlderThanLastFailure, CircuitState, Expired,
        calls, counters
<1>1. ASSUME NEW c \in Callers, Execute(c)
      PROVE  OlderThanLastFailure'
  BY <1>1 DEF Execute, Admitted
<1>2. ASSUME NEW c \in Callers, Succeed(c)
      PROVE  OlderThanLastFailure'
  BY <1>2 DEF Succeed, Settle, RecordSuccess, Closes, TransitionToState
<1>3. ASSUME NEW c \in Callers, Fail(c)
      PROVE  OlderThanLastFailure'
  BY <1>3 DEF Fail, Settle, RecordFailure, Trips, TransitionToState
<1>4. CASE Monitor
  BY <1>4 DEF Monitor, MonitorDue, TransitionToState
<1>5. CASE Reset
  BY <1>5 DEF Reset, TransitionToState
<1>6. CASE Destroy
  BY <1>6 DEF Destroy
<1>7. CASE Tick
  BY <1>7 DEF Tick
<1>8. CASE UNCHANGED vars
  BY <1>8 DEF vars
<1>9. QED
  BY <1>1, <1>2, <1>3, <1>4, <1>5, <1>6, <1>7, <1>8 DEF Next

LEMMA OpenLeavesOld ==
    FieldsInv /\ OlderThanLastFailure /\ [Next]_vars
        => [state = "OPEN" /\ state' = "HALF_OPEN" =>
               \A c \in inFlight : age[c] > ResetTimeout]_vars
<1> SUFFICES ASSUME FieldsInv, OlderThanLastFailure, [Next]_vars,
                    state = "OPEN", state' = "HALF_OPEN",
                    NEW c \in inFlight
             PROVE  age[c] > ResetTimeout
  OBVIOUS
<1>1. Monitor
  BY DEF Next, vars, Execute, Admitted, Succeed, Settle, RecordSuccess, Closes, Fail,
         RecordFailure, Trips, TransitionToState, Reset, Destroy, Tick
<1>2. sinceFailure > ResetTimeout
  BY <1>1 DEF Monitor, MonitorDue
<1>3. sinceFailure <= age[c] /\ age[c] \in 0..CallTimeout
  BY DEF OlderThanLastFailure, FieldsInv, TypeOK
<1>4. QED
  BY <1>2, <1>3, BreakerAssumption DEF FieldsInv, TypeOK, Expired

\* No call younger than the reset timeout reaches from the time before the
\* breaker opened into its half-open period.
THEOREM StragglersOld == Spec => StragglersAreOld
<1>1. Init => OlderThanLastFailure
  BY DEF Init, OlderThanLastFailure
<1>2. QED
  BY <1>1, InitFields, StepFields, StepOlder, OpenLeavesOld, PTL
  DEF Spec, StragglersAreOld

\* With a call timeout no longer than the reset timeout (5000 against 10000 ms
\* in HttpServiceClient), the half-open period starts with no call in flight.
THEOREM OnlyProbesHalfOpen ==
    ASSUME CallTimeout <= ResetTimeout
    PROVE  Spec => [][state = "OPEN" /\ state' = "HALF_OPEN" => inFlight = {}]_vars
<1>1. Init => OlderThanLastFailure
  BY DEF Init, OlderThanLastFailure
<1>2. FieldsInv /\ OlderThanLastFailure /\ [Next]_vars
        => [state = "OPEN" /\ state' = "HALF_OPEN" => inFlight = {}]_vars
  <2> SUFFICES ASSUME FieldsInv, OlderThanLastFailure, [Next]_vars,
                      state = "OPEN", state' = "HALF_OPEN",
                      NEW c \in inFlight
               PROVE  FALSE
    OBVIOUS
  <2>1. vars' # vars
    BY DEF vars
  <2>2. age[c] > ResetTimeout
    BY <2>1, OpenLeavesOld
  <2>3. age[c] \in 0..CallTimeout
    BY DEF FieldsInv, TypeOK
  <2>4. QED
    BY <2>2, <2>3, BreakerAssumption
<1>3. QED
  BY <1>1, <1>2, InitFields, StepFields, StepOlder, PTL DEF Spec

-----------------------------------------------------------------------------
(* The late failures counted while OPEN *)

LEMMA StepStragglers ==
    FieldsInv /\ StragglersAreCounted /\ [Next]_vars => StragglersAreCounted'
<1> SUFFICES ASSUME FieldsInv, StragglersAreCounted, [Next]_vars
             PROVE  StragglersAreCounted'
  OBVIOUS
<1> DEFINE N == Cardinality(Callers)
           M == Cardinality(inFlight)
<1>0. /\ N \in Nat
      /\ IsFiniteSet(inFlight)
      /\ M \in 0..N
  BY BreakerAssumption, FS_Subset, FS_CardinalityType DEF FieldsInv, TypeOK
<1>s. ASSUME NEW c \in Callers, Settle(c)
      PROVE  Cardinality(inFlight') = M - 1 /\ M >= 1
  <2>1. c \in inFlight /\ inFlight' = inFlight \ {c}
    BY <1>s DEF Settle
  <2>2. Cardinality(inFlight \ {c}) = M - 1
    BY <2>1, <1>0, FS_RemoveElement
  <2>3. M # 0
    BY <2>1, <1>0, FS_EmptySet
  <2>4. QED
    BY <2>1, <2>2, <2>3, <1>0
<1> HIDE DEF N, M
<1>i. /\ state = "OPEN" => failureCount + M <= N
      /\ state = "HALF_OPEN" => failureCount <= N
  BY DEF StragglersAreCounted, N, M
<1>t. /\ state \in CircuitState
      /\ failureCount \in Nat
  BY DEF FieldsInv, TypeOK
<1>g. SUFFICES /\ state' = "OPEN" => failureCount' + Cardinality(inFlight') <= N
               /\ state' = "HALF_OPEN" => failureCount' <= N
  BY DEF StragglersAreCounted, N
<1> USE DEF CircuitState, calls, counters
<1>1. ASSUME NEW c \in Callers, Execute(c)
      PROVE  StragglersAreCounted'
  BY <1>1, <1>i, <1>t DEF Execute, Admitted, StragglersAreCounted, N
<1>2. ASSUME NEW c \in Callers, Succeed(c)
      PROVE  StragglersAreCounted'
  BY <1>2, <1>s, <1>i, <1>t, <1>0
  DEF Succeed, RecordSuccess, Closes, TransitionToState, StragglersAreCounted, N
<1>3. ASSUME NEW c \in Callers, Fail(c)
      PROVE  StragglersAreCounted'
  BY <1>3, <1>s, <1>i, <1>t, <1>0
  DEF Fail, RecordFailure, Trips, TransitionToState, StragglersAreCounted, N, M
<1>4. CASE Monitor
  BY <1>4, <1>i, <1>t, <1>0 DEF Monitor, MonitorDue, TransitionToState, M,
     StragglersAreCounted, N
<1>5. CASE Reset
  BY <1>5, <1>t DEF Reset, TransitionToState, StragglersAreCounted
<1>6. CASE Destroy
  BY <1>6, <1>i, <1>t DEF Destroy, M, StragglersAreCounted, N
<1>7. CASE Tick
  BY <1>7, <1>i, <1>t DEF Tick, M, StragglersAreCounted, N
<1>8. CASE UNCHANGED vars
  BY <1>8, <1>i, <1>t DEF vars, M, StragglersAreCounted, N
<1>9. QED
  BY <1>1, <1>2, <1>3, <1>4, <1>5, <1>6, <1>7, <1>8 DEF Next, StragglersAreCounted, N

\* What the code keeps counting while OPEN is bounded by the calls that were
\* in flight when it opened.
THEOREM StragglersCounted == Spec => []StragglersAreCounted
<1>1. Init => StragglersAreCounted
  BY DEF Init, StragglersAreCounted
<1>2. QED
  BY <1>1, InitFields, StepFields, StepStragglers, PTL DEF Spec

-----------------------------------------------------------------------------
(* Refinement *)

LEMMA StepRefines ==
    FieldsInv /\ [Next]_vars => [Abstract!Next]_(Abstract!bvars)
<1> SUFFICES ASSUME FieldsInv, [Next]_vars
             PROVE  Abstract!Next \/ UNCHANGED Abstract!bvars
  OBVIOUS
<1> USE BreakerAssumption
    DEF FieldsInv, TypeOK, CountersMatchState, HalfOpenIsQuiet, CircuitState,
        Expired, calls, counters, CurrentRun
<1>1. ASSUME NEW c \in Callers, Execute(c)
      PROVE  Abstract!LetThrough(c)
  BY <1>1 DEF Execute, Admitted, Abstract!LetThrough
<1>2. ASSUME NEW c \in Callers, Succeed(c)
      PROVE  Abstract!GoodAnswer(c)
  BY <1>2 DEF Succeed, Settle, RecordSuccess, Closes, TransitionToState,
              Abstract!GoodAnswer
<1>3. ASSUME NEW c \in Callers, Fail(c)
      PROVE  Abstract!BadAnswer(c)
  BY <1>3 DEF Fail, Settle, RecordFailure, Trips, TransitionToState,
              Abstract!BadAnswer
<1>4. ASSUME Monitor
      PROVE  Abstract!Probe
  BY <1>4 DEF Monitor, MonitorDue, TransitionToState, Abstract!Probe
<1>5. ASSUME Reset
      PROVE  Abstract!ForceClosed
  BY <1>5 DEF Reset, TransitionToState, Abstract!ForceClosed
<1>6. ASSUME Destroy
      PROVE  UNCHANGED Abstract!bvars
  BY <1>6 DEF Destroy, Abstract!bvars
<1>7. ASSUME Tick
      PROVE  Abstract!Quieten \/ UNCHANGED Abstract!bvars
  BY <1>7 DEF Tick, Abstract!Quieten, Abstract!bvars
<1>8. ASSUME UNCHANGED vars
      PROVE  UNCHANGED Abstract!bvars
  BY <1>8 DEF vars, Abstract!bvars
<1>9. QED
  BY <1>1, <1>2, <1>3, <1>4, <1>5, <1>6, <1>7, <1>8 DEF Next, Abstract!Next

\* The code's breaker implements the abstract one: every step is a step of
\* Breaker or changes nothing a caller can see.
THEOREM Refinement == Spec => ImplementsBreaker
<1>1. Init => Abstract!Init
  BY BreakerAssumption DEF Init, Abstract!Init, CurrentRun, Expired
<1>2. QED
  BY <1>1, InitFields, StepFields, StepRefines, PTL
  DEF Spec, ImplementsBreaker, Abstract!BSpec

-----------------------------------------------------------------------------
(***************************************************************************)
(* The message broker.  KeepsTrying is not inductive: when the last await  *)
(* of connect() returns the service must have that connection and its      *)
(* channel (ChannelIsNew), unless disconnect() was called meanwhile.       *)
(***************************************************************************)
ChannelIsNew ==
    /\ connecting.pc \in {"channel", "exchange"} => connection = connecting.conn
    /\ connecting.pc = "exchange" => channel = connecting.conn
Connecting == ChannelIsNew \/ ToldToDisconnect

BrokerInv == BrokerTypeOK /\ KeepsTrying /\ Connecting

USE MessageBrokerAssumption DEF Conns, None

LEMMA InitBroker == BrokerInit => BrokerInv
<1> SUFFICES ASSUME BrokerInit PROVE BrokerInv
  OBVIOUS
<1>1. connecting \in Dialling /\ connecting.pc = "dial" BY DEF BrokerInit, Dialling, Diallers
<1>2. BrokerTypeOK BY <1>1 DEF BrokerInit, BrokerTypeOK, ConnStates
<1>3. KeepsTrying /\ Connecting
  BY <1>1 DEF KeepsTrying, ChannelIsNew, Connecting, NotConnecting
<1> QED BY <1>2, <1>3 DEF BrokerInv

\* What connecting holds at each of its stages.
LEMMA Stages ==
    ASSUME BrokerTypeOK
    PROVE  /\ connecting.pc = "dial" => connecting \in Dialling
           /\ connecting.pc \in {"channel", "exchange"} => connecting \in Opening
           /\ connecting # NotConnecting => connecting.pc # "no"
BY DEF BrokerTypeOK, NotConnecting, Dialling, Opening

\* reconnect() keeps the attempts within their limit, and one call at least
\* leaves a timeout or has none left.
LEMMA ReconnectKeeps ==
    ASSUME BrokerTypeOK, NEW n \in Nat, Reconnect(n)
    PROVE  /\ reconnectAttempts' \in 0..MaxReconnectAttempts
           /\ timers' \in Nat
           /\ n > 0 => timers' > 0 \/ reconnectAttempts' = MaxReconnectAttempts
           /\ timers > 0 => timers' > 0
BY DEF BrokerTypeOK, Reconnect

\* What RabbitMQ keeps, and the calls that wait for it, have their types.
RabbitTypeOK ==
    /\ conn \in [Conns -> ConnStates]
    /\ bindings \in 0..1 /\ queue \subseteq Messages
    /\ unacked \in [Conns -> SUBSET [tag : Nat, msg : Messages]]
    /\ tags \in [Conns -> Nat] /\ consumers \subseteq Conns
    /\ declaring \in [Conns -> Nat] /\ binding \in [Conns -> Nat]

LEMMA EndsKeeps ==
    ASSUME BrokerTypeOK, NEW c \in Conns, NEW how \in ConnStates, Ends(c, how)
    PROVE  RabbitTypeOK'
<1>1. {d.msg : d \in unacked[c]} \subseteq Messages BY DEF BrokerTypeOK
<1> QED BY <1>1 DEF BrokerTypeOK, RabbitTypeOK, Ends

LEMMA StartKeeps ==
    ASSUME BrokerTypeOK, NEW called, StartSubscribe(called)
    PROVE  declaring' \in [Conns -> Nat] /\ binding' \in [Conns -> Nat]
BY DEF BrokerTypeOK, StartSubscribe, Open

\* disconnect() closes the connection it finds, or ends and leaves none behind.
LEMMA CloseKeeps ==
    ASSUME BrokerTypeOK, CloseConnection
    PROVE  /\ RabbitTypeOK'
           /\ disconnecting' \in {NotDisconnecting, Disconnected} \cup Closing
           /\ channel' \in {channel, None} /\ connection' \in {connection, None}
           /\ disconnecting' # NotDisconnecting
<1>1. CASE /\ Ends(connection, "closing") /\ connection \in Conns
           /\ disconnecting' = [pc |-> "connection", conn |-> connection]
           /\ UNCHANGED <<channel, connection>>
  <2>1. RabbitTypeOK' BY <1>1, EndsKeeps DEF ConnStates
  <2>2. disconnecting' \in Closing /\ disconnecting'.pc = "connection" BY <1>1 DEF Closing
  <2> QED BY <1>1, <2>1, <2>2 DEF NotDisconnecting
<1>2. CASE Finally /\ UNCHANGED <<conn, rabbit, subscribing>>
  BY <1>2 DEF Finally, BrokerTypeOK, RabbitTypeOK, rabbit, subscribing, NotDisconnecting, Disconnected
<1> QED BY <1>1, <1>2 DEF CloseConnection, Closable, BrokerTypeOK

LEMMA StepBrokerTypeOK == BrokerTypeOK /\ [BrokerNext]_brokerVars => BrokerTypeOK'
<1> SUFFICES ASSUME BrokerTypeOK, [BrokerNext]_brokerVars PROVE BrokerTypeOK'
  OBVIOUS
<1> USE DEF BrokerTypeOK, rabbit, service, fate, subscribing
<1>1. CASE Toggle BY <1>1 DEF Toggle
<1>2. CASE ConnectFails
  <2>1. Reconnect(1) /\ 1 \in Nat BY <1>2 DEF ConnectFails
  <2>2. declaring' \in [Conns -> Nat] /\ binding' \in [Conns -> Nat]
    BY <1>2, StartKeeps DEF ConnectFails, Returned
  <2> QED BY <1>2, <2>1, <2>2, ReconnectKeeps DEF ConnectFails
<1>3. CASE Dial
  <2>1. connecting' \in Opening
    <3>1. connecting \in Dialling BY <1>3, Stages DEF Dial
    <3>2. PICK c \in Conns :
              connecting' = [pc |-> "channel", caller |-> connecting.caller, conn |-> c]
      BY <1>3 DEF Dial, Fresh
    <3> QED BY <3>1, <3>2 DEF Dialling, Opening
  <2> QED BY <1>3, <2>1 DEF Dial, Fresh, ConnStates
<1>4. CASE CreateChannel
  <2>1. connecting' \in Opening BY <1>4, Stages DEF CreateChannel, Opening
  <2>2. connecting.conn \in Conns BY <1>4, Stages DEF CreateChannel, Opening
  <2> QED BY <1>4, <2>1, <2>2 DEF CreateChannel
<1>5. CASE Connected
  <2>1. declaring' \in [Conns -> Nat] /\ binding' \in [Conns -> Nat]
    BY <1>5, StartKeeps DEF Connected, Returned
  <2> QED BY <1>5, <2>1 DEF Connected
<1>6. CASE Timer
  <2>1. connecting' \in {NotConnecting} \cup Dialling \cup Opening
    BY <1>6 DEF Timer, Dialling, Diallers
  <2>2. declaring' \in [Conns -> Nat] /\ binding' \in [Conns -> Nat]
    BY <1>6, StartKeeps DEF Timer, subscribing
  <2> QED BY <1>6, <2>1, <2>2 DEF Timer
<1>7. CASE Disconnect
  <2>1. UNCHANGED <<server, service, handlers, running, fate, losses>> BY <1>7 DEF Disconnect
  <2>2. CASE CloseConnection
    BY <2>1, <2>2, CloseKeeps DEF RabbitTypeOK
  <2>3. CASE /\ Open(channel) /\ Ends(channel, "deaf")
             /\ disconnecting' = [pc |-> "channel", conn |-> channel]
             /\ UNCHANGED <<channel, connection>>
    <3>1. channel \in Conns /\ "deaf" \in ConnStates BY <2>3 DEF Open, ConnStates
    <3>2. RabbitTypeOK' BY <2>3, <3>1, EndsKeeps
    <3>3. disconnecting' \in Closing BY <2>3, <3>1 DEF Closing
    <3> QED BY <2>1, <2>3, <3>2, <3>3 DEF RabbitTypeOK
  <2>4. CASE Finally /\ UNCHANGED <<conn, rabbit, subscribing>>
    BY <2>1, <2>4 DEF Finally, subscribing
  <2> QED BY <1>7, <2>2, <2>3, <2>4 DEF Disconnect
<1>8. CASE ChannelClosed
  BY <1>8, CloseKeeps DEF ChannelClosed, RabbitTypeOK
<1>9. CASE ConnectionClosed
  <2>1. reconnectAttempts' \in 0..MaxReconnectAttempts /\ timers' \in Nat
    BY <1>9, ReconnectKeeps DEF ConnectionClosed
  <2>2. conn' \in [Conns -> ConnStates] BY <1>9 DEF ConnectionClosed, ConnStates
  <2> QED BY <1>9, <2>1, <2>2 DEF ConnectionClosed, Finally, subscribing
<1>10. CASE PublishConnects
  <2>1. connecting' \in Dialling BY <1>10 DEF PublishConnects, Dialling, Diallers
  <2> QED BY <1>10, <2>1 DEF PublishConnects
<1>11. ASSUME NEW c \in Conns, Lose(c) PROVE BrokerTypeOK'
  <2>1. reconnectAttempts' \in 0..MaxReconnectAttempts /\ timers' \in Nat
    BY <1>11, ReconnectKeeps DEF Lose
  <2>2. Ends(c, "closed") /\ losses' \in 0..MaxLosses /\ "closed" \in ConnStates
    BY <1>11 DEF Lose, ConnStates
  <2>3. RabbitTypeOK' BY <2>2, EndsKeeps
  <2> QED BY <1>11, <2>1, <2>2, <2>3 DEF Lose, RabbitTypeOK
<1>12. ASSUME NEW c \in Conns, NEW m \in Messages, Deliver(c, m) PROVE BrokerTypeOK'
  <2>1. tags' \in [Conns -> Nat] /\ tags'[c] \in Nat BY <1>12 DEF Deliver
  <2>2. unacked' \in [Conns -> SUBSET [tag : Nat, msg : Messages]] BY <1>12, <2>1 DEF Deliver
  <2>3. running' \subseteq Delivery BY <1>12, <2>1 DEF Deliver, Delivery
  <2> QED BY <1>12, <2>1, <2>2, <2>3 DEF Deliver
<1>13. ASSUME NEW m \in Messages, Publish(m) PROVE BrokerTypeOK'
  BY <1>13 DEF Publish
<1>14. ASSUME NEW r \in running, NEW ok \in BOOLEAN, Answer(r, ok) PROVE BrokerTypeOK'
  <2>1. r \in Delivery OBVIOUS
  <2>2. RabbitTypeOK'
    <3>1. channel # None => channel \in Conns OBVIOUS
    <3>2. "deaf" \in ConnStates BY DEF ConnStates
    <3>3. CASE Open(channel) /\ Ends(channel, "deaf")
      BY <3>1, <3>2, <3>3, EndsKeeps DEF Open
    <3>4. CASE UNCHANGED <<conn, bindings, queue, tags, consumers, subscribing>> /\ Open(channel)
               /\ unacked' = [unacked EXCEPT ![channel] = @ \ {d \in unacked[channel] : d.tag = r.tag}]
      BY <3>1, <3>4 DEF RabbitTypeOK, subscribing, Open
    <3>5. CASE UNCHANGED <<conn, rabbit, subscribing>>
      BY <3>5 DEF RabbitTypeOK, subscribing
    <3> QED BY <1>14, <3>3, <3>4, <3>5 DEF Answer, AnswerTag
  <2> QED BY <1>14, <2>1, <2>2 DEF Answer, Delivery, RabbitTypeOK
<1>15. CASE OnMessage
  <2>1. declaring' \in [Conns -> Nat] /\ binding' \in [Conns -> Nat]
    BY <1>15, StartKeeps DEF OnMessage
  <2>2. handlers' \in 0..MaxHandlers BY <1>15 DEF OnMessage
  <2> QED BY <1>15, <2>1, <2>2 DEF OnMessage
<1>16. ASSUME NEW c \in Conns, QueueDeclared(c) PROVE BrokerTypeOK'
  <2>1. declaring' \in [Conns -> Nat] BY <1>16 DEF QueueDeclared
  <2>2. binding' \in [Conns -> Nat] /\ bindings' \in 0..1
    <3>1. CASE Open(channel)
      <4>1. channel \in Conns BY <3>1 DEF Open
      <4>2. bindings' = 1 /\ binding' = [binding EXCEPT ![channel] = @ + 1]
        BY <1>16, <3>1 DEF QueueDeclared
      <4> QED BY <4>1, <4>2
    <3>2. CASE ~ Open(channel) BY <1>16, <3>2 DEF QueueDeclared
    <3> QED BY <3>1, <3>2
  <2> QED BY <1>16, <2>1, <2>2 DEF QueueDeclared
<1>17. ASSUME NEW c \in Conns, QueueBound(c) PROVE BrokerTypeOK'
  <2>1. binding' \in [Conns -> Nat] BY <1>17 DEF QueueBound
  <2>2. consumers' \subseteq Conns BY <1>17 DEF QueueBound, Open
  <2> QED BY <1>17, <2>1, <2>2 DEF QueueBound
<1>18. CASE UNCHANGED brokerVars BY <1>18 DEF brokerVars, subscribing
<1> QED
  BY <1>1, <1>2, <1>3, <1>4, <1>5, <1>6, <1>7, <1>8, <1>9, <1>10, <1>11, <1>12, <1>13, <1>14,
     <1>15, <1>16, <1>17, <1>18 DEF BrokerNext

LEMMA StepBroker == BrokerInv /\ [BrokerNext]_brokerVars => BrokerInv'
<1>0. ASSUME BrokerInv PROVE BrokerTypeOK BY <1>0 DEF BrokerInv
<1> SUFFICES ASSUME BrokerInv, [BrokerNext]_brokerVars PROVE KeepsTrying' /\ Connecting'
  BY StepBrokerTypeOK DEF BrokerInv
<1> USE DEF KeepsTrying, Connecting, ChannelIsNew, HasConnection, ToldToDisconnect
<1>1. ASSUME UNCHANGED <<conn, channel, connection, connecting, listening, reconnectAttempts, timers,
                         disconnecting>>
      PROVE  KeepsTrying' /\ Connecting'
  BY <1>1 DEF BrokerInv
<1>2. CASE ConnectFails
  <2>1. timers' > 0 \/ reconnectAttempts' = MaxReconnectAttempts
    BY <1>0, <1>2, ReconnectKeeps DEF ConnectFails
  <2> QED BY <1>2, <2>1 DEF ConnectFails, NotConnecting
<1>3. CASE Dial BY <1>3 DEF Dial, NotConnecting
<1>4. CASE CreateChannel
  <2>1. connecting \in Opening BY <1>0, <1>4, Stages DEF CreateChannel
  <2>2. connecting' # NotConnecting BY <1>4, <2>1 DEF CreateChannel, NotConnecting, Opening
  <2>3. channel' = connecting'.conn /\ connecting'.conn = connecting.conn
    BY <1>4, <2>1 DEF CreateChannel, Opening
  <2>4. UNCHANGED <<connection, disconnecting>> /\ connecting.pc = "channel"
    BY <1>4 DEF CreateChannel
  <2> QED BY <2>2, <2>3, <2>4 DEF BrokerInv
<1>5. CASE Connected
  <2>1. connecting.conn \in Conns BY <1>0, <1>5, Stages DEF Connected, Opening
  <2>2. HasConnection' \/ ToldToDisconnect' BY <1>5, <2>1 DEF Connected, BrokerInv, Open
  <2> QED BY <1>5, <2>2 DEF Connected, NotConnecting
<1>6. CASE Timer
  <2>1. connecting' # NotConnecting
    BY <1>6 DEF Timer, NotConnecting
  <2>2. connecting' = connecting \/ connecting'.pc = "dial" BY <1>6 DEF Timer
  <2>3. UNCHANGED <<channel, connection, disconnecting>> BY <1>6 DEF Timer
  <2> QED BY <2>1, <2>2, <2>3 DEF BrokerInv
<1>7. CASE Disconnect \/ ChannelClosed \/ ConnectionClosed
  <2>1. disconnecting' # NotDisconnecting
    BY <1>0, <1>7, CloseKeeps
    DEF Disconnect, ChannelClosed, ConnectionClosed, Finally, Disconnected, NotDisconnecting
  <2> QED BY <2>1
<1>8. ASSUME NEW c \in Conns, Lose(c) PROVE KeepsTrying' /\ Connecting'
  <2>1. CASE c \in listening
    <3>1. timers' > 0 \/ reconnectAttempts' = MaxReconnectAttempts
      BY <1>0, <1>8, <2>1, ReconnectKeeps DEF Lose
    <3> QED BY <1>8, <3>1 DEF Lose, BrokerInv
  <2>2. CASE c \notin listening
    <3>1. HasConnection => HasConnection'
      BY <1>0, <1>8, <2>2 DEF Lose, Ends, BrokerTypeOK
    <3> QED BY <1>8, <2>2, <3>1 DEF Lose, BrokerInv
  <2> QED BY <2>1, <2>2
<1>9. ASSUME NEW r \in running, NEW ok \in BOOLEAN, Answer(r, ok) PROVE KeepsTrying' /\ Connecting'
  <2>1. UNCHANGED <<channel, connection, connecting, listening, reconnectAttempts, timers, disconnecting>>
    BY <1>9 DEF Answer, service
  <2>2. HasConnection => HasConnection'
    BY <1>0, <1>9, <2>1 DEF Answer, AnswerTag, Ends, BrokerTypeOK
  <2> QED BY <2>1, <2>2 DEF BrokerInv
<1>10. CASE PublishConnects BY <1>10 DEF PublishConnects, NotConnecting
<1> QED
  BY <1>1, <1>2, <1>3, <1>4, <1>5, <1>6, <1>7, <1>8, <1>9, <1>10
  DEF BrokerNext, Toggle, OnMessage, QueueDeclared, QueueBound, Deliver, Publish, brokerVars, service

THEOREM BrokerInvariant == BrokerSpec => []BrokerInv
<1> QED BY InitBroker, StepBroker, PTL DEF BrokerSpec

\* The counter of attempts stays within its limit and the fields keep their types.
THEOREM BrokerTypeCorrect == BrokerSpec => []BrokerTypeOK
<1>1. BrokerInv => BrokerTypeOK BY DEF BrokerInv
<1> QED BY <1>1, BrokerInvariant, PTL

\* Whatever events, timeouts and failures overlap, a service without a connection
\* is connecting, will try again, or has spent its attempts.
THEOREM NeverWaitsForNothing == BrokerSpec => []KeepsTrying
<1>1. BrokerInv => KeepsTrying BY DEF BrokerInv
<1> QED BY <1>1, BrokerInvariant, PTL

-----------------------------------------------------------------------------
(***************************************************************************)
(* FirstConnectionLosesNothing: on one connection an answer takes its own  *)
(* message and no other.  That rests on the delivery tags: each channel    *)
(* counts its own, so that within one connection a tag names one message   *)
(* (TagsSound), and on the only connection made, the channel the answer is *)
(* given on is the one that delivered (UsedSound).                         *)
(***************************************************************************)
Used(c) == conn[c] # "unused"

UsedSound ==
    /\ channel # None => Used(channel)
    /\ connecting.pc \in {"channel", "exchange"} => Used(connecting.conn)
    /\ \A c \in Conns : unacked[c] # {} => Used(c)
    /\ \A r \in running : Used(r.conn)
    /\ connection # None => Used(connection)

TagsSound ==
    /\ \A c \in Conns : \A d \in unacked[c] :
          d.tag <= tags[c] /\ \A e \in unacked[c] : d.tag = e.tag => d.msg = e.msg
    /\ \A r \in running :
          r.tag <= tags[r.conn] /\ \A d \in unacked[r.conn] : d.tag = r.tag => d.msg = r.msg

FirstInv == BrokerTypeOK /\ UsedSound /\ TagsSound /\ FirstConnectionLosesNothing

LEMMA InitFirst == BrokerInit => FirstInv
<1> SUFFICES ASSUME BrokerInit PROVE FirstInv
  OBVIOUS
<1>1. BrokerTypeOK BY InitBroker DEF BrokerInv
<1>2. UsedSound /\ TagsSound BY DEF BrokerInit, UsedSound, TagsSound
<1>3. FirstConnectionLosesNothing BY DEF BrokerInit, FirstConnectionLosesNothing
<1> QED BY <1>1, <1>2, <1>3 DEF FirstInv

\* A connection that was made stays made.
UsedGrows == \A c \in Conns : Used(c) => Used(c)'

\* Where a message is safe: it can be delivered, is being handled, or was.
Safe(m) ==
    \/ m \in queue \cup handled \cup rejected
    \/ \E c \in Conns : \E d \in unacked[c] : d.msg = m

\* The property is kept by a step that leaves every safe message safe.
LEMMA SafeKeeps ==
    ASSUME FirstInv, UsedGrows,
           \A m \in Messages \ (unsent \cup dropped)' :
               m \in unsent \cup dropped \/ Safe(m) => Safe(m)'
    PROVE  FirstConnectionLosesNothing'
<1> SUFFICES ASSUME (\A c, d \in Conns \ Fresh : c = d)', NEW m \in Messages \ (unsent \cup dropped)'
             PROVE  Safe(m)'
  BY DEF FirstConnectionLosesNothing, Safe
<1>1. \A c, d \in Conns \ Fresh : c = d BY DEF UsedGrows, Used, Fresh
<1>2. m \in unsent \cup dropped \/ Safe(m)
  BY <1>1 DEF FirstInv, FirstConnectionLosesNothing, Safe
<1> QED BY <1>2

\* A connection or channel that ends returns its messages to the queue.
LEMMA EndsSafe ==
    ASSUME FirstInv, NEW c \in Conns, NEW how \in ConnStates \ {"unused"}, Ends(c, how),
           Used(c)
    PROVE  /\ UsedGrows
           /\ \A b \in Conns : unacked'[b] \subseteq unacked[b]
           /\ tags' = tags
           /\ \A m \in queue : m \in queue'
           /\ \A b \in Conns : \A d \in unacked[b] :
                 d.msg \in queue' \/ d \in unacked'[b]
BY DEF FirstInv, BrokerTypeOK, Ends, UsedGrows, Used, ConnStates

\* Fewer unanswered deliveries, and no others, keep the tags sound.
LEMMA FewerTags ==
    ASSUME FirstInv, UsedGrows, tags' = tags, running' \subseteq running,
           unacked' \in [Conns -> SUBSET [tag : Nat, msg : Messages]],
           \A b \in Conns : unacked'[b] \subseteq unacked[b],
           channel' \in {channel, None}, connection' \in {connection, None},
           connecting'.pc \in {"channel", "exchange"} => connecting' = connecting
    PROVE  UsedSound' /\ TagsSound'
<1>1. TagsSound' BY DEF FirstInv, BrokerTypeOK, Delivery, TagsSound
<1>2. UsedSound'
  BY Stages DEF FirstInv, BrokerTypeOK, Delivery, UsedSound, UsedGrows, Opening
<1> QED BY <1>1, <1>2

LEMMA StepFirst == FirstInv /\ [BrokerNext]_brokerVars => FirstInv'
<1> SUFFICES ASSUME FirstInv, [BrokerNext]_brokerVars
             PROVE  (UsedSound /\ TagsSound /\ FirstConnectionLosesNothing)'
  BY StepBrokerTypeOK DEF FirstInv
<1>0. BrokerTypeOK BY DEF FirstInv
<1>t. BrokerTypeOK' BY <1>0, StepBrokerTypeOK
<1> DEFINE Kept == UsedSound' /\ TagsSound' /\ FirstConnectionLosesNothing'
\* A step that sends, delivers and answers nothing and keeps the connections.
<1>1. ASSUME UNCHANGED <<conn, queue, unacked, tags, running, unsent, handled, rejected, dropped>>,
             channel' \in {channel, None}, connection' \in {connection, None},
             connecting'.pc \in {"channel", "exchange"} => connecting' = connecting
      PROVE  Kept
  <2>1. UsedGrows BY <1>1 DEF UsedGrows, Used
  <2>2. UsedSound' /\ TagsSound' BY <1>0, <1>1, <2>1, FewerTags DEF BrokerTypeOK
  <2>3. FirstConnectionLosesNothing' BY <1>1, <2>1, SafeKeeps DEF Safe
  <2> QED BY <2>2, <2>3
<1>2. CASE ConnectFails BY <1>1, <1>2 DEF ConnectFails, NotConnecting, rabbit, fate
<1>3. CASE Dial
  <2>1. PICK c \in Fresh : conn' = [conn EXCEPT ![c] = "open"] /\ connection' = c
                           /\ connecting' = [pc |-> "channel", caller |-> connecting.caller, conn |-> c]
    BY <1>3 DEF Dial
  <2>2. UsedGrows BY <1>0, <2>1 DEF UsedGrows, Used, BrokerTypeOK, Fresh
  <2>3. UNCHANGED <<rabbit, fate, running, channel>> BY <1>3 DEF Dial
  <2>4. UsedSound'
    BY <1>0, <2>1, <2>2, <2>3 DEF FirstInv, UsedSound, UsedGrows, Used, BrokerTypeOK, Fresh, rabbit, Delivery
  <2>5. TagsSound' BY <2>3 DEF FirstInv, TagsSound, rabbit
  <2>6. FirstConnectionLosesNothing' BY <2>2, <2>3, SafeKeeps DEF Safe, rabbit, fate
  <2> QED BY <2>4, <2>5, <2>6
<1>4. CASE CreateChannel
  <2>1. UNCHANGED <<conn, rabbit, fate, running, connection>> BY <1>4 DEF CreateChannel
  <2>2. UsedGrows BY <2>1 DEF UsedGrows, Used
  <2>3. connecting \in Opening BY <1>0, <1>4, Stages DEF CreateChannel
  <2>4. channel' = connecting.conn /\ connecting'.conn = connecting.conn /\ Used(connecting.conn)
    BY <1>4, <2>3 DEF CreateChannel, Opening, Used, Open
  <2>5. UsedSound' BY <2>1, <2>4 DEF FirstInv, UsedSound, Used, rabbit
  <2>6. TagsSound' BY <2>1 DEF FirstInv, TagsSound, rabbit
  <2>7. FirstConnectionLosesNothing' BY <2>1, <2>2, SafeKeeps DEF Safe, rabbit, fate
  <2> QED BY <2>5, <2>6, <2>7
<1>5. CASE Connected BY <1>1, <1>5 DEF Connected, NotConnecting, rabbit, fate
<1>6. CASE Timer BY <1>1, <1>6 DEF Timer, rabbit, fate
<1>7. ASSUME NEW c \in Conns, NEW how \in ConnStates \ {"unused"}, Ends(c, how), Used(c),
             UNCHANGED <<fate, running, connecting>>,
             channel' \in {channel, None}, connection' \in {connection, None}
      PROVE  Kept
  <2>1. /\ UsedGrows /\ tags' = tags
        /\ \A b \in Conns : unacked'[b] \subseteq unacked[b]
        /\ \A m \in queue : m \in queue'
        /\ \A b \in Conns : \A d \in unacked[b] : d.msg \in queue' \/ d \in unacked'[b]
    BY <1>7, EndsSafe
  <2>2. UsedSound' /\ TagsSound'
    BY <1>7, <1>t, <2>1, FewerTags DEF BrokerTypeOK
  <2>3. \A m : Safe(m) => Safe(m)' BY <1>7, <2>1 DEF Safe, fate
  <2>4. \A m \in Messages \ (unsent \cup dropped)' : ~(m \in unsent \cup dropped)
    BY <1>7 DEF fate
  <2>5. FirstConnectionLosesNothing' BY <2>1, <2>3, <2>4, SafeKeeps
  <2> QED BY <2>2, <2>5
<1>8. ASSUME CloseConnection, UNCHANGED <<fate, running, connecting>> PROVE Kept
  <2>1. CASE Ends(connection, "closing") /\ connection # None /\ UNCHANGED <<channel, connection>>
    <3>1. connection \in Conns /\ Used(connection)
      BY <1>0, <2>1 DEF BrokerTypeOK, FirstInv, UsedSound
    <3> QED BY <1>7, <1>8, <2>1, <3>1 DEF ConnStates
  <2>2. CASE Finally /\ UNCHANGED <<conn, rabbit>>
    BY <1>1, <1>8, <2>2 DEF Finally, rabbit, fate
  <2> QED BY <1>8, <2>1, <2>2 DEF CloseConnection, Closable
<1>9. ASSUME NEW c \in Conns, Lose(c) PROVE Kept
  <2>1. Used(c) /\ Ends(c, "closed") BY <1>9 DEF Lose, Used
  <2> QED BY <1>7, <1>9, <2>1 DEF Lose, ConnStates
<1>10. CASE OnMessage BY <1>1, <1>10 DEF OnMessage, rabbit, fate, service
<1>11. ASSUME NEW c \in Conns, QueueDeclared(c) \/ QueueBound(c) PROVE Kept
  BY <1>1, <1>11 DEF QueueDeclared, QueueBound, fate, service
<1>12. CASE PublishConnects BY <1>1, <1>12 DEF PublishConnects, rabbit, fate
<1>13. ASSUME NEW m \in Messages, Publish(m) PROVE Kept
  <2>1. UNCHANGED <<conn, unacked, tags, running, channel, connection, connecting, handled, rejected>>
    BY <1>13 DEF Publish, service
  <2>2. UsedGrows BY <2>1 DEF UsedGrows, Used
  <2>3. UsedSound' /\ TagsSound' BY <1>0, <2>1, <2>2, FewerTags DEF BrokerTypeOK
  <2>4. \A n \in Messages \ (unsent \cup dropped)' : n \in unsent \cup dropped \/ Safe(n) => Safe(n)'
    BY <1>13, <2>1 DEF Publish, Safe
  <2> QED BY <2>2, <2>3, <2>4, SafeKeeps
<1>14. ASSUME NEW c \in Conns, NEW m \in Messages, Deliver(c, m) PROVE Kept
  <2>1. /\ UNCHANGED <<conn, channel, connection, connecting, fate>>
        /\ queue' = queue \ {m}
        /\ tags' = [tags EXCEPT ![c] = @ + 1]
        /\ unacked' = [unacked EXCEPT ![c] = @ \cup {[tag |-> tags[c] + 1, msg |-> m]}]
        /\ running' = running \cup {[conn |-> c, tag |-> tags[c] + 1, msg |-> m]}
        /\ Used(c)
    BY <1>0, <1>14 DEF Deliver, service, BrokerTypeOK, Used
  <2>2. UsedGrows BY <2>1 DEF UsedGrows, Used
  <2>3. UsedSound' BY <1>0, <2>1 DEF FirstInv, UsedSound, Used, BrokerTypeOK
  <2>4. TagsSound'
    <3>1. ASSUME NEW b \in Conns, NEW d \in unacked'[b]
          PROVE  d.tag <= tags'[b] /\ \A e \in unacked'[b] : d.tag = e.tag => d.msg = e.msg
      BY <1>0, <2>1, <3>1 DEF FirstInv, TagsSound, BrokerTypeOK
    <3>2. ASSUME NEW r \in running'
          PROVE  r.tag <= tags'[r.conn] /\ \A d \in unacked'[r.conn] : d.tag = r.tag => d.msg = r.msg
      BY <1>0, <2>1, <3>2 DEF FirstInv, TagsSound, BrokerTypeOK, Delivery
    <3> QED BY <3>1, <3>2 DEF TagsSound
  <2>5. \A n \in Messages : Safe(n) => Safe(n)'
    <3>1. [tag |-> tags[c] + 1, msg |-> m] \in unacked'[c] BY <1>0, <2>1 DEF BrokerTypeOK
    <3>2. \A b \in Conns : unacked[b] \subseteq unacked'[b] BY <1>0, <2>1 DEF BrokerTypeOK
    <3>3. Safe(m)' BY <3>1 DEF Safe
    <3> QED BY <2>1, <3>2, <3>3 DEF Safe, fate
  <2>6. FirstConnectionLosesNothing'
    <3>1. \A n \in Messages \ (unsent \cup dropped)' : ~(n \in unsent \cup dropped)
      BY <2>1 DEF fate
    <3> QED BY <2>2, <2>5, <3>1, SafeKeeps
  <2> QED BY <2>3, <2>4, <2>6
<1>15. ASSUME NEW r \in running, NEW ok \in BOOLEAN, Answer(r, ok) PROVE Kept
  <2>1. /\ UNCHANGED <<channel, connection, connecting, unsent, dropped>>
        /\ running' \subseteq running
        /\ handled \cup rejected \cup {r.msg} = handled' \cup rejected'
    BY <1>15 DEF Answer, service
  <2>2. CASE UNCHANGED <<conn, rabbit>>
    <3>1. UsedGrows BY <2>2 DEF UsedGrows, Used
    <3>2. UsedSound' /\ TagsSound' BY <1>0, <2>1, <2>2, <3>1, FewerTags DEF BrokerTypeOK, rabbit
    <3>3. \A m : Safe(m) => Safe(m)' BY <2>1, <2>2 DEF Safe, rabbit
    <3> QED BY <2>1, <3>1, <3>2, <3>3, SafeKeeps
  <2>3. CASE channel # None /\ Ends(channel, "deaf")
    <3>0. "deaf" \in ConnStates \ {"unused"} BY DEF ConnStates
    <3>1. channel \in Conns /\ Used(channel) BY <1>0, <2>3 DEF BrokerTypeOK, FirstInv, UsedSound
    <3>2. /\ UsedGrows /\ tags' = tags
          /\ \A b \in Conns : unacked'[b] \subseteq unacked[b]
          /\ \A m \in queue : m \in queue'
          /\ \A b \in Conns : \A d \in unacked[b] : d.msg \in queue' \/ d \in unacked'[b]
      BY <2>3, <3>0, <3>1, EndsSafe
    <3>3. UsedSound' /\ TagsSound' BY <1>t, <2>1, <3>2, FewerTags DEF BrokerTypeOK
    <3>4. \A m : Safe(m) => Safe(m)' BY <2>1, <3>2 DEF Safe
    <3> QED BY <2>1, <3>2, <3>3, <3>4, SafeKeeps
  <2>4. CASE /\ channel # None
             /\ unacked' = [unacked EXCEPT ![channel] = @ \ {d \in unacked[channel] : d.tag = r.tag}]
             /\ UNCHANGED <<conn, bindings, queue, tags, consumers>>
    <3>1. UsedGrows BY <2>4 DEF UsedGrows, Used
    <3>2. channel \in Conns /\ \A b \in Conns : unacked'[b] \subseteq unacked[b]
      BY <1>0, <2>4 DEF BrokerTypeOK
    <3>3. UsedSound' /\ TagsSound' BY <1>t, <2>1, <2>4, <3>1, <3>2, FewerTags DEF BrokerTypeOK
    <3>4. FirstConnectionLosesNothing'
      <4> SUFFICES ASSUME (\A c, d \in Conns \ Fresh : c = d)',
                          NEW m \in Messages \ (unsent \cup dropped)'
                   PROVE  Safe(m)'
        BY DEF FirstConnectionLosesNothing, Safe
      <4>1. \A c, d \in Conns \ Fresh : c = d BY <3>1 DEF UsedGrows, Used, Fresh
      <4>2. r.conn = channel
        BY <1>0, <2>4, <3>2, <4>1 DEF FirstInv, UsedSound, Used, Fresh, BrokerTypeOK, Delivery
      <4>3. Safe(m) BY <2>1, <4>1 DEF FirstInv, FirstConnectionLosesNothing, Safe
      <4>4. CASE m \in queue \cup handled \cup rejected BY <2>1, <2>4, <4>4 DEF Safe
      <4>5. ASSUME NEW c \in Conns, NEW d \in unacked[c], d.msg = m PROVE Safe(m)'
        <5>1. CASE c = channel /\ d.tag = r.tag
          <6>1. m = r.msg BY <4>2, <4>5, <5>1 DEF FirstInv, TagsSound
          <6> QED BY <2>1, <6>1 DEF Safe
        <5>2. CASE ~(c = channel /\ d.tag = r.tag)
          <6>1. d \in unacked'[c] BY <1>0, <2>4, <3>2, <5>2 DEF BrokerTypeOK
          <6> QED BY <4>5, <6>1 DEF Safe
        <5> QED BY <5>1, <5>2
      <4> QED BY <4>3, <4>4, <4>5 DEF Safe
    <3> QED BY <3>3, <3>4
  <2> QED BY <1>15, <2>2, <2>3, <2>4 DEF Answer, AnswerTag, Open
<1>16. CASE Toggle BY <1>1, <1>16 DEF Toggle, rabbit, fate, service
<1>17. CASE UNCHANGED brokerVars BY <1>1, <1>17 DEF brokerVars, rabbit, fate, service
<1>18. CASE Disconnect
  <2>1. UNCHANGED <<fate, running, connecting>> BY <1>18 DEF Disconnect, service
  <2>2. CASE Open(channel) /\ Ends(channel, "deaf") /\ UNCHANGED <<channel, connection>>
    <3>1. channel \in Conns /\ Used(channel)
      BY <1>0, <2>2 DEF Open, BrokerTypeOK, FirstInv, UsedSound
    <3> QED BY <1>7, <2>1, <2>2, <3>1 DEF ConnStates
  <2>3. CASE Finally /\ UNCHANGED <<conn, rabbit>>
    BY <1>1, <2>1, <2>3 DEF Finally, rabbit, fate
  <2> QED BY <1>8, <1>18, <2>1, <2>2, <2>3 DEF Disconnect
<1>19. CASE ChannelClosed BY <1>8, <1>19 DEF ChannelClosed, service
<1>20. CASE ConnectionClosed
  <2>1. /\ UNCHANGED <<rabbit, running, fate, connecting>>
        /\ channel' = None /\ connection' = None
    BY <1>20 DEF ConnectionClosed, Finally
  <2>2. UsedGrows BY <1>0, <1>20 DEF UsedGrows, Used, ConnectionClosed, BrokerTypeOK
  <2>3. UsedSound' /\ TagsSound' BY <1>0, <2>1, <2>2, FewerTags DEF BrokerTypeOK, rabbit
  <2>4. FirstConnectionLosesNothing' BY <2>1, <2>2, SafeKeeps DEF Safe, rabbit, fate
  <2> QED BY <2>3, <2>4
<1> QED
  BY <1>2, <1>3, <1>4, <1>5, <1>6, <1>9, <1>10, <1>11, <1>12, <1>13, <1>14, <1>15, <1>16, <1>17,
     <1>18, <1>19, <1>20
  DEF BrokerNext

\* On a service's first connection every message that was routed is delivered at
\* least once, whatever handlers fail and whatever the channel does.
THEOREM FirstConnectionDelivers == BrokerSpec => []FirstConnectionLosesNothing
<1>1. FirstInv => FirstConnectionLosesNothing BY DEF FirstInv
<1> QED BY <1>1, InitFirst, StepFirst, PTL DEF BrokerSpec
=============================================================================
