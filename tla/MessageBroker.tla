---------------------------- MODULE MessageBroker ----------------------------
(***************************************************************************)
(* MessageBroker: one service's connection to RabbitMQ, its reconnection   *)
(* and the messages of one topic (the durable queue service.topic).        *)
(*                                                                         *)
(* Connections are numbered in the order they are made; each has one       *)
(* channel.  An error of RabbitMQ on a channel (an acknowledgement of a    *)
(* tag it does not know) closes the channel and not the connection, and    *)
(* the code listens to the connection only.  What a call sends on an open  *)
(* channel RabbitMQ does at once; its answer is a step of its own, and the *)
(* call reads this.channel and this.connection again when it goes on.      *)
(***************************************************************************)
EXTENDS Naturals

CONSTANTS Messages,
          MaxReconnectAttempts, \* ten in the code
          MaxConns,     \* bound: connections made
          MaxLosses,    \* bound: connections lost
          MaxHandlers   \* bound: calls of onMessage

None == 0
Conns == 1..MaxConns

ASSUME MessageBrokerAssumption ==
    /\ MaxReconnectAttempts \in Nat \ {0}
    /\ MaxConns \in Nat /\ MaxLosses \in Nat /\ MaxHandlers \in Nat

VARIABLES
    server,              \* does RabbitMQ accept connections? "up" or "down"
    conn,                \* connection -> its state and its channel's
    bindings,            \* of the queue to the topic: one, once it exists
    queue,               \* the messages ready in it
    unacked,             \* connection -> set of [tag, msg] not yet answered
    tags,                \* connection -> last delivery tag given
    consumers,           \* connections whose channel consumes the queue
    channel, connection, \* this.channel and this.connection, None for null
    connecting,          \* the connect() under way (isConnecting)
    reconnectAttempts,
    timers,              \* timeouts set by reconnect()
    listening,           \* connections connect() has put its listeners on
    declaring, binding,  \* connection -> calls of subscribe() that wait for it to
                         \* answer assertQueue, and bindQueue
    handlers,            \* handlers registered for the topic
    running,             \* deliveries whose handlers are running: [conn, tag, msg]
    unsent, handled, rejected, dropped,  \* messages by their fate
    losses,              \* connections lost
    disconnecting        \* how far disconnect() has got, which is called once

rabbit == <<bindings, queue, unacked, tags, consumers>>
subscribing == <<declaring, binding>>
service == <<connecting, listening, reconnectAttempts, timers>>
fate == <<unsent, handled, rejected, dropped>>
brokerVars == <<server, conn, rabbit, channel, connection, service, subscribing, handlers, running, fate,
                losses, disconnecting>>

NotConnecting == [pc |-> "no"]
NotDisconnecting == [pc |-> "no"]
Disconnected == [pc |-> "done"]
ToldToDisconnect == disconnecting # NotDisconnecting
Fresh == {c \in Conns : conn[c] = "unused"}
Open(c) == c # None /\ conn[c] = "open"

BrokerInit ==
    /\ server \in {"up", "down"}
    /\ conn = [c \in Conns |-> "unused"]
    /\ bindings = 0 /\ queue = {}
    /\ unacked = [c \in Conns |-> {}]
    /\ tags = [c \in Conns |-> 0]
    /\ consumers = {}
    /\ channel = None /\ connection = None
    /\ connecting = [pc |-> "dial", caller |-> "app"]  \* the service starts with connect()
    /\ reconnectAttempts = 0 /\ timers = 0
    /\ listening = {} /\ handlers = 0
    /\ declaring = [c \in Conns |-> 0] /\ binding = [c \in Conns |-> 0]
    /\ running = {}
    /\ unsent = Messages /\ handled = {} /\ rejected = {} /\ dropped = {}
    /\ losses = 0 /\ disconnecting = NotDisconnecting

-----------------------------------------------------------------------------
(* RabbitMQ *)

\* It goes down or comes back; its connections are lost one by one.
Toggle == /\ server' = IF server = "up" THEN "down" ELSE "up"
          /\ UNCHANGED <<conn, rabbit, channel, connection, service, subscribing, handlers, running,
                         fate, losses, disconnecting>>

\* A connection or a channel that ends gives its unanswered messages back; the
\* calls of subscribe() that wait for it fail, which is logged.
Ends(c, how) ==
    /\ conn' = [conn EXCEPT ![c] = how]
    /\ queue' = queue \cup {d.msg : d \in unacked[c]}
    /\ unacked' = [unacked EXCEPT ![c] = {}]
    /\ consumers' = consumers \ {c}
    /\ declaring' = [declaring EXCEPT ![c] = 0]
    /\ binding' = [binding EXCEPT ![c] = 0]
    /\ UNCHANGED <<bindings, tags>>

-----------------------------------------------------------------------------
(* connect and reconnect *)

\* n calls of reconnect, each of which sets a timeout unless ten are spent.
Reconnect(n) ==
    LET left == MaxReconnectAttempts - reconnectAttempts
        k == IF n <= left THEN n ELSE left IN
    /\ reconnectAttempts' = reconnectAttempts + k
    /\ timers' = timers + k

\* subscribe() as far as its first await, when it is called: without a channel, or
\* on one that is closed, it fails.
StartSubscribe(called) ==
    /\ declaring' = IF called /\ Open(channel) THEN [declaring EXCEPT ![channel] = @ + 1] ELSE declaring
    /\ UNCHANGED binding

\* A timeout goes on to subscribe again when its connect() has returned.
Returned == StartSubscribe(connecting.caller = "timer" /\ handlers > 0)

\* connect() fails at one of its three awaits, or after the last of them because
\* disconnect() has set this.connection to null; the error is swallowed.
ConnectFails ==
    /\ \/ connecting.pc = "dial" /\ server = "down"
       \/ connecting.pc \in {"channel", "exchange"} /\ ~ Open(connecting.conn)
       \/ connecting.pc = "exchange" /\ connection = None
    /\ Reconnect(1)
    /\ connecting' = NotConnecting
    /\ Returned
    /\ UNCHANGED <<server, conn, rabbit, channel, connection, listening, handlers, running, fate, losses,
                   disconnecting>>

Dial ==
    /\ connecting.pc = "dial" /\ server = "up"
    /\ \E c \in Fresh :
          /\ \A d \in Fresh : c <= d
          /\ conn' = [conn EXCEPT ![c] = "open"]
          /\ connection' = c
          /\ connecting' = [pc |-> "channel", caller |-> connecting.caller, conn |-> c]
    /\ UNCHANGED <<server, rabbit, channel, listening, reconnectAttempts, timers, subscribing, handlers, running,
                   fate, losses, disconnecting>>

CreateChannel ==
    /\ connecting.pc = "channel" /\ Open(connecting.conn)
    /\ channel' = connecting.conn
    /\ connecting' = [connecting EXCEPT !.pc = "exchange"]
    /\ UNCHANGED <<server, conn, rabbit, connection, listening, reconnectAttempts, timers, subscribing, handlers,
                   running, fate, losses, disconnecting>>

\* assertExchange answers: listen to the connection, forget the attempts.
Connected ==
    /\ connecting.pc = "exchange" /\ Open(connecting.conn) /\ connection # None
    /\ listening' = listening \cup {connection}
    /\ reconnectAttempts' = 0
    /\ connecting' = NotConnecting
    /\ Returned
    /\ UNCHANGED <<server, conn, rabbit, channel, connection, timers, handlers, running, fate,
                   losses, disconnecting>>

\* The connection is lost: an error and a close event, or a close event only,
\* and every event calls reconnect().
LoseUnnoticed(c) ==  \* mutant: no listener for the close event
    /\ conn[c] \in {"open", "deaf", "closing"} /\ losses < MaxLosses
    /\ Ends(c, "closed")
    /\ losses' = losses + 1
    /\ \E events \in {0, 1} :
          IF c \in listening THEN Reconnect(events) ELSE UNCHANGED <<reconnectAttempts, timers>>
    /\ UNCHANGED <<server, channel, connection, connecting, listening, handlers, running, fate,
                   disconnecting>>
Lose(c) ==
    /\ conn[c] \in {"open", "deaf", "closing"} /\ losses < MaxLosses
    /\ Ends(c, "closed")
    /\ losses' = losses + 1
    /\ \E events \in {1, 2} :
          IF c \in listening THEN Reconnect(events) ELSE UNCHANGED <<reconnectAttempts, timers>>
    /\ UNCHANGED <<server, channel, connection, connecting, listening, handlers, running, fate,
                   disconnecting>>

\* mutant: a timeout subscribes again and leaves the connection to others
TimerSubscribes ==
    /\ timers > 0
    /\ timers' = timers - 1
    /\ StartSubscribe(handlers > 0)
    /\ UNCHANGED <<server, conn, rabbit, channel, connection, connecting, listening, reconnectAttempts,
                   handlers, running, fate, losses, disconnecting>>
\* A timeout of reconnect(): connect() returns at once while another is under way.
Timer ==
    /\ timers > 0
    /\ timers' = timers - 1
    /\ IF connecting = NotConnecting
       THEN /\ connecting' = [pc |-> "dial", caller |-> "timer"]
            /\ UNCHANGED subscribing
       ELSE /\ StartSubscribe(handlers > 0)
            /\ UNCHANGED connecting
    /\ UNCHANGED <<server, conn, rabbit, channel, connection, listening, reconnectAttempts, handlers, running,
                   fate, losses, disconnecting>>

-----------------------------------------------------------------------------
(* disconnect: close this.channel, await; close this.connection, await.  A loss of
   the connection before the answer leaves the call waiting for ever. *)

\* Null whatever they are by now.
Finally == /\ channel' = None /\ connection' = None
           /\ disconnecting' = Disconnected

\* Closing what is closed throws.
Closable == connection # None /\ conn[connection] \in {"open", "deaf"}
CloseConnection ==
    \/ /\ Closable
       /\ Ends(connection, "closing")
       /\ disconnecting' = [pc |-> "connection", conn |-> connection]
       /\ UNCHANGED <<channel, connection>>
    \/ /\ ~ Closable
       /\ Finally
       /\ UNCHANGED <<conn, rabbit, subscribing>>

Disconnect ==
    /\ ~ ToldToDisconnect
    /\ \/ channel = None /\ CloseConnection
       \/ /\ Open(channel)
          /\ Ends(channel, "deaf")
          /\ disconnecting' = [pc |-> "channel", conn |-> channel]
          /\ UNCHANGED <<channel, connection>>
       \/ /\ channel # None /\ ~ Open(channel)
          /\ Finally
          /\ UNCHANGED <<conn, rabbit, subscribing>>
    /\ UNCHANGED <<server, service, handlers, running, fate, losses>>

ChannelClosed ==
    /\ disconnecting.pc = "channel" /\ conn[disconnecting.conn] = "deaf"
    /\ CloseConnection
    /\ UNCHANGED <<server, service, handlers, running, fate, losses>>

\* The close event comes with the answer and makes the service connect again.
ConnectionClosed ==
    /\ disconnecting.pc = "connection" /\ conn[disconnecting.conn] = "closing"
    /\ conn' = [conn EXCEPT ![disconnecting.conn] = "closed"]
    /\ IF disconnecting.conn \in listening THEN Reconnect(1) ELSE UNCHANGED <<reconnectAttempts, timers>>
    /\ Finally
    /\ UNCHANGED <<server, rabbit, subscribing, connecting, listening, handlers, running, fate, losses>>

-----------------------------------------------------------------------------
(* Handlers and messages *)

\* onMessage: every call subscribes the topic again when there is a channel.
OnMessage ==
    /\ handlers < MaxHandlers
    /\ handlers' = handlers + 1
    /\ StartSubscribe(TRUE)
    /\ UNCHANGED <<server, conn, rabbit, channel, connection, service, running, fate, losses, disconnecting>>

\* assertQueue answers on c: subscribe() binds the queue on the channel there is
\* now; its error is logged by whoever called it.
QueueDeclared(c) ==
    /\ declaring[c] > 0
    /\ declaring' = [declaring EXCEPT ![c] = @ - 1]
    /\ IF Open(channel)
       THEN bindings' = 1 /\ binding' = [binding EXCEPT ![channel] = @ + 1]
       ELSE UNCHANGED <<bindings, binding>>
    /\ UNCHANGED <<server, conn, queue, unacked, tags, consumers, channel, connection, service, handlers,
                   running, fate, losses, disconnecting>>

\* bindQueue answers on c: it consumes the queue on the channel there is now.
QueueBound(c) ==
    /\ binding[c] > 0
    /\ binding' = [binding EXCEPT ![c] = @ - 1]
    /\ consumers' = IF Open(channel) THEN consumers \cup {channel} ELSE consumers
    /\ UNCHANGED <<server, conn, bindings, queue, unacked, tags, channel, connection, service, declaring,
                   handlers, running, fate, losses, disconnecting>>

\* publish on the channel; a message no queue is bound for is dropped there.
\* Without a connection, or on a closed channel, it throws.
Publish(m) ==
    /\ m \in unsent
    /\ Open(channel)
    /\ unsent' = unsent \ {m}
    /\ IF bindings > 0 THEN queue' = queue \cup {m} /\ UNCHANGED dropped
                ELSE dropped' = dropped \cup {m} /\ UNCHANGED queue
    /\ UNCHANGED <<server, conn, bindings, unacked, tags, consumers, channel, connection, service, subscribing,
                   handlers, running, handled, rejected, losses, disconnecting>>

\* publish without a channel connects first.
PublishConnects ==
    /\ unsent # {} /\ channel = None /\ connecting = NotConnecting
    /\ connecting' = [pc |-> "dial", caller |-> "publish"]
    /\ UNCHANGED <<server, conn, rabbit, channel, connection, listening, reconnectAttempts, timers,
                   subscribing, handlers, running, fate, losses, disconnecting>>

DeliverNoAck(c, m) ==  \* mutant: consumed with automatic acknowledgement
    /\ m \in queue /\ conn[c] = "open" /\ c \in consumers
    /\ queue' = queue \ {m}
    /\ tags' = [tags EXCEPT ![c] = @ + 1]
    /\ running' = running \cup {[conn |-> c, tag |-> tags'[c], msg |-> m]}
    /\ UNCHANGED <<server, conn, bindings, unacked, consumers, channel, connection, service, subscribing,
                   handlers, fate, losses, disconnecting>>
Deliver(c, m) ==
    /\ m \in queue /\ conn[c] = "open" /\ c \in consumers
    /\ queue' = queue \ {m}
    /\ tags' = [tags EXCEPT ![c] = @ + 1]
    /\ unacked' = [unacked EXCEPT ![c] = @ \cup {[tag |-> tags'[c], msg |-> m]}]
    /\ running' = running \cup {[conn |-> c, tag |-> tags'[c], msg |-> m]}
    /\ UNCHANGED <<server, conn, bindings, consumers, channel, connection, service, subscribing, handlers, fate,
                   losses, disconnecting>>

\* ack or nack without requeue, with the message's tag but on this.channel:
\* another channel takes it for its own tag, or closes when it has no such tag.
\* On a closed channel, and without one, nothing reaches RabbitMQ.
AnswerTag(t) ==
    IF Open(channel)
    THEN LET mine == {d \in unacked[channel] : d.tag = t} IN
         IF mine # {}
         THEN /\ unacked' = [unacked EXCEPT ![channel] = @ \ mine]
              /\ UNCHANGED <<conn, bindings, queue, tags, consumers, subscribing>>
         ELSE Ends(channel, "deaf")
    ELSE UNCHANGED <<conn, rabbit, subscribing>>

Answer(r, ok) ==
    /\ r \in running
    /\ running' = running \ {r}
    /\ handled' = IF ok THEN handled \cup {r.msg} ELSE handled
    /\ rejected' = IF ok THEN rejected ELSE rejected \cup {r.msg}
    /\ AnswerTag(r.tag)
    /\ UNCHANGED <<server, channel, connection, service, handlers, unsent, dropped, losses, disconnecting>>

BrokerNext ==
    \/ Toggle \/ ConnectFails \/ Dial \/ CreateChannel \/ Connected \/ Timer
    \/ Disconnect \/ ChannelClosed \/ ConnectionClosed
    \/ OnMessage \/ PublishConnects
    \/ \E c \in Conns : \/ Lose(c) \/ QueueDeclared(c) \/ QueueBound(c)
                        \/ \E m \in Messages : Deliver(c, m)
    \/ \E m \in Messages : Publish(m)
    \/ \E r \in running, ok \in BOOLEAN : Answer(r, ok)

\* The event loop runs timeouts and answers; nothing makes RabbitMQ come up.
BrokerFairness == /\ WF_brokerVars(Timer)
                  /\ WF_brokerVars(ConnectFails \/ Dial \/ CreateChannel \/ Connected)
BrokerSpec == BrokerInit /\ [][BrokerNext]_brokerVars
FairBrokerSpec == BrokerSpec /\ BrokerFairness

-----------------------------------------------------------------------------
(* Properties *)

Delivery == [conn : Conns, tag : Nat, msg : Messages]
Diallers == {"app", "publish", "timer"}
Dialling == [pc : {"dial"}, caller : Diallers]
Opening == [pc : {"channel", "exchange"}, caller : Diallers, conn : Conns]
Closing == [pc : {"channel", "connection"}, conn : Conns]
ConnStates == {"unused", "open", "deaf", "closing", "closed"}

\* The fields and the broker's state have their types.
BrokerTypeOK ==
    /\ server \in {"up", "down"} /\ bindings \in 0..1
    /\ conn \in [Conns -> ConnStates]
    /\ queue \subseteq Messages
    /\ unacked \in [Conns -> SUBSET [tag : Nat, msg : Messages]]
    /\ tags \in [Conns -> Nat] /\ consumers \subseteq Conns
    /\ channel \in Conns \cup {None} /\ connection \in Conns \cup {None}
    /\ connecting \in {NotConnecting} \cup Dialling \cup Opening
    /\ reconnectAttempts \in 0..MaxReconnectAttempts
    /\ listening \subseteq Conns
    /\ declaring \in [Conns -> Nat] /\ binding \in [Conns -> Nat]
    /\ disconnecting \in {NotDisconnecting, Disconnected} \cup Closing
    /\ timers \in Nat /\ handlers \in 0..MaxHandlers /\ losses \in 0..MaxLosses
    /\ running \subseteq Delivery
    /\ unsent \subseteq Messages /\ handled \subseteq Messages
    /\ rejected \subseteq Messages /\ dropped \subseteq Messages

\* It has one whose loss it would notice.
HasConnection == channel \in listening /\ conn[channel] \in {"open", "deaf"}

\* A service that has not been told to disconnect either has its connection, or
\* is connecting, or will try again, or has spent its attempts: whatever events,
\* timeouts and failures overlap, no outage leaves it waiting for nothing.
KeepsTrying ==
    HasConnection \/ ToldToDisconnect \/ connecting # NotConnecting \/ timers > 0
    \/ reconnectAttempts = MaxReconnectAttempts

\* On a service's first connection every message is delivered at least once:
\* one that was routed to the queue is there, or is being worked on, or has been
\* handled, or was given up because a handler failed.
FirstConnectionLosesNothing ==
    (\A c, d \in Conns \ Fresh : c = d) =>
        \A m \in Messages \ (unsent \cup dropped) :
            \/ m \in queue \cup handled \cup rejected
            \/ \E c \in Conns : \E d \in unacked[c] : d.msg = m

\* Once RabbitMQ stays up and connections are no longer lost, a service that has
\* attempts left and was not disconnected gets its connection back (within the
\* bound on the connections made).
Recovers ==
    <>[](server = "up") =>
        []<>(HasConnection \/ ToldToDisconnect \/ reconnectAttempts = MaxReconnectAttempts \/ Fresh = {})
=============================================================================
