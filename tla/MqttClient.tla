----------------------------- MODULE MqttClient -----------------------------
(***************************************************************************)
(* The MQTT client (mqtt.rs, run): three tasks around the rumqttc client.  *)
(* The event loop polls the connection; the (re)subscribe loop subscribes  *)
(* and announces the gateway each time the event loop tells it to; the     *)
(* publish loop moves events from the publish channel, which outlives a    *)
(* reload, into the request queue of rumqttc, which does not.              *)
(*                                                                         *)
(* rumqttc and the broker are external: a FIFO connection that may break,  *)
(* requests that are queued while there is none, publishes repeated after  *)
(* a reconnect under QoS 1 if the broker kept the session, and a last will *)
(* published when the broker finds the connection gone or taken over.      *)
(***************************************************************************)
EXTENDS Naturals, Sequences

CONSTANTS
  MaxEvent,            \* bound: how many events the backend produces
  PublishChannelSize,  \* capacity of PUB_CHANNEL
  RequestCapacity,     \* capacity of the client's request queue: 100 in the code
  Setups               \* the setups looked at

\* event: the backend produces one;  break: the connection breaks;  refuse:
\* connecting fails;  reject: a SUBACK reports an error;  reload: SIGHUP.
Occasion == {"event", "break", "refuse", "reject", "reload"}

\* The quality of service configured (the third one, exactly once, is left out: it
\* is a longer handshake of rumqttc and the broker, which this code has no part
\* in), what the broker may do with a session between two connections, and how
\* often each occasion may happen.
Setup == [qos : {0, 1}, sessionKept : SUBSET BOOLEAN, budget : [Occasion -> Nat]]

ASSUME MqttClientAssumption ==
  /\ MaxEvent \in Nat
  /\ PublishChannelSize \in Nat \ {0}
  /\ RequestCapacity \in Nat \ {0}
  /\ Setups \subseteq Setup
  /\ \A s \in Setups : s.budget["event"] <= MaxEvent

VARIABLES
  running,        \* run() has spawned its tasks
  produced,       \* events produced so far: 1 .. produced
  refused,        \* history: the events try_send refused
  channelOpen,    \* PUB_CHANNEL was created
  pubChannel,     \* PUB_CHANNEL
  held,           \* the events the publish loop has taken and not yet queued
  subscribeToken, \* the subscribe channel, of capacity 1, holds a token
  subscriber,     \* what the (re)subscribe loop does next
  requests,       \* requests queued in the client
  unacked,        \* QoS 1: publishes sent and not acknowledged
  poller,         \* the event loop polls, or sleeps for the reconnect interval
  link,           \* the connection, as the client's operating system sees it
  toBroker, toClient,   \* packets under way
  attached,       \* the broker holds the client for connected
  subscribed,     \* the broker has the subscription to the command topic
  connState,      \* the retained conn state
  delivered,      \* history: the events the broker got, in order
  setup           \* the setup chosen at the start, with what is left of its budget

clientVars == <<held, subscribeToken, subscriber, requests, unacked, poller>>
wireVars   == <<link, toBroker, toClient>>
brokerVars == <<attached, subscribed, connState, delivered>>
eventVars  == <<produced, refused, channelOpen, pubChannel>>
vars == <<running, eventVars, clientVars, wireVars, brokerVars, setup>>

EventNr == 1 .. MaxEvent

Subscribe == [kind |-> "subscribe"]
Online    == [kind |-> "online"]
Publish(n) == [kind |-> "event", event |-> n]

Publishes == {Online} \union {Publish(n) : n \in EventNr}
Requests  == Publishes \union {Subscribe}

Init ==
  /\ running = FALSE
  /\ produced = 0
  /\ refused = {}
  /\ channelOpen = FALSE
  /\ pubChannel = <<>>
  /\ held = <<>>
  /\ subscribeToken = FALSE
  /\ subscriber = "recv"
  /\ requests = <<>>
  /\ unacked = <<>>
  /\ poller = "poll"
  /\ link = "down"
  /\ toBroker = <<>>
  /\ toClient = <<>>
  /\ attached = FALSE
  /\ subscribed = FALSE
  /\ connState = "none"
  /\ delivered = <<>>
  /\ setup \in Setups

Spend(o) ==
  /\ setup.budget[o] > 0
  /\ setup' = [setup EXCEPT !.budget[o] = @ - 1]

HasRoom == Len(requests) < RequestCapacity

-----------------------------------------------------------------------------
(* The backend.                                                             *)

\* Mutant of Produce: one event more than the channel holds.
ProduceOverfull ==
  /\ Spend("event")
  /\ produced' = produced + 1
  /\ IF channelOpen /\ Len(pubChannel) <= PublishChannelSize
       THEN pubChannel' = Append(pubChannel, produced') /\ UNCHANGED refused
       ELSE refused' = refused \union {produced'} /\ UNCHANGED pubChannel
  /\ UNCHANGED <<running, channelOpen, clientVars, wireVars, brokerVars>>

\* send_uplink_frame and its like: try_send never waits for the MQTT client.
\* The first run of the client creates the channel, and no run ever closes it.
Produce ==
  /\ Spend("event")
  /\ produced' = produced + 1
  /\ IF channelOpen /\ Len(pubChannel) < PublishChannelSize
       THEN pubChannel' = Append(pubChannel, produced') /\ UNCHANGED refused
       ELSE refused' = refused \union {produced'} /\ UNCHANGED pubChannel
  /\ UNCHANGED <<running, channelOpen, clientVars, wireVars, brokerVars>>

-----------------------------------------------------------------------------
(* run(): starting the tasks, and ending them on a reload.                  *)

\* A fresh client with the configured quality of service, 0 or 1 here, a fresh
\* subscribe channel and set of tasks.
Start ==
  /\ ~running
  /\ running' = TRUE
  /\ channelOpen' = TRUE
  /\ held' = <<>>
  /\ subscribeToken' = FALSE
  /\ subscriber' = "recv"
  /\ requests' = <<>>
  /\ unacked' = <<>>
  /\ poller' = "poll"
  /\ UNCHANGED <<produced, refused, pubChannel, wireVars, brokerVars, setup>>

\* Mutant of Terminate: the event held is put back, behind the others.
TerminatePuttingBack ==
  /\ running
  /\ Spend("reload")
  /\ running' = FALSE
  /\ held' = <<>>
  /\ pubChannel' = pubChannel \o held
  /\ subscribeToken' = FALSE
  /\ subscriber' = "recv"
  /\ requests' = <<>>
  /\ unacked' = <<>>
  /\ poller' = "poll"
  /\ link' = "down"
  /\ toBroker' = <<>>
  /\ toClient' = <<>>
  /\ UNCHANGED <<produced, refused, channelOpen, brokerVars>>

\* set.shutdown() aborts every task wherever it is waiting and drops the client.
Terminate ==
  /\ running
  /\ Spend("reload")
  /\ running' = FALSE
  /\ held' = <<>>
  /\ subscribeToken' = FALSE
  /\ subscriber' = "recv"
  /\ requests' = <<>>
  /\ unacked' = <<>>
  /\ poller' = "poll"
  /\ link' = "down"
  /\ toBroker' = <<>>
  /\ toClient' = <<>>
  /\ UNCHANGED <<eventVars, brokerVars>>

-----------------------------------------------------------------------------
(* The publish loop: take an event, then wait for room in the request queue. *)

TakeEvent ==
  /\ running
  /\ held = <<>>
  /\ pubChannel # <<>>
  /\ held' = <<Head(pubChannel)>>
  /\ pubChannel' = Tail(pubChannel)
  /\ UNCHANGED <<running, produced, refused, channelOpen, subscribeToken, subscriber, requests, unacked,
                 poller, wireVars, brokerVars, setup>>

\* Mutant of PublishEvent: try_publish, which gives up when the queue is full.
PublishEventOrDrop ==
  /\ running
  /\ held # <<>>
  /\ requests' = IF HasRoom THEN Append(requests, Publish(Head(held))) ELSE requests
  /\ held' = <<>>
  /\ UNCHANGED <<running, eventVars, subscribeToken, subscriber, unacked, poller, wireVars,
                 brokerVars, setup>>

PublishEvent ==
  /\ running
  /\ held # <<>>
  /\ HasRoom
  /\ requests' = Append(requests, Publish(Head(held)))
  /\ held' = <<>>
  /\ UNCHANGED <<running, eventVars, subscribeToken, subscriber, unacked, poller, wireVars,
                 brokerVars, setup>>

-----------------------------------------------------------------------------
(* The (re)subscribe loop.                                                  *)

AwaitToken ==
  /\ running
  /\ subscriber = "recv"
  /\ subscribeToken
  /\ subscribeToken' = FALSE
  /\ subscriber' = "subscribe"
  /\ UNCHANGED <<running, eventVars, held, requests, unacked, poller, wireVars, brokerVars,
                 setup>>

SubscribeCommands ==
  /\ running
  /\ subscriber = "subscribe"
  /\ HasRoom
  /\ requests' = Append(requests, Subscribe)
  /\ subscriber' = "announce"
  /\ UNCHANGED <<running, eventVars, held, subscribeToken, unacked, poller, wireVars,
                 brokerVars, setup>>

AnnounceOnline ==
  /\ running
  /\ subscriber = "announce"
  /\ HasRoom
  /\ requests' = Append(requests, Online)
  /\ subscriber' = "recv"
  /\ UNCHANGED <<running, eventVars, held, subscribeToken, unacked, poller, wireVars,
                 brokerVars, setup>>

-----------------------------------------------------------------------------
(* The event loop.  Nothing in it waits for the other two tasks.            *)

Polling == running /\ poller = "poll"

\* Mutant of SignalSubscriber: send, which waits until the token is taken.
SignalSubscriberWaiting == ~subscribeToken /\ subscribeToken' = TRUE

\* subscribe_tx.try_send(()): a token that is already there is enough.
SignalSubscriber == subscribeToken' = TRUE

\* poll() connects and returns the CONNACK; kept tells whether the broker still
\* had a session, in which case rumqttc repeats what was not acknowledged.
\* A connection the broker still thought open is taken over, with its will.
Connect(kept) ==
  /\ Polling
  /\ link = "down"
  /\ link' = "up"
  /\ SignalSubscriber
  /\ attached' = TRUE
  /\ connState' = IF attached THEN "OFFLINE" ELSE connState
  /\ subscribed' = (kept /\ subscribed)
  /\ requests' = IF kept THEN unacked \o requests ELSE requests
  /\ unacked' = <<>>
  /\ UNCHANGED <<running, eventVars, held, subscriber, poller, toBroker, toClient, delivered,
                 setup>>

\* A refused connection, and a connection found broken, make the loop sleep.
ConnectFails ==
  /\ Polling
  /\ link = "down"
  /\ Spend("refuse")
  /\ poller' = "backoff"
  /\ UNCHANGED <<running, eventVars, held, subscribeToken, subscriber, requests, unacked,
                 wireVars, brokerVars>>

FindBroken ==
  /\ Polling
  /\ link = "broken"
  /\ link' = "down"
  /\ poller' = "backoff"
  /\ UNCHANGED <<running, eventVars, held, subscribeToken, subscriber, requests, unacked,
                 toBroker, toClient, brokerVars, setup>>

\* sleep(reconnect_interval) is over.
PollAgain ==
  /\ running
  /\ poller = "backoff"
  /\ poller' = "poll"
  /\ UNCHANGED <<running, eventVars, held, subscribeToken, subscriber, requests, unacked,
                 wireVars, brokerVars, setup>>

\* Mutant of SendRequest: events are published with QoS 0 whatever is configured.
SendRequestAtMostOnce ==
  /\ Polling
  /\ link # "down"
  /\ requests # <<>>
  /\ requests' = Tail(requests)
  /\ toBroker' = IF link = "up" THEN Append(toBroker, Head(requests)) ELSE toBroker
  /\ unacked' = IF setup.qos > 0 /\ Head(requests) = Online
                  THEN Append(unacked, Head(requests)) ELSE unacked
  /\ UNCHANGED <<running, eventVars, held, subscribeToken, subscriber, poller, link, toClient,
                 brokerVars, setup>>

\* What is written to a broken connection goes nowhere.
SendRequest ==
  /\ Polling
  /\ link # "down"
  /\ requests # <<>>
  /\ requests' = Tail(requests)
  /\ toBroker' = IF link = "up" THEN Append(toBroker, Head(requests)) ELSE toBroker
  /\ unacked' = IF setup.qos > 0 /\ Head(requests) \in Publishes
                  THEN Append(unacked, Head(requests)) ELSE unacked
  /\ UNCHANGED <<running, eventVars, held, subscribeToken, subscriber, poller, link, toClient,
                 brokerVars, setup>>

\* Mutant of ReceiveSubAck: the return codes are not looked at.
ReceiveSubAckAny ==
  /\ Polling
  /\ toClient # <<>>
  /\ Head(toClient) \in {"suback", "subnack"}
  /\ toClient' = Tail(toClient)
  /\ UNCHANGED <<running, eventVars, clientVars, link, toBroker, brokerVars, setup>>

ReceiveSubAck ==
  /\ Polling
  /\ toClient # <<>>
  /\ Head(toClient) \in {"suback", "subnack"}
  /\ toClient' = Tail(toClient)
  /\ IF Head(toClient) = "subnack" THEN SignalSubscriber ELSE UNCHANGED subscribeToken
  /\ UNCHANGED <<running, eventVars, held, subscriber, requests, unacked, poller, link,
                 toBroker, brokerVars, setup>>

\* Handled inside rumqttc: the oldest publish under way is done.
ReceivePubAck ==
  /\ Polling
  /\ toClient # <<>>
  /\ Head(toClient) = "puback"
  /\ toClient' = Tail(toClient)
  /\ unacked' = SubSeq(unacked, 2, Len(unacked))
  /\ UNCHANGED <<running, eventVars, held, subscribeToken, subscriber, requests, poller, link,
                 toBroker, brokerVars, setup>>

-----------------------------------------------------------------------------
(* The broker and the network.                                              *)

Reply(packets) == toClient' = toClient \o packets

BrokerSubscribes ==
  /\ toBroker # <<>>
  /\ Head(toBroker) = Subscribe
  /\ toBroker' = Tail(toBroker)
  /\ \/ subscribed' = TRUE /\ Reply(<<"suback">>) /\ UNCHANGED setup
     \/ Spend("reject") /\ Reply(<<"subnack">>) /\ UNCHANGED subscribed
  /\ UNCHANGED <<running, eventVars, clientVars, link, attached, connState, delivered>>

BrokerGetsPublish ==
  /\ toBroker # <<>>
  /\ Head(toBroker) \in Publishes
  /\ toBroker' = Tail(toBroker)
  /\ IF Head(toBroker) = Online
       THEN connState' = "ONLINE" /\ UNCHANGED delivered
       ELSE delivered' = Append(delivered, Head(toBroker).event) /\ UNCHANGED connState
  /\ Reply(IF setup.qos > 0 THEN <<"puback">> ELSE <<>>)
  /\ UNCHANGED <<running, eventVars, clientVars, link, attached, subscribed, setup>>

\* The keep-alive ran out, or the socket was closed.
BrokerFindsGone ==
  /\ attached
  /\ link # "up"
  /\ attached' = FALSE
  /\ connState' = "OFFLINE"
  /\ UNCHANGED <<running, eventVars, clientVars, wireVars, subscribed, delivered, setup>>

BreakLink ==
  /\ link = "up"
  /\ Spend("break")
  /\ link' = "broken"
  /\ toBroker' = <<>>
  /\ toClient' = <<>>
  /\ UNCHANGED <<running, eventVars, clientVars, brokerVars>>

-----------------------------------------------------------------------------
PublishLoop   == TakeEvent \/ PublishEvent
SubscribeLoop == AwaitToken \/ SubscribeCommands \/ AnnounceOnline
ConnectAny    == \E kept \in setup.sessionKept : Connect(kept)
PollPackets   == ReceiveSubAck \/ ReceivePubAck
BrokerStep    == BrokerSubscribes \/ BrokerGetsPublish

Next ==
  \/ Produce
  \/ Start
  \/ Terminate
  \/ PublishLoop
  \/ SubscribeLoop
  \/ ConnectAny
  \/ ConnectFails
  \/ FindBroken
  \/ PollAgain
  \/ SendRequest
  \/ PollPackets
  \/ BrokerStep
  \/ BrokerFindsGone
  \/ BreakLink

Spec == Init /\ [][Next]_vars

(***************************************************************************)
(* Fairness: main calls run() again after a reload, tokio polls each of    *)
(* the three tasks, the sleep ends, and packets on a connection that holds *)
(* arrive.  Nothing is assumed about events, breaks, refusals and reloads, *)
(* which are finitely many, nor about when the broker finds a client gone. *)
(***************************************************************************)
Fairness ==
  /\ WF_vars(Start)
  /\ WF_vars(PublishLoop)
  /\ WF_vars(SubscribeLoop)
  /\ WF_vars(ConnectAny)
  /\ WF_vars(FindBroken)
  /\ WF_vars(PollAgain)
  /\ WF_vars(SendRequest)
  /\ WF_vars(PollPackets)
  /\ WF_vars(BrokerStep)

FairSpec == Spec /\ Fairness

-----------------------------------------------------------------------------
(* Properties.                                                              *)

\* Every variable holds a value of its type, and no queue is over its bound.
TypeOK ==
  /\ running \in BOOLEAN
  /\ produced \in 0 .. MaxEvent
  /\ refused \subseteq EventNr
  /\ channelOpen \in BOOLEAN
  /\ pubChannel \in Seq(EventNr) /\ Len(pubChannel) <= PublishChannelSize
  /\ held \in Seq(EventNr) /\ Len(held) <= 1
  /\ subscribeToken \in BOOLEAN
  /\ subscriber \in {"recv", "subscribe", "announce"}
  /\ requests \in Seq(Requests)
  /\ unacked \in Seq(Publishes)
  /\ poller \in {"poll", "backoff"}
  /\ link \in {"down", "up", "broken"}
  /\ toBroker \in Seq(Requests)
  /\ toClient \in Seq({"suback", "subnack", "puback"})
  /\ attached \in BOOLEAN
  /\ subscribed \in BOOLEAN
  /\ connState \in {"none", "ONLINE", "OFFLINE"}
  /\ delivered \in Seq(EventNr)
  /\ setup \in Setup

Elements(s) == {s[i] : i \in DOMAIN s}
EventsIn(packets) == {n \in EventNr : Publish(n) \in Elements(packets)}

\* Events still in the program's hands.
InHand == Elements(pubChannel) \union Elements(held) \union EventsIn(requests)

\* The comment at the subscribe channel: a subscription and an ONLINE state in
\* every case, whatever session the broker kept, however the connection broke,
\* refused or rejected, and however full the request queue was when the event
\* loop wanted the subscription: it settles, and stays, once faults end.
EventuallyOnline == <>[](link = "up" /\ subscribed /\ connState = "ONLINE")

\* A connected client that has nothing more to do is subscribed and announced: no
\* token for the subscriber is lost between a connect, a rejection and a
\* subscription under way, although they share one slot (the safety half of
\* EventuallyOnline).
OnlineWhenSettled ==
  link = "up" /\ ~subscribeToken /\ subscriber = "recv"
    /\ requests = <<>> /\ toBroker = <<>> /\ toClient = <<>> =>
      subscribed /\ connState = "ONLINE"

\* QoS 0: the broker gets the events in the order they were produced, none
\* twice, across reconnects and reloads.
DeliveredInOrder ==
  setup.qos = 0 => \A i, j \in DOMAIN delivered : i < j => delivered[i] < delivered[j]

\* The program itself never drops an event it accepted: one that leaves its
\* hands has been sent, unless a reload discards the client or, at QoS 0, it was
\* written to a connection not yet found broken.
LostOnlyOnReload ==
  [][\/ running /\ ~running'
     \/ InHand \subseteq InHand' \union EventsIn(toBroker') \union EventsIn(unacked')
     \/ (setup.qos = 0 /\ link = "broken")]_vars

\* QoS 1, a broker that keeps sessions: until the broker has it, an event is in the
\* hands of the program or of the client, which has it acknowledged, unless a
\* reload discards the client (the safety half of AtLeastOnce).
KeptUntilDelivered ==
  [][\/ running /\ ~running'
     \/ setup.qos = 0
     \/ setup.sessionKept # {TRUE}
     \/ LET inCare == InHand \union EventsIn(unacked) \union Elements(delivered)
        IN inCare \subseteq inCare']_vars

\* QoS 1, a broker that keeps sessions, no reload: every event the channel
\* accepted reaches the broker, however often the connection breaks.
AtLeastOnce ==
  (setup.qos = 1 /\ setup.sessionKept = {TRUE} /\ setup.budget["reload"] = 0)
    => \A n \in EventNr : (n \in Elements(pubChannel)) ~> (n \in Elements(delivered))

\* The configuration template on publish_channel_size: "If the MQTT client
\* unavailable because of e.g. certificate reload, messages stay in the channel
\* until the MQTT client is back available".  No reload takes an event that was
\* accepted and not sent.
EventsSurviveReload == [][running /\ ~running' => InHand \subseteq InHand']_vars
=============================================================================
