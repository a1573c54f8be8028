----------------------------- MODULE MqttProofs -----------------------------
(***************************************************************************)
(* Theorems about the MQTT client, for any number of events, any capacity  *)
(* of the publish channel and of the request queue, and any setups.        *)
(***************************************************************************)
EXTENDS MqttClient, DataLemmas

\* The events still to come have numbers too.
EventsLeft == produced + setup.budget["event"] <= MaxEvent

Flags ==
  /\ running \in BOOLEAN /\ channelOpen \in BOOLEAN /\ subscribeToken \in BOOLEAN
  /\ attached \in BOOLEAN /\ subscribed \in BOOLEAN

TypeInv == TypeOK /\ EventsLeft

-----------------------------------------------------------------------------
(* Types.                                                                   *)

LEMMA PacketsTyped ==
  /\ \A n \in EventNr : Publish(n) \in Publishes /\ Publish(n) \in Requests
  /\ Online \in Publishes /\ Online \in Requests /\ Subscribe \in Requests
  /\ \A p \in Publishes : p # Online => p.event \in EventNr
  /\ Publishes \subseteq Requests
<1>1. /\ \A n \in EventNr : Publish(n) \in Publishes
      /\ Online \in Publishes /\ Subscribe \in Requests /\ Publishes \subseteq Requests
  BY DEF Publishes, Requests
<1>2. \A n \in EventNr : Publish(n).event = n
  BY DEF Publish
<1>3. \A p \in Publishes : p # Online => \E n \in EventNr : p = Publish(n)
  BY DEF Publishes
<1> QED
  BY <1>1, <1>2, <1>3

LEMMA SpendTyped ==
  ASSUME setup \in Setup, NEW o \in Occasion, Spend(o)
  PROVE  /\ setup' \in Setup
         /\ setup'.qos = setup.qos
         /\ setup'.budget["event"] = IF o = "event" THEN setup.budget["event"] - 1
                                     ELSE setup.budget["event"]
         /\ setup.budget["event"] \in Nat
         /\ o = "event" => setup.budget["event"] > 0
<1>1. setup.budget \in [Occasion -> Nat] /\ "event" \in Occasion
  BY DEF Setup, Occasion
<1>2. setup'.budget = [setup.budget EXCEPT ![o] = @ - 1]
  BY DEF Setup, Spend
<1>3. setup'.budget \in [Occasion -> Nat]
  BY <1>1, <1>2 DEF Spend
<1>4. setup' \in Setup /\ setup'.qos = setup.qos
  BY <1>3 DEF Setup, Spend
<1> QED
  BY <1>1, <1>2, <1>4 DEF Spend

LEMMA InitType == Init => TypeInv
<1> SUFFICES ASSUME Init PROVE TypeInv
  OBVIOUS
<1>1. Flags
  BY DEF Init, Flags
<1>2. setup \in Setup /\ setup.budget["event"] <= MaxEvent
  BY MqttClientAssumption DEF Init
<1>3. TypeOK
  BY <1>1, <1>2, MqttClientAssumption DEF Init, Flags, TypeOK
<1> QED
  BY <1>2, <1>3, MqttClientAssumption DEF Init, TypeInv, EventsLeft, Setup, Occasion

LEMMA FlagStep ==
  ASSUME TypeOK, [Next]_vars
  PROVE  Flags'
<1> USE DEF TypeOK, Flags, vars, clientVars, wireVars, brokerVars, eventVars
<1>1. CASE Produce \/ Start \/ Terminate
  BY <1>1, Zenon DEF Produce, Start, Terminate
<1>2. CASE PublishLoop \/ SubscribeLoop
  BY <1>2, Zenon DEF PublishLoop, TakeEvent, PublishEvent, SubscribeLoop, AwaitToken, SubscribeCommands,
     AnnounceOnline
<1>3. ASSUME NEW kept \in BOOLEAN, Connect(kept) PROVE Flags'
  BY <1>3, Zenon DEF Connect, SignalSubscriber
<1>4. CASE ConnectFails \/ FindBroken \/ PollAgain \/ SendRequest \/ PollPackets
  BY <1>4, Zenon DEF ConnectFails, FindBroken, PollAgain, SendRequest, PollPackets, ReceiveSubAck,
     ReceivePubAck, SignalSubscriber
<1>5. CASE BrokerStep \/ BrokerFindsGone \/ BreakLink
  BY <1>5, Zenon DEF BrokerStep, BrokerSubscribes, BrokerGetsPublish, BrokerFindsGone, BreakLink
<1>6. CASE UNCHANGED vars
  BY <1>6, Zenon
<1>7. setup.sessionKept \subseteq BOOLEAN
  BY DEF Setup
<1> QED
  BY <1>1, <1>2, <1>3, <1>4, <1>5, <1>6, <1>7 DEF Next, ConnectAny

LEMMA ProduceType ==
  ASSUME TypeInv, Produce
  PROVE  TypeInv'
<1>1. Flags'
  BY FlagStep DEF Next, TypeInv
<1>2. setup \in Setup /\ produced \in 0 .. MaxEvent /\ EventsLeft
  BY DEF TypeInv, TypeOK
<1>3. /\ setup' \in Setup /\ setup.budget["event"] \in Nat /\ setup.budget["event"] > 0
      /\ setup'.budget["event"] = setup.budget["event"] - 1
  BY <1>2, SpendTyped DEF Produce, Occasion
<1>4. produced' = produced + 1
  BY DEF Produce
<1>5. produced' \in EventNr /\ produced' \in 0 .. MaxEvent /\ EventsLeft'
  BY <1>2, <1>3, <1>4, MqttClientAssumption DEF EventNr, EventsLeft
<1>6. pubChannel \in Seq(EventNr) /\ Len(pubChannel) <= PublishChannelSize
  BY DEF TypeInv, TypeOK
<1>7. /\ Append(pubChannel, produced') \in Seq(EventNr)
      /\ Len(Append(pubChannel, produced')) = Len(pubChannel) + 1
  BY <1>5, <1>6, AppendProperties
<1>8. pubChannel' \in Seq(EventNr) /\ Len(pubChannel') <= PublishChannelSize
  <2>1. Len(pubChannel) \in Nat
    BY <1>6, LenProperties
  <2> QED
    BY <1>6, <1>7, <2>1, MqttClientAssumption DEF Produce
<1>9. refused' \subseteq EventNr
  BY <1>5 DEF Produce, TypeInv, TypeOK
<1>10. UNCHANGED <<held, subscriber, requests, unacked, poller, link, toBroker, toClient, connState,
                   delivered>>
  BY DEF Produce, clientVars, wireVars, brokerVars
<1>11. TypeOK'
  BY <1>1, <1>3, <1>5, <1>8, <1>9, <1>10 DEF TypeInv, TypeOK, Flags
<1> QED
  BY <1>5, <1>11 DEF TypeInv

LEMMA SeqKept ==
  ASSUME NEW S, NEW s \in Seq(S)
  PROVE  /\ \A x \in S : Append(s, x) \in Seq(S)
         /\ s # <<>> => Head(s) \in S /\ Tail(s) \in Seq(S) /\ Len(Tail(s)) <= Len(s)
         /\ SubSeq(s, 2, Len(s)) \in Seq(S)
         /\ \A r \in Seq(S) : s \o r \in Seq(S)
<1>1. \A x \in S : Append(s, x) \in Seq(S)
  BY AppendProperties
<1>2. s # <<>> => Head(s) \in S /\ Tail(s) \in Seq(S) /\ Len(Tail(s)) <= Len(s)
  BY HeadTailProperties, LenProperties
<1>3. SubSeq(s, 2, Len(s)) \in Seq(S)
  <2>1. \A i \in 2 .. Len(s) : s[i] \in S
    BY ElementOfSeq, LenProperties
  <2> QED
    BY <2>1, LenProperties, SubSeqProperties
<1>4. \A r \in Seq(S) : s \o r \in Seq(S)
  BY ConcatProperties
<1> QED
  BY <1>1, <1>2, <1>3, <1>4

\* Start and Terminate empty what belongs to a client.
LEMMA RunType ==
  ASSUME TypeInv, Start \/ Terminate
  PROVE  TypeInv'
<1>1. Flags'
  BY FlagStep DEF Next, TypeInv
<1>2. setup' \in Setup /\ EventsLeft'
  BY SpendTyped DEF TypeInv, TypeOK, EventsLeft, Start, Terminate, Occasion, eventVars
<1>3. /\ held' \in Seq(EventNr) /\ Len(held') <= 1
      /\ requests' \in Seq(Requests) /\ unacked' \in Seq(Publishes)
  <2>1. held' = <<>> /\ requests' = <<>> /\ unacked' = <<>>
    BY DEF Start, Terminate
  <2>2. <<>> \in Seq(EventNr) /\ <<>> \in Seq(Requests) /\ <<>> \in Seq(Publishes) /\ Len(<<>>) = 0
    BY EmptySeq
  <2> QED
    BY <2>1, <2>2
<1>4. toBroker' \in Seq(Requests) /\ toClient' \in Seq({"suback", "subnack", "puback"})
  BY EmptySeq DEF Start, Terminate, wireVars, TypeInv, TypeOK
<1>5. TypeOK'
  <2>1. CASE Start
    BY <1>1, <1>2, <1>3, <1>4, <2>1
       DEF TypeInv, TypeOK, Flags, Start, wireVars, brokerVars
  <2>2. CASE Terminate
    BY <1>1, <1>2, <1>3, <1>4, <2>2 DEF TypeInv, TypeOK, Flags, Terminate, eventVars, brokerVars
  <2> QED
    BY <2>1, <2>2
<1> QED
  BY <1>2, <1>5 DEF TypeInv

LEMMA PublishLoopType ==
  ASSUME TypeInv, PublishLoop
  PROVE  TypeInv'
<1>1. Flags'
  BY FlagStep DEF Next, TypeInv
<1>2. pubChannel \in Seq(EventNr) /\ held \in Seq(EventNr) /\ requests \in Seq(Requests)
      /\ Len(pubChannel) <= PublishChannelSize
  BY DEF TypeInv, TypeOK
<1>3. CASE TakeEvent
  <2>1. /\ Head(pubChannel) \in EventNr /\ pubChannel' \in Seq(EventNr)
        /\ Len(pubChannel') <= Len(pubChannel)
    BY <1>2, <1>3, SeqKept DEF TakeEvent
  <2>2. Len(pubChannel') <= PublishChannelSize
    BY <1>2, <2>1, LenProperties, MqttClientAssumption
  <2>3. held' \in Seq(EventNr) /\ Len(held') <= 1
    BY <1>3, <2>1 DEF TakeEvent
  <2> QED
    BY <1>1, <1>3, <2>1, <2>2, <2>3 DEF TypeInv, TypeOK, Flags, EventsLeft, TakeEvent, wireVars, brokerVars
<1>4. CASE PublishEvent
  <2>1. Head(held) \in EventNr
    BY <1>2, <1>4, SeqKept DEF PublishEvent
  <2>2. requests' \in Seq(Requests)
    BY <1>2, <1>4, <2>1, SeqKept, PacketsTyped DEF PublishEvent
  <2>3. held' \in Seq(EventNr) /\ Len(held') <= 1
    BY <1>4, EmptySeq DEF PublishEvent
  <2> QED
    BY <1>1, <1>4, <2>2, <2>3
       DEF TypeInv, TypeOK, Flags, EventsLeft, PublishEvent, eventVars, wireVars, brokerVars
<1> QED
  BY <1>3, <1>4 DEF PublishLoop

LEMMA SubscribeLoopType ==
  ASSUME TypeInv, SubscribeLoop
  PROVE  TypeInv'
<1>1. Flags'
  BY FlagStep DEF Next, TypeInv
<1>2. requests' \in Seq(Requests)
  <2>1. requests \in Seq(Requests)
    BY DEF TypeInv, TypeOK
  <2>2. Append(requests, Subscribe) \in Seq(Requests) /\ Append(requests, Online) \in Seq(Requests)
    BY <2>1, SeqKept, PacketsTyped
  <2> QED
    BY <2>1, <2>2 DEF SubscribeLoop, AwaitToken, SubscribeCommands, AnnounceOnline
<1>3. UNCHANGED <<eventVars, held, unacked, poller, wireVars, brokerVars, setup>>
  BY DEF SubscribeLoop, AwaitToken, SubscribeCommands, AnnounceOnline
<1>4. subscriber' \in {"recv", "subscribe", "announce"}
  BY DEF SubscribeLoop, AwaitToken, SubscribeCommands, AnnounceOnline
<1> QED
  BY <1>1, <1>2, <1>3, <1>4 DEF TypeInv, TypeOK, Flags, EventsLeft, eventVars, wireVars, brokerVars

LEMMA ConnectType ==
  ASSUME TypeInv, NEW kept \in BOOLEAN, kept \in setup.sessionKept, Connect(kept)
  PROVE  TypeInv'
<1>1. Flags'
  BY FlagStep DEF Next, ConnectAny, TypeInv
<1>2. unacked \in Seq(Requests)
  BY PacketsTyped, SeqMonotonic DEF TypeInv, TypeOK
<1>3. requests' \in Seq(Requests)
  BY <1>2, ConcatProperties DEF TypeInv, TypeOK, Connect
<1>4. unacked' \in Seq(Publishes)
  BY EmptySeq DEF Connect
<1> QED
  BY <1>1, <1>3, <1>4 DEF TypeInv, TypeOK, Flags, EventsLeft, Connect, eventVars

\* The event loop, sleeping or awake.
LEMMA PollType ==
  ASSUME TypeInv, ConnectFails \/ FindBroken \/ PollAgain \/ SendRequest \/ PollPackets
  PROVE  TypeInv'
<1>1. Flags'
  BY FlagStep DEF Next, TypeInv
<1>2. CASE ConnectFails
  <2>1. setup' \in Setup /\ EventsLeft'
    BY <1>2, SpendTyped DEF TypeInv, TypeOK, EventsLeft, ConnectFails, Occasion, eventVars
  <2> QED
    BY <1>1, <1>2, <2>1 DEF TypeInv, TypeOK, Flags, ConnectFails, eventVars, wireVars, brokerVars
<1>3. CASE FindBroken \/ PollAgain
  BY <1>1, <1>3 DEF TypeInv, TypeOK, Flags, EventsLeft, FindBroken, PollAgain, eventVars, wireVars,
     brokerVars
<1>4. CASE SendRequest
  <2>1. Head(requests) \in Requests /\ requests' \in Seq(Requests)
    BY <1>4, SeqKept DEF TypeInv, TypeOK, SendRequest
  <2>2. toBroker' \in Seq(Requests)
    BY <1>4, <2>1, SeqKept DEF TypeInv, TypeOK, SendRequest
  <2>3. unacked' \in Seq(Publishes)
    BY <1>4, SeqKept DEF TypeInv, TypeOK, SendRequest
  <2> QED
    BY <1>1, <1>4, <2>1, <2>2, <2>3
       DEF TypeInv, TypeOK, Flags, EventsLeft, SendRequest, eventVars, brokerVars
<1>5. CASE PollPackets
  <2>1. toClient' \in Seq({"suback", "subnack", "puback"})
    BY <1>5, SeqKept DEF TypeInv, TypeOK, PollPackets, ReceiveSubAck, ReceivePubAck
  <2>2. unacked' \in Seq(Publishes)
    BY <1>5, SeqKept DEF TypeInv, TypeOK, PollPackets, ReceiveSubAck, ReceivePubAck
  <2>3. UNCHANGED <<eventVars, held, subscriber, requests, poller, link, toBroker, brokerVars, setup>>
    BY <1>5 DEF PollPackets, ReceiveSubAck, ReceivePubAck
  <2> QED
    BY <1>1, <2>1, <2>2, <2>3 DEF TypeInv, TypeOK, Flags, EventsLeft, eventVars, brokerVars
<1> QED
  BY <1>2, <1>3, <1>4, <1>5

LEMMA BrokerType ==
  ASSUME TypeInv, BrokerStep \/ BrokerFindsGone \/ BreakLink
  PROVE  TypeInv'
<1> DEFINE Reply_ == {"suback", "subnack", "puback"}
<1>1. Flags'
  BY FlagStep DEF Next, TypeInv
<1>2. \A p \in Reply_ : toClient \o <<p>> \in Seq(Reply_)
  <2>1. toClient \in Seq(Reply_)
    BY DEF TypeInv, TypeOK
  <2>2. \A p \in Reply_ : <<p>> \in Seq(Reply_)
    OBVIOUS
  <2> QED
    BY <2>1, <2>2, SeqKept
<1>3. CASE BrokerSubscribes
  <2>1. setup' \in Setup /\ EventsLeft'
    BY <1>3, SpendTyped DEF TypeInv, TypeOK, EventsLeft, BrokerSubscribes, Occasion, eventVars
  <2>2. toBroker' \in Seq(Requests)
    BY <1>3, SeqKept DEF TypeInv, TypeOK, BrokerSubscribes
  <2>3. toClient' \in Seq(Reply_)
    BY <1>2, <1>3 DEF BrokerSubscribes, Reply
  <2> QED
    BY <1>1, <1>3, <2>1, <2>2, <2>3
       DEF TypeInv, TypeOK, Flags, BrokerSubscribes, eventVars, clientVars
<1>4. CASE BrokerGetsPublish
  <2>1. toBroker' \in Seq(Requests)
    BY <1>4, SeqKept DEF TypeInv, TypeOK, BrokerGetsPublish
  <2>2. toClient' \in Seq(Reply_)
    <3>1. toClient \o <<>> \in Seq(Reply_)
      BY ConcatEmptySeq DEF TypeInv, TypeOK
    <3> QED
      BY <1>2, <1>4, <3>1 DEF BrokerGetsPublish, Reply
  <2>3. delivered' \in Seq(EventNr)
    <3>1. Head(toBroker) # Online => Head(toBroker).event \in EventNr
      BY <1>4, PacketsTyped DEF BrokerGetsPublish
    <3>2. delivered \in Seq(EventNr)
      BY DEF TypeInv, TypeOK
    <3> QED
      BY <1>4, <3>1, <3>2, SeqKept DEF BrokerGetsPublish
  <2>4. connState' \in {"none", "ONLINE", "OFFLINE"}
    BY <1>4 DEF TypeInv, TypeOK, BrokerGetsPublish
  <2> QED
    BY <1>1, <1>4, <2>1, <2>2, <2>3, <2>4
       DEF TypeInv, TypeOK, Flags, EventsLeft, BrokerGetsPublish, eventVars, clientVars
<1>5. CASE BrokerFindsGone
  BY <1>1, <1>5 DEF TypeInv, TypeOK, Flags, EventsLeft, BrokerFindsGone, eventVars, clientVars, wireVars
<1>6. CASE BreakLink
  <2>1. setup' \in Setup /\ EventsLeft'
    BY <1>6, SpendTyped DEF TypeInv, TypeOK, EventsLeft, BreakLink, Occasion, eventVars
  <2>2. toBroker' \in Seq(Requests) /\ toClient' \in Seq(Reply_)
    BY <1>6, EmptySeq DEF BreakLink
  <2> QED
    BY <1>1, <1>6, <2>1, <2>2 DEF TypeInv, TypeOK, Flags, BreakLink, eventVars, clientVars, brokerVars
<1> QED
  BY <1>3, <1>4, <1>5, <1>6 DEF BrokerStep

LEMMA TypeStep ==
  ASSUME TypeInv, [Next]_vars
  PROVE  TypeInv'
<1>1. setup.sessionKept \subseteq BOOLEAN
  BY DEF TypeInv, TypeOK, Setup
<1>2. CASE UNCHANGED vars
  BY <1>2 DEF TypeInv, TypeOK, EventsLeft, vars, eventVars, clientVars, wireVars, brokerVars
<1> QED
  BY <1>1, <1>2, ProduceType, RunType, PublishLoopType, SubscribeLoopType, ConnectType, PollType,
     BrokerType DEF Next, ConnectAny

\* Every variable of the MQTT client always holds a value of its type, and the
\* publish channel is never over its capacity (mqtt.rs run).
THEOREM MqttTypeCorrect == Spec => []TypeOK
<1>1. TypeInv => TypeOK
  BY DEF TypeInv
<1> QED
  BY InitType, TypeStep, <1>1, PTL DEF Spec

-----------------------------------------------------------------------------
(* The order of events.  An event passes from the channel to the publish    *)
(* loop, the request queue, the wire and the broker, and the events further *)
(* on are the older ones.                                                   *)

Delivered == Elements(delivered)
Sent      == EventsIn(toBroker)
Queued    == EventsIn(requests)
Held      == Elements(held)
Waiting   == Elements(pubChannel)

Before(A, B) == \A m \in A, n \in B : m < n

Increasing(s) == \A i, j \in DOMAIN s : i < j => s[i] < s[j]

EventsIncreasing(s) ==
  \A i, j \in DOMAIN s : \A m, n \in EventNr :
    i < j /\ s[i] = Publish(m) /\ s[j] = Publish(n) => m < n

StagesOrdered ==
  /\ Before(Delivered, Sent) /\ Before(Delivered, Queued)
  /\ Before(Delivered, Held) /\ Before(Delivered, Waiting)
  /\ Before(Sent, Queued) /\ Before(Sent, Held) /\ Before(Sent, Waiting)
  /\ Before(Queued, Held) /\ Before(Queued, Waiting)
  /\ Before(Held, Waiting)

AllProduced == \A n \in Delivered \union Sent \union Queued \union Held \union Waiting : n <= produced

\* The parts of the invariant that a step of QoS 0 starts from.
Ordered ==
  /\ unacked = <<>>
  /\ Increasing(delivered) /\ EventsIncreasing(toBroker)
  /\ EventsIncreasing(requests) /\ Increasing(pubChannel)
  /\ StagesOrdered
  /\ AllProduced

OrderInv == setup.qos = 0 => Ordered

-----------------------------------------------------------------------------
(* Sequences of events and of packets.                                      *)

LEMMA ElementsEmpty == Elements(<<>>) = {} /\ EventsIn(<<>>) = {} /\ Increasing(<<>>) /\ EventsIncreasing(<<>>)
  BY DEF Elements, EventsIn, Increasing, EventsIncreasing

LEMMA ElementsAppend ==
  ASSUME NEW S, NEW s \in Seq(S), NEW x \in S
  PROVE  Elements(Append(s, x)) = Elements(s) \union {x}
<1> DEFINE t == Append(s, x)
<1>1. /\ DOMAIN s = 1 .. Len(s) /\ Len(s) \in Nat
      /\ DOMAIN t = 1 .. (Len(s) + 1)
      /\ \A i \in 1 .. Len(s) : t[i] = s[i]
      /\ t[Len(s) + 1] = x
  BY AppendProperties, LenProperties
<1> QED
  BY <1>1 DEF Elements

LEMMA ElementsTail ==
  ASSUME NEW S, NEW s \in Seq(S), s # <<>>
  PROVE  Elements(Tail(s)) \subseteq Elements(s) /\ Head(s) \in Elements(s)
<1>1. /\ DOMAIN s = 1 .. Len(s) /\ Len(s) \in Nat \ {0}
      /\ DOMAIN Tail(s) = 1 .. (Len(s) - 1)
      /\ \A i \in 1 .. (Len(s) - 1) : Tail(s)[i] = s[i + 1]
  BY HeadTailProperties, LenProperties, EmptySeq
<1>2. Head(s) = s[1]
  OBVIOUS
<1> QED
  BY <1>1, <1>2 DEF Elements

LEMMA IncreasingAppend ==
  ASSUME NEW s \in Seq(EventNr), NEW n \in EventNr, Increasing(s), Before(Elements(s), {n})
  PROVE  Increasing(Append(s, n))
<1> DEFINE t == Append(s, n)
<1>1. /\ DOMAIN s = 1 .. Len(s) /\ Len(s) \in Nat
      /\ DOMAIN t = 1 .. (Len(s) + 1)
      /\ \A i \in 1 .. Len(s) : t[i] = s[i]
      /\ t[Len(s) + 1] = n
  BY AppendProperties, LenProperties
<1>2. \A i \in 1 .. Len(s) : s[i] < n
  BY <1>1 DEF Before, Elements
<1> QED
  BY <1>1, <1>2 DEF Increasing

LEMMA IncreasingTail ==
  ASSUME NEW s \in Seq(EventNr), s # <<>>, Increasing(s)
  PROVE  Increasing(Tail(s)) /\ Before({Head(s)}, Elements(Tail(s)))
<1>1. /\ DOMAIN s = 1 .. Len(s) /\ Len(s) \in Nat \ {0}
      /\ DOMAIN Tail(s) = 1 .. (Len(s) - 1)
      /\ \A i \in 1 .. (Len(s) - 1) : Tail(s)[i] = s[i + 1]
  BY HeadTailProperties, LenProperties, EmptySeq
<1>2. Head(s) = s[1]
  OBVIOUS
<1> QED
  BY <1>1, <1>2 DEF Increasing, Before, Elements

LEMMA PacketsDiffer ==
  /\ \A m, n : Publish(m) = Publish(n) => m = n
  /\ \A n : Publish(n) # Online /\ Publish(n) # Subscribe
<1>1. \A n : Publish(n).event = n /\ Publish(n).kind = "event"
  BY DEF Publish
<1>2. Online.kind = "online" /\ Subscribe.kind = "subscribe"
  BY DEF Online, Subscribe
<1> QED
  BY <1>1, <1>2

LEMMA QueueEvent ==
  ASSUME NEW s \in Seq(Requests), NEW n \in EventNr, EventsIncreasing(s), Before(EventsIn(s), {n})
  PROVE  /\ EventsIn(Append(s, Publish(n))) = EventsIn(s) \union {n}
         /\ EventsIncreasing(Append(s, Publish(n)))
<1> DEFINE t == Append(s, Publish(n))
<1>1. Publish(n) \in Requests
  BY PacketsTyped
<1>2. EventsIn(t) = EventsIn(s) \union {n}
  BY <1>1, ElementsAppend, PacketsDiffer DEF EventsIn
<1>3. /\ DOMAIN s = 1 .. Len(s) /\ Len(s) \in Nat
      /\ DOMAIN t = 1 .. (Len(s) + 1)
      /\ \A i \in 1 .. Len(s) : t[i] = s[i]
      /\ t[Len(s) + 1] = Publish(n)
  BY <1>1, AppendProperties, LenProperties
<1>4. \A i \in 1 .. Len(s), m \in EventNr : s[i] = Publish(m) => m < n
  BY <1>3 DEF Before, EventsIn, Elements
<1>5. EventsIncreasing(t)
  BY <1>3, <1>4, PacketsDiffer DEF EventsIncreasing
<1> QED
  BY <1>2, <1>5

LEMMA QueueOther ==
  ASSUME NEW s \in Seq(Requests), NEW p \in {Online, Subscribe}, EventsIncreasing(s)
  PROVE  EventsIn(Append(s, p)) = EventsIn(s) /\ EventsIncreasing(Append(s, p))
<1> DEFINE t == Append(s, p)
<1>1. p \in Requests
  BY PacketsTyped
<1>2. EventsIn(t) = EventsIn(s)
  BY <1>1, ElementsAppend, PacketsDiffer DEF EventsIn
<1>3. /\ DOMAIN s = 1 .. Len(s) /\ Len(s) \in Nat
      /\ DOMAIN t = 1 .. (Len(s) + 1)
      /\ \A i \in 1 .. Len(s) : t[i] = s[i]
      /\ t[Len(s) + 1] = p
  BY <1>1, AppendProperties, LenProperties
<1>5. EventsIncreasing(t)
  BY <1>3, PacketsDiffer DEF EventsIncreasing
<1> QED
  BY <1>2, <1>5

LEMMA DequeuePacket ==
  ASSUME NEW s \in Seq(Requests), s # <<>>, EventsIncreasing(s)
  PROVE  /\ EventsIn(Tail(s)) \subseteq EventsIn(s)
         /\ EventsIncreasing(Tail(s))
         /\ \A n \in EventNr : Head(s) = Publish(n) =>
              n \in EventsIn(s) /\ Before({n}, EventsIn(Tail(s)))
<1>1. EventsIn(Tail(s)) \subseteq EventsIn(s)
  BY ElementsTail DEF EventsIn
<1>2. /\ DOMAIN s = 1 .. Len(s) /\ Len(s) \in Nat \ {0}
      /\ DOMAIN Tail(s) = 1 .. (Len(s) - 1)
      /\ \A i \in 1 .. (Len(s) - 1) : Tail(s)[i] = s[i + 1]
  BY HeadTailProperties, LenProperties, EmptySeq
<1>3. EventsIncreasing(Tail(s))
  BY <1>2 DEF EventsIncreasing
<1>4. ASSUME NEW n \in EventNr, Head(s) = Publish(n)
      PROVE  n \in EventsIn(s) /\ Before({n}, EventsIn(Tail(s)))
  <2>1. s[1] = Publish(n)
    BY <1>4
  <2>2. n \in EventsIn(s)
    BY <1>4, ElementsTail DEF EventsIn
  <2>3. ASSUME NEW m \in EventsIn(Tail(s)) PROVE n < m
    <3>1. m \in EventNr /\ \E i \in 1 .. (Len(s) - 1) : s[i + 1] = Publish(m)
      BY <1>2 DEF EventsIn, Elements
    <3> QED
      BY <1>2, <2>1, <3>1 DEF EventsIncreasing
  <2> QED
    BY <2>2, <2>3 DEF Before
<1> QED
  BY <1>1, <1>3, <1>4

-----------------------------------------------------------------------------
(* The steps.                                                               *)

LEMMA StagesTyped ==
  ASSUME TypeOK
  PROVE  Delivered \union Sent \union Queued \union Held \union Waiting \subseteq EventNr
<1>1. \A s \in Seq(EventNr) : Elements(s) \subseteq EventNr
  BY LenProperties, ElementOfSeq DEF Elements
<1> QED
  BY <1>1 DEF TypeOK, Delivered, Sent, Queued, Held, Waiting, EventsIn

\* Events may leave, everywhere.
LEMMA Shrink ==
  ASSUME StagesOrdered, AllProduced, produced' = produced,
         Delivered' \subseteq Delivered, Sent' \subseteq Sent, Queued' \subseteq Queued,
         Held' \subseteq Held, Waiting' \subseteq Waiting
  PROVE  StagesOrdered' /\ AllProduced'
<1>1. StagesOrdered'
  BY DEF StagesOrdered, Before
<1>2. AllProduced'
  BY DEF AllProduced
<1> QED
  BY <1>1, <1>2

LEMMA OrderInit == Init => OrderInv
  BY ElementsEmpty
     DEF Init, OrderInv, Ordered, StagesOrdered, AllProduced, Before, Delivered, Sent, Queued, Held, Waiting

LEMMA OrderProduce ==
  ASSUME TypeInv, Ordered, Produce
  PROVE  Ordered'
<1>1. /\ produced' = produced + 1 /\ produced \in Nat /\ produced' \in EventNr
      /\ pubChannel \in Seq(EventNr)
  <2>1. TypeInv'
    BY ProduceType
  <2> QED
    BY <2>1 DEF TypeInv, TypeOK, Produce, EventNr
<1>2. UNCHANGED <<held, requests, unacked, toBroker, delivered>>
  BY DEF Produce, clientVars, wireVars, brokerVars
<1>3. Before(Waiting, {produced'})
  BY <1>1, StagesTyped DEF AllProduced, Ordered, Before, TypeInv, EventNr
<1>4. Waiting' \subseteq Waiting \union {produced'} /\ Increasing(pubChannel')
  <2>1. CASE pubChannel' = pubChannel
    BY <2>1 DEF Waiting, Ordered
  <2>2. CASE pubChannel' = Append(pubChannel, produced')
    BY <1>1, <1>3, <2>2, ElementsAppend, IncreasingAppend DEF Waiting, Ordered
  <2> QED
    BY <2>1, <2>2 DEF Produce
<1>5. Delivered' = Delivered /\ Sent' = Sent /\ Queued' = Queued /\ Held' = Held
  BY <1>2 DEF Delivered, Sent, Queued, Held
<1>6. \A n \in Delivered \union Sent \union Queued \union Held \union Waiting :
        n \in Nat /\ n < produced'
  BY <1>1, StagesTyped DEF AllProduced, Ordered, TypeInv, EventNr
<1>7. StagesOrdered'
  BY <1>4, <1>5, <1>6 DEF StagesOrdered, Before, Ordered
<1>8. AllProduced'
  BY <1>1, <1>4, <1>5, <1>6 DEF AllProduced
<1> QED
  BY <1>2, <1>4, <1>7, <1>8 DEF Ordered

LEMMA OrderRun ==
  ASSUME TypeInv, Ordered, Start \/ Terminate
  PROVE  Ordered'
<1>1. UNCHANGED <<produced, pubChannel, delivered>>
  BY DEF Start, Terminate, eventVars, brokerVars
<1>2. /\ held' = <<>> /\ requests' = <<>> /\ unacked' = <<>>
      /\ toBroker' = <<>> \/ toBroker' = toBroker
  BY DEF Start, Terminate, wireVars
<1>3. EventsIncreasing(toBroker') /\ EventsIncreasing(requests')
  BY <1>2, ElementsEmpty DEF Ordered
<1>4. /\ Delivered' = Delivered /\ Sent' \subseteq Sent /\ Queued' \subseteq Queued
      /\ Held' \subseteq Held /\ Waiting' = Waiting
  BY <1>1, <1>2, ElementsEmpty DEF Delivered, Sent, Queued, Held, Waiting
<1> QED
  BY <1>1, <1>2, <1>3, <1>4, Shrink DEF Ordered

LEMMA OrderTakeEvent ==
  ASSUME TypeInv, Ordered, TakeEvent
  PROVE  Ordered'
<1>1. UNCHANGED <<produced, requests, unacked, toBroker, delivered>>
  BY DEF TakeEvent, wireVars, brokerVars
<1> DEFINE n == Head(pubChannel)
<1>2. /\ Increasing(pubChannel') /\ Waiting' \subseteq Waiting
      /\ n \in Waiting /\ Before({n}, Waiting')
  BY ElementsTail, IncreasingTail DEF TypeInv, TypeOK, Ordered, TakeEvent, Waiting
<1>3. Held' = {n}
  BY DEF TakeEvent, Held, Elements
<1>4. Delivered' = Delivered /\ Sent' = Sent /\ Queued' = Queued
  BY <1>1 DEF Delivered, Sent, Queued
<1>5. StagesOrdered'
  BY <1>2, <1>3, <1>4 DEF StagesOrdered, Before, Ordered
<1>6. AllProduced'
  BY <1>1, <1>2, <1>3, <1>4 DEF AllProduced, Ordered
<1> QED
  BY <1>1, <1>2, <1>5, <1>6 DEF Ordered

LEMMA OrderPublishEvent ==
  ASSUME TypeInv, Ordered, PublishEvent
  PROVE  Ordered'
<1>1. UNCHANGED <<produced, pubChannel, unacked, toBroker, delivered>>
  BY DEF PublishEvent, eventVars, wireVars, brokerVars
<1> DEFINE n == Head(held)
<1>2. n \in Held /\ n \in EventNr
  BY ElementsTail, SeqKept DEF TypeInv, TypeOK, PublishEvent, Held
<1>3. Before(Queued, {n})
  BY <1>2 DEF Ordered, StagesOrdered, Before
<1>4. Queued' = Queued \union {n} /\ EventsIncreasing(requests')
  BY <1>2, <1>3, QueueEvent DEF TypeInv, TypeOK, Ordered, PublishEvent, Queued
<1>5. Held' = {}
  BY ElementsEmpty DEF PublishEvent, Held
<1>6. Delivered' = Delivered /\ Sent' = Sent /\ Waiting' = Waiting
  BY <1>1 DEF Delivered, Sent, Waiting
<1>7. StagesOrdered'
  BY <1>2, <1>4, <1>5, <1>6 DEF StagesOrdered, Before, Ordered
<1>8. AllProduced'
  BY <1>1, <1>2, <1>4, <1>5, <1>6 DEF AllProduced, Ordered
<1> QED
  BY <1>1, <1>4, <1>7, <1>8 DEF Ordered

LEMMA OrderSubscribeLoop ==
  ASSUME TypeInv, Ordered, SubscribeLoop
  PROVE  Ordered'
<1>1. UNCHANGED <<produced, pubChannel, held, unacked, toBroker, delivered>>
  BY DEF SubscribeLoop, AwaitToken, SubscribeCommands, AnnounceOnline, eventVars, wireVars, brokerVars
<1>2. \/ requests' = requests
      \/ \E p \in {Online, Subscribe} : requests' = Append(requests, p)
  BY DEF SubscribeLoop, AwaitToken, SubscribeCommands, AnnounceOnline
<1>3. Queued' = Queued /\ EventsIncreasing(requests')
  BY <1>2, QueueOther DEF TypeInv, TypeOK, Ordered, Queued
<1>4. Delivered' = Delivered /\ Sent' = Sent /\ Held' = Held /\ Waiting' = Waiting
  BY <1>1 DEF Delivered, Sent, Held, Waiting
<1> QED
  BY <1>1, <1>3, <1>4, Shrink DEF Ordered

LEMMA OrderSendRequest ==
  ASSUME TypeInv, Ordered, setup.qos = 0, SendRequest
  PROVE  Ordered'
<1>1. UNCHANGED <<produced, pubChannel, held, unacked, delivered>>
  BY DEF SendRequest, eventVars, brokerVars
<1>2. Delivered' = Delivered /\ Held' = Held /\ Waiting' = Waiting
  BY <1>1 DEF Delivered, Held, Waiting
<1>3. Queued' \subseteq Queued /\ EventsIncreasing(requests')
  BY DequeuePacket DEF TypeInv, TypeOK, Ordered, SendRequest, Queued
<1>4. Head(requests) \in Requests
  BY SeqKept DEF TypeInv, TypeOK, SendRequest
<1>5. CASE toBroker' = toBroker
  <2>1. Sent' = Sent
    BY <1>5 DEF Sent
  <2> QED
    BY <1>1, <1>2, <1>3, <1>5, <2>1, Shrink DEF Ordered
<1>6. ASSUME Head(requests) \in {Online, Subscribe}, toBroker' = Append(toBroker, Head(requests))
      PROVE  Ordered'
  <2>1. Sent' = Sent /\ EventsIncreasing(toBroker')
    BY <1>6, QueueOther DEF TypeInv, TypeOK, Ordered, Sent
  <2> QED
    BY <1>1, <1>2, <1>3, <2>1, Shrink DEF Ordered
<1>7. ASSUME NEW n \in EventNr, Head(requests) = Publish(n), toBroker' = Append(toBroker, Publish(n))
      PROVE  Ordered'
  <2>1. n \in Queued /\ Before({n}, Queued')
    BY <1>7, DequeuePacket DEF TypeInv, TypeOK, Ordered, SendRequest, Queued
  <2>2. Before(Sent, {n})
    BY <2>1 DEF Ordered, StagesOrdered, Before
  <2>3. Sent' = Sent \union {n} /\ EventsIncreasing(toBroker')
    BY <1>7, <2>2, QueueEvent DEF TypeInv, TypeOK, Ordered, Sent
  <2>4. StagesOrdered'
    BY <1>2, <1>3, <2>1, <2>3 DEF StagesOrdered, Before, Ordered
  <2>5. AllProduced'
    BY <1>1, <1>2, <1>3, <2>1, <2>3 DEF AllProduced, Ordered
  <2> QED
    BY <1>1, <1>3, <2>3, <2>4, <2>5 DEF Ordered
<1>8. Head(requests) \in {Online, Subscribe} \/ \E n \in EventNr : Head(requests) = Publish(n)
  BY <1>4 DEF Requests, Publishes
<1> QED
  BY <1>5, <1>6, <1>7, <1>8 DEF SendRequest

LEMMA OrderBroker ==
  ASSUME TypeInv, Ordered, BrokerStep
  PROVE  Ordered'
<1>1. UNCHANGED <<produced, pubChannel, held, requests, unacked>>
  BY DEF BrokerStep, BrokerSubscribes, BrokerGetsPublish, eventVars, clientVars
<1>2. Queued' = Queued /\ Held' = Held /\ Waiting' = Waiting
  BY <1>1 DEF Queued, Held, Waiting
<1>3. Sent' \subseteq Sent /\ EventsIncreasing(toBroker')
  BY DequeuePacket
     DEF TypeInv, TypeOK, Ordered, BrokerStep, BrokerSubscribes, BrokerGetsPublish, Sent
<1>4. CASE delivered' = delivered
  <2>1. Delivered' = Delivered
    BY <1>4 DEF Delivered
  <2> QED
    BY <1>1, <1>2, <1>3, <1>4, <2>1, Shrink DEF Ordered
<1>5. ASSUME NEW n \in EventNr, Head(toBroker) = Publish(n), delivered' = Append(delivered, n),
             BrokerGetsPublish
      PROVE  Ordered'
  <2>1. n \in Sent /\ Before({n}, Sent')
    BY <1>5, DequeuePacket DEF TypeInv, TypeOK, Ordered, BrokerGetsPublish, Sent
  <2>2. Before(Elements(delivered), {n})
    BY <2>1 DEF Ordered, StagesOrdered, Before, Delivered
  <2>3. Delivered' = Delivered \union {n} /\ Increasing(delivered')
    BY <1>5, <2>2, ElementsAppend, IncreasingAppend DEF TypeInv, TypeOK, Ordered, Delivered
  <2>4. StagesOrdered'
    BY <1>2, <1>3, <2>1, <2>3 DEF StagesOrdered, Before, Ordered
  <2>5. AllProduced'
    BY <1>1, <1>2, <1>3, <2>1, <2>3 DEF AllProduced, Ordered
  <2> QED
    BY <1>1, <1>3, <2>3, <2>4, <2>5 DEF Ordered
<1>6. \A n \in EventNr : Publish(n).event = n
  BY DEF Publish
<1>7. CASE BrokerSubscribes
  BY <1>4, <1>7 DEF BrokerSubscribes
<1>8. CASE BrokerGetsPublish
  <2>1. Head(toBroker) = Online \/ \E n \in EventNr : Head(toBroker) = Publish(n)
    BY <1>8 DEF BrokerGetsPublish, Publishes
  <2> QED
    BY <1>4, <1>5, <1>6, <1>8, <2>1 DEF BrokerGetsPublish
<1> QED
  BY <1>7, <1>8 DEF BrokerStep

\* What is under way is lost with the connection; the others leave events alone.
LEMMA OrderOthers ==
  ASSUME TypeInv, Ordered, setup.qos = 0,
         \/ \E kept \in BOOLEAN : Connect(kept)
         \/ ConnectFails \/ FindBroken \/ PollAgain \/ PollPackets
         \/ BrokerFindsGone \/ BreakLink \/ UNCHANGED vars
  PROVE  Ordered'
<1>1. UNCHANGED <<produced, pubChannel, held, delivered>>
  BY DEF Connect, ConnectFails, FindBroken, PollAgain, PollPackets, ReceiveSubAck, ReceivePubAck,
     BrokerFindsGone, BreakLink, vars, eventVars, clientVars, wireVars, brokerVars
<1>2. unacked' = <<>>
  <2>1. SubSeq(<<>>, 2, Len(<<>>)) = <<>>
    BY SubSeqEmpty, EmptySeq
  <2> QED
    BY <2>1 DEF Ordered, Connect, ConnectFails, FindBroken, PollAgain, PollPackets, ReceiveSubAck,
       ReceivePubAck, BrokerFindsGone, BreakLink, vars, clientVars
<1>3. requests' = requests
  <2>1. <<>> \o requests = requests
    BY ConcatEmptySeq DEF TypeInv, TypeOK
  <2> QED
    BY <2>1 DEF Ordered, Connect, ConnectFails, FindBroken, PollAgain, PollPackets, ReceiveSubAck,
       ReceivePubAck, BrokerFindsGone, BreakLink, vars, clientVars
<1>4. toBroker' = toBroker \/ toBroker' = <<>>
  BY DEF Connect, ConnectFails, FindBroken, PollAgain, PollPackets, ReceiveSubAck, ReceivePubAck,
     BrokerFindsGone, BreakLink, vars, wireVars
<1>5. Sent' \subseteq Sent /\ EventsIncreasing(toBroker')
  BY <1>4, ElementsEmpty DEF Ordered, Sent
<1>6. Delivered' = Delivered /\ Queued' = Queued /\ Held' = Held /\ Waiting' = Waiting
  BY <1>1, <1>3 DEF Delivered, Queued, Held, Waiting
<1> QED
  BY <1>1, <1>2, <1>3, <1>5, <1>6, Shrink DEF Ordered

LEMMA QosKept ==
  ASSUME TypeInv, [Next]_vars
  PROVE  setup'.qos = setup.qos
<1>1. setup \in Setup
  BY DEF TypeInv, TypeOK
<1>2. setup' = setup \/ \E o \in Occasion : Spend(o)
  BY DEF Next, Produce, Start, Terminate, PublishLoop, TakeEvent, PublishEvent, SubscribeLoop,
     AwaitToken, SubscribeCommands, AnnounceOnline, ConnectAny, Connect, ConnectFails, FindBroken,
     PollAgain, SendRequest, PollPackets, ReceiveSubAck, ReceivePubAck, BrokerStep, BrokerSubscribes,
     BrokerGetsPublish, BrokerFindsGone, BreakLink, vars, Occasion
<1> QED
  BY <1>1, <1>2, SpendTyped

LEMMA OrderStep ==
  ASSUME TypeInv, OrderInv, [Next]_vars
  PROVE  OrderInv'
<1>1. SUFFICES ASSUME setup'.qos = 0 PROVE Ordered'
  BY DEF OrderInv
<1>2. setup.qos = 0
  BY <1>1, QosKept
<1>3. Ordered
  BY <1>2 DEF OrderInv
<1>4. setup.sessionKept \subseteq BOOLEAN
  BY DEF TypeInv, TypeOK, Setup
<1>5. CASE Produce
  BY <1>3, <1>5, OrderProduce
<1>6. CASE Start \/ Terminate
  BY <1>3, <1>6, OrderRun
<1>7. CASE PublishLoop
  BY <1>3, <1>7, OrderTakeEvent, OrderPublishEvent DEF PublishLoop
<1>8. CASE SubscribeLoop
  BY <1>3, <1>8, OrderSubscribeLoop
<1>9. CASE SendRequest
  BY <1>2, <1>3, <1>9, OrderSendRequest
<1>10. CASE BrokerStep
  BY <1>3, <1>10, OrderBroker
<1>11. ASSUME NEW kept \in BOOLEAN, Connect(kept) PROVE Ordered'
  BY <1>2, <1>3, <1>11, OrderOthers
<1>12. CASE \/ ConnectFails \/ FindBroken \/ PollAgain \/ PollPackets
            \/ BrokerFindsGone \/ BreakLink \/ UNCHANGED vars
  BY <1>2, <1>3, <1>12, OrderOthers
<1> QED
  BY <1>4, <1>5, <1>6, <1>7, <1>8, <1>9, <1>10, <1>11, <1>12 DEF Next, ConnectAny

\* Under QoS 0 the broker gets events in the order they were produced and none
\* twice, however often connections break and the client is reloaded (mqtt.rs run).
THEOREM EventsDeliveredInOrder == Spec => []DeliveredInOrder
<1>1. TypeInv /\ OrderInv => DeliveredInOrder
  BY DEF OrderInv, Ordered, DeliveredInOrder, Increasing
<1>2. Init => TypeInv /\ OrderInv
  BY InitType, OrderInit
<1>3. TypeInv /\ OrderInv /\ [Next]_vars => (TypeInv /\ OrderInv)'
  BY TypeStep, OrderStep
<1> QED
  BY <1>1, <1>2, <1>3, PTL DEF Spec

-----------------------------------------------------------------------------
(* What leaves the hands of the program.  A client that starts finds nothing *)
(* of the one before: only the end of that one discarded it.                 *)

EndedEmpty == ~running => held = <<>> /\ requests = <<>>

LEMMA EndedEmptyStep ==
  ASSUME EndedEmpty, [Next]_vars
  PROVE  EndedEmpty'
<1> USE DEF EndedEmpty
<1>1. CASE Start \/ Terminate
  BY <1>1 DEF Start, Terminate
<1>2. CASE PublishLoop \/ SubscribeLoop
  BY <1>2 DEF PublishLoop, TakeEvent, PublishEvent, SubscribeLoop, AwaitToken, SubscribeCommands,
     AnnounceOnline
<1>3. ASSUME NEW kept, Connect(kept) PROVE EndedEmpty'
  BY <1>3 DEF Connect, Polling
<1>4. CASE ConnectFails \/ FindBroken \/ PollAgain \/ SendRequest \/ PollPackets
  BY <1>4 DEF ConnectFails, FindBroken, PollAgain, SendRequest, PollPackets, ReceiveSubAck,
     ReceivePubAck, Polling
<1>5. CASE Produce \/ BrokerStep \/ BrokerFindsGone \/ BreakLink \/ UNCHANGED vars
  BY <1>5 DEF Produce, BrokerStep, BrokerSubscribes, BrokerGetsPublish, BrokerFindsGone, BreakLink,
     vars, clientVars
<1> QED
  BY <1>1, <1>2, <1>3, <1>4, <1>5 DEF Next, ConnectAny

LEMMA ElementsParts ==
  ASSUME NEW S, NEW s \in Seq(S), s # <<>>
  PROVE  Elements(s) = {Head(s)} \union Elements(Tail(s))
<1>1. /\ DOMAIN s = 1 .. Len(s) /\ Len(s) \in Nat \ {0}
      /\ DOMAIN Tail(s) = 1 .. (Len(s) - 1)
      /\ \A i \in 1 .. (Len(s) - 1) : Tail(s)[i] = s[i + 1]
  BY HeadTailProperties, LenProperties, EmptySeq
<1>2. Head(s) = s[1]
  OBVIOUS
<1>3. \A i \in DOMAIN s : s[i] \in {Head(s)} \union Elements(Tail(s))
  <2> TAKE i \in DOMAIN s
  <2>1. CASE i = 1
    BY <2>1, <1>2
  <2>2. CASE i # 1
    <3>1. i - 1 \in DOMAIN Tail(s) /\ Tail(s)[i - 1] = s[i]
      BY <2>2, <1>1
    <3> QED
      BY <3>1 DEF Elements
  <2> QED
    BY <2>1, <2>2
<1> QED
  BY <1>3, ElementsTail DEF Elements

LEMMA ElementsSingle ==
  ASSUME NEW S, NEW s \in Seq(S), s # <<>>, Len(s) <= 1
  PROVE  Head(s) \in S /\ Elements(s) = {Head(s)}
<1>1. /\ Len(s) \in Nat \ {0} /\ Head(s) \in S
      /\ DOMAIN Tail(s) = 1 .. (Len(s) - 1)
  BY HeadTailProperties, LenProperties, EmptySeq
<1>2. Elements(Tail(s)) = {}
  BY <1>1 DEF Elements
<1> QED
  BY <1>1, <1>2, ElementsParts

LEMMA ElementsConcat ==
  ASSUME NEW S, NEW r \in Seq(S), NEW s \in Seq(S)
  PROVE  Elements(s) \subseteq Elements(r \o s)
<1>1. /\ DOMAIN s = 1 .. Len(s) /\ Len(s) \in Nat /\ Len(r) \in Nat
      /\ DOMAIN (r \o s) = 1 .. (Len(r) + Len(s))
      /\ \A i \in 1 .. (Len(r) + Len(s)) :
           (r \o s)[i] = IF i <= Len(r) THEN r[i] ELSE s[i - Len(r)]
  BY ConcatProperties, LenProperties
<1>2. ASSUME NEW i \in DOMAIN s PROVE s[i] \in Elements(r \o s)
  <2>1. Len(r) + i \in DOMAIN (r \o s) /\ (r \o s)[Len(r) + i] = s[i]
    BY <1>1
  <2> QED
    BY <2>1 DEF Elements
<1> QED
  BY <1>2 DEF Elements

Lost == ~(InHand \subseteq InHand' \union EventsIn(toBroker') \union EventsIn(unacked'))

LEMMA KeepsAll ==
  ASSUME Elements(pubChannel) \subseteq Elements(pubChannel'),
         Elements(held) \subseteq Elements(held'),
         Elements(requests) \subseteq Elements(requests')
  PROVE  ~Lost
  BY DEF Lost, InHand, EventsIn

LEMMA PublishLoopKeeps ==
  ASSUME TypeOK, PublishLoop
  PROVE  ~Lost
<1>1. pubChannel \in Seq(EventNr) /\ held \in Seq(EventNr) /\ Len(held) <= 1 /\ requests \in Seq(Requests)
  BY DEF TypeOK
<1>2. CASE TakeEvent
  <2>1. /\ held = <<>> /\ held' = <<Head(pubChannel)>> /\ pubChannel # <<>>
        /\ pubChannel' = Tail(pubChannel) /\ requests' = requests
    BY <1>2 DEF TakeEvent
  <2>2. Elements(pubChannel) = {Head(pubChannel)} \union Elements(pubChannel')
    BY <1>1, <2>1, ElementsParts
  <2>3. Elements(held) = {} /\ Elements(held') = {Head(pubChannel)}
    BY <2>1 DEF Elements
  <2> QED
    BY <2>1, <2>2, <2>3 DEF Lost, InHand
<1>3. CASE PublishEvent
  <2>1. /\ held # <<>> /\ requests' = Append(requests, Publish(Head(held))) /\ pubChannel' = pubChannel
    BY <1>3 DEF PublishEvent, eventVars
  <2>2. Head(held) \in EventNr /\ Elements(held) = {Head(held)}
    BY <1>1, <2>1, ElementsSingle
  <2>3. Elements(requests') = Elements(requests) \union {Publish(Head(held))}
    BY <1>1, <2>1, <2>2, PacketsTyped, ElementsAppend
  <2>4. EventsIn(requests) \subseteq EventsIn(requests') /\ Head(held) \in EventsIn(requests')
    BY <2>2, <2>3 DEF EventsIn
  <2> QED
    BY <2>1, <2>2, <2>4 DEF Lost, InHand
<1> QED
  BY <1>2, <1>3 DEF PublishLoop

LEMMA SendRequestKeeps ==
  ASSUME TypeOK, SendRequest
  PROVE  ~Lost \/ (setup.qos = 0 /\ link = "broken")
<1>1. /\ requests \in Seq(Requests) /\ toBroker \in Seq(Requests) /\ unacked \in Seq(Publishes)
      /\ setup.qos \in Nat /\ link \in {"down", "up", "broken"}
  BY DEF TypeOK, Setup
<1>2. UNCHANGED <<pubChannel, held>> /\ requests # <<>> /\ requests' = Tail(requests) /\ link # "down"
  BY DEF SendRequest, eventVars
<1>3. Elements(requests) = {Head(requests)} \union Elements(requests') /\ Head(requests) \in Requests
  BY <1>1, <1>2, ElementsParts, HeadTailProperties
<1>4. ASSUME NEW n \in EventNr, Head(requests) = Publish(n), ~(setup.qos = 0 /\ link = "broken")
      PROVE  n \in EventsIn(toBroker') \union EventsIn(unacked')
  <2>1. CASE link = "up"
    <3>1. toBroker' = Append(toBroker, Publish(n))
      BY <1>4, <2>1 DEF SendRequest
    <3>2. Publish(n) \in Elements(toBroker')
      BY <1>1, <3>1, PacketsTyped, ElementsAppend
    <3> QED
      BY <3>2 DEF EventsIn
  <2>2. CASE link = "broken"
    <3>1. setup.qos > 0 /\ Publish(n) \in Publishes
      BY <1>1, <1>4, <2>2, PacketsTyped
    <3>2. unacked' = Append(unacked, Publish(n))
      BY <1>4, <3>1 DEF SendRequest
    <3>3. Publish(n) \in Elements(unacked')
      BY <1>1, <3>1, <3>2, ElementsAppend
    <3> QED
      BY <3>3 DEF EventsIn
  <2> QED
    BY <1>1, <1>2, <2>1, <2>2
<1>5. \A n \in EventsIn(requests) : n \in EventsIn(requests') \/ Head(requests) = Publish(n)
  BY <1>3 DEF EventsIn
<1>6. EventsIn(requests) \subseteq EventNr
  BY DEF EventsIn
<1> QED
  BY <1>2, <1>4, <1>5, <1>6 DEF Lost, InHand

LEMMA OthersKeep ==
  ASSUME TypeInv, EndedEmpty,
         \/ Produce \/ Start \/ SubscribeLoop \/ \E kept \in BOOLEAN : Connect(kept)
         \/ ConnectFails \/ FindBroken \/ PollAgain \/ PollPackets
         \/ BrokerStep \/ BrokerFindsGone \/ BreakLink \/ UNCHANGED vars
  PROVE  ~Lost
<1>1. /\ pubChannel \in Seq(EventNr) /\ requests \in Seq(Requests) /\ unacked \in Seq(Requests)
      /\ produced \in Nat
  <2>1. \A s \in Seq(Publishes) : s \in Seq(Requests)
    <3> TAKE s \in Seq(Publishes)
    <3>1. PICK n \in Nat : s \in [1 .. n -> Publishes]
      BY SeqDef
    <3>2. s \in [1 .. n -> Requests]
      BY <3>1, PacketsTyped
    <3> QED
      BY <3>2, SeqDef
  <2> QED
    BY <2>1, MqttClientAssumption DEF TypeInv, TypeOK
<1>2. CASE Produce
  <2>1. UNCHANGED <<held, requests>>
    BY <1>2 DEF Produce, clientVars
  <2>2. Elements(pubChannel) \subseteq Elements(pubChannel')
    <3>1. CASE pubChannel' = Append(pubChannel, produced')
      <4>1. produced' \in EventNr
        <5>1. produced' \in 0 .. MaxEvent /\ produced' = produced + 1
          BY <1>2, ProduceType DEF TypeInv, TypeOK, Produce
        <5> QED
          BY <1>1, <5>1 DEF EventNr
      <4> QED
        BY <1>1, <3>1, <4>1, ElementsAppend
    <3> QED
      BY <3>1, <1>2 DEF Produce
  <2> QED
    BY <2>1, <2>2, KeepsAll
<1>3. CASE Start
  BY <1>3, KeepsAll DEF Start, EndedEmpty
<1>4. CASE SubscribeLoop
  <2>1. UNCHANGED <<pubChannel, held>>
    BY <1>4 DEF SubscribeLoop, AwaitToken, SubscribeCommands, AnnounceOnline, eventVars
  <2>2. \/ requests' = requests
        \/ \E p \in {Online, Subscribe} : requests' = Append(requests, p)
    BY <1>4 DEF SubscribeLoop, AwaitToken, SubscribeCommands, AnnounceOnline
  <2>3. Elements(requests) \subseteq Elements(requests')
    <3>1. ASSUME NEW p \in {Online, Subscribe}, requests' = Append(requests, p)
          PROVE  Elements(requests) \subseteq Elements(requests')
      <4>1. p \in Requests
        BY PacketsTyped
      <4>2. Elements(Append(requests, p)) = Elements(requests) \union {p}
        BY <1>1, <4>1, ElementsAppend
      <4> QED
        BY <3>1, <4>2
    <3> QED
      BY <2>2, <3>1
  <2> QED
    BY <2>1, <2>3, KeepsAll
<1>5. ASSUME NEW kept \in BOOLEAN, Connect(kept) PROVE ~Lost
  <2>1. UNCHANGED <<pubChannel, held>> /\ requests' \in {requests, unacked \o requests}
    BY <1>5 DEF Connect, eventVars
  <2>2. Elements(requests) \subseteq Elements(requests')
    BY <1>1, <2>1, ElementsConcat
  <2> QED
    BY <2>1, <2>2, KeepsAll
<1>6. CASE ConnectFails \/ FindBroken \/ PollAgain \/ PollPackets
  <2>1. UNCHANGED <<pubChannel, held, requests>>
    BY <1>6 DEF ConnectFails, FindBroken, PollAgain, PollPackets, ReceiveSubAck, ReceivePubAck, eventVars
  <2> QED
    BY <2>1, KeepsAll
<1>7. CASE BrokerStep \/ BrokerFindsGone \/ BreakLink \/ UNCHANGED vars
  <2>1. UNCHANGED <<pubChannel, held, requests>>
    BY <1>7 DEF BrokerStep, BrokerSubscribes, BrokerGetsPublish, BrokerFindsGone, BreakLink,
       eventVars, clientVars, vars
  <2> QED
    BY <2>1, KeepsAll
<1> QED
  BY <1>2, <1>3, <1>4, <1>5, <1>6, <1>7

LEMMA StepKeeps ==
  ASSUME TypeInv, EndedEmpty, [Next]_vars
  PROVE  \/ running /\ ~running'
         \/ ~Lost
         \/ (setup.qos = 0 /\ link = "broken")
<1>1. CASE Terminate
  BY <1>1 DEF Terminate
<1>2. CASE PublishLoop
  BY <1>2, PublishLoopKeeps DEF TypeInv
<1>3. CASE SendRequest
  BY <1>3, SendRequestKeeps DEF TypeInv
<1>4. setup.sessionKept \subseteq BOOLEAN
  BY DEF TypeInv, TypeOK, Setup
<1> QED
  BY <1>1, <1>2, <1>3, <1>4, OthersKeep DEF Next, ConnectAny

\* An event leaves the hands of the program only by being sent, by a reload, or
\* at QoS 0 by being written to a connection not yet found broken (mqtt.rs run).
THEOREM EventsLostOnlyOnReload == Spec => LostOnlyOnReload
<1> DEFINE Kept == \/ running /\ ~running'
                   \/ InHand \subseteq InHand' \union EventsIn(toBroker') \union EventsIn(unacked')
                   \/ (setup.qos = 0 /\ link = "broken")
<1>1. Init => TypeInv /\ EndedEmpty
  BY InitType DEF Init, EndedEmpty
<1>2. TypeInv /\ EndedEmpty /\ [Next]_vars => (TypeInv /\ EndedEmpty)'
  BY TypeStep, EndedEmptyStep
<1>3. TypeInv /\ EndedEmpty /\ [Next]_vars => [Kept]_vars
  BY StepKeeps DEF Lost
<1> QED
  BY <1>1, <1>2, <1>3, PTL DEF Spec, LostOnlyOnReload

-----------------------------------------------------------------------------
(* The subscription.  Whoever is told to care for it, the token, the        *)
(* subscriber, a request or a packet on the way, hands it on to the next.   *)

\* The connection is subscribed, or something on its way will see to it.
SubscriptionCared ==
  link = "up" =>
    \/ subscribed \/ subscribeToken \/ subscriber = "subscribe"
    \/ Subscribe \in Elements(requests) \union Elements(toBroker)
    \/ "subnack" \in Elements(toClient)

\* The same of the ONLINE state.
OnlineCared ==
  link = "up" =>
    \/ connState = "ONLINE" \/ subscribeToken \/ subscriber # "recv"
    \/ Online \in Elements(requests) \union Elements(toBroker)

OnlineInv == SubscriptionCared /\ OnlineCared /\ (~running => link = "down")

\* The broker answers once, or not at all.
LEMMA ElementsReply ==
  ASSUME NEW S, NEW s \in Seq(S), NEW x \in S
  PROVE  Elements(s \o <<x>>) = Elements(s) \union {x} /\ s \o <<>> = s
<1>1. Append(s, x) = s \o <<x>> /\ s \o <<>> = s
  BY AppendIsConcat, ConcatEmptySeq
<1>2. Elements(Append(s, x)) = Elements(s) \union {x}
  BY ElementsAppend
<1> QED
  BY <1>1, <1>2, Zenon

LEMMA OnlineSubscribeLoop ==
  ASSUME TypeOK, OnlineInv, SubscribeLoop
  PROVE  OnlineInv'
<1>1. requests \in Seq(Requests) /\ Online \in Requests /\ Subscribe \in Requests
  BY PacketsTyped DEF TypeOK
<1>2. running /\ UNCHANGED <<running, link, subscribed, connState, toBroker, toClient>>
  BY DEF SubscribeLoop, AwaitToken, SubscribeCommands, AnnounceOnline, wireVars, brokerVars
<1>3. CASE AwaitToken
  BY <1>2, <1>3 DEF AwaitToken, OnlineInv, SubscriptionCared, OnlineCared
<1>4. CASE SubscribeCommands
  <2>1. Elements(requests') = Elements(requests) \union {Subscribe}
    BY <1>1, <1>4, ElementsAppend DEF SubscribeCommands
  <2> QED
    BY <1>2, <1>4, <2>1 DEF SubscribeCommands, OnlineInv, SubscriptionCared, OnlineCared
<1>5. CASE AnnounceOnline
  <2>1. Elements(requests') = Elements(requests) \union {Online}
    BY <1>1, <1>5, ElementsAppend DEF AnnounceOnline
  <2> QED
    BY <1>2, <1>5, <2>1 DEF AnnounceOnline, OnlineInv, SubscriptionCared, OnlineCared
<1> QED
  BY <1>3, <1>4, <1>5 DEF SubscribeLoop

LEMMA OnlinePoll ==
  ASSUME TypeOK, OnlineInv, SendRequest \/ PollPackets
  PROVE  OnlineInv'
<1>1. /\ requests \in Seq(Requests) /\ toBroker \in Seq(Requests)
      /\ toClient \in Seq({"suback", "subnack", "puback"})
  BY DEF TypeOK
<1>2. CASE SendRequest
  <2>1. UNCHANGED <<running, link, subscribed, connState, subscribeToken, subscriber, toClient>>
    BY <1>2 DEF SendRequest, brokerVars
  <2>2. Elements(requests) = {Head(requests)} \union Elements(requests') /\ Head(requests) \in Requests
    BY <1>1, <1>2, ElementsParts, SeqKept DEF SendRequest
  <2>3. link = "up" => Elements(toBroker') = Elements(toBroker) \union {Head(requests)}
    BY <1>1, <1>2, <2>2, ElementsAppend DEF SendRequest
  <2> QED
    BY <2>1, <2>2, <2>3 DEF OnlineInv, SubscriptionCared, OnlineCared
<1>3. CASE PollPackets
  <2>1. UNCHANGED <<running, link, subscribed, connState, subscriber, requests, toBroker>>
    BY <1>3 DEF PollPackets, ReceiveSubAck, ReceivePubAck, brokerVars
  <2>2. Elements(toClient) = {Head(toClient)} \union Elements(toClient')
    BY <1>1, <1>3, ElementsParts DEF PollPackets, ReceiveSubAck, ReceivePubAck
  <2>3. subscribeToken => subscribeToken'
    BY <1>3 DEF PollPackets, ReceiveSubAck, ReceivePubAck, SignalSubscriber
  <2>4. Head(toClient) = "subnack" => subscribeToken'
    BY <1>3 DEF PollPackets, ReceiveSubAck, ReceivePubAck, SignalSubscriber
  <2> QED
    BY <2>1, <2>2, <2>3, <2>4 DEF OnlineInv, SubscriptionCared, OnlineCared
<1> QED
  BY <1>2, <1>3

LEMMA OnlineBroker ==
  ASSUME TypeOK, OnlineInv, BrokerStep
  PROVE  OnlineInv'
<1> DEFINE Packet == {"suback", "subnack", "puback"}
<1>1. /\ toBroker \in Seq(Requests) /\ toClient \in Seq(Packet)
      /\ toBroker # <<>> /\ toBroker' = Tail(toBroker)
  BY DEF TypeOK, BrokerStep, BrokerSubscribes, BrokerGetsPublish
<1>2. UNCHANGED <<running, link, subscribeToken, subscriber, requests>>
  BY DEF BrokerStep, BrokerSubscribes, BrokerGetsPublish, clientVars
<1>3. Elements(toBroker) = {Head(toBroker)} \union Elements(toBroker')
  BY <1>1, ElementsParts
<1>4. /\ Subscribe # Online
      /\ \A n \in EventNr : Publish(n) # Subscribe /\ Publish(n) # Online
  <2>1. Subscribe.kind # Online.kind
    BY DEF Subscribe, Online
  <2> QED
    BY <2>1, PacketsDiffer
<1>5. CASE BrokerSubscribes
  <2>1. Head(toBroker) = Subscribe /\ connState' = connState
    BY <1>5 DEF BrokerSubscribes
  <2>2. \/ subscribed' = TRUE
        \/ subscribed' = subscribed /\ toClient' = toClient \o <<"subnack">>
    BY <1>5 DEF BrokerSubscribes, Reply
  <2>3. "subnack" \in Elements(toClient \o <<"subnack">>)
    BY <1>1, ElementsReply
  <2> QED
    BY <1>2, <1>3, <1>4, <2>1, <2>2, <2>3 DEF OnlineInv, SubscriptionCared, OnlineCared
<1>6. CASE BrokerGetsPublish
  <2>1. /\ Head(toBroker) \in Publishes /\ subscribed' = subscribed
        /\ connState' = "ONLINE" \/ (Head(toBroker) # Online /\ connState' = connState)
    BY <1>6 DEF BrokerGetsPublish
  <2>2. Head(toBroker) # Subscribe
    BY <1>4, <2>1 DEF Publishes
  <2>3. Elements(toClient) \subseteq Elements(toClient')
    <3>1. toClient' = toClient \o <<"puback">> \/ toClient' = toClient \o <<>>
      BY <1>6 DEF BrokerGetsPublish, Reply
    <3>2. toClient \o <<>> = toClient /\ Elements(toClient) \subseteq Elements(toClient \o <<"puback">>)
      BY <1>1, ElementsReply
    <3> QED
      BY <3>1, <3>2
  <2> QED
    BY <1>2, <1>3, <2>1, <2>2, <2>3 DEF OnlineInv, SubscriptionCared, OnlineCared
<1> QED
  BY <1>5, <1>6 DEF BrokerStep

LEMMA OnlineStep ==
  ASSUME TypeOK, OnlineInv, [Next]_vars
  PROVE  OnlineInv'
<1> USE DEF OnlineInv, SubscriptionCared, OnlineCared
<1>1. CASE Produce \/ PublishLoop
  <2>1. UNCHANGED <<running, link, subscribed, connState, subscribeToken, subscriber, toBroker, toClient>>
    BY <1>1 DEF Produce, PublishLoop, TakeEvent, PublishEvent, clientVars, wireVars, brokerVars
  <2>2. Elements(requests) \subseteq Elements(requests')
    <3>1. CASE requests' = requests
      BY <3>1
    <3>2. CASE PublishEvent
      <4>1. requests \in Seq(Requests) /\ Publish(Head(held)) \in Requests
        BY <3>2, SeqKept, PacketsTyped DEF TypeOK, PublishEvent
      <4> QED
        BY <3>2, <4>1, ElementsAppend DEF PublishEvent
    <3> QED
      BY <1>1, <3>1, <3>2 DEF Produce, PublishLoop, TakeEvent, clientVars
  <2> QED
    BY <2>1, <2>2
<1>2. CASE Start
  <2>1. link' = link
    BY <1>2 DEF Start, wireVars
  <2> QED
    BY <1>2, <2>1 DEF Start
<1>3. CASE Terminate \/ FindBroken \/ BreakLink
  BY <1>3 DEF Terminate, FindBroken, BreakLink, clientVars
<1>4. ASSUME NEW kept, Connect(kept) PROVE OnlineInv'
  BY <1>4 DEF Connect, SignalSubscriber, Polling
<1>5. CASE ConnectFails \/ PollAgain \/ UNCHANGED vars
  BY <1>5 DEF ConnectFails, PollAgain, vars, clientVars, wireVars, brokerVars
<1>6. CASE BrokerFindsGone
  BY <1>6 DEF BrokerFindsGone, clientVars, wireVars
<1> QED
  BY <1>1, <1>2, <1>3, <1>4, <1>5, <1>6, OnlineSubscribeLoop, OnlinePoll, OnlineBroker
     DEF Next, ConnectAny

\* A connected client with nothing more to do is subscribed and announced, for any
\* capacity of the queues and whatever broke, was refused or rejected before.
THEOREM AlwaysOnlineWhenSettled == Spec => []OnlineWhenSettled
<1>1. OnlineInv => OnlineWhenSettled
  BY DEF OnlineInv, SubscriptionCared, OnlineCared, OnlineWhenSettled, Elements
<1>2. Init => TypeInv /\ OnlineInv
  BY InitType DEF Init, OnlineInv, SubscriptionCared, OnlineCared
<1>3. TypeInv /\ OnlineInv /\ [Next]_vars => (TypeInv /\ OnlineInv)'
  BY TypeStep, OnlineStep DEF TypeInv
<1> QED
  BY <1>1, <1>2, <1>3, PTL DEF Spec

-----------------------------------------------------------------------------
(* Under QoS 1.  What is not acknowledged is what the broker has got but    *)
(* whose PUBACK is still under way, and behind that what is under way to    *)
(* the broker, so that a PUBACK settles an event that was delivered.        *)

PacketToClient == {"suback", "subnack", "puback"}

OnlyPublish == [p \in Requests |-> IF p \in Publishes THEN <<p>> ELSE <<>>]
OnlyPubAck  == [p \in PacketToClient |-> IF p = "puback" THEN <<p>> ELSE <<>>]

\* The broker has got the event, if p is one.
Arrived(p, events) == p = Online \/ p.event \in Elements(events)

Settles(done, pending, up, down, events) ==
  /\ pending = done \o Bind(OnlyPublish, up)
  /\ Len(done) = Len(Bind(OnlyPubAck, down))
  /\ \A i \in DOMAIN done : Arrived(done[i], events)

AcksSettle ==
  setup.qos > 0 /\ link = "up" =>
    \E done \in Seq(Publishes) : Settles(done, unacked, toBroker, toClient, delivered)

\* Packets are under way on a connection that is up only, and a client that has
\* ended waits for no acknowledgement.
NothingStranded ==
  /\ link # "up" => toBroker = <<>> /\ toClient = <<>>
  /\ ~running => unacked = <<>>

SettleInv == AcksSettle /\ NothingStranded

LEMMA OnlyTyped ==
  /\ OnlyPublish \in [Requests -> Seq(Requests)]
  /\ OnlyPubAck \in [PacketToClient -> Seq(PacketToClient)]
<1>1. \A p \in Requests : (IF p \in Publishes THEN <<p>> ELSE <<>>) \in Seq(Requests)
  OBVIOUS
<1>2. \A p \in PacketToClient : (IF p = "puback" THEN <<p>> ELSE <<>>) \in Seq(PacketToClient)
  OBVIOUS
<1> QED
  BY <1>1, <1>2 DEF OnlyPublish, OnlyPubAck

\* What was delivered stays so, and each step takes or adds a packet at one end.
LEMMA SettlesMore ==
  ASSUME NEW done \in Seq(Publishes), NEW pending \in Seq(Publishes), NEW up \in Seq(Requests),
         NEW down \in Seq(PacketToClient), NEW events, Settles(done, pending, up, down, events),
         NEW p \in Requests
  PROVE  Settles(done, IF p \in Publishes THEN Append(pending, p) ELSE pending,
                 Append(up, p), down, events)
<1> DEFINE sent == Bind(OnlyPublish, up)
<1>1. sent \in Seq(Requests) /\ done \in Seq(Requests)
  BY OnlyTyped, BindType, PacketsTyped, SeqMonotonic
<1>2. Bind(OnlyPublish, Append(up, p)) = sent \o OnlyPublish[p]
  BY OnlyTyped, BindAppend
<1>3. pending = done \o sent
  BY DEF Settles
<1> HIDE DEF sent
<1>4. CASE p \in Publishes
  <2>1. OnlyPublish[p] = <<p>>
    BY <1>4 DEF OnlyPublish
  <2>2. (done \o sent) \o <<p>> = done \o (sent \o <<p>>) /\ <<p>> \in Seq(Requests)
    BY <1>1, ConcatAssociative
  <2>3. Append(pending, p) = pending \o <<p>>
    BY <1>4, AppendIsConcat
  <2>4. Append(pending, p) = done \o Bind(OnlyPublish, Append(up, p))
    BY <1>2, <1>3, <2>1, <2>2, <2>3
  <2> QED
    BY <1>4, <2>4 DEF Settles
<1>5. CASE p \notin Publishes
  <2>1. OnlyPublish[p] = <<>>
    BY <1>5 DEF OnlyPublish
  <2>2. Bind(OnlyPublish, Append(up, p)) = sent
    BY <1>1, <1>2, <2>1, ConcatEmptySeq
  <2> QED
    BY <1>3, <1>5, <2>2 DEF Settles
<1> QED
  BY <1>4, <1>5

\* The packet at the head of those to the broker leaves.
LEMMA SettlesSent ==
  ASSUME NEW up \in Seq(Requests), up # <<>>
  PROVE  /\ Head(up) \in Publishes => Bind(OnlyPublish, up) = <<Head(up)>> \o Bind(OnlyPublish, Tail(up))
         /\ Head(up) \notin Publishes => Bind(OnlyPublish, up) = Bind(OnlyPublish, Tail(up))
         /\ Bind(OnlyPublish, Tail(up)) \in Seq(Requests)
<1>1. Head(up) \in Requests /\ Tail(up) \in Seq(Requests)
  OBVIOUS
<1>2. Bind(OnlyPublish, up) = OnlyPublish[Head(up)] \o Bind(OnlyPublish, Tail(up))
  BY OnlyTyped, BindHead
<1>3. Bind(OnlyPublish, Tail(up)) \in Seq(Requests)
  BY <1>1, OnlyTyped, BindType
<1>4. OnlyPublish[Head(up)] = IF Head(up) \in Publishes THEN <<Head(up)>> ELSE <<>>
  BY <1>1 DEF OnlyPublish
<1>5. <<>> \o Bind(OnlyPublish, Tail(up)) = Bind(OnlyPublish, Tail(up))
  BY <1>3, ConcatEmptySeq
<1> QED
  BY <1>2, <1>3, <1>4, <1>5

\* One packet more to the client: a PUBACK counts, the others do not.
LEMMA AcksReplied ==
  ASSUME NEW down \in Seq(PacketToClient), NEW p \in PacketToClient
  PROVE  Len(Bind(OnlyPubAck, down \o <<p>>)) =
           Len(Bind(OnlyPubAck, down)) + (IF p = "puback" THEN 1 ELSE 0)
<1>1. down \o <<p>> = Append(down, p)
  BY AppendIsConcat
<1>2. Bind(OnlyPubAck, Append(down, p)) = Bind(OnlyPubAck, down) \o OnlyPubAck[p]
  BY OnlyTyped, BindAppend
<1>3. Bind(OnlyPubAck, down) \in Seq(PacketToClient) /\ OnlyPubAck[p] \in Seq(PacketToClient)
  BY OnlyTyped, BindType
<1>4. Len(OnlyPubAck[p]) = IF p = "puback" THEN 1 ELSE 0
  BY DEF OnlyPubAck
<1>5. Len(Bind(OnlyPubAck, down) \o OnlyPubAck[p]) = Len(Bind(OnlyPubAck, down)) + Len(OnlyPubAck[p])
  BY <1>3, ConcatProperties
<1> QED
  BY <1>1, <1>2, <1>4, <1>5

LEMMA AcksTaken ==
  ASSUME NEW down \in Seq(PacketToClient), down # <<>>
  PROVE  /\ Len(Bind(OnlyPubAck, down)) =
              (IF Head(down) = "puback" THEN 1 ELSE 0) + Len(Bind(OnlyPubAck, Tail(down)))
         /\ Len(Bind(OnlyPubAck, Tail(down))) \in Nat
<1>1. Head(down) \in PacketToClient /\ Tail(down) \in Seq(PacketToClient)
  OBVIOUS
<1>2. Bind(OnlyPubAck, down) = OnlyPubAck[Head(down)] \o Bind(OnlyPubAck, Tail(down))
  BY OnlyTyped, BindHead
<1>3. Bind(OnlyPubAck, Tail(down)) \in Seq(PacketToClient) /\ OnlyPubAck[Head(down)] \in Seq(PacketToClient)
  BY <1>1, OnlyTyped, BindType
<1>4. Len(OnlyPubAck[Head(down)]) = IF Head(down) = "puback" THEN 1 ELSE 0
  BY <1>1 DEF OnlyPubAck
<1>5. Len(OnlyPubAck[Head(down)] \o Bind(OnlyPubAck, Tail(down))) =
        Len(OnlyPubAck[Head(down)]) + Len(Bind(OnlyPubAck, Tail(down)))
  BY <1>3, ConcatProperties
<1>6. Len(Bind(OnlyPubAck, Tail(down))) \in Nat
  BY <1>3
<1> QED
  BY <1>2, <1>4, <1>5, <1>6

LEMMA SettleSend ==
  ASSUME TypeOK, AcksSettle, SendRequest
  PROVE  AcksSettle'
<1>1. SUFFICES ASSUME setup'.qos > 0, link' = "up"
               PROVE  \E done \in Seq(Publishes) :
                        Settles(done, unacked', toBroker', toClient', delivered')
  BY DEF AcksSettle
<1>2. UNCHANGED <<setup, link, toClient, delivered>>
  BY DEF SendRequest, brokerVars
<1>3. PICK done \in Seq(Publishes) : Settles(done, unacked, toBroker, toClient, delivered)
  BY <1>1, <1>2 DEF AcksSettle
<1>4. /\ Head(requests) \in Requests /\ unacked \in Seq(Publishes) /\ toBroker \in Seq(Requests)
      /\ toClient \in Seq(PacketToClient)
  BY SeqKept DEF TypeOK, SendRequest, PacketToClient
<1>5. /\ toBroker' = Append(toBroker, Head(requests))
      /\ unacked' = IF Head(requests) \in Publishes THEN Append(unacked, Head(requests)) ELSE unacked
  BY <1>1, <1>2 DEF SendRequest
<1>6. Settles(done, unacked', toBroker', toClient, delivered)
  BY <1>3, <1>4, <1>5, SettlesMore
<1> QED
  BY <1>2, <1>6

LEMMA SettlePoll ==
  ASSUME TypeOK, AcksSettle, PollPackets
  PROVE  AcksSettle'
<1>1. SUFFICES ASSUME setup'.qos > 0, link' = "up"
               PROVE  \E done \in Seq(Publishes) :
                        Settles(done, unacked', toBroker', toClient', delivered')
  BY DEF AcksSettle
<1>2. UNCHANGED <<setup, link, toBroker, delivered>> /\ toClient # <<>> /\ toClient' = Tail(toClient)
  BY DEF PollPackets, ReceiveSubAck, ReceivePubAck, brokerVars
<1>3. PICK done \in Seq(Publishes) : Settles(done, unacked, toBroker, toClient, delivered)
  BY <1>1, <1>2 DEF AcksSettle
<1>4. toClient \in Seq(PacketToClient) /\ unacked \in Seq(Publishes) /\ toBroker \in Seq(Requests)
  BY DEF TypeOK, PacketToClient
<1>5. CASE ReceiveSubAck
  <2>1. Head(toClient) # "puback" /\ unacked' = unacked
    BY <1>5 DEF ReceiveSubAck
  <2>2. Len(Bind(OnlyPubAck, toClient)) = Len(Bind(OnlyPubAck, toClient'))
    BY <1>2, <1>4, <2>1, AcksTaken
  <2>3. Settles(done, unacked', toBroker', toClient', delivered')
    BY <1>2, <1>3, <2>1, <2>2 DEF Settles
  <2> QED
    BY <2>3
<1>6. CASE ReceivePubAck
  <2> DEFINE sent == Bind(OnlyPublish, toBroker)
  <2>1. Head(toClient) = "puback" /\ unacked' = SubSeq(unacked, 2, Len(unacked))
    BY <1>6 DEF ReceivePubAck
  <2>2. Len(done) = 1 + Len(Bind(OnlyPubAck, toClient')) /\ Len(Bind(OnlyPubAck, toClient')) \in Nat
    BY <1>2, <1>3, <1>4, <2>1, AcksTaken DEF Settles
  <2>3. done # <<>> /\ Tail(done) \in Seq(Publishes) /\ Len(Tail(done)) = Len(Bind(OnlyPubAck, toClient'))
    BY <2>2
  <2>4. unacked = done \o sent /\ sent \in Seq(Requests) /\ done \in Seq(Requests)
    BY <1>3, <1>4, OnlyTyped, BindType, PacketsTyped, SeqMonotonic DEF Settles
  <2> HIDE DEF sent
  <2>5. SubSeq(done \o sent, 2, Len(done \o sent)) = Tail(done) \o sent
    BY <2>3, <2>4
  <2>6. \A i \in DOMAIN Tail(done) : Arrived(Tail(done)[i], delivered)
    <3>1. \A i \in DOMAIN Tail(done) : i + 1 \in DOMAIN done /\ Tail(done)[i] = done[i + 1]
      BY <2>3
    <3> QED
      BY <1>3, <3>1 DEF Settles
  <2>7. unacked' = Tail(done) \o Bind(OnlyPublish, toBroker')
    BY <1>2, <2>1, <2>4, <2>5 DEF sent
  <2>8. Settles(Tail(done), unacked', toBroker', toClient', delivered')
    BY <1>2, <2>3, <2>6, <2>7 DEF Settles
  <2> QED
    BY <2>3, <2>8
<1> QED
  BY <1>5, <1>6 DEF PollPackets

LEMMA SettleBroker ==
  ASSUME TypeInv, AcksSettle, BrokerStep
  PROVE  AcksSettle'
<1>1. SUFFICES ASSUME setup'.qos > 0, link' = "up"
               PROVE  \E done \in Seq(Publishes) :
                        Settles(done, unacked', toBroker', toClient', delivered')
  BY DEF AcksSettle
<1>2. /\ UNCHANGED <<link, unacked>> /\ setup.qos > 0
      /\ toBroker # <<>> /\ toBroker' = Tail(toBroker)
  BY <1>1, QosKept DEF BrokerStep, BrokerSubscribes, BrokerGetsPublish, clientVars, Next
<1>3. PICK done \in Seq(Publishes) : Settles(done, unacked, toBroker, toClient, delivered)
  BY <1>1, <1>2 DEF AcksSettle
<1>4. toClient \in Seq(PacketToClient) /\ toBroker \in Seq(Requests) /\ delivered \in Seq(EventNr)
  BY DEF TypeInv, TypeOK, PacketToClient
<1>5. CASE BrokerSubscribes
  <2>1. Head(toBroker) \notin Publishes
    <3>1. Subscribe # Online
      <4>1. Subscribe.kind # Online.kind
        BY DEF Subscribe, Online
      <4> QED
        BY <4>1
    <3> QED
      BY <1>5, <3>1, PacketsDiffer DEF BrokerSubscribes, Publishes
  <2>2. Bind(OnlyPublish, toBroker) = Bind(OnlyPublish, toBroker')
    BY <1>2, <1>4, <2>1, SettlesSent
  <2>3. PICK p \in {"suback", "subnack"} : toClient' = toClient \o <<p>>
    BY <1>5 DEF BrokerSubscribes, Reply
  <2>4. Len(Bind(OnlyPubAck, toClient')) = Len(Bind(OnlyPubAck, toClient))
    <3>1. p \in PacketToClient /\ p # "puback"
      BY DEF PacketToClient
    <3>2. Len(Bind(OnlyPubAck, toClient)) \in Nat
      BY <1>4, OnlyTyped, BindType, LenProperties
    <3> QED
      BY <1>4, <2>3, <3>1, <3>2, AcksReplied
  <2>5. delivered' = delivered
    BY <1>5 DEF BrokerSubscribes
  <2>6. Settles(done, unacked', toBroker', toClient', delivered')
    BY <1>2, <1>3, <2>2, <2>4, <2>5 DEF Settles
  <2> QED
    BY <2>6
<1>6. CASE BrokerGetsPublish
  <2> DEFINE p == Head(toBroker)
             sent == Bind(OnlyPublish, toBroker')
  <2>1. p \in Publishes
    BY <1>6 DEF BrokerGetsPublish
  <2>2. Bind(OnlyPublish, toBroker) = <<p>> \o sent /\ sent \in Seq(Requests)
    BY <1>2, <1>4, <2>1, SettlesSent
  <2> HIDE DEF sent
  <2>3. Append(done, p) \in Seq(Publishes) /\ Append(done, p) \o sent = done \o (<<p>> \o sent)
    <3>1. done \in Seq(Requests) /\ <<p>> \in Seq(Requests) /\ p \in Requests
      BY <2>1, PacketsTyped, SeqMonotonic
    <3>2. Append(done, p) \in Seq(Publishes) /\ Append(done, p) = done \o <<p>>
      BY <2>1, AppendProperties, AppendIsConcat
    <3>3. (done \o <<p>>) \o sent = done \o (<<p>> \o sent)
      BY <2>2, <3>1, ConcatAssociative
    <3> QED
      BY <3>2, <3>3, Zenon
  <2>4. unacked' = Append(done, p) \o sent
    BY <1>2, <1>3, <2>2, <2>3 DEF Settles
  <2>5. toClient' = toClient \o <<"puback">>
    BY <1>2, <1>6 DEF BrokerGetsPublish, Reply
  <2>6. Len(Append(done, p)) = Len(Bind(OnlyPubAck, toClient'))
    <3>1. "puback" \in PacketToClient
      BY DEF PacketToClient
    <3>2. Len(Bind(OnlyPubAck, toClient')) = Len(Bind(OnlyPubAck, toClient)) + 1
      BY <1>4, <2>5, <3>1, AcksReplied
    <3>3. Len(Append(done, p)) = Len(done) + 1
      BY <2>1, AppendProperties
    <3> QED
      BY <1>3, <3>2, <3>3 DEF Settles
  <2>7. Arrived(p, delivered') /\ Elements(delivered) \subseteq Elements(delivered')
    <3>1. CASE p = Online
      BY <1>6, <3>1 DEF BrokerGetsPublish, Arrived
    <3>2. CASE p # Online
      <4>1. delivered' = Append(delivered, p.event) /\ p.event \in EventNr
        BY <1>6, <2>1, <3>2, PacketsTyped DEF BrokerGetsPublish
      <4>2. Elements(delivered') = Elements(delivered) \union {p.event}
        BY <1>4, <4>1, ElementsAppend
      <4> QED
        BY <4>2 DEF Arrived
    <3> QED
      BY <3>1, <3>2
  <2>8. \A i \in DOMAIN Append(done, p) : Arrived(Append(done, p)[i], delivered')
    <3>1. \A i \in DOMAIN Append(done, p) :
            Append(done, p)[i] = p \/ (i \in DOMAIN done /\ Append(done, p)[i] = done[i])
      BY <2>1, AppendProperties, LenProperties
    <3>2. \A i \in DOMAIN done : Arrived(done[i], delivered')
      BY <1>3, <2>7 DEF Settles, Arrived
    <3> QED
      BY <2>7, <3>1, <3>2, Zenon
  <2>9. Settles(Append(done, p), unacked', toBroker', toClient', delivered')
    BY <2>4, <2>6, <2>8 DEF Settles, sent
  <2> QED
    BY <2>3, <2>9
<1> QED
  BY <1>5, <1>6 DEF BrokerStep

\* The others keep all of it, or take the connection down, or bring it up with
\* nothing under way.
LEMMA SettleOthers ==
  ASSUME TypeInv, SettleInv, [Next]_vars, ~SendRequest, ~PollPackets, ~BrokerStep
  PROVE  AcksSettle'
<1>1. setup'.qos = setup.qos
  BY QosKept
<1>2. CASE Produce \/ PublishLoop \/ SubscribeLoop \/ ConnectFails \/ PollAgain
           \/ BrokerFindsGone \/ UNCHANGED vars
  <2>1. UNCHANGED <<unacked, toBroker, toClient, link, delivered>>
    BY <1>2 DEF Produce, PublishLoop, TakeEvent, PublishEvent, SubscribeLoop, AwaitToken,
       SubscribeCommands, AnnounceOnline, ConnectFails, PollAgain, BrokerFindsGone, vars, clientVars,
       wireVars, brokerVars
  <2> QED
    BY <1>1, <2>1 DEF SettleInv, AcksSettle
<1>3. CASE Terminate \/ FindBroken \/ BreakLink
  BY <1>3 DEF Terminate, FindBroken, BreakLink, AcksSettle
<1>4. ASSUME unacked' = <<>>, toBroker' = <<>>, toClient' = <<>> PROVE AcksSettle'
  <2>1. /\ <<>> = <<>> \o Bind(OnlyPublish, <<>>) /\ Len(<<>>) = Len(Bind(OnlyPubAck, <<>>))
        /\ <<>> \in Seq(Publishes)
    <3>1. Bind(OnlyPublish, <<>>) = <<>> /\ Bind(OnlyPubAck, <<>>) = <<>>
      BY BindEmpty
    <3> QED
      BY <3>1
  <2>2. Settles(<<>>, unacked', toBroker', toClient', delivered')
    BY <1>4, <2>1 DEF Settles
  <2> QED
    BY <2>1, <2>2 DEF AcksSettle
<1>5. ASSUME NEW kept, Connect(kept) PROVE AcksSettle'
  BY <1>4, <1>5 DEF Connect, SettleInv, NothingStranded
<1>6. CASE Start
  <2>1. UNCHANGED <<toBroker, toClient, link, delivered>> /\ unacked' = <<>> /\ unacked = <<>>
    BY <1>6 DEF Start, wireVars, brokerVars, SettleInv, NothingStranded
  <2> QED
    BY <1>1, <2>1 DEF SettleInv, AcksSettle
<1> QED
  BY <1>2, <1>3, <1>5, <1>6 DEF Next, ConnectAny

LEMMA NothingStrandedStep ==
  ASSUME NothingStranded, [Next]_vars
  PROVE  NothingStranded'
<1> USE DEF NothingStranded
<1>1. CASE Produce \/ Start \/ Terminate
  BY <1>1 DEF Produce, Start, Terminate, clientVars, wireVars
<1>2. CASE PublishLoop \/ SubscribeLoop
  BY <1>2 DEF PublishLoop, TakeEvent, PublishEvent, SubscribeLoop, AwaitToken, SubscribeCommands,
     AnnounceOnline, wireVars
<1>3. ASSUME NEW kept, Connect(kept) PROVE NothingStranded'
  BY <1>3 DEF Connect, Polling
<1>4. CASE ConnectFails \/ FindBroken \/ PollAgain
  BY <1>4 DEF ConnectFails, FindBroken, PollAgain, Polling, wireVars
<1>5. CASE SendRequest
  BY <1>5 DEF SendRequest, Polling
<1>6. CASE PollPackets
  BY <1>6 DEF PollPackets, ReceiveSubAck, ReceivePubAck, Polling
<1>7. CASE BrokerStep
  BY <1>7 DEF BrokerStep, BrokerSubscribes, BrokerGetsPublish, clientVars
<1>8. CASE BrokerFindsGone \/ BreakLink \/ UNCHANGED vars
  BY <1>8 DEF BrokerFindsGone, BreakLink, vars, clientVars, wireVars
<1> QED
  BY <1>1, <1>2, <1>3, <1>4, <1>5, <1>6, <1>7, <1>8 DEF Next, ConnectAny

InCare == InHand \union EventsIn(unacked) \union Elements(delivered)

LEMMA ElementsBoth ==
  ASSUME NEW S, NEW r \in Seq(S), NEW s \in Seq(S)
  PROVE  Elements(r) \union Elements(s) \subseteq Elements(r \o s)
<1>1. /\ DOMAIN r = 1 .. Len(r) /\ Len(s) \in Nat /\ Len(r) \in Nat
      /\ DOMAIN (r \o s) = 1 .. (Len(r) + Len(s))
      /\ \A i \in 1 .. (Len(r) + Len(s)) :
           (r \o s)[i] = IF i <= Len(r) THEN r[i] ELSE s[i - Len(r)]
  BY ConcatProperties, LenProperties
<1>2. \A i \in DOMAIN r : i \in DOMAIN (r \o s) /\ (r \o s)[i] = r[i]
  BY <1>1
<1>3. Elements(r) \subseteq Elements(r \o s)
  BY <1>2, Zenon DEF Elements
<1>4. Elements(s) \subseteq Elements(r \o s)
  BY ElementsConcat
<1> QED
  BY <1>3, <1>4, Zenon

\* A PUBACK lets go of an event that was delivered, and a connection takes up again
\* what was not acknowledged.
LEMMA CarePoll ==
  ASSUME TypeOK, SettleInv, setup.qos > 0, ReceivePubAck
  PROVE  InCare \subseteq InCare'
<1>1. UNCHANGED <<pubChannel, held, requests, delivered>>
  BY DEF ReceivePubAck, eventVars, brokerVars
<1>2. /\ toClient # <<>> /\ Head(toClient) = "puback" /\ unacked' = SubSeq(unacked, 2, Len(unacked))
  BY DEF ReceivePubAck
<1>3. link = "up"
  BY <1>2 DEF SettleInv, NothingStranded
<1>4. PICK done \in Seq(Publishes) : Settles(done, unacked, toBroker, toClient, delivered)
  BY <1>3 DEF SettleInv, AcksSettle
<1>5. toClient \in Seq(PacketToClient) /\ unacked \in Seq(Publishes) /\ toBroker \in Seq(Requests)
  BY DEF TypeOK, PacketToClient
<1> DEFINE sent == Bind(OnlyPublish, toBroker)
<1>6. Len(done) \in Nat \ {0}
  BY <1>2, <1>4, <1>5, AcksTaken DEF Settles
<1>7. unacked = done \o sent /\ sent \in Seq(Requests) /\ done \in Seq(Requests)
  BY <1>4, <1>5, OnlyTyped, BindType, PacketsTyped, SeqMonotonic DEF Settles
<1> HIDE DEF sent
<1>8. unacked # <<>> /\ Head(unacked) = done[1] /\ 1 \in DOMAIN done
  <2>1. (done \o sent)[1] = done[1] /\ Len(done \o sent) > 0 /\ Head(done \o sent) = (done \o sent)[1]
    BY <1>6, <1>7
  <2>2. 1 \in DOMAIN done
    BY <1>6, <1>7
  <2> QED
    BY <1>7, <2>1, <2>2
<1>9. Arrived(Head(unacked), delivered)
  BY <1>4, <1>8 DEF Settles
<1>10. unacked' = Tail(unacked)
  BY <1>2, <1>5, <1>8
<1>11. Elements(unacked) = {Head(unacked)} \union Elements(unacked')
  BY <1>5, <1>8, <1>10, ElementsParts
<1>12. ASSUME NEW n \in EventsIn(unacked) PROVE n \in EventsIn(unacked') \/ n \in Elements(delivered)
  <2>1. n \in EventNr /\ Publish(n) \in Elements(unacked)
    BY DEF EventsIn
  <2>2. Publish(n) = Head(unacked) => n \in Elements(delivered)
    BY <1>9, PacketsDiffer DEF Arrived, Publish
  <2> QED
    BY <1>11, <2>1, <2>2 DEF EventsIn
<1> QED
  BY <1>1, <1>12 DEF InCare, InHand

LEMMA CareConnect ==
  ASSUME TypeOK, Connect(TRUE)
  PROVE  InCare \subseteq InCare'
<1>1. UNCHANGED <<pubChannel, held, delivered>> /\ requests' = unacked \o requests
  BY DEF Connect, eventVars
<1>2. requests \in Seq(Requests) /\ unacked \in Seq(Requests)
  BY PacketsTyped, SeqMonotonic DEF TypeOK
<1>3. Elements(unacked) \union Elements(requests) \subseteq Elements(requests')
  BY <1>1, <1>2, ElementsBoth
<1> QED
  BY <1>1, <1>3 DEF InCare, InHand, EventsIn

LEMMA CareSend ==
  ASSUME TypeOK, setup.qos > 0, SendRequest
  PROVE  InCare \subseteq InCare'
<1>1. UNCHANGED <<pubChannel, held, delivered>> /\ requests' = Tail(requests) /\ requests # <<>>
  BY DEF SendRequest, eventVars, brokerVars
<1>2. requests \in Seq(Requests) /\ unacked \in Seq(Publishes)
  BY DEF TypeOK
<1>3. Elements(requests) = {Head(requests)} \union Elements(requests')
  BY <1>1, <1>2, ElementsParts
<1>4. CASE Head(requests) \in Publishes
  <2>1. Elements(unacked') = Elements(unacked) \union {Head(requests)}
    BY <1>2, <1>4, ElementsAppend DEF SendRequest
  <2> QED
    BY <1>1, <1>3, <2>1 DEF InCare, InHand, EventsIn
<1>5. CASE Head(requests) \notin Publishes
  <2>1. \A n \in EventNr : Publish(n) # Head(requests)
    BY <1>5, PacketsTyped
  <2>2. unacked' = unacked
    BY <1>5 DEF SendRequest
  <2> QED
    BY <1>1, <1>3, <2>1, <2>2 DEF InCare, InHand, EventsIn
<1> QED
  BY <1>4, <1>5

LEMMA CareOthers ==
  ASSUME TypeInv, EndedEmpty, SettleInv,
         \/ Produce \/ Start \/ SubscribeLoop \/ PublishLoop
         \/ ConnectFails \/ FindBroken \/ PollAgain \/ ReceiveSubAck
         \/ BrokerStep \/ BrokerFindsGone \/ BreakLink \/ UNCHANGED vars
  PROVE  InCare \subseteq InCare'
<1>1. unacked' = unacked
  BY DEF Produce, Start, SubscribeLoop, AwaitToken, SubscribeCommands, AnnounceOnline, PublishLoop,
     TakeEvent, PublishEvent, ConnectFails, FindBroken, PollAgain, ReceiveSubAck, BrokerStep,
     BrokerSubscribes, BrokerGetsPublish, BrokerFindsGone, BreakLink, vars, clientVars, SettleInv,
     NothingStranded
<1>2. InHand \subseteq InHand'
  <2>1. CASE PublishLoop
    <3>1. UNCHANGED <<unacked, toBroker>>
      BY <2>1 DEF PublishLoop, TakeEvent, PublishEvent, wireVars
    <3>2. pubChannel \in Seq(EventNr) /\ held \in Seq(EventNr) /\ Len(held) <= 1 /\ requests \in Seq(Requests)
      BY DEF TypeInv, TypeOK
    <3>3. CASE TakeEvent
      <4>1. /\ held = <<>> /\ held' = <<Head(pubChannel)>> /\ requests' = requests
            /\ Elements(pubChannel) = {Head(pubChannel)} \union Elements(pubChannel')
        BY <3>2, <3>3, ElementsParts DEF TakeEvent
      <4>2. Elements(held) = {} /\ Elements(held') = {Head(pubChannel)}
        BY <4>1 DEF Elements
      <4> QED
        BY <4>1, <4>2 DEF InHand
    <3>4. CASE PublishEvent
      <4>1. Head(held) \in EventNr /\ Elements(held) = {Head(held)} /\ pubChannel' = pubChannel
        BY <3>2, <3>4, ElementsSingle DEF PublishEvent, eventVars
      <4>2. Elements(requests') = Elements(requests) \union {Publish(Head(held))}
        BY <3>2, <3>4, <4>1, PacketsTyped, ElementsAppend DEF PublishEvent
      <4> QED
        BY <4>1, <4>2 DEF InHand, EventsIn
    <3> QED
      BY <2>1, <3>3, <3>4 DEF PublishLoop
  <2>2. CASE ~PublishLoop
    <3>1. pubChannel \in Seq(EventNr) /\ requests \in Seq(Requests)
      BY DEF TypeInv, TypeOK
    <3>2. Elements(held) \subseteq Elements(held')
      BY <2>2, ElementsEmpty DEF Produce, Start, SubscribeLoop, AwaitToken, SubscribeCommands, AnnounceOnline,
         ConnectFails, FindBroken, PollAgain, ReceiveSubAck, BrokerStep, BrokerSubscribes,
         BrokerGetsPublish, BrokerFindsGone, BreakLink, vars, clientVars, EndedEmpty
    <3>3. Elements(pubChannel) \subseteq Elements(pubChannel')
      <4>1. CASE Produce
        <5>1. pubChannel' \in Seq(EventNr)
          BY <4>1, ProduceType DEF TypeInv, TypeOK
        <5>2. pubChannel' = Append(pubChannel, produced') => produced' \in EventNr
          <6>1. produced' \in 0 .. MaxEvent /\ produced' = produced + 1 /\ produced \in 0 .. MaxEvent
            BY <4>1, ProduceType DEF TypeInv, TypeOK, Produce
          <6> QED
            BY <6>1, MqttClientAssumption DEF EventNr
        <5>3. pubChannel' \in {pubChannel, Append(pubChannel, produced')}
          BY <4>1 DEF Produce
        <5>4. pubChannel' = Append(pubChannel, produced') =>
                Elements(Append(pubChannel, produced')) = Elements(pubChannel) \union {produced'}
          BY <3>1, <5>2, ElementsAppend
        <5> QED
          BY <5>3, <5>4
      <4>2. CASE ~Produce
        BY <2>2, <4>2 DEF Start, SubscribeLoop, AwaitToken, SubscribeCommands, AnnounceOnline,
           ConnectFails, FindBroken, PollAgain, ReceiveSubAck, BrokerStep, BrokerSubscribes,
           BrokerGetsPublish, BrokerFindsGone, BreakLink, vars, eventVars
      <4> QED
        BY <4>1, <4>2
    <3>4. Elements(requests) \subseteq Elements(requests')
      <4>1. CASE SubscribeLoop
        <5>1. requests' = requests \/ \E p \in {Online, Subscribe} : requests' = Append(requests, p)
          BY <4>1 DEF SubscribeLoop, AwaitToken, SubscribeCommands, AnnounceOnline
        <5>2. \A p \in {Online, Subscribe} : Elements(Append(requests, p)) = Elements(requests) \union {p}
          BY <3>1, PacketsTyped, ElementsAppend
        <5> QED
          BY <5>1, <5>2
      <4>2. CASE ~SubscribeLoop
        BY <2>2, <4>2, ElementsEmpty DEF Produce, Start, ConnectFails, FindBroken, PollAgain, ReceiveSubAck,
           BrokerStep, BrokerSubscribes, BrokerGetsPublish, BrokerFindsGone, BreakLink, vars,
           clientVars, EndedEmpty
      <4> QED
        BY <4>1, <4>2
    <3> QED
      BY <3>2, <3>3, <3>4 DEF InHand, EventsIn
  <2> QED
    BY <2>1, <2>2
<1>3. Elements(delivered) \subseteq Elements(delivered')
  <2>1. CASE BrokerGetsPublish
    <3>1. /\ delivered \in Seq(EventNr) /\ Head(toBroker) \in Publishes
          /\ Head(toBroker) # Online => Head(toBroker).event \in EventNr
      BY <2>1, PacketsTyped DEF BrokerGetsPublish, TypeInv, TypeOK
    <3>2. \A n \in EventNr : Elements(Append(delivered, n)) = Elements(delivered) \union {n}
      BY <3>1, ElementsAppend
    <3>3. delivered' = delivered
            \/ (Head(toBroker) # Online /\ delivered' = Append(delivered, Head(toBroker).event))
      BY <2>1 DEF BrokerGetsPublish
    <3> QED
      BY <3>1, <3>2, <3>3
  <2>2. CASE ~BrokerGetsPublish
    BY <2>2 DEF Produce, Start, SubscribeLoop, AwaitToken, SubscribeCommands, AnnounceOnline,
       PublishLoop, TakeEvent, PublishEvent, ConnectFails, FindBroken, PollAgain, ReceiveSubAck,
       BrokerStep, BrokerSubscribes, BrokerFindsGone, BreakLink, vars, brokerVars
  <2> QED
    BY <2>1, <2>2
<1> QED
  BY <1>1, <1>2, <1>3 DEF InCare, EventsIn

LEMMA CareStep ==
  ASSUME TypeInv, EndedEmpty, SettleInv, [Next]_vars
  PROVE  \/ running /\ ~running'
         \/ setup.qos = 0
         \/ setup.sessionKept # {TRUE}
         \/ InCare \subseteq InCare'
<1>1. SUFFICES ASSUME setup.qos # 0, setup.sessionKept = {TRUE}, ~Terminate
               PROVE  InCare \subseteq InCare'
  BY DEF Terminate
<1>2. setup.qos > 0 /\ TypeOK
  BY <1>1 DEF TypeInv, TypeOK, Setup
<1>3. ASSUME ConnectAny PROVE InCare \subseteq InCare'
  BY <1>1, <1>2, <1>3, CareConnect DEF ConnectAny
<1>4. CASE SendRequest
  BY <1>2, <1>4, CareSend
<1>5. CASE ReceivePubAck
  BY <1>2, <1>5, CarePoll
<1> QED
  BY <1>1, <1>3, <1>4, <1>5, CareOthers DEF Next, PollPackets

\* With QoS 1 and a broker that keeps sessions an event is in the hands of the
\* program, or repeated until it is acknowledged, or delivered, unless a reload
\* discards the client: for any breaks, refusals, rejections and capacities.
THEOREM EventsKeptUntilDelivered == Spec => KeptUntilDelivered
<1> DEFINE Kept == \/ running /\ ~running'
                   \/ setup.qos = 0
                   \/ setup.sessionKept # {TRUE}
                   \/ LET inCare == InHand \union EventsIn(unacked) \union Elements(delivered)
                      IN inCare \subseteq inCare'
           Inv  == TypeInv /\ EndedEmpty /\ SettleInv
<1>1. Init => Inv
  BY InitType DEF Init, EndedEmpty, SettleInv, AcksSettle, NothingStranded
<1>2. Inv /\ [Next]_vars => Inv'
  <2> SUFFICES ASSUME Inv, [Next]_vars PROVE Inv'
    OBVIOUS
  <2>1. TypeInv' /\ EndedEmpty'
    BY TypeStep, EndedEmptyStep
  <2>2. NothingStranded'
    BY NothingStrandedStep DEF SettleInv
  <2>3. AcksSettle'
    BY SettleSend, SettlePoll, SettleBroker, SettleOthers DEF TypeInv, SettleInv
  <2> QED
    BY <2>1, <2>2, <2>3 DEF SettleInv
<1>3. Inv /\ [Next]_vars => [Kept]_vars
  BY CareStep DEF InCare
<1> QED
  BY <1>1, <1>2, <1>3, PTL DEF Spec, KeptUntilDelivered
=============================================================================
