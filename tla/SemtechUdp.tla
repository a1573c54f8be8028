----------------------------- MODULE SemtechUdp -----------------------------
(***************************************************************************)
(* The Semtech UDP packet-forwarder backend (backend/semtech_udp/mod.rs).  *)
(*                                                                         *)
(* One process is the UDP receive loop, which handles one datagram at a    *)
(* time; the others are the tasks the MQTT client spawns, one for each     *)
(* "down" command, each of which sends a downlink frame.  They share the   *)
(* downlink cache and the pull address.  The UDP socket is three sets of   *)
(* datagrams in flight, delivered in any order.                            *)
(*                                                                         *)
(* Sequences are indexed from 1, the code's vectors from 0.                *)
(***************************************************************************)
EXTENDS GatewayStats

CONSTANTS
  DownlinkId,          \* the downlink ids the server uses, a set of numbers
  Items,               \* Items[d]: the item kinds of the frame with id d
  TokenModulus,        \* how many random tokens there are: 65536 in the code
  Task,                \* command tasks that may run at the same time
  UdpLoop,             \* the process of udp_receive_loop
  Addr, NoAddr,        \* UDP source addresses
  Gateway, NoGateway,  \* gateway ids
  ConfiguredId,        \* backend.gateway_id of the configuration, or NoGateway
  PublishChannelSize,  \* capacity of the channel to the MQTT client
  ForwardCrc,          \* the CRC statuses whose forward_crc_ flag is set
  NoEntry, Idle

ASSUME SemtechUdpAssumption ==
  /\ DownlinkId \subseteq Nat
  /\ Items \in [DownlinkId -> Seq(ItemKind)]
  /\ TokenModulus \in Nat \ {0}
  /\ UdpLoop \notin Task
  /\ NoAddr \notin Addr
  /\ NoGateway \notin Gateway
  /\ ConfiguredId \in Gateway \union {NoGateway}
  /\ PublishChannelSize \in Nat \ {0}
  /\ ForwardCrc \subseteq {"ok", "bad", "missing"}

VARIABLES
  aborted,     \* a panic stopped the process: the release profile aborts
  cache,       \* State.downlink_cache
  pullAddr,    \* State.pull_addr
  gatewayId,   \* State.gateway_id
  stats,       \* State.stats
  job,         \* job[p]: the send_downlink_frame call p is in, or Idle
  loop,        \* where the receive loop is
  channelOpen, \* the MQTT client was started and created PUB_CHANNEL
  channel,     \* PUB_CHANNEL: events waiting for the MQTT client
  pullResp,    \* PULL_RESP datagrams in flight
  txAck,       \* TX_ACK datagrams in flight
  pullData,    \* PULL_DATA datagrams in flight
  acked,       \* history: acked[d] are the acks queued for d, in order
  ledger       \* history: where every counted packet went

stateVars   == <<cache, pullAddr, gatewayId, stats>>
channelVars == <<channelOpen, channel>>
networkVars == <<pullResp, txAck, pullData>>
udpVars     == <<aborted, stateVars, job, loop, channelVars, networkVars, acked, ledger>>

Process == Task \union {UdpLoop}
Token   == 0 .. TokenModulus - 1

\* Mutant of TokenOf: the downlink id is not truncated.
TokenUntruncated(d) == d

\* pl.downlink_id as u16
TokenOf(d) == d % TokenModulus

Acks  == Seq(AckStatus)
Entry == [frame : DownlinkId, acks : Acks, index : Nat \ {0}, expired : BOOLEAN]
Job   == [step : {"store", "transmit"}, frame : DownlinkId, acks : Acks, index : Nat \ {0}]

\* No entry and no call is mistaken for the lack of one.
ASSUME AbsenceAssumption == NoEntry \notin Entry /\ Idle \notin Job

\* The datagrams.  A PULL_RESP carries one item of one frame.  A TX_ACK carries
\* a token and a status; frame and index are history, the item it is about.
\* copy tells a duplicate made by the network from the original.
PullRespMsg == [dest : Addr, token : Token, frame : DownlinkId, index : Nat \ {0},
                copy : BOOLEAN]
TxAckMsg    == [token : Token, status : Reported, frame : DownlinkId, index : Nat \ {0},
                copy : BOOLEAN]
PullDataMsg == [from : Addr, gateway : Gateway]

\* A PUSH_DATA holds the uplink frames its rxpk array expands to (one for each
\* antenna) and a stat object or none; valid says that all of it translates.
UplinkFrame == [crc : {"ok", "bad", "missing"}, matches : BOOLEAN]
PushDataMsg == [frames : Seq(UplinkFrame), stat : BOOLEAN, valid : BOOLEAN]

\* What is queued for the MQTT client, as far as the properties look at it.
Event == [type : {"up", "ack"}] \union [type : {"stats"}, rx : Nat, tx : Nat]

Receiving == [at |-> "recv"]
Loop ==
  {Receiving}
    \union [at : {"frames"}, frames : Seq(UplinkFrame), stat : BOOLEAN]
    \union [at : {"metadata"}, report : Stats]

\* up: uplinks queued, refused: counted and then refused by a full channel,
\* rx, tx: packets in the reports queued, lostRx, lostTx: in the reports lost.
Account == {"up", "refused", "rx", "tx", "lostRx", "lostTx"}
Ledger  == [Account -> Nat]

-----------------------------------------------------------------------------
UdpInit ==
  /\ aborted = FALSE
  /\ cache = [k \in Token |-> NoEntry]
  /\ pullAddr = NoAddr
  /\ gatewayId = ConfiguredId
  /\ stats = ZeroStats
  /\ job = [p \in Process |-> Idle]
  /\ loop = Receiving
  /\ channelOpen = FALSE
  /\ channel = <<>>
  /\ pullResp = {}
  /\ txAck = {}
  /\ pullData = {}
  /\ acked = [d \in DownlinkId |-> <<>>]
  /\ ledger = [a \in Account |-> 0]

\* try_send: an error for the caller if the channel is full, or not there yet.
HasRoom == channelOpen /\ Len(channel) < PublishChannelSize

\* The loop is in recv_from: no datagram and no retry is being handled.
LoopReady == ~aborted /\ loop = Receiving /\ job[UdpLoop] = Idle

-----------------------------------------------------------------------------
(* Sending a downlink frame: the cache entry is stored first, then the item *)
(* is translated and sent.  Both steps are run by tasks and by the loop.    *)

JobAt(step, d, acks, i) == [step |-> step, frame |-> d, acks |-> acks, index |-> i]

NewJob(d, acks, i) == JobAt("store", d, acks, i)

\* Backend::send_downlink_frame, called by a task with a "down" command, which
\* the MQTT client hands over once it runs.
SendDownlinkFrame(t, d) ==
  /\ ~aborted
  /\ channelOpen
  /\ job[t] = Idle
  /\ job' = [job EXCEPT ![t] = NewJob(d, [i \in DOMAIN Items[d] |-> "IGNORED"], 1)]
  /\ UNCHANGED <<aborted, stateVars, loop, channelVars, networkVars, acked, ledger>>

SetDownlinkCache(p) ==
  /\ ~aborted
  /\ job[p] # Idle
  /\ job[p].step = "store"
  /\ cache' = [cache EXCEPT ![TokenOf(job[p].frame)] =
                 [frame |-> job[p].frame, acks |-> job[p].acks,
                  index |-> job[p].index, expired |-> FALSE]]
  /\ job' = [job EXCEPT ![p] = JobAt("transmit", job[p].frame, job[p].acks, job[p].index)]
  /\ UNCHANGED <<aborted, pullAddr, gatewayId, stats, loop, channelVars, networkVars, acked, ledger>>

\* PullResp::from_proto: there is such an item and it can be translated.
Translates(d, i) == i \in DOMAIN Items[d] /\ Items[d][i] = "good"

\* An item that does not translate, or a pull address not yet known, ends the
\* call with an error that is only logged: nothing is sent or acknowledged.
TransmitPullResp(p) ==
  /\ ~aborted
  /\ job[p] # Idle
  /\ job[p].step = "transmit"
  /\ job' = [job EXCEPT ![p] = Idle]
  /\ IF Translates(job[p].frame, job[p].index) /\ pullAddr # NoAddr
       THEN pullResp' = pullResp \union
              {[dest |-> pullAddr, token |-> TokenOf(job[p].frame),
                frame |-> job[p].frame, index |-> job[p].index, copy |-> FALSE]}
       ELSE UNCHANGED pullResp
  /\ UNCHANGED <<aborted, stateVars, loop, channelVars, txAck, pullData, acked, ledger>>

-----------------------------------------------------------------------------
(* handle_tx_ack: the entry is copied out of the cache; a final status is   *)
(* counted and queued for the MQTT client, any other one retries with the   *)
(* next item of the frame.                                                  *)

\* Mutant of CleanedCache: the entries that have not expired are dropped.
CleanedCacheInverted ==
  [k \in Token |-> IF cache[k] # NoEntry /\ ~cache[k].expired THEN NoEntry ELSE cache[k]]

\* get_downlink_cache drops every expired entry before it reads.
CleanedCache ==
  [k \in Token |-> IF cache[k] # NoEntry /\ cache[k].expired THEN NoEntry ELSE cache[k]]

\* Takes m off the socket and cleans the cache, with e the entry found for m.
LooksUp(m, e) ==
  /\ LoopReady
  /\ m \in txAck
  /\ txAck' = txAck \ {m}
  /\ cache' = CleanedCache
  /\ e = CleanedCache[m.token]

TxAckUnknown(m) ==
  /\ LooksUp(m, NoEntry)
  /\ UNCHANGED <<aborted, pullAddr, gatewayId, stats, job, loop, channelVars, pullResp, pullData,
                 acked, ledger>>

\* ack_items[index] is out of bounds: the frame of the entry has no items.
TxAckPanic(m, e) ==
  /\ LooksUp(m, e)
  /\ e.index \notin DOMAIN e.acks
  /\ aborted' = TRUE
  /\ UNCHANGED <<pullAddr, gatewayId, stats, job, loop, channelVars, pullResp, pullData,
                 acked, ledger>>

WithStatus(e, s) == [e.acks EXCEPT ![e.index] = s]

\* Mutants of IsFinal: one item too early, for the failures of the last item not
\* at all, and without regard to a success.
IsFinalEarly(e, s)   == s = "OK" \/ e.index + 1 >= Len(e.acks)
IsFinalOnlyOk(e, s)  == s = "OK"
IsFinalByIndex(e, s) == e.index >= Len(e.acks)

IsFinal(e, s) == s = "OK" \/ e.index >= Len(e.acks)

\* count_downlink, then send_tx_ack; an error of the one skips the other.
TxAckFinal(m, e) ==
  LET acks == WithStatus(e, m.status) IN
  /\ LooksUp(m, e)
  /\ e.index \in DOMAIN e.acks
  /\ IsFinal(e, m.status)
  /\ stats' = CountDownlink(stats, Items[e.frame], acks)
  /\ IF ~CountFails(Items[e.frame], acks) /\ HasRoom
       THEN /\ channel' = Append(channel, [type |-> "ack"])
            /\ acked' = [acked EXCEPT ![e.frame] = Append(@, acks)]
       ELSE UNCHANGED <<channel, acked>>
  /\ UNCHANGED <<aborted, pullAddr, gatewayId, job, loop, channelOpen, pullResp, pullData, ledger>>

\* Mutant of TxAckRetry: the acks are handed on without the new status.
TxAckRetryStaleAcks(m, e) ==
  /\ LooksUp(m, e)
  /\ e.index \in DOMAIN e.acks
  /\ ~IsFinal(e, m.status)
  /\ job' = [job EXCEPT ![UdpLoop] = NewJob(e.frame, e.acks, e.index + 1)]
  /\ UNCHANGED <<aborted, pullAddr, gatewayId, stats, loop, channelVars, pullResp, pullData,
                 acked, ledger>>

\* Mutant of TxAckRetry: the item that failed is tried again.
TxAckRetrySameItem(m, e) ==
  /\ LooksUp(m, e)
  /\ e.index \in DOMAIN e.acks
  /\ ~IsFinal(e, m.status)
  /\ job' = [job EXCEPT ![UdpLoop] = NewJob(e.frame, WithStatus(e, m.status), e.index)]
  /\ UNCHANGED <<aborted, pullAddr, gatewayId, stats, loop, channelVars, pullResp, pullData,
                 acked, ledger>>

TxAckRetry(m, e) ==
  /\ LooksUp(m, e)
  /\ e.index \in DOMAIN e.acks
  /\ ~IsFinal(e, m.status)
  /\ job' = [job EXCEPT ![UdpLoop] = NewJob(e.frame, WithStatus(e, m.status), e.index + 1)]
  /\ UNCHANGED <<aborted, pullAddr, gatewayId, stats, loop, channelVars, pullResp, pullData,
                 acked, ledger>>

HandleTxAck(m) ==
  \/ TxAckUnknown(m)
  \/ LET e == CleanedCache[m.token] IN
       /\ e # NoEntry
       /\ TxAckPanic(m, e) \/ TxAckFinal(m, e) \/ TxAckRetry(m, e)

-----------------------------------------------------------------------------
\* Mutant of HandlePullData: the first address is kept.
HandlePullDataOnce(m) ==
  /\ LoopReady
  /\ m \in pullData
  /\ pullData' = pullData \ {m}
  /\ gatewayId' = m.gateway
  /\ pullAddr' = IF pullAddr = NoAddr THEN m.from ELSE pullAddr
  /\ UNCHANGED <<aborted, cache, stats, job, loop, channelVars, pullResp, txAck, acked, ledger>>

\* handle_pull_data.  A PULL_ACK that cannot be sent leaves the state alone,
\* which is what the loss of the datagram does.
HandlePullData(m) ==
  /\ LoopReady
  /\ m \in pullData
  /\ pullData' = pullData \ {m}
  /\ gatewayId' = m.gateway
  /\ pullAddr' = m.from
  /\ UNCHANGED <<aborted, cache, stats, job, loop, channelVars, pullResp, txAck, acked, ledger>>

-----------------------------------------------------------------------------
(* handle_push_data: frame by frame, then the statistics.  The loop handles *)
(* nothing else meanwhile, the tasks go on.                                 *)

\* One rxpk that does not translate drops the whole datagram, already acknowledged.
HandlePushData(m) ==
  /\ LoopReady
  /\ loop' = IF m.valid THEN [at |-> "frames", frames |-> m.frames, stat |-> m.stat]
                        ELSE Receiving
  /\ UNCHANGED <<aborted, stateVars, job, channelVars, networkVars, acked, ledger>>

InFrames == ~aborted /\ loop.at = "frames"

Forwards(f) == f.crc \in ForwardCrc /\ f.matches

NextFrame == [at |-> "frames", frames |-> Tail(loop.frames), stat |-> loop.stat]

IgnoreFrame ==
  /\ InFrames
  /\ loop.frames # <<>>
  /\ ~Forwards(Head(loop.frames))
  /\ loop' = NextFrame
  /\ UNCHANGED <<aborted, stateVars, job, channelVars, networkVars, acked, ledger>>

\* Counted first; a full channel then abandons the rest of the datagram.
ForwardFrame ==
  /\ InFrames
  /\ loop.frames # <<>>
  /\ Forwards(Head(loop.frames))
  /\ stats' = CountUplink(stats)
  /\ IF HasRoom
       THEN /\ channel' = Append(channel, [type |-> "up"])
            /\ loop' = NextFrame
            /\ ledger' = [ledger EXCEPT !["up"] = @ + 1]
       ELSE /\ loop' = Receiving
            /\ ledger' = [ledger EXCEPT !["refused"] = @ + 1]
            /\ UNCHANGED channel
  /\ UNCHANGED <<aborted, cache, pullAddr, gatewayId, job, channelOpen, networkVars, acked>>

\* Mutant of ExportStats: the counters are not reset.
ExportStatsKeeping ==
  /\ InFrames
  /\ loop.frames = <<>>
  /\ loop' = IF loop.stat THEN [at |-> "metadata", report |-> stats] ELSE Receiving
  /\ UNCHANGED <<aborted, stateVars, job, channelVars, networkVars, acked, ledger>>

\* The counters are exported and reset before the metadata commands are run.
ExportStats ==
  /\ InFrames
  /\ loop.frames = <<>>
  /\ IF loop.stat
       THEN /\ loop' = [at |-> "metadata", report |-> stats]
            /\ stats' = ZeroStats
       ELSE /\ loop' = Receiving
            /\ UNCHANGED stats
  /\ UNCHANGED <<aborted, cache, pullAddr, gatewayId, job, channelVars, networkVars, acked, ledger>>

\* metadata::get, with its outcome ok, then send_gateway_stats.
SendGatewayStats(ok) ==
  /\ ~aborted
  /\ loop.at = "metadata"
  /\ IF ok /\ HasRoom
       THEN /\ channel' = Append(channel, [type |-> "stats", rx |-> loop.report.rx,
                                           tx |-> loop.report.tx])
            /\ ledger' = [ledger EXCEPT !["rx"] = @ + loop.report.rx, !["tx"] = @ + loop.report.tx]
       ELSE /\ ledger' = [ledger EXCEPT !["lostRx"] = @ + loop.report.rx,
                                        !["lostTx"] = @ + loop.report.tx]
            /\ UNCHANGED channel
  /\ loop' = Receiving
  /\ UNCHANGED <<aborted, stateVars, job, channelOpen, networkVars, acked>>

-----------------------------------------------------------------------------
(* The environment of the component inside the program and the machine.     *)

\* 60 seconds passed since the entry under token k was stored.
ExpireEntry(k) ==
  /\ cache[k] # NoEntry
  /\ ~cache[k].expired
  /\ cache' = [cache EXCEPT ![k].expired = TRUE]
  /\ UNCHANGED <<aborted, pullAddr, gatewayId, stats, job, loop, channelVars, networkVars,
                 acked, ledger>>

\* The backend's setup has waited for a gateway id; the first run of the MQTT
\* client creates the channel, after the receive loop has been started.
OpenChannel ==
  /\ ~aborted
  /\ ~channelOpen
  /\ gatewayId # NoGateway
  /\ channelOpen' = TRUE
  /\ UNCHANGED <<aborted, stateVars, job, loop, channel, networkVars, acked, ledger>>

\* The MQTT client takes the next event from the channel.
TakeEvent ==
  /\ ~aborted
  /\ channel # <<>>
  /\ channel' = Tail(channel)
  /\ UNCHANGED <<aborted, stateVars, job, loop, channelOpen, networkVars, acked, ledger>>

\* Packets counted and not yet exported, or exported and not yet queued.
PendingRx == stats.rx + (IF loop.at = "metadata" THEN loop.report.rx ELSE 0)
PendingTx == stats.tx + (IF loop.at = "metadata" THEN loop.report.tx ELSE 0)

\* The process is started again, after an abort or a stop at any point.
Restart ==
  /\ aborted' = FALSE
  /\ cache' = [k \in Token |-> NoEntry]
  /\ pullAddr' = NoAddr
  /\ gatewayId' = ConfiguredId
  /\ stats' = ZeroStats
  /\ job' = [p \in Process |-> Idle]
  /\ loop' = Receiving
  /\ channelOpen' = FALSE
  /\ channel' = <<>>
  /\ ledger' = [ledger EXCEPT !["lostRx"] = @ + PendingRx, !["lostTx"] = @ + PendingTx]
  /\ UNCHANGED <<networkVars, acked>>
=============================================================================
