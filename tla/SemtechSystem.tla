---------------------------- MODULE SemtechSystem ---------------------------
(***************************************************************************)
(* The Semtech UDP backend composed with its environment: the packet       *)
(* forwarder of the gateway, the UDP network between them, the MQTT client *)
(* that delivers commands and takes events, and the passing of time.       *)
(*                                                                         *)
(* The packet forwarder is not part of the program; it is modelled from    *)
(* the datagrams the backend expects of it: it sends PULL_DATA from its    *)
(* current address, and answers a PULL_RESP that reaches it by a TX_ACK    *)
(* with the same token.                                                    *)
(***************************************************************************)
EXTENDS SemtechUdp

CONSTANTS
  PushData,     \* the PUSH_DATA datagrams the forwarder may send
  Budgets       \* how often each of the following may happen: the choices

\* lose, duplicate: a datagram;  command, redeliver: a command delivered for the
\* first time, and once more;  expire: 60 seconds pass;  move: the forwarder
\* changes its address;  restart: the process is stopped;  push: a PUSH_DATA;
\* metadata: its collection fails.
Occasion == {"lose", "duplicate", "command", "redeliver", "expire", "move", "restart", "push",
             "metadata"}

ASSUME SemtechSystemAssumption ==
  /\ PushData \subseteq PushDataMsg
  /\ Budgets \subseteq [Occasion -> Nat]

VARIABLES
  home,        \* the address the packet forwarder uses now
  radio,       \* radio[d]: the items of d the forwarder tried, with their status
  commanded,   \* commanded[d]: how often d was delivered as a command
  budget       \* what is left of the budget chosen at the start

environmentVars == <<home, radio, commanded, budget>>
vars == <<udpVars, environmentVars>>

Init ==
  /\ UdpInit
  /\ home \in Addr
  /\ radio = [d \in DownlinkId |-> <<>>]
  /\ commanded = [d \in DownlinkId |-> 0]
  /\ budget \in Budgets

Spend(o) ==
  /\ budget[o] > 0
  /\ budget' = [budget EXCEPT ![o] = @ - 1]

-----------------------------------------------------------------------------
(* The program.                                                             *)

DeliverCommand(t, d) ==
  /\ SendDownlinkFrame(t, d)
  /\ Spend(IF commanded[d] = 0 THEN "command" ELSE "redeliver")
  /\ commanded' = [commanded EXCEPT ![d] = @ + 1]
  /\ UNCHANGED <<home, radio>>

SendStep(p) == (SetDownlinkCache(p) \/ TransmitPullResp(p)) /\ UNCHANGED environmentVars

ReceiveTxAck(m)    == HandleTxAck(m) /\ UNCHANGED environmentVars
ReceivePullData(m) == HandlePullData(m) /\ UNCHANGED environmentVars

ReceivePushData(m) ==
  /\ HandlePushData(m)
  /\ Spend("push")
  /\ UNCHANGED <<home, radio, commanded>>

PushStep == (IgnoreFrame \/ ForwardFrame \/ ExportStats) /\ UNCHANGED environmentVars

ReportStats ==
  \/ SendGatewayStats(TRUE) /\ UNCHANGED environmentVars
  \/ SendGatewayStats(FALSE) /\ Spend("metadata") /\ UNCHANGED <<home, radio, commanded>>

StartClient == OpenChannel /\ UNCHANGED environmentVars

Consume == TakeEvent /\ UNCHANGED environmentVars

-----------------------------------------------------------------------------
(* The packet forwarder.                                                    *)

SendPullData(g) ==
  /\ pullData' = pullData \union {[from |-> home, gateway |-> g]}
  /\ pullData' # pullData
  /\ UNCHANGED <<aborted, stateVars, job, loop, channelVars, pullResp, txAck, acked, ledger,
                 environmentVars>>

\* The forwarder tries the item and says how it went.
EmitPullResp(m, s) ==
  /\ m \in pullResp
  /\ m.dest = home
  /\ pullResp' = pullResp \ {m}
  /\ radio' = [radio EXCEPT ![m.frame] = Append(@, [index |-> m.index, status |-> s])]
  /\ txAck' = txAck \union {[token |-> m.token, status |-> s, frame |-> m.frame,
                             index |-> m.index, copy |-> m.copy]}
  /\ UNCHANGED <<aborted, stateVars, job, loop, channelVars, pullData, acked, ledger,
                 home, commanded, budget>>

\* Nobody listens any more at the address the PULL_RESP was sent to.
MisdirectPullResp(m) ==
  /\ m \in pullResp
  /\ m.dest # home
  /\ pullResp' = pullResp \ {m}
  /\ UNCHANGED <<aborted, stateVars, job, loop, channelVars, txAck, pullData, acked, ledger,
                 environmentVars>>

-----------------------------------------------------------------------------
(* Faults and the passing of time.                                          *)

Lose ==
  /\ Spend("lose")
  /\ \/ /\ \E m \in pullResp : pullResp' = pullResp \ {m}
        /\ UNCHANGED <<txAck, pullData>>
     \/ /\ \E m \in txAck : txAck' = txAck \ {m}
        /\ UNCHANGED <<pullResp, pullData>>
     \/ /\ \E m \in pullData : pullData' = pullData \ {m}
        /\ UNCHANGED <<pullResp, txAck>>
  /\ UNCHANGED <<aborted, stateVars, job, loop, channelVars, acked, ledger, home, radio, commanded>>

Duplicate ==
  /\ Spend("duplicate")
  /\ \/ /\ \E m \in pullResp : pullResp' = pullResp \union {[m EXCEPT !.copy = TRUE]}
        /\ UNCHANGED txAck
     \/ /\ \E m \in txAck : txAck' = txAck \union {[m EXCEPT !.copy = TRUE]}
        /\ UNCHANGED pullResp
  /\ UNCHANGED <<aborted, stateVars, job, loop, channelVars, pullData, acked, ledger,
                 home, radio, commanded>>

Expire ==
  /\ \E k \in Token : ExpireEntry(k)
  /\ Spend("expire")
  /\ UNCHANGED <<home, radio, commanded>>

Move(a) ==
  /\ Spend("move")
  /\ home' = a
  /\ UNCHANGED <<udpVars, radio, commanded>>

\* systemd restarts the process after an abort; any other stop is an occasion.
StartAgain ==
  /\ Restart
  /\ IF aborted THEN UNCHANGED budget ELSE Spend("restart")
  /\ UNCHANGED <<home, radio, commanded>>

-----------------------------------------------------------------------------
Next ==
  \/ \E t \in Task, d \in DownlinkId : DeliverCommand(t, d)
  \/ \E p \in Process : SendStep(p)
  \/ \E m \in txAck : ReceiveTxAck(m)
  \/ \E m \in pullData : ReceivePullData(m)
  \/ \E m \in PushData : ReceivePushData(m)
  \/ PushStep
  \/ ReportStats
  \/ StartClient
  \/ Consume
  \/ \E g \in Gateway : SendPullData(g)
  \/ \E m \in pullResp, s \in Reported : EmitPullResp(m, s)
  \/ \E m \in pullResp : MisdirectPullResp(m)
  \/ Lose
  \/ Duplicate
  \/ Expire
  \/ \E a \in Addr : Move(a)
  \/ StartAgain

Spec == Init /\ [][Next]_vars

(***************************************************************************)
(* Fairness.  Tasks and the receive loop are tokio tasks, which the        *)
(* runtime keeps polling; the publish task keeps taking events.  The       *)
(* socket hands datagrams over in their order, so a datagram is not passed *)
(* over for ever: strong fairness, for the loop is busy now and then.  The *)
(* packet forwarder keeps sending PULL_DATA and handles every PULL_RESP.   *)
(* Nothing is assumed about commands, faults, PUSH_DATA or time.           *)
(***************************************************************************)

ReceiveTxAckOf(d, i) == \E m \in txAck : m.frame = d /\ m.index = i /\ ReceiveTxAck(m)

HandlePullRespOf(d, i) ==
  \E m \in pullResp : /\ m.frame = d
                      /\ m.index = i
                      /\ (\E s \in Reported : EmitPullResp(m, s)) \/ MisdirectPullResp(m)

ReceivePullDataFrom(a) == \E m \in pullData : m.from = a /\ ReceivePullData(m)

Fairness ==
  /\ \A p \in Process : WF_vars(SendStep(p))
  /\ WF_vars(PushStep)
  /\ WF_vars(ReportStats)
  /\ WF_vars(StartClient)
  /\ WF_vars(Consume)
  /\ \A d \in DownlinkId : \A i \in DOMAIN Items[d] :
       SF_vars(ReceiveTxAckOf(d, i)) /\ WF_vars(HandlePullRespOf(d, i))
  /\ \A a \in Addr : SF_vars(ReceivePullDataFrom(a))
  /\ \A g \in Gateway : WF_vars(SendPullData(g))

FairSpec == Spec /\ Fairness

-----------------------------------------------------------------------------
(* Properties.                                                              *)

EmissionHistory == Seq([index : Nat \ {0}, status : Reported])

\* Every variable holds a value of its type.
TypeOK ==
  /\ aborted \in BOOLEAN
  /\ cache \in [Token -> Entry \union {NoEntry}]
  /\ pullAddr \in Addr \union {NoAddr}
  /\ gatewayId \in Gateway \union {NoGateway}
  /\ stats \in Stats
  /\ job \in [Process -> Job \union {Idle}]
  /\ loop \in Loop
  /\ channelOpen \in BOOLEAN
  /\ channel \in Seq(Event)
  /\ pullResp \subseteq PullRespMsg
  /\ txAck \subseteq TxAckMsg
  /\ pullData \subseteq PullDataMsg
  /\ acked \in [DownlinkId -> Seq(Acks)]
  /\ ledger \in Ledger
  /\ home \in Addr
  /\ radio \in [DownlinkId -> EmissionHistory]
  /\ commanded \in [DownlinkId -> Nat]
  /\ budget \in [Occasion -> Nat]

\* Acks in progress at item i of frame d: the items before i failed, and i and
\* the ones after it are still ignored.
InProgress(d, acks, i) ==
  /\ DOMAIN acks = DOMAIN Items[d]
  /\ i \in DOMAIN acks \/ (i = 1 /\ DOMAIN acks = {})
  /\ \A j \in DOMAIN acks : IF j < i THEN acks[j] \in Failure ELSE acks[j] = "IGNORED"

\* An ack the network server may see for frame d: failures, then the status of
\* the last item tried, then items that were not tried; a frame whose last tried
\* item failed has no item left.
WellFormed(d, acks) ==
  /\ DOMAIN acks = DOMAIN Items[d]
  /\ \E i \in DOMAIN acks :
       /\ \A j \in DOMAIN acks : /\ j < i => acks[j] \in Failure
                                 /\ j > i => acks[j] = "IGNORED"
       /\ acks[i] = "OK" \/ (acks[i] \in Failure /\ i = Len(acks))

\* handle_tx_ack copies an entry out of the cache, changes the copy and stores
\* it again later, while tasks overwrite entries: whatever the datagrams do
\* (late, twice, for another frame with the same token), every ack ever queued
\* for the network server is well formed.
AcksWellFormed ==
  \A d \in DownlinkId : \A n \in DOMAIN acked[d] : WellFormed(d, acked[d][n])

\* The same of what is under way: no cache entry and no call mixes the frame of
\* one downlink with the acks or the index of another.
EntriesInProgress ==
  /\ \A k \in Token : cache[k] # NoEntry =>
       /\ TokenOf(cache[k].frame) = k
       /\ InProgress(cache[k].frame, cache[k].acks, cache[k].index)
  /\ \A p \in Process : job[p] # Idle =>
       InProgress(job[p].frame, job[p].acks, job[p].index)

\* ack_items[index] in handle_tx_ack panics, and takes the whole process down,
\* only if the server sent a frame without items whose token is also the token of a frame
\* the forwarder has tried.
AbortsOnlyOnCollision ==
  aborted => \E d, e \in DownlinkId : /\ TokenOf(d) = TokenOf(e)
                                      /\ radio[d] # <<>>
                                      /\ commanded[e] > 0
                                      /\ Len(Items[e]) = 0

\* Every uplink the backend accepted is counted in exactly one report: one that
\* was queued, one that is still to come, or one that was lost with its counters
\* when the metadata, the channel or the process failed.  No report counts a
\* packet twice, and the counters are not lost in any other way.
UplinksCountedOnce ==
  ledger["rx"] + ledger["lostRx"] + PendingRx = ledger["up"] + ledger["refused"]

\* Unless the network duplicates datagrams, the server redelivers a command or
\* two frames share a token, the emissions counted for the reports are emissions
\* that happened: no retry and no repeated handling counts a frame twice.
EmissionsNotOvercounted ==
  ledger["tx"] + ledger["lostTx"] + PendingTx
    <= Cardinality({d \in DownlinkId : \E n \in DOMAIN radio[d] : radio[d][n].status = "OK"})

\* Nothing is lost, expires, moves or restarts: said of the initial state.
Undisturbed == \A o \in {"lose", "expire", "move", "restart"} : budget[o] = 0

\* The receive loop and the tasks never leave the server without an answer on
\* their own account: once an item of a frame whose items all translate has
\* been sent to the forwarder, the frame is acknowledged, through all retries.
DownlinkAnswered ==
  Undisturbed =>
    \A d \in DownlinkId :
      (\A i \in DOMAIN Items[d] : Items[d][i] = "good")
        => ((\E m \in pullResp : m.frame = d) ~> acked[d] # <<>>)

JobOf(p, d) == job[p] # Idle /\ job[p].frame = d

\* Frame d can still be answered: a call is about to store its entry, or it is in a
\* call or on its way to or from the forwarder while there is an entry not expired.
Answerable(d) ==
  \/ \E p \in Process : JobOf(p, d) /\ job[p].step = "store"
  \/ /\ cache[TokenOf(d)] # NoEntry
     /\ ~cache[TokenOf(d)].expired
     /\ \/ \E p \in Process : JobOf(p, d)
        \/ \E m \in pullResp \union txAck : m.frame = d

\* Without duplicates, redelivered commands and token collisions, a frame that can
\* be answered is answered, and is given up only when the publish channel has no
\* room for the answer, the next item does not translate or has no pull address
\* to go to, the forwarder has moved away from the PULL_RESP, or a datagram is
\* lost, an entry expires or the process is restarted: never for what happens to
\* another frame, nor by the counting before the answer (the safety half of
\* DownlinkAnswered).
GivenUpOnlyOnFault ==
  [][\A d \in DownlinkId : Answerable(d) /\ ~Answerable(d)' =>
       \/ acked'[d] # acked[d]
       \/ ~HasRoom /\ \E m \in txAck : m.frame = d
       \/ \E p \in Process : /\ JobOf(p, d)
                             /\ pullAddr = NoAddr \/ ~Translates(d, job[p].index)
       \/ \E m \in pullResp : m.frame = d /\ m.dest # home
       \/ \E o \in {"lose", "expire", "restart"} : budget'[o] < budget[o]]_vars

\* After the forwarder has moved, or the backend was restarted, PULL_RESPs are
\* again sent to where the forwarder is, for good: a PULL_DATA sent before the
\* move and handled late does not keep a stale address.
PullAddrSettles == <>[](pullAddr = home)

\* The promise made about downlinks, with what the forwarder did as outcome.
Delivery == INSTANCE DownlinkDelivery WITH
  NumItems <- [d \in DownlinkId |-> Len(Items[d])],
  outcome  <- [d \in DownlinkId |-> [n \in DOMAIN radio[d] |-> radio[d][n].status]],
  answer   <- acked

\* Without duplicates, redelivered commands and token collisions, the backend
\* and the forwarder keep the promise, whatever is lost, expires, moves or
\* restarts: items in order, none twice, none after a success, one true answer.
DeliverySpec == Delivery!Spec

\* The items of a frame are tried in the order of the frame, which is what lets
\* the position of an outcome stand for its item.
ItemsTriedInOrder ==
  \A d \in DownlinkId : \A n \in DOMAIN radio[d] : radio[d][n].index = n
=============================================================================
