---------------------------- MODULE SemtechProofs ----------------------------
(***************************************************************************)
(* Theorems about the Semtech UDP system, for every set of downlinks,      *)
(* tasks and datagrams, every number of tokens and every budget of faults. *)
(***************************************************************************)
EXTENDS SemtechSystem, FiniteSetTheorems, TLAPS

-----------------------------------------------------------------------------
(* Facts about the operators.                                               *)

\* The positions count_downlink counts are finitely many.
LEMMA CountedFinite ==
  ASSUME NEW acks \in Acks, NEW S \in SUBSET DOMAIN acks
  PROVE  Cardinality(S) \in Nat
<1>1. DOMAIN acks = 1 .. Len(acks) /\ Len(acks) \in Nat
  BY DEF Acks
<1>2. IsFiniteSet(1 .. Len(acks))
  BY <1>1, FS_Interval
<1>3. IsFiniteSet(S)
  BY <1>1, <1>2, FS_Subset
<1> QED
  BY <1>3, FS_CardinalityType

\* Counting an acknowledgement keeps the counters counters.
LEMMA CountDownlinkType ==
  ASSUME NEW st \in Stats, NEW items, NEW acks \in Acks
  PROVE  CountDownlink(st, items, acks) \in Stats
<1>1. Counted(items, acks) \subseteq DOMAIN acks
  BY DEF Counted
<1>2. Emitted(items, acks) \subseteq DOMAIN acks
  BY <1>1 DEF Emitted
<1>3. Cardinality(Emitted(items, acks)) \in Nat
  BY <1>2, CountedFinite
<1>4. \A s \in Reported : Cardinality({i \in Counted(items, acks) : acks[i] = s}) \in Nat
  <2> TAKE s \in Reported
  <2> QED
    BY <1>1, CountedFinite
<1> DEFINE status == [s \in Reported |->
                        st.status[s] + Cardinality({i \in Counted(items, acks) : acks[i] = s})]
<1>5. status \in [Reported -> Nat]
  BY <1>4 DEF Stats
<1> QED
  BY <1>3, <1>5, SMT DEF CountDownlink, Stats

\* Tokens of downlink ids are tokens.
LEMMA TokenOfType == ASSUME NEW d \in DownlinkId PROVE TokenOf(d) \in Token
  BY SemtechUdpAssumption DEF TokenOf, Token

\* Dropping expired entries leaves a cache, whose entries are entries of the old one.
LEMMA CleanedCacheType ==
  ASSUME TypeOK
  PROVE  /\ CleanedCache \in [Token -> Entry \union {NoEntry}]
         /\ \A k \in Token : CleanedCache[k] # NoEntry => CleanedCache[k] = cache[k]
  BY DEF TypeOK, CleanedCache

-----------------------------------------------------------------------------
(* Type correctness.                                                        *)

LEMMA InitType == Init => TypeOK
<1> SUFFICES ASSUME Init PROVE TypeOK
  OBVIOUS
<1> USE SemtechUdpAssumption, SemtechSystemAssumption
     DEF Init, UdpInit
<1>1. stats \in Stats
  BY DEF Stats, ZeroStats
<1>2. ledger \in Ledger
  BY DEF Ledger, Account
<1>3. acked \in [DownlinkId -> Seq(Acks)] /\ radio \in [DownlinkId -> EmissionHistory]
  BY DEF EmissionHistory
<1>4. loop \in Loop /\ channel \in Seq(Event)
  BY DEF Loop
<1> QED
  BY <1>1, <1>2, <1>3, <1>4 DEF TypeOK

\* Adding to an account of the ledger leaves a ledger.
LEMMA LedgerType ==
  ASSUME NEW l \in Ledger, NEW n \in Nat, NEW a \in Account
  PROVE  [l EXCEPT ![a] = @ + n] \in Ledger
  BY DEF Ledger

\* A call of send_downlink_frame, by a task with a new command or by the loop.
LEMMA NewJobType ==
  ASSUME NEW d \in DownlinkId, NEW acks \in Acks, NEW i \in Nat \ {0}
  PROVE  NewJob(d, acks, i) \in Job
  BY DEF NewJob, JobAt, Job

LEMMA IgnoredType ==
  ASSUME NEW d \in DownlinkId
  PROVE  [i \in DOMAIN Items[d] |-> "IGNORED"] \in Acks
<1>1. Items[d] \in Seq(ItemKind)
  BY SemtechUdpAssumption
<1>2. DOMAIN Items[d] = 1 .. Len(Items[d]) /\ Len(Items[d]) \in Nat
  BY <1>1
<1>3. [i \in 1 .. Len(Items[d]) |-> "IGNORED"] \in Seq(AckStatus)
  BY <1>2 DEF AckStatus
<1> QED
  BY <1>2, <1>3 DEF Acks

LEMMA DeliverCommandType ==
  ASSUME TypeOK, NEW t \in Task, NEW d \in DownlinkId, DeliverCommand(t, d)
  PROVE  TypeOK'
<1>1. job' \in [Process -> Job \union {Idle}]
  <2>1. NewJob(d, [i \in DOMAIN Items[d] |-> "IGNORED"], 1) \in Job
    BY IgnoredType, NewJobType
  <2> QED
    BY <2>1 DEF TypeOK, DeliverCommand, SendDownlinkFrame
<1>2. commanded' \in [DownlinkId -> Nat]
  BY DEF TypeOK, DeliverCommand
<1>3. budget' \in [Occasion -> Nat]
  BY DEF TypeOK, DeliverCommand, Spend, Occasion
<1> QED
  BY <1>1, <1>2, <1>3
  DEF TypeOK, DeliverCommand, SendDownlinkFrame, stateVars, channelVars, networkVars

LEMMA SendStepType ==
  ASSUME TypeOK, NEW p \in Process, SendStep(p)
  PROVE  TypeOK'
<1> USE DEF TypeOK, SendStep, stateVars, channelVars, networkVars, environmentVars
<1>1. job[p] # Idle => job[p] \in Job
  OBVIOUS
<1>2. CASE SetDownlinkCache(p)
  <2>1. job[p] \in Job
    BY <1>1, <1>2 DEF SetDownlinkCache
  <2>2. [frame |-> job[p].frame, acks |-> job[p].acks, index |-> job[p].index,
         expired |-> FALSE] \in Entry
    BY <2>1 DEF Job, Entry
  <2>3. cache' \in [Token -> Entry \union {NoEntry}]
    BY <1>2, <2>2 DEF SetDownlinkCache
  <2>4. job' \in [Process -> Job \union {Idle}]
    BY <1>2, <2>1 DEF SetDownlinkCache, Job, JobAt
  <2> QED
    BY <1>2, <2>3, <2>4 DEF SetDownlinkCache
<1>3. CASE TransmitPullResp(p)
  <2>1. job[p] \in Job
    BY <1>1, <1>3 DEF TransmitPullResp
  <2>2. TokenOf(job[p].frame) \in Token
    BY <2>1, TokenOfType DEF Job
  <2>3. pullAddr # NoAddr =>
          [dest |-> pullAddr, token |-> TokenOf(job[p].frame), frame |-> job[p].frame,
           index |-> job[p].index, copy |-> FALSE] \in PullRespMsg
    BY <2>1, <2>2 DEF Job, PullRespMsg
  <2>4. pullResp' \subseteq PullRespMsg
    BY <1>3, <2>3 DEF TransmitPullResp
  <2>5. job' \in [Process -> Job \union {Idle}]
    BY <1>3 DEF TransmitPullResp
  <2> QED
    BY <1>3, <2>4, <2>5 DEF TransmitPullResp
<1> QED
  BY <1>2, <1>3

\* The entry a TX_ACK finds, with the status written at its index.
LEMMA WithStatusType ==
  ASSUME NEW e \in Entry, NEW s \in Reported
  PROVE  WithStatus(e, s) \in Acks
<1>1. e.acks \in Seq(AckStatus) /\ s \in AckStatus
  BY DEF Entry, Acks, AckStatus
<1> DEFINE n == Len(e.acks)
<1>2. n \in Nat /\ e.acks \in [1 .. n -> AckStatus]
  BY <1>1
<1>3. WithStatus(e, s) \in [1 .. n -> AckStatus]
  BY <1>1, <1>2 DEF WithStatus
<1> QED
  BY <1>2, <1>3 DEF Acks

LEMMA ReceiveTxAckType ==
  ASSUME TypeOK, NEW m \in txAck, ReceiveTxAck(m)
  PROVE  TypeOK'
<1> DEFINE e == CleanedCache[m.token]
<1> USE DEF TypeOK, ReceiveTxAck, LooksUp, stateVars, channelVars, networkVars, environmentVars
<1>1. m \in TxAckMsg /\ m.token \in Token /\ m.status \in Reported
  BY DEF TxAckMsg
<1>2. /\ CleanedCache \in [Token -> Entry \union {NoEntry}]
      /\ e # NoEntry => e \in Entry
  BY <1>1, CleanedCacheType
<1> HIDE DEF e
<1>3. CASE TxAckUnknown(m)
  BY <1>2, <1>3 DEF TxAckUnknown
<1>4. CASE e # NoEntry /\ TxAckPanic(m, e)
  BY <1>2, <1>4 DEF TxAckPanic
<1>5. CASE e # NoEntry /\ TxAckFinal(m, e)
  <2>1. WithStatus(e, m.status) \in Acks
    BY <1>1, <1>2, <1>5, WithStatusType
  <2>2. stats' \in Stats
    BY <1>5, <2>1, CountDownlinkType DEF TxAckFinal
  <2>3. channel' \in Seq(Event)
    <3>1. [type |-> "ack"] \in Event
      BY DEF Event
    <3>2. CASE channel' = Append(channel, [type |-> "ack"])
      BY <3>1, <3>2
    <3>3. CASE channel' = channel
      BY <3>3
    <3> QED
      BY <1>5, <3>2, <3>3 DEF TxAckFinal
  <2>4. acked' \in [DownlinkId -> Seq(Acks)]
    <3>1. e.frame \in DownlinkId
      BY <1>2, <1>5 DEF Entry
    <3>2. CASE acked' = acked
      BY <3>2
    <3>3. CASE acked' = [acked EXCEPT ![e.frame] = Append(@, WithStatus(e, m.status))]
      <4>1. Append(acked[e.frame], WithStatus(e, m.status)) \in Seq(Acks)
        BY <2>1, <3>1
      <4> QED
        BY <3>3, <4>1
    <3> QED
      BY <1>5, <3>2, <3>3 DEF TxAckFinal
  <2> QED
    BY <1>2, <1>5, <2>2, <2>3, <2>4 DEF TxAckFinal
<1>6. CASE e # NoEntry /\ TxAckRetry(m, e)
  <2>1. WithStatus(e, m.status) \in Acks
    BY <1>1, <1>2, <1>6, WithStatusType
  <2>2. NewJob(e.frame, WithStatus(e, m.status), e.index + 1) \in Job
    <3>1. e.frame \in DownlinkId /\ e.index + 1 \in Nat \ {0}
      BY <1>2, <1>6 DEF Entry
    <3> QED
      BY <2>1, <3>1, NewJobType
  <2>3. job' \in [Process -> Job \union {Idle}]
    BY <1>6, <2>2 DEF TxAckRetry
  <2> QED
    BY <1>2, <1>6, <2>3 DEF TxAckRetry
<1> QED
  BY <1>3, <1>4, <1>5, <1>6 DEF HandleTxAck, e

LEMMA PushType ==
  ASSUME TypeOK, PushStep \/ ReportStats \/ (\E m \in PushData : ReceivePushData(m))
  PROVE  TypeOK'
<1> USE DEF TypeOK, stateVars, channelVars, networkVars, environmentVars
<1>1. loop.at = "frames" =>
        loop \in [at : {"frames"}, frames : Seq(UplinkFrame), stat : BOOLEAN]
  BY DEF Loop, Receiving
<1>2. loop.at = "metadata" => loop \in [at : {"metadata"}, report : Stats]
  BY DEF Loop, Receiving
<1>3. Receiving \in Loop
  BY DEF Loop
<1>4. ASSUME NEW m \in PushData, ReceivePushData(m)
      PROVE  TypeOK'
  <2>1. m \in PushDataMsg
    BY SemtechSystemAssumption
  <2>2. loop' \in Loop
    BY <1>3, <1>4, <2>1 DEF ReceivePushData, HandlePushData, PushDataMsg, Loop
  <2>3. budget' \in [Occasion -> Nat]
    BY <1>4 DEF ReceivePushData, Spend, Occasion
  <2> QED
    BY <1>4, <2>2, <2>3 DEF ReceivePushData, HandlePushData
<1>5. NextFrame \in Loop \/ loop.at # "frames" \/ loop.frames = <<>>
  <2> SUFFICES ASSUME loop.at = "frames", loop.frames # <<>> PROVE NextFrame \in Loop
    OBVIOUS
  <2>1. Tail(loop.frames) \in Seq(UplinkFrame)
    BY <1>1
  <2> QED
    BY <1>1, <2>1 DEF NextFrame, Loop
<1>6. CASE IgnoreFrame /\ UNCHANGED environmentVars
  BY <1>5, <1>6 DEF IgnoreFrame, InFrames
<1>7. CASE ForwardFrame /\ UNCHANGED environmentVars
  <2>1. stats' \in Stats
    BY <1>7 DEF ForwardFrame, CountUplink, Stats
  <2>2. loop' \in Loop
    BY <1>3, <1>5, <1>7 DEF ForwardFrame, InFrames
  <2>3. ledger' \in Ledger
    BY <1>7 DEF ForwardFrame, Ledger, Account
  <2>4. channel' \in Seq(Event)
    <3>1. [type |-> "up"] \in Event
      BY DEF Event
    <3>2. CASE channel' = Append(channel, [type |-> "up"])
      BY <3>1, <3>2
    <3>3. CASE channel' = channel
      BY <3>3
    <3> QED
      BY <1>7, <3>2, <3>3 DEF ForwardFrame
  <2> QED
    BY <1>7, <2>1, <2>2, <2>3, <2>4 DEF ForwardFrame
<1>8. CASE ExportStats /\ UNCHANGED environmentVars
  <2>1. ZeroStats \in Stats
    BY DEF ZeroStats, Stats
  <2>2. loop' \in Loop
    BY <1>3, <1>8 DEF ExportStats, Loop
  <2> QED
    BY <1>8, <2>1, <2>2 DEF ExportStats
<1>9. ASSUME NEW ok \in BOOLEAN, SendGatewayStats(ok), budget' \in [Occasion -> Nat],
             UNCHANGED <<home, radio, commanded>>
      PROVE  TypeOK'
  <2>1. loop.report \in Stats
    BY <1>2, <1>9 DEF SendGatewayStats
  <2>2. loop.report.rx \in Nat /\ loop.report.tx \in Nat
    BY <2>1 DEF Stats
  <2>3. ledger' \in Ledger
    <3>1. \A a, b \in Account :
            [[ledger EXCEPT ![a] = @ + loop.report.rx] EXCEPT ![b] = @ + loop.report.tx]
              \in Ledger
      BY <2>2, LedgerType
    <3>2. \/ ledger' = [[ledger EXCEPT !["rx"] = @ + loop.report.rx]
                                EXCEPT !["tx"] = @ + loop.report.tx]
          \/ ledger' = [[ledger EXCEPT !["lostRx"] = @ + loop.report.rx]
                                EXCEPT !["lostTx"] = @ + loop.report.tx]
      BY <1>9 DEF SendGatewayStats
    <3> QED
      BY <3>1, <3>2 DEF Account
  <2>4. channel' \in Seq(Event)
    <3> DEFINE event == [type |-> "stats", rx |-> loop.report.rx, tx |-> loop.report.tx]
    <3>1. event \in Event
      BY <2>2 DEF Event
    <3>2. CASE channel' = Append(channel, event)
      BY <3>1, <3>2
    <3>3. CASE channel' = channel
      BY <3>3
    <3> QED
      BY <1>9, <3>2, <3>3 DEF SendGatewayStats
  <2> QED
    BY <1>3, <1>9, <2>3, <2>4 DEF SendGatewayStats
<1>10. CASE ReportStats
  <2>1. CASE SendGatewayStats(TRUE) /\ UNCHANGED environmentVars
    BY <1>9, <2>1
  <2>2. CASE SendGatewayStats(FALSE) /\ Spend("metadata") /\ UNCHANGED <<home, radio, commanded>>
    <3>1. budget' \in [Occasion -> Nat]
      BY <2>2 DEF Spend, Occasion
    <3> QED
      BY <1>9, <2>2, <3>1
  <2> QED
    BY <1>10, <2>1, <2>2 DEF ReportStats
<1> QED
  BY <1>4, <1>6, <1>7, <1>8, <1>10 DEF PushStep

LEMMA ForwarderType ==
  ASSUME TypeOK,
         \/ StartClient
         \/ Consume
         \/ \E m \in pullData : ReceivePullData(m)
         \/ \E g \in Gateway : SendPullData(g)
         \/ \E m \in pullResp, s \in Reported : EmitPullResp(m, s)
         \/ \E m \in pullResp : MisdirectPullResp(m)
  PROVE  TypeOK'
<1> USE DEF TypeOK, stateVars, channelVars, networkVars, environmentVars
<1>0. CASE StartClient
  BY <1>0 DEF StartClient, OpenChannel
<1>1. CASE Consume
  BY <1>1 DEF Consume, TakeEvent
<1>2. ASSUME NEW m \in pullData, ReceivePullData(m) PROVE TypeOK'
  <2>1. m.gateway \in Gateway /\ m.from \in Addr
    BY DEF PullDataMsg
  <2> QED
    BY <1>2, <2>1 DEF ReceivePullData, HandlePullData
<1>3. ASSUME NEW g \in Gateway, SendPullData(g) PROVE TypeOK'
  <2>1. [from |-> home, gateway |-> g] \in PullDataMsg
    BY DEF PullDataMsg
  <2> QED
    BY <1>3, <2>1 DEF SendPullData
<1>4. ASSUME NEW m \in pullResp, NEW s \in Reported, EmitPullResp(m, s) PROVE TypeOK'
  <2>1. /\ m.token \in Token /\ m.frame \in DownlinkId
        /\ m.index \in Nat \ {0} /\ m.copy \in BOOLEAN
    BY DEF PullRespMsg
  <2>2. [token |-> m.token, status |-> s, frame |-> m.frame, index |-> m.index,
         copy |-> m.copy] \in TxAckMsg
    BY <2>1 DEF TxAckMsg
  <2>3. Append(radio[m.frame], [index |-> m.index, status |-> s]) \in EmissionHistory
    <3>1. [index |-> m.index, status |-> s] \in [index : Nat \ {0}, status : Reported]
      BY <2>1
    <3>2. radio[m.frame] \in Seq([index : Nat \ {0}, status : Reported])
      BY <2>1 DEF EmissionHistory
    <3> QED
      BY <3>1, <3>2 DEF EmissionHistory
  <2>4. radio' \in [DownlinkId -> EmissionHistory]
    BY <1>4, <2>3 DEF EmitPullResp
  <2> QED
    BY <1>4, <2>2, <2>4 DEF EmitPullResp
<1>5. ASSUME NEW m \in pullResp, MisdirectPullResp(m) PROVE TypeOK'
  BY <1>5 DEF MisdirectPullResp
<1> QED
  BY <1>0, <1>1, <1>2, <1>3, <1>4, <1>5

LEMMA FaultType ==
  ASSUME TypeOK,
         Lose \/ Duplicate \/ Expire \/ (\E a \in Addr : Move(a)) \/ StartAgain
  PROVE  TypeOK'
<1> USE DEF TypeOK, stateVars, channelVars, networkVars
<1>1. ASSUME NEW o \in Occasion, Spend(o) PROVE budget' \in [Occasion -> Nat]
  BY <1>1 DEF Spend
<1>2. {"lose", "duplicate", "expire", "move", "restart"} \subseteq Occasion
  BY DEF Occasion
<1>3. CASE Lose
  BY <1>1, <1>2, <1>3 DEF Lose
<1>4. CASE Duplicate
  <2>1. \A m \in pullResp : [m EXCEPT !.copy = TRUE] \in PullRespMsg
    BY DEF PullRespMsg
  <2>2. \A m \in txAck : [m EXCEPT !.copy = TRUE] \in TxAckMsg
    BY DEF TxAckMsg
  <2> QED
    BY <1>1, <1>2, <1>4, <2>1, <2>2 DEF Duplicate
<1>5. CASE Expire
  <2> PICK k \in Token : ExpireEntry(k)
    BY <1>5 DEF Expire
  <2>1. cache[k] \in Entry
    BY DEF ExpireEntry
  <2>2. cache' \in [Token -> Entry \union {NoEntry}]
    BY <2>1 DEF ExpireEntry, Entry
  <2> QED
    BY <1>1, <1>2, <1>5, <2>2 DEF Expire, ExpireEntry
<1>6. ASSUME NEW a \in Addr, Move(a) PROVE TypeOK'
  BY <1>1, <1>2, <1>6 DEF Move, udpVars
<1>7. CASE StartAgain
  <2>1. budget' \in [Occasion -> Nat]
    BY <1>1, <1>2, <1>7 DEF StartAgain
  <2>2. stats' \in Stats
    BY <1>7 DEF StartAgain, Restart, ZeroStats, Stats
  <2>3. PendingRx \in Nat /\ PendingTx \in Nat
    BY DEF PendingRx, PendingTx, Loop, Receiving, Stats
  <2>4. ledger' \in Ledger
    <3> USE DEF Account
    <3>1. [ledger EXCEPT !["lostRx"] = @ + PendingRx] \in Ledger
      BY <2>3, LedgerType
    <3>2. [[ledger EXCEPT !["lostRx"] = @ + PendingRx] EXCEPT !["lostTx"] = @ + PendingTx]
            \in Ledger
      BY <2>3, <3>1, LedgerType
    <3> QED
      BY <1>7, <3>2 DEF StartAgain, Restart
  <2>5. loop' \in Loop /\ channel' \in Seq(Event)
    BY <1>7 DEF StartAgain, Restart, Loop
  <2>6. gatewayId' \in Gateway \union {NoGateway}
    BY <1>7, SemtechUdpAssumption DEF StartAgain, Restart
  <2> QED
    BY <1>7, <2>1, <2>2, <2>4, <2>5, <2>6 DEF StartAgain, Restart
<1> QED
  BY <1>3, <1>4, <1>5, <1>6, <1>7

LEMMA NextType == TypeOK /\ [Next]_vars => TypeOK'
<1> SUFFICES ASSUME TypeOK, [Next]_vars PROVE TypeOK'
  OBVIOUS
<1>1. CASE Next
  BY <1>1, DeliverCommandType, SendStepType, ReceiveTxAckType, PushType, ForwarderType, FaultType
  DEF Next
<1>2. CASE UNCHANGED vars
  BY <1>2 DEF TypeOK, vars, udpVars, stateVars, channelVars, networkVars, environmentVars
<1> QED
  BY <1>1, <1>2

\* The backend, the forwarder and the network only ever hold values of their
\* types: in particular, every token indexes the cache and every job and entry
\* is about a downlink with an index.
THEOREM TypeCorrect == Spec => []TypeOK
<1> QED
  BY InitType, NextType, PTL DEF Spec

-----------------------------------------------------------------------------
(* Well-formed acknowledgements.                                            *)

\* Which steps touch the cache, the calls and the acks, and how.
LEMMA OtherSteps ==
  ASSUME [Next]_vars
  PROVE  \/ \E t \in Task, d \in DownlinkId : DeliverCommand(t, d)
         \/ \E p \in Process : SendStep(p)
         \/ \E m \in txAck : ReceiveTxAck(m)
         \/ Expire
         \/ StartAgain
         \/ UNCHANGED <<cache, job, acked>>
<1> USE DEF stateVars, channelVars, networkVars, environmentVars
<1>1. ASSUME NEW m \in pullData, ReceivePullData(m) PROVE UNCHANGED <<cache, job, acked>>
  BY <1>1 DEF ReceivePullData, HandlePullData
<1>2. ASSUME NEW m \in PushData, ReceivePushData(m) PROVE UNCHANGED <<cache, job, acked>>
  BY <1>2 DEF ReceivePushData, HandlePushData
<1>3. PushStep => UNCHANGED <<cache, job, acked>>
  BY DEF PushStep, IgnoreFrame, ForwardFrame, ExportStats
<1>4. ReportStats => UNCHANGED <<cache, job, acked>>
  BY DEF ReportStats, SendGatewayStats
<1>5. StartClient \/ Consume => UNCHANGED <<cache, job, acked>>
  BY DEF StartClient, OpenChannel, Consume, TakeEvent
<1>6. ASSUME NEW g \in Gateway, SendPullData(g) PROVE UNCHANGED <<cache, job, acked>>
  BY <1>6 DEF SendPullData
<1>7. ASSUME NEW m \in pullResp, NEW s \in Reported, EmitPullResp(m, s)
      PROVE  UNCHANGED <<cache, job, acked>>
  BY <1>7 DEF EmitPullResp
<1>8. ASSUME NEW m \in pullResp, MisdirectPullResp(m) PROVE UNCHANGED <<cache, job, acked>>
  BY <1>8 DEF MisdirectPullResp
<1>9. Lose \/ Duplicate => UNCHANGED <<cache, job, acked>>
  BY DEF Lose, Duplicate
<1>10. ASSUME NEW a \in Addr, Move(a) PROVE UNCHANGED <<cache, job, acked>>
  BY <1>10 DEF Move, udpVars
<1>11. UNCHANGED vars => UNCHANGED <<cache, job, acked>>
  BY DEF vars, udpVars
<1> QED
  BY <1>1, <1>2, <1>3, <1>4, <1>5, <1>6, <1>7, <1>8, <1>9, <1>10, <1>11 DEF Next

\* A new call is in progress at the first item, also when there is none.
LEMMA IgnoredInProgress ==
  ASSUME NEW d \in DownlinkId
  PROVE  InProgress(d, [i \in DOMAIN Items[d] |-> "IGNORED"], 1)
<1>1. DOMAIN Items[d] = 1 .. Len(Items[d]) /\ Len(Items[d]) \in Nat
  BY SemtechUdpAssumption
<1>2. 1 \in DOMAIN Items[d] \/ DOMAIN Items[d] = {}
  BY <1>1
<1>3. \A j \in DOMAIN Items[d] : ~(j < 1)
  BY <1>1
<1> QED
  BY <1>2, <1>3 DEF InProgress

\* Writing a failure at the index of acks in progress, when there is another
\* item, leaves acks in progress at that item.
LEMMA RetryInProgress ==
  ASSUME NEW e \in Entry, NEW s \in Reported,
         InProgress(e.frame, e.acks, e.index), e.index \in DOMAIN e.acks, ~IsFinal(e, s)
  PROVE  InProgress(e.frame, WithStatus(e, s), e.index + 1)
<1>1. s \in Failure
  BY DEF IsFinal, Reported
<1>2. /\ e.acks \in Seq(AckStatus) /\ e.index \in Nat
      /\ DOMAIN e.acks = 1 .. Len(e.acks) /\ Len(e.acks) \in Nat
      /\ e.index < Len(e.acks)
  BY DEF Entry, Acks, IsFinal
<1>3. DOMAIN WithStatus(e, s) = DOMAIN e.acks
  BY DEF WithStatus
<1>4. e.index + 1 \in DOMAIN e.acks
  BY <1>2
<1>5. ASSUME NEW j \in DOMAIN e.acks
      PROVE  IF j < e.index + 1 THEN WithStatus(e, s)[j] \in Failure
                                ELSE WithStatus(e, s)[j] = "IGNORED"
  <2>1. j \in Nat
    BY <1>2
  <2>2. CASE j = e.index
    BY <1>1, <1>2, <2>2 DEF WithStatus
  <2>3. CASE j # e.index
    <3>1. WithStatus(e, s)[j] = e.acks[j]
      BY <2>3 DEF WithStatus
    <3>2. j < e.index + 1 <=> j < e.index
      BY <1>2, <2>1, <2>3
    <3> QED
      BY <3>1, <3>2 DEF InProgress
  <2> QED
    BY <2>2, <2>3
<1> QED
  BY <1>3, <1>4, <1>5 DEF InProgress

\* Writing a final status gives an ack that is well formed.
LEMMA FinalWellFormed ==
  ASSUME NEW e \in Entry, NEW s \in Reported,
         InProgress(e.frame, e.acks, e.index), e.index \in DOMAIN e.acks, IsFinal(e, s)
  PROVE  WellFormed(e.frame, WithStatus(e, s))
<1>1. /\ e.acks \in Seq(AckStatus) /\ e.index \in Nat
      /\ DOMAIN e.acks = 1 .. Len(e.acks) /\ Len(e.acks) \in Nat
  BY DEF Entry, Acks
<1>2. DOMAIN WithStatus(e, s) = DOMAIN e.acks
  BY DEF WithStatus
<1>3. WithStatus(e, s) \in Seq(AckStatus)
  BY WithStatusType DEF Acks
<1>4. Len(WithStatus(e, s)) = Len(e.acks)
  BY <1>1, <1>2, <1>3
<1>5. WithStatus(e, s)[e.index] = s
  BY DEF WithStatus
<1>6. s = "OK" \/ (s \in Failure /\ e.index = Len(WithStatus(e, s)))
  BY <1>1, <1>4 DEF IsFinal, Reported
<1>7. ASSUME NEW j \in DOMAIN e.acks
      PROVE  /\ j < e.index => WithStatus(e, s)[j] \in Failure
             /\ j > e.index => WithStatus(e, s)[j] = "IGNORED"
  <2>1. j # e.index => WithStatus(e, s)[j] = e.acks[j]
    BY DEF WithStatus
  <2>2. j \in Nat
    BY <1>1
  <2> QED
    BY <1>1, <2>1, <2>2 DEF InProgress
<1> QED
  BY <1>2, <1>5, <1>6, <1>7 DEF WellFormed, InProgress

\* The inductive invariant behind AcksWellFormed.
AckInv == TypeOK /\ EntriesInProgress /\ AcksWellFormed

LEMMA AckInvNext == AckInv /\ [Next]_vars => AckInv'
<1> SUFFICES ASSUME AckInv, [Next]_vars PROVE AckInv'
  OBVIOUS
<1>1. TypeOK'
  BY NextType DEF AckInv
<1> USE DEF AckInv, stateVars, channelVars, networkVars, environmentVars
<1>2. ASSUME NEW t \in Task, NEW d \in DownlinkId, DeliverCommand(t, d)
      PROVE  EntriesInProgress' /\ AcksWellFormed'
  <2> DEFINE new == NewJob(d, [i \in DOMAIN Items[d] |-> "IGNORED"], 1)
  <2>1. UNCHANGED <<cache, acked>> /\ job' = [job EXCEPT ![t] = new]
    BY <1>2 DEF DeliverCommand, SendDownlinkFrame
  <2>2. InProgress(new.frame, new.acks, new.index)
    BY IgnoredInProgress DEF NewJob, JobAt
  <2> HIDE DEF new
  <2>3. \A p \in Process : job'[p] = job[p] \/ job'[p] = new
    BY <2>1 DEF TypeOK
  <2> QED
    BY <2>1, <2>2, <2>3 DEF EntriesInProgress, AcksWellFormed
<1>3. ASSUME NEW p \in Process, SendStep(p)
      PROVE  EntriesInProgress' /\ AcksWellFormed'
  <2>1. CASE SetDownlinkCache(p)
    <3> DEFINE d == job[p].frame
               entry == [frame |-> d, acks |-> job[p].acks, index |-> job[p].index,
                         expired |-> FALSE]
               next == JobAt("transmit", d, job[p].acks, job[p].index)
    <3>1. /\ job[p] # Idle
          /\ cache' = [cache EXCEPT ![TokenOf(d)] = entry]
          /\ job' = [job EXCEPT ![p] = next]
          /\ acked' = acked
      BY <2>1 DEF SetDownlinkCache
    <3>2. InProgress(d, job[p].acks, job[p].index)
      BY <3>1 DEF EntriesInProgress
    <3>3. /\ InProgress(entry.frame, entry.acks, entry.index)
          /\ InProgress(next.frame, next.acks, next.index)
          /\ entry.frame = d
      BY <3>2 DEF JobAt
    <3> HIDE DEF entry, next, d
    <3>4. \A k \in Token : cache'[k] = cache[k] \/ (k = TokenOf(d) /\ cache'[k] = entry)
      BY <3>1 DEF TypeOK
    <3>5. \A q \in Process : job'[q] = job[q] \/ job'[q] = next
      BY <3>1 DEF TypeOK
    <3> QED
      BY <3>1, <3>3, <3>4, <3>5 DEF EntriesInProgress, AcksWellFormed
  <2>2. CASE TransmitPullResp(p)
    <3>1. UNCHANGED <<cache, acked>> /\ job' = [job EXCEPT ![p] = Idle]
      BY <2>2 DEF TransmitPullResp
    <3>2. \A q \in Process : job'[q] = job[q] \/ job'[q] = Idle
      BY <3>1 DEF TypeOK
    <3> QED
      BY <3>1, <3>2 DEF EntriesInProgress, AcksWellFormed
  <2> QED
    BY <1>3, <2>1, <2>2 DEF SendStep
<1>4. ASSUME NEW m \in txAck, ReceiveTxAck(m)
      PROVE  EntriesInProgress' /\ AcksWellFormed'
  <2> DEFINE e == CleanedCache[m.token]
  <2>1. m.token \in Token /\ m.status \in Reported
    BY DEF TypeOK, TxAckMsg
  <2>2. /\ cache' = CleanedCache
        /\ \A k \in Token : CleanedCache[k] # NoEntry => CleanedCache[k] = cache[k]
    BY <1>4, CleanedCacheType
    DEF ReceiveTxAck, HandleTxAck, TxAckUnknown, TxAckPanic, TxAckFinal, TxAckRetry, LooksUp
  <2>3. e # NoEntry => e \in Entry /\ InProgress(e.frame, e.acks, e.index)
    BY <2>1, <2>2 DEF EntriesInProgress, TypeOK
  <2> HIDE DEF e
  <2>4. \A k \in Token : cache'[k] # NoEntry =>
          TokenOf(cache'[k].frame) = k /\ InProgress(cache'[k].frame, cache'[k].acks, cache'[k].index)
    BY <2>2 DEF EntriesInProgress
  <2>5. CASE UNCHANGED <<job, acked>>
    BY <2>4, <2>5 DEF EntriesInProgress, AcksWellFormed
  <2>6. CASE e # NoEntry /\ TxAckFinal(m, e)
    <3> DEFINE acks == WithStatus(e, m.status)
    <3>1. WellFormed(e.frame, acks) /\ acks \in Acks
      BY <2>1, <2>3, <2>6, FinalWellFormed, WithStatusType DEF TxAckFinal
    <3>2. e.frame \in DownlinkId
      BY <2>3, <2>6 DEF Entry
    <3> HIDE DEF acks
    <3>3. job' = job /\ (acked' = acked \/ acked' = [acked EXCEPT ![e.frame] = Append(@, acks)])
      BY <2>6 DEF TxAckFinal, acks
    <3>4. AcksWellFormed'
      <4>1. CASE acked' = [acked EXCEPT ![e.frame] = Append(@, acks)]
        <5> SUFFICES ASSUME NEW d \in DownlinkId, NEW n \in DOMAIN acked'[d]
                     PROVE  WellFormed(d, acked'[d][n])
          BY DEF AcksWellFormed
        <5>1. acked[d] \in Seq(Acks)
          BY DEF TypeOK
        <5>2. CASE d = e.frame
          <6>1. acked'[d] = Append(acked[d], acks)
            BY <3>2, <4>1, <5>2 DEF TypeOK
          <6>2. \/ n \in DOMAIN acked[d] /\ acked'[d][n] = acked[d][n]
                \/ acked'[d][n] = acks
            BY <3>1, <5>1, <6>1
          <6> QED
            BY <3>1, <5>2, <6>2 DEF AcksWellFormed
        <5>3. CASE d # e.frame
          <6>1. acked'[d] = acked[d]
            BY <4>1, <5>3 DEF TypeOK
          <6> QED
            BY <6>1 DEF AcksWellFormed
        <5> QED
          BY <5>2, <5>3
      <4>2. CASE acked' = acked
        BY <4>2 DEF AcksWellFormed
      <4> QED
        BY <3>3, <4>1, <4>2
    <3> QED
      BY <2>4, <3>3, <3>4 DEF EntriesInProgress
  <2>7. CASE e # NoEntry /\ TxAckRetry(m, e)
    <3> DEFINE new == NewJob(e.frame, WithStatus(e, m.status), e.index + 1)
    <3>1. InProgress(new.frame, new.acks, new.index)
      BY <2>1, <2>3, <2>7, RetryInProgress DEF TxAckRetry, NewJob, JobAt
    <3>2. acked' = acked /\ job' = [job EXCEPT ![UdpLoop] = new]
      BY <2>7 DEF TxAckRetry
    <3> HIDE DEF new
    <3>3. \A q \in Process : job'[q] = job[q] \/ job'[q] = new
      BY <3>2 DEF TypeOK
    <3> QED
      BY <2>4, <3>1, <3>2, <3>3 DEF EntriesInProgress, AcksWellFormed
  <2> QED
    BY <1>4, <2>5, <2>6, <2>7
    DEF ReceiveTxAck, HandleTxAck, TxAckUnknown, TxAckPanic, e
<1>5. ASSUME Expire PROVE EntriesInProgress' /\ AcksWellFormed'
  <2> PICK k \in Token : ExpireEntry(k)
    BY <1>5 DEF Expire
  <2>1. UNCHANGED <<job, acked>>
    BY DEF ExpireEntry
  <2>2. cache[k] \in Entry
    BY DEF ExpireEntry, TypeOK
  <2>3. /\ cache'[k].frame = cache[k].frame /\ cache'[k].acks = cache[k].acks
        /\ cache'[k].index = cache[k].index
    BY <2>2 DEF ExpireEntry, TypeOK, Entry
  <2>4. \A j \in Token : j # k => cache'[j] = cache[j]
    BY DEF ExpireEntry, TypeOK
  <2>5. cache[k] # NoEntry
    BY DEF ExpireEntry
  <2> QED
    BY <2>1, <2>3, <2>4, <2>5 DEF EntriesInProgress, AcksWellFormed
<1>6. ASSUME StartAgain PROVE EntriesInProgress' /\ AcksWellFormed'
  BY <1>6 DEF StartAgain, Restart, EntriesInProgress, AcksWellFormed
<1>7. ASSUME UNCHANGED <<cache, job, acked>> PROVE EntriesInProgress' /\ AcksWellFormed'
  BY <1>7 DEF EntriesInProgress, AcksWellFormed
<1> QED
  BY <1>1, <1>2, <1>3, <1>4, <1>5, <1>6, <1>7, OtherSteps

LEMMA AckInvInit == Init => AckInv
<1> SUFFICES ASSUME Init PROVE EntriesInProgress /\ AcksWellFormed
  BY InitType DEF AckInv
<1> QED
  BY DEF Init, UdpInit, EntriesInProgress, AcksWellFormed

\* Every acknowledgement the network server is given is well formed, whatever
\* frames share a token and whatever the network, the clock and the commands
\* do: the copy handle_tx_ack works on is always one entry as it was stored.
THEOREM AcksAlwaysWellFormed == Spec => []AcksWellFormed
<1>1. AckInv => AcksWellFormed
  BY DEF AckInv
<1> QED
  BY <1>1, AckInvInit, AckInvNext, PTL DEF Spec

\* No cache entry and no call under way mixes two downlinks.
THEOREM EntriesAlwaysInProgress == Spec => []EntriesInProgress
<1>1. AckInv => EntriesInProgress
  BY DEF AckInv
<1> QED
  BY <1>1, AckInvInit, AckInvNext, PTL DEF Spec

-----------------------------------------------------------------------------
(* The panic in handle_tx_ack.                                              *)

\* What is under way can be traced back: entries and calls to a command that
\* was delivered, a TX_ACK to an emission, and every datagram's token to its
\* frame.
Traceable ==
  /\ \A k \in Token : cache[k] # NoEntry => commanded[cache[k].frame] > 0
  /\ \A p \in Process : job[p] # Idle => commanded[job[p].frame] > 0
  /\ \A m \in pullResp : m.token = TokenOf(m.frame)
  /\ \A m \in txAck : m.token = TokenOf(m.frame) /\ radio[m.frame] # <<>>

AbortInv == AckInv /\ Traceable /\ AbortsOnlyOnCollision

\* Commands and emissions are never taken back, and a frame once commanded or
\* tried stays so.
LEMMA HistoryGrows ==
  ASSUME TypeOK, [Next]_vars
  PROVE  \A d \in DownlinkId : /\ commanded[d] > 0 => commanded'[d] > 0
                               /\ radio[d] # <<>> => radio'[d] # <<>>
<1> USE DEF stateVars, channelVars, networkVars, environmentVars
<1>1. ASSUME NEW t \in Task, NEW d \in DownlinkId, DeliverCommand(t, d)
      PROVE  \A c \in DownlinkId : commanded[c] > 0 => commanded'[c] > 0
  BY <1>1 DEF DeliverCommand, TypeOK
<1>2. ASSUME NEW m \in pullResp, NEW s \in Reported, EmitPullResp(m, s)
      PROVE  \A d \in DownlinkId : radio[d] # <<>> => radio'[d] # <<>>
  <2> TAKE d \in DownlinkId
  <2>1. radio[m.frame] \in EmissionHistory /\ m.frame \in DownlinkId
    BY DEF TypeOK, PullRespMsg
  <2>2. [index |-> m.index, status |-> s] \in [index : Nat \ {0}, status : Reported]
    BY DEF TypeOK, PullRespMsg
  <2>3. Append(radio[m.frame], [index |-> m.index, status |-> s]) # <<>>
    BY <2>1, <2>2 DEF EmissionHistory
  <2> QED
    BY <1>2, <2>1, <2>3 DEF EmitPullResp, TypeOK
<1>3. \/ UNCHANGED radio
      \/ \E m \in pullResp, s \in Reported : EmitPullResp(m, s) /\ UNCHANGED commanded
  BY DEF Next, vars, DeliverCommand, SendStep, ReceiveTxAck, ReceivePullData, ReceivePushData,
         PushStep, ReportStats, StartClient, Consume, SendPullData, EmitPullResp, MisdirectPullResp, Lose,
         Duplicate, Expire, Move, StartAgain
<1>4. \/ UNCHANGED commanded
      \/ \E t \in Task, d \in DownlinkId : DeliverCommand(t, d)
  BY DEF Next, vars, SendStep, ReceiveTxAck, ReceivePullData, ReceivePushData, PushStep,
         ReportStats, StartClient, Consume, SendPullData, EmitPullResp, MisdirectPullResp, Lose, Duplicate,
         Expire, Move, StartAgain
<1> QED
  BY <1>1, <1>2, <1>3, <1>4

\* An entry after a step is an old one, or was stored by a call under way.
LEMMA EntryOrigin ==
  ASSUME TypeOK, [Next]_vars, NEW k \in Token, cache'[k] # NoEntry
  PROVE  \/ cache[k] # NoEntry /\ cache'[k].frame = cache[k].frame
         \/ \E p \in Process : job[p] # Idle /\ cache'[k].frame = job[p].frame
<1> USE DEF stateVars, channelVars, networkVars, environmentVars
<1>1. CASE UNCHANGED <<cache, job, acked>>
  BY <1>1
<1>2. CASE \E t \in Task, d \in DownlinkId : DeliverCommand(t, d)
  BY <1>2 DEF DeliverCommand, SendDownlinkFrame
<1>3. ASSUME NEW p \in Process, SendStep(p)
      PROVE  \/ cache'[k] = cache[k]
             \/ job[p] # Idle /\ cache'[k].frame = job[p].frame
  <2>1. CASE SetDownlinkCache(p)
    <3> DEFINE entry == [frame |-> job[p].frame, acks |-> job[p].acks, index |-> job[p].index,
                         expired |-> FALSE]
    <3>1. job[p] # Idle /\ cache' = [cache EXCEPT ![TokenOf(job[p].frame)] = entry]
      BY <2>1 DEF SetDownlinkCache
    <3>2. entry.frame = job[p].frame
      OBVIOUS
    <3> HIDE DEF entry
    <3>3. cache'[k] = cache[k] \/ cache'[k] = entry
      BY <3>1 DEF TypeOK
    <3> QED
      BY <3>1, <3>2, <3>3
  <2>2. CASE TransmitPullResp(p)
    BY <2>2 DEF TransmitPullResp
  <2> QED
    BY <1>3, <2>1, <2>2 DEF SendStep
<1>4. ASSUME NEW m \in txAck, ReceiveTxAck(m) PROVE cache'[k] = cache[k]
  <2>1. cache' = CleanedCache
    BY <1>4 DEF ReceiveTxAck, HandleTxAck, TxAckUnknown, TxAckPanic, TxAckFinal, TxAckRetry,
                LooksUp
  <2> QED
    BY <2>1, CleanedCacheType
<1>5. ASSUME Expire PROVE cache[k] # NoEntry /\ cache'[k].frame = cache[k].frame
  <2> PICK j \in Token : ExpireEntry(j)
    BY <1>5 DEF Expire
  <2>1. cache[j] \in Entry /\ cache[j] # NoEntry
    BY DEF ExpireEntry, TypeOK
  <2>2. cache'[j].frame = cache[j].frame
    BY <2>1 DEF ExpireEntry, TypeOK, Entry
  <2>3. k # j => cache'[k] = cache[k]
    BY DEF ExpireEntry, TypeOK
  <2> QED
    BY <2>1, <2>2, <2>3
<1>6. ~StartAgain
  BY DEF StartAgain, Restart
<1> QED
  BY <1>1, <1>2, <1>3, <1>4, <1>5, <1>6, OtherSteps

\* A call after a step is an old one, at the same item, or one for a command
\* just delivered, or a retry of an entry.
LEMMA JobOrigin ==
  ASSUME TypeOK, [Next]_vars, NEW p \in Process, job'[p] # Idle
  PROVE  \/ job[p] # Idle /\ job'[p].frame = job[p].frame
         \/ commanded'[job'[p].frame] > 0
         \/ \E k \in Token : cache[k] # NoEntry /\ job'[p].frame = cache[k].frame
<1> USE DEF stateVars, channelVars, networkVars, environmentVars
<1>1. CASE UNCHANGED <<cache, job, acked>>
  BY <1>1
<1>2. ASSUME NEW t \in Task, NEW d \in DownlinkId, DeliverCommand(t, d)
      PROVE  job'[p] = job[p] \/ commanded'[job'[p].frame] > 0
  <2> DEFINE new == NewJob(d, [i \in DOMAIN Items[d] |-> "IGNORED"], 1)
  <2>1. job' = [job EXCEPT ![t] = new]
    BY <1>2 DEF DeliverCommand, SendDownlinkFrame
  <2>2. new.frame = d
    BY DEF NewJob, JobAt
  <2>3. commanded'[d] > 0
    BY <1>2 DEF DeliverCommand, TypeOK
  <2> HIDE DEF new
  <2>4. job'[p] = job[p] \/ job'[p] = new
    BY <2>1 DEF TypeOK
  <2> QED
    BY <2>2, <2>3, <2>4
<1>3. ASSUME NEW q \in Process, SendStep(q)
      PROVE  job[p] # Idle /\ job'[p].frame = job[p].frame
  <2>1. CASE SetDownlinkCache(q)
    <3> DEFINE next == JobAt("transmit", job[q].frame, job[q].acks, job[q].index)
    <3>1. job[q] # Idle /\ job' = [job EXCEPT ![q] = next]
      BY <2>1 DEF SetDownlinkCache
    <3>2. next.frame = job[q].frame
      BY DEF JobAt
    <3> HIDE DEF next
    <3>3. (p # q /\ job'[p] = job[p]) \/ (p = q /\ job'[p] = next)
      BY <3>1 DEF TypeOK
    <3> QED
      BY <3>1, <3>2, <3>3
  <2>2. CASE TransmitPullResp(q)
    BY <2>2 DEF TransmitPullResp, TypeOK
  <2> QED
    BY <1>3, <2>1, <2>2 DEF SendStep
<1>4. ASSUME NEW m \in txAck, ReceiveTxAck(m)
      PROVE  \/ job'[p] = job[p]
             \/ \E k \in Token : cache[k] # NoEntry /\ job'[p].frame = cache[k].frame
  <2> DEFINE e == CleanedCache[m.token]
  <2>1. m.token \in Token
    BY DEF TypeOK, TxAckMsg
  <2>2. e # NoEntry => e = cache[m.token]
    BY <2>1, CleanedCacheType
  <2> HIDE DEF e
  <2>3. CASE e # NoEntry /\ TxAckRetry(m, e)
    <3> DEFINE new == NewJob(e.frame, WithStatus(e, m.status), e.index + 1)
    <3>1. job' = [job EXCEPT ![UdpLoop] = new]
      BY <2>3 DEF TxAckRetry
    <3>2. new.frame = e.frame
      BY DEF NewJob, JobAt
    <3> HIDE DEF new
    <3>3. job'[p] = job[p] \/ job'[p] = new
      BY <3>1 DEF TypeOK
    <3> QED
      BY <2>1, <2>2, <2>3, <3>2, <3>3
  <2>4. CASE UNCHANGED job
    BY <2>4
  <2> QED
    BY <1>4, <2>3, <2>4 DEF ReceiveTxAck, HandleTxAck, TxAckUnknown, TxAckPanic, TxAckFinal, e
<1>5. CASE Expire
  BY <1>5 DEF Expire, ExpireEntry
<1>6. ~StartAgain
  BY DEF StartAgain, Restart
<1> QED
  BY <1>1, <1>2, <1>3, <1>4, <1>5, <1>6, OtherSteps

\* A PULL_RESP after a step is an old one or a copy of it, or was just sent.
LEMMA PullRespTokens ==
  ASSUME TypeOK, Traceable, [Next]_vars, NEW m \in pullResp'
  PROVE  m.token = TokenOf(m.frame)
<1> USE DEF stateVars, channelVars, networkVars, environmentVars
<1>1. CASE pullResp' \subseteq pullResp
  BY <1>1 DEF Traceable
<1>2. ASSUME NEW p \in Process, SendStep(p) PROVE m.token = TokenOf(m.frame)
  <2>1. CASE m \in pullResp
    BY <2>1 DEF Traceable
  <2>2. CASE m \notin pullResp
    BY <1>2, <2>2 DEF SendStep, SetDownlinkCache, TransmitPullResp
  <2> QED
    BY <2>1, <2>2
<1>3. ASSUME Duplicate PROVE m.token = TokenOf(m.frame)
  <2>1. \/ m \in pullResp
        \/ \E n \in pullResp : m = [n EXCEPT !.copy = TRUE]
    BY <1>3 DEF Duplicate
  <2>2. \A n \in pullResp : n \in PullRespMsg
    BY DEF TypeOK
  <2> QED
    BY <2>1, <2>2 DEF Traceable, PullRespMsg
<1>4. \/ pullResp' \subseteq pullResp
      \/ \E p \in Process : SendStep(p)
      \/ Duplicate
  BY DEF Next, vars, udpVars, DeliverCommand, SendDownlinkFrame, ReceiveTxAck, HandleTxAck,
         TxAckUnknown, TxAckPanic, TxAckFinal, TxAckRetry, ReceivePullData, HandlePullData,
         ReceivePushData, HandlePushData, PushStep, IgnoreFrame, ForwardFrame, ExportStats,
         ReportStats, SendGatewayStats, StartClient, OpenChannel, Consume, TakeEvent, SendPullData, EmitPullResp,
         MisdirectPullResp, Lose, Expire, ExpireEntry, Move, StartAgain, Restart
<1> QED
  BY <1>1, <1>2, <1>3, <1>4

\* A TX_ACK after a step is an old one or a copy of it, or answers a PULL_RESP.
LEMMA TxAckTokens ==
  ASSUME TypeOK, Traceable, [Next]_vars, NEW m \in txAck'
  PROVE  m.token = TokenOf(m.frame) /\ radio'[m.frame] # <<>>
<1> USE DEF stateVars, channelVars, networkVars, environmentVars
<1>1. ASSUME NEW n \in txAck, m.token = n.token, m.frame = n.frame
      PROVE  m.token = TokenOf(m.frame) /\ radio'[m.frame] # <<>>
  <2>1. n.frame \in DownlinkId
    BY DEF TypeOK, TxAckMsg
  <2> QED
    BY <1>1, <2>1, HistoryGrows DEF Traceable
<1>2. ASSUME NEW n \in pullResp, NEW s \in Reported, EmitPullResp(n, s), m \notin txAck
      PROVE  m.token = TokenOf(m.frame) /\ radio'[m.frame] # <<>>
  <2>1. m.token = n.token /\ m.frame = n.frame
    BY <1>2 DEF EmitPullResp
  <2>2. n.frame \in DownlinkId /\ radio[n.frame] \in EmissionHistory
    BY DEF TypeOK, PullRespMsg
  <2>3. [index |-> n.index, status |-> s] \in [index : Nat \ {0}, status : Reported]
    BY DEF TypeOK, PullRespMsg
  <2>4. radio'[n.frame] = Append(radio[n.frame], [index |-> n.index, status |-> s])
    BY <1>2, <2>2 DEF EmitPullResp, TypeOK
  <2>5. Append(radio[n.frame], [index |-> n.index, status |-> s]) # <<>>
    BY <2>2, <2>3 DEF EmissionHistory
  <2>6. radio'[n.frame] # <<>>
    BY <2>4, <2>5
  <2>7. n.token = TokenOf(n.frame)
    BY DEF Traceable
  <2> QED
    BY <2>1, <2>6, <2>7
<1>3. ASSUME Duplicate, m \notin txAck
      PROVE  \E n \in txAck : m.token = n.token /\ m.frame = n.frame
  <2>1. PICK n \in txAck : m = [n EXCEPT !.copy = TRUE]
    BY <1>3 DEF Duplicate
  <2>2. n \in TxAckMsg
    BY DEF TypeOK
  <2>3. m.token = n.token /\ m.frame = n.frame
    BY <2>1, <2>2 DEF TxAckMsg
  <2> QED
    BY <2>3
<1>4. \/ txAck' \subseteq txAck
      \/ \E n \in pullResp, s \in Reported : EmitPullResp(n, s)
      \/ Duplicate
  BY DEF Next, vars, udpVars, DeliverCommand, SendDownlinkFrame, SendStep, SetDownlinkCache,
         TransmitPullResp, ReceiveTxAck, HandleTxAck, TxAckUnknown, TxAckPanic, TxAckFinal,
         TxAckRetry, LooksUp, ReceivePullData, HandlePullData, ReceivePushData, HandlePushData,
         PushStep, IgnoreFrame, ForwardFrame, ExportStats, ReportStats, SendGatewayStats,
         StartClient, OpenChannel, Consume, TakeEvent, SendPullData, MisdirectPullResp, Lose, Expire, ExpireEntry, Move,
         StartAgain, Restart
<1> QED
  BY <1>1, <1>2, <1>3, <1>4

\* The step that aborts: the entry found has no item, and its frame shares the
\* token with the frame the TX_ACK is about.
LEMMA AbortStep ==
  ASSUME AckInv, Traceable, NEW m \in txAck, ReceiveTxAck(m), aborted' # aborted
  PROVE  \E e \in DownlinkId : /\ TokenOf(m.frame) = TokenOf(e)
                               /\ commanded[e] > 0
                               /\ Len(Items[e]) = 0
<1> DEFINE e == CleanedCache[m.token]
<1>1. m.token \in Token /\ m.token = TokenOf(m.frame)
  BY DEF AckInv, TypeOK, TxAckMsg, Traceable
<1>2. e # NoEntry => e = cache[m.token]
  BY <1>1, CleanedCacheType DEF AckInv
<1> HIDE DEF e
<1>3. e # NoEntry /\ TxAckPanic(m, e)
  BY DEF ReceiveTxAck, HandleTxAck, TxAckUnknown, TxAckFinal, TxAckRetry, e
<1>4. e \in Entry
  BY <1>1, <1>2, <1>3 DEF AckInv, TypeOK
<1>5. /\ TokenOf(e.frame) = m.token
      /\ InProgress(e.frame, e.acks, e.index)
      /\ commanded[e.frame] > 0
  BY <1>1, <1>2, <1>3 DEF AckInv, EntriesInProgress, Traceable
<1>6. e.frame \in DownlinkId
  BY <1>4 DEF Entry
<1>7. DOMAIN Items[e.frame] = {}
  BY <1>3, <1>5 DEF TxAckPanic, InProgress
<1>8. Len(Items[e.frame]) = 0
  <2>1. Items[e.frame] \in Seq(ItemKind)
    BY <1>6, SemtechUdpAssumption
  <2> DEFINE n == Len(Items[e.frame])
  <2>2. DOMAIN Items[e.frame] = 1 .. n /\ n \in Nat
    BY <2>1
  <2> HIDE DEF n
  <2>3. 1 \notin 1 .. n
    BY <1>7, <2>2
  <2>4. n = 0
    BY <2>2, <2>3
  <2> QED
    BY <2>4 DEF n
<1> QED
  BY <1>1, <1>5, <1>6, <1>8

\* Nothing but a TX_ACK sets aborted.
LEMMA AbortCause ==
  ASSUME [Next]_vars, aborted'
  PROVE  aborted \/ (\E m \in txAck : ReceiveTxAck(m) /\ aborted' # aborted)
<1> USE DEF stateVars, channelVars, networkVars, environmentVars
<1>1. \/ aborted' = aborted
      \/ \E m \in txAck : ReceiveTxAck(m)
      \/ StartAgain
  BY DEF Next, vars, udpVars, DeliverCommand, SendDownlinkFrame, SendStep, SetDownlinkCache,
         TransmitPullResp, ReceivePullData, HandlePullData, ReceivePushData, HandlePushData,
         PushStep, IgnoreFrame, ForwardFrame, ExportStats, ReportStats, SendGatewayStats,
         StartClient, OpenChannel, Consume, TakeEvent, SendPullData, EmitPullResp, MisdirectPullResp, Lose, Duplicate,
         Expire, ExpireEntry, Move
<1>2. ~StartAgain
  BY DEF StartAgain, Restart
<1> QED
  BY <1>1, <1>2

LEMMA AbortInvNext == AbortInv /\ [Next]_vars => AbortInv'
<1> SUFFICES ASSUME AbortInv, [Next]_vars PROVE AbortInv'
  OBVIOUS
<1> USE DEF AbortInv
<1>1. AckInv' /\ TypeOK /\ TypeOK'
  BY AckInvNext DEF AckInv
<1>2. \A k \in Token : cache'[k] # NoEntry => commanded'[cache'[k].frame] > 0
  <2> SUFFICES ASSUME NEW k \in Token, cache'[k] # NoEntry
               PROVE  commanded'[cache'[k].frame] > 0
    OBVIOUS
  <2>1. commanded[cache'[k].frame] > 0
    BY <1>1, EntryOrigin DEF Traceable
  <2>2. cache'[k].frame \in DownlinkId
    BY <1>1 DEF TypeOK, Entry
  <2> QED
    BY <1>1, <2>1, <2>2, HistoryGrows
<1>3. \A p \in Process : job'[p] # Idle => commanded'[job'[p].frame] > 0
  <2> SUFFICES ASSUME NEW p \in Process, job'[p] # Idle
               PROVE  commanded'[job'[p].frame] > 0
    OBVIOUS
  <2>1. commanded[job'[p].frame] > 0 \/ commanded'[job'[p].frame] > 0
    BY <1>1, JobOrigin DEF Traceable
  <2>2. job'[p].frame \in DownlinkId
    BY <1>1 DEF TypeOK, Job
  <2> QED
    BY <1>1, <2>1, <2>2, HistoryGrows
<1>4. Traceable'
  BY <1>1, <1>2, <1>3, PullRespTokens, TxAckTokens DEF Traceable, TokenOf
<1>5. AbortsOnlyOnCollision'
  <2> SUFFICES ASSUME aborted'
               PROVE  \E d, e \in DownlinkId : /\ TokenOf(d) = TokenOf(e)
                                               /\ radio'[d] # <<>>
                                               /\ commanded'[e] > 0
                                               /\ Len(Items[e]) = 0
    BY DEF AbortsOnlyOnCollision, TokenOf
  <2>1. CASE aborted
    BY <1>1, <2>1, HistoryGrows DEF AbortsOnlyOnCollision
  <2>2. CASE \E m \in txAck : ReceiveTxAck(m) /\ aborted' # aborted
    <3> PICK m \in txAck : ReceiveTxAck(m) /\ aborted' # aborted
      BY <2>2
    <3>1. m.frame \in DownlinkId /\ radio[m.frame] # <<>>
      BY <1>1 DEF TypeOK, TxAckMsg, Traceable
    <3> QED
      BY <1>1, <3>1, AbortStep, HistoryGrows
  <2> QED
    BY <2>1, <2>2, AbortCause
<1> QED
  BY <1>1, <1>4, <1>5

LEMMA AbortInvInit == Init => AbortInv
<1> SUFFICES ASSUME Init PROVE Traceable /\ AbortsOnlyOnCollision
  BY AckInvInit DEF AbortInv
<1> QED
  BY DEF Init, UdpInit, Traceable, AbortsOnlyOnCollision

\* The process is never taken down by the index into ack_items but after a frame
\* without items was commanded that shares its token with a frame on the radio.
THEOREM AbortNeedsCollision == Spec => []AbortsOnlyOnCollision
<1>1. AbortInv => AbortsOnlyOnCollision
  BY DEF AbortInv
<1> QED
  BY <1>1, AbortInvInit, AbortInvNext, PTL DEF Spec

\* A server that never commands a frame without items never has the process
\* aborted by a TX_ACK: late, repeated and misattributed ones included.
COROLLARY NoEmptyFrameNoAbort ==
  ASSUME \A d \in DownlinkId : Len(Items[d]) # 0
  PROVE  Spec => []~aborted
<1>1. AbortsOnlyOnCollision => ~aborted
  BY DEF AbortsOnlyOnCollision
<1> QED
  BY <1>1, AbortNeedsCollision, PTL

-----------------------------------------------------------------------------
(* The counters.                                                            *)

CountInv == TypeOK /\ UplinksCountedOnce

\* Counting a downlink acknowledgement leaves the received packets alone.
LEMMA CountDownlinkRx ==
  ASSUME NEW st, NEW items, NEW acks
  PROVE  CountDownlink(st, items, acks).rx = st.rx
BY DEF CountDownlink

LEMMA CountInvNext == CountInv /\ [Next]_vars => CountInv'
<1> SUFFICES ASSUME CountInv, [Next]_vars PROVE UplinksCountedOnce'
  BY NextType DEF CountInv
<1> USE DEF CountInv, stateVars, channelVars, networkVars, environmentVars
<1>1. /\ stats.rx \in Nat
      /\ loop \in Loop
      /\ ledger \in [Account -> Nat]
  BY DEF TypeOK, Stats, Ledger
<1>2. CASE UNCHANGED <<loop, ledger>> /\ stats'.rx = stats.rx
  BY <1>2 DEF UplinksCountedOnce, PendingRx
<1>3. CASE ForwardFrame
  <2>1. loop.at # "metadata" /\ loop'.at # "metadata" /\ stats'.rx = stats.rx + 1
    BY <1>3 DEF ForwardFrame, InFrames, NextFrame, Receiving, CountUplink
  <2>2. CASE HasRoom
    <3>1. /\ ledger'["up"] = ledger["up"] + 1
          /\ \A a \in Account \ {"up"} : ledger'[a] = ledger[a]
      BY <1>1, <1>3, <2>2 DEF ForwardFrame, Account
    <3> QED
      BY <1>1, <2>1, <3>1 DEF UplinksCountedOnce, PendingRx, Account
  <2>3. CASE ~HasRoom
    <3>1. /\ ledger'["refused"] = ledger["refused"] + 1
          /\ \A a \in Account \ {"refused"} : ledger'[a] = ledger[a]
      BY <1>1, <1>3, <2>3 DEF ForwardFrame, Account
    <3> QED
      BY <1>1, <2>1, <3>1 DEF UplinksCountedOnce, PendingRx, Account
  <2> QED
    BY <2>2, <2>3
<1>4. CASE ExportStats
  <2>1. loop.at # "metadata" /\ ledger' = ledger
    BY <1>4 DEF ExportStats, InFrames
  <2>2. CASE loop.stat
    BY <1>1, <1>4, <2>1, <2>2 DEF ExportStats, UplinksCountedOnce, PendingRx, ZeroStats, Account
  <2>3. CASE ~loop.stat
    BY <1>1, <1>4, <2>1, <2>3 DEF ExportStats, UplinksCountedOnce, PendingRx, Receiving
  <2> QED
    BY <2>2, <2>3
<1>5. ASSUME NEW ok \in BOOLEAN, SendGatewayStats(ok) PROVE UplinksCountedOnce'
  <2>1. /\ loop.at = "metadata" /\ loop'.at # "metadata" /\ stats' = stats
    BY <1>5 DEF SendGatewayStats, Receiving
  <2>2. loop.report.rx \in Nat /\ loop.report.tx \in Nat
    BY <1>1, <2>1 DEF Loop, Receiving, Stats
  <2>3. \/ /\ ledger'["rx"] = ledger["rx"] + loop.report.rx
           /\ \A a \in Account \ {"rx", "tx"} : ledger'[a] = ledger[a]
        \/ /\ ledger'["lostRx"] = ledger["lostRx"] + loop.report.rx
           /\ \A a \in Account \ {"lostRx", "lostTx"} : ledger'[a] = ledger[a]
    BY <1>1, <1>5, <2>2 DEF SendGatewayStats, Account
  <2> QED
    BY <1>1, <2>1, <2>2, <2>3 DEF UplinksCountedOnce, PendingRx, Account
<1>6. CASE StartAgain
  <2>1. PendingRx \in Nat /\ PendingTx \in Nat
    BY <1>1 DEF PendingRx, PendingTx, Loop, Receiving, Stats, TypeOK
  <2>2. /\ ledger'["lostRx"] = ledger["lostRx"] + PendingRx
        /\ \A a \in Account \ {"lostRx", "lostTx"} : ledger'[a] = ledger[a]
    BY <1>1, <1>6, <2>1 DEF StartAgain, Restart, Account
  <2>3. PendingRx' = 0
    BY <1>6 DEF StartAgain, Restart, PendingRx, ZeroStats, Receiving
  <2> QED
    BY <1>1, <2>1, <2>2, <2>3 DEF UplinksCountedOnce, Account
<1>7. ASSUME NEW m \in PushData, ReceivePushData(m) PROVE UplinksCountedOnce'
  <2>1. /\ loop.at # "metadata" /\ loop'.at # "metadata"
        /\ UNCHANGED <<stats, ledger>>
    BY <1>7 DEF ReceivePushData, HandlePushData, LoopReady, Receiving
  <2> QED
    BY <2>1 DEF UplinksCountedOnce, PendingRx
<1>8. CASE IgnoreFrame
  <2>1. /\ loop.at # "metadata" /\ loop'.at # "metadata"
        /\ UNCHANGED <<stats, ledger>>
    BY <1>8 DEF IgnoreFrame, InFrames, NextFrame
  <2> QED
    BY <2>1 DEF UplinksCountedOnce, PendingRx
<1>9. ASSUME NEW m \in txAck, ReceiveTxAck(m)
       PROVE  UNCHANGED <<loop, ledger>> /\ stats'.rx = stats.rx
  BY <1>9, CountDownlinkRx
  DEF ReceiveTxAck, HandleTxAck, TxAckUnknown, TxAckPanic, TxAckFinal, TxAckRetry
<1>10. \/ UNCHANGED <<loop, ledger, stats>>
       \/ \E m \in txAck : ReceiveTxAck(m)
       \/ \E m \in PushData : ReceivePushData(m)
       \/ IgnoreFrame \/ ForwardFrame \/ ExportStats
       \/ \E ok \in BOOLEAN : SendGatewayStats(ok)
       \/ StartAgain
  BY DEF Next, vars, udpVars, DeliverCommand, SendDownlinkFrame, SendStep, SetDownlinkCache,
         TransmitPullResp, ReceivePullData, HandlePullData, PushStep, ReportStats,
         StartClient, OpenChannel, Consume, TakeEvent, SendPullData, EmitPullResp, MisdirectPullResp, Lose, Duplicate,
         Expire, ExpireEntry, Move
<1> QED
  BY <1>2, <1>3, <1>4, <1>5, <1>6, <1>7, <1>8, <1>9, <1>10

\* Every accepted uplink is in exactly one report: sent, lost or still to come.
THEOREM UplinksAlwaysCountedOnce == Spec => []UplinksCountedOnce
<1>1. Init => CountInv
  <2>1. Init => UplinksCountedOnce
    BY DEF Init, UdpInit, UplinksCountedOnce, PendingRx, ZeroStats, Receiving, Account
  <2> QED
    BY <2>1, InitType DEF CountInv
<1>2. CountInv => UplinksCountedOnce
  BY DEF CountInv
<1> QED
  BY <1>1, <1>2, CountInvNext, PTL DEF Spec
=============================================================================
