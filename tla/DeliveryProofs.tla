--------------------------- MODULE DeliveryProofs ---------------------------
(***************************************************************************)
(* The promise about downlinks, for every set of frames, of addresses and  *)
(* of tasks, and whatever is lost, expires, moves or restarts: the system  *)
(* implements DownlinkDelivery when no two frames share a token, and the   *)
(* network and the server repeat nothing.                                  *)
(***************************************************************************)
EXTENDS SemtechProofs, SequenceTheorems

\* The downlink ids the server chooses stay apart when they are truncated.
DistinctTokens == \A d, e \in DownlinkId : TokenOf(d) = TokenOf(e) => d = e

\* No datagram is duplicated and no command is delivered twice.
NoRepeats == \A b \in Budgets : b["duplicate"] = 0 /\ b["redeliver"] = 0

-----------------------------------------------------------------------------
(* The inductive invariant, frame by frame.  What is known of a frame is    *)
(* carried by one call, one PULL_RESP or one TX_ACK at a time, and agrees   *)
(* with what the forwarder has done.                                        *)

\* Frame d was commanded and not acknowledged, and n of its items were tried.
Awaited(d, n) == commanded[d] > 0 /\ acked[d] = <<>> /\ Len(radio[d]) = n

NoneOnAir(d) == \A n \in DOMAIN radio[d] : radio[d][n].status \in Failure

\* The first n acks are what the forwarder said of the first n items.
Agrees(acks, d, n) == \A i \in 1 .. n : i \in DOMAIN radio[d] /\ acks[i] = radio[d][i].status

CachedAt(d, i) == cache[TokenOf(d)] # NoEntry => cache[TokenOf(d)].index = i

InOrder(d) == \A n \in DOMAIN radio[d] : radio[d][n].index = n

Fresh(d) == commanded[d] = 0 => radio[d] = <<>> /\ acked[d] = <<>>

EntryFollows(d) ==
  cache[TokenOf(d)] # NoEntry =>
    Agrees(cache[TokenOf(d)].acks, d, cache[TokenOf(d)].index - 1)

JobFollows(d) ==
  \A p \in Process : JobOf(p, d) =>
    /\ Awaited(d, job[p].index - 1)
    /\ NoneOnAir(d)
    /\ Agrees(job[p].acks, d, job[p].index - 1)
    /\ job[p].step = "transmit" => CachedAt(d, job[p].index)

PullRespFollows(d) ==
  \A m \in pullResp : m.frame = d =>
    /\ Awaited(d, m.index - 1)
    /\ NoneOnAir(d)
    /\ m.index \in DOMAIN Items[d]
    /\ CachedAt(d, m.index)

TxAckFollows(d) ==
  \A m \in txAck : m.frame = d =>
    /\ Awaited(d, m.index)
    /\ \A n \in DOMAIN radio[d] : n # m.index => radio[d][n].status \in Failure
    /\ radio[d][m.index].status = m.status
    /\ m.index \in DOMAIN Items[d]
    /\ CachedAt(d, m.index)

\* Frame d is in one place at most.
OneCarrier(d) ==
  /\ \A p, q \in Process : JobOf(p, d) /\ JobOf(q, d) => p = q
  /\ \A m, n \in pullResp : m.frame = d /\ n.frame = d => m = n
  /\ \A m, n \in txAck : m.frame = d /\ n.frame = d => m = n
  /\ \A p \in Process, m \in pullResp \union txAck : JobOf(p, d) => m.frame # d
  /\ \A m \in pullResp, n \in txAck : m.frame = d => n.frame # d

FrameInv(d) ==
  InOrder(d) /\ Fresh(d) /\ EntryFollows(d) /\ JobFollows(d) /\ PullRespFollows(d)
    /\ TxAckFollows(d) /\ OneCarrier(d)

Unrepeated == budget["duplicate"] = 0 /\ budget["redeliver"] = 0

DeliveryInv == AbortInv /\ Unrepeated /\ \A d \in DownlinkId : FrameInv(d)

-----------------------------------------------------------------------------
(* Steps that do not concern a frame, or only take something of it away.    *)

\* A frame that is not commanded, tried or acknowledged in a step, and of which
\* the step makes no new call, datagram or entry, keeps its invariant.
LEMMA Untouched ==
  ASSUME NEW d \in DownlinkId, FrameInv(d),
         radio'[d] = radio[d], acked'[d] = acked[d], commanded'[d] = commanded[d],
         \A p \in Process : JobOf(p, d)' => job'[p] = job[p],
         \A m \in pullResp' : m.frame = d => m \in pullResp,
         \A m \in txAck' : m.frame = d => m \in txAck,
         cache'[TokenOf(d)] # NoEntry =>
           /\ cache[TokenOf(d)] # NoEntry
           /\ cache'[TokenOf(d)].acks = cache[TokenOf(d)].acks
           /\ cache'[TokenOf(d)].index = cache[TokenOf(d)].index
  PROVE  FrameInv(d)'
<1> USE DEF FrameInv
<1>0. TokenOf(d)' = TokenOf(d)
  BY DEF TokenOf
<1>1. InOrder(d)' /\ Fresh(d)'
  BY DEF InOrder, Fresh
<1>2. EntryFollows(d)'
  BY <1>0 DEF EntryFollows, Agrees
<1>3. JobFollows(d)'
  <2> SUFFICES ASSUME NEW p \in Process, JobOf(p, d)'
               PROVE  /\ Awaited(d, job[p].index - 1)'
                      /\ NoneOnAir(d)'
                      /\ Agrees(job[p].acks, d, job[p].index - 1)'
                      /\ (job[p].step = "transmit" => CachedAt(d, job[p].index))'
    BY DEF JobFollows
  <2>1. JobOf(p, d) /\ job'[p] = job[p]
    BY DEF JobOf
  <2> QED
    BY <1>0, <2>1 DEF JobFollows, Awaited, NoneOnAir, Agrees, CachedAt
<1>4. PullRespFollows(d)'
  <2> SUFFICES ASSUME NEW m \in pullResp', m.frame = d
               PROVE  /\ Awaited(d, m.index - 1)'
                      /\ NoneOnAir(d)'
                      /\ m.index \in DOMAIN Items[d]
                      /\ CachedAt(d, m.index)'
    BY DEF PullRespFollows
  <2> QED
    BY <1>0 DEF PullRespFollows, Awaited, NoneOnAir, CachedAt
<1>5. TxAckFollows(d)'
  <2> SUFFICES ASSUME NEW m \in txAck', m.frame = d
               PROVE  /\ Awaited(d, m.index)'
                      /\ (\A n \in DOMAIN radio[d] : n # m.index => radio[d][n].status \in Failure)'
                      /\ (radio[d][m.index].status = m.status)'
                      /\ m.index \in DOMAIN Items[d]
                      /\ CachedAt(d, m.index)'
    BY DEF TxAckFollows
  <2> QED
    BY <1>0 DEF TxAckFollows, Awaited, CachedAt
<1>6. OneCarrier(d)'
  BY DEF OneCarrier, JobOf
<1> QED
  BY <1>1, <1>2, <1>3, <1>4, <1>5, <1>6

\* What the steps do to frames that is neither sending nor answering: losses,
\* restarts, expiry, stopping to retransmit, and everything about uplinks.
Quiet ==
  /\ UNCHANGED <<radio, acked, commanded>>
  /\ \A p \in Process : job'[p] \in {job[p], Idle}
  /\ pullResp' \subseteq pullResp
  /\ txAck' \subseteq txAck
  /\ \A k \in Token : cache'[k] # NoEntry =>
       /\ cache[k] # NoEntry
       /\ cache'[k].acks = cache[k].acks
       /\ cache'[k].index = cache[k].index

LEMMA QuietSteps ==
  ASSUME TypeOK, Unrepeated, [Next]_vars
  PROVE  \/ \E t \in Task, d \in DownlinkId : DeliverCommand(t, d)
         \/ \E p \in Process : SendStep(p)
         \/ \E m \in txAck : ReceiveTxAck(m)
         \/ \E m \in pullResp, s \in Reported : EmitPullResp(m, s)
         \/ Quiet
<1> USE DEF stateVars, channelVars, networkVars, environmentVars
<1>1. ASSUME NEW m \in pullData, ReceivePullData(m) PROVE Quiet
  BY <1>1 DEF ReceivePullData, HandlePullData, Quiet
<1>2. ASSUME NEW m \in PushData, ReceivePushData(m) PROVE Quiet
  BY <1>2 DEF ReceivePushData, HandlePushData, Quiet
<1>3. PushStep \/ ReportStats => Quiet
  BY DEF PushStep, IgnoreFrame, ForwardFrame, ExportStats, ReportStats, SendGatewayStats, Quiet
<1>4. StartClient \/ Consume => Quiet
  BY DEF StartClient, OpenChannel, Consume, TakeEvent, Quiet
<1>5. ASSUME NEW g \in Gateway, SendPullData(g) PROVE Quiet
  BY <1>5 DEF SendPullData, Quiet
<1>6. ASSUME NEW m \in pullResp, MisdirectPullResp(m) PROVE Quiet
  BY <1>6 DEF MisdirectPullResp, Quiet
<1>7. Lose => Quiet
  BY DEF Lose, Quiet
<1>8. ~Duplicate
  BY DEF Duplicate, Spend, Unrepeated
<1>9. Expire => Quiet
  <2> SUFFICES ASSUME NEW k \in Token, ExpireEntry(k), UNCHANGED <<home, radio, commanded>>
               PROVE  Quiet
    BY DEF Expire
  <2>1. cache[k] \in Entry
    BY DEF ExpireEntry, TypeOK
  <2>2. /\ cache[k] # NoEntry
        /\ cache'[k].acks = cache[k].acks
        /\ cache'[k].index = cache[k].index
    BY <2>1 DEF ExpireEntry, TypeOK, Entry
  <2>3. \A j \in Token : j # k => cache'[j] = cache[j]
    BY DEF ExpireEntry, TypeOK
  <2>4. UNCHANGED <<radio, acked, commanded, job, pullResp, txAck>>
    BY DEF ExpireEntry
  <2> QED
    BY <2>2, <2>3, <2>4 DEF Quiet
<1>10. ASSUME NEW a \in Addr, Move(a) PROVE Quiet
  BY <1>10 DEF Move, udpVars, Quiet
<1>11. StartAgain => Quiet
  BY DEF StartAgain, Restart, Quiet
<1>12. UNCHANGED vars => Quiet
  BY DEF vars, udpVars, Quiet
<1> QED
  BY <1>1, <1>2, <1>3, <1>4, <1>5, <1>6, <1>7, <1>8, <1>9, <1>10, <1>11, <1>12 DEF Next

LEMMA QuietKeeps ==
  ASSUME Quiet, NEW d \in DownlinkId, FrameInv(d)
  PROVE  FrameInv(d)'
<1>1. TokenOf(d) \in Token
  BY TokenOfType
<1>2. \A p \in Process : JobOf(p, d)' => job'[p] = job[p]
  BY DEF Quiet, JobOf
<1> QED
  BY <1>1, <1>2, Untouched DEF Quiet

-----------------------------------------------------------------------------
(* The steps that carry a frame on.                                         *)

\* Nothing of a frame that was never commanded is anywhere.
LEMMA Uncommanded ==
  ASSUME DistinctTokens, DeliveryInv, NEW d \in DownlinkId, commanded[d] = 0
  PROVE  /\ radio[d] = <<>> /\ acked[d] = <<>>
         /\ cache[TokenOf(d)] = NoEntry
         /\ \A p \in Process : ~JobOf(p, d)
         /\ \A m \in pullResp \union txAck : m.frame # d
<1>1. FrameInv(d)
  BY DEF DeliveryInv
<1>2. radio[d] = <<>> /\ acked[d] = <<>>
  BY <1>1 DEF FrameInv, Fresh
<1>3. ~(commanded[d] > 0)
  OBVIOUS
<1>4. \A p \in Process : ~JobOf(p, d)
  BY <1>1, <1>3 DEF FrameInv, JobFollows, Awaited
<1>5. \A m \in pullResp \union txAck : m.frame # d
  BY <1>1, <1>3 DEF FrameInv, PullRespFollows, TxAckFollows, Awaited
<1>6. cache[TokenOf(d)] = NoEntry
  <2> SUFFICES ASSUME cache[TokenOf(d)] # NoEntry PROVE FALSE
    OBVIOUS
  <2> DEFINE e == cache[TokenOf(d)]
  <2>1. TokenOf(d) \in Token
    BY TokenOfType
  <2>2. e.frame \in DownlinkId /\ TokenOf(e.frame) = TokenOf(d) /\ commanded[e.frame] > 0
    BY <2>1 DEF DeliveryInv, AbortInv, AckInv, EntriesInProgress, Traceable, TypeOK, Entry
  <2> QED
    BY <1>3, <2>2 DEF DistinctTokens
<1> QED
  BY <1>2, <1>4, <1>5, <1>6

LEMMA CommandKeeps ==
  ASSUME DistinctTokens, DeliveryInv, NEW t \in Task, NEW c \in DownlinkId, DeliverCommand(t, c),
         NEW d \in DownlinkId
  PROVE  FrameInv(d)'
<1> DEFINE new == NewJob(c, [i \in DOMAIN Items[c] |-> "IGNORED"], 1)
<1>1. /\ TypeOK /\ FrameInv(d)
      /\ t \in Process
  BY DEF DeliveryInv, AbortInv, AckInv, Process
<1>2. /\ UNCHANGED <<cache, acked, radio, pullResp, txAck>>
      /\ job' = [job EXCEPT ![t] = new]
      /\ commanded' = [commanded EXCEPT ![c] = @ + 1]
  BY DEF DeliverCommand, SendDownlinkFrame, stateVars, networkVars
<1>3. new.frame = c /\ new.index = 1 /\ new.step = "store"
  BY DEF NewJob, JobAt
<1> HIDE DEF new
<1>4. \A p \in Process : job'[p] = IF p = t THEN new ELSE job[p]
  BY <1>1, <1>2 DEF TypeOK
<1>5. CASE d # c
  <2>1. \A p \in Process : JobOf(p, d)' => job'[p] = job[p]
    BY <1>3, <1>4, <1>5 DEF JobOf
  <2>2. commanded'[d] = commanded[d]
    BY <1>1, <1>2, <1>5 DEF TypeOK
  <2> QED
    BY <1>1, <1>2, <2>1, <2>2, Untouched
<1>6. CASE d = c
  <2>1. commanded[d] = 0 /\ commanded'[d] = 1
    <3>1. ~(budget["redeliver"] > 0)
      BY DEF DeliveryInv, Unrepeated
    <3>2. commanded[c] = 0
      BY <3>1 DEF DeliverCommand, Spend
    <3> QED
      BY <1>1, <1>2, <1>6, <3>2 DEF TypeOK
  <2>2. /\ radio[d] = <<>> /\ acked[d] = <<>>
        /\ cache[TokenOf(d)] = NoEntry
        /\ \A p \in Process : ~JobOf(p, d)
        /\ \A m \in pullResp \union txAck : m.frame # d
    BY <2>1, Uncommanded
  <2>3. \A p \in Process : JobOf(p, d)' => p = t
    BY <1>3, <1>4, <1>6, <2>2 DEF JobOf
  <2>4. InOrder(d)' /\ Fresh(d)' /\ EntryFollows(d)'
    BY <1>2, <2>1, <2>2 DEF InOrder, Fresh, EntryFollows, TokenOf
  <2>5. PullRespFollows(d)' /\ TxAckFollows(d)'
    BY <1>2, <2>2 DEF PullRespFollows, TxAckFollows
  <2>6. JobFollows(d)'
    <3>1. Awaited(d, 0)' /\ NoneOnAir(d)' /\ (\A acks : Agrees(acks, d, 0)')
      BY <1>2, <2>1, <2>2 DEF Awaited, NoneOnAir, Agrees
    <3> QED
      BY <1>1, <1>3, <1>4, <2>3, <3>1 DEF JobFollows
  <2>7. OneCarrier(d)'
    BY <1>2, <2>2, <2>3 DEF OneCarrier
  <2> QED
    BY <2>4, <2>5, <2>6, <2>7 DEF FrameInv
<1> QED
  BY <1>5, <1>6

LEMMA StoreKeeps ==
  ASSUME DistinctTokens, DeliveryInv, NEW p \in Process, SetDownlinkCache(p),
         UNCHANGED environmentVars, NEW d \in DownlinkId
  PROVE  FrameInv(d)'
<1> DEFINE c == job[p].frame
           acks == job[p].acks
           i == job[p].index
           entry == [frame |-> c, acks |-> acks, index |-> i, expired |-> FALSE]
           next == JobAt("transmit", c, acks, i)
<1>1. TypeOK /\ FrameInv(d)
  BY DEF DeliveryInv, AbortInv, AckInv
<1>2. /\ UNCHANGED <<acked, radio, commanded, pullResp, txAck>>
      /\ job[p] # Idle
      /\ cache' = [cache EXCEPT ![TokenOf(c)] = entry]
      /\ job' = [job EXCEPT ![p] = next]
  BY DEF SetDownlinkCache, networkVars, environmentVars
<1>3. /\ entry.acks = acks /\ entry.index = i
      /\ next.frame = c /\ next.acks = acks /\ next.index = i
  BY DEF JobAt
<1>4. c \in DownlinkId /\ TokenOf(c) \in Token /\ TokenOf(d) \in Token
  BY <1>1, <1>2, TokenOfType DEF TypeOK, Job
<1> HIDE DEF entry, next, c, acks, i
<1>5. \A q \in Process : job'[q] = IF q = p THEN next ELSE job[q]
  BY <1>1, <1>2 DEF TypeOK
<1>6. cache'[TokenOf(d)] = IF TokenOf(d) = TokenOf(c) THEN entry ELSE cache[TokenOf(d)]
  BY <1>1, <1>2, <1>4 DEF TypeOK
<1>7. CASE d # c
  <2>1. cache'[TokenOf(d)] = cache[TokenOf(d)]
    BY <1>4, <1>6, <1>7 DEF DistinctTokens
  <2>2. \A q \in Process : JobOf(q, d)' => job'[q] = job[q]
    BY <1>3, <1>5, <1>7 DEF JobOf
  <2> QED
    BY <1>1, <1>2, <2>1, <2>2, Untouched
<1>8. CASE d = c
  <2>1. JobOf(p, d)
    BY <1>2, <1>8 DEF JobOf, c
  <2>2. Awaited(d, i - 1) /\ NoneOnAir(d) /\ Agrees(acks, d, i - 1)
    BY <1>1, <2>1 DEF FrameInv, JobFollows, acks, i
  <2>3. \A q \in Process : JobOf(q, d)' => JobOf(q, d) /\ q = p
    BY <1>1, <1>5, <2>1 DEF JobOf, FrameInv, OneCarrier
  <2>4. /\ \A m \in pullResp \union txAck : m.frame # d
        /\ InOrder(d) /\ Fresh(d)
    BY <1>1, <2>1 DEF FrameInv, OneCarrier
  <2>5. InOrder(d)' /\ Fresh(d)'
    BY <1>2, <2>4 DEF InOrder, Fresh
  <2>6. EntryFollows(d)'
    BY <1>2, <1>3, <1>6, <1>8, <2>2 DEF EntryFollows, Agrees, TokenOf
  <2>7. JobFollows(d)'
    <3> SUFFICES ASSUME NEW q \in Process, JobOf(q, d)'
                 PROVE  /\ Awaited(d, job[q].index - 1)' /\ NoneOnAir(d)'
                        /\ Agrees(job[q].acks, d, job[q].index - 1)'
                        /\ CachedAt(d, job[q].index)'
      BY DEF JobFollows
    <3>1. job'[q].index = i /\ job'[q].acks = acks /\ cache'[TokenOf(d)].index = i
      BY <1>3, <1>5, <1>6, <1>8, <2>3
    <3> QED
      BY <1>2, <2>2, <3>1 DEF Awaited, NoneOnAir, Agrees, CachedAt, TokenOf
  <2>8. PullRespFollows(d)' /\ TxAckFollows(d)' /\ OneCarrier(d)'
    BY <1>2, <2>3, <2>4 DEF PullRespFollows, TxAckFollows, OneCarrier
  <2> QED
    BY <2>5, <2>6, <2>7, <2>8 DEF FrameInv
<1> QED
  BY <1>7, <1>8

LEMMA TransmitKeeps ==
  ASSUME DeliveryInv, NEW p \in Process, TransmitPullResp(p),
         UNCHANGED environmentVars, NEW d \in DownlinkId
  PROVE  FrameInv(d)'
<1> DEFINE c == job[p].frame
           i == job[p].index
           sent == [dest |-> pullAddr, token |-> TokenOf(c), frame |-> c, index |-> i,
                    copy |-> FALSE]
<1>1. TypeOK /\ FrameInv(d)
  BY DEF DeliveryInv, AbortInv, AckInv
<1>2. /\ UNCHANGED <<cache, acked, radio, commanded, txAck>>
      /\ job[p] # Idle
      /\ job[p].step = "transmit"
      /\ job' = [job EXCEPT ![p] = Idle]
      /\ \/ pullResp' = pullResp
         \/ i \in DOMAIN Items[c] /\ pullResp' = pullResp \union {sent}
  BY DEF TransmitPullResp, Translates, stateVars, environmentVars
<1>3. sent.frame = c /\ sent.index = i
  OBVIOUS
<1> HIDE DEF sent, c, i
<1>4. \A q \in Process : job'[q] = IF q = p THEN Idle ELSE job[q]
  BY <1>1, <1>2 DEF TypeOK
<1>5. \A q \in Process : JobOf(q, d)' => JobOf(q, d) /\ job'[q] = job[q] /\ q # p
  BY <1>4 DEF JobOf
<1>6. CASE d # c \/ pullResp' = pullResp
  <2>1. \A m \in pullResp' : m.frame = d => m \in pullResp
    BY <1>2, <1>3, <1>6
  <2> QED
    BY <1>1, <1>2, <1>5, <2>1, Untouched
<1>7. CASE d = c /\ i \in DOMAIN Items[c] /\ pullResp' = pullResp \union {sent}
  <2>1. JobOf(p, d)
    BY <1>2, <1>7 DEF JobOf, c
  <2>2. Awaited(d, i - 1) /\ NoneOnAir(d) /\ CachedAt(d, i)
    BY <1>1, <1>2, <2>1 DEF FrameInv, JobFollows, i
  <2>3. \A q \in Process : ~JobOf(q, d)'
    BY <1>1, <1>5, <2>1 DEF FrameInv, OneCarrier
  <2>4. \A m \in pullResp \union txAck : m.frame # d
    BY <1>1, <2>1 DEF FrameInv, OneCarrier
  <2>5. InOrder(d)' /\ Fresh(d)' /\ EntryFollows(d)' /\ JobFollows(d)' /\ TxAckFollows(d)'
    BY <1>1, <1>2, <2>3, <2>4
    DEF FrameInv, InOrder, Fresh, EntryFollows, JobFollows, TxAckFollows, Agrees, TokenOf
  <2>6. PullRespFollows(d)'
    <3> SUFFICES ASSUME NEW m \in pullResp', m.frame = d
                 PROVE  /\ Awaited(d, m.index - 1)' /\ NoneOnAir(d)'
                        /\ m.index \in DOMAIN Items[d]
                        /\ CachedAt(d, m.index)'
      BY DEF PullRespFollows
    <3>1. m.index = i
      BY <1>3, <1>7, <2>4
    <3>2. Awaited(d, m.index - 1) /\ NoneOnAir(d) /\ CachedAt(d, m.index)
      BY <2>2, <3>1
    <3> QED
      BY <1>2, <1>7, <3>1, <3>2 DEF Awaited, NoneOnAir, CachedAt, TokenOf
  <2>7. OneCarrier(d)'
    BY <1>2, <1>7, <2>3, <2>4 DEF OneCarrier
  <2> QED
    BY <2>5, <2>6, <2>7 DEF FrameInv
<1> QED
  BY <1>2, <1>6, <1>7

LEMMA EmitKeeps ==
  ASSUME DeliveryInv, NEW m \in pullResp, NEW s \in Reported, EmitPullResp(m, s),
         NEW d \in DownlinkId
  PROVE  FrameInv(d)'
<1> DEFINE emission == [index |-> m.index, status |-> s]
           answer == [token |-> m.token, status |-> s, frame |-> m.frame,
                      index |-> m.index, copy |-> m.copy]
<1>1. /\ TypeOK /\ FrameInv(d)
      /\ m.frame \in DownlinkId /\ m.index \in Nat \ {0}
  BY DEF DeliveryInv, AbortInv, AckInv, TypeOK, PullRespMsg
<1>2. /\ UNCHANGED <<cache, acked, job, commanded>>
      /\ pullResp' = pullResp \ {m}
      /\ txAck' = txAck \union {answer}
      /\ radio' = [radio EXCEPT ![m.frame] = Append(@, emission)]
  BY DEF EmitPullResp, stateVars
<1>3. /\ emission.index = m.index /\ emission.status = s
      /\ emission \in [index : Nat \ {0}, status : Reported]
      /\ answer.frame = m.frame /\ answer.index = m.index /\ answer.status = s
  BY <1>1
<1> HIDE DEF emission, answer
<1>4. CASE d # m.frame
  <2>1. radio'[d] = radio[d]
    BY <1>1, <1>2, <1>4 DEF TypeOK
  <2>2. \A n \in txAck' : n.frame = d => n \in txAck
    BY <1>2, <1>3, <1>4
  <2> QED
    BY <1>1, <1>2, <2>1, <2>2, Untouched DEF JobOf
<1>5. CASE d = m.frame
  <2>1. /\ Awaited(d, m.index - 1) /\ NoneOnAir(d) /\ CachedAt(d, m.index)
        /\ m.index \in DOMAIN Items[d]
    BY <1>1, <1>5 DEF FrameInv, PullRespFollows
  <2>2. /\ \A p \in Process : ~JobOf(p, d)
        /\ \A n \in txAck : n.frame # d
        /\ \A n \in pullResp : n.frame = d => n = m
    BY <1>1, <1>5 DEF FrameInv, OneCarrier
  <2>3. /\ radio'[d] = Append(radio[d], emission)
        /\ radio[d] \in Seq([index : Nat \ {0}, status : Reported])
        /\ Len(radio[d]) = m.index - 1
    BY <1>1, <1>2, <1>5, <2>1 DEF TypeOK, EmissionHistory, Awaited
  <2>4. /\ DOMAIN radio'[d] = DOMAIN radio[d] \union {m.index}
        /\ DOMAIN radio[d] = 1 .. m.index - 1
        /\ \A n \in DOMAIN radio[d] : radio'[d][n] = radio[d][n]
        /\ radio'[d][m.index] = emission
        /\ Len(radio'[d]) = m.index
    BY <1>1, <1>3, <2>3
  <2>5. InOrder(d)'
    BY <1>1, <1>3, <2>4 DEF FrameInv, InOrder
  <2>6. Fresh(d)'
    BY <1>2, <2>1 DEF Fresh, Awaited
  <2>7. EntryFollows(d)'
    BY <1>1, <1>2, <2>4 DEF FrameInv, EntryFollows, Agrees, TokenOf
  <2>8. JobFollows(d)' /\ PullRespFollows(d)'
    BY <1>2, <2>2 DEF JobFollows, PullRespFollows, JobOf
  <2>9. TxAckFollows(d)'
    <3> SUFFICES ASSUME NEW n \in txAck', n.frame = d
                 PROVE  /\ Awaited(d, n.index)'
                        /\ \A j \in DOMAIN radio'[d] : j # n.index => radio'[d][j].status \in Failure
                        /\ radio'[d][n.index].status = n.status
                        /\ n.index \in DOMAIN Items[d]
                        /\ CachedAt(d, n.index)'
      BY DEF TxAckFollows
    <3>1. n.index = m.index /\ n.status = s
      BY <1>2, <1>3, <2>2
    <3> QED
      BY <1>2, <1>3, <2>1, <2>4, <3>1 DEF Awaited, NoneOnAir, CachedAt, TokenOf
  <2>10. OneCarrier(d)'
    BY <1>2, <2>2 DEF OneCarrier, JobOf
  <2> QED
    BY <2>5, <2>6, <2>7, <2>8, <2>9, <2>10 DEF FrameInv
<1> QED
  BY <1>4, <1>5

\* What a TX_ACK finds in the cache is the entry of its own frame, at the item
\* it is about.
LEMMA OwnEntry ==
  ASSUME DistinctTokens, DeliveryInv, NEW m \in txAck, CleanedCache[m.token] # NoEntry
  PROVE  LET e == CleanedCache[m.token] IN
         /\ m.frame \in DownlinkId /\ m.token = TokenOf(m.frame) /\ m.token \in Token
         /\ m.status \in Reported
         /\ e = cache[m.token] /\ e \in Entry
         /\ e.frame = m.frame /\ e.index = m.index
         /\ InProgress(m.frame, e.acks, m.index)
         /\ m.index \in DOMAIN Items[m.frame] /\ m.index \in DOMAIN e.acks
<1> DEFINE e == CleanedCache[m.token]
<1>1. TypeOK /\ EntriesInProgress /\ Traceable
  BY DEF DeliveryInv, AbortInv, AckInv
<1>2. /\ m.frame \in DownlinkId /\ m.token \in Token /\ m.status \in Reported
      /\ m.token = TokenOf(m.frame)
  BY <1>1 DEF TypeOK, TxAckMsg, Traceable
<1>3. e = cache[m.token] /\ e \in Entry
  BY <1>1, <1>2, CleanedCacheType DEF TypeOK
<1>4. TokenOf(e.frame) = m.token /\ InProgress(e.frame, e.acks, e.index) /\ e.frame \in DownlinkId
  BY <1>1, <1>2, <1>3 DEF EntriesInProgress, Entry
<1>5. e.frame = m.frame
  BY <1>2, <1>4 DEF DistinctTokens
<1>6. m.index \in DOMAIN Items[m.frame] /\ e.index = m.index
  BY <1>2, <1>3 DEF DeliveryInv, FrameInv, TxAckFollows, CachedAt
<1>7. m.index \in DOMAIN e.acks
  BY <1>4, <1>5, <1>6 DEF InProgress
<1> QED
  BY <1>2, <1>3, <1>4, <1>5, <1>6, <1>7

\* Cleaning the cache keeps what it keeps of every entry.
LEMMA CleaningKeeps ==
  ASSUME TypeOK, cache' = CleanedCache, NEW d \in DownlinkId
  PROVE  cache'[TokenOf(d)] # NoEntry => cache'[TokenOf(d)] = cache[TokenOf(d)]
BY TokenOfType, CleanedCacheType

LEMMA AnswerKeeps ==
  ASSUME DistinctTokens, DeliveryInv, NEW m \in txAck,
         CleanedCache[m.token] # NoEntry, TxAckFinal(m, CleanedCache[m.token]),
         UNCHANGED environmentVars, NEW d \in DownlinkId
  PROVE  FrameInv(d)'
<1> DEFINE e == CleanedCache[m.token]
<1>1. TypeOK /\ FrameInv(d) /\ e.frame = m.frame /\ m.frame \in DownlinkId
  BY OwnEntry DEF DeliveryInv, AbortInv, AckInv
<1> HIDE DEF e
<1>2. /\ UNCHANGED <<radio, job, pullResp, commanded>>
      /\ txAck' = txAck \ {m}
      /\ cache' = CleanedCache
      /\ acked' = acked \/ \E acks : acked' = [acked EXCEPT ![e.frame] = Append(@, acks)]
  BY DEF TxAckFinal, LooksUp, environmentVars, e
<1>3. cache'[TokenOf(d)] # NoEntry => cache'[TokenOf(d)] = cache[TokenOf(d)]
  BY <1>1, <1>2, CleaningKeeps
<1>4. CASE d # m.frame
  <2>1. acked'[d] = acked[d]
    BY <1>1, <1>2, <1>4 DEF TypeOK
  <2> QED
    BY <1>1, <1>2, <1>3, <2>1, Untouched DEF JobOf
<1>5. CASE d = m.frame
  <2>1. /\ commanded[d] > 0
        /\ \A p \in Process : ~JobOf(p, d)
        /\ \A n \in pullResp : n.frame # d
        /\ \A n \in txAck' : n.frame # d
    BY <1>1, <1>2, <1>5 DEF FrameInv, OneCarrier, TxAckFollows, Awaited
  <2>2. commanded'[d] # 0
    BY <1>2, <2>1
  <2>3. InOrder(d)' /\ Fresh(d)'
    BY <1>1, <1>2, <2>2 DEF FrameInv, InOrder, Fresh
  <2>4. EntryFollows(d)'
    BY <1>1, <1>2, <1>3 DEF FrameInv, EntryFollows, Agrees, TokenOf
  <2>5. JobFollows(d)' /\ PullRespFollows(d)' /\ TxAckFollows(d)' /\ OneCarrier(d)'
    BY <1>2, <2>1 DEF JobFollows, PullRespFollows, TxAckFollows, OneCarrier, JobOf
  <2> QED
    BY <2>3, <2>4, <2>5 DEF FrameInv
<1> QED
  BY <1>4, <1>5

LEMMA RetryKeeps ==
  ASSUME DistinctTokens, DeliveryInv, NEW m \in txAck,
         CleanedCache[m.token] # NoEntry, TxAckRetry(m, CleanedCache[m.token]),
         UNCHANGED environmentVars, NEW d \in DownlinkId
  PROVE  FrameInv(d)'
<1> DEFINE e == CleanedCache[m.token]
           new == NewJob(e.frame, WithStatus(e, m.status), e.index + 1)
<1>1. /\ TypeOK /\ FrameInv(d)
      /\ m.frame \in DownlinkId /\ m.status \in Reported
      /\ e.frame = m.frame /\ e.index = m.index /\ m.index \in Nat \ {0}
      /\ m.token = TokenOf(m.frame) /\ e = cache[m.token] /\ e \in Entry
      /\ m.index \in DOMAIN e.acks
  BY OwnEntry DEF DeliveryInv, AbortInv, AckInv, Entry
<1>2. new.frame = m.frame /\ new.index = m.index + 1 /\ new.step = "store"
  BY <1>1 DEF NewJob, JobAt
<1>3. \A n : n # m.index => new.acks[n] = e.acks[n] \/ n \notin DOMAIN e.acks
  BY <1>1 DEF NewJob, JobAt, WithStatus
<1>4. new.acks[m.index] = m.status
  BY <1>1 DEF NewJob, JobAt, WithStatus
<1>5. e # NoEntry
  OBVIOUS
<1>6. m.status \in Failure
  BY <1>1 DEF TxAckRetry, IsFinal, Reported
<1>7. /\ UNCHANGED <<radio, acked, pullResp, commanded>>
      /\ txAck' = txAck \ {m}
      /\ cache' = CleanedCache
      /\ job' = [job EXCEPT ![UdpLoop] = new]
      /\ job[UdpLoop] = Idle
  BY DEF TxAckRetry, LooksUp, LoopReady, environmentVars
<1> HIDE DEF new, e
<1>8. cache'[TokenOf(d)] # NoEntry => cache'[TokenOf(d)] = cache[TokenOf(d)]
  BY <1>1, <1>7, CleaningKeeps
<1>9. \A p \in Process : job'[p] = IF p = UdpLoop THEN new ELSE job[p]
  BY <1>1, <1>7 DEF TypeOK
<1>10. CASE d # m.frame
  <2>1. \A p \in Process : JobOf(p, d)' => job'[p] = job[p]
    BY <1>2, <1>9, <1>10 DEF JobOf
  <2> QED
    BY <1>1, <1>7, <1>8, <2>1, Untouched
<1>11. CASE d = m.frame
  <2>1. /\ Awaited(d, m.index)
        /\ \A n \in DOMAIN radio[d] : n # m.index => radio[d][n].status \in Failure
        /\ radio[d][m.index].status = m.status
    BY <1>1, <1>11 DEF FrameInv, TxAckFollows
  <2>2. /\ \A p \in Process : ~JobOf(p, d)
        /\ \A n \in pullResp : n.frame # d
        /\ \A n \in txAck' : n.frame # d
    BY <1>1, <1>7, <1>11 DEF FrameInv, OneCarrier
  <2>3. \A p \in Process : JobOf(p, d)' => p = UdpLoop
    BY <1>9, <2>2 DEF JobOf
  <2>4. DOMAIN radio[d] = 1 .. m.index
    BY <1>1, <2>1 DEF TypeOK, EmissionHistory, Awaited
  <2>5. NoneOnAir(d)
    BY <1>6, <2>1 DEF NoneOnAir
  <2>6. Agrees(e.acks, d, m.index - 1)
    BY <1>1, <1>5, <1>11 DEF FrameInv, EntryFollows
  <2>7. Agrees(new.acks, d, m.index)
    <3> SUFFICES ASSUME NEW n \in 1 .. m.index PROVE new.acks[n] = radio[d][n].status
      BY <2>4 DEF Agrees
    <3>1. CASE n = m.index
      BY <1>4, <2>1, <3>1
    <3>2. CASE n # m.index
      <4>1. n \in 1 .. m.index - 1 /\ n \in DOMAIN e.acks
        BY <1>1, <3>2 DEF Entry, Acks
      <4> QED
        BY <1>3, <2>6, <3>2, <4>1 DEF Agrees
    <3> QED
      BY <3>1, <3>2
  <2>8. JobFollows(d)'
    <3> SUFFICES ASSUME NEW p \in Process, JobOf(p, d)'
                 PROVE  /\ Awaited(d, job[p].index - 1)' /\ NoneOnAir(d)'
                        /\ Agrees(job[p].acks, d, job[p].index - 1)'
                        /\ job'[p].step # "transmit"
      BY DEF JobFollows
    <3>1. job'[p] = new /\ job'[p].index - 1 = m.index /\ job'[p].step = "store"
      BY <1>1, <1>2, <1>9, <2>3
    <3> QED
      BY <1>7, <2>1, <2>5, <2>7, <3>1 DEF Awaited, NoneOnAir, Agrees
  <2>9. InOrder(d)' /\ Fresh(d)'
    BY <1>1, <1>7 DEF FrameInv, InOrder, Fresh
  <2>10. EntryFollows(d)'
    BY <1>1, <1>7, <1>8 DEF FrameInv, EntryFollows, Agrees, TokenOf
  <2>11. PullRespFollows(d)' /\ TxAckFollows(d)' /\ OneCarrier(d)'
    BY <1>7, <2>2, <2>3 DEF PullRespFollows, TxAckFollows, OneCarrier
  <2> QED
    BY <2>8, <2>9, <2>10, <2>11 DEF FrameInv
<1> QED
  BY <1>10, <1>11

LEMMA TxAckKeeps ==
  ASSUME DistinctTokens, DeliveryInv, NEW m \in txAck, ReceiveTxAck(m), NEW d \in DownlinkId
  PROVE  FrameInv(d)'
<1> DEFINE e == CleanedCache[m.token]
<1>1. CASE TxAckUnknown(m) \/ TxAckPanic(m, e)
  <2>1. /\ UNCHANGED <<radio, acked, job, pullResp, commanded>>
        /\ txAck' \subseteq txAck
        /\ cache' = CleanedCache
    BY <1>1 DEF ReceiveTxAck, TxAckUnknown, TxAckPanic, LooksUp, environmentVars
  <2>2. TypeOK /\ FrameInv(d)
    BY DEF DeliveryInv, AbortInv, AckInv
  <2>3. cache'[TokenOf(d)] # NoEntry => cache'[TokenOf(d)] = cache[TokenOf(d)]
    BY <2>1, <2>2, CleaningKeeps
  <2> QED
    BY <2>1, <2>2, <2>3, Untouched DEF JobOf
<1>2. CASE e # NoEntry /\ TxAckFinal(m, e)
  BY <1>2, AnswerKeeps DEF ReceiveTxAck
<1>3. CASE e # NoEntry /\ TxAckRetry(m, e)
  BY <1>3, RetryKeeps DEF ReceiveTxAck
<1> QED
  BY <1>1, <1>2, <1>3 DEF ReceiveTxAck, HandleTxAck

-----------------------------------------------------------------------------
(* The invariant holds.                                                     *)

LEMMA UnrepeatedNext ==
  ASSUME TypeOK, Unrepeated, [Next]_vars
  PROVE  Unrepeated'
<1>1. budget' = budget \/ \E o \in Occasion : Spend(o)
  <2>1. Occasion = {"lose", "duplicate", "command", "redeliver", "expire", "move", "restart",
                    "push", "metadata"}
    BY DEF Occasion
  <2>2. ASSUME NEW t \in Task, NEW d \in DownlinkId, DeliverCommand(t, d)
        PROVE  Spend("command") \/ Spend("redeliver")
    BY <2>2 DEF DeliverCommand
  <2>3. StartAgain => budget' = budget \/ Spend("restart")
    BY DEF StartAgain
  <2> QED
    BY <2>1, <2>2, <2>3
    DEF Next, vars, environmentVars, SendStep, ReceiveTxAck, ReceivePullData, ReceivePushData, PushStep,
        ReportStats, StartClient, Consume, SendPullData, EmitPullResp, MisdirectPullResp, Lose,
        Duplicate, Expire, Move
<1>2. ASSUME NEW o \in Occasion, Spend(o) PROVE Unrepeated'
  <2>1. budget[o] > 0 /\ budget' = [budget EXCEPT ![o] = @ - 1]
    BY <1>2 DEF Spend
  <2>2. o # "duplicate" /\ o # "redeliver"
    BY <2>1 DEF Unrepeated
  <2> QED
    BY <2>1, <2>2 DEF Unrepeated, TypeOK, Occasion
<1> QED
  BY <1>1, <1>2 DEF Unrepeated

LEMMA DeliveryInvNext ==
  ASSUME DistinctTokens
  PROVE  DeliveryInv /\ [Next]_vars => DeliveryInv'
<1> SUFFICES ASSUME DeliveryInv, [Next]_vars PROVE DeliveryInv'
  OBVIOUS
<1>1. TypeOK /\ AbortInv' /\ Unrepeated'
  BY AbortInvNext, UnrepeatedNext DEF DeliveryInv, AbortInv, AckInv
<1>2. ASSUME NEW d \in DownlinkId PROVE FrameInv(d)'
  <2>1. ASSUME NEW p \in Process, SendStep(p) PROVE FrameInv(d)'
    BY <2>1, StoreKeeps, TransmitKeeps DEF SendStep
  <2>2. CASE Quiet
    BY <2>2, QuietKeeps DEF DeliveryInv
  <2> QED
    BY <1>1, <2>1, <2>2, QuietSteps, CommandKeeps, TxAckKeeps, EmitKeeps DEF DeliveryInv
<1> QED
  BY <1>1, <1>2 DEF DeliveryInv

LEMMA DeliveryInvInit ==
  ASSUME NoRepeats
  PROVE  Init => DeliveryInv
<1> SUFFICES ASSUME Init PROVE DeliveryInv
  OBVIOUS
<1>1. AbortInv /\ Unrepeated
  BY AbortInvInit DEF Init, Unrepeated, NoRepeats
<1>2. ASSUME NEW d \in DownlinkId PROVE FrameInv(d)
  <2>1. /\ radio[d] = <<>> /\ acked[d] = <<>>
        /\ cache[TokenOf(d)] = NoEntry
        /\ pullResp = {} /\ txAck = {}
        /\ \A p \in Process : job[p] = Idle
    BY TokenOfType DEF Init, UdpInit
  <2> QED
    BY <2>1
    DEF FrameInv, InOrder, Fresh, EntryFollows, JobFollows, PullRespFollows, TxAckFollows,
        OneCarrier, JobOf
<1> QED
  BY <1>1, <1>2 DEF DeliveryInv

LEMMA DeliveryInvariant ==
  ASSUME DistinctTokens, NoRepeats
  PROVE  Spec => []DeliveryInv
BY DeliveryInvInit, DeliveryInvNext, PTL DEF Spec

\* The position of an outcome in what the forwarder did for a frame is the item
\* it is about: no item is skipped, repeated or tried out of its turn, although
\* calls, datagrams and entries of a frame are handled by different processes.
THEOREM ItemsAlwaysInOrder ==
  ASSUME DistinctTokens, NoRepeats
  PROVE  Spec => []ItemsTriedInOrder
<1>1. DeliveryInv => ItemsTriedInOrder
  BY DEF DeliveryInv, FrameInv, InOrder, ItemsTriedInOrder
<1> QED
  BY <1>1, DeliveryInvariant, PTL

-----------------------------------------------------------------------------
(* The refinement.                                                          *)

\* What the mapping of DeliverySpec says the outcomes are.
Outcomes == [d \in DownlinkId |-> [n \in DOMAIN radio[d] |-> radio[d][n].status]]

Statuses(h) == [n \in DOMAIN h |-> h[n].status]

LEMMA StatusesAppend ==
  ASSUME NEW h \in Seq([index : Nat \ {0}, status : Reported]),
         NEW x \in [index : Nat \ {0}, status : Reported]
  PROVE  Statuses(Append(h, x)) = Append(Statuses(h), x.status)
<1> DEFINE k == Len(h)
           old == Statuses(h)
           new == Statuses(Append(h, x))
<1>1. k \in Nat /\ DOMAIN h = 1 .. k /\ x.status \in Reported
  BY ElementOfSeq, LenProperties
<1>2. \A i \in 1 .. k : h[i].status \in Reported
  <2>1. \A i \in 1 .. k : h[i] \in [index : Nat \ {0}, status : Reported]
    BY ElementOfSeq
  <2> QED
    BY <2>1
<1>3. old \in Seq(Reported) /\ Len(old) = k
  <2>1. old = [i \in 1 .. k |-> h[i].status]
    BY <1>1 DEF Statuses
  <2>2. old \in [1 .. k -> Reported]
    BY <1>2, <2>1
  <2> QED
    BY <1>1, <2>1, <2>2
<1>4. /\ Append(h, x) \in Seq([index : Nat \ {0}, status : Reported])
      /\ DOMAIN Append(h, x) = 1 .. k + 1
      /\ Append(h, x)[k + 1] = x /\ \A i \in 1 .. k : Append(h, x)[i] = h[i]
  BY <1>1
<1>5. new = [i \in 1 .. k + 1 |-> IF i = k + 1 THEN x.status ELSE h[i].status]
  <2>1. \A i \in 1 .. k + 1 :
          Append(h, x)[i].status = IF i = k + 1 THEN x.status ELSE h[i].status
    BY <1>1, <1>4
  <2> QED
    BY <1>4, <2>1 DEF Statuses
<1>6. \A i \in 1 .. k : old[i] = h[i].status
  BY <1>1 DEF Statuses
<1> HIDE DEF old, new, k
<1>7. new \in Seq(Reported) /\ Len(new) = k + 1
  <2>1. new \in [1 .. k + 1 -> Reported]
    BY <1>1, <1>2, <1>5
  <2> QED
    BY <1>1, <2>1, <1>5
<1>8. Append(old, x.status) \in Seq(Reported) /\ Len(Append(old, x.status)) = k + 1
  BY <1>1, <1>3
<1>9. \A i \in 1 .. k + 1 : new[i] = Append(old, x.status)[i]
  BY <1>1, <1>3, <1>5, <1>6
<1>10. new = Append(old, x.status)
  BY <1>7, <1>8, <1>9, SeqEqual
<1> QED
  BY <1>10 DEF old, new

LEMMA InitRefines == Init => Delivery!Init
BY DEF Init, UdpInit, Delivery!Init

\* The forwarder trying an item is a Try of the frame.
LEMMA EmitIsTry ==
  ASSUME DeliveryInv, NEW m \in pullResp, NEW s \in Reported, EmitPullResp(m, s)
  PROVE  Delivery!Try(m.frame)
<1> DEFINE d == m.frame
           emission == [index |-> m.index, status |-> s]
<1>1. /\ TypeOK /\ FrameInv(d)
      /\ d \in DownlinkId /\ m.index \in Nat \ {0}
  BY DEF DeliveryInv, AbortInv, AckInv, TypeOK, PullRespMsg
<1>2. acked' = acked /\ radio' = [radio EXCEPT ![d] = Append(@, emission)]
  BY DEF EmitPullResp
<1>3. /\ emission.status = s
      /\ emission \in [index : Nat \ {0}, status : Reported]
  BY <1>1
<1> HIDE DEF emission, d
<1>4. NoneOnAir(d) /\ Len(radio[d]) = m.index - 1 /\ m.index \in DOMAIN Items[d]
  BY <1>1 DEF FrameInv, PullRespFollows, Awaited, d
<1>5. radio[d] \in Seq([index : Nat \ {0}, status : Reported])
  BY <1>1 DEF TypeOK, EmissionHistory
<1>6. Items[d] \in Seq(ItemKind)
  BY <1>1, SemtechUdpAssumption
<1>7. Outcomes' = [Outcomes EXCEPT ![d] = Append(@, s)]
  <2> DEFINE old == Statuses(radio[d])
             new == Statuses(radio'[d])
  <2>1. radio'[d] = Append(radio[d], emission)
    BY <1>1, <1>2 DEF TypeOK
  <2>3. new = Append(old, s)
    BY <1>3, <1>5, <2>1, StatusesAppend
  <2>4. \A c \in DownlinkId : c # d => radio'[c] = radio[c]
    BY <1>1, <1>2 DEF TypeOK
  <2>5. Outcomes[d] = old /\ Outcomes'[d] = new
    BY <1>1 DEF Outcomes, Statuses
  <2> HIDE DEF old, new
  <2>6. \A c \in DownlinkId : Outcomes'[c] = IF c = d THEN Append(old, s) ELSE Outcomes[c]
    BY <2>3, <2>4, <2>5 DEF Outcomes
  <2>7. DOMAIN Outcomes' = DownlinkId /\ DOMAIN Outcomes = DownlinkId
    BY DEF Outcomes
  <2> QED
    BY <2>5, <2>6, <2>7, Zenon DEF Outcomes
<1>8. ~Delivery!Done(d)
  BY <1>1, <1>4, FailureAssumption DEF Delivery!Done, NoneOnAir
<1>9. Len([n \in DOMAIN radio[d] |-> radio[d][n].status]) < Len(Items[d])
  BY <1>4, <1>5, <1>6
<1> QED
  BY <1>1, <1>2, <1>7, <1>8, <1>9 DEF Delivery!Try, Delivery!Reported, Reported, Outcomes, d

\* The acknowledgement the backend queues is the one true Answer for the frame.
LEMMA FinalIsAnswer ==
  ASSUME DistinctTokens, DeliveryInv, NEW m \in txAck, ReceiveTxAck(m), acked' # acked
  PROVE  Delivery!Answer(m.frame)
<1> DEFINE e == CleanedCache[m.token]
           d == m.frame
           acks == WithStatus(e, m.status)
<1>1. /\ e # NoEntry
      /\ IsFinal(e, m.status)
      /\ radio' = radio
      /\ acked' = [acked EXCEPT ![e.frame] = Append(@, acks)]
  BY DEF ReceiveTxAck, HandleTxAck, TxAckUnknown, TxAckPanic, TxAckRetry, TxAckFinal,
         environmentVars
<1>2. /\ TypeOK /\ FrameInv(d) /\ d \in DownlinkId
      /\ e \in Entry /\ e = cache[TokenOf(d)] /\ e.frame = d /\ e.index = m.index
      /\ InProgress(d, e.acks, m.index)
      /\ m.index \in DOMAIN Items[d] /\ m.status \in Reported
  BY <1>1, OwnEntry DEF DeliveryInv, AbortInv, AckInv
<1>3. DOMAIN acks = DOMAIN e.acks
  BY DEF WithStatus
<1>4. acks[m.index] = m.status /\ \A i \in DOMAIN e.acks : i # m.index => acks[i] = e.acks[i]
  BY <1>2 DEF WithStatus, InProgress
<1> HIDE DEF e, acks, d
<1>5. /\ acked[d] = <<>>
      /\ Len(radio[d]) = m.index
      /\ radio[d][m.index].status = m.status
      /\ Agrees(e.acks, d, m.index - 1)
  BY <1>1, <1>2 DEF FrameInv, TxAckFollows, Awaited, EntryFollows, d
<1>6. /\ radio[d] \in Seq([index : Nat \ {0}, status : Reported])
      /\ Items[d] \in Seq(ItemKind)
  BY <1>2, SemtechUdpAssumption DEF TypeOK, EmissionHistory
<1> DEFINE n == Len(Items[d])
<1>7. /\ n \in Nat /\ DOMAIN Items[d] = 1 .. n
      /\ m.index \in 1 .. n
      /\ DOMAIN radio[d] = 1 .. m.index
  BY <1>2, <1>5, <1>6
<1>8. DOMAIN e.acks = 1 .. n /\ Len(e.acks) = n
  BY <1>2, <1>7 DEF InProgress, Entry, Acks
<1> HIDE DEF n
<1>9. acks = [i \in 1 .. n |-> IF i \in DOMAIN radio[d] THEN radio[d][i].status ELSE "IGNORED"]
  <2>1. ASSUME NEW i \in 1 .. n
        PROVE  acks[i] = IF i \in DOMAIN radio[d] THEN radio[d][i].status ELSE "IGNORED"
    <3>1. CASE i = m.index
      BY <1>4, <1>5, <1>7, <3>1
    <3>2. CASE i < m.index
      <4>1. i \in 1 .. m.index - 1
        BY <1>7, <3>2
      <4> QED
        BY <1>4, <1>5, <1>7, <1>8, <3>2, <4>1 DEF Agrees
    <3>3. CASE i > m.index
      <4>1. i \notin DOMAIN radio[d] /\ acks[i] = e.acks[i] /\ ~(i < m.index)
        BY <1>4, <1>7, <1>8, <3>3
      <4> QED
        BY <1>2, <1>8, <4>1 DEF InProgress
    <3> QED
      BY <1>7, <3>1, <3>2, <3>3
  <2>2. acks = [i \in DOMAIN acks |-> acks[i]]
    BY DEF acks, WithStatus
  <2> QED
    BY <1>3, <1>8, <2>1, <2>2
<1>10. acks = Delivery!Report(d)
  BY <1>2, <1>9 DEF Delivery!Report, n
<1>11. Delivery!Done(d) \/ (n > 0 /\ Len([i \in DOMAIN radio[d] |-> radio[d][i].status]) = n)
  <2>1. CASE m.status = "OK"
    BY <1>2, <1>5, <1>7, <2>1 DEF Delivery!Done
  <2>2. CASE m.status # "OK"
    <3>1. m.index = n
      BY <1>1, <1>2, <1>7, <1>8, <2>2 DEF IsFinal
    <3>2. Len([i \in 1 .. n |-> radio[d][i].status]) = n
      BY <1>7
    <3> QED
      BY <1>7, <3>1, <3>2
  <2> QED
    BY <2>1, <2>2
<1>12. Append(<<>>, acks) = <<acks>>
  OBVIOUS
<1>13. acked' = [acked EXCEPT ![d] = <<acks>>]
  BY <1>1, <1>2, <1>5, <1>12
<1>14. Outcomes' = Outcomes
  BY <1>1 DEF Outcomes
<1> QED
  BY <1>2, <1>5, <1>10, <1>11, <1>13, <1>14 DEF Delivery!Answer, Outcomes, n, d

LEMMA StepRefines ==
  ASSUME DistinctTokens, DeliveryInv, [Next]_vars
  PROVE  [Delivery!Next]_<<Outcomes, acked>>
<1>1. \/ UNCHANGED <<radio, acked>>
      \/ \E m \in pullResp, s \in Reported : EmitPullResp(m, s)
      \/ \E m \in txAck : ReceiveTxAck(m) /\ acked' # acked
  <2>1. UNCHANGED radio \/ \E m \in pullResp, s \in Reported : EmitPullResp(m, s)
    BY DEF Next, vars, environmentVars, DeliverCommand, SendStep, ReceiveTxAck, ReceivePullData,
           ReceivePushData, PushStep, ReportStats, StartClient, Consume, SendPullData,
           MisdirectPullResp, Lose, Duplicate, Expire, Move, StartAgain
  <2>2. UNCHANGED acked \/ \E m \in txAck : ReceiveTxAck(m)
    BY OtherSteps DEF DeliverCommand, SendDownlinkFrame, SendStep, SetDownlinkCache,
           TransmitPullResp, Expire, ExpireEntry, StartAgain, Restart
  <2>3. \A m \in txAck : ReceiveTxAck(m) => UNCHANGED radio
    BY DEF ReceiveTxAck, environmentVars
  <2> QED
    BY <2>1, <2>2, <2>3
<1>2. CASE UNCHANGED <<radio, acked>>
  BY <1>2 DEF Outcomes
<1>3. ASSUME NEW m \in pullResp, NEW s \in Reported, EmitPullResp(m, s)
      PROVE  Delivery!Next
  <2>1. m.frame \in DownlinkId
    BY DEF DeliveryInv, AbortInv, AckInv, TypeOK, PullRespMsg
  <2> QED
    BY <1>3, <2>1, EmitIsTry DEF Delivery!Next
<1>4. ASSUME NEW m \in txAck, ReceiveTxAck(m), acked' # acked
      PROVE  Delivery!Next
  <2>1. m.frame \in DownlinkId
    BY DEF DeliveryInv, AbortInv, AckInv, TypeOK, TxAckMsg
  <2> QED
    BY <1>4, <2>1, FinalIsAnswer DEF Delivery!Next
<1> QED
  BY <1>1, <1>2, <1>3, <1>4

THEOREM DeliveryImplemented ==
  ASSUME DistinctTokens, NoRepeats
  PROVE  Spec => DeliverySpec
<1>1. DeliveryInv /\ [Next]_vars => [Delivery!Next]_<<Outcomes, acked>>
  BY StepRefines
<1> QED
  BY <1>1, InitRefines, DeliveryInvariant, PTL DEF Spec, DeliverySpec, Delivery!Spec, Outcomes

-----------------------------------------------------------------------------
(* The emissions counted for the reports.                                   *)

Total == ledger["tx"] + ledger["lostTx"] + PendingTx

OnAir(d) == \E n \in DOMAIN radio[d] : radio[d][n].status = "OK"

\* The frames that were emitted and whose TX_ACK is no longer to come.  The count
\* never runs ahead of them, which is more than EmissionsNotOvercounted says.
Settled == {d \in DownlinkId : OnAir(d) /\ \A m \in txAck : m.frame # d}

EmissionInv == DeliveryInv /\ Total \in Nat /\ Total <= Cardinality(Settled)

\* There are no more downlink ids than tokens when none share one.
LEMMA DownlinksFinite ==
  ASSUME DistinctTokens, NEW S \in SUBSET DownlinkId
  PROVE  IsFiniteSet(S) /\ Cardinality(S) \in Nat
<1> DEFINE f == [d \in S |-> TokenOf(d)]
<1>1. f \in [S -> Token] /\ \A d, e \in S : f[d] = f[e] => d = e
  BY TokenOfType DEF DistinctTokens
<1>2. f \in Injection(S, Token)
  BY <1>1 DEF Injection, IsInjective
<1>3. IsFiniteSet(Token)
  BY FS_Interval, SemtechUdpAssumption DEF Token
<1> QED
  BY <1>2, <1>3, FS_Injection, FS_CardinalityType

\* An acknowledgement counts one emission at most, and none if the item that
\* ended the frame failed.
LEMMA EmittedOnce ==
  ASSUME NEW d \in DownlinkId, NEW e \in Entry, NEW s \in Reported, NEW items,
         InProgress(d, e.acks, e.index), e.index \in DOMAIN e.acks
  PROVE  LET k == Cardinality(Emitted(items, WithStatus(e, s))) IN
         k \in {0, 1} /\ (k = 1 => s = "OK")
<1> DEFINE acks == WithStatus(e, s)
           E == Emitted(items, acks)
<1>1. /\ DOMAIN acks = DOMAIN e.acks /\ acks[e.index] = s
      /\ \A j \in DOMAIN acks : j # e.index => acks[j] = e.acks[j]
  BY DEF WithStatus
<1>2. \A j \in DOMAIN acks : j # e.index => acks[j] # "OK"
  BY <1>1, FailureAssumption DEF InProgress
<1>3. E \subseteq {e.index} /\ (s # "OK" => E = {})
  BY <1>1, <1>2 DEF Emitted, Counted
<1> HIDE DEF E
<1>4. E = {} \/ (E = {e.index} /\ s = "OK")
  BY <1>3
<1> QED
  BY <1>4, FS_EmptySet, FS_Singleton DEF E

\* The total only grows when an acknowledgement is counted.
LEMMA TotalStep ==
  ASSUME TypeOK, [Next]_vars
  PROVE  Total' = Total \/ \E m \in txAck : ReceiveTxAck(m)
<1> USE DEF stateVars, channelVars, networkVars, environmentVars
<1>1. stats.tx \in Nat /\ loop \in Loop /\ ledger \in [Account -> Nat]
  BY DEF TypeOK, Stats, Ledger
<1>2. CASE UNCHANGED <<ledger, stats, loop>>
  BY <1>2 DEF Total, PendingTx
<1>3. ForwardFrame => Total' = Total
  <2> SUFFICES ASSUME ForwardFrame PROVE Total' = Total
    OBVIOUS
  <2>1. loop.at # "metadata" /\ loop'.at # "metadata" /\ stats'.tx = stats.tx
    BY DEF ForwardFrame, InFrames, NextFrame, Receiving, CountUplink
  <2>2. ledger'["tx"] = ledger["tx"] /\ ledger'["lostTx"] = ledger["lostTx"]
    BY <1>1 DEF ForwardFrame, Account
  <2> QED
    BY <2>1, <2>2 DEF Total, PendingTx
<1>4. ExportStats => Total' = Total
  <2> SUFFICES ASSUME ExportStats PROVE Total' = Total
    OBVIOUS
  <2>1. loop.at # "metadata" /\ ledger' = ledger
    BY DEF ExportStats, InFrames
  <2>2. CASE loop.stat
    BY <1>1, <2>1, <2>2 DEF ExportStats, Total, PendingTx, ZeroStats
  <2>3. CASE ~loop.stat
    BY <2>1, <2>3 DEF ExportStats, Total, PendingTx, Receiving
  <2> QED
    BY <2>2, <2>3
<1>5. ASSUME NEW ok \in BOOLEAN, SendGatewayStats(ok) PROVE Total' = Total
  <2>1. loop.at = "metadata" /\ loop'.at # "metadata" /\ stats' = stats
    BY <1>5 DEF SendGatewayStats, Receiving
  <2>2. loop.report.rx \in Nat /\ loop.report.tx \in Nat
    BY <1>1, <2>1 DEF Loop, Receiving, Stats
  <2>3. \/ ledger'["tx"] = ledger["tx"] + loop.report.tx /\ ledger'["lostTx"] = ledger["lostTx"]
        \/ ledger'["lostTx"] = ledger["lostTx"] + loop.report.tx /\ ledger'["tx"] = ledger["tx"]
    BY <1>1, <1>5, <2>2 DEF SendGatewayStats, Account
  <2> QED
    BY <1>1, <2>1, <2>2, <2>3 DEF Total, PendingTx, Account
<1>6. StartAgain => Total' = Total
  <2> SUFFICES ASSUME StartAgain PROVE Total' = Total
    OBVIOUS
  <2>1. PendingRx \in Nat /\ PendingTx \in Nat
    BY <1>1 DEF PendingRx, PendingTx, Loop, Receiving, Stats, TypeOK
  <2>2. ledger'["lostTx"] = ledger["lostTx"] + PendingTx /\ ledger'["tx"] = ledger["tx"]
    BY <1>1, <2>1 DEF StartAgain, Restart, Account
  <2>3. PendingTx' = 0
    BY DEF StartAgain, Restart, PendingTx, ZeroStats, Receiving
  <2> QED
    BY <1>1, <2>1, <2>2, <2>3 DEF Total, Account
<1>7. ASSUME NEW m \in PushData, ReceivePushData(m) PROVE Total' = Total
  <2>1. UNCHANGED <<stats, ledger>> /\ loop.at # "metadata" /\ loop'.at # "metadata"
    BY <1>7 DEF ReceivePushData, HandlePushData, LoopReady, Receiving
  <2> QED
    BY <2>1 DEF Total, PendingTx
<1>8. ASSUME IgnoreFrame PROVE Total' = Total
  <2>1. UNCHANGED <<stats, ledger>> /\ loop.at # "metadata" /\ loop'.at # "metadata"
    BY <1>8 DEF IgnoreFrame, InFrames, NextFrame
  <2> QED
    BY <2>1 DEF Total, PendingTx
<1>9. \/ UNCHANGED <<loop, ledger, stats>>
      \/ \E m \in txAck : ReceiveTxAck(m)
      \/ \E m \in PushData : ReceivePushData(m)
      \/ IgnoreFrame \/ ForwardFrame \/ ExportStats
      \/ \E ok \in BOOLEAN : SendGatewayStats(ok)
      \/ StartAgain
  BY DEF Next, vars, udpVars, DeliverCommand, SendDownlinkFrame, SendStep, SetDownlinkCache,
         TransmitPullResp, ReceivePullData, HandlePullData, PushStep, ReportStats, StartClient,
         OpenChannel, Consume, TakeEvent, SendPullData, EmitPullResp, MisdirectPullResp, Lose,
         Duplicate, Expire, ExpireEntry, Move
<1> QED
  BY <1>2, <1>3, <1>4, <1>5, <1>6, <1>7, <1>8, <1>9

LEMMA SettledStep ==
  ASSUME DeliveryInv, [Next]_vars
  PROVE  Settled \subseteq Settled'
<1> SUFFICES ASSUME NEW d \in Settled PROVE d \in Settled'
  OBVIOUS
<1>1. /\ TypeOK /\ Unrepeated /\ FrameInv(d)
      /\ d \in DownlinkId /\ OnAir(d) /\ \A m \in txAck : m.frame # d
  BY DEF Settled, DeliveryInv, AbortInv, AckInv
<1>2. CASE UNCHANGED radio /\ txAck' \subseteq txAck
  BY <1>1, <1>2 DEF Settled, OnAir
<1>3. ASSUME NEW m \in pullResp, NEW s \in Reported, EmitPullResp(m, s)
      PROVE  d \in Settled'
  <2>1. m.frame # d
    BY <1>1, FailureAssumption DEF FrameInv, PullRespFollows, NoneOnAir, OnAir
  <2>2. radio'[d] = radio[d] /\ \A n \in txAck' : n \in txAck \/ n.frame = m.frame
    BY <1>1, <1>3, <2>1 DEF EmitPullResp, TypeOK
  <2> QED
    BY <1>1, <2>1, <2>2 DEF Settled, OnAir
<1>4. ASSUME NEW p \in Process, SendStep(p) PROVE UNCHANGED <<radio, txAck>>
  BY <1>4 DEF SendStep, SetDownlinkCache, TransmitPullResp, networkVars, environmentVars
<1>5. ASSUME NEW m \in txAck, ReceiveTxAck(m) PROVE UNCHANGED radio /\ txAck' \subseteq txAck
  BY <1>5 DEF ReceiveTxAck, HandleTxAck, TxAckUnknown, TxAckPanic, TxAckFinal, TxAckRetry,
              LooksUp, environmentVars
<1>6. ASSUME NEW t \in Task, NEW c \in DownlinkId, DeliverCommand(t, c)
      PROVE  UNCHANGED <<radio, txAck>>
  BY <1>6 DEF DeliverCommand, SendDownlinkFrame, networkVars
<1> QED
  BY <1>1, <1>2, <1>3, <1>4, <1>5, <1>6, QuietSteps DEF Quiet

LEMMA CountStep ==
  ASSUME DistinctTokens, DeliveryInv, NEW m \in txAck, ReceiveTxAck(m)
  PROVE  \/ Total' = Total
         \/ /\ Total' = Total + 1
            /\ m.frame \in Settled' \ Settled
<1> DEFINE e == CleanedCache[m.token]
           d == m.frame
           k == Cardinality(Emitted(Items[d], WithStatus(e, m.status)))
<1>1. TypeOK /\ FrameInv(d) /\ d \in DownlinkId
  BY DEF DeliveryInv, AbortInv, AckInv, TypeOK, TxAckMsg
<1>2. stats.tx \in Nat /\ loop \in Loop /\ ledger \in [Account -> Nat]
  BY <1>1 DEF TypeOK, Stats, Ledger
<1>3. UNCHANGED <<loop, ledger>>
  BY DEF ReceiveTxAck, HandleTxAck, TxAckUnknown, TxAckPanic, TxAckFinal, TxAckRetry
<1>4. CASE e # NoEntry /\ TxAckFinal(m, e)
  <2>1. /\ e.frame = d /\ e \in Entry /\ m.status \in Reported
        /\ InProgress(d, e.acks, e.index) /\ e.index \in DOMAIN e.acks
    BY <1>4, OwnEntry
  <2>2. stats'.tx = stats.tx + k
    BY <1>4, <2>1 DEF TxAckFinal, CountDownlink
  <2>3. k \in {0, 1} /\ (k = 1 => m.status = "OK")
    BY <1>1, <2>1, EmittedOnce
  <2>4. loop.at # "metadata"
    BY <1>4 DEF TxAckFinal, LooksUp, LoopReady, Receiving
  <2> HIDE DEF k
  <2>5. Total' = Total + k
    BY <1>2, <1>3, <2>2, <2>3, <2>4 DEF Total, PendingTx, Account
  <2>6. CASE k = 0
    <3>1. Total \in Nat
      BY <1>2, <2>4 DEF Total, PendingTx, Account
    <3> QED
      BY <2>5, <2>6, <3>1
  <2>7. CASE k = 1
    <3>1. radio' = radio /\ txAck' = txAck \ {m}
      BY <1>4 DEF ReceiveTxAck, TxAckFinal, LooksUp, environmentVars
    <3>2. OnAir(d)
      <4>1. radio[d][m.index].status = "OK" /\ Len(radio[d]) = m.index /\ m.index \in Nat \ {0}
        BY <1>1, <2>3, <2>7 DEF FrameInv, TxAckFollows, Awaited, TypeOK, TxAckMsg
      <4>2. m.index \in DOMAIN radio[d]
        BY <1>1, <4>1 DEF TypeOK, EmissionHistory
      <4> QED
        BY <4>1, <4>2 DEF OnAir
    <3>3. \A n \in txAck' : n.frame # d
      BY <1>1, <3>1 DEF FrameInv, OneCarrier
    <3>4. d \in Settled' /\ d \notin Settled
      BY <1>1, <3>1, <3>2, <3>3 DEF Settled, OnAir
    <3> QED
      BY <2>5, <2>7, <3>4
  <2> QED
    BY <2>3, <2>6, <2>7
<1>5. CASE UNCHANGED stats
  BY <1>3, <1>5 DEF Total, PendingTx
<1> QED
  BY <1>4, <1>5 DEF ReceiveTxAck, HandleTxAck, TxAckUnknown, TxAckPanic, TxAckRetry

LEMMA EmissionInvNext ==
  ASSUME DistinctTokens
  PROVE  EmissionInv /\ [Next]_vars => EmissionInv'
<1> SUFFICES ASSUME EmissionInv, [Next]_vars PROVE EmissionInv'
  OBVIOUS
<1>1. DeliveryInv' /\ TypeOK /\ DeliveryInv
  BY DeliveryInvNext DEF EmissionInv, DeliveryInv, AbortInv, AckInv
<1>2. Settled \subseteq Settled' /\ Settled' \subseteq DownlinkId
  BY <1>1, SettledStep DEF Settled
<1>3. /\ IsFiniteSet(Settled') /\ Cardinality(Settled') \in Nat
      /\ IsFiniteSet(Settled) /\ Cardinality(Settled) \in Nat
  <2>1. Settled \subseteq DownlinkId
    BY DEF Settled
  <2> QED
    BY <1>2, <2>1, DownlinksFinite
<1>4. Cardinality(Settled) <= Cardinality(Settled')
  BY <1>2, <1>3, FS_Subset
<1>5. CASE Total' = Total
  BY <1>1, <1>3, <1>4, <1>5 DEF EmissionInv
<1>6. ASSUME NEW m \in txAck, ReceiveTxAck(m) PROVE EmissionInv'
  <2>1. CASE Total' = Total + 1 /\ m.frame \in Settled' \ Settled
    <3>1. Settled \union {m.frame} \subseteq Settled'
      BY <1>2, <2>1
    <3>2. Cardinality(Settled \union {m.frame}) = Cardinality(Settled) + 1
      BY <1>3, <2>1, FS_AddElement
    <3>3. Cardinality(Settled) + 1 <= Cardinality(Settled')
      BY <1>3, <3>1, <3>2, FS_Subset
    <3> QED
      BY <1>1, <1>3, <2>1, <3>3 DEF EmissionInv
  <2> QED
    BY <1>1, <1>5, <1>6, <2>1, CountStep
<1> QED
  BY <1>1, <1>5, <1>6, TotalStep

\* Retries, late answers, restarts and lost reports never make the gateway report
\* an emission that did not happen, or one of them twice.
THEOREM EmissionsNeverOvercounted ==
  ASSUME DistinctTokens, NoRepeats
  PROVE  Spec => []EmissionsNotOvercounted
<1>1. Init => EmissionInv
  <2> SUFFICES ASSUME Init PROVE EmissionInv
    OBVIOUS
  <2>1. Total = 0
    BY DEF Init, UdpInit, Total, PendingTx, ZeroStats, Receiving, Account
  <2>2. Cardinality(Settled) \in Nat
    BY DownlinksFinite DEF Settled
  <2> QED
    BY <2>1, <2>2, DeliveryInvInit DEF EmissionInv
<1>2. EmissionInv => EmissionsNotOvercounted
  <2> SUFFICES ASSUME EmissionInv PROVE EmissionsNotOvercounted
    OBVIOUS
  <2> DEFINE S == {d \in DownlinkId : OnAir(d)}
  <2>1. IsFiniteSet(S) /\ Cardinality(S) \in Nat /\ Settled \subseteq S
    BY DownlinksFinite DEF Settled
  <2>2. Cardinality(Settled) <= Cardinality(S) /\ Cardinality(Settled) \in Nat
    BY <2>1, FS_Subset, FS_CardinalityType
  <2>3. Total <= Cardinality(S)
    BY <2>1, <2>2 DEF EmissionInv
  <2> QED
    BY <2>3 DEF EmissionsNotOvercounted, Total, OnAir
<1> QED
  BY <1>1, <1>2, EmissionInvNext, PTL DEF Spec

-----------------------------------------------------------------------------
(* No frame is given up but for a fault.                                    *)

\* What is on its way to or from the forwarder is an item that translates.
OnlyGoodItems == \A m \in pullResp \union txAck : Translates(m.frame, m.index)

AnswerInv == DeliveryInv /\ OnlyGoodItems /\ ~aborted

\* A TX_ACK never meets an entry without items, nor an item count_downlink fails on.
LEMMA AnswerCounts ==
  ASSUME DistinctTokens, AnswerInv, NEW m \in txAck, CleanedCache[m.token] # NoEntry
  PROVE  LET e == CleanedCache[m.token] IN
         /\ e.frame = m.frame
         /\ e.index \in DOMAIN e.acks
         /\ ~CountFails(Items[e.frame], WithStatus(e, m.status))
<1> DEFINE e == CleanedCache[m.token]
<1>1. /\ e.frame = m.frame /\ e.index = m.index /\ e \in Entry
      /\ InProgress(m.frame, e.acks, m.index)
      /\ m.index \in DOMAIN e.acks
  BY OwnEntry DEF AnswerInv
<1>2. Items[m.frame][m.index] = "good"
  BY DEF AnswerInv, OnlyGoodItems, Translates
<1> HIDE DEF e
<1>3. ASSUME NEW i \in DOMAIN WithStatus(e, m.status), WithStatus(e, m.status)[i] = "OK"
      PROVE  i = m.index
  <2> SUFFICES ASSUME i # m.index PROVE FALSE
    OBVIOUS
  <2>1. i \in DOMAIN e.acks /\ e.acks[i] = "OK"
    BY <1>1, <1>3 DEF WithStatus
  <2>2. e.acks[i] \in Failure \/ e.acks[i] = "IGNORED"
    BY <1>1, <2>1 DEF InProgress
  <2> QED
    BY <2>1, <2>2, FailureAssumption
<1>4. ~CountFails(Items[e.frame], WithStatus(e, m.status))
  BY <1>1, <1>2, <1>3 DEF CountFails, CountFailsAt
<1> QED
  BY <1>1, <1>4 DEF e

LEMMA AnswerInvNext ==
  ASSUME DistinctTokens, AnswerInv, [Next]_vars
  PROVE  AnswerInv'
<1> USE DEF stateVars, channelVars, networkVars, environmentVars
<1>1. TypeOK /\ Unrepeated /\ DeliveryInv'
  BY DeliveryInvNext DEF AnswerInv, DeliveryInv, AbortInv, AckInv
<1>2. OnlyGoodItems'
  <2>1. ASSUME NEW t \in Task, NEW d \in DownlinkId, DeliverCommand(t, d) PROVE OnlyGoodItems'
    BY <2>1 DEF DeliverCommand, SendDownlinkFrame, AnswerInv, OnlyGoodItems, Translates
  <2>2. ASSUME NEW p \in Process, SendStep(p) PROVE OnlyGoodItems'
    BY <2>2 DEF SendStep, SetDownlinkCache, TransmitPullResp, AnswerInv, OnlyGoodItems, Translates
  <2>3. ASSUME NEW m \in txAck, ReceiveTxAck(m) PROVE OnlyGoodItems'
    <3>1. pullResp' = pullResp /\ txAck' \subseteq txAck
      BY <2>3
      DEF ReceiveTxAck, HandleTxAck, TxAckUnknown, TxAckPanic, TxAckFinal, TxAckRetry, LooksUp
    <3> QED
      BY <3>1 DEF AnswerInv, OnlyGoodItems, Translates
  <2>4. ASSUME NEW m \in pullResp, NEW s \in Reported, EmitPullResp(m, s) PROVE OnlyGoodItems'
    BY <2>4 DEF EmitPullResp, AnswerInv, OnlyGoodItems, Translates
  <2>5. CASE Quiet
    BY <2>5 DEF Quiet, AnswerInv, OnlyGoodItems, Translates
  <2> QED
    BY <1>1, <2>1, <2>2, <2>3, <2>4, <2>5, QuietSteps
<1>3. ~aborted'
  <2>1. ASSUME NEW m \in txAck, ReceiveTxAck(m) PROVE ~aborted'
    <3>1. ~TxAckPanic(m, CleanedCache[m.token]) \/ CleanedCache[m.token] = NoEntry
      BY AnswerCounts DEF TxAckPanic
    <3> QED
      BY <2>1, <3>1 DEF ReceiveTxAck, HandleTxAck, TxAckUnknown, TxAckFinal, TxAckRetry, AnswerInv
  <2>2. ASSUME NEW t \in Task, NEW d \in DownlinkId, DeliverCommand(t, d) PROVE ~aborted'
    BY <2>2 DEF DeliverCommand, SendDownlinkFrame, AnswerInv
  <2>3. ASSUME NEW p \in Process, SendStep(p) PROVE ~aborted'
    BY <2>3 DEF SendStep, SetDownlinkCache, TransmitPullResp, AnswerInv
  <2>4. ASSUME NEW m \in pullData, ReceivePullData(m) PROVE ~aborted'
    BY <2>4 DEF ReceivePullData, HandlePullData, AnswerInv
  <2>5. ASSUME NEW m \in PushData, ReceivePushData(m) PROVE ~aborted'
    BY <2>5 DEF ReceivePushData, HandlePushData, AnswerInv
  <2>6. PushStep \/ ReportStats \/ StartClient \/ Consume => ~aborted'
    BY DEF PushStep, IgnoreFrame, ForwardFrame, ExportStats, ReportStats, SendGatewayStats,
           StartClient, OpenChannel, Consume, TakeEvent, AnswerInv
  <2>7. ASSUME NEW g \in Gateway, SendPullData(g) PROVE ~aborted'
    BY <2>7 DEF SendPullData, AnswerInv
  <2>8. ASSUME NEW m \in pullResp
        PROVE  (\E s \in Reported : EmitPullResp(m, s)) \/ MisdirectPullResp(m) => ~aborted'
    BY DEF EmitPullResp, MisdirectPullResp, AnswerInv
  <2>9. Lose \/ Duplicate \/ Expire => ~aborted'
    BY DEF Lose, Duplicate, Expire, ExpireEntry, AnswerInv
  <2>10. ASSUME NEW a \in Addr, Move(a) PROVE ~aborted'
    BY <2>10 DEF Move, udpVars, AnswerInv
  <2>11. StartAgain \/ UNCHANGED vars => ~aborted'
    BY DEF StartAgain, Restart, vars, udpVars, AnswerInv
  <2> QED
    BY <2>1, <2>2, <2>3, <2>4, <2>5, <2>6, <2>7, <2>8, <2>9, <2>10, <2>11 DEF Next
<1> QED
  BY <1>1, <1>2, <1>3 DEF AnswerInv

Excused(d) ==
  \/ acked'[d] # acked[d]
  \/ ~HasRoom /\ \E m \in txAck : m.frame = d
  \/ \E p \in Process : JobOf(p, d) /\ (pullAddr = NoAddr \/ ~Translates(d, job[p].index))
  \/ \E m \in pullResp : m.frame = d /\ m.dest # home
  \/ \E o \in {"lose", "expire", "restart"} : budget'[o] < budget[o]

Live(k) == cache[k] # NoEntry /\ ~cache[k].expired

\* A frame whose calls, datagrams and live entry a step leaves alone stays answerable.
LEMMA StaysAnswerable ==
  ASSUME NEW d \in DownlinkId, Answerable(d),
         \A p \in Process : JobOf(p, d) => job'[p] = job[p],
         \A m \in pullResp \union txAck : m.frame = d => m \in pullResp' \union txAck',
         Live(TokenOf(d)) => Live(TokenOf(d))'
  PROVE  Answerable(d)'
BY DEF Answerable, JobOf, Live, TokenOf

\* Cleaning removes no live entry.
LEMMA LiveKept ==
  ASSUME cache' = CleanedCache, NEW k \in Token, Live(k)
  PROVE  cache'[k] = cache[k] /\ Live(k)'
BY DEF CleanedCache, Live

LEMMA SpendLess ==
  ASSUME TypeOK, NEW o \in Occasion, Spend(o)
  PROVE  budget'[o] < budget[o]
BY DEF TypeOK, Spend

LEMMA SendGivesUp ==
  ASSUME DistinctTokens, AnswerInv, NEW p \in Process, SendStep(p),
         NEW d \in DownlinkId, Answerable(d)
  PROVE  Answerable(d)' \/ Excused(d)
<1> DEFINE c == job[p].frame
<1>1. TypeOK /\ TokenOf(d) \in Token /\ job[p] # Idle /\ c \in DownlinkId /\ TokenOf(c) \in Token
  BY TokenOfType
  DEF AnswerInv, DeliveryInv, AbortInv, AckInv, SendStep, SetDownlinkCache, TransmitPullResp,
      TypeOK, Job
<1>2. CASE SetDownlinkCache(p)
  <2> DEFINE entry == [frame |-> c, acks |-> job[p].acks, index |-> job[p].index,
                       expired |-> FALSE]
             next == JobAt("transmit", c, job[p].acks, job[p].index)
  <2>1. /\ UNCHANGED <<pullResp, txAck>>
        /\ cache' = [cache EXCEPT ![TokenOf(c)] = entry]
        /\ job' = [job EXCEPT ![p] = next]
    BY <1>2 DEF SetDownlinkCache, networkVars
  <2>2. next.frame = c /\ next # Idle /\ entry # NoEntry /\ ~entry.expired
    <3>1. next \in Job /\ entry \in Entry
      BY <1>1 DEF TypeOK, JobAt, Job, Entry
    <3> QED
      BY <3>1, AbsenceAssumption DEF JobAt
  <2> HIDE DEF entry, next, c
  <2>3. job'[p] = next /\ \A q \in Process : q # p => job'[q] = job[q]
    BY <1>1, <2>1 DEF TypeOK
  <2>4. \A k \in Token : cache'[k] = IF k = TokenOf(c) THEN entry ELSE cache[k]
    BY <1>1, <2>1 DEF TypeOK
  <2>5. CASE d = c
    BY <1>1, <2>2, <2>3, <2>4, <2>5 DEF Answerable, JobOf, TokenOf
  <2>6. CASE d # c
    <3>1. TokenOf(c) # TokenOf(d)
      BY <1>1, <2>6 DEF DistinctTokens
    <3>2. Live(TokenOf(d)) => Live(TokenOf(d))'
      BY <1>1, <2>4, <3>1 DEF Live, TokenOf
    <3>3. \A q \in Process : JobOf(q, d) => job'[q] = job[q]
      BY <2>3, <2>6 DEF JobOf, c
    <3> QED
      BY <2>1, <3>2, <3>3, StaysAnswerable
  <2> QED
    BY <2>5, <2>6
<1>3. CASE TransmitPullResp(p)
  <2>1. /\ UNCHANGED <<cache, txAck>>
        /\ pullResp \subseteq pullResp'
        /\ job' = [job EXCEPT ![p] = Idle]
        /\ job[p].step = "transmit"
    BY <1>3 DEF TransmitPullResp, stateVars
  <2>2. \A q \in Process : q # p => job'[q] = job[q]
    BY <1>1, <2>1 DEF TypeOK
  <2>3. CASE c # d
    <3>1. \A q \in Process : JobOf(q, d) => job'[q] = job[q]
      BY <2>2, <2>3 DEF JobOf
    <3> QED
      BY <2>1, <3>1, StaysAnswerable DEF Live, TokenOf
  <2>4. CASE c = d /\ (pullAddr = NoAddr \/ ~Translates(d, job[p].index))
    BY <1>1, <2>4 DEF Excused, JobOf
  <2>5. CASE c = d /\ pullAddr # NoAddr /\ Translates(d, job[p].index)
    <3>1. \E m \in pullResp' : m.frame = d
      <4> DEFINE sent == [dest |-> pullAddr, token |-> TokenOf(c), frame |-> c,
                          index |-> job[p].index, copy |-> FALSE]
      <4>1. pullResp' = pullResp \union {sent}
        BY <1>3, <2>5 DEF TransmitPullResp
      <4>2. sent.frame = d
        BY <2>5
      <4> QED
        BY <4>1, <4>2
    <3>2. Live(TokenOf(d)) => Answerable(d)'
      BY <2>1, <3>1 DEF Answerable, Live, TokenOf
    <3>3. CASE ~Live(TokenOf(d))
      <4>1. PICK q \in Process : JobOf(q, d) /\ job[q].step = "store"
        BY <3>3 DEF Answerable, Live
      <4> QED
        BY <2>1, <2>2, <4>1 DEF Answerable, JobOf
    <3> QED
      BY <3>2, <3>3
  <2> QED
    BY <2>3, <2>4, <2>5
<1> QED
  BY <1>2, <1>3 DEF SendStep

LEMMA TxAckGivesUp ==
  ASSUME DistinctTokens, AnswerInv, NEW m \in txAck, ReceiveTxAck(m),
         NEW d \in DownlinkId, Answerable(d)
  PROVE  Answerable(d)' \/ Excused(d)
<1> DEFINE e == CleanedCache[m.token]
<1>1. TypeOK /\ TokenOf(d) \in Token
  BY TokenOfType DEF AnswerInv, DeliveryInv, AbortInv, AckInv
<1>2. /\ job[UdpLoop] = Idle
      /\ txAck' = txAck \ {m}
      /\ cache' = CleanedCache
      /\ pullResp' = pullResp
      /\ \A p \in Process : p # UdpLoop => job'[p] = job[p]
  BY <1>1
  DEF ReceiveTxAck, HandleTxAck, TxAckUnknown, TxAckPanic, TxAckFinal, TxAckRetry, LooksUp,
      LoopReady, TypeOK
<1>3. Live(TokenOf(d)) => Live(TokenOf(d))'
  BY <1>1, <1>2, LiveKept DEF TokenOf
<1>4. \A p \in Process : JobOf(p, d) => job'[p] = job[p]
  BY <1>2 DEF JobOf
<1>5. CASE m.frame # d
  BY <1>2, <1>3, <1>4, <1>5, StaysAnswerable
<1>6. CASE m.frame = d /\ ~Live(TokenOf(d))
  BY <1>4, <1>6 DEF Answerable, JobOf, Live
<1>7. CASE m.frame = d /\ Live(TokenOf(d))
  <2>1. m.token = TokenOf(d)
    BY <1>7 DEF AnswerInv, DeliveryInv, AbortInv, Traceable
  <2>2. e # NoEntry
    BY <1>1, <1>2, <1>7, <2>1, LiveKept DEF Live
  <2>3. /\ e.frame = d
        /\ e.index \in DOMAIN e.acks
        /\ ~CountFails(Items[e.frame], WithStatus(e, m.status))
    BY <1>7, <2>2, AnswerCounts
  <2>4. TxAckFinal(m, e) \/ TxAckRetry(m, e)
    BY <2>2, <2>3 DEF ReceiveTxAck, HandleTxAck, TxAckUnknown, TxAckPanic, LooksUp
  <2> HIDE DEF e
  <2>5. CASE TxAckFinal(m, e)
    <3>1. CASE ~HasRoom
      BY <1>7, <3>1 DEF Excused
    <3>2. CASE HasRoom
      <4>1. acked'[d] = Append(acked[d], WithStatus(e, m.status))
        BY <1>1, <2>3, <2>5, <3>2 DEF TxAckFinal, TypeOK
      <4>2. acked[d] \in Seq(Acks)
        BY <1>1 DEF TypeOK
      <4>3. Len(acked'[d]) = Len(acked[d]) + 1 /\ Len(acked[d]) \in Nat
        BY <4>1, <4>2
      <4> QED
        BY <4>3 DEF Excused
    <3> QED
      BY <3>1, <3>2
  <2>6. CASE TxAckRetry(m, e)
    <3> DEFINE new == NewJob(e.frame, WithStatus(e, m.status), e.index + 1)
    <3>1. new.step = "store" /\ new.frame = d
      BY <2>3 DEF NewJob, JobAt
    <3>2. new \in Job
      <4>1. e \in Entry /\ m.status \in Reported
        BY <1>7, <2>2, OwnEntry DEF AnswerInv, e
      <4>2. WithStatus(e, m.status) \in Acks
        BY <4>1, WithStatusType
      <4> QED
        BY <4>1, <4>2 DEF NewJob, JobAt, Job, Entry
    <3>3. job'[UdpLoop] = new
      BY <1>1, <2>6 DEF TxAckRetry, TypeOK, Process
    <3> HIDE DEF new
    <3>4. new # Idle
      BY <3>2, AbsenceAssumption
    <3> QED
      BY <3>1, <3>3, <3>4 DEF Answerable, JobOf, Process
  <2> QED
    BY <2>4, <2>5, <2>6
<1> QED
  BY <1>5, <1>6, <1>7

LEMMA RadioGivesUp ==
  ASSUME AnswerInv, NEW m \in pullResp,
         (\E s \in Reported : EmitPullResp(m, s)) \/ MisdirectPullResp(m),
         NEW d \in DownlinkId, Answerable(d)
  PROVE  Answerable(d)' \/ Excused(d)
<1>1. CASE \E s \in Reported : EmitPullResp(m, s)
  <2>1. PICK s \in Reported : EmitPullResp(m, s)
    BY <1>1
  <2> DEFINE answer == [token |-> m.token, status |-> s, frame |-> m.frame,
                        index |-> m.index, copy |-> m.copy]
  <2>2. /\ UNCHANGED <<job, cache>>
        /\ pullResp' = pullResp \ {m}
        /\ txAck' = txAck \union {answer}
    BY <2>1 DEF EmitPullResp, stateVars
  <2>3. answer.frame = m.frame
    OBVIOUS
  <2> HIDE DEF answer
  <2>4. (\E n \in pullResp \union txAck : n.frame = d)
          => \E n \in pullResp' \union txAck' : n.frame = d
    BY <2>2, <2>3
  <2> QED
    BY <2>2, <2>4 DEF Answerable, JobOf, TokenOf
<1>2. CASE MisdirectPullResp(m) /\ m.frame = d
  BY <1>2 DEF MisdirectPullResp, Excused
<1>3. CASE MisdirectPullResp(m) /\ m.frame # d
  BY <1>3, StaysAnswerable DEF MisdirectPullResp, stateVars, Live, TokenOf
<1> QED
  BY <1>1, <1>2, <1>3

LEMMA FaultGivesUp ==
  ASSUME AnswerInv, Lose \/ Expire \/ StartAgain, NEW d \in DownlinkId
  PROVE  Excused(d)
<1>1. TypeOK /\ ~aborted
  BY DEF AnswerInv, DeliveryInv, AbortInv, AckInv
<1>2. \E o \in {"lose", "expire", "restart"} : Spend(o)
  BY <1>1 DEF Lose, Expire, StartAgain
<1>3. {"lose", "expire", "restart"} \subseteq Occasion
  BY DEF Occasion
<1> QED
  BY <1>1, <1>2, <1>3, SpendLess DEF Excused

\* Steps that take away no call, datagram or entry.
LEMMA OtherStepsKeepAnswerable ==
  ASSUME AnswerInv, NEW d \in DownlinkId, Answerable(d),
         \/ \E t \in Task, c \in DownlinkId : DeliverCommand(t, c)
         \/ \E m \in pullData : ReceivePullData(m)
         \/ \E m \in PushData : ReceivePushData(m)
         \/ PushStep \/ ReportStats \/ StartClient \/ Consume
         \/ \E g \in Gateway : SendPullData(g)
         \/ Duplicate
         \/ \E a \in Addr : Move(a)
         \/ UNCHANGED vars
  PROVE  Answerable(d)'
<1> USE DEF stateVars, channelVars, networkVars, environmentVars
<1>1. ASSUME NEW t \in Task, NEW c \in DownlinkId, DeliverCommand(t, c) PROVE Answerable(d)'
  <2>1. TypeOK
    BY DEF AnswerInv, DeliveryInv, AbortInv, AckInv
  <2>2. /\ UNCHANGED <<cache, pullResp, txAck>>
        /\ job[t] = Idle
        /\ \A p \in Process : p # t => job'[p] = job[p]
    BY <1>1, <2>1 DEF DeliverCommand, SendDownlinkFrame, TypeOK
  <2>3. \A p \in Process : JobOf(p, d) => job'[p] = job[p]
    BY <2>2 DEF JobOf
  <2> QED
    BY <2>2, <2>3, StaysAnswerable DEF Live, TokenOf
<1>2. CASE UNCHANGED <<cache, job>> /\ pullResp \subseteq pullResp' /\ txAck \subseteq txAck'
  BY <1>2, StaysAnswerable DEF Live, TokenOf
<1>3. ASSUME NEW m \in pullData, ReceivePullData(m) PROVE Answerable(d)'
  BY <1>2, <1>3 DEF ReceivePullData, HandlePullData
<1>4. ASSUME NEW m \in PushData, ReceivePushData(m) PROVE Answerable(d)'
  BY <1>2, <1>4 DEF ReceivePushData, HandlePushData
<1>5. PushStep \/ ReportStats => Answerable(d)'
  BY <1>2 DEF PushStep, IgnoreFrame, ForwardFrame, ExportStats, ReportStats, SendGatewayStats
<1>6. StartClient \/ Consume \/ UNCHANGED vars => Answerable(d)'
  BY <1>2 DEF StartClient, OpenChannel, Consume, TakeEvent, vars, udpVars
<1>7. ASSUME NEW g \in Gateway, SendPullData(g) PROVE Answerable(d)'
  BY <1>2, <1>7 DEF SendPullData
<1>8. Duplicate => Answerable(d)'
  BY <1>2 DEF Duplicate
<1>9. ASSUME NEW a \in Addr, Move(a) PROVE Answerable(d)'
  BY <1>2, <1>9 DEF Move, udpVars
<1> QED
  BY <1>1, <1>3, <1>4, <1>5, <1>6, <1>7, <1>8, <1>9

\* A frame whose entry, call or datagram is there is answered, or given up for a
\* fault that has a name: the code never forgets one while it handles another, and
\* neither a panic nor a count that fails comes between a TX_ACK and the answer.
THEOREM FramesGivenUpOnlyOnFault ==
  ASSUME DistinctTokens, NoRepeats
  PROVE  Spec => GivenUpOnlyOnFault
<1> DEFINE Told == \A d \in DownlinkId : Answerable(d) /\ ~Answerable(d)' =>
       \/ acked'[d] # acked[d]
       \/ ~HasRoom /\ \E m \in txAck : m.frame = d
       \/ \E p \in Process : /\ JobOf(p, d)
                             /\ pullAddr = NoAddr \/ ~Translates(d, job[p].index)
       \/ \E m \in pullResp : m.frame = d /\ m.dest # home
       \/ \E o \in {"lose", "expire", "restart"} : budget'[o] < budget[o]
<1>1. Init => AnswerInv
  BY DeliveryInvInit DEF Init, UdpInit, AnswerInv, OnlyGoodItems
<1>2. AnswerInv /\ [Next]_vars => AnswerInv'
  BY AnswerInvNext
<1>3. AnswerInv /\ [Next]_vars => [Told]_vars
  <2> SUFFICES ASSUME AnswerInv, [Next]_vars, NEW d \in DownlinkId, Answerable(d)
               PROVE  Answerable(d)' \/ Excused(d)
    BY DEF Excused
  <2>1. ASSUME NEW p \in Process, SendStep(p) PROVE Answerable(d)' \/ Excused(d)
    BY <2>1, SendGivesUp
  <2>2. ASSUME NEW m \in txAck, ReceiveTxAck(m) PROVE Answerable(d)' \/ Excused(d)
    BY <2>2, TxAckGivesUp
  <2>3. ASSUME NEW m \in pullResp, (\E s \in Reported : EmitPullResp(m, s)) \/ MisdirectPullResp(m)
        PROVE  Answerable(d)' \/ Excused(d)
    BY <2>3, RadioGivesUp
  <2>4. Lose \/ Expire \/ StartAgain => Excused(d)
    BY FaultGivesUp
  <2> QED
    BY <2>1, <2>2, <2>3, <2>4, OtherStepsKeepAnswerable DEF Next
<1> QED
  BY <1>1, <1>2, <1>3, PTL DEF Spec, GivenUpOnlyOnFault
=============================================================================
