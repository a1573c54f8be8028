------------------------------ MODULE Exchange ------------------------------
(***************************************************************************)
(* One conversation through the conversions of Codec: the radio receives,  *)
(* the packet forwarder reports it in a PUSH_DATA, the network server      *)
(* answers one of the frames, the item becomes a PULL_RESP, the packet     *)
(* forwarder emits it or not and says so in a TX_ACK.  The radio, the      *)
(* packet forwarder and the server are not part of the program: they       *)
(* follow the protocol the code is written for.  SemtechSystem has what    *)
(* the network and the other conversations may do; here nothing interferes *)
(* and what counts is whether the values arrive.                           *)
(***************************************************************************)
EXTENDS Codec, SequencesExt

CONSTANTS
  Batch,          \* the sequences of receptions a PUSH_DATA may report
  Instant,        \* when, in nanoseconds, the concentrator may receive them
  TimeFallback,   \* time_fallback_enabled
  Answer,         \* the downlink items the server may send, without their frame
  DownlinkId,     \* downlink ids: numbers of four bytes
  Travel,         \* how long a downlink may be under way, in nanoseconds
  MaxAdvance,     \* how far ahead the packet forwarder accepts a counter value
  GpsOffset,      \* the GPS time at the start of the concentrator
  Report          \* what TX_ACKs say: datagram lengths and error texts

\* What the JSON reader and the API say of the numbers: the antennas and the
\* steps of an rxpk object are bytes, its channel and board and the widths,
\* deviations and preambles of the API unsigned integers of four bytes, and a
\* power is a signed one.  A data rate in an rxpk object is any text: "Other" is
\* one with neither prefix, or no text, and a number that is a fraction is one
\* below zero here, as neither is an unsigned integer.
DataRateType     == [kind : {"Lora", "Fsk", "LrFhss"}, sf : Nat, width : 0..(DoubleWord - 1)]
DataRateTextType == [kind : {"Lora", "Fsk", "LrFhss", "Other"}, sf : Int, width : Int]

SignalType == [ant : 0..(Byte - 1), chan : 0..(DoubleWord - 1)]

ReceptionType ==
  [modu : STRING, datr : DataRateTextType, codr : STRING \union {None},
   hpw : 0..(Byte - 1) \union {None}, time : STRING \union {None}, tmst : Nat,
   tmms : Nat \union {None}, ftime : Nat \union {None}, gps : BOOLEAN, fine : BOOLEAN,
   ant : 0..(Byte - 1), chan : 0..(DoubleWord - 1), brd : 0..(DoubleWord - 1), stat : Int,
   rsig : Seq(SignalType)]

AnswerType ==
  [missing : STRING \union {None}, cut : BOOLEAN, timing : {"immediately", "delay", "gps"},
   span : Int \union {None}, context : {<<>>}, power : Int, antenna : Nat, board : Nat,
   modulation : [rate : DataRateType, code_rate : CodeRate, deviation : 0..(DoubleWord - 1),
                 no_crc : BOOLEAN, inverted : BOOLEAN, preamble : 0..(DoubleWord - 1)]]

\* What the radio may emit.
EmissionType ==
  [at : Int, antenna : Int, board : Int, rate : DataRateType,
   code_rate : CodeRate \union {None}, power : Int, deviation : Int \union {None},
   preamble : Int \union {None}, no_crc : BOOLEAN, inverted : BOOLEAN]

ASSUME ExchangeAssumption ==
  /\ Instant \union Travel \union {MaxAdvance, GpsOffset} \subseteq Nat
  /\ DownlinkId \subseteq 0..(DoubleWord - 1)
  /\ TimeFallback \in BOOLEAN
  /\ Batch \subseteq Seq(ReceptionType)
  /\ Answer \subseteq AnswerType
  /\ Report \subseteq [emitted : BOOLEAN, length : Nat, error : STRING]
  /\ None \notin EmissionType

\* Nothing takes as long as the concentrator counter takes to come round, which
\* is 71 minutes: no delay, and no downlink on its way to the packet forwarder
\* together with the time that this still accepts in advance.
ASSUME CounterOutlasts ==
  /\ \A answer \in Answer :
       answer.timing = "delay" /\ answer.span # None => answer.span \div Kilo < DoubleWord
  /\ \A travel \in Travel : travel \div Kilo + 1 + MaxAdvance \div Kilo < DoubleWord

\* The packet forwarder says that it emitted exactly when it did: without a text,
\* with an empty one or with NONE.  A text takes a datagram with a payload.
ASSUME ForwarderTruthful ==
  \A report \in Report :
    /\ report.emitted <=> report.error \in {"", "NONE"}
    /\ report.length < 14 => report.error = ""

VARIABLES
  stage,     \* how far the conversation is
  clock,     \* nanoseconds since the concentrator started
  received,  \* the clock when it received the batch
  batch,     \* the receptions of this conversation
  frames,    \* the uplink frames published for them
  command,   \* the downlink command: of which frame, the item and its id
  cached,    \* State.downlink_cache: the token and id of the command, or None
  txpk,      \* the txpk object of the PULL_RESP, or None
  emission,  \* what the radio emitted, or None
  ack        \* the DownlinkTxAck published, or None

vars == <<stage, clock, received, batch, frames, command, cached, txpk, emission, ack>>

-----------------------------------------------------------------------------
(* The radio and the packet forwarder.                                      *)

\* A signal is one antenna's copy of the i-th reception.
Signal(i, ant, chan) == [of |-> i, ant |-> ant, chan |-> chan]

SignalsOf(i, r) ==
  IF r.rsig = <<>> THEN <<Signal(i, r.ant, r.chan)>>
  ELSE [s \in DOMAIN r.rsig |-> Signal(i, r.rsig[s].ant, r.rsig[s].chan)]

\* The signals of a batch in the order of its receptions.
Signals(b) == FlattenSeq([i \in DOMAIN b |-> SignalsOf(i, b[i])])

GpsTime(at) == at + GpsOffset

\* The rxpk object of a reception at a time: the counter counts microseconds,
\* the GPS time milliseconds, the fine time the nanoseconds of its second.
RxPk(r, at) ==
  [r EXCEPT !.tmst  = U32(at \div Kilo),
            !.tmms  = IF r.gps THEN GpsTime(at) \div Mega ELSE None,
            !.ftime = IF r.fine THEN GpsTime(at) % Giga ELSE None]

-----------------------------------------------------------------------------

Init ==
  /\ stage = "idle"
  /\ clock \in Instant /\ received = clock
  /\ batch = <<>> /\ frames = <<>>
  /\ command = None /\ cached = None /\ txpk = None /\ emission = None /\ ack = None

\* handle_push_data as far as the conversions go: a datagram with an rxpk object
\* that cannot be read or converted gives nothing.  The objects are read in their
\* order and the first that cannot be read decides what happens.  A new
\* conversation forgets the last one, and the concentrator may have been
\* restarted in between.
Push ==
  /\ stage = "idle"
  /\ clock' \in Instant /\ received' = clock'
  /\ batch' \in Batch
  /\ LET rxpk == [i \in DOMAIN batch' |-> RxPk(batch'[i], clock')]
         Each(Test(_)) == \A i \in DOMAIN rxpk : Test(rxpk[i])
         converted == FlattenSeq([i \in DOMAIN rxpk |-> ToFrames(rxpk[i], TimeFallback)])
         panics == \E i \in DOMAIN rxpk :
                     Panics(rxpk[i]) /\ \A j \in 1..(i - 1) : Readable(rxpk[j])
     IN /\ frames' = IF Each(Readable) /\ Each(Convertible) THEN converted ELSE <<>>
        /\ stage' = IF panics THEN "aborted" ELSE IF frames' # <<>> THEN "pushed" ELSE "idle"
  /\ command' = None /\ cached' = None /\ txpk' = None /\ emission' = None /\ ack' = None

\* The service manager starts an aborted process again; it remembers nothing.
Restart ==
  /\ stage = "aborted" /\ stage' = "idle"
  /\ batch' = <<>>
  /\ UNCHANGED <<clock, received, frames, command, cached, txpk, emission, ack>>

\* What the server makes of a frame: the context, the antenna and the board of
\* the frame, and for a GPS time the time of the uplink.  A cut context is a
\* server that breaks the protocol.
ItemFor(answer, frame) ==
  [answer EXCEPT
     !.context = IF answer.cut THEN SubSeq(frame.context, 1, 3) ELSE frame.context,
     !.span    = IF answer.timing = "gps" /\ @ # None THEN frame.gps * Mega + @ ELSE @,
     !.antenna = frame.antenna,
     !.board   = frame.board]

\* The server answers the k-th frame; a while later send_downlink_frame caches
\* the frame under the token and builds the PULL_RESP, or fails.
SendDownlinkFrame ==
  /\ stage = "pushed"
  /\ \E k \in DOMAIN frames, answer \in Answer, id \in DownlinkId, travel \in Travel :
       /\ answer.timing = "gps" => frames[k].gps # None
       /\ LET item == ItemFor(answer, frames[k])
          IN /\ command' = [of |-> k, answer |-> answer, item |-> item, id |-> id]
             /\ txpk' = IF Translatable(item) THEN TxPk(item) ELSE None
             /\ stage' = IF Translatable(item) THEN "sent" ELSE "idle"
       /\ cached' = [token |-> U16(id), id |-> id]
       /\ clock' = clock + travel
  /\ UNCHANGED <<received, batch, frames, emission, ack>>

\* When the packet forwarder starts the transmitter: now, when the counter has
\* the value, or at the GPS time; None for a time that has passed.  A counter
\* value that is too far ahead is one that has passed.
StartTime ==
  LET now == clock \div Kilo
      wait == U32(txpk.tmst - now)
  IN CASE txpk.imme -> clock
       [] ~txpk.imme /\ txpk.tmst # None ->
            IF wait <= MaxAdvance \div Kilo THEN (now + wait) * Kilo ELSE None
       [] OTHER ->
            LET start == txpk.tmms * Mega - GpsOffset
            IN IF start >= clock THEN start ELSE None

\* The packet forwarder emits and reports success, or does not emit and reports
\* why; the TX_ACK carries the token of the PULL_RESP.  handle_tx_ack looks the
\* command up by it.
TxAck ==
  /\ stage = "sent"
  /\ \E report \in Report :
       /\ report.emitted => StartTime # None
       /\ emission' = IF report.emitted
                      THEN [at |-> StartTime, antenna |-> txpk.ant, board |-> txpk.brd,
                            rate |-> ReadDataRate(txpk.datr),
                            code_rate |-> IF txpk.codr = None THEN None ELSE ReadCodeRate(txpk.codr),
                            power |-> txpk.powe, deviation |-> txpk.fdev, preamble |-> txpk.prea,
                            no_crc |-> txpk.ncrc = TRUE, inverted |-> txpk.ipol = TRUE]
                      ELSE None
       /\ LET token == FromLittleEndian(LittleEndian(cached.token))
          IN ack' = IF token = cached.token
                    THEN [id |-> cached.id, status |-> TxAckStatus(report), report |-> report]
                    ELSE None
       /\ clock' = IF report.emitted THEN StartTime ELSE clock
  /\ stage' = "idle"
  /\ UNCHANGED <<received, batch, frames, command, cached, txpk>>

Next == Push \/ Restart \/ SendDownlinkFrame \/ TxAck

Spec == Init /\ [][Next]_vars

-----------------------------------------------------------------------------
(* Properties.                                                              *)

\* The fields of a txpk object have their width: no number is too large for
\* the packet forwarder's integer; and the radio is told numbers it can emit.
TypeOK ==
  /\ stage \in {"idle", "pushed", "sent", "aborted"}
  /\ txpk # None =>
       /\ txpk.tmst \in 0..(DoubleWord - 1) \union {None}
       /\ {txpk.powe, txpk.ant, txpk.brd} \subseteq 0..(Byte - 1)
       /\ txpk.fdev \in 0..(Word - 1) \union {None}
       /\ txpk.prea \in 0..(Word - 1) \union {None}
  /\ emission \in EmissionType \union {None}

\* The modulation of a frame is that of its reception: the data rate, in so far as
\* its hertz fit 32 bits, and the code rate, for each text the program would write
\* for one itself but two.  The code rate 5/6 is the one, it is reported as 4/5
\* (CodeRate::to_proto); the other, "long interleaving 4/8", has the text of
\* another.
ModulationReported(r, m) ==
  /\ FitsU32(Hertz(r.datr)) => m.rate = [r.datr EXCEPT !.width = Hertz(r.datr)]
  /\ \A cr \in CodeRate \ {"CrUndefined", "Cr56", "CrLi48"} :
       r.datr.kind # "Fsk" /\ r.codr = WriteCodeRate(cr) => m.code_rate = cr
  /\ r.datr.kind = "Fsk" => m.code_rate = None
  /\ m.steps = IF r.datr.kind = "LrFhss" THEN r.hpw ELSE None

\* A batch is published whole or not at all, in the order of the receptions,
\* with a frame for each signal.  A frame has its own signal's antenna and
\* channel, its reception's board and modulation, the counter as context and the
\* GPS time in milliseconds if the concentrator knows it; with a time since the
\* last pulse as well the fine time is the GPS time to the nanosecond, and without
\* either there is none (PushData::to_proto_uplink_frames, RxPk::to_proto).
FramesFaithful ==
  frames # <<>> =>
    LET signals == Signals(batch)
    IN /\ Len(frames) = Len(signals)
       /\ \A k \in DOMAIN frames :
            LET r == batch[signals[k].of]
                f == frames[k]
            IN /\ f.antenna = signals[k].ant /\ f.channel = signals[k].chan /\ f.board = r.brd
               /\ ModulationReported(r, f.modulation)
               /\ FromBigEndian(f.context) = U32(received \div Kilo)
               /\ f.gps = IF r.gps THEN GpsTime(received) \div Mega ELSE None
               /\ f.fine = IF r.gps /\ r.fine THEN GpsTime(received) ELSE None

\* When a downlink is to start: the delay after the reception in whole
\* microseconds, or the GPS time in whole milliseconds.
DueTime ==
  LET span == command.answer.span
  IN IF command.answer.timing = "delay" THEN (received \div Kilo + span \div Kilo) * Kilo
     ELSE (GpsTime(received) \div Mega + span \div Mega) * Mega - GpsOffset

\* A downlink that is emitted after a delay or at a GPS time starts exactly when
\* the server wanted it, on the antenna that heard the uplink: a device listens
\* for a few symbols only.  The counter may wrap around between the reception and
\* the emission (PullResp::from_proto).
ReceiveWindow ==
  emission # None =>
    /\ emission.antenna = Signals(batch)[command.of].ant
    /\ command.answer.timing # "immediately" => emission.at = DueTime

\* Of LoRa: the code rate, the preamble, the CRC and the polarity.
LoraAsCommanded(e, m) ==
  /\ m.code_rate \notin {"CrLi48", "CrUndefined"} => e.code_rate = m.code_rate
  /\ m.preamble < Word => e.preamble = IF m.preamble = 0 THEN None ELSE m.preamble
  /\ e.no_crc = m.no_crc /\ e.inverted = m.inverted

\* The radio is set to what the server asked for, in so far as the txpk object
\* can say it: whole kilohertz, and numbers that fit its integers; for LoRa also
\* the code rate, the preamble, the CRC and the polarity, for FSK the deviation.
\* The code rate "long interleaving 4/8" is the exception, it is written as 4/5LI,
\* and an undefined one is not written at all (CodeRate::serialize).  A preamble
\* of no symbols is left to the packet forwarder (PullResp::from_proto).
EmittedAsCommanded ==
  emission # None =>
    LET item == command.item
        m    == item.modulation
    IN /\ item.antenna \in 0..(Byte - 1) => emission.antenna = item.antenna
       /\ item.board \in 0..(Byte - 1) => emission.board = item.board
       /\ item.power \in 0..(Byte - 1) => emission.power = item.power
       /\ m.rate.kind = "Fsk" \/ m.rate.width % Kilo = 0 => emission.rate = m.rate
       /\ m.rate.kind = "Fsk" /\ m.deviation < Word => emission.deviation = m.deviation
       /\ m.rate.kind = "Lora" => LoraAsCommanded(emission, m)

\* The server is told that its downlink was emitted exactly when it was, under
\* the whole id of the command, and an error the code knows keeps its name
\* (TxAck::from_slice, to_proto_tx_ack_status, handle_tx_ack).
AckFaithful ==
  ack # None =>
    /\ ack.id = command.id
    /\ (ack.status = "OK") = (emission # None)
    /\ ack.report.error \in TxAckError => ack.status = ack.report.error

\* "Modulation identifier "LORA" or "FSK"" (structs.rs, TxPk.modu): what an FSK
\* downlink says its modulation is.
FskNamedAsDocumented ==
  txpk # None /\ command.item.modulation.rate.kind = "Fsk" => txpk.modu = "FSK"
=============================================================================
