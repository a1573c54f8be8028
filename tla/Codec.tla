-------------------------------- MODULE Codec --------------------------------
(***************************************************************************)
(* The conversions of the Semtech UDP backend (semtech_udp/structs.rs)     *)
(* between the datagrams of the packet forwarder and the messages of the   *)
(* network server.  JSON texts are records with the fields of the text;    *)
(* the strings in them that carry a meaning are strings here too.          *)
(*                                                                         *)
(* Numbers keep their width: an unsigned integer of n bytes is a number    *)
(* modulo Byte to the n.  Times are numbers of one unit and Kilo ties the units:  *)
(* a second is Kilo milliseconds, a millisecond Kilo microseconds, and so  *)
(* on, a kilohertz Kilo hertz.  (In the code 256 and 1000.)                *)
(***************************************************************************)
EXTENDS Integers, Sequences

CONSTANTS
  Byte,     \* how many values a byte has
  Kilo,     \* a thousand
  None      \* a field that is absent

ASSUME CodecAssumption ==
  /\ Byte \in Nat \ {0, 1} /\ Kilo \in Nat \ {0, 1}
  /\ None \notin Int /\ None \notin BOOLEAN

\* How many values two and four bytes have; a million and a milliard.
Word       == Byte * Byte
DoubleWord == Word * Word
Mega       == Kilo * Kilo
Giga       == Mega * Kilo

U8(x)  == x % Byte
U16(x) == x % Word
U32(x) == x % DoubleWord

\* to_be_bytes of a u32, and from_be_bytes of the first four bytes.
BigEndian(x) == <<x \div (Word * Byte), (x \div Word) % Byte, (x \div Byte) % Byte, x % Byte>>
FromBigEndian(b) == ((b[1] * Byte + b[2]) * Byte + b[3]) * Byte + b[4]

\* The random token of a datagram.
LittleEndian(x) == <<x % Byte, x \div Byte>>
FromLittleEndian(b) == b[1] + b[2] * Byte

\* The value the table gives for k, or the default.
Lookup(table, k, default) ==
  IF \E p \in table : p[1] = k THEN (CHOOSE p \in table : p[1] = k)[2] ELSE default

-----------------------------------------------------------------------------
(* Code rates, data rates and modulations.                                  *)

CodeRate == {"CrUndefined", "Cr45", "Cr46", "Cr47", "Cr48", "Cr38", "Cr26", "Cr14", "Cr16",
             "Cr56", "CrLi45", "CrLi46", "CrLi48"}

\* CodeRate::to_proto: the API knows 5/6, but reports 4/5.  from_proto is the
\* identity on names.
CodeRateToProto(cr) == IF cr = "Cr56" THEN "Cr45" ELSE cr

\* The undefined code rate is written as null.
CodeRateText ==
  {<<"Cr45", "4/5">>, <<"Cr46", "4/6">>, <<"Cr47", "4/7">>, <<"Cr48", "4/8">>,
   <<"Cr38", "3/8">>, <<"Cr26", "2/6">>, <<"Cr14", "1/4">>, <<"Cr16", "1/6">>,
   <<"Cr56", "5/6">>, <<"CrLi45", "4/5LI">>, <<"CrLi46", "4/6LI">>, <<"CrLi48", "4/5LI">>}

WriteCodeRate(cr) == Lookup(CodeRateText, cr, None)

TextCodeRate ==
  {<<"4/5", "Cr45">>, <<"4/6", "Cr46">>, <<"2/3", "Cr46">>, <<"4/7", "Cr47">>,
   <<"4/8", "Cr48">>, <<"2/4", "Cr48">>, <<"1/2", "Cr48">>, <<"3/8", "Cr38">>,
   <<"2/6", "Cr26">>, <<"1/3", "Cr26">>, <<"1/4", "Cr14">>, <<"1/6", "Cr16">>,
   <<"5/6", "Cr56">>, <<"4/5LI", "CrLi45">>, <<"4/6LI", "CrLi46">>, <<"4/8LI", "CrLi48">>}

ReadCodeRate(s) == Lookup(TextCodeRate, s, "CrUndefined")

ASSUME NoneIsNoText == \A p \in CodeRateText : None # p[2]

\* A data rate: the bandwidth of LoRa and the channel width of LR-FHSS are in
\* kilohertz in the text and in hertz elsewhere; FSK has a bit rate.
DataRate(kind, sf, width) == [kind |-> kind, sf |-> sf, width |-> width]

\* Mutant of WriteDataRate: the width of LR-FHSS left in hertz.
WriteDataRateHertz(d) == IF d.kind = "Lora" THEN [d EXCEPT !.width = @ \div Kilo] ELSE d

WriteDataRate(d) == IF d.kind = "Fsk" THEN d ELSE [d EXCEPT !.width = @ \div Kilo]

\* What a data rate text means in hertz, or in bits per second; and what is left
\* of it in 32 bits.
Hertz(d)        == IF d.kind = "Fsk" THEN d.width ELSE d.width * Kilo
ReadDataRate(d) == [d EXCEPT !.width = U32(Hertz(d))]

\* The texts DataRate::deserialize knows: numbers after the prefixes of LoRa and
\* LR-FHSS that fit 32 bits, and for FSK a number that must be an unsigned one of
\* 64 bits: it is unwrapped.
FitsU32(x) == x \in 0..(DoubleWord - 1)
FitsU64(x) == x \in 0..(DoubleWord * DoubleWord - 1)

KnownDataRate(d) ==
  \/ d.kind = "Lora" /\ FitsU32(d.sf) /\ FitsU32(d.width)
  \/ d.kind = "LrFhss" /\ FitsU32(d.width)
  \/ d.kind = "Fsk" /\ FitsU64(d.width)

WriteModulation(m) == Lookup({<<"Lora", "LORA">>, <<"Fsk", "Fsk">>, <<"LrFhss", "LR-FHSS">>}, m, None)
ReadModulation(s)  == Lookup({<<"LORA", "Lora">>, <<"Fsk", "Fsk">>, <<"LR-FHSS", "LrFhss">>}, s, None)

ReadCrc(n) == CASE n = 1 -> "CrcOk" [] n = -1 -> "BadCrc" [] OTHER -> "NoCrc"

-----------------------------------------------------------------------------
(* PUSH_DATA: rxpk objects to uplink frames.                                *)

\* serde reads the object: a modulation or a data rate it does not know is an
\* error, and a number that is not the bit rate it is taken for ends the process.
\* (The packet forwarder writes the modulation before the data rate.)
Readable(p) == ReadModulation(p.modu) # None /\ KnownDataRate(p.datr)
Panics(p)   == ReadModulation(p.modu) # None /\ p.datr.kind = "Fsk" /\ ~FitsU64(p.datr.width)

\* RxPk::to_proto: what the modulation needs must be there.  It is the data
\* rate that decides what the modulation is.
Convertible(p) ==
  /\ p.datr.kind \in {"Lora", "LrFhss"} => p.codr # None
  /\ p.datr.kind = "LrFhss" => p.hpw # None

\* Mutant of FineTime: the milliseconds are not cut off.
FineTimeUncut(p) == IF p.ftime # None /\ p.tmms # None THEN p.tmms * Mega + p.ftime ELSE None

\* The whole seconds of the GPS time, and the nanoseconds since the last pulse.
FineTime(p) ==
  IF p.ftime # None /\ p.tmms # None THEN (p.tmms \div Kilo) * Giga + p.ftime ELSE None

Modulated(p) ==
  [rate      |-> ReadDataRate(p.datr),
   code_rate |-> IF p.datr.kind = "Fsk" THEN None ELSE CodeRateToProto(ReadCodeRate(p.codr)),
   steps     |-> IF p.datr.kind = "LrFhss" THEN p.hpw ELSE None]

\* One frame, or one for each signal of rsig, which all have the same context.
ToFrames(p, fallback) ==
  LET frame ==
        [modulation |-> Modulated(p),
         gw_time    |-> IF p.time # None THEN p.time ELSE IF fallback THEN "now" ELSE None,
         gps        |-> p.tmms,
         fine       |-> FineTime(p),
         antenna    |-> p.ant,
         channel    |-> p.chan,
         board      |-> p.brd,
         context    |-> BigEndian(p.tmst),
         crc        |-> ReadCrc(p.stat)]
  IN IF p.rsig = <<>> THEN <<frame>>
     ELSE [i \in DOMAIN p.rsig |->
             [frame EXCEPT !.antenna = p.rsig[i].ant, !.channel = p.rsig[i].chan]]

-----------------------------------------------------------------------------
(* PULL_RESP: a downlink item to a txpk object.                             *)

\* PullResp::from_proto: everything must be there, a context of at least four
\* bytes for a delay, and a time that is not negative.
Translatable(item) ==
  /\ item.missing = None
  /\ item.timing = "delay" => Len(item.context) >= 4
  /\ item.timing \in {"delay", "gps"} => item.span # None /\ item.span >= 0

\* Mutant of CounterValue: an addition that stops at the end of the counter.
CounterValueSaturating(context, delay) ==
  LET sum == FromBigEndian(context) + U32(delay \div Kilo)
  IN IF sum < DoubleWord THEN sum ELSE DoubleWord - 1

\* Mutant of CounterValue: an addition wider than the counter.
CounterValueWide(context, delay) == FromBigEndian(context) + U32(delay \div Kilo)

\* The concentrator counter of the uplink and the microseconds of the delay; the
\* release build wraps around.
CounterValue(context, delay) == U32(FromBigEndian(context) + U32(delay \div Kilo))

\* Mutant of Preamble: it is cut to a byte, as the power is.
PreambleByte(n) == IF n > 0 THEN U8(n) ELSE None

\* A preamble of no symbols leaves it to the packet forwarder.
Preamble(n) == IF n > 0 THEN U16(n) ELSE None

TxPk(item) ==
  LET m == item.modulation
      lora(x) == IF m.rate.kind = "Lora" THEN x ELSE None
  IN [imme |-> item.timing = "immediately",
      tmst |-> IF item.timing = "delay" THEN CounterValue(item.context, item.span) ELSE None,
      tmms |-> IF item.timing = "gps" THEN item.span \div Mega ELSE None,
      powe |-> U8(item.power),
      ant  |-> U8(item.antenna),
      brd  |-> U8(item.board),
      modu |-> WriteModulation(m.rate.kind),
      datr |-> WriteDataRate(m.rate),
      codr |-> lora(WriteCodeRate(m.code_rate)),
      fdev |-> IF m.rate.kind = "Fsk" THEN U16(m.deviation) ELSE None,
      ncrc |-> lora(IF m.no_crc THEN TRUE ELSE None),
      ipol |-> lora(m.inverted),
      prea |-> lora(Preamble(m.preamble))]

-----------------------------------------------------------------------------
(* TX_ACK.                                                                  *)

TxAckError == {"TOO_LATE", "TOO_EARLY", "COLLISION_PACKET", "COLLISION_BEACON", "TX_FREQ",
               "TX_POWER", "GPS_UNLOCKED"}

\* Mutant of TxAckStatus: an error that is not known is no error.
TxAckStatusLenient(d) == IF d.length >= 14 /\ d.error \in TxAckError THEN d.error ELSE "OK"

\* A datagram shorter than 14 bytes has no payload, which means success.
TxAckStatus(d) ==
  IF d.length < 14 \/ d.error \in {"", "NONE"} THEN "OK"
  ELSE IF d.error \in TxAckError THEN d.error
  ELSE "INTERNAL_ERROR"
=============================================================================
