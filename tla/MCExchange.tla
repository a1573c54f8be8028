----------------------------- MODULE MCExchange -----------------------------
(* Instances of Exchange for TLC: a byte of four values and a "thousand" of  *)
(* four, so that the counter wraps after 1024 ns, which are 16 of its        *)
(* seconds.                                                                  *)
EXTENDS Exchange

Signals2 == <<[ant |-> 0, chan |-> 2], [ant |-> 1, chan |-> 3]>>

Reception(modu, datr, codr, hpw) ==
  [modu |-> modu, datr |-> datr, codr |-> codr, hpw |-> hpw,
   time |-> None, tmst |-> 0, tmms |-> None, ftime |-> None, gps |-> TRUE, fine |-> TRUE,
   ant |-> 2, chan |-> 1, brd |-> 1, stat |-> 1, rsig |-> <<>>]

Lora      == Reception("LORA", DataRate("Lora", 7, 2), "4/8LI", None)
LoraTwice == [Lora EXCEPT !.rsig = Signals2, !.fine = FALSE]
LoraPlain == [Lora EXCEPT !.gps = FALSE, !.codr = "5/6"]
NoCodr    == [Lora EXCEPT !.codr = None]
Fsk       == Reception("Fsk", DataRate("Fsk", 0, 50), None, None)
FskUpper  == [Fsk EXCEPT !.modu = "FSK"]
LrFhss    == [Reception("LR-FHSS", DataRate("LrFhss", 0, 3), "4/6", 3) EXCEPT !.rsig = Signals2]
NoSteps   == [LrFhss EXCEPT !.hpw = None]

\* Data rates the reader does not know or that do not fit, a number that is no bit
\* rate, and a board that does not fit a byte.
LoraWide  == [Lora EXCEPT !.datr.width = 65]
LoraHuge  == [Lora EXCEPT !.datr.width = 300]
FskFast   == [Fsk EXCEPT !.datr.width = 300]
Other     == [Lora EXCEPT !.datr.kind = "Other"]
FskBelow  == [Fsk EXCEPT !.datr.width = -1]
LoraBoard == [Lora EXCEPT !.brd = 5]

Batches == {<<Lora>>, <<LoraTwice, LrFhss>>, <<LoraPlain>>, <<Fsk, LoraTwice>>,
            <<Lora, NoCodr>>, <<Lora, NoSteps>>, <<Lora, FskUpper>>,
            <<LoraBoard>>, <<LoraWide, FskFast>>, <<LoraHuge>>, <<Lora, Other>>,
            <<Lora, FskBelow>>, <<FskUpper, FskBelow>>}

\* Just after the start, in the middle of a millisecond, just before the
\* counter wraps.
Instants == {0, 37, 1019}

Item(timing, span, power, modulation) ==
  [missing |-> None, cut |-> FALSE, timing |-> timing, span |-> span, context |-> <<>>,
   power |-> power, antenna |-> 0, board |-> 0, modulation |-> modulation]

Modulation(rate, code_rate, deviation) ==
  [rate |-> rate, code_rate |-> code_rate, deviation |-> deviation,
   no_crc |-> FALSE, inverted |-> TRUE, preamble |-> 8]

LoraDown   == Modulation(DataRate("Lora", 7, 8), "Cr45", 0)
LoraSlow   == [Modulation(DataRate("Lora", 12, 31), "CrLi48", 0) EXCEPT !.no_crc = TRUE, !.preamble = 0]
LrFhssDown == Modulation(DataRate("LrFhss", 0, 12), "Cr56", 0)
NoRateDown == [Modulation(DataRate("Lora", 7, 8), "CrUndefined", 0) EXCEPT !.inverted = FALSE, !.preamble = 17]
FskDown    == Modulation(DataRate("Fsk", 0, 50), "CrUndefined", 5)

Modulations == {LoraDown, LoraSlow, LrFhssDown, NoRateDown, FskDown}

\* Delays of a second, of none and of a second and a bit, immediate ones, GPS
\* times, and items that break the protocol: a field missing, a negative time, a
\* context that was cut, a power that does not fit.
Answers ==
  {Item("delay", 64, 3, m) : m \in Modulations}
  \union {Item("delay", span, 2, LoraDown) : span \in {0, 71}}
  \union {Item("gps", span, 3, LoraDown) : span \in {64, 71}}
  \union {Item("immediately", None, 1, m) : m \in {LoraDown, FskDown}}
  \union {[Item("delay", 64, 3, LoraDown) EXCEPT !.missing = "modulation"],
          [Item("delay", 64, 3, LoraDown) EXCEPT !.cut = TRUE],
          Item("delay", None, 3, LoraDown), Item("gps", None, 3, LoraDown),
          Item("delay", -1, 3, LoraDown), Item("immediately", None, -1, LoraDown)}

Reports ==
  {[emitted |-> TRUE, length |-> 12, error |-> ""], [emitted |-> TRUE, length |-> 40, error |-> ""],
   [emitted |-> TRUE, length |-> 40, error |-> "NONE"]}
  \union {[emitted |-> FALSE, length |-> 40, error |-> e] :
            e \in {"TOO_LATE", "GPS_UNLOCKED", "SOMETHING_ELSE"}}
=============================================================================
