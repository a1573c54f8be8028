---------------------------- MODULE ExchangeProofs ----------------------------
(***************************************************************************)
(* The conversions of Codec keep what they convert, for every size of a    *)
(* byte, every unit and all receptions, answers and times: the properties  *)
(* of Exchange as theorems.                                                *)
(***************************************************************************)
EXTENDS Exchange, DataLemmas

-----------------------------------------------------------------------------
(* Numbers and texts.                                                       *)

\* All the units are positive.
LEMMA Units ==
  /\ Byte \in Nat \ {0} /\ Word \in Nat \ {0} /\ DoubleWord \in Nat \ {0}
  /\ Word * Byte \in Nat \ {0}
  /\ Kilo \in Nat \ {0} /\ Mega \in Nat \ {0} /\ Giga \in Nat \ {0}
<1>1. \A m, n \in Nat \ {0} : m * n \in Nat \ {0}
  OBVIOUS
<1>2. Byte \in Nat \ {0} /\ Kilo \in Nat \ {0}
  BY CodecAssumption
<1>3. Word \in Nat \ {0} /\ Mega \in Nat \ {0}
  BY <1>1, <1>2 DEF Word, Mega
<1>4. DoubleWord \in Nat \ {0} /\ Giga \in Nat \ {0} /\ Word * Byte \in Nat \ {0}
  BY <1>1, <1>2, <1>3 DEF DoubleWord, Giga
<1> QED BY <1>2, <1>3, <1>4

\* A cut to a width gives a number of that width, and leaves one of that width alone.
LEMMA Widths ==
  ASSUME NEW x \in Int
  PROVE  /\ U8(x) \in 0 .. Byte - 1 /\ U16(x) \in 0 .. Word - 1 /\ U32(x) \in 0 .. DoubleWord - 1
         /\ x \in 0 .. Byte - 1 => U8(x) = x
         /\ x \in 0 .. Word - 1 => U16(x) = x
         /\ x \in 0 .. DoubleWord - 1 => U32(x) = x
BY Units, DivisionSplits, ModOfSmall DEF U8, U16, U32

\* The same, for whoever needs the ranges only.
LEMMA CutRanges ==
  \A x \in Int :
    /\ U8(x) \in Int /\ U8(x) \in 0..(Byte - 1)
    /\ U16(x) \in Int /\ U16(x) \in 0..(Word - 1)
    /\ U32(x) \in Int /\ U32(x) \in 0..(DoubleWord - 1)
BY Widths, Units

\* The four bytes of a number of four bytes mean that number.
LEMMA BigEndianInverse ==
  ASSUME NEW x \in 0 .. DoubleWord - 1
  PROVE  FromBigEndian(BigEndian(x)) = x /\ Len(BigEndian(x)) = 4
<1> DEFINE x1 == x \div Byte
           x2 == x \div Word
           x3 == x \div (Word * Byte)
<1>1. x \in Nat /\ x1 \in Nat /\ x2 \in Nat /\ x3 \in Nat
  BY Units, QuotientNat
<1>2. x2 = x1 \div Byte
  BY <1>1, Units, DivDiv DEF Word
<1>3. x3 = x2 \div Byte
  BY <1>1, Units, DivDiv
<1>4. /\ x = Byte * x1 + (x % Byte) /\ x % Byte \in Int
      /\ x1 = Byte * x2 + (x1 % Byte) /\ x1 % Byte \in Int
      /\ x2 = Byte * x3 + (x2 % Byte) /\ x2 % Byte \in Int
  <2> HIDE DEF x1, x2, x3
  <2>1. x = Byte * (x \div Byte) + (x % Byte) /\ x % Byte \in Int
    BY <1>1, Units, DivisionSplits
  <2>2. x1 = Byte * (x1 \div Byte) + (x1 % Byte) /\ x1 % Byte \in Int
    BY <1>1, Units, DivisionSplits
  <2>3. x2 = Byte * (x2 \div Byte) + (x2 % Byte) /\ x2 % Byte \in Int
    BY <1>1, Units, DivisionSplits
  <2> QED BY <1>2, <1>3, <2>1, <2>2, <2>3 DEF x1
<1>5. BigEndian(x) = <<x3, x2 % Byte, x1 % Byte, x % Byte>>
  BY DEF BigEndian
<1> HIDE DEF x1, x2, x3
<1>6. \A i \in Int : i * Byte = Byte * i
  BY Units
<1>7. x3 * Byte + (x2 % Byte) = x2
  BY <1>1, <1>4, <1>6
<1>8. x2 * Byte + (x1 % Byte) = x1
  BY <1>1, <1>4, <1>6
<1>9. x1 * Byte + (x % Byte) = x
  BY <1>1, <1>4, <1>6
<1> QED BY <1>5, <1>7, <1>8, <1>9 DEF FromBigEndian

\* A table that has one value for k gives it.
LEMMA LookupFound ==
  ASSUME NEW table, NEW k, NEW v, NEW default,
         <<k, v>> \in table, \A p \in table : p[1] = k => p[2] = v
  PROVE  Lookup(table, k, default) = v
<1>1. \E p \in table : p[1] = k
  BY <<k, v>>[1] = k
<1> QED BY <1>1 DEF Lookup

LEMMA LookupRange ==
  ASSUME NEW table, NEW k, NEW default
  PROVE  Lookup(table, k, default) \in {p[2] : p \in table} \union {default}
BY DEF Lookup

\* Every text is read as a code rate.
LEMMA CodeRateRead == \A s : ReadCodeRate(s) \in CodeRate
<1>1. {p[2] : p \in TextCodeRate} \union {"CrUndefined"} \subseteq CodeRate
  BY DEF TextCodeRate, CodeRate
<1> QED BY <1>1, LookupRange DEF ReadCodeRate

\* Every code rate but two is written as a text that is read as it again.
Reversible == CodeRate \ {"CrLi48", "CrUndefined"}

\* The two tables have a text in common for each of these code rates.
LEMMA CodeRateTextPairs ==
  \A cr \in Reversible : \E s : <<cr, s>> \in CodeRateText /\ <<s, cr>> \in TextCodeRate
BY DEF Reversible, CodeRate, CodeRateText, TextCodeRate

\* Reading is the inverse of writing, but for the two exceptions.
LEMMA CodeRateInverse ==
  ASSUME NEW cr \in Reversible
  PROVE  WriteCodeRate(cr) # None /\ ReadCodeRate(WriteCodeRate(cr)) = cr
<1>1. PICK s : <<cr, s>> \in CodeRateText /\ <<s, cr>> \in TextCodeRate
  BY CodeRateTextPairs
<1>2. \A p, q \in CodeRateText : p[1] = q[1] => p[2] = q[2]
  BY DEF CodeRateText
<1>3. \A p, q \in TextCodeRate : p[1] = q[1] => p[2] = q[2]
  BY DEF TextCodeRate
<1>4. WriteCodeRate(cr) = s
  <2>1. \A p \in CodeRateText : p[1] = cr => p[2] = s
    BY <1>1, <1>2
  <2> QED BY <1>1, <2>1, LookupFound DEF WriteCodeRate
<1>5. ReadCodeRate(s) = cr
  BY <1>1, <1>3, LookupFound DEF ReadCodeRate
<1>6. None # <<cr, s>>[2]
  BY <1>1, NoneIsNoText
<1> QED BY <1>4, <1>5, <1>6

-----------------------------------------------------------------------------
(* Frames.                                                                  *)

\* The times are natural numbers.
LEMMA Times ==
  /\ GpsOffset \in Nat /\ MaxAdvance \in Nat
  /\ \A t \in Instant \union Travel : t \in Nat
<1>1. Instant \union Travel \union {MaxAdvance, GpsOffset} \subseteq Nat
  BY ExchangeAssumption
<1> QED BY <1>1

\* Frame f is what a signal of reception r gives that was received at a time.
Faithful(f, signal, r, at) ==
  /\ f.antenna = signal.ant /\ f.channel = signal.chan /\ f.board = r.brd /\ f.board \in Nat
  /\ ModulationReported(r, f.modulation)
  /\ f.context = BigEndian(U32(at \div Kilo))
  /\ f.gps = IF r.gps THEN GpsTime(at) \div Mega ELSE None
  /\ f.fine = IF r.gps /\ r.fine THEN GpsTime(at) ELSE None

\* The seconds of the GPS time and the nanoseconds of its second are the GPS time.
LEMMA FineTimeExact ==
  ASSUME NEW g \in Nat
  PROVE  ((g \div Mega) \div Kilo) * Giga + (g % Giga) = g
<1>1. (g \div Mega) \div Kilo = g \div Giga
  BY Units, DivDiv DEF Giga
<1>2. g = Giga * (g \div Giga) + (g % Giga) /\ g \div Giga \in Int /\ g % Giga \in Int
  BY Units, DivisionSplits
<1>3. (g \div Giga) * Giga = Giga * (g \div Giga)
  BY <1>2, Units
<1> QED BY <1>1, <1>2, <1>3

\* What RxPk changes in a reception, and what it leaves alone.
LEMMA RxPkFields ==
  ASSUME NEW r \in ReceptionType, NEW at \in Nat
  PROVE  /\ RxPk(r, at).tmst = U32(at \div Kilo)
         /\ RxPk(r, at).tmms = IF r.gps THEN GpsTime(at) \div Mega ELSE None
         /\ RxPk(r, at).ftime = IF r.fine THEN GpsTime(at) % Giga ELSE None
         /\ RxPk(r, at).ant = r.ant /\ RxPk(r, at).chan = r.chan /\ RxPk(r, at).brd = r.brd
         /\ RxPk(r, at).rsig = r.rsig
         /\ RxPk(r, at).datr = r.datr /\ RxPk(r, at).codr = r.codr /\ RxPk(r, at).hpw = r.hpw
BY DEF RxPk, ReceptionType

\* What Modulated reads is what the texts of the reception say.
LEMMA ModulatedReported ==
  ASSUME NEW r \in ReceptionType, NEW at \in Nat
  PROVE  ModulationReported(r, Modulated(RxPk(r, at)))
<1> DEFINE p == RxPk(r, at)
           m == Modulated(p)
           d == r.datr
<1>1. p.datr = d /\ p.codr = r.codr /\ p.hpw = r.hpw
  BY RxPkFields
<1>2. /\ m.rate = ReadDataRate(d)
      /\ m.code_rate = IF d.kind = "Fsk" THEN None ELSE CodeRateToProto(ReadCodeRate(r.codr))
      /\ m.steps = IF d.kind = "LrFhss" THEN r.hpw ELSE None
  <2> HIDE DEF p
  <2> QED BY <1>1 DEF Modulated
<1> HIDE DEF p, m
<1>3. ASSUME FitsU32(Hertz(d)) PROVE m.rate = [d EXCEPT !.width = Hertz(d)]
  <2>1. U32(Hertz(d)) = Hertz(d)
    BY <1>3, Widths, Units DEF FitsU32
  <2> QED BY <1>2, <2>1 DEF ReadDataRate
<1>4. ASSUME NEW cr \in CodeRate \ {"CrUndefined", "Cr56", "CrLi48"},
             d.kind # "Fsk", r.codr = WriteCodeRate(cr)
      PROVE  m.code_rate = cr
  <2>1. ReadCodeRate(r.codr) = cr
    BY <1>4, CodeRateInverse DEF Reversible
  <2> QED BY <1>2, <1>4, <2>1 DEF CodeRateToProto
<1> QED BY <1>2, <1>3, <1>4 DEF ModulationReported, m, p

\* A frame with the fields ToFrames gives it is faithful.
LEMMA FrameOfSignal ==
  ASSUME NEW r \in ReceptionType, NEW at \in Nat, NEW signal, NEW f,
         f.antenna = signal.ant, f.channel = signal.chan,
         f.board = RxPk(r, at).brd,
         f.modulation = Modulated(RxPk(r, at)),
         f.context = BigEndian(RxPk(r, at).tmst),
         f.gps = RxPk(r, at).tmms,
         f.fine = FineTime(RxPk(r, at))
  PROVE  Faithful(f, signal, r, at)
<1>1. f.board = r.brd /\ f.board \in Nat
  <2>1. RxPk(r, at).brd = r.brd
    BY RxPkFields
  <2>2. r.brd \in 0 .. DoubleWord - 1
    BY DEF ReceptionType
  <2>3. \A x \in 0 .. DoubleWord - 1 : x \in Nat
    BY Units
  <2> QED BY <2>1, <2>2, <2>3
<1>2. ModulationReported(r, f.modulation)
  BY ModulatedReported
<1>3. ASSUME r.gps, r.fine PROVE f.fine = GpsTime(at)
  <2>1. GpsTime(at) \in Nat
    BY Times DEF GpsTime
  <2>2. /\ RxPk(r, at).tmms = GpsTime(at) \div Mega
        /\ RxPk(r, at).ftime = GpsTime(at) % Giga
    BY <1>3, RxPkFields
  <2>3. GpsTime(at) \div Mega \in Int /\ GpsTime(at) % Giga \in Int
    <3>1. \A x \in Nat : x \div Mega \in Int /\ x % Giga \in Int
      BY Units, DivisionSplits
    <3> QED BY <2>1, <3>1
  <2>4. RxPk(r, at).tmms # None /\ RxPk(r, at).ftime # None
    BY <2>2, <2>3, CodecAssumption
  <2>5. f.fine = ((GpsTime(at) \div Mega) \div Kilo) * Giga + (GpsTime(at) % Giga)
    BY <2>2, <2>4 DEF FineTime
  <2> QED BY <2>1, <2>5, FineTimeExact
<1>4. ASSUME ~(r.gps /\ r.fine) PROVE f.fine = None
  BY <1>4, RxPkFields DEF FineTime
<1> QED BY <1>1, <1>2, <1>3, <1>4, RxPkFields DEF Faithful

\* A reception gives as many frames as it has signals, and each is its signal's.
LEMMA ReceptionFaithful ==
  ASSUME NEW r \in ReceptionType, NEW at \in Nat, NEW i
  PROVE  LET f == ToFrames(RxPk(r, at), TimeFallback)
             s == SignalsOf(i, r)
         IN /\ Len(f) = Len(s) /\ Len(f) \in Nat
            /\ f = [j \in 1 .. Len(f) |-> f[j]]
            /\ s = [j \in 1 .. Len(f) |-> s[j]]
            /\ \A j \in 1 .. Len(f) :
                 /\ Faithful(f[j], s[j], r, at)
                 /\ s[j].of = i /\ s[j].ant \in 0 .. Byte - 1
<1> DEFINE p == RxPk(r, at)
           f == ToFrames(p, TimeFallback)
           s == SignalsOf(i, r)
<1>1. CASE r.rsig = <<>>
  <2>1. p.rsig = <<>> /\ p.ant = r.ant /\ p.chan = r.chan
    BY <1>1, RxPkFields
  <2> HIDE DEF p
  <2>2. /\ f = <<f[1]>>
        /\ f[1].antenna = p.ant /\ f[1].channel = p.chan /\ f[1].board = p.brd
        /\ f[1].context = BigEndian(p.tmst) /\ f[1].gps = p.tmms /\ f[1].fine = FineTime(p)
        /\ f[1].modulation = Modulated(p)
    BY <2>1 DEF ToFrames
  <2> USE DEF p
  <2>3. s = <<Signal(i, r.ant, r.chan)>>
    BY <1>1 DEF SignalsOf
  <2>4. s[1].of = i /\ s[1].ant = r.ant /\ s[1].chan = r.chan
    BY <2>3 DEF Signal
  <2>5. s[1].ant \in 0 .. Byte - 1
    BY <2>4 DEF ReceptionType
  <2> HIDE DEF p, f, s
  <2>6. Faithful(f[1], s[1], r, at)
    BY <2>1, <2>2, <2>4, FrameOfSignal DEF p
  <2>7. Len(f) = 1 /\ Len(s) = 1
    BY <2>2, <2>3
  <2>8. 1 .. 1 = {1}
    OBVIOUS
  <2>9. f = [j \in 1 .. 1 |-> f[j]] /\ s = [j \in 1 .. 1 |-> s[j]]
    BY <2>2, <2>3
  <2> QED BY <2>4, <2>5, <2>6, <2>7, <2>8, <2>9 DEF f, s, p
<1>2. CASE r.rsig # <<>>
  <2>1. p.rsig = r.rsig
    BY RxPkFields
  <2>2. r.rsig \in Seq(SignalType)
    BY DEF ReceptionType
  <2> DEFINE n == Len(r.rsig)
  <2>3. n \in Nat /\ DOMAIN r.rsig = 1 .. n /\ \A j \in 1 .. n : r.rsig[j] \in SignalType
    BY <2>2
  <2> HIDE DEF p, n
  <2>4. /\ f = [j \in 1 .. n |-> f[j]]
        /\ \A j \in 1 .. n :
             /\ f[j].antenna = r.rsig[j].ant /\ f[j].channel = r.rsig[j].chan /\ f[j].board = p.brd
             /\ f[j].context = BigEndian(p.tmst) /\ f[j].gps = p.tmms /\ f[j].fine = FineTime(p)
             /\ f[j].modulation = Modulated(p)
    BY <1>2, <2>1, <2>3 DEF ToFrames
  <2>5. s = [j \in 1 .. n |-> Signal(i, r.rsig[j].ant, r.rsig[j].chan)]
    BY <1>2, <2>3 DEF SignalsOf
  <2>6. s = [j \in 1 .. n |-> s[j]]
    BY <2>5
  <2>7. \A j \in 1 .. n :
          /\ s[j].of = i /\ s[j].ant = r.rsig[j].ant /\ s[j].chan = r.rsig[j].chan
          /\ s[j].ant \in 0 .. Byte - 1
    BY <2>3, <2>5 DEF Signal, SignalType
  <2> HIDE DEF f, s
  <2>8. \A j \in 1 .. n : Faithful(f[j], s[j], r, at)
    BY <2>4, <2>7, FrameOfSignal DEF p
  <2>9. Len(f) = n /\ Len(s) = n
    BY <2>3, <2>4, <2>6
  <2> QED BY <2>3, <2>4, <2>6, <2>7, <2>8, <2>9 DEF f, s, p
<1> QED BY <1>1, <1>2

\* What the frames of a batch are that was received at a time.
FramesOf(b, at) ==
  FlattenSeq([i \in DOMAIN b |-> ToFrames(RxPk(b[i], at), TimeFallback)])

BatchFaithful(fs, b, at) ==
  /\ Len(fs) = Len(Signals(b))
  /\ \A k \in DOMAIN fs :
       /\ Signals(b)[k].of \in DOMAIN b
       /\ Signals(b)[k].ant \in 0 .. Byte - 1
       /\ Faithful(fs[k], Signals(b)[k], b[Signals(b)[k].of], at)

\* The frames of a batch are faithful: they and the signals are two flattenings of
\* the same shape.
LEMMA FramesOfFaithful ==
  ASSUME NEW b \in Batch, NEW at \in Nat
  PROVE  BatchFaithful(FramesOf(b, at), b, at)
<1> DEFINE A == [i \in DOMAIN b |-> ToFrames(RxPk(b[i], at), TimeFallback)]
           B == [i \in DOMAIN b |-> SignalsOf(i, b[i])]
<1>1. b \in Seq(ReceptionType)
  BY ExchangeAssumption
<1>2. DOMAIN b = 1 .. Len(b) /\ Len(b) \in Nat /\ \A i \in DOMAIN b : b[i] \in ReceptionType
  BY <1>1
<1>3. A = [i \in 1 .. Len(b) |-> A[i]] /\ B = [i \in 1 .. Len(b) |-> B[i]]
  BY <1>2
<1>4. \A i \in 1 .. Len(b) :
        /\ Len(A[i]) = Len(B[i]) /\ Len(A[i]) \in Nat
        /\ A[i] = [j \in 1 .. Len(A[i]) |-> A[i][j]]
        /\ B[i] = [j \in 1 .. Len(A[i]) |-> B[i][j]]
        /\ \A j \in 1 .. Len(A[i]) :
             /\ Faithful(A[i][j], B[i][j], b[i], at)
             /\ B[i][j].of = i /\ B[i][j].ant \in 0 .. Byte - 1
  BY <1>2, ReceptionFaithful
<1>5. FramesOf(b, at) = FlattenSeq(A) /\ Signals(b) = FlattenSeq(B)
  BY DEF FramesOf, Signals
<1> HIDE DEF A, B
<1> DEFINE S == UNION {{A[i][j] : j \in 1 .. Len(A[i])} : i \in 1 .. Len(b)}
           R == UNION {{B[i][j] : j \in 1 .. Len(A[i])} : i \in 1 .. Len(b)}
<1>6. ASSUME NEW i \in 1 .. Len(b) PROVE A[i] \in Seq(S) /\ B[i] \in Seq(R)
  <2>1. \A j \in 1 .. Len(A[i]) : A[i][j] \in S /\ B[i][j] \in R
    OBVIOUS
  <2> HIDE DEF S, R
  <2>2. A[i] \in [1 .. Len(A[i]) -> S] /\ B[i] \in [1 .. Len(A[i]) -> R]
    BY <1>4, <2>1
  <2> QED BY <1>4, <2>2, SeqDef
<1> HIDE DEF S, R
<1>7. A \in [1 .. Len(b) -> Seq(S)] /\ B \in [1 .. Len(b) -> Seq(R)]
  BY <1>3, <1>6
<1>8. A \in Seq(Seq(S)) /\ B \in Seq(Seq(R)) /\ Len(A) = Len(b) /\ Len(B) = Len(b)
  BY <1>2, <1>7, SeqDef
<1>9. \A i \in DOMAIN A : Len(A[i]) = Len(B[i])
  BY <1>4, <1>7
<1>10. /\ FlattenSeq(A) \in Seq(S)
       /\ FlattenSeq(B) \in Seq(R)
       /\ Together(A, B, FlattenSeq(A), FlattenSeq(B))
  BY <1>8, <1>9, FlattenTogether
<1>11. ASSUME NEW k \in DOMAIN FlattenSeq(A)
       PROVE  /\ FlattenSeq(B)[k].of \in DOMAIN b
              /\ FlattenSeq(B)[k].ant \in 0 .. Byte - 1
              /\ Faithful(FlattenSeq(A)[k], FlattenSeq(B)[k], b[FlattenSeq(B)[k].of], at)
  <2>1. PICK i \in DOMAIN A : \E j \in DOMAIN A[i] :
          FlattenSeq(A)[k] = A[i][j] /\ FlattenSeq(B)[k] = B[i][j]
    BY <1>10, <1>11 DEF Together
  <2>2. i \in 1 .. Len(b)
    BY <1>7
  <2>3. PICK j \in 1 .. Len(A[i]) : FlattenSeq(A)[k] = A[i][j] /\ FlattenSeq(B)[k] = B[i][j]
    BY <1>6, <2>1, <2>2
  <2>4. /\ Faithful(A[i][j], B[i][j], b[i], at)
        /\ B[i][j].of = i /\ B[i][j].ant \in 0 .. Byte - 1
    BY <1>4, <2>2
  <2> QED BY <1>2, <2>2, <2>3, <2>4
<1> QED BY <1>5, <1>10, <1>11 DEF BatchFaithful, Together

-----------------------------------------------------------------------------
(* Downlinks.                                                               *)

\* What ItemFor changes in an answer, and what it leaves alone.
LEMMA ItemFields ==
  ASSUME NEW answer \in Answer, NEW f
  PROVE  /\ ItemFor(answer, f).timing = answer.timing
         /\ ItemFor(answer, f).modulation = answer.modulation
         /\ ItemFor(answer, f).power = answer.power
         /\ ItemFor(answer, f).antenna = f.antenna
         /\ ItemFor(answer, f).board = f.board
         /\ ItemFor(answer, f).context = IF answer.cut THEN SubSeq(f.context, 1, 3) ELSE f.context
         /\ ItemFor(answer, f).span =
              IF answer.timing = "gps" /\ answer.span # None
              THEN f.gps * Mega + answer.span ELSE answer.span
BY ExchangeAssumption DEF ItemFor, AnswerType

LEMMA AnswerFields ==
  ASSUME NEW answer \in Answer
  PROVE  /\ answer.timing \in {"immediately", "delay", "gps"}
         /\ answer.span \in Int \union {None} /\ answer.power \in Int
         /\ answer.modulation.rate \in DataRateType
         /\ answer.modulation.code_rate \in CodeRate
         /\ answer.modulation.deviation \in Nat /\ answer.modulation.preamble \in Nat
         /\ answer.modulation.no_crc \in BOOLEAN /\ answer.modulation.inverted \in BOOLEAN
BY ExchangeAssumption DEF AnswerType

\* A context that was cut does not do for a delay.
LEMMA ContextWhole ==
  ASSUME NEW answer \in Answer, NEW f,
         Translatable(ItemFor(answer, f)), answer.timing = "delay"
  PROVE  ItemFor(answer, f).context = f.context
<1>1. SUFFICES ASSUME answer.cut PROVE Len(ItemFor(answer, f).context) < 4
  BY ItemFields DEF Translatable
<1>2. ItemFor(answer, f).context = SubSeq(f.context, 1, 3)
  BY <1>1, ItemFields
<1> QED BY <1>2

\* The whole kilohertz of a width are read as they were written.
LEMMA WidthInverse ==
  ASSUME NEW w \in 0 .. DoubleWord - 1
  PROVE  /\ U32((w \div Kilo) * Kilo) \in 0 .. DoubleWord - 1
         /\ w % Kilo = 0 => U32((w \div Kilo) * Kilo) = w
<1>1. w = Kilo * (w \div Kilo) + (w % Kilo) /\ w \div Kilo \in Int
  BY Units, DivisionSplits
<1>2. (w \div Kilo) * Kilo = Kilo * (w \div Kilo) /\ Kilo * (w \div Kilo) \in Int
  BY <1>1, Units
<1>3. U32((w \div Kilo) * Kilo) \in 0 .. DoubleWord - 1
  BY <1>2, Widths
<1>4. w % Kilo = 0 => (w \div Kilo) * Kilo = w
  BY <1>1, <1>2
<1> QED BY <1>3, <1>4, Widths

\* A data rate in whole kilohertz is read as it was written.
LEMMA DataRateInverse ==
  ASSUME NEW d \in DataRateType
  PROVE  /\ ReadDataRate(WriteDataRate(d)) \in DataRateType
         /\ d.kind = "Fsk" \/ d.width % Kilo = 0 => ReadDataRate(WriteDataRate(d)) = d
<1>1. CASE d.kind = "Fsk"
  <2>1. d.width \in 0 .. DoubleWord - 1 /\ U32(d.width) = d.width
    BY Widths, Units DEF DataRateType
  <2>2. ReadDataRate(WriteDataRate(d)) = [d EXCEPT !.width = d.width]
    BY <1>1, <2>1 DEF ReadDataRate, WriteDataRate, Hertz
  <2> QED BY <2>2 DEF DataRateType
<1>2. CASE d.kind # "Fsk"
  <2> DEFINE w == U32((d.width \div Kilo) * Kilo)
  <2>1. WriteDataRate(d) = [d EXCEPT !.width = d.width \div Kilo]
    BY <1>2 DEF WriteDataRate
  <2>2. WriteDataRate(d).kind = d.kind /\ WriteDataRate(d).width = d.width \div Kilo
    BY <2>1 DEF DataRateType
  <2>3. ReadDataRate(WriteDataRate(d)) = [d EXCEPT !.width = w]
    BY <1>2, <2>1, <2>2 DEF ReadDataRate, Hertz, DataRateType
  <2>4. d.width \in 0 .. DoubleWord - 1
    BY DEF DataRateType
  <2>5. w \in 0 .. DoubleWord - 1 /\ (d.width % Kilo = 0 => w = d.width)
    BY <2>4, WidthInverse
  <2> HIDE DEF w
  <2> QED BY <1>2, <2>3, <2>5 DEF DataRateType
<1> QED BY <1>1, <1>2

\* A counter value that is due and not further ahead than the packet forwarder
\* accepts is the moment that was meant, and one that is past is taken for one
\* that is too far ahead.
LEMMA CounterMeansMoment ==
  ASSUME NEW r \in Nat, NEW d \in 0 .. DoubleWord - 1, NEW now \in Nat, NEW max \in Nat,
         r <= now, now - r + max < DoubleWord,
         U32(U32(U32(r) + d) - now) <= max
  PROVE  now + U32(U32(U32(r) + d) - now) = r + d
<1> DEFINE M == DoubleWord
           wait == U32(U32(U32(r) + d) - now)
           a == U32(r)
           t == U32(a + d)
<1>1. M \in Nat \ {0}
  BY Units
<1>2. /\ a \in 0 .. M - 1 /\ \E i \in Int : r = a + M * i
  <2>1. r = M * (r \div M) + (r % M) /\ r \div M \in Int /\ r % M \in 0 .. M - 1
    BY <1>1, DivisionSplits
  <2>2. M * (r \div M) \in Int
    BY <1>1, <2>1
  <2>3. r = (r % M) + M * (r \div M)
    BY <2>1, <2>2
  <2> QED BY <2>1, <2>3 DEF U32
<1>3. /\ t \in 0 .. M - 1 /\ \E i \in Int : a + d = t + M * i
  <2>0. a + d \in Int
    BY <1>2, <1>1
  <2>1. a + d = M * ((a + d) \div M) + ((a + d) % M) /\ (a + d) \div M \in Int /\ (a + d) % M \in 0 .. M - 1
    BY <1>1, <2>0, DivisionSplits
  <2>2. M * ((a + d) \div M) \in Int
    BY <1>1, <2>1
  <2>3. a + d = ((a + d) % M) + M * ((a + d) \div M)
    BY <2>0, <2>1, <2>2
  <2> QED BY <2>1, <2>3 DEF U32
<1>4. /\ wait \in 0 .. M - 1 /\ \E i \in Int : t - now = wait + M * i
  <2>0. t - now \in Int
    BY <1>3, <1>1
  <2>1. t - now = M * ((t - now) \div M) + ((t - now) % M) /\ (t - now) \div M \in Int /\ (t - now) % M \in 0 .. M - 1
    BY <1>1, <2>0, DivisionSplits
  <2>2. M * ((t - now) \div M) \in Int
    BY <1>1, <2>1
  <2>3. t - now = ((t - now) % M) + M * ((t - now) \div M)
    BY <2>0, <2>1, <2>2
  <2> QED BY <2>1, <2>3 DEF U32
<1>5. wait <= max
  OBVIOUS
<1>6. PICK i \in Int, j \in Int, k \in Int :
        r = a + M * i /\ a + d = t + M * j /\ t - now = wait + M * k
  BY <1>2, <1>3, <1>4
<1> HIDE DEF wait, a, t, M
<1> DEFINE e == (i + j) + k
<1>7. M * e = ((M * i) + (M * j)) + (M * k) /\ M * i \in Int /\ M * j \in Int /\ M * k \in Int /\ e \in Int
  BY <1>1, <1>6
<1>8. (r + d) - (now + wait) = M * e
  <2>1. \A x, y, z, u, v, w \in Int :
          r = x + u /\ x + d = y + v /\ y - now = z + w => (r + d) - (now + z) = (u + v) + w
    OBVIOUS
  <2>2. a \in Int /\ t \in Int /\ wait \in Int
    BY <1>1, <1>2, <1>3, <1>4
  <2>3. PICK u \in Int, v \in Int, w \in Int : u = M * i /\ v = M * j /\ w = M * k
    BY <1>7
  <2>4. r = a + u /\ a + d = t + v /\ t - now = wait + w
    BY <1>6, <2>3
  <2>5. (r + d) - (now + wait) = (u + v) + w
    BY <2>1, <2>2, <2>3, <2>4
  <2> QED BY <1>7, <2>3, <2>5
<1>9. M * e < M /\ -M < M * e
  <2>1. d < M /\ d >= 0 /\ wait >= 0 /\ d \in Int /\ wait \in Int
    BY <1>1, <1>4 DEF M
  <2>2. now - r + max < M
    BY DEF M
  <2> QED BY <1>1, <1>5, <1>8, <2>1, <2>2
<1> HIDE DEF e
<1>10. e = 0
  BY <1>1, <1>7, <1>9, SmallMultiple
<1>11. M * e = 0
  BY <1>1, <1>10
<1>12. now + wait = r + d
  BY <1>4, <1>8, <1>11
<1> QED BY <1>12 DEF wait, t, a

-----------------------------------------------------------------------------
(* The inductive invariant.                                                 *)

FramesInv == received \in Nat /\ (frames # <<>> => BatchFaithful(frames, batch, received))

\* An answer that can be translated is on its way to the packet forwarder as a
\* txpk object, and nothing has come of it yet.
CommandFollows ==
  /\ frames # <<>> /\ command.of \in DOMAIN frames
  /\ command.answer \in Answer
  /\ command.answer.timing = "gps" => frames[command.of].gps # None
  /\ command.item = ItemFor(command.answer, frames[command.of])
  /\ Translatable(command.item)
  /\ txpk = TxPk(command.item)
  /\ cached = [token |-> U16(command.id), id |-> command.id]
  /\ command.id \in DownlinkId
  /\ \E travel \in Travel : clock = received + travel

NothingYet == emission = None /\ ack = None

ConversationInv ==
  /\ TypeOK
  /\ FramesInv
  /\ stage = "pushed" => clock = received /\ frames # <<>> /\ NothingYet
  /\ stage = "sent" => CommandFollows /\ NothingYet
  /\ stage = "aborted" => frames = <<>> /\ txpk = None /\ NothingYet
  /\ ReceiveWindow
  /\ EmittedAsCommanded
  /\ AckFaithful

-----------------------------------------------------------------------------
(* What a txpk object says.                                                 *)

\* The fields of a frame that an item takes over.
LEMMA AnsweredFrame ==
  ASSUME FramesInv, frames # <<>>, NEW k \in DOMAIN frames
  PROVE  /\ frames[k].antenna = Signals(batch)[k].ant /\ frames[k].antenna \in 0 .. Byte - 1
         /\ frames[k].board \in Nat
         /\ FromBigEndian(frames[k].context) = U32(received \div Kilo)
         /\ frames[k].gps # None => frames[k].gps = GpsTime(received) \div Mega
         /\ frames[k].gps # None => frames[k].gps \in Nat
<1>1. /\ Faithful(frames[k], Signals(batch)[k], batch[Signals(batch)[k].of], received)
      /\ Signals(batch)[k].ant \in 0 .. Byte - 1
  BY DEF FramesInv, BatchFaithful
<1>2. received \div Kilo \in Int /\ GpsTime(received) \in Nat
  BY Units, DivisionSplits, Times DEF FramesInv, GpsTime
<1>3. FromBigEndian(frames[k].context) = U32(received \div Kilo)
  BY <1>1, <1>2, Widths, BigEndianInverse DEF Faithful
<1>4. GpsTime(received) \div Mega \in Nat
  BY <1>2, Units, QuotientNat
<1> QED BY <1>1, <1>3, <1>4 DEF Faithful

\* TypeOK of the fields of a txpk object.
TxPkType(t) ==
  /\ t.tmst \in 0..(DoubleWord - 1) \union {None}
  /\ {t.powe, t.ant, t.brd} \subseteq 0..(Byte - 1)
  /\ t.fdev \in 0..(Word - 1) \union {None}
  /\ t.prea \in 0..(Word - 1) \union {None}

\* The fields of a txpk object.
LEMMA TxPkFields ==
  ASSUME NEW item
  PROVE  LET m == item.modulation
         IN /\ TxPk(item).imme = (item.timing = "immediately")
            /\ TxPk(item).tmst = IF item.timing = "delay" THEN CounterValue(item.context, item.span) ELSE None
            /\ TxPk(item).tmms = IF item.timing = "gps" THEN item.span \div Mega ELSE None
            /\ TxPk(item).powe = U8(item.power)
            /\ TxPk(item).ant = U8(item.antenna)
            /\ TxPk(item).brd = U8(item.board)
            /\ TxPk(item).datr = WriteDataRate(m.rate)
            /\ TxPk(item).codr = IF m.rate.kind = "Lora" THEN WriteCodeRate(m.code_rate) ELSE None
            /\ TxPk(item).fdev = IF m.rate.kind = "Fsk" THEN U16(m.deviation) ELSE None
            /\ TxPk(item).prea = IF m.rate.kind = "Lora" THEN Preamble(m.preamble) ELSE None
            /\ m.rate.kind = "Lora" => TxPk(item).ncrc = IF m.no_crc THEN TRUE ELSE None
            /\ m.rate.kind = "Lora" => TxPk(item).ipol = m.inverted
BY DEF TxPk

\* The numbers of a txpk object fit its integers.
LEMMA TxPkTyped ==
  ASSUME FramesInv, frames # <<>>, NEW k \in DOMAIN frames, NEW answer \in Answer,
         Translatable(ItemFor(answer, frames[k]))
  PROVE  TxPkType(TxPk(ItemFor(answer, frames[k])))
<1> DEFINE item == ItemFor(answer, frames[k])
           f == frames[k]
<1>1. /\ f.antenna \in Int /\ f.board \in Int
      /\ item.antenna = f.antenna /\ item.board = f.board /\ item.power = answer.power
      /\ item.timing = answer.timing /\ item.modulation = answer.modulation
  BY AnsweredFrame, ItemFields, Units
<1>2. answer.power \in Int /\ answer.modulation.deviation \in Int /\ answer.modulation.preamble \in Int
  BY AnswerFields
<1>3. ASSUME item.timing = "delay" PROVE CounterValue(item.context, item.span) \in 0 .. DoubleWord - 1
  <2>2. item.context = f.context
    BY <1>1, <1>3, ContextWhole
  <2>3. FromBigEndian(item.context) \in Int
    <3>1. received \div Kilo \in Int
      BY Units, DivisionSplits DEF FramesInv
    <3> QED BY <2>2, <3>1, AnsweredFrame, Widths, Units
  <2>4. item.span \div Kilo \in Int
    <3>1. item.span = answer.span /\ item.span # None
      BY <1>1, <1>3, ItemFields DEF Translatable
    <3>2. item.span \in Int
      BY <3>1, AnswerFields
    <3> QED BY <3>2, Units, DivisionSplits
  <2>5. FromBigEndian(item.context) + U32(item.span \div Kilo) \in Int
    <3> HIDE DEF item
    <3> QED BY <2>3, <2>4, CutRanges
  <2> HIDE DEF item
  <2> QED BY <2>5, CutRanges DEF CounterValue
<1> HIDE DEF item, f
<1>4. TxPk(item).tmst \in 0..(DoubleWord - 1) \union {None}
  BY <1>3, TxPkFields
<1>5. {TxPk(item).powe, TxPk(item).ant, TxPk(item).brd} \subseteq 0..(Byte - 1)
  <2>1. TxPk(item).powe = U8(item.power) /\ TxPk(item).ant = U8(item.antenna) /\ TxPk(item).brd = U8(item.board)
    BY TxPkFields
  <2>2. item.power \in Int /\ item.antenna \in Int /\ item.board \in Int
    BY <1>1, <1>2
  <2> QED BY <2>1, <2>2, CutRanges
<1>6. TxPk(item).fdev \in 0..(Word - 1) \union {None} /\ TxPk(item).prea \in 0..(Word - 1) \union {None}
  BY <1>1, <1>2, TxPkFields, CutRanges DEF Preamble
<1> QED BY <1>4, <1>5, <1>6 DEF TxPkType, item, f

-----------------------------------------------------------------------------
(* The steps.                                                               *)

LEMMA InitConversation == Init => ConversationInv
<1>1. SUFFICES ASSUME Init PROVE ConversationInv
  OBVIOUS
<1>2. clock \in Nat /\ received \in Nat
  BY <1>1, Times DEF Init
<1> QED BY <1>1, <1>2
     DEF Init, ConversationInv, TypeOK, FramesInv, ReceiveWindow, EmittedAsCommanded, AckFaithful

\* Push: the frames are those of the batch just received.
LEMMA PushConversation == ConversationInv /\ Push => ConversationInv'
<1>1. SUFFICES ASSUME ConversationInv, Push PROVE ConversationInv'
  OBVIOUS
<1>2. /\ batch' \in Batch /\ clock' \in Nat /\ received' = clock'
      /\ txpk' = None /\ emission' = None /\ ack' = None
      /\ stage' \in {"pushed", "idle", "aborted"}
      /\ stage' = "pushed" => frames' # <<>>
  BY <1>1, Times DEF Push
<1>3. frames' = FramesOf(batch', clock') \/ frames' = <<>>
  <2>1. [i \in DOMAIN batch' |-> ToFrames(RxPk(batch'[i], clock'), TimeFallback)]
          = [i \in DOMAIN [j \in DOMAIN batch' |-> RxPk(batch'[j], clock')] |->
               ToFrames([j \in DOMAIN batch' |-> RxPk(batch'[j], clock')][i], TimeFallback)]
    OBVIOUS
  <2> QED BY <1>1, <2>1 DEF Push, FramesOf
<1>7. stage' = "aborted" => frames' = <<>>
  <2>1. \A p : Panics(p) => ~Readable(p)
    BY DEF Panics, Readable, KnownDataRate
  <2> QED BY <1>1, <2>1 DEF Push
<1>4. BatchFaithful(FramesOf(batch', clock'), batch', clock')
  BY <1>2, FramesOfFaithful
<1>5. FramesInv'
  BY <1>2, <1>3, <1>4 DEF FramesInv
<1>6. TypeOK'
  BY <1>2 DEF TypeOK
<1> QED BY <1>2, <1>5, <1>6, <1>7
     DEF ConversationInv, NothingYet, ReceiveWindow, EmittedAsCommanded, AckFaithful

\* Restart: nothing was under way.
LEMMA RestartConversation == ConversationInv /\ Restart => ConversationInv'
<1>1. SUFFICES ASSUME ConversationInv, Restart PROVE ConversationInv'
  OBVIOUS
<1>2. frames = <<>> /\ NothingYet /\ txpk = None /\ received \in Nat
  BY <1>1 DEF Restart, ConversationInv, FramesInv
<1> QED BY <1>1, <1>2 DEF Restart, ConversationInv, TypeOK, FramesInv, NothingYet,
          ReceiveWindow, EmittedAsCommanded, AckFaithful

\* SendDownlinkFrame: the txpk object is that of the item, if that can be translated.
LEMMA SendConversation == ConversationInv /\ SendDownlinkFrame => ConversationInv'
<1>1. SUFFICES ASSUME ConversationInv, SendDownlinkFrame PROVE ConversationInv'
  OBVIOUS
<1>2. /\ stage = "pushed" /\ clock = received /\ frames # <<>> /\ emission = None /\ ack = None
      /\ FramesInv /\ TypeOK
  BY <1>1 DEF SendDownlinkFrame, ConversationInv, NothingYet
<1>3. PICK k \in DOMAIN frames, answer \in Answer, id \in DownlinkId, travel \in Travel :
        /\ answer.timing = "gps" => frames[k].gps # None
        /\ command' = [of |-> k, answer |-> answer, item |-> ItemFor(answer, frames[k]), id |-> id]
        /\ txpk' = IF Translatable(ItemFor(answer, frames[k])) THEN TxPk(ItemFor(answer, frames[k])) ELSE None
        /\ stage' = IF Translatable(ItemFor(answer, frames[k])) THEN "sent" ELSE "idle"
        /\ cached' = [token |-> U16(id), id |-> id]
        /\ clock' = clock + travel
  BY <1>1 DEF SendDownlinkFrame
<1>4. UNCHANGED <<received, batch, frames, emission, ack>>
  BY <1>1 DEF SendDownlinkFrame
<1>5. FramesInv'
  BY <1>2, <1>4 DEF FramesInv
<1>6. TypeOK'
  <2>1. Translatable(ItemFor(answer, frames[k])) => TxPkType(TxPk(ItemFor(answer, frames[k])))
    BY <1>2, TxPkTyped
  <2>2. txpk' # None => TxPkType(txpk')
    BY <1>3, <2>1
  <2> QED BY <1>2, <1>3, <1>4, <2>2 DEF TypeOK, TxPkType
<1>7. stage' = "sent" => CommandFollows'
  <2>1. SUFFICES ASSUME Translatable(ItemFor(answer, frames[k])) PROVE CommandFollows'
    BY <1>3
  <2>2. /\ command'.of = k /\ command'.answer = answer /\ command'.id = id
        /\ command'.item = ItemFor(answer, frames[k])
    BY <1>3
  <2> QED BY <1>2, <1>3, <1>4, <2>1, <2>2 DEF CommandFollows
<1>8. stage' # "pushed" /\ stage' # "aborted" /\ NothingYet'
  BY <1>2, <1>3, <1>4 DEF NothingYet
<1> QED BY <1>5, <1>6, <1>7, <1>8
     DEF ConversationInv, NothingYet, ReceiveWindow, EmittedAsCommanded, AckFaithful

-----------------------------------------------------------------------------
(* The emission.                                                            *)

\* The facts about a downlink on its way that the emission needs.
LEMMA OnItsWay ==
  ASSUME ConversationInv, stage = "sent"
  PROVE  /\ FramesInv /\ TxPkType(txpk)
         /\ frames # <<>> /\ command.of \in DOMAIN frames /\ command.answer \in Answer
         /\ command.item = ItemFor(command.answer, frames[command.of])
         /\ Translatable(command.item) /\ txpk = TxPk(command.item)
         /\ received \in Nat /\ clock \in Nat
         /\ clock \div Kilo \in Nat /\ received \div Kilo \in Nat
<1>1. CommandFollows /\ FramesInv
  BY DEF ConversationInv
<1>2. PICK travel \in Travel : clock = received + travel
  BY <1>1 DEF CommandFollows
<1>3. received \in Nat /\ clock \in Nat
  BY <1>1, <1>2, Times DEF FramesInv
<1>4. TxPkType(txpk)
  BY <1>1, TxPkTyped DEF CommandFollows
<1> QED BY <1>1, <1>3, <1>4, Units, QuotientNat DEF CommandFollows

\* A delay: the counter means the moment, for nothing takes as long as its period.
LEMMA StartAfterDelay ==
  ASSUME ConversationInv, stage = "sent", command.answer.timing = "delay", StartTime # None
  PROVE  StartTime = DueTime /\ StartTime \in Int
<1> DEFINE answer == command.answer
           item == command.item
           f == frames[command.of]
           R == received \div Kilo
           D == item.span \div Kilo
           now == clock \div Kilo
           max == MaxAdvance \div Kilo
<1>1. /\ answer \in Answer /\ item = ItemFor(answer, f) /\ txpk = TxPk(item)
      /\ R \in Nat /\ now \in Nat /\ received \in Nat
  BY OnItsWay
<1>2. /\ item.timing = "delay" /\ item.span = answer.span /\ item.span # None /\ item.span >= 0
      /\ Len(item.context) >= 4
  BY <1>1, OnItsWay, ItemFields DEF Translatable
<1>3. item.span \in Nat
  BY <1>1, <1>2, AnswerFields
<1>4. D \in 0 .. DoubleWord - 1
  <2>1. D \in Nat
    BY <1>3, Units, QuotientNat
  <2>2. D < DoubleWord
    BY <1>1, <1>2, CounterOutlasts
  <2> QED BY <2>1, <2>2, Units
<1>5. item.context = f.context
  BY <1>1, OnItsWay, ContextWhole
<1>6. FromBigEndian(item.context) = U32(R)
  BY <1>5, OnItsWay, AnsweredFrame
<1>7. txpk.tmst = U32(U32(R) + D) /\ ~txpk.imme
  <2>1. U32(D) = D
    BY <1>4, Widths, Units
  <2>2. CounterValue(item.context, item.span) = U32(U32(R) + D)
    BY <1>6, <2>1 DEF CounterValue
  <2> QED BY <1>1, <1>2, <2>2, TxPkFields
<1>8. txpk.tmst \in Int
  BY <1>1, <1>4, <1>7, CutRanges
<1> DEFINE wait == U32(txpk.tmst - now)
<1>9. StartTime = (now + wait) * Kilo /\ wait <= max
  BY <1>7, <1>8, CodecAssumption DEF StartTime
<1>10. R <= now /\ now - R + max < DoubleWord /\ max \in Nat
  <2>1. PICK travel \in Travel : clock = received + travel
    BY DEF ConversationInv, CommandFollows
  <2>2. travel \in Nat /\ travel \div Kilo \in Nat /\ max \in Nat
    BY <2>1, Times, Units, QuotientNat
  <2>3. R <= now /\ now <= R + (travel \div Kilo) + 1
    BY <1>1, <2>1, <2>2, Units, QuotientOfSum
  <2>4. (travel \div Kilo) + 1 + max < DoubleWord
    BY <2>1, CounterOutlasts
  <2> HIDE DEF R, now, max
  <2> QED BY <1>1, <2>2, <2>3, <2>4, Units
<1>11. now + wait = R + D
  BY <1>1, <1>4, <1>7, <1>9, <1>10, CounterMeansMoment
<1>12. DueTime = (R + D) * Kilo
  BY <1>2 DEF DueTime
<1>13. (R + D) * Kilo \in Int
  BY <1>1, <1>4, Units
<1> QED BY <1>9, <1>11, <1>12, <1>13

\* A GPS time: whole milliseconds before, whole milliseconds after.
LEMMA StartAtGpsTime ==
  ASSUME ConversationInv, stage = "sent", command.answer.timing = "gps", StartTime # None
  PROVE  StartTime = DueTime /\ StartTime \in Int
<1> DEFINE answer == command.answer
           item == command.item
           f == frames[command.of]
           g == GpsTime(received) \div Mega
<1>1. /\ answer \in Answer /\ item = ItemFor(answer, f) /\ txpk = TxPk(item)
      /\ command.of \in DOMAIN frames /\ frames # <<>> /\ FramesInv
  BY OnItsWay
<1>2. f.gps # None
  BY DEF ConversationInv, CommandFollows
<1>3. f.gps = g /\ g \in Nat
  BY <1>1, <1>2, AnsweredFrame
<1>4. /\ item.timing = "gps" /\ item.span # None
      /\ item.span = IF answer.span # None THEN f.gps * Mega + answer.span ELSE answer.span
  BY <1>1, OnItsWay, ItemFields DEF Translatable
<1>5. answer.span \in Int
  <2>1. answer.span \in Int \union {None}
    BY <1>1, AnswerFields
  <2>2. answer.span # None
    BY <1>4
  <2> QED BY <2>1, <2>2
<1>6. item.span = answer.span + Mega * g
  <2>1. item.span = g * Mega + answer.span
    BY <1>3, <1>4, <1>5, CodecAssumption
  <2>2. g * Mega = Mega * g /\ Mega * g \in Int
    BY <1>3, Units
  <2> HIDE DEF g
  <2> QED BY <1>5, <2>1, <2>2
<1> DEFINE s == answer.span \div Mega
<1>7. item.span \div Mega = s + g /\ s \in Int
  <2>1. g \in Int /\ answer.span \in Int /\ Mega \in Nat \ {0}
    BY <1>3, <1>5, Units
  <2> HIDE DEF g, answer, item
  <2>2. (answer.span + Mega * g) \div Mega = (answer.span \div Mega) + g
    BY <2>1, ModAdd
  <2>3. s \in Int
    BY <2>1, DivisionSplits
  <2> QED BY <1>6, <2>2, <2>3
<1>8. txpk.tmms = s + g /\ txpk.tmst = None /\ ~txpk.imme
  BY <1>1, <1>4, <1>7, TxPkFields
<1>9. StartTime = (s + g) * Mega - GpsOffset
  BY <1>8 DEF StartTime
<1>10. DueTime = (g + s) * Mega - GpsOffset
  BY DEF DueTime
<1>11. s + g = g + s /\ (s + g) * Mega - GpsOffset \in Int
  <2>1. s + g \in Int /\ Mega \in Int /\ GpsOffset \in Int
    BY <1>3, <1>7, Units, Times
  <2> HIDE DEF s, g
  <2> QED BY <1>3, <1>7, <2>1
<1> QED BY <1>9, <1>10, <1>11

LEMMA StartNow ==
  ASSUME ConversationInv, stage = "sent", command.answer.timing = "immediately"
  PROVE  StartTime = clock /\ StartTime \in Int
<1> DEFINE item == command.item
<1>1. txpk.imme
  <2>1. txpk = TxPk(item) /\ item = ItemFor(command.answer, frames[command.of]) /\ command.answer \in Answer
    BY OnItsWay
  <2>2. item.timing = "immediately"
    BY <2>1, ItemFields
  <2>3. TxPk(item).imme = (item.timing = "immediately")
    BY TxPkFields
  <2> HIDE DEF item
  <2> QED BY <2>1, <2>2, <2>3
<1>2. StartTime = clock
  BY <1>1 DEF StartTime
<1> QED BY <1>2, OnItsWay

\* What the radio emits when the packet forwarder starts it.
EmissionOf(t, at) ==
  [at |-> at, antenna |-> t.ant, board |-> t.brd,
   rate |-> ReadDataRate(t.datr),
   code_rate |-> IF t.codr = None THEN None ELSE ReadCodeRate(t.codr),
   power |-> t.powe, deviation |-> t.fdev, preamble |-> t.prea,
   no_crc |-> t.ncrc = TRUE, inverted |-> t.ipol = TRUE]

\* What is emitted has the type of an emission, and so is not None.
LEMMA EmissionTyped ==
  ASSUME ConversationInv, stage = "sent", NEW at \in Int
  PROVE  EmissionOf(txpk, at) \in EmissionType
<1> DEFINE m == command.item.modulation
<1>1. /\ TxPkType(txpk) /\ txpk = TxPk(command.item) /\ command.answer \in Answer
      /\ m = command.answer.modulation
  BY OnItsWay, ItemFields
<1>2. m.rate \in DataRateType
  BY <1>1, AnswerFields
<1>3. ReadDataRate(txpk.datr) \in DataRateType
  BY <1>1, <1>2, TxPkFields, DataRateInverse
<1>4. (IF txpk.codr = None THEN None ELSE ReadCodeRate(txpk.codr)) \in CodeRate \union {None}
  BY CodeRateRead
<1>5. /\ txpk.ant \in Int /\ txpk.brd \in Int /\ txpk.powe \in Int
      /\ txpk.fdev \in Int \union {None} /\ txpk.prea \in Int \union {None}
  BY <1>1, Units DEF TxPkType
<1> QED BY <1>3, <1>4, <1>5 DEF EmissionOf, EmissionType

\* EmittedAsCommanded of what is about to be emitted.
LEMMA EmissionAsCommanded ==
  ASSUME ConversationInv, stage = "sent", NEW at
  PROVE  LET e == EmissionOf(txpk, at)
             item == command.item
             m == item.modulation
         IN /\ item.antenna \in 0..(Byte - 1) => e.antenna = item.antenna
            /\ item.board \in 0..(Byte - 1) => e.board = item.board
            /\ item.power \in 0..(Byte - 1) => e.power = item.power
            /\ m.rate.kind = "Fsk" \/ m.rate.width % Kilo = 0 => e.rate = m.rate
            /\ m.rate.kind = "Fsk" /\ m.deviation < Word => e.deviation = m.deviation
            /\ m.rate.kind = "Lora" => LoraAsCommanded(e, m)
<1> DEFINE e == EmissionOf(txpk, at)
           item == command.item
           m == item.modulation
<1>1. /\ txpk = TxPk(item) /\ command.answer \in Answer
      /\ m = command.answer.modulation /\ item.power = command.answer.power
  BY OnItsWay, ItemFields
<1>2. /\ m.rate \in DataRateType /\ m.code_rate \in CodeRate /\ m.deviation \in Nat
      /\ m.preamble \in Nat /\ m.no_crc \in BOOLEAN /\ m.inverted \in BOOLEAN
  BY <1>1, AnswerFields
<1>3. /\ e.rate = ReadDataRate(WriteDataRate(m.rate)) /\ e.power = U8(item.power)
      /\ e.antenna = U8(item.antenna) /\ e.board = U8(item.board)
      /\ m.rate.kind = "Fsk" => e.deviation = U16(m.deviation)
      /\ m.rate.kind = "Lora" =>
           e.code_rate = IF WriteCodeRate(m.code_rate) = None THEN None
                         ELSE ReadCodeRate(WriteCodeRate(m.code_rate))
  BY <1>1, TxPkFields DEF EmissionOf
<1>8. ASSUME m.rate.kind = "Lora"
      PROVE  /\ e.preamble = Preamble(m.preamble)
             /\ e.no_crc = ((IF m.no_crc THEN TRUE ELSE None) = TRUE)
             /\ e.inverted = (m.inverted = TRUE)
  BY <1>1, <1>8, TxPkFields DEF EmissionOf
<1> HIDE DEF e, m, item
<1>4. m.rate.kind = "Fsk" \/ m.rate.width % Kilo = 0 => e.rate = m.rate
  BY <1>2, <1>3, DataRateInverse
<1>5. m.rate.kind = "Lora" /\ m.code_rate \notin {"CrLi48", "CrUndefined"} => e.code_rate = m.code_rate
  BY <1>2, <1>3, CodeRateInverse DEF Reversible
<1>6. /\ item.power \in 0..(Byte - 1) => e.power = item.power
      /\ item.antenna \in 0..(Byte - 1) => e.antenna = item.antenna
      /\ item.board \in 0..(Byte - 1) => e.board = item.board
  BY <1>3, Widths, Units
<1>7. m.rate.kind = "Fsk" /\ m.deviation < Word => e.deviation = m.deviation
  BY <1>2, <1>3, Widths, Units
<1>9. ASSUME m.rate.kind = "Lora" PROVE LoraAsCommanded(e, m)
  <2>1. m.preamble < Word => e.preamble = IF m.preamble = 0 THEN None ELSE m.preamble
    BY <1>2, <1>8, <1>9, Widths, Units DEF Preamble
  <2>2. e.no_crc = m.no_crc
    <3>1. CASE m.no_crc
      BY <1>2, <1>8, <1>9, <3>1, Zenon
    <3>2. CASE ~m.no_crc
      BY <1>2, <1>8, <1>9, <3>2, CodecAssumption, Zenon
    <3> QED BY <3>1, <3>2
  <2>3. e.inverted = m.inverted
    BY <1>2, <1>8, <1>9, Zenon
  <2> QED BY <1>5, <1>9, <2>1, <2>2, <2>3 DEF LoraAsCommanded
<1> QED BY <1>4, <1>6, <1>7, <1>9 DEF e, m, item

\* Success is what a datagram without a payload or without an error says.
LEMMA StatusTruthful ==
  ASSUME NEW report \in Report
  PROVE  /\ (TxAckStatus(report) = "OK") = report.emitted
         /\ report.error \in TxAckError => TxAckStatus(report) = report.error
<1>1. report.emitted \in BOOLEAN /\ report.length \in Nat
  BY ExchangeAssumption
<1>2. /\ report.emitted <=> report.error \in {"", "NONE"}
      /\ report.length < 14 => report.error = ""
  BY ForwarderTruthful
<1>3. \A e \in TxAckError : e # "OK" /\ e # "" /\ e # "NONE"
  BY DEF TxAckError
<1>4. TxAckStatus(report) = "OK" <=> report.error \in {"", "NONE"}
  BY <1>2, <1>3 DEF TxAckStatus
<1>5. report.error \in TxAckError => TxAckStatus(report) = report.error
  BY <1>2, <1>3 DEF TxAckStatus
<1> QED BY <1>1, <1>2, <1>4, <1>5

\* The two bytes of a token mean that token.
LEMMA LittleEndianInverse ==
  ASSUME NEW x \in Nat
  PROVE  FromLittleEndian(LittleEndian(x)) = x
<1>1. x = Byte * (x \div Byte) + (x % Byte) /\ x \div Byte \in Int /\ x % Byte \in Int
  BY Units, DivisionSplits
<1>2. (x \div Byte) * Byte = Byte * (x \div Byte) /\ Byte * (x \div Byte) \in Int
  BY <1>1, Units
<1>3. (x % Byte) + ((x \div Byte) * Byte) = x
  BY <1>1, <1>2
<1> QED BY <1>3 DEF FromLittleEndian, LittleEndian

\* TxAck: the emission is due, as commanded, and truly reported.
LEMMA TxAckConversation == ConversationInv /\ TxAck => ConversationInv'
<1>1. SUFFICES ASSUME ConversationInv, TxAck PROVE ConversationInv'
  OBVIOUS
<1>2. stage = "sent" /\ stage' = "idle" /\ UNCHANGED <<received, batch, frames, command, cached, txpk>>
  BY <1>1 DEF TxAck
<1>3. CommandFollows /\ FramesInv /\ TypeOK
  BY <1>1, <1>2 DEF ConversationInv
<1>4. PICK report \in Report :
        /\ report.emitted => StartTime # None
        /\ emission' = IF report.emitted THEN EmissionOf(txpk, StartTime) ELSE None
        /\ LET token == FromLittleEndian(LittleEndian(cached.token))
           IN ack' = IF token = cached.token
                     THEN [id |-> cached.id, status |-> TxAckStatus(report), report |-> report]
                     ELSE None
  BY <1>1 DEF TxAck, EmissionOf
<1>5. ack' = [id |-> command.id, status |-> TxAckStatus(report), report |-> report]
  <2>0. cached = [token |-> U16(command.id), id |-> command.id] /\ command.id \in DownlinkId
    BY <1>3 DEF CommandFollows
  <2>1. cached.id = command.id /\ cached.token = U16(command.id) /\ command.id \in Int
    <3>1. cached.id = command.id /\ cached.token = U16(command.id)
      BY <2>0
    <3>2. DownlinkId \subseteq 0..(DoubleWord - 1)
      BY ExchangeAssumption
    <3>3. \A x \in 0..(DoubleWord - 1) : x \in Int
      BY Units
    <3>4. command.id \in DownlinkId
      BY <2>0
    <3> QED BY <3>1, <3>2, <3>3, <3>4
  <2>2. cached.token \in Nat
    BY <2>1, CutRanges, Units
  <2> QED BY <1>4, <2>1, <2>2, LittleEndianInverse
<1>6. ASSUME report.emitted
      PROVE  /\ StartTime \in Int /\ StartTime # None
             /\ command.answer.timing # "immediately" => StartTime = DueTime
  <2>1. command.answer.timing \in {"immediately", "delay", "gps"}
    BY <1>3, AnswerFields DEF CommandFollows
  <2> QED BY <1>1, <1>2, <1>4, <1>6, <2>1, StartAfterDelay, StartAtGpsTime, StartNow
<1>7. emission' \in EmissionType \union {None}
  BY <1>1, <1>2, <1>4, <1>6, EmissionTyped
<1>8. emission' # None <=> report.emitted
  BY <1>1, <1>2, <1>4, <1>6, EmissionTyped, ExchangeAssumption
<1>9. TypeOK'
  BY <1>2, <1>3, <1>7 DEF TypeOK
<1>10. FramesInv'
  BY <1>2, <1>3 DEF FramesInv
<1>11. ReceiveWindow'
  <2>1. SUFFICES ASSUME report.emitted
        PROVE  /\ emission'.antenna = Signals(batch)[command.of].ant
               /\ command.answer.timing # "immediately" => emission'.at = DueTime
    BY <1>2, <1>8 DEF ReceiveWindow, DueTime
  <2>2. emission'.antenna = txpk.ant /\ emission'.at = StartTime
    BY <1>4, <2>1 DEF EmissionOf
  <2>3. /\ txpk.ant = U8(frames[command.of].antenna)
        /\ frames[command.of].antenna = Signals(batch)[command.of].ant
        /\ frames[command.of].antenna \in 0..(Byte - 1)
    <3> DEFINE item == command.item
               f == frames[command.of]
    <3>1. /\ txpk = TxPk(item) /\ item = ItemFor(command.answer, f) /\ command.answer \in Answer
          /\ frames # <<>> /\ command.of \in DOMAIN frames
      BY <1>3 DEF CommandFollows
    <3>2. f.antenna = Signals(batch)[command.of].ant /\ f.antenna \in 0..(Byte - 1)
      BY <1>3, <3>1, AnsweredFrame
    <3>3. item.antenna = f.antenna
      BY <3>1, ItemFields
    <3>4. TxPk(item).ant = U8(item.antenna)
      BY TxPkFields
    <3> QED BY <3>1, <3>2, <3>3, <3>4
  <2>4. U8(frames[command.of].antenna) = frames[command.of].antenna
    BY <2>3, Widths, Units
  <2> QED BY <1>6, <2>1, <2>2, <2>3, <2>4
<1>12. EmittedAsCommanded'
  <2>1. SUFFICES ASSUME report.emitted PROVE EmittedAsCommanded'
    BY <1>8 DEF EmittedAsCommanded
  <2>2. emission' = EmissionOf(txpk, StartTime) /\ command' = command
    BY <1>2, <1>4, <2>1
  <2> QED BY <1>1, <1>2, <2>2, EmissionAsCommanded DEF EmittedAsCommanded
<1>13. AckFaithful'
  <2>1. ack'.id = command.id /\ ack'.status = TxAckStatus(report) /\ ack'.report = report
    BY <1>5
  <2> QED BY <1>2, <1>8, <2>1, StatusTruthful DEF AckFaithful
<1> QED BY <1>2, <1>9, <1>10, <1>11, <1>12, <1>13 DEF ConversationInv

LEMMA StutterConversation == ConversationInv /\ UNCHANGED vars => ConversationInv'
BY DEF vars, ConversationInv, TypeOK, FramesInv, CommandFollows, NothingYet,
       ReceiveWindow, DueTime, EmittedAsCommanded, AckFaithful

\* The inductive invariant holds of every conversation.
THEOREM ConversationInvariant == Spec => []ConversationInv
<1>1. ConversationInv /\ [Next]_vars => ConversationInv'
  BY PushConversation, RestartConversation, SendConversation, TxAckConversation, StutterConversation DEF Next
<1> QED BY InitConversation, <1>1, PTL DEF Spec

-----------------------------------------------------------------------------
(* The theorems.                                                            *)

\* TypeOK: the numbers of a txpk object fit its integers, and the radio is told
\* numbers, for every byte, every unit and all receptions and answers.
THEOREM ExchangeTypeCorrect == Spec => []TypeOK
BY ConversationInvariant, PTL DEF ConversationInv

\* FramesFaithful: a batch is published whole and in order, each frame with the
\* antenna and channel of its own signal and the board, modulation, counter, GPS
\* time and fine time of its reception, for batches of any length and shape.
THEOREM FramesAlwaysFaithful == Spec => []FramesFaithful
<1>1. ConversationInv => FramesFaithful
  <2>1. SUFFICES ASSUME FramesInv, frames # <<>> PROVE FramesFaithful
    BY DEF ConversationInv, FramesFaithful
  <2>2. BatchFaithful(frames, batch, received)
    BY <2>1 DEF FramesInv
  <2>3. \A k \in DOMAIN frames : FromBigEndian(frames[k].context) = U32(received \div Kilo)
    BY <2>1, AnsweredFrame
  <2> QED BY <2>2, <2>3 DEF FramesFaithful, BatchFaithful, Faithful
<1> QED BY <1>1, ConversationInvariant, PTL

\* ReceiveWindow: what is emitted starts when it was due, also when the counter
\* came round in between, for every delay shorter than its period.
THEOREM ReceiveWindowAlwaysMet == Spec => []ReceiveWindow
BY ConversationInvariant, PTL DEF ConversationInv

\* EmittedAsCommanded: antenna, board, power, data rate and deviation, and for LoRa
\* code rate, preamble, CRC and polarity, reach the radio as the server asked for
\* them, if the txpk object can say them.
THEOREM AlwaysEmittedAsCommanded == Spec => []EmittedAsCommanded
BY ConversationInvariant, PTL DEF ConversationInv

\* AckFaithful: the server learns under the right id whether its downlink was emitted.
THEOREM AcksAlwaysFaithful == Spec => []AckFaithful
BY ConversationInvariant, PTL DEF ConversationInv
=============================================================================
