----------------------------- MODULE SettingsProofs -----------------------------
(***************************************************************************)
(* Proofs about Configuration and Metadata, for any files, environments,   *)
(* programs and outputs.  The settings are compared with those of a        *)
(* replacement of all the variables at once, which takes induction over    *)
(* the text (DataLemmas); the metadata needs an invariant about a call of  *)
(* metadata::get under way.                                                *)
(***************************************************************************)
EXTENDS Metadata, DataLemmas

-----------------------------------------------------------------------------
(* The settings the program knows.                                          *)

\* Each key of a table has one type.
LEMMA SchemaUnique ==
  ASSUME NEW t \in DOMAIN Schema, NEW p \in Schema[t], NEW q \in Schema[t], p[1] = q[1]
  PROVE  p[2] = q[2]
<1> DEFINE tables == {"logging", "mqtt", "backend", "backend.filters", "backend.concentratord",
                      "backend.semtech_udp", "metadata", "callbacks"}
<1>1. t \in tables
  BY DEF Schema
<1>2. CASE t = "logging"
  BY <1>2 DEF Schema
<1>3. CASE t = "mqtt"
  BY <1>3 DEF Schema
<1>4. CASE t = "backend"
  BY <1>4 DEF Schema
<1>5. CASE t = "backend.filters"
  BY <1>5 DEF Schema
<1>6. CASE t = "backend.concentratord"
  BY <1>6 DEF Schema
<1>7. CASE t = "backend.semtech_udp"
  BY <1>7 DEF Schema
<1>8. CASE t = "metadata"
  BY <1>8 DEF Schema
<1>9. CASE t = "callbacks"
  BY <1>9 DEF Schema
<1> QED BY <1>1, <1>2, <1>3, <1>4, <1>5, <1>6, <1>7, <1>8, <1>9

\* What a setting expects is a type that a value can have.
LEMMA SchemaTypes ==
  ASSUME NEW t \in DOMAIN Schema, NEW p \in Schema[t]
  PROVE  /\ p[2] \in {"string", "bool", "number", "duration", "list"}
         /\ t \notin {"metadata.static", "metadata.commands", "commands"}
         /\ t = "metadata" => p[2] = "string"
<1>1. t \in {"logging", "mqtt", "backend", "backend.filters", "backend.concentratord",
             "backend.semtech_udp", "metadata", "callbacks"}
  BY DEF Schema
<1>2. p[2] \in {"string", "bool", "number", "duration", "list"}
  <2>1. CASE t \in {"logging", "mqtt"}
    BY <2>1 DEF Schema
  <2>2. CASE t \in {"backend", "backend.filters", "backend.concentratord"}
    BY <2>2 DEF Schema
  <2>3. CASE t \in {"backend.semtech_udp", "metadata", "callbacks"}
    BY <2>3 DEF Schema
  <2> QED BY <1>1, <2>1, <2>2, <2>3
<1>3. t = "metadata" => p[2] = "string"
  BY DEF Schema
<1> QED BY <1>1, <1>2, <1>3

LEMMA SettingFacts ==
  /\ \A s \in Setting :
       /\ s.type \in {"string", "bool", "number", "duration", "list"}
       /\ s.table \notin {"metadata.static", "metadata.commands", "commands"}
       /\ s.table = "metadata" => s.type = "string"
  /\ \A s, r \in Setting : s.table = r.table /\ s.key = r.key => s.type = r.type
<1>1. ASSUME NEW s \in Setting
      PROVE  \E t \in DOMAIN Schema : \E p \in Schema[t] :
               s = [table |-> t, key |-> <<p[1]>>, type |-> p[2]]
  BY DEF Setting
<1>2. ASSUME NEW s \in Setting
      PROVE  /\ s.type \in {"string", "bool", "number", "duration", "list"}
             /\ s.table \notin {"metadata.static", "metadata.commands", "commands"}
             /\ s.table = "metadata" => s.type = "string"
  <2>1. PICK t \in DOMAIN Schema : \E p \in Schema[t] :
               s = [table |-> t, key |-> <<p[1]>>, type |-> p[2]]
    BY <1>1
  <2>2. PICK p \in Schema[t] : s = [table |-> t, key |-> <<p[1]>>, type |-> p[2]]
    BY <2>1
  <2>3. s.table = t /\ s.type = p[2]
    BY <2>2
  <2> QED BY <2>3, SchemaTypes
<1>3. ASSUME NEW s \in Setting, NEW r \in Setting, s.table = r.table, s.key = r.key
      PROVE  s.type = r.type
  <2>1. PICK t \in DOMAIN Schema : \E p \in Schema[t] :
               s = [table |-> t, key |-> <<p[1]>>, type |-> p[2]]
    BY <1>1
  <2>2. PICK p \in Schema[t] : s = [table |-> t, key |-> <<p[1]>>, type |-> p[2]]
    BY <2>1
  <2>3. PICK v \in DOMAIN Schema : \E q \in Schema[v] :
               r = [table |-> v, key |-> <<q[1]>>, type |-> q[2]]
    BY <1>1
  <2>4. PICK q \in Schema[v] : r = [table |-> v, key |-> <<q[1]>>, type |-> q[2]]
    BY <2>3
  <2>5. t = v /\ p[1] = q[1]
    BY <1>3, <2>2, <2>4
  <2>6. p[2] = q[2]
    BY <2>5, SchemaUnique
  <2> QED BY <2>2, <2>4, <2>6
<1> QED BY <1>2, <1>3

-----------------------------------------------------------------------------
(* Loading and printing.                                                    *)

IsEntry(e) == e = Entry(e.table, e.key, e.type, e.text)

\* What a loaded configuration is like: every entry is one the program knows with
\* a value of its type, and every setting has an entry.
ConfigFits(c) ==
  /\ \A e \in c : /\ IsEntry(e) /\ Expected(e) # {} /\ e.type # "nothing"
                  /\ \A type \in Expected(e) : Fits(e, type)
  /\ \A s \in Setting : \E e \in c : e.table = s.table /\ e.key = s.key

\* The entry of a setting that has none in the document.
DefaultEntry(s) == Entry(s.table, s.key, IF s.type = "duration" THEN "string" ELSE s.type, Default)

LEMMA EntryFields ==
  \A t, k, y, x : LET e == Entry(t, k, y, x)
                  IN e.table = t /\ e.key = k /\ e.type = y /\ e.text = x /\ IsEntry(e)
BY DEF Entry, IsEntry

\* What a place in a document expects depends on the place alone.
LEMMA ExpectedOfSetting ==
  ASSUME NEW s \in Setting, NEW e, e.table = s.table, e.key = s.key
  PROVE  Expected(e) = {s.type}
<1>1. \A m \in MapTable : m[1] \in {"metadata.static", "metadata.commands", "commands"}
  BY DEF MapTable
<1>2. {m \in MapTable : m[1] = e.table} = {}
  BY <1>1, SettingFacts
<1>3. \A r \in Setting : r.table = e.table /\ r.key = e.key => r.type = s.type
  BY SettingFacts
<1> QED BY <1>2, <1>3 DEF Expected

\* A default fits.
LEMMA DefaultFits ==
  ASSUME NEW s \in Setting
  PROVE  LET d == DefaultEntry(s)
         IN /\ d.table = s.table /\ d.key = s.key /\ IsEntry(d)
            /\ Expected(d) # {} /\ d.type # "nothing"
            /\ \A type \in Expected(d) : Fits(d, type)
<1> DEFINE d == DefaultEntry(s)
<1>1. /\ d.table = s.table /\ d.key = s.key /\ IsEntry(d) /\ d.text = Default
      /\ d.type = IF s.type = "duration" THEN "string" ELSE s.type
  BY EntryFields DEF DefaultEntry
<1> HIDE DEF d
<1>2. Expected(d) = {s.type}
  BY <1>1, ExpectedOfSetting
<1>3. d.type # "nothing"
  BY <1>1, SettingFacts
<1>4. Default # <<>>
  BY DEF Default
<1>5. Fits(d, s.type)
  BY <1>1, <1>4 DEF Fits
<1>6. QED  BY <1>1, <1>2, <1>3, <1>5 DEF d

\* Whatever loads gives a configuration that fits.
LEMMA LoadedFits ==
  ASSUME NEW doc, \A e \in doc : IsEntry(e), Loads(doc)
  PROVE  ConfigFits(Loaded(doc))
<1> DEFINE own == {e \in doc : Expected(e) # {}}
           unset == {s \in Setting : ~ \E e \in doc : e.table = s.table /\ e.key = s.key}
<1>1. Loaded(doc) = own \union {DefaultEntry(s) : s \in unset}
  BY DEF Loaded, DefaultEntry
<1>2. ASSUME NEW e \in own
      PROVE  /\ IsEntry(e) /\ Expected(e) # {} /\ e.type # "nothing"
             /\ \A type \in Expected(e) : Fits(e, type)
  BY DEF Loads
<1>3. ASSUME NEW s \in Setting
      PROVE  \E e \in Loaded(doc) : e.table = s.table /\ e.key = s.key
  <2>1. CASE s \in unset
    <3>1. DefaultEntry(s) \in Loaded(doc)
      BY <1>1, <2>1
    <3> QED BY <3>1, DefaultFits
  <2>2. CASE s \notin unset
    <3>1. PICK e \in doc : e.table = s.table /\ e.key = s.key
      BY <2>2
    <3>2. Expected(e) # {}
      BY <3>1, ExpectedOfSetting
    <3> QED BY <1>1, <3>1, <3>2
  <2> QED BY <2>1, <2>2
<1>4. ASSUME NEW e \in Loaded(doc)
      PROVE  /\ IsEntry(e) /\ Expected(e) # {} /\ e.type # "nothing"
             /\ \A type \in Expected(e) : Fits(e, type)
  <2>1. e \in own \/ \E s \in unset : e = DefaultEntry(s)
    BY <1>1
  <2>2. ASSUME NEW s \in unset, e = DefaultEntry(s)
        PROVE  /\ IsEntry(e) /\ Expected(e) # {} /\ e.type # "nothing"
               /\ \A type \in Expected(e) : Fits(e, type)
    BY <2>2, DefaultFits
  <2> QED BY <1>2, <2>1, <2>2
<1> QED BY <1>3, <1>4 DEF ConfigFits

\* Whether an entry is lost depends on its place, but for metadata.commands.
LEMMA LostAtPlace ==
  ASSUME NEW s \in Setting, NEW e, NEW f, e.table = s.table, e.key = s.key,
         f.table = s.table, f.key = s.key, Lost(e)
  PROVE  Lost(f)
<1>1. s.table # "metadata.commands"
  BY SettingFacts
<1> QED BY <1>1 DEF Lost, IsAt

\* The entry printed for one that is not lost is the same, and what is printed
\* for the others is lost.
LEMMA PrintedEntryFaithful ==
  ASSUME NEW e, IsEntry(e), Expected(e) # {}, \A type \in Expected(e) : Fits(e, type)
  PROVE  /\ ~Lost(e) => Printable(e) /\ PrintedEntry(e) = e
         /\ Lost(e) => Lost(PrintedEntry(e)) \/ ~Printable(e)
<1> DEFINE p == PrintedEntry(e)
<1>1. CASE ~Lost(e)
  <2>1. Printable(e)
    BY <1>1 DEF Lost, Printable
  <2>2. p = [e EXCEPT !.table = e.table]
    BY <1>1 DEF Lost, PrintedEntry, PrintedTable
  <2>3. [e EXCEPT !.table = e.table] = e
    BY DEF IsEntry, Entry
  <2> QED BY <1>1, <2>1, <2>2, <2>3
<1>2. CASE Lost(e)
  <2>1. \A t, y, x : LET a == [e EXCEPT !.text = x]
                         b == [e EXCEPT !.type = y, !.text = x]
                         c == [e EXCEPT !.table = t]
                     IN /\ a.table = e.table /\ a.key = e.key
                        /\ b.table = e.table /\ b.key = e.key
                        /\ c.table = t /\ c.key = e.key /\ c.type = e.type
    BY DEF IsEntry, Entry
  <2>2. CASE IsAt(e, "mqtt", "reconnect_interval") \/ IsAt(e, "mqtt", "publish_channel_size")
    <3>1. p.table = e.table /\ p.key = e.key
      BY <2>1, <2>2 DEF PrintedEntry
    <3> QED BY <1>2, <2>2, <3>1 DEF Lost, IsAt
  <2>3. CASE e.table = "callbacks"
    <3>1. p.table = "callbacks"
      BY <2>1, <2>3 DEF PrintedEntry, IsAt
    <3> QED BY <1>2, <3>1 DEF Lost
  <2>4. CASE e.table = "metadata"
    <3>1. \A m \in MapTable : m[1] # "metadata"
      BY DEF MapTable
    <3>2. PICK s \in Setting : s.table = e.table /\ s.key = e.key
      BY <2>4, <3>1 DEF Expected
    <3>3. s.type = "string" /\ s.type \in Expected(e)
      BY <2>4, <3>2, SettingFacts, ExpectedOfSetting
    <3>4. e.type = "string"
      BY <3>3 DEF Fits
    <3>5. p = [e EXCEPT !.table = "metadata.commands"]
      BY <2>4 DEF PrintedEntry, PrintedTable, IsAt
    <3> HIDE DEF p
    <3>6. p.table = "metadata.commands" /\ p.type = "string"
      BY <2>1, <3>4, <3>5
    <3> QED BY <1>2, <3>6 DEF Lost, p
  <2>5. CASE e.table = "metadata.commands" /\ e.type = "string"
    <3>1. p = [e EXCEPT !.table = "metadata.commands"]
      BY <2>5 DEF PrintedEntry, PrintedTable, IsAt
    <3> HIDE DEF p
    <3>2. p.table = "metadata.commands" /\ p.type = "string"
      BY <2>1, <2>5, <3>1
    <3> QED BY <1>2, <3>2 DEF Lost, p
  <2>6. CASE IsAt(e, "backend", "gateway_id")
    BY <1>2, <2>6 DEF Printable
  <2> QED BY <1>2, <2>2, <2>3, <2>4, <2>5, <2>6 DEF Lost
<1> QED BY <1>1, <1>2

LEMMA PrintedSettings ==
  ASSUME NEW c, ConfigFits(c),
         NEW doc, doc = {PrintedEntry(e) : e \in {e \in c : Printable(e)}}
  PROVE  LET kept == {e \in doc : ~Lost(e)}
         IN Loads(kept) /\ {e \in Loaded(kept) : ~Lost(e)} = {e \in c : ~Lost(e)}
<1> DEFINE kept == {e \in doc : ~Lost(e)}
           unset == {s \in Setting : ~ \E e \in kept : e.table = s.table /\ e.key = s.key}
<1>1. \A e \in c : /\ ~Lost(e) => Printable(e) /\ PrintedEntry(e) = e
                   /\ Lost(e) => Lost(PrintedEntry(e)) \/ ~Printable(e)
  BY PrintedEntryFaithful DEF ConfigFits
<1>2. kept = {e \in c : ~Lost(e)}
  BY <1>1
<1> HIDE DEF kept
<1>3. Loads(kept)
  BY <1>2 DEF Loads, ConfigFits
<1>4. Loaded(kept) = {e \in kept : Expected(e) # {}} \union {DefaultEntry(s) : s \in unset}
  BY DEF Loaded, DefaultEntry
<1>5. {e \in kept : Expected(e) # {}} = kept
  BY <1>2 DEF ConfigFits
<1>6. ASSUME NEW s \in unset PROVE Lost(DefaultEntry(s))
  <2>1. PICK e \in c : e.table = s.table /\ e.key = s.key
    BY DEF ConfigFits
  <2>2. Lost(e)
    BY <1>2, <2>1
  <2> QED BY <2>1, <2>2, DefaultFits, LostAtPlace
<1>7. {e \in Loaded(kept) : ~Lost(e)} = kept
  BY <1>2, <1>4, <1>5, <1>6
<1> QED BY <1>2, <1>3, <1>7 DEF kept

-----------------------------------------------------------------------------
(* Replacing the environment variables.                                     *)

\* What the replacement of the variable n by v makes of a word.
Replacement(n, v) ==
  [w \in WordType |-> IF w.ref /\ IsPrefix(n, w.name) THEN Inserted(w, n, v) ELSE <<w>>]

\* What the replacement of each reference by what it means makes of a word.
Substitution(m, e) ==
  [w \in WordType |-> IF w \in DOMAIN m THEN Inserted(w, m[w], e[m[w]]) ELSE <<w>>]

LEMMA SingleWord ==
  ASSUME NEW w \in WordType
  PROVE  <<w>> \in Seq(WordType)
OBVIOUS

LEMMA InsertedTyped ==
  ASSUME NEW w \in WordType, NEW n \in Seq(STRING), NEW v \in Seq(WordType)
  PROVE  Inserted(w, n, v) \in Seq(WordType)
<1> DEFINE rest == IF w.name = n THEN <<>>
                   ELSE <<Plain(SubSeq(w.name, Len(n) + 1, Len(w.name)))>>
<1>1. rest \in Seq(WordType)
  <2>1. w.name \in Seq(STRING) /\ Len(n) \in Nat /\ Len(w.name) \in Nat
    BY DEF WordType
  <2>2. \A i \in (Len(n) + 1) .. Len(w.name) : w.name[i] \in STRING
    BY <2>1, ElementOfSeq
  <2>3. SubSeq(w.name, Len(n) + 1, Len(w.name)) \in Seq(STRING)
    BY <2>1, <2>2, SubSeqProperties
  <2>4. Plain(SubSeq(w.name, Len(n) + 1, Len(w.name))) \in WordType
    BY <2>3 DEF Plain, WordType
  <2> QED BY <2>4, SingleWord, EmptySeq
<1> QED BY <1>1, ConcatProperties DEF Inserted

LEMMA ReplacementTyped ==
  ASSUME NEW n \in Seq(STRING), NEW v \in Seq(WordType)
  PROVE  Replacement(n, v) \in [WordType -> Seq(WordType)]
BY InsertedTyped, SingleWord DEF Replacement

\* A word that no reference to a variable can be is left alone.
LEMMA ReplacementKeeps ==
  ASSUME NEW n, NEW v, NEW names, n \in names, NEW w \in WordType, Starts(w, names) = {}
  PROVE  Replacement(n, v)[w] = <<w>>
BY DEF Replacement, Starts

EnvironmentType(e) ==
  DOMAIN e \subseteq Seq(STRING) /\ \A n \in DOMAIN e : e[n] \in Seq(WordType)

LEMMA SubstitutionTyped ==
  ASSUME NEW e, EnvironmentType(e), NEW m, \A w \in DOMAIN m : m[w] \in DOMAIN e
  PROVE  Substitution(m, e) \in [WordType -> Seq(WordType)]
<1>1. ASSUME NEW w \in WordType, w \in DOMAIN m
      PROVE  Inserted(w, m[w], e[m[w]]) \in Seq(WordType)
  <2>1. m[w] \in DOMAIN e
    BY <1>1
  <2>2. m[w] \in Seq(STRING) /\ e[m[w]] \in Seq(WordType)
    BY <2>1 DEF EnvironmentType
  <2> QED BY <1>1, <2>2, InsertedTyped
<1> QED BY <1>1, SingleWord DEF Substitution

\* content.replace substitutes.
LEMMA ReplacedIsBind ==
  ASSUME NEW t \in Seq(WordType), NEW n, NEW v
  PROVE  Replaced(t, n, v) = Bind(Replacement(n, v), t)
<1>1. \A i \in DOMAIN t : t[i] \in WordType
  OBVIOUS
<1>2. \A i \in DOMAIN t : (IF t[i].ref /\ IsPrefix(n, t[i].name) THEN Inserted(t[i], n, v)
                           ELSE <<t[i]>>) = Replacement(n, v)[t[i]]
  BY <1>1 DEF Replacement
<1> QED BY <1>2 DEF Replaced, Bind

\* The replacement of all references substitutes.
LEMMA ExpandedIsBind ==
  ASSUME NEW t \in Seq(WordType), NEW m, NEW e
  PROVE  Expanded(t, m, e) = Bind(Substitution(m, e), t)
<1>1. \A i \in DOMAIN t : t[i] \in WordType
  OBVIOUS
<1>2. \A i \in DOMAIN t : (IF t[i] \in DOMAIN m THEN Inserted(t[i], m[t[i]], e[m[t[i]]]) ELSE <<t[i]>>)
                            = Substitution(m, e)[t[i]]
  BY <1>1 DEF Substitution
<1> QED BY <1>2 DEF Expanded, Bind

\* BindSingle, BindConcat and BindBind for words.
LEMMA WordBindSingle ==
  \A g \in [WordType -> Seq(WordType)] : \A w \in WordType : Bind(g, <<w>>) = g[w]
BY BindSingle

LEMMA WordBindConcat ==
  \A g \in [WordType -> Seq(WordType)] : \A s, t \in Seq(WordType) :
    Bind(g, s \o t) = Bind(g, s) \o Bind(g, t)
BY BindConcat

LEMMA WordBindBind ==
  \A f, g, h \in [WordType -> Seq(WordType)] : \A t \in Seq(WordType) :
    ComeTo(f, g, h, t) => Bind(g, Bind(f, t)) = Bind(h, t)
BY BindBind

\* What each reference of a document means when one variable more is replaced after
\* others: what it meant, or else the new one.
OneMore(m, doc, names, n) ==
  [w \in Meaningful(doc, names \union {n}) |-> IF w \in DOMAIN m THEN m[w] ELSE n]

LEMMA OneMoreMeans ==
  ASSUME NEW doc, NEW names, NEW n, NEW m \in Meanings(doc, names)
  PROVE  OneMore(m, doc, names, n) \in Meanings(doc, names \union {n})
<1> DEFINE h == OneMore(m, doc, names, n)
           all == names \union {n}
<1>1. /\ DOMAIN m = Meaningful(doc, names)
      /\ \A w \in DOMAIN m : m[w] \in names /\ m[w] \in Starts(w, names)
  BY DEF Meanings
<1>2. ASSUME NEW w \in Meaningful(doc, all)
      PROVE  h[w] \in all /\ h[w] \in Starts(w, all)
  <2>1. CASE w \in DOMAIN m
    BY <1>1, <1>2, <2>1 DEF OneMore, Starts
  <2>2. CASE w \notin DOMAIN m
    <3>1. Starts(w, names) = {} /\ Starts(w, all) # {}
      BY <1>1, <1>2, <2>2 DEF Meaningful
    <3>2. n \in Starts(w, all)
      BY <3>1 DEF Starts
    <3> QED BY <1>2, <2>2, <3>2 DEF OneMore
  <2> QED BY <2>1, <2>2
<1>3. h \in [Meaningful(doc, all) -> all] /\ DOMAIN h = Meaningful(doc, all)
  BY <1>2 DEF OneMore
<1> QED BY <1>2, <1>3 DEF Meanings

\* To replace one variable more, after the names that are done, gives each reference
\* what it means then, if no value refers to a variable.
LEMMA OneMoreReplaced ==
  ASSUME NEW e, EnvironmentType(e), NEW doc, Settled(doc, e),
         NEW names \in SUBSET DOMAIN e, NEW n \in DOMAIN e,
         NEW m \in Meanings(doc, names),
         NEW t \in Seq(WordType), \A i \in DOMAIN t : t[i] \in Words(doc)
  PROVE  Replaced(Bind(Substitution(m, e), t), n, e[n])
           = Bind(Substitution(OneMore(m, doc, names, n), e), t)
<1> DEFINE k == OneMore(m, doc, names, n)
           all == names \union {n}
           f == Substitution(m, e)
           g == Replacement(n, e[n])
           h == Substitution(k, e)
<1>0. DOMAIN e \subseteq Seq(STRING) /\ \A x \in DOMAIN e : e[x] \in Seq(WordType)
  BY DEF EnvironmentType
<1>1. /\ DOMAIN m = Meaningful(doc, names)
      /\ \A w \in DOMAIN m : m[w] \in names /\ m[w] \in Starts(w, names)
  BY DEF Meanings
<1>2. k \in Meanings(doc, all)
  BY OneMoreMeans
<1>3. DOMAIN k = Meaningful(doc, all) /\ \A w \in DOMAIN k : k[w] \in all
  BY <1>2 DEF Meanings
<1>4. \A w \in DOMAIN k : k[w] = IF w \in DOMAIN m THEN m[w] ELSE n
  BY DEF OneMore
<1> HIDE DEF k
<1>5. f \in [WordType -> Seq(WordType)] /\ h \in [WordType -> Seq(WordType)]
  <2>1. \A w \in DOMAIN m : m[w] \in DOMAIN e
    BY <1>1
  <2>2. \A w \in DOMAIN k : k[w] \in DOMAIN e
    BY <1>3
  <2> QED BY <2>1, <2>2, SubstitutionTyped
<1>6. g \in [WordType -> Seq(WordType)]
  BY <1>0, ReplacementTyped
<1>7. ASSUME NEW i \in DOMAIN t PROVE Bind(g, f[t[i]]) = h[t[i]]
  <2> DEFINE w == t[i]
  <2>1. w \in WordType /\ w \in Words(doc)
    OBVIOUS
  <2> HIDE DEF w
  <2>2. CASE w \in DOMAIN m
    <3> DEFINE v == e[m[w]]
               rest == IF w.name = m[w] THEN <<>>
                       ELSE <<Plain(SubSeq(w.name, Len(m[w]) + 1, Len(w.name)))>>
    <3>1. m[w] \in Starts(w, DOMAIN e) /\ m[w] \in DOMAIN e
      BY <1>1, <2>2 DEF Starts
    <3>2. w \in DOMAIN k /\ k[w] = m[w]
      <4>1. Starts(w, names) # {}
        BY <1>1, <2>2
      <4>2. Starts(w, all) # {}
        BY <4>1 DEF Starts
      <4>3. w \in DOMAIN k
        BY <1>3, <2>1, <4>2 DEF Meaningful
      <4> QED BY <1>4, <2>2, <4>3
    <3>3. f[w] = Inserted(w, m[w], v) /\ h[w] = Inserted(w, m[w], v)
      BY <2>1, <2>2, <3>2 DEF Substitution
    <3>4. v \in Seq(WordType) /\ m[w] \in Seq(STRING)
      BY <1>0, <3>1
    <3>5. Inserted(w, m[w], v) = v \o rest
      BY DEF Inserted
    <3>6. rest \in Seq(WordType)
      <4>1. <<>> \in Seq(WordType)
        BY EmptySeq
      <4>2. Inserted(w, m[w], <<>>) \in Seq(WordType)
        BY <2>1, <3>4, <4>1, InsertedTyped
      <4>3. Inserted(w, m[w], <<>>) = <<>> \o rest
        BY DEF Inserted
      <4>4. <<>> \o rest = rest
        OBVIOUS
      <4> QED BY <4>2, <4>3, <4>4
    <3>7. KeepsEach(g, v)
      <4>1. ASSUME NEW j \in DOMAIN v PROVE g[v[j]] = <<v[j]>>
        <5>1. v[j] \in WordType
          BY <3>4
        <5>2. Starts(v[j], DOMAIN e) = {}
          BY <2>1, <3>1 DEF Settled
        <5> QED BY <5>1, <5>2, ReplacementKeeps
      <4> QED BY <4>1 DEF KeepsEach
    <3>8. KeepsEach(g, rest)
      <4>1. ASSUME NEW j \in DOMAIN rest PROVE g[rest[j]] = <<rest[j]>>
        <5>1. w.name # m[w]
          BY <4>1
        <5>2. rest[j] = Plain(SubSeq(w.name, Len(m[w]) + 1, Len(w.name)))
          BY <4>1, <5>1
        <5>3. ~rest[j].ref
          BY <5>2 DEF Plain
        <5>4. rest[j] \in WordType
          BY <3>6, <4>1, ElementOfSeq
        <5> HIDE DEF rest
        <5> QED BY <5>3, <5>4 DEF Replacement
      <4> QED BY <4>1 DEF KeepsEach
    <3> HIDE DEF v, rest, g
    <3>9. Bind(g, v \o rest) = v \o rest
      <4>1. Bind(g, v \o rest) = Bind(g, v) \o Bind(g, rest)
        BY <1>6, <3>4, <3>6, WordBindConcat
      <4>2. Bind(g, v) = v /\ Bind(g, rest) = rest
        BY <1>6, <3>4, <3>6, <3>7, <3>8, BindKeeps
      <4> QED BY <4>1, <4>2
    <3> QED BY <3>3, <3>5, <3>9 DEF w
  <2>3. CASE w \notin DOMAIN m
    <3>1. f[w] = <<w>>
      BY <2>1, <2>3 DEF Substitution
    <3>2. Bind(g, <<w>>) = g[w]
      BY <1>6, <2>1, WordBindSingle
    <3>3. Starts(w, names) = {}
      BY <1>1, <2>1, <2>3 DEF Meaningful
    <3>4. CASE w.ref /\ IsPrefix(n, w.name)
      <4>1. n \in Starts(w, all)
        BY <3>4 DEF Starts
      <4>2. w \in DOMAIN k /\ k[w] = n
        BY <1>3, <1>4, <2>1, <2>3, <4>1 DEF Meaningful
      <4>3. h[w] = Inserted(w, n, e[n])
        BY <2>1, <4>2 DEF Substitution
      <4>4. g[w] = Inserted(w, n, e[n])
        BY <2>1, <3>4 DEF Replacement
      <4> QED BY <3>1, <3>2, <4>3, <4>4 DEF w
    <3>5. CASE ~(w.ref /\ IsPrefix(n, w.name))
      <4>1. Starts(w, all) = {}
        BY <3>3, <3>5 DEF Starts
      <4>2. w \notin DOMAIN k
        BY <1>3, <4>1 DEF Meaningful
      <4>3. h[w] = <<w>>
        BY <2>1, <4>2 DEF Substitution
      <4>4. g[w] = <<w>>
        BY <2>1, <3>5 DEF Replacement
      <4> QED BY <3>1, <3>2, <4>3, <4>4 DEF w
    <3> QED BY <3>4, <3>5
  <2> QED BY <2>2, <2>3
<1> HIDE DEF f, g, h
<1>8. Bind(g, Bind(f, t)) = Bind(h, t)
  <2>1. ComeTo(f, g, h, t)
    BY <1>7 DEF ComeTo
  <2>2. /\ f \in [WordType -> Seq(WordType)] /\ g \in [WordType -> Seq(WordType)]
        /\ h \in [WordType -> Seq(WordType)] /\ t \in Seq(WordType)
    BY <1>5, <1>6
  <2> QED BY <2>1, <2>2, WordBindBind
<1>9. Bind(f, t) \in Seq(WordType)
  BY <1>5, BindType
<1> QED BY <1>8, <1>9, ReplacedIsBind DEF f, g, h, k

-----------------------------------------------------------------------------
(* The invariant of the configuration.                                      *)

SettingsTyped ==
  /\ EnvironmentType(env)
  /\ source \subseteq EntryType /\ document \subseteq EntryType
  /\ todo \subseteq DOMAIN env

\* A set of entries with each reference replaced by what it means.
Substituted(entries, m, e) == {[x EXCEPT !.text = Bind(Substitution(m, e), @)] : x \in entries}

\* In between, each reference is replaced by one of the variables that are done.
ReplacedSoFar ==
  phase = "replacing" /\ Settled(source, env) =>
    \E m \in Meanings(source, (DOMAIN env) \ todo) : document = Substituted(source, m, env)

ConfigInv == phase \in {"loaded", "printed", "running"} => ConfigFits(config)

SettingsInv ==
  SettingsTyped /\ ReplacedSoFar /\ ConfigInv /\ EnvironmentApplied /\ PrintedKeepsSettings

-----------------------------------------------------------------------------
(* The invariant of the metadata.                                           *)

\* A call has found what the programs that ran gave it, and besides that the
\* version and the static values.
Gathered(found, r, d, static) ==
  /\ DOMAIN found = PrintedNames(r, d) \union DOMAIN static \union {VersionKey}
  /\ \A n \in DOMAIN found :
       IF n \in PrintedNames(r, d)
         THEN \E l \in PrintedLines(r) : NameOf(r, d, l) = n /\ ValueOf(r, l) = found[n]
         ELSE found[n] = IF n = VersionKey THEN Version ELSE static[n]

IsCall(c) == c = [left |-> c.left, found |-> c.found, stats |-> c.stats]

\* Only a running process collects metadata, and a program runs once in a call.
MetadataInv ==
  /\ IsCall(collect)
  /\ phase # "running" => collect = Idle /\ published = None
  /\ collect # Idle => /\ published = None
                       /\ collect.left \intersect DOMAIN runs = {}
                       /\ Gathered(collect.found, runs, delimiter, statics)
  /\ MetadataAsConfigured

-----------------------------------------------------------------------------
(* The steps of the configuration.                                          *)

LEMMA InitSettings == Init => SettingsInv
<1> SUFFICES ASSUME Init PROVE SettingsInv
  OBVIOUS
<1>1. /\ phase = "reading" /\ source = {} /\ document = {} /\ env = <<>> /\ todo = {}
  BY DEF Init, CfgInit
<1>2. SettingsTyped
  BY <1>1 DEF SettingsTyped, EnvironmentType
<1> QED BY <1>1, <1>2 DEF SettingsInv, ReplacedSoFar, ConfigInv, EnvironmentApplied, PrintedKeepsSettings

\* Nothing is replaced when no variable is done.
LEMMA SubstitutedNothing ==
  ASSUME NEW entries \in SUBSET EntryType, NEW e
  PROVE  \E m \in Meanings(entries, {}) : entries = Substituted(entries, m, e)
<1> DEFINE m == [w \in {} |-> w]
<1>1. DOMAIN m = {} /\ Meaningful(entries, {}) = {}
  BY DEF Meaningful, Starts
<1>2. m \in Meanings(entries, {})
  BY <1>1 DEF Meanings
<1>3. \A w \in WordType : Substitution(m, e)[w] = <<w>>
  BY <1>1 DEF Substitution
<1>4. Substitution(m, e) \in [WordType -> Seq(WordType)]
  <2>1. Substitution(m, e) = [w \in WordType |-> <<w>>]
    BY <1>1 DEF Substitution
  <2> QED BY <2>1, SingleWord
<1> HIDE DEF m
<1>5. ASSUME NEW x \in entries
      PROVE  [x EXCEPT !.text = Bind(Substitution(m, e), x.text)] = x
  <2>1. x.text \in Seq(WordType)
    BY DEF EntryType
  <2>2. KeepsEach(Substitution(m, e), x.text)
    <3>1. \A i \in DOMAIN x.text : x.text[i] \in WordType
      BY <2>1
    <3> QED BY <1>3, <3>1 DEF KeepsEach
  <2>3. Bind(Substitution(m, e), x.text) = x.text
    BY <1>4, <2>1, <2>2, BindKeeps
  <2>4. [x EXCEPT !.text = x.text] = x
    BY DEF EntryType
  <2> QED BY <2>3, <2>4
<1>6. Substituted(entries, m, e) = entries
  BY <1>5 DEF Substituted
<1> QED BY <1>2, <1>6

LEMMA ReadSettings == SettingsInv /\ Read => SettingsInv'
<1> SUFFICES ASSUME SettingsInv, Read PROVE SettingsInv'
  OBVIOUS
<1>1. PICK n \in 0 .. MaxFiles : \E files \in [1 .. n -> File] :
        /\ source' = UNION {files[i] : i \in 1 .. n}
        /\ document' = source'
        /\ phase' \in {"failed", "replacing"}
  BY DEF Read
<1>2. PICK files \in [1 .. n -> File] :
        /\ source' = UNION {files[i] : i \in 1 .. n}
        /\ document' = source'
        /\ phase' \in {"failed", "replacing"}
  BY <1>1
<1>3. env' \in Environment /\ todo' = DOMAIN env'
  BY DEF Read
<1>4. source' \subseteq EntryType
  <2>1. \A i \in 1 .. n : files[i] \subseteq EntryType
    BY ConfigurationAssumption
  <2> QED BY <1>2, <2>1
<1>5. EnvironmentType(env')
  BY <1>3, ConfigurationAssumption DEF EnvironmentType
<1>6. SettingsTyped'
  BY <1>2, <1>3, <1>4, <1>5 DEF SettingsTyped
<1>7. ReplacedSoFar'
  <2>1. (DOMAIN env') \ todo' = {}
    BY <1>3
  <2>2. \E m \in Meanings(source', {}) : document' = Substituted(source', m, env')
    BY <1>2, <1>4, SubstitutedNothing
  <2> QED BY <2>1, <2>2 DEF ReplacedSoFar
<1> QED BY <1>2, <1>6, <1>7 DEF SettingsInv, ConfigInv, EnvironmentApplied, PrintedKeepsSettings

LEMMA ReadFailsSettings == SettingsInv /\ ReadFails => SettingsInv'
BY DEF ReadFails, SettingsInv, SettingsTyped, ReplacedSoFar, ConfigInv, EnvironmentApplied,
       PrintedKeepsSettings

\* One round of the loop replaces one variable more.
LEMMA SubstitutedMore ==
  ASSUME SettingsTyped, Settled(source, env), NEW n \in todo,
         NEW m \in Meanings(source, (DOMAIN env) \ todo)
  PROVE  LET k == OneMore(m, source, (DOMAIN env) \ todo, n)
         IN /\ k \in Meanings(source, (DOMAIN env) \ (todo \ {n}))
            /\ {[x EXCEPT !.text = Replaced(@, n, env[n])] : x \in Substituted(source, m, env)}
                 = Substituted(source, k, env)
<1> DEFINE D == (DOMAIN env) \ todo
           k == OneMore(m, source, D, n)
<1>1. (DOMAIN env) \ (todo \ {n}) = D \union {n} /\ n \in DOMAIN env /\ D \in SUBSET DOMAIN env
  BY DEF SettingsTyped
<1>2. m \in Meanings(source, D)
  OBVIOUS
<1> HIDE DEF D
<1>3. k \in Meanings(source, D \union {n})
  BY <1>2, OneMoreMeans
<1>4. ASSUME NEW x \in source
      PROVE  LET a == [x EXCEPT !.text = Bind(Substitution(m, env), @)]
             IN [a EXCEPT !.text = Replaced(@, n, env[n])]
                  = [x EXCEPT !.text = Bind(Substitution(k, env), @)]
  <2> DEFINE t == x.text
  <2>1. x \in EntryType /\ t \in Seq(WordType)
    BY DEF SettingsTyped, EntryType
  <2>2. \A i \in DOMAIN t : t[i] \in Words(source)
    BY DEF Words
  <2>3. EnvironmentType(env)
    BY DEF SettingsTyped
  <2> HIDE DEF t, k
  <2>4. Replaced(Bind(Substitution(m, env), t), n, env[n]) = Bind(Substitution(k, env), t)
    BY <1>1, <1>2, <2>1, <2>2, <2>3, OneMoreReplaced DEF k
  <2>5. \A u, v : LET a == [x EXCEPT !.text = u]
                  IN a.text = u /\ [a EXCEPT !.text = v] = [x EXCEPT !.text = v]
    BY <2>1 DEF EntryType
  <2> QED BY <2>4, <2>5 DEF t
<1> HIDE DEF k
<1>5. {[x EXCEPT !.text = Replaced(@, n, env[n])] : x \in Substituted(source, m, env)}
        = Substituted(source, k, env)
  <2> DEFINE A(x) == [x EXCEPT !.text = Bind(Substitution(m, env), @)]
             R(y) == [y EXCEPT !.text = Replaced(@, n, env[n])]
             B(x) == [x EXCEPT !.text = Bind(Substitution(k, env), @)]
  <2>1. \A x \in source : R(A(x)) = B(x)
    BY <1>4
  <2>2. Substituted(source, m, env) = {A(x) : x \in source}
    BY DEF Substituted
  <2>3. Substituted(source, k, env) = {B(x) : x \in source}
    BY DEF Substituted
  <2> HIDE DEF A, R, B
  <2>4. {R(y) : y \in {A(x) : x \in source}} = {B(x) : x \in source}
    BY <2>1
  <2> QED BY <2>2, <2>3, <2>4 DEF R
<1> QED BY <1>1, <1>3, <1>5 DEF D, k

LEMMA ReplaceSettings == SettingsInv /\ Replace => SettingsInv'
<1> SUFFICES ASSUME SettingsInv, Replace PROVE SettingsInv'
  OBVIOUS
<1>1. PICK n \in todo :
        /\ document' = {[e EXCEPT !.text = Replaced(@, n, env[n])] : e \in document}
        /\ todo' = todo \ {n}
  BY DEF Replace
<1>2. phase = "replacing" /\ phase' = phase /\ source' = source /\ env' = env
  BY DEF Replace
<1>3. SettingsTyped
  BY DEF SettingsInv
<1>4. SettingsTyped'
  <2>1. n \in Seq(STRING) /\ env[n] \in Seq(WordType)
    BY <1>1, <1>3 DEF SettingsTyped, EnvironmentType
  <2>2. ASSUME NEW e \in document PROVE [e EXCEPT !.text = Replaced(@, n, env[n])] \in EntryType
    <3>1. e \in EntryType /\ e.text \in Seq(WordType)
      BY <1>3 DEF SettingsTyped, EntryType
    <3>2. Replaced(e.text, n, env[n]) \in Seq(WordType)
      <4>1. Replacement(n, env[n]) \in [WordType -> Seq(WordType)]
        BY <2>1, ReplacementTyped
      <4>2. Bind(Replacement(n, env[n]), e.text) \in Seq(WordType)
        BY <3>1, <4>1, BindType
      <4> QED BY <3>1, <4>2, ReplacedIsBind
    <3> QED BY <3>1, <3>2 DEF EntryType
  <2>3. document' \subseteq EntryType
    BY <1>1, <2>2
  <2> QED BY <1>1, <1>2, <1>3, <2>3 DEF SettingsTyped
<1>5. ReplacedSoFar'
  <2>1. SUFFICES ASSUME Settled(source, env)
                 PROVE  \E m \in Meanings(source, (DOMAIN env) \ (todo \ {n})) :
                          document' = Substituted(source, m, env)
    BY <1>1, <1>2 DEF ReplacedSoFar
  <2>2. PICK m \in Meanings(source, (DOMAIN env) \ todo) : document = Substituted(source, m, env)
    BY <1>2, <2>1 DEF SettingsInv, ReplacedSoFar
  <2> DEFINE k == OneMore(m, source, (DOMAIN env) \ todo, n)
  <2>3. /\ k \in Meanings(source, (DOMAIN env) \ (todo \ {n}))
        /\ {[x EXCEPT !.text = Replaced(@, n, env[n])] : x \in Substituted(source, m, env)}
             = Substituted(source, k, env)
    BY <1>3, <2>1, SubstitutedMore
  <2> QED BY <1>1, <2>2, <2>3
<1> QED BY <1>2, <1>4, <1>5 DEF SettingsInv, ConfigInv, EnvironmentApplied, PrintedKeepsSettings

LEMMA EntriesAreEntries ==
  ASSUME NEW e \in EntryType
  PROVE  IsEntry(e)
BY DEF EntryType, IsEntry, Entry

LEMMA ParseSettings == SettingsInv /\ Parse => SettingsInv'
<1> SUFFICES ASSUME SettingsInv, Parse PROVE SettingsInv'
  OBVIOUS
<1>1. /\ phase = "replacing" /\ todo = {}
      /\ source' = source /\ document' = document /\ env' = env /\ todo' = todo
      /\ \/ phase' = "loaded" /\ Loads(document) /\ config' = Loaded(document)
         \/ phase' = "failed"
  BY DEF Parse
<1>2. SettingsTyped /\ SettingsTyped'
  BY <1>1 DEF SettingsInv, SettingsTyped
<1>3. ConfigInv'
  <2>1. \A e \in document : IsEntry(e)
    BY <1>2, EntriesAreEntries DEF SettingsTyped
  <2> QED BY <1>1, <2>1, LoadedFits DEF ConfigInv
<1>4. EnvironmentApplied'
  <2>1. SUFFICES ASSUME phase' = "loaded", Settled(source, env)
                 PROVE  \E m \in Meanings(source, DOMAIN env) :
                          config' = Loaded({[e EXCEPT !.text = Expanded(@, m, env)] : e \in source})
    BY <1>1 DEF EnvironmentApplied
  <2>2. PICK m \in Meanings(source, DOMAIN env) : document = Substituted(source, m, env)
    <3>1. (DOMAIN env) \ todo = DOMAIN env
      BY <1>1
    <3> QED BY <1>1, <2>1, <3>1 DEF SettingsInv, ReplacedSoFar
  <2>3. \A e \in source : Expanded(e.text, m, env) = Bind(Substitution(m, env), e.text)
    <3>1. \A e \in source : e.text \in Seq(WordType)
      BY <1>2 DEF SettingsTyped, EntryType
    <3> QED BY <3>1, ExpandedIsBind
  <2>4. document = {[e EXCEPT !.text = Expanded(@, m, env)] : e \in source}
    BY <2>2, <2>3 DEF Substituted
  <2> QED BY <1>1, <2>1, <2>4
<1> QED BY <1>1, <1>2, <1>3, <1>4 DEF SettingsInv, ReplacedSoFar, PrintedKeepsSettings

LEMMA ConfigfileSettings == SettingsInv /\ Configfile => SettingsInv'
<1> SUFFICES ASSUME SettingsInv, Configfile PROVE SettingsInv'
  OBVIOUS
<1>1. /\ phase = "loaded" /\ phase' = "printed"
      /\ printed' = {PrintedEntry(e) : e \in {e \in config : Printable(e)}}
      /\ source' = source /\ document' = document /\ env' = env /\ todo' = todo /\ config' = config
  BY DEF Configfile
<1>2. ConfigFits(config)
  BY <1>1 DEF SettingsInv, ConfigInv
<1>3. PrintedKeepsSettings'
  BY <1>1, <1>2, PrintedSettings DEF PrintedKeepsSettings
<1>4. SettingsTyped' /\ ConfigInv'
  BY <1>1, <1>2 DEF SettingsInv, SettingsTyped, ConfigInv
<1> QED BY <1>1, <1>3, <1>4 DEF SettingsInv, ReplacedSoFar, EnvironmentApplied

LEMMA RestartSettings == SettingsInv /\ Restart => SettingsInv'
<1> SUFFICES ASSUME SettingsInv, Restart PROVE SettingsInv'
  OBVIOUS
<1>1. phase' = "reading" /\ source' = {} /\ document' = {} /\ env' = <<>> /\ todo' = {}
  BY DEF Restart
<1>2. SettingsTyped'
  BY <1>1 DEF SettingsTyped, EnvironmentType
<1> QED BY <1>1, <1>2 DEF SettingsInv, ReplacedSoFar, ConfigInv, EnvironmentApplied, PrintedKeepsSettings

LEMMA SetupSettings == SettingsInv /\ Setup => SettingsInv'
<1> SUFFICES ASSUME SettingsInv, Setup PROVE SettingsInv'
  OBVIOUS
<1>1. /\ phase = "loaded" /\ phase' = "running"
      /\ source' = source /\ document' = document /\ env' = env /\ todo' = todo /\ config' = config
  BY DEF Setup
<1>2. SettingsTyped' /\ ConfigInv'
  BY <1>1 DEF SettingsInv, SettingsTyped, ConfigInv
<1> QED BY <1>1, <1>2 DEF SettingsInv, ReplacedSoFar, EnvironmentApplied, PrintedKeepsSettings

LEMMA UnchangedSettings == SettingsInv /\ UNCHANGED cfgVars => SettingsInv'
<1> SUFFICES ASSUME SettingsInv, UNCHANGED cfgVars PROVE SettingsInv'
  OBVIOUS
<1>1. /\ phase' = phase /\ source' = source /\ document' = document /\ env' = env
      /\ todo' = todo /\ config' = config /\ printed' = printed
  BY DEF cfgVars
<1>2. SettingsTyped' /\ ConfigInv' /\ PrintedKeepsSettings'
  BY <1>1 DEF SettingsInv, SettingsTyped, ConfigInv, PrintedKeepsSettings
<1>3. ReplacedSoFar'
  BY <1>1 DEF SettingsInv, ReplacedSoFar
<1>4. EnvironmentApplied'
  BY <1>1 DEF SettingsInv, EnvironmentApplied
<1> QED BY <1>2, <1>3, <1>4 DEF SettingsInv

-----------------------------------------------------------------------------
(* The steps of metadata::get.                                              *)

\* A call begins with the version and the static values.
LEMMA GatheredAtFirst ==
  ASSUME NEW static, NEW d
  PROVE  Gathered(Insert(static, VersionKey, Version), <<>>, d, static)
<1> DEFINE found == Insert(static, VersionKey, Version)
<1>1. PrintedNames(<<>>, d) = {}
  BY DEF PrintedNames, PrintedLines
<1>2. DOMAIN found = DOMAIN static \union {VersionKey}
  BY DEF Insert
<1>3. \A n \in DOMAIN found : found[n] = IF n = VersionKey THEN Version ELSE static[n]
  BY DEF Insert
<1> QED BY <1>1, <1>2, <1>3 DEF Gathered

\* The lines of the runs q are those of r and those of the outcome o of k.
RunAdded(r, q, k, o, d) ==
  /\ \A l \in PrintedLines(r) : /\ l \in PrintedLines(q)
                           /\ NameOf(q, d, l) = NameOf(r, d, l)
                           /\ ValueOf(q, l) = ValueOf(r, l)
  /\ o.end = "ok" => \A i \in DOMAIN o.lines :
       /\ <<k, i>> \in PrintedLines(q)
       /\ NameOf(q, d, <<k, i>>) = DocumentedName(k, o.lines, i, d)
       /\ ValueOf(q, <<k, i>>) = o.lines[i].value
  /\ \A l \in PrintedLines(q) :
       l \in PrintedLines(r) \/ (o.end = "ok" /\ \E i \in DOMAIN o.lines : l = <<k, i>>)

\* One more program has run.
LEMMA InsertRun ==
  ASSUME NEW r, NEW k, k \notin DOMAIN r, NEW o \in Outcome, NEW d
  PROVE  RunAdded(r, Insert(r, k, o), k, o, d)
<1> DEFINE q == Insert(r, k, o)
<1>1. DOMAIN q = DOMAIN r \union {k} /\ q[k] = o /\ \A m \in DOMAIN r : q[m] = r[m]
  BY DEF Insert
<1> HIDE DEF q
<1>2. DOMAIN o.lines \subseteq 1 .. MaxLines
  <2>1. o.lines \in Seq([delimiter : STRING \union {None}, name : Seq(STRING), value : Seq(WordType)])
    BY MetadataAssumption
  <2>2. Len(o.lines) \in Nat /\ DOMAIN o.lines = 1 .. Len(o.lines)
    BY <2>1, LenProperties
  <2>3. Len(o.lines) <= MaxLines /\ MaxLines \in Nat
    BY MetadataAssumption
  <2> QED BY <2>2, <2>3
<1>3. ASSUME NEW l \in PrintedLines(r)
      PROVE  l \in PrintedLines(q) /\ NameOf(q, d, l) = NameOf(r, d, l) /\ ValueOf(q, l) = ValueOf(r, l)
  <2>1. l[1] \in DOMAIN r /\ l \in (DOMAIN r) \X (1..MaxLines)
    BY DEF PrintedLines
  <2>2. q[l[1]] = r[l[1]]
    BY <1>1, <2>1
  <2>3. l \in (DOMAIN q) \X (1..MaxLines)
    BY <1>1, <2>1
  <2> QED BY <2>2, <2>3 DEF PrintedLines, NameOf, ValueOf
<1>4. ASSUME o.end = "ok", NEW i \in DOMAIN o.lines
      PROVE  /\ <<k, i>> \in PrintedLines(q)
             /\ NameOf(q, d, <<k, i>>) = DocumentedName(k, o.lines, i, d)
             /\ ValueOf(q, <<k, i>>) = o.lines[i].value
  <2>1. <<k, i>> \in (DOMAIN q) \X (1..MaxLines)
    BY <1>1, <1>2
  <2> QED BY <1>1, <1>4, <2>1 DEF PrintedLines, NameOf, ValueOf
<1>5. ASSUME NEW l \in PrintedLines(q)
      PROVE  l \in PrintedLines(r) \/ (o.end = "ok" /\ \E i \in DOMAIN o.lines : l = <<k, i>>)
  <2>1. l \in (DOMAIN q) \X (1..MaxLines) /\ q[l[1]].end = "ok" /\ l[2] \in DOMAIN q[l[1]].lines
    BY DEF PrintedLines
  <2>2. CASE l[1] = k
    <3>1. l = <<k, l[2]>>
      BY <2>1, <2>2
    <3> QED BY <1>1, <2>1, <2>2, <3>1
  <2>3. CASE l[1] # k
    <3>1. l[1] \in DOMAIN r /\ q[l[1]] = r[l[1]]
      BY <1>1, <2>1, <2>3
    <3>2. l \in (DOMAIN r) \X (1..MaxLines)
      BY <2>1, <3>1
    <3> QED BY <2>1, <3>1, <3>2 DEF PrintedLines
  <2> QED BY <2>2, <2>3
<1> QED BY <1>3, <1>4, <1>5 DEF q, RunAdded

OwnNames(k, lines, d) == {DocumentedName(k, lines, i, d) : i \in DOMAIN lines} \ {None}

\* The map w has the names of the lines of k, each with the value of one of them,
\* and the rest from map.
LinesAdded(map, w, k, lines, d) ==
  /\ DOMAIN w = DOMAIN map \union OwnNames(k, lines, d)
  /\ \A n \in OwnNames(k, lines, d) : \E i \in DOMAIN lines :
       DocumentedName(k, lines, i, d) = n /\ lines[i].value = w[n]
  /\ \A n \in (DOMAIN map) \ OwnNames(k, lines, d) : w[n] = map[n]

LEMMA WithLinesMap ==
  ASSUME NEW map, NEW k, NEW S, NEW lines \in Seq(S)
  PROVE  LinesAdded(map, WithLines(map, k, lines), k, lines, delimiter)
<1> DEFINE names == Names(k, lines)
           last(n) == CHOOSE i \in DOMAIN lines : names[i] = n /\ \A j \in DOMAIN lines : names[j] = n => j <= i
           own == {DocumentedName(k, lines, i, delimiter) : i \in DOMAIN lines} \ {None}
           more == [n \in own |-> lines[last(n)].value]
           w == WithLines(map, k, lines)
<1>1. \A i \in DOMAIN lines : names[i] = DocumentedName(k, lines, i, delimiter)
  BY DEF Names, DocumentedName
<1>2. own = {names[i] : i \in DOMAIN lines} \ {None}
  BY <1>1
<1>3. ASSUME NEW n \in own PROVE last(n) \in DOMAIN lines /\ names[last(n)] = n
  <2> DEFINE I == {i \in DOMAIN lines : names[i] = n}
  <2>1. I \in SUBSET (1 .. Len(lines)) /\ Len(lines) \in Nat /\ I # {}
    BY <1>2
  <2>2. \E i \in I : \A j \in I : j <= i
    BY <2>1, LastExists
  <2>3. \E i \in DOMAIN lines : names[i] = n /\ \A j \in DOMAIN lines : names[j] = n => j <= i
    BY <2>2
  <2> HIDE DEF names
  <2> QED BY <2>3
<1>4. w = Extended(map, more)
  BY <1>2 DEF WithLines
<1> HIDE DEF names, last, own, w
<1>5. DOMAIN w = DOMAIN map \union own
  BY <1>4 DEF Extended
<1>6. ASSUME NEW n \in own
      PROVE  \E i \in DOMAIN lines : DocumentedName(k, lines, i, delimiter) = n /\ lines[i].value = w[n]
  <2>1. w[n] = lines[last(n)].value
    BY <1>4 DEF Extended
  <2> QED BY <1>1, <1>3, <2>1
<1>7. \A n \in (DOMAIN map) \ own : w[n] = map[n]
  BY <1>4 DEF Extended
<1> QED BY <1>5, <1>6, <1>7 DEF own, w, OwnNames, LinesAdded

\* A program that ends well adds its lines.
LEMMA GatheredMore ==
  ASSUME NEW found, NEW r, NEW static, Gathered(found, r, delimiter, static),
         NEW k, k \notin DOMAIN r, NEW o \in Outcome, o.end = "ok"
  PROVE  Gathered(WithLines(found, k, o.lines), Insert(r, k, o), delimiter, static)
<1> DEFINE q == Insert(r, k, o)
           w == WithLines(found, k, o.lines)
           own == OwnNames(k, o.lines, delimiter)
           d == delimiter
           old == PrintedNames(r, d)
           new == PrintedNames(q, d)
<1>1. /\ \A l \in PrintedLines(r) : /\ l \in PrintedLines(q)
                               /\ NameOf(q, d, l) = NameOf(r, d, l)
                               /\ ValueOf(q, l) = ValueOf(r, l)
      /\ \A i \in DOMAIN o.lines :
           /\ <<k, i>> \in PrintedLines(q)
           /\ NameOf(q, d, <<k, i>>) = DocumentedName(k, o.lines, i, d)
           /\ ValueOf(q, <<k, i>>) = o.lines[i].value
      /\ \A l \in PrintedLines(q) : l \in PrintedLines(r) \/ \E i \in DOMAIN o.lines : l = <<k, i>>
  <2>1. RunAdded(r, q, k, o, d)
    BY InsertRun
  <2> HIDE DEF q, d
  <2> QED BY <2>1 DEF RunAdded
<1>2. /\ DOMAIN w = DOMAIN found \union own
      /\ \A n \in own : \E i \in DOMAIN o.lines :
           DocumentedName(k, o.lines, i, d) = n /\ o.lines[i].value = w[n]
      /\ \A n \in (DOMAIN found) \ own : w[n] = found[n]
  <2>1. o.lines \in Seq([delimiter : STRING \union {None}, name : Seq(STRING), value : Seq(WordType)])
    BY MetadataAssumption
  <2>2. LinesAdded(found, w, k, o.lines, d)
    BY <2>1, WithLinesMap
  <2> HIDE DEF w
  <2> QED BY <2>2 DEF LinesAdded
<1>3. /\ DOMAIN found = old \union DOMAIN static \union {VersionKey}
      /\ \A n \in DOMAIN found :
           IF n \in old THEN \E l \in PrintedLines(r) : NameOf(r, d, l) = n /\ ValueOf(r, l) = found[n]
           ELSE found[n] = IF n = VersionKey THEN Version ELSE static[n]
  BY DEF Gathered
<1> HIDE DEF q, w, d
<1>4. new = old \union own
  <2>1. ASSUME NEW n \in old PROVE n \in new
    BY <1>1 DEF PrintedNames
  <2>2. ASSUME NEW n \in own PROVE n \in new
    BY <1>1 DEF PrintedNames, OwnNames, d
  <2>3. ASSUME NEW n \in new PROVE n \in old \union own
    <3>1. PICK l \in PrintedLines(q) : n = NameOf(q, d, l) /\ n # None
      BY DEF PrintedNames
    <3>2. CASE l \in PrintedLines(r)
      BY <1>1, <3>1, <3>2 DEF PrintedNames
    <3>3. CASE \E i \in DOMAIN o.lines : l = <<k, i>>
      BY <1>1, <3>1, <3>3 DEF OwnNames, d
    <3> QED BY <1>1, <3>2, <3>3
  <2> HIDE DEF old, new, own
  <2> QED BY <2>1, <2>2, <2>3
<1> HIDE DEF old, new, own
<1>5. DOMAIN w = new \union DOMAIN static \union {VersionKey}
  BY <1>2, <1>3, <1>4
<1>6. ASSUME NEW n \in DOMAIN w
      PROVE  IF n \in new THEN \E l \in PrintedLines(q) : NameOf(q, d, l) = n /\ ValueOf(q, l) = w[n]
             ELSE w[n] = IF n = VersionKey THEN Version ELSE static[n]
  <2>1. CASE n \in own
    <3>1. PICK i \in DOMAIN o.lines : DocumentedName(k, o.lines, i, d) = n /\ o.lines[i].value = w[n]
      BY <1>2, <2>1
    <3>2. <<k, i>> \in PrintedLines(q) /\ NameOf(q, d, <<k, i>>) = n /\ ValueOf(q, <<k, i>>) = w[n]
      BY <1>1, <3>1
    <3> QED BY <1>4, <2>1, <3>2
  <2>2. CASE n \notin own
    <3>1. n \in DOMAIN found /\ w[n] = found[n]
      BY <1>2, <2>2
    <3>2. CASE n \in old
      <4>1. PICK l \in PrintedLines(r) : NameOf(r, d, l) = n /\ ValueOf(r, l) = found[n]
        BY <1>3, <3>1, <3>2
      <4>2. l \in PrintedLines(q) /\ NameOf(q, d, l) = n /\ ValueOf(q, l) = w[n]
        BY <1>1, <3>1, <4>1
      <4> QED BY <1>4, <3>2, <4>2
    <3>3. CASE n \notin old
      BY <1>3, <1>4, <2>2, <3>1, <3>3
    <3> QED BY <3>2, <3>3
  <2> QED BY <2>1, <2>2
<1> QED BY <1>5, <1>6 DEF Gathered, new, q, w, d

\* A program that fails adds nothing.
LEMMA GatheredNoMore ==
  ASSUME NEW found, NEW r, NEW d, NEW static, Gathered(found, r, d, static),
         NEW k, k \notin DOMAIN r, NEW o \in Outcome, o.end # "ok"
  PROVE  Gathered(found, Insert(r, k, o), d, static)
<1> DEFINE q == Insert(r, k, o)
<1>1. RunAdded(r, q, k, o, d)
  BY InsertRun
<1> HIDE DEF q
<1>2. /\ PrintedLines(q) = PrintedLines(r)
      /\ \A l \in PrintedLines(r) : NameOf(q, d, l) = NameOf(r, d, l) /\ ValueOf(q, l) = ValueOf(r, l)
  BY <1>1 DEF RunAdded
<1>3. PrintedNames(q, d) = PrintedNames(r, d)
  BY <1>2 DEF PrintedNames
<1> QED BY <1>2, <1>3 DEF Gathered, q

\* MetadataAsConfigured of the metadata m, which the stats had some of.
AsConfigured(m, stats, r, d, static) ==
  LET own == PrintedNames(r, d) \union DOMAIN static \union {VersionKey}
  IN /\ DOMAIN m = own \union DOMAIN stats
     /\ \A n \in DOMAIN m :
          IF n \in PrintedNames(r, d)
            THEN \E l \in PrintedLines(r) : NameOf(r, d, l) = n /\ ValueOf(r, l) = m[n]
            ELSE m[n] = IF n = VersionKey THEN Version
                        ELSE IF n \in own THEN static[n] ELSE stats[n]

\* What is published when nothing is left to run.
LEMMA GatheredPublished ==
  ASSUME NEW r, NEW d, NEW static, NEW stats, NEW found, Gathered(found, r, d, static)
  PROVE  AsConfigured(Extended(stats, found), stats, r, d, static)
<1> DEFINE own == PrintedNames(r, d) \union DOMAIN static \union {VersionKey}
           m   == Extended(stats, found)
<1>1. /\ DOMAIN m = DOMAIN stats \union DOMAIN found
      /\ \A n \in DOMAIN m : m[n] = IF n \in DOMAIN found THEN found[n] ELSE stats[n]
  BY DEF Extended
<1>2. /\ DOMAIN found = own
      /\ \A n \in DOMAIN found :
           IF n \in PrintedNames(r, d)
             THEN \E l \in PrintedLines(r) : NameOf(r, d, l) = n /\ ValueOf(r, l) = found[n]
             ELSE found[n] = IF n = VersionKey THEN Version ELSE static[n]
  BY DEF Gathered
<1> HIDE DEF m
<1>3. ASSUME NEW n \in DOMAIN m
      PROVE  IF n \in PrintedNames(r, d)
               THEN \E l \in PrintedLines(r) : NameOf(r, d, l) = n /\ ValueOf(r, l) = m[n]
               ELSE m[n] = IF n = VersionKey THEN Version
                           ELSE IF n \in own THEN static[n] ELSE stats[n]
  <2>1. CASE n \in own
    <3>1. m[n] = found[n]
      BY <1>1, <1>2, <2>1
    <3> QED BY <1>2, <2>1, <3>1
  <2>2. CASE n \notin own
    <3>1. m[n] = stats[n] /\ n # VersionKey /\ n \notin PrintedNames(r, d)
      BY <1>1, <1>2, <2>2
    <3> QED BY <2>2, <3>1
  <2> QED BY <2>1, <2>2
<1> QED BY <1>1, <1>2, <1>3 DEF AsConfigured, m

LEMMA InitMetadata == Init => MetadataInv
BY DEF Init, MetadataInv, MetadataAsConfigured, Idle, IsCall

\* Steps that neither collect nor publish.
LEMMA IdleMetadata ==
  ASSUME collect' = Idle, published' = None
  PROVE  MetadataInv'
BY DEF MetadataInv, MetadataAsConfigured, Idle, IsCall

LEMMA ConfigureMetadata == MetadataInv /\ Configure => MetadataInv'
<1> SUFFICES ASSUME MetadataInv, Configure PROVE MetadataInv'
  OBVIOUS
<1>1. phase # "running"
  BY DEF Configure, CfgNext, Read, ReadFails, Replace, Parse, Configfile
<1>2. collect' = Idle /\ published' = None
  BY <1>1 DEF MetadataInv, Configure, metaVars
<1> QED BY <1>2, IdleMetadata

LEMMA SetupMetadata == MetadataInv /\ Setup => MetadataInv'
<1> SUFFICES ASSUME MetadataInv, Setup PROVE MetadataInv'
  OBVIOUS
<1>1. collect' = Idle /\ published' = None
  BY DEF MetadataInv, Setup
<1> QED BY <1>1, IdleMetadata

LEMMA BeginMetadata == MetadataInv /\ Begin => MetadataInv'
<1> SUFFICES ASSUME MetadataInv, Begin PROVE MetadataInv'
  OBVIOUS
<1>1. /\ phase' = "running" /\ runs' = <<>> /\ published' = None
      /\ statics' = statics /\ delimiter' = delimiter
      /\ collect'.found = Insert(statics, VersionKey, Version)
      /\ IsCall(collect')
  BY DEF Begin, cfgVars, IsCall
<1>2. Gathered(collect'.found, runs', delimiter', statics')
  BY <1>1, GatheredAtFirst
<1>3. DOMAIN runs' = {}
  BY <1>1
<1> QED BY <1>1, <1>2, <1>3 DEF MetadataInv, MetadataAsConfigured

\* What RunCommand makes of a call.
Without(c, k) == [c EXCEPT !.left = @ \ {k}]

WithFound(c, k, f) == [c EXCEPT !.left = @ \ {k}, !.found = f]

\* What the fields of the call are then.
FieldsWithout(c, k) ==
  /\ IsCall(Without(c, k)) /\ Without(c, k).left = c.left \ {k}
  /\ Without(c, k).found = c.found

FieldsWithFound(c, k, f) ==
  /\ IsCall(WithFound(c, k, f)) /\ WithFound(c, k, f).left = c.left \ {k}
  /\ WithFound(c, k, f).found = f

LEMMA CallFields ==
  ASSUME NEW c, IsCall(c), NEW k
  PROVE  FieldsWithout(c, k) /\ \A f : FieldsWithFound(c, k, f)
<1>1. PICK x, y, z : c = [left |-> x, found |-> y, stats |-> z]
  BY DEF IsCall
<1>2. c.left = x /\ c.found = y
  BY <1>1
<1> DEFINE left == x \ {k}
<1>3. Without(c, k) = [c EXCEPT !.left = left]
  BY <1>2 DEF Without
<1>4. \A f : WithFound(c, k, f) = [c EXCEPT !.left = left, !.found = f]
  BY <1>2 DEF WithFound
<1>5. c.left \ {k} = left
  BY <1>2
<1> HIDE DEF left
<1>6. Without(c, k) = [left |-> left, found |-> y, stats |-> z]
  BY <1>1, <1>3
<1>7. ASSUME NEW f PROVE WithFound(c, k, f) = [left |-> left, found |-> f, stats |-> z]
  BY <1>1, <1>4
<1>8. IsCall(Without(c, k)) /\ Without(c, k).left = left /\ Without(c, k).found = y
  BY <1>6 DEF IsCall
<1>9. ASSUME NEW f
      PROVE  /\ IsCall(WithFound(c, k, f)) /\ WithFound(c, k, f).left = left
             /\ WithFound(c, k, f).found = f
  BY <1>7 DEF IsCall
<1> QED BY <1>2, <1>5, <1>8, <1>9 DEF FieldsWithout, FieldsWithFound

LEMMA RunCommandMetadata == MetadataInv /\ RunCommand => MetadataInv'
<1> SUFFICES ASSUME MetadataInv, RunCommand PROVE MetadataInv'
  OBVIOUS
<1>1. UNCHANGED <<phase, statics, delimiter, published>>
  BY DEF RunCommand, cfgVars
<1>2. PICK k \in collect.left :
        \/ collect' = Without(collect, k) /\ runs' = runs
        \/ \E o \in Outcome :
             /\ runs' = Insert(runs, k, o)
             /\ collect' =
                  CASE o.end \in {"not_started", "no_text"} -> Idle
                    [] o.end = "failed" -> Without(collect, k)
                    [] OTHER -> WithFound(collect, k, WithLines(collect.found, k, o.lines))
  BY DEF RunCommand, Without, WithFound
<1>3. collect # Idle
  BY DEF Idle
<1>4. /\ phase = "running" /\ published = None /\ collect.left \intersect DOMAIN runs = {}
      /\ Gathered(collect.found, runs, delimiter, statics)
  BY <1>3 DEF MetadataInv
<1>5. k \notin DOMAIN runs
  BY <1>4
<1>6. FieldsWithout(collect, k) /\ \A f : FieldsWithFound(collect, k, f)
  <2>1. IsCall(collect)
    BY DEF MetadataInv
  <2> QED BY <2>1, CallFields
<1>7. SUFFICES \/ collect' = Idle
               \/ /\ IsCall(collect') /\ collect'.left = collect.left \ {k}
                  /\ DOMAIN runs' \subseteq DOMAIN runs \union {k}
                  /\ Gathered(collect'.found, runs', delimiter, statics)
  <2>1. ASSUME IsCall(collect'), collect'.left = collect.left \ {k},
               DOMAIN runs' \subseteq DOMAIN runs \union {k},
               Gathered(collect'.found, runs', delimiter, statics)
        PROVE  MetadataInv'
    <3>1. collect'.left \intersect DOMAIN runs' = {}
      BY <1>4, <2>1
    <3> QED BY <1>1, <1>4, <2>1, <3>1 DEF MetadataInv, MetadataAsConfigured
  <2>2. ASSUME collect' = Idle PROVE MetadataInv'
    BY <1>1, <1>4, <2>2, IdleMetadata
  <2> QED BY <2>1, <2>2
<1>8. CASE collect' = Without(collect, k) /\ runs' = runs
  BY <1>4, <1>6, <1>8 DEF FieldsWithout
<1>9. ASSUME NEW o \in Outcome, runs' = Insert(runs, k, o),
             collect' =
               CASE o.end \in {"not_started", "no_text"} -> Idle
                 [] o.end = "failed" -> Without(collect, k)
                 [] OTHER -> WithFound(collect, k, WithLines(collect.found, k, o.lines))
      PROVE  \/ collect' = Idle
             \/ /\ IsCall(collect') /\ collect'.left = collect.left \ {k}
                /\ DOMAIN runs' \subseteq DOMAIN runs \union {k}
                /\ Gathered(collect'.found, runs', delimiter, statics)
  <2>1. DOMAIN runs' \subseteq DOMAIN runs \union {k}
    BY <1>9 DEF Insert
  <2>2. CASE o.end \in {"not_started", "no_text"}
    BY <1>9, <2>2
  <2>3. CASE o.end = "failed"
    <3>1. collect' = Without(collect, k)
      BY <1>9, <2>3
    <3>2. Gathered(collect.found, runs', delimiter, statics)
      BY <1>4, <1>5, <1>9, <2>3, GatheredNoMore
    <3> QED BY <1>6, <2>1, <3>1, <3>2 DEF FieldsWithout
  <2>4. CASE o.end = "ok"
    <3>1. collect' = WithFound(collect, k, WithLines(collect.found, k, o.lines))
      BY <1>9, <2>4
    <3>2. Gathered(WithLines(collect.found, k, o.lines), runs', delimiter, statics)
      BY <1>4, <1>5, <1>9, <2>4, GatheredMore
    <3> QED BY <1>6, <2>1, <3>1, <3>2 DEF FieldsWithFound
  <2> QED BY <2>2, <2>3, <2>4, MetadataAssumption
<1> QED BY <1>2, <1>8, <1>9

LEMMA PublishMetadata == MetadataInv /\ Publish => MetadataInv'
<1> SUFFICES ASSUME MetadataInv, Publish PROVE MetadataInv'
  OBVIOUS
<1>1. /\ collect # Idle /\ collect' = Idle /\ UNCHANGED <<phase, statics, delimiter, runs>>
      /\ published' = [reported |-> collect.stats, metadata |-> Extended(collect.stats, collect.found)]
  BY DEF Publish, cfgVars
<1>2. phase = "running" /\ Gathered(collect.found, runs, delimiter, statics)
  BY <1>1 DEF MetadataInv
<1>3. MetadataAsConfigured'
  <2> DEFINE m == Extended(collect.stats, collect.found)
  <2>1. AsConfigured(m, collect.stats, runs, delimiter, statics)
    BY <1>2, GatheredPublished
  <2>2. published'.metadata = m /\ published'.reported = collect.stats
    BY <1>1
  <2> HIDE DEF m
  <2> QED BY <1>1, <2>1, <2>2 DEF MetadataAsConfigured, AsConfigured
<1> QED BY <1>1, <1>2, <1>3 DEF MetadataInv, IsCall, Idle

LEMMA UnchangedMetadata == MetadataInv /\ UNCHANGED vars => MetadataInv'
BY DEF MetadataInv, MetadataAsConfigured, vars, cfgVars, metaVars

-----------------------------------------------------------------------------
(* Theorems.                                                                *)

\* Configuration and metadata keep their invariants.
THEOREM SettingsInvariant == Spec => [](SettingsInv /\ MetadataInv)
<1>1. Init => SettingsInv /\ MetadataInv
  BY InitSettings, InitMetadata
<1>2. SettingsInv /\ MetadataInv /\ [Next]_vars => (SettingsInv /\ MetadataInv)'
  <2> SUFFICES ASSUME SettingsInv, MetadataInv, [Next]_vars
               PROVE  SettingsInv' /\ MetadataInv'
    OBVIOUS
  <2>1. CASE Configure
    <3>1. SettingsInv'
      BY <2>1, ReadSettings, ReadFailsSettings, ReplaceSettings, ParseSettings, ConfigfileSettings DEF Configure, CfgNext
    <3> QED BY <2>1, <3>1, ConfigureMetadata
  <2>2. CASE Setup
    BY <2>2, SetupSettings, SetupMetadata
  <2>3. CASE Begin
    <3>1. UNCHANGED cfgVars
      BY <2>3 DEF Begin
    <3> QED BY <2>3, <3>1, UnchangedSettings, BeginMetadata
  <2>4. CASE RunCommand
    <3>1. UNCHANGED cfgVars
      BY <2>4 DEF RunCommand
    <3> QED BY <2>4, <3>1, UnchangedSettings, RunCommandMetadata
  <2>5. CASE Publish
    <3>1. UNCHANGED cfgVars
      BY <2>5 DEF Publish
    <3> QED BY <2>5, <3>1, UnchangedSettings, PublishMetadata
  <2>6. CASE Stop
    <3>1. Restart /\ collect' = Idle /\ published' = None
      BY <2>6 DEF Stop
    <3> QED BY <3>1, RestartSettings, IdleMetadata
  <2>7. CASE UNCHANGED vars
    <3>1. UNCHANGED cfgVars
      BY <2>7 DEF vars
    <3> QED BY <2>7, <3>1, UnchangedSettings, UnchangedMetadata
  <2> QED BY <2>1, <2>2, <2>3, <2>4, <2>5, <2>6, <2>7 DEF Next
<1> QED BY <1>1, <1>2, PTL DEF Spec

\* Whatever the order in which the environment lists the variables, the settings are
\* those of the files with each reference replaced, once and everywhere alike, by a
\* variable whose name it starts with, for all files and environments in which no value
\* that is put in refers to a variable (Configuration::get).
THEOREM EnvironmentAlwaysApplied == Spec => []EnvironmentApplied
<1>1. SettingsInv /\ MetadataInv => EnvironmentApplied
  BY DEF SettingsInv
<1> QED BY <1>1, SettingsInvariant, PTL

\* What configfile prints gives the same settings again, the ones its template loses
\* aside, for any configuration that loads (cmd/configfile.rs).
THEOREM PrintedAlwaysKeepsSettings == Spec => []PrintedKeepsSettings
<1>1. SettingsInv /\ MetadataInv => PrintedKeepsSettings
  BY DEF SettingsInv
<1> QED BY <1>1, SettingsInvariant, PTL

\* Published metadata is what the configuration asks for, for any commands, outputs and
\* orders of the programs (metadata::get).
THEOREM MetadataAlwaysAsConfigured == Spec => []MetadataAsConfigured
<1>1. SettingsInv /\ MetadataInv => MetadataAsConfigured
  BY DEF MetadataInv
<1> QED BY <1>1, SettingsInvariant, PTL
=============================================================================
