---------------------------- MODULE Configuration ----------------------------
(***************************************************************************)
(* The configuration: reading the files, replacing the environment         *)
(* variables, parsing the TOML document into settings with defaults        *)
(* (config.rs), and printing settings as a file again (cmd/configfile.rs). *)
(*                                                                         *)
(* A document is a set of entries, each in its table; the files end with a *)
(* newline.  The text of a value is a sequence of words, the name of a key *)
(* or of a variable a sequence of syllables, because what matters of names *)
(* is that one can start with another, or be put together from two.        *)
(***************************************************************************)
EXTENDS Integers, SequencesExt

CONSTANTS
  File,          \* the files there may be: sets of entries
  MaxFiles,      \* how many --config arguments there may be
  Environment    \* the environments there may be: variable names to texts

VARIABLES
  phase,      \* what main does: reading, replacing, loaded, running, printed, failed
  source,     \* history: the document before anything was replaced
  document,   \* the content that was read
  env,        \* the environment
  todo,       \* the variables still to be replaced
  config,     \* the Configuration: values of the settings
  printed     \* the document "configfile" printed

cfgVars == <<phase, source, document, env, todo, config, printed>>

\* A word is plain or a reference: a dollar sign and a name.
Plain(name) == [ref |-> FALSE, name |-> name]
Ref(name)   == [ref |-> TRUE, name |-> name]

Entry(table, key, type, text) == [table |-> table, key |-> key, type |-> type, text |-> text]

WordType  == [ref : BOOLEAN, name : Seq(STRING)]
EntryType == [table : STRING, key : Seq(STRING), type : STRING, text : Seq(WordType)]

\* What a file and an environment are made of.
ASSUME ConfigurationAssumption ==
  /\ MaxFiles \in Nat
  /\ File \subseteq SUBSET EntryType
  /\ \A e \in Environment :
       DOMAIN e \subseteq Seq(STRING) /\ \A n \in DOMAIN e : e[n] \in Seq(WordType)

-----------------------------------------------------------------------------
(* The settings.                                                            *)

\* The keys of each table and what serde expects of their values.
Schema ==
  [t \in {"logging", "mqtt", "backend", "backend.filters", "backend.concentratord",
          "backend.semtech_udp", "metadata", "callbacks"} |->
     CASE t = "logging" -> {<<"level", "string">>, <<"log_to_syslog", "bool">>}
       [] t = "mqtt" ->
            {<<k, "string">> : k \in {"topic_prefix", "server", "username", "password",
                                      "client_id", "ca_cert", "tls_cert", "tls_key"}}
            \union {<<k, "bool">> : k \in {"json", "clean_session"}}
            \union {<<k, "number">> : k \in {"qos", "publish_channel_size"}}
            \union {<<k, "duration">> : k \in {"keep_alive_interval", "reconnect_interval"}}
       [] t = "backend" -> {<<"enabled", "string">>, <<"gateway_id", "string">>}
       [] t = "backend.filters" ->
            {<<k, "bool">> : k \in {"forward_crc_ok", "forward_crc_invalid",
                                    "forward_crc_missing", "lorawan_only"}}
            \union {<<"dev_addr_prefixes", "list">>, <<"join_eui_prefixes", "list">>}
       [] t = "backend.concentratord" -> {<<"event_url", "string">>, <<"command_url", "string">>}
       [] t = "backend.semtech_udp" -> {<<"bind", "string">>, <<"time_fallback_enabled", "bool">>}
       [] t = "metadata" -> {<<"split_delimiter", "string">>}
       [] OTHER -> {<<"on_mqtt_connected", "list">>, <<"on_mqtt_connection_error", "list">>}]

Setting ==
  UNION {{[table |-> t, key |-> <<p[1]>>, type |-> p[2]] : p \in Schema[t]} : t \in DOMAIN Schema}

\* Tables with keys of the user's choice, and what their values are.
MapTable == {<<"metadata.static", "string">>, <<"metadata.commands", "list">>, <<"commands", "list">>}

Default == <<Plain(<<"default">>)>>

\* A duration is a string that is not empty; "nothing" is no value at all.
Fits(e, type) == IF type = "duration" THEN e.type = "string" /\ e.text # <<>> ELSE e.type = type

Expected(e) ==
  {s.type : s \in {s \in Setting : s.table = e.table /\ s.key = e.key}}
  \union {m[2] : m \in {m \in MapTable : m[1] = e.table}}

\* toml::from_str succeeds: every entry has a value, and one of the expected
\* type if the key is known.  (That no key comes twice is a matter of Read.)
Loads(doc) == \A e \in doc : e.type # "nothing" /\ \A type \in Expected(e) : Fits(e, type)

\* The settings of a document: entries that nothing expects are ignored, settings
\* without an entry have their default.
Loaded(doc) ==
  {e \in doc : Expected(e) # {}}
  \union {Entry(s.table, s.key, IF s.type = "duration" THEN "string" ELSE s.type, Default) :
            s \in {s \in Setting : ~ \E e \in doc : e.table = s.table /\ e.key = s.key}}

-----------------------------------------------------------------------------
(* Configuration::get.                                                      *)

\* A reference that starts with the name of a variable becomes its value and
\* whatever is left of the name.
Inserted(w, name, value) ==
  value \o IF w.name = name THEN <<>> ELSE <<Plain(SubSeq(w.name, Len(name) + 1, Len(w.name)))>>

\* Mutant of Replaced: the rest of the name is lost.
ReplacedWhole(text, name, value) ==
  FlattenSeq([i \in DOMAIN text |->
    IF text[i].ref /\ IsPrefix(name, text[i].name) THEN value ELSE <<text[i]>>])

\* Mutant of Replaced: only the first of several references.
ReplacedOnce(text, name, value) ==
  LET hits == {i \in DOMAIN text : text[i].ref /\ text[i].name = name}
  IN IF hits = {} THEN text ELSE ReplaceAt(text, CHOOSE i \in hits : \A j \in hits : i <= j, value[1])

\* content.replace: every reference that starts with the name.  (The code does so
\* in the whole content, keys, table names and comments included; here only
\* values refer to variables, and a value with a dollar sign at its end does not
\* make a reference of the word that follows.)
Replaced(text, name, value) ==
  FlattenSeq([i \in DOMAIN text |->
    IF text[i].ref /\ IsPrefix(name, text[i].name) THEN Inserted(text[i], name, value)
    ELSE <<text[i]>>])

CfgInit ==
  /\ phase = "reading" /\ source = {} /\ document = {} /\ env = <<>>
  /\ todo = {} /\ config = {} /\ printed = {}

\* The process starts: the files one after the other, or none.  A key or a table
\* header that comes twice does not parse; that ends the process, as main expects
\* it.
Read ==
  /\ phase = "reading"
  /\ \E n \in 0..MaxFiles : \E files \in [1..n -> File] :
       LET doc == UNION {files[i] : i \in 1..n}
           twice == \E i, j \in 1..n : i # j /\ \E e \in files[i], f \in files[j] : e.table = f.table
       IN /\ source' = doc /\ document' = doc
          /\ phase' = IF twice THEN "failed" ELSE "replacing"
  /\ env' \in Environment
  /\ todo' = DOMAIN env'
  /\ UNCHANGED <<config, printed>>

\* One of the files cannot be read; main expects that too.
ReadFails ==
  /\ phase = "reading" /\ MaxFiles > 0
  /\ phase' = "failed"
  /\ UNCHANGED <<source, document, env, todo, config, printed>>

\* One round of the loop over the variables, which come in any order.
Replace ==
  /\ phase = "replacing"
  /\ \E name \in todo :
       /\ document' = {[e EXCEPT !.text = Replaced(@, name, env[name])] : e \in document}
       /\ todo' = todo \ {name}
  /\ UNCHANGED <<phase, source, env, config, printed>>

Parse ==
  /\ phase = "replacing"
  /\ todo = {}
  /\ IF Loads(document) THEN config' = Loaded(document) /\ phase' = "loaded"
                        ELSE phase' = "failed" /\ UNCHANGED config
  /\ UNCHANGED <<source, document, env, todo, printed>>

-----------------------------------------------------------------------------
(* configfile.                                                              *)

\* Mutant of PrintedTable: the header of the last table of commands is missing.
PrintedTableUnheaded(e) ==
  IF e.table \in {"metadata", "commands"} THEN "metadata.commands" ELSE e.table

\* The table an entry is printed in: the template has split_delimiter below the
\* header of metadata.commands.
PrintedTable(e) == IF e.table = "metadata" THEN "metadata.commands" ELSE e.table

IsAt(e, table, key) == e.table = table /\ e.key = <<key>>

\* The template takes two settings of MQTT from a path that does not exist,
\* which gives nothing, and has no place for the callbacks.
PrintedEntry(e) ==
  IF IsAt(e, "mqtt", "reconnect_interval") THEN [e EXCEPT !.text = <<>>]
  ELSE IF IsAt(e, "mqtt", "publish_channel_size") THEN [e EXCEPT !.type = "nothing", !.text = <<>>]
  ELSE IF e.table = "callbacks" THEN [e EXCEPT !.text = <<>>]
  ELSE [e EXCEPT !.table = PrintedTable(e)]

\* The template has no backend.gateway_id.
Printable(e) == ~IsAt(e, "backend", "gateway_id")

Configfile ==
  /\ phase = "loaded"
  /\ printed' = {PrintedEntry(e) : e \in {e \in config : Printable(e)}}
  /\ phase' = "printed"
  /\ UNCHANGED <<source, document, env, todo, config>>

\* The process has ended, or is stopped while it runs, and is started again.
Restart ==
  /\ phase \in {"failed", "printed", "running"}
  /\ phase' = "reading" /\ source' = {} /\ document' = {} /\ env' = <<>>
  /\ todo' = {} /\ config' = {} /\ printed' = {}

CfgNext == Read \/ ReadFails \/ Replace \/ Parse \/ Configfile

-----------------------------------------------------------------------------
(* Properties.                                                              *)

\* The variables a word may mean: those whose name the reference starts with.
Starts(w, names) == IF w.ref THEN {n \in names : IsPrefix(n, w.name)} ELSE {}

Words(doc) == UNION {{e.text[i] : i \in DOMAIN e.text} : e \in doc}

Meaningful(doc, names) == {w \in Words(doc) : Starts(w, names) # {}}

\* The ways to give each reference of a document that may mean a variable one.
Meanings(doc, names) ==
  {m \in [Meaningful(doc, names) -> names] : \A w \in DOMAIN m : m[w] \in Starts(w, names)}

\* A text with each reference replaced, once, by what it means.
Expanded(text, meant, e) ==
  FlattenSeq([i \in DOMAIN text |->
    IF text[i] \in DOMAIN meant THEN Inserted(text[i], meant[text[i]], e[meant[text[i]]])
    ELSE <<text[i]>>])

\* No variable that a reference of the document may mean has a value that refers
\* to a variable in its turn.
Settled(doc, e) ==
  \A w \in Words(doc) : \A n \in Starts(w, DOMAIN e) :
    \A i \in DOMAIN e[n] : Starts(e[n][i], DOMAIN e) = {}

\* Whatever the order in which the environment lists its variables, every
\* reference becomes, wherever it stands, the value of one variable whose name it
\* starts with, and what is left of its name: if it starts with one name only, the
\* settings do not depend on the order.  No reference to a variable is left, and
\* nothing is replaced twice, provided that no value that is put in refers to a
\* variable in its turn (Configuration::get).
EnvironmentApplied ==
  phase = "loaded" /\ Settled(source, env) =>
    \E meant \in Meanings(source, DOMAIN env) :
      config = Loaded({[e EXCEPT !.text = Expanded(@, meant, env)] : e \in source})

\* The settings the template loses: two of MQTT, the delimiter, the gateway id and
\* the callbacks.
Lost(e) ==
  \/ e.table \in {"metadata", "callbacks"}
  \/ e.table = "metadata.commands" /\ e.type = "string"
  \/ IsAt(e, "mqtt", "reconnect_interval")
  \/ IsAt(e, "mqtt", "publish_channel_size")
  \/ IsAt(e, "backend", "gateway_id")

\* What configfile prints gives the same settings when it is read, the ones
\* that its template loses aside (cmd/configfile.rs).
PrintedKeepsSettings ==
  phase = "printed" =>
    LET kept == {e \in printed : ~Lost(e)}
    IN Loads(kept) /\ {e \in Loaded(kept) : ~Lost(e)} = {e \in config : ~Lost(e)}

\* "Print the configuration template" (main.rs): what configfile prints is a
\* configuration file that the program accepts.
TemplateLoads == phase = "printed" => Loads(printed)
=============================================================================
