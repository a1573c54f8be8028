------------------------------ MODULE Metadata ------------------------------
(***************************************************************************)
(* The metadata of the gateway stats (metadata.rs): static values, the     *)
(* version, and what the configured programs print, on top of what the     *)
(* packet forwarder or Concentratord reports.  The module goes on where    *)
(* Configuration has loaded the settings; the backends call metadata::get  *)
(* for each gateway stats and drop the stats when it fails.                *)
(*                                                                         *)
(* A line of output is a record: the delimiter it has, or None, and its    *)
(* name and value before and after it, which are trimmed.                  *)
(***************************************************************************)
EXTENDS Configuration

CONSTANTS
  None,
  Outcome,     \* what a run of a program may come to
  MaxLines,    \* how many lines a program prints at most
  Reported,    \* the metadata the stats may already have: names to values
  Delimiter,   \* Delimiter[text]: the delimiter the text of a setting means
  Version      \* the value of mqtt_forwarder_version

\* A program cannot be started, prints something else than text, fails, or ends
\* well after at most MaxLines lines.
ASSUME MetadataAssumption ==
  /\ MaxLines \in Nat
  /\ \A o \in Outcome :
       /\ o.end \in {"not_started", "no_text", "failed", "ok"}
       /\ o.lines \in Seq([delimiter : STRING \union {None}, name : Seq(STRING), value : Seq(WordType)])
       /\ Len(o.lines) <= MaxLines

VARIABLES
  statics,     \* METADATA, and below it COMMANDS and SPLIT_DELIMITER
  commands,
  delimiter,
  collect,     \* the call of metadata::get: Idle, or what it has so far
  runs,        \* history: what the programs of the last call came to
  published    \* the last gateway stats, or None: the metadata before and after

metaVars == <<statics, commands, delimiter, collect, runs, published>>
vars     == <<cfgVars, metaVars>>

Idle == [left |-> {}, found |-> None, stats |-> None]

VersionKey == <<"mqtt_forwarder_version">>

\* A map with the pair added.
Insert(map, key, value) ==
  [k \in DOMAIN map \union {key} |-> IF k = key THEN value ELSE map[k]]

\* extend: the pairs of the second map win.
Extended(map, more) ==
  [k \in DOMAIN map \union DOMAIN more |-> IF k \in DOMAIN more THEN more[k] ELSE map[k]]

-----------------------------------------------------------------------------

Init ==
  /\ CfgInit
  /\ statics = <<>> /\ commands = <<>> /\ delimiter = None
  /\ collect = Idle /\ runs = <<>> /\ published = None

Configure == CfgNext /\ UNCHANGED metaVars

\* The entries of a table of the configuration as a map.
Table(name) ==
  LET entries == {e \in config : e.table = name}
  IN [k \in {e.key : e \in entries} |-> (CHOOSE e \in entries : e.key = k).text]

\* metadata::setup.
Setup ==
  /\ phase = "loaded"
  /\ phase' = "running"
  /\ statics' = Table("metadata.static")
  /\ commands' = Table("metadata.commands")
  /\ delimiter' = Delimiter[Table("metadata")[<<"split_delimiter">>]]
  /\ UNCHANGED <<source, document, env, todo, config, printed, collect, runs, published>>

\* Gateway stats arrive with metadata of their own; get clones the settings.
Begin ==
  /\ phase = "running"
  /\ collect = Idle
  /\ \E stats \in Reported :
       collect' = [left |-> DOMAIN commands, found |-> Insert(statics, VersionKey, Version),
                   stats |-> stats]
  /\ runs' = <<>> /\ published' = None
  /\ UNCHANGED <<cfgVars, statics, commands, delimiter>>

\* Mutant of Names: every line without delimiter is the value of the command.
NamesAnyLine(k, lines) ==
  [i \in DOMAIN lines |-> IF lines[i].delimiter = delimiter THEN k \o lines[i].name ELSE k]

\* The name under which each line of the output of k is kept, if at all: a line
\* with the delimiter has a name of its own, a single line without is the value
\* of k, and one of several lines without is left out with a warning.
Names(k, lines) ==
  [i \in DOMAIN lines |->
     IF lines[i].delimiter = delimiter THEN k \o lines[i].name
     ELSE IF Len(lines) = 1 THEN k ELSE None]

\* The map after the lines of k, of which the last with a name wins.
WithLines(map, k, lines) ==
  LET names == Names(k, lines)
      last(n) == CHOOSE i \in DOMAIN lines : names[i] = n /\ \A j \in DOMAIN lines : names[j] = n => j <= i
      own == {names[i] : i \in DOMAIN lines} \ {None}
  IN Extended(map, [n \in own |-> lines[last(n)].value])

\* The next command, of which the map gives any: a command that is empty or whose
\* program fails is skipped, one that cannot be started or prints no text ends
\* the call, and the stats are dropped.
RunCommand ==
  /\ \E k \in collect.left :
       IF commands[k] = <<>> THEN
         /\ collect' = [collect EXCEPT !.left = @ \ {k}]
         /\ UNCHANGED runs
       ELSE \E o \in Outcome :
         /\ runs' = Insert(runs, k, o)
         /\ collect' =
              CASE o.end \in {"not_started", "no_text"} -> Idle
                [] o.end = "failed" -> [collect EXCEPT !.left = @ \ {k}]
                [] OTHER -> [collect EXCEPT !.left = @ \ {k}, !.found = WithLines(@, k, o.lines)]
  /\ UNCHANGED <<cfgVars, statics, commands, delimiter, published>>

\* stats.metadata.extend, and the stats go to the MQTT client.
Publish ==
  /\ collect # Idle
  /\ collect.left = {}
  /\ published' = [reported |-> collect.stats, metadata |-> Extended(collect.stats, collect.found)]
  /\ collect' = Idle
  /\ UNCHANGED <<cfgVars, statics, commands, delimiter, runs>>

Stop ==
  /\ Restart
  /\ statics' = <<>> /\ commands' = <<>> /\ delimiter' = None
  /\ collect' = Idle /\ runs' = <<>> /\ published' = None

Next == Configure \/ Setup \/ Begin \/ RunCommand \/ Publish \/ Stop

Spec == Init /\ [][Next]_vars

-----------------------------------------------------------------------------
(* Properties.                                                              *)

\* What the template of the configuration documents for a line of output of k, with
\* d as the delimiter.
DocumentedName(k, lines, i, d) ==
  IF lines[i].delimiter = d THEN k \o lines[i].name
  ELSE IF Len(lines) = 1 THEN k ELSE None

\* The lines the programs r printed, as pairs of a command and a position, with
\* their names and values.
PrintedLines(r) ==
  {l \in (DOMAIN r) \X (1..MaxLines) : r[l[1]].end = "ok" /\ l[2] \in DOMAIN r[l[1]].lines}

NameOf(r, d, l) == DocumentedName(l[1], r[l[1]].lines, l[2], d)

ValueOf(r, l) == r[l[1]].lines[l[2]].value

PrintedNames(r, d) == {NameOf(r, d, l) : l \in PrintedLines(r)} \ {None}

\* The metadata of published stats is what the configuration asks for, in
\* whatever order the programs ran and whatever earlier calls found: a name has a
\* value that a program of this call printed for it, or else the version, the
\* static value, or the one that came with the stats; and there are no other
\* names.  Names of two programs may be the same (metadata::get).
MetadataAsConfigured ==
  published # None =>
    LET metadata == published.metadata
        reported == published.reported
        own == PrintedNames(runs, delimiter) \union DOMAIN statics \union {VersionKey}
    IN /\ DOMAIN metadata = own \union DOMAIN reported
       /\ \A n \in DOMAIN metadata :
            IF n \in PrintedNames(runs, delimiter)
              THEN \E l \in PrintedLines(runs) :
                     NameOf(runs, delimiter, l) = n /\ ValueOf(runs, l) = metadata[n]
              ELSE metadata[n] = IF n = VersionKey THEN Version
                                 ELSE IF n \in own THEN statics[n] ELSE reported[n]
=============================================================================
