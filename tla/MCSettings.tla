----------------------------- MODULE MCSettings -----------------------------
(* An instance of Configuration and Metadata for TLC: four files that can    *)
(* be given together or not, environments with names that start with one     *)
(* another, and programs whose output may give the same name.                *)
EXTENDS Metadata, TLC

Text(x) == <<Plain(<<x>>)>>

Host     == <<"HOST">>
HostName == <<"HOST", "NAME">>
Serial   == <<"SERIAL">>
Home     == <<"HOME">>

\* References to two variables, and two commands, one of which has a name that
\* the other can come to.
Gateway ==
  {Entry("mqtt", <<"server">>, "string", <<Plain(<<"tcp">>), Ref(Host), Ref(Host)>>),
   Entry("mqtt", <<"qos">>, "number", Text("1")),
   Entry("metadata.static", <<"serial">>, "string", <<Ref(Serial)>>),
   Entry("metadata.commands", <<"net">>, "list", Text("ip")),
   Entry("metadata.commands", <<"net", "up">>, "list", Text("uptime")),
   Entry("commands", <<"reboot">>, "list", Text("reboot")),
   Entry("callbacks", <<"on_mqtt_connected">>, "list", Text("led"))}

\* Another delimiter, an empty command, a static value in the place of the version,
\* and a table the program does not know.
Site ==
  {Entry("metadata", <<"split_delimiter">>, "string", Text(":")),
   Entry("metadata.commands", <<"empty">>, "list", <<>>),
   Entry("metadata.commands", <<"net">>, "list", Text("ip")),
   Entry("metadata.static", <<"mqtt_forwarder_version">>, "string", Text("mine")),
   Entry("backend", <<"gateway_id">>, "string", <<Ref(HostName)>>),
   Entry("somewhere", <<"else">>, "string", <<Ref(Serial)>>)}

Logs == {Entry("logging", <<"level">>, "string", Text("debug"))}

\* A delimiter where the template has it, which is not where it belongs.
Misplaced == {Entry("metadata.commands", <<"split_delimiter">>, "string", Text("="))}

Files == {Gateway, Site, Logs, Misplaced}

\* Both names of which one starts the other, a variable whose value refers to
\* another, which counts if it is used, and one whose value refers to none.
Environments ==
  {Host :> Text("h") @@ HostName :> Text("n") @@ Serial :> Text("s"),
   Host :> Text("h") @@ Serial :> <<Ref(Host)>>,
   Host :> Text("h") @@ HostName :> Text("n") @@ Home :> <<Ref(Host)>>,
   HostName :> Text("n") @@ Serial :> <<Ref(Home)>>}

Delimiters == Default :> "=" @@ Text(":") :> ":"

Line(split, name, value) == [delimiter |-> split, name |-> name, value |-> Text(value)]

Up == <<"up">>

Outcomes ==
  {[end |-> e, lines |-> <<>>] : e \in {"not_started", "no_text", "failed", "ok"}}
  \union {[end |-> "ok", lines |-> ls] : ls \in
            {<<Line(None, <<>>, "plain")>>,
             <<Line("=", Up, "one")>>,
             <<Line("=", Up, "one"), Line(":", Up, "two")>>,
             <<Line("=", Up, "one"), Line(":", Up, "two"), Line("=", Up, "three")>>,
             <<Line(None, <<>>, "plain"), Line("=", <<"down">>, "four")>>}}

Metadatas ==
  {<<>>, <<"serial">> :> Text("reported") @@ <<"net", "down">> :> Text("reported")
         @@ <<"model">> :> Text("reported")}

TheVersion == Text("4.7")
=============================================================================
