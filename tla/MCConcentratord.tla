--------------------------- MODULE MCConcentratord ---------------------------
(* An instance of the Concentratord backend for TLC.                        *)
EXTENDS ConcentratordSystem

Good(kind) == [command |-> kind, form |-> "good", starts |-> TRUE]

Messages ==
  [c \in Command |->
     CASE c = "down_1" -> Good("down")
       [] c = "down_2" -> Good("down")
       [] c = "config" -> Good("config")
       [] c = "exec"   -> Good("exec")
       [] c = "absent" -> [Good("exec") EXCEPT !.starts = FALSE]
       [] c = "stray"  -> [Good("down") EXCEPT !.form = "other_gateway"]]

Uplink(crc, matches) == [kind |-> "uplink", crc |-> crc, matches |-> matches]
Other(kind) == [kind |-> kind, crc |-> "none", matches |-> FALSE]

Events == <<Other("mesh"), Other("empty"), Uplink("bad", TRUE), Uplink("ok", FALSE),
            Other("undecodable"), Other("stats"), Uplink("none", TRUE)>>

\* Commands that compete for the socket; commands that block every thread while
\* a program or the event loop wants one; every kind of message and event.
Mixes ==
  {[messages |-> {"down_1", "down_2", "config"}, missed |-> 7],
   [messages |-> {"down_1", "config", "exec"}, missed |-> 7],
   [messages |-> {"down_1", "down_2", "exec"}, missed |-> 5],
   [messages |-> {"absent", "stray"}, missed |-> 0]}
=============================================================================
