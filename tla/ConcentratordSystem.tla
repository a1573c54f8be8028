------------------------- MODULE ConcentratordSystem -------------------------
(***************************************************************************)
(* The Concentratord backend in the running program: the messages the MQTT *)
(* client receives, each handled by a task of its own (mqtt.rs,            *)
(* message_callback), the command path they share, the event loop that     *)
(* forwards what Concentratord publishes (concentratord.rs, event_loop),   *)
(* the programs of exec commands, and the publish channel all of them feed.*)
(*                                                                         *)
(* The tasks share the worker threads of the runtime.  send_command blocks *)
(* its thread: in the mutex, the poll, and the sleep between attempts to   *)
(* replace the socket.  A thread in a command runs nothing else.  Reading  *)
(* an event blocks too, but a thread of the blocking pool.                 *)
(***************************************************************************)
EXTENDS ConcentratordCmd, Sequences

CONSTANTS
  Message,             \* Message[c]: the MQTT message c
  Published,           \* the events of Concentratord, in order
  Traffic,             \* which of them, and which messages, come: the choices
  ForwardCrc,          \* the CRC statuses to forward
  PublishChannelSize   \* capacity of PUB_CHANNEL

\* The last level of the topic, how the message is made, and for an exec
\* command whether its program can be started.
MessageForm ==
  [command  : {"down", "config", "mesh", "exec", "unexpected"},
   form     : {"good", "short_topic", "undecodable", "other_gateway"},
   starts   : BOOLEAN]

\* An event as it leaves Concentratord; crc and matches are read for uplinks,
\* crc may be "none" for want of rx_info.
EventForm ==
  [kind : {"uplink", "stats", "mesh", "empty", "undecodable"},
   crc : {"ok", "bad", "missing", "none"}, matches : BOOLEAN]

ASSUME ConcentratordSystemAssumption ==
  /\ Message \in [Command -> MessageForm]
  /\ Published \in Seq(EventForm)
  /\ Traffic \subseteq [messages : SUBSET Command, missed : 0 .. Len(Published)]
  /\ ForwardCrc \subseteq {"ok", "bad", "missing"}
  /\ PublishChannelSize \in Nat \ {0}

VARIABLES
  message,      \* message[c]: how far the task of message c is
  served,       \* history: the commands Concentratord has served
  published,    \* how many events Concentratord has published
  inbox,        \* the numbers of the events in the SUB socket
  loop,         \* the event loop: what it does, and with which event
  channelOpen,  \* the MQTT client has created PUB_CHANNEL
  queued,       \* history: what was put in PUB_CHANNEL, in order
  waiting,      \* how many of the last of queued are still in it
  refused       \* history: what try_send refused

busVars == <<message, served, published, inbox, loop, channelOpen, queued, waiting, refused>>
vars == <<cmdVars, busVars>>

EventNr == 1 .. Len(Published)

Ack(c, d)  == [kind |-> "ack", of |-> c, answer |-> d]
Exec(c, r) == [kind |-> "exec", of |-> c, answer |-> r]
Event(n)   == [kind |-> "event", of |-> n]

Output == {Ack(c, d) : c \in Command, d \in Command}
          \union {Exec(c, r) : c \in Command, r \in {"output", "error"}}
          \union {Event(n) : n \in EventNr}

ReadsEvents == [at |-> "read"]
Holds(n)    == [at |-> "handle", event |-> n]
Collects(n) == [at |-> "metadata", event |-> n]

Init ==
  /\ CmdInit
  /\ \E traffic \in Traffic :
       /\ message = [c \in Command |-> IF c \in traffic.messages THEN "none" ELSE "never"]
       /\ published = traffic.missed      \* before the backend subscribed
  /\ served = {}
  /\ inbox = <<>>
  /\ loop = ReadsEvents
  /\ channelOpen = FALSE
  /\ queued = <<>>
  /\ waiting = 0
  /\ refused = {}

\* A worker thread that is not blocked in a command.
FreeThread == \E t \in Task : step[t] = "idle"

\* try_send: an error unless the channel exists and has room.
TrySend(e) ==
  /\ IF channelOpen /\ waiting < PublishChannelSize
       THEN /\ queued' = Append(queued, e)
            /\ waiting' = waiting + 1
            /\ UNCHANGED refused
       ELSE refused' = refused \union {e} /\ UNCHANGED <<queued, waiting>>
  /\ UNCHANGED channelOpen

ChannelUnchanged == UNCHANGED <<channelOpen, queued, waiting, refused>>

-----------------------------------------------------------------------------
(* message_callback: a task for every message, so in any order.             *)

\* The topic has enough levels and a command that is known, the payload can be
\* decoded, and names the gateway of the topic.
Accepted(c) == Message[c].form = "good" /\ Message[c].command # "unexpected"

ForConcentratord(c) == Accepted(c) /\ Message[c].command \in {"down", "config", "mesh"}

Reject(c) ==
  /\ FreeThread
  /\ message[c] = "none"
  /\ ~Accepted(c)
  /\ message' = [message EXCEPT ![c] = "done"]
  /\ ChannelUnchanged
  /\ UNCHANGED <<cmdVars, served, published, inbox, loop>>

\* send_downlink_frame, send_configuration_command and send_mesh_command.
SendToConcentratord(t, c) ==
  /\ message[c] = "none"
  /\ ForConcentratord(c)
  /\ Call(t, c)
  /\ message' = [message EXCEPT ![c] = "sent"]
  /\ ChannelUnchanged
  /\ UNCHANGED <<served, published, inbox, loop>>

\* Mutant of FinishCommand: an ack although send_command gave up.
FinishCommandRegardless(c) ==
  /\ FreeThread
  /\ message[c] = "sent"
  /\ outcome[c] \in {"ok", "error"}
  /\ message' = [message EXCEPT ![c] = "done"]
  /\ IF Message[c].command = "down" THEN TrySend(Ack(c, c)) ELSE ChannelUnchanged
  /\ UNCHANGED <<cmdVars, served, published, inbox, loop>>

\* send_command has returned.  The reply to a downlink is decoded, which may
\* fail, and sent on; other replies and errors end the task.
FinishCommand(c) ==
  /\ FreeThread
  /\ message[c] = "sent"
  /\ outcome[c] \in {"ok", "error"}
  /\ message' = [message EXCEPT ![c] = "done"]
  /\ \/ /\ Message[c].command = "down" /\ outcome[c] = "ok"
        /\ TrySend(Ack(c, reply[c]))
     \/ ChannelUnchanged
  /\ UNCHANGED <<cmdVars, served, published, inbox, loop>>

-----------------------------------------------------------------------------
(* commands::exec and handle_command_exec.                                  *)

\* A command that is not configured, has no arguments, or does not start, is
\* answered with the error at once.
StartProgram(c) ==
  /\ FreeThread
  /\ message[c] = "none"
  /\ Accepted(c) /\ Message[c].command = "exec"
  /\ IF Message[c].starts
       THEN message' = [message EXCEPT ![c] = "running"] /\ ChannelUnchanged
       ELSE message' = [message EXCEPT ![c] = "done"] /\ TrySend(Exec(c, "error"))
  /\ UNCHANGED <<cmdVars, served, published, inbox, loop>>

\* The program ends, after however long.
ProgramEnds(c) ==
  /\ message[c] = "running"
  /\ message' = [message EXCEPT ![c] = "ended"]
  /\ ChannelUnchanged
  /\ UNCHANGED <<cmdVars, served, published, inbox, loop>>

\* wait_with_output returns the output, or an error.
AnswerExec(c) ==
  /\ FreeThread
  /\ message[c] = "ended"
  /\ message' = [message EXCEPT ![c] = "done"]
  /\ \E r \in {"output", "error"} : TrySend(Exec(c, r))
  /\ UNCHANGED <<cmdVars, served, published, inbox, loop>>

-----------------------------------------------------------------------------
(* The event loop.                                                          *)

\* A SUB socket misses what is published while its queue is full.
PublishEvent ==
  /\ published < Len(Published)
  /\ published' = published + 1
  /\ inbox' \in {inbox, Append(inbox, published')}
  /\ ChannelUnchanged
  /\ UNCHANGED <<cmdVars, message, served, loop>>

\* Read in the blocking pool.  An event that cannot be decoded is an error of
\* the read; the loop goes on.
ReadEvent ==
  /\ loop = ReadsEvents
  /\ inbox # <<>>
  /\ inbox' = Tail(inbox)
  /\ loop' = IF Published[Head(inbox)].kind = "undecodable"
               THEN ReadsEvents ELSE Holds(Head(inbox))
  /\ ChannelUnchanged
  /\ UNCHANGED <<cmdVars, message, served, published>>

\* The crc_status of the rx_info, if there is one, and the lrwn filters.
Forwards(e) == (e.crc = "none" \/ e.crc \in ForwardCrc) /\ e.matches

\* handle_event_msg: an uplink that passes the filters and a mesh event are sent
\* on, an empty event is ignored; for stats the metadata is collected first.
HandleEvent ==
  /\ FreeThread
  /\ loop.at = "handle"
  /\ LET n == loop.event
         e == Published[n]
     IN IF e.kind = "stats"
          THEN loop' = Collects(n) /\ ChannelUnchanged
          ELSE /\ loop' = ReadsEvents
               /\ IF e.kind = "mesh" \/ (e.kind = "uplink" /\ Forwards(e))
                    THEN TrySend(Event(n)) ELSE ChannelUnchanged
  /\ UNCHANGED <<cmdVars, message, served, published, inbox>>

\* Mutant of SendStats: stats whose metadata failed are handled again later.
SendStatsOrRequeue ==
  /\ FreeThread
  /\ loop.at = "metadata"
  /\ loop' = ReadsEvents
  /\ \/ TrySend(Event(loop.event)) /\ UNCHANGED inbox
     \/ ChannelUnchanged /\ inbox' = Append(inbox, loop.event)
  /\ UNCHANGED <<cmdVars, message, served, published>>

\* metadata::get has returned, with an error perhaps, which drops the stats.
SendStats ==
  /\ FreeThread
  /\ loop.at = "metadata"
  /\ loop' = ReadsEvents
  /\ TrySend(Event(loop.event)) \/ ChannelUnchanged
  /\ UNCHANGED <<cmdVars, message, served, published, inbox>>

-----------------------------------------------------------------------------
(* The MQTT client's end of the channel.                                    *)

OpenChannel ==
  /\ ~channelOpen
  /\ FreeThread
  /\ channelOpen' = TRUE
  /\ UNCHANGED <<cmdVars, message, served, published, inbox, loop, queued, waiting, refused>>

TakeOutput ==
  /\ FreeThread
  /\ waiting > 0
  /\ waiting' = waiting - 1
  /\ UNCHANGED <<cmdVars, message, served, published, inbox, loop, channelOpen, queued, refused>>

-----------------------------------------------------------------------------
\* A step of a command that its thread takes.
ThreadStep(t) == (TaskStep(t) \/ ReconnectFails(t)) /\ UNCHANGED busVars

\* Concentratord serves a request.
ConcentratordServes(p) ==
  /\ Serve(p)
  /\ served' = served \union {p.command}
  /\ ChannelUnchanged
  /\ UNCHANGED <<message, published, inbox, loop>>

MessageTask(c) == Reject(c) \/ StartProgram(c) \/ FinishCommand(c) \/ AnswerExec(c)

EventLoop == HandleEvent \/ SendStats

Next ==
  \/ \E c \in Command : MessageTask(c) \/ ProgramEnds(c)
  \/ \E t \in Task, c \in Command : SendToConcentratord(t, c)
  \/ \E t \in Task : ThreadStep(t)
  \/ \E p \in inFlight : ConcentratordServes(p)
  \/ PublishEvent
  \/ ReadEvent
  \/ EventLoop
  \/ OpenChannel
  \/ TakeOutput

Spec == Init /\ [][Next]_vars

(***************************************************************************)
(* Fairness.  A task that waits for the mutex gets it some day, a poll     *)
(* ends after 100 ms, and sockets cannot fail for ever.  The runtime polls *)
(* every task that is ready on a free thread: strong fairness, for the     *)
(* free thread may come and go.  A program of the metadata ends.  Nothing  *)
(* is assumed about messages, about the programs of exec commands, or      *)
(* about Concentratord.                                                    *)
(***************************************************************************)
Fairness ==
  /\ \A t \in Task : SF_vars(TaskStep(t) /\ UNCHANGED busVars)
  /\ SF_vars(\E c \in Command : AnswerExec(c))
  /\ WF_vars(ReadEvent)
  /\ SF_vars(EventLoop)

FairSpec == Spec /\ Fairness

-----------------------------------------------------------------------------
(* Properties.                                                              *)

\* Every variable holds a value of its type.
TypeOK ==
  /\ CmdTypeOK
  /\ message \in [Command -> {"never", "none", "sent", "running", "ended", "done"}]
  /\ served \subseteq Command
  /\ published \in 0 .. Len(Published)
  /\ inbox \in Seq(EventNr)
  /\ loop \in {ReadsEvents} \union {Holds(n) : n \in EventNr} \union {Collects(n) : n \in EventNr}
  /\ channelOpen \in BOOLEAN
  /\ queued \in Seq(Output)
  /\ waiting \in 0 .. PublishChannelSize
  /\ refused \subseteq Output

\* An ack for a downlink is Concentratord's answer to that very downlink, which
\* it has served: a command given up, answered late or refused by the socket
\* never makes the server believe in a transmission.
AcksTruthful ==
  \A i \in DOMAIN queued : queued[i].kind = "ack" =>
    /\ queued[i].answer = queued[i].of
    /\ queued[i].of \in served
    /\ outcome[queued[i].of] = "ok"

\* The events of Concentratord are queued in the order it published them, none
\* twice, also when collecting the metadata for one takes long or fails.
EventsInOrder ==
  \A i, j \in DOMAIN queued :
    (i < j /\ queued[i].kind = "event" /\ queued[j].kind = "event")
      => queued[i].of < queued[j].of

\* Blocking the threads of the runtime is never for good, and no bad event ends
\* the loop: however the commands wait for each other, fail and replace the socket
\* while Concentratord answers none of them, each comes to an end, every event that
\* reached the SUB socket is handled, and every program that ended is answered.
WorkEnds ==
  []<>(/\ \A c \in Command : outcome[c] # "called" /\ message[c] # "ended"
       /\ inbox = <<>> /\ loop = ReadsEvents)
=============================================================================
