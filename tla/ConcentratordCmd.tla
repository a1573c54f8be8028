-------------------------- MODULE ConcentratordCmd --------------------------
(***************************************************************************)
(* The command path of the Concentratord backend (backend/concentratord.rs,*)
(* send_command): the tasks the MQTT client spawns for commands share one  *)
(* ZeroMQ REQ socket behind a mutex.  A command holds the mutex while it   *)
(* sends and waits at most 100 ms for its reply; after an error it releases*)
(* the mutex and takes it again to replace the socket.                     *)
(*                                                                         *)
(* ZeroMQ and Concentratord are external.  A REQ socket refuses to send    *)
(* while it awaits a reply.  A request that was sent may be served however *)
(* late, also after its socket was replaced (closing lingers); its reply   *)
(* then finds nobody.                                                      *)
(***************************************************************************)
EXTENDS Naturals, FiniteSets

CONSTANTS
  Task,           \* tasks that may run a command at the same time
  NoTask,
  Command,        \* the commands the server sends
  None,           \* no command
  SocketFailures  \* bound: how often a new socket cannot be created or connected

ASSUME ConcentratordCmdAssumption ==
  /\ NoTask \notin Task
  /\ None \notin Command
  /\ SocketFailures \in Nat

VARIABLES
  holder,     \* who holds the mutex around the socket
  socket,     \* the current socket, by number
  awaiting,   \* it has sent a request and not yet received the reply
  step,       \* step[t]: where task t is in send_command
  command,    \* command[t]: the command t runs, or None
  inFlight,   \* requests sent and not yet served
  replies,    \* replies not yet received
  outcome,    \* history: outcome[c] of each command
  reply,      \* history: reply[c], the command whose reply c was given
  failures    \* socket failures so far

cmdVars == <<holder, socket, awaiting, step, command, inFlight, replies, outcome, reply, failures>>

Packet == [socket : Nat, command : Command]

CmdInit ==
  /\ holder = NoTask
  /\ socket = 0
  /\ awaiting = FALSE
  /\ step = [t \in Task |-> "idle"]
  /\ command = [t \in Task |-> None]
  /\ inFlight = {}
  /\ replies = {}
  /\ outcome = [c \in Command |-> "none"]
  /\ reply = [c \in Command |-> None]
  /\ failures = 0

\* A command arrives; send_command wants the mutex.
Call(t, c) ==
  /\ step[t] = "idle"
  /\ outcome[c] = "none"
  /\ outcome' = [outcome EXCEPT ![c] = "called"]
  /\ command' = [command EXCEPT ![t] = c]
  /\ step' = [step EXCEPT ![t] = "lock"]
  /\ UNCHANGED <<holder, socket, awaiting, inFlight, replies, reply, failures>>

\* With the mutex: the request is sent.
Send(t) ==
  /\ step[t] = "lock"
  /\ holder = NoTask
  /\ ~awaiting
  /\ holder' = t
  /\ awaiting' = TRUE
  /\ inFlight' = inFlight \union {[socket |-> socket, command |-> command[t]]}
  /\ step' = [step EXCEPT ![t] = "wait"]
  /\ UNCHANGED <<socket, command, replies, outcome, reply, failures>>

\* With the mutex, the socket still awaiting a reply that another command gave
\* up on: sending is an error, and the mutex is released again.
SendRefused(t) ==
  /\ step[t] = "lock"
  /\ holder = NoTask
  /\ awaiting
  /\ step' = [step EXCEPT ![t] = "reconnect"]
  /\ UNCHANGED <<holder, socket, awaiting, command, inFlight, replies, outcome, reply, failures>>

Receive(t) ==
  /\ step[t] = "wait"
  /\ \E p \in replies : /\ p.socket = socket
                        /\ replies' = replies \ {p}
                        /\ reply' = [reply EXCEPT ![command[t]] = p.command]
  /\ outcome' = [outcome EXCEPT ![command[t]] = "ok"]
  /\ awaiting' = FALSE
  /\ holder' = NoTask
  /\ step' = [step EXCEPT ![t] = "idle"]
  /\ command' = [command EXCEPT ![t] = None]
  /\ UNCHANGED <<socket, inFlight, failures>>

\* Mutant of Timeout: the error is returned without replacing the socket.
TimeoutGivesUp(t) ==
  /\ step[t] = "wait"
  /\ holder' = NoTask
  /\ outcome' = [outcome EXCEPT ![command[t]] = "error"]
  /\ step' = [step EXCEPT ![t] = "idle"]
  /\ command' = [command EXCEPT ![t] = None]
  /\ UNCHANGED <<socket, awaiting, inFlight, replies, reply, failures>>

\* Mutant of Timeout: the mutex is still held when it is taken again.
TimeoutHolding(t) ==
  /\ step[t] = "wait"
  /\ step' = [step EXCEPT ![t] = "reconnect"]
  /\ UNCHANGED <<holder, socket, awaiting, command, inFlight, replies, outcome, reply, failures>>

\* The poll ended without a reply, or a signal interrupted it, reply or not: an
\* error, and the mutex is released.
Timeout(t) ==
  /\ step[t] = "wait"
  /\ holder' = NoTask
  /\ step' = [step EXCEPT ![t] = "reconnect"]
  /\ UNCHANGED <<socket, awaiting, command, inFlight, replies, outcome, reply, failures>>

\* Mutant of Reconnect: the old socket is used on.
ReconnectSame(t) ==
  /\ step[t] = "reconnect"
  /\ holder = NoTask
  /\ awaiting' = FALSE
  /\ outcome' = [outcome EXCEPT ![command[t]] = "error"]
  /\ step' = [step EXCEPT ![t] = "idle"]
  /\ command' = [command EXCEPT ![t] = None]
  /\ UNCHANGED <<holder, socket, inFlight, replies, reply, failures>>

\* Mutant of Reconnect: the socket is replaced without the mutex.
ReconnectUnlocked(t) ==
  /\ step[t] = "reconnect"
  /\ socket' = socket + 1
  /\ awaiting' = FALSE
  /\ outcome' = [outcome EXCEPT ![command[t]] = "error"]
  /\ step' = [step EXCEPT ![t] = "idle"]
  /\ command' = [command EXCEPT ![t] = None]
  /\ UNCHANGED <<holder, inFlight, replies, reply, failures>>

\* Mutant of Reconnect: it tries again, with the command gone.
ReconnectRetrying(t) ==
  /\ step[t] = "reconnect"
  /\ holder = NoTask
  /\ socket' = socket + 1
  /\ awaiting' = FALSE
  /\ step' = [step EXCEPT ![t] = "lock"]
  /\ command' = [command EXCEPT ![t] = None]
  /\ UNCHANGED <<holder, inFlight, replies, outcome, reply, failures>>

\* reconnect_cmd_sock: the mutex again, and a fresh socket in place of the old.
Reconnect(t) ==
  /\ step[t] = "reconnect"
  /\ holder = NoTask
  /\ socket' = socket + 1
  /\ awaiting' = FALSE
  /\ outcome' = [outcome EXCEPT ![command[t]] = "error"]
  /\ step' = [step EXCEPT ![t] = "idle"]
  /\ command' = [command EXCEPT ![t] = None]
  /\ UNCHANGED <<holder, inFlight, replies, reply, failures>>

\* The socket cannot be created: the old one stays, and the loop tries again.
\* (Connecting it does not fail: its address was accepted at setup.)
ReconnectFails(t) ==
  /\ step[t] = "reconnect"
  /\ holder = NoTask
  /\ failures < SocketFailures
  /\ failures' = failures + 1
  /\ UNCHANGED <<holder, socket, awaiting, step, command, inFlight, replies, outcome, reply>>

\* Concentratord serves a request.  A reply to a replaced socket is dropped.
Serve(p) ==
  /\ p \in inFlight
  /\ inFlight' = inFlight \ {p}
  /\ replies' = IF p.socket = socket THEN replies \union {p} ELSE replies
  /\ UNCHANGED <<holder, socket, awaiting, step, command, outcome, reply, failures>>

TaskStep(t) == Send(t) \/ SendRefused(t) \/ Receive(t) \/ Timeout(t) \/ Reconnect(t)

CmdNext ==
  \/ \E t \in Task, c \in Command : Call(t, c)
  \/ \E t \in Task : TaskStep(t) \/ ReconnectFails(t)
  \/ \E p \in inFlight : Serve(p)

CmdSpec == CmdInit /\ [][CmdNext]_cmdVars


-----------------------------------------------------------------------------
(* Properties.                                                              *)

\* Every variable holds a value of its type.
CmdTypeOK ==
  /\ holder \in Task \union {NoTask}
  /\ socket \in Nat
  /\ awaiting \in BOOLEAN
  /\ step \in [Task -> {"idle", "lock", "wait", "reconnect"}]
  /\ command \in [Task -> Command \union {None}]
  /\ inFlight \subseteq Packet
  /\ replies \subseteq Packet
  /\ outcome \in [Command -> {"none", "called", "ok", "error"}]
  /\ reply \in [Command -> Command \union {None}]
  /\ failures \in 0 .. SocketFailures

\* A command that succeeds was given the reply to its own request, never the
\* late reply to one that timed out: the ack published for a downlink is its own.
ReplyMatches == \A c \in Command : outcome[c] = "ok" => reply[c] = c

\* When no command is under way the socket can send: whatever the tasks did to
\* it between their two critical sections, and however many replaced it, no
\* error leaves it dirty for the next command.
IdleSocketReady == (\A t \in Task : step[t] = "idle") => ~awaiting

\* Replacing the socket never takes it away from a command that waits on it.
NeverReplacedInUse ==
  [][socket' # socket => \A t \in Task : step[t] # "wait"]_cmdVars
=============================================================================
