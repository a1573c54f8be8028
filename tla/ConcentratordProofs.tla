------------------------- MODULE ConcentratordProofs -------------------------
(***************************************************************************)
(* Theorems about the Concentratord backend, for any number of threads,    *)
(* messages and events, any channel size and any number of socket failures.*)
(*                                                                         *)
(* The two critical sections of send_command are separate, so what is true *)
(* of the socket while nobody holds the mutex must be said: a request may  *)
(* be outstanding on it, but then some task is on its way to replace it.   *)
(* What is said of the command path alone carries over to the composition, *)
(* of which every step is one of the command path or leaves it as it is.   *)
(***************************************************************************)
EXTENDS ConcentratordSystem, SequenceTheorems, TLAPS

\* Every task in send_command has a command.
BusyHasCommand == \A t \in Task : step[t] # "idle" => command[t] \in Command

\* The mutex: who waits for a reply is who holds it.
HolderWaits == \A t \in Task : step[t] = "wait" <=> holder = t

\* A request and its reply belong to one socket, the current one or an older
\* one, and exist once.
PacketsOnce ==
  /\ \A p \in inFlight \union replies : p.socket <= socket
  /\ inFlight \intersect replies = {}

\* The current socket has nothing under way, or it awaits a reply; what it has
\* under way belongs to the task that waits, if any does.
SocketInv ==
  /\ ~awaiting => \A p \in inFlight \union replies : p.socket # socket
  /\ \A t \in Task : step[t] = "wait" =>
       /\ awaiting
       /\ \A p \in inFlight \union replies : p.socket = socket => p.command = command[t]

\* Who left the socket awaiting a reply is waiting for it, or will replace it.
SomebodyCares == awaiting => \E t \in Task : step[t] \in {"wait", "reconnect"}

CmdInv ==
  /\ CmdTypeOK
  /\ BusyHasCommand
  /\ HolderWaits
  /\ PacketsOnce
  /\ SocketInv
  /\ SomebodyCares
  /\ ReplyMatches

-----------------------------------------------------------------------------
LEMMA CmdInvInit == CmdInit => CmdInv
<1> SUFFICES ASSUME CmdInit PROVE CmdInv
  OBVIOUS
<1> USE ConcentratordCmdAssumption DEF CmdInit
<1>1. CmdTypeOK
  <2>1. /\ holder \in Task \union {NoTask}
        /\ socket \in Nat
        /\ inFlight \subseteq Packet
        /\ replies \subseteq Packet
        /\ failures \in 0 .. SocketFailures
    OBVIOUS
  <2>3. awaiting \in BOOLEAN
    OBVIOUS
  <2>2. /\ step \in [Task -> {"idle", "lock", "wait", "reconnect"}]
        /\ command \in [Task -> Command \union {None}]
        /\ outcome \in [Command -> {"none", "called", "ok", "error"}]
        /\ reply \in [Command -> Command \union {None}]
    OBVIOUS
  <2> QED
    BY <2>1, <2>2, <2>3 DEF CmdTypeOK
<1>2. BusyHasCommand /\ PacketsOnce /\ SocketInv /\ SomebodyCares /\ ReplyMatches
  BY DEF BusyHasCommand, PacketsOnce, SocketInv, SomebodyCares, ReplyMatches
<1>3. HolderWaits
  BY DEF HolderWaits
<1> QED
  BY <1>1, <1>2, <1>3 DEF CmdInv

LEMMA CallStep ==
  ASSUME CmdInv, NEW t \in Task, NEW c \in Command, Call(t, c)
  PROVE  CmdInv'
<1> USE DEF CmdInv, Call
<1>1. CmdTypeOK'
  BY DEF CmdTypeOK
<1>2. BusyHasCommand'
  BY DEF CmdTypeOK, BusyHasCommand
<1>3. HolderWaits'
  BY DEF CmdTypeOK, HolderWaits
<1>4. PacketsOnce'
  BY DEF PacketsOnce
<1>5. SocketInv'
  BY DEF CmdTypeOK, SocketInv
<1>6. SomebodyCares'
  BY DEF CmdTypeOK, SomebodyCares
<1>7. ReplyMatches'
  BY DEF CmdTypeOK, ReplyMatches
<1> QED
  BY <1>1, <1>2, <1>3, <1>4, <1>5, <1>6, <1>7

LEMMA SendStep ==
  ASSUME CmdInv, NEW t \in Task, Send(t)
  PROVE  CmdInv'
<1> USE DEF CmdInv, Send
<1> DEFINE request == [socket |-> socket, command |-> command[t]]
<1>0. /\ request \in Packet
      /\ request \notin replies
      /\ inFlight' = inFlight \union {request}
  BY DEF CmdTypeOK, BusyHasCommand, Packet, SocketInv
<1>1. CmdTypeOK'
  BY <1>0 DEF CmdTypeOK
<1>2. BusyHasCommand'
  BY DEF CmdTypeOK, BusyHasCommand
<1>3. HolderWaits'
  BY ConcentratordCmdAssumption DEF CmdTypeOK, HolderWaits
<1>4. PacketsOnce'
  BY <1>0 DEF CmdTypeOK, PacketsOnce
<1>5. SocketInv'
  BY <1>3, ConcentratordCmdAssumption DEF CmdTypeOK, SocketInv, HolderWaits
<1>6. SomebodyCares'
  BY DEF CmdTypeOK, SomebodyCares
<1>7. ReplyMatches'
  BY DEF ReplyMatches
<1> QED
  BY <1>1, <1>2, <1>3, <1>4, <1>5, <1>6, <1>7

LEMMA SendRefusedStep ==
  ASSUME CmdInv, NEW t \in Task, SendRefused(t)
  PROVE  CmdInv'
<1> USE DEF CmdInv, SendRefused
<1>1. CmdTypeOK' /\ BusyHasCommand'
  BY DEF CmdTypeOK, BusyHasCommand
<1>2. HolderWaits'
  BY ConcentratordCmdAssumption DEF CmdTypeOK, HolderWaits
<1>3. PacketsOnce' /\ ReplyMatches'
  BY DEF PacketsOnce, ReplyMatches
<1>4. SocketInv'
  BY DEF CmdTypeOK, SocketInv
<1>5. SomebodyCares'
  BY DEF CmdTypeOK, SomebodyCares
<1> QED
  BY <1>1, <1>2, <1>3, <1>4, <1>5

\* The only packet of the current socket is the reply that is taken, so nothing
\* of it is left, and the reply is the one to the command of the task.
LEMMA ReceiveStep ==
  ASSUME CmdInv, NEW t \in Task, Receive(t)
  PROVE  CmdInv'
<1> USE DEF CmdInv
<1>1. PICK p \in replies : /\ p.socket = socket
                           /\ replies' = replies \ {p}
                           /\ reply' = [reply EXCEPT ![command[t]] = p.command]
  BY DEF Receive
<1>2. p.command = command[t] /\ command[t] \in Command
  BY <1>1 DEF Receive, SocketInv, BusyHasCommand
<1>3. CmdTypeOK'
  BY <1>1, <1>2 DEF Receive, CmdTypeOK
<1>4. BusyHasCommand'
  BY DEF Receive, CmdTypeOK, BusyHasCommand
<1>5. HolderWaits'
  BY ConcentratordCmdAssumption DEF Receive, CmdTypeOK, HolderWaits
<1>6. PacketsOnce'
  BY <1>1 DEF Receive, PacketsOnce
<1>7. SocketInv'
  <2>1. ASSUME NEW q \in inFlight \union replies, q.socket = socket
        PROVE  q = p
    <3>1. q.command = p.command
      BY <1>2, <2>1 DEF Receive, SocketInv
    <3>2. q \in Packet /\ p \in Packet
      BY <1>1 DEF CmdTypeOK
    <3> QED
      BY <1>1, <2>1, <3>1, <3>2 DEF Packet
  <2>2. \A q \in inFlight' \union replies' : q.socket # socket'
    BY <1>1, <2>1 DEF Receive, PacketsOnce
  <2>3. \A u \in Task : step'[u] # "wait"
    BY <1>5, ConcentratordCmdAssumption DEF Receive, HolderWaits
  <2> QED
    BY <2>2, <2>3 DEF SocketInv
<1>8. SomebodyCares'
  BY DEF Receive, SomebodyCares
<1>9. ReplyMatches'
  BY <1>1, <1>2 DEF Receive, CmdTypeOK, ReplyMatches
<1> QED
  BY <1>3, <1>4, <1>5, <1>6, <1>7, <1>8, <1>9

LEMMA TimeoutStep ==
  ASSUME CmdInv, NEW t \in Task, Timeout(t)
  PROVE  CmdInv'
<1> USE DEF CmdInv, Timeout
<1>1. CmdTypeOK' /\ BusyHasCommand'
  BY DEF CmdTypeOK, BusyHasCommand
<1>2. HolderWaits'
  BY ConcentratordCmdAssumption DEF CmdTypeOK, HolderWaits
<1>3. PacketsOnce' /\ ReplyMatches'
  BY DEF PacketsOnce, ReplyMatches
<1>4. SocketInv'
  BY DEF CmdTypeOK, SocketInv
<1>5. SomebodyCares'
  BY DEF CmdTypeOK, SomebodyCares
<1> QED
  BY <1>1, <1>2, <1>3, <1>4, <1>5

\* No packet belongs to the new socket, and with the mutex free nobody waits.
LEMMA ReconnectStep ==
  ASSUME CmdInv, NEW t \in Task, Reconnect(t)
  PROVE  CmdInv'
<1> USE DEF CmdInv, Reconnect
<1>1. CmdTypeOK'
  <2>1. socket' \in Nat
    BY DEF CmdTypeOK
  <2>5. awaiting' \in BOOLEAN
    OBVIOUS
  <2>2. step' \in [Task -> {"idle", "lock", "wait", "reconnect"}]
    BY DEF CmdTypeOK
  <2>3. command' \in [Task -> Command \union {None}]
    BY DEF CmdTypeOK
  <2>4. outcome' \in [Command -> {"none", "called", "ok", "error"}]
    BY DEF CmdTypeOK
  <2> QED
    BY <2>1, <2>2, <2>3, <2>4, <2>5 DEF CmdTypeOK
<1>2. BusyHasCommand'
  BY DEF CmdTypeOK, BusyHasCommand
<1>3. HolderWaits'
  BY DEF CmdTypeOK, HolderWaits
<1>4. PacketsOnce'
  <2>1. \A p \in inFlight \union replies : p.socket \in Nat
    BY DEF CmdTypeOK, Packet
  <2> QED
    BY <2>1 DEF CmdTypeOK, PacketsOnce
<1>5. SocketInv'
  <2>1. \A p \in inFlight \union replies : p.socket \in Nat
    BY DEF CmdTypeOK, Packet
  <2>2. \A p \in inFlight' \union replies' : p.socket # socket'
    BY <2>1 DEF CmdTypeOK, PacketsOnce
  <2>3. \A u \in Task : step'[u] # "wait"
    BY <1>3, ConcentratordCmdAssumption DEF HolderWaits
  <2> QED
    BY <2>2, <2>3 DEF SocketInv
<1>6. SomebodyCares'
  BY DEF SomebodyCares
<1>7. ReplyMatches'
  BY DEF CmdTypeOK, BusyHasCommand, ReplyMatches
<1> QED
  BY <1>1, <1>2, <1>3, <1>4, <1>5, <1>6, <1>7

LEMMA ReconnectFailsStep ==
  ASSUME CmdInv, NEW t \in Task, ReconnectFails(t)
  PROVE  CmdInv'
<1> USE DEF CmdInv, ReconnectFails
<1>1. CmdTypeOK'
  BY ConcentratordCmdAssumption DEF CmdTypeOK
<1>2. BusyHasCommand' /\ HolderWaits' /\ PacketsOnce'
  BY DEF BusyHasCommand, HolderWaits, PacketsOnce
<1>3. SocketInv' /\ SomebodyCares' /\ ReplyMatches'
  BY DEF SocketInv, SomebodyCares, ReplyMatches
<1> QED
  BY <1>1, <1>2, <1>3

LEMMA ServeStep ==
  ASSUME CmdInv, NEW p \in inFlight, Serve(p)
  PROVE  CmdInv'
<1> USE DEF CmdInv, Serve
<1>0. inFlight' \union replies' \subseteq inFlight \union replies
  OBVIOUS
<1>1. CmdTypeOK'
  BY DEF CmdTypeOK
<1>2. BusyHasCommand' /\ HolderWaits'
  BY DEF BusyHasCommand, HolderWaits
<1>3. PacketsOnce'
  BY <1>0 DEF PacketsOnce
<1>4. SocketInv'
  BY <1>0 DEF SocketInv
<1>5. SomebodyCares' /\ ReplyMatches'
  BY DEF SomebodyCares, ReplyMatches
<1> QED
  BY <1>1, <1>2, <1>3, <1>4, <1>5

LEMMA CmdInvStutter == CmdInv /\ UNCHANGED cmdVars => CmdInv'
  BY DEF cmdVars, CmdInv, CmdTypeOK, BusyHasCommand, HolderWaits, PacketsOnce, SocketInv,
         SomebodyCares, ReplyMatches

LEMMA CmdInvNext == CmdInv /\ [CmdNext]_cmdVars => CmdInv'
<1> SUFFICES ASSUME CmdInv, [CmdNext]_cmdVars PROVE CmdInv'
  OBVIOUS
<1>1. ASSUME NEW t \in Task, NEW c \in Command, Call(t, c) PROVE CmdInv'
  BY <1>1, CallStep
<1>2. ASSUME NEW t \in Task, TaskStep(t) PROVE CmdInv'
  BY <1>2, SendStep, SendRefusedStep, ReceiveStep, TimeoutStep, ReconnectStep DEF TaskStep
<1>3. ASSUME NEW t \in Task, ReconnectFails(t) PROVE CmdInv'
  BY <1>3, ReconnectFailsStep
<1>4. ASSUME NEW p \in inFlight, Serve(p) PROVE CmdInv'
  BY <1>4, ServeStep
<1>5. CASE UNCHANGED cmdVars
  BY <1>5, CmdInvStutter
<1> QED
  BY <1>1, <1>2, <1>3, <1>4, <1>5 DEF CmdNext

-----------------------------------------------------------------------------
(* The command path as a part of the system.                                *)

LEMMA StepOfCommandPath == [Next]_vars => [CmdNext]_cmdVars
<1> SUFFICES ASSUME [Next]_vars PROVE CmdNext \/ UNCHANGED cmdVars
  OBVIOUS
<1>1. ASSUME NEW c \in Command, MessageTask(c) \/ ProgramEnds(c) PROVE UNCHANGED cmdVars
  BY <1>1 DEF MessageTask, ProgramEnds, Reject, StartProgram, FinishCommand, AnswerExec
<1>2. ASSUME NEW t \in Task, NEW c \in Command, SendToConcentratord(t, c) PROVE CmdNext
  BY <1>2 DEF SendToConcentratord, CmdNext
<1>3. ASSUME NEW t \in Task, ThreadStep(t) PROVE CmdNext
  BY <1>3 DEF ThreadStep, CmdNext
<1>4. ASSUME NEW p \in inFlight, ConcentratordServes(p) PROVE CmdNext
  BY <1>4 DEF ConcentratordServes, CmdNext
<1>5. CASE PublishEvent \/ ReadEvent \/ EventLoop \/ OpenChannel \/ TakeOutput
  BY <1>5 DEF PublishEvent, ReadEvent, EventLoop, HandleEvent, SendStats, OpenChannel, TakeOutput
<1>6. CASE UNCHANGED vars
  BY <1>6 DEF vars
<1> QED
  BY <1>1, <1>2, <1>3, <1>4, <1>5, <1>6 DEF Next

LEMMA CmdInvAlways == Spec => []CmdInv
<1>1. Init => CmdInv
  BY CmdInvInit DEF Init
<1>2. CmdInv /\ [Next]_vars => CmdInv'
  BY StepOfCommandPath, CmdInvNext
<1> QED
  BY <1>1, <1>2, PTL DEF Spec

-----------------------------------------------------------------------------
\* Every variable of the command path always holds a value of its type.
THEOREM CmdTypeCorrect == Spec => []CmdTypeOK
<1>1. CmdInv => CmdTypeOK
  BY DEF CmdInv
<1> QED
  BY <1>1, CmdInvAlways, PTL

\* send_command returns the reply to its own request or an error, however late
\* Concentratord answers the requests of commands that were given up.
THEOREM RepliesAlwaysMatch == Spec => []ReplyMatches
<1>1. CmdInv => ReplyMatches
  BY DEF CmdInv
<1> QED
  BY <1>1, CmdInvAlways, PTL

\* Between commands the socket is never left in the dirty state that the comment
\* in send_command speaks of.
THEOREM IdleSocketAlwaysReady == Spec => []IdleSocketReady
<1>1. CmdInv => IdleSocketReady
  BY DEF CmdInv, SomebodyCares, IdleSocketReady
<1> QED
  BY <1>1, CmdInvAlways, PTL

\* reconnect_cmd_sock never replaces the socket on which another task waits.
THEOREM SocketNeverReplacedInUse == Spec => NeverReplacedInUse
<1>1. CmdInv /\ [CmdNext]_cmdVars
        => [socket' # socket => \A t \in Task : step[t] # "wait"]_cmdVars
  <2> SUFFICES ASSUME CmdInv, CmdNext, socket' # socket
               PROVE  \A t \in Task : step[t] # "wait"
    OBVIOUS
  <2>1. PICK t \in Task : Reconnect(t)
    BY DEF CmdNext, Call, TaskStep, Send, SendRefused, Receive, Timeout, ReconnectFails, Serve
  <2> QED
    BY <2>1, ConcentratordCmdAssumption DEF Reconnect, CmdInv, HolderWaits
<1> QED
  BY <1>1, StepOfCommandPath, CmdInvAlways, PTL DEF Spec, NeverReplacedInUse

-----------------------------------------------------------------------------
(* What the tasks make of replies.  An ack speaks of a command that is over, *)
(* so no thread may still have it: commands have one thread at most.         *)

OneThreadEach ==
  /\ \A t \in Task : step[t] # "idle" => outcome[command[t]] = "called"
  /\ \A t, u \in Task :
       (step[t] # "idle" /\ step[u] # "idle" /\ command[t] = command[u]) => t = u

\* Only served requests have replies.
RepliesServed ==
  /\ \A p \in replies : p.command \in served
  /\ \A c \in Command : outcome[c] = "ok" => c \in served

SysInv == CmdInv /\ OneThreadEach /\ RepliesServed /\ TypeOK /\ AcksTruthful

OkStays == \A c \in Command : outcome[c] = "ok" => outcome'[c] = "ok"

LEMMA OneThreadStep ==
  ASSUME CmdInv, OneThreadEach, [CmdNext]_cmdVars
  PROVE  OneThreadEach' /\ OkStays
<1> USE DEF CmdInv, OneThreadEach, OkStays
<1>1. ASSUME NEW t \in Task, NEW c \in Command, Call(t, c) PROVE OneThreadEach' /\ OkStays
  BY <1>1 DEF Call, CmdTypeOK, BusyHasCommand
<1>2. ASSUME NEW t \in Task, Send(t) \/ SendRefused(t) \/ Timeout(t)
      PROVE  OneThreadEach' /\ OkStays
  BY <1>2 DEF Send, SendRefused, Timeout, CmdTypeOK
<1>3. ASSUME NEW t \in Task, Receive(t) PROVE OneThreadEach' /\ OkStays
  BY <1>3 DEF Receive, CmdTypeOK, BusyHasCommand
<1>4. ASSUME NEW t \in Task, Reconnect(t) PROVE OneThreadEach' /\ OkStays
  BY <1>4 DEF Reconnect, CmdTypeOK, BusyHasCommand
<1>5. ASSUME NEW t \in Task, ReconnectFails(t) PROVE OneThreadEach' /\ OkStays
  BY <1>5 DEF ReconnectFails
<1>6. ASSUME NEW p \in inFlight, Serve(p) PROVE OneThreadEach' /\ OkStays
  BY <1>6 DEF Serve
<1>7. CASE UNCHANGED cmdVars
  BY <1>7 DEF cmdVars
<1> QED
  BY <1>1, <1>2, <1>3, <1>4, <1>5, <1>6, <1>7 DEF CmdNext, TaskStep

\* The part of the state that belongs to the channel, and what a step that does
\* not touch it, or does no more than try_send, keeps true.
ChannelTyped ==
  /\ channelOpen \in BOOLEAN
  /\ queued \in Seq(Output)
  /\ waiting \in 0 .. PublishChannelSize
  /\ refused \subseteq Output

LEMMA ChannelKept ==
  ASSUME TypeOK, AcksTruthful, queued' = queued, served \subseteq served', OkStays
  PROVE  AcksTruthful'
  BY DEF TypeOK, AcksTruthful, OkStays

LEMMA TrySendStep ==
  ASSUME TypeOK, AcksTruthful, NEW e \in Output, TrySend(e),
         served' = served, outcome' = outcome,
         e.kind = "ack" => e.answer = e.of /\ e.of \in served /\ outcome[e.of] = "ok"
  PROVE  ChannelTyped' /\ AcksTruthful'
<1>1. CASE channelOpen /\ waiting < PublishChannelSize
  <2>0. queued' = Append(queued, e) /\ waiting' = waiting + 1 /\ refused' = refused
    BY <1>1 DEF TrySend
  <2>1. /\ queued' \in Seq(Output)
        /\ \A i \in DOMAIN queued' :
             IF i = Len(queued) + 1 THEN queued'[i] = e
                                    ELSE i \in DOMAIN queued /\ queued'[i] = queued[i]
    <3>1. queued \in Seq(Output)
      BY DEF TypeOK
    <3> QED
      BY <2>0, <3>1, AppendProperties
  <2>2. waiting' \in 0 .. PublishChannelSize
    BY <1>1, <2>0, ConcentratordSystemAssumption DEF TypeOK
  <2>3. channelOpen' \in BOOLEAN
    BY DEF TrySend, TypeOK
  <2>4. AcksTruthful'
    BY <2>1 DEF AcksTruthful
  <2> QED
    BY <2>0, <2>1, <2>2, <2>3, <2>4 DEF ChannelTyped, TypeOK
<1>2. CASE ~(channelOpen /\ waiting < PublishChannelSize)
  <2>1. queued' = queued /\ waiting' = waiting /\ refused' = refused \union {e}
    BY <1>2 DEF TrySend
  <2>2. channelOpen' \in BOOLEAN
    BY DEF TrySend, TypeOK
  <2>3. AcksTruthful'
    BY <2>1 DEF AcksTruthful
  <2> QED
    BY <2>1, <2>2, <2>3 DEF ChannelTyped, TypeOK
<1> QED
  BY <1>1, <1>2

LEMMA SysInvInit == Init => SysInv
<1> SUFFICES ASSUME Init PROVE SysInv
  OBVIOUS
<1> USE DEF Init
<1>1. CmdInv
  BY CmdInvInit
<1>2. OneThreadEach /\ RepliesServed /\ AcksTruthful
  BY DEF CmdInit, OneThreadEach, RepliesServed, AcksTruthful
<1>3. message \in [Command -> {"never", "none", "sent", "running", "ended", "done"}]
  OBVIOUS
<1>4. published \in 0 .. Len(Published)
  BY ConcentratordSystemAssumption
<1>5. channelOpen \in BOOLEAN
  OBVIOUS
<1>6. /\ served \subseteq Command /\ inbox \in Seq(EventNr) /\ queued \in Seq(Output)
      /\ waiting \in 0 .. PublishChannelSize /\ refused \subseteq Output
  BY ConcentratordSystemAssumption
<1>7. TypeOK
  BY <1>1, <1>3, <1>4, <1>5, <1>6 DEF CmdInv, TypeOK
<1> QED
  BY <1>1, <1>2, <1>7 DEF SysInv

\* The rest of the state that belongs to the system.
TasksTyped ==
  /\ message \in [Command -> {"never", "none", "sent", "running", "ended", "done"}]
  /\ served \subseteq Command

LoopTyped ==
  /\ published \in 0 .. Len(Published)
  /\ inbox \in Seq(EventNr)
  /\ loop \in {ReadsEvents} \union {Holds(n) : n \in EventNr} \union {Collects(n) : n \in EventNr}

LEMMA TypeOKParts == TypeOK <=> CmdTypeOK /\ TasksTyped /\ LoopTyped /\ ChannelTyped
  BY DEF TypeOK, TasksTyped, LoopTyped, ChannelTyped

LEMMA TypeOKNext == CmdTypeOK' /\ TasksTyped' /\ LoopTyped' /\ ChannelTyped' => TypeOK'
  BY DEF TypeOK, TasksTyped, LoopTyped, ChannelTyped

\* A step that leaves the command path alone.
LEMMA OutsideCommandPath ==
  ASSUME SysInv, UNCHANGED cmdVars, served' = served
  PROVE  CmdInv' /\ OneThreadEach' /\ RepliesServed' /\ CmdTypeOK' /\ OkStays
<1>1. CmdInv'
  BY CmdInvStutter DEF SysInv
<1>2. OneThreadEach' /\ OkStays
  BY OneThreadStep DEF SysInv
<1>3. RepliesServed'
  BY DEF SysInv, RepliesServed, cmdVars
<1> QED
  BY <1>1, <1>2, <1>3 DEF CmdInv

\* A step of the command path that leaves the channel alone.
LEMMA InCommandPath ==
  ASSUME SysInv, CmdNext, served \subseteq served', served' \subseteq Command,
         queued' = queued,
         RepliesServed'
  PROVE  CmdInv' /\ OneThreadEach' /\ CmdTypeOK' /\ AcksTruthful'
<1>1. CmdInv'
  BY CmdInvNext DEF SysInv
<1>2. OneThreadEach' /\ OkStays
  BY OneThreadStep DEF SysInv
<1>3. AcksTruthful'
  BY <1>2, ChannelKept DEF SysInv
<1> QED
  BY <1>1, <1>2, <1>3 DEF CmdInv

LEMMA MessageTaskStep ==
  ASSUME SysInv, NEW c \in Command, MessageTask(c) \/ ProgramEnds(c)
  PROVE  SysInv'
<1>1. UNCHANGED cmdVars /\ served' = served /\ LoopTyped'
  BY TypeOKParts DEF MessageTask, ProgramEnds, Reject, StartProgram, FinishCommand, AnswerExec,
                     SysInv, LoopTyped
<1>2. CmdInv' /\ OneThreadEach' /\ RepliesServed' /\ CmdTypeOK' /\ OkStays
  BY <1>1, OutsideCommandPath
<1>3. TasksTyped'
  BY TypeOKParts DEF MessageTask, ProgramEnds, Reject, StartProgram, FinishCommand, AnswerExec,
                     SysInv, TasksTyped
<1>4. ChannelTyped' /\ AcksTruthful'
  <2>1. CASE ChannelUnchanged
    <3>1. ChannelTyped'
      BY <2>1, TypeOKParts DEF ChannelUnchanged, ChannelTyped, SysInv
    <3>2. AcksTruthful'
      BY <1>1, <1>2, <2>1, ChannelKept DEF ChannelUnchanged, SysInv
    <3> QED
      BY <3>1, <3>2
  <2>2. CASE \E r \in {"output", "error"} : TrySend(Exec(c, r))
    <3>1. PICK r \in {"output", "error"} : TrySend(Exec(c, r))
      BY <2>2
    <3>2. Exec(c, r) \in Output /\ Exec(c, r).kind # "ack"
      BY DEF Output, Exec
    <3> QED
      BY <1>1, <3>1, <3>2, TrySendStep DEF SysInv, cmdVars
  <2>3. CASE FinishCommand(c) /\ TrySend(Ack(c, reply[c])) /\ outcome[c] = "ok"
    <3>1. reply[c] = c
      BY <2>3 DEF SysInv, CmdInv, ReplyMatches
    <3>2. c \in served
      BY <2>3 DEF SysInv, RepliesServed
    <3>3. Ack(c, c) \in Output /\ Ack(c, c).answer = c /\ Ack(c, c).of = c
      BY DEF Output, Ack
    <3> QED
      BY <1>1, <2>3, <3>1, <3>2, <3>3, TrySendStep DEF SysInv, cmdVars
  <2> QED
    BY <2>1, <2>2, <2>3 DEF MessageTask, ProgramEnds, Reject, StartProgram, FinishCommand,
                            AnswerExec
<1> QED
  BY <1>2, <1>3, <1>1, <1>4, TypeOKNext DEF SysInv

LEMMA SendToConcentratordStep ==
  ASSUME SysInv, NEW t \in Task, NEW c \in Command, SendToConcentratord(t, c)
  PROVE  SysInv'
<1>1. CmdNext /\ served' = served /\ queued' = queued
  BY DEF SendToConcentratord, ChannelUnchanged, CmdNext
<1>2. RepliesServed'
  BY DEF SendToConcentratord, Call, SysInv, CmdInv, CmdTypeOK, RepliesServed
<1>3. CmdInv' /\ OneThreadEach' /\ CmdTypeOK' /\ AcksTruthful'
  BY <1>1, <1>2, InCommandPath DEF SysInv, TypeOK
<1>4. TasksTyped' /\ LoopTyped' /\ ChannelTyped'
  BY TypeOKParts DEF SendToConcentratord, ChannelUnchanged, SysInv, TasksTyped, LoopTyped,
                     ChannelTyped
<1> QED
  BY <1>2, <1>3, <1>4, TypeOKNext DEF SysInv

LEMMA ThreadStepStep ==
  ASSUME SysInv, NEW t \in Task, ThreadStep(t)
  PROVE  SysInv'
<1>1. CmdNext /\ UNCHANGED busVars
  BY DEF ThreadStep, CmdNext
<1>2. RepliesServed'
  <2>1. CASE Send(t) \/ SendRefused(t) \/ Timeout(t) \/ ReconnectFails(t)
    BY <1>1, <2>1 DEF Send, SendRefused, Timeout, ReconnectFails, busVars, SysInv, RepliesServed
  <2>2. CASE Reconnect(t)
    BY <1>1, <2>2 DEF Reconnect, busVars, SysInv, RepliesServed, CmdInv, CmdTypeOK
  <2>3. CASE Receive(t)
    <3>1. PICK p \in replies : p.socket = socket /\ replies' = replies \ {p}
      BY <2>3 DEF Receive
    <3>2. p.command = command[t]
      BY <2>3, <3>1 DEF Receive, SysInv, CmdInv, SocketInv
    <3>3. command[t] \in served
      BY <3>1, <3>2 DEF SysInv, RepliesServed
    <3> QED
      BY <1>1, <2>3, <3>1, <3>3 DEF Receive, busVars, SysInv, RepliesServed, CmdInv, CmdTypeOK
  <2> QED
    BY <2>1, <2>2, <2>3 DEF ThreadStep, TaskStep
<1>3. CmdInv' /\ OneThreadEach' /\ CmdTypeOK' /\ AcksTruthful'
  BY <1>1, <1>2, InCommandPath DEF SysInv, TypeOK, busVars
<1>4. TasksTyped' /\ LoopTyped' /\ ChannelTyped'
  BY <1>1, TypeOKParts DEF busVars, SysInv, TasksTyped, LoopTyped, ChannelTyped
<1> QED
  BY <1>2, <1>3, <1>4, TypeOKNext DEF SysInv

LEMMA ConcentratordServesStep ==
  ASSUME SysInv, NEW p \in inFlight, ConcentratordServes(p)
  PROVE  SysInv'
<1>1. CmdNext /\ served' = served \union {p.command} /\ queued' = queued
  BY DEF ConcentratordServes, ChannelUnchanged, CmdNext
<1>2. p.command \in Command
  BY DEF SysInv, CmdInv, CmdTypeOK, Packet
<1>3. RepliesServed'
  BY <1>1 DEF ConcentratordServes, Serve, SysInv, RepliesServed
<1>4. CmdInv' /\ OneThreadEach' /\ CmdTypeOK' /\ AcksTruthful'
  BY <1>1, <1>2, <1>3, InCommandPath DEF SysInv, TypeOK
<1>5. TasksTyped' /\ LoopTyped' /\ ChannelTyped'
  BY <1>1, <1>2, TypeOKParts DEF ConcentratordServes, ChannelUnchanged, SysInv, TasksTyped,
                                 LoopTyped, ChannelTyped
<1> QED
  BY <1>3, <1>4, <1>5, TypeOKNext DEF SysInv

\* The event loop and the two ends of the channel.
LEMMA EventStep ==
  ASSUME SysInv, PublishEvent \/ ReadEvent \/ EventLoop \/ OpenChannel \/ TakeOutput
  PROVE  SysInv'
<1>1. UNCHANGED cmdVars /\ served' = served /\ message' = message
  BY DEF PublishEvent, ReadEvent, EventLoop, HandleEvent, SendStats, OpenChannel, TakeOutput
<1>2. CmdInv' /\ OneThreadEach' /\ RepliesServed' /\ CmdTypeOK' /\ OkStays
  BY <1>1, OutsideCommandPath
<1>3. TasksTyped'
  BY <1>1, TypeOKParts DEF SysInv, TasksTyped
<1>4. LoopTyped
  BY TypeOKParts DEF SysInv
<1>5. loop.at \in {"handle", "metadata"} => loop.event \in EventNr
  BY <1>4 DEF LoopTyped, ReadsEvents, Holds, Collects
<1>6. LoopTyped'
  <2>1. CASE PublishEvent
    <3>1. published' \in EventNr /\ published' \in 0 .. Len(Published)
      BY <1>4, <2>1, ConcentratordSystemAssumption DEF PublishEvent, LoopTyped, EventNr
    <3>2. Append(inbox, published') \in Seq(EventNr)
      BY <1>4, <3>1, AppendProperties DEF LoopTyped
    <3> QED
      BY <1>4, <2>1, <3>1, <3>2 DEF PublishEvent, LoopTyped
  <2>2. CASE ReadEvent
    <3>1. Head(inbox) \in EventNr /\ Tail(inbox) \in Seq(EventNr)
      BY <1>4, <2>2 DEF ReadEvent, LoopTyped
    <3> QED
      BY <1>4, <2>2, <3>1 DEF ReadEvent, LoopTyped
  <2>3. CASE EventLoop
    BY <1>4, <1>5, <2>3 DEF EventLoop, HandleEvent, SendStats, LoopTyped
  <2>4. CASE OpenChannel \/ TakeOutput
    BY <1>4, <2>4 DEF OpenChannel, TakeOutput, LoopTyped
  <2> QED
    BY <2>1, <2>2, <2>3, <2>4
<1>7. ChannelTyped' /\ AcksTruthful'
  <2>1. CASE ChannelUnchanged
    <3>1. ChannelTyped'
      BY <2>1, TypeOKParts DEF ChannelUnchanged, ChannelTyped, SysInv
    <3>2. AcksTruthful'
      BY <1>1, <1>2, <2>1, ChannelKept DEF ChannelUnchanged, SysInv
    <3> QED
      BY <3>1, <3>2
  <2>2. CASE EventLoop /\ TrySend(Event(loop.event))
    <3>1. Event(loop.event) \in Output /\ Event(loop.event).kind # "ack"
      BY <1>5, <2>2 DEF EventLoop, HandleEvent, SendStats, Output, Event
    <3> QED
      BY <1>1, <2>2, <3>1, TrySendStep DEF SysInv, cmdVars
  <2>3. CASE OpenChannel
    <3>1. ChannelTyped'
      BY <2>3, TypeOKParts DEF OpenChannel, ChannelTyped, SysInv
    <3>2. AcksTruthful'
      BY <1>1, <1>2, <2>3, ChannelKept DEF OpenChannel, SysInv
    <3> QED
      BY <3>1, <3>2
  <2>4. CASE TakeOutput
    <3>1. waiting' \in 0 .. PublishChannelSize
      BY <2>4, TypeOKParts, ConcentratordSystemAssumption DEF TakeOutput, ChannelTyped, SysInv
    <3>2. channelOpen' \in BOOLEAN /\ queued' = queued /\ refused' = refused
      BY <2>4, TypeOKParts DEF TakeOutput, ChannelTyped, SysInv
    <3>3. ChannelTyped'
      BY <3>1, <3>2, TypeOKParts DEF ChannelTyped, SysInv
    <3>4. AcksTruthful'
      BY <1>1, <1>2, <3>2, ChannelKept DEF SysInv
    <3> QED
      BY <3>3, <3>4
  <2>5. CASE PublishEvent \/ ReadEvent \/ EventLoop
    BY <2>1, <2>2, <2>5 DEF PublishEvent, ReadEvent, EventLoop, HandleEvent, SendStats
  <2> QED
    BY <2>3, <2>4, <2>5
<1> QED
  BY <1>2, <1>3, <1>6, <1>7, TypeOKNext DEF SysInv

LEMMA SysInvAlways == Spec => []SysInv
<1>1. SysInv /\ [Next]_vars => SysInv'
  <2> SUFFICES ASSUME SysInv, [Next]_vars PROVE SysInv'
    OBVIOUS
  <2>1. CASE UNCHANGED vars
    <3>1. UNCHANGED cmdVars /\ UNCHANGED busVars
      BY <2>1 DEF vars
    <3>2. CmdInv' /\ OneThreadEach' /\ RepliesServed' /\ CmdTypeOK' /\ OkStays
      BY <3>1, OutsideCommandPath DEF busVars
    <3>3. TasksTyped' /\ LoopTyped' /\ ChannelTyped'
      BY <3>1, TypeOKParts DEF busVars, SysInv, TasksTyped, LoopTyped, ChannelTyped
    <3>4. AcksTruthful'
      BY <3>1, <3>2, ChannelKept DEF SysInv, busVars
    <3> QED
      BY <3>2, <3>3, <3>4, TypeOKNext DEF SysInv
  <2> QED
    BY <2>1, MessageTaskStep, SendToConcentratordStep, ThreadStepStep, ConcentratordServesStep,
       EventStep DEF Next
<1> QED
  BY <1>1, SysInvInit, PTL DEF Spec

\* Every variable of the Concentratord backend always holds a value of its type,
\* and the publish channel is never over its capacity.
THEOREM SystemTypeCorrect == Spec => []TypeOK
<1>1. SysInv => TypeOK
  BY DEF SysInv
<1> QED
  BY <1>1, SysInvAlways, PTL

\* An ack queued for the server is the answer Concentratord gave to that very
\* downlink, after it served it, with any number of commands at the same time.
THEOREM AcksAlwaysTruthful == Spec => []AcksTruthful
<1>1. SysInv => AcksTruthful
  BY DEF SysInv
<1> QED
  BY <1>1, SysInvAlways, PTL

-----------------------------------------------------------------------------
(* The order of events.  They pass from the SUB socket to the loop and on to *)
(* the publish channel, and the ones further on are the older ones.          *)

QueuedEvents == {n \in EventNr : \E i \in DOMAIN queued : queued[i] = Event(n)}
InLoop       == IF loop.at = "read" THEN {} ELSE {loop.event}
InInbox      == {inbox[i] : i \in DOMAIN inbox}

Before(A, B) == \A m \in A, n \in B : m < n

InboxRising == \A i, j \in DOMAIN inbox : i < j => inbox[i] < inbox[j]

AllPublished == \A n \in QueuedEvents \union InLoop \union InInbox : n <= published

StagesOrdered ==
  /\ Before(QueuedEvents, InLoop)
  /\ Before(QueuedEvents, InInbox)
  /\ Before(InLoop, InInbox)

EventInv == EventsInOrder /\ InboxRising /\ StagesOrdered /\ AllPublished

LEMMA EventKinds ==
  /\ \A n : Event(n).kind = "event" /\ Event(n).of = n
  /\ \A e \in Output : e.kind = "event" => \E n \in EventNr : e = Event(n)
<1>1. \A n : Event(n).kind = "event" /\ Event(n).of = n
  BY DEF Event
<1>2. \A c, d : Ack(c, d).kind = "ack" /\ Exec(c, d).kind = "exec"
  BY DEF Ack, Exec
<1> QED
  BY <1>1, <1>2 DEF Output

LEMMA StagesTyped ==
  ASSUME TypeOK
  PROVE  QueuedEvents \union InLoop \union InInbox \subseteq EventNr
<1>1. QueuedEvents \subseteq EventNr
  BY DEF QueuedEvents
<1>2. InLoop \subseteq EventNr
  BY DEF TypeOK, InLoop, ReadsEvents, Holds, Collects
<1>3. InInbox \subseteq EventNr
  BY LenProperties, ElementOfSeq DEF TypeOK, InInbox
<1> QED
  BY <1>1, <1>2, <1>3

LEMMA InboxTail ==
  ASSUME TypeOK, InboxRising, inbox # <<>>
  PROVE  /\ Head(inbox) \in InInbox
         /\ {Tail(inbox)[i] : i \in DOMAIN Tail(inbox)} \subseteq InInbox
         /\ Before({Head(inbox)}, {Tail(inbox)[i] : i \in DOMAIN Tail(inbox)})
         /\ \A i, j \in DOMAIN Tail(inbox) : i < j => Tail(inbox)[i] < Tail(inbox)[j]
<1>1. /\ DOMAIN inbox = 1 .. Len(inbox) /\ Len(inbox) \in Nat \ {0}
      /\ DOMAIN Tail(inbox) = 1 .. (Len(inbox) - 1)
      /\ \A i \in 1 .. (Len(inbox) - 1) : Tail(inbox)[i] = inbox[i + 1]
  BY HeadTailProperties, LenProperties, EmptySeq DEF TypeOK
<1>2. Head(inbox) = inbox[1]
  OBVIOUS
<1> QED
  BY <1>1, <1>2 DEF InboxRising, InInbox, Before

LEMMA EventInvInit == Init => EventInv
<1> SUFFICES ASSUME Init PROVE EventInv
  OBVIOUS
<1>1. QueuedEvents = {} /\ InLoop = {} /\ InInbox = {}
  BY DEF Init, QueuedEvents, InLoop, ReadsEvents, InInbox
<1>2. EventsInOrder /\ InboxRising
  BY DEF Init, EventsInOrder, InboxRising
<1> QED
  BY <1>1, <1>2 DEF EventInv, StagesOrdered, AllPublished, Before

\* What is put in the channel is not an event, or the event the loop has.
LEMMA OutputInOrder ==
  ASSUME TypeOK, EventsInOrder, NEW e \in Output, queued' = Append(queued, e),
         \A n \in EventNr : e = Event(n) => Before(QueuedEvents, {n})
  PROVE  /\ EventsInOrder'
         /\ QueuedEvents' = QueuedEvents \union {n \in EventNr : e = Event(n)}
<1>1. /\ DOMAIN queued = 1 .. Len(queued) /\ Len(queued) \in Nat
      /\ DOMAIN queued' = 1 .. (Len(queued) + 1)
      /\ \A i \in 1 .. Len(queued) : queued'[i] = queued[i] /\ queued[i] \in Output
      /\ queued'[Len(queued) + 1] = e
  BY AppendProperties, LenProperties, ElementOfSeq DEF TypeOK
<1>2. QueuedEvents' = QueuedEvents \union {n \in EventNr : e = Event(n)}
  BY <1>1 DEF QueuedEvents
<1>3. ASSUME NEW i \in 1 .. Len(queued), queued[i].kind = "event", e.kind = "event"
      PROVE  queued[i].of < e.of
  <2>1. PICK n \in EventNr : e = Event(n)
    BY <1>3, EventKinds
  <2>2. PICK m \in EventNr : queued[i] = Event(m)
    BY <1>1, <1>3, EventKinds
  <2>3. m \in QueuedEvents
    BY <1>1, <2>2 DEF QueuedEvents
  <2> QED
    BY <2>1, <2>2, <2>3, EventKinds DEF Before
<1>4. EventsInOrder'
  BY <1>1, <1>3 DEF EventsInOrder
<1> QED
  BY <1>2, <1>4

\* The tasks of messages, the command path and the consumer.
LEMMA OtherSteps ==
  ASSUME SysInv, EventInv, UNCHANGED <<loop, inbox, published>>,
         \/ queued' = queued
         \/ \E e \in Output : queued' = Append(queued, e) /\ e.kind # "event"
  PROVE  EventInv'
<1>1. EventsInOrder' /\ QueuedEvents' = QueuedEvents
  <2>1. CASE queued' = queued
    BY <2>1 DEF EventInv, EventsInOrder, QueuedEvents
  <2>2. ASSUME NEW e \in Output, queued' = Append(queued, e), e.kind # "event"
        PROVE  EventsInOrder' /\ QueuedEvents' = QueuedEvents
    <3>1. \A n \in EventNr : e # Event(n)
      BY <2>2, EventKinds
    <3> QED
      BY <2>2, <3>1, OutputInOrder DEF SysInv, EventInv
  <2> QED
    BY <2>1, <2>2
<1>2. InLoop' = InLoop /\ InInbox' = InInbox
  BY DEF InLoop, InInbox
<1> QED
  BY <1>1, <1>2 DEF EventInv, StagesOrdered, AllPublished, InboxRising

LEMMA PublishStep ==
  ASSUME SysInv, EventInv, PublishEvent
  PROVE  EventInv'
<1>1. /\ queued' = queued /\ loop' = loop /\ published' = published + 1
      /\ published \in Nat /\ published' \in EventNr /\ inbox \in Seq(EventNr)
  BY ConcentratordSystemAssumption
     DEF PublishEvent, ChannelUnchanged, SysInv, TypeOK, EventNr
<1>2. QueuedEvents' = QueuedEvents /\ InLoop' = InLoop /\ EventsInOrder'
  BY <1>1 DEF EventInv, QueuedEvents, InLoop, EventsInOrder
<1>3. \A n \in QueuedEvents \union InLoop \union InInbox : n \in Nat /\ n < published'
  BY <1>1, StagesTyped DEF SysInv, EventInv, AllPublished, EventNr
<1>4. InboxRising' /\ InInbox' \subseteq InInbox \union {published'}
  <2>1. CASE inbox' = inbox
    BY <2>1 DEF EventInv, InboxRising, InInbox
  <2>2. CASE inbox' = Append(inbox, published')
    <3>1. /\ DOMAIN inbox = 1 .. Len(inbox) /\ Len(inbox) \in Nat
          /\ DOMAIN inbox' = 1 .. (Len(inbox) + 1)
          /\ \A i \in 1 .. Len(inbox) : inbox'[i] = inbox[i]
          /\ inbox'[Len(inbox) + 1] = published'
      BY <1>1, <2>2, AppendProperties, LenProperties
    <3>2. \A i \in 1 .. Len(inbox) : inbox[i] < published'
      BY <1>3, <3>1 DEF InInbox
    <3>3. InboxRising'
      BY <3>1, <3>2 DEF EventInv, InboxRising
    <3>4. InInbox' \subseteq InInbox \union {published'}
      BY <3>1 DEF InInbox
    <3> QED
      BY <3>3, <3>4
  <2> QED
    BY <2>1, <2>2 DEF PublishEvent
<1>5. StagesOrdered'
  BY <1>2, <1>3, <1>4 DEF EventInv, StagesOrdered, Before
<1>6. AllPublished'
  BY <1>1, <1>2, <1>3, <1>4 DEF AllPublished
<1> QED
  BY <1>2, <1>4, <1>5, <1>6 DEF EventInv

LEMMA ReadStep ==
  ASSUME SysInv, EventInv, ReadEvent
  PROVE  EventInv'
<1>1. queued' = queued /\ published' = published /\ inbox' = Tail(inbox) /\ inbox # <<>>
  BY DEF ReadEvent, ChannelUnchanged
<1>2. QueuedEvents' = QueuedEvents /\ EventsInOrder'
  BY <1>1 DEF EventInv, QueuedEvents, EventsInOrder
<1>3. InLoop' \subseteq {Head(inbox)}
  BY DEF ReadEvent, InLoop, ReadsEvents, Holds
<1>4. /\ Head(inbox) \in InInbox /\ InInbox' \subseteq InInbox /\ InboxRising'
      /\ Before({Head(inbox)}, InInbox')
  BY <1>1, InboxTail DEF SysInv, EventInv, InInbox, InboxRising
<1>5. StagesOrdered' /\ AllPublished'
  BY <1>1, <1>2, <1>3, <1>4 DEF EventInv, StagesOrdered, AllPublished, Before
<1> QED
  BY <1>2, <1>4, <1>5 DEF EventInv

LEMMA LoopStep ==
  ASSUME SysInv, EventInv, EventLoop
  PROVE  EventInv'
<1>1. inbox' = inbox /\ published' = published /\ loop.at # "read"
  BY DEF EventLoop, HandleEvent, SendStats
<1>2. InLoop = {loop.event} /\ loop.event \in EventNr
  BY <1>1, StagesTyped DEF InLoop, SysInv
<1>3. InInbox' = InInbox /\ InboxRising'
  BY <1>1 DEF EventInv, InInbox, InboxRising
<1>4. CASE queued' = queued
  <2>1. QueuedEvents' = QueuedEvents /\ EventsInOrder'
    BY <1>4 DEF EventInv, QueuedEvents, EventsInOrder
  <2>2. InLoop' \subseteq InLoop
    BY <1>2 DEF EventLoop, HandleEvent, SendStats, InLoop, ReadsEvents, Collects
  <2>3. StagesOrdered' /\ AllPublished'
    BY <1>1, <1>3, <2>1, <2>2 DEF EventInv, StagesOrdered, AllPublished, Before
  <2> QED
    BY <1>3, <2>1, <2>3 DEF EventInv
<1>5. CASE queued' = Append(queued, Event(loop.event)) /\ loop' = ReadsEvents
  <2>1. InLoop' = {}
    BY <1>5 DEF InLoop, ReadsEvents
  <2>2. Event(loop.event) \in Output
    BY <1>2 DEF Output
  <2>3. \A n \in EventNr : Event(loop.event) = Event(n) => n = loop.event
    BY EventKinds
  <2>4. Before(QueuedEvents, {loop.event}) /\ Before({loop.event}, InInbox)
    BY <1>2 DEF EventInv, StagesOrdered
  <2>5. EventsInOrder' /\ QueuedEvents' \subseteq QueuedEvents \union {loop.event}
    BY <1>5, <2>2, <2>3, <2>4, OutputInOrder DEF SysInv, EventInv
  <2>6. StagesOrdered'
    BY <1>3, <2>1, <2>4, <2>5 DEF EventInv, StagesOrdered, Before
  <2>7. AllPublished'
    BY <1>1, <1>2, <1>3, <2>1, <2>5 DEF EventInv, AllPublished
  <2> QED
    BY <1>3, <2>5, <2>6, <2>7 DEF EventInv
<1> QED
  BY <1>4, <1>5 DEF EventLoop, HandleEvent, SendStats, TrySend, ChannelUnchanged

LEMMA EventInvStep ==
  ASSUME SysInv, EventInv, [Next]_vars
  PROVE  EventInv'
<1>1. ASSUME NEW c \in Command, MessageTask(c) \/ ProgramEnds(c) PROVE EventInv'
  <2>1. UNCHANGED <<loop, inbox, published>>
    BY <1>1 DEF MessageTask, ProgramEnds, Reject, StartProgram, FinishCommand, AnswerExec
  <2>2. CASE queued' = queued
    BY <2>1, <2>2, OtherSteps
  <2>3. ASSUME NEW r \in {"output", "error"}, queued' = Append(queued, Exec(c, r)) PROVE EventInv'
    <3>1. Exec(c, r) \in Output /\ Exec(c, r).kind # "event"
      BY DEF Output, Exec
    <3> QED
      BY <2>1, <2>3, <3>1, OtherSteps
  <2>4. CASE FinishCommand(c) /\ outcome[c] = "ok" /\ queued' = Append(queued, Ack(c, reply[c]))
    <3>1. reply[c] \in Command
      BY <2>4 DEF SysInv, CmdInv, ReplyMatches
    <3>2. Ack(c, reply[c]) \in Output /\ Ack(c, reply[c]).kind # "event"
      BY <3>1 DEF Output, Ack
    <3> QED
      BY <2>1, <2>4, <3>2, OtherSteps
  <2> QED
    BY <1>1, <2>2, <2>3, <2>4 DEF MessageTask, ProgramEnds, Reject, StartProgram, FinishCommand,
       AnswerExec, TrySend, ChannelUnchanged
<1>2. ASSUME NEW t \in Task, NEW c \in Command, SendToConcentratord(t, c) PROVE EventInv'
  BY <1>2, OtherSteps DEF SendToConcentratord, ChannelUnchanged
<1>3. ASSUME NEW t \in Task, ThreadStep(t) PROVE EventInv'
  BY <1>3, OtherSteps DEF ThreadStep, busVars
<1>4. ASSUME NEW p \in inFlight, ConcentratordServes(p) PROVE EventInv'
  BY <1>4, OtherSteps DEF ConcentratordServes, ChannelUnchanged
<1>5. CASE OpenChannel \/ TakeOutput \/ UNCHANGED vars
  BY <1>5, OtherSteps DEF OpenChannel, TakeOutput, vars, busVars
<1> QED
  BY <1>1, <1>2, <1>3, <1>4, <1>5, PublishStep, ReadStep, LoopStep DEF Next

\* The events of Concentratord reach the publish channel in the order it published
\* them, and none twice, whichever it misses, drops or fails to complete.
THEOREM EventsAlwaysInOrder == Spec => []EventsInOrder
<1>1. SysInv /\ EventInv /\ [Next]_vars => EventInv'
  BY EventInvStep
<1>2. EventInv => EventsInOrder
  BY DEF EventInv
<1> QED
  BY <1>1, <1>2, EventInvInit, SysInvAlways, PTL DEF Spec
=============================================================================
