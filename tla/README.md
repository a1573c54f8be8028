# Verification of the ChirpStack MQTT Forwarder

TLA+ models of `chirpstack-mqtt-forwarder`, the TLC configurations that check
them, and theorems about them checked by the TLA+ proof system (tlapm). Line
numbers refer to the files under `src/src/`.

1. [The system](#1-the-system) - the inventory
2. [Modules](#2-modules) - what models what
3. [Runs](#3-runs) - what is checked, bounds, fairness, what breaks a property
4. [Theorems](#4-theorems) - what is proved and how
5. [Findings](#5-findings)
6. [Not modelled, or only in part](#6-not-modelled-or-only-in-part)
7. [Plan](#7-plan)

## 1. The system

The forwarder runs on a LoRa gateway. On one side is a *packet forwarder*:
either a Semtech UDP packet forwarder or the ChirpStack Concentratord, one
*backend* for each. On the other side is an MQTT broker. Uplink frames and
statistics go from the backend to the broker as *events*; downlink frames,
configurations and remote commands come from the broker as *commands*.

```
 packet forwarder --UDP--> semtech_udp --try_send--> PUB_CHANNEL --> publish loop --> rumqttc --> broker
                  <--UDP--      ^                                                      |
                                |                                                      |
 Concentratord ---ZeroMQ--> concentratord <--one tokio task for each command-- message_callback
                                                                                       |
                                                            commands::exec  <----------+
 main: setup, signal handler (SIGHUP), mqtt::run in a loop
```

| component | file | state | operations | interacts with |
|---|---|---|---|---|
| Semtech UDP backend | `backend/semtech_udp/mod.rs` | downlink cache, pull address, gateway id, `Stats` | PULL_DATA, PUSH_DATA, TX_ACK; `send_downlink_frame`; statistics | UDP socket; `PUB_CHANNEL` (`mqtt::send_*`); metadata; called by command tasks |
| Semtech UDP codec | `backend/semtech_udp/structs.rs` | none | decoding datagrams, converting to and from `gw` messages | the backend |
| Concentratord backend | `backend/concentratord.rs` | REQ socket behind a mutex, SUB socket, gateway id | `send_command`, `reconnect_cmd_sock`; event loop | ZeroMQ; `PUB_CHANNEL`; metadata; called by command tasks |
| Backend facade | `backend/mod.rs` | the global backend | `setup`, which waits for a gateway id; dispatch | main, mqtt |
| MQTT client | `mqtt.rs` | `PUB_CHANNEL`, the rumqttc client, the subscribe channel | event loop, (re)subscribe loop, publish loop; `message_callback` | broker; backend; commands; main's termination channel |
| Process lifecycle | `main.rs` | broadcast channel for termination | setup, SIGHUP handler, the loop over `mqtt::run` | all |
| Commands | `commands.rs` | configured programs | `exec` | programs run as child processes; called by command tasks |
| Metadata | `metadata.rs` | static values, programs, delimiter | `setup`, `get` | child processes; called by both backends for every stats message |
| Configuration | `config.rs`, `cmd/configfile.rs` | the settings | `get`; printing the template | files, environment; read by all |
| Logging, TLS helpers, Packaging | `logging.rs`, the end of `mqtt.rs`, `packaging/` | - | - | - |

What is hard, and what makes each component correct:

* **Semtech UDP backend.** A downlink frame is a list of *items* to be tried in
  order (say, RX1 then RX2). Each item is a PULL_RESP; its TX_ACK carries only a
  16-bit token, and the frame, the statuses so far and the index of the item are
  found in a cache under that token. The receive loop *copies* the entry, releases
  the lock, and stores a successor later; the command tasks store entries under
  the same tokens. Datagrams are lost, duplicated and reordered, entries expire
  after 60 seconds, and a restart loses the cache while datagrams are on their
  way. Correct means: items in order, none after a success, one acknowledgement,
  which is true; no mixture of two frames in one entry; no panic (the release
  profile aborts on panic); every packet counted in exactly one statistics
  report; PULL_RESPs go where the forwarder is.
* **MQTT client.** Three tasks and the connection, coupled by two bounded
  queues and a one-slot signal. The event loop is the only one that drains the
  request queue, and signals a task that may be waiting for room in it. Correct
  means: subscribed and announced ONLINE in the end whatever breaks; events in
  order, never dropped by the program itself.
* **Process lifecycle.** The handler of SIGHUP and the main task meet in a
  channel whose receiver exists only at times. Correct means: a SIGHUP that was
  heard leads to the new certificates being used, and nothing more.
* **Concentratord backend.** `send_command` uses the socket in one critical
  section and repairs it after an error in a second one; in both it blocks a
  worker thread of the asynchronous runtime, of which there are as many as cores,
  and which everything else needs too. Correct means: a command gets its own
  reply, and an acknowledgement is the truth about its downlink; the socket is
  usable when nobody uses it, and nobody loses it while waiting; blocked threads
  come back, whatever Concentratord does; events keep their order.
* **Codec.** Numbers change their width and their unit on the way from a
  reception to the server, back as a downlink, and back as an acknowledgement,
  through a counter that wraps every 71 minutes. Each conversion looks right on
  its own; correct means that the *ends* agree: a downlink starts when the server
  wanted it to, set up as it wanted, and it learns whether it did.
* **Configuration and metadata.** Environment variables are replaced in whatever
  order in the whole text, programs run in the order of a hash map, names are
  glued together from parts. Correct means: the result depends on none of this,
  and a file that is printed can be read.

`PROJECT.json` lists under `hazards` each place where something of this kind
can go wrong, with the properties that would show it.

## 2. Modules

| module | models | role |
|---|---|---|
| `GatewayStats` | `Stats`, `count_uplink`, `count_downlink`, `export_stats` | constant-level operators on the counters |
| `SemtechUdp` | `backend/semtech_udp/mod.rs`: the receive loop, the handlers, `send_downlink_frame`, the cache | the component: state, one action per step |
| `SemtechSystem` | `SemtechUdp` composed with packet forwarder, UDP network, clock, MQTT client, restarts | specification, fairness, properties |
| `DownlinkDelivery` | the promise about downlinks | abstract specification that `SemtechSystem` implements |
| `Codec` | `structs.rs`: code rates, data rates, `RxPk`, `PullResp::from_proto`, `TxAck` | constant-level operators on the values |
| `Exchange` | `Codec` composed with radio, packet forwarder and server: one conversation from reception to acknowledgement | specification and properties |
| `MqttClient` | `mqtt.rs` `run`: three tasks, and the broker | specification and properties |
| `Lifecycle` | `main.rs`, `setup` in `backend/mod.rs`, the frame of `mqtt::run` | specification and properties |
| `ConcentratordCmd` | `send_command`, `reconnect_cmd_sock` | the component, and the properties of the socket |
| `ConcentratordSystem` | `ConcentratordCmd` composed with `message_callback`, `commands::exec`, the event loop, `PUB_CHANNEL` and the worker threads | specification, fairness, properties |
| `Configuration` | `config.rs`, `cmd/configfile.rs` | the component and its properties |
| `Metadata` | `metadata.rs`, on what `Configuration` has loaded | specification and properties |
| `SemtechProofs`, `DeliveryProofs` | - | theorems about `SemtechSystem`; the second, without repeats and collisions, about its implementing `DownlinkDelivery` and about what it gives up |
| `ConcentratordProofs`, `LifecycleProofs`, `MqttProofs` | - | theorems about `ConcentratordSystem`, `Lifecycle` and `MqttClient` |
| `ExchangeProofs`, `SettingsProofs` | - | theorems about `Exchange`, and about `Configuration` and `Metadata` |
| `DataLemmas` | - | facts about division, induction, `FlattenSeq` and substitution in texts that `ExchangeProofs`, `SettingsProofs` and `MqttProofs` need |
| `MCSemtech`, `MCExchange`, `MCMqtt`, `MCConcentratord`, `MCSettings` | - | constants for TLC |

`PROJECT.json` maps every definition to the lines it models. Operators whose
comment starts with *Mutant of* are not part of any specification. Each is the
form a plausible bug would give the operator named, and is there to show that
the properties can fail: with the operator replaced by it, TLC must find the
property listed with it violated.

### SemtechUdp and SemtechSystem

The receive loop handles one datagram at a time, so `LoopReady` guards all
handlers. Where the code can be preempted in between with an effect others can
see, the handler is split:

* `send_downlink_frame` is two steps of its process (a task, or the loop for a
  retry): `SetDownlinkCache`, then `TransmitPullResp`, which does nothing if the
  item does not translate or there is no pull address. `job[p]` is the call.
* `handle_tx_ack`: `TxAckUnknown`, `TxAckFinal` (count, then acknowledge),
  `TxAckPanic` (`ack_items[index]` out of bounds), or `TxAckRetry`, which copies
  the entry into a `job` of the loop; the next two steps are then
  `send_downlink_frame` in the loop, interleaved with the tasks.
  `get_downlink_cache` removes all expired entries first (`CleanedCache`).
* `handle_push_data` goes frame by frame (`IgnoreFrame`, `ForwardFrame`), then
  exports and resets the counters (`ExportStats`), then collects the metadata
  and queues the report (`SendGatewayStats`). A full channel, or one not yet
  created, ends it early with the counters already changed, as in the code.

The data kept of a frame is what the code tells apart: how many items it has
and of which kind (`ItemKind`). An uplink is its CRC status and whether it passes
the filters. `acked` and `ledger` are history, as are `frame`, `index` and
`copy` in a datagram. `radio`, `home` and `commanded` belong to the environment.
Sockets are sets of datagrams: any order, and a duplicate is a separate copy.

The packet forwarder is modelled from what the backend expects of it. It sends
PULL_DATA from its address, and for every PULL_RESP that reaches it, it tries
the item once and answers with a TX_ACK. It may move to another address. Each
fault, each new command and each PUSH_DATA is an *occasion* with a budget. A run
starts with any of the budgets it is given (`Budgets`), so that one run looks at
several mixtures of traffic and faults; the theorems hold for every set of them.

### MqttClient

Events are numbers in the order they are produced. `held` is the event the
publish loop has taken from the channel and not yet put in the request queue.
rumqttc is external: `requests` is its bounded request queue, `unacked` what
QoS 1 repeats if the broker kept the session (repeats come before the queue,
over its capacity). The connection is FIFO both ways; `link = "broken"` is the
time in which the operating system still accepts what goes nowhere. The broker
publishes the will when it finds the client gone, or when the client connects
again before that. `Terminate` is `set.shutdown()`: it aborts the tasks wherever
they wait and drops the client.

A run starts with any of the setups it is given: QoS 0 or 1, what the broker does with
sessions, and how often each fault may happen.

### Lifecycle

`main` walks through setup (`SetUpFails` if one of the setups does), subscribing
to the termination channel, starting the client, serving, shutting down. `StartClient`
reads the certificate files. When they are incomplete it either panics (a
certificate or a key that cannot be read) or serves with what there is of them,
for `get_root_certs` skips what it cannot parse in a CA file (`mqtt.rs:539`);
`loaded` is the version of the files read, whole or not. `HandleHup`
is `terminate_tx.send(()).unwrap()`: without a receiver it panics, and a panic
in any task aborts. Several pending SIGHUPs are one, and a second message
replaces an unread first. Before the handler is installed SIGHUP kills, and
systemd does not restart what SIGHUP killed (`Restart=on-failure`).

### ConcentratordCmd and ConcentratordSystem

`Send`/`Receive`/`Timeout` happen with the mutex held; `SendRefused` is the
failure of `send` on a REQ socket that still awaits a reply. `Reconnect` is the
second critical section. Sockets have numbers, and a reply belongs to one.
A time-out may happen although the reply is there: the poll can be interrupted.

In `ConcentratordSystem` a member of `Task` is a worker thread of the runtime.
`send_command` is not `async` inside: the mutex, the poll and the sleep between
two attempts to replace the socket block the thread (`step[t]` other than
"idle"). Everything else that runs on the runtime - rejecting a message,
starting a program, answering it, handling an event, taking from the channel -
needs a free one (`FreeThread`). Reading an event runs in the blocking pool and
needs none. `message[c]` is the task of the message `c`, which may start at any
time after the others (`message_callback` is spawned for each message).
`handle_event_msg` is `HandleEvent` and, for stats, `SendStats` after the metadata.

### Codec and Exchange

An rxpk or txpk object is a record with the fields the program reads or writes.
Numbers keep their width: `U8`, `U16`, `U32` are `%` of `Byte`, `Word`, `DoubleWord`
(products of bytes), and `Kilo`, `Mega`, `Giga` tie the units (seconds to
nanoseconds, kilohertz to hertz). `\div` stands where the code divides integers or
truncates. The strings of code rates and
modulations are kept, as the conversions are tables of them.

`Exchange` closes the loop that the conversions are part of. The radio receives
a batch at some time of the clock; the packet forwarder reports the counter in
microseconds, the GPS time in milliseconds and the fine time in nanoseconds;
`Push` makes frames, or none if an object cannot be read or converted, or aborts the
process at a numeric data rate that is no unsigned integer (`unwrap` at
`structs.rs:209`; `Restart`); the server answers one of them with a context, a delay or
GPS time, and settings; `SendDownlinkFrame` makes a txpk object; the packet
forwarder starts at the value of the counter or at the GPS time (`StartTime`),
unless that has passed; `TxAck` reports. What is assumed of the outside is named:
nothing takes as long as the counter takes to come round (`CounterOutlasts`), and
the packet forwarder says that it emitted exactly when it did (`ForwarderTruthful`).
The properties relate the ends of this chain and mention a conversion only where
the code says that values are cut.

### Configuration and Metadata

A document is a set of entries (table, key, type, text). A text is a sequence of
words, plain or references, and a name a sequence of syllables: so "one name
starts with another" and "two parts give the name of a third" can happen, which
is what matters. `Read` concatenates the files, or none (`ReadFails` if one cannot be
read), `Replace` is one round of the loop over the environment in any order, `Parse`
is `toml::from_str` with the types in `Schema`. `Configfile` prints, with what the template does to each entry:
`PrintedTable`, `PrintedEntry`, `Printable`. `Metadata` extends it from the settings
loaded: `Setup`, and `get` as `Begin`, one `RunCommand` for each program in any order,
`Publish`.

## 3. Runs

| run | question | properties | instance |
|---|---|---|---|
| `downlink_reliable` | Does the backend implement the promise, without duplicates, redeliveries and collisions, and give up a frame only for a fault? | `DeliverySpec`, `ItemsTriedInOrder`, `EmissionsNotOvercounted`, `GivenUpOnlyOnFault` | a frame of three items and one whose second does not translate; two addresses; one each of loss, expiry, restart, move, PUSH_DATA |
| `downlink_live` | Is a frame that was sent always answered, and do PULL_RESPs go to the right place again? | `DownlinkAnswered`, `PullAddrSettles` | two frames of two items with PUSH_DATA and failing metadata between; or with a move, a restart and a loss |
| `mixed_traffic` | What survives colliding tokens, redelivered commands and duplicates? Is every uplink in exactly one report? | `TypeOK`, `AcksWellFormed`, `AbortsOnlyOnCollision`, `EntriesInProgress`, `UplinksCountedOnce` | three frames with one token, one of them empty, and two tasks; or one frame next to three PUSH_DATA with wanted, filtered and bad frames, failing metadata and a restart |
| `mqtt_faults` | Order, loss, coming online; does QoS 1 deliver all that was accepted? | `TypeOK`, `DeliveredInOrder`, `LostOnlyOnReload`, `OnlineWhenSettled`, `KeptUntilDelivered`, `EventuallyOnline`, `AtLeastOnce` | QoS 0 with three events and one each of break, refusal, rejection, reload, sessions kept or not; QoS 1 with two events, two breaks, a rejection, sessions kept |
| `mqtt_reload` | *violation*: see [Findings](#5-findings) | `EventsSurviveReload` | one reload |
| `lifecycle` | Does every SIGHUP that was heard load the certificates, once? | `TypeOK`, `OneReloadPerHup`, `NoHupForgotten`, `ReloadLoadsCertificates` | three versions, three SIGHUPs, two faults: half-done replacements or failing setups |
| `hup_abort` | *violation*: see [Findings](#5-findings) | `HupDuringReloadNeverAborts` | the same |
| `concentratord` | Replies, acks, sockets, events, progress | `TypeOK`, `ReplyMatches`, `IdleSocketReady`, `AcksTruthful`, `EventsInOrder`, `NeverReplacedInUse`, `WorkEnds` | two threads, one socket failure, a channel of one; four mixtures of messages and events, among them three commands that block both threads |
| `exchange` | Do the ends of a conversation agree? | `TypeOK`, `FramesFaithful`, `ReceiveWindow`, `EmittedAsCommanded`, `AckFaithful` | thirteen batches, three instants of which one is just before the counter wraps, seventeen items, three travel times of which one is too late, six reports |
| `codec_modu` | *violation*: see [Findings](#5-findings) | `FskNamedAsDocumented` | the same |
| `settings` | Do settings and metadata depend only on what they should? | `EnvironmentApplied`, `PrintedKeepsSettings`, `MetadataAsConfigured` | none, one or two of four files, or one that cannot be read, four environments, nine outcomes of a program |
| `configfile_loads` | *violation*: see [Findings](#5-findings) | `TemplateLoads` | the same |

**Bounds.** Two frames are enough for one to disturb the other; three items
(in `downlink_reliable`) give a first, a middle and a last one, so that the
comparison `index >= len - 1` is met on both sides. The token modulus of 2
(65536 in the code) makes collisions happen with frames 1, 3 and 5. A publish
channel of one and a request queue of one are full after one step, which is when
the code takes its error paths. One failure status stands for all: the code
distinguishes only OK from the others. Occasions are bounded by budgets: one of
each covers every pair of *different* faults, and two breaks under QoS 1 repeat a
repeat. Two threads are all blocked as soon as two commands wait for one
socket, and a third command then waits for a thread. A byte of 4 values and a
"thousand" of 4 give a counter of 256 values that wraps after 1024 ns; a second
is 64 ns, so a delay of one or two of them crosses the wrap, as it may in the
code, and every product of units is still a different number. Numbers outside the
byte are met on both sides (a power of -1, a board of 5, a preamble of 17). In
`settings` HOST is the start of HOSTNAME, and both are used or one of them, the value
of a variable that is used, or is not, refers to another, and the lines of two programs may come to
one name. What is proved below holds without any of these bounds.
Symmetry (of tasks) is used in `mixed_traffic`, which has safety properties only.
Deadlock is checked wherever the system goes on for ever; `MqttClient`,
`Lifecycle` and `ConcentratordSystem` do stop when their bounded events are over, so it
is off there, and the liveness properties take its place.

**Fairness.** Weak for tokio tasks and the receive loop, which the runtime keeps
polling; for the publish task; for programs run for metadata, which are taken to
end (nothing in the code bounds them; listed as a hazard). Strong for receiving a
given datagram, for the socket hands datagrams over in their order while the
loop is busy now and then. Strong for the mutex of the command path, and strong
for what needs a free worker thread, which comes and goes. The
external parts are assumed to do their duty: the forwarder polls and answers,
a connection that holds carries packets, the broker answers, systemd restarts.
Nothing is assumed about commands, faults, uplinks, the clock, the programs of exec
commands, or whether Concentratord answers at all. In `downlink_live` the
publish channel has room for everything that can be queued: a full channel drops
an acknowledgement, by design, and that is not what the run asks. For the same
reason only frames whose items all translate are promised an answer.

**What each property is for** is said in the comment above it. Those that
depend on their run: `DeliverySpec` does not hold with duplicates,
redeliveries or collisions, and is not claimed to: a duplicated TX_ACK *is* taken
for the answer to the next item. The same goes for `GivenUpOnlyOnFault`: a collision
answers another frame. `AcksWellFormed` and `EntriesInProgress` are what
is left then, and they hold with every fault (and are proved so). `AtLeastOnce` and
`KeptUntilDelivered` are about the setups with QoS 1 and kept sessions. `EnvironmentApplied` has
names that start with one another: it says that a reference gets the value of one of
the variables it may mean. Which one does depend on the order. It supposes only that no
value *that is put in* refers to a variable in its turn (`Settled`).
`FramesFaithful` excepts data rates of more than 32 bits, code rate 5/6, which is
reported as 4/5 (`structs.rs:77`), and 4/8LI, which the program never writes.
`EmittedAsCommanded` compares everything in an emission but its time, and excepts
numbers too large for their field, widths of no whole kilohertz, code rate 4/8 LI,
which is written as 4/5LI (`structs.rs:120`), the undefined one, which is written as
null, and a preamble of no symbols. `PrintedKeepsSettings` excepts what the template
is known to lose.

## 4. Theorems

The theorems hold for every value of the constants that satisfies the named
assumptions of the modules, which TLC evaluates on every run:

* `SemtechProofs`: `FailureAssumption`, `SemtechUdpAssumption`,
  `AbsenceAssumption`, `SemtechSystemAssumption`; any frames, number of tokens, tasks,
  addresses, channel size and budgets of faults. The four theorems of `DeliveryProofs` suppose besides
  that no two frames share a token (`DistinctTokens`) and that nothing is duplicated
  or delivered twice (`NoRepeats`); they are stated as hypotheses of the theorems, for
  the model has the other cases too, and there the conclusions are false. Losses,
  reordering, expiry, restarts and moves of the forwarder are all within.
* `ConcentratordProofs`: `ConcentratordCmdAssumption`,
  `ConcentratordSystemAssumption`; any threads, messages, events, channel size and
  socket failures.
* `LifecycleProofs`: `LifecycleAssumption`; any number of SIGHUPs, replacements
  and faults.
* `MqttProofs`: `MqttClientAssumption`; any number of events, capacities of the
  channel and of the request queue, QoS 0 and 1, and budgets of faults.
* `ExchangeProofs`: `CodecAssumption`, `NoneIsNoText`, `ExchangeAssumption`,
  `CounterOutlasts`, `ForwarderTruthful`; any size of a byte and of a thousand, any
  batches of any length, answers, instants, travel times and reports.
* `SettingsProofs`: `ConfigurationAssumption`, `MetadataAssumption`; any files, number
  of files, environments, programs, outcomes and lines.

| theorem | says |
|---|---|
| `TypeCorrect` | `Spec => []TypeOK` |
| `EntriesAlwaysInProgress` | `Spec => []EntriesInProgress` |
| `AcksAlwaysWellFormed` | `Spec => []AcksWellFormed` |
| `AbortNeedsCollision` | `Spec => []AbortsOnlyOnCollision` |
| `NoEmptyFrameNoAbort` | without frames that have no items, `Spec => []~aborted` |
| `UplinksAlwaysCountedOnce` | `Spec => []UplinksCountedOnce` |
| `DeliveryImplemented` | with distinct tokens and no repeats, `Spec => DeliverySpec`: the refinement |
| `ItemsAlwaysInOrder` | under the same hypotheses, `Spec => []ItemsTriedInOrder` |
| `EmissionsNeverOvercounted` | under the same hypotheses, `Spec => []EmissionsNotOvercounted` |
| `FramesGivenUpOnlyOnFault` | under the same hypotheses, `Spec => GivenUpOnlyOnFault` |
| `SystemTypeCorrect` | `Spec => []TypeOK`, of `ConcentratordSystem` like the next five |
| `AcksAlwaysTruthful` | `Spec => []AcksTruthful` |
| `RepliesAlwaysMatch` | `Spec => []ReplyMatches` |
| `IdleSocketAlwaysReady` | `Spec => []IdleSocketReady` |
| `SocketNeverReplacedInUse` | `Spec => NeverReplacedInUse` |
| `EventsAlwaysInOrder` | `Spec => []EventsInOrder` |
| `LifecycleTypeCorrect` | `Spec => []TypeOK`, of `Lifecycle` like the next two |
| `OneReloadForEachHup` | `Spec => []OneReloadPerHup` |
| `HupsNeverForgotten` | `Spec => []NoHupForgotten` |
| `MqttTypeCorrect` | `Spec => []TypeOK`, of `MqttClient` like the next four |
| `EventsDeliveredInOrder` | `Spec => []DeliveredInOrder` |
| `EventsLostOnlyOnReload` | `Spec => LostOnlyOnReload` |
| `AlwaysOnlineWhenSettled` | `Spec => []OnlineWhenSettled` |
| `EventsKeptUntilDelivered` | `Spec => KeptUntilDelivered` |
| `ExchangeTypeCorrect` | `Spec => []TypeOK`, of `Exchange` like the next four |
| `FramesAlwaysFaithful` | `Spec => []FramesFaithful` |
| `ReceiveWindowAlwaysMet` | `Spec => []ReceiveWindow` |
| `AlwaysEmittedAsCommanded` | `Spec => []EmittedAsCommanded` |
| `AcksAlwaysFaithful` | `Spec => []AckFaithful` |
| `EnvironmentAlwaysApplied` | `Spec => []EnvironmentApplied`, of `Metadata` on `Configuration` like the next two |
| `PrintedAlwaysKeepsSettings` | `Spec => []PrintedKeepsSettings` |
| `MetadataAlwaysAsConfigured` | `Spec => []MetadataAsConfigured` |

* `TypeOK` is inductive; one lemma for each group of actions (`SendStepType`,
  `ReceiveTxAckType`, `PushType`, ...).
* `AckInv == TypeOK /\ EntriesInProgress /\ AcksWellFormed`. `AcksWellFormed` alone is
  not inductive: what is acknowledged comes from the cache, and what is in the
  cache comes from a `job`. The heart is `RetryInProgress` (a failure recorded at
  the index, and the index moved on, is again in progress) and `FinalWellFormed`
  (a final status turns acks in progress into well-formed ones).
* `AbortInv == AckInv /\ Traceable /\ AbortsOnlyOnCollision`. A panic needs an entry
  without items (from `EntriesInProgress`: otherwise the index is in bounds) met
  by a TX_ACK. `Traceable` traces both back: entries, jobs and datagrams to
  commands, and TX_ACKs to what the forwarder tried, under the same token. The
  corollary is immediate: no frame without items, no panic.
* `CountInv == TypeOK /\ UplinksCountedOnce`; the type invariant is needed for the
  arithmetic on counters and ledger.
* `DeliveryInv == AbortInv /\ Unrepeated /\ \A d : FrameInv(d)`. A frame that is under
  way is in one place: one call of `send_downlink_frame`, one PULL_RESP or one TX_ACK
  (`OneCarrier`), and that place is about the item after the last one tried
  (`JobFollows`, `PullRespFollows`, `TxAckFollows`), with statuses that agree with what
  the forwarder did (`EntryFollows`). Without it a step of the refinement would not
  be a step: the cache is read and written by different processes, and an entry says
  nothing of where its frame is. Frames other than the one a step is about keep their
  part by one lemma (`Untouched`); a TX_ACK finds the entry of its own frame because
  tokens are distinct. `StepRefines` maps each step to one of `DownlinkDelivery` or a
  stutter; `ItemsTriedInOrder` is a part of the invariant.
* `EmissionInv` adds that what is counted, in reports, in the counters and in those
  lost, never exceeds the number of frames emitted whose TX_ACK is not on its way any
  more: stronger than `EmissionsNotOvercounted`, as an emission is counted only when
  its TX_ACK arrives.
* `AnswerInv == DeliveryInv /\ OnlyGoodItems /\ ~aborted`. `GivenUpOnlyOnFault` is an
  action property, and the safety half of `DownlinkAnswered`. A TX_ACK for a frame with
  an entry that has not expired finds this entry (`OwnEntry`) and leads to an answer
  or to the next item: the index is in bounds, and `count_downlink` does not fail, for
  what the forwarder tried are items that translate (`AnswerCounts`). The other
  steps keep its calls, datagrams and live entry (`StaysAnswerable`), or spend a fault.
* `CmdInv` (in `ConcentratordProofs`) says what is true of the socket between the
  two critical sections of `send_command`: who waits is who holds the mutex
  (`HolderWaits`); packets belong to the current socket or an older one, once
  (`PacketsOnce`); those of the current one are the waiting task's, or the socket
  awaits a reply nobody waits for (`SocketInv`), and then some task is on its way to
  replace it (`SomebodyCares`). `ReplyMatches` needs the first three, for a late
  reply to a command that was given up must find a socket with another number;
  `IdleSocketReady` is `SomebodyCares` with all tasks idle; `NeverReplacedInUse` is
  an action property that follows from `HolderWaits`.
* `SysInv == CmdInv /\ OneThreadEach /\ RepliesServed /\ TypeOK /\ AcksTruthful`: a
  message is carried by one thread at most, so that its outcome is final; a
  reply, on its way or handed over, is to a command that was served. Then
  `ReplyMatches` (in `CmdInv`) makes the ack that `FinishCommand` queues a true one.
* `EventInv` puts the events of the Concentratord in three places: queued in the
  publish channel, in the hands of the event loop, waiting in the SUB socket. Those
  further on are older (`StagesOrdered`), the socket keeps its order (`InboxRising`),
  and none has been seen before it was published (`AllPublished`). Acks that command
  tasks queue in between disturb none of this.
* `LifeInv == TypeOK /\ OneReloadPerHup /\ MessagesCount /\ CoveredExists /\
  NoHupForgotten`: a message not read yet is worth one reload more
  (`MessagesCount`), and what a SIGHUP covered exists (`CoveredExists`), so that a client
  that starts covers it. `NoHupForgotten` is the safety half of
  `ReloadLoadsCertificates`.

* `TypeInv == TypeOK /\ EventsLeft`: the events the backend may still produce
  have numbers. `OrderInv` says of a client with QoS 0 that nothing awaits an
  acknowledgement and that delivered, on the wire, in the request queue, held, and in the
  channel are five places of which each keeps its order and holds only older
  events than the next; `DeliveredInOrder` is the first of these. Without QoS 0 it
  does not hold: a repeat comes late.
* `EndedEmpty` (a client that has ended holds no event and queues no request) is what
  `EventsLostOnlyOnReload` needs beside the types: the loss is the end of the client,
  not the start of the next. In a step that is neither this nor a write to a
  broken connection, `StepKeeps`.
* `OnlineInv` is the safety half of `EventuallyOnline`: on a connection that is up, a
  subscription that is missing is cared for by somebody, the token, the subscriber,
  a request, a packet or a rejection under way (`SubscriptionCared`), and so is a
  missing ONLINE (`OnlineCared`); when nothing of the kind is left, nothing is missing.
* `SettleInv` is what `KeptUntilDelivered` needs, the safety half of `AtLeastOnce`. A
  PUBACK takes the oldest of `unacked` away without a look at what it is for. That this is
  an event the broker has got is not local: `AcksSettle` says that
  `unacked` is, in order, as many deliveries as there are PUBACKs under way, and
  then just the publishes under way. `NothingStranded` empties the connection
  that goes and the client that ends.
* `ConversationInv` carries through the stages of an exchange what the next conversion
  needs to know of the value it gets: the frames are those of the batch
  (`FramesInv`), the txpk object is that of an item the server made for one of them
  (`CommandFollows`). The work is in lemmas on the conversions: `BigEndianInverse`
  (four bytes mean the number they were made of), `FineTimeExact`, `CounterMeansMoment`
  (a cut counter names one moment if nothing takes as long as it takes to come
  round), `CodeRateInverse` and `DataRateInverse` (reading undoes writing, but for the
  exceptions), and `FramesOfFaithful` (flattening the frames of all receptions gives
  one for each signal, in order, by induction on the batch).
* `SettingsInv` says what is true between two rounds of the loop over the environment:
  each reference that the variables done may mean has one of them as its meaning, and
  the text is the source with these meanings put in, all at once (`ReplacedSoFar`). One
  round more keeps this with the meanings extended by the references that only
  now have one (`OneMore`); `Settled` is what keeps a value that was put in from being
  replaced again. For the
  printed file it says that a loaded configuration has every setting once, with a
  value of its type (`ConfigFits`); `PrintedSettings` then follows place by place
  in the template. `MetadataInv` says that a call under way has found just what the
  programs that ran gave it (`Gathered`), where a line overrides an earlier name.

Folds and `FlattenSeq` are defined by recursion over their argument. The library's
induction theorems take an operator as a parameter, which the provers here cannot
instantiate; `DataLemmas` states induction as a fact about *sets* of numbers and of
sequences instead (`NatSetInduction`, `SeqSetInduction`): a set that contains 0 and
with each number the next contains them all. It follows from the library's
finite-set theorems: otherwise the numbers below a missing one could be shifted by
one, an injection of a finite set into a smaller one. Nothing is taken on trust.
`RECURSIVE` operators are avoided.

Every invariant and action property that a passing run checks is proved, and so is the
refinement. Only model-checked is liveness, as the prover has no rule for fairness and
`ENABLED`: `DownlinkAnswered`, `PullAddrSettles`, `EventuallyOnline`, `AtLeastOnce`,
`ReloadLoadsCertificates`, `WorkEnds`.

## 5. Findings

* **Events do not survive a reload** (`mqtt_reload`, `EventsSurviveReload`). The
  configuration template (`cmd/configfile.rs:111-113`) says of
  `publish_channel_size`: "If the MQTT client unavailable because of e.g.
  certificate reload, messages stay in the channel until the MQTT client is
  back available". `PUB_CHANNEL` does outlive `run()`, but the publish loop moves
  events on into the client's request queue (100 of them) and holds one in its hands;
  `set.shutdown().await` at `mqtt.rs:316` discards both.
* **A second SIGHUP during a reload may abort the process** (`hup_abort`,
  `HupDuringReloadNeverAborts`). `terminate_tx.send(()).unwrap()` at `main.rs:76`
  panics when there is no receiver, which is so between the return of
  `mqtt::run` and the next `subscribe()`; `panic = "abort"` ends the process
  with `PUB_CHANNEL` and the downlink cache. `ReloadLoadsCertificates` still
  holds, through the restart by systemd.
* **FSK downlinks are not named as documented** (`codec_modu`,
  `FskNamedAsDocumented`). The comment on the field (`structs.rs:793`) says
  'Modulation identifier "LORA" or "FSK"'; `Modulation::serialize` writes `Fsk`
  (`structs.rs:231`). Uplinks named `FSK` are rejected likewise, and with them their
  whole datagram.
* **The program cannot read the configuration file it prints**
  (`configfile_loads`, `TemplateLoads`). "Print the configuration template"
  (`main.rs:25`) prints `publish_channel_size=` with nothing after it and
  `reconnect_interval=""`, as the template takes both from `integration.mqtt`, which
  `Configuration` does not have (`cmd/configfile.rs:107,114`), and
  `split_delimiter` below `[metadata.commands]`, whose values are lists
  (`cmd/configfile.rs:237`).

## 6. Not modelled, or only in part

* **Codec**: the frequency (a floating-point product, so that neither
  `FramesFaithful` nor `EmittedAsCommanded` speaks of it), RSSI, SNR, base64 and time
  texts, and the fields of `stat`, which are copied one by one. The abort at a
  numeric data rate is in `Exchange`; the PUSH_DATA of `SemtechSystem` are valid or not, and
  its `AbortsOnlyOnCollision` is about the index panic only. Per-frequency and
  per-modulation counts in the statistics follow the totals.
* **Concentratord system**: what a payload contains; what an exec program is given
  as input and environment; the callbacks on connection events, which are
  programs whose result is only logged.
* **MQTT client**: QoS 2, which is rumqttc's and the broker's longer handshake; what is
  said of QoS 1 is not claimed for it. TLS and the callbacks.
* **Configuration**: references to variables in keys, table names and comments (the code
  replaces there as well), and a reference made of a dollar sign at the end of a
  value and the word that follows; the TOML syntax inside a value, so also a value that breaks
  out of its quotes by what the environment puts in it; files that do not end with
  a newline; an empty delimiter; the parsing of filter prefixes.
* **Logging**: output only. **TLS helpers**: PEM files into library types; what becomes
  of incomplete files is in `Lifecycle`, but not which part of a CA file is read. **Packaging**: scripts and unit files;
  `Restart=on-failure` is in `Lifecycle`.
* **Time** is the expiry of cache entries and of sleeps; intervals have no
  length, except in `Exchange`. Mutex poisoning, memory exhaustion and errors of the
  local socket other than losing a datagram are left out.

## 7. Plan

Done: both backends as composed systems, the Semtech one with an abstract
specification that it provably implements; the codec closed into a loop; the MQTT
client and the lifecycle; configuration and metadata; all safety properties as
theorems, among them the safety halves of `DownlinkAnswered`, `EventuallyOnline`,
`AtLeastOnce` and `ReloadLoadsCertificates`.

Next:

1. *A composed forwarder*: `Lifecycle`, `MqttClient` and a backend over one
   `PUB_CHANNEL`, so that a reload meets downlinks and statistics under way.
2. *Refinements between the modules*: the frame of `mqtt::run` in `Lifecycle` is an
   abstraction of `MqttClient` (`running`), and the publish channel of the backends one
   of its queues; stated as `INSTANCE ... WITH` and proved, they would tie the
   modules together.
