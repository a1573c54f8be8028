---------------------------- MODULE GatewayStats ----------------------------
(***************************************************************************)
(* The counters of the Semtech UDP backend (struct Stats): packets         *)
(* received, packets emitted, and one counter per acknowledgement status.  *)
(* The per-frequency and per-modulation maps of the code are incremented   *)
(* together with rx_count and tx_count and cleared together with them; the *)
(* model keeps the totals only.                                            *)
(***************************************************************************)
EXTENDS Naturals, Sequences, FiniteSets

CONSTANT Failure        \* the statuses of gw::TxAckStatus that report an error

ASSUME FailureAssumption ==
  /\ Failure # {}
  /\ "OK" \notin Failure
  /\ "IGNORED" \notin Failure

\* What a packet forwarder can answer, and what an item of an ack can hold.
Reported  == Failure \union {"OK"}
AckStatus == Reported \union {"IGNORED"}

\* The items of a downlink frame, told apart by what the code does with them:
\*   "good"           PullResp::from_proto translates it
\*   "untranslatable" from_proto rejects its timing, its modulation parameters
\*                    or its context, tx_info and modulation being present
\*   "no_tx_info"     tx_info or tx_info.modulation is missing: from_proto
\*                    rejects it, and so does count_downlink
ItemKind == {"good", "untranslatable", "no_tx_info"}

Stats == [rx : Nat, tx : Nat, status : [Reported -> Nat]]

ZeroStats == [rx |-> 0, tx |-> 0, status |-> [s \in Reported |-> 0]]

CountUplink(stats) == [rx |-> stats.rx + 1, tx |-> stats.tx, status |-> stats.status]

\* The position at which count_downlink gives up: an OK for an item that has
\* no tx_info.  Everything before it, and its own status, is already counted.
CountFailsAt(items, acks, i) ==
  /\ i \in DOMAIN acks \intersect DOMAIN items
  /\ acks[i] = "OK"
  /\ items[i] = "no_tx_info"

CountFails(items, acks) == \E i \in DOMAIN acks : CountFailsAt(items, acks, i)

Counted(items, acks) ==
  {i \in DOMAIN acks : /\ acks[i] # "IGNORED"
                       /\ \A j \in DOMAIN acks : j < i => ~CountFailsAt(items, acks, j)}

\* The items counted as emitted: acknowledged OK, and still an item of the frame.
Emitted(items, acks) ==
  {i \in Counted(items, acks) : /\ acks[i] = "OK"
                                /\ i \in DOMAIN items
                                /\ ~CountFailsAt(items, acks, i)}

CountDownlink(stats, items, acks) ==
  [rx     |-> stats.rx,
   tx     |-> stats.tx + Cardinality(Emitted(items, acks)),
   status |-> [s \in Reported |->
                 stats.status[s] + Cardinality({i \in Counted(items, acks) : acks[i] = s})]]
=============================================================================
