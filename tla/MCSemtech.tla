------------------------------ MODULE MCSemtech ------------------------------
(* Instances of the Semtech UDP system for TLC: the frames, the tokens they *)
(* share or not, the PUSH_DATA datagrams, and what may go wrong.            *)
EXTENDS SemtechSystem, TLC

TaskSymmetry == Permutations(Task)

\* Two frames with two items and tokens of their own.
PlainItems == <<<<"good", "good">>, <<"good", "good">>>>

\* A frame that fails to translate half-way next to one that does not.
MixedItems == <<<<"good", "good", "good">>, <<"good", "untranslatable">>>>

\* Three frames that share a token modulo 2: one with nothing that can
\* be sent, a good one, and one without items.
CollidingItems == (1 :> <<"no_tx_info">>) @@ (3 :> <<"good", "good">>) @@ (5 :> <<>>)

StatOnly == {[frames |-> <<>>, stat |-> TRUE, valid |-> TRUE]}

Wanted   == [crc |-> "ok", matches |-> TRUE]
BadCrc   == [crc |-> "bad", matches |-> TRUE]
Filtered == [crc |-> "ok", matches |-> FALSE]

Datagrams ==
  {[frames |-> <<Wanted, BadCrc, Wanted>>, stat |-> TRUE, valid |-> TRUE],
   [frames |-> <<Filtered, Wanted>>, stat |-> FALSE, valid |-> TRUE],
   [frames |-> <<>>, stat |-> TRUE, valid |-> TRUE],
   [frames |-> <<Wanted>>, stat |-> TRUE, valid |-> FALSE]}

Only(occasions) == [o \in Occasion |-> IF o \in occasions THEN 1 ELSE 0]
With(commands, occasions) == [Only(occasions) EXCEPT !["command"] = commands]

ReliableBudgets == {With(2, {"lose", "expire", "restart", "move", "push"})}
LiveBudgets     == {With(2, {"push", "metadata"}), With(2, {"move", "restart", "lose"})}

\* Many uplinks next to one downlink, and three downlinks that collide.
MixedBudgets ==
  {[With(1, {"metadata", "restart"}) EXCEPT !["push"] = 3], With(3, {"duplicate", "redeliver"})}
=============================================================================
