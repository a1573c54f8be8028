-------------------------- MODULE DownlinkDelivery --------------------------
(***************************************************************************)
(* What the gateway promises the network server about a downlink frame:    *)
(* its items are tried in order until one is emitted, no item is tried     *)
(* twice, and at most one acknowledgement is given, which says for every   *)
(* item what really happened to it.  Nothing is promised about when, or    *)
(* whether, the next item is tried or the acknowledgement is given.        *)
(***************************************************************************)
EXTENDS GatewayStats

CONSTANTS DownlinkId, NumItems     \* NumItems[d]: how many items frame d has

VARIABLES outcome,   \* outcome[d]: the statuses of the items tried, in order
          answer     \* answer[d]: the acknowledgements given

Done(d) == \E i \in DOMAIN outcome[d] : outcome[d][i] = "OK"

Init ==
  /\ outcome = [d \in DownlinkId |-> <<>>]
  /\ answer = [d \in DownlinkId |-> <<>>]

Try(d) ==
  /\ ~Done(d)
  /\ Len(outcome[d]) < NumItems[d]
  /\ \E s \in Reported : outcome' = [outcome EXCEPT ![d] = Append(@, s)]
  /\ UNCHANGED answer

\* The outcomes, with IGNORED for every item that was never tried.
Report(d) ==
  [i \in 1 .. NumItems[d] |-> IF i \in DOMAIN outcome[d] THEN outcome[d][i] ELSE "IGNORED"]

Answer(d) ==
  /\ answer[d] = <<>>
  /\ Done(d) \/ (NumItems[d] > 0 /\ Len(outcome[d]) = NumItems[d])
  /\ answer' = [answer EXCEPT ![d] = <<Report(d)>>]
  /\ UNCHANGED outcome

Next == \E d \in DownlinkId : Try(d) \/ Answer(d)

Spec == Init /\ [][Next]_<<outcome, answer>>
=============================================================================
