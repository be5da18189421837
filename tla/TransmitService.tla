---------------------------- MODULE TransmitService ----------------------------
(***************************************************************************)
(* What the transmit side of IPNode promises to those who queue packets,   *)
(* without threads, peeks, locks or the channel: packets leave each        *)
(* priority in the order they came, one at a time; a packet is put on the  *)
(* air only inside a transmission and given up only outside one; a         *)
(* transmission begins with a packet in hand, confirms the channel to the  *)
(* link once when it begins and once per null frame, carries at most       *)
(* MaxFrames frames and leaves nothing in hand when it ends.               *)
(***************************************************************************)
EXTENDS Naturals, Sequences

CONSTANTS Packets, NullFrames, Unencodable, NULL, MaxFrames

VARIABLES
  pending,   \* per priority, the packets that wait
  fate,      \* per packet, "unused", "live" or how it ended
  hand,      \* the packet being handled, or NULL
  keyed,     \* a transmission is in progress
  carried,   \* frames it has carried
  confirms   \* seize confirms given to the link

vars == <<pending, fate, hand, keyed, carried, confirms>>

Init ==
  /\ pending = [prio \in {0, 1} |-> << >>]
  /\ fate = [p \in Packets |-> "unused"]
  /\ hand = NULL
  /\ keyed = FALSE
  /\ carried = 0
  /\ confirms = 0

(* Someone queues a packet; a null frame only at low priority.             *)
Submit ==
  /\ \E p \in Packets, prio \in {0, 1} :
       /\ fate[p] = "unused"
       /\ p \in NullFrames => prio = 1
       /\ fate' = [fate EXCEPT ![p] = "live"]
       /\ pending' = [pending EXCEPT ![prio] = Append(@, p)]
  /\ UNCHANGED <<hand, keyed, carried, confirms>>

Take ==
  /\ hand = NULL
  /\ keyed => carried < MaxFrames
  /\ \E prio \in {0, 1} :
       /\ pending[prio] # << >>
       /\ hand' = Head(pending[prio])
       /\ pending' = [pending EXCEPT ![prio] = Tail(@)]
  /\ UNCHANGED <<fate, keyed, carried, confirms>>

Key ==
  /\ ~keyed
  /\ hand # NULL
  /\ keyed' = TRUE
  /\ carried' = 0
  /\ confirms' = confirms + 1
  /\ UNCHANGED <<pending, fate, hand>>

Finish(how) ==
  /\ hand # NULL
  /\ fate' = [fate EXCEPT ![hand] = how]
  /\ hand' = NULL
  /\ UNCHANGED <<pending, keyed>>

GiveUp == ~keyed /\ Finish("dropped") /\ UNCHANGED <<carried, confirms>>

Send ==
  /\ keyed
  /\ hand \in Packets \ (NullFrames \cup Unencodable)
  /\ Finish("sent")
  /\ carried < MaxFrames
  /\ carried' = carried + 1
  /\ UNCHANGED confirms

Reject ==
  /\ keyed
  /\ hand \in Unencodable
  /\ Finish("unencodable")
  /\ UNCHANGED <<carried, confirms>>

Confirm ==
  /\ keyed
  /\ hand \in NullFrames
  /\ Finish("confirmed")
  /\ confirms' = confirms + 1
  /\ UNCHANGED carried

Unkey ==
  /\ keyed
  /\ hand = NULL
  /\ keyed' = FALSE
  /\ carried' = 0
  /\ UNCHANGED <<pending, fate, hand, confirms>>

Next ==
  \/ Submit \/ Take \/ Key \/ GiveUp
  \/ Send \/ Reject \/ Confirm \/ Unkey

Spec == Init /\ [][Next]_vars
=============================================================================
