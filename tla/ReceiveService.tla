---------------------------- MODULE ReceiveService ----------------------------
(***************************************************************************)
(* What the receive side of IPNode promises to those who queue items: the  *)
(* main thread handles them one at a time, in the order they came, each to *)
(* the end - a received frame is offered to the KISS client and then given *)
(* to the data link, anything else goes to the data link - and the link's  *)
(* timers run only between items.                                          *)
(***************************************************************************)
EXTENDS Naturals, Sequences

CONSTANTS Items, NULL

VARIABLES
  pending,   \* the items that wait
  current,   \* the one being handled, or NULL
  stage,     \* how far it is: "taken", "offered" or "indicated"
  expiring   \* the timer handlers are running

vars == <<pending, current, stage, expiring>>

Init ==
  /\ pending = << >>
  /\ current = NULL
  /\ stage = "taken"
  /\ expiring = FALSE

Arrive ==
  /\ \E i \in Items :
       /\ i # current
       /\ \A k \in 1..Len(pending) : pending[k] # i
       /\ pending' = Append(pending, i)
  /\ UNCHANGED <<current, stage, expiring>>

Take ==
  /\ current = NULL
  /\ ~expiring
  /\ pending # << >>
  /\ current' = Head(pending)
  /\ pending' = Tail(pending)
  /\ stage' = "taken"
  /\ UNCHANGED expiring

Offer ==
  /\ current # NULL
  /\ stage = "taken"
  /\ stage' = "offered"
  /\ UNCHANGED <<pending, current, expiring>>

Indicate ==
  /\ current # NULL
  /\ stage \in {"taken", "offered"}
  /\ stage' = "indicated"
  /\ UNCHANGED <<pending, current, expiring>>

Finish ==
  /\ current # NULL
  /\ stage = "indicated"
  /\ current' = NULL
  /\ stage' = "taken"
  /\ UNCHANGED <<pending, expiring>>

Expire ==
  /\ current = NULL
  /\ expiring' = ~expiring
  /\ UNCHANGED <<pending, current, stage>>

Next == Arrive \/ Take \/ Offer \/ Indicate \/ Finish \/ Expire

Spec == Init /\ [][Next]_vars
=============================================================================
