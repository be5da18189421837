------------------------------ MODULE LinkService ------------------------------
(***************************************************************************)
(* What a data link promises its two clients: of the parts one of them     *)
(* hands over, numbered in that order, the other is given each at most     *)
(* once and none before one that was given earlier.  Parts may be lost:    *)
(* when the link is reset or broken, nothing says how far the peer got.    *)
(* The promise ends when the two stations take their numbers from          *)
(* different connections, which neither can tell.                          *)
(***************************************************************************)
EXTENDS Naturals, Sequences

VARIABLES
  accepted,  \* parts handed over
  given,     \* the parts given, in the order they were
  broken     \* the promise has ended

ServiceInit == accepted = 0 /\ given = << >> /\ broken = FALSE

Accept == accepted' = accepted + 1 /\ UNCHANGED <<given, broken>>

(* History h goes on from g with parts that were accepted, each of them    *)
(* after the one before it, be that the last of g.                         *)
Continues(g, h, parts) ==
  /\ Len(g) < Len(h) /\ SubSeq(h, 1, Len(g)) = g
  /\ \A i \in (Len(g) + 1)..Len(h) :
       /\ h[i] \in 1..parts
       /\ i > 1 => h[i - 1] < h[i]

(* One call may give several.                                              *)
Give == Continues(given, given', accepted) /\ UNCHANGED <<accepted, broken>>

ServiceNext == Accept \/ Give \/ broken'

ServiceSpec == ServiceInit /\ [][ServiceNext]_<<accepted, given, broken>>
=============================================================================
