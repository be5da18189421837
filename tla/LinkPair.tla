------------------------------- MODULE LinkPair -------------------------------
(***************************************************************************)
(* Two stations and the channel between them.  A's client has connected    *)
(* and sends numbered parts to B, which keeps what comes out of sequence   *)
(* and asks for what is missing.                                           *)
(*                                                                         *)
(* Each station's frames wait in its transmit queue; the transmit thread   *)
(* takes the first and it is heard by the peer or lost.  A null frame is   *)
(* not sent: it comes back as a confirm, and so does the beginning of any  *)
(* transmission (transmit_thread.c:345, 364).  The confirms are counted,   *)
(* since other items of the receive queue may be handled before one.  The  *)
(* frames of the higher priority are the answers of a link that is being   *)
(* released, which does not happen here, so one queue stands for both.     *)
(***************************************************************************)
EXTENDS Ax25Handlers

CONSTANTS
  Parts,      \* how many parts the client has
  MaxTx,      \* bounds of an instance: frames in a transmit queue to which a
              \* timer or the client still adds,
  MaxConfirms \* confirms on their way to a link

ASSUME LinkPairAssumption ==
  /\ Parts \in Nat /\ Info = 1..Parts
  /\ TooLong = {}
  /\ MaxTx \in Nat /\ MaxConfirms \in Nat

VARIABLES
  link,      \* the two links
  txq,       \* the two transmit queues
  confirms,  \* confirms under way to the two links
  accepted,  \* parts the client of A has handed over
  given,     \* parts given to the client of B
  stale      \* history: A began to connect again with a SABM or a UA of its last
             \* attempt still under way, which nothing tells from those of the new

vars == <<link, txq, confirms, accepted, given, stale>>

Station == {"A", "B"}
Peer(s) == CHOOSE p \in Station : p # s

(* Mutant: the C bits are read.                                            *)
ReceivedAsSent(f) == f

(* What ax25_frame_type makes of the C bits of any frame: both command and *)
(* response (Il2pFrame, ReadAsBoth).                                       *)
Received(f) == [f EXCEPT !.cr = "cr_11"]

FramesOf(out) == [i \in DOMAIN out |-> out[i][2]]

(* The link of s becomes S; queue is what is left in its transmit queue    *)
(* before.                                                                 *)
Becomes(s, S) ==
  /\ link' = [link EXCEPT ![s] = [S EXCEPT !.out = << >>, !.up = << >>]]
  /\ given' = IF s = "B" THEN given \o S.up ELSE given

Queued(s, S) == txq[s] \o FramesOf(S.out)

Init ==
  /\ link = [s \in Station |->
               [(IF s = "A" THEN nr_error_recovery(NewLink) ELSE NewLink) EXCEPT !.out = << >>]]
  /\ txq = [s \in Station |-> IF s = "A" THEN FramesOf(nr_error_recovery(NewLink).out) ELSE << >>]
  /\ confirms = [s \in Station |-> 0]
  /\ accepted = 0
  /\ given = << >>
  /\ stale = FALSE

InQueue(q, type) == \E i \in DOMAIN q : q[i].type = type

(* A UA in state 3 or 4 (ax25_link.c:1617) begins a new attempt; others of *)
(* the last may follow it.                                                 *)
OvertakesItself(s) ==
  /\ s = "B" /\ Head(txq["B"]).type = "UA" /\ link["A"].state \in Connected
  /\ InQueue(txq["A"], "SABM") \/ InQueue(Tail(txq["B"]), "UA")

Confirm(s) ==
  /\ confirms[s] < MaxConfirms
  /\ confirms' = [confirms EXCEPT ![s] = @ + 1]

(* The first frame of the queue goes out and is heard.                     *)
Heard(s) ==
  LET p == Peer(s)
      f == Head(txq[s])
      S == lm_data_indication(link[p], Received(f))
  IN /\ txq[s] # << >> /\ f.type # "null"
     /\ Becomes(p, S)
     /\ txq' = [txq EXCEPT ![s] = Tail(@), ![p] = Queued(p, S)]
     /\ Confirm(s) \/ UNCHANGED confirms
     /\ stale' = (stale \/ OvertakesItself(s))
     /\ UNCHANGED accepted

Lost(s) ==
  /\ txq[s] # << >> /\ Head(txq[s]).type # "null"
  /\ txq' = [txq EXCEPT ![s] = Tail(@)]
  /\ Confirm(s) \/ UNCHANGED confirms
  /\ UNCHANGED <<link, accepted, given, stale>>

NullFrameTaken(s) ==
  /\ txq[s] # << >> /\ Head(txq[s]).type = "null"
  /\ txq' = [txq EXCEPT ![s] = Tail(@)]
  /\ Confirm(s)
  /\ UNCHANGED <<link, accepted, given, stale>>

(* The link of s handles something that is not a frame.                    *)
Handles(s, S) ==
  /\ Becomes(s, S)
  /\ txq' = [txq EXCEPT ![s] = Queued(s, S)]
  /\ UNCHANGED <<accepted, stale>>

SeizeConfirmed(s) ==
  /\ confirms[s] > 0
  /\ confirms' = [confirms EXCEPT ![s] = @ - 1]
  /\ Handles(s, lm_seize_confirm(link[s]))

T1Expires(s) ==
  /\ t1_may_expire(link[s]) /\ Len(txq[s]) < MaxTx
  /\ Handles(s, dl_timer_t1(link[s]))
  /\ UNCHANGED confirms

T3Expires(s) ==
  /\ link[s].t3 /\ Len(txq[s]) < MaxTx
  /\ Handles(s, dl_timer_t3(link[s]))
  /\ UNCHANGED confirms

ClientSends ==
  /\ link["A"].state \in Connected
  /\ accepted < Parts /\ Len(txq["A"]) < MaxTx
  /\ accepted' = accepted + 1
  /\ link' = [link EXCEPT !["A"].i_frame_queue = Append(@, accepted + 1)]
  /\ txq' = [txq EXCEPT !["A"] = Append(@, NullFrame)]
  /\ UNCHANGED <<confirms, given, stale>>

Next ==
  \/ \E s \in Station :
       \/ Heard(s) \/ Lost(s) \/ NullFrameTaken(s)
       \/ SeizeConfirmed(s) \/ T1Expires(s) \/ T3Expires(s)
  \/ ClientSends

Spec == Init /\ [][Next]_vars

(* The transmit thread takes what is queued, the main thread serves the    *)
(* receive queue and the timers; nothing says that a frame is ever heard.  *)
(* The first two are weak fairness of the thread's and of the confirm's    *)
(* steps, which are possible as long as something waits.                   *)
HeadTaken(s) == txq[s] # << >> /\ txq'[s] = Tail(txq[s])
Fairness ==
  \A s \in Station :
    /\ []<>(txq[s] = << >>) \/ []<><<HeadTaken(s)>>_txq
    /\ []<>(confirms[s] = 0) \/ []<><<confirms'[s] < confirms[s]>>_confirms
    /\ WF_vars(T1Expires(s))

FairSpec == Spec /\ Fairness

-----------------------------------------------------------------------------
(* A is connected, and not by a UA of an earlier attempt: its numbers and   *)
(* B's count from the same part, whatever is still under way.              *)
Agreed == ~stale /\ link["A"].state \in Connected

(* What B expects next is among what A has not yet heard to be received:   *)
(* from the first it keeps to the next it will send.                       *)
NumbersAgree ==
  Agreed => Ahead(link["A"].va, link["B"].vr) <= Outstanding(link["A"])

(* A frame that B keeps out of sequence is the one A keeps under the same  *)
(* number.                                                                 *)
StashIsWhatWasSent ==
  Agreed => \A n \in Number : link["B"].rxdata_by_ns[n] # NULL =>
              link["B"].rxdata_by_ns[n] = link["A"].txdata_by_ns[n]

(* A part that A keeps, queued or sent, is given to B's client, or the     *)
(* link is broken or reset: A never stays connected with a part that       *)
(* nobody will send again, unless it took an old UA for a new one.         *)
Keeps(S, n) ==
  \/ \E i \in DOMAIN S.i_frame_queue : S.i_frame_queue[i] = n
  \/ \E x \in Number : Ahead(S.va, x) < Outstanding(S) /\ S.txdata_by_ns[x] = n
GivenOrBroken ==
  \A n \in Info :
    link["A"].state \in Connected /\ Keeps(link["A"], n)
      ~> (\E i \in DOMAIN given : given[i] = n) \/ link["A"].state \notin Connected \/ stale

(* A timer recovery comes to an end, by an acknowledgement or by the last  *)
(* try.                                                                    *)
RecoveryEnds ==
  \A s \in Station :
    link[s].state = state_4_timer_recovery ~> link[s].state # state_4_timer_recovery

Service == INSTANCE LinkService WITH
  accepted <- accepted,
  given <- given,
  broken <- stale

(* The parts are given in order and at most once, as long as A does not    *)
(* take an old UA for a new one.                                           *)
ImplementsService == Service!ServiceSpec
=============================================================================
