------------------------------- MODULE DataLink -------------------------------
(***************************************************************************)
(* One data link of a station, run by the main thread: a frame from the    *)
(* radio, a confirmed request for the channel, a change of the channel or  *)
(* an expired timer is handled from end to end before the next.            *)
(*                                                                         *)
(* The peer is not modelled here: any frame of Frames may come at any      *)
(* time, so what is stated below holds against any peer, whatever is lost, *)
(* repeated or reordered on the way.                                       *)
(*                                                                         *)
(* The client is outside this code: no source file has the functions that  *)
(* a client's connect, disconnect and data requests would call.  They are  *)
(* modelled from the states they would leave: state 1 as                   *)
(* establish_data_link leaves it, state 2 as t1_expiry continues it, and   *)
(* i_frame_queue as i_frame_pop_off_queue finds it.                        *)
(***************************************************************************)
EXTENDS Ax25Handlers, FiniteSets

CONSTANTS
  Frames,       \* the frames that may come
  MaxQueue,     \* bounds of an instance: frames the client has waiting,
  MaxRequests   \* requests for the channel that are under way

ASSUME DataLinkAssumption ==
  /\ Frames \subseteq Frame
  /\ MaxQueue \in Nat
  /\ MaxRequests \in Nat

VARIABLES
  link,      \* the ax25_dlsm_t; its out and up are taken by the step that fills them
  requests,  \* null frames in the transmit queue, each to come back as a confirm
  dropped,   \* history: since an acknowledgement is due, a null frame was given up
  stalled    \* history: in timer recovery, an SREJ that asks for nothing there is
             \* stopped T1, which has not run since

vars == <<link, requests, dropped, stalled>>

Null(e) == e[2].type = "null"
Requested(S) == Cardinality({i \in DOMAIN S.out : Null(S.out[i])})

(* The peer is told to resend by number, the number is the next one to be  *)
(* sent, which is_good_nr allows, and no more are kept of those it asks    *)
(* for besides.                                                            *)
AsksForNothing(S, f) ==
  /\ S.state = state_4_timer_recovery /\ S.vs # S.va
  /\ f.type = "SREJ" /\ f.pf = 0 /\ f.nr = S.vs
  /\ \A i \in DOMAIN f.more : S.txdata_by_ns[f.more[i]] = NULL

(* The link becomes S; what it sent and delivered goes on its way.         *)
Becomes(S) ==
  /\ link' = [S EXCEPT !.out = << >>, !.up = << >>]
  /\ dropped' = (dropped /\ S.acknowledge_pending)

Stalls(S, now) ==
  stalled' = ((stalled \/ now) /\ S.state = state_4_timer_recovery /\ ~S.t1)

Init ==
  /\ link = NewLink
  /\ requests = 0
  /\ dropped = FALSE
  /\ stalled = FALSE

(* rx_process: RXQ_REC_FRAME.                                              *)
ReceiveFrame ==
  \E f \in Frames :
    LET S == lm_data_indication(link, f) IN
    /\ Becomes(S) /\ Stalls(S, AsksForNothing(link, f))
    /\ requests' = requests + Requested(S)
    /\ requests' \in 0..MaxRequests

(* RXQ_SEIZE_CONFIRM: for a null frame, or for the start of any            *)
(* transmission (transmit_thread.c:364), which answers no request.         *)
SeizeConfirmed ==
  /\ Becomes(lm_seize_confirm(link)) /\ Stalls(lm_seize_confirm(link), FALSE)
  /\ requests' \in {requests, requests - 1} \cap Nat

(* RXQ_CHANNEL_BUSY: builds with DEBUG_TX report their own transmissions.  *)
ChannelChanges(busy) ==
  /\ Becomes(lm_channel_busy(link, busy)) /\ Stalls(lm_channel_busy(link, busy), FALSE)
  /\ UNCHANGED requests

(* dl_timer_expiry.                                                        *)
T1Expires ==
  /\ t1_may_expire(link)
  /\ Becomes(dl_timer_t1(link)) /\ Stalls(dl_timer_t1(link), FALSE)
  /\ UNCHANGED requests

T3Expires ==
  /\ link.t3
  /\ Becomes(dl_timer_t3(link)) /\ Stalls(dl_timer_t3(link), FALSE)
  /\ UNCHANGED requests

(* After 60 s of a busy channel the transmit thread drops what it holds.   *)
RequestGivenUp ==
  /\ requests > 0
  /\ requests' = requests - 1
  /\ dropped' = link.acknowledge_pending
  /\ UNCHANGED <<link, stalled>>

(* The client.                                                             *)
Connects(S) == nr_error_recovery(S)

Disconnects(S) ==
  enter_new_state(start_t1(stop_t3(SendLow([discard_i_queue(S) EXCEPT !.rc = 0],
                                           ax25_u_frame("cr_cmd", "DISC", 1)))),
                  state_2_awaiting_release)

ClientConnects ==
  /\ link.state = state_0_disconnected
  /\ Becomes(Connects(link)) /\ Stalls(Connects(link), FALSE)
  /\ UNCHANGED requests

ClientDisconnects ==
  /\ link.state \in Connected
  /\ Becomes(Disconnects(link)) /\ Stalls(Disconnects(link), FALSE)
  /\ UNCHANGED requests

ClientSends ==
  /\ link.state \in Connected
  /\ Len(link.i_frame_queue) < MaxQueue
  /\ requests < MaxRequests
  /\ \E info \in Info \ TooLong :
       link' = [link EXCEPT !.i_frame_queue = Append(@, info)]
  /\ requests' = requests + 1
  /\ UNCHANGED <<dropped, stalled>>

Next ==
  \/ ReceiveFrame \/ SeizeConfirmed \/ ChannelChanges(TRUE) \/ ChannelChanges(FALSE)
  \/ T1Expires \/ T3Expires
  \/ RequestGivenUp
  \/ ClientConnects \/ ClientDisconnects \/ ClientSends

Spec == Init /\ [][Next]_vars

(* A transmission ends, and the channel is reported free.  T1 counts the   *)
(* time the channel is free (resume_t1 adds the rest), so while it runs it *)
(* expires in the end if the channel is free again and again: the main     *)
(* thread serves timers once no items wait.                                *)
FairSpec == Spec /\ WF_vars(ChannelChanges(FALSE)) /\ SF_vars(T1Expires)

-----------------------------------------------------------------------------
(* The fields keep their types, and nothing is left in out and up.         *)
TypeOK ==
  /\ link \in Link
  /\ link.out = << >> /\ link.up = << >>
  /\ requests \in Nat
  /\ dropped \in BOOLEAN
  /\ stalled \in BOOLEAN

(* What was sent and is not acknowledged is kept for sending again: never  *)
(* more than the window, and with an empty slot below it, so that SET_VA,  *)
(* which frees downwards until it finds one, stops at the window's end     *)
(* however often the numbers have gone round.                              *)
OutstandingIsKept ==
  /\ Outstanding(link) <= k_maxframe
  /\ \A n \in Number : Ahead(link.va, n) < Outstanding(link) => link.txdata_by_ns[n] # NULL
  /\ link.txdata_by_ns[AX25MODULO(link.va - 1)] = NULL

(* A frame kept out of sequence is given up as soon as it is the next: the *)
(* slot of the number expected is always empty, and so is the one before.  *)
ExpectedIsNotKept ==
  /\ link.rxdata_by_ns[link.vr] = NULL
  /\ link.rxdata_by_ns[AX25MODULO(link.vr - 1)] = NULL

(* A link that waits for its peer has a timer that will end the wait.  In  *)
(* timer recovery T1 is it, and one frame alone makes it stop for good: an *)
(* SREJ without F that asks for the frame not yet sent and for no other    *)
(* that is kept (ax25_link.c:1298, 1317), until the peer sends a frame     *)
(* that starts it.                                                         *)
TimerDrivesLink ==
  /\ link.state \in {state_1_awaiting_connection, state_2_awaiting_release} => link.t1
  /\ link.state = state_3_connected => link.t1 \/ link.t3
  /\ link.state = state_4_timer_recovery => link.t1 \/ stalled

(* T1 stands still exactly while the channel is busy, through every start  *)
(* and stop in between.                                                    *)
PausedWhileBusy == link.t1 => link.t1_paused = link.radio_channel_busy

(* An acknowledgement that is due has asked for the channel, and the       *)
(* answer will send it, unless the transmit thread gave the request up.    *)
AckIsOnItsWay ==
  link.state \in Connected /\ link.acknowledge_pending => requests > 0 \/ dropped

(* The test for the last try is for equality: rc never passes n2_retry.    *)
RetriesCounted ==
  link.state \notin {state_0_disconnected, state_3_connected} => link.rc <= n2_retry

(* V(A) only moves over frames that were sent, or is reset with V(S).      *)
AcksOnlyWhatWasSent ==
  [][\/ Ahead(link.va, link'.va) <= Outstanding(link)
     \/ link'.va = 0 /\ link'.vs = 0]_vars

(* "Number of times to retry before giving up" (config.c:663): once the    *)
(* peer is silent for good, a timer recovery ends after the last try.      *)
RecoveryGivesUp ==
  <>[][~ReceiveFrame]_vars =>
    (link.state = state_4_timer_recovery ~> link.state # state_4_timer_recovery)

(* A connect or disconnect the peer never answers comes to an end.         *)
RetriesEnd ==
  link.state \in {state_1_awaiting_connection, state_2_awaiting_release}
    ~> link.state \notin {state_1_awaiting_connection, state_2_awaiting_release}
=============================================================================
