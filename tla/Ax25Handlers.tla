----------------------------- MODULE Ax25Handlers -----------------------------
(***************************************************************************)
(* The handlers of ax25_link.c: what a link does on a frame from the       *)
(* radio, on a timer, on the channel it asked for, and on a change of the  *)
(* channel.  Each takes the link S and gives the link after the call.      *)
(***************************************************************************)
EXTENDS Ax25Link

Dm(f) == ax25_u_frame("cr_res", "DM", f)
Ua(f) == ax25_u_frame("cr_res", "UA", f)

-----------------------------------------------------------------------------
(* I frames.                                                               *)

dl_data_indication(S, infos) == [S EXCEPT !.up = @ \o infos]

(* How many frames after the one just received are already kept.           *)
Following(S) ==
  CHOOSE c \in 0..(Modulo - 1) :
    /\ \A j \in 1..c : S.rxdata_by_ns[AX25MODULO(S.vr + j)] # NULL
    /\ c = Modulo - 1 \/ S.rxdata_by_ns[AX25MODULO(S.vr + c + 1)] = NULL

(* Mutant: only the frame expected is given up.                            *)
InSequenceAlone(S, info) == dl_data_indication([S EXCEPT !.vr = AX25MODULO(@ + 1)], <<info>>)

(* Mutant: the frame expected is given up again for each that follows.     *)
InSequenceAgain(S, info) ==
  LET c == Following(S) IN
  dl_data_indication(
    [S EXCEPT !.vr = AX25MODULO(@ + c + 1),
              !.rxdata_by_ns = [x \in Number |-> IF Ahead(S.vr, x) <= c THEN NULL ELSE @[x]]],
    [j \in 1..(c + 1) |-> info])

(* The frame expected: give it up with those that follow.                  *)
InSequence(S, info) ==
  LET c == Following(S) IN
  dl_data_indication(
    [S EXCEPT !.vr = AX25MODULO(@ + c + 1),
              !.rxdata_by_ns = [x \in Number |-> IF Ahead(S.vr, x) <= c THEN NULL ELSE @[x]]],
    <<info>> \o [j \in 1..c |-> S.rxdata_by_ns[AX25MODULO(S.vr + j)]])

(* Mutant: an acknowledgement is noted but the channel is not asked for.   *)
AcknowledgeQuietly(S, p) ==
  IF p = 1 THEN enquiry_response(S, 1) ELSE [S EXCEPT !.acknowledge_pending = TRUE]

(* At once when polled, else when the channel is ours.                     *)
Acknowledge(S, p) ==
  IF p = 1 THEN enquiry_response(S, 1)
  ELSE IF S.acknowledge_pending THEN S
  ELSE lm_seize_request([S EXCEPT !.acknowledge_pending = TRUE])

(* 63 in the code, "generous", which modulo 8 is 7: any number but V(R)    *)
(* and the one before it.                                                  *)
is_ns_in_window(S, ns) ==
  0 < Ahead(S.vr, ns) /\ Ahead(S.vr, ns) < Modulo - 1

(* The first number of the gap that ends before ns, as a distance from     *)
(* V(R).                                                                   *)
GapStart(S, ns) ==
  LET d == Ahead(S.vr, ns)
      kept(j) == S.rxdata_by_ns[AX25MODULO(S.vr + j)] # NULL
  IN CHOOSE a \in 0..(d - 1) :
       /\ \A j \in a..(d - 1) : ~kept(j)
       /\ a = 0 \/ kept(a - 1)

(* One SREJ per missing frame, with F = 1 when it says that all before are *)
(* there.                                                                  *)
send_srej_frames(S, ns) ==
  LET a == GapStart(S, ns)
      ask(i) == AX25MODULO(S.vr + a + i - 1)
  IN [S EXCEPT !.acknowledge_pending = @ /\ a # 0,
               !.out = @ \o [i \in 1..(Ahead(S.vr, ns) - a) |->
                  <<TQ_PRIO_1_LO, ax25_s_frame("cr_res", "SREJ", ask(i),
                                               IF ask(i) = S.vr THEN 1 ELSE 0)>>]]

OutOfSequence(S, p, ns, info) ==
  LET T == [S EXCEPT !.rxdata_by_ns = [@ EXCEPT ![ns] = info]]
  IN CASE is_ns_in_window(S, ns) /\ p = 1 -> enquiry_response(T, 1)
       [] is_ns_in_window(S, ns) /\ p = 0 ->
            IF S.rxdata_by_ns[AX25MODULO(ns - 1)] = NULL THEN send_srej_frames(T, ns) ELSE T
       [] ~is_ns_in_window(S, ns) -> IF p = 1 THEN enquiry_response(S, 1) ELSE S

i_frame_continued(S, p, ns, info) ==
  IF ns = S.vr THEN Acknowledge(InSequence(S, info), p) ELSE OutOfSequence(S, p, ns, info)

i_frame(S, cr, p, nr, ns, info) ==
  CASE S.state = state_1_awaiting_connection -> S
    [] S.state \in {state_0_disconnected, state_2_awaiting_release} -> RefuseCommand(S, cr, p)
    [] S.state \in Connected ->
         IF info \in TooLong \/ ~is_good_nr(S, nr) THEN nr_error_recovery(S)
         ELSE LET T == check_i_frame_ackd(S, nr)
                  U == IF T.state = state_4_timer_recovery /\ T.va = T.vs THEN CaughtUp(T) ELSE T
              IN i_frame_continued(U, p, ns, info)

-----------------------------------------------------------------------------
(* Supervisory frames.                                                     *)

(* In timer recovery, the answer to the enquiry.                           *)
FinalResponse(S, nr) ==
  LET T == SET_VA(stop_t1(S), nr) IN
  IF ~is_good_nr(S, nr) THEN nr_error_recovery(stop_t1(S))
  ELSE IF T.vs = T.va THEN CaughtUp(T) ELSE RetransmitFrom(T, nr)

rr_rnr_frame(S, ready, cr, pf, nr) ==
  LET T == [S EXCEPT !.peer_receiver_busy = ~ready]
      U == check_need_for_response(T, cr, pf)
      V == SET_VA(U, nr)
  IN CASE S.state = state_1_awaiting_connection -> S
       [] S.state \in {state_0_disconnected, state_2_awaiting_release} -> RefuseCommand(S, cr, pf)
       [] S.state = state_3_connected ->
            IF is_good_nr(S, nr) THEN check_i_frame_ackd(U, nr) ELSE nr_error_recovery(U)
       [] S.state = state_4_timer_recovery ->
            IF cr = "cr_res" /\ pf = 1 THEN FinalResponse(T, nr)
            ELSE IF ~is_good_nr(S, nr) THEN nr_error_recovery(U)
            ELSE IF cr = "cr_res" /\ V.vs = V.va THEN CaughtUp(V) ELSE V

rej_frame(S, cr, pf, nr) ==
  LET T == [S EXCEPT !.peer_receiver_busy = FALSE]
      U == check_need_for_response(T, cr, pf)
      V == SET_VA(U, nr)
  IN CASE S.state = state_1_awaiting_connection -> S
       [] S.state \in {state_0_disconnected, state_2_awaiting_release} -> RefuseCommand(S, cr, pf)
       [] S.state = state_3_connected ->
            IF is_good_nr(S, nr) THEN RetransmitFrom(stop_t1(V), nr) ELSE nr_error_recovery(U)
       [] S.state = state_4_timer_recovery ->
            IF cr = "cr_res" /\ pf = 1 THEN FinalResponse(T, nr)
            ELSE IF ~is_good_nr(S, nr) THEN nr_error_recovery(U)
            ELSE IF V.vs # V.va THEN RetransmitFrom(V, nr) ELSE V

(* Frames asked for by number; T1 runs again only if one was there.        *)
resend_for_srej(S, numbers) ==
  IF \A i \in DOMAIN numbers : S.txdata_by_ns[numbers[i]] = NULL THEN S
  ELSE start_t1(stop_t3([Resend(S, numbers) EXCEPT !.acknowledge_pending = FALSE]))

srej_frame(S, f, nr, more) ==
  LET T == stop_t1([S EXCEPT !.peer_receiver_busy = FALSE])
      U == IF f = 1 THEN SET_VA(T, nr) ELSE T
  IN CASE S.state \notin Connected -> S
       [] S.state \in Connected /\ ~is_good_nr(S, nr) ->
            nr_error_recovery([S EXCEPT !.peer_receiver_busy = FALSE])
       [] S.state = state_3_connected /\ is_good_nr(S, nr) ->
            resend_for_srej(start_t3(U), <<nr>> \o more)
       [] S.state = state_4_timer_recovery /\ is_good_nr(S, nr) ->
            IF U.vs = U.va THEN CaughtUp(U) ELSE resend_for_srej(U, <<nr>> \o more)

-----------------------------------------------------------------------------
(* Unnumbered frames.                                                      *)

(* Mutant: V(R) stays.                                                     *)
ResetSendNumbers(S) == SET_VA([S EXCEPT !.vs = 0], 0)

(* SET_VS(0), SET_VA(0), SET_VR(0).                                        *)
ResetNumbers(S) == [SET_VA([S EXCEPT !.vs = 0], 0) EXCEPT !.vr = 0]

sabm_frame(S, p) ==
  LET T == clear_exception_conditions(SendLow(S, Ua(p)))
      U == IF S.vs # S.va THEN discard_i_queue(T) ELSE T
  IN CASE S.state = state_0_disconnected ->
            enter_new_state([start_t3(ResetNumbers(T)) EXCEPT !.rc = 0], state_3_connected)
       [] S.state = state_1_awaiting_connection -> SendLow(S, Ua(p))
       [] S.state = state_2_awaiting_release -> lm_data_request(S, TQ_PRIO_0_HI, Dm(p))
       [] S.state \in Connected -> CaughtUp(ResetNumbers(U))

disc_frame(S, p) ==
  CASE S.state \in {state_0_disconnected, state_1_awaiting_connection} -> SendLow(S, Dm(p))
    [] S.state = state_2_awaiting_release -> lm_data_request(S, TQ_PRIO_0_HI, Ua(p))
    [] S.state \in Connected -> Disconnect(SendLow(S, Ua(p)))

dm_frame(S, f) ==
  CASE S.state = state_0_disconnected -> S
    [] S.state = state_1_awaiting_connection ->
         IF f = 1 THEN enter_new_state(stop_t1(discard_i_queue(S)), state_0_disconnected) ELSE S
    [] S.state = state_2_awaiting_release ->
         IF f = 1 THEN enter_new_state(stop_t1(S), state_0_disconnected) ELSE S
    [] S.state \in Connected -> Disconnect(S)

ua_frame(S, f) ==
  CASE S.state = state_0_disconnected -> S
    [] S.state = state_1_awaiting_connection -> IF f = 1 THEN CaughtUp(ResetNumbers(S)) ELSE S
    [] S.state = state_2_awaiting_release ->
         IF f = 1 THEN enter_new_state(stop_t1(S), state_0_disconnected) ELSE S
    [] S.state \in Connected -> nr_error_recovery(S)

frmr_frame(S) == IF S.state \in Connected THEN nr_error_recovery(S) ELSE S

ui_frame(S, cr, pf) ==
  CASE cr # "cr_cmd" \/ pf = 0 -> S
    [] cr = "cr_cmd" /\ pf = 1 ->
         IF S.state \in Connected THEN enquiry_response(S, pf) ELSE SendLow(S, Dm(pf))
-----------------------------------------------------------------------------
(* The calls the main loop makes.                                          *)

(* The type and the numbers are what ax25_frame_type says of the frame.    *)
Dispatch(S, f) ==
  CASE f.type = "I"    -> i_frame(S, f.cr, f.pf, f.nr, f.ns, f.info)
    [] f.type = "RR"   -> rr_rnr_frame(S, TRUE, f.cr, f.pf, f.nr)
    [] f.type = "RNR"  -> rr_rnr_frame(S, FALSE, f.cr, f.pf, f.nr)
    [] f.type = "REJ"  -> rej_frame(S, f.cr, f.pf, f.nr)
    [] f.type = "SREJ" -> srej_frame(S, f.pf, f.nr, f.more)
    [] f.type = "SABM" -> sabm_frame(S, f.pf)
    [] f.type = "DISC" -> disc_frame(S, f.pf)
    [] f.type = "DM"   -> dm_frame(S, f.pf)
    [] f.type = "UA"   -> ua_frame(S, f.pf)
    [] f.type = "FRMR" -> frmr_frame(S)
    [] f.type = "UI"   -> ui_frame(S, f.cr, f.pf)
    [] f.type \in {"U", "null"} -> S

lm_data_indication(S, f) ==
  LET T == Dispatch(S, f) IN
  IF T.state \in Connected /\ ToSend(T) # 0 THEN lm_seize_request(T) ELSE T

lm_seize_confirm(S) ==
  LET T == i_frame_pop_off_queue(S) IN
  CASE S.state \notin Connected -> S
    [] S.state \in Connected -> IF T.acknowledge_pending THEN enquiry_response(T, 0) ELSE T

lm_channel_busy(S, busy) ==
  LET T == [S EXCEPT !.radio_channel_busy = busy] IN
  CASE busy = S.radio_channel_busy -> S
    [] busy /\ ~S.radio_channel_busy -> pause_t1(T)
    [] ~busy /\ S.radio_channel_busy -> resume_t1(T)

(* Mutants: tries counted downwards; a try too many; tries not counted.    *)
RetryCountedDown(S, type) ==
  IF S.rc = n2_retry THEN enter_new_state(S, state_0_disconnected)
  ELSE start_t1(SendLow([S EXCEPT !.rc = @ - 1], ax25_u_frame("cr_cmd", type, 1)))
RetryOnceMore(S, type) ==
  IF S.rc = n2_retry + 1 THEN enter_new_state(S, state_0_disconnected)
  ELSE start_t1(SendLow([S EXCEPT !.rc = @ + 1], ax25_u_frame("cr_cmd", type, 1)))
RetryUncounted(S, type) ==
  IF S.rc = n2_retry THEN enter_new_state(S, state_0_disconnected)
  ELSE start_t1(SendLow(S, ax25_u_frame("cr_cmd", type, 1)))

(* One more try of a SABM or a DISC, or the end of them.                   *)
RetryCommand(S, type) ==
  IF S.rc = n2_retry
  THEN enter_new_state(IF type = "SABM" THEN discard_i_queue(S) ELSE S, state_0_disconnected)
  ELSE start_t1(SendLow([S EXCEPT !.rc = @ + 1], ax25_u_frame("cr_cmd", type, 1)))

(* The enquiry that begins timer recovery.                                 *)
BeginRecovery(S) ==
  enter_new_state(transmit_enquiry([S EXCEPT !.rc = 1]), state_4_timer_recovery)

t1_expiry(S) ==
  CASE S.state = state_0_disconnected -> S
    [] S.state = state_1_awaiting_connection -> RetryCommand(S, "SABM")
    [] S.state = state_2_awaiting_release -> RetryCommand(S, "DISC")
    [] S.state = state_3_connected -> BeginRecovery(S)
    [] S.state = state_4_timer_recovery ->
         IF S.rc = n2_retry
         THEN enter_new_state(SendLow(discard_i_queue(S), Dm(0)), state_0_disconnected)
         ELSE transmit_enquiry([S EXCEPT !.rc = @ + 1])

t3_expiry(S) == IF S.state = state_3_connected THEN BeginRecovery(S) ELSE S

(* dl_timer_expiry for either timer: T1 unless it is paused.               *)
t1_may_expire(S) == S.t1 /\ ~S.t1_paused
dl_timer_t1(S) == t1_expiry([S EXCEPT !.t1 = FALSE, !.t1_paused = FALSE])
dl_timer_t3(S) == t3_expiry([S EXCEPT !.t3 = FALSE])
=============================================================================
