---------------------------- MODULE DataLinkProofs ----------------------------
(***************************************************************************)
(* Proofs about DataLink, for any modulus, window, number of tries and set *)
(* of frames.                                                              *)
(***************************************************************************)
EXTENDS DataLink, LinkFacts, FiniteSetTheorems

-----------------------------------------------------------------------------
(* The client.                                                             *)

LEMMA DisconnectsStep ==
  ASSUME NEW S, LinkInv(S)
  PROVE  Step(S, Disconnects(S))
<1> DEFINE A == discard_i_queue(S)
           B == [A EXCEPT !.rc = 0]
           C == SendLow(B, ax25_u_frame("cr_cmd", "DISC", 1))
           D == stop_t3(C)
           E == start_t1(D)
           F == enter_new_state(E, state_2_awaiting_release)
<1>1. Sound(A) /\ A.va = S.va
  <2>1. Sound(S) /\ Quiet(S, A)
    BY QuietCalls DEF LinkInv, Sound
  <2> HIDE DEF A
  <2>2. QED
    BY <2>1, QuietIsSound DEF Quiet, Same, SameSend
<1> HIDE DEF A
<1>2. Sound(B) /\ B.rc = 0 /\ B.va = A.va
  BY <1>1, SetRc DEF SameSend
<1> HIDE DEF B
<1>3. Sound(C) /\ Same(B, C)
  BY <1>2, QuietCalls, QuietIsSound DEF Sound, Quiet
<1> HIDE DEF C
<1>4. Sound(D) /\ Same(C, D)
  BY <1>3, Timers, TimersSound DEF Sound
<1> HIDE DEF D
<1>5. Sound(E) /\ Same(D, E) /\ E.t1
  BY <1>4, Timers, TimersSound DEF Sound
<1> HIDE DEF E
<1>6. /\ Sound(F) /\ F.state = state_2_awaiting_release /\ F.rc = E.rc
      /\ F.va = E.va /\ F.t1 = E.t1
  <2>1. state_2_awaiting_release \in 0..4
    BY DEF state_2_awaiting_release
  <2>2. QED
    BY <1>5, <2>1, Enter DEF SameTimers, SameSend
<1> HIDE DEF F
<1>7. F.va = S.va /\ F.rc = 0
  BY <1>1, <1>2, <1>3, <1>4, <1>5, <1>6 DEF Same, SameSend, SameControl
<1>8. Settled(F)
  <2>1. RetriesOK(F)
    BY <1>7, LinkAssumption DEF RetriesOK
  <2>2. F.state # state_1_awaiting_connection /\ F.state # state_3_connected
    BY <1>6 DEF state_1_awaiting_connection, state_2_awaiting_release, state_3_connected
  <2>3. QED
    BY <1>5, <1>6, <2>1, <2>2 DEF Settled, WaitsWithTimer
<1>9. Step(S, F)
  BY <1>6, <1>7, <1>8, AckStays DEF Step, LinkInv
<1>10. QED
  BY <1>9 DEF Disconnects, A, B, C, D, E, F

LEMMA SendsStep ==
  ASSUME NEW S, LinkInv(S), NEW info \in Info
  PROVE  Step(S, [S EXCEPT !.i_frame_queue = Append(@, info)])
<1> DEFINE q == Append(S.i_frame_queue, info)
<1>1. S.i_frame_queue \in Seq(Info) /\ IsLink(S)
  BY LinkTypes DEF LinkInv, Sound
<1>2. q \in Seq(Info)
  BY <1>1
<1> HIDE DEF q
<1>3. Quiet(S, [S EXCEPT !.i_frame_queue = q])
  BY <1>1, <1>2 DEF IsLink, Quiet, Same, SameTimers, SameControl, SameReceive, SameSend
<1>4. Step(S, [S EXCEPT !.i_frame_queue = q])
  BY <1>3, QuietStep
<1>5. QED
  BY <1>4 DEF q

-----------------------------------------------------------------------------
(* What a handler sends.                                                   *)

(* A sequence, of whatever; and one with a request for the channel.        *)
Chain(q) == \E X : q \in Seq(X)
Asks(q) == \E i \in DOMAIN q : Null(q[i])

LEMMA Grow ==
  ASSUME NEW q, NEW e, Chain(q)
  PROVE  /\ Chain(Append(q, e))
         /\ Asks(q) \/ Null(e) => Asks(Append(q, e))
<1>1. PICK X : q \in Seq(X)
  BY DEF Chain
<1> DEFINE Y == X \cup {e}
           r == Append(q, e)
<1>2. q \in Seq(Y) /\ e \in Y
  BY <1>1
<1>3. /\ r \in Seq(Y) /\ DOMAIN r = 1..(Len(q) + 1) /\ DOMAIN q = 1..Len(q) /\ Len(q) \in Nat
      /\ \A i \in 1..Len(q) : r[i] = q[i]
      /\ r[Len(q) + 1] = e
  BY <1>2
<1> HIDE DEF r, Y
<1>4. Chain(r)
  BY <1>3 DEF Chain
<1>5. ASSUME Asks(q) PROVE Asks(r)
  BY <1>3, <1>5 DEF Asks
<1>6. ASSUME Null(e) PROVE Asks(r)
  <2>1. Len(q) + 1 \in DOMAIN r
    BY <1>3
  <2>2. QED
    BY <1>3, <1>6, <2>1 DEF Asks
<1>7. QED
  BY <1>4, <1>5, <1>6 DEF r

LEMMA GrowBy ==
  ASSUME NEW q, NEW n \in Nat, NEW f, Chain(q), DOMAIN f = 1..n, f = [i \in 1..n |-> f[i]]
  PROVE  /\ Chain(q \o f)
         /\ Asks(q) => Asks(q \o f)
<1>1. PICK X : q \in Seq(X)
  BY DEF Chain
<1> DEFINE Z == {f[i] : i \in 1..n}
           Y == X \cup Z
           r == q \o f
<1>2. q \in Seq(Y)
  BY <1>1
<1>2a. f \in Seq(Y)
  <2>1. \A i \in 1..n : f[i] \in Y
    OBVIOUS
  <2> HIDE DEF Y
  <2>2. f \in [1..n -> Y]
    BY <2>1
  <2>3. QED
    BY <2>2
<1> HIDE DEF Y
<1>3. /\ r \in Seq(Y) /\ DOMAIN q = 1..Len(q) /\ Len(q) \in Nat
      /\ 1..Len(q) \subseteq DOMAIN r
      /\ \A i \in 1..Len(q) : r[i] = q[i]
  BY <1>2, <1>2a
<1> HIDE DEF r
<1>4. Chain(r)
  BY <1>3 DEF Chain
<1>5. ASSUME Asks(q) PROVE Asks(r)
  BY <1>3, <1>5 DEF Asks
<1>6. QED
  BY <1>4, <1>5 DEF r

(* The count of the requests.                                              *)
LEMMA RequestedIs ==
  ASSUME NEW S, Chain(S.out)
  PROVE  Requested(S) \in Nat /\ (Asks(S.out) => Requested(S) > 0)
<1> DEFINE q == S.out
           A == {i \in DOMAIN q : Null(q[i])}
<1>1. PICK X : q \in Seq(X)
  BY DEF Chain
<1>2. Len(q) \in Nat /\ DOMAIN q = 1..Len(q)
  BY <1>1
<1>3. IsFiniteSet(1..Len(q))
  BY <1>2, FS_Interval
<1>4. A \subseteq 1..Len(q)
  BY <1>2
<1> HIDE DEF A
<1>5. IsFiniteSet(A)
  BY <1>3, <1>4, FS_Subset
<1>6. Cardinality(A) \in Nat /\ (Cardinality(A) = 0 <=> A = {})
  BY <1>5, FS_CardinalityType, FS_EmptySet
<1>7. Requested(S) = Cardinality(A)
  BY DEF Requested, A
<1>8. Asks(q) => A # {}
  BY DEF A, Asks
<1>9. QED
  BY <1>6, <1>7, <1>8

(* What a call leaves: what it neither sends nor owes more than before.    *)
Still(S, T) ==
  /\ Rec(T) /\ T.out = S.out
  /\ T.acknowledge_pending = S.acknowledge_pending
  /\ T.state = S.state /\ T.vs = S.vs /\ T.vr = S.vr

(* An acknowledgement that is due was due before, or the channel is asked  *)
(* for.                                                                    *)
AckKept(S, T) ==
  /\ Rec(T) /\ Chain(T.out)
  /\ Asks(S.out) => Asks(T.out)
  /\ T.acknowledge_pending => S.acknowledge_pending \/ Asks(T.out)

Base(S) == Rec(S) /\ Chain(S.out)

(* The same, and the state and the numbers stay.                           *)
Steady(S, T) == AckKept(S, T) /\ T.state = S.state /\ T.vs = S.vs /\ T.vr = S.vr

LEMMA Stills ==
  ASSUME NEW S, Rec(S), NEW n
  PROVE  /\ Still(S, start_t1(S)) /\ Still(S, stop_t1(S))
         /\ Still(S, start_t3(S)) /\ Still(S, stop_t3(S))
         /\ Still(S, discard_i_queue(S)) /\ Still(S, SET_VA(S, n))
         /\ Still(S, [S EXCEPT !.rc = n]) /\ Still(S, [S EXCEPT !.peer_receiver_busy = n])
         /\ Still(S, [S EXCEPT !.rxdata_by_ns = n]) /\ Still(S, [S EXCEPT !.t3 = n])
         /\ Still(S, [S EXCEPT !.radio_channel_busy = n])
         /\ Still(S, pause_t1(S)) /\ Still(S, resume_t1(S))
         /\ Still(S, [S EXCEPT !.up = n]) /\ Still(S, S)
<1>1. /\ Still(S, start_t1(S)) /\ Still(S, stop_t1(S))
      /\ Still(S, start_t3(S)) /\ Still(S, stop_t3(S)) /\ Still(S, discard_i_queue(S))
      /\ Still(S, pause_t1(S)) /\ Still(S, resume_t1(S))
  BY DEF Rec, Fields, Still, start_t1, stop_t1, start_t3, stop_t3, resume_t1, pause_t1,
     discard_i_queue
<1>2. Still(S, SET_VA(S, n))
  <2> DEFINE t == [x \in Number |->
                 IF \A y \in Number :
                      Ahead(y, n - 1) <= Ahead(x, n - 1) => S.txdata_by_ns[y] # NULL
                 THEN NULL ELSE S.txdata_by_ns[x]]
  <2>1. SET_VA(S, n) = [S EXCEPT !.va = n, !.txdata_by_ns = t]
    BY DEF SET_VA
  <2> HIDE DEF t
  <2>2. QED
    BY <2>1 DEF Rec, Fields, Still
<1>3. /\ Still(S, [S EXCEPT !.rc = n]) /\ Still(S, [S EXCEPT !.peer_receiver_busy = n])
      /\ Still(S, [S EXCEPT !.rxdata_by_ns = n]) /\ Still(S, [S EXCEPT !.t3 = n])
      /\ Still(S, [S EXCEPT !.radio_channel_busy = n])
      /\ Still(S, [S EXCEPT !.up = n]) /\ Still(S, S)
  BY DEF Rec, Fields, Still
<1>4. QED
  BY <1>1, <1>2, <1>3

LEMMA StillTransitive ==
  ASSUME NEW S, NEW T, NEW U, Still(S, T), Still(T, U)
  PROVE  Still(S, U)
  BY DEF Still

LEMMA StillKept ==
  ASSUME NEW S, NEW T, Base(S), Still(S, T)
  PROVE  Steady(S, T) /\ Base(T)
  BY DEF Still, AckKept, Base, Steady

LEMMA KeptTransitive ==
  ASSUME NEW S, NEW T, NEW U, AckKept(S, T), AckKept(T, U)
  PROVE  AckKept(S, U)
  BY DEF AckKept

LEMMA SteadyTransitive ==
  ASSUME NEW S, NEW T, NEW U, Steady(S, T), Steady(T, U)
  PROVE  Steady(S, U)
  BY KeptTransitive DEF Steady

LEMMA KeptBase ==
  ASSUME NEW S, NEW T, AckKept(S, T)
  PROVE  Base(T)
  BY DEF AckKept, Base

(* A frame that is sent.                                                   *)
LEMMA SendsKept ==
  ASSUME NEW S, Base(S), NEW prio, NEW f
  PROVE  /\ Steady(S, lm_data_request(S, prio, f))
         /\ lm_data_request(S, prio, f).acknowledge_pending = S.acknowledge_pending
         /\ f.type = "null" => Asks(lm_data_request(S, prio, f).out)
<1> DEFINE T == lm_data_request(S, prio, f)
           e == <<prio, f>>
           q == Append(S.out, e)
<1>1. T = [S EXCEPT !.out = q]
  BY DEF lm_data_request
<1>2. Chain(q) /\ (Asks(S.out) \/ Null(e) => Asks(q))
  BY Grow DEF Base
<1>3. f.type = "null" => Null(e)
  BY DEF Null
<1> HIDE DEF q, T, e
<1>4. /\ Rec(T) /\ T.out = q /\ T.state = S.state /\ T.vs = S.vs /\ T.vr = S.vr
      /\ T.acknowledge_pending = S.acknowledge_pending
  BY <1>1 DEF Base, Rec, Fields
<1>5. QED
  BY <1>2, <1>3, <1>4 DEF AckKept, Steady, T

LEMMA SeizeKept ==
  ASSUME NEW S, Base(S)
  PROVE  /\ Steady(S, lm_seize_request(S))
         /\ lm_seize_request(S).acknowledge_pending = S.acknowledge_pending
         /\ Asks(lm_seize_request(S).out)
<1>1. NullFrame.type = "null"
  BY DEF NullFrame, ax25_u_frame
<1>2. QED
  BY <1>1, SendsKept DEF lm_seize_request, SendLow

(* The acknowledgement is sent, or not due any more.                       *)
LEMMA Acknowledged ==
  ASSUME NEW S, Base(S)
  PROVE  /\ Steady(S, [S EXCEPT !.acknowledge_pending = FALSE])
         /\ [S EXCEPT !.acknowledge_pending = FALSE].acknowledge_pending = FALSE
  BY DEF Base, AckKept, Steady, Rec, Fields

LEMMA EnquiryKept ==
  ASSUME NEW S, Base(S), NEW f
  PROVE  /\ Steady(S, enquiry_response(S, f))
         /\ enquiry_response(S, f).acknowledge_pending = FALSE
<1> DEFINE T == SendLow(S, ax25_s_frame("cr_res", "RR", S.vr, f))
<1>1. Steady(S, T) /\ Base(T)
  BY SendsKept, KeptBase DEF SendLow, Steady
<1>2. enquiry_response(S, f) = [T EXCEPT !.acknowledge_pending = FALSE]
  BY DEF enquiry_response
<1> HIDE DEF T
<1>3. QED
  BY <1>1, <1>2, Acknowledged, SteadyTransitive

LEMMA TransmitKept ==
  ASSUME NEW S, Base(S)
  PROVE  /\ Steady(S, transmit_enquiry(S))
         /\ transmit_enquiry(S).acknowledge_pending = FALSE
<1> DEFINE T == SendLow(S, ax25_s_frame("cr_cmd", "RR", S.vr, 1))
           U == [T EXCEPT !.acknowledge_pending = FALSE]
<1>1. Steady(S, T) /\ Base(T)
  BY SendsKept, KeptBase DEF SendLow, Steady
<1>2. transmit_enquiry(S) = start_t1(U)
  BY DEF transmit_enquiry
<1> HIDE DEF T
<1>3. Steady(S, U) /\ U.acknowledge_pending = FALSE /\ Base(U)
  BY <1>1, Acknowledged, KeptBase, SteadyTransitive DEF Steady
<1> HIDE DEF U
<1>4. Still(U, start_t1(U))
  BY <1>3, Stills DEF Base
<1>5. QED
  BY <1>2, <1>3, <1>4, StillKept, SteadyTransitive DEF Still

LEMMA RecoveryKept ==
  ASSUME NEW S, Base(S)
  PROVE  /\ AckKept(S, nr_error_recovery(S))
         /\ nr_error_recovery(S).state = state_1_awaiting_connection
         /\ nr_error_recovery(S).acknowledge_pending = FALSE
<1> DEFINE e == <<TQ_PRIO_1_LO, ax25_u_frame("cr_cmd", "SABM", 1)>>
           T == nr_error_recovery(S)
           q == Append(S.out, e)
<1>1. Chain(q) /\ (Asks(S.out) => Asks(q))
  BY Grow DEF Base
<1>2. /\ Rec(T) /\ T.out = q /\ T.state = state_1_awaiting_connection
      /\ T.acknowledge_pending = FALSE
  BY DEF Base, Rec, Fields, nr_error_recovery, establish_data_link, stop_t3, start_t1,
     clear_exception_conditions, enter_new_state, SendLow, lm_data_request
<1> HIDE DEF q, T
<1>3. QED
  BY <1>1, <1>2 DEF AckKept, T

(* A change of the state.                                                  *)
LEMMA EntersKept ==
  ASSUME NEW S, Base(S), NEW s
  PROVE  /\ AckKept(S, enter_new_state(S, s)) /\ enter_new_state(S, s).state = s
         /\ enter_new_state(S, s).acknowledge_pending = S.acknowledge_pending
  BY DEF Base, AckKept, Rec, Fields, enter_new_state

LEMMA CatchesUpKept ==
  ASSUME NEW S, Base(S)
  PROVE  /\ AckKept(S, CaughtUp(S)) /\ CaughtUp(S).state = state_3_connected
         /\ CaughtUp(S).acknowledge_pending = S.acknowledge_pending
<1> DEFINE T == CaughtUp(S)
<1>1. /\ Rec(T) /\ T.out = S.out /\ T.state = state_3_connected
      /\ T.acknowledge_pending = S.acknowledge_pending
  BY DEF Base, Rec, Fields, CaughtUp, stop_t1, resume_t1, start_t3, enter_new_state
<1> HIDE DEF T
<1>2. QED
  BY <1>1 DEF AckKept, Base, T

LEMMA DisconnectsKept ==
  ASSUME NEW S, Base(S)
  PROVE  AckKept(S, Disconnect(S)) /\ Disconnect(S).state = state_0_disconnected
<1> DEFINE T == Disconnect(S)
<1>1. /\ Rec(T) /\ T.out = S.out /\ T.state = state_0_disconnected
      /\ T.acknowledge_pending = S.acknowledge_pending
  BY DEF Base, Rec, Fields, Disconnect, stop_t1, stop_t3, resume_t1, discard_i_queue,
     enter_new_state
<1> HIDE DEF T
<1>2. QED
  BY <1>1 DEF AckKept, Base, T

(* The frames that are kept are sent again.                                *)
LEMMA ResendKept ==
  ASSUME NEW S, Base(S), NEW A, NEW numbers \in Seq(A)
  PROVE  Steady(S, Resend(S, numbers))
<1> DEFINE kept == KeptOf(S, numbers)
           n == Len(kept)
           f == [i \in 1..n |->
                  <<TQ_PRIO_1_LO, ax25_i_frame(S.vr, kept[i], S.txdata_by_ns[kept[i]])>>]
           q == S.out \o f
           T == Resend(S, numbers)
<1>1. n \in Nat
  BY KeptSeq
<1>2. T = [S EXCEPT !.out = q]
  BY DEF Resend
<1> HIDE DEF n, T
<1>3. DOMAIN f = 1..n /\ f = [i \in 1..n |-> f[i]]
  OBVIOUS
<1> HIDE DEF f
<1>4. Chain(q) /\ (Asks(S.out) => Asks(q))
  BY <1>1, <1>3, GrowBy DEF Base
<1> HIDE DEF q
<1>5. /\ Rec(T) /\ T.out = q /\ T.state = S.state /\ T.vs = S.vs /\ T.vr = S.vr
      /\ T.acknowledge_pending = S.acknowledge_pending
  BY <1>2 DEF Base, Rec, Fields
<1>6. QED
  BY <1>4, <1>5 DEF AckKept, Steady, T

LEMMA RetransmitKept ==
  ASSUME NEW S, Base(S), S.vs \in Number, NEW nr \in Number
  PROVE  Steady(S, RetransmitFrom(S, nr))
<1> DEFINE n == IF nr = S.vs THEN Modulo ELSE Ahead(nr, S.vs)
           numbers == [i \in 1..n |-> AX25MODULO(nr + i - 1)]
           A == {AX25MODULO(nr + i - 1) : i \in 1..n}
           T == invoke_retransmission(S, nr)
           U == [T EXCEPT !.acknowledge_pending = FALSE]
           V == stop_t3(U)
<1>1. n \in Nat
  BY Bounds, AheadIs
<1>2. T \in {S, Resend(S, numbers)}
  BY DEF invoke_retransmission
<1> HIDE DEF n
<1>3. numbers \in Seq(A)
  <2>1. numbers \in [1..n -> A]
    OBVIOUS
  <2> HIDE DEF numbers, A
  <2>2. QED
    BY <1>1, <2>1
<1> HIDE DEF numbers, A, T
<1>4. Steady(S, T) /\ Base(T)
  <2>1. Still(S, S)
    BY Stills DEF Base
  <2>2. Steady(S, S)
    BY <2>1, StillKept
  <2>3. Steady(S, Resend(S, numbers))
    BY <1>3, ResendKept
  <2>4. Steady(S, T)
    BY <1>2, <2>2, <2>3
  <2>5. QED
    BY <2>4, KeptBase DEF Steady
<1>5. Steady(T, U) /\ Base(U)
  BY <1>4, Acknowledged, KeptBase DEF Steady
<1> HIDE DEF U
<1>6. Steady(U, V) /\ Base(V)
  BY <1>5, Stills, StillKept DEF Base
<1> HIDE DEF V
<1>7. Steady(V, start_t1(V))
  BY <1>6, Stills, StillKept DEF Base
<1>8. Steady(S, start_t1(V))
  BY <1>4, <1>5, <1>6, <1>7, SteadyTransitive
<1>9. QED
  BY <1>8 DEF RetransmitFrom, T, U, V

LEMMA SrejResendKept ==
  ASSUME NEW S, Base(S), NEW A, NEW numbers \in Seq(A)
  PROVE  Steady(S, resend_for_srej(S, numbers))
<1> DEFINE T == Resend(S, numbers)
           U == [T EXCEPT !.acknowledge_pending = FALSE]
           V == stop_t3(U)
<1>4. Steady(S, T) /\ Base(T)
  BY ResendKept, KeptBase DEF Steady
<1> HIDE DEF T
<1>5. Steady(T, U) /\ Base(U)
  BY <1>4, Acknowledged, KeptBase DEF Steady
<1> HIDE DEF U
<1>6. Steady(U, V) /\ Base(V)
  BY <1>5, Stills, StillKept DEF Base
<1> HIDE DEF V
<1>7. Steady(V, start_t1(V))
  BY <1>6, Stills, StillKept DEF Base
<1>8. Steady(S, start_t1(V))
  BY <1>4, <1>5, <1>6, <1>7, SteadyTransitive
<1>9. Steady(S, S)
  BY Stills, StillKept DEF Base
<1>10. resend_for_srej(S, numbers) \in {S, start_t1(V)}
  BY DEF resend_for_srej, T, U, V
<1>11. QED
  BY <1>8, <1>9, <1>10

LEMMA CheckAckedStill ==
  ASSUME NEW S, Rec(S), NEW nr
  PROVE  Still(S, check_i_frame_ackd(S, nr))
<1> DEFINE T == SET_VA(S, nr)
<1>1. Still(S, T)
  BY Stills
<1>2. check_i_frame_ackd(S, nr) \in
        {start_t3(T), start_t1(start_t3(T)), start_t3(stop_t1(T)), S, start_t1(T)}
  <2>1. S.peer_receiver_busy \/ (~S.peer_receiver_busy /\ nr = S.vs)
          \/ (~S.peer_receiver_busy /\ nr # S.vs)
    OBVIOUS
  <2>2. QED
    BY <2>1 DEF check_i_frame_ackd
<1> HIDE DEF T
<1>1a. Rec(T)
  BY <1>1 DEF Still
<1>3. Still(T, start_t3(T)) /\ Rec(start_t3(T)) /\ Still(T, stop_t1(T)) /\ Rec(stop_t1(T))
      /\ Still(T, start_t1(T)) /\ Still(S, S)
  <2>1. Still(T, start_t3(T)) /\ Still(T, stop_t1(T)) /\ Still(T, start_t1(T)) /\ Still(S, S)
    BY <1>1a, Stills
  <2>2. QED
    BY <2>1 DEF Still
<1>4. Still(start_t3(T), start_t1(start_t3(T))) /\ Still(stop_t1(T), start_t3(stop_t1(T)))
  BY <1>3, Stills
<1>5. QED
  BY <1>1, <1>2, <1>3, <1>4, StillTransitive

-----------------------------------------------------------------------------
(* The acknowledgement that is due, handler by handler.                    *)

(* A link that waits for its connection owes none.                         *)
AckLink(S) == S.state = state_1_awaiting_connection => ~S.acknowledge_pending

(* An acknowledgement that is due after the handler was due before, on a   *)
(* link that was connected, or the channel is asked for.                   *)
Answers(S, T) ==
  /\ AckKept(S, T) /\ AckLink(T)
  /\ T.state \in Connected /\ S.state \notin Connected => ~T.acknowledge_pending

Ready(S) == Base(S) /\ AckLink(S) /\ S.vs \in Number /\ S.vr \in Number

LEMMA AnswersConnected ==
  ASSUME NEW S, NEW T, AckKept(S, T), S.state \in Connected, T.state # state_1_awaiting_connection
  PROVE  Answers(S, T)
  BY DEF Answers, AckLink

LEMMA AnswersSteady ==
  ASSUME NEW S, NEW T, Steady(S, T), S.state \in Connected
  PROVE  Answers(S, T)
  BY StateCases DEF Answers, AckLink, Steady, Connected, state_1_awaiting_connection,
     state_3_connected, state_4_timer_recovery

LEMMA AnswersOwingNone ==
  ASSUME NEW S, NEW T, AckKept(S, T), ~T.acknowledge_pending
  PROVE  Answers(S, T)
  BY DEF Answers, AckLink

(* Nothing changes that matters here.                                      *)
LEMMA AnswersSame ==
  ASSUME NEW S, NEW T, Steady(S, T), T.acknowledge_pending = S.acknowledge_pending, AckLink(S)
  PROVE  Answers(S, T)
  BY DEF Answers, AckLink, Steady

LEMMA AnswersItself ==
  ASSUME NEW S, Ready(S)
  PROVE  Answers(S, S)
<1>1. Still(S, S)
  BY Stills DEF Ready, Base
<1>2. QED
  BY <1>1, StillKept, AnswersSame DEF Ready

(* Not connected any more, and not about to be.                            *)
LEMMA AnswersElsewhere ==
  ASSUME NEW S, NEW T, AckKept(S, T), T.state \notin Connected,
         T.state # state_1_awaiting_connection
  PROVE  Answers(S, T)
  BY DEF Answers, AckLink

LEMMA RecoveryAnswers ==
  ASSUME NEW S, NEW T, Base(S), AckKept(S, T)
  PROVE  Answers(S, nr_error_recovery(T))
<1>1. /\ AckKept(T, nr_error_recovery(T)) /\ ~nr_error_recovery(T).acknowledge_pending
  BY RecoveryKept, KeptBase
<1>2. QED
  BY <1>1, KeptTransitive, AnswersOwingNone

LEMMA CaughtUpAnswers ==
  ASSUME NEW S, NEW T, AckKept(S, T), S.state \in Connected
  PROVE  Answers(S, CaughtUp(T))
<1>1. AckKept(T, CaughtUp(T)) /\ CaughtUp(T).state = state_3_connected
  BY CatchesUpKept, KeptBase
<1>2. state_3_connected # state_1_awaiting_connection
  BY DEF state_3_connected, state_1_awaiting_connection
<1>3. QED
  BY <1>1, <1>2, KeptTransitive, AnswersConnected

LEMMA RefuseAnswers ==
  ASSUME NEW S, Ready(S), NEW cr, NEW pf
  PROVE  Answers(S, RefuseCommand(S, cr, pf))
<1> DEFINE T == SendLow(S, ax25_u_frame("cr_res", "DM", pf))
<1>1. Answers(S, S)
  BY AnswersItself
<1>2. Answers(S, T)
  BY SendsKept, AnswersSame DEF SendLow, Ready
<1>3. RefuseCommand(S, cr, pf) \in {S, T}
  BY DEF RefuseCommand
<1> HIDE DEF T
<1>4. QED
  BY <1>1, <1>2, <1>3

LEMMA NeedForResponse ==
  ASSUME NEW S, Base(S), NEW cr, NEW pf
  PROVE  Steady(S, check_need_for_response(S, cr, pf))
<1>1. Still(S, S)
  BY Stills DEF Base
<1>2. check_need_for_response(S, cr, pf) \in {S, enquiry_response(S, 1)}
  BY DEF check_need_for_response
<1>3. QED
  BY <1>1, <1>2, StillKept, EnquiryKept

(* The information is given up, and an acknowledgement is due.             *)
LEMMA AcknowledgeKept ==
  ASSUME NEW S, Base(S), NEW p
  PROVE  AckKept(S, Acknowledge(S, p)) /\ Acknowledge(S, p).state = S.state
<1> DEFINE A == [S EXCEPT !.acknowledge_pending = TRUE]
           B == lm_seize_request(A)
<1>1. Base(A) /\ A.state = S.state /\ A.out = S.out
  BY DEF Base, Rec, Fields
<1> HIDE DEF A
<1>2. AckKept(A, B) /\ B.state = A.state /\ Asks(B.out)
  BY <1>1, SeizeKept DEF Steady
<1> HIDE DEF B
<1>3. AckKept(S, B) /\ B.state = S.state
  BY <1>1, <1>2 DEF AckKept
<1>4. AckKept(S, S)
  <2>1. Still(S, S)
    BY Stills DEF Base
  <2>2. QED
    BY <2>1, StillKept DEF Steady
<1>5. Acknowledge(S, p) \in {enquiry_response(S, 1), S, B}
  BY DEF Acknowledge, A, B
<1>6. AckKept(S, enquiry_response(S, 1)) /\ enquiry_response(S, 1).state = S.state
  BY EnquiryKept DEF Steady
<1>7. QED
  BY <1>3, <1>4, <1>5, <1>6

LEMMA InSequenceKept ==
  ASSUME NEW S, Base(S), NEW info
  PROVE  AckKept(S, InSequence(S, info)) /\ InSequence(S, info).state = S.state
<1> DEFINE c == Following(S)
           rx == [x \in Number |-> IF Ahead(S.vr, x) <= c THEN NULL ELSE S.rxdata_by_ns[x]]
           v == AX25MODULO(S.vr + c + 1)
           more == <<info>> \o [j \in 1..c |-> S.rxdata_by_ns[AX25MODULO(S.vr + j)]]
           T == InSequence(S, info)
<1>1. T = dl_data_indication([S EXCEPT !.vr = v, !.rxdata_by_ns = rx], more)
  BY DEF InSequence, Base, Rec, Fields
<1> HIDE DEF rx, v, more, T
<1>2. /\ Rec(T) /\ T.out = S.out /\ T.state = S.state
      /\ T.acknowledge_pending = S.acknowledge_pending
  BY <1>1 DEF Base, Rec, Fields, dl_data_indication
<1>3. QED
  BY <1>2 DEF AckKept, Base, T

LEMMA SrejKept ==
  ASSUME NEW S, Base(S), S.vr \in Number, NEW ns \in Number, ns # S.vr,
         S.rxdata_by_ns[AX25MODULO(ns - 1)] = NULL
  PROVE  AckKept(S, send_srej_frames(S, ns)) /\ send_srej_frames(S, ns).state = S.state
<1> DEFINE a == GapStart(S, ns)
           ask(i) == AX25MODULO(S.vr + a + i - 1)
           n == Ahead(S.vr, ns) - a
           f == [i \in 1..n |->
                  <<TQ_PRIO_1_LO, ax25_s_frame("cr_res", "SREJ", ask(i),
                                               IF ask(i) = S.vr THEN 1 ELSE 0)>>]
           q == S.out \o f
           T == send_srej_frames(S, ns)
<1>1. a \in 0..(Ahead(S.vr, ns) - 1) /\ Ahead(S.vr, ns) \in Nat
  BY GapStartIs, AheadIs, Bounds
<1> HIDE DEF a
<1>2. n \in Nat
  BY <1>1
<1>3. T = [S EXCEPT !.acknowledge_pending = S.acknowledge_pending /\ a # 0, !.out = q]
  BY DEF send_srej_frames, a, Base, Rec, Fields
<1> HIDE DEF n, ask, T
<1>4. DOMAIN f = 1..n /\ f = [i \in 1..n |-> f[i]]
  OBVIOUS
<1> HIDE DEF f
<1>5. Chain(q) /\ (Asks(S.out) => Asks(q))
  BY <1>2, <1>4, GrowBy DEF Base
<1> HIDE DEF q
<1>6. /\ Rec(T) /\ T.out = q /\ T.state = S.state
      /\ T.acknowledge_pending => S.acknowledge_pending
  BY <1>3 DEF Base, Rec, Fields
<1>7. QED
  BY <1>5, <1>6 DEF AckKept, T

LEMMA OutOfSequenceKept ==
  ASSUME NEW S, Base(S), S.vr \in Number, NEW ns \in Number, ns # S.vr, NEW info, NEW p \in {0, 1}
  PROVE  /\ AckKept(S, OutOfSequence(S, p, ns, info))
         /\ OutOfSequence(S, p, ns, info).state = S.state
<1> DEFINE rx == [S.rxdata_by_ns EXCEPT ![ns] = info]
           T == [S EXCEPT !.rxdata_by_ns = rx]
           R == OutOfSequence(S, p, ns, info)
           gap == S.rxdata_by_ns[AX25MODULO(ns - 1)] = NULL
<1>1. R \in {enquiry_response(T, 1), T, enquiry_response(S, 1), S}
        \/ (R = send_srej_frames(T, ns) /\ gap)
  BY DEF OutOfSequence
<1>2. gap => rx[AX25MODULO(ns - 1)] = NULL
  <2>1. AX25MODULO(ns - 1) # ns
    BY Before, Bounds, LinkAssumption
  <2>2. QED
    BY <2>1
<1> HIDE DEF R, rx, gap
<1>3. Still(S, T) /\ Still(S, S)
  BY Stills DEF Base
<1>4. T.rxdata_by_ns = rx /\ T.vr = S.vr
  BY DEF Base, Rec, Fields
<1> HIDE DEF T
<1>5. Steady(S, T) /\ Base(T) /\ Steady(S, S)
  BY <1>3, StillKept
<1>6. Steady(T, enquiry_response(T, 1)) /\ Steady(S, enquiry_response(S, 1))
  BY <1>5, EnquiryKept
<1>7. gap => /\ AckKept(T, send_srej_frames(T, ns))
             /\ send_srej_frames(T, ns).state = T.state
  BY <1>2, <1>4, <1>5, SrejKept
<1>8. QED
  BY <1>1, <1>5, <1>6, <1>7, KeptTransitive DEF Steady, R

LEMMA ContinuedKept ==
  ASSUME NEW S, Base(S), S.vr \in Number, NEW ns \in Number, NEW info, NEW p \in {0, 1}
  PROVE  /\ AckKept(S, i_frame_continued(S, p, ns, info))
         /\ i_frame_continued(S, p, ns, info).state = S.state
<1>1. CASE ns = S.vr
  <2> DEFINE T == InSequence(S, info)
  <2>1. AckKept(S, T) /\ T.state = S.state /\ Base(T)
    BY InSequenceKept, KeptBase
  <2>2. i_frame_continued(S, p, ns, info) = Acknowledge(T, p)
    BY <1>1 DEF i_frame_continued
  <2> HIDE DEF T
  <2>3. QED
    BY <2>1, <2>2, AcknowledgeKept, KeptTransitive
<1>2. CASE ns # S.vr
  BY <1>2, OutOfSequenceKept DEF i_frame_continued
<1>3. QED
  BY <1>1, <1>2

LEMMA IFrameAnswers ==
  ASSUME NEW S, Ready(S), NEW cr, NEW p \in {0, 1}, NEW nr, NEW ns \in Number, NEW info,
         S.state \in 0..4
  PROVE  Answers(S, i_frame(S, cr, p, nr, ns, info))
<1> DEFINE R == i_frame(S, cr, p, nr, ns, info)
           T == check_i_frame_ackd(S, nr)
           U == IF T.state = state_4_timer_recovery /\ T.va = T.vs THEN CaughtUp(T) ELSE T
<1>1. CASE S.state = state_1_awaiting_connection
  BY <1>1, AnswersItself, StateCases DEF i_frame
<1>2. CASE S.state \in {state_0_disconnected, state_2_awaiting_release}
  BY <1>2, RefuseAnswers, StateCases DEF i_frame
<1>3. CASE S.state \in Connected
  <2>1. R = IF info \in TooLong \/ ~is_good_nr(S, nr) THEN nr_error_recovery(S)
            ELSE i_frame_continued(U, p, ns, info)
    BY <1>3, StateCases DEF i_frame
  <2>2. Still(S, T)
    BY CheckAckedStill DEF Ready, Base
  <2> HIDE DEF T
  <2>3. Steady(S, T) /\ Base(T) /\ T.vr = S.vr
    BY <2>2, StillKept DEF Ready, Still
  <2>4. AckKept(T, CaughtUp(T)) /\ CaughtUp(T).state = state_3_connected
    BY <2>3, CatchesUpKept
  <2>5. CaughtUp(T).vr = T.vr
    BY <2>3 DEF CaughtUp, Base, Rec, Fields, stop_t1, resume_t1, start_t3, enter_new_state
  <2>6. AckKept(S, U) /\ Base(U) /\ U.vr \in Number
        /\ (U.state = S.state \/ U.state = state_3_connected)
    BY <2>3, <2>4, <2>5, KeptTransitive, KeptBase DEF Steady, Ready
  <2> HIDE DEF U
  <2>7. /\ AckKept(U, i_frame_continued(U, p, ns, info))
        /\ i_frame_continued(U, p, ns, info).state = U.state
    BY <2>6, ContinuedKept
  <2>8. U.state # state_1_awaiting_connection
    BY <1>3, <2>6, StateCases DEF state_3_connected, state_1_awaiting_connection
  <2>9. Answers(S, i_frame_continued(U, p, ns, info))
    BY <1>3, <2>6, <2>7, <2>8, KeptTransitive, AnswersConnected
  <2>10. Answers(S, nr_error_recovery(S))
    <3>1. Steady(S, S)
      BY Stills, StillKept DEF Ready, Base
    <3>2. QED
      BY <3>1, RecoveryAnswers DEF Steady, Ready
  <2>11. QED
    BY <2>1, <2>9, <2>10
<1>4. S.state \in {state_0_disconnected, state_2_awaiting_release, state_1_awaiting_connection}
        \/ S.state \in Connected
  BY DEF Connected, state_0_disconnected, state_1_awaiting_connection,
     state_2_awaiting_release, state_3_connected, state_4_timer_recovery
<1>5. QED
  BY <1>1, <1>2, <1>3, <1>4

(* The states a handler tells apart.                                       *)
LEMMA StateIs ==
  ASSUME NEW S, S.state \in 0..4
  PROVE  \/ S.state = state_0_disconnected \/ S.state = state_1_awaiting_connection
         \/ S.state = state_2_awaiting_release
         \/ S.state = state_3_connected \/ S.state = state_4_timer_recovery
  BY DEF state_0_disconnected, state_1_awaiting_connection,
     state_2_awaiting_release, state_3_connected, state_4_timer_recovery

LEMMA FinalAnswers ==
  ASSUME NEW S, NEW T, AckKept(S, T), S.state \in Connected, T.state = S.state,
         T.vs \in Number, NEW nr \in Number
  PROVE  Answers(S, FinalResponse(T, nr))
<1> DEFINE A == stop_t1(T)
           B == SET_VA(A, nr)
<1>1. Steady(T, A) /\ Base(A)
  BY Stills, StillKept, KeptBase DEF Base
<1>2. FinalResponse(T, nr) \in {nr_error_recovery(A), CaughtUp(B), RetransmitFrom(B, nr)}
  BY DEF FinalResponse
<1> HIDE DEF A
<1>3. Steady(A, B) /\ Base(B)
  BY <1>1, Stills, StillKept DEF Base
<1> HIDE DEF B
<1>4. AckKept(S, A) /\ AckKept(S, B) /\ B.state = S.state /\ B.vs \in Number
  BY <1>1, <1>3, KeptTransitive DEF Steady
<1>5. Answers(S, nr_error_recovery(A)) /\ Answers(S, CaughtUp(B))
  <2>1. Answers(S, CaughtUp(B))
    BY <1>4, CaughtUpAnswers
  <2>2. AckKept(A, nr_error_recovery(A)) /\ ~nr_error_recovery(A).acknowledge_pending
    BY <1>1, RecoveryKept
  <2>3. QED
    BY <1>4, <2>1, <2>2, KeptTransitive, AnswersOwingNone
<1>6. Answers(S, RetransmitFrom(B, nr))
  <2>1. Steady(B, RetransmitFrom(B, nr))
    BY <1>3, <1>4, RetransmitKept
  <2>2. AckKept(S, RetransmitFrom(B, nr)) /\ RetransmitFrom(B, nr).state = S.state
    BY <1>4, <2>1, KeptTransitive DEF Steady
  <2>3. S.state # state_1_awaiting_connection
    BY StateCases
  <2>4. QED
    BY <2>2, <2>3, AnswersConnected
<1>7. QED
  BY <1>2, <1>5, <1>6

LEMMA RrAnswers ==
  ASSUME NEW S, Ready(S), NEW ready \in BOOLEAN, NEW cr, NEW pf, NEW nr \in Number,
         S.state \in 0..4
  PROVE  Answers(S, rr_rnr_frame(S, ready, cr, pf, nr))
<1> DEFINE T == [S EXCEPT !.peer_receiver_busy = ~ready]
           U == check_need_for_response(T, cr, pf)
           V == SET_VA(U, nr)
           R == rr_rnr_frame(S, ready, cr, pf, nr)
<1>1. CASE S.state = state_1_awaiting_connection
  BY <1>1, AnswersItself, StateCases DEF rr_rnr_frame
<1>2. CASE S.state \in {state_0_disconnected, state_2_awaiting_release}
  BY <1>2, RefuseAnswers, StateCases DEF rr_rnr_frame
<1>3. CASE S.state \in {state_3_connected, state_4_timer_recovery}
  <2>1. R \in {check_i_frame_ackd(U, nr), nr_error_recovery(U), FinalResponse(T, nr),
               CaughtUp(V), V}
    <3>1. S.state = state_3_connected =>
            R = IF is_good_nr(S, nr) THEN check_i_frame_ackd(U, nr) ELSE nr_error_recovery(U)
      BY StateCases DEF rr_rnr_frame
    <3>2. S.state = state_4_timer_recovery =>
            R = IF cr = "cr_res" /\ pf = 1 THEN FinalResponse(T, nr)
                ELSE IF ~is_good_nr(S, nr) THEN nr_error_recovery(U)
                ELSE IF cr = "cr_res" /\ V.vs = V.va THEN CaughtUp(V) ELSE V
      BY StateCases DEF rr_rnr_frame
    <3> HIDE DEF R, T, U, V
    <3>3. QED
      BY <1>3, <3>1, <3>2
  <2> HIDE DEF R
  <2>2. Steady(S, T) /\ Base(T)
    BY Stills, StillKept DEF Ready, Base
  <2> HIDE DEF T
  <2>3. Steady(T, U) /\ Base(U)
    BY <2>2, NeedForResponse, KeptBase DEF Steady
  <2> HIDE DEF U
  <2>4. Steady(U, V) /\ Base(V)
    BY <2>3, Stills, StillKept DEF Base
  <2> HIDE DEF V
  <2>5. Still(U, check_i_frame_ackd(U, nr))
    BY <2>3, CheckAckedStill DEF Base
  <2>6. Steady(U, check_i_frame_ackd(U, nr))
    BY <2>3, <2>5, StillKept
  <2>7. S.state \in Connected
    BY <1>3, StateCases
  <2>8. Steady(S, U) /\ Steady(S, V) /\ Steady(S, check_i_frame_ackd(U, nr))
    BY <2>2, <2>3, <2>4, <2>6, SteadyTransitive
  <2>9. Answers(S, V) /\ Answers(S, check_i_frame_ackd(U, nr))
    BY <2>7, <2>8, AnswersSteady
  <2>10. Answers(S, nr_error_recovery(U))
    BY <2>8, RecoveryAnswers DEF Steady, Ready
  <2>11. Answers(S, CaughtUp(V))
    BY <2>7, <2>8, CaughtUpAnswers DEF Steady
  <2>12. Answers(S, FinalResponse(T, nr))
    BY <2>2, <2>7, FinalAnswers DEF Steady, Ready
  <2>13. QED
    BY <2>1, <2>9, <2>10, <2>11, <2>12 DEF R
<1>4. QED
  BY <1>1, <1>2, <1>3, StateIs

LEMMA RejAnswers ==
  ASSUME NEW S, Ready(S), NEW cr, NEW pf, NEW nr \in Number, S.state \in 0..4
  PROVE  Answers(S, rej_frame(S, cr, pf, nr))
<1> DEFINE T == [S EXCEPT !.peer_receiver_busy = FALSE]
           U == check_need_for_response(T, cr, pf)
           V == SET_VA(U, nr)
           W == stop_t1(V)
           R == rej_frame(S, cr, pf, nr)
<1>1. CASE S.state = state_1_awaiting_connection
  BY <1>1, AnswersItself, StateCases DEF rej_frame
<1>2. CASE S.state \in {state_0_disconnected, state_2_awaiting_release}
  BY <1>2, RefuseAnswers, StateCases DEF rej_frame
<1>3. CASE S.state \in {state_3_connected, state_4_timer_recovery}
  <2>1. R \in {RetransmitFrom(W, nr), nr_error_recovery(U), FinalResponse(T, nr),
               RetransmitFrom(V, nr), V}
    <3>1. S.state = state_3_connected =>
            R = IF is_good_nr(S, nr) THEN RetransmitFrom(W, nr) ELSE nr_error_recovery(U)
      BY StateCases DEF rej_frame
    <3>2. S.state = state_4_timer_recovery =>
            R = IF cr = "cr_res" /\ pf = 1 THEN FinalResponse(T, nr)
                ELSE IF ~is_good_nr(S, nr) THEN nr_error_recovery(U)
                ELSE IF V.vs # V.va THEN RetransmitFrom(V, nr) ELSE V
      BY StateCases DEF rej_frame
    <3> HIDE DEF R, T, U, V, W
    <3>3. QED
      BY <1>3, <3>1, <3>2
  <2> HIDE DEF R
  <2>2. Steady(S, T) /\ Base(T)
    BY Stills, StillKept DEF Ready, Base
  <2> HIDE DEF T
  <2>3. Steady(T, U) /\ Base(U)
    BY <2>2, NeedForResponse, KeptBase DEF Steady
  <2> HIDE DEF U
  <2>4. Steady(U, V) /\ Base(V)
    BY <2>3, Stills, StillKept DEF Base
  <2> HIDE DEF V
  <2>5. Steady(V, W) /\ Base(W)
    BY <2>4, Stills, StillKept DEF Base
  <2> HIDE DEF W
  <2>7. S.state \in Connected
    BY <1>3, StateCases
  <2>8. Steady(S, U) /\ Steady(S, V) /\ Steady(S, W)
    BY <2>2, <2>3, <2>4, <2>5, SteadyTransitive
  <2>8a. V.vs \in Number /\ W.vs \in Number
    BY <2>8 DEF Steady, Ready
  <2>8b. Steady(V, RetransmitFrom(V, nr)) /\ Steady(W, RetransmitFrom(W, nr))
    BY <2>4, <2>5, <2>8a, RetransmitKept
  <2>9. /\ Answers(S, V) /\ Answers(S, RetransmitFrom(V, nr))
        /\ Answers(S, RetransmitFrom(W, nr))
    BY <2>7, <2>8, <2>8b, SteadyTransitive, AnswersSteady
  <2>10. Answers(S, nr_error_recovery(U))
    BY <2>8, RecoveryAnswers DEF Steady, Ready
  <2>12. Answers(S, FinalResponse(T, nr))
    BY <2>2, <2>7, FinalAnswers DEF Steady, Ready
  <2>13. QED
    BY <2>1, <2>9, <2>10, <2>12 DEF R
<1>4. QED
  BY <1>1, <1>2, <1>3, StateIs

LEMMA SrejAnswers ==
  ASSUME NEW S, Ready(S), NEW f, NEW nr \in Number, NEW more \in Seq(Number), S.state \in 0..4
  PROVE  Answers(S, srej_frame(S, f, nr, more))
<1> DEFINE B == [S EXCEPT !.peer_receiver_busy = FALSE]
           T == stop_t1(B)
           U == IF f = 1 THEN SET_VA(T, nr) ELSE T
           numbers == <<nr>> \o more
           W == start_t3(U)
           R == srej_frame(S, f, nr, more)
<1>1. CASE S.state \notin Connected
  BY <1>1, AnswersItself, StateCases DEF srej_frame
<1>2. CASE S.state \in Connected
  <2>1. R \in {nr_error_recovery(B), resend_for_srej(W, numbers), CaughtUp(U),
               resend_for_srej(U, numbers)}
    <3>1. ~is_good_nr(S, nr) => R = nr_error_recovery(B)
      BY <1>2, StateCases DEF srej_frame
    <3>2. is_good_nr(S, nr) /\ S.state = state_3_connected => R = resend_for_srej(W, numbers)
      BY <1>2, StateCases DEF srej_frame
    <3>3. is_good_nr(S, nr) /\ S.state = state_4_timer_recovery =>
            R = IF U.vs = U.va THEN CaughtUp(U) ELSE resend_for_srej(U, numbers)
      BY <1>2, StateCases DEF srej_frame
    <3> HIDE DEF R, B, T, U, W, numbers
    <3>4. QED
      BY <1>2, <3>1, <3>2, <3>3, StateCases
  <2>2. numbers \in Seq(Number)
    <3>1. <<nr>> \in Seq(Number)
      OBVIOUS
    <3>2. QED
      BY <3>1
  <2> HIDE DEF R, numbers
  <2>3. Steady(S, B) /\ Base(B)
    BY Stills, StillKept DEF Ready, Base
  <2> HIDE DEF B
  <2>4. Steady(B, T) /\ Base(T)
    BY <2>3, Stills, StillKept DEF Base
  <2> HIDE DEF T
  <2>5. Steady(T, U) /\ Base(U)
    <3>1. Still(T, T) /\ Still(T, SET_VA(T, nr))
      BY <2>4, Stills DEF Base
    <3>2. QED
      BY <2>4, <3>1, StillKept
  <2> HIDE DEF U
  <2>6. Steady(U, W) /\ Base(W)
    BY <2>5, Stills, StillKept DEF Base
  <2> HIDE DEF W
  <2>7. /\ Steady(U, resend_for_srej(U, numbers))
        /\ Steady(W, resend_for_srej(W, numbers))
    BY <2>2, <2>5, <2>6, SrejResendKept
  <2>8. /\ Steady(S, U) /\ Steady(S, resend_for_srej(U, numbers))
        /\ Steady(S, resend_for_srej(W, numbers))
    BY <2>3, <2>4, <2>5, <2>6, <2>7, SteadyTransitive
  <2>9. Answers(S, nr_error_recovery(B))
    BY <2>3, RecoveryAnswers DEF Steady, Ready
  <2>10. Answers(S, CaughtUp(U))
    BY <1>2, <2>8, CaughtUpAnswers DEF Steady
  <2>11. QED
    BY <1>2, <2>1, <2>8, <2>9, <2>10, AnswersSteady DEF R
<1>3. QED
  BY <1>1, <1>2

(* The numbers and the frames kept are forgotten.                          *)
LEMMA ResetKept ==
  ASSUME NEW S, Base(S)
  PROVE  /\ AckKept(S, ResetNumbers(S)) /\ ResetNumbers(S).state = S.state
         /\ ResetNumbers(S).acknowledge_pending = S.acknowledge_pending
<1> DEFINE A == [S EXCEPT !.vs = 0]
           B == SET_VA(A, 0)
           R == ResetNumbers(S)
<1>1. /\ Rec(A) /\ A.out = S.out /\ A.state = S.state
      /\ A.acknowledge_pending = S.acknowledge_pending
  BY DEF Base, Rec, Fields
<1>2. R = [B EXCEPT !.vr = 0]
  BY DEF ResetNumbers
<1> HIDE DEF A, R
<1>3. Still(A, B)
  BY <1>1, Stills
<1> HIDE DEF B
<1>4. /\ Rec(R) /\ R.out = B.out /\ R.state = B.state
      /\ R.acknowledge_pending = B.acknowledge_pending
  BY <1>2, <1>3 DEF Still, Rec, Fields
<1>5. QED
  BY <1>1, <1>3, <1>4 DEF Still, AckKept, Base, R

(* What was kept of the last connection is forgotten with it.              *)
LEMMA ClearKept ==
  ASSUME NEW S, Base(S)
  PROVE  /\ AckKept(S, clear_exception_conditions(S))
         /\ clear_exception_conditions(S).state = S.state
         /\ clear_exception_conditions(S).acknowledge_pending = FALSE
<1> DEFINE rx == [n \in Number |-> NULL]
           T == clear_exception_conditions(S)
<1>1. T = [S EXCEPT !.peer_receiver_busy = FALSE, !.acknowledge_pending = FALSE,
                    !.rxdata_by_ns = rx]
  BY DEF clear_exception_conditions
<1> HIDE DEF rx, T
<1>2. /\ Rec(T) /\ T.out = S.out /\ T.state = S.state /\ T.acknowledge_pending = FALSE
  BY <1>1 DEF Base, Rec, Fields
<1>3. QED
  BY <1>2 DEF AckKept, Base, T

LEMMA SabmAnswers ==
  ASSUME NEW S, Ready(S), NEW p, S.state \in 0..4
  PROVE  Answers(S, sabm_frame(S, p))
<1> DEFINE A == SendLow(S, Ua(p))
           T == clear_exception_conditions(A)
           U == IF S.vs # S.va THEN discard_i_queue(T) ELSE T
           X == [start_t3(ResetNumbers(T)) EXCEPT !.rc = 0]
           Y == ResetNumbers(U)
           R == sabm_frame(S, p)
<1>1. /\ S.state = state_0_disconnected => R = enter_new_state(X, state_3_connected)
      /\ S.state = state_1_awaiting_connection => R = A
      /\ S.state = state_2_awaiting_release => R = lm_data_request(S, TQ_PRIO_0_HI, Dm(p))
      /\ S.state \in Connected => R = CaughtUp(Y)
  BY DEF sabm_frame, Connected, state_0_disconnected, state_1_awaiting_connection,
     state_2_awaiting_release, state_3_connected, state_4_timer_recovery
<1>2. Steady(S, A) /\ A.acknowledge_pending = S.acknowledge_pending /\ Base(A)
  BY SendsKept, KeptBase DEF SendLow, Ready, Steady
<1>3. /\ Steady(S, lm_data_request(S, TQ_PRIO_0_HI, Dm(p)))
      /\ lm_data_request(S, TQ_PRIO_0_HI, Dm(p)).acknowledge_pending = S.acknowledge_pending
  BY SendsKept DEF Ready
<1> HIDE DEF A, R
<1>4. AckKept(S, T) /\ T.acknowledge_pending = FALSE /\ Base(T)
  BY <1>2, ClearKept, KeptBase, KeptTransitive DEF Steady
<1> HIDE DEF T
<1>5. AckKept(S, U) /\ U.acknowledge_pending = FALSE /\ Base(U)
  <2>1. Still(T, discard_i_queue(T))
    BY <1>4, Stills DEF Base
  <2>2. Steady(T, discard_i_queue(T)) /\ Base(discard_i_queue(T))
        /\ discard_i_queue(T).acknowledge_pending = T.acknowledge_pending
    BY <1>4, <2>1, StillKept DEF Still
  <2>3. QED
    BY <1>4, <2>2, KeptTransitive DEF Steady
<1> HIDE DEF U
<1>6. AckKept(S, Y) /\ Y.acknowledge_pending = FALSE /\ Base(Y)
  BY <1>5, ResetKept, KeptBase, KeptTransitive
<1> HIDE DEF Y
<1>7. AckKept(S, X) /\ X.acknowledge_pending = FALSE /\ Base(X)
  <2> DEFINE P == ResetNumbers(T)
             Q == start_t3(P)
  <2>1. AckKept(S, P) /\ P.acknowledge_pending = FALSE /\ Base(P)
    BY <1>4, ResetKept, KeptBase, KeptTransitive
  <2> HIDE DEF P
  <2>2. Still(P, Q)
    BY <2>1, Stills DEF Base
  <2>3. AckKept(S, Q) /\ Q.acknowledge_pending = FALSE /\ Base(Q)
    BY <2>1, <2>2, StillKept, KeptTransitive DEF Still, Steady
  <2>4. X = [Q EXCEPT !.rc = 0]
    BY DEF Q, P
  <2> HIDE DEF Q, X
  <2>5. Still(Q, X)
    BY <2>3, <2>4, Stills DEF Base
  <2>6. QED
    BY <2>3, <2>5, StillKept, KeptTransitive DEF Still, Steady
<1> HIDE DEF X
<1>8. Answers(S, enter_new_state(X, state_3_connected))
  <2>1. /\ AckKept(X, enter_new_state(X, state_3_connected))
        /\ enter_new_state(X, state_3_connected).acknowledge_pending = X.acknowledge_pending
    BY <1>7, EntersKept
  <2>2. QED
    BY <1>7, <2>1, KeptTransitive, AnswersOwingNone
<1>9. Answers(S, CaughtUp(Y))
  <2>1. AckKept(Y, CaughtUp(Y)) /\ CaughtUp(Y).acknowledge_pending = Y.acknowledge_pending
    BY <1>6, CatchesUpKept
  <2>2. QED
    BY <1>6, <2>1, KeptTransitive, AnswersOwingNone
<1>10. /\ Answers(S, A) /\ Answers(S, lm_data_request(S, TQ_PRIO_0_HI, Dm(p)))
  BY <1>2, <1>3, AnswersSame DEF Ready
<1>11. QED
  BY <1>1, <1>8, <1>9, <1>10, StateIs, StateCases DEF R

(* The link ends, or stays as it is.                                       *)
LEMMA EndsAnswer ==
  ASSUME NEW S, NEW T, AckKept(S, T)
  PROVE  Answers(S, Disconnect(T))
<1>1. AckKept(T, Disconnect(T)) /\ Disconnect(T).state = state_0_disconnected
  BY DisconnectsKept, KeptBase
<1>2. state_0_disconnected \notin Connected /\ state_0_disconnected # state_1_awaiting_connection
  BY DEF Connected, state_0_disconnected, state_1_awaiting_connection, state_3_connected,
     state_4_timer_recovery
<1>3. QED
  BY <1>1, <1>2, KeptTransitive, AnswersElsewhere

LEMMA StopsAnswer ==
  ASSUME NEW S, NEW T, AckKept(S, T)
  PROVE  Answers(S, enter_new_state(stop_t1(T), state_0_disconnected))
<1> DEFINE A == stop_t1(T)
           B == enter_new_state(A, state_0_disconnected)
<1>1. Steady(T, A) /\ Base(A)
  BY Stills, StillKept, KeptBase DEF Base
<1> HIDE DEF A
<1>2. AckKept(A, B) /\ B.state = state_0_disconnected
  BY <1>1, EntersKept
<1>3. state_0_disconnected \notin Connected /\ state_0_disconnected # state_1_awaiting_connection
  BY DEF Connected, state_0_disconnected, state_1_awaiting_connection, state_3_connected,
     state_4_timer_recovery
<1> HIDE DEF B
<1>4. Answers(S, B)
  BY <1>1, <1>2, <1>3, KeptTransitive, AnswersElsewhere DEF Steady
<1>5. QED
  BY <1>4 DEF A, B

LEMMA DiscAnswers ==
  ASSUME NEW S, Ready(S), NEW p, S.state \in 0..4
  PROVE  Answers(S, disc_frame(S, p))
<1> DEFINE A == SendLow(S, Dm(p))
           B == lm_data_request(S, TQ_PRIO_0_HI, Ua(p))
           C == SendLow(S, Ua(p))
           R == disc_frame(S, p)
<1>1. /\ S.state \in {state_0_disconnected, state_1_awaiting_connection} => R = A
      /\ S.state = state_2_awaiting_release => R = B
      /\ S.state \in Connected => R = Disconnect(C)
  BY DEF disc_frame, Connected, state_0_disconnected, state_1_awaiting_connection,
     state_2_awaiting_release, state_3_connected, state_4_timer_recovery
<1>2. Answers(S, A) /\ Answers(S, B) /\ AckKept(S, C)
  <2>1. /\ Steady(S, A) /\ A.acknowledge_pending = S.acknowledge_pending
        /\ Steady(S, B) /\ B.acknowledge_pending = S.acknowledge_pending
        /\ Steady(S, C)
    BY SendsKept DEF SendLow, Ready
  <2> HIDE DEF A, B, C
  <2>2. QED
    BY <2>1, AnswersSame DEF Ready, Steady
<1> HIDE DEF A, B, C, R
<1>3. Answers(S, Disconnect(C))
  BY <1>2, EndsAnswer
<1>4. QED
  BY <1>1, <1>2, <1>3, StateIs, StateCases DEF R

LEMMA ItselfKept ==
  ASSUME NEW S, Ready(S)
  PROVE  AckKept(S, S) /\ AckKept(S, discard_i_queue(S))
<1>1. Still(S, S) /\ Still(S, discard_i_queue(S))
  BY Stills DEF Ready, Base
<1>2. QED
  BY <1>1, StillKept DEF Ready, Steady

LEMMA DmAnswers ==
  ASSUME NEW S, Ready(S), NEW f, S.state \in 0..4
  PROVE  Answers(S, dm_frame(S, f))
<1>1. dm_frame(S, f) \in
        {S, enter_new_state(stop_t1(discard_i_queue(S)), state_0_disconnected),
         enter_new_state(stop_t1(S), state_0_disconnected), Disconnect(S)}
  BY StateIs, StateCases DEF dm_frame
<1>2. QED
  BY <1>1, ItselfKept, StopsAnswer, EndsAnswer, AnswersItself

LEMMA UaAnswers ==
  ASSUME NEW S, Ready(S), NEW f, S.state \in 0..4
  PROVE  Answers(S, ua_frame(S, f))
<1> DEFINE T == ResetNumbers(S)
           R == ua_frame(S, f)
<1>1. \/ R \in {S, enter_new_state(stop_t1(S), state_0_disconnected), nr_error_recovery(S)}
      \/ R = CaughtUp(T) /\ S.state = state_1_awaiting_connection
  BY StateIs, StateCases DEF ua_frame
<1>2. AckKept(S, T) /\ T.acknowledge_pending = S.acknowledge_pending /\ Base(T)
  BY ResetKept, KeptBase DEF Ready
<1> HIDE DEF R, T
<1>3. ASSUME S.state = state_1_awaiting_connection PROVE Answers(S, CaughtUp(T))
  <2>1. AckKept(T, CaughtUp(T)) /\ CaughtUp(T).acknowledge_pending = T.acknowledge_pending
    BY <1>2, CatchesUpKept
  <2>2. ~S.acknowledge_pending
    BY <1>3 DEF Ready, AckLink
  <2>3. QED
    BY <1>2, <2>1, <2>2, KeptTransitive, AnswersOwingNone
<1>4. /\ Answers(S, S) /\ Answers(S, nr_error_recovery(S))
      /\ Answers(S, enter_new_state(stop_t1(S), state_0_disconnected))
  BY ItselfKept, StopsAnswer, AnswersItself, RecoveryAnswers DEF Ready
<1>5. QED
  BY <1>1, <1>3, <1>4 DEF R

LEMMA FrmrUiAnswers ==
  ASSUME NEW S, Ready(S), NEW cr, NEW pf \in {0, 1}
  PROVE  Answers(S, frmr_frame(S)) /\ Answers(S, ui_frame(S, cr, pf))
<1> DEFINE D == SendLow(S, Dm(pf))
<1>1. frmr_frame(S) \in {S, nr_error_recovery(S)}
  BY DEF frmr_frame
<1>2. ui_frame(S, cr, pf) \in {S, D}
        \/ (ui_frame(S, cr, pf) = enquiry_response(S, pf) /\ S.state \in Connected)
  BY DEF ui_frame
<1>3. Answers(S, S) /\ Answers(S, nr_error_recovery(S))
  BY ItselfKept, AnswersItself, RecoveryAnswers DEF Ready
<1>4. Answers(S, D)
  <2>1. Steady(S, D) /\ D.acknowledge_pending = S.acknowledge_pending
    BY SendsKept DEF SendLow, Ready
  <2>2. QED
    BY <2>1, AnswersSame DEF Ready
<1>5. S.state \in Connected => Answers(S, enquiry_response(S, pf))
  BY EnquiryKept, AnswersSteady DEF Ready
<1> HIDE DEF D
<1>6. QED
  BY <1>1, <1>2, <1>3, <1>4, <1>5

LEMMA DispatchAnswers ==
  ASSUME NEW S, Ready(S), S.state \in 0..4, NEW f \in Frame
  PROVE  Answers(S, Dispatch(S, f))
<1>1. /\ f.pf \in {0, 1} /\ f.nr \in Number /\ f.ns \in Number /\ f.more \in Seq(Number)
      /\ f.type \in {"I", "null"} \cup SFrames \cup UFrames
  BY DEF Frame
<1>2. CASE f.type = "I"
  BY <1>1, <1>2, IFrameAnswers DEF Dispatch
<1>3. CASE f.type = "RR"
  BY <1>1, <1>3, RrAnswers DEF Dispatch
<1>4. CASE f.type = "RNR"
  BY <1>1, <1>4, RrAnswers DEF Dispatch
<1>5. CASE f.type = "REJ"
  BY <1>1, <1>5, RejAnswers DEF Dispatch
<1>6. CASE f.type = "SREJ"
  BY <1>1, <1>6, SrejAnswers DEF Dispatch
<1>7. CASE f.type = "SABM"
  BY <1>7, SabmAnswers DEF Dispatch
<1>8. CASE f.type = "DISC"
  BY <1>8, DiscAnswers DEF Dispatch
<1>9. CASE f.type = "DM"
  BY <1>9, DmAnswers DEF Dispatch
<1>10. CASE f.type = "UA"
  BY <1>10, UaAnswers DEF Dispatch
<1>11. CASE f.type = "FRMR"
  BY <1>1, <1>11, FrmrUiAnswers DEF Dispatch
<1>12. CASE f.type = "UI"
  BY <1>1, <1>12, FrmrUiAnswers DEF Dispatch
<1>13. CASE f.type \in {"U", "null"}
  BY <1>13, AnswersItself DEF Dispatch
<1>14. QED
  BY <1>1, <1>2, <1>3, <1>4, <1>5, <1>6, <1>7, <1>8, <1>9, <1>10, <1>11, <1>12, <1>13
  DEF SFrames, UFrames

LEMMA IndicationAnswers ==
  ASSUME NEW S, Ready(S), S.state \in 0..4, NEW f \in Frame
  PROVE  Answers(S, lm_data_indication(S, f))
<1> DEFINE T == Dispatch(S, f)
           R == lm_seize_request(T)
<1>1. Answers(S, T)
  BY DispatchAnswers
<1>2. lm_data_indication(S, f) \in {T, R}
  BY DEF lm_data_indication
<1> HIDE DEF T
<1>3. Steady(T, R) /\ R.acknowledge_pending = T.acknowledge_pending
  BY <1>1, KeptBase, SeizeKept DEF Answers
<1> HIDE DEF R
<1>4. Answers(S, R)
  BY <1>1, <1>3, KeptTransitive DEF Answers, Steady, AckLink
<1>5. QED
  BY <1>1, <1>2, <1>4

-----------------------------------------------------------------------------
(* The other calls ask for nothing and owe no more than before.            *)

Owes(S, T) ==
  /\ AckLink(T)
  /\ T.state \in Connected /\ T.acknowledge_pending =>
       S.state \in Connected /\ S.acknowledge_pending

LEMMA OwesByAnswers ==
  ASSUME NEW S, NEW T, Still(S, T), AckLink(S)
  PROVE  Owes(S, T)
  BY DEF Owes, Still, AckLink

LEMMA SeizeOwes ==
  ASSUME NEW S, Ready(S), S.state \in 0..4
  PROVE  /\ AckLink(lm_seize_confirm(S))
         /\ lm_seize_confirm(S).state \in Connected =>
              ~lm_seize_confirm(S).acknowledge_pending
<1> DEFINE P == PopWithoutTimer(S)
           T == i_frame_pop_off_queue(S)
           R == lm_seize_confirm(S)
<1>1. P.state = S.state /\ Rec(P)
  <2> DEFINE n == ToSend(S)
             stash(x) == Ahead(S.vs, x)
             q == SubSeq(S.i_frame_queue, n + 1, Len(S.i_frame_queue))
             o == S.out \o [i \in 1..n |->
                   <<TQ_PRIO_1_LO, ax25_i_frame(S.vr, AX25MODULO(S.vs + i - 1),
                                                S.i_frame_queue[i])>>]
             t == [x \in Number |-> IF stash(x) < n
                                    THEN S.i_frame_queue[stash(x) + 1] ELSE S.txdata_by_ns[x]]
             v == AX25MODULO(S.vs + n)
  <2>1. P = [S EXCEPT !.i_frame_queue = q, !.out = o, !.txdata_by_ns = t, !.vs = v,
                      !.acknowledge_pending = S.acknowledge_pending /\ n = 0,
                      !.t3 = S.t3 /\ n = 0]
    BY DEF PopWithoutTimer, Ready, Base, Rec, Fields
  <2> HIDE DEF P, q, o, t, v, n
  <2>2. QED
    BY <2>1 DEF Ready, Base, Rec, Fields
<1>2. T \in {S, start_t1(P)}
  BY DEF i_frame_pop_off_queue
<1> HIDE DEF P, T
<1>3. Still(P, start_t1(P))
  BY <1>1, Stills
<1>4. T.state = S.state /\ Rec(T)
  BY <1>1, <1>2, <1>3 DEF Still, Ready, Base
<1>5. CASE S.state \notin Connected
  <2>1. R = S
    BY <1>5 DEF lm_seize_confirm
  <2>2. QED
    BY <1>5, <2>1 DEF Ready
<1>6. CASE S.state \in Connected
  <2> DEFINE E == enquiry_response(T, 0)
  <2>1. R = IF T.acknowledge_pending THEN E ELSE T
    BY <1>6 DEF lm_seize_confirm, T
  <2>2. E.state = T.state /\ E.acknowledge_pending = FALSE
    BY <1>4 DEF enquiry_response, SendLow, lm_data_request, Rec, Fields
  <2> HIDE DEF E, R
  <2>3. S.state # state_1_awaiting_connection
    BY <1>6, StateCases
  <2>4. AckLink(R) /\ (R.state \in Connected => ~R.acknowledge_pending)
    BY <1>4, <2>1, <2>2, <2>3 DEF AckLink
  <2>5. QED
    BY <2>4 DEF R
<1>7. QED
  BY <1>5, <1>6

LEMMA BusyOwes ==
  ASSUME NEW S, Ready(S), S.radio_channel_busy \in BOOLEAN, NEW busy \in BOOLEAN
  PROVE  Owes(S, lm_channel_busy(S, busy))
<1> DEFINE T == [S EXCEPT !.radio_channel_busy = busy]
<1>1. Still(S, S) /\ Still(S, T)
  BY Stills DEF Ready, Base
<1>2. lm_channel_busy(S, busy) \in {S, pause_t1(T), resume_t1(T)}
  <2>1. \/ busy = S.radio_channel_busy \/ (busy /\ ~S.radio_channel_busy)
        \/ (~busy /\ S.radio_channel_busy)
    OBVIOUS
  <2>2. QED
    BY <2>1 DEF lm_channel_busy
<1> HIDE DEF T
<1>3. Still(T, pause_t1(T)) /\ Still(T, resume_t1(T))
  BY <1>1, Stills DEF Still
<1>4. QED
  BY <1>1, <1>2, <1>3, StillTransitive, OwesByAnswers DEF Ready

LEMMA T1Owes ==
  ASSUME NEW S, Ready(S), S.state \in 0..4
  PROVE  Owes(S, dl_timer_t1(S))
<1> DEFINE A == [S EXCEPT !.t1 = FALSE, !.t1_paused = FALSE]
           R == dl_timer_t1(S)
           C(type) == start_t1(SendLow([A EXCEPT !.rc = A.rc + 1], ax25_u_frame("cr_cmd", type, 1)))
           D == enter_new_state(A, state_0_disconnected)
           E == enter_new_state(discard_i_queue(A), state_0_disconnected)
           F == BeginRecovery(A)
           G == enter_new_state(SendLow(discard_i_queue(A), Dm(0)), state_0_disconnected)
           H == transmit_enquiry([A EXCEPT !.rc = A.rc + 1])
<1>1. Still(S, A)
  BY DEF Ready, Base, Rec, Fields, Still
<1> HIDE DEF A
<1>2. Rec(A) /\ A.state = S.state /\ A.acknowledge_pending = S.acknowledge_pending
  BY <1>1 DEF Still
<1>3. R = t1_expiry(A)
  BY DEF dl_timer_t1, A
<1>4. /\ S.state = state_0_disconnected => R = A
      /\ S.state = state_1_awaiting_connection => R \in {E, C("SABM")}
      /\ S.state = state_2_awaiting_release => R \in {D, C("DISC")}
      /\ S.state = state_3_connected => R = F
      /\ S.state = state_4_timer_recovery => R \in {G, H}
  <2>1. [A EXCEPT !.rc = @ + 1] = [A EXCEPT !.rc = A.rc + 1]
    BY <1>2 DEF Rec, Fields
  <2>2. QED
    BY <1>2, <1>3, <2>1 DEF t1_expiry, RetryCommand, state_0_disconnected,
       state_1_awaiting_connection, state_2_awaiting_release, state_3_connected,
       state_4_timer_recovery
<1>5. \A type : /\ C(type).state = S.state
                /\ C(type).acknowledge_pending = S.acknowledge_pending
  BY <1>2 DEF Rec, Fields, start_t1, SendLow, lm_data_request
<1>6. D.state = state_0_disconnected /\ E.state = state_0_disconnected
      /\ G.state = state_0_disconnected
  BY <1>2 DEF Rec, Fields, enter_new_state, SendLow, lm_data_request, discard_i_queue
<1>7. F.state = state_4_timer_recovery /\ F.acknowledge_pending = FALSE
  BY <1>2 DEF Rec, Fields, BeginRecovery, transmit_enquiry, enter_new_state, start_t1, SendLow,
     lm_data_request
<1>8. H.state = S.state /\ H.acknowledge_pending = FALSE
  BY <1>2 DEF Rec, Fields, transmit_enquiry, start_t1, SendLow, lm_data_request
<1> HIDE DEF R, C, D, E, F, G, H
<1>9. state_0_disconnected \notin Connected
      /\ state_0_disconnected # state_1_awaiting_connection
      /\ state_4_timer_recovery # state_1_awaiting_connection
  BY DEF Connected, state_0_disconnected, state_1_awaiting_connection, state_3_connected,
     state_4_timer_recovery
<1>10. Owes(S, R)
  <2>1. CASE R = A
    BY <1>2, <2>1 DEF Ready, Owes, AckLink
  <2>2. CASE R \in {D, E, G}
    BY <1>6, <1>9, <2>2 DEF Owes, AckLink
  <2>3. CASE R = F
    BY <1>7, <1>9, <2>3 DEF Owes, AckLink
  <2>4. CASE R = H
    BY <1>8, <2>4 DEF Owes, AckLink
  <2>5. CASE R \in {C("SABM"), C("DISC")}
    BY <1>5, <2>5 DEF Ready, Owes, AckLink
  <2>6. QED
    BY <1>4, <2>1, <2>2, <2>3, <2>4, <2>5, StateIs
<1>11. QED
  BY <1>10 DEF R

LEMMA T3Owes ==
  ASSUME NEW S, Ready(S)
  PROVE  Owes(S, dl_timer_t3(S))
<1> DEFINE A == [S EXCEPT !.t3 = FALSE]
           F == BeginRecovery(A)
<1>1. Still(S, A)
  BY Stills DEF Ready, Base
<1>2. dl_timer_t3(S) \in {A, F}
  BY DEF dl_timer_t3, t3_expiry
<1> HIDE DEF A
<1>3. Rec(A)
  BY <1>1 DEF Still
<1>4. F.state = state_4_timer_recovery /\ F.acknowledge_pending = FALSE
  BY <1>3 DEF Rec, Fields, BeginRecovery, transmit_enquiry, enter_new_state, start_t1, SendLow,
     lm_data_request
<1> HIDE DEF F
<1>5. state_4_timer_recovery # state_1_awaiting_connection
  BY DEF state_1_awaiting_connection, state_4_timer_recovery
<1>6. Owes(S, A) /\ Owes(S, F)
  BY <1>1, <1>4, <1>5, OwesByAnswers DEF Owes, AckLink, Ready
<1>7. QED
  BY <1>2, <1>6

LEMMA ClientOwes ==
  ASSUME NEW S, Ready(S)
  PROVE  Owes(S, Connects(S)) /\ Owes(S, Disconnects(S))
<1>1. Connects(S).acknowledge_pending = FALSE
  BY RecoveryKept DEF Connects, Ready
<1>2. Disconnects(S).state = state_2_awaiting_release
  BY DEF Ready, Base, Rec, Fields, Disconnects, discard_i_queue, SendLow, lm_data_request,
     stop_t3, start_t1, enter_new_state
<1>3. state_2_awaiting_release \notin Connected
      /\ state_2_awaiting_release # state_1_awaiting_connection
  BY DEF Connected, state_2_awaiting_release, state_1_awaiting_connection, state_3_connected,
     state_4_timer_recovery
<1>4. QED
  BY <1>1, <1>2, <1>3 DEF Owes, AckLink

-----------------------------------------------------------------------------
(* The timer of a timer recovery, handler by handler.                      *)

(* No handler leaves a recovery with T1 stopped that it did not find so.   *)
Timed(S, T) ==
  T.state = state_4_timer_recovery => T.t1 \/ (S.state = state_4_timer_recovery /\ ~S.t1)

LEMMA TimedSame ==
  ASSUME NEW S, NEW T, T.state = S.state, T.t1 = S.t1
  PROVE  Timed(S, T)
  BY DEF Timed

LEMMA TimedQuiet ==
  ASSUME NEW S, NEW T, NEW U, Timed(S, T), Quiet(T, U)
  PROVE  Timed(S, U)
  BY DEF Timed, Quiet, Same, SameControl, SameTimers

LEMMA TimedElsewhere ==
  ASSUME NEW S, NEW T, T.state # state_4_timer_recovery
  PROVE  Timed(S, T)
  BY DEF Timed

LEMMA TimedRunning ==
  ASSUME NEW S, NEW T, T.t1
  PROVE  Timed(S, T)
  BY DEF Timed

(* A link as it is, and one that left the recovery.                        *)
LEMMA TimedLeaves ==
  ASSUME NEW S, NEW T, IsLink(T)
  PROVE  /\ Timed(S, S)
         /\ Timed(S, nr_error_recovery(T)) /\ Timed(S, CaughtUp(T)) /\ Timed(S, Disconnect(T))
         /\ \A st : st # state_4_timer_recovery => Timed(S, enter_new_state(T, st))
<1>1. Rec(T)
  BY DEF IsLink, Rec, Fields
<1>2. /\ nr_error_recovery(T).state = state_1_awaiting_connection
      /\ CaughtUp(T).state = state_3_connected
      /\ Disconnect(T).state = state_0_disconnected
  BY <1>1 DEF Rec, Fields, nr_error_recovery, establish_data_link, stop_t3, start_t1, start_t3,
     clear_exception_conditions, enter_new_state, SendLow, lm_data_request, CaughtUp, stop_t1,
     resume_t1, Disconnect, discard_i_queue
<1>3. \A st : enter_new_state(T, st).state = st
  BY <1>1 DEF Rec, Fields, enter_new_state
<1>4. state_4_timer_recovery \notin
        {state_0_disconnected, state_1_awaiting_connection, state_3_connected}
  BY DEF state_0_disconnected, state_1_awaiting_connection, state_3_connected,
     state_4_timer_recovery
<1>5. QED
  BY <1>2, <1>3, <1>4 DEF Timed

LEMMA TimedByRefusal ==
  ASSUME NEW S, IsLink(S), NEW cr, NEW pf
  PROVE  Timed(S, S) /\ Timed(S, RefuseCommand(S, cr, pf))
  BY QuietCalls, TimedSame, TimedQuiet

(* An acknowledgement stops T1 only when nothing is left to wait for.      *)
LEMMA AckedTimer ==
  ASSUME NEW S, Sound(S), NEW nr \in Number, is_good_nr(S, nr)
  PROVE  LET T == check_i_frame_ackd(S, nr) IN
         T.va = T.vs \/ T.t1 \/ T.t1 = S.t1
<1> DEFINE R == check_i_frame_ackd(S, nr)
           T == SET_VA(S, nr)
<1>1. R.va = nr /\ R.vs = S.vs
  BY CheckAcked
<1>2. Sound(T) /\ T.t1 = S.t1
  BY SetVaStep DEF SameTimers
<1> HIDE DEF T
<1>3. \/ R = T /\ T.t1
      \/ R = start_t3(T) /\ T.t1
      \/ R = start_t1(start_t3(T)) \/ R = start_t1(T) \/ R = S
      \/ nr = S.vs
  BY <1>1, <1>2 DEF check_i_frame_ackd, T
<1>4. Sound(start_t3(T)) /\ start_t3(T).t1 = T.t1
  BY <1>2, Timers, TimersSound DEF Sound
<1>5. start_t1(start_t3(T)).t1 /\ start_t1(T).t1
  BY <1>2, <1>4, Timers DEF Sound
<1> HIDE DEF R
<1>6. QED
  BY <1>1, <1>2, <1>3, <1>4, <1>5 DEF R

LEMMA IFrameTimed ==
  ASSUME NEW S, LinkInv(S), NEW cr, NEW p \in {0, 1}, NEW nr \in Number, NEW ns \in Number,
         NEW info \in Info \cup {NULL}
  PROVE  Timed(S, i_frame(S, cr, p, nr, ns, info))
<1> DEFINE R == i_frame(S, cr, p, nr, ns, info)
           T == check_i_frame_ackd(S, nr)
           U == IF T.state = state_4_timer_recovery /\ T.va = T.vs THEN CaughtUp(T) ELSE T
           V == i_frame_continued(U, p, ns, info)
<1>1. IsLink(S) /\ Sound(S)
  BY DEF LinkInv, Sound
<1>2. CASE S.state \notin Connected
  <2>1. R \in {S, RefuseCommand(S, cr, p)}
    BY <1>1, <1>2, States, StateCases DEF i_frame
  <2>2. QED
    BY <1>1, <2>1, TimedByRefusal
<1>3. CASE S.state \in Connected
  <2>1. R = IF info \in TooLong \/ ~is_good_nr(S, nr) THEN nr_error_recovery(S) ELSE V
    BY <1>3, StateCases DEF i_frame
  <2>2. ASSUME is_good_nr(S, nr) PROVE Timed(S, V)
    <3>1. /\ Sound(T) /\ T.state = S.state
          /\ T.va = T.vs \/ T.t1 \/ T.t1 = S.t1
      BY <1>1, <2>2, CheckAcked, AckedTimer DEF SameControl
    <3> HIDE DEF T
    <3>2. Sound(U) /\ Timed(S, U)
      <4>1. CASE T.state = state_4_timer_recovery /\ T.va = T.vs
        <5>1. Sound(CaughtUp(T))
          BY <3>1, CatchesUp DEF LinkInv
        <5>2. QED
          BY <3>1, <4>1, <5>1, TimedLeaves DEF Sound
      <4>2. CASE ~(T.state = state_4_timer_recovery /\ T.va = T.vs)
        <5>1. U = T
          BY <4>2
        <5>2. Timed(S, T)
          BY <3>1, <4>2 DEF Timed
        <5>3. QED
          BY <3>1, <5>1, <5>2
      <4>3. QED
        BY <4>1, <4>2
    <3> HIDE DEF U
    <3>3. SameControl(U, V) /\ SameTimers(U, V)
      BY <3>2, ContinuesSound DEF Receives
    <3>4. QED
      BY <3>2, <3>3 DEF Timed, SameControl, SameTimers
  <2>3. Timed(S, nr_error_recovery(S))
    BY <1>1, TimedLeaves
  <2> HIDE DEF R, V
  <2>4. QED
    BY <2>1, <2>2, <2>3 DEF R
<1>4. QED
  BY <1>2, <1>3

LEMMA FinalTimed ==
  ASSUME NEW S, NEW T, LinkInv(T), NEW nr \in Number
  PROVE  Timed(S, FinalResponse(T, nr))
<1> DEFINE A == stop_t1(T)
           B == SET_VA(A, nr)
<1>1. Sound(A) /\ IsLink(A) /\ A.va = T.va /\ A.vs = T.vs
  BY Timers, TimersSound DEF LinkInv, Sound, Same, SameSend
<1>2. FinalResponse(T, nr) =
        IF ~is_good_nr(T, nr) THEN nr_error_recovery(A)
        ELSE IF B.vs = B.va THEN CaughtUp(B) ELSE RetransmitFrom(B, nr)
  BY DEF FinalResponse
<1>3. is_good_nr(A, nr) = is_good_nr(T, nr)
  BY <1>1 DEF is_good_nr, Outstanding
<1> HIDE DEF A
<1>4. Timed(S, nr_error_recovery(A))
  BY <1>1, TimedLeaves
<1>5. ASSUME is_good_nr(T, nr)
      PROVE  Timed(S, CaughtUp(B)) /\ Timed(S, RetransmitFrom(B, nr))
  <2>1. Sound(B)
    BY <1>1, <1>3, <1>5, SetVaStep
  <2> HIDE DEF B
  <2>2. RetransmitFrom(B, nr).t1
    BY <2>1, RetransmitRestarts DEF Sound, Restarts
  <2>3. QED
    BY <2>1, <2>2, TimedLeaves, TimedRunning DEF Sound
<1> HIDE DEF B
<1>6. QED
  BY <1>2, <1>4, <1>5

(* The link U that a supervisory frame in timer recovery is answered on,   *)
(* with its acknowledgement taken.                                         *)
LEMMA AckedInRecovery ==
  ASSUME NEW S, NEW U, Timed(S, U), Sound(U), NEW nr \in Number, is_good_nr(U, nr)
  PROVE  LET V == SET_VA(U, nr) IN
         /\ Timed(S, V) /\ Timed(S, CaughtUp(V)) /\ Timed(S, RetransmitFrom(V, nr))
<1> DEFINE V == SET_VA(U, nr)
<1>1. Sound(V) /\ V.state = U.state /\ V.t1 = U.t1
  BY SetVaStep DEF SameControl, SameTimers
<1> HIDE DEF V
<1>2. RetransmitFrom(V, nr).t1
  BY <1>1, RetransmitRestarts DEF Sound, Restarts
<1>3. Timed(S, V) /\ Timed(S, CaughtUp(V)) /\ Timed(S, RetransmitFrom(V, nr))
  BY <1>1, <1>2, TimedLeaves, TimedRunning DEF Timed, Sound
<1>4. QED
  BY <1>3 DEF V

LEMMA RrTimed ==
  ASSUME NEW S, LinkInv(S), NEW ready \in BOOLEAN, NEW cr, NEW pf, NEW nr \in Number
  PROVE  Timed(S, rr_rnr_frame(S, ready, cr, pf, nr))
<1> DEFINE R == rr_rnr_frame(S, ready, cr, pf, nr)
           T == [S EXCEPT !.peer_receiver_busy = ~ready]
           U == check_need_for_response(T, cr, pf)
           V == SET_VA(U, nr)
<1>1. IsLink(S) /\ Sound(S)
  BY DEF LinkInv, Sound
<1>2. Quiet(S, T)
  BY <1>1, QuietCalls
<1>3. CASE S.state \notin Connected
  <2>1. R \in {S, RefuseCommand(S, cr, pf)}
    BY <1>1, <1>3, States, StateCases DEF rr_rnr_frame
  <2>2. QED
    BY <1>1, <2>1, TimedByRefusal
<1>4. CASE S.state \in Connected
  <2>1. /\ S.state = state_3_connected =>
             R = IF is_good_nr(S, nr) THEN check_i_frame_ackd(U, nr) ELSE nr_error_recovery(U)
        /\ S.state = state_4_timer_recovery =>
             R = IF cr = "cr_res" /\ pf = 1 THEN FinalResponse(T, nr)
                 ELSE IF ~is_good_nr(S, nr) THEN nr_error_recovery(U)
                 ELSE IF cr = "cr_res" /\ V.vs = V.va THEN CaughtUp(V) ELSE V
    BY StateCases DEF rr_rnr_frame
  <2>2. LinkInv(T) /\ IsLink(T) /\ is_good_nr(T, nr) = is_good_nr(S, nr)
    BY <1>2, QuietInv
  <2> HIDE DEF T
  <2>3. Quiet(T, U)
    BY <2>2, QuietCalls
  <2>4. Quiet(S, U)
    BY <1>2, <2>3, QuietTransitive
  <2>5. Sound(U) /\ IsLink(U) /\ is_good_nr(U, nr) = is_good_nr(S, nr) /\ U.state = S.state
    BY <2>4, QuietInv
  <2>6. Timed(S, U)
    BY <2>4, TimedSame, TimedQuiet
  <2> HIDE DEF U
  <2>7. Timed(S, nr_error_recovery(U)) /\ Timed(S, FinalResponse(T, nr))
    BY <2>2, <2>5, TimedLeaves, FinalTimed
  <2>8. CASE S.state = state_3_connected
    <3>1. is_good_nr(S, nr) => check_i_frame_ackd(U, nr).state = U.state
      BY <2>5, CheckAcked DEF SameControl
    <3>2. is_good_nr(S, nr) => Timed(S, check_i_frame_ackd(U, nr))
      BY <2>5, <2>8, <3>1, StateCases, TimedElsewhere
    <3> HIDE DEF R
    <3>3. QED
      BY <2>1, <2>7, <2>8, <3>2 DEF R
  <2>9. CASE S.state = state_4_timer_recovery
    <3>1. is_good_nr(S, nr) => Timed(S, V) /\ Timed(S, CaughtUp(V))
      BY <2>5, <2>6, AckedInRecovery
    <3> HIDE DEF R, V
    <3>2. QED
      BY <2>1, <2>7, <2>9, <3>1 DEF R
  <2>10. QED
    BY <1>1, <1>4, <2>8, <2>9, States
<1>5. QED
  BY <1>3, <1>4

LEMMA RejTimed ==
  ASSUME NEW S, LinkInv(S), NEW cr, NEW pf, NEW nr \in Number
  PROVE  Timed(S, rej_frame(S, cr, pf, nr))
<1> DEFINE R == rej_frame(S, cr, pf, nr)
           T == [S EXCEPT !.peer_receiver_busy = FALSE]
           U == check_need_for_response(T, cr, pf)
           V == SET_VA(U, nr)
           W == stop_t1(V)
<1>1. IsLink(S) /\ Sound(S)
  BY DEF LinkInv, Sound
<1>2. Quiet(S, T)
  BY <1>1, QuietCalls
<1>3. CASE S.state \notin Connected
  <2>1. R \in {S, RefuseCommand(S, cr, pf)}
    BY <1>1, <1>3, States, StateCases DEF rej_frame
  <2>2. QED
    BY <1>1, <2>1, TimedByRefusal
<1>4. CASE S.state \in Connected
  <2>1. /\ S.state = state_3_connected =>
             R = IF is_good_nr(S, nr) THEN RetransmitFrom(W, nr) ELSE nr_error_recovery(U)
        /\ S.state = state_4_timer_recovery =>
             R = IF cr = "cr_res" /\ pf = 1 THEN FinalResponse(T, nr)
                 ELSE IF ~is_good_nr(S, nr) THEN nr_error_recovery(U)
                 ELSE IF V.vs # V.va THEN RetransmitFrom(V, nr) ELSE V
    BY StateCases DEF rej_frame
  <2>2. LinkInv(T) /\ IsLink(T) /\ is_good_nr(T, nr) = is_good_nr(S, nr)
    BY <1>2, QuietInv
  <2> HIDE DEF T
  <2>3. Quiet(T, U)
    BY <2>2, QuietCalls
  <2>4. Quiet(S, U)
    BY <1>2, <2>3, QuietTransitive
  <2>5. Sound(U) /\ IsLink(U) /\ is_good_nr(U, nr) = is_good_nr(S, nr) /\ U.state = S.state
    BY <2>4, QuietInv
  <2>6. Timed(S, U)
    BY <2>4, TimedSame, TimedQuiet
  <2> HIDE DEF U
  <2>7. Timed(S, nr_error_recovery(U)) /\ Timed(S, FinalResponse(T, nr))
    BY <2>2, <2>5, TimedLeaves, FinalTimed
  <2>8. is_good_nr(S, nr) => Sound(V) /\ Timed(S, V) /\ Timed(S, RetransmitFrom(V, nr))
    BY <2>5, <2>6, AckedInRecovery, SetVaStep
  <2> HIDE DEF V
  <2>9. is_good_nr(S, nr) => Sound(W)
    BY <2>8, TimersSound
  <2> HIDE DEF W
  <2>10. is_good_nr(S, nr) => Timed(S, RetransmitFrom(W, nr))
    BY <2>9, RetransmitRestarts, TimedRunning DEF Sound, Restarts
  <2> HIDE DEF R
  <2>11. QED
    BY <1>1, <1>4, <2>1, <2>7, <2>8, <2>10, States DEF R
<1>5. QED
  BY <1>3, <1>4

LEMMA AheadApart ==
  ASSUME NEW a \in Number, NEW n \in Number, a # n
  PROVE  Ahead(a, n) \in Nat /\ 0 < Ahead(a, n)
  BY AheadIs, Bounds

(* The frame with the number N(R) of a good SREJ is kept, unless N(R) is   *)
(* V(S).                                                                   *)
LEMMA AskedIsKept ==
  ASSUME NEW S, Sound(S), NEW nr \in Number, is_good_nr(S, nr), S.txdata_by_ns[nr] = NULL
  PROVE  nr = S.vs
<1>1. /\ S.va \in Number /\ S.vs \in Number /\ WindowOK(S)
  BY LinkTypes DEF Sound
<1> SUFFICES ASSUME nr # S.vs PROVE FALSE
  OBVIOUS
<1>2. Ahead(S.va, nr) <= Ahead(S.va, S.vs)
  BY DEF is_good_nr, Outstanding
<1>3. Ahead(nr, S.vs) = Ahead(S.va, S.vs) - Ahead(S.va, nr)
  BY <1>1, <1>2, AheadAdds
<1>4. 0 < Ahead(nr, S.vs)
  BY <1>1, AheadApart
<1>5. Ahead(S.va, nr) \in Nat /\ Ahead(S.va, S.vs) \in Nat
  BY <1>1, AheadIs, Bounds
<1>6. Ahead(S.va, nr) < Outstanding(S)
  BY <1>3, <1>4, <1>5 DEF Outstanding
<1>7. QED
  BY <1>1, <1>6 DEF WindowOK

LEMMA SrejTimed ==
  ASSUME NEW S, LinkInv(S), NEW f \in Frame, f.type = "SREJ"
  PROVE  Timed(S, srej_frame(S, f.pf, f.nr, f.more)) \/ AsksForNothing(S, f)
<1> DEFINE nr == f.nr
           R == srej_frame(S, f.pf, nr, f.more)
           A == [S EXCEPT !.peer_receiver_busy = FALSE]
           T == stop_t1(A)
           U == IF f.pf = 1 THEN SET_VA(T, nr) ELSE T
           numbers == <<nr>> \o f.more
           W == resend_for_srej(U, numbers)
<1>1. /\ IsLink(S) /\ Sound(S)
      /\ f.nr \in Number /\ f.pf \in {0, 1} /\ f.more \in Seq(Number)
  BY DEF LinkInv, Sound, Frame
<1>2. Quiet(S, A)
  BY <1>1, QuietCalls
<1>3. LinkInv(A) /\ Sound(A) /\ IsLink(A) /\ A.state = S.state
      /\ is_good_nr(A, nr) = is_good_nr(S, nr)
  BY <1>2, QuietInv
<1>4. CASE S.state \notin Connected
  <2>1. R = S
    BY <1>4, StateCases DEF srej_frame
  <2>2. QED
    BY <1>1, <2>1, TimedLeaves
<1>5. CASE S.state \in Connected /\ ~is_good_nr(S, nr)
  <2>1. R = nr_error_recovery(A)
    BY <1>5, StateCases DEF srej_frame
  <2> HIDE DEF A
  <2>2. QED
    BY <1>3, <2>1, TimedLeaves
<1>6. CASE S.state \in Connected /\ is_good_nr(S, nr)
  <2>1. /\ S.state = state_3_connected => R = resend_for_srej(start_t3(U), numbers)
        /\ S.state = state_4_timer_recovery => R = IF U.vs = U.va THEN CaughtUp(U) ELSE W
    BY <1>6, StateCases DEF srej_frame
  <2>2. A.vs = S.vs /\ A.va = S.va /\ A.txdata_by_ns = S.txdata_by_ns
    BY <1>2 DEF Quiet, Same, SameSend
  <2> HIDE DEF A
  <2>3. Sound(T) /\ Same(A, T)
    BY <1>3, Timers, TimersSound DEF Sound
  <2> HIDE DEF T
  <2>4. /\ T.state = S.state /\ T.vs = S.vs /\ T.va = S.va /\ T.txdata_by_ns = S.txdata_by_ns
        /\ is_good_nr(T, nr)
    BY <1>3, <1>6, <2>2, <2>3 DEF Same, SameControl, SameSend, is_good_nr, Outstanding
  <2>5. /\ Sound(SET_VA(T, nr)) /\ SET_VA(T, nr).state = S.state
        /\ SET_VA(T, nr).va = nr
    BY <1>1, <2>3, <2>4, SetVaStep DEF SameControl
  <2>6. Sound(U) /\ IsLink(U) /\ PausedOK(U) /\ U.state = S.state
    <3>1. Sound(U) /\ U.state = S.state
      BY <2>3, <2>4, <2>5
    <3>2. QED
      BY <3>1 DEF Sound
  <2>7. CASE S.state = state_3_connected
    <3> DEFINE V == start_t3(U)
               X == resend_for_srej(V, numbers)
    <3> HIDE DEF U, numbers
    <3>1. IsLink(V) /\ PausedOK(V) /\ V.state = U.state
      BY <2>6, Timers DEF Same, SameControl
    <3> HIDE DEF V
    <3>2. X = V \/ Restarts(V, X)
      BY <3>1, ResendForSrej
    <3>3. X.state = S.state
      BY <2>6, <3>1, <3>2 DEF Restarts, Same, SameControl
    <3> HIDE DEF X
    <3>4. QED
      BY <2>1, <2>7, <3>3, StateCases, TimedElsewhere DEF X, V
  <2>8. CASE S.state = state_4_timer_recovery
    <3>1. Timed(S, CaughtUp(U))
      BY <2>6, TimedLeaves
    <3>2. W = U \/ Restarts(U, W)
      <4> HIDE DEF U, numbers
      <4>1. QED
        BY <2>6, ResendForSrej
    <3>3. Restarts(U, W) => Timed(S, W)
      BY TimedRunning DEF Restarts
    <3>4. ASSUME U.vs # U.va, ~Restarts(U, W)
          PROVE  AsksForNothing(S, f)
      <4>1. \A i \in DOMAIN numbers : U.txdata_by_ns[numbers[i]] = NULL
        <5>1. U.state = S.state
          BY <2>6
        <5> SUFFICES ASSUME ~(\A i \in DOMAIN numbers : U.txdata_by_ns[numbers[i]] = NULL)
                     PROVE  FALSE
          OBVIOUS
        <5> DEFINE P == [Resend(U, numbers) EXCEPT !.acknowledge_pending = FALSE]
        <5>2. W = start_t1(stop_t3(P))
          BY DEF resend_for_srej
        <5> HIDE DEF U, numbers
        <5>3. Quiet(U, Resend(U, numbers)) /\ IsLink(Resend(U, numbers))
          BY <2>6, ResendIsQuiet DEF Quiet, Same
        <5>4. Quiet(Resend(U, numbers), P)
          BY <5>3, QuietCalls
        <5>5. Quiet(U, P)
          BY <5>3, <5>4, QuietTransitive
        <5> HIDE DEF P
        <5>6. PausedOK(P) /\ IsLink(P) /\ Same(U, P)
          BY <2>6, <5>5, QuietPaused
        <5>7. PausedOK(stop_t3(P)) /\ IsLink(stop_t3(P)) /\ Same(P, stop_t3(P))
          BY <5>6, Timers DEF Same
        <5>8. Same(stop_t3(P), W) /\ PausedOK(W) /\ W.t1
          BY <5>2, <5>7, Timers
        <5>9. Same(U, W)
          BY <5>6, <5>7, <5>8, SameTransitive
        <5>10. QED
          BY <3>4, <5>8, <5>9 DEF Restarts
      <4>2. U.txdata_by_ns[nr] = NULL /\ \A i \in DOMAIN f.more : U.txdata_by_ns[f.more[i]] = NULL
        <5>1. 1 \in DOMAIN numbers /\ numbers[1] = nr
          BY <1>1
        <5>2. \A i \in DOMAIN f.more : i + 1 \in DOMAIN numbers /\ numbers[i + 1] = f.more[i]
          BY <1>1
        <5> HIDE DEF numbers, U
        <5>3. QED
          BY <4>1, <5>1, <5>2
      <4>3. f.pf = 0
        <5> SUFFICES ASSUME f.pf = 1 PROVE FALSE
          BY <1>1
        <5>1. Sound(U) /\ U.va = nr /\ U.vs \in Number
          BY <2>5, LinkTypes DEF Sound
        <5> HIDE DEF U
        <5>2. Ahead(U.va, nr) = 0 /\ 0 < Outstanding(U)
          BY <1>1, <3>4, <5>1, AheadSelf, AheadApart DEF Outstanding
        <5>3. QED
          BY <1>1, <4>2, <5>1, <5>2 DEF Sound, WindowOK
      <4>4. U = T
        BY <4>3
      <4>5. nr = T.vs
        BY <1>1, <2>3, <2>4, <4>2, <4>4, AskedIsKept
      <4> HIDE DEF U
      <4>6. QED
        BY <2>4, <2>8, <3>4, <4>2, <4>3, <4>4, <4>5 DEF AsksForNothing
    <3> HIDE DEF U, W
    <3>5. QED
      BY <2>1, <2>8, <3>1, <3>3, <3>4 DEF R
  <2>9. QED
    BY <1>1, <1>6, <2>7, <2>8, States
<1>7. QED
  BY <1>4, <1>5, <1>6

LEMMA SabmTimed ==
  ASSUME NEW S, LinkInv(S), NEW p
  PROVE  Timed(S, sabm_frame(S, p))
<1> DEFINE A == SendLow(S, Ua(p))
           D == lm_data_request(S, TQ_PRIO_0_HI, Dm(p))
           T == clear_exception_conditions(A)
           U == IF S.vs # S.va THEN discard_i_queue(T) ELSE T
           N == ResetNumbers(T)
           X == start_t3(N)
           Y == [X EXCEPT !.rc = 0]
           Z == ResetNumbers(U)
           R == sabm_frame(S, p)
<1>1. IsLink(S) /\ Sound(S)
  BY DEF LinkInv, Sound
<1>2. /\ S.state = state_0_disconnected => R = enter_new_state(Y, state_3_connected)
      /\ S.state = state_1_awaiting_connection => R = A
      /\ S.state = state_2_awaiting_release => R = D
      /\ S.state \in Connected => R = CaughtUp(Z)
  BY DEF sabm_frame, Connected, state_0_disconnected, state_1_awaiting_connection,
     state_2_awaiting_release, state_3_connected, state_4_timer_recovery
<1>3. Quiet(S, A) /\ Quiet(S, D)
  BY <1>1, QuietCalls
<1>4. Timed(S, A) /\ Timed(S, D)
  BY <1>3, TimedSame, TimedQuiet
<1>5. Sound(A)
  BY <1>3, QuietInv
<1> HIDE DEF A, D
<1>6. Sound(T) /\ NothingStashed(T)
  BY <1>5, ClearExceptions
<1> HIDE DEF T
<1>7. Sound(U) /\ NothingStashed(U)
  <2>1. Quiet(T, discard_i_queue(T))
    BY <1>6, QuietCalls DEF Sound
  <2>2. Sound(discard_i_queue(T)) /\ NothingStashed(discard_i_queue(T))
    BY <1>6, <2>1, QuietIsSound DEF Quiet, Same, SameReceive, NothingStashed
  <2>3. QED
    BY <1>6, <2>2
<1> HIDE DEF U
<1>8. Sound(N) /\ Sound(Z)
  BY <1>6, <1>7, NumbersReset
<1> HIDE DEF N, Z
<1>9. Sound(X)
  BY <1>8, TimersSound
<1> HIDE DEF X
<1>10. Sound(Y)
  BY <1>9, SetRc
<1> HIDE DEF Y, R
<1>11. /\ Timed(S, enter_new_state(Y, state_3_connected)) /\ Timed(S, CaughtUp(Z))
  BY <1>8, <1>10, TimedLeaves, StateCases DEF Sound
<1>12. QED
  BY <1>1, <1>2, <1>4, <1>11, States DEF R

LEMMA UnnumberedTimed ==
  ASSUME NEW S, LinkInv(S), NEW pf \in {0, 1}, NEW cr
  PROVE  /\ Timed(S, disc_frame(S, pf)) /\ Timed(S, dm_frame(S, pf))
         /\ Timed(S, ua_frame(S, pf)) /\ Timed(S, frmr_frame(S))
         /\ Timed(S, ui_frame(S, cr, pf))
<1> DEFINE A == SendLow(S, Dm(pf))
           B == lm_data_request(S, TQ_PRIO_0_HI, Ua(pf))
           C == SendLow(S, Ua(pf))
           D == discard_i_queue(S)
           E == enquiry_response(S, pf)
           N == ResetNumbers(S)
<1>1. IsLink(S) /\ Sound(S)
  BY DEF LinkInv, Sound
<1>2. Quiet(S, A) /\ Quiet(S, B) /\ Quiet(S, C) /\ Quiet(S, D) /\ Quiet(S, E)
  BY <1>1, QuietCalls
<1>3. Timed(S, A) /\ Timed(S, B) /\ Timed(S, E) /\ Timed(S, S)
  BY <1>2, TimedSame, TimedQuiet
<1>4. IsLink(C) /\ Sound(D) /\ Sound(stop_t1(S))
  BY <1>1, <1>2, QuietInv, TimersSound
<1>5. disc_frame(S, pf) \in {A, B, Disconnect(C)}
  BY <1>1, States, StateCases DEF disc_frame
<1>6. dm_frame(S, pf) \in
        {S, enter_new_state(stop_t1(D), state_0_disconnected),
         enter_new_state(stop_t1(S), state_0_disconnected), Disconnect(S)}
  BY <1>1, States, StateCases DEF dm_frame
<1>7. \/ ua_frame(S, pf) \in
           {S, enter_new_state(stop_t1(S), state_0_disconnected), nr_error_recovery(S)}
      \/ ua_frame(S, pf) = CaughtUp(N) /\ S.state = state_1_awaiting_connection
  BY <1>1, States, StateCases DEF ua_frame
<1>8. frmr_frame(S) \in {S, nr_error_recovery(S)}
  BY DEF frmr_frame
<1>9. ui_frame(S, cr, pf) \in {S, A, E}
  BY DEF ui_frame
<1> HIDE DEF A, B, C, D, E
<1>10. Sound(stop_t1(D))
  BY <1>4, TimersSound
<1>11. state_0_disconnected # state_4_timer_recovery
  BY DEF state_0_disconnected, state_4_timer_recovery
<1>12. /\ Timed(S, Disconnect(C)) /\ Timed(S, Disconnect(S)) /\ Timed(S, nr_error_recovery(S))
       /\ Timed(S, enter_new_state(stop_t1(D), state_0_disconnected))
       /\ Timed(S, enter_new_state(stop_t1(S), state_0_disconnected))
  BY <1>1, <1>4, <1>10, <1>11, TimedLeaves DEF Sound
<1>13. S.state = state_1_awaiting_connection => Timed(S, CaughtUp(N))
  <2>1. S.state = state_1_awaiting_connection => Sound(N)
    BY <1>1, NumbersReset DEF LinkInv, Settled
  <2> HIDE DEF N
  <2>2. QED
    BY <2>1, TimedLeaves DEF Sound
<1> HIDE DEF N
<1>14. QED
  BY <1>3, <1>5, <1>6, <1>7, <1>8, <1>9, <1>12, <1>13

LEMMA IndicationTimed ==
  ASSUME NEW S, LinkInv(S), NEW f \in Frame
  PROVE  Timed(S, lm_data_indication(S, f)) \/ AsksForNothing(S, f)
<1> DEFINE T == Dispatch(S, f)
           R == lm_seize_request(T)
<1>1. /\ f.pf \in {0, 1} /\ f.nr \in Number /\ f.ns \in Number
      /\ f.info \in Info \cup {NULL}
      /\ f.type \in {"I", "null"} \cup SFrames \cup UFrames
  BY DEF Frame
<1>2. Timed(S, T) \/ AsksForNothing(S, f)
  <2>1. CASE f.type = "I"
    BY <1>1, <2>1, IFrameTimed DEF Dispatch
  <2>2. CASE f.type \in {"RR", "RNR"}
    BY <1>1, <2>2, RrTimed DEF Dispatch
  <2>3. CASE f.type = "REJ"
    BY <1>1, <2>3, RejTimed DEF Dispatch
  <2>4. CASE f.type = "SREJ"
    BY <1>1, <2>4, SrejTimed DEF Dispatch
  <2>5. CASE f.type = "SABM"
    BY <2>5, SabmTimed DEF Dispatch
  <2>6. CASE f.type \in {"DISC", "DM", "UA", "FRMR", "UI"}
    BY <1>1, <2>6, UnnumberedTimed DEF Dispatch
  <2>7. CASE f.type \in {"U", "null"}
    BY <2>7, TimedSame DEF Dispatch
  <2>8. QED
    BY <1>1, <2>1, <2>2, <2>3, <2>4, <2>5, <2>6, <2>7 DEF SFrames, UFrames
<1>3. IsLink(T)
  BY DispatchStep DEF Step, LinkInv, Sound
<1>4. lm_data_indication(S, f) \in {T, R}
  BY DEF lm_data_indication
<1> HIDE DEF T
<1>5. Quiet(T, R)
  BY <1>3, QuietCalls
<1> HIDE DEF R
<1>6. Timed(S, T) => Timed(S, R)
  BY <1>5, TimedQuiet
<1>7. QED
  BY <1>2, <1>4, <1>6

(* The other calls.                                                        *)
LEMMA SeizeTimed ==
  ASSUME NEW S, LinkInv(S)
  PROVE  Timed(S, lm_seize_confirm(S))
<1> DEFINE T == i_frame_pop_off_queue(S)
           E == enquiry_response(T, 0)
<1>1. Sound(T) /\ T.state = S.state /\ (T.t1 \/ T = S)
  BY PopSound DEF LinkInv, SameControl
<1>2. lm_seize_confirm(S) \in {S, E, T}
  BY DEF lm_seize_confirm
<1> HIDE DEF T
<1>3. Timed(S, T) /\ Timed(S, S)
  BY <1>1 DEF Timed
<1>4. Timed(S, E)
  BY <1>1, <1>3, QuietCalls, TimedQuiet DEF Sound
<1>5. QED
  BY <1>2, <1>3, <1>4

LEMMA BusyTimed ==
  ASSUME NEW S, LinkInv(S), NEW busy \in BOOLEAN
  PROVE  Timed(S, lm_channel_busy(S, busy))
<1>1. IsLink(S)
  BY DEF LinkInv, Sound
<1>2. lm_channel_busy(S, busy).state = S.state /\ lm_channel_busy(S, busy).t1 = S.t1
  <2>1. \/ busy = S.radio_channel_busy \/ (busy /\ ~S.radio_channel_busy)
        \/ (~busy /\ S.radio_channel_busy)
    BY <1>1, LinkTypes
  <2>2. QED
    BY <1>1, <2>1 DEF lm_channel_busy, pause_t1, resume_t1, IsLink
<1>3. QED
  BY <1>2, TimedSame

LEMMA TimersTimed ==
  ASSUME NEW S, LinkInv(S)
  PROVE  Timed(S, dl_timer_t1(S)) /\ Timed(S, dl_timer_t3(S))
<1>1. Rec(S) /\ IsLink(S)
  BY DEF LinkInv, Sound, IsLink, Rec, Fields
<1>2. \A A : Rec(A) => BeginRecovery(A).t1 /\ transmit_enquiry(A).t1
  BY DEF Rec, Fields, BeginRecovery, transmit_enquiry, enter_new_state, start_t1, SendLow,
     lm_data_request
<1>3. Timed(S, dl_timer_t3(S))
  <2> DEFINE A == [S EXCEPT !.t3 = FALSE]
  <2>1. Rec(A) /\ A.state = S.state /\ A.t1 = S.t1
    BY <1>1 DEF Rec, Fields
  <2>2. dl_timer_t3(S) \in {A, BeginRecovery(A)}
    BY DEF dl_timer_t3, t3_expiry
  <2> HIDE DEF A
  <2>3. QED
    BY <1>2, <2>1, <2>2, TimedSame, TimedRunning
<1>4. Timed(S, dl_timer_t1(S))
  <2> DEFINE A == [S EXCEPT !.t1 = FALSE, !.t1_paused = FALSE]
             N == [A EXCEPT !.rc = A.rc + 1]
             G(X) == enter_new_state(X, state_0_disconnected)
             C(type) == start_t1(SendLow(N, ax25_u_frame("cr_cmd", type, 1)))
  <2>1. Rec(A) /\ A.state = S.state
    BY <1>1 DEF Rec, Fields
  <2>2. dl_timer_t1(S) = t1_expiry(A)
    BY DEF dl_timer_t1
  <2> HIDE DEF A
  <2>3. Rec(N)
    BY <2>1 DEF Rec, Fields
  <2>4. [A EXCEPT !.rc = @ + 1] = N
    BY <2>1 DEF Rec, Fields
  <2>5. \/ t1_expiry(A) = A /\ A.state = state_0_disconnected
        \/ t1_expiry(A) \in {C("SABM"), C("DISC"), BeginRecovery(A), transmit_enquiry(N)}
        \/ t1_expiry(A) \in {G(A), G(discard_i_queue(A)),
                             G(SendLow(discard_i_queue(A), Dm(0)))}
    <3>1. S.state \in 0..4
      BY <1>1 DEF IsLink
    <3> HIDE DEF N
    <3>2. QED
      BY <2>1, <2>4, <3>1, StateIs DEF t1_expiry, RetryCommand, state_0_disconnected,
         state_1_awaiting_connection, state_2_awaiting_release, state_3_connected,
         state_4_timer_recovery
  <2> HIDE DEF N
  <2>6. C("SABM").t1 /\ C("DISC").t1 /\ BeginRecovery(A).t1 /\ transmit_enquiry(N).t1
    BY <1>2, <2>1, <2>3 DEF Rec, Fields, start_t1, SendLow, lm_data_request
  <2>7. /\ G(A).state = state_0_disconnected /\ G(discard_i_queue(A)).state = state_0_disconnected
        /\ G(SendLow(discard_i_queue(A), Dm(0))).state = state_0_disconnected
    BY <2>1 DEF Rec, Fields, enter_new_state, SendLow, lm_data_request, discard_i_queue
  <2>8. state_0_disconnected # state_4_timer_recovery
    BY DEF state_0_disconnected, state_4_timer_recovery
  <2> HIDE DEF C, G
  <2>9. QED
    BY <2>2, <2>5, <2>6, <2>7, <2>8, TimedRunning, TimedElsewhere
<1>5. QED
  BY <1>3, <1>4

LEMMA ClientTimed ==
  ASSUME NEW S, LinkInv(S)
  PROVE  Timed(S, Connects(S)) /\ Timed(S, Disconnects(S))
<1>1. Rec(S) /\ IsLink(S)
  BY DEF LinkInv, Sound, IsLink, Rec, Fields
<1>2. Disconnects(S).t1
  BY <1>1 DEF Rec, Fields, Disconnects, discard_i_queue, SendLow, lm_data_request,
     stop_t3, start_t1, enter_new_state
<1>3. QED
  BY <1>1, <1>2, TimedLeaves, TimedRunning DEF Connects

-----------------------------------------------------------------------------
(* The specification.                                                      *)

(* What a handler returns becomes the link, with out and up taken.         *)
LEMMA BecomesInv ==
  ASSUME NEW S, LinkInv(S), Becomes(S), dropped \in BOOLEAN
  PROVE  /\ LinkInv(link') /\ link' \in Link
         /\ link'.out = << >> /\ link'.up = << >> /\ dropped' \in BOOLEAN
         /\ link'.va = S.va /\ link'.vs = S.vs
         /\ link'.state = S.state /\ link'.t1 = S.t1
<1> DEFINE T == [S EXCEPT !.out = << >>]
           U == [T EXCEPT !.up = << >>]
<1>1. IsLink(S)
  BY DEF LinkInv, Sound
<1>2. Quiet(S, T) /\ T.out = << >>
  BY <1>1, OutIsQuiet DEF IsLink
<1>3. LinkInv(T) /\ T.va = S.va /\ T.vs = S.vs /\ T.state = S.state /\ T.t1 = S.t1
  BY <1>2, QuietInv DEF Quiet, SameTimers
<1> HIDE DEF T
<1>4. Quiet(T, U) /\ U.up = << >> /\ U.out = << >>
  BY <1>2, <1>3, OutIsQuiet DEF LinkInv, Sound, IsLink
<1>5. link' = U
  BY <1>1 DEF Becomes, U, T, IsLink
<1> HIDE DEF U
<1>6. LinkInv(U) /\ U.va = S.va /\ U.vs = S.vs /\ U.state = S.state /\ U.t1 = S.t1
  <2>1. LinkInv(U) /\ U.va = T.va /\ U.vs = T.vs /\ U.state = T.state
    BY <1>3, <1>4, QuietInv
  <2>2. U.t1 = T.t1
    BY <1>4 DEF Quiet, SameTimers
  <2>3. QED
    BY <1>3, <2>1, <2>2
<1>7. U \in Link
  <2>1. << >> \in Seq({TQ_PRIO_0_HI, TQ_PRIO_1_LO} \X Frame)
    OBVIOUS
  <2>2. << >> \in Seq(Info)
    OBVIOUS
  <2>3. IsLink(U)
    BY <1>6 DEF LinkInv, Sound
  <2>4. QED
    BY <1>4, <2>1, <2>2, <2>3 DEF IsLink, Link
<1>8. dropped' \in BOOLEAN
  BY <1>1 DEF Becomes, IsLink
<1>9. QED
  BY <1>4, <1>5, <1>6, <1>7, <1>8

(* The inductive invariant: with the link's own, that a timer recovery     *)
(* has T1 running unless it is stalled.                                    *)
Awake == link.state = state_4_timer_recovery => link.t1 \/ stalled

Inv == LinkInv(link) /\ TypeOK /\ Awake

(* What a step may do to V(A).                                             *)
AckStep ==
  \/ Ahead(link.va, link'.va) <= Outstanding(link)
  \/ link'.va = 0 /\ link'.vs = 0

LEMMA InitInv ==
  ASSUME Init
  PROVE  Inv
<1> DEFINE S == NewLink
<1>1. 0 \in Number
  BY Bounds DEF Number
<1>2. << >> \in Seq(Info) /\ << >> \in Seq({TQ_PRIO_0_HI, TQ_PRIO_1_LO} \X Frame)
  OBVIOUS
<1>3. /\ S \in Link /\ IsLink(S) /\ S.vs = 0 /\ S.va = 0 /\ S.vr = 0 /\ S.state = 0
      /\ S.out = << >> /\ S.up = << >> /\ ~S.t1
      /\ \A n \in Number : S.txdata_by_ns[n] = NULL /\ S.rxdata_by_ns[n] = NULL
  BY <1>1, <1>2 DEF NewLink, Link, IsLink, state_0_disconnected
<1> HIDE DEF S
<1>4. Outstanding(S) = 0
  BY <1>1, <1>3, AheadSelf DEF Outstanding
<1>5. AX25MODULO(0 - 1) \in Number
  BY <1>1, Before
<1>6. WindowOK(S)
  <2>1. \A n \in Number : ~(Ahead(S.va, n) < 0)
    BY <1>1, <1>3, AheadIs, Bounds
  <2>2. 0 <= k_maxframe
    BY Bounds
  <2>3. QED
    BY <1>3, <1>4, <1>5, <2>1, <2>2 DEF WindowOK
<1>7. StashOK(S) /\ PausedOK(S)
  BY <1>1, <1>3, <1>5 DEF StashOK, PausedOK
<1>8. Settled(S)
  BY <1>3 DEF Settled, WaitsWithTimer, RetriesOK, state_0_disconnected,
     state_1_awaiting_connection, state_2_awaiting_release, state_3_connected
<1>9. LinkInv(S)
  BY <1>3, <1>6, <1>7, <1>8 DEF LinkInv, Sound
<1>10. state_0_disconnected # state_4_timer_recovery
  BY DEF state_0_disconnected, state_4_timer_recovery
<1>11. QED
  BY <1>3, <1>9, <1>10 DEF Init, Inv, TypeOK, Awake, S, state_0_disconnected

(* A handler that is a step of the link is a step of the specification.    *)
LEMMA BecomesStep ==
  ASSUME Inv, NEW S, NEW now \in BOOLEAN, Step(link, S), Becomes(S), Stalls(S, now),
         Timed(link, S) \/ now, requests' \in Nat
  PROVE  Inv' /\ AckStep
<1>1. LinkInv(S) /\ AckMoves(link, S) /\ dropped \in BOOLEAN
  BY DEF Step, Inv, TypeOK
<1>2. /\ LinkInv(link') /\ link' \in Link
      /\ link'.out = << >> /\ link'.up = << >> /\ dropped' \in BOOLEAN
      /\ link'.va = S.va /\ link'.vs = S.vs /\ link'.state = S.state /\ link'.t1 = S.t1
  BY <1>1, BecomesInv
<1>2a. stalled \in BOOLEAN /\ Awake
  BY DEF Inv, TypeOK
<1>2b. stalled' \in BOOLEAN
  BY DEF Stalls
<1>2c. Awake'
  BY <1>2, <1>2a DEF Awake, Timed, Stalls
<1>3. Inv'
  BY <1>2, <1>2b, <1>2c DEF Inv, TypeOK, LinkInv, Sound, Settled, IsLink, WindowOK, StashOK, PausedOK,
     WaitsWithTimer, RetriesOK, NothingStashed
<1>4. AckStep
  BY <1>1, <1>2 DEF AckMoves, AckStep
<1>5. QED
  BY <1>3, <1>4

(* One action at a time.                                                   *)
LEMMA NextStep ==
  ASSUME Inv, [Next]_vars
  PROVE  Inv' /\ (AckStep \/ UNCHANGED link)
<1>1. /\ LinkInv(link) /\ requests \in Nat /\ link \in Link /\ dropped \in BOOLEAN
      /\ MaxRequests \in Nat
  BY DataLinkAssumption DEF Inv, TypeOK
<1>2. CASE ReceiveFrame
  <2>1. PICK f \in Frames :
          /\ Becomes(lm_data_indication(link, f))
          /\ Stalls(lm_data_indication(link, f), AsksForNothing(link, f))
          /\ requests' \in 0..MaxRequests
    BY <1>2 DEF ReceiveFrame
  <2>2. f \in Frame /\ requests' \in Nat
    BY <1>1, <2>1, DataLinkAssumption
  <2>3. /\ Step(link, lm_data_indication(link, f))
        /\ Timed(link, lm_data_indication(link, f)) \/ AsksForNothing(link, f)
        /\ AsksForNothing(link, f) \in BOOLEAN
    BY <1>1, <2>2, IndicationStep, IndicationTimed DEF AsksForNothing
  <2>4. QED
    BY <2>1, <2>2, <2>3, BecomesStep
<1>3. CASE SeizeConfirmed
  <2>1. requests' \in Nat
    BY <1>3 DEF SeizeConfirmed
  <2>2. QED
    BY <1>1, <1>3, <2>1, SeizeStep, SeizeTimed, BecomesStep DEF SeizeConfirmed
<1>4. ASSUME NEW busy \in BOOLEAN, ChannelChanges(busy)
      PROVE  Inv' /\ (AckStep \/ UNCHANGED link)
  BY <1>1, <1>4, BusyStep, BusyTimed, BecomesStep DEF ChannelChanges
<1>5. CASE T1Expires
  BY <1>1, <1>5, T1Step, TimersTimed, BecomesStep DEF T1Expires
<1>6. CASE T3Expires
  BY <1>1, <1>6, T3Step, TimersTimed, BecomesStep DEF T3Expires
<1>7. CASE RequestGivenUp
  <2>1. UNCHANGED <<link, stalled>>
    BY <1>7 DEF RequestGivenUp
  <2>2. requests' \in Nat
    BY <1>1, <1>7 DEF RequestGivenUp
  <2>3. dropped' \in BOOLEAN
    BY <1>1, <1>7 DEF RequestGivenUp, Link
  <2>4. TypeOK'
    BY <2>1, <2>2, <2>3 DEF Inv, TypeOK
  <2>5. LinkInv(link)'
    BY <1>1, <2>1 DEF LinkInv, Sound, Settled, IsLink, WindowOK, StashOK, PausedOK,
       WaitsWithTimer, RetriesOK, NothingStashed
  <2>6. QED
    BY <2>1, <2>4, <2>5 DEF Inv, Awake
<1>8. CASE ClientConnects
  <2>1. Step(link, Connects(link))
    BY <1>1, RecoversStep DEF Connects, LinkInv
  <2>2. QED
    BY <1>1, <1>8, <2>1, ClientTimed, BecomesStep DEF ClientConnects
<1>9. CASE ClientDisconnects
  BY <1>1, <1>9, DisconnectsStep, ClientTimed, BecomesStep DEF ClientDisconnects
<1>10. CASE ClientSends
  <2>1. PICK info \in Info : link' = [link EXCEPT !.i_frame_queue = Append(@, info)]
    BY <1>10 DEF ClientSends
  <2> DEFINE S == [link EXCEPT !.i_frame_queue = Append(@, info)]
  <2>2. Step(link, S)
    BY <1>1, SendsStep
  <2>3. S.out = << >> /\ S.up = << >>
    BY DEF Inv, TypeOK, Link
  <2> HIDE DEF S
  <2>4. link' = [S EXCEPT !.out = << >>, !.up = << >>]
    BY <2>1, <2>2, <2>3 DEF S, Step, LinkInv, Sound, IsLink
  <2>5. UNCHANGED <<dropped, stalled>> /\ requests' \in Nat
    BY <1>1, <1>10 DEF ClientSends
  <2>5a. link'.state = link.state /\ link'.t1 = link.t1
    BY <1>1, <2>1 DEF Link
  <2>6. LinkInv(link')
    BY <2>1, <2>2 DEF Step, S
  <2>7. link' \in Link /\ link'.out = << >> /\ link'.up = << >>
    <3>1. << >> \in Seq({TQ_PRIO_0_HI, TQ_PRIO_1_LO} \X Frame)
      OBVIOUS
    <3>2. << >> \in Seq(Info)
      OBVIOUS
    <3>3. IsLink(S)
      BY <2>2 DEF Step, LinkInv, Sound
    <3>4. QED
      BY <2>3, <2>4, <3>1, <3>2, <3>3 DEF IsLink, Link
  <2>8. Inv'
    BY <1>1, <2>5, <2>5a, <2>6, <2>7 DEF Inv, Awake, TypeOK, LinkInv, Sound, Settled, IsLink, WindowOK,
       StashOK, PausedOK, WaitsWithTimer, RetriesOK, NothingStashed
  <2>9. AckStep
    BY <2>1, <2>2 DEF S, Step, AckMoves, AckStep
  <2>10. QED
    BY <2>8, <2>9
<1>11. CASE UNCHANGED vars
  BY <1>11 DEF vars, Inv, Awake, TypeOK, LinkInv, Sound, Settled, IsLink, WindowOK, StashOK,
     PausedOK, WaitsWithTimer, RetriesOK, NothingStashed
<1>12. QED
  BY <1>2, <1>3, <1>4, <1>5, <1>6, <1>7, <1>8, <1>9, <1>10, <1>11 DEF Next

(* Every link the handlers reach is sound at the end of each of them.      *)
THEOREM InvHolds == Spec => []Inv
<1>1. Init => Inv
  BY InitInv
<1>2. Inv /\ [Next]_vars => Inv'
  BY NextStep
<1>3. QED
  BY <1>1, <1>2, PTL DEF Spec

(* The fields keep their types, and every handler's output is taken.       *)
THEOREM LinkTypeCorrect == Spec => []TypeOK
<1>1. Inv => TypeOK
  BY DEF Inv
<1>2. QED
  BY <1>1, InvHolds, PTL

(* Every frame sent and not acknowledged is kept for sending again, within *)
(* the window, above an empty slot: SET_VA, which frees downwards until it *)
(* finds one, never frees a frame that is still to be acknowledged.        *)
THEOREM WindowKept == Spec => []OutstandingIsKept
<1>1. Inv => OutstandingIsKept
  BY DEF Inv, LinkInv, Sound, WindowOK, OutstandingIsKept
<1>2. QED
  BY <1>1, InvHolds, PTL

(* A frame kept by i_frame_continued is given up by the frame before it,   *)
(* so a number the peer sends again never finds an old frame in its slot.  *)
THEOREM ExpectedNeverKept == Spec => []ExpectedIsNotKept
<1>1. Inv => ExpectedIsNotKept
  BY DEF Inv, LinkInv, Sound, StashOK, ExpectedIsNotKept
<1>2. QED
  BY <1>1, InvHolds, PTL

(* T1 stands still exactly while the channel is busy, whatever handlers    *)
(* start, stop, pause and resume it in between.                            *)
THEOREM PauseFollowsChannel == Spec => []PausedWhileBusy
<1>1. Inv => PausedWhileBusy
  BY DEF Inv, LinkInv, Sound, PausedOK, PausedWhileBusy
<1>2. QED
  BY <1>1, InvHolds, PTL

(* No handler leaves a link that waits for its peer without a timer, and   *)
(* in timer recovery no frame stops T1 but an SREJ that asks for nothing.  *)
THEOREM AlwaysATimer == Spec => []TimerDrivesLink
<1>1. Inv => TimerDrivesLink
  BY DEF Inv, Awake, LinkInv, Settled, WaitsWithTimer, TimerDrivesLink
<1>2. QED
  BY <1>1, InvHolds, PTL

(* The count of tries never passes the value t1_expiry compares it with.   *)
THEOREM RetriesBounded == Spec => []RetriesCounted
<1>1. Inv => RetriesCounted
  BY DEF Inv, LinkInv, Settled, RetriesOK, RetriesCounted
<1>2. QED
  BY <1>1, InvHolds, PTL

(* An acknowledgement, whatever number a frame carries, moves V(A) only    *)
(* over frames that were sent, unless the numbers start again from 0.      *)
THEOREM AcksStayInWindow == Spec => AcksOnlyWhatWasSent
<1>1. Inv /\ [Next]_vars => [\/ Ahead(link.va, link'.va) <= Outstanding(link)
                             \/ link'.va = 0 /\ link'.vs = 0]_vars
  <2> SUFFICES ASSUME Inv, [Next]_vars
               PROVE  [\/ Ahead(link.va, link'.va) <= Outstanding(link)
                       \/ link'.va = 0 /\ link'.vs = 0]_vars
    OBVIOUS
  <2>1. CASE AckStep
    BY <2>1 DEF AckStep
  <2>2. CASE UNCHANGED link
    <3>1. link'.va = link.va
      BY <2>2
    <3>2. AckMoves(link, link')
      BY <3>1, AckStays DEF Inv, LinkInv
    <3>3. QED
      BY <3>2 DEF AckMoves
  <2>3. QED
    BY <2>1, <2>2, NextStep
<1>2. QED
  BY <1>1, InvHolds, PTL DEF Spec, AcksOnlyWhatWasSent

-----------------------------------------------------------------------------
(* Acknowledgements.                                                       *)

(* The inductive invariant: with the link's own, that a link which waits   *)
(* for its connection owes no acknowledgement.                             *)
AckInv == Inv /\ AckLink(link) /\ AckIsOnItsWay

LEMMA LinkReady ==
  ASSUME AckInv
  PROVE  /\ Ready(link) /\ link.state \in 0..4 /\ link.radio_channel_busy \in BOOLEAN
         /\ requests \in Nat /\ dropped \in BOOLEAN /\ ~Asks(link.out)
<1>1. link \in Link /\ link.out = << >> /\ AckLink(link)
  BY DEF AckInv, Inv, TypeOK
<1>2. << >> \in Seq({}) /\ DOMAIN << >> = {}
  OBVIOUS
<1>3. Chain(link.out) /\ ~Asks(link.out)
  BY <1>1, <1>2 DEF Chain, Asks
<1>4. Rec(link) /\ link.vs \in Number /\ link.vr \in Number /\ link.state \in 0..4
      /\ link.radio_channel_busy \in BOOLEAN
  BY <1>1 DEF Link, Rec, Fields
<1>5. QED
  BY <1>1, <1>3, <1>4 DEF Ready, Base, AckInv, Inv, TypeOK

(* The fields of the link after a handler.                                 *)
LEMMA BecomesAck ==
  ASSUME NEW S, Rec(S), Becomes(S)
  PROVE  /\ link'.state = S.state /\ link'.acknowledge_pending = S.acknowledge_pending
         /\ dropped' = (dropped /\ S.acknowledge_pending)
  BY DEF Becomes, Rec, Fields

(* A call that asks for nothing.                                           *)
LEMMA OwesStep ==
  ASSUME AckInv, NEW S, Rec(S), Owes(link, S), Becomes(S), UNCHANGED requests
  PROVE  (AckLink(link) /\ AckIsOnItsWay)'
<1>1. /\ link'.state = S.state /\ link'.acknowledge_pending = S.acknowledge_pending
      /\ dropped' = (dropped /\ S.acknowledge_pending)
  BY BecomesAck
<1>2. AckLink(link)'
  BY <1>1 DEF Owes, AckLink
<1>3. ASSUME link'.state \in Connected, link'.acknowledge_pending
      PROVE  requests' > 0 \/ dropped'
  <2>1. requests > 0 \/ dropped
    BY <1>1, <1>3 DEF Owes, AckInv, AckIsOnItsWay
  <2>2. QED
    BY <1>1, <1>3, <2>1
<1>4. QED
  BY <1>2, <1>3 DEF AckIsOnItsWay

LEMMA AckStepHolds ==
  ASSUME AckInv, [Next]_vars
  PROVE  AckInv'
<1>1. /\ Ready(link) /\ link.state \in 0..4 /\ link.radio_channel_busy \in BOOLEAN
      /\ requests \in Nat /\ dropped \in BOOLEAN /\ ~Asks(link.out)
  BY LinkReady
<1>2. Inv' /\ LinkInv(link)
  BY NextStep DEF AckInv, Inv
<1> SUFFICES (AckLink(link) /\ AckIsOnItsWay)'
  BY <1>2 DEF AckInv
<1>3. CASE ReceiveFrame
  <2>1. PICK f \in Frames :
          /\ Becomes(lm_data_indication(link, f))
          /\ requests' = requests + Requested(lm_data_indication(link, f))
    BY <1>3 DEF ReceiveFrame
  <2> DEFINE S == lm_data_indication(link, f)
  <2>2. Answers(link, S)
    BY <1>1, <2>1, IndicationAnswers, DataLinkAssumption
  <2>3. Becomes(S) /\ requests' = requests + Requested(S)
    BY <2>1
  <2> HIDE DEF S
  <2>4. Rec(S) /\ Chain(S.out)
    BY <2>2 DEF Answers, AckKept
  <2>5. /\ link'.state = S.state /\ link'.acknowledge_pending = S.acknowledge_pending
        /\ dropped' = (dropped /\ S.acknowledge_pending)
    BY <2>3, <2>4, BecomesAck
  <2>6. Requested(S) \in Nat /\ (Asks(S.out) => Requested(S) > 0)
    BY <2>4, RequestedIs
  <2>7. AckLink(link)'
    BY <2>2, <2>5 DEF Answers, AckLink
  <2>8. ASSUME link'.state \in Connected, link'.acknowledge_pending
        PROVE  requests' > 0 \/ dropped'
    <3>1. link.state \in Connected
      BY <2>2, <2>5, <2>8 DEF Answers
    <3>2. CASE Asks(S.out)
      BY <1>1, <2>3, <2>6, <3>2
    <3>3. CASE link.acknowledge_pending
      <4>1. requests > 0 \/ dropped
        BY <3>1, <3>3 DEF AckInv, AckIsOnItsWay
      <4>2. CASE requests > 0
        BY <1>1, <2>3, <2>6, <4>2
      <4>3. CASE dropped
        BY <2>5, <2>8, <4>3
      <4>4. QED
        BY <4>1, <4>2, <4>3
    <3>4. QED
      BY <2>2, <2>5, <2>8, <3>2, <3>3 DEF Answers, AckKept
  <2>9. QED
    BY <2>7, <2>8 DEF AckIsOnItsWay
<1>4. CASE SeizeConfirmed
  <2> DEFINE S == lm_seize_confirm(link)
  <2>1. Becomes(S)
    BY <1>4 DEF SeizeConfirmed
  <2>2. AckLink(S) /\ (S.state \in Connected => ~S.acknowledge_pending)
    BY <1>1, SeizeOwes
  <2>3. Rec(S)
    <3>1. Step(link, S)
      BY <1>2, SeizeStep
    <3>2. QED
      BY <3>1 DEF Step, LinkInv, Sound, IsLink, Rec, Fields
  <2> HIDE DEF S
  <2>4. QED
    BY <2>1, <2>2, <2>3, BecomesAck DEF AckLink, AckIsOnItsWay
<1>5. ASSUME NEW S, Owes(link, S), Step(link, S), Becomes(S), UNCHANGED requests
      PROVE  (AckLink(link) /\ AckIsOnItsWay)'
  <2>1. Rec(S)
    BY <1>5 DEF Step, LinkInv, Sound, IsLink, Rec, Fields
  <2>2. QED
    BY <1>5, <2>1, OwesStep
<1>6. ASSUME NEW busy \in BOOLEAN, ChannelChanges(busy)
      PROVE  (AckLink(link) /\ AckIsOnItsWay)'
  BY <1>1, <1>2, <1>5, <1>6, BusyStep, BusyOwes DEF ChannelChanges
<1>7. CASE T1Expires
  BY <1>1, <1>2, <1>5, <1>7, T1Step, T1Owes DEF T1Expires
<1>8. CASE T3Expires
  BY <1>1, <1>2, <1>5, <1>8, T3Step, T3Owes DEF T3Expires
<1>9. CASE RequestGivenUp
  <2>1. UNCHANGED link /\ dropped' = link.acknowledge_pending
    BY <1>9 DEF RequestGivenUp
  <2>2. QED
    BY <2>1 DEF AckInv, AckLink, AckIsOnItsWay
<1>10. CASE ClientConnects
  <2>1. Step(link, Connects(link))
    BY <1>2, RecoversStep DEF Connects, LinkInv
  <2>2. QED
    BY <1>1, <1>5, <1>10, <2>1, ClientOwes DEF ClientConnects
<1>11. CASE ClientDisconnects
  BY <1>1, <1>2, <1>5, <1>11, DisconnectsStep, ClientOwes DEF ClientDisconnects
<1>12. CASE ClientSends
  <2>1. PICK info \in Info : link' = [link EXCEPT !.i_frame_queue = Append(@, info)]
    BY <1>12 DEF ClientSends
  <2>2. requests' = requests + 1
    BY <1>12 DEF ClientSends
  <2>3. link'.state = link.state /\ link'.acknowledge_pending = link.acknowledge_pending
    BY <1>1, <2>1 DEF Ready, Base, Rec, Fields
  <2>4. QED
    BY <1>1, <2>2, <2>3 DEF AckInv, AckLink, AckIsOnItsWay
<1>13. CASE UNCHANGED vars
  BY <1>13 DEF vars, AckInv, AckLink, AckIsOnItsWay
<1>14. QED
  BY <1>3, <1>4, <1>6, <1>7, <1>8, <1>9, <1>10, <1>11, <1>12, <1>13 DEF Next

(* Whatever the peer sends, and whatever the channel does: an              *)
(* acknowledgement that a connected link owes has a request for the        *)
(* channel under way, whose confirm will send it, unless the transmit      *)
(* thread gave a request up (transmit_thread.c:288) since it was owed.     *)
THEOREM AckOnItsWay == Spec => []AckIsOnItsWay
<1>1. Init => AckInv
  <2> SUFFICES ASSUME Init PROVE AckInv
    OBVIOUS
  <2>1. Inv /\ link = NewLink
    BY InitInv DEF Init
  <2>2. link.state = state_0_disconnected
    BY <2>1 DEF NewLink
  <2>3. state_0_disconnected \notin Connected
        /\ state_0_disconnected # state_1_awaiting_connection
    BY DEF Connected, state_0_disconnected, state_1_awaiting_connection, state_3_connected,
       state_4_timer_recovery
  <2>4. QED
    BY <2>1, <2>2, <2>3 DEF AckInv, AckLink, AckIsOnItsWay
<1>2. AckInv /\ [Next]_vars => AckInv'
  BY AckStepHolds
<1>3. AckInv => AckIsOnItsWay
  BY DEF AckInv
<1>4. QED
  BY <1>1, <1>2, <1>3, PTL DEF Spec
=============================================================================
