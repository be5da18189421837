------------------------------- MODULE Ax25Link -------------------------------
(***************************************************************************)
(* The AX.25 data link state machine (ax25_link.c).  A link is a record    *)
(* with the fields of ax25_dlsm_t; every function of the file that changes *)
(* it is an operator from the link before to the link after, so a handler  *)
(* is the composition of the functions it calls, in their order.           *)
(*                                                                         *)
(* Two fields collect what a call hands to others: `out', what goes to the *)
(* transmit queue, each entry with its priority, and `up', the information *)
(* given to dl_data_indication.  The callers below take both away.         *)
(*                                                                         *)
(* Left out: how long T1 runs (srt, t1v, select_t1_value), statistics and  *)
(* messages, and what depends on own_receiver_busy, reject_exception and   *)
(* layer_3_initiated, which no source file ever sets to true.              *)
(***************************************************************************)
EXTENDS Integers, Sequences

CONSTANTS
  Modulo,      \* 8: AX25MODULO
  k_maxframe,  \* the window, MAXFRAME in the configuration: 1 to 7, 4 by default
  n2_retry,    \* RETRY: 1 to 15, 10 by default
  Info,        \* the information fields of I frames
  TooLong,     \* those longer than AX25_MAX_INFO_LEN
  NULL

ASSUME LinkAssumption ==
  /\ Modulo \in Nat \ {0}
  /\ k_maxframe \in 1..(Modulo - 1)
  /\ n2_retry \in Nat \ {0}
  /\ TooLong \subseteq Info
  /\ NULL \notin Info

state_0_disconnected == 0
state_1_awaiting_connection == 1
state_2_awaiting_release == 2
state_3_connected == 3
state_4_timer_recovery == 4
Connected == {state_3_connected, state_4_timer_recovery}

Number == 0..(Modulo - 1)
AX25MODULO(n) == n % Modulo

TQ_PRIO_0_HI == 0
TQ_PRIO_1_LO == 1

-----------------------------------------------------------------------------
(* Frames, as ax25_pad.c builds them; `more' is the information part of a  *)
(* selective reject that asks for several frames.                          *)

CmdRes == {"cr_res", "cr_cmd", "cr_00", "cr_11"}
SFrames == {"RR", "RNR", "REJ", "SREJ"}
UFrames == {"SABM", "DISC", "DM", "UA", "FRMR", "UI", "U"}  \* "U": any other

Frame == [type: {"I", "null"} \cup SFrames \cup UFrames, cr: CmdRes, pf: {0, 1},
          nr: Number, ns: Number, info: Info \cup {NULL}, more: Seq(Number)]

ax25_u_frame(cr, type, pf) ==
  [type |-> type, cr |-> cr, pf |-> pf, nr |-> 0, ns |-> 0, info |-> NULL, more |-> << >>]

ax25_s_frame(cr, type, nr, pf) ==
  [type |-> type, cr |-> cr, pf |-> pf, nr |-> nr, ns |-> 0, info |-> NULL, more |-> << >>]

ax25_i_frame(nr, ns, info) ==
  [type |-> "I", cr |-> "cr_cmd", pf |-> 0, nr |-> nr, ns |-> ns, info |-> info,
   more |-> << >>]

NullFrame == ax25_u_frame("cr_00", "null", 0)

-----------------------------------------------------------------------------
(* The link.                                                               *)

Link ==
  [state: 0..4, rc: Nat, vs: Number, va: Number, vr: Number,
   peer_receiver_busy: BOOLEAN, acknowledge_pending: BOOLEAN,
   radio_channel_busy: BOOLEAN,
   t1: BOOLEAN,         \* t1_exp # 0
   t1_paused: BOOLEAN,  \* t1_paused_at # 0, followed while T1 runs: start_t1 sets it anew
   t3: BOOLEAN,         \* t3_exp # 0
   i_frame_queue: Seq(Info),
   txdata_by_ns: [Number -> Info \cup {NULL}],
   rxdata_by_ns: [Number -> Info \cup {NULL}],
   out: Seq({TQ_PRIO_0_HI, TQ_PRIO_1_LO} \X Frame), up: Seq(Info)]

(* As get_link_handle allocates it for a SABM from the radio.              *)
NewLink ==
  [state |-> state_0_disconnected, rc |-> 0, vs |-> 0, va |-> 0, vr |-> 0,
   peer_receiver_busy |-> FALSE, acknowledge_pending |-> FALSE,
   radio_channel_busy |-> FALSE, t1 |-> FALSE, t1_paused |-> FALSE, t3 |-> FALSE,
   i_frame_queue |-> << >>, txdata_by_ns |-> [n \in Number |-> NULL],
   rxdata_by_ns |-> [n \in Number |-> NULL], out |-> << >>, up |-> << >>]

lm_data_request(S, prio, f) == [S EXCEPT !.out = Append(@, <<prio, f>>)]
SendLow(S, f) == lm_data_request(S, TQ_PRIO_1_LO, f)
lm_seize_request(S) == SendLow(S, NullFrame)

enter_new_state(S, new_state) == [S EXCEPT !.state = new_state]

-----------------------------------------------------------------------------
(* Timers.                                                                 *)

(* Mutant: T1 runs although the channel is busy.                          *)
StartT1Running(S) == [S EXCEPT !.t1 = TRUE, !.t1_paused = FALSE]

start_t1(S) == [S EXCEPT !.t1 = TRUE, !.t1_paused = S.radio_channel_busy]
pause_t1(S) == [S EXCEPT !.t1_paused = S.t1]
resume_t1(S) == IF S.t1 THEN [S EXCEPT !.t1_paused = FALSE] ELSE S
stop_t1(S) == [resume_t1(S) EXCEPT !.t1 = FALSE]
start_t3(S) == [S EXCEPT !.t3 = TRUE]
stop_t3(S) == [S EXCEPT !.t3 = FALSE]

-----------------------------------------------------------------------------
(* The send window.                                                        *)

(* Distance from a to n, counting upwards and round.                       *)
Ahead(a, n) == AX25MODULO(n - a)

Outstanding(S) == Ahead(S.va, S.vs)

(* Mutant: the freeing begins one too high, with a frame still to come.    *)
SetVaFreesNext(S, n) ==
  [S EXCEPT !.va = n, !.txdata_by_ns = [@ EXCEPT ![n] = NULL]]

(* Frames are freed from n - 1 downwards, to the first that is not kept.   *)
SET_VA(S, n) ==
  [S EXCEPT !.va = n,
            !.txdata_by_ns =
              [x \in Number |->
                 IF \A y \in Number :
                      Ahead(y, n - 1) <= Ahead(x, n - 1) => S.txdata_by_ns[y] # NULL
                 THEN NULL ELSE S.txdata_by_ns[x]]]

(* Mutant: the window is taken for what was sent.                          *)
IsGoodNrByWindow(S, nr) == Ahead(S.va, nr) <= k_maxframe

is_good_nr(S, nr) == Ahead(S.va, nr) <= Outstanding(S)

discard_i_queue(S) == [S EXCEPT !.i_frame_queue = << >>]

(* How many frames the loop sends until the queue is empty, the window     *)
(* closed or the peer found busy.                                          *)
Room(S) == Ahead(S.vs, S.va + k_maxframe)
ToSend(S) ==
  IF S.peer_receiver_busy THEN 0
  ELSE IF Len(S.i_frame_queue) < Room(S) THEN Len(S.i_frame_queue) ELSE Room(S)

(* The loop of i_frame_pop_off_queue but for its START_T1; as a mutant, the *)
(* whole of it.                                                            *)
PopWithoutTimer(S) ==
  LET n == ToSend(S)
      stash(x) == Ahead(S.vs, x)
  IN [S EXCEPT
        !.i_frame_queue = SubSeq(@, n + 1, Len(@)),
        !.out = @ \o [i \in 1..n |->
                   <<TQ_PRIO_1_LO, ax25_i_frame(S.vr, AX25MODULO(S.vs + i - 1),
                                                S.i_frame_queue[i])>>],
        !.txdata_by_ns = [x \in Number |-> IF stash(x) < n
                                           THEN S.i_frame_queue[stash(x) + 1] ELSE @[x]],
        !.vs = AX25MODULO(@ + n),
        !.acknowledge_pending = @ /\ n = 0,
        !.t3 = @ /\ n = 0]

(* Called in states 3 and 4 only.                                          *)
i_frame_pop_off_queue(S) ==
  IF ToSend(S) = 0 THEN S ELSE start_t1(PopWithoutTimer(S))

(* Of the first numbers, in their order, those with a frame that is kept.  *)
KeptUpTo(S, numbers) ==
  LET kept[n \in 0..Len(numbers)] ==
        IF n = 0 THEN << >>
        ELSE IF S.txdata_by_ns[numbers[n]] = NULL THEN kept[n - 1]
        ELSE Append(kept[n - 1], numbers[n])
  IN kept

KeptOf(S, numbers) == KeptUpTo(S, numbers)[Len(numbers)]

(* I frames numbered as in `numbers', of those that are kept.              *)
Resend(S, numbers) ==
  LET kept == KeptOf(S, numbers)
  IN [S EXCEPT !.out = @ \o [i \in 1..Len(kept) |->
                  <<TQ_PRIO_1_LO, ax25_i_frame(S.vr, kept[i], S.txdata_by_ns[kept[i]])>>]]

(* From nr_input to V(S), once round when they are equal.                  *)
invoke_retransmission(S, nr_input) ==
  LET n == IF nr_input = S.vs THEN Modulo ELSE Ahead(nr_input, S.vs)
  IN IF S.txdata_by_ns[nr_input] = NULL THEN S
     ELSE Resend(S, [i \in 1..n |-> AX25MODULO(nr_input + i - 1)])

RetransmitFrom(S, nr) ==
  start_t1(stop_t3([invoke_retransmission(S, nr) EXCEPT !.acknowledge_pending = FALSE]))

check_i_frame_ackd(S, nr) ==
  LET T == SET_VA(S, nr) IN
  CASE S.peer_receiver_busy -> IF T.t1 THEN start_t3(T) ELSE start_t1(start_t3(T))
    [] ~S.peer_receiver_busy /\ nr = S.vs -> start_t3(stop_t1(T))
    [] ~S.peer_receiver_busy /\ nr # S.vs -> IF nr = S.va THEN S ELSE start_t1(T)

-----------------------------------------------------------------------------
(* Supervision.                                                            *)

clear_exception_conditions(S) ==
  [S EXCEPT !.peer_receiver_busy = FALSE, !.acknowledge_pending = FALSE,
            !.rxdata_by_ns = [n \in Number |-> NULL]]

establish_data_link(S) ==
  start_t1(stop_t3(SendLow([clear_exception_conditions(S) EXCEPT !.rc = 1],
                           ax25_u_frame("cr_cmd", "SABM", 1))))

(* nr_error_recovery and the change of state after it.                     *)
nr_error_recovery(S) ==
  enter_new_state(establish_data_link(S), state_1_awaiting_connection)

(* Mutant: T1 is not started.                                              *)
EnquireOnce(S) ==
  [SendLow(S, ax25_s_frame("cr_cmd", "RR", S.vr, 1)) EXCEPT !.acknowledge_pending = FALSE]

transmit_enquiry(S) ==
  start_t1([SendLow(S, ax25_s_frame("cr_cmd", "RR", S.vr, 1))
              EXCEPT !.acknowledge_pending = FALSE])

enquiry_response(S, f) ==
  [SendLow(S, ax25_s_frame("cr_res", "RR", S.vr, f)) EXCEPT !.acknowledge_pending = FALSE]

check_need_for_response(S, cr, pf) ==
  IF cr = "cr_cmd" /\ pf = 1 THEN enquiry_response(S, 1) ELSE S

(* The end of timer recovery: everything sent is acknowledged.             *)
CaughtUp(S) == enter_new_state([start_t3(stop_t1(S)) EXCEPT !.rc = 0], state_3_connected)

Disconnect(S) == enter_new_state(stop_t3(stop_t1(discard_i_queue(S))), state_0_disconnected)

(* What states 0 and 2 answer to I, RR, RNR and REJ commands.              *)
RefuseCommand(S, cr, pf) ==
  IF cr = "cr_cmd" /\ (S.state = state_0_disconnected \/ pf = 1)
  THEN SendLow(S, ax25_u_frame("cr_res", "DM", pf))
  ELSE S
=============================================================================
