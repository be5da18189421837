------------------------------ MODULE LinkFacts ------------------------------
(***************************************************************************)
(* What the functions of a data link do to it, for any modulus, window,    *)
(* number of tries and frames.  A handler is a composition of small        *)
(* functions on the link, so an invariant of the link is proved function   *)
(* by function and handed on from one to the next.                         *)
(***************************************************************************)
EXTENDS Ax25Handlers, WellFoundedInduction, TLAPS

-----------------------------------------------------------------------------
(* The invariants, of a link.                                              *)

(* The fields but for out and up, which a step fills and leaves empty.     *)
IsLink(S) ==
  S \in [state: 0..4, rc: Nat, vs: Number, va: Number, vr: Number,
         peer_receiver_busy: BOOLEAN, acknowledge_pending: BOOLEAN,
         radio_channel_busy: BOOLEAN, t1: BOOLEAN, t1_paused: BOOLEAN, t3: BOOLEAN,
         i_frame_queue: Seq(Info),
         txdata_by_ns: [Number -> Info \cup {NULL}],
         rxdata_by_ns: [Number -> Info \cup {NULL}],
         out: {S.out}, up: {S.up}]

WindowOK(S) ==
  /\ Outstanding(S) <= k_maxframe
  /\ \A n \in Number : Ahead(S.va, n) < Outstanding(S) => S.txdata_by_ns[n] # NULL
  /\ S.txdata_by_ns[AX25MODULO(S.va - 1)] = NULL

StashOK(S) ==
  /\ S.rxdata_by_ns[S.vr] = NULL
  /\ S.rxdata_by_ns[AX25MODULO(S.vr - 1)] = NULL

PausedOK(S) == S.t1 => S.t1_paused = S.radio_channel_busy

(* What every function keeps.                                              *)
Sound(S) == IsLink(S) /\ WindowOK(S) /\ StashOK(S) /\ PausedOK(S)

(* What holds again at the end of a handler.                               *)
WaitsWithTimer(S) ==
  /\ S.state \in {state_1_awaiting_connection, state_2_awaiting_release} => S.t1
  /\ S.state = state_3_connected => S.t1 \/ S.t3
RetriesOK(S) == S.state \notin {state_0_disconnected, state_3_connected} => S.rc <= n2_retry
NothingStashed(S) == \A n \in Number : S.rxdata_by_ns[n] = NULL
Settled(S) ==
  WaitsWithTimer(S) /\ RetriesOK(S) /\ (S.state = state_1_awaiting_connection => NothingStashed(S))

LinkInv(S) == Sound(S) /\ Settled(S)

(* How V(A) may move from S to T.                                          *)
AckMoves(S, T) == Ahead(S.va, T.va) <= Outstanding(S) \/ (T.va = 0 /\ T.vs = 0)

(* What a function leaves as it is.                                        *)
SameSend(S, T) == T.vs = S.vs /\ T.va = S.va /\ T.txdata_by_ns = S.txdata_by_ns
SameReceive(S, T) == T.vr = S.vr /\ T.rxdata_by_ns = S.rxdata_by_ns
SameTimers(S, T) == T.t1 = S.t1 /\ T.t1_paused = S.t1_paused /\ T.t3 = S.t3
SameControl(S, T) ==
  T.state = S.state /\ T.rc = S.rc /\ T.radio_channel_busy = S.radio_channel_busy

(* Another state of flags, queues and timers.                              *)
Same(S, T) == IsLink(T) /\ SameSend(S, T) /\ SameReceive(S, T) /\ SameControl(S, T)
Quiet(S, T) == Same(S, T) /\ SameTimers(S, T)

-----------------------------------------------------------------------------
(* Natural numbers and functions defined along them.                       *)

(* A set of numbers that is not empty has a least one.                     *)
LEMMA LeastNatural ==
  ASSUME NEW X, X \subseteq Nat, X # {}
  PROVE  \E x \in X : \A y \in X : x <= y
<1>1. PICK x \in X : \A y \in X : <<y, x>> \notin OpToRel(<, Nat)
  BY NatLessThanWellFounded, WFMin
<1>2. \A y \in X : ~(y < x)
  BY <1>1 DEF OpToRel
<1>3. QED
  BY <1>2

(* What holds of 0, and of each number after one it holds of, holds of all *)
(* up to the last: induction, for a set instead of a predicate.            *)
LEMMA CountUp ==
  ASSUME NEW n \in Nat, NEW S, 0 \in S, \A i \in 0..(n - 1) : i \in S => i + 1 \in S
  PROVE  \A i \in 0..n : i \in S
<1> DEFINE X == {i \in 0..n : i \notin S}
<1> SUFFICES ASSUME X # {} PROVE FALSE
  OBVIOUS
<1>1. PICK m \in X : \A y \in X : m <= y
  <2>1. X \subseteq Nat
    OBVIOUS
  <2> HIDE DEF X
  <2>2. QED
    BY <2>1, LeastNatural
<1>2. m \in 1..n /\ m \notin S
  OBVIOUS
<1>3. m - 1 \notin X
  BY <1>1, <1>2
<1>4. m - 1 \in S /\ m - 1 \in 0..(n - 1)
  BY <1>2, <1>3
<1>5. QED
  BY <1>2, <1>4

(* A function defined by a step from each number to the next exists.       *)
Steps(g, n, b, T) == g[0] = b /\ \A k \in 1..n : g[k] = T[k][g[k - 1]]

LEMMA StepByStep ==
  ASSUME NEW n \in Nat, NEW X, NEW b \in X, NEW T \in [1..n -> [X -> X]]
  PROVE  \E g \in [0..n -> X] : Steps(g, n, b, T)
<1> DEFINE Good(m) == {g \in [0..m -> X] :
                         g[0] = b /\ \A k \in 1..m : g[k] = T[k][g[k - 1]]}
           S == {m \in 0..n : Good(m) # {}}
<1>1. 0 \in S
  <2> DEFINE g == [k \in 0..0 |-> b]
  <2>1. g \in Good(0)
    OBVIOUS
  <2>2. QED
    BY <2>1
<1>2. ASSUME NEW i \in 0..(n - 1), i \in S
      PROVE  i + 1 \in S
  <2>1. PICK g : g \in Good(i)
    BY <1>2
  <2> DEFINE h == [k \in 0..(i + 1) |-> IF k = i + 1 THEN T[i + 1][g[i]] ELSE g[k]]
  <2>2. g \in [0..i -> X] /\ g[0] = b /\ \A k \in 1..i : g[k] = T[k][g[k - 1]]
    BY <2>1
  <2>3. i \in 0..i /\ i + 1 \in 1..n
    OBVIOUS
  <2>4. T[i + 1][g[i]] \in X
    BY <2>2, <2>3
  <2>5. h \in [0..(i + 1) -> X]
    BY <2>2, <2>4
  <2>6. h[0] = b
    BY <2>2
  <2>7. ASSUME NEW k \in 1..(i + 1) PROVE h[k] = T[k][h[k - 1]]
    <3>1. k - 1 \in 0..i /\ h[k - 1] = g[k - 1]
      OBVIOUS
    <3>2. QED
      BY <2>2, <3>1
  <2>8. h \in Good(i + 1)
    BY <2>5, <2>6, <2>7
  <2> HIDE DEF h
  <2>9. Good(i + 1) # {}
    <3> HIDE DEF Good
    <3>1. QED
      BY <2>8
  <2>10. i + 1 \in 0..n
    BY <2>3
  <2>11. QED
    BY <2>9, <2>10
<1>3. n \in S
  <2>1. n \in 0..n
    OBVIOUS
  <2> HIDE DEF S
  <2>2. QED
    BY <1>1, <1>2, <2>1, CountUp
<1>4. PICK g : g \in Good(n)
  BY <1>3
<1>5. Steps(g, n, b, T)
  BY <1>4 DEF Steps
<1>6. QED
  BY <1>4, <1>5

-----------------------------------------------------------------------------
(* Arithmetic modulo Modulo.                                               *)

(* A product with a factor of at least one or of at most minus one.        *)
LEMMA Multiples ==
  ASSUME NEW m \in Nat \ {0}, NEW q \in Int
  PROVE  /\ q >= 1 => m * q >= m
         /\ q >= 2 => m * q >= 2 * m
         /\ q <= -1 => m * q <= -m
         /\ q <= -2 => m * q <= -(2 * m)
         /\ m * 0 = 0 /\ m * 1 = m /\ m * (-1) = -m
  BY SMT

(* The remainder of a number that is at most one modulus off.              *)
LEMMA Wrap ==
  ASSUME NEW x \in Int, -Modulo <= x, x < 2 * Modulo
  PROVE  /\ AX25MODULO(x) \in Number
         /\ x < 0 => AX25MODULO(x) = x + Modulo
         /\ 0 <= x /\ x < Modulo => AX25MODULO(x) = x
         /\ Modulo <= x => AX25MODULO(x) = x - Modulo
<1> DEFINE q == x \div Modulo
<1>1. /\ Modulo \in Nat \ {0}
      /\ q \in Int
      /\ x % Modulo \in 0..(Modulo - 1)
      /\ x = (Modulo * q) + (x % Modulo)
  BY LinkAssumption, SMT
<1>2. /\ q >= 1 => Modulo * q >= Modulo
      /\ q >= 2 => Modulo * q >= 2 * Modulo
      /\ q <= -1 => Modulo * q <= -Modulo
      /\ q <= -2 => Modulo * q <= -(2 * Modulo)
      /\ Modulo * 0 = 0 /\ Modulo * 1 = Modulo /\ Modulo * (-1) = -Modulo
  BY <1>1, Multiples
<1> HIDE DEF q
<1>3. q \in {-1, 0, 1}
  BY <1>1, <1>2
<1>4. QED
  BY <1>1, <1>2, <1>3 DEF AX25MODULO, Number

(* The distance between two numbers.                                       *)
LEMMA AheadIs ==
  ASSUME NEW a \in Number, NEW n \in Number
  PROVE  /\ Ahead(a, n) \in Number
         /\ n >= a => Ahead(a, n) = n - a
         /\ n < a => Ahead(a, n) = n - a + Modulo
<1>1. Modulo \in Nat \ {0} /\ n - a \in Int /\ -Modulo <= n - a /\ n - a < 2 * Modulo
  BY LinkAssumption DEF Number
<1>2. QED
  BY <1>1, Wrap DEF Ahead, Number

(* The number before another.                                              *)
LEMMA Before ==
  ASSUME NEW n \in Number
  PROVE  /\ AX25MODULO(n - 1) \in Number
         /\ n = 0 => AX25MODULO(n - 1) = Modulo - 1
         /\ n # 0 => AX25MODULO(n - 1) = n - 1
<1>1. Modulo \in Nat \ {0} /\ n - 1 \in Int /\ -Modulo <= n - 1 /\ n - 1 < 2 * Modulo
  BY LinkAssumption DEF Number
<1>2. QED
  BY <1>1, Wrap DEF Number

LEMMA Bounds ==
  /\ Modulo \in Nat /\ Modulo > 0
  /\ k_maxframe \in Nat /\ k_maxframe > 0 /\ k_maxframe < Modulo
  /\ \A n \in Number : n \in Nat /\ n < Modulo
  BY LinkAssumption DEF Number

LEMMA AheadSelf ==
  ASSUME NEW n \in Number
  PROVE  Ahead(n, n) = 0
<1>1. n \in Nat
  BY Bounds
<1>2. QED
  BY <1>1, AheadIs

(* Distances add up.                                                       *)
LEMMA AheadAdds ==
  ASSUME NEW a \in Number, NEW n \in Number, NEW s \in Number, Ahead(a, n) <= Ahead(a, s)
  PROVE  Ahead(n, s) = Ahead(a, s) - Ahead(a, n)
<1> DEFINE u == Ahead(a, n)
           v == Ahead(a, s)
           w == Ahead(n, s)
<1>1. /\ Modulo \in Nat \ {0} /\ a \in Int /\ n \in Int /\ s \in Int
      /\ 0 <= a /\ a < Modulo /\ 0 <= n /\ n < Modulo /\ 0 <= s /\ s < Modulo
  BY LinkAssumption DEF Number
<1>2. /\ (n >= a => u = n - a) /\ (n < a => u = n - a + Modulo)
      /\ (s >= a => v = s - a) /\ (s < a => v = s - a + Modulo)
      /\ (s >= n => w = s - n) /\ (s < n => w = s - n + Modulo)
      /\ u <= v
  BY AheadIs
<1> HIDE DEF u, v, w
<1>3. w = v - u
  BY <1>1, <1>2
<1>4. QED
  BY <1>3 DEF u, v, w

(* Upwards from b, less than once round from a.                            *)
LEMMA NumberPlus ==
  ASSUME NEW a \in Number, NEW b \in Number, NEW n \in Nat, Ahead(a, b) + n < Modulo
  PROVE  AX25MODULO(b + n) \in Number /\ Ahead(a, AX25MODULO(b + n)) = Ahead(a, b) + n
<1> DEFINE u == Ahead(a, b)
           y == b + n
           c == AX25MODULO(y)
           v == Ahead(a, c)
<1>1. /\ a \in Nat /\ a < Modulo /\ b \in Nat /\ b < Modulo /\ Modulo \in Nat
      /\ u \in Nat
  BY AheadIs, Bounds
<1>2. (b >= a => u = b - a) /\ (b < a => u = b - a + Modulo)
  BY AheadIs
<1> HIDE DEF u
<1>3. u + n < Modulo
  BY DEF u
<1>4. y \in Int /\ 0 <= y /\ -Modulo <= y /\ y < 2 * Modulo
  BY <1>1, <1>2, <1>3
<1>5. y = b + n
  OBVIOUS
<1> HIDE DEF y
<1>6. /\ c \in Number
      /\ y < Modulo => c = y
      /\ Modulo <= y => c = y - Modulo
  BY <1>1, <1>4, Wrap
<1> HIDE DEF c
<1>7. (c >= a => v = c - a) /\ (c < a => v = c - a + Modulo)
  BY <1>6, AheadIs
<1> HIDE DEF v
<1>8. c \in Nat /\ c < Modulo
  BY <1>6, Bounds
<1>9. v = u + n
  BY <1>1, <1>2, <1>3, <1>4, <1>5, <1>6, <1>7, <1>8
<1>10. QED
  BY <1>6, <1>9 DEF v, c, y, u

(* From x up to the number before n is all the way round but for the way   *)
(* from n to x.                                                            *)
LEMMA AheadFlips ==
  ASSUME NEW x \in Number, NEW n \in Number
  PROVE  Ahead(x, n - 1) = Modulo - 1 - Ahead(n, x)
<1> DEFINE u == Ahead(x, n - 1)
           v == Ahead(n, x)
<1>1. /\ Modulo \in Nat \ {0} /\ x \in Int /\ n \in Int
      /\ 0 <= x /\ x < Modulo /\ 0 <= n /\ n < Modulo
  BY LinkAssumption DEF Number
<1>2. n - 1 - x \in Int /\ -Modulo <= n - 1 - x /\ n - 1 - x < 2 * Modulo
  BY <1>1
<1>3. /\ (n - 1 - x < 0 => u = n - 1 - x + Modulo)
      /\ (0 <= n - 1 - x /\ n - 1 - x < Modulo => u = n - 1 - x)
  BY <1>2, Wrap DEF Ahead
<1>4. (x >= n => v = x - n) /\ (x < n => v = x - n + Modulo)
  BY AheadIs
<1> HIDE DEF u, v
<1>5. u = Modulo - 1 - v
  BY <1>1, <1>3, <1>4
<1>6. QED
  BY <1>5 DEF u, v

(* The same for the number before v.                                       *)
LEMMA BeforeFlips ==
  ASSUME NEW n \in Number, NEW v \in Number
  PROVE  Ahead(n, AX25MODULO(v - 1)) = Modulo - 1 - Ahead(v, n)
<1> DEFINE p == AX25MODULO(v - 1)
           u == Ahead(n, p)
           w == Ahead(v, n)
<1>1. /\ Modulo \in Nat \ {0} /\ v \in Int /\ n \in Int
      /\ 0 <= v /\ v < Modulo /\ 0 <= n /\ n < Modulo
  BY LinkAssumption DEF Number
<1>2. p \in Number /\ (v = 0 => p = Modulo - 1) /\ (v # 0 => p = v - 1)
  BY Before
<1> HIDE DEF p
<1>3. /\ (p >= n => u = p - n) /\ (p < n => u = p - n + Modulo)
      /\ (n >= v => w = n - v) /\ (n < v => w = n - v + Modulo)
  BY <1>2, AheadIs
<1> HIDE DEF u, w
<1>4. u = Modulo - 1 - w
  BY <1>1, <1>2, <1>3 DEF Number
<1>5. QED
  BY <1>4 DEF p, u, w

-----------------------------------------------------------------------------
(* Functions that touch neither numbers nor kept frames.                   *)

(* The invariants are about the numbers, the kept frames and the timers.   *)
LEMMA SameIsSound ==
  ASSUME NEW S, NEW T, Sound(S), Same(S, T), PausedOK(T)
  PROVE  Sound(T)
  BY DEF Sound, Same, SameSend, SameReceive, WindowOK, StashOK, Outstanding

LEMMA QuietIsSound ==
  ASSUME NEW S, NEW T, Sound(S), Quiet(S, T)
  PROVE  Sound(T)
  BY SameIsSound DEF Sound, Quiet, Same, SameTimers, SameControl, PausedOK

LEMMA QuietIsSettled ==
  ASSUME NEW S, NEW T, Settled(S), Quiet(S, T)
  PROVE  Settled(T)
  BY DEF Settled, Quiet, Same, SameTimers, SameControl, SameReceive, WaitsWithTimer,
     RetriesOK, NothingStashed

LEMMA QuietTransitive ==
  ASSUME NEW S, NEW T, NEW U, Quiet(S, T), Quiet(T, U)
  PROVE  Quiet(S, U)
  BY DEF Quiet, Same, SameTimers, SameControl, SameReceive, SameSend

(* Calls that only send, deliver or set flags.                             *)
LEMMA QuietCalls ==
  ASSUME NEW S, IsLink(S)
  PROVE  /\ Quiet(S, S)
         /\ \A prio, f : Quiet(S, lm_data_request(S, prio, f))
         /\ \A f : Quiet(S, SendLow(S, f))
         /\ Quiet(S, lm_seize_request(S))
         /\ \A f : Quiet(S, enquiry_response(S, f))
         /\ \A cr, pf : Quiet(S, check_need_for_response(S, cr, pf))
         /\ \A cr, pf : Quiet(S, RefuseCommand(S, cr, pf))
         /\ Quiet(S, discard_i_queue(S))
         /\ \A b \in BOOLEAN : Quiet(S, [S EXCEPT !.peer_receiver_busy = b])
         /\ \A b \in BOOLEAN : Quiet(S, [S EXCEPT !.acknowledge_pending = b])
<1> USE DEF Quiet, Same, SameTimers, SameControl, SameReceive, SameSend
<1>1. Quiet(S, S)
  BY DEF IsLink
<1>2. ASSUME NEW prio, NEW f PROVE Quiet(S, lm_data_request(S, prio, f))
  BY DEF IsLink, lm_data_request
<1>3. ASSUME NEW f PROVE Quiet(S, SendLow(S, f))
  BY <1>2 DEF SendLow
<1>4. Quiet(S, lm_seize_request(S))
  BY <1>3 DEF lm_seize_request
<1>5. ASSUME NEW f PROVE Quiet(S, enquiry_response(S, f))
  <2> DEFINE T == SendLow(S, ax25_s_frame("cr_res", "RR", S.vr, f))
  <2>1. Quiet(S, T)
    BY <1>3
  <2> HIDE DEF T
  <2>2. Quiet(T, [T EXCEPT !.acknowledge_pending = FALSE])
    BY <2>1 DEF IsLink
  <2>3. enquiry_response(S, f) = [T EXCEPT !.acknowledge_pending = FALSE]
    BY DEF enquiry_response, T
  <2>4. QED
    BY <2>1, <2>2, <2>3, QuietTransitive
<1>6. ASSUME NEW cr, NEW pf PROVE Quiet(S, check_need_for_response(S, cr, pf))
  BY <1>1, <1>5 DEF check_need_for_response
<1>7. ASSUME NEW cr, NEW pf PROVE Quiet(S, RefuseCommand(S, cr, pf))
  BY <1>1, <1>3 DEF RefuseCommand
<1>8. Quiet(S, discard_i_queue(S))
  <2>1. << >> \in Seq(Info)
    OBVIOUS
  <2>2. QED
    BY <2>1 DEF IsLink, discard_i_queue
<1>9. ASSUME NEW b \in BOOLEAN
      PROVE  /\ Quiet(S, [S EXCEPT !.peer_receiver_busy = b])
             /\ Quiet(S, [S EXCEPT !.acknowledge_pending = b])
  BY DEF IsLink
<1>10. QED
  BY <1>1, <1>2, <1>3, <1>4, <1>5, <1>6, <1>7, <1>8, <1>9

-----------------------------------------------------------------------------
(* Timers: T1 stands still exactly while the channel is busy.              *)

LEMMA Timers ==
  ASSUME NEW S, IsLink(S), PausedOK(S)
  PROVE  /\ Same(S, start_t1(S)) /\ PausedOK(start_t1(S))
         /\ start_t1(S).t1 /\ start_t1(S).t3 = S.t3
         /\ Same(S, stop_t1(S)) /\ PausedOK(stop_t1(S))
         /\ ~stop_t1(S).t1 /\ stop_t1(S).t3 = S.t3
         /\ Same(S, start_t3(S)) /\ PausedOK(start_t3(S))
         /\ start_t3(S).t3 /\ start_t3(S).t1 = S.t1
         /\ Same(S, stop_t3(S)) /\ PausedOK(stop_t3(S))
         /\ ~stop_t3(S).t3 /\ stop_t3(S).t1 = S.t1
<1> USE DEF Same, SameControl, SameReceive, SameSend
<1>1. /\ Same(S, start_t1(S)) /\ PausedOK(start_t1(S))
      /\ start_t1(S).t1 /\ start_t1(S).t3 = S.t3
  BY DEF IsLink, PausedOK, start_t1
<1>2. /\ Same(S, stop_t1(S)) /\ PausedOK(stop_t1(S))
      /\ ~stop_t1(S).t1 /\ stop_t1(S).t3 = S.t3
  BY DEF IsLink, PausedOK, stop_t1, resume_t1
<1>3. /\ Same(S, start_t3(S)) /\ PausedOK(start_t3(S))
      /\ start_t3(S).t3 /\ start_t3(S).t1 = S.t1
  BY DEF IsLink, PausedOK, start_t3
<1>4. /\ Same(S, stop_t3(S)) /\ PausedOK(stop_t3(S))
      /\ ~stop_t3(S).t3 /\ stop_t3(S).t1 = S.t1
  BY DEF IsLink, PausedOK, stop_t3
<1>5. QED
  BY <1>1, <1>2, <1>3, <1>4

LEMMA TimersSound ==
  ASSUME NEW S, Sound(S)
  PROVE  /\ Sound(start_t1(S)) /\ Sound(stop_t1(S))
         /\ Sound(start_t3(S)) /\ Sound(stop_t3(S))
<1>1. IsLink(S) /\ PausedOK(S)
  BY DEF Sound
<1>2. QED
  BY <1>1, Timers, SameIsSound

-----------------------------------------------------------------------------
(* The send window.                                                        *)

(* The types of the numbers.                                               *)
LEMMA LinkTypes ==
  ASSUME NEW S, IsLink(S)
  PROVE  /\ S.vs \in Number /\ S.va \in Number /\ S.vr \in Number
         /\ S.txdata_by_ns \in [Number -> Info \cup {NULL}]
         /\ S.rxdata_by_ns \in [Number -> Info \cup {NULL}]
         /\ S.i_frame_queue \in Seq(Info)
         /\ S.rc \in Nat /\ S.t1 \in BOOLEAN /\ S.t3 \in BOOLEAN
         /\ S.radio_channel_busy \in BOOLEAN /\ S.acknowledge_pending \in BOOLEAN
         /\ Outstanding(S) \in Number
<1>1. S.vs \in Number /\ S.va \in Number
  BY DEF IsLink
<1>2. Outstanding(S) \in Number
  BY <1>1, AheadIs DEF Outstanding
<1>3. QED
  BY <1>1, <1>2 DEF IsLink

(* SET_VA leaves the slot below the new V(A) empty, whatever the window.   *)
LEMMA SetVaClearsBelow ==
  ASSUME NEW S, IsLink(S), NEW n \in Number
  PROVE  SET_VA(S, n).txdata_by_ns[AX25MODULO(n - 1)] = NULL
<1> DEFINE T == SET_VA(S, n)
           tx == S.txdata_by_ns
           free(x) == \A y \in Number : Ahead(y, n - 1) <= Ahead(x, n - 1) => tx[y] # NULL
           b == AX25MODULO(n - 1)
<1>1. T.txdata_by_ns = [x \in Number |-> IF free(x) THEN NULL ELSE tx[x]]
  BY DEF SET_VA, IsLink
<1>2. b \in Number
  BY Before
<1>3. \A x \in Number : Ahead(x, n - 1) = Modulo - 1 - Ahead(n, x) /\ Ahead(n, x) \in Number
  BY AheadFlips, AheadIs
<1>4. Ahead(n, b) = Modulo - 1 - Ahead(n, n) /\ Ahead(n, n) = 0
  BY BeforeFlips, AheadSelf
<1> HIDE DEF T, tx, b
<1>5. CASE tx[b] = NULL
  BY <1>1, <1>2, <1>5 DEF T, b
<1>6. CASE tx[b] # NULL
  <2>1. \A y \in Number : Ahead(y, n - 1) <= Ahead(b, n - 1) => y = b
    <3> SUFFICES ASSUME NEW y \in Number, Ahead(y, n - 1) <= Ahead(b, n - 1)
                 PROVE  y = b
      OBVIOUS
    <3>1. Ahead(y, n - 1) = Modulo - 1 - Ahead(n, y) /\ Ahead(n, y) \in Number
      BY <1>3
    <3>2. Ahead(b, n - 1) = Modulo - 1 - Ahead(n, b) /\ Ahead(n, b) = Modulo - 1
      BY <1>2, <1>3, <1>4, Bounds
    <3>3. Ahead(n, y) \in Nat /\ Ahead(n, y) < Modulo
      BY <3>1, Bounds
    <3>4. Ahead(n, y) = Modulo - 1
      BY <3>1, <3>2, <3>3, Bounds
    <3>5. /\ (y >= n => Ahead(n, y) = y - n) /\ (y < n => Ahead(n, y) = y - n + Modulo)
          /\ (b >= n => Ahead(n, b) = b - n) /\ (b < n => Ahead(n, b) = b - n + Modulo)
      BY <1>2, AheadIs
    <3>6. /\ y \in Nat /\ b \in Nat /\ n \in Nat /\ Modulo \in Nat
          /\ y < Modulo /\ b < Modulo /\ n < Modulo /\ Ahead(n, b) = Modulo - 1
      BY <1>2, <3>2, Bounds
    <3>7. QED
      BY <3>4, <3>5, <3>6
  <2>2. QED
    BY <1>1, <1>2, <1>6, <2>1 DEF T, b
<1>7. QED
  BY <1>5, <1>6

(* The freeing downwards from n - 1 stops at the empty slot below the      *)
(* window, and takes nothing from n upwards.                               *)
LEMMA SetVaKeepsWindow ==
  ASSUME NEW S, IsLink(S), WindowOK(S), NEW n \in Number, Ahead(S.va, n) <= Outstanding(S)
  PROVE  WindowOK(SET_VA(S, n))
<1> DEFINE T == SET_VA(S, n)
           tx == S.txdata_by_ns
           free(x) == \A y \in Number : Ahead(y, n - 1) <= Ahead(x, n - 1) => tx[y] # NULL
           p == AX25MODULO(S.va - 1)
           b == AX25MODULO(n - 1)
           dn == Ahead(S.va, n)
           ds == Ahead(S.va, S.vs)
<1>1. S.vs \in Number /\ S.va \in Number /\ tx \in [Number -> Info \cup {NULL}]
  BY LinkTypes
<1>2. /\ T.va = n /\ T.vs = S.vs
      /\ T.txdata_by_ns = [x \in Number |-> IF free(x) THEN NULL ELSE tx[x]]
  BY DEF SET_VA, IsLink
<1>3. p \in Number /\ b \in Number
  BY <1>1, Before
<1>4. \A x \in Number : Ahead(x, n - 1) = Modulo - 1 - Ahead(n, x) /\ Ahead(n, x) \in Number
  BY AheadFlips, AheadIs
<1>5. Ahead(n, p) = Modulo - 1 - dn
  BY <1>1, BeforeFlips
<1>6. /\ dn \in Nat /\ ds \in Nat /\ dn <= ds /\ ds <= k_maxframe
      /\ k_maxframe \in Nat /\ k_maxframe < Modulo /\ Modulo \in Nat
  <2>1. dn \in Number /\ ds \in Number
    BY <1>1, AheadIs
  <2>2. dn <= ds /\ ds <= k_maxframe
    BY DEF WindowOK, Outstanding
  <2>3. QED
    BY <2>1, <2>2, Bounds
<1>7. Ahead(n, S.vs) = ds - dn
  BY <1>1, AheadAdds DEF Outstanding
<1> HIDE DEF T, tx, p, b, dn, ds
<1>8. ASSUME NEW x \in Number, Ahead(n, x) < Ahead(n, S.vs)
      PROVE  T.txdata_by_ns[x] = tx[x] /\ tx[x] # NULL
  <2> DEFINE e == Ahead(n, x)
  <2>1. e \in Nat /\ e < ds - dn
    BY <1>4, <1>7, <1>8 DEF Number
  <2>2. Ahead(x, n - 1) = Modulo - 1 - e /\ Ahead(p, n - 1) = dn
    BY <1>3, <1>4, <1>5, <1>6
  <2> HIDE DEF e
  <2>3. Ahead(p, n - 1) <= Ahead(x, n - 1)
    BY <1>6, <2>1, <2>2
  <2>4. tx[p] = NULL
    BY DEF WindowOK, tx, p
  <2>5. T.txdata_by_ns[x] = tx[x]
    BY <1>2, <1>3, <2>3, <2>4
  <2>6. Ahead(S.va, x) < Outstanding(S)
    <3>1. Ahead(S.va, x) = dn + e
      <4>1. /\ S.va \in Int /\ n \in Int /\ x \in Int /\ 0 <= S.va /\ S.va < Modulo
            /\ 0 <= n /\ n < Modulo /\ 0 <= x /\ x < Modulo
        BY <1>1, LinkAssumption DEF Number
      <4>2. /\ (n >= S.va => dn = n - S.va) /\ (n < S.va => dn = n - S.va + Modulo)
            /\ (x >= n => e = x - n) /\ (x < n => e = x - n + Modulo)
            /\ x >= S.va => Ahead(S.va, x) = x - S.va
            /\ x < S.va => Ahead(S.va, x) = x - S.va + Modulo
        BY <1>1, AheadIs DEF dn, e
      <4>3. dn + e < Modulo
        BY <1>6, <2>1
      <4>4. QED
        BY <1>6, <2>1, <4>1, <4>2, <4>3
    <3>2. QED
      BY <1>6, <2>1, <3>1 DEF ds, Outstanding
  <2>7. QED
    BY <2>5, <2>6 DEF WindowOK, tx
<1>9. T.txdata_by_ns[b] = NULL
  BY SetVaClearsBelow DEF T, b
<1>10. Ahead(n, S.vs) <= k_maxframe
  BY <1>6, <1>7
<1>11. QED
  BY <1>2, <1>8, <1>9, <1>10 DEF WindowOK, Outstanding, T, b

(* The same for all that holds between two functions.                      *)
LEMMA SetVa ==
  ASSUME NEW S, Sound(S), NEW n \in Number, Ahead(S.va, n) <= Outstanding(S)
  PROVE  /\ Sound(SET_VA(S, n))
         /\ SET_VA(S, n).va = n /\ SET_VA(S, n).vs = S.vs
         /\ SameReceive(S, SET_VA(S, n)) /\ SameControl(S, SET_VA(S, n))
         /\ SameTimers(S, SET_VA(S, n))
<1> DEFINE T == SET_VA(S, n)
<1>1. IsLink(S) /\ S.txdata_by_ns \in [Number -> Info \cup {NULL}]
  BY LinkTypes DEF Sound
<1>2. /\ IsLink(T) /\ T.va = n /\ T.vs = S.vs
      /\ SameReceive(S, T) /\ SameControl(S, T) /\ SameTimers(S, T)
  BY <1>1 DEF IsLink, SET_VA, SameReceive, SameControl, SameTimers
<1>3. WindowOK(T)
  BY <1>1, SetVaKeepsWindow DEF Sound
<1> HIDE DEF T
<1>4. StashOK(T) /\ PausedOK(T)
  BY <1>2 DEF Sound, StashOK, PausedOK, SameReceive, SameControl, SameTimers
<1>5. QED
  BY <1>2, <1>3, <1>4 DEF Sound, T

(* The fields of a link, where their types do not matter.                  *)
Fields == {"state", "rc", "vs", "va", "vr", "peer_receiver_busy", "acknowledge_pending",
           "radio_channel_busy", "t1", "t1_paused", "t3", "i_frame_queue", "txdata_by_ns",
           "rxdata_by_ns", "out", "up"}
Rec(S) == DOMAIN S = Fields

(* Whatever happens to out and up, the link is the same.                   *)
LEMMA OutIsQuiet ==
  ASSUME NEW S, IsLink(S)
  PROVE  /\ \A o : Quiet(S, [S EXCEPT !.out = o])
         /\ \A u : Quiet(S, [S EXCEPT !.up = u])
  BY DEF IsLink, Quiet, Same, SameTimers, SameControl, SameReceive, SameSend

(* The numbers that are kept are some of those asked for.                  *)
LEMMA KeptIs ==
  ASSUME NEW S, NEW A, NEW numbers \in Seq(A)
  PROVE  /\ KeptUpTo(S, numbers) \in [0..Len(numbers) -> Seq(A)]
         /\ KeptUpTo(S, numbers)[0] = << >>
         /\ \A k \in 1..Len(numbers) :
              KeptUpTo(S, numbers)[k] =
                IF S.txdata_by_ns[numbers[k]] = NULL THEN KeptUpTo(S, numbers)[k - 1]
                ELSE Append(KeptUpTo(S, numbers)[k - 1], numbers[k])
<1> DEFINE n == Len(numbers)
           X == Seq(A)
           F(x, k) == IF S.txdata_by_ns[numbers[k]] = NULL THEN x ELSE Append(x, numbers[k])
           T == [k \in 1..n |-> [x \in X |-> F(x, k)]]
           Is(g) == g = [k \in 0..n |-> IF k = 0 THEN << >> ELSE F(g[k - 1], k)]
<1>1. n \in Nat /\ << >> \in X
  OBVIOUS
<1>2. \A x \in X, k \in 1..n : F(x, k) \in X
  OBVIOUS
<1>3. T \in [1..n -> [X -> X]]
  BY <1>2
<1>3a. \A k \in 1..n : k - 1 \in 0..n /\ k \in 0..n /\ k # 0
  OBVIOUS
<1>3b. 0 \in 0..n
  OBVIOUS
<1>3c. \A x \in X, k \in 1..n : T[k][x] = F(x, k)
  OBVIOUS
<1>3e. KeptUpTo(S, numbers) = CHOOSE g : Is(g)
  BY DEF KeptUpTo
<1> HIDE DEF T, X, n, F
<1>3d. PICK g \in [0..n -> X] : Steps(g, n, << >>, T)
  BY <1>1, <1>3, StepByStep, Zenon
<1>4. g[0] = << >> /\ \A k \in 1..n : g[k] = T[k][g[k - 1]]
  BY <1>3d DEF Steps
<1>5. \A k \in 1..n : T[k][g[k - 1]] = F(g[k - 1], k)
  <2> TAKE k \in 1..n
  <2>1. g[k - 1] \in X
    BY <1>3a, <1>4
  <2>2. QED
    BY <1>3c, <2>1
<1>6. Is(g)
  <2>1. \A k \in 0..n : g[k] = IF k = 0 THEN << >> ELSE F(g[k - 1], k)
    <3> TAKE k \in 0..n
    <3>1. k = 0 \/ (k # 0 /\ k \in 1..n)
      BY <1>1
    <3>2. QED
      BY <1>4, <1>5, <3>1
  <2>2. g = [k \in 0..n |-> g[k]]
    OBVIOUS
  <2>3. QED
    BY <2>1, <2>2
<1> HIDE DEF Is
<1> DEFINE w == KeptUpTo(S, numbers)
<1>8. Is(w)
  BY <1>6, <1>3e
<1> HIDE DEF w
<1>10. /\ DOMAIN w = 0..n /\ w = [k \in 0..n |-> w[k]]
       /\ w[0] = << >>
       /\ \A k \in 1..n : w[k] = F(w[k - 1], k)
  BY <1>1, <1>3a, <1>3b, <1>8 DEF Is
<1>11. \A k \in 0..n : w[k] \in X
  <2> DEFINE Z == {k \in 0..n : w[k] \in X}
  <2>1. 0 \in Z
    BY <1>1, <1>3b, <1>10
  <2>2. ASSUME NEW i \in 0..(n - 1), i \in Z PROVE i + 1 \in Z
    <3> DEFINE k == i + 1
    <3>1. w[k - 1] \in X /\ k \in 0..n /\ k \in 1..n
      BY <1>1, <2>2
    <3> HIDE DEF k
    <3>2. w[k] \in X
      BY <1>2, <1>10, <3>1, Zenon
    <3>4. w[k] \in X /\ k \in 0..n /\ k = i + 1
      BY <3>1, <3>2 DEF k
    <3>5. QED
      BY <3>4 DEF k
  <2> HIDE DEF Z
  <2>3. \A k \in 0..n : k \in Z
    BY <1>1, <2>1, <2>2, CountUp
  <2>4. QED
    BY <2>3 DEF Z
<1>12. w \in [0..n -> X]
  BY <1>10, <1>11
<1>13. QED
  BY <1>10, <1>12 DEF w, n, X, F

LEMMA KeptSeq ==
  ASSUME NEW S, NEW A, NEW numbers \in Seq(A)
  PROVE  KeptOf(S, numbers) \in Seq(A)
<1>1. Len(numbers) \in 0..Len(numbers)
  OBVIOUS
<1>2. QED
  BY <1>1, KeptIs DEF KeptOf

(* One frame asked for.                                                    *)
LEMMA KeptOne ==
  ASSUME NEW S, NEW nr
  PROVE  KeptOf(S, <<nr>>) = IF S.txdata_by_ns[nr] = NULL THEN << >> ELSE <<nr>>
<1> DEFINE q == <<nr>>
           w == KeptUpTo(S, q)
<1>1. q \in Seq({nr}) /\ Len(q) = 1 /\ q[1] = nr /\ Append(<< >>, nr) = q
  OBVIOUS
<1> HIDE DEF q
<1>2. w[0] = << >>
  BY <1>1, KeptIs
<1>3. 1 \in 1..Len(q) /\ 1 - 1 = 0
  BY <1>1
<1>2a. w[1] = IF S.txdata_by_ns[q[1]] = NULL THEN w[1 - 1] ELSE Append(w[1 - 1], q[1])
  BY <1>1, <1>3, KeptIs
<1> HIDE DEF w
<1>4. w[1] = IF S.txdata_by_ns[nr] = NULL THEN << >> ELSE q
  BY <1>1, <1>2, <1>2a, <1>3, Zenon
<1>5. KeptOf(S, q) = w[1]
  BY <1>1 DEF KeptOf, w
<1>6. QED
  BY <1>4, <1>5 DEF q

LEMMA ResendIsQuiet ==
  ASSUME NEW S, IsLink(S), NEW numbers
  PROVE  Quiet(S, Resend(S, numbers))
<1> DEFINE kept == KeptOf(S, numbers)
           all == S.out \o [i \in 1..Len(kept) |->
                      <<TQ_PRIO_1_LO, ax25_i_frame(S.vr, kept[i], S.txdata_by_ns[kept[i]])>>]
<1>1. Resend(S, numbers) = [S EXCEPT !.out = all]
  BY DEF Resend
<1> HIDE DEF all
<1>2. \A o : Quiet(S, [S EXCEPT !.out = o])
  BY OutIsQuiet
<1>3. QED
  BY <1>1, <1>2

LEMMA InvokeIsQuiet ==
  ASSUME NEW S, IsLink(S), NEW nr
  PROVE  Quiet(S, invoke_retransmission(S, nr))
<1>1. \E numbers : invoke_retransmission(S, nr) \in {S, Resend(S, numbers)}
  BY DEF invoke_retransmission
<1>2. QED
  BY <1>1, ResendIsQuiet, QuietCalls

(* What a handler leaves as it is when it ends with T1 running.            *)
Restarts(S, T) == Same(S, T) /\ PausedOK(T) /\ T.t1

LEMMA SameTransitive ==
  ASSUME NEW S, NEW T, NEW U, Same(S, T), Same(T, U)
  PROVE  Same(S, U)
  BY DEF Same, SameControl, SameReceive, SameSend

LEMMA QuietPaused ==
  ASSUME NEW S, NEW T, PausedOK(S), Quiet(S, T)
  PROVE  PausedOK(T) /\ IsLink(T) /\ Same(S, T)
  BY DEF PausedOK, Quiet, Same, SameTimers, SameControl

LEMMA RetransmitRestarts ==
  ASSUME NEW S, IsLink(S), PausedOK(S), NEW nr
  PROVE  Restarts(S, RetransmitFrom(S, nr))
<1> DEFINE T == invoke_retransmission(S, nr)
           U == [T EXCEPT !.acknowledge_pending = FALSE]
           V == stop_t3(U)
<1>1. Quiet(S, T)
  BY InvokeIsQuiet
<1>2. PausedOK(T) /\ IsLink(T) /\ Same(S, T)
  BY <1>1, QuietPaused
<1> HIDE DEF T
<1>3. PausedOK(U) /\ IsLink(U) /\ Same(T, U)
  BY <1>2, QuietCalls, QuietPaused
<1> HIDE DEF U
<1>4. PausedOK(V) /\ IsLink(V) /\ Same(U, V)
  BY <1>3, Timers DEF Same
<1> HIDE DEF V
<1>5. Same(V, start_t1(V)) /\ PausedOK(start_t1(V)) /\ start_t1(V).t1
  BY <1>4, Timers
<1>6. Same(S, start_t1(V))
  BY <1>2, <1>3, <1>4, <1>5, SameTransitive
<1>7. QED
  BY <1>5, <1>6 DEF Restarts, RetransmitFrom, V, U, T

LEMMA ResendForSrej ==
  ASSUME NEW S, IsLink(S), PausedOK(S), NEW numbers
  PROVE  resend_for_srej(S, numbers) = S \/ Restarts(S, resend_for_srej(S, numbers))
<1> DEFINE T == Resend(S, numbers)
           U == [T EXCEPT !.acknowledge_pending = FALSE]
           V == stop_t3(U)
<1>1. Quiet(S, T)
  BY ResendIsQuiet
<1>2. PausedOK(T) /\ IsLink(T) /\ Same(S, T)
  BY <1>1, QuietPaused
<1> HIDE DEF T
<1>3. PausedOK(U) /\ IsLink(U) /\ Same(T, U)
  BY <1>2, QuietCalls, QuietPaused
<1> HIDE DEF U
<1>4. PausedOK(V) /\ IsLink(V) /\ Same(U, V)
  BY <1>3, Timers DEF Same
<1> HIDE DEF V
<1>5. Same(V, start_t1(V)) /\ PausedOK(start_t1(V)) /\ start_t1(V).t1
  BY <1>4, Timers
<1>6. Same(S, start_t1(V))
  BY <1>2, <1>3, <1>4, <1>5, SameTransitive
<1>7. resend_for_srej(S, numbers) \in {S, start_t1(V)}
  BY DEF resend_for_srej, V, U, T
<1>8. QED
  BY <1>5, <1>6, <1>7 DEF Restarts

LEMMA EnquiryRestarts ==
  ASSUME NEW S, IsLink(S), PausedOK(S)
  PROVE  Restarts(S, transmit_enquiry(S))
<1> DEFINE T == SendLow(S, ax25_s_frame("cr_cmd", "RR", S.vr, 1))
           U == [T EXCEPT !.acknowledge_pending = FALSE]
<1>1. PausedOK(T) /\ IsLink(T) /\ Same(S, T)
  BY QuietCalls, QuietPaused
<1> HIDE DEF T
<1>2. PausedOK(U) /\ IsLink(U) /\ Same(T, U)
  BY <1>1, QuietCalls, QuietPaused
<1> HIDE DEF U
<1>3. Same(U, start_t1(U)) /\ PausedOK(start_t1(U)) /\ start_t1(U).t1
  BY <1>2, Timers
<1>4. Same(S, start_t1(U))
  BY <1>1, <1>2, <1>3, SameTransitive
<1>5. QED
  BY <1>3, <1>4 DEF Restarts, transmit_enquiry, U, T

-----------------------------------------------------------------------------
(* Supervision: what becomes of the numbers, the state and the timers.     *)

LEMMA KeepsSound ==
  ASSUME NEW S, NEW T, Sound(S), IsLink(T), PausedOK(T), SameSend(S, T), SameReceive(S, T)
  PROVE  Sound(T)
  BY DEF Sound, SameSend, SameReceive, WindowOK, StashOK, Outstanding

LEMMA Enter ==
  ASSUME NEW S, Sound(S), NEW st \in 0..4
  PROVE  LET T == enter_new_state(S, st) IN
         /\ Sound(T) /\ T.state = st /\ T.rc = S.rc
         /\ SameSend(S, T) /\ SameReceive(S, T) /\ SameTimers(S, T)
<1> DEFINE T == enter_new_state(S, st)
<1>1. /\ IsLink(T) /\ T.state = st /\ T.rc = S.rc
      /\ T.radio_channel_busy = S.radio_channel_busy
      /\ SameSend(S, T) /\ SameReceive(S, T) /\ SameTimers(S, T)
  BY DEF Sound, IsLink, enter_new_state, SameSend, SameReceive, SameTimers
<1> HIDE DEF T
<1>2. PausedOK(T)
  BY <1>1 DEF Sound, PausedOK, SameTimers
<1>3. Sound(T)
  BY <1>1, <1>2, KeepsSound
<1>4. QED
  BY <1>1, <1>3 DEF T

LEMMA SetRc ==
  ASSUME NEW S, Sound(S), NEW n \in Nat
  PROVE  LET T == [S EXCEPT !.rc = n] IN
         /\ Sound(T) /\ T.state = S.state /\ T.rc = n
         /\ SameSend(S, T) /\ SameReceive(S, T) /\ SameTimers(S, T)
<1> DEFINE T == [S EXCEPT !.rc = n]
<1>1. /\ IsLink(T) /\ T.state = S.state /\ T.rc = n
      /\ T.radio_channel_busy = S.radio_channel_busy
      /\ SameSend(S, T) /\ SameReceive(S, T) /\ SameTimers(S, T)
  BY DEF Sound, IsLink, SameSend, SameReceive, SameTimers
<1> HIDE DEF T
<1>2. PausedOK(T)
  BY <1>1 DEF Sound, PausedOK, SameTimers
<1>3. Sound(T)
  BY <1>1, <1>2, KeepsSound
<1>4. QED
  BY <1>1, <1>3 DEF T

LEMMA ClearExceptions ==
  ASSUME NEW S, Sound(S)
  PROVE  LET T == clear_exception_conditions(S) IN
         /\ Sound(T) /\ NothingStashed(T)
         /\ SameSend(S, T) /\ SameControl(S, T) /\ SameTimers(S, T)
<1> DEFINE T == clear_exception_conditions(S)
<1>1. /\ IsLink(T)
      /\ T.rxdata_by_ns = [n \in Number |-> NULL] /\ T.vr = S.vr
      /\ SameSend(S, T) /\ SameControl(S, T) /\ SameTimers(S, T)
  BY DEF Sound, IsLink, clear_exception_conditions, SameSend, SameControl, SameTimers
<1>2. S.vr \in Number /\ AX25MODULO(S.vr - 1) \in Number
  BY LinkTypes, Before DEF Sound
<1> HIDE DEF T
<1>3. PausedOK(T)
  BY <1>1 DEF Sound, PausedOK, SameTimers, SameControl
<1>4. StashOK(T) /\ NothingStashed(T)
  BY <1>1, <1>2 DEF StashOK, NothingStashed
<1>5. WindowOK(T)
  BY <1>1 DEF Sound, WindowOK, SameSend, Outstanding
<1>6. QED
  BY <1>1, <1>3, <1>4, <1>5 DEF T, Sound

(* A new connection is tried: once, with T1, and nothing kept.             *)
LEMMA Recovers ==
  ASSUME NEW S, Sound(S)
  PROVE  LET T == nr_error_recovery(S) IN
         LinkInv(T) /\ T.va = S.va /\ T.vs = S.vs
<1> DEFINE A == clear_exception_conditions(S)
           B == [A EXCEPT !.rc = 1]
           C == SendLow(B, ax25_u_frame("cr_cmd", "SABM", 1))
           D == stop_t3(C)
           E == start_t1(D)
           F == enter_new_state(E, state_1_awaiting_connection)
<1>1. Sound(A) /\ NothingStashed(A) /\ A.va = S.va /\ A.vs = S.vs
  BY ClearExceptions DEF SameSend
<1> HIDE DEF A
<1>2. /\ Sound(B) /\ B.rc = 1 /\ B.rxdata_by_ns = A.rxdata_by_ns
      /\ B.va = A.va /\ B.vs = A.vs
  BY <1>1, SetRc DEF SameSend, SameReceive
<1> HIDE DEF B
<1>3. Sound(C) /\ Same(B, C)
  BY <1>2, QuietCalls, QuietIsSound DEF Sound, Quiet
<1> HIDE DEF C
<1>4. Sound(D) /\ Same(C, D)
  BY <1>3, Timers, TimersSound DEF Sound
<1> HIDE DEF D
<1>5. Sound(E) /\ Same(D, E) /\ E.t1
  BY <1>4, Timers, TimersSound DEF Sound
<1> HIDE DEF E
<1>6. /\ Sound(F) /\ F.state = state_1_awaiting_connection /\ F.rc = E.rc
      /\ SameSend(E, F) /\ SameReceive(E, F) /\ F.t1 = E.t1
  <2>1. state_1_awaiting_connection \in 0..4
    BY DEF state_1_awaiting_connection
  <2>2. QED
    BY <1>5, <2>1, Enter DEF SameTimers
<1>7. /\ F.va = S.va /\ F.vs = S.vs /\ F.rc = 1
      /\ F.rxdata_by_ns = A.rxdata_by_ns
  BY <1>1, <1>2, <1>3, <1>4, <1>5, <1>6 DEF Same, SameSend, SameReceive, SameControl
<1> HIDE DEF F
<1>8. Settled(F)
  <2>1. RetriesOK(F)
    BY <1>7, LinkAssumption DEF RetriesOK
  <2>2. F.t1 /\ NothingStashed(F)
    BY <1>1, <1>5, <1>6, <1>7 DEF NothingStashed
  <2>3. QED
    BY <2>1, <2>2 DEF Settled, WaitsWithTimer
<1>9. LinkInv(F)
  BY <1>6, <1>8 DEF LinkInv
<1>10. F = nr_error_recovery(S)
  BY DEF nr_error_recovery, establish_data_link, A, B, C, D, E, F
<1>11. QED
  BY <1>7, <1>9, <1>10

LEMMA CatchesUp ==
  ASSUME NEW S, Sound(S)
  PROVE  LET T == CaughtUp(S) IN
         /\ LinkInv(T) /\ T.state = state_3_connected /\ T.va = S.va /\ T.vs = S.vs
         /\ SameReceive(S, T)
<1> DEFINE A == stop_t1(S)
           B == start_t3(A)
           C == [B EXCEPT !.rc = 0]
           D == enter_new_state(C, state_3_connected)
<1>1. Sound(A) /\ Same(S, A)
  BY Timers, TimersSound DEF Sound
<1> HIDE DEF A
<1>2. Sound(B) /\ Same(A, B) /\ B.t3
  BY <1>1, Timers, TimersSound DEF Sound
<1> HIDE DEF B
<1>3. Sound(C) /\ SameSend(B, C) /\ SameReceive(B, C) /\ C.t3
  BY <1>2, SetRc DEF SameTimers
<1> HIDE DEF C
<1>4. /\ Sound(D) /\ SameSend(C, D) /\ SameReceive(C, D) /\ D.t3
      /\ D.state = state_3_connected
  BY <1>3, Enter DEF SameTimers, state_3_connected
<1> HIDE DEF D
<1>5. D.va = S.va /\ D.vs = S.vs /\ SameReceive(S, D)
  BY <1>1, <1>2, <1>3, <1>4 DEF Same, SameSend, SameReceive
<1>6. Settled(D)
  BY <1>4
  DEF Settled, WaitsWithTimer, RetriesOK, NothingStashed, state_0_disconnected,
      state_1_awaiting_connection, state_2_awaiting_release, state_3_connected
<1>7. CaughtUp(S) = D
  BY DEF CaughtUp, A, B, C, D
<1>8. QED
  BY <1>4, <1>5, <1>6, <1>7 DEF LinkInv

(* A link without a connection waits for nothing.                          *)
LEMMA GivesUp ==
  ASSUME NEW S, Sound(S)
  PROVE  LET T == enter_new_state(S, state_0_disconnected) IN
         LinkInv(T) /\ T.va = S.va /\ T.vs = S.vs
<1> DEFINE T == enter_new_state(S, state_0_disconnected)
<1>1. Sound(T) /\ T.state = state_0_disconnected /\ SameSend(S, T)
  BY Enter DEF state_0_disconnected
<1> HIDE DEF T
<1>2. Settled(T)
  BY <1>1
  DEF Settled, WaitsWithTimer, RetriesOK, NothingStashed, state_0_disconnected,
      state_1_awaiting_connection, state_2_awaiting_release, state_3_connected
<1>3. QED
  BY <1>1, <1>2 DEF LinkInv, SameSend, T

LEMMA Disconnecting ==
  ASSUME NEW S, Sound(S)
  PROVE  LET T == Disconnect(S) IN LinkInv(T) /\ T.va = S.va /\ T.vs = S.vs
<1> DEFINE A == discard_i_queue(S)
           B == stop_t1(A)
           C == stop_t3(B)
<1>1. Sound(A) /\ Same(S, A)
  BY QuietCalls, QuietIsSound DEF Sound, Quiet
<1> HIDE DEF A
<1>2. Sound(B) /\ Same(A, B)
  BY <1>1, Timers, TimersSound DEF Sound
<1> HIDE DEF B
<1>3. Sound(C) /\ Same(B, C)
  BY <1>2, Timers, TimersSound DEF Sound
<1> HIDE DEF C
<1>4. C.va = S.va /\ C.vs = S.vs
  BY <1>1, <1>2, <1>3 DEF Same, SameSend
<1>5. Disconnect(S) = enter_new_state(C, state_0_disconnected)
  BY DEF Disconnect, A, B, C
<1>6. QED
  BY <1>3, <1>4, <1>5, GivesUp

-----------------------------------------------------------------------------
(* The numbers begin again at 0.                                           *)

LEMMA NumbersReset ==
  ASSUME NEW S, Sound(S), NothingStashed(S)
  PROVE  LET T == ResetNumbers(S) IN
         /\ Sound(T) /\ NothingStashed(T) /\ T.va = 0 /\ T.vs = 0
         /\ SameControl(S, T) /\ SameTimers(S, T)
<1> DEFINE A == [S EXCEPT !.vs = 0]
           B == SET_VA(A, 0)
           T == [B EXCEPT !.vr = 0]
<1>1. 0 \in Number
  BY LinkAssumption DEF Number
<1>2. /\ IsLink(A) /\ A.vs = 0 /\ A.rxdata_by_ns = S.rxdata_by_ns
      /\ SameControl(S, A) /\ SameTimers(S, A)
  BY <1>1 DEF Sound, IsLink, SameControl, SameTimers
<1> HIDE DEF A
<1>3. /\ IsLink(B) /\ B.va = 0 /\ B.vs = 0 /\ B.rxdata_by_ns = S.rxdata_by_ns
      /\ SameControl(S, B) /\ SameTimers(S, B)
  BY <1>1, <1>2 DEF IsLink, SET_VA, SameControl, SameTimers
<1>4. B.txdata_by_ns[AX25MODULO(0 - 1)] = NULL
  BY <1>1, <1>2, SetVaClearsBelow
<1> HIDE DEF B
<1>5. /\ IsLink(T) /\ T.va = 0 /\ T.vs = 0 /\ T.vr = 0
      /\ T.rxdata_by_ns = S.rxdata_by_ns /\ T.txdata_by_ns = B.txdata_by_ns
      /\ SameControl(S, T) /\ SameTimers(S, T)
  BY <1>1, <1>3 DEF IsLink, SameControl, SameTimers
<1> HIDE DEF T
<1>6. NothingStashed(T) /\ StashOK(T)
  BY <1>1, <1>5, Before DEF NothingStashed, StashOK
<1>7. WindowOK(T)
  <2>1. Outstanding(T) = 0
    BY <1>1, <1>5, AheadSelf DEF Outstanding
  <2>2. \A n \in Number : Ahead(0, n) \in Nat
    BY <1>1, AheadIs, Bounds
  <2>3. \A n \in Number : ~(Ahead(T.va, n) < Outstanding(T))
    BY <1>5, <2>1, <2>2
  <2>4. Outstanding(T) <= k_maxframe
    BY <2>1, Bounds
  <2>5. QED
    BY <1>4, <1>5, <2>3, <2>4 DEF WindowOK
<1>8. PausedOK(T)
  BY <1>5 DEF Sound, PausedOK, SameControl, SameTimers
<1>9. T = ResetNumbers(S)
  BY DEF ResetNumbers, T, B, A
<1>10. QED
  BY <1>5, <1>6, <1>7, <1>8, <1>9 DEF Sound

-----------------------------------------------------------------------------
(* What an acknowledgement does.                                           *)

LEMMA CheckAcked ==
  ASSUME NEW S, Sound(S), NEW nr \in Number, is_good_nr(S, nr)
  PROVE  LET T == check_i_frame_ackd(S, nr) IN
         /\ Sound(T) /\ T.va = nr /\ T.vs = S.vs
         /\ SameReceive(S, T) /\ SameControl(S, T)
         /\ T.t1 \/ T.t3 \/ (T.t1 = S.t1 /\ T.t3 = S.t3)
<1> DEFINE T == SET_VA(S, nr)
           R(U) == /\ Sound(U) /\ U.va = nr /\ U.vs = S.vs
                   /\ SameReceive(S, U) /\ SameControl(S, U)
<1>1. R(T)
  BY SetVa DEF is_good_nr
<1>2. S.peer_receiver_busy \in BOOLEAN /\ S.va \in Number /\ S.vs \in Number
  BY DEF Sound, IsLink
<1> HIDE DEF T
<1>3. ASSUME NEW U, R(U)
      PROVE  /\ R(start_t1(U)) /\ start_t1(U).t1
             /\ R(stop_t1(U))
             /\ R(start_t3(U)) /\ start_t3(U).t3 /\ start_t3(U).t1 = U.t1
  BY <1>3, Timers, TimersSound DEF Sound, Same, SameSend, SameReceive, SameControl
<1>4. CASE S.peer_receiver_busy
  <2>1. check_i_frame_ackd(S, nr) \in {start_t3(T), start_t1(start_t3(T))}
    BY <1>2, <1>4 DEF check_i_frame_ackd, T
  <2> HIDE DEF R
  <2>2. R(start_t3(T)) /\ start_t3(T).t3
    BY <1>1, <1>3
  <2>3. R(start_t1(start_t3(T))) /\ start_t1(start_t3(T)).t1
    BY <2>2, <1>3
  <2>4. QED
    BY <2>1, <2>2, <2>3 DEF R
<1>5. CASE ~S.peer_receiver_busy /\ nr = S.vs
  <2>1. check_i_frame_ackd(S, nr) = start_t3(stop_t1(T))
    BY <1>2, <1>5 DEF check_i_frame_ackd, T
  <2> HIDE DEF R
  <2>2. R(stop_t1(T))
    BY <1>1, <1>3
  <2>3. R(start_t3(stop_t1(T))) /\ start_t3(stop_t1(T)).t3
    BY <2>2, <1>3
  <2>4. QED
    BY <2>1, <2>3 DEF R
<1>6. CASE ~S.peer_receiver_busy /\ nr # S.vs /\ nr = S.va
  <2>1. check_i_frame_ackd(S, nr) = S
    BY <1>2, <1>6 DEF check_i_frame_ackd
  <2>2. QED
    BY <1>6, <2>1 DEF SameReceive, SameControl
<1>7. CASE ~S.peer_receiver_busy /\ nr # S.vs /\ nr # S.va
  <2>1. check_i_frame_ackd(S, nr) = start_t1(T)
    BY <1>2, <1>7 DEF check_i_frame_ackd, T
  <2> HIDE DEF R
  <2>2. R(start_t1(T)) /\ start_t1(T).t1
    BY <1>1, <1>3
  <2>3. QED
    BY <2>1, <2>2 DEF R
<1>8. QED
  BY <1>2, <1>4, <1>5, <1>6, <1>7

-----------------------------------------------------------------------------
(* Sending what waits.                                                     *)

(* There is room for what is left of the window.                           *)
LEMMA RoomIs ==
  ASSUME NEW S, IsLink(S), WindowOK(S)
  PROVE  Room(S) = k_maxframe - Outstanding(S)
<1> DEFINE ds == Ahead(S.va, S.vs)
           x == (S.va + k_maxframe) - S.vs
<1>1. S.va \in Number /\ S.vs \in Number
  BY LinkTypes
<1>2. /\ (S.vs >= S.va => ds = S.vs - S.va) /\ (S.vs < S.va => ds = S.vs - S.va + Modulo)
      /\ ds \in Number
  BY <1>1, AheadIs
<1>3. ds <= k_maxframe
  BY DEF WindowOK, Outstanding
<1> HIDE DEF ds
<1>4. ds \in Nat
  BY <1>2, Bounds
<1>5. /\ x \in Int /\ -Modulo <= x /\ x < 2 * Modulo
      /\ (S.vs >= S.va => 0 <= x /\ x < Modulo /\ x = k_maxframe - ds)
      /\ (S.vs < S.va => Modulo <= x /\ x - Modulo = k_maxframe - ds)
  <2>1. /\ S.vs \in Nat /\ S.va \in Nat /\ S.vs < Modulo /\ S.va < Modulo
        /\ k_maxframe < Modulo /\ k_maxframe \in Nat /\ Modulo \in Nat
    BY <1>1, Bounds
  <2>2. QED
    BY <1>2, <1>3, <1>4, <2>1
<1>6. /\ 0 <= x /\ x < Modulo => AX25MODULO(x) = x
      /\ Modulo <= x => AX25MODULO(x) = x - Modulo
  BY <1>5, Wrap
<1>7. Room(S) = AX25MODULO(x)
  BY DEF Room, Ahead
<1> HIDE DEF x
<1>8. S.vs >= S.va \/ S.vs < S.va
  BY <1>1, Bounds
<1>9. QED
  BY <1>5, <1>6, <1>7, <1>8 DEF ds, Outstanding

LEMMA ToSendIs ==
  ASSUME NEW S, IsLink(S), WindowOK(S)
  PROVE  /\ ToSend(S) \in Nat
         /\ ToSend(S) <= Len(S.i_frame_queue)
         /\ Outstanding(S) + ToSend(S) <= k_maxframe
<1>1. Room(S) = k_maxframe - Outstanding(S)
  BY RoomIs
<1>2. Outstanding(S) \in Nat /\ Outstanding(S) <= k_maxframe /\ k_maxframe \in Nat
  BY LinkTypes, Bounds DEF WindowOK
<1>3. S.i_frame_queue \in Seq(Info)
  BY LinkTypes
<1>4. Len(S.i_frame_queue) \in Nat
  BY <1>3
<1>5. QED
  BY <1>1, <1>2, <1>4 DEF ToSend

LEMMA PopKeepsSound ==
  ASSUME NEW S, Sound(S)
  PROVE  LET T == PopWithoutTimer(S) IN
         Sound(T) /\ T.va = S.va /\ SameReceive(S, T) /\ SameControl(S, T)
<1> DEFINE n == ToSend(S)
           T == PopWithoutTimer(S)
           q == S.i_frame_queue
           ds == Ahead(S.va, S.vs)
           vs == AX25MODULO(S.vs + n)
           stash(x) == Ahead(S.vs, x)
           p == AX25MODULO(S.va - 1)
<1>1. /\ IsLink(S) /\ WindowOK(S) /\ StashOK(S) /\ PausedOK(S)
      /\ S.va \in Number /\ S.vs \in Number /\ q \in Seq(Info)
      /\ S.txdata_by_ns \in [Number -> Info \cup {NULL}]
      /\ ds \in Number
  BY LinkTypes DEF Sound, Outstanding
<1>2. n \in Nat /\ n <= Len(q) /\ ds + n <= k_maxframe
  BY <1>1, ToSendIs DEF Outstanding
<1>3. ds \in Nat /\ Len(q) \in Nat
  BY <1>1, Bounds
<1>4. p \in Number /\ Ahead(S.va, p) = Modulo - 1
  <2>1. Ahead(S.va, p) = Modulo - 1 - Ahead(S.va, S.va) /\ Ahead(S.va, S.va) = 0
    BY <1>1, BeforeFlips, AheadSelf
  <2>2. QED
    BY <1>1, <2>1, Before, Bounds
<1>5. \A x \in Number : /\ stash(x) \in Nat
                        /\ ds <= Ahead(S.va, x) => stash(x) = Ahead(S.va, x) - ds
                        /\ Ahead(S.va, x) \in Nat
  BY <1>1, AheadAdds, AheadIs, Bounds
<1>6. vs \in Number /\ Ahead(S.va, vs) = ds + n
  <2>1. ds + n < Modulo
    BY <1>2, <1>3, Bounds
  <2>2. QED
    BY <1>1, <1>2, <2>1, NumberPlus
<1>7. /\ SubSeq(q, n + 1, Len(q)) \in Seq(Info)
      /\ \A x \in Number : stash(x) < n => q[stash(x) + 1] \in Info
  BY <1>1, <1>2, <1>3, <1>5
<1>8. [x \in Number |-> IF stash(x) < n THEN q[stash(x) + 1] ELSE S.txdata_by_ns[x]]
        \in [Number -> Info \cup {NULL}]
  BY <1>1, <1>7
<1> HIDE DEF n, q, ds, vs, p
<1>9. /\ IsLink(T) /\ T.vs = vs /\ T.va = S.va
      /\ T.txdata_by_ns = [x \in Number |-> IF stash(x) < n THEN q[stash(x) + 1]
                                            ELSE S.txdata_by_ns[x]]
      /\ SameReceive(S, T) /\ SameControl(S, T)
      /\ T.t1 = S.t1 /\ T.t1_paused = S.t1_paused
  <2> DEFINE iq == SubSeq(q, n + 1, Len(q))
             tx == [x \in Number |-> IF stash(x) < n THEN q[stash(x) + 1] ELSE S.txdata_by_ns[x]]
             o == S.out \o [i \in 1..n |->
                    <<TQ_PRIO_1_LO, ax25_i_frame(S.vr, AX25MODULO(S.vs + i - 1), q[i])>>]
             ack == S.acknowledge_pending /\ n = 0
             t3 == S.t3 /\ n = 0
  <2>1. T = [S EXCEPT !.i_frame_queue = iq, !.out = o, !.txdata_by_ns = tx, !.vs = vs,
                      !.acknowledge_pending = ack, !.t3 = t3]
    BY DEF PopWithoutTimer, n, q, vs
  <2>2. iq \in Seq(Info) /\ tx \in [Number -> Info \cup {NULL}] /\ vs \in Number
        /\ ack \in BOOLEAN /\ t3 \in BOOLEAN
    BY <1>6, <1>7, <1>8
  <2> HIDE DEF iq, tx, o, ack, t3, T, stash
  <2>3. /\ IsLink(T) /\ T.vs = vs /\ T.va = S.va /\ T.txdata_by_ns = tx
        /\ SameReceive(S, T) /\ SameControl(S, T)
        /\ T.t1 = S.t1 /\ T.t1_paused = S.t1_paused
    BY <1>1, <2>1, <2>2 DEF IsLink, SameReceive, SameControl
  <2>4. QED
    BY <2>3 DEF tx
<1> HIDE DEF T
<1>10. ASSUME NEW x \in Number, Ahead(S.va, x) < ds + n
       PROVE  T.txdata_by_ns[x] # NULL
  <2>1. CASE stash(x) < n
    BY <1>7, <1>9, <2>1, LinkAssumption
  <2>2. CASE ~(stash(x) < n)
    <3>1. Ahead(S.va, x) < ds
      BY <1>2, <1>3, <1>5, <1>10, <2>2
    <3>2. S.txdata_by_ns[x] # NULL
      BY <1>1, <3>1 DEF WindowOK, Outstanding, ds
    <3>3. QED
      BY <1>9, <2>2, <3>2
  <2>3. QED
    BY <2>1, <2>2
<1>11. T.txdata_by_ns[p] = NULL
  <2>1. ~(stash(p) < n)
    BY <1>2, <1>3, <1>4, <1>5, Bounds
  <2>2. S.txdata_by_ns[p] = NULL
    BY <1>1 DEF WindowOK, p
  <2>3. QED
    BY <1>4, <1>9, <2>1, <2>2
<1>12. WindowOK(T)
  BY <1>2, <1>6, <1>9, <1>10, <1>11 DEF WindowOK, Outstanding, p
<1>13. StashOK(T) /\ PausedOK(T)
  BY <1>1, <1>9 DEF StashOK, PausedOK, SameReceive, SameControl
<1>14. QED
  BY <1>9, <1>12, <1>13 DEF Sound, T

LEMMA PopSound ==
  ASSUME NEW S, Sound(S)
  PROVE  LET T == i_frame_pop_off_queue(S) IN
         /\ Sound(T) /\ T.va = S.va /\ SameReceive(S, T) /\ SameControl(S, T)
         /\ T.t1 \/ T = S
<1> DEFINE A == PopWithoutTimer(S)
           B == start_t1(A)
<1>1. Sound(A) /\ A.va = S.va /\ SameReceive(S, A) /\ SameControl(S, A)
  BY PopKeepsSound
<1> HIDE DEF A
<1>2. Sound(B) /\ Same(A, B) /\ B.t1
  BY <1>1, Timers, TimersSound DEF Sound
<1> HIDE DEF B
<1>3. B.va = S.va /\ SameReceive(S, B) /\ SameControl(S, B)
  BY <1>1, <1>2 DEF Same, SameSend, SameReceive, SameControl
<1>4. i_frame_pop_off_queue(S) \in {S, B}
  BY DEF i_frame_pop_off_queue, A, B
<1>5. SameReceive(S, S) /\ SameControl(S, S)
  BY DEF SameReceive, SameControl
<1>6. QED
  BY <1>2, <1>3, <1>4, <1>5

-----------------------------------------------------------------------------
(* Receiving.                                                              *)

(* The frames that follow without a gap: the slot below V(R) is empty, so  *)
(* they do not go all the way round, and the one after them is missing.    *)
LEMMA FollowingIs ==
  ASSUME NEW S, IsLink(S), StashOK(S)
  PROVE  /\ Following(S) \in Nat
         /\ Following(S) + 1 < Modulo
         /\ S.rxdata_by_ns[AX25MODULO(S.vr + Following(S) + 1)] = NULL
         /\ \A j \in 1..Following(S) : S.rxdata_by_ns[AX25MODULO(S.vr + j)] # NULL
<1> DEFINE rx(j) == S.rxdata_by_ns[AX25MODULO(S.vr + j)]
           M == Modulo - 1
           P(c) == /\ \A j \in 1..c : rx(j) # NULL
                   /\ c = M \/ S.rxdata_by_ns[AX25MODULO(S.vr + c + 1)] = NULL
           X == {c \in 0..M : c = M \/ S.rxdata_by_ns[AX25MODULO(S.vr + c + 1)] = NULL}
<1>1. S.vr \in Nat /\ S.vr < Modulo /\ Modulo \in Nat /\ M \in Nat /\ M >= 1 /\ S.vr \in Number
  BY LinkTypes, Bounds
<1>2. PICK m \in X : \A y \in X : m <= y
  <2>1. M \in X
    BY <1>1
  <2>2. X \subseteq Nat
    BY <1>1
  <2> HIDE DEF X
  <2>3. QED
    BY <2>1, <2>2, LeastNatural
<1>3. P(m)
  <2>1. m \in 0..M
    BY <1>2
  <2>2. ASSUME NEW j \in 1..m PROVE rx(j) # NULL
    <3>1. j - 1 \in 0..M /\ j - 1 # M /\ j - 1 < m
      BY <1>1, <2>1, <2>2
    <3>2. j - 1 \notin X
      BY <1>2, <2>1, <3>1
    <3>3. S.vr + (j - 1) + 1 = S.vr + j
      BY <1>1, <2>1, <2>2
    <3>4. S.rxdata_by_ns[AX25MODULO(S.vr + (j - 1) + 1)] # NULL
      BY <3>1, <3>2
    <3>5. QED
      BY <3>3, <3>4
  <2>3. QED
    BY <1>2, <2>2
<1> DEFINE c == Following(S)
<1>4. c \in 0..M /\ P(c)
  <2>1. c = CHOOSE x \in 0..M : P(x)
    BY DEF Following
  <2>2. \E x \in 0..M : P(x)
    BY <1>2, <1>3
  <2> HIDE DEF P, c
  <2>3. QED
    BY <2>1, <2>2
<1> HIDE DEF c
<1>5. rx(M) = NULL
  <2>1. AX25MODULO(S.vr + M) = AX25MODULO(S.vr - 1)
    <3> DEFINE y == S.vr + M
    <3>1. y \in Int /\ -Modulo <= y /\ y < 2 * Modulo /\ 0 <= y
          /\ (S.vr = 0 => y = Modulo - 1) /\ (S.vr # 0 => y = Modulo + (S.vr - 1))
      BY <1>1
    <3> HIDE DEF y
    <3>2. /\ y < Modulo => AX25MODULO(y) = y
          /\ Modulo <= y => AX25MODULO(y) = y - Modulo
      BY <1>1, <3>1, Wrap
    <3>3. /\ S.vr = 0 => AX25MODULO(S.vr - 1) = Modulo - 1
          /\ S.vr # 0 => AX25MODULO(S.vr - 1) = S.vr - 1
      BY <1>1, Before
    <3>4. AX25MODULO(y) = AX25MODULO(S.vr - 1)
      BY <1>1, <3>1, <3>2, <3>3
    <3>5. QED
      BY <3>4 DEF y
  <2>2. QED
    BY <2>1 DEF StashOK
<1>6. c # M
  <2>1. ASSUME c = M PROVE FALSE
    <3>1. M \in 1..c
      BY <1>1, <2>1
    <3>2. QED
      BY <1>4, <1>5, <3>1
  <2>2. QED
    BY <2>1
<1>7. c \in Nat /\ c + 1 < Modulo
  BY <1>1, <1>4, <1>6
<1>8. QED
  BY <1>4, <1>6, <1>7 DEF c

LEMMA InSequenceSound ==
  ASSUME NEW S, Sound(S), NEW info
  PROVE  LET T == InSequence(S, info) IN
         Sound(T) /\ SameSend(S, T) /\ SameControl(S, T) /\ SameTimers(S, T)
<1> DEFINE c == Following(S)
           vr == AX25MODULO(S.vr + c + 1)
           rx == [x \in Number |-> IF Ahead(S.vr, x) <= c THEN NULL ELSE S.rxdata_by_ns[x]]
           A == [S EXCEPT !.vr = vr, !.rxdata_by_ns = rx]
           T == InSequence(S, info)
           u == S.up \o (<<info>> \o [j \in 1..c |-> S.rxdata_by_ns[AX25MODULO(S.vr + j)]])
<1>1. /\ IsLink(S) /\ StashOK(S) /\ S.vr \in Number
      /\ S.rxdata_by_ns \in [Number -> Info \cup {NULL}]
  BY LinkTypes DEF Sound
<1>2. c \in Nat /\ c + 1 < Modulo /\ S.rxdata_by_ns[vr] = NULL
  BY <1>1, FollowingIs
<1>3. vr \in Number /\ Ahead(S.vr, vr) = c + 1
  <2> HIDE DEF c
  <2>1. c + 1 \in Nat /\ Ahead(S.vr, S.vr) + (c + 1) < Modulo /\ Ahead(S.vr, S.vr) = 0
    BY <1>1, <1>2, AheadSelf
  <2>2. S.vr + c + 1 = S.vr + (c + 1)
    BY <1>1, <1>2, Bounds
  <2>3. AX25MODULO(S.vr + (c + 1)) \in Number
        /\ Ahead(S.vr, AX25MODULO(S.vr + (c + 1))) = Ahead(S.vr, S.vr) + (c + 1)
    BY <1>1, <2>1, NumberPlus
  <2>4. QED
    BY <1>2, <2>1, <2>2, <2>3
<1> HIDE DEF c, vr, rx
<1>4. AX25MODULO(vr - 1) \in Number /\ Ahead(S.vr, AX25MODULO(vr - 1)) <= c
  <2>1. Ahead(S.vr, AX25MODULO(vr - 1)) = Modulo - 1 - Ahead(vr, S.vr)
    BY <1>1, <1>3, BeforeFlips
  <2>2. /\ (vr >= S.vr => c + 1 = vr - S.vr) /\ (vr < S.vr => c + 1 = vr - S.vr + Modulo)
        /\ (S.vr >= vr => Ahead(vr, S.vr) = S.vr - vr)
        /\ (S.vr < vr => Ahead(vr, S.vr) = S.vr - vr + Modulo)
    BY <1>1, <1>3, AheadIs
  <2>3. /\ vr \in Nat /\ vr < Modulo /\ S.vr \in Nat /\ S.vr < Modulo /\ Modulo \in Nat
    BY <1>1, <1>3, Bounds
  <2>4. Modulo - 1 - Ahead(vr, S.vr) = c
    BY <1>2, <2>2, <2>3
  <2>5. QED
    BY <1>2, <1>3, <2>1, <2>4, Before
<1>5. rx \in [Number -> Info \cup {NULL}]
  BY <1>1 DEF rx
<1>6. rx[vr] = NULL /\ rx[AX25MODULO(vr - 1)] = NULL
  BY <1>2, <1>3, <1>4 DEF rx
<1>7. /\ IsLink(A) /\ A.vr = vr /\ A.rxdata_by_ns = rx
      /\ SameSend(S, A) /\ SameControl(S, A) /\ SameTimers(S, A)
  BY <1>1, <1>3, <1>5 DEF IsLink, SameSend, SameControl, SameTimers
<1> HIDE DEF u
<1>8. T = [A EXCEPT !.up = u]
  <2>1. A.up = S.up
    BY <1>1 DEF IsLink
  <2> HIDE DEF A
  <2>2. T = [A EXCEPT !.up = A.up \o (<<info>> \o
                    [j \in 1..c |-> S.rxdata_by_ns[AX25MODULO(S.vr + j)]])]
    BY DEF InSequence, dl_data_indication, A, rx, vr, c
  <2>3. QED
    BY <2>1, <2>2 DEF u
<1> HIDE DEF A, T
<1>9. Quiet(A, T)
  BY <1>7, <1>8, OutIsQuiet
<1>10. /\ IsLink(T) /\ T.vr = vr /\ T.rxdata_by_ns = rx
       /\ SameSend(S, T) /\ SameControl(S, T) /\ SameTimers(S, T)
  BY <1>7, <1>9 DEF Quiet, Same, SameSend, SameReceive, SameControl, SameTimers
<1>11. StashOK(T)
  BY <1>6, <1>10 DEF StashOK
<1>12. WindowOK(T) /\ PausedOK(T)
  BY <1>10 DEF Sound, WindowOK, Outstanding, PausedOK, SameSend, SameControl, SameTimers
<1>13. QED
  BY <1>10, <1>11, <1>12 DEF Sound, T

(* The gap before a frame that is kept out of sequence: it is not empty    *)
(* when the frame before is missing.                                       *)
LEMMA GapStartIs ==
  ASSUME NEW S, S.vr \in Number, NEW ns \in Number, ns # S.vr,
         S.rxdata_by_ns[AX25MODULO(ns - 1)] = NULL
  PROVE  /\ GapStart(S, ns) \in 0..(Ahead(S.vr, ns) - 1)
         /\ \A j \in GapStart(S, ns)..(Ahead(S.vr, ns) - 1) :
              S.rxdata_by_ns[AX25MODULO(S.vr + j)] = NULL
         /\ GapStart(S, ns) = 0
              \/ S.rxdata_by_ns[AX25MODULO(S.vr + (GapStart(S, ns) - 1))] # NULL
<1> DEFINE d == Ahead(S.vr, ns)
           rx(j) == S.rxdata_by_ns[AX25MODULO(S.vr + j)]
           X == {a \in 0..(d - 1) : \A j \in a..(d - 1) : ~(rx(j) # NULL)}
           P(a) == /\ \A j \in a..(d - 1) : ~(rx(j) # NULL)
                   /\ a = 0 \/ rx(a - 1) # NULL
<1>1a. S.vr \in Number /\ S.vr \in Nat /\ ns \in Nat /\ Modulo \in Nat /\ S.vr < Modulo
       /\ ns < Modulo
  BY Bounds
<1>1b. d \in Number /\ (ns >= S.vr => d = ns - S.vr) /\ (ns < S.vr => d = (ns - S.vr) + Modulo)
  BY <1>1a, AheadIs
<1> HIDE DEF d
<1>1. /\ d \in Nat /\ d >= 1 /\ d < Modulo
      /\ S.vr + d = ns \/ S.vr + d = ns + Modulo
      /\ S.vr \in Nat /\ ns \in Nat /\ Modulo \in Nat /\ S.vr < Modulo /\ ns < Modulo
  BY <1>1a, <1>1b, Bounds
<1>2. rx(d - 1) = NULL
  <2>1. AX25MODULO(S.vr + (d - 1)) = AX25MODULO(ns - 1)
    <3> DEFINE y == S.vr + (d - 1)
    <3>1. y \in Int /\ 0 <= y /\ y < 2 * Modulo /\ -Modulo <= y
          /\ (y = ns - 1 \/ y = (ns - 1) + Modulo)
      <4> DEFINE v == S.vr
      <4>1. /\ v \in Nat /\ d \in Nat /\ d >= 1 /\ v < Modulo /\ d < Modulo /\ ns \in Nat
            /\ Modulo \in Nat /\ (v + d = ns \/ v + d = ns + Modulo)
        BY <1>1
      <4>2. y = v + (d - 1)
        OBVIOUS
      <4> HIDE DEF v, y
      <4>3. QED
        BY <4>1, <4>2
    <3> HIDE DEF y
    <3>2. /\ y < Modulo => AX25MODULO(y) = y
          /\ Modulo <= y => AX25MODULO(y) = y - Modulo
      BY <1>1, <3>1, Wrap
    <3>3. /\ ns = 0 => AX25MODULO(ns - 1) = Modulo - 1
          /\ ns # 0 => AX25MODULO(ns - 1) = ns - 1
      BY <1>1, Before
    <3>4. AX25MODULO(y) = AX25MODULO(ns - 1)
      BY <1>1, <3>1, <3>2, <3>3
    <3>5. QED
      BY <3>4 DEF y
  <2>2. QED
    BY <2>1
<1> HIDE DEF rx
<1>3. PICK m \in X : \A y \in X : m <= y
  <2>1. d - 1 \in X
    <3>1. \A j \in (d - 1)..(d - 1) : j = d - 1
      BY <1>1
    <3>2. QED
      BY <1>1, <1>2, <3>1
  <2>2. X \subseteq Nat
    BY <1>1
  <2> HIDE DEF X
  <2>3. QED
    BY <2>1, <2>2, LeastNatural
<1>4. P(m)
  <2>1. m \in 0..(d - 1) /\ \A j \in m..(d - 1) : rx(j) = NULL
    BY <1>3
  <2>2. ASSUME m # 0, rx(m - 1) = NULL PROVE FALSE
    <3>1. m - 1 \in 0..(d - 1)
      BY <1>1, <2>1, <2>2
    <3>2. \A j \in (m - 1)..(d - 1) : j = m - 1 \/ j \in m..(d - 1)
      BY <1>1, <2>1
    <3>3. m - 1 \in X
      BY <2>1, <2>2, <3>1, <3>2
    <3>4. m <= m - 1
      BY <1>3, <3>3
    <3>5. QED
      BY <2>1, <3>4
  <2>3. QED
    BY <2>1, <2>2
<1> DEFINE g == GapStart(S, ns)
<1>5. g \in 0..(d - 1) /\ P(g)
  <2>1. g = CHOOSE a \in 0..(d - 1) : P(a)
    BY DEF GapStart, d, rx
  <2>2. \E a \in 0..(d - 1) : P(a)
    BY <1>3, <1>4
  <2> HIDE DEF P, g
  <2>3. QED
    BY <2>1, <2>2
<1>6. QED
  BY <1>5 DEF rx, d

LEMMA SrejIsQuiet ==
  ASSUME NEW S, IsLink(S), NEW ns
  PROVE  Quiet(S, send_srej_frames(S, ns))
<1> DEFINE a == GapStart(S, ns)
           ask(i) == AX25MODULO(S.vr + a + i - 1)
           sent == S.out \o [i \in 1..(Ahead(S.vr, ns) - a) |->
                     <<TQ_PRIO_1_LO, ax25_s_frame("cr_res", "SREJ", ask(i),
                                                  IF ask(i) = S.vr THEN 1 ELSE 0)>>]
           pending == S.acknowledge_pending /\ a # 0
           A == [S EXCEPT !.acknowledge_pending = pending]
<1>1. pending \in BOOLEAN
  BY LinkTypes
<1>2. send_srej_frames(S, ns) = [S EXCEPT !.acknowledge_pending = pending, !.out = sent]
  BY DEF send_srej_frames
<1> HIDE DEF pending, sent
<1>3. Quiet(S, A)
  BY <1>1, QuietCalls
<1>4. [S EXCEPT !.acknowledge_pending = pending, !.out = sent] = [A EXCEPT !.out = sent]
  BY DEF IsLink
<1> HIDE DEF A
<1>5. Quiet(A, [A EXCEPT !.out = sent])
  BY <1>3, OutIsQuiet DEF Quiet, Same
<1>6. QED
  BY <1>2, <1>3, <1>4, <1>5, QuietTransitive

(* Never kept under V(R) or the number below it.                           *)
LEMMA KeepsOutOfSequence ==
  ASSUME NEW S, Sound(S), NEW ns \in Number, is_ns_in_window(S, ns), NEW info \in Info \cup {NULL}
  PROVE  LET T == [S EXCEPT !.rxdata_by_ns = [@ EXCEPT ![ns] = info]] IN
         Sound(T) /\ SameSend(S, T) /\ SameControl(S, T) /\ SameTimers(S, T)
<1> DEFINE rx == [S.rxdata_by_ns EXCEPT ![ns] = info]
           T == [S EXCEPT !.rxdata_by_ns = rx]
           b == AX25MODULO(S.vr - 1)
<1>1. /\ IsLink(S) /\ StashOK(S) /\ S.vr \in Number
      /\ S.rxdata_by_ns \in [Number -> Info \cup {NULL}]
  BY LinkTypes DEF Sound
<1>2. rx \in [Number -> Info \cup {NULL}]
  BY <1>1
<1>3. b \in Number /\ Ahead(S.vr, b) = Modulo - 1 /\ Ahead(S.vr, S.vr) = 0
  <2>1. Ahead(S.vr, b) = Modulo - 1 - Ahead(S.vr, S.vr) /\ Ahead(S.vr, S.vr) = 0
    BY <1>1, BeforeFlips, AheadSelf
  <2>2. QED
    BY <1>1, <2>1, Before, Bounds
<1>4. 0 < Ahead(S.vr, ns) /\ Ahead(S.vr, ns) < Modulo - 1
  BY DEF is_ns_in_window
<1>5. ns # S.vr /\ ns # b
  BY <1>3, <1>4, Bounds
<1>6. rx[S.vr] = NULL /\ rx[b] = NULL
  BY <1>1, <1>3, <1>5 DEF StashOK
<1> HIDE DEF rx, b
<1>7. /\ IsLink(T) /\ T.vr = S.vr /\ T.rxdata_by_ns = rx
      /\ SameSend(S, T) /\ SameControl(S, T) /\ SameTimers(S, T)
  BY <1>1, <1>2 DEF IsLink, SameSend, SameControl, SameTimers
<1> HIDE DEF T
<1>8. StashOK(T)
  BY <1>6, <1>7 DEF StashOK, b
<1>9. WindowOK(T) /\ PausedOK(T)
  BY <1>7 DEF Sound, WindowOK, Outstanding, PausedOK, SameSend, SameControl, SameTimers
<1>10. QED
  BY <1>7, <1>8, <1>9 DEF Sound, T, rx

(* What a frame leaves as it is once its acknowledgement is dealt with.    *)
Receives(S, T) == Sound(T) /\ SameSend(S, T) /\ SameControl(S, T) /\ SameTimers(S, T)

LEMMA ReceivesQuietly ==
  ASSUME NEW S, NEW T, NEW U, Receives(S, T), Quiet(T, U)
  PROVE  Receives(S, U)
<1>1. Sound(U)
  BY QuietIsSound DEF Receives
<1>2. QED
  BY <1>1 DEF Receives, Quiet, Same, SameSend, SameControl, SameTimers

LEMMA OutOfSequenceSound ==
  ASSUME NEW S, Sound(S), NEW p \in {0, 1}, NEW ns \in Number, NEW info \in Info \cup {NULL}
  PROVE  Receives(S, OutOfSequence(S, p, ns, info))
<1> DEFINE T == [S EXCEPT !.rxdata_by_ns = [@ EXCEPT ![ns] = info]]
<1>1. Receives(S, S)
  BY DEF Receives, SameSend, SameControl, SameTimers
<1>2. IsLink(S)
  BY DEF Sound
<1>3. CASE is_ns_in_window(S, ns)
  <2>1. Receives(S, T)
    BY <1>3, KeepsOutOfSequence DEF Receives
  <2>2. OutOfSequence(S, p, ns, info) \in {T, enquiry_response(T, 1), send_srej_frames(T, ns)}
    BY <1>3 DEF OutOfSequence
  <2> HIDE DEF T
  <2>3. IsLink(T)
    BY <2>1 DEF Receives, Sound
  <2>4. QED
    BY <2>1, <2>2, <2>3, QuietCalls, SrejIsQuiet, ReceivesQuietly
<1>4. CASE ~is_ns_in_window(S, ns)
  <2>1. OutOfSequence(S, p, ns, info) \in {S, enquiry_response(S, 1)}
    BY <1>4 DEF OutOfSequence
  <2>2. QED
    BY <1>1, <1>2, <2>1, QuietCalls, ReceivesQuietly
<1>5. QED
  BY <1>3, <1>4

LEMMA ContinuesSound ==
  ASSUME NEW S, Sound(S), NEW p \in {0, 1}, NEW ns \in Number, NEW info \in Info \cup {NULL}
  PROVE  Receives(S, i_frame_continued(S, p, ns, info))
<1>1. CASE ns = S.vr
  <2> DEFINE T == InSequence(S, info)
             A == [T EXCEPT !.acknowledge_pending = TRUE]
  <2>1. Receives(S, T)
    BY InSequenceSound DEF Receives
  <2>2. i_frame_continued(S, p, ns, info)
          \in {T, enquiry_response(T, 1), lm_seize_request(A)}
    BY <1>1 DEF i_frame_continued, Acknowledge
  <2> HIDE DEF T
  <2>3. IsLink(T)
    BY <2>1 DEF Receives, Sound
  <2>4. Receives(S, A)
    BY <2>1, <2>3, QuietCalls, ReceivesQuietly
  <2> HIDE DEF A
  <2>5. IsLink(A)
    BY <2>4 DEF Receives, Sound
  <2>6. QED
    BY <2>1, <2>2, <2>3, <2>4, <2>5, QuietCalls, ReceivesQuietly
<1>2. CASE ns # S.vr
  BY <1>2, OutOfSequenceSound DEF i_frame_continued
<1>3. QED
  BY <1>1, <1>2

-----------------------------------------------------------------------------
(* Handlers.                                                               *)

(* What a handler may do to the link.                                      *)
Step(S, T) == LinkInv(T) /\ AckMoves(S, T)

LEMMA AckStays ==
  ASSUME NEW S, Sound(S), NEW T, T.va = S.va
  PROVE  AckMoves(S, T)
<1>1. S.va \in Number /\ Outstanding(S) \in Number
  BY LinkTypes DEF Sound
<1>2. Ahead(S.va, S.va) = 0 /\ Outstanding(S) \in Nat
  BY <1>1, AheadSelf, Bounds
<1>3. QED
  BY <1>2 DEF AckMoves

LEMMA QuietStep ==
  ASSUME NEW S, NEW T, LinkInv(S), Quiet(S, T)
  PROVE  Step(S, T)
<1>1. Sound(T) /\ Settled(T)
  BY QuietIsSound, QuietIsSettled DEF LinkInv
<1>2. AckMoves(S, T)
  BY AckStays DEF LinkInv, Quiet, Same, SameSend
<1>3. QED
  BY <1>1, <1>2 DEF Step, LinkInv

LEMMA QuietThenStep ==
  ASSUME NEW S, NEW T, NEW U, Quiet(S, T), Step(T, U)
  PROVE  Step(S, U)
  BY DEF Step, AckMoves, Quiet, Same, SameSend, Outstanding

LEMMA QuietInv ==
  ASSUME NEW S, NEW T, LinkInv(S), Quiet(S, T)
  PROVE  /\ LinkInv(T) /\ Sound(T) /\ IsLink(T)
         /\ T.state = S.state /\ T.va = S.va /\ T.vs = S.vs
         /\ \A nr : is_good_nr(T, nr) = is_good_nr(S, nr)
<1>1. LinkInv(T) /\ Sound(T)
  BY QuietStep DEF Step, LinkInv
<1>2. T.state = S.state /\ T.va = S.va /\ T.vs = S.vs
  BY DEF Quiet, Same, SameSend, SameControl
<1>3. IsLink(T)
  BY <1>1 DEF Sound
<1>4. QED
  BY <1>1, <1>2, <1>3 DEF is_good_nr, Outstanding

LEMMA States ==
  ASSUME NEW S, IsLink(S)
  PROVE  /\ S.state \in {state_0_disconnected, state_1_awaiting_connection,
                         state_2_awaiting_release} \cup Connected
         /\ S.state \in Connected <=> \/ S.state = state_3_connected
                                      \/ S.state = state_4_timer_recovery
         /\ S.state \in Connected => S.state \notin {state_0_disconnected,
              state_1_awaiting_connection, state_2_awaiting_release}
         /\ state_3_connected # state_4_timer_recovery
  BY DEF IsLink, Connected, state_0_disconnected, state_1_awaiting_connection,
         state_2_awaiting_release, state_3_connected, state_4_timer_recovery

(* A connected link needs a timer or a count of its tries.                 *)
LEMMA ConnectedSettles ==
  ASSUME NEW S, Sound(S), S.state \in Connected,
         S.state = state_3_connected => S.t1 \/ S.t3,
         S.state = state_4_timer_recovery => S.rc <= n2_retry
  PROVE  LinkInv(S)
<1>1. IsLink(S)
  BY DEF Sound
<1>2. WaitsWithTimer(S) /\ RetriesOK(S)
  BY <1>1, States DEF WaitsWithTimer, RetriesOK
<1>3. S.state # state_1_awaiting_connection
  BY <1>1, States
<1>4. QED
  BY <1>2, <1>3 DEF LinkInv, Settled

LEMMA RecoversStep ==
  ASSUME NEW S, Sound(S)
  PROVE  Step(S, nr_error_recovery(S))
  BY Recovers, AckStays DEF Step

(* A good acknowledgement, in the states in which it counts.               *)
LEMMA AckedInv ==
  ASSUME NEW S, LinkInv(S), S.state \in Connected, NEW nr \in Number, is_good_nr(S, nr)
  PROVE  LET T == check_i_frame_ackd(S, nr) IN
         LinkInv(T) /\ T.va = nr /\ T.state = S.state /\ AckMoves(S, T)
<1> DEFINE T == check_i_frame_ackd(S, nr)
<1>1. /\ Sound(T) /\ T.va = nr /\ SameControl(S, T)
      /\ T.t1 \/ T.t3 \/ (T.t1 = S.t1 /\ T.t3 = S.t3)
  BY CheckAcked DEF LinkInv
<1>2. IsLink(S)
  BY DEF LinkInv, Sound
<1> HIDE DEF T
<1>3. T.state = S.state /\ T.rc = S.rc
  BY <1>1 DEF SameControl
<1>4. T.state = state_3_connected => T.t1 \/ T.t3
  BY <1>1, <1>3 DEF LinkInv, Settled, WaitsWithTimer
<1>5. T.state = state_4_timer_recovery => T.rc <= n2_retry
  BY <1>2, <1>3, States DEF LinkInv, Settled, RetriesOK, state_0_disconnected,
     state_3_connected, state_4_timer_recovery
<1>6. LinkInv(T)
  BY <1>1, <1>3, <1>4, <1>5, ConnectedSettles
<1>7. AckMoves(S, T)
  BY <1>1 DEF AckMoves, is_good_nr
<1>8. QED
  BY <1>1, <1>3, <1>6, <1>7 DEF T

LEMMA CatchesUpStep ==
  ASSUME NEW S, NEW T, Sound(T), AckMoves(S, T)
  PROVE  Step(S, CaughtUp(T))
  BY CatchesUp DEF Step, AckMoves

LEMMA IFrameStep ==
  ASSUME NEW S, LinkInv(S), NEW cr, NEW p \in {0, 1}, NEW nr \in Number, NEW ns \in Number,
         NEW info \in Info \cup {NULL}
  PROVE  Step(S, i_frame(S, cr, p, nr, ns, info))
<1> DEFINE H == i_frame(S, cr, p, nr, ns, info)
<1>1. IsLink(S) /\ Sound(S)
  BY DEF LinkInv, Sound
<1>2. CASE S.state = state_1_awaiting_connection
  <2>1. H = S
    <3>1. S.state \notin {state_0_disconnected, state_2_awaiting_release} \cup Connected
      BY <1>2 DEF Connected, state_0_disconnected, state_1_awaiting_connection,
         state_2_awaiting_release, state_3_connected, state_4_timer_recovery
    <3>2. QED
      BY <1>2, <3>1 DEF i_frame
  <2>2. QED
    BY <1>1, <2>1, QuietCalls, QuietStep
<1>3. CASE S.state \in {state_0_disconnected, state_2_awaiting_release}
  <2>1. H = RefuseCommand(S, cr, p)
    BY <1>1, <1>3, States DEF i_frame, state_0_disconnected, state_1_awaiting_connection,
       state_2_awaiting_release
  <2>2. QED
    BY <1>1, <2>1, QuietCalls, QuietStep
<1>4. CASE S.state \in Connected /\ (info \in TooLong \/ ~is_good_nr(S, nr))
  <2>1. H = nr_error_recovery(S)
    BY <1>1, <1>4, States DEF i_frame
  <2>2. QED
    BY <1>1, <2>1, RecoversStep
<1>5. CASE S.state \in Connected /\ ~(info \in TooLong \/ ~is_good_nr(S, nr))
  <2> DEFINE T == check_i_frame_ackd(S, nr)
             U == IF T.state = state_4_timer_recovery /\ T.va = T.vs THEN CaughtUp(T) ELSE T
             V == i_frame_continued(U, p, ns, info)
  <2>1. H = V
    <3>1. /\ S.state # state_1_awaiting_connection
          /\ S.state \notin {state_0_disconnected, state_2_awaiting_release}
      BY <1>1, <1>5, States
    <3>2. QED
      BY <1>5, <3>1 DEF i_frame
  <2>2. LinkInv(T) /\ T.state = S.state /\ AckMoves(S, T)
    BY <1>5, AckedInv
  <2> HIDE DEF T
  <2>3. Step(S, U) /\ U.state \in Connected
    <3>1. Step(S, CaughtUp(T)) /\ CaughtUp(T).state \in Connected
      BY <2>2, CatchesUp, CatchesUpStep DEF LinkInv, Connected
    <3>2. Step(S, T) /\ T.state \in Connected
      BY <1>5, <2>2 DEF Step
    <3>3. QED
      BY <3>1, <3>2
  <2> HIDE DEF U
  <2>4. Sound(U) /\ Settled(U)
    BY <2>3 DEF Step, LinkInv
  <2>5. Receives(U, V)
    BY <2>4, ContinuesSound
  <2> HIDE DEF V
  <2>6. /\ Sound(V) /\ V.state = U.state /\ V.rc = U.rc /\ V.va = U.va /\ V.vs = U.vs
        /\ V.t1 = U.t1 /\ V.t3 = U.t3
    BY <2>5 DEF Receives, SameControl, SameTimers, SameSend
  <2>7. V.state # state_1_awaiting_connection
    BY <2>3, <2>6 DEF Connected, state_1_awaiting_connection, state_3_connected,
       state_4_timer_recovery
  <2>8. Settled(V)
    BY <2>4, <2>6, <2>7 DEF Settled, WaitsWithTimer, RetriesOK
  <2>9. AckMoves(S, V)
    BY <2>3, <2>6 DEF Step, AckMoves
  <2>10. QED
    BY <2>1, <2>6, <2>8, <2>9 DEF Step, LinkInv
<1>6. QED
  BY <1>1, <1>2, <1>3, <1>4, <1>5, States

(* One state and no other.                                                 *)
LEMMA StateCases ==
  ASSUME NEW S
  PROVE  /\ S.state = state_1_awaiting_connection =>
              /\ S.state \notin {state_0_disconnected, state_2_awaiting_release}
              /\ S.state \notin Connected
         /\ S.state \in {state_0_disconnected, state_2_awaiting_release} =>
              /\ S.state # state_1_awaiting_connection /\ S.state \notin Connected
         /\ S.state \in {state_3_connected, state_4_timer_recovery} =>
              /\ S.state # state_1_awaiting_connection /\ S.state \in Connected
              /\ S.state \notin {state_0_disconnected, state_2_awaiting_release}
         /\ state_3_connected # state_4_timer_recovery
         /\ \A s \in Connected : s \in {state_3_connected, state_4_timer_recovery}
  BY DEF Connected, state_0_disconnected, state_1_awaiting_connection,
     state_2_awaiting_release, state_3_connected, state_4_timer_recovery

(* T1 runs again: enough for a connected link that has not tried too often. *)
LEMMA RestartsInv ==
  ASSUME NEW S, NEW T, Sound(S), Restarts(S, T), S.state \in Connected,
         S.state = state_4_timer_recovery => S.rc <= n2_retry
  PROVE  LinkInv(T)
<1>1. Sound(T) /\ T.state = S.state /\ T.rc = S.rc /\ T.t1
  BY SameIsSound DEF Restarts, Same, SameControl
<1>2. QED
  BY <1>1, ConnectedSettles

(* V(A) moves up to a good number.                                         *)
LEMMA SetVaStep ==
  ASSUME NEW S, Sound(S), NEW nr \in Number, is_good_nr(S, nr)
  PROVE  LET T == SET_VA(S, nr) IN
         /\ Sound(T) /\ AckMoves(S, T) /\ T.va = nr
         /\ SameControl(S, T) /\ SameTimers(S, T)
<1>1. SET_VA(S, nr).va = nr
  BY SetVa DEF is_good_nr
<1>2. AckMoves(S, SET_VA(S, nr))
  BY <1>1 DEF AckMoves, is_good_nr
<1>3. QED
  BY <1>1, <1>2, SetVa DEF is_good_nr

(* In timer recovery, the answer to the enquiry.                           *)
LEMMA FinalStep ==
  ASSUME NEW S, LinkInv(S), S.state = state_4_timer_recovery, NEW nr \in Number
  PROVE  Step(S, FinalResponse(S, nr))
<1> DEFINE A == stop_t1(S)
           T == SET_VA(A, nr)
<1>1. Sound(A) /\ Same(S, A)
  BY Timers, TimersSound DEF LinkInv, Sound
<1>2. A.va = S.va /\ A.vs = S.vs /\ A.state = S.state /\ A.rc = S.rc
  BY <1>1 DEF Same, SameSend, SameControl
<1>3. is_good_nr(A, nr) = is_good_nr(S, nr)
  BY <1>2 DEF is_good_nr, Outstanding
<1>4. FinalResponse(S, nr) =
        IF ~is_good_nr(S, nr) THEN nr_error_recovery(A)
        ELSE IF T.vs = T.va THEN CaughtUp(T) ELSE RetransmitFrom(T, nr)
  BY DEF FinalResponse
<1> HIDE DEF A, T
<1>5. CASE ~is_good_nr(S, nr)
  <2>1. Step(A, nr_error_recovery(A))
    BY <1>1, RecoversStep
  <2>2. QED
    BY <1>2, <1>4, <1>5, <2>1 DEF Step, AckMoves, Outstanding
<1>6. CASE is_good_nr(S, nr)
  <2>1. Sound(T) /\ AckMoves(A, T) /\ T.va = nr /\ SameControl(A, T) /\ SameTimers(A, T)
    BY <1>1, <1>3, <1>6, SetVaStep DEF T
  <2>2. AckMoves(S, T)
    BY <1>2, <2>1 DEF AckMoves, Outstanding
  <2>3. Step(S, CaughtUp(T))
    BY <2>1, <2>2, CatchesUpStep
  <2>4. Restarts(T, RetransmitFrom(T, nr))
    BY <2>1, RetransmitRestarts DEF Sound
  <2>5. T.state = state_4_timer_recovery /\ T.rc <= n2_retry
    <3>1. S.rc <= n2_retry
      BY DEF LinkInv, Settled, RetriesOK, state_0_disconnected, state_3_connected,
         state_4_timer_recovery
    <3>2. QED
      BY <1>2, <2>1, <3>1 DEF SameControl
  <2>6. LinkInv(RetransmitFrom(T, nr))
    BY <2>1, <2>4, <2>5, StateCases, RestartsInv
  <2>7. AckMoves(S, RetransmitFrom(T, nr))
    BY <2>2, <2>4 DEF AckMoves, Restarts, Same, SameSend
  <2>8. QED
    BY <1>4, <1>6, <2>3, <2>6, <2>7 DEF Step
<1>7. QED
  BY <1>5, <1>6

(* A good acknowledgement in timer recovery, whatever follows it.          *)
LEMMA RecoveryAcks ==
  ASSUME NEW S, LinkInv(S), S.state = state_4_timer_recovery, NEW nr \in Number,
         is_good_nr(S, nr)
  PROVE  LET V == SET_VA(S, nr) IN
         /\ Step(S, V) /\ V.state = S.state
         /\ Step(S, CaughtUp(V))
         /\ Step(S, RetransmitFrom(V, nr))
<1> DEFINE V == SET_VA(S, nr)
           W == RetransmitFrom(V, nr)
<1>1. Sound(V) /\ AckMoves(S, V) /\ SameControl(S, V)
  BY SetVaStep DEF LinkInv
<1> HIDE DEF V
<1>2. S.rc <= n2_retry
  BY DEF LinkInv, Settled, RetriesOK, state_0_disconnected, state_3_connected,
     state_4_timer_recovery
<1>3. V.state = state_4_timer_recovery /\ V.rc <= n2_retry
  BY <1>1, <1>2 DEF SameControl
<1>4. LinkInv(V)
  BY <1>1, <1>3, StateCases, ConnectedSettles
<1>5. Step(S, CaughtUp(V))
  BY <1>1, CatchesUpStep
<1>6. Restarts(V, W)
  BY <1>1, RetransmitRestarts DEF Sound
<1> HIDE DEF W
<1>7. LinkInv(W)
  BY <1>1, <1>3, <1>6, StateCases, RestartsInv
<1>8. AckMoves(S, W)
  BY <1>1, <1>6 DEF AckMoves, Restarts, Same, SameSend
<1>9. QED
  BY <1>1, <1>3, <1>4, <1>5, <1>7, <1>8 DEF Step, V, W

LEMMA RrStep ==
  ASSUME NEW S, LinkInv(S), NEW ready \in BOOLEAN, NEW cr, NEW pf, NEW nr \in Number
  PROVE  Step(S, rr_rnr_frame(S, ready, cr, pf, nr))
<1> DEFINE H == rr_rnr_frame(S, ready, cr, pf, nr)
           T == [S EXCEPT !.peer_receiver_busy = ~ready]
           U == check_need_for_response(T, cr, pf)
           V == SET_VA(U, nr)
<1>1. IsLink(S) /\ Sound(S)
  BY DEF LinkInv, Sound
<1>2. Quiet(S, T)
  BY <1>1, QuietCalls
<1>3. IsLink(T)
  BY <1>2 DEF Quiet, Same
<1>4. Quiet(S, U)
  <2> HIDE DEF T
  <2>1. Quiet(T, U)
    BY <1>3, QuietCalls
  <2>2. QED
    BY <1>2, <2>1, QuietTransitive
<1>5. CASE S.state = state_1_awaiting_connection
  <2>1. H = S
    BY <1>5, StateCases DEF rr_rnr_frame, Connected
  <2>2. QED
    BY <1>1, <2>1, QuietCalls, QuietStep
<1>6. CASE S.state \in {state_0_disconnected, state_2_awaiting_release}
  <2>1. H = RefuseCommand(S, cr, pf)
    BY <1>6, StateCases DEF rr_rnr_frame, Connected
  <2>2. QED
    BY <1>1, <2>1, QuietCalls, QuietStep
<1>7. CASE S.state = state_3_connected
  <2>1. H = IF is_good_nr(S, nr) THEN check_i_frame_ackd(U, nr) ELSE nr_error_recovery(U)
    BY <1>7, StateCases DEF rr_rnr_frame
  <2> HIDE DEF U
  <2>2. LinkInv(U) /\ Sound(U) /\ U.state = S.state /\ is_good_nr(U, nr) = is_good_nr(S, nr)
    BY <1>4, QuietInv
  <2>3. Step(U, nr_error_recovery(U))
    BY <2>2, RecoversStep
  <2>4. is_good_nr(S, nr) => Step(U, check_i_frame_ackd(U, nr))
    BY <1>7, <2>2, AckedInv DEF Step, Connected
  <2>5. Step(U, H)
    BY <2>1, <2>3, <2>4
  <2>6. QED
    BY <1>4, <2>5, QuietThenStep
<1>8. CASE S.state = state_4_timer_recovery
  <2>1. H = IF cr = "cr_res" /\ pf = 1 THEN FinalResponse(T, nr)
            ELSE IF ~is_good_nr(S, nr) THEN nr_error_recovery(U)
            ELSE IF cr = "cr_res" /\ V.vs = V.va THEN CaughtUp(V) ELSE V
    BY <1>8, StateCases DEF rr_rnr_frame
  <2> HIDE DEF U, T
  <2>2. LinkInv(U) /\ Sound(U) /\ U.state = S.state /\ is_good_nr(U, nr) = is_good_nr(S, nr)
    BY <1>4, QuietInv
  <2>3. LinkInv(T) /\ T.state = S.state
    BY <1>2, QuietInv
  <2>4. Step(S, FinalResponse(T, nr))
    BY <1>2, <1>8, <2>3, FinalStep, QuietThenStep
  <2>5. Step(S, nr_error_recovery(U))
    BY <1>4, <2>2, RecoversStep, QuietThenStep
  <2>6. is_good_nr(S, nr) => Step(S, V) /\ Step(S, CaughtUp(V))
    BY <1>4, <1>8, <2>2, RecoveryAcks, QuietThenStep
  <2>7. QED
    BY <2>1, <2>4, <2>5, <2>6
<1>9. QED
  BY <1>1, <1>5, <1>6, <1>7, <1>8, States

LEMMA RejStep ==
  ASSUME NEW S, LinkInv(S), NEW cr, NEW pf, NEW nr \in Number
  PROVE  Step(S, rej_frame(S, cr, pf, nr))
<1> DEFINE H == rej_frame(S, cr, pf, nr)
           T == [S EXCEPT !.peer_receiver_busy = FALSE]
           U == check_need_for_response(T, cr, pf)
           V == SET_VA(U, nr)
<1>1. IsLink(S) /\ Sound(S)
  BY DEF LinkInv, Sound
<1>2. Quiet(S, T)
  BY <1>1, QuietCalls
<1>3. IsLink(T)
  BY <1>2 DEF Quiet, Same
<1>4. Quiet(S, U)
  <2> HIDE DEF T
  <2>1. Quiet(T, U)
    BY <1>3, QuietCalls
  <2>2. QED
    BY <1>2, <2>1, QuietTransitive
<1>5. CASE S.state = state_1_awaiting_connection
  <2>1. H = S
    BY <1>5, StateCases DEF rej_frame, Connected
  <2>2. QED
    BY <1>1, <2>1, QuietCalls, QuietStep
<1>6. CASE S.state \in {state_0_disconnected, state_2_awaiting_release}
  <2>1. H = RefuseCommand(S, cr, pf)
    BY <1>6, StateCases DEF rej_frame, Connected
  <2>2. QED
    BY <1>1, <2>1, QuietCalls, QuietStep
<1>7. CASE S.state = state_3_connected
  <2>1. H = IF is_good_nr(S, nr) THEN RetransmitFrom(stop_t1(V), nr) ELSE nr_error_recovery(U)
    BY <1>7, StateCases DEF rej_frame
  <2> HIDE DEF U
  <2>2. LinkInv(U) /\ Sound(U) /\ U.state = S.state /\ is_good_nr(U, nr) = is_good_nr(S, nr)
    BY <1>4, QuietInv
  <2>3. Step(U, nr_error_recovery(U))
    BY <2>2, RecoversStep
  <2>4. is_good_nr(S, nr) => Step(U, RetransmitFrom(stop_t1(V), nr))
    <3> SUFFICES ASSUME is_good_nr(S, nr)
                 PROVE  Step(U, RetransmitFrom(stop_t1(V), nr))
      OBVIOUS
    <3>1. Sound(V) /\ AckMoves(U, V) /\ SameControl(U, V)
      BY <2>2, SetVaStep
    <3> HIDE DEF V
    <3> DEFINE W == stop_t1(V)
               X == RetransmitFrom(W, nr)
    <3>2. Sound(W) /\ Same(V, W)
      BY <3>1, Timers, TimersSound DEF Sound
    <3> HIDE DEF W
    <3>3. Restarts(W, X)
      BY <3>2, RetransmitRestarts DEF Sound
    <3>4. W.state = state_3_connected
      BY <1>7, <2>2, <3>1, <3>2 DEF Same, SameControl
    <3> HIDE DEF X
    <3>5. LinkInv(X)
      BY <3>2, <3>3, <3>4, StateCases, RestartsInv
    <3>6. AckMoves(U, X)
      BY <3>1, <3>2, <3>3 DEF AckMoves, Restarts, Same, SameSend
    <3>7. QED
      BY <3>5, <3>6 DEF Step, X, W
  <2>5. Step(U, H)
    BY <2>1, <2>3, <2>4
  <2>6. QED
    BY <1>4, <2>5, QuietThenStep
<1>8. CASE S.state = state_4_timer_recovery
  <2>1. H = IF cr = "cr_res" /\ pf = 1 THEN FinalResponse(T, nr)
            ELSE IF ~is_good_nr(S, nr) THEN nr_error_recovery(U)
            ELSE IF V.vs # V.va THEN RetransmitFrom(V, nr) ELSE V
    BY <1>8, StateCases DEF rej_frame
  <2> HIDE DEF U, T
  <2>2. LinkInv(U) /\ Sound(U) /\ U.state = S.state /\ is_good_nr(U, nr) = is_good_nr(S, nr)
    BY <1>4, QuietInv
  <2>3. LinkInv(T) /\ T.state = S.state
    BY <1>2, QuietInv
  <2>4. Step(S, FinalResponse(T, nr))
    BY <1>2, <1>8, <2>3, FinalStep, QuietThenStep
  <2>5. Step(S, nr_error_recovery(U))
    BY <1>4, <2>2, RecoversStep, QuietThenStep
  <2>6. is_good_nr(S, nr) => Step(S, V) /\ Step(S, RetransmitFrom(V, nr))
    BY <1>4, <1>8, <2>2, RecoveryAcks, QuietThenStep
  <2>7. QED
    BY <2>1, <2>4, <2>5, <2>6
<1>9. QED
  BY <1>1, <1>5, <1>6, <1>7, <1>8, States

(* Frames sent on request: T1 may stand still afterwards, T3 runs then     *)
(* unless the link is in timer recovery.                                   *)
LEMMA ResendInv ==
  ASSUME NEW S, LinkInv(S), S.state \in Connected, NEW numbers
  PROVE  LET T == resend_for_srej(S, numbers) IN
         LinkInv(T) /\ T.va = S.va /\ T.vs = S.vs
<1> DEFINE T == resend_for_srej(S, numbers)
<1>1. T = S \/ Restarts(S, T)
  BY ResendForSrej DEF LinkInv, Sound
<1> HIDE DEF T
<1>2. CASE Restarts(S, T)
  <2>1. S.state = state_4_timer_recovery => S.rc <= n2_retry
    BY DEF LinkInv, Settled, RetriesOK, state_0_disconnected, state_3_connected,
       state_4_timer_recovery
  <2>2. LinkInv(T)
    BY <1>2, <2>1, RestartsInv DEF LinkInv
  <2>3. QED
    BY <1>2, <2>2 DEF T, Restarts, Same, SameSend
<1>3. QED
  BY <1>1, <1>2 DEF T

LEMMA SrejStep ==
  ASSUME NEW S, LinkInv(S), NEW f, NEW nr \in Number, NEW more
  PROVE  Step(S, srej_frame(S, f, nr, more))
<1> DEFINE H == srej_frame(S, f, nr, more)
           A == [S EXCEPT !.peer_receiver_busy = FALSE]
           T == stop_t1(A)
           U == IF f = 1 THEN SET_VA(T, nr) ELSE T
           numbers == <<nr>> \o more
<1>1. IsLink(S) /\ Sound(S)
  BY DEF LinkInv, Sound
<1>2. Quiet(S, A)
  BY <1>1, QuietCalls
<1>3. CASE S.state \notin Connected
  <2>1. H = S
    BY <1>3, StateCases DEF srej_frame
  <2>2. QED
    BY <1>1, <2>1, QuietCalls, QuietStep
<1>4. CASE S.state \in Connected /\ ~is_good_nr(S, nr)
  <2>1. H = nr_error_recovery(A)
    BY <1>4, StateCases DEF srej_frame
  <2> HIDE DEF A
  <2>2. QED
    BY <1>2, <2>1, QuietInv, RecoversStep, QuietThenStep
<1>5. CASE S.state \in Connected /\ is_good_nr(S, nr)
  <2>1. LinkInv(A) /\ Sound(A) /\ A.state = S.state /\ is_good_nr(A, nr) = is_good_nr(S, nr)
    BY <1>2, QuietInv
  <2>2. /\ S.state = state_3_connected => H = resend_for_srej(start_t3(U), numbers)
        /\ S.state = state_4_timer_recovery =>
             H = IF U.vs = U.va THEN CaughtUp(U) ELSE resend_for_srej(U, numbers)
    BY <1>5, StateCases DEF srej_frame
  <2> HIDE DEF A
  <2>3. Sound(T) /\ Same(A, T)
    BY <2>1, Timers, TimersSound DEF Sound
  <2> HIDE DEF T, numbers
  <2>4. /\ T.state = S.state /\ T.rc = A.rc /\ T.va = A.va /\ T.vs = A.vs
        /\ is_good_nr(T, nr) = is_good_nr(A, nr)
    BY <2>1, <2>3 DEF Same, SameControl, SameSend, is_good_nr, Outstanding
  <2>5. Sound(U) /\ AckMoves(A, U) /\ SameControl(T, U)
    <3>1. Sound(T) /\ AckMoves(A, T) /\ SameControl(T, T)
      BY <2>1, <2>3, <2>4, AckStays DEF SameControl
    <3>2. /\ Sound(SET_VA(T, nr)) /\ AckMoves(T, SET_VA(T, nr))
          /\ SameControl(T, SET_VA(T, nr))
      BY <1>5, <2>1, <2>3, <2>4, SetVaStep
    <3>3. AckMoves(A, SET_VA(T, nr))
      BY <2>4, <3>2 DEF AckMoves, Outstanding
    <3>4. QED
      BY <3>1, <3>2, <3>3
  <2> HIDE DEF U
  <2>6. U.state = S.state /\ U.rc = A.rc
    BY <2>4, <2>5 DEF SameControl
  <2>7. CASE S.state = state_3_connected
    <3> DEFINE V == start_t3(U)
               W == resend_for_srej(V, numbers)
    <3>1. Sound(V) /\ Same(U, V) /\ V.t3
      BY <2>5, Timers, TimersSound DEF Sound
    <3> HIDE DEF V
    <3>2. V.state = state_3_connected /\ V.va = U.va /\ V.vs = U.vs
      BY <2>6, <2>7, <3>1 DEF Same, SameControl, SameSend
    <3>3. LinkInv(V)
      BY <3>1, <3>2, StateCases, ConnectedSettles
    <3>4. LinkInv(W) /\ W.va = V.va /\ W.vs = V.vs
      BY <3>2, <3>3, StateCases, ResendInv
    <3> HIDE DEF W
    <3>5. Step(A, W)
      BY <2>5, <3>2, <3>4 DEF Step, AckMoves
    <3>6. QED
      BY <1>2, <2>2, <2>7, <3>5, QuietThenStep DEF V, W
  <2>8. CASE S.state = state_4_timer_recovery
    <3> DEFINE W == resend_for_srej(U, numbers)
    <3>1. A.rc <= n2_retry
      BY <2>1, <2>8 DEF LinkInv, Settled, RetriesOK, state_0_disconnected,
         state_3_connected, state_4_timer_recovery
    <3>2. LinkInv(U)
      BY <2>5, <2>6, <2>8, <3>1, StateCases, ConnectedSettles
    <3>3. LinkInv(W) /\ W.va = U.va /\ W.vs = U.vs
      BY <1>5, <2>6, <3>2, ResendInv
    <3> HIDE DEF W
    <3>4. Step(A, W)
      BY <2>5, <3>3 DEF Step, AckMoves
    <3>5. Step(A, CaughtUp(U))
      BY <2>5, CatchesUpStep
    <3>6. QED
      BY <1>2, <2>2, <2>8, <3>4, <3>5, QuietThenStep DEF W
  <2>9. QED
    BY <1>5, <2>7, <2>8, StateCases
<1>6. QED
  BY <1>3, <1>4, <1>5

LEMMA SabmStep ==
  ASSUME NEW S, LinkInv(S), NEW p
  PROVE  Step(S, sabm_frame(S, p))
<1> DEFINE H == sabm_frame(S, p)
           A == SendLow(S, Ua(p))
           T == clear_exception_conditions(A)
           U == IF S.vs # S.va THEN discard_i_queue(T) ELSE T
<1>1. IsLink(S) /\ Sound(S)
  BY DEF LinkInv, Sound
<1>2. CASE S.state = state_1_awaiting_connection
  <2>1. H = SendLow(S, Ua(p))
    BY <1>2 DEF sabm_frame, Connected, state_0_disconnected, state_1_awaiting_connection,
       state_2_awaiting_release, state_3_connected, state_4_timer_recovery
  <2>2. QED
    BY <1>1, <2>1, QuietCalls, QuietStep
<1>3. CASE S.state = state_2_awaiting_release
  <2>1. H = lm_data_request(S, TQ_PRIO_0_HI, Dm(p))
    BY <1>3 DEF sabm_frame, Connected, state_0_disconnected, state_1_awaiting_connection,
       state_2_awaiting_release, state_3_connected, state_4_timer_recovery
  <2>2. QED
    BY <1>1, <2>1, QuietCalls, QuietStep
<1>4. Sound(A)
  BY <1>1, QuietCalls, QuietIsSound
<1> HIDE DEF A
<1>5. Sound(T) /\ NothingStashed(T)
  BY <1>4, ClearExceptions
<1>6. CASE S.state = state_0_disconnected
  <2> DEFINE B == ResetNumbers(T)
             C == start_t3(B)
             D == [C EXCEPT !.rc = 0]
             E == enter_new_state(D, state_3_connected)
  <2>1. H = E
    BY <1>6 DEF sabm_frame, A, Connected, state_0_disconnected, state_1_awaiting_connection,
       state_2_awaiting_release, state_3_connected, state_4_timer_recovery
  <2> HIDE DEF T
  <2>2. Sound(B) /\ B.va = 0 /\ B.vs = 0
    BY <1>5, NumbersReset
  <2> HIDE DEF B
  <2>3. Sound(C) /\ Same(B, C) /\ C.t3
    BY <2>2, Timers, TimersSound DEF Sound
  <2> HIDE DEF C
  <2>4. Sound(D) /\ SameSend(C, D) /\ D.t3
    BY <2>3, SetRc DEF SameTimers
  <2> HIDE DEF D
  <2>5. state_3_connected \in 0..4
    BY DEF state_3_connected
  <2>6. Sound(E) /\ SameSend(D, E) /\ E.t3 /\ E.state = state_3_connected
    BY <2>4, <2>5, Enter DEF SameTimers
  <2> HIDE DEF E
  <2>7. E.va = 0 /\ E.vs = 0
    BY <2>2, <2>3, <2>4, <2>6 DEF Same, SameSend
  <2>8. LinkInv(E)
    BY <2>6, StateCases, ConnectedSettles
  <2>9. QED
    BY <2>1, <2>7, <2>8 DEF Step, AckMoves
<1>7. CASE S.state \in Connected
  <2>1. H = CaughtUp(ResetNumbers(U))
    BY <1>7 DEF sabm_frame, A, Connected, state_0_disconnected, state_1_awaiting_connection,
       state_2_awaiting_release, state_3_connected, state_4_timer_recovery
  <2> HIDE DEF T
  <2>2. Quiet(T, U)
    BY <1>5, QuietCalls DEF Sound
  <2>3. Sound(U) /\ NothingStashed(U)
    BY <1>5, <2>2, QuietIsSound DEF Quiet, Same, SameReceive, NothingStashed
  <2> HIDE DEF U
  <2> DEFINE B == ResetNumbers(U)
  <2>4. Sound(B) /\ B.va = 0 /\ B.vs = 0
    BY <2>3, NumbersReset
  <2> HIDE DEF B
  <2>5. AckMoves(S, B)
    BY <2>4 DEF AckMoves
  <2>6. Step(S, CaughtUp(B))
    BY <2>4, <2>5, CatchesUpStep
  <2>7. QED
    BY <2>1, <2>6 DEF B
<1>8. QED
  BY <1>1, <1>2, <1>3, <1>6, <1>7, States

LEMMA GivesUpStep ==
  ASSUME NEW S, NEW T, Sound(S), Sound(T), T.va = S.va
  PROVE  Step(S, enter_new_state(T, state_0_disconnected))
  BY GivesUp, AckStays DEF Step

LEMMA DiscStep ==
  ASSUME NEW S, LinkInv(S), NEW p
  PROVE  Step(S, disc_frame(S, p))
<1> DEFINE H == disc_frame(S, p)
<1>1. IsLink(S) /\ Sound(S)
  BY DEF LinkInv, Sound
<1>2. CASE S.state \notin Connected
  <2>1. H \in {SendLow(S, Dm(p)), lm_data_request(S, TQ_PRIO_0_HI, Ua(p))}
    <3>1. CASE S.state \in {state_0_disconnected, state_1_awaiting_connection}
      BY <3>1 DEF disc_frame, Connected, state_0_disconnected, state_1_awaiting_connection,
         state_2_awaiting_release, state_3_connected, state_4_timer_recovery
    <3>2. CASE S.state = state_2_awaiting_release
      BY <3>2 DEF disc_frame, Connected, state_0_disconnected, state_1_awaiting_connection,
         state_2_awaiting_release, state_3_connected, state_4_timer_recovery
    <3>3. QED
      BY <1>1, <1>2, <3>1, <3>2, States
  <2>2. QED
    BY <1>1, <2>1, QuietCalls, QuietStep
<1>3. CASE S.state \in Connected
  <2> DEFINE A == SendLow(S, Ua(p))
  <2>1. H = Disconnect(A)
    BY <1>3 DEF disc_frame, Connected, state_0_disconnected, state_1_awaiting_connection,
       state_2_awaiting_release, state_3_connected, state_4_timer_recovery
  <2>2. Quiet(S, A)
    BY <1>1, QuietCalls
  <2> HIDE DEF A
  <2>3. Sound(A)
    BY <1>1, <2>2, QuietIsSound
  <2>4. Step(A, Disconnect(A))
    BY <2>3, Disconnecting, AckStays DEF Step
  <2>5. QED
    BY <2>1, <2>2, <2>4, QuietThenStep
<1>4. QED
  BY <1>2, <1>3

LEMMA DmStep ==
  ASSUME NEW S, LinkInv(S), NEW f
  PROVE  Step(S, dm_frame(S, f))
<1> DEFINE H == dm_frame(S, f)
           A == discard_i_queue(S)
<1>1. IsLink(S) /\ Sound(S) /\ Step(S, S)
  BY QuietCalls, QuietStep DEF LinkInv, Sound
<1>2. Sound(A) /\ A.va = S.va
  BY <1>1, QuietCalls, QuietIsSound DEF Quiet, Same, SameSend
<1>3. CASE S.state \notin Connected
  <2>1. H \in {S, enter_new_state(stop_t1(A), state_0_disconnected),
                  enter_new_state(stop_t1(S), state_0_disconnected)}
    <3>1. CASE S.state = state_0_disconnected
      BY <3>1 DEF dm_frame, Connected, state_0_disconnected, state_1_awaiting_connection,
         state_2_awaiting_release, state_3_connected, state_4_timer_recovery
    <3>2. CASE S.state = state_1_awaiting_connection
      BY <3>2 DEF dm_frame, Connected, state_0_disconnected, state_1_awaiting_connection,
         state_2_awaiting_release, state_3_connected, state_4_timer_recovery
    <3>3. CASE S.state = state_2_awaiting_release
      BY <3>3 DEF dm_frame, Connected, state_0_disconnected, state_1_awaiting_connection,
         state_2_awaiting_release, state_3_connected, state_4_timer_recovery
    <3>4. QED
      BY <1>1, <1>3, <3>1, <3>2, <3>3, States
  <2> HIDE DEF A, H
  <2>2. \A B : Sound(B) /\ B.va = S.va => Step(S, enter_new_state(stop_t1(B), state_0_disconnected))
    <3> SUFFICES ASSUME NEW B, Sound(B), B.va = S.va
                 PROVE  Step(S, enter_new_state(stop_t1(B), state_0_disconnected))
      OBVIOUS
    <3>1. Sound(stop_t1(B)) /\ stop_t1(B).va = S.va
      BY Timers, TimersSound DEF Sound, Same, SameSend
    <3>2. QED
      BY <1>1, <3>1, GivesUpStep
  <2>3. QED
    BY <1>1, <1>2, <2>1, <2>2 DEF H
<1>4. CASE S.state \in Connected
  <2>1. H = Disconnect(S)
    BY <1>4 DEF dm_frame, Connected, state_0_disconnected, state_1_awaiting_connection,
       state_2_awaiting_release, state_3_connected, state_4_timer_recovery
  <2>2. QED
    BY <1>1, <2>1, Disconnecting, AckStays DEF Step
<1>5. QED
  BY <1>3, <1>4

LEMMA UaStep ==
  ASSUME NEW S, LinkInv(S), NEW f
  PROVE  Step(S, ua_frame(S, f))
<1> DEFINE H == ua_frame(S, f)
<1>1. IsLink(S) /\ Sound(S) /\ Step(S, S)
  BY QuietCalls, QuietStep DEF LinkInv, Sound
<1>2. CASE S.state = state_0_disconnected
  <2>1. H = S
    BY <1>2 DEF ua_frame, Connected, state_0_disconnected, state_1_awaiting_connection,
       state_2_awaiting_release, state_3_connected, state_4_timer_recovery
  <2>2. QED
    BY <1>1, <2>1
<1>3. CASE S.state = state_1_awaiting_connection
  <2> DEFINE B == ResetNumbers(S)
  <2>1. H = IF f = 1 THEN CaughtUp(B) ELSE S
    BY <1>3 DEF ua_frame, Connected, state_0_disconnected, state_1_awaiting_connection,
       state_2_awaiting_release, state_3_connected, state_4_timer_recovery
  <2>2. NothingStashed(S)
    BY <1>3 DEF LinkInv, Settled
  <2>3. Sound(B) /\ B.va = 0 /\ B.vs = 0
    BY <1>1, <2>2, NumbersReset
  <2> HIDE DEF B
  <2>4. AckMoves(S, B)
    BY <2>3 DEF AckMoves
  <2>5. QED
    BY <1>1, <2>1, <2>3, <2>4, CatchesUpStep
<1>4. CASE S.state = state_2_awaiting_release
  <2> DEFINE B == stop_t1(S)
  <2>1. H = IF f = 1 THEN enter_new_state(B, state_0_disconnected) ELSE S
    BY <1>4 DEF ua_frame, Connected, state_0_disconnected, state_1_awaiting_connection,
       state_2_awaiting_release, state_3_connected, state_4_timer_recovery
  <2>2. Sound(B) /\ B.va = S.va
    BY <1>1, Timers, TimersSound DEF Sound, Same, SameSend
  <2> HIDE DEF B
  <2>3. QED
    BY <1>1, <2>1, <2>2, GivesUpStep
<1>5. CASE S.state \in Connected
  <2>1. H = nr_error_recovery(S)
    BY <1>5 DEF ua_frame, Connected, state_0_disconnected, state_1_awaiting_connection,
       state_2_awaiting_release, state_3_connected, state_4_timer_recovery
  <2>2. QED
    BY <1>1, <2>1, RecoversStep
<1>6. QED
  BY <1>1, <1>2, <1>3, <1>4, <1>5, States

LEMMA FrmrUiStep ==
  ASSUME NEW S, LinkInv(S)
  PROVE  /\ Step(S, S)
         /\ Step(S, frmr_frame(S))
         /\ \A cr : \A pf \in {0, 1} : Step(S, ui_frame(S, cr, pf))
<1>1. IsLink(S) /\ Sound(S) /\ Step(S, S)
  BY QuietCalls, QuietStep DEF LinkInv, Sound
<1>2. Step(S, frmr_frame(S))
  BY <1>1, RecoversStep DEF frmr_frame
<1>3. ASSUME NEW cr, NEW pf \in {0, 1}
      PROVE  Step(S, ui_frame(S, cr, pf))
  <2>1. ui_frame(S, cr, pf) \in {S, enquiry_response(S, pf), SendLow(S, Dm(pf))}
    BY DEF ui_frame
  <2>2. QED
    BY <1>1, <2>1, QuietCalls, QuietStep
<1>4. QED
  BY <1>1, <1>2, <1>3

-----------------------------------------------------------------------------
(* The calls the main loop makes.                                          *)

LEMMA DispatchStep ==
  ASSUME NEW S, LinkInv(S), NEW f \in Frame
  PROVE  Step(S, Dispatch(S, f))
<1>1. /\ f.pf \in {0, 1} /\ f.nr \in Number /\ f.ns \in Number
      /\ f.info \in Info \cup {NULL}
      /\ f.type \in {"I", "null"} \cup SFrames \cup UFrames
  BY DEF Frame
<1>2. CASE f.type = "I"
  BY <1>1, <1>2, IFrameStep DEF Dispatch
<1>3. CASE f.type = "RR"
  BY <1>1, <1>3, RrStep DEF Dispatch
<1>4. CASE f.type = "RNR"
  BY <1>1, <1>4, RrStep DEF Dispatch
<1>5. CASE f.type = "REJ"
  BY <1>1, <1>5, RejStep DEF Dispatch
<1>6. CASE f.type = "SREJ"
  BY <1>1, <1>6, SrejStep DEF Dispatch
<1>7. CASE f.type = "SABM"
  BY <1>7, SabmStep DEF Dispatch
<1>8. CASE f.type = "DISC"
  BY <1>8, DiscStep DEF Dispatch
<1>9. CASE f.type = "DM"
  BY <1>9, DmStep DEF Dispatch
<1>10. CASE f.type = "UA"
  BY <1>10, UaStep DEF Dispatch
<1>11. CASE f.type = "FRMR"
  BY <1>11, FrmrUiStep DEF Dispatch
<1>12. CASE f.type = "UI"
  BY <1>1, <1>12, FrmrUiStep DEF Dispatch
<1>13. CASE f.type \in {"U", "null"}
  BY <1>13, FrmrUiStep DEF Dispatch
<1>14. QED
  BY <1>1, <1>2, <1>3, <1>4, <1>5, <1>6, <1>7, <1>8, <1>9, <1>10, <1>11, <1>12, <1>13
  DEF SFrames, UFrames

LEMMA StepThenQuiet ==
  ASSUME NEW S, NEW T, NEW U, Step(S, T), Quiet(T, U)
  PROVE  Step(S, U)
<1>1. LinkInv(U) /\ U.va = T.va /\ U.vs = T.vs
  BY QuietInv DEF Step
<1>2. QED
  BY <1>1 DEF Step, AckMoves

LEMMA IndicationStep ==
  ASSUME NEW S, LinkInv(S), NEW f \in Frame
  PROVE  Step(S, lm_data_indication(S, f))
<1> DEFINE T == Dispatch(S, f)
<1>1. Step(S, T)
  BY DispatchStep
<1>2. lm_data_indication(S, f) \in {T, lm_seize_request(T)}
  BY DEF lm_data_indication
<1> HIDE DEF T
<1>3. Quiet(T, lm_seize_request(T))
  BY <1>1, QuietCalls DEF Step, LinkInv, Sound
<1>4. QED
  BY <1>1, <1>2, <1>3, StepThenQuiet

LEMMA SeizeStep ==
  ASSUME NEW S, LinkInv(S)
  PROVE  Step(S, lm_seize_confirm(S))
<1> DEFINE T == i_frame_pop_off_queue(S)
<1>1. Sound(S) /\ IsLink(S)
  BY DEF LinkInv, Sound
<1>2. CASE S.state \notin Connected
  <2>1. lm_seize_confirm(S) = S
    BY <1>2 DEF lm_seize_confirm
  <2>2. QED
    BY <2>1, FrmrUiStep
<1>3. CASE S.state \in Connected
  <2>1. lm_seize_confirm(S) \in {T, enquiry_response(T, 0)}
    BY <1>3 DEF lm_seize_confirm
  <2>2. Sound(T) /\ T.va = S.va /\ SameControl(S, T) /\ (T.t1 \/ T = S)
    BY <1>1, PopSound
  <2> HIDE DEF T
  <2>3. LinkInv(T)
    <3>1. CASE T.t1
      <4>1. T.state = S.state /\ T.rc = S.rc
        BY <2>2 DEF SameControl
      <4>2. S.state = state_4_timer_recovery => S.rc <= n2_retry
        BY DEF LinkInv, Settled, RetriesOK, state_0_disconnected, state_3_connected,
           state_4_timer_recovery
      <4>3. QED
        BY <1>3, <2>2, <3>1, <4>1, <4>2, ConnectedSettles
    <3>2. QED
      BY <2>2, <3>1
  <2>4. Step(S, T)
    BY <1>1, <2>2, <2>3, AckStays DEF Step
  <2>5. Quiet(T, enquiry_response(T, 0))
    BY <2>2, QuietCalls DEF Sound
  <2>6. QED
    BY <2>1, <2>4, <2>5, StepThenQuiet
<1>4. QED
  BY <1>2, <1>3

LEMMA BusyStep ==
  ASSUME NEW S, LinkInv(S), NEW busy \in BOOLEAN
  PROVE  Step(S, lm_channel_busy(S, busy))
<1> DEFINE H == lm_channel_busy(S, busy)
           T == [S EXCEPT !.radio_channel_busy = busy]
<1>1. IsLink(S) /\ Sound(S) /\ S.radio_channel_busy \in BOOLEAN
  BY LinkTypes DEF LinkInv, Sound
<1>2. CASE busy = S.radio_channel_busy
  <2>1. H = S
    BY <1>1, <1>2 DEF lm_channel_busy
  <2>2. QED
    BY <2>1, FrmrUiStep
<1>3. CASE busy # S.radio_channel_busy
  <2>1. H = IF busy THEN pause_t1(T) ELSE resume_t1(T)
    BY <1>1, <1>3 DEF lm_channel_busy
  <2>2. /\ IsLink(T) /\ T.radio_channel_busy = busy /\ T.t1 = S.t1 /\ T.t3 = S.t3
        /\ T.state = S.state /\ T.rc = S.rc /\ SameSend(S, T) /\ SameReceive(S, T)
    BY <1>1 DEF IsLink, SameSend, SameReceive
  <2> HIDE DEF T
  <2>3. /\ IsLink(H) /\ H.t1 = S.t1 /\ H.t3 = S.t3 /\ PausedOK(H)
        /\ H.state = S.state /\ H.rc = S.rc /\ SameSend(S, H) /\ SameReceive(S, H)
    <3> HIDE DEF H
    <3>1. CASE busy
      <4>1. H = [T EXCEPT !.t1_paused = T.t1]
        BY <2>1, <3>1 DEF pause_t1
      <4>2. QED
        BY <2>2, <3>1, <4>1 DEF IsLink, PausedOK, SameSend, SameReceive
    <3>2. CASE ~busy
      <4>1. H = IF T.t1 THEN [T EXCEPT !.t1_paused = FALSE] ELSE T
        BY <2>1, <3>2 DEF resume_t1
      <4>2. CASE T.t1
        <5>1. H = [T EXCEPT !.t1_paused = FALSE]
          BY <4>1, <4>2
        <5>2. IsLink(H) /\ H.t1_paused = FALSE /\ H.radio_channel_busy = T.radio_channel_busy
          BY <2>2, <5>1 DEF IsLink
        <5>3. /\ H.t1 = T.t1 /\ H.t3 = T.t3 /\ H.state = T.state /\ H.rc = T.rc
              /\ SameSend(T, H) /\ SameReceive(T, H)
          BY <2>2, <5>1 DEF IsLink, SameSend, SameReceive
        <5>4. QED
          BY <2>2, <3>2, <5>2, <5>3 DEF PausedOK, SameSend, SameReceive
      <4>3. CASE ~T.t1
        BY <2>2, <4>1, <4>3 DEF PausedOK
      <4>4. QED
        BY <4>2, <4>3
    <3>3. QED
      BY <3>1, <3>2
  <2> HIDE DEF H
  <2>4. Sound(H)
    BY <1>1, <2>3, KeepsSound
  <2>5. Settled(H)
    BY <2>3 DEF LinkInv, Settled, WaitsWithTimer, RetriesOK, NothingStashed, SameReceive
  <2>6. AckMoves(S, H)
    BY <1>1, <2>3, AckStays DEF SameSend
  <2>7. QED
    BY <2>4, <2>5, <2>6 DEF Step, LinkInv, H
<1>4. QED
  BY <1>2, <1>3

-----------------------------------------------------------------------------
(* Timers.                                                                 *)

(* An enquiry, counted from 1, begins a timer recovery.                    *)
LEMMA BeginsRecovery ==
  ASSUME NEW S, Sound(S)
  PROVE  LinkInv(BeginRecovery(S)) /\ BeginRecovery(S).va = S.va
<1> DEFINE A == [S EXCEPT !.rc = 1]
           B == transmit_enquiry(A)
           C == enter_new_state(B, state_4_timer_recovery)
<1>1. Sound(A) /\ A.rc = 1 /\ A.va = S.va
  BY SetRc DEF SameSend
<1> HIDE DEF A
<1>2. Restarts(A, B)
  BY <1>1, EnquiryRestarts DEF Sound
<1> HIDE DEF B
<1>3. Sound(B) /\ B.rc = 1 /\ B.va = S.va
  BY <1>1, <1>2, SameIsSound DEF Restarts, Same, SameControl, SameSend
<1>4. state_4_timer_recovery \in 0..4
  BY DEF state_4_timer_recovery
<1>5. Sound(C) /\ C.state = state_4_timer_recovery /\ C.rc = 1 /\ C.va = S.va
  BY <1>3, <1>4, Enter DEF SameSend
<1> HIDE DEF C
<1>6. C.rc <= n2_retry
  BY <1>5, LinkAssumption
<1>7. LinkInv(C)
  BY <1>5, <1>6, StateCases, ConnectedSettles
<1>8. QED
  BY <1>5, <1>7 DEF BeginRecovery, C, B, A

(* One more try or the end, in a state that waits for an answer.           *)
LEMMA Retries ==
  ASSUME NEW S, Sound(S), S.rc <= n2_retry, NEW type,
         S.state \in {state_1_awaiting_connection, state_2_awaiting_release},
         S.state = state_1_awaiting_connection => NothingStashed(S)
  PROVE  LinkInv(RetryCommand(S, type)) /\ RetryCommand(S, type).va = S.va
<1> DEFINE A == IF type = "SABM" THEN discard_i_queue(S) ELSE S
           B == [S EXCEPT !.rc = S.rc + 1]
           C == SendLow(B, ax25_u_frame("cr_cmd", type, 1))
           D == start_t1(C)
<1>1. IsLink(S) /\ S.rc \in Nat
  BY LinkTypes DEF Sound
<1>2. CASE S.rc = n2_retry
  <2>1. RetryCommand(S, type) = enter_new_state(A, state_0_disconnected)
    BY <1>2 DEF RetryCommand
  <2>2. Quiet(S, A)
    BY <1>1, QuietCalls
  <2> HIDE DEF A
  <2>3. Sound(A) /\ A.va = S.va
    BY <2>2, QuietIsSound DEF Quiet, Same, SameSend
  <2>4. QED
    BY <2>1, <2>3, GivesUp
<1>3. CASE S.rc # n2_retry
  <2>1. RetryCommand(S, type) = D
    BY <1>3 DEF RetryCommand
  <2>2. S.rc + 1 \in Nat /\ S.rc + 1 <= n2_retry
    BY <1>1, <1>3, LinkAssumption
  <2>3. Sound(B) /\ B.rc <= n2_retry /\ B.state = S.state /\ SameSend(S, B) /\ SameReceive(S, B)
    BY <2>2, SetRc
  <2> HIDE DEF B
  <2>4. Sound(C) /\ Same(B, C)
    BY <2>3, QuietCalls, QuietIsSound DEF Sound, Quiet
  <2> HIDE DEF C
  <2>5. Sound(D) /\ Same(C, D) /\ D.t1
    BY <2>4, Timers, TimersSound DEF Sound
  <2> HIDE DEF D
  <2>6. D.state = S.state /\ D.rc <= n2_retry /\ D.va = S.va /\ D.rxdata_by_ns = S.rxdata_by_ns
    BY <2>3, <2>4, <2>5 DEF Same, SameControl, SameSend, SameReceive
  <2>7. Settled(D)
    BY <2>5, <2>6 DEF Settled, WaitsWithTimer, RetriesOK, NothingStashed
  <2>8. QED
    BY <2>1, <2>5, <2>6, <2>7 DEF LinkInv
<1>4. QED
  BY <1>2, <1>3

LEMMA T1Step ==
  ASSUME NEW S, LinkInv(S)
  PROVE  Step(S, dl_timer_t1(S))
<1> DEFINE T == [S EXCEPT !.t1 = FALSE, !.t1_paused = FALSE]
<1>1. /\ IsLink(T) /\ SameSend(S, T) /\ SameReceive(S, T) /\ PausedOK(T)
      /\ T.state = S.state /\ T.rc = S.rc
  BY DEF LinkInv, Sound, IsLink, SameSend, SameReceive, PausedOK
<1>2. dl_timer_t1(S) = t1_expiry(T)
  BY DEF dl_timer_t1
<1> HIDE DEF T
<1>3. Sound(T) /\ T.va = S.va
  BY <1>1, KeepsSound DEF LinkInv, SameSend
<1>4. T.rc \in Nat /\ (T.state \notin {state_0_disconnected, state_3_connected} => T.rc <= n2_retry)
  BY <1>1, LinkTypes DEF LinkInv, Settled, RetriesOK
<1>5. T.state = state_1_awaiting_connection => NothingStashed(T)
  BY <1>1 DEF LinkInv, Settled, NothingStashed, SameReceive
<1>6. LinkInv(t1_expiry(T)) /\ t1_expiry(T).va = T.va
  <2>1. CASE T.state = state_0_disconnected
    <3>1. t1_expiry(T) = T
      BY <2>1 DEF t1_expiry, state_0_disconnected, state_1_awaiting_connection,
         state_2_awaiting_release, state_3_connected, state_4_timer_recovery
    <3>2. Settled(T)
      BY <2>1 DEF Settled, WaitsWithTimer, RetriesOK, state_0_disconnected,
         state_1_awaiting_connection, state_2_awaiting_release, state_3_connected
    <3>3. QED
      BY <1>3, <3>1, <3>2 DEF LinkInv
  <2>2. CASE T.state = state_1_awaiting_connection
    <3>1. t1_expiry(T) = RetryCommand(T, "SABM")
      BY <2>2 DEF t1_expiry, state_0_disconnected, state_1_awaiting_connection,
         state_2_awaiting_release, state_3_connected, state_4_timer_recovery
    <3>2. T.rc <= n2_retry
      BY <1>4, <2>2 DEF state_0_disconnected, state_1_awaiting_connection, state_3_connected
    <3>3. QED
      BY <1>3, <1>5, <2>2, <3>1, <3>2, Retries
  <2>3. CASE T.state = state_2_awaiting_release
    <3>1. t1_expiry(T) = RetryCommand(T, "DISC")
      BY <2>3 DEF t1_expiry, state_0_disconnected, state_1_awaiting_connection,
         state_2_awaiting_release, state_3_connected, state_4_timer_recovery
    <3>2. T.rc <= n2_retry
      BY <1>4, <2>3 DEF state_0_disconnected, state_2_awaiting_release, state_3_connected
    <3>3. QED
      BY <1>3, <1>5, <2>3, <3>1, <3>2, Retries
  <2>4. CASE T.state = state_3_connected
    <3>1. t1_expiry(T) = BeginRecovery(T)
      BY <2>4 DEF t1_expiry, state_0_disconnected, state_1_awaiting_connection,
         state_2_awaiting_release, state_3_connected, state_4_timer_recovery
    <3>2. QED
      BY <1>3, <3>1, BeginsRecovery
  <2>5. CASE T.state = state_4_timer_recovery
    <3> DEFINE A == SendLow(discard_i_queue(T), Dm(0))
               B == [T EXCEPT !.rc = T.rc + 1]
               C == transmit_enquiry(B)
    <3>1. t1_expiry(T) = IF T.rc = n2_retry THEN enter_new_state(A, state_0_disconnected) ELSE C
      BY <2>5 DEF t1_expiry, state_0_disconnected, state_1_awaiting_connection,
         state_2_awaiting_release, state_3_connected, state_4_timer_recovery
    <3>2. T.rc <= n2_retry
      BY <1>4, <2>5 DEF state_0_disconnected, state_3_connected, state_4_timer_recovery
    <3>3. CASE T.rc = n2_retry
      <4> DEFINE D == discard_i_queue(T)
      <4>1. Quiet(T, D)
        BY <1>1, QuietCalls
      <4> HIDE DEF D
      <4>2. Quiet(D, SendLow(D, Dm(0)))
        BY <4>1, QuietCalls DEF Quiet, Same
      <4>3. Quiet(T, A)
        BY <4>1, <4>2, QuietTransitive DEF D
      <4> HIDE DEF A
      <4>4. Sound(A) /\ A.va = T.va
        BY <1>3, <4>3, QuietIsSound DEF Quiet, Same, SameSend
      <4>5. QED
        BY <3>1, <3>3, <4>4, GivesUp
    <3>4. CASE T.rc # n2_retry
      <4>1. T.rc + 1 \in Nat /\ T.rc + 1 <= n2_retry
        BY <1>4, <3>2, <3>4, LinkAssumption
      <4>2. Sound(B) /\ B.rc <= n2_retry /\ B.state = T.state /\ B.va = T.va
        BY <1>3, <4>1, SetRc DEF SameSend
      <4> HIDE DEF B
      <4>3. Restarts(B, C)
        BY <4>2, EnquiryRestarts DEF Sound
      <4> HIDE DEF C
      <4>4. LinkInv(C) /\ C.va = T.va
        BY <2>5, <4>2, <4>3, StateCases, RestartsInv DEF Restarts, Same, SameSend
      <4>5. QED
        BY <3>1, <3>4, <4>4
    <3>5. QED
      BY <3>3, <3>4
  <2>6. QED
    BY <1>1, <2>1, <2>2, <2>3, <2>4, <2>5, States
<1>7. QED
  BY <1>2, <1>3, <1>6, AckStays DEF Step, LinkInv

LEMMA T3Step ==
  ASSUME NEW S, LinkInv(S)
  PROVE  Step(S, dl_timer_t3(S))
<1> DEFINE T == [S EXCEPT !.t3 = FALSE]
<1>1. /\ IsLink(T) /\ SameSend(S, T) /\ SameReceive(S, T) /\ PausedOK(T)
      /\ T.state = S.state /\ T.rc = S.rc /\ T.t1 = S.t1
  BY DEF LinkInv, Sound, IsLink, SameSend, SameReceive, PausedOK
<1>2. dl_timer_t3(S) = IF T.state = state_3_connected THEN BeginRecovery(T) ELSE T
  BY DEF dl_timer_t3, t3_expiry
<1> HIDE DEF T
<1>3. Sound(T) /\ T.va = S.va
  BY <1>1, KeepsSound DEF LinkInv, SameSend
<1>4. T.state # state_3_connected => LinkInv(T)
  BY <1>1, <1>3
  DEF LinkInv, Settled, WaitsWithTimer, RetriesOK, NothingStashed, SameReceive
<1>5. LinkInv(dl_timer_t3(S)) /\ dl_timer_t3(S).va = S.va
  BY <1>2, <1>3, <1>4, BeginsRecovery
<1>6. QED
  BY <1>5, AckStays DEF Step, LinkInv
=============================================================================
