--------------------------- MODULE LinkPairProofs ---------------------------
(***************************************************************************)
(* Proofs about LinkPair, for every modulus, window, number of tries and   *)
(* of parts.                                                               *)
(*                                                                         *)
(* Three numbers describe the two links and what is under way between      *)
(* them.  Numbers count from part base + 1: a SABM that B heard put the    *)
(* part after base at 0.  B expects part r, and top is the last part that  *)
(* may be under way under these numbers.  Num(base, p) is the number of    *)
(* part p, and since top - r is at most Modulo - 2 no two parts that B     *)
(* could take have the same number.                                        *)
(*                                                                         *)
(* Pair says what the links keep and what the queues hold in these terms.  *)
(* The hard part is the order of what is under way (Ord): a frame sent     *)
(* again after an SREJ is an old part behind new ones, and it is harmless  *)
(* because B cannot pass it before it is heard or lost: a later part comes *)
(* before an earlier one only while B keeps a part in between.             *)
(*                                                                         *)
(* First the handlers of ax25_link.c are shown to do one of a few things   *)
(* to the sender (Pauses, Closes, Acked, Resent, Opens, Reopens, Sends)    *)
(* and to the receiver (Stays, Resets, Gives, Stashes); then each of these *)
(* is shown to keep Pair; then the steps of the specification are.         *)
(***************************************************************************)
EXTENDS LinkPair, LinkFacts

-----------------------------------------------------------------------------
(* Numbers and the parts they stand for.                                   *)

(* The number under which part p goes, counted from part base + 1, which   *)
(* has the number 0.                                                       *)
Num(base, p) == AX25MODULO(p - (base + 1))

(* Two numbers that differ by a multiple of Modulo are one.                *)
LEMMA Congruent ==
  ASSUME NEW x \in Number, NEW y \in Number, NEW q \in Int, x - y = Modulo * q
  PROVE  x = y
<1>1. Modulo \in Nat \ {0} /\ x \in Int /\ y \in Int /\ -Modulo < x - y /\ x - y < Modulo
  BY LinkAssumption DEF Number
<1>2. /\ q >= 1 => Modulo * q >= Modulo
      /\ q <= -1 => Modulo * q <= -Modulo
      /\ Modulo * 0 = 0
  BY <1>1, Multiples
<1>3. q = 0
  BY <1>1, <1>2
<1>4. QED
  BY <1>1, <1>2, <1>3

(* A part and its number differ by a multiple of Modulo.                   *)
LEMMA NumIs ==
  ASSUME NEW base \in Int, NEW p \in Int
  PROVE  /\ Num(base, p) \in Number /\ Num(base, p) \in Int
         /\ \E q \in Int : p - (base + 1) = (Modulo * q) + Num(base, p)
<1> DEFINE x == p - (base + 1)
           q == x \div Modulo
<1>1. x \in Int
  OBVIOUS
<1> HIDE DEF x
<1>2. /\ Modulo \in Nat \ {0}
      /\ q \in Int
      /\ x % Modulo \in 0..(Modulo - 1)
      /\ x = (Modulo * q) + (x % Modulo)
  BY <1>1, LinkAssumption, SMT
<1>3. Num(base, p) = x % Modulo
  BY DEF Num, AX25MODULO, x
<1> HIDE DEF q
<1>4. p - (base + 1) = (Modulo * q) + Num(base, p)
  BY <1>2, <1>3 DEF x
<1>5. Num(base, p) \in Number /\ Num(base, p) \in Int
  BY <1>2, <1>3 DEF Number
<1>6. QED
  BY <1>2, <1>4, <1>5

(* Numbers that agree modulo Modulo.                                       *)
LEMMA NumUnique ==
  ASSUME NEW base \in Int, NEW p \in Int, NEW n \in Number, NEW q \in Int,
         n = p - (base + 1) + Modulo * q
  PROVE  n = Num(base, p)
<1>1. PICK k \in Int : p - (base + 1) = (Modulo * k) + Num(base, p)
  BY NumIs
<1>2. Num(base, p) \in Number /\ Num(base, p) \in Int /\ Modulo \in Int /\ n \in Int
  BY NumIs, LinkAssumption DEF Number
<1> DEFINE m == Num(base, p)
           a == Modulo * k
           b == Modulo * q
           j == k + q
<1> HIDE DEF m
<1>3. Modulo * j = a + b
  BY <1>2
<1>4. a \in Int /\ b \in Int /\ j \in Int
  BY <1>2
<1> HIDE DEF a, b, j
<1>5. n = p - (base + 1) + b /\ p - (base + 1) = a + m
  BY <1>1 DEF a, b, m
<1>6. m \in Number /\ m \in Int
  BY <1>2 DEF m
<1>7. n - m = Modulo * j
  BY <1>2, <1>3, <1>4, <1>5, <1>6
<1>8. n = m
  BY <1>4, <1>6, <1>7, Congruent
<1>9. QED
  BY <1>8 DEF m

(* The first part after base goes under 0, as after a reset.               *)
LEMMA NumFirst ==
  ASSUME NEW base \in Int
  PROVE  Num(base, base + 1) = 0
<1>1. 0 \in Number /\ 0 = base + 1 - (base + 1) + Modulo * 0
  BY LinkAssumption DEF Number
<1>2. QED
  BY <1>1, NumUnique

(* Parts less than Modulo apart have different numbers.                    *)
LEMMA NumSame ==
  ASSUME NEW base \in Int, NEW p \in Int, NEW q \in Int, -Modulo < p - q, p - q < Modulo,
         Num(base, p) = Num(base, q)
  PROVE  p = q
<1>1. PICK a \in Int : p - (base + 1) = (Modulo * a) + Num(base, p)
  BY NumIs
<1>2. PICK b \in Int : q - (base + 1) = (Modulo * b) + Num(base, q)
  BY NumIs
<1>3. Num(base, p) \in Int /\ Modulo \in Nat \ {0}
  BY NumIs, LinkAssumption
<1> DEFINE m == Num(base, p)
           u == Modulo * a
           v == Modulo * b
           j == a - b
<1> HIDE DEF m
<1>4. Modulo * j = u - v /\ u \in Int /\ v \in Int /\ j \in Int
  BY <1>3
<1>5. /\ j >= 1 => Modulo * j >= Modulo
      /\ j <= -1 => Modulo * j <= -Modulo
      /\ Modulo * 0 = 0
  BY <1>3, <1>4, Multiples
<1>6. p - (base + 1) = u + m /\ q - (base + 1) = v + m /\ m \in Int
  BY <1>1, <1>2, <1>3 DEF m
<1> HIDE DEF u, v, j
<1>7. p - q = u - v
  BY <1>4, <1>6
<1>8. j = 0
  BY <1>3, <1>4, <1>5, <1>7
<1>9. p - q = 0
  BY <1>4, <1>5, <1>7, <1>8
<1>10. QED
  BY <1>9

(* The number of the n-th part after p.                                    *)
LEMMA NumPlus ==
  ASSUME NEW base \in Int, NEW p \in Int, NEW n \in Int, -Modulo <= n, n <= Modulo
  PROVE  AX25MODULO(Num(base, p) + n) = Num(base, p + n)
<1> DEFINE m == Num(base, p)
           w == AX25MODULO(m + n)
<1>1. PICK k \in Int : p - (base + 1) = (Modulo * k) + m
  BY NumIs
<1>2. m \in Number /\ m \in Int
  BY NumIs
<1> HIDE DEF m
<1>3. Modulo \in Nat \ {0} /\ m + n \in Int /\ -Modulo <= m + n /\ m + n < 2 * Modulo
      /\ 0 <= m /\ m < Modulo
  BY <1>2, LinkAssumption DEF Number
<1>4. /\ w \in Number
      /\ w \in {m + n, (m + n) + Modulo, (m + n) - Modulo}
  <2> DEFINE x == m + n
  <2>1. x \in Int /\ -Modulo <= x /\ x < 2 * Modulo /\ Modulo \in Int
    BY <1>3
  <2> HIDE DEF x
  <2>2. AX25MODULO(x) \in Number /\ AX25MODULO(x) \in {x, x + Modulo, x - Modulo}
    <3>1. x < 0 \/ (0 <= x /\ x < Modulo) \/ Modulo <= x
      BY <2>1
    <3>2. QED
      BY <2>1, <3>1, Wrap
  <2>3. QED
    BY <2>2 DEF x
<1>5. w \in Int
  BY <1>3, <1>4 DEF Number
<1> HIDE DEF w
<1>6. \E j \in Int : w = p + n - (base + 1) + Modulo * j
  <2> DEFINE u == Modulo * k
  <2>1. Modulo * (-k) = -u /\ Modulo * (1 - k) = Modulo - u /\ Modulo * (-1 - k) = -Modulo - u
        /\ u \in Int
    BY <1>3
  <2>2. p - (base + 1) = u + m
    BY <1>1
  <2> HIDE DEF u
  <2>3. CASE w = m + n
    <3>1. w = p + n - (base + 1) + Modulo * (-k) /\ -k \in Int
      BY <1>2, <1>3, <2>1, <2>2, <2>3
    <3>2. QED
      BY <3>1
  <2>4. CASE w = (m + n) + Modulo
    <3>1. w = p + n - (base + 1) + Modulo * (1 - k) /\ 1 - k \in Int
      BY <1>2, <1>3, <2>1, <2>2, <2>4
    <3>2. QED
      BY <3>1
  <2>5. CASE w = (m + n) - Modulo
    <3>1. w = p + n - (base + 1) + Modulo * (-1 - k) /\ -1 - k \in Int
      BY <1>2, <1>3, <2>1, <2>2, <2>5
    <3>2. QED
      BY <3>1
  <2>6. QED
    BY <1>4, <2>3, <2>4, <2>5
<1>7. w = Num(base, p + n)
  <2>1. PICK j \in Int : w = p + n - (base + 1) + Modulo * j
    BY <1>6
  <2> DEFINE e == p + n
  <2>2. e \in Int /\ w = e - (base + 1) + Modulo * j
    BY <2>1
  <2> HIDE DEF e
  <2>3. w = Num(base, e)
    BY <1>4, <2>2, NumUnique
  <2>4. QED
    BY <2>3 DEF e
<1>8. QED
  BY <1>7 DEF w, m

(* The distance of two numbers is that of their parts.                     *)
LEMMA NumAhead ==
  ASSUME NEW base \in Int, NEW p \in Int, NEW q \in Int, p <= q, q < p + Modulo
  PROVE  Ahead(Num(base, p), Num(base, q)) = q - p
<1> DEFINE d == q - p
           a == Num(base, p)
           b == AX25MODULO(a + d)
<1>1. Modulo \in Nat \ {0} /\ d \in Nat /\ d < Modulo /\ a \in Number /\ p + d = q
  BY NumIs, LinkAssumption
<1> HIDE DEF d
<1>1a. d \in Int /\ -Modulo <= d /\ d <= Modulo
  BY <1>1
<1>2. b = Num(base, q)
  BY <1>1, <1>1a, NumPlus
<1> HIDE DEF a
<1>3. Ahead(a, a) = 0
  BY <1>1, AheadSelf
<1>4. Ahead(a, a) + d < Modulo
  BY <1>1, <1>3
<1>5. Ahead(a, b) = Ahead(a, a) + d
  BY <1>1, <1>4, NumberPlus
<1>6. QED
  BY <1>1, <1>2, <1>3, <1>5 DEF a, d

-----------------------------------------------------------------------------
(* Queues, and the frames a handler sent.                                  *)

(* The frames of a queue, and which of them stand before which.            *)
In(q) == {q[i] : i \in DOMAIN q}
Precedes(q, f, g) == \E i \in DOMAIN q : \E j \in DOMAIN q : i < j /\ q[i] = f /\ q[j] = g

(* An empty queue, and one of a single frame.                              *)
LEMMA EmptyQueue ==
  /\ In(<< >>) = {}
  /\ \A f, g : ~Precedes(<< >>, f, g)
  BY DEF In, Precedes

LEMMA OneFrame ==
  ASSUME NEW f
  PROVE  /\ In(<<f>>) = {f}
         /\ \A g, h : ~Precedes(<<f>>, g, h)
<1> DEFINE q == <<f>>
<1>1. DOMAIN q = {1} /\ q[1] = f
  OBVIOUS
<1> HIDE DEF q
<1>2. In(q) = {f}
  BY <1>1 DEF In
<1>3. \A g, h : ~Precedes(q, g, h)
  BY <1>1 DEF Precedes
<1>4. QED
  BY <1>2, <1>3 DEF q

(* Frames in order are frames of the queue.                                *)
LEMMA PrecedesIn ==
  ASSUME NEW q, NEW f, NEW g, Precedes(q, f, g)
  PROVE  f \in In(q) /\ g \in In(q)
  BY DEF Precedes, In

(* What is left when the head of a queue is taken.                         *)
LEMMA TailQueue ==
  ASSUME NEW X, NEW q \in Seq(X), q # << >>
  PROVE  /\ Head(q) \in In(q) /\ Head(q) \in X /\ Tail(q) \in Seq(X)
         /\ \A f \in In(Tail(q)) : f \in In(q) /\ Precedes(q, Head(q), f)
         /\ \A f, g : Precedes(Tail(q), f, g) => Precedes(q, f, g)
<1> DEFINE t == Tail(q)
<1>1. /\ Len(q) \in Nat /\ DOMAIN q = 1..Len(q) /\ Len(q) > 0 /\ Head(q) = q[1] /\ q[1] \in X
      /\ t \in Seq(X) /\ DOMAIN t = 1..(Len(q) - 1)
      /\ \A i \in DOMAIN t : t[i] = q[i + 1]
  OBVIOUS
<1> HIDE DEF t
<1>2. 1 \in DOMAIN q
  BY <1>1
<1>3. \A i \in DOMAIN t : i + 1 \in DOMAIN q /\ 1 < i + 1 /\ i \in Int
  BY <1>1
<1>4. Head(q) \in In(q)
  BY <1>1, <1>2 DEF In
<1>5. ASSUME NEW f \in In(t) PROVE f \in In(q) /\ Precedes(q, Head(q), f)
  <2>1. PICK i \in DOMAIN t : f = t[i]
    BY DEF In
  <2>2. i + 1 \in DOMAIN q /\ 1 < i + 1 /\ q[i + 1] = f
    BY <1>1, <1>3, <2>1
  <2> DEFINE j == i + 1
  <2>3. j \in DOMAIN q /\ 1 < j /\ q[j] = f
    BY <2>2
  <2> HIDE DEF j
  <2>4. QED
    BY <1>1, <1>2, <2>3 DEF In, Precedes
<1>6. ASSUME NEW f, NEW g, Precedes(t, f, g) PROVE Precedes(q, f, g)
  <2>1. PICK i \in DOMAIN t, j \in DOMAIN t : i < j /\ t[i] = f /\ t[j] = g
    BY <1>6 DEF Precedes
  <2> DEFINE k == i + 1
             l == j + 1
  <2>2. k \in DOMAIN q /\ l \in DOMAIN q /\ k < l /\ q[k] = f /\ q[l] = g
    BY <1>1, <1>3, <2>1
  <2> HIDE DEF k, l
  <2>3. QED
    BY <2>2 DEF Precedes
<1>7. QED
  BY <1>1, <1>4, <1>5, <1>6 DEF t

(* What is in a queue to which frames were added.                          *)
LEMMA JoinQueue ==
  ASSUME NEW X, NEW q \in Seq(X), NEW w \in Seq(X)
  PROVE  /\ q \o w \in Seq(X)
         /\ \A f : f \in In(q \o w) <=> f \in In(q) \/ f \in In(w)
         /\ \A f, g : Precedes(q \o w, f, g) =>
              \/ Precedes(q, f, g) \/ (f \in In(q) /\ g \in In(w)) \/ Precedes(w, f, g)
<1> DEFINE r == q \o w
           m == Len(q)
           n == Len(w)
<1>1. /\ m \in Nat /\ n \in Nat /\ DOMAIN q = 1..m /\ DOMAIN w = 1..n
      /\ r \in Seq(X) /\ DOMAIN r = 1..(m + n)
      /\ \A i \in 1..(m + n) : r[i] = IF i <= m THEN q[i] ELSE w[i - m]
  OBVIOUS
<1> HIDE DEF r, m, n
<1>2. \A i \in DOMAIN r : \/ i \in DOMAIN q /\ r[i] = q[i]
                          \/ i - m \in DOMAIN w /\ r[i] = w[i - m] /\ i > m
  BY <1>1
<1>3. \A i \in DOMAIN q : i \in DOMAIN r /\ r[i] = q[i]
  BY <1>1
<1>4. \A i \in DOMAIN w : i + m \in DOMAIN r /\ r[i + m] = w[i]
  BY <1>1
<1>5. ASSUME NEW f PROVE f \in In(r) <=> f \in In(q) \/ f \in In(w)
  <2>1. f \in In(r) => f \in In(q) \/ f \in In(w)
    BY <1>2 DEF In
  <2>2. f \in In(q) => f \in In(r)
    BY <1>3 DEF In
  <2>3. f \in In(w) => f \in In(r)
    BY <1>4 DEF In
  <2>4. QED
    BY <2>1, <2>2, <2>3
<1>6. ASSUME NEW f, NEW g, Precedes(r, f, g)
      PROVE  \/ Precedes(q, f, g) \/ (f \in In(q) /\ g \in In(w)) \/ Precedes(w, f, g)
  <2>1. PICK i \in DOMAIN r, j \in DOMAIN r : i < j /\ r[i] = f /\ r[j] = g
    BY <1>6 DEF Precedes
  <2>2. CASE i \in DOMAIN q /\ r[i] = q[i] /\ j \in DOMAIN q /\ r[j] = q[j]
    BY <2>1, <2>2 DEF Precedes
  <2>3. CASE i \in DOMAIN q /\ r[i] = q[i] /\ j - m \in DOMAIN w /\ r[j] = w[j - m]
    BY <2>1, <2>3 DEF In
  <2>4. CASE i - m \in DOMAIN w /\ r[i] = w[i - m] /\ j - m \in DOMAIN w /\ r[j] = w[j - m]
    <3> DEFINE k == i - m
               l == j - m
    <3>1. k \in DOMAIN w /\ l \in DOMAIN w /\ k < l /\ w[k] = f /\ w[l] = g
      BY <1>1, <2>1, <2>4
    <3> HIDE DEF k, l
    <3>2. QED
      BY <3>1 DEF Precedes
  <2>5. CASE i > m /\ j \in DOMAIN q
    BY <1>1, <2>1, <2>5
  <2>6. QED
    BY <1>2, <2>1, <2>2, <2>3, <2>4, <2>5
<1>7. QED
  BY <1>1, <1>5, <1>6 DEF r

(* What goes into the queue.                                               *)
Out == Seq({TQ_PRIO_0_HI, TQ_PRIO_1_LO} \X Frame)

(* FramesOf when a handler sent nothing, one frame, several, or one more.  *)
LEMMA FramesOfNone ==
  FramesOf(<< >>) = << >>
  BY DEF FramesOf

LEMMA FramesOfOne ==
  ASSUME NEW p, NEW f \in Frame
  PROVE  /\ FramesOf(Append(<< >>, <<p, f>>)) = <<f>>
         /\ <<f>> \in Seq(Frame)
<1> DEFINE o == Append(<< >>, <<p, f>>)
<1>1. o = << <<p, f>> >> /\ DOMAIN o = {1} /\ o[1] = <<p, f>>
  OBVIOUS
<1> DEFINE q == <<f>>
<1>2. q = [i \in {1} |-> f]
  OBVIOUS
<1>3. q \in Seq(Frame)
  OBVIOUS
<1> HIDE DEF o, q
<1>4. FramesOf(o) = [i \in {1} |-> f]
  BY <1>1 DEF FramesOf
<1>5. QED
  BY <1>2, <1>3, <1>4 DEF o, q

LEMMA FramesOfMany ==
  ASSUME NEW n \in Nat, NEW p, NEW w \in [1..n -> Frame]
  PROVE  FramesOf(<< >> \o [i \in 1..n |-> <<p, w[i]>>]) = w /\ w \in Seq(Frame)
<1> DEFINE s == [i \in 1..n |-> <<p, w[i]>>]
           Y == {<<p, f>> : f \in Frame}
<1>1. s \in Seq(Y) /\ DOMAIN s = 1..n /\ \A i \in 1..n : s[i] = <<p, w[i]>>
  OBVIOUS
<1> HIDE DEF s, Y
<1>2. << >> \o s = s
  BY <1>1
<1>3. FramesOf(s) = [i \in 1..n |-> w[i]]
  <2>1. \A i \in 1..n : s[i][2] = w[i]
    BY <1>1
  <2>2. QED
    BY <1>1, <2>1 DEF FramesOf
<1>4. w = [i \in 1..n |-> w[i]] /\ w \in Seq(Frame)
  OBVIOUS
<1>5. QED
  BY <1>2, <1>3, <1>4 DEF s

LEMMA FramesOfLast ==
  ASSUME NEW o \in Out, NEW p \in {TQ_PRIO_0_HI, TQ_PRIO_1_LO}, NEW f \in Frame
  PROVE  /\ FramesOf(Append(o, <<p, f>>)) = FramesOf(o) \o <<f>>
         /\ FramesOf(o) \in Seq(Frame)
         /\ Append(o, <<p, f>>) \in Out
<1> DEFINE Y == {TQ_PRIO_0_HI, TQ_PRIO_1_LO} \X Frame
           e == <<p, f>>
           r == Append(o, e)
           q == FramesOf(o)
           n == Len(o)
           h == <<f>>
<1>0. o \in Seq(Y)
  BY DEF Out
<1>1. e \in Y /\ e[2] = f
  OBVIOUS
<1>1a. \A y \in Y : y[2] \in Frame
  OBVIOUS
<1>1b. h \in Seq(Frame) /\ Len(h) = 1 /\ h[1] = f
  OBVIOUS
<1> HIDE DEF Y, e, h
<1>2. /\ n \in Nat /\ DOMAIN o = 1..n /\ \A i \in 1..n : o[i] \in Y
      /\ r \in Seq(Y) /\ DOMAIN r = 1..(n + 1)
      /\ \A i \in 1..n : r[i] = o[i]
      /\ r[n + 1] = e
  BY <1>0, <1>1
<1> HIDE DEF n, r
<1>3. q = [i \in 1..n |-> o[i][2]]
  BY <1>2 DEF FramesOf
<1>4. q \in [1..n -> Frame]
  BY <1>1a, <1>2, <1>3
<1>5. q \in Seq(Frame) /\ Len(q) = n /\ DOMAIN q = 1..n
  BY <1>2, <1>4
<1>6. \A i \in 1..n : q[i] = o[i][2]
  BY <1>3
<1> HIDE DEF q
<1> DEFINE c == q \o h
<1>7. /\ c = [i \in 1..(n + 1) |-> c[i]]
      /\ \A i \in 1..(n + 1) : c[i] = IF i <= n THEN q[i] ELSE h[i - n]
  <2>1. /\ c \in Seq(Frame) /\ Len(c) = n + 1
        /\ \A i \in 1..(n + 1) : c[i] = IF i <= n THEN q[i] ELSE h[i - n]
    <3>1. q \in Seq(Frame) /\ h \in Seq(Frame)
      BY <1>1b, <1>5
    <3>2. /\ c \in Seq(Frame) /\ Len(c) = Len(q) + Len(h)
          /\ \A i \in 1..(Len(q) + Len(h)) : c[i] = IF i <= Len(q) THEN q[i] ELSE h[i - Len(q)]
      BY <3>1
    <3>3. QED
      BY <1>1b, <1>5, <3>2
  <2> HIDE DEF c
  <2>2. QED
    BY <2>1
<1> HIDE DEF c
<1>8. \A i \in 1..(n + 1) : c[i] = r[i][2]
  <2> TAKE i \in 1..(n + 1)
  <2>1. (i \in 1..n /\ i <= n) \/ (i = n + 1 /\ i - n = 1 /\ ~(i <= n))
    BY <1>2
  <2>2. QED
    BY <1>1, <1>1b, <1>2, <1>6, <1>7, <2>1
<1>9. FramesOf(r) = [i \in 1..(n + 1) |-> r[i][2]]
  BY <1>2 DEF FramesOf
<1>10. FramesOf(r) = q \o h
  BY <1>7, <1>8, <1>9 DEF c
<1>11. QED
  BY <1>2, <1>5, <1>10 DEF q, r, e, h, Y, Out

-----------------------------------------------------------------------------
(* The two ends, and what a call of the sender does to it.                 *)

(* A link between two calls.                                               *)
Idle(S) == LinkInv(S) /\ Rec(S) /\ S.out = << >> /\ S.up = << >>

(* The sender never hears an I frame, the receiver has nothing to send.    *)
Sender(S) ==
  /\ Idle(S) /\ S.vr = 0 /\ ~S.peer_receiver_busy /\ S.state \in {0, 1, 3, 4}
Receiver(S) ==
  /\ Idle(S) /\ S.va = 0 /\ S.vs = 0 /\ S.i_frame_queue = << >> /\ ~S.peer_receiver_busy
  /\ S.state \in {0, 3, 4}

(* The frames A puts in its queue, and those of B.                         *)
FromSender(f) ==
  /\ f \in Frame /\ f.type \in {"I", "RR", "SABM", "DM", "null"}
  /\ f.nr = 0 /\ (f.type = "I" => f.pf = 0)
FromReceiver(f) ==
  /\ f \in Frame /\ f.type \in {"RR", "SREJ", "UA", "DM", "null"} /\ f.more = << >>

(* The calls that leave V(A), V(S) and the store alone.                    *)
SameWindow(S, T) == T.va = S.va /\ T.vs = S.vs /\ T.txdata_by_ns = S.txdata_by_ns

(* What is still outstanding is kept as it was.                            *)
KeepsSent(S, T) ==
  \A x \in Number : Ahead(T.va, x) < Outstanding(T) => T.txdata_by_ns[x] = S.txdata_by_ns[x]

(* What both ends of a call have in common.                                *)
SenderAfter(T, w) ==
  /\ Rec(T) /\ LinkInv(T) /\ T.vr = 0 /\ ~T.peer_receiver_busy /\ T.state \in {0, 1, 3, 4}
  /\ w = FramesOf(T.out) /\ w \in Seq(Frame) /\ \A f \in In(w) : FromSender(f)

(* The calls of the sender.                                                *)
Pauses(S, T, w) ==
  /\ SenderAfter(T, w) /\ SameWindow(S, T) /\ T.i_frame_queue = S.i_frame_queue
  /\ T.state \in Connected <=> S.state \in Connected
  /\ T.state = 1 <=> S.state = 1
  /\ \A f \in In(w) : f.type # "I" /\ (f.type = "SABM" => S.state = 1)
(* A gives the link up and drops what it had to send.                      *)
Closes(S, T, w) ==
  /\ SenderAfter(T, w) /\ T.state = 0 /\ T.i_frame_queue = << >>
  /\ \A f \in In(w) : f.type \notin {"I", "SABM"}
(* An acknowledgement: V(A) moves to nr.                                   *)
Acked(S, T, w, nr) ==
  /\ SenderAfter(T, w) /\ T.state \in Connected /\ T.i_frame_queue = S.i_frame_queue
  /\ T.vs = S.vs /\ T.va = nr /\ KeepsSent(S, T)
  /\ \A f \in In(w) : f.type \notin {"I", "SABM"}
(* An SREJ: the frame asked for is sent again, at most once, and V(A)      *)
(* moves if P/F is set.                                                    *)
Resent(S, T, w, f) ==
  /\ SenderAfter(T, w) /\ T.state \in Connected /\ T.i_frame_queue = S.i_frame_queue
  /\ T.vs = S.vs
  /\ T.va = (IF f.pf = 1 THEN f.nr ELSE S.va) /\ KeepsSent(S, T)
  /\ \A g \in In(w) : g.type # "SABM" /\
       (g.type = "I" => g.ns = f.nr /\ g.info = T.txdata_by_ns[f.nr])
  /\ \A g, h : Precedes(w, g, h) => ~(g.type = "I" /\ h.type = "I")
(* A UA: the link is connected, with its numbers reset.                    *)
Opens(S, T, w) ==
  /\ SenderAfter(T, w) /\ T.state \in Connected /\ T.i_frame_queue = S.i_frame_queue
  /\ T.vs = 0 /\ T.va = 0
  /\ \A f \in In(w) : f.type \notin {"I", "SABM"}
(* A new attempt to connect.                                               *)
Reopens(S, T, w) ==
  /\ SenderAfter(T, w) /\ T.state = 1 /\ T.i_frame_queue = S.i_frame_queue
  /\ \A f \in In(w) : f.type # "I"

(* A frame that is heard differs from the one sent in the C bits only.     *)
LEMMA HeardFrame ==
  ASSUME NEW f \in Frame
  PROVE  /\ Received(f) \in Frame
         /\ Received(f).type = f.type /\ Received(f).pf = f.pf /\ Received(f).nr = f.nr
         /\ Received(f).ns = f.ns /\ Received(f).info = f.info /\ Received(f).more = f.more
         /\ Received(f).cr = "cr_11"
  BY DEF Received, Frame, CmdRes

(* What the handlers are for the frames that are heard.                    *)
LEMMA DispatchIs ==
  ASSUME NEW S, NEW f \in Frame
  PROVE  /\ f.type = "I" => Dispatch(S, Received(f)) = i_frame(S, "cr_11", f.pf, f.nr, f.ns, f.info)
         /\ f.type = "RR" => Dispatch(S, Received(f)) = rr_rnr_frame(S, TRUE, "cr_11", f.pf, f.nr)
         /\ f.type = "SREJ" => Dispatch(S, Received(f)) = srej_frame(S, f.pf, f.nr, f.more)
         /\ f.type = "SABM" => Dispatch(S, Received(f)) = sabm_frame(S, f.pf)
         /\ f.type = "UA" => Dispatch(S, Received(f)) = ua_frame(S, f.pf)
         /\ f.type = "DM" => Dispatch(S, Received(f)) = dm_frame(S, f.pf)
<1> DEFINE g == Received(f)
<1>1. /\ g.type = f.type /\ g.pf = f.pf /\ g.nr = f.nr
      /\ g.ns = f.ns /\ g.info = f.info /\ g.more = f.more /\ g.cr = "cr_11"
  BY HeardFrame
<1> HIDE DEF g
<1>2. f.type = "I" => Dispatch(S, g) = i_frame(S, "cr_11", f.pf, f.nr, f.ns, f.info)
  BY <1>1 DEF Dispatch
<1>3. f.type = "RR" => Dispatch(S, g) = rr_rnr_frame(S, TRUE, "cr_11", f.pf, f.nr)
  BY <1>1 DEF Dispatch
<1>4. f.type = "SREJ" => Dispatch(S, g) = srej_frame(S, f.pf, f.nr, f.more)
  BY <1>1 DEF Dispatch
<1>5. f.type = "SABM" => Dispatch(S, g) = sabm_frame(S, f.pf)
  BY <1>1 DEF Dispatch
<1>6. f.type = "UA" => Dispatch(S, g) = ua_frame(S, f.pf)
  BY <1>1 DEF Dispatch
<1>7. f.type = "DM" => Dispatch(S, g) = dm_frame(S, f.pf)
  BY <1>1 DEF Dispatch
<1>8. QED
  BY <1>2, <1>3, <1>4, <1>5, <1>6, <1>7 DEF g

(* The frames that are built.                                              *)
LEMMA Built ==
  /\ NullFrame \in Frame /\ NullFrame.type = "null" /\ FromSender(NullFrame)
  /\ FromReceiver(NullFrame)
  /\ \A cr \in CmdRes, pf \in {0, 1} :
       LET f == ax25_u_frame(cr, "SABM", pf) IN f.type = "SABM" /\ FromSender(f)
  /\ \A cr \in CmdRes, pf \in {0, 1} :
       LET f == ax25_u_frame(cr, "DM", pf) IN f.type = "DM" /\ FromSender(f) /\ FromReceiver(f)
  /\ \A cr \in CmdRes, pf \in {0, 1} :
       LET f == ax25_u_frame(cr, "UA", pf) IN f.type = "UA" /\ FromReceiver(f)
  /\ \A cr \in CmdRes, pf \in {0, 1} :
       LET f == ax25_s_frame(cr, "RR", 0, pf) IN f.type = "RR" /\ FromSender(f)
  /\ \A cr \in CmdRes, type \in {"RR", "SREJ"}, nr \in Number, pf \in {0, 1} :
       LET f == ax25_s_frame(cr, type, nr, pf) IN
       f.type = type /\ f.nr = nr /\ f.pf = pf /\ FromReceiver(f)
  /\ \A ns \in Number, info \in Info :
       LET f == ax25_i_frame(0, ns, info) IN
       f.type = "I" /\ f.ns = ns /\ f.info = info /\ FromSender(f)
<1>1. 0 \in Number /\ << >> \in Seq(Number)
  BY LinkAssumption DEF Number
<1>2. \A cr \in CmdRes, pf \in {0, 1}, type \in {"SABM", "DM", "UA", "null"} :
        LET f == ax25_u_frame(cr, type, pf) IN
        f \in Frame /\ f.type = type /\ f.nr = 0 /\ f.more = << >>
  BY <1>1 DEF ax25_u_frame, Frame, UFrames, SFrames
<1>3. \A cr \in CmdRes, type \in {"RR", "SREJ"}, nr \in Number, pf \in {0, 1} :
       LET f == ax25_s_frame(cr, type, nr, pf) IN
       f \in Frame /\ f.type = type /\ f.nr = nr /\ f.pf = pf /\ f.more = << >>
  BY <1>1 DEF ax25_s_frame, Frame, UFrames, SFrames
<1>4. \A ns \in Number, info \in Info :
       LET f == ax25_i_frame(0, ns, info) IN
       f \in Frame /\ f.type = "I" /\ f.nr = 0 /\ f.pf = 0 /\ f.ns = ns /\ f.info = info
  BY <1>1 DEF ax25_i_frame, Frame, CmdRes
<1>5. "cr_00" \in CmdRes
  BY DEF CmdRes
<1>6. QED
  BY <1>1, <1>2, <1>3, <1>4, <1>5 DEF NullFrame, FromSender, FromReceiver

-----------------------------------------------------------------------------
(* The sender hears an RR.                                                 *)

(* SET_VA of what is kept.                                                 *)
Freed(tx, n) ==
  [x \in Number |->
     IF \A y \in Number : Ahead(y, n - 1) <= Ahead(x, n - 1) => tx[y] # NULL
     THEN NULL ELSE tx[x]]

(* SET_VA in one expression.                                               *)
LEMMA SetVaIs ==
  ASSUME NEW S, NEW n
  PROVE  SET_VA(S, n) = [S EXCEPT !.va = n, !.txdata_by_ns = Freed(S.txdata_by_ns, n)]
  BY DEF SET_VA, Freed

(* It frees nothing that is still outstanding.                             *)
LEMMA FreedKeeps ==
  ASSUME NEW S, NEW T, LinkInv(T), NEW n,
         T.txdata_by_ns \in {S.txdata_by_ns, Freed(S.txdata_by_ns, n)}
  PROVE  KeepsSent(S, T)
<1>1. \A x \in Number : Ahead(T.va, x) < Outstanding(T) => T.txdata_by_ns[x] # NULL
  BY DEF LinkInv, Sound, WindowOK
<1>2. \A x \in Number : Freed(S.txdata_by_ns, n)[x] \in {NULL, S.txdata_by_ns[x]}
  BY DEF Freed
<1>3. QED
  BY <1>1, <1>2 DEF KeepsSent

(* A frame more goes into the queue.                                       *)
LEMMA OneMore ==
  ASSUME NEW T, Rec(T), T.out \in Out, NEW f \in Frame,
         NEW p \in {TQ_PRIO_0_HI, TQ_PRIO_1_LO}
  PROVE  LET U == lm_data_request(T, p, f)
             w == FramesOf(T.out)
             v == FramesOf(U.out)
         IN /\ Rec(U) /\ U = [T EXCEPT !.out = U.out] /\ U.out \in Out
            /\ w \in Seq(Frame) /\ v \in Seq(Frame) /\ v = w \o <<f>>
            /\ \A g \in In(v) : g \in In(w) \/ g = f
            /\ \A g, h : Precedes(v, g, h) => Precedes(w, g, h) \/ h = f
<1> DEFINE o == Append(T.out, <<p, f>>)
           w == FramesOf(T.out)
           v == FramesOf(o)
           U == lm_data_request(T, p, f)
           q == <<f>>
<1>1. U = [T EXCEPT !.out = o]
  BY DEF lm_data_request
<1>2. o \in Out /\ w \in Seq(Frame) /\ v = w \o q
  BY FramesOfLast
<1>3. q \in Seq(Frame)
  OBVIOUS
<1>3a. In(q) = {f} /\ \A g, h : ~Precedes(q, g, h)
  BY OneFrame
<1> HIDE DEF o, w, q
<1>4. Rec(U) /\ U.out = o
  BY <1>1 DEF Rec, Fields
<1> HIDE DEF U
<1>5. /\ v \in Seq(Frame)
      /\ \A g \in In(v) : g \in In(w) \/ g = f
      /\ \A g, h : Precedes(v, g, h) => Precedes(w, g, h) \/ h = f
  BY <1>2, <1>3, <1>3a, JoinQueue
<1>6. QED
  BY <1>1, <1>2, <1>4, <1>5 DEF U, w, q

(* A call that sent nothing.                                               *)
LEMMA NothingOut ==
  ASSUME NEW T, T.out = << >>
  PROVE  T.out \in Out /\ FramesOf(T.out) = << >> /\ In(FramesOf(T.out)) = {}
         /\ \A g, h : ~Precedes(FramesOf(T.out), g, h)
<1>1. << >> \in Out
  BY DEF Out
<1>2. QED
  BY <1>1, FramesOfNone, EmptyQueue

(* After the frame is handled the channel may be asked for.                *)
LEMMA IndicationAsks ==
  ASSUME NEW S, NEW f, NEW T, T = Dispatch(S, f), Rec(T), T.out \in Out
  PROVE  LET U == lm_data_indication(S, f)
             w == FramesOf(T.out)
             v == FramesOf(U.out)
         IN /\ Rec(U) /\ U.out \in Out /\ U \in {T, [T EXCEPT !.out = U.out]}
            /\ w \in Seq(Frame) /\ v \in Seq(Frame)
            /\ \A g \in In(v) : g \in In(w) \/ g = NullFrame
            /\ \A g, h : Precedes(v, g, h) => Precedes(w, g, h) \/ h = NullFrame
            /\ (T.state \notin Connected \/ ToSend(T) = 0) => U = T
<1> DEFINE U == lm_data_indication(S, f)
           V == lm_seize_request(T)
           w == FramesOf(T.out)
           v == FramesOf(U.out)
<1>1. U = IF T.state \in Connected /\ ToSend(T) # 0 THEN V ELSE T
  BY DEF lm_data_indication
<1>2. V = lm_data_request(T, TQ_PRIO_1_LO, NullFrame)
  BY DEF lm_seize_request, SendLow
<1>3. /\ Rec(V) /\ V.out \in Out /\ V = [T EXCEPT !.out = V.out]
      /\ w \in Seq(Frame) /\ FramesOf(V.out) \in Seq(Frame)
      /\ \A g \in In(FramesOf(V.out)) : g \in In(w) \/ g = NullFrame
      /\ \A g, h : Precedes(FramesOf(V.out), g, h) => Precedes(w, g, h) \/ h = NullFrame
  <2>1. TQ_PRIO_1_LO \in {TQ_PRIO_0_HI, TQ_PRIO_1_LO} /\ NullFrame \in Frame
    BY Built
  <2> HIDE DEF V
  <2>2. QED
    BY <1>2, <2>1, OneMore
<1> HIDE DEF V, U
<1>4. CASE U = V
  BY <1>1, <1>3, <1>4 DEF U
<1>5. CASE U = T
  BY <1>3, <1>5 DEF U
<1>6. QED
  BY <1>1, <1>4, <1>5

(* A link that has nothing under way.                                      *)
Quiescent(S) == Rec(S) /\ S.out = << >>

(* What the sender does on an acknowledgement.                             *)
AckFrees(S, T, nr) ==
  T.va = nr /\ T.txdata_by_ns \in {S.txdata_by_ns, Freed(S.txdata_by_ns, nr)}

(* V(A) is the number, what it acknowledges is freed, and nothing is sent. *)
AckDone(S, T, nr) ==
  /\ Rec(T) /\ T.out = << >> /\ ~T.peer_receiver_busy /\ T.state = S.state
  /\ T.vr = S.vr /\ T.rxdata_by_ns = S.rxdata_by_ns /\ T.up = S.up
  /\ T.i_frame_queue = S.i_frame_queue /\ T.vs = S.vs /\ AckFrees(S, T, nr)

(* rr_rnr_frame on a number of the window does this.                       *)
LEMMA AckHandled ==
  ASSUME NEW S, Quiescent(S), S.state \in Connected, NEW pf, NEW nr \in Number, is_good_nr(S, nr)
  PROVE  AckDone(S, rr_rnr_frame(S, TRUE, "cr_11", pf, nr), nr)
<1> DEFINE B == [S EXCEPT !.peer_receiver_busy = FALSE]
           T == rr_rnr_frame(S, TRUE, "cr_11", pf, nr)
           t == Freed(S.txdata_by_ns, nr)
           V == SET_VA(B, nr)
<1>1. /\ Rec(B) /\ B.out = << >> /\ B.vr = S.vr /\ B.rxdata_by_ns = S.rxdata_by_ns
      /\ B.up = S.up /\ B.peer_receiver_busy = FALSE
      /\ B.state = S.state /\ B.va = S.va /\ B.vs = S.vs /\ B.txdata_by_ns = S.txdata_by_ns
      /\ B.i_frame_queue = S.i_frame_queue
  BY DEF Quiescent, Rec, Fields
<1>2. check_need_for_response(B, "cr_11", pf) = B
  BY DEF check_need_for_response
<1>3. (~TRUE) = FALSE
  OBVIOUS
<1>4. V = [B EXCEPT !.va = nr, !.txdata_by_ns = t]
  BY <1>1, SetVaIs
<1>5. T \in {check_i_frame_ackd(B, nr), V}
  BY <1>2, <1>3, StateCases DEF rr_rnr_frame, Connected
<1> HIDE DEF B, V, t
<1>6. check_i_frame_ackd(B, nr) \in {start_t3(stop_t1(V)), B, start_t1(V)}
  BY <1>1 DEF check_i_frame_ackd, V
<1>6a. check_i_frame_ackd(B, nr) = B => nr = S.va \/ B = start_t3(stop_t1(V)) \/ B = start_t1(V)
  BY <1>1 DEF check_i_frame_ackd, V
<1>7. /\ Rec(V) /\ V.out = << >> /\ V.vr = S.vr /\ V.rxdata_by_ns = S.rxdata_by_ns
      /\ V.up = S.up /\ V.peer_receiver_busy = FALSE
      /\ V.state = S.state /\ V.va = nr /\ V.vs = S.vs /\ V.txdata_by_ns = t
      /\ V.i_frame_queue = S.i_frame_queue
  BY <1>1, <1>4 DEF Rec, Fields
<1> DEFINE C == start_t3(stop_t1(V))
           D == start_t1(V)
<1>8. /\ Rec(C) /\ C.out = << >> /\ C.vr = S.vr /\ C.rxdata_by_ns = S.rxdata_by_ns
      /\ C.up = S.up /\ C.peer_receiver_busy = FALSE
      /\ C.state = S.state /\ C.va = nr /\ C.vs = S.vs /\ C.txdata_by_ns = t
      /\ C.i_frame_queue = S.i_frame_queue
  BY <1>7 DEF Rec, Fields, start_t3, stop_t1, resume_t1
<1>9. /\ Rec(D) /\ D.out = << >> /\ D.vr = S.vr /\ D.rxdata_by_ns = S.rxdata_by_ns
      /\ D.up = S.up /\ D.peer_receiver_busy = FALSE
      /\ D.state = S.state /\ D.va = nr /\ D.vs = S.vs /\ D.txdata_by_ns = t
      /\ D.i_frame_queue = S.i_frame_queue
  BY <1>7 DEF Rec, Fields, start_t1
<1> HIDE DEF C, D, T
<1>10. T = V \/ T = C \/ T = D \/ (T = B /\ nr = S.va)
  BY <1>5, <1>6, <1>6a DEF C, D
<1>11. QED
  BY <1>1, <1>7, <1>8, <1>9, <1>10 DEF T, t, AckFrees, AckDone

(* The whole call for such an RR.                                          *)
LEMMA HearsAck ==
  ASSUME NEW S, Sender(S), S.state \in Connected, NEW f \in Frame, f.type = "RR",
         is_good_nr(S, f.nr)
  PROVE  LET T == lm_data_indication(S, Received(f)) IN Acked(S, T, FramesOf(T.out), f.nr)
<1> DEFINE R == rr_rnr_frame(S, TRUE, "cr_11", f.pf, f.nr)
           T == lm_data_indication(S, Received(f))
           w == FramesOf(T.out)
<1>1. R = Dispatch(S, Received(f)) /\ f.nr \in Number
  BY DispatchIs DEF Frame
<1>2. /\ Rec(R) /\ R.out = << >> /\ R.vr = 0 /\ ~R.peer_receiver_busy /\ R.state = S.state
      /\ R.i_frame_queue = S.i_frame_queue /\ R.vs = S.vs /\ R.va = f.nr
      /\ R.txdata_by_ns \in {S.txdata_by_ns, Freed(S.txdata_by_ns, f.nr)}
  <2>1. Quiescent(S) /\ S.vr = 0
    BY DEF Sender, Idle, Quiescent
  <2> HIDE DEF R
  <2>2. AckDone(S, R, f.nr)
    BY <1>1, <2>1, AckHandled DEF R
  <2>3. QED
    BY <2>1, <2>2 DEF AckDone, AckFrees
<1>3. LinkInv(T)
  BY HeardFrame, IndicationStep DEF Sender, Idle, Step
<1> HIDE DEF R
<1>4a. In(FramesOf(R.out)) = {} /\ R.out \in Out
  BY <1>2, NothingOut
<1>4. /\ Rec(T) /\ T \in {R, [R EXCEPT !.out = T.out]} /\ w \in Seq(Frame)
      /\ \A g \in In(w) : g \in In(FramesOf(R.out)) \/ g = NullFrame
  BY <1>1, <1>2, <1>4a, IndicationAsks
<1> HIDE DEF T
<1>5. /\ T.vr = 0 /\ ~T.peer_receiver_busy /\ T.state = S.state
      /\ T.i_frame_queue = S.i_frame_queue /\ T.vs = S.vs /\ T.va = f.nr
      /\ T.txdata_by_ns = R.txdata_by_ns
  BY <1>2, <1>4 DEF Rec, Fields
<1>5a. T.txdata_by_ns \in {S.txdata_by_ns, Freed(S.txdata_by_ns, f.nr)}
  BY <1>2, <1>5
<1>6. KeepsSent(S, T)
  BY <1>3, <1>5a, FreedKeeps
<1>7. \A g \in In(w) : g = NullFrame
  BY <1>4, <1>4a
<1>8. QED
  BY <1>3, <1>4, <1>5, <1>6, <1>7, Built DEF Acked, SenderAfter, Sender, T

-----------------------------------------------------------------------------
(* The sender hears an SREJ.                                               *)

(* Two links that differ in their timers, their counts and what they send. *)
Like(S, T) ==
  /\ T.state = S.state /\ T.va = S.va /\ T.vs = S.vs /\ T.vr = S.vr
  /\ T.txdata_by_ns = S.txdata_by_ns /\ T.rxdata_by_ns = S.rxdata_by_ns
  /\ T.i_frame_queue = S.i_frame_queue /\ T.peer_receiver_busy = S.peer_receiver_busy
  /\ T.up = S.up

(* lm_data_indication adds at most a null frame to what the handler did.   *)
LEMMA IndicationLike ==
  ASSUME NEW S, NEW f, NEW R, R = Dispatch(S, f), Rec(R), R.out \in Out
  PROVE  LET T == lm_data_indication(S, f)
             w == FramesOf(T.out)
         IN /\ Rec(T) /\ Like(R, T) /\ T.out \in Out /\ w \in Seq(Frame)
            /\ \A g \in In(w) : g \in In(FramesOf(R.out)) \/ g = NullFrame
            /\ \A g, h : Precedes(w, g, h) => Precedes(FramesOf(R.out), g, h) \/ h = NullFrame
            /\ (R.state \notin Connected \/ ToSend(R) = 0) => T = R
<1> DEFINE T == lm_data_indication(S, f)
           w == FramesOf(T.out)
<1>1. /\ Rec(T) /\ T.out \in Out /\ T \in {R, [R EXCEPT !.out = T.out]} /\ w \in Seq(Frame)
      /\ \A g \in In(w) : g \in In(FramesOf(R.out)) \/ g = NullFrame
      /\ \A g, h : Precedes(w, g, h) => Precedes(FramesOf(R.out), g, h) \/ h = NullFrame
      /\ (R.state \notin Connected \/ ToSend(R) = 0) => T = R
  BY IndicationAsks
<1> HIDE DEF T
<1>2. Like(R, T)
  BY <1>1 DEF Like, Rec, Fields
<1>3. QED
  BY <1>1, <1>2 DEF T

(* One frame sent again.                                                   *)
LEMMA ResendOne ==
  ASSUME NEW X, Rec(X), X.out = << >>, X.vr = 0, NEW nr \in Number,
         X.txdata_by_ns[nr] \in Info \cup {NULL}
  PROVE  LET T == resend_for_srej(X, <<nr>>)
             w == FramesOf(T.out)
         IN /\ Rec(T) /\ Like(X, T) /\ T.out \in Out
            /\ \A g \in In(w) : g = ax25_i_frame(0, nr, X.txdata_by_ns[nr])
                                /\ X.txdata_by_ns[nr] # NULL
            /\ \A g, h : ~Precedes(w, g, h)
<1> DEFINE one == <<nr>>
           g == ax25_i_frame(0, nr, X.txdata_by_ns[nr])
           T == resend_for_srej(X, one)
           R == Resend(X, one)
           A == [R EXCEPT !.acknowledge_pending = FALSE]
           o == << >> \o [i \in 1..Len(one) |-> <<TQ_PRIO_1_LO, ax25_i_frame(X.vr, one[i], X.txdata_by_ns[one[i]])>>]
<1>1. CASE X.txdata_by_ns[nr] = NULL
  <2>1. \A i \in DOMAIN one : X.txdata_by_ns[one[i]] = NULL
    BY <1>1
  <2>2. T = X
    BY <2>1 DEF resend_for_srej
  <2>3. QED
    BY <2>2, NothingOut DEF Like
<1>2. CASE X.txdata_by_ns[nr] # NULL
  <2>1. ~\A i \in DOMAIN one : X.txdata_by_ns[one[i]] = NULL
    BY <1>2
  <2>2. T = start_t1(stop_t3(A))
    BY <2>1 DEF resend_for_srej
  <2>3. R = [X EXCEPT !.out = o]
    BY <1>2, KeptOne DEF Resend
  <2>4. o = Append(<< >>, <<TQ_PRIO_1_LO, g>>)
    OBVIOUS
  <2>5. g \in Frame
    BY <1>2, Built DEF FromSender
  <2> HIDE DEF o, R, T, A, g
  <2>6. Rec(R) /\ Like(X, R) /\ R.out = o
    BY <2>3 DEF Rec, Fields, Like
  <2>7. Rec(A) /\ Like(X, A) /\ A.out = o
    BY <2>6 DEF Rec, Fields, Like, A
  <2>8. Rec(T) /\ Like(X, T) /\ T.out = o
    BY <2>2, <2>7 DEF Rec, Fields, Like, start_t1, stop_t3
  <2>9. FramesOf(o) = <<g>> /\ o \in Out
    <3>1. << >> \in Out
      BY DEF Out
    <3>2. QED
      BY <3>1, <2>4, <2>5, FramesOfOne, FramesOfLast
  <2>10. In(FramesOf(T.out)) = {g} /\ \A a, b : ~Precedes(FramesOf(T.out), a, b)
    BY <2>8, <2>9, OneFrame
  <2>11. QED
    BY <1>2, <2>8, <2>9, <2>10 DEF g, T
<1>3. QED
  BY <1>1, <1>2

(* srej_frame on a number of the window.                                   *)
LEMMA SrejHandled ==
  ASSUME NEW S, Sender(S), S.state \in Connected, NEW pf \in {0, 1}, NEW nr \in Number,
         is_good_nr(S, nr)
  PROVE  LET T == srej_frame(S, pf, nr, << >>)
             w == FramesOf(T.out)
         IN /\ Rec(T) /\ T.out \in Out /\ T.vr = 0 /\ ~T.peer_receiver_busy
            /\ T.state \in Connected
            /\ T.i_frame_queue = S.i_frame_queue /\ T.vs = S.vs
            /\ T.va = (IF pf = 1 THEN nr ELSE S.va)
            /\ T.txdata_by_ns \in {S.txdata_by_ns, Freed(S.txdata_by_ns, nr)}
            /\ \A g \in In(w) : g = ax25_i_frame(0, nr, T.txdata_by_ns[nr])
                                /\ T.txdata_by_ns[nr] # NULL
            /\ \A g, h : ~Precedes(w, g, h)
<1> DEFINE B == stop_t1([S EXCEPT !.peer_receiver_busy = FALSE])
           t == Freed(S.txdata_by_ns, nr)
           U == IF pf = 1 THEN SET_VA(B, nr) ELSE B
           T == srej_frame(S, pf, nr, << >>)
           w == FramesOf(T.out)
           C == CaughtUp(U)
           D == start_t3(U)
           Good(V) == /\ Rec(V) /\ V.out = << >> /\ V.vr = 0 /\ V.peer_receiver_busy = FALSE
                      /\ V.state \in Connected
                      /\ V.i_frame_queue = S.i_frame_queue /\ V.vs = S.vs
                      /\ V.va = (IF pf = 1 THEN nr ELSE S.va)
                      /\ V.txdata_by_ns \in {S.txdata_by_ns, t}
<1>1. /\ Rec(B) /\ B.out = << >> /\ B.vr = 0 /\ B.peer_receiver_busy = FALSE
      /\ B.state = S.state /\ B.va = S.va /\ B.vs = S.vs /\ B.txdata_by_ns = S.txdata_by_ns
      /\ B.i_frame_queue = S.i_frame_queue
  BY DEF Sender, Idle, Rec, Fields, stop_t1, resume_t1
<1>1a. SET_VA(B, nr) = [B EXCEPT !.va = nr, !.txdata_by_ns = t]
  BY <1>1, SetVaIs
<1>1b. <<nr>> \o << >> = <<nr>>
  OBVIOUS
<1>2. T \in {resend_for_srej(D, <<nr>>), C, resend_for_srej(U, <<nr>>)}
  BY <1>1b, StateCases DEF srej_frame, Connected
<1> HIDE DEF B, t, T
<1>3. Good(U) /\ U.state = S.state
  BY <1>1, <1>1a DEF Rec, Fields
<1> HIDE DEF U
<1>4. Good(D)
  BY <1>3 DEF Rec, Fields, start_t3
<1>5. Good(C)
  BY <1>3, StateCases DEF Rec, Fields, start_t3, CaughtUp, stop_t1, resume_t1,
     enter_new_state, Connected
<1>6. \A x \in Number : S.txdata_by_ns[x] \in Info \cup {NULL} /\ t[x] \in Info \cup {NULL}
  BY LinkTypes DEF Sender, Idle, LinkInv, Sound, t, Freed
<1> HIDE DEF C, D
<1>7. ASSUME NEW V, Good(V), T = resend_for_srej(V, <<nr>>)
      PROVE  /\ Rec(T) /\ Like(V, T) /\ T.out \in Out
             /\ \A g \in In(w) : g = ax25_i_frame(0, nr, V.txdata_by_ns[nr])
                                 /\ V.txdata_by_ns[nr] # NULL
             /\ \A g, h : ~Precedes(w, g, h)
  <2>1. V.txdata_by_ns[nr] \in Info \cup {NULL}
    BY <1>6, <1>7
  <2>2. QED
    BY <1>7, <2>1, ResendOne
<1>8. CASE T = C
  <2>1. T.out \in Out /\ In(w) = {} /\ \A g, h : ~Precedes(w, g, h)
    BY <1>5, <1>8, NothingOut
  <2>2. QED
    BY <1>5, <1>8, <2>1 DEF t, T
<1>9. ASSUME NEW V, Good(V), T = resend_for_srej(V, <<nr>>) PROVE
            /\ Rec(T) /\ T.out \in Out /\ T.vr = 0 /\ ~T.peer_receiver_busy
            /\ T.state \in Connected
            /\ T.i_frame_queue = S.i_frame_queue /\ T.vs = S.vs
            /\ T.va = (IF pf = 1 THEN nr ELSE S.va)
            /\ T.txdata_by_ns \in {S.txdata_by_ns, t}
            /\ \A g \in In(w) : g = ax25_i_frame(0, nr, T.txdata_by_ns[nr])
                                /\ T.txdata_by_ns[nr] # NULL
            /\ \A g, h : ~Precedes(w, g, h)
  <2>1. /\ Rec(T) /\ Like(V, T) /\ T.out \in Out
        /\ \A g \in In(w) : g = ax25_i_frame(0, nr, V.txdata_by_ns[nr])
                                 /\ V.txdata_by_ns[nr] # NULL
        /\ \A g, h : ~Precedes(w, g, h)
    BY <1>7, <1>9
  <2>2. QED
    BY <2>1, <1>9 DEF Like
<1>10. QED
  BY <1>2, <1>3, <1>4, <1>8, <1>9 DEF t, T

(* The whole call for such an SREJ.                                        *)
LEMMA HearsSrej ==
  ASSUME NEW S, Sender(S), S.state \in Connected, NEW f \in Frame, f.type = "SREJ",
         f.more = << >>, is_good_nr(S, f.nr)
  PROVE  LET T == lm_data_indication(S, Received(f)) IN Resent(S, T, FramesOf(T.out), f)
<1> DEFINE R == srej_frame(S, f.pf, f.nr, << >>)
           T == lm_data_indication(S, Received(f))
           w == FramesOf(T.out)
           v == FramesOf(R.out)
<1>1. R = Dispatch(S, Received(f)) /\ f.nr \in Number /\ f.pf \in {0, 1}
  BY DispatchIs DEF Frame
<1>2. /\ Rec(R) /\ R.out \in Out /\ R.vr = 0 /\ ~R.peer_receiver_busy
      /\ R.state \in Connected
      /\ R.i_frame_queue = S.i_frame_queue /\ R.vs = S.vs
      /\ R.va = (IF f.pf = 1 THEN f.nr ELSE S.va)
      /\ R.txdata_by_ns \in {S.txdata_by_ns, Freed(S.txdata_by_ns, f.nr)}
      /\ \A g \in In(v) : g = ax25_i_frame(0, f.nr, R.txdata_by_ns[f.nr])
                          /\ R.txdata_by_ns[f.nr] # NULL
      /\ \A g, h : ~Precedes(v, g, h)
  BY <1>1, SrejHandled
<1>3. LinkInv(T)
  BY HeardFrame, IndicationStep DEF Sender, Idle, Step
<1> HIDE DEF R
<1>4. /\ Rec(T) /\ Like(R, T) /\ w \in Seq(Frame)
      /\ \A g \in In(w) : g \in In(v) \/ g = NullFrame
      /\ \A g, h : Precedes(w, g, h) => Precedes(v, g, h) \/ h = NullFrame
  BY <1>1, <1>2, IndicationLike
<1> HIDE DEF T
<1>5. /\ T.vr = 0 /\ ~T.peer_receiver_busy /\ T.state \in Connected
      /\ T.i_frame_queue = S.i_frame_queue /\ T.vs = S.vs
      /\ T.va = (IF f.pf = 1 THEN f.nr ELSE S.va)
      /\ T.txdata_by_ns = R.txdata_by_ns
  BY <1>2, <1>4 DEF Like
<1>5a. T.txdata_by_ns \in {S.txdata_by_ns, Freed(S.txdata_by_ns, f.nr)}
  BY <1>2, <1>5
<1>6. KeepsSent(S, T)
  BY <1>3, <1>5a, FreedKeeps
<1>6a. T.txdata_by_ns[f.nr] # NULL => T.txdata_by_ns[f.nr] \in Info
  BY <1>1, <1>3, LinkTypes DEF LinkInv, Sound
<1> HIDE DEF w, v
<1>7. \A g \in In(w) : g = NullFrame \/
        (g = ax25_i_frame(0, f.nr, T.txdata_by_ns[f.nr]) /\ T.txdata_by_ns[f.nr] \in Info)
  BY <1>2, <1>4, <1>5, <1>6a
<1>8. \A g \in In(w) : FromSender(g) /\ g.type # "SABM" /\
       (g.type = "I" => g.ns = f.nr /\ g.info = T.txdata_by_ns[f.nr])
  BY <1>1, <1>7, Built
<1>9. \A g, h : Precedes(w, g, h) => ~(g.type = "I" /\ h.type = "I")
  BY <1>2, <1>4, Built
<1>9a. T.state \in {0, 1, 3, 4}
  BY <1>5 DEF Connected, state_3_connected, state_4_timer_recovery
<1>10. QED
  BY <1>3, <1>4, <1>5, <1>6, <1>8, <1>9, <1>9a DEF Resent, SenderAfter, T, w

-----------------------------------------------------------------------------
(* The sender hears a UA or a DM; its timers.                              *)

(* A call that sent one frame.                                             *)
LEMMA OneOut ==
  ASSUME NEW T, NEW f \in Frame, T.out = Append(<< >>, <<TQ_PRIO_1_LO, f>>)
  PROVE  /\ T.out \in Out /\ FramesOf(T.out) \in Seq(Frame)
         /\ In(FramesOf(T.out)) = {f}
         /\ \A g, h : ~Precedes(FramesOf(T.out), g, h)
<1>1. << >> \in Out
  BY DEF Out
<1>2. Append(<< >>, <<TQ_PRIO_1_LO, f>>) \in Out
  BY <1>1, FramesOfLast
<1>3. FramesOf(T.out) = <<f>> /\ FramesOf(T.out) \in Seq(Frame)
  BY FramesOfOne
<1>4. QED
  BY <1>2, <1>3, OneFrame

(* A call that leaves the window and the queue.                            *)
Leaves(S, T) ==
  /\ Rec(T) /\ T.vr = S.vr /\ T.peer_receiver_busy = FALSE /\ T.i_frame_queue = S.i_frame_queue

(* nr_error_recovery: a SABM, and state 1.                                 *)
LEMMA RecoveryIs ==
  ASSUME NEW S, Rec(S), S.out = << >>
  PROVE  LET T == nr_error_recovery(S) IN
         /\ Leaves(S, T) /\ SameWindow(S, T) /\ T.state = 1 /\ T.up = S.up
         /\ T.out = Append(<< >>, <<TQ_PRIO_1_LO, ax25_u_frame("cr_cmd", "SABM", 1)>>)
<1> DEFINE e == <<TQ_PRIO_1_LO, ax25_u_frame("cr_cmd", "SABM", 1)>>
           T == nr_error_recovery(S)
           q == Append(S.out, e)
<1>2. /\ Rec(T) /\ T.out = q /\ T.state = state_1_awaiting_connection
      /\ T.vr = S.vr /\ T.peer_receiver_busy = FALSE /\ T.i_frame_queue = S.i_frame_queue
      /\ T.va = S.va /\ T.vs = S.vs /\ T.txdata_by_ns = S.txdata_by_ns /\ T.up = S.up
  BY DEF Rec, Fields, nr_error_recovery, establish_data_link, stop_t3, start_t1,
     SendLow, lm_data_request, clear_exception_conditions, enter_new_state
<1>3. QED
  BY <1>2 DEF Leaves, SameWindow, state_1_awaiting_connection

(* The states, and the C bits a frame may be read with.                    *)
LEMMA InStates ==
  /\ Connected = {3, 4} /\ state_0_disconnected = 0 /\ state_1_awaiting_connection = 1
  /\ state_2_awaiting_release = 2 /\ state_3_connected = 3 /\ state_4_timer_recovery = 4
  BY DEF Connected, state_0_disconnected, state_1_awaiting_connection,
     state_2_awaiting_release, state_3_connected, state_4_timer_recovery

LEMMA CmdResFacts ==
  {"cr_res", "cr_cmd", "cr_00", "cr_11"} = CmdRes
  BY DEF CmdRes

(* What the sender does in nr_error_recovery is a new attempt.             *)
LEMMA Reopened ==
  ASSUME NEW S, Sender(S), NEW T, LinkInv(T), T = nr_error_recovery(S)
  PROVE  Reopens(S, T, FramesOf(T.out))
<1> DEFINE f == ax25_u_frame("cr_cmd", "SABM", 1)
<1>1. /\ Leaves(S, T) /\ T.state = 1 /\ T.out = Append(<< >>, <<TQ_PRIO_1_LO, f>>)
  BY RecoveryIs DEF Sender, Idle
<1>2. f.type = "SABM" /\ FromSender(f) /\ f \in Frame
  BY Built, CmdResFacts DEF FromSender
<1> HIDE DEF f
<1>3. FramesOf(T.out) \in Seq(Frame) /\ In(FramesOf(T.out)) = {f}
  BY <1>1, <1>2, OneOut
<1>4. QED
  BY <1>1, <1>2, <1>3 DEF Reopens, SenderAfter, Leaves, Sender

(* A call that ignores a frame.                                            *)
LEMMA NothingHappens ==
  ASSUME NEW S, Sender(S)
  PROVE  Pauses(S, S, FramesOf(S.out))
<1>0. << >> \in Seq(Frame)
  OBVIOUS
<1>1. FramesOf(S.out) = << >> /\ In(FramesOf(S.out)) = {} /\ << >> \in Seq(Frame)
  BY <1>0, NothingOut DEF Sender, Idle
<1>2. QED
  BY <1>1 DEF Pauses, SenderAfter, Sender, Idle, SameWindow

(* What ua_frame does in state 1.                                          *)
LEMMA OpensIs ==
  ASSUME NEW S, Rec(S), S.out = << >>
  PROVE  LET T == CaughtUp(ResetNumbers(S)) IN
         /\ Rec(T) /\ T.vr = 0 /\ T.peer_receiver_busy = S.peer_receiver_busy
         /\ T.i_frame_queue = S.i_frame_queue
         /\ T.va = 0 /\ T.vs = 0 /\ T.state = 3 /\ T.out = << >> /\ T.up = S.up
         /\ T.rxdata_by_ns = S.rxdata_by_ns
<1> DEFINE A == [S EXCEPT !.vs = 0]
           t == Freed(A.txdata_by_ns, 0)
           B == SET_VA(A, 0)
           C == ResetNumbers(S)
           T == CaughtUp(C)
<1>1. /\ Rec(A) /\ A.out = << >> /\ A.i_frame_queue = S.i_frame_queue /\ A.vs = 0
      /\ A.peer_receiver_busy = S.peer_receiver_busy /\ A.up = S.up
      /\ A.rxdata_by_ns = S.rxdata_by_ns
  BY DEF Rec, Fields
<1>2. B = [A EXCEPT !.va = 0, !.txdata_by_ns = t]
  BY SetVaIs
<1>3. C = [B EXCEPT !.vr = 0]
  BY DEF ResetNumbers
<1> HIDE DEF A, t, B, C
<1>4. /\ Rec(C) /\ C.out = << >> /\ C.i_frame_queue = S.i_frame_queue /\ C.vs = 0 /\ C.va = 0
      /\ C.peer_receiver_busy = S.peer_receiver_busy /\ C.vr = 0 /\ C.up = S.up
      /\ C.rxdata_by_ns = S.rxdata_by_ns
  BY <1>1, <1>2, <1>3 DEF Rec, Fields
<1>5. /\ Rec(T) /\ T.vr = 0 /\ T.peer_receiver_busy = S.peer_receiver_busy
      /\ T.i_frame_queue = S.i_frame_queue
      /\ T.va = 0 /\ T.vs = 0 /\ T.state = state_3_connected /\ T.out = << >> /\ T.up = S.up
      /\ T.rxdata_by_ns = S.rxdata_by_ns
  BY <1>4 DEF Rec, Fields, CaughtUp, start_t3, stop_t1, resume_t1, enter_new_state
<1>6. QED
  BY <1>5, InStates DEF C

(* A UA is ignored, ends an attempt, or begins one.                        *)
LEMMA HearsUa ==
  ASSUME NEW S, Sender(S), NEW f \in Frame, f.type = "UA"
  PROVE  LET T == lm_data_indication(S, Received(f)) IN
         \/ S.state \notin Connected /\ Pauses(S, T, FramesOf(T.out))
         \/ S.state = 1 /\ Opens(S, T, FramesOf(T.out))
         \/ S.state \in Connected /\ Reopens(S, T, FramesOf(T.out))
<1> DEFINE R == ua_frame(S, f.pf)
           T == lm_data_indication(S, Received(f))
           w == FramesOf(T.out)
<1>1. R = Dispatch(S, Received(f))
  BY DispatchIs
<1>3. LinkInv(T)
  BY HeardFrame, IndicationStep DEF Sender, Idle, Step
<1>4. Rec(S) /\ S.out = << >> /\ S.state \in {0, 1, 3, 4} /\ S.out \in Out
  BY NothingOut DEF Sender, Idle
<1>5. CASE S.state = 0 \/ (S.state = 1 /\ f.pf # 1)
  <2>1. R = S
    BY <1>5, InStates DEF ua_frame
  <2>1a. S = Dispatch(S, Received(f)) /\ S.state \notin Connected
    BY <1>1, <1>5, <2>1, InStates
  <2>2. T = S
    BY <1>4, <2>1a, IndicationLike
  <2>3. QED
    BY <1>5, <2>2, NothingHappens, InStates
<1>6. CASE S.state = 1 /\ f.pf = 1
  <2>1. R = CaughtUp(ResetNumbers(S))
    BY <1>6, InStates DEF ua_frame
  <2>2. /\ Rec(R) /\ R.vr = 0 /\ ~R.peer_receiver_busy /\ R.i_frame_queue = S.i_frame_queue
        /\ R.va = 0 /\ R.vs = 0 /\ R.state = 3 /\ R.out = << >>
    BY <1>4, <2>1, OpensIs DEF Sender
  <2> HIDE DEF R
  <2>3. R.out \in Out /\ In(FramesOf(R.out)) = {}
    BY <2>2, NothingOut
  <2>4. /\ Rec(T) /\ Like(R, T) /\ w \in Seq(Frame)
        /\ \A g \in In(w) : g \in In(FramesOf(R.out)) \/ g = NullFrame
    BY <1>1, <2>2, <2>3, IndicationLike
  <2> HIDE DEF T
  <2>5. \A g \in In(w) : g = NullFrame
    BY <2>3, <2>4
  <2>6. T.state \in Connected /\ T.state = 3
    BY <2>2, <2>4, InStates DEF Like
  <2>7. QED
    BY <1>3, <1>6, <2>2, <2>4, <2>5, <2>6, Built DEF Opens, SenderAfter, Like, T
<1>7. CASE S.state \in Connected
  <2>1. R = nr_error_recovery(S)
    BY <1>7, InStates DEF ua_frame
  <2>2. Rec(R) /\ R.state = 1 /\ R.out \in Out
    <3>1. Leaves(S, R) /\ R.state = 1 /\ R.out = Append(<< >>, <<TQ_PRIO_1_LO, ax25_u_frame("cr_cmd", "SABM", 1)>>)
      BY <1>4, <2>1, RecoveryIs
    <3>2. ax25_u_frame("cr_cmd", "SABM", 1) \in Frame
      BY Built, CmdResFacts DEF FromSender
    <3>3. QED
      BY <3>1, <3>2, OneOut DEF Leaves
  <2> HIDE DEF R
  <2>3. T = R
    BY <1>1, <2>2, InStates, IndicationLike
  <2>4. QED
    BY <1>3, <1>7, <2>1, <2>3, Reopened
<1>8. QED
  BY <1>4, <1>5, <1>6, <1>7, InStates

(* A call that ends in state 0.                                            *)
LEMMA Closed ==
  ASSUME NEW S, Sender(S), NEW T, LinkInv(T), Rec(T), T.vr = 0, ~T.peer_receiver_busy,
         T.state = 0, T.i_frame_queue = << >>,
         \/ T.out = << >>
         \/ \E f : f.type = "DM" /\ FromSender(f) /\ T.out = Append(<< >>, <<TQ_PRIO_1_LO, f>>)
  PROVE  Closes(S, T, FramesOf(T.out))
<1>1. CASE T.out = << >>
  <2>1. FramesOf(T.out) = << >> /\ In(FramesOf(T.out)) = {} /\ << >> \in Seq(Frame)
    BY <1>1, NothingOut
  <2>2. QED
    BY <2>1 DEF Closes, SenderAfter
<1>2. ASSUME NEW f, f.type = "DM", FromSender(f), T.out = Append(<< >>, <<TQ_PRIO_1_LO, f>>)
      PROVE  Closes(S, T, FramesOf(T.out))
  <2>1. FramesOf(T.out) \in Seq(Frame) /\ In(FramesOf(T.out)) = {f}
    BY <1>2, OneOut DEF FromSender
  <2>2. QED
    BY <1>2, <2>1 DEF Closes, SenderAfter
<1>3. QED
  BY <1>1, <1>2

(* A DM is ignored or ends the link.                                       *)
LEMMA HearsDm ==
  ASSUME NEW S, Sender(S), NEW f \in Frame, f.type = "DM"
  PROVE  LET T == lm_data_indication(S, Received(f)) IN
         Pauses(S, T, FramesOf(T.out)) \/ Closes(S, T, FramesOf(T.out))
<1> DEFINE R == dm_frame(S, f.pf)
           T == lm_data_indication(S, Received(f))
<1>1. R = Dispatch(S, Received(f))
  BY DispatchIs
<1>2. LinkInv(T)
  BY HeardFrame, IndicationStep DEF Sender, Idle, Step
<1>3. Rec(S) /\ S.out = << >> /\ S.state \in {0, 1, 3, 4} /\ S.out \in Out /\ S.vr = 0
      /\ ~S.peer_receiver_busy
  BY NothingOut DEF Sender, Idle
<1>4. R \in {S, enter_new_state(stop_t1(discard_i_queue(S)), state_0_disconnected), Disconnect(S)}
      /\ (S.state \in Connected => R = Disconnect(S))
  BY <1>3, InStates DEF dm_frame
<1>5. CASE R = S /\ S.state \notin Connected
  <2>1. T = S
    BY <1>1, <1>3, <1>5, IndicationLike
  <2>2. QED
    BY <2>1, NothingHappens
<1>6. CASE R # S \/ S.state \in Connected
  <2>1. R = enter_new_state(stop_t1(discard_i_queue(S)), state_0_disconnected) \/ R = Disconnect(S)
    BY <1>4, <1>6
  <2> DEFINE Ended(X) ==
               /\ Rec(X) /\ X.vr = 0 /\ ~X.peer_receiver_busy /\ X.state = state_0_disconnected
               /\ X.i_frame_queue = << >> /\ X.out = << >>
  <2>2. Ended(R)
    <3> DEFINE D == stop_t1(discard_i_queue(S))
    <3>1. /\ Rec(D) /\ D.vr = 0 /\ ~D.peer_receiver_busy /\ D.i_frame_queue = << >>
          /\ D.out = << >>
      BY <1>3 DEF Rec, Fields, stop_t1, resume_t1, discard_i_queue
    <3>2. R = enter_new_state(D, state_0_disconnected)
          \/ R = enter_new_state(stop_t3(D), state_0_disconnected)
      BY <2>1 DEF Disconnect
    <3> HIDE DEF D, R
    <3>3. Ended(enter_new_state(D, state_0_disconnected))
      BY <3>1 DEF Rec, Fields, enter_new_state
    <3>4. Ended(enter_new_state(stop_t3(D), state_0_disconnected))
      BY <3>1 DEF Rec, Fields, enter_new_state, stop_t3
    <3>5. QED
      BY <3>2, <3>3, <3>4
  <2>3. R.out \in Out /\ R.state \notin Connected
    BY <2>2, NothingOut, InStates
  <2> HIDE DEF R
  <2>4. T = R
    BY <1>1, <2>2, <2>3, IndicationLike
  <2>5. QED
    BY <1>2, <2>2, <2>4, Closed, InStates
<1>7. QED
  BY <1>5, <1>6

(* One frame is sent, or nothing.                                          *)
LEMMA Paused ==
  ASSUME NEW S, Sender(S), NEW T, LinkInv(T), Rec(T), T.vr = 0, ~T.peer_receiver_busy,
         T.state \in {0, 1, 3, 4}, SameWindow(S, T), T.i_frame_queue = S.i_frame_queue,
         T.state \in Connected <=> S.state \in Connected, T.state = 1 <=> S.state = 1,
         \/ T.out = << >>
         \/ \E f : /\ FromSender(f) /\ f.type # "I" /\ (f.type = "SABM" => S.state = 1)
                   /\ T.out = Append(<< >>, <<TQ_PRIO_1_LO, f>>)
  PROVE  Pauses(S, T, FramesOf(T.out))
<1>1. CASE T.out = << >>
  <2>1. FramesOf(T.out) = << >> /\ In(FramesOf(T.out)) = {} /\ << >> \in Seq(Frame)
    BY <1>1, NothingOut
  <2>2. QED
    BY <2>1 DEF Pauses, SenderAfter
<1>2. ASSUME NEW f, FromSender(f), f.type # "I", f.type = "SABM" => S.state = 1,
             T.out = Append(<< >>, <<TQ_PRIO_1_LO, f>>)
      PROVE  Pauses(S, T, FramesOf(T.out))
  <2>1. FramesOf(T.out) \in Seq(Frame) /\ In(FramesOf(T.out)) = {f}
    BY <1>2, OneOut DEF FromSender
  <2>2. QED
    BY <1>2, <2>1 DEF Pauses, SenderAfter
<1>3. QED
  BY <1>1, <1>2

(* Timer recovery begins, or asks again, with an enquiry.                  *)
LEMMA BeginIs ==
  ASSUME NEW S, Rec(S), S.out = << >>, S.vr \in Number
  PROVE  /\ LET T == BeginRecovery(S) IN
            /\ Rec(T) /\ T.vr = S.vr /\ T.peer_receiver_busy = S.peer_receiver_busy /\ T.state = 4
            /\ SameWindow(S, T) /\ T.i_frame_queue = S.i_frame_queue /\ T.up = S.up
            /\ T.rxdata_by_ns = S.rxdata_by_ns
            /\ T.out = Append(<< >>, <<TQ_PRIO_1_LO, ax25_s_frame("cr_cmd", "RR", S.vr, 1)>>)
         /\ \A n : LET T == transmit_enquiry([S EXCEPT !.rc = n]) IN
            /\ Rec(T) /\ T.vr = S.vr /\ T.peer_receiver_busy = S.peer_receiver_busy
            /\ T.state = S.state
            /\ SameWindow(S, T) /\ T.i_frame_queue = S.i_frame_queue /\ T.up = S.up
            /\ T.rxdata_by_ns = S.rxdata_by_ns
            /\ T.out = Append(<< >>, <<TQ_PRIO_1_LO, ax25_s_frame("cr_cmd", "RR", S.vr, 1)>>)
<1> DEFINE e == <<TQ_PRIO_1_LO, ax25_s_frame("cr_cmd", "RR", S.vr, 1)>>
<1>1. ASSUME NEW n
      PROVE  LET T == transmit_enquiry([S EXCEPT !.rc = n]) IN
            /\ Rec(T) /\ T.vr = S.vr /\ T.peer_receiver_busy = S.peer_receiver_busy
            /\ T.state = S.state
            /\ SameWindow(S, T) /\ T.i_frame_queue = S.i_frame_queue /\ T.up = S.up
            /\ T.rxdata_by_ns = S.rxdata_by_ns
            /\ T.out = Append(<< >>, e)
  BY DEF Rec, Fields, transmit_enquiry, start_t1, SendLow, lm_data_request, SameWindow
<1>2. BeginRecovery(S) = [transmit_enquiry([S EXCEPT !.rc = 1]) EXCEPT !.state = 4]
  BY InStates DEF BeginRecovery, enter_new_state
<1> DEFINE T == transmit_enquiry([S EXCEPT !.rc = 1])
<1>3. /\ Rec(T) /\ T.vr = S.vr /\ T.peer_receiver_busy = S.peer_receiver_busy
            /\ SameWindow(S, T) /\ T.i_frame_queue = S.i_frame_queue /\ T.up = S.up
            /\ T.rxdata_by_ns = S.rxdata_by_ns
            /\ T.out = Append(<< >>, e)
  BY <1>1
<1> HIDE DEF T, e
<1> DEFINE B == [T EXCEPT !.state = 4]
<1>4. /\ Rec(B) /\ B.vr = S.vr /\ B.peer_receiver_busy = S.peer_receiver_busy /\ B.state = 4
      /\ SameWindow(S, B) /\ B.i_frame_queue = S.i_frame_queue /\ B.up = S.up
      /\ B.rxdata_by_ns = S.rxdata_by_ns
      /\ B.out = Append(<< >>, e)
  BY <1>3 DEF Rec, Fields, SameWindow
<1>5. QED
  BY <1>1, <1>2, <1>4 DEF T, e

(* T1 and T3 send a SABM or an enquiry, or give up.                        *)
LEMMA SenderT1 ==
  ASSUME NEW S, Sender(S)
  PROVE  LET T == dl_timer_t1(S) IN
         Pauses(S, T, FramesOf(T.out)) \/ Closes(S, T, FramesOf(T.out))
<1> DEFINE A == [S EXCEPT !.t1 = FALSE, !.t1_paused = FALSE]
           T == dl_timer_t1(S)
<1>1. /\ Rec(A) /\ A.out = << >> /\ A.vr = 0 /\ ~A.peer_receiver_busy /\ A.state = S.state
      /\ SameWindow(S, A) /\ A.i_frame_queue = S.i_frame_queue /\ A.rc = S.rc
      /\ S.state \in {0, 1, 3, 4}
  BY DEF Sender, Idle, Rec, Fields, SameWindow
<1>2. T = t1_expiry(A)
  BY DEF dl_timer_t1
<1>3. LinkInv(T)
  BY T1Step DEF Sender, Idle, Step
<1>4. 0 \in Number
  BY LinkAssumption DEF Number
<1> HIDE DEF A, T
<1>5. CASE S.state = 0
  <2>1. T = A
    BY <1>1, <1>2, <1>5, InStates DEF t1_expiry
  <2>2. QED
    BY <1>1, <1>3, <1>5, <2>1, InStates, Paused DEF T
<1>6. CASE S.state = 1
  <2> DEFINE f == ax25_u_frame("cr_cmd", "SABM", 1)
  <2>1. T = RetryCommand(A, "SABM")
    BY <1>1, <1>2, <1>6, InStates DEF t1_expiry
  <2>2. FromSender(f) /\ f.type = "SABM" /\ f \in Frame
    BY Built, CmdResFacts DEF FromSender
  <2> HIDE DEF f
  <2>3. CASE A.rc = n2_retry
    <3>1. T = enter_new_state(discard_i_queue(A), state_0_disconnected)
      BY <2>1, <2>3 DEF RetryCommand
    <3>2. /\ Rec(T) /\ T.vr = 0 /\ ~T.peer_receiver_busy /\ T.state = state_0_disconnected
          /\ T.i_frame_queue = << >> /\ T.out = << >>
      BY <1>1, <3>1 DEF Rec, Fields, enter_new_state, discard_i_queue
    <3>3. QED
      BY <1>3, <3>2, InStates, Closed DEF T
  <2>4. CASE A.rc # n2_retry
    <3>1. T = start_t1(SendLow([A EXCEPT !.rc = @ + 1], f))
      BY <2>1, <2>4 DEF RetryCommand, f
    <3>2. /\ Rec(T) /\ T.vr = 0 /\ ~T.peer_receiver_busy /\ T.state = 1
          /\ T.i_frame_queue = S.i_frame_queue /\ T.out = Append(<< >>, <<TQ_PRIO_1_LO, f>>)
          /\ SameWindow(S, T)
      BY <1>1, <1>6, <3>1 DEF Rec, Fields, start_t1, SendLow, lm_data_request, SameWindow
    <3>3. QED
      BY <1>1, <1>3, <1>6, <2>2, <3>2, InStates, Paused DEF T
  <2>5. QED
    BY <2>3, <2>4
<1> DEFINE r == ax25_s_frame("cr_cmd", "RR", A.vr, 1)
<1>7. FromSender(r) /\ r.type = "RR"
  BY <1>1, Built, CmdResFacts
<1> HIDE DEF r
<1>8. CASE S.state = 3
  <2>1. T = BeginRecovery(A)
    BY <1>1, <1>2, <1>8, InStates DEF t1_expiry
  <2>2. /\ Rec(T) /\ T.vr = 0 /\ ~T.peer_receiver_busy /\ T.state = 4
        /\ T.i_frame_queue = S.i_frame_queue /\ T.out = Append(<< >>, <<TQ_PRIO_1_LO, r>>)
        /\ SameWindow(A, T)
    BY <1>1, <1>4, <2>1, BeginIs DEF r
  <2>3. SameWindow(S, T)
    BY <1>1, <2>2 DEF SameWindow
  <2>4. /\ T.state \in {0, 1, 3, 4} /\ T.state # 1 /\ S.state # 1
        /\ T.state \in Connected /\ S.state \in Connected
    BY <1>8, <2>2, InStates
  <2>5. Pauses(S, T, FramesOf(T.out))
    BY <1>3, <1>7, <2>2, <2>3, <2>4, Paused
  <2>6. QED
    BY <2>5 DEF T
<1>9. CASE S.state = 4
  <2>1. CASE A.rc = n2_retry
    <3> DEFINE d == Dm(0)
    <3>1. T = enter_new_state(SendLow(discard_i_queue(A), d), state_0_disconnected)
      BY <1>1, <1>2, <1>9, <2>1, InStates DEF t1_expiry
    <3>2. FromSender(d) /\ d.type = "DM"
      BY Built, CmdResFacts DEF Dm
    <3> HIDE DEF d
    <3>3. /\ Rec(T) /\ T.vr = 0 /\ ~T.peer_receiver_busy /\ T.state = state_0_disconnected
          /\ T.i_frame_queue = << >> /\ T.out = Append(<< >>, <<TQ_PRIO_1_LO, d>>)
      BY <1>1, <3>1 DEF Rec, Fields, enter_new_state, discard_i_queue, SendLow,
         lm_data_request
    <3>4. QED
      BY <1>3, <3>2, <3>3, InStates, Closed DEF T
  <2>2. CASE A.rc # n2_retry
    <3>1. T = transmit_enquiry([A EXCEPT !.rc = A.rc + 1])
      BY <1>1, <1>2, <1>9, <2>2, InStates DEF t1_expiry
    <3>2. /\ Rec(T) /\ T.vr = 0 /\ ~T.peer_receiver_busy /\ T.state = 4
          /\ T.i_frame_queue = S.i_frame_queue /\ T.out = Append(<< >>, <<TQ_PRIO_1_LO, r>>)
          /\ SameWindow(A, T)
      BY <1>1, <1>4, <1>9, <3>1, BeginIs DEF r
    <3>3. QED
      BY <1>1, <1>3, <1>7, <1>9, <3>2, InStates, Paused DEF SameWindow, T
  <2>3. QED
    BY <2>1, <2>2
<1>10. QED
  BY <1>1, <1>5, <1>6, <1>8, <1>9 DEF T

LEMMA SenderT3 ==
  ASSUME NEW S, Sender(S)
  PROVE  LET T == dl_timer_t3(S) IN Pauses(S, T, FramesOf(T.out))
<1> DEFINE A == [S EXCEPT !.t3 = FALSE]
           T == dl_timer_t3(S)
           r == ax25_s_frame("cr_cmd", "RR", A.vr, 1)
<1>1. /\ Rec(A) /\ A.out = << >> /\ A.vr = 0 /\ ~A.peer_receiver_busy /\ A.state = S.state
      /\ SameWindow(S, A) /\ A.i_frame_queue = S.i_frame_queue /\ S.state \in {0, 1, 3, 4}
  BY DEF Sender, Idle, Rec, Fields, SameWindow
<1>2. T = t3_expiry(A)
  BY DEF dl_timer_t3
<1>3. LinkInv(T)
  BY T3Step DEF Sender, Idle, Step
<1>4. 0 \in Number
  BY LinkAssumption DEF Number
<1>5. FromSender(r) /\ r.type = "RR"
  BY <1>1, Built, CmdResFacts
<1> HIDE DEF A, T, r
<1>6. CASE S.state = 3
  <2>1. T = BeginRecovery(A)
    BY <1>1, <1>2, <1>6, InStates DEF t3_expiry
  <2>2. /\ Rec(T) /\ T.vr = 0 /\ ~T.peer_receiver_busy /\ T.state = 4
        /\ T.i_frame_queue = S.i_frame_queue /\ T.out = Append(<< >>, <<TQ_PRIO_1_LO, r>>)
        /\ SameWindow(A, T)
    BY <1>1, <1>4, <2>1, BeginIs DEF r
  <2>3. QED
    BY <1>1, <1>3, <1>5, <1>6, <2>2, InStates, Paused DEF SameWindow, T
<1>7. CASE S.state # 3
  <2>1. T = A
    BY <1>1, <1>2, <1>7, InStates DEF t3_expiry
  <2>2. QED
    BY <1>1, <1>3, <2>1, InStates, Paused DEF T
<1>8. QED
  BY <1>6, <1>7

-----------------------------------------------------------------------------
(* The sender sends.                                                       *)

(* The i-th frame that i_frame_pop_off_queue sends.                        *)
SentFrame(S, i) == ax25_i_frame(0, AX25MODULO(S.vs + i - 1), S.i_frame_queue[i])

(* The first n parts of the queue are sent and kept, under the numbers     *)
(* from V(S) on.                                                           *)
Sends(S, T, w, n) ==
  /\ SenderAfter(T, w) /\ T.state = S.state /\ S.state \in Connected /\ T.va = S.va
  /\ n \in Nat /\ n <= Len(S.i_frame_queue) /\ Outstanding(S) + n <= k_maxframe
  /\ T.vs = AX25MODULO(S.vs + n)
  /\ T.i_frame_queue = SubSeq(S.i_frame_queue, n + 1, Len(S.i_frame_queue))
  /\ \A x \in Number :
       T.txdata_by_ns[x] = IF Ahead(S.vs, x) < n THEN S.i_frame_queue[Ahead(S.vs, x) + 1]
                           ELSE S.txdata_by_ns[x]
  /\ \A f \in In(w) : f.type = "I" /\ \E i \in 1..n : f = SentFrame(S, i)
  /\ \A f, g : Precedes(w, f, g) =>
       \E i \in 1..n : \E j \in 1..n : i < j /\ f = SentFrame(S, i) /\ g = SentFrame(S, j)

(* Its number and its part.                                                *)
LEMMA SentFrames ==
  ASSUME NEW S, Sender(S), NEW n \in Nat, n <= Len(S.i_frame_queue)
  PROVE  /\ \A i \in 1..n : FromSender(SentFrame(S, i)) /\ SentFrame(S, i).type = "I"
         /\ \A i \in 1..n : /\ SentFrame(S, i).ns = AX25MODULO(S.vs + i - 1)
                            /\ SentFrame(S, i).info = S.i_frame_queue[i]
<1>1. S.i_frame_queue \in Seq(Info) /\ S.vs \in Number
  BY LinkTypes DEF Sender, Idle, LinkInv, Sound
<1>2. \A i \in 1..n : S.i_frame_queue[i] \in Info
  BY <1>1
<1>3. \A i \in 1..n : AX25MODULO(S.vs + i - 1) \in Number
  BY <1>1, LinkAssumption DEF Number, AX25MODULO
<1>4. QED
  BY <1>2, <1>3, Built DEF SentFrame

(* The loop of i_frame_pop_off_queue sends what the window has room for.   *)
LEMMA PopIs ==
  ASSUME NEW S, Sender(S), S.state \in Connected, ToSend(S) # 0
  PROVE  LET T == lm_seize_confirm(S) IN Sends(S, T, FramesOf(T.out), ToSend(S))
<1> DEFINE n == ToSend(S)
           iq == S.i_frame_queue
           sent == [i \in 1..n |-> SentFrame(S, i)]
           o == << >> \o [i \in 1..n |-> <<TQ_PRIO_1_LO, sent[i]>>]
           t == [x \in Number |-> IF Ahead(S.vs, x) < n THEN S.i_frame_queue[Ahead(S.vs, x) + 1]
                                  ELSE S.txdata_by_ns[x]]
           q == SubSeq(iq, n + 1, Len(iq))
           v == AX25MODULO(S.vs + n)
           P == PopWithoutTimer(S)
           T == lm_seize_confirm(S)
<1>1. n \in Nat /\ n <= Len(iq) /\ Outstanding(S) + n <= k_maxframe
  BY ToSendIs DEF Sender, Idle, LinkInv, Sound
<1>2. /\ Rec(S) /\ S.out = << >> /\ S.vr = 0 /\ ~S.peer_receiver_busy /\ S.state \in {0, 1, 3, 4}
  BY DEF Sender, Idle
<1>3. [i \in 1..n |-> <<TQ_PRIO_1_LO, ax25_i_frame(S.vr, AX25MODULO(S.vs + i - 1), S.i_frame_queue[i])>>]
        = [i \in 1..n |-> <<TQ_PRIO_1_LO, sent[i]>>]
  <2>1. \A i \in 1..n : ax25_i_frame(S.vr, AX25MODULO(S.vs + i - 1), S.i_frame_queue[i]) = sent[i]
    BY <1>2 DEF SentFrame
  <2> HIDE DEF sent, n
  <2>2. QED
    BY <2>1
<1>4. P = [S EXCEPT !.i_frame_queue = q, !.out = o, !.txdata_by_ns = t, !.vs = v,
                    !.acknowledge_pending = S.acknowledge_pending /\ n = 0,
                    !.t3 = S.t3 /\ n = 0]
  BY <1>2, <1>3 DEF PopWithoutTimer
<1>5. i_frame_pop_off_queue(S) = start_t1(P)
  BY DEF i_frame_pop_off_queue
<1> HIDE DEF n, o, t, q, v, P
<1>6. /\ Rec(P) /\ P.vr = 0 /\ ~P.peer_receiver_busy /\ P.state = S.state
      /\ P.va = S.va /\ P.vs = v /\ P.i_frame_queue = q /\ P.txdata_by_ns = t
      /\ P.out = o /\ P.acknowledge_pending = (S.acknowledge_pending /\ n = 0)
  BY <1>2, <1>4 DEF Rec, Fields
<1> DEFINE U == start_t1(P)
<1>7. /\ Rec(U) /\ U.vr = 0 /\ ~U.peer_receiver_busy /\ U.state = S.state
      /\ U.va = S.va /\ U.vs = v /\ U.i_frame_queue = q /\ U.txdata_by_ns = t
      /\ U.out = o /\ ~U.acknowledge_pending
  <2>1. ~P.acknowledge_pending
    BY <1>6 DEF n
  <2>2. QED
    BY <1>6, <2>1 DEF Rec, Fields, start_t1
<1> HIDE DEF U
<1>8. T = U
  BY <1>5, <1>7 DEF lm_seize_confirm, U
<1>9. LinkInv(T)
  BY SeizeStep DEF Sender, Idle, Step
<1>10. sent \in [1..n -> Frame] /\ \A i \in 1..n : FromSender(sent[i]) /\ sent[i].type = "I"
  BY <1>1, SentFrames DEF FromSender
<1> HIDE DEF T
<1>11. FramesOf(T.out) = sent /\ sent \in Seq(Frame)
  <2> HIDE DEF sent
  <2>1. FramesOf(o) = sent /\ sent \in Seq(Frame)
    BY <1>1, <1>10, FramesOfMany DEF o
  <2>2. QED
    BY <1>7, <1>8, <2>1
<1>12. DOMAIN sent = 1..n /\ \A i \in 1..n : sent[i] = SentFrame(S, i)
  OBVIOUS
<1> HIDE DEF sent
<1>13. \A f \in In(sent) : FromSender(f) /\ f.type = "I" /\ \E i \in 1..n : f = SentFrame(S, i)
  BY <1>10, <1>12 DEF In
<1>14. \A f, g : Precedes(sent, f, g) =>
       \E i \in 1..n : \E j \in 1..n : i < j /\ f = SentFrame(S, i) /\ g = SentFrame(S, j)
  BY <1>12 DEF Precedes
<1>15. \A x \in Number :
       T.txdata_by_ns[x] = IF Ahead(S.vs, x) < n THEN S.i_frame_queue[Ahead(S.vs, x) + 1]
                           ELSE S.txdata_by_ns[x]
  BY <1>7, <1>8 DEF t
<1>16. SenderAfter(T, sent)
  BY <1>2, <1>7, <1>8, <1>9, <1>11, <1>13 DEF SenderAfter
<1>17. QED
  BY <1>1, <1>7, <1>8, <1>11, <1>13, <1>14, <1>15, <1>16 DEF Sends, n, q, v, T

(* The channel is there: what can be sent is sent.                         *)
LEMMA SenderSeizes ==
  ASSUME NEW S, Sender(S)
  PROVE  LET T == lm_seize_confirm(S) IN
         \/ Pauses(S, T, FramesOf(T.out))
         \/ \E n \in Nat : Sends(S, T, FramesOf(T.out), n)
<1> DEFINE T == lm_seize_confirm(S)
           r == ax25_s_frame("cr_res", "RR", S.vr, 0)
<1>1. LinkInv(T)
  BY SeizeStep DEF Sender, Idle, Step
<1>2. /\ Rec(S) /\ S.out = << >> /\ S.vr = 0 /\ ~S.peer_receiver_busy /\ S.state \in {0, 1, 3, 4}
  BY DEF Sender, Idle
<1>3. FromSender(r) /\ r.type = "RR"
  BY <1>2, Built, CmdResFacts
<1>4. CASE S.state \in Connected /\ ToSend(S) # 0
  <2>1. ToSend(S) \in Nat
    BY ToSendIs DEF Sender, Idle, LinkInv, Sound
  <2>2. QED
    BY <1>4, <2>1, PopIs
<1>5. CASE S.state \in Connected /\ ToSend(S) = 0 /\ S.acknowledge_pending
  <2>1. T = enquiry_response(S, 0)
    BY <1>5 DEF lm_seize_confirm, i_frame_pop_off_queue
  <2> HIDE DEF T
  <2>2. /\ Rec(T) /\ T.vr = 0 /\ ~T.peer_receiver_busy /\ T.state = S.state
        /\ T.i_frame_queue = S.i_frame_queue /\ SameWindow(S, T)
        /\ T.out = Append(<< >>, <<TQ_PRIO_1_LO, r>>)
    BY <1>2, <2>1 DEF Rec, Fields, enquiry_response, SendLow, lm_data_request, SameWindow
  <2>3. QED
    BY <1>1, <1>2, <1>3, <2>2, Paused DEF T
<1>6. CASE ~(S.state \in Connected /\ (ToSend(S) # 0 \/ S.acknowledge_pending))
  <2>1. T = S
    BY <1>6 DEF lm_seize_confirm, i_frame_pop_off_queue
  <2>2. QED
    BY <2>1, NothingHappens
<1>7. QED
  BY <1>4, <1>5, <1>6

-----------------------------------------------------------------------------
(* What a call of the receiver does to it; RR, DM and SABM.                *)

(* What the receiver's calls have in common.                               *)
ReceiverAfter(T, w) ==
  /\ Rec(T) /\ LinkInv(T) /\ T.va = 0 /\ T.vs = 0 /\ T.i_frame_queue = << >>
  /\ ~T.peer_receiver_busy /\ T.state \in {0, 3, 4}
  /\ w = FramesOf(T.out) /\ w \in Seq(Frame) /\ \A f \in In(w) : FromReceiver(f)

(* The calls of the receiver.                                              *)
Stays(S, T, w) ==
  /\ ReceiverAfter(T, w) /\ T.vr = S.vr /\ T.rxdata_by_ns = S.rxdata_by_ns /\ T.up = << >>
  /\ \A f \in In(w) : f.type \in {"RR", "DM", "null"} /\ (f.type = "RR" => f.nr = S.vr)
(* A SABM: V(R) is 0 and nothing is kept.                                  *)
Resets(S, T, w) ==
  /\ ReceiverAfter(T, w) /\ T.vr = 0 /\ NothingStashed(T) /\ T.up = << >>
  /\ \A f \in In(w) : f.type = "UA"
(* The frame expected: it goes up with those kept after it.                *)
Gives(S, T, w, info) ==
  /\ ReceiverAfter(T, w) /\ T.vr = AX25MODULO(S.vr + Following(S) + 1)
  /\ \A x \in Number : T.rxdata_by_ns[x] = IF Ahead(S.vr, x) <= Following(S) THEN NULL
                                           ELSE S.rxdata_by_ns[x]
  /\ T.up = <<info>> \o [j \in 1..Following(S) |-> S.rxdata_by_ns[AX25MODULO(S.vr + j)]]
  /\ \A f \in In(w) : f.type = "null"
(* A request for the i-th frame from V(R) on.                              *)
Asking(S, i, g) ==
  g.type = "SREJ" /\ g.nr = AX25MODULO(S.vr + i) /\ (g.pf = 1 => g.nr = S.vr)
(* A later frame: it is kept, and the frames missing before it are asked   *)
(* for from the a-th on.                                                   *)
Stashes(S, T, w, f, a) ==
  /\ ReceiverAfter(T, w) /\ T.vr = S.vr /\ T.up = << >>
  /\ T.rxdata_by_ns = [S.rxdata_by_ns EXCEPT ![f.ns] = f.info]
  /\ a \in 0..Ahead(S.vr, f.ns)
  /\ \A j \in a..(Ahead(S.vr, f.ns) - 1) : T.rxdata_by_ns[AX25MODULO(S.vr + j)] = NULL
  /\ \A g \in In(w) : \E i \in a..(Ahead(S.vr, f.ns) - 1) : Asking(S, i, g)
  /\ \A g, h : Precedes(w, g, h) =>
       \E i, j \in a..(Ahead(S.vr, f.ns) - 1) : i < j /\ Asking(S, i, g) /\ Asking(S, j, h)

(* The receiver has nothing to send, so the frame's handler is all there   *)
(* is.                                                                     *)
LEMMA ReceiverIndication ==
  ASSUME NEW S, Receiver(S), NEW f \in Frame, NEW R, R = Dispatch(S, Received(f)), Rec(R),
         R.i_frame_queue = << >>
  PROVE  lm_data_indication(S, Received(f)) = R /\ LinkInv(R)
<1>1. LinkInv(R)
  BY HeardFrame, DispatchStep DEF Receiver, Idle, Step
<1>2. ToSend(R) \in Nat /\ ToSend(R) <= Len(R.i_frame_queue)
  BY <1>1, ToSendIs DEF LinkInv, Sound
<1>3. ToSend(R) = 0
  BY <1>2
<1>4. QED
  BY <1>1, <1>3 DEF lm_data_indication

(* One frame is sent, or nothing.                                          *)
LEMMA Stayed ==
  ASSUME NEW S, NEW T, Rec(T), LinkInv(T), T.va = 0, T.vs = 0, T.i_frame_queue = << >>,
         ~T.peer_receiver_busy, T.state \in {0, 3, 4},
         T.vr = S.vr, T.rxdata_by_ns = S.rxdata_by_ns, T.up = << >>,
         \/ T.out = << >>
         \/ \E f : /\ FromReceiver(f) /\ f.type \in {"RR", "DM"} /\ (f.type = "RR" => f.nr = S.vr)
                   /\ T.out = Append(<< >>, <<TQ_PRIO_1_LO, f>>)
  PROVE  Stays(S, T, FramesOf(T.out))
<1>1. CASE T.out = << >>
  <2>0. << >> \in Seq(Frame)
    OBVIOUS
  <2>1. FramesOf(T.out) = << >> /\ In(FramesOf(T.out)) = {}
    BY <1>1, NothingOut
  <2>2. QED
    BY <2>0, <2>1 DEF Stays, ReceiverAfter
<1>2. ASSUME NEW f, FromReceiver(f), f.type \in {"RR", "DM"}, f.type = "RR" => f.nr = S.vr,
             T.out = Append(<< >>, <<TQ_PRIO_1_LO, f>>)
      PROVE  Stays(S, T, FramesOf(T.out))
  <2>1. FramesOf(T.out) \in Seq(Frame) /\ In(FramesOf(T.out)) = {f}
    BY <1>2, OneOut DEF FromReceiver
  <2>2. QED
    BY <1>2, <2>1 DEF Stays, ReceiverAfter
<1>3. QED
  BY <1>1, <1>2

(* What being the receiver says, in parts.                                 *)
LEMMA ReceiverParts ==
  ASSUME NEW S, Receiver(S)
  PROVE  /\ Rec(S) /\ S.out = << >> /\ S.up = << >> /\ S.va = 0 /\ S.vs = 0
         /\ S.i_frame_queue = << >> /\ ~S.peer_receiver_busy /\ S.state \in {0, 3, 4}
         /\ S.vr \in Number /\ LinkInv(S) /\ is_good_nr(S, 0) /\ 0 \in Number
<1>1. /\ Rec(S) /\ S.out = << >> /\ S.up = << >> /\ S.va = 0 /\ S.vs = 0
      /\ S.i_frame_queue = << >> /\ ~S.peer_receiver_busy /\ S.state \in {0, 3, 4}
      /\ S.vr \in Number /\ LinkInv(S)
  BY LinkTypes DEF Receiver, Idle, LinkInv, Sound
<1>2. 0 \in Number /\ Ahead(0, 0) = 0
  BY AheadSelf, LinkAssumption DEF Number
<1>3. is_good_nr(S, 0)
  BY <1>1, <1>2 DEF is_good_nr, Outstanding
<1>4. QED
  BY <1>1, <1>2, <1>3

(* The receiver answers an RR or a DM at most with its V(R), and resets on *)
(* a SABM.                                                                 *)
LEMMA ReceiverHearsRr ==
  ASSUME NEW S, Receiver(S), NEW f \in Frame, f.type = "RR", f.nr = 0
  PROVE  LET T == lm_data_indication(S, Received(f)) IN Stays(S, T, FramesOf(T.out))
<1> DEFINE R == rr_rnr_frame(S, TRUE, "cr_11", f.pf, f.nr)
           T == lm_data_indication(S, Received(f))
<1>1. R = Dispatch(S, Received(f))
  BY DispatchIs
<1>2. /\ Rec(S) /\ S.out = << >> /\ S.up = << >> /\ S.va = 0 /\ S.vs = 0
      /\ S.i_frame_queue = << >> /\ ~S.peer_receiver_busy /\ S.state \in {0, 3, 4}
      /\ S.vr \in Number /\ is_good_nr(S, 0) /\ 0 \in Number
  BY ReceiverParts
<1>3. /\ Rec(R) /\ R.out = << >> /\ ~R.peer_receiver_busy /\ R.state = S.state
      /\ R.vr = S.vr /\ R.rxdata_by_ns = S.rxdata_by_ns /\ R.up = << >>
      /\ R.i_frame_queue = << >> /\ R.va = 0 /\ R.vs = 0
  <2>1. CASE S.state \in Connected
    <3>1. is_good_nr(S, f.nr) /\ f.nr \in Number /\ Quiescent(S)
      BY <1>2 DEF Quiescent
    <3>2. AckDone(S, R, f.nr)
      BY <2>1, <3>1, AckHandled
    <3>3. QED
      BY <1>2, <3>2 DEF AckDone, AckFrees
  <2>2. CASE S.state = 0
    <3>1. RefuseCommand(S, "cr_11", f.pf) = S
      BY DEF RefuseCommand
    <3>2. R = S
      BY <2>2, <3>1, InStates DEF rr_rnr_frame
    <3>3. QED
      BY <1>2, <3>2
  <2>3. QED
    BY <1>2, <2>1, <2>2, InStates
<1> HIDE DEF R
<1>4. T = R /\ LinkInv(R)
  BY <1>1, <1>3, ReceiverIndication
<1> HIDE DEF T
<1>5. QED
  BY <1>2, <1>3, <1>4, Stayed DEF T

LEMMA ReceiverHearsDm ==
  ASSUME NEW S, Receiver(S), NEW f \in Frame, f.type = "DM"
  PROVE  LET T == lm_data_indication(S, Received(f)) IN Stays(S, T, FramesOf(T.out))
<1> DEFINE R == dm_frame(S, f.pf)
           T == lm_data_indication(S, Received(f))
<1>1. R = Dispatch(S, Received(f))
  BY DispatchIs
<1>2. /\ Rec(S) /\ S.out = << >> /\ S.up = << >> /\ S.va = 0 /\ S.vs = 0
      /\ S.i_frame_queue = << >> /\ ~S.peer_receiver_busy /\ S.state \in {0, 3, 4}
  BY ReceiverParts
<1>3. R \in {S, Disconnect(S)}
  BY <1>2, InStates DEF dm_frame
<1>3a. state_0_disconnected \in {0, 3, 4}
  BY InStates
<1>4. /\ Rec(R) /\ R.out = << >> /\ ~R.peer_receiver_busy /\ R.state \in {0, 3, 4}
      /\ R.vr = S.vr /\ R.rxdata_by_ns = S.rxdata_by_ns /\ R.up = << >>
      /\ R.i_frame_queue = << >> /\ R.va = 0 /\ R.vs = 0
  <2>1. CASE R = S
    BY <1>2, <2>1
  <2>2. CASE R = Disconnect(S)
    BY <1>2, <1>3a, <2>2 DEF Rec, Fields, Disconnect, enter_new_state, stop_t1,
       stop_t3, resume_t1,
       discard_i_queue
  <2>3. QED
    BY <1>3, <2>1, <2>2
<1> HIDE DEF R
<1>5. T = R /\ LinkInv(R)
  BY <1>1, <1>4, ReceiverIndication
<1> HIDE DEF T
<1>6. QED
  BY <1>4, <1>5, Stayed DEF T

LEMMA ReceiverHearsSabm ==
  ASSUME NEW S, Receiver(S), NEW f \in Frame, f.type = "SABM"
  PROVE  LET T == lm_data_indication(S, Received(f)) IN Resets(S, T, FramesOf(T.out))
<1> DEFINE R == sabm_frame(S, f.pf)
           T == lm_data_indication(S, Received(f))
           u == Ua(f.pf)
           A == SendLow(S, u)
           B == clear_exception_conditions(A)
           C == ResetNumbers(B)
           o == Append(<< >>, <<TQ_PRIO_1_LO, u>>)
           none == [n \in Number |-> NULL]
           t == Freed(B.txdata_by_ns, 0)
<1>1. R = Dispatch(S, Received(f)) /\ f.pf \in {0, 1}
  BY DispatchIs DEF Frame
<1>2. /\ Rec(S) /\ S.out = << >> /\ S.up = << >> /\ S.va = 0 /\ S.vs = 0
      /\ S.i_frame_queue = << >> /\ ~S.peer_receiver_busy /\ S.state \in {0, 3, 4}
  BY ReceiverParts
<1>3. R \in {enter_new_state([start_t3(C) EXCEPT !.rc = 0], state_3_connected), CaughtUp(C)}
  BY <1>2, InStates DEF sabm_frame
<1>3a. state_3_connected \in {0, 3, 4}
  BY InStates
<1>4. u.type = "UA" /\ FromReceiver(u)
  BY <1>1, Built, CmdResFacts DEF Ua
<1> HIDE DEF u
<1>5. /\ Rec(B) /\ B.out = o /\ B.up = << >> /\ B.i_frame_queue = << >> /\ B.peer_receiver_busy = FALSE
      /\ B.rxdata_by_ns = none
  BY <1>2 DEF Rec, Fields, SendLow, lm_data_request, clear_exception_conditions
<1> HIDE DEF A, B, o, none
<1>5a. /\ SET_VA([B EXCEPT !.vs = 0], 0) = [[B EXCEPT !.vs = 0] EXCEPT !.va = 0, !.txdata_by_ns = t]
  <2>1. [B EXCEPT !.vs = 0].txdata_by_ns = B.txdata_by_ns
    BY <1>5 DEF Rec, Fields
  <2>2. QED
    BY <2>1, SetVaIs
<1> HIDE DEF t
<1>6. /\ Rec(C) /\ C.out = o /\ C.up = << >> /\ C.i_frame_queue = << >> /\ C.peer_receiver_busy = FALSE
      /\ C.rxdata_by_ns = none /\ C.va = 0 /\ C.vs = 0 /\ C.vr = 0
  BY <1>5, <1>5a DEF Rec, Fields, ResetNumbers
<1> HIDE DEF C
<1>7. /\ Rec(R) /\ R.out = o /\ ~R.peer_receiver_busy /\ R.state = state_3_connected
      /\ R.vr = 0 /\ R.rxdata_by_ns = none /\ R.up = << >>
      /\ R.i_frame_queue = << >> /\ R.va = 0 /\ R.vs = 0
  <2> HIDE DEF R
  <2>1. CASE R = CaughtUp(C)
    BY <1>6, <2>1 DEF Rec, Fields, CaughtUp, start_t3, stop_t1, resume_t1, enter_new_state
  <2>2. CASE R = enter_new_state([start_t3(C) EXCEPT !.rc = 0], state_3_connected)
    BY <1>6, <2>2 DEF Rec, Fields, start_t3, enter_new_state
  <2>3. QED
    BY <1>3, <2>1, <2>2
<1> HIDE DEF R
<1>8. T = R /\ LinkInv(R)
  BY <1>1, <1>7, ReceiverIndication
<1> HIDE DEF T
<1>9. FramesOf(T.out) \in Seq(Frame) /\ In(FramesOf(T.out)) = {u}
  BY <1>4, <1>7, <1>8, OneOut DEF o, FromReceiver
<1>10. NothingStashed(T)
  BY <1>7, <1>8 DEF NothingStashed, none
<1>11. QED
  BY <1>3a, <1>4, <1>7, <1>8, <1>9, <1>10 DEF Resets, ReceiverAfter, T

-----------------------------------------------------------------------------
(* The receiver hears an I frame.                                          *)

(* Before the frame's number is looked at: the acknowledgement it carries. *)
BeforeContinuing(S, U) ==
  /\ Quiescent(U) /\ U.up = << >> /\ U.va = 0 /\ U.vs = 0 /\ U.i_frame_queue = << >>
  /\ ~U.peer_receiver_busy /\ U.state \in Connected
  /\ U.vr = S.vr /\ U.rxdata_by_ns = S.rxdata_by_ns

(* i_frame comes to i_frame_continued with the numbers as they were.       *)
LEMMA IFrameIs ==
  ASSUME NEW S, Receiver(S), S.state \in Connected, NEW ns, NEW info
  PROVE  \E U : BeforeContinuing(S, U) /\ i_frame(S, "cr_11", 0, 0, ns, info) = i_frame_continued(U, 0, ns, info)
<1> DEFINE T == check_i_frame_ackd(S, 0)
           U == IF T.state = state_4_timer_recovery /\ T.va = T.vs THEN CaughtUp(T) ELSE T
           t == Freed(S.txdata_by_ns, 0)
           V == SET_VA(S, 0)
<1>1. /\ Rec(S) /\ S.out = << >> /\ S.up = << >> /\ S.va = 0 /\ S.vs = 0
      /\ S.i_frame_queue = << >> /\ ~S.peer_receiver_busy
      /\ is_good_nr(S, 0)
  BY ReceiverParts
<1>2. TooLong = {}
  BY LinkPairAssumption
<1>3. i_frame(S, "cr_11", 0, 0, ns, info) = i_frame_continued(U, 0, ns, info)
  BY <1>1, <1>2, StateCases DEF i_frame
<1>4. V = [S EXCEPT !.va = 0, !.txdata_by_ns = t]
  BY SetVaIs
<1>5. T = start_t3(stop_t1(V))
  BY <1>1 DEF check_i_frame_ackd
<1> HIDE DEF t, V, T
<1>6. /\ Rec(V) /\ V.out = << >> /\ V.up = << >> /\ V.va = 0 /\ V.vs = 0 /\ V.i_frame_queue = << >>
      /\ V.peer_receiver_busy = S.peer_receiver_busy /\ V.state = S.state
      /\ V.vr = S.vr /\ V.rxdata_by_ns = S.rxdata_by_ns
  BY <1>1, <1>4 DEF Rec, Fields
<1>7. /\ Rec(T) /\ T.out = << >> /\ T.up = << >> /\ T.va = 0 /\ T.vs = 0 /\ T.i_frame_queue = << >>
      /\ T.peer_receiver_busy = S.peer_receiver_busy /\ T.state = S.state
      /\ T.vr = S.vr /\ T.rxdata_by_ns = S.rxdata_by_ns
  BY <1>5, <1>6 DEF Rec, Fields, start_t3, stop_t1, resume_t1
<1> DEFINE C == CaughtUp(T)
<1>8. /\ Rec(C) /\ C.out = << >> /\ C.up = << >> /\ C.va = 0 /\ C.vs = 0 /\ C.i_frame_queue = << >>
      /\ C.peer_receiver_busy = S.peer_receiver_busy /\ C.state = state_3_connected
      /\ C.vr = S.vr /\ C.rxdata_by_ns = S.rxdata_by_ns
  BY <1>7 DEF Rec, Fields, CaughtUp, start_t3, stop_t1, resume_t1, enter_new_state
<1>9. state_3_connected \in Connected
  BY InStates
<1>10. U \in {T, C}
  OBVIOUS
<1> HIDE DEF C, U
<1>11. BeforeContinuing(S, U)
  BY <1>1, <1>7, <1>8, <1>9, <1>10 DEF BeforeContinuing, Quiescent
<1>12. QED
  BY <1>3, <1>11

(* How many kept frames follow depends on V(R) and on what is kept.        *)
LEMMA FollowingSame ==
  ASSUME NEW S, NEW U, U.vr = S.vr, U.rxdata_by_ns = S.rxdata_by_ns
  PROVE  Following(U) = Following(S)
  BY DEF Following

(* The frame expected is heard.                                            *)
GivesUpTo(S, T, info) ==
  /\ Rec(T) /\ T.va = 0 /\ T.vs = 0 /\ T.i_frame_queue = << >>
  /\ ~T.peer_receiver_busy /\ T.state \in Connected
  /\ T.vr = AX25MODULO(S.vr + Following(S) + 1)
  /\ T.rxdata_by_ns = [x \in Number |-> IF Ahead(S.vr, x) <= Following(S) THEN NULL
                                        ELSE S.rxdata_by_ns[x]]
  /\ T.up = <<info>> \o [j \in 1..Following(S) |-> S.rxdata_by_ns[AX25MODULO(S.vr + j)]]
  /\ T.out = << >> \/ T.out = Append(<< >>, <<TQ_PRIO_1_LO, NullFrame>>)

(* InSequence delivers the frame and those that follow it.                 *)
LEMMA Given ==
  ASSUME NEW S, Receiver(S), NEW U, BeforeContinuing(S, U), NEW info
  PROVE  GivesUpTo(S, Acknowledge(InSequence(U, info), 0), info)
<1> DEFINE c == Following(S)
           v == AX25MODULO(S.vr + c + 1)
           rx == [x \in Number |-> IF Ahead(S.vr, x) <= c THEN NULL ELSE S.rxdata_by_ns[x]]
           up == <<info>> \o [j \in 1..c |-> S.rxdata_by_ns[AX25MODULO(S.vr + j)]]
           A == InSequence(U, info)
           B == [A EXCEPT !.acknowledge_pending = TRUE]
           C == lm_seize_request(B)
           T == Acknowledge(A, 0)
<1>1. /\ Rec(U) /\ U.out = << >> /\ U.up = << >> /\ U.va = 0 /\ U.vs = 0 /\ U.i_frame_queue = << >>
      /\ ~U.peer_receiver_busy /\ U.state \in Connected
      /\ U.vr = S.vr /\ U.rxdata_by_ns = S.rxdata_by_ns
  BY DEF BeforeContinuing, Quiescent
<1>2. Following(U) = c
  BY <1>1, FollowingSame
<1>2a. << >> \o up = up
  <2> DEFINE Y == {S.rxdata_by_ns[AX25MODULO(S.vr + j)] : j \in 1..c} \cup {info}
             h == <<info>>
             g == [j \in 1..c |-> S.rxdata_by_ns[AX25MODULO(S.vr + j)]]
  <2>1. c \in Nat
    BY FollowingIs DEF Receiver, Idle, LinkInv, Sound
  <2>2. h \in Seq(Y)
    OBVIOUS
  <2>3. g \in Seq(Y)
    <3>1. \A j \in 1..c : g[j] \in Y
      OBVIOUS
    <3> HIDE DEF Y
    <3>2. g \in [1..c -> Y]
      BY <3>1
    <3>3. QED
      BY <2>1, <3>2
  <2> HIDE DEF Y, h, g
  <2>4. h \o g \in Seq(Y)
    BY <2>2, <2>3
  <2>5. << >> \o (h \o g) = h \o g
    BY <2>4
  <2>6. QED
    BY <2>5 DEF h, g
<1>3. A = [U EXCEPT !.vr = v, !.rxdata_by_ns = rx, !.up = << >> \o up]
  BY <1>1, <1>2 DEF InSequence, dl_data_indication
<1> HIDE DEF c, v, rx, up
<1>4. /\ Rec(A) /\ A.out = << >> /\ A.up = up /\ A.va = 0 /\ A.vs = 0 /\ A.i_frame_queue = << >>
      /\ ~A.peer_receiver_busy /\ A.state \in Connected /\ A.vr = v /\ A.rxdata_by_ns = rx
  BY <1>1, <1>2a, <1>3 DEF Rec, Fields
<1> HIDE DEF A
<1>5. T \in {A, C}
  BY DEF Acknowledge
<1>6. /\ Rec(B) /\ B.out = << >> /\ B.up = up /\ B.va = 0 /\ B.vs = 0 /\ B.i_frame_queue = << >>
      /\ ~B.peer_receiver_busy /\ B.state \in Connected /\ B.vr = v /\ B.rxdata_by_ns = rx
  BY <1>4 DEF Rec, Fields
<1> HIDE DEF B
<1>7. /\ Rec(C) /\ C.out = Append(<< >>, <<TQ_PRIO_1_LO, NullFrame>>) /\ C.up = up
      /\ C.va = 0 /\ C.vs = 0 /\ C.i_frame_queue = << >>
      /\ ~C.peer_receiver_busy /\ C.state \in Connected /\ C.vr = v /\ C.rxdata_by_ns = rx
  BY <1>6 DEF Rec, Fields, lm_seize_request, SendLow, lm_data_request
<1> HIDE DEF C, T
<1>8. /\ Rec(T) /\ T.out \in {<< >>, Append(<< >>, <<TQ_PRIO_1_LO, NullFrame>>)} /\ T.up = up
      /\ T.va = 0 /\ T.vs = 0 /\ T.i_frame_queue = << >>
      /\ ~T.peer_receiver_busy /\ T.state \in Connected /\ T.vr = v /\ T.rxdata_by_ns = rx
  BY <1>4, <1>5, <1>7
<1>9. QED
  BY <1>8 DEF GivesUpTo, T, A, v, rx, up, c

(* A frame out of sequence that is within the window: it is kept, and what *)
(* is missing before it is asked for unless that was done before.          *)
Missing(S, ns, a) ==
  /\ a \in 0..(Ahead(S.vr, ns) - 1)
  /\ \A j \in a..(Ahead(S.vr, ns) - 1) : S.rxdata_by_ns[AX25MODULO(S.vr + j)] = NULL

(* The requests are for the frames from the a-th to before the d-th, in    *)
(* order.                                                                  *)
Wanted(S, w, a, d) ==
  /\ \A g \in In(w) : \E i \in a..(d - 1) : Asking(S, i, g)
  /\ \A g, h : Precedes(w, g, h) =>
       \E i, j \in a..(d - 1) : i < j /\ Asking(S, i, g) /\ Asking(S, j, h)
(* What send_srej_frames changes and sends.                                *)
Asks(T, R, ns) ==
  \E b \in BOOLEAN : \E a :
    /\ R = [T EXCEPT !.acknowledge_pending = b, !.out = R.out]
    /\ Missing(T, ns, a)
    /\ FramesOf(R.out) \in Seq(Frame) /\ \A f \in In(FramesOf(R.out)) : FromReceiver(f)
    /\ Wanted(T, FramesOf(R.out), a, Ahead(T.vr, ns))

(* Its loop back from ns stops at the first frame that is kept, and asks   *)
(* for those after it.                                                     *)
LEMMA AsksFor ==
  ASSUME NEW T, Rec(T), T.out = << >>, T.vr \in Number, NEW ns \in Number, ns # T.vr,
         T.rxdata_by_ns[AX25MODULO(ns - 1)] = NULL
  PROVE  Asks(T, send_srej_frames(T, ns), ns)
<1> DEFINE a == GapStart(T, ns)
           d == Ahead(T.vr, ns)
           n == d - a
           R == send_srej_frames(T, ns)
           ask(i) == AX25MODULO(T.vr + a + i - 1)
           v == [i \in 1..n |-> ax25_s_frame("cr_res", "SREJ", ask(i), IF ask(i) = T.vr THEN 1 ELSE 0)]
           o == << >> \o [i \in 1..n |-> <<TQ_PRIO_1_LO, v[i]>>]
           b == T.acknowledge_pending /\ a # 0
<1>1. Missing(T, ns, a)
  BY GapStartIs DEF Missing
<1>2. d \in Number /\ d \in Int /\ a \in Int /\ n \in Nat /\ T.vr \in Int
  BY <1>1, AheadIs, Bounds DEF Missing
<1>3. \A i \in 1..n : ask(i) \in Number /\ ask(i) = AX25MODULO(T.vr + (a + i - 1))
  <2> TAKE i \in 1..n
  <2>0. T.vr + a + i - 1 = T.vr + (a + i - 1) /\ T.vr + (a + i - 1) \in Int
    BY <1>2
  <2> DEFINE x == T.vr + (a + i - 1)
  <2>1. x \in Int /\ -Modulo <= x /\ x < 2 * Modulo
    <3>1. a \in 0..(d - 1) /\ d \in 0..(Modulo - 1) /\ T.vr \in 0..(Modulo - 1)
      BY <1>1, <1>2, Bounds DEF Missing, Number
    <3>2. Modulo \in Nat \ {0} /\ n = d - a
      BY LinkAssumption
    <3> HIDE DEF a, d, n
    <3>3. QED
      BY <3>1, <3>2
  <2> HIDE DEF x
  <2>2. AX25MODULO(x) \in Number
    BY <2>1, Wrap
  <2>3. QED
    BY <2>0, <2>2 DEF x
<1>4. \A i \in 1..n : FromReceiver(v[i]) /\ Asking(T, a + i - 1, v[i])
  <2> TAKE i \in 1..n
  <2> DEFINE p == IF ask(i) = T.vr THEN 1 ELSE 0
  <2>1. p \in {0, 1} /\ "cr_res" \in CmdRes /\ "SREJ" \in {"RR", "SREJ"}
    BY DEF CmdRes
  <2>2. v[i] = ax25_s_frame("cr_res", "SREJ", ask(i), p)
    OBVIOUS
  <2>3. (p = 1 => ask(i) = T.vr)
    OBVIOUS
  <2>4. ask(i) \in Number /\ ask(i) = AX25MODULO(T.vr + (a + i - 1))
    BY <1>3
  <2> HIDE DEF p, ask, v
  <2>5. v[i].type = "SREJ" /\ v[i].nr = ask(i) /\ v[i].pf = p /\ FromReceiver(v[i])
    BY <2>1, <2>2, <2>4, Built
  <2>6. QED
    BY <2>3, <2>4, <2>5 DEF Asking
<1>5. v \in [1..n -> Frame]
  BY <1>4 DEF FromReceiver
<1>6. R.out = o /\ b \in BOOLEAN /\ R = [T EXCEPT !.acknowledge_pending = b, !.out = o]
  BY DEF send_srej_frames, Rec, Fields
<1> HIDE DEF a, d, v, R
<1>7. FramesOf(o) = v /\ v \in Seq(Frame)
  BY <1>2, <1>5, FramesOfMany
<1> HIDE DEF o, b
<1>8. DOMAIN v = 1..n
  BY <1>5
<1>9. \A f \in In(v) : FromReceiver(f)
  BY <1>4, <1>8 DEF In
<1>10. \A g \in In(v) : \E i \in a..(d - 1) : Asking(T, i, g)
  <2> TAKE g \in In(v)
  <2>1. PICK k \in 1..n : g = v[k]
    BY <1>8 DEF In
  <2>2. a + k - 1 \in a..(d - 1)
    BY <1>2
  <2>3. Asking(T, a + k - 1, g)
    BY <1>4, <2>1
  <2>4. QED
    BY <2>2, <2>3
<1>11. ASSUME NEW g, NEW h, Precedes(v, g, h)
       PROVE  \E i, j \in a..(d - 1) : i < j /\ Asking(T, i, g) /\ Asking(T, j, h)
  <2>1. PICK k \in 1..n, l \in 1..n : k < l /\ g = v[k] /\ h = v[l]
    BY <1>8, <1>11 DEF Precedes
  <2>2. /\ a + k - 1 \in a..(d - 1) /\ a + l - 1 \in a..(d - 1)
        /\ a + k - 1 < a + l - 1
    BY <1>2, <2>1
  <2>3. Asking(T, a + k - 1, g) /\ Asking(T, a + l - 1, h)
    BY <1>4, <2>1
  <2>4. QED
    BY <2>2, <2>3
<1>12. Wanted(T, v, a, d)
  BY <1>10, <1>11 DEF Wanted
<1>13. QED
  BY <1>1, <1>6, <1>7, <1>9, <1>12 DEF Asks, R, d, b

(* What becomes of a frame that is not the one expected.                   *)
Held(S, R, ns, info) ==
  LET d == Ahead(S.vr, ns)
      w == FramesOf(R.out)
  IN /\ R.rxdata_by_ns = [S.rxdata_by_ns EXCEPT ![ns] = info]
     /\ d < Modulo - 1
     /\ w \in Seq(Frame) /\ \A f \in In(w) : FromReceiver(f)
     /\ \E a \in 0..d : /\ \A j \in a..(d - 1) : R.rxdata_by_ns[AX25MODULO(S.vr + j)] = NULL
                        /\ Wanted(S, w, a, d)
HeldOrNot(S, R, ns, info) ==
  /\ Rec(R) /\ R.va = 0 /\ R.vs = 0 /\ R.i_frame_queue = << >>
  /\ ~R.peer_receiver_busy /\ R.state \in Connected /\ R.vr = S.vr /\ R.up = << >>
  /\ (R.out = << >> /\ R.rxdata_by_ns = S.rxdata_by_ns) \/ Held(S, R, ns, info)

(* OutOfSequence keeps the frame, or drops it outside the window.          *)
LEMMA Kept ==
  ASSUME NEW S, Receiver(S), NEW U, BeforeContinuing(S, U), NEW ns \in Number, NEW info,
         ns # S.vr
  PROVE  HeldOrNot(S, OutOfSequence(U, 0, ns, info), ns, info)
<1> DEFINE T == [U EXCEPT !.rxdata_by_ns = [@ EXCEPT ![ns] = info]]
           R == OutOfSequence(U, 0, ns, info)
           W == send_srej_frames(T, ns)
           d == Ahead(S.vr, ns)
           rx == [S.rxdata_by_ns EXCEPT ![ns] = info]
<1>1. /\ Rec(U) /\ U.out = << >> /\ U.up = << >> /\ U.va = 0 /\ U.vs = 0 /\ U.i_frame_queue = << >>
      /\ ~U.peer_receiver_busy /\ U.state \in Connected
      /\ U.vr = S.vr /\ U.rxdata_by_ns = S.rxdata_by_ns
  BY DEF BeforeContinuing, Quiescent
<1>2. /\ Rec(T) /\ T.out = << >> /\ T.up = << >> /\ T.va = 0 /\ T.vs = 0 /\ T.i_frame_queue = << >>
      /\ ~T.peer_receiver_busy /\ T.state \in Connected
      /\ T.vr = S.vr /\ T.rxdata_by_ns = rx
  BY <1>1 DEF Rec, Fields
<1>3. S.vr \in Number /\ S.rxdata_by_ns \in [Number -> Info \cup {NULL}]
  BY LinkTypes DEF Receiver, Idle, LinkInv, Sound
<1>4. d \in Number /\ d \in Nat
  BY <1>3, AheadIs, Bounds
<1>5. CASE ~is_ns_in_window(U, ns)
  <2>1. R = U
    BY <1>5 DEF OutOfSequence
  <2> HIDE DEF R
  <2>2. QED
    BY <1>1, <2>1 DEF R, HeldOrNot
<1>6. CASE is_ns_in_window(U, ns) /\ U.rxdata_by_ns[AX25MODULO(ns - 1)] # NULL
  <2>1. R = T
    BY <1>6 DEF OutOfSequence
  <2>2. d < Modulo - 1
    BY <1>1, <1>6 DEF is_ns_in_window
  <2>3. << >> \in Seq(Frame)
    OBVIOUS
  <2> HIDE DEF R, T
  <2>4. /\ FramesOf(R.out) = << >> /\ In(FramesOf(R.out)) = {}
        /\ \A g, h : ~Precedes(FramesOf(R.out), g, h)
    BY <1>2, <2>1, NothingOut
  <2>5. d \in 0..d /\ d..(d - 1) = {}
    BY <1>4
  <2>6. Wanted(S, FramesOf(R.out), d, d)
    BY <2>4 DEF Wanted
  <2>7. Held(S, R, ns, info)
    BY <1>2, <2>1, <2>2, <2>3, <2>4, <2>5, <2>6 DEF Held
  <2>8. QED
    BY <1>2, <2>1, <2>7 DEF R, HeldOrNot
<1>7. CASE is_ns_in_window(U, ns) /\ U.rxdata_by_ns[AX25MODULO(ns - 1)] = NULL
  <2>1. R = W
    BY <1>7 DEF OutOfSequence
  <2>2. d < Modulo - 1
    BY <1>1, <1>7 DEF is_ns_in_window
  <2>3. AX25MODULO(ns - 1) \in Number /\ AX25MODULO(ns - 1) # ns
    <3>1. Modulo > 1
      BY <1>4, <2>2, Bounds
    <3>2. QED
      BY <3>1, Before, Bounds
  <2>4. T.rxdata_by_ns[AX25MODULO(ns - 1)] = NULL
    BY <1>1, <1>2, <1>3, <1>7, <2>3
  <2> HIDE DEF T
  <2>5. Asks(T, W, ns)
    BY <1>2, <1>3, <2>4, AsksFor
  <2> HIDE DEF R, W
  <2>5a. PICK b \in BOOLEAN : \E a :
            /\ W = [T EXCEPT !.acknowledge_pending = b, !.out = W.out]
            /\ Missing(T, ns, a)
            /\ FramesOf(W.out) \in Seq(Frame) /\ \A f \in In(FramesOf(W.out)) : FromReceiver(f)
            /\ Wanted(T, FramesOf(W.out), a, Ahead(T.vr, ns))
    BY <2>5 DEF Asks
  <2>6. PICK a :
            /\ W = [T EXCEPT !.acknowledge_pending = b, !.out = W.out]
            /\ Missing(T, ns, a)
            /\ FramesOf(W.out) \in Seq(Frame) /\ \A f \in In(FramesOf(W.out)) : FromReceiver(f)
            /\ Wanted(T, FramesOf(W.out), a, Ahead(T.vr, ns))
    BY <2>5a
  <2>7. /\ Rec(W) /\ W.up = << >> /\ W.va = 0 /\ W.vs = 0 /\ W.i_frame_queue = << >>
        /\ ~W.peer_receiver_busy /\ W.state \in Connected
        /\ W.vr = S.vr /\ W.rxdata_by_ns = rx
    BY <1>2, <2>6 DEF Rec, Fields
  <2>8. Wanted(S, FramesOf(W.out), a, d)
    BY <1>2, <2>6 DEF Wanted, Asking
  <2>9. /\ a \in 0..d
        /\ \A j \in a..(d - 1) : rx[AX25MODULO(S.vr + j)] = NULL
    BY <1>2, <1>4, <2>6 DEF Missing
  <2>10. Held(S, W, ns, info)
    BY <2>2, <2>6, <2>7, <2>8, <2>9 DEF Held
  <2>11. QED
    BY <2>1, <2>7, <2>10 DEF R, HeldOrNot
<1>8. QED
  BY <1>5, <1>6, <1>7

(* An I frame is dropped, given up, or kept.                               *)
LEMMA ReceiverHearsI ==
  ASSUME NEW S, Receiver(S), NEW f \in Frame, f.type = "I", f.nr = 0, f.pf = 0
  PROVE  LET T == lm_data_indication(S, Received(f))
             w == FramesOf(T.out)
         IN \/ Stays(S, T, w)
            \/ f.ns = S.vr /\ Gives(S, T, w, f.info)
            \/ /\ f.ns # S.vr /\ Ahead(S.vr, f.ns) < Modulo - 1
               /\ \E a : Stashes(S, T, w, f, a)
<1> DEFINE R == i_frame(S, "cr_11", f.pf, f.nr, f.ns, f.info)
           T == lm_data_indication(S, Received(f))
           w == FramesOf(T.out)
           d == Ahead(S.vr, f.ns)
<1>1. R = Dispatch(S, Received(f)) /\ f.ns \in Number
  BY DispatchIs DEF Frame
<1>2. /\ Rec(S) /\ S.out = << >> /\ S.up = << >> /\ S.va = 0 /\ S.vs = 0
      /\ S.i_frame_queue = << >> /\ ~S.peer_receiver_busy /\ S.state \in {0, 3, 4}
      /\ LinkInv(S)
  BY ReceiverParts
<1>3. CASE S.state \notin Connected
  <2>1. S.state = 0
    BY <1>2, <1>3, InStates
  <2>2. RefuseCommand(S, "cr_11", f.pf) = S
    BY DEF RefuseCommand
  <2>3. R = S
    BY <2>1, <2>2, InStates DEF i_frame
  <2> HIDE DEF R
  <2>4. T = S
    BY <1>1, <1>2, <2>3, ReceiverIndication
  <2> HIDE DEF T
  <2>5. QED
    BY <1>2, <2>4, Stayed DEF T
<1>4. CASE S.state \in Connected
  <2>1. PICK U : BeforeContinuing(S, U) /\ R = i_frame_continued(U, 0, f.ns, f.info)
    BY <1>4, IFrameIs
  <2>2. U.vr = S.vr
    BY <2>1 DEF BeforeContinuing
  <2>2a. \A s \in Connected : s \in {0, 3, 4}
    BY InStates
  <2>3. CASE f.ns = S.vr
    <3> DEFINE A == Acknowledge(InSequence(U, f.info), 0)
    <3>1. R = A
      BY <2>1, <2>2, <2>3 DEF i_frame_continued
    <3>2. GivesUpTo(S, A, f.info)
      BY <2>1, Given
    <3> HIDE DEF A, R
    <3>3. T = A /\ LinkInv(A)
      BY <1>1, <3>1, <3>2, ReceiverIndication DEF GivesUpTo
    <3> HIDE DEF T
    <3>4. w \in Seq(Frame) /\ \A g \in In(w) : FromReceiver(g) /\ g.type = "null"
      <4>0. << >> \in Seq(Frame)
        OBVIOUS
      <4>1. CASE T.out = << >>
        BY <4>0, <4>1, NothingOut
      <4>2. CASE T.out = Append(<< >>, <<TQ_PRIO_1_LO, NullFrame>>)
        <5> HIDE DEF w
        <5>0. NullFrame \in Frame
          BY Built
        <5>1. FramesOf(T.out) \in Seq(Frame) /\ In(FramesOf(T.out)) = {NullFrame}
          <6> HIDE DEF d
          <6>1. QED
            BY <4>2, <5>0, OneOut
        <5>2. QED
          BY <5>1, Built DEF w
      <4>3. QED
        BY <3>2, <3>3, <4>1, <4>2 DEF GivesUpTo
    <3>5. Gives(S, T, w, f.info)
      BY <2>2a, <3>2, <3>3, <3>4 DEF Gives, ReceiverAfter, GivesUpTo
    <3>6. QED
      BY <2>3, <3>5 DEF T
  <2>4. CASE f.ns # S.vr
    <3> DEFINE A == OutOfSequence(U, 0, f.ns, f.info)
               v == FramesOf(A.out)
    <3>1. R = A
      BY <2>1, <2>2, <2>4 DEF i_frame_continued
    <3>2. HeldOrNot(S, A, f.ns, f.info)
      BY <1>1, <2>1, <2>4, Kept
    <3> HIDE DEF A, R
    <3>3. T = A /\ LinkInv(A)
      BY <1>1, <3>1, <3>2, ReceiverIndication DEF HeldOrNot
    <3> HIDE DEF T
    <3>4. CASE A.out = << >> /\ A.rxdata_by_ns = S.rxdata_by_ns
      BY <2>2a, <3>2, <3>3, <3>4, Stayed DEF T, HeldOrNot
    <3>5. ASSUME Held(S, A, f.ns, f.info)
          PROVE  d < Modulo - 1 /\ \E a : Stashes(S, T, w, f, a)
      <4>1. PICK a \in 0..d :
              /\ \A j \in a..(d - 1) : A.rxdata_by_ns[AX25MODULO(S.vr + j)] = NULL
              /\ Wanted(S, v, a, d)
        BY <3>5 DEF Held
      <4>2. Stashes(S, T, w, f, a)
        BY <2>2a, <3>2, <3>3, <3>5, <4>1 DEF Stashes, ReceiverAfter, Held, HeldOrNot,
           Wanted
      <4>3. QED
        BY <3>5, <4>2 DEF Held
    <3>6. QED
      BY <2>4, <3>2, <3>4, <3>5 DEF T, HeldOrNot
  <2>5. QED
    BY <2>3, <2>4
<1>5. QED
  BY <1>3, <1>4

-----------------------------------------------------------------------------
(* The receiver's timers and its confirm.                                  *)

(* The receiver's timers and its confirm.                                  *)
LEMMA ReceiverT1 ==
  ASSUME NEW S, Receiver(S)
  PROVE  LET T == dl_timer_t1(S) IN Stays(S, T, FramesOf(T.out))
<1> DEFINE A == [S EXCEPT !.t1 = FALSE, !.t1_paused = FALSE]
           T == dl_timer_t1(S)
           r == ax25_s_frame("cr_cmd", "RR", A.vr, 1)
           d == Dm(0)
<1>1. /\ Rec(S) /\ S.out = << >> /\ S.up = << >> /\ S.va = 0 /\ S.vs = 0
      /\ S.i_frame_queue = << >> /\ ~S.peer_receiver_busy /\ S.state \in {0, 3, 4}
      /\ S.vr \in Number
  BY ReceiverParts
<1>2. /\ Rec(A) /\ A.out = << >> /\ A.up = << >> /\ A.va = 0 /\ A.vs = 0
      /\ A.i_frame_queue = << >> /\ ~A.peer_receiver_busy /\ A.state = S.state
      /\ A.vr = S.vr /\ A.rxdata_by_ns = S.rxdata_by_ns /\ A.rc = S.rc
  BY <1>1 DEF Rec, Fields
<1>3. T = t1_expiry(A)
  BY DEF dl_timer_t1
<1>4. LinkInv(T)
  BY T1Step DEF Receiver, Idle, Step
<1>5. FromReceiver(r) /\ r.type = "RR" /\ r.nr = S.vr
  <2>1. "cr_cmd" \in CmdRes /\ "RR" \in {"RR", "SREJ"} /\ 1 \in {0, 1}
    BY CmdResFacts
  <2>2. QED
    BY <1>1, <1>2, <2>1, Built
<1>6. FromReceiver(d) /\ d.type = "DM"
  BY Built, CmdResFacts DEF Dm
<1> HIDE DEF A, T, r, d
<1>7. CASE S.state = 0
  <2>1. T = A
    BY <1>2, <1>3, <1>7, InStates DEF t1_expiry
  <2>2. QED
    BY <1>1, <1>2, <1>4, <2>1, Stayed DEF T
<1>8. CASE S.state = 3
  <2>1. T = BeginRecovery(A)
    BY <1>2, <1>3, <1>8, InStates DEF t1_expiry
  <2>2. /\ Rec(T) /\ T.vr = A.vr /\ ~T.peer_receiver_busy /\ T.state = 4
        /\ T.i_frame_queue = << >> /\ T.out = Append(<< >>, <<TQ_PRIO_1_LO, r>>)
        /\ SameWindow(A, T) /\ T.up = << >> /\ T.rxdata_by_ns = A.rxdata_by_ns
    BY <1>1, <1>2, <2>1, BeginIs DEF r
  <2>3. QED
    BY <1>2, <1>4, <1>5, <2>2, Stayed DEF SameWindow, T
<1>9. CASE S.state = 4
  <2>1. CASE A.rc = n2_retry
    <3>1. T = enter_new_state(SendLow(discard_i_queue(A), d), state_0_disconnected)
      BY <1>2, <1>3, <1>9, <2>1, InStates DEF t1_expiry, d
    <3>2. /\ Rec(T) /\ T.vr = S.vr /\ ~T.peer_receiver_busy /\ T.state = state_0_disconnected
          /\ T.i_frame_queue = << >> /\ T.out = Append(<< >>, <<TQ_PRIO_1_LO, d>>)
          /\ T.va = 0 /\ T.vs = 0 /\ T.up = << >> /\ T.rxdata_by_ns = S.rxdata_by_ns
      BY <1>2, <3>1 DEF Rec, Fields, enter_new_state, discard_i_queue, SendLow,
         lm_data_request
    <3>3. QED
      BY <1>4, <1>6, <3>2, InStates, Stayed DEF T
  <2>2. CASE A.rc # n2_retry
    <3> DEFINE m == A.rc + 1
    <3>1. T = transmit_enquiry([A EXCEPT !.rc = m])
      BY <1>2, <1>3, <1>9, <2>2, InStates DEF t1_expiry
    <3> HIDE DEF m
    <3>2. /\ Rec(T) /\ T.vr = A.vr /\ ~T.peer_receiver_busy /\ T.state = A.state
          /\ T.i_frame_queue = << >> /\ T.out = Append(<< >>, <<TQ_PRIO_1_LO, r>>)
          /\ SameWindow(A, T) /\ T.up = << >> /\ T.rxdata_by_ns = A.rxdata_by_ns
      BY <1>1, <1>2, <3>1, BeginIs DEF r
    <3>3. QED
      BY <1>1, <1>2, <1>4, <1>5, <3>2, Stayed DEF SameWindow, T
  <2>3. QED
    BY <2>1, <2>2
<1>10. QED
  BY <1>1, <1>7, <1>8, <1>9 DEF T

LEMMA ReceiverT3 ==
  ASSUME NEW S, Receiver(S)
  PROVE  LET T == dl_timer_t3(S) IN Stays(S, T, FramesOf(T.out))
<1> DEFINE A == [S EXCEPT !.t3 = FALSE]
           T == dl_timer_t3(S)
           r == ax25_s_frame("cr_cmd", "RR", A.vr, 1)
<1>1. /\ Rec(S) /\ S.out = << >> /\ S.up = << >> /\ S.va = 0 /\ S.vs = 0
      /\ S.i_frame_queue = << >> /\ ~S.peer_receiver_busy /\ S.state \in {0, 3, 4}
      /\ S.vr \in Number
  BY ReceiverParts
<1>2. /\ Rec(A) /\ A.out = << >> /\ A.up = << >> /\ A.va = 0 /\ A.vs = 0
      /\ A.i_frame_queue = << >> /\ ~A.peer_receiver_busy /\ A.state = S.state
      /\ A.vr = S.vr /\ A.rxdata_by_ns = S.rxdata_by_ns
  BY <1>1 DEF Rec, Fields
<1>3. T = t3_expiry(A)
  BY DEF dl_timer_t3
<1>4. LinkInv(T)
  BY T3Step DEF Receiver, Idle, Step
<1>5. FromReceiver(r) /\ r.type = "RR" /\ r.nr = S.vr
  <2>1. "cr_cmd" \in CmdRes /\ "RR" \in {"RR", "SREJ"} /\ 1 \in {0, 1}
    BY CmdResFacts
  <2>2. QED
    BY <1>1, <1>2, <2>1, Built
<1> HIDE DEF A, T, r
<1>6. CASE S.state = 3
  <2>1. T = BeginRecovery(A)
    BY <1>2, <1>3, <1>6, InStates DEF t3_expiry
  <2>2. /\ Rec(T) /\ T.vr = A.vr /\ ~T.peer_receiver_busy /\ T.state = 4
        /\ T.i_frame_queue = << >> /\ T.out = Append(<< >>, <<TQ_PRIO_1_LO, r>>)
        /\ SameWindow(A, T) /\ T.up = << >> /\ T.rxdata_by_ns = A.rxdata_by_ns
    BY <1>1, <1>2, <2>1, BeginIs DEF r
  <2>3. QED
    BY <1>2, <1>4, <1>5, <2>2, Stayed DEF SameWindow, T
<1>7. CASE S.state # 3
  <2>1. T = A
    BY <1>2, <1>3, <1>7, InStates DEF t3_expiry
  <2>2. QED
    BY <1>1, <1>2, <1>4, <2>1, Stayed DEF T
<1>8. QED
  BY <1>6, <1>7

LEMMA ReceiverSeizes ==
  ASSUME NEW S, Receiver(S)
  PROVE  LET T == lm_seize_confirm(S) IN Stays(S, T, FramesOf(T.out))
<1> DEFINE T == lm_seize_confirm(S)
           r == ax25_s_frame("cr_res", "RR", S.vr, 0)
<1>1. /\ Rec(S) /\ S.out = << >> /\ S.up = << >> /\ S.va = 0 /\ S.vs = 0
      /\ S.i_frame_queue = << >> /\ ~S.peer_receiver_busy /\ S.state \in {0, 3, 4}
      /\ S.vr \in Number /\ LinkInv(S)
  BY ReceiverParts
<1>2. ToSend(S) = 0
  <2>1. ToSend(S) \in Nat /\ ToSend(S) <= Len(S.i_frame_queue)
    BY <1>1, ToSendIs DEF LinkInv, Sound
  <2>2. QED
    BY <1>1, <2>1
<1>3. LinkInv(T)
  BY SeizeStep DEF Receiver, Idle, Step
<1>4. FromReceiver(r) /\ r.type = "RR" /\ r.nr = S.vr
  <2>1. "cr_res" \in CmdRes /\ "RR" \in {"RR", "SREJ"} /\ 0 \in {0, 1}
    BY CmdResFacts
  <2>2. QED
    BY <1>1, <2>1, Built
<1>5. T \in {S, enquiry_response(S, 0)}
  BY <1>2 DEF lm_seize_confirm, i_frame_pop_off_queue
<1> HIDE DEF T
<1>6. CASE T = S
  BY <1>1, <1>6, Stayed DEF T
<1>7. CASE T = enquiry_response(S, 0)
  <2>1. /\ Rec(T) /\ T.vr = S.vr /\ ~T.peer_receiver_busy /\ T.state = S.state
        /\ T.va = 0 /\ T.vs = 0 /\ T.up = << >> /\ T.rxdata_by_ns = S.rxdata_by_ns
        /\ T.i_frame_queue = << >> /\ T.out = Append(<< >>, <<TQ_PRIO_1_LO, r>>)
    BY <1>1, <1>7 DEF Rec, Fields, enquiry_response, SendLow, lm_data_request
  <2> HIDE DEF r
  <2>2. QED
    BY <1>1, <1>3, <1>4, <2>1, Stayed DEF T
<1>8. QED
  BY <1>5, <1>6, <1>7

-----------------------------------------------------------------------------
(* The invariant of the pair.                                              *)

(* The parts A has taken from its queue, and the first of them that it     *)
(* still keeps.                                                            *)
Taken(A, acc) == acc - Len(A.i_frame_queue)
First(A, acc) == (Taken(A, acc) + 1) - Outstanding(A)

(* The peer keeps part z, out of sequence.                                 *)
KeptAt(rx, base, r, top, z) == z \in (r + 1)..top /\ rx[Num(base, z)] = z

(* What is under way for part t comes before what is for part u: it may be *)
(* the later part only if the peer already keeps one in between.           *)
Ord(rx, base, r, top, t, u) ==
  t # u /\ (u < t => \E z \in (u + 1)..(t - 1) : KeptAt(rx, base, r, top, z))

(* Nothing was heard since the numbers were reset.                         *)
Fresh(rx, base, r) == r = base + 1 /\ \A n \in Number : rx[n] = NULL

(* Each end for itself: what may be in its queue, and A's parts in order.  *)
Ends(A, B, qA, qB, acc) ==
  /\ Sender(A) /\ Receiver(B) /\ acc \in Nat /\ acc <= Parts
  /\ qA \in Seq(Frame) /\ \A f \in In(qA) : FromSender(f)
  /\ qB \in Seq(Frame) /\ \A f \in In(qB) : FromReceiver(f)
  /\ Taken(A, acc) \in Nat
  /\ \A i \in 1..Len(A.i_frame_queue) : A.i_frame_queue[i] = Taken(A, acc) + i

(* B expects part r, of parts up to top; the distance is less than the     *)
(* modulus.                                                                *)
Counted(vr, base, r, top, taken, last) ==
  /\ base \in Nat /\ r \in Nat /\ top \in Nat /\ last \in Nat
  /\ base < r /\ r <= top + 1 /\ top <= taken /\ top - r <= Modulo - 2
  /\ vr = Num(base, r) /\ last < r

(* What B keeps is a part between r and top, under its number.             *)
Stash(rx, base, r, top) ==
  \A n \in Number : rx[n] # NULL =>
    \E z \in (r + 1)..top : n = Num(base, z) /\ rx[n] = z

(* An I frame under way carries a part B may still use, under its number,  *)
(* and in its place.                                                       *)
IFrames(rx, qA, base, r, top) ==
  /\ \A f \in In(qA) : f.type = "I" =>
       f.info \in r..top /\ f.ns = Num(base, f.info) /\ rx[f.ns] = NULL
  /\ \A f, g : Precedes(qA, f, g) /\ f.type = "I" /\ g.type = "I" =>
       Ord(rx, base, r, top, f.info, g.info)

(* A queue has a frame of a type, or two types in the wrong order.         *)
Has(q, type) == \E f \in In(q) : f.type = type
IBeforeSabm(q) == \E f, g : Precedes(q, f, g) /\ f.type = "I" /\ g.type = "SABM"
SabmBeforeI(q) == \E f, g : Precedes(q, f, g) /\ f.type = "SABM" /\ g.type = "I"

(* A SABM under way changes nothing when it is heard, or A still waits for *)
(* its answer.                                                             *)
Sabms(state, rx, qA, base, r) ==
  /\ state \in Connected /\ Has(qA, "SABM") => Fresh(rx, base, r) /\ ~IBeforeSabm(qA)
  /\ state = 1 => ~SabmBeforeI(qA)
  /\ SabmBeforeI(qA) => Fresh(rx, base, r) /\ ~IBeforeSabm(qA)

(* A UA that A waits for answers its last attempt: the parts begin anew    *)
(* after those taken.                                                      *)
Uas(state, rx, qA, qB, base, r, taken) ==
  state = 1 /\ Has(qB, "UA") =>
    /\ ~Has(qA, "I") /\ Fresh(rx, base, r) /\ base = taken
    /\ \A f, g : Precedes(qB, f, g) /\ f.type = "UA" =>
         g.type # "SREJ" /\ (g.type = "RR" => g.nr = 0)

(* A connected sender keeps the parts from first to the last it took, and  *)
(* B expects one of them or the next.                                      *)
Window(A, base, r, top, taken, first) ==
  /\ top = taken /\ base < first /\ first <= r
  /\ A.va = Num(base, first) /\ A.vs = Num(base, taken + 1)
  /\ \A p \in first..taken : A.txdata_by_ns[Num(base, p)] = p

(* The acknowledgements under way are of parts from first to r, and in     *)
(* order.                                                                  *)
IsAck(f) == f.type = "RR" \/ (f.type = "SREJ" /\ f.pf = 1)
Acks(qB, base, r, first) ==
  /\ \A f \in In(qB) : f.type = "RR" => \E y \in first..r : f.nr = Num(base, y)
  /\ \A f, g : Precedes(qB, f, g) /\ IsAck(f) /\ IsAck(g) =>
       \A y, z \in first..r : f.nr = Num(base, y) /\ g.nr = Num(base, z) => y <= z

(* f asks for part x, which B misses and of which it keeps a later one.    *)
AsksFrom(rx, f, base, r, top, x) ==
  /\ f.nr = Num(base, x) /\ rx[f.nr] = NULL /\ (f.pf = 1 => x = r)
  /\ \E z \in (x + 1)..top : KeptAt(rx, base, r, top, z)
(* The requests under way are such, and none comes after the part it asks  *)
(* for.                                                                    *)
Srejs(rx, qA, qB, base, r, top) ==
  /\ \A f \in In(qB) : f.type = "SREJ" =>
       /\ \E x \in r..top : AsksFrom(rx, f, base, r, top, x)
       /\ \A g \in In(qA) : g.type = "I" =>
            \A x \in r..top : f.nr = Num(base, x) => Ord(rx, base, r, top, g.info, x)
  /\ \A f, g : Precedes(qB, f, g) /\ f.type = "SREJ" /\ g.type = "SREJ" =>
       \A x, y \in r..top : f.nr = Num(base, x) /\ g.nr = Num(base, y) =>
         Ord(rx, base, r, top, x, y)

(* What holds more while A is connected.                                   *)
Joined(A, rx, qA, qB, base, r, top, taken, first) ==
  /\ Window(A, base, r, top, taken, first)
  /\ Acks(qB, base, r, first)
  /\ Srejs(rx, qA, qB, base, r, top)

(* The invariant of the two links, for given numbers base, r and top.      *)
Pair(A, B, qA, qB, acc, last, base, r, top) ==
  /\ Ends(A, B, qA, qB, acc)
  /\ Counted(B.vr, base, r, top, Taken(A, acc), last)
  /\ Stash(B.rxdata_by_ns, base, r, top)
  /\ IFrames(B.rxdata_by_ns, qA, base, r, top)
  /\ Sabms(A.state, B.rxdata_by_ns, qA, base, r)
  /\ Uas(A.state, B.rxdata_by_ns, qA, qB, base, r, Taken(A, acc))
  /\ A.state \in Connected =>
       Joined(A, B.rxdata_by_ns, qA, qB, base, r, top, Taken(A, acc), First(A, acc))

(* A queue that is part of another, or another with more at its end.       *)
Longer(q, w, p) ==
  /\ p \in Seq(Frame)
  /\ \A f \in In(p) : f \in In(q) \/ f \in In(w)
  /\ \A f, g : Precedes(p, f, g) =>
       Precedes(q, f, g) \/ (f \in In(q) /\ g \in In(w)) \/ Precedes(w, f, g)
Fewer(q, p) ==
  /\ p \in Seq(Frame)
  /\ \A f \in In(p) : f \in In(q)
  /\ \A f, g : Precedes(p, f, g) => Precedes(q, f, g)

(* Taking from a queue, and adding to it.                                  *)
LEMMA FewerIsLonger ==
  ASSUME NEW q, NEW p, Fewer(q, p)
  PROVE  Longer(q, << >>, p)
  BY DEF Fewer, Longer

LEMMA SameIsFewer ==
  ASSUME NEW q \in Seq(Frame)
  PROVE  Fewer(q, q)
  BY DEF Fewer

LEMMA TailIsFewer ==
  ASSUME NEW q \in Seq(Frame), q # << >>
  PROVE  /\ Fewer(q, Tail(q)) /\ Head(q) \in In(q) /\ Head(q) \in Frame
         /\ \A f \in In(Tail(q)) : Precedes(q, Head(q), f)
<1>1. QED
  BY TailQueue DEF Fewer

LEMMA JoinIsLonger ==
  ASSUME NEW q \in Seq(Frame), NEW w \in Seq(Frame)
  PROVE  Longer(q, w, q \o w)
  BY JoinQueue DEF Longer

(* Places stay as they are while what is kept stays.                       *)
LEMMA OrdFrom ==
  ASSUME NEW rx, NEW base, NEW r, NEW top, NEW t, NEW u, Ord(rx, base, r, top, t, u),
         NEW rx2, NEW r2, NEW top2,
         \A z : z \in (u + 1)..(t - 1) /\ KeptAt(rx, base, r, top, z) =>
                KeptAt(rx2, base, r2, top2, z)
  PROVE  Ord(rx2, base, r2, top2, t, u)
  BY DEF Ord

(* Each part of the invariant, in queues without some frames and with      *)
(* others at their end.                                                    *)
LEMMA IFramesLonger ==
  ASSUME NEW rx, NEW q, NEW base, NEW r, NEW top, IFrames(rx, q, base, r, top),
         NEW w, NEW p, Longer(q, w, p), \A f \in In(w) : f.type # "I"
  PROVE  IFrames(rx, p, base, r, top)
<1>1. \A f \in In(p) : f.type = "I" => f \in In(q)
  BY DEF Longer
<1>2. \A f, g : Precedes(w, f, g) => f \in In(w)
  BY PrecedesIn
<1>3. \A f, g : Precedes(p, f, g) /\ f.type = "I" /\ g.type = "I" => Precedes(q, f, g)
  BY <1>2 DEF Longer
<1>4. QED
  BY <1>1, <1>3 DEF IFrames

LEMMA SabmsQuiet ==
  ASSUME NEW state, NEW rx, NEW q, NEW base, NEW r, Sabms(state, rx, q, base, r),
         NEW w, NEW p, Longer(q, w, p), \A f \in In(w) : f.type # "I",
         (\A f \in In(w) : f.type # "SABM") \/ state = 1,
         NEW state2, state2 \in {state, 0}
  PROVE  Sabms(state2, rx, p, base, r)
<1>1. \A f, g : Precedes(w, f, g) => f \in In(w) /\ g \in In(w)
  BY PrecedesIn
<1>2. SabmBeforeI(p) => SabmBeforeI(q)
  BY <1>1 DEF Longer, SabmBeforeI
<1>3. 0 \notin Connected /\ 1 \notin Connected
  BY InStates
<1>4. CASE state = 1
  BY <1>2, <1>3, <1>4 DEF Sabms
<1>5. CASE \A f \in In(w) : f.type # "SABM"
  <2>1. Has(p, "SABM") => Has(q, "SABM")
    BY <1>5 DEF Longer, Has
  <2>2. IBeforeSabm(p) => IBeforeSabm(q)
    BY <1>1, <1>5 DEF Longer, IBeforeSabm
  <2>3. QED
    BY <1>2, <1>3, <2>1, <2>2 DEF Sabms
<1>6. QED
  BY <1>4, <1>5

LEMMA UasLonger ==
  ASSUME NEW state, NEW rx, NEW qA, NEW qB, NEW base, NEW r, NEW taken,
         Uas(state, rx, qA, qB, base, r, taken),
         NEW wA, NEW pA, Longer(qA, wA, pA), \A f \in In(wA) : f.type # "I",
         NEW wB, NEW pB, Longer(qB, wB, pB), NEW vr, Fresh(rx, base, r) => vr = 0,
         \A f \in In(wB) : f.type \notin {"UA", "SREJ"} /\ (f.type = "RR" => f.nr = vr)
  PROVE  Uas(state, rx, pA, pB, base, r, taken)
<1>1. Has(pB, "UA") => Has(qB, "UA")
  BY DEF Longer, Has
<1>2. Has(pA, "I") => Has(qA, "I")
  BY DEF Longer, Has
<1>3. \A f, g : Precedes(wB, f, g) => f \in In(wB) /\ g \in In(wB)
  BY PrecedesIn
<1>4. ASSUME state = 1, Has(qB, "UA"), NEW f, NEW g, Precedes(pB, f, g), f.type = "UA"
      PROVE  g.type # "SREJ" /\ (g.type = "RR" => g.nr = 0)
  BY <1>3, <1>4 DEF Longer, Uas
<1>5. QED
  BY <1>1, <1>2, <1>4 DEF Uas

LEMMA AcksFewer ==
  ASSUME NEW qB, NEW base, NEW r, NEW first, Acks(qB, base, r, first), NEW pB, Fewer(qB, pB)
  PROVE  Acks(pB, base, r, first)
  BY DEF Acks, Fewer

LEMMA SrejsLonger ==
  ASSUME NEW rx, NEW qA, NEW qB, NEW base, NEW r, NEW top, Srejs(rx, qA, qB, base, r, top),
         NEW wA, NEW pA, Longer(qA, wA, pA), \A f \in In(wA) : f.type # "I",
         NEW wB, NEW pB, Longer(qB, wB, pB), \A f \in In(wB) : f.type # "SREJ"
  PROVE  Srejs(rx, pA, pB, base, r, top)
<1>1. \A g \in In(pA) : g.type = "I" => g \in In(qA)
  BY DEF Longer
<1>2. \A g \in In(pB) : g.type = "SREJ" => g \in In(qB)
  BY DEF Longer
<1>3. \A f, g : Precedes(wB, f, g) => f \in In(wB)
  BY PrecedesIn
<1>4. \A f, g : Precedes(pB, f, g) /\ f.type = "SREJ" /\ g.type = "SREJ" => Precedes(qB, f, g)
  BY <1>3 DEF Longer
<1>5. QED
  BY <1>1, <1>2, <1>4 DEF Srejs

-----------------------------------------------------------------------------
(* A's calls keep it: nothing, the end, a new attempt, its answer.         *)

(* What is kept of a link after a call: its frames are queued, its data is *)
(* given.                                                                  *)
Cleared(T) == [T EXCEPT !.out = << >>, !.up = << >>]

(* Emptying out and up changes nothing else.                               *)
LEMMA ClearedIs ==
  ASSUME NEW T, Rec(T), LinkInv(T)
  PROVE  LET U == Cleared(T) IN
         /\ Idle(U) /\ U.state = T.state /\ SameWindow(T, U) /\ U.vr = T.vr
         /\ U.rxdata_by_ns = T.rxdata_by_ns /\ U.i_frame_queue = T.i_frame_queue
         /\ U.peer_receiver_busy = T.peer_receiver_busy
         /\ Outstanding(U) = Outstanding(T)
<1> DEFINE V == [T EXCEPT !.out = << >>]
           U == Cleared(T)
<1>1. U = [V EXCEPT !.up = << >>]
  BY DEF Cleared, Rec, Fields
<1>2. Quiet(T, V)
  BY OutIsQuiet DEF LinkInv, Sound
<1>3. LinkInv(V) /\ IsLink(V)
  BY <1>2, QuietInv
<1> HIDE DEF V
<1>4. Quiet(V, U)
  <2>1. \A u : Quiet(V, [V EXCEPT !.up = u])
    BY <1>3, OutIsQuiet
  <2> HIDE DEF U
  <2>2. QED
    BY <1>1, <2>1
<1>5. LinkInv(U)
  BY <1>3, <1>4, QuietInv
<1>6. /\ Rec(U) /\ U.out = << >> /\ U.up = << >> /\ U.state = T.state /\ SameWindow(T, U)
      /\ U.vr = T.vr
      /\ U.rxdata_by_ns = T.rxdata_by_ns /\ U.i_frame_queue = T.i_frame_queue
      /\ U.peer_receiver_busy = T.peer_receiver_busy
  BY DEF Cleared, Rec, Fields, SameWindow
<1> HIDE DEF U
<1>7. Outstanding(U) = Outstanding(T)
  BY <1>6 DEF Outstanding, SameWindow
<1>8. QED
  BY <1>5, <1>6, <1>7 DEF Idle, U

(* The ends after a call of A.                                             *)
LEMMA SenderEnds ==
  ASSUME NEW A, NEW B, NEW qA, NEW qB, NEW acc, Ends(A, B, qA, qB, acc),
         NEW T, NEW w, SenderAfter(T, w), NEW pB, Fewer(qB, pB),
         Taken(T, acc) \in Nat,
         \A i \in 1..Len(T.i_frame_queue) : T.i_frame_queue[i] = Taken(T, acc) + i
  PROVE  /\ Ends(Cleared(T), B, qA \o w, pB, acc)
         /\ Longer(qA, w, qA \o w)
         /\ Taken(Cleared(T), acc) = Taken(T, acc) /\ First(Cleared(T), acc) = First(T, acc)
         /\ Cleared(T).state = T.state /\ SameWindow(T, Cleared(T))
<1> DEFINE U == Cleared(T)
<1>1. /\ Idle(U) /\ U.state = T.state /\ SameWindow(T, U) /\ U.vr = T.vr
      /\ U.i_frame_queue = T.i_frame_queue
      /\ U.peer_receiver_busy = T.peer_receiver_busy
      /\ Outstanding(U) = Outstanding(T)
  BY ClearedIs DEF SenderAfter
<1> HIDE DEF U
<1>2. Sender(U)
  BY <1>1 DEF Sender, SenderAfter
<1>3. Taken(U, acc) = Taken(T, acc) /\ First(U, acc) = First(T, acc)
  BY <1>1 DEF Taken, First
<1>4. Longer(qA, w, qA \o w)
  BY JoinIsLonger DEF Ends, SenderAfter
<1>5. \A f \in In(qA \o w) : FromSender(f)
  BY <1>4 DEF Longer, Ends, SenderAfter
<1>6. Ends(U, B, qA \o w, pB, acc)
  BY <1>1, <1>2, <1>3, <1>4, <1>5 DEF Ends, Longer, Fewer
<1>7. QED
  BY <1>1, <1>3, <1>4, <1>6 DEF U

(* The queues and timers move; the numbers do not.                         *)
LEMMA PausesKeeps ==
  ASSUME NEW A, NEW B, NEW qA, NEW qB, NEW acc, NEW last, NEW base, NEW r, NEW top,
         Pair(A, B, qA, qB, acc, last, base, r, top),
         NEW T, NEW w, Pauses(A, T, w), NEW pB, Fewer(qB, pB)
  PROVE  Pair(Cleared(T), B, qA \o w, pB, acc, last, base, r, top)
<1> DEFINE U == Cleared(T)
           pA == qA \o w
           rx == B.rxdata_by_ns
           taken == Taken(A, acc)
<1>1. /\ SenderAfter(T, w) /\ SameWindow(A, T) /\ T.i_frame_queue = A.i_frame_queue
      /\ T.state \in Connected <=> A.state \in Connected
      /\ T.state = 1 <=> A.state = 1
      /\ \A f \in In(w) : f.type # "I" /\ (f.type = "SABM" => A.state = 1)
      /\ T.state \in {0, 1, 3, 4}
  BY DEF Pauses, SenderAfter
<1>2. Taken(T, acc) = taken /\ First(T, acc) = First(A, acc)
  BY <1>1 DEF Taken, First, Outstanding, SameWindow
<1>3. /\ Ends(A, B, qA, qB, acc)
      /\ Counted(B.vr, base, r, top, taken, last)
      /\ Stash(rx, base, r, top)
      /\ IFrames(rx, qA, base, r, top)
      /\ Sabms(A.state, rx, qA, base, r)
      /\ Uas(A.state, rx, qA, qB, base, r, taken)
      /\ A.state \in Connected =>
           Joined(A, rx, qA, qB, base, r, top, taken, First(A, acc))
  BY DEF Pair
<1>4. /\ Ends(U, B, pA, pB, acc) /\ Longer(qA, w, pA)
      /\ Taken(U, acc) = taken /\ First(U, acc) = First(A, acc)
      /\ U.state = T.state /\ SameWindow(A, U)
  <2>1. Taken(T, acc) \in Nat /\ \A i \in 1..Len(T.i_frame_queue) :
          T.i_frame_queue[i] = Taken(T, acc) + i
    BY <1>1, <1>2, <1>3 DEF Ends
  <2>2. /\ Ends(U, B, pA, pB, acc) /\ Longer(qA, w, pA)
        /\ Taken(U, acc) = Taken(T, acc) /\ First(U, acc) = First(T, acc)
        /\ U.state = T.state /\ SameWindow(T, U)
    BY <1>1, <1>3, <2>1, SenderEnds
  <2> HIDE DEF U, pA
  <2>3. QED
    BY <1>1, <1>2, <2>2 DEF SameWindow
<1> HIDE DEF U, pA, rx, taken
<1>5. Longer(qB, << >>, pB) /\ In(<< >>) = {}
  BY FewerIsLonger, EmptyQueue
<1>6. IFrames(rx, pA, base, r, top)
  BY <1>1, <1>3, <1>4, IFramesLonger
<1>7. Sabms(U.state, rx, pA, base, r)
  <2>1. Sabms(A.state, rx, pA, base, r)
    BY <1>1, <1>3, <1>4, SabmsQuiet
  <2>2. QED
    BY <1>1, <1>4, <2>1 DEF Sabms
<1>8. Uas(U.state, rx, pA, pB, base, r, taken)
  <2>1. Uas(A.state, rx, pA, pB, base, r, taken)
    BY <1>1, <1>3, <1>4, <1>5, UasLonger
  <2>2. QED
    BY <1>1, <1>4, <2>1 DEF Uas
<1>9. ASSUME U.state \in Connected
      PROVE  Joined(U, rx, pA, pB, base, r, top, taken, First(A, acc))
  <2>1. Joined(A, rx, qA, qB, base, r, top, taken, First(A, acc))
    BY <1>1, <1>3, <1>4, <1>9
  <2>2. Window(U, base, r, top, taken, First(A, acc))
    BY <1>4, <2>1 DEF Joined, Window, SameWindow
  <2>3. Acks(pB, base, r, First(A, acc))
    BY <2>1, AcksFewer DEF Joined
  <2>4. Srejs(rx, pA, pB, base, r, top)
    BY <1>1, <1>4, <1>5, <2>1, SrejsLonger DEF Joined
  <2>5. QED
    BY <2>2, <2>3, <2>4 DEF Joined
<1>10. QED
  BY <1>3, <1>4, <1>6, <1>7, <1>8, <1>9 DEF Pair, U, pA, rx, taken

(* Pair, with its numbers named.                                           *)
PairParts(A, B, qA, qB, acc, last, base, r, top, taken, first, rx) ==
  /\ taken = Taken(A, acc) /\ first = First(A, acc) /\ rx = B.rxdata_by_ns
  /\ Ends(A, B, qA, qB, acc)
  /\ Counted(B.vr, base, r, top, taken, last)
  /\ Stash(rx, base, r, top)
  /\ IFrames(rx, qA, base, r, top)
  /\ Sabms(A.state, rx, qA, base, r)
  /\ Uas(A.state, rx, qA, qB, base, r, taken)
  /\ A.state \in Connected => Joined(A, rx, qA, qB, base, r, top, taken, first)

LEMMA PairHasParts ==
  ASSUME NEW A, NEW B, NEW qA, NEW qB, NEW acc, NEW last, NEW base, NEW r, NEW top
  PROVE  Pair(A, B, qA, qB, acc, last, base, r, top) <=>
         PairParts(A, B, qA, qB, acc, last, base, r, top, Taken(A, acc), First(A, acc),
                   B.rxdata_by_ns)
  BY DEF Pair, PairParts

(* What every call of A that leaves its queue of parts alone has in        *)
(* common.                                                                 *)
Follows(A, T, U, qA, w, pA, B, pB, acc) ==
  /\ Ends(U, B, pA, pB, acc) /\ Longer(qA, w, pA)
  /\ Taken(U, acc) = Taken(A, acc) /\ First(U, acc) = First(T, acc)
  /\ U.state = T.state /\ SameWindow(T, U)

(* Such is every call whose parts stay.                                    *)
LEMMA SenderFollows ==
  ASSUME NEW A, NEW B, NEW qA, NEW qB, NEW acc, Ends(A, B, qA, qB, acc),
         NEW T, NEW w, SenderAfter(T, w), NEW pB, Fewer(qB, pB),
         T.i_frame_queue = A.i_frame_queue
  PROVE  Follows(A, T, Cleared(T), qA, w, qA \o w, B, pB, acc)
<1>1. Taken(T, acc) = Taken(A, acc)
  BY DEF Taken
<1>2. Taken(T, acc) \in Nat /\ \A i \in 1..Len(T.i_frame_queue) :
        T.i_frame_queue[i] = Taken(T, acc) + i
  BY <1>1 DEF Ends
<1>3. QED
  BY <1>1, <1>2, SenderEnds DEF Follows

(* A gives the link up.                                                    *)
LEMMA ClosesKeeps ==
  ASSUME NEW A, NEW B, NEW qA, NEW qB, NEW acc, NEW last, NEW base, NEW r, NEW top,
         Pair(A, B, qA, qB, acc, last, base, r, top),
         NEW T, NEW w, Closes(A, T, w), NEW pB, Fewer(qB, pB)
  PROVE  Pair(Cleared(T), B, qA \o w, pB, acc, last, base, r, top)
<1> DEFINE U == Cleared(T)
           pA == qA \o w
           rx == B.rxdata_by_ns
           taken == Taken(A, acc)
<1>1. /\ SenderAfter(T, w) /\ T.state = 0 /\ T.i_frame_queue = << >>
      /\ \A f \in In(w) : f.type \notin {"I", "SABM"}
  BY DEF Closes
<1>2. PairParts(A, B, qA, qB, acc, last, base, r, top, taken, First(A, acc), rx)
  BY PairHasParts
<1>3. Len(A.i_frame_queue) \in Nat /\ acc \in Nat
  BY <1>2, LinkTypes DEF PairParts, Ends, Sender, Idle, LinkInv, Sound
<1>4. Taken(T, acc) = acc /\ taken <= acc
  BY <1>1, <1>3 DEF Taken
<1>5. /\ Ends(U, B, pA, pB, acc) /\ Longer(qA, w, pA)
      /\ Taken(U, acc) = acc /\ U.state = 0
  <2>1. Taken(T, acc) \in Nat /\ \A i \in 1..Len(T.i_frame_queue) :
          T.i_frame_queue[i] = Taken(T, acc) + i
    BY <1>1, <1>3, <1>4
  <2>2. Ends(A, B, qA, qB, acc)
    BY <1>2 DEF PairParts
  <2>3. QED
    BY <1>1, <1>4, <2>1, <2>2, SenderEnds
<1> HIDE DEF U, pA, rx
<1>6. IFrames(rx, pA, base, r, top)
  BY <1>1, <1>2, <1>5, IFramesLonger DEF PairParts
<1>7. Sabms(U.state, rx, pA, base, r)
  BY <1>1, <1>2, <1>5, SabmsQuiet DEF PairParts
<1>8. Uas(U.state, rx, pA, pB, base, r, acc)
  BY <1>5 DEF Uas
<1>9. U.state \notin Connected
  BY <1>5, InStates
<1>10. Counted(B.vr, base, r, top, acc, last)
  <2>1. Counted(B.vr, base, r, top, taken, last) /\ taken \in Nat
    BY <1>2 DEF PairParts, Ends
  <2> HIDE DEF taken
  <2>2. QED
    BY <1>3, <1>4, <2>1 DEF Counted
<1>11. QED
  BY <1>2, <1>5, <1>6, <1>7, <1>8, <1>9, <1>10 DEF Pair, PairParts, U, pA, rx

(* A begins to connect again.                                              *)
LEMMA ReopensKeeps ==
  ASSUME NEW A, NEW B, NEW qA, NEW qB, NEW acc, NEW last, NEW base, NEW r, NEW top,
         Pair(A, B, qA, qB, acc, last, base, r, top),
         NEW T, NEW w, Reopens(A, T, w), NEW pB, Fewer(qB, pB),
         ~Has(qA, "SABM"), ~Has(pB, "UA")
  PROVE  Pair(Cleared(T), B, qA \o w, pB, acc, last, base, r, top)
<1> DEFINE U == Cleared(T)
           pA == qA \o w
           rx == B.rxdata_by_ns
           taken == Taken(A, acc)
<1>1. /\ SenderAfter(T, w) /\ T.state = 1 /\ T.i_frame_queue = A.i_frame_queue
      /\ \A f \in In(w) : f.type # "I"
  BY DEF Reopens
<1>2. PairParts(A, B, qA, qB, acc, last, base, r, top, taken, First(A, acc), rx)
  BY PairHasParts
<1>3. Follows(A, T, U, qA, w, pA, B, pB, acc)
  BY <1>1, <1>2, SenderFollows DEF PairParts
<1> HIDE DEF U, pA, rx, taken
<1>4. IFrames(rx, pA, base, r, top)
  BY <1>1, <1>2, <1>3, IFramesLonger DEF PairParts, Follows
<1>5. ~SabmBeforeI(pA)
  <2>1. \A f, g : Precedes(qA, f, g) => f \in In(qA)
    BY PrecedesIn
  <2>2. \A f, g : Precedes(w, f, g) => g \in In(w)
    BY PrecedesIn
  <2>3. QED
    BY <1>1, <1>3, <2>1, <2>2 DEF SabmBeforeI, Has, Follows, Longer
<1>6. U.state = 1 /\ U.state \notin Connected
  BY <1>1, <1>3, InStates DEF Follows
<1>7. Sabms(U.state, rx, pA, base, r)
  BY <1>5, <1>6 DEF Sabms
<1>8. Uas(U.state, rx, pA, pB, base, r, taken)
  BY DEF Uas
<1>9. QED
  BY <1>2, <1>3, <1>4, <1>6, <1>7, <1>8 DEF Pair, PairParts, Follows, U, pA, rx, taken

(* A's attempt is answered.                                                *)
LEMMA OpensKeeps ==
  ASSUME NEW A, NEW B, NEW qA, NEW qB, NEW acc, NEW last, NEW base, NEW r, NEW top,
         Pair(A, B, qA, qB, acc, last, base, r, top), A.state = 1,
         NEW T, NEW w, Opens(A, T, w), NEW pB, Fewer(qB, pB),
         NEW f \in In(qB), f.type = "UA", \A g \in In(pB) : Precedes(qB, f, g)
  PROVE  Pair(Cleared(T), B, qA \o w, pB, acc, last, base, r, top)
<1> DEFINE U == Cleared(T)
           pA == qA \o w
           rx == B.rxdata_by_ns
           taken == Taken(A, acc)
           first == First(U, acc)
<1>1. /\ SenderAfter(T, w) /\ T.state \in Connected /\ T.i_frame_queue = A.i_frame_queue
      /\ T.vs = 0 /\ T.va = 0
      /\ \A g \in In(w) : g.type \notin {"I", "SABM"}
  BY DEF Opens
<1>2. PairParts(A, B, qA, qB, acc, last, base, r, top, taken, First(A, acc), rx)
  BY PairHasParts
<1>3. Follows(A, T, U, qA, w, pA, B, pB, acc)
  BY <1>1, <1>2, SenderFollows DEF PairParts
<1>4. first = taken + 1 /\ U.va = 0 /\ U.vs = 0
  <2>1. Outstanding(T) = 0
    BY <1>1, AheadSelf, LinkAssumption DEF Outstanding, Number
  <2>2. taken \in Nat /\ Taken(T, acc) = taken
    BY <1>1, <1>2 DEF PairParts, Ends, Taken
  <2>3. First(T, acc) = (taken + 1) - 0
    BY <2>1, <2>2 DEF First
  <2>4. first = (taken + 1) - 0
    BY <1>3, <2>3 DEF Follows
  <2> HIDE DEF taken, first, U
  <2>5. first = taken + 1
    BY <2>2, <2>4
  <2>6. QED
    BY <1>1, <1>3, <2>5 DEF Follows, SameWindow
<1> HIDE DEF U, pA, rx, taken, first
<1>5. /\ ~Has(qA, "I") /\ Fresh(rx, base, r) /\ base = taken
      /\ \A g \in In(pB) : g.type # "SREJ" /\ (g.type = "RR" => g.nr = 0)
  BY <1>2 DEF PairParts, Uas, Has
<1>6. ~Has(pA, "I")
  BY <1>1, <1>3, <1>5 DEF Has, Follows, Longer
<1>7. base \in Nat /\ r = base + 1 /\ r = first /\ top = taken
      /\ Num(base, first) = 0 /\ Num(base, taken + 1) = 0
  <2>1. base \in Nat /\ r <= top + 1 /\ top <= taken /\ r = base + 1 /\ top \in Nat
    BY <1>2, <1>5 DEF PairParts, Counted, Fresh
  <2>2. Num(base, base + 1) = 0
    BY <2>1, NumFirst
  <2>3. QED
    BY <1>4, <1>5, <2>1, <2>2
<1>8. IFrames(rx, pA, base, r, top)
  BY <1>1, <1>2, <1>3, IFramesLonger DEF PairParts, Follows
<1>9. \A g, h : Precedes(pA, g, h) => g \in In(pA) /\ h \in In(pA)
  BY PrecedesIn
<1>10. Sabms(U.state, rx, pA, base, r)
  BY <1>5, <1>6, <1>9, InStates DEF Sabms, IBeforeSabm, SabmBeforeI, Has
<1>11. U.state \in Connected /\ U.state # 1
  BY <1>1, <1>3, InStates DEF Follows
<1>12. Uas(U.state, rx, pA, pB, base, r, taken)
  BY <1>11 DEF Uas
<1>13. Window(U, base, r, top, taken, first)
  <2>1. base < first /\ first <= r
    BY <1>7
  <2>2. first..taken = {}
    BY <1>4, <1>5, <1>7
  <2>3. QED
    BY <1>4, <1>7, <2>1, <2>2 DEF Window
<1>14. Acks(pB, base, r, first)
  <2>1. first..r = {r} /\ r \in first..r
    BY <1>7
  <2>2. \A g \in In(pB) : g.type = "RR" => g.nr = Num(base, r)
    BY <1>5, <1>7
  <2>3. r <= r
    BY <1>7
  <2>4. QED
    BY <2>1, <2>2, <2>3 DEF Acks
<1>15. Srejs(rx, pA, pB, base, r, top)
  <2>1. \A g, h : Precedes(pB, g, h) => g \in In(pB)
    BY PrecedesIn
  <2>2. QED
    BY <1>5, <2>1 DEF Srejs
<1>16. Joined(U, rx, pA, pB, base, r, top, taken, first)
  BY <1>13, <1>14, <1>15 DEF Joined
<1>17. QED
  BY <1>2, <1>3, <1>8, <1>10, <1>12, <1>16 DEF Pair, PairParts, Follows, U, pA, rx,
     taken, first

-----------------------------------------------------------------------------
(* A's calls keep it: acknowledgements and requests.                       *)

(* The order of the numbers, and the size of the window.                   *)
LEMMA WindowNumbers ==
  ASSUME NEW A, NEW B, NEW qA, NEW qB, NEW acc, NEW last, NEW base, NEW r, NEW top,
         NEW taken, NEW first, NEW rx,
         PairParts(A, B, qA, qB, acc, last, base, r, top, taken, first, rx)
  PROVE  /\ taken \in Nat /\ first \in Int /\ base \in Nat /\ r \in Nat /\ top \in Nat
         /\ base < r /\ r <= top + 1 /\ top <= taken /\ top - r <= Modulo - 2
         /\ Outstanding(A) \in Nat /\ Outstanding(A) <= k_maxframe
         /\ (taken + 1) - first = Outstanding(A) /\ first <= taken + 1
         /\ A.state \in Connected => top = taken /\ base < first /\ first <= r
<1>1. taken \in Nat /\ first = (taken + 1) - Outstanding(A)
  BY DEF PairParts, Ends, First
<1>2. Outstanding(A) \in Nat /\ Outstanding(A) <= k_maxframe
  BY LinkTypes, Bounds DEF PairParts, Ends, Sender, Idle, LinkInv, Sound, WindowOK
<1>3. /\ base \in Nat /\ r \in Nat /\ top \in Nat
      /\ base < r /\ r <= top + 1 /\ top <= taken /\ top - r <= Modulo - 2
  BY DEF PairParts, Counted
<1>4. A.state \in Connected => top = taken /\ base < first /\ first <= r
  BY DEF PairParts, Joined, Window
<1>5. QED
  BY <1>1, <1>2, <1>3, <1>4

(* Any number from the first that A keeps to the next it will send is good. *)
LEMMA GoodNr ==
  ASSUME NEW A, NEW B, NEW qA, NEW qB, NEW acc, NEW last, NEW base, NEW r, NEW top,
         NEW taken, NEW first, NEW rx,
         PairParts(A, B, qA, qB, acc, last, base, r, top, taken, first, rx),
         A.state \in Connected, NEW y \in first..(taken + 1)
  PROVE  is_good_nr(A, Num(base, y)) /\ Ahead(A.va, Num(base, y)) = y - first
<1>1. /\ taken \in Nat /\ first \in Int /\ base \in Nat
      /\ Outstanding(A) \in Nat /\ Outstanding(A) <= k_maxframe
      /\ (taken + 1) - first = Outstanding(A)
  BY WindowNumbers
<1>2. A.va = Num(base, first)
  BY DEF PairParts, Joined, Window
<1>3. first <= y /\ y < first + Modulo /\ y \in Int /\ base \in Int
  BY <1>1, Bounds
<1>4. Ahead(A.va, Num(base, y)) = y - first
  BY <1>1, <1>2, <1>3, NumAhead
<1>5. QED
  BY <1>1, <1>4 DEF is_good_nr

(* V(A) moves up to part y.                                                *)
LEMMA WindowMoves ==
  ASSUME NEW A, NEW B, NEW qA, NEW qB, NEW acc, NEW last, NEW base, NEW r, NEW top,
         NEW taken, NEW first, NEW rx,
         PairParts(A, B, qA, qB, acc, last, base, r, top, taken, first, rx),
         A.state \in Connected, NEW y \in first..r,
         NEW T, T.vs = A.vs, T.va = Num(base, y), KeepsSent(A, T), Taken(T, acc) = taken
  PROVE  First(T, acc) = y /\ Window(T, base, r, top, taken, y)
<1>1. /\ taken \in Nat /\ first \in Int /\ base \in Nat /\ r \in Nat /\ top = taken
      /\ Outstanding(A) \in Nat /\ Outstanding(A) <= k_maxframe
      /\ (taken + 1) - first = Outstanding(A) /\ base < first /\ first <= r /\ r <= top + 1
  BY WindowNumbers
<1>2. /\ A.vs = Num(base, taken + 1)
      /\ \A p \in first..taken : A.txdata_by_ns[Num(base, p)] = p
  BY DEF PairParts, Joined, Window
<1>3. /\ y \in Int /\ base \in Int /\ taken + 1 \in Int /\ y <= taken + 1 /\ taken + 1 < y + Modulo
      /\ first <= y /\ y <= r
  BY <1>1, Bounds
<1>4. Outstanding(T) = (taken + 1) - y
  BY <1>2, <1>3, NumAhead DEF Outstanding
<1>5. First(T, acc) = y
  BY <1>1, <1>3, <1>4 DEF First
<1>6. ASSUME NEW p \in y..taken
      PROVE  T.txdata_by_ns[Num(base, p)] = p
  <2>0. p \in Int /\ y <= p /\ p <= taken
    BY <1>1, <1>3
  <2>1. p \in Int /\ y <= p /\ p < y + Modulo /\ p \in first..taken /\ p < taken + 1
    BY <1>1, <1>3, <2>0, Bounds
  <2>2. Ahead(Num(base, y), Num(base, p)) = p - y
    BY <1>3, <2>1, NumAhead
  <2>3. Ahead(T.va, Num(base, p)) < Outstanding(T)
    BY <1>1, <1>3, <1>4, <2>1, <2>2
  <2>4. Num(base, p) \in Number
    BY <1>3, <2>1, NumIs
  <2>5. T.txdata_by_ns[Num(base, p)] = A.txdata_by_ns[Num(base, p)]
    BY <2>3, <2>4 DEF KeepsSent
  <2>6. QED
    BY <1>2, <2>1, <2>5
<1>7. QED
  BY <1>1, <1>2, <1>3, <1>5, <1>6 DEF Window

(* When an acknowledgement is heard, those after it are no older.          *)
LEMMA AcksAfter ==
  ASSUME NEW qB, NEW base, NEW r \in Int, NEW first \in Int, Acks(qB, base, r, first),
         NEW pB, Fewer(qB, pB), NEW f, IsAck(f), \A g \in In(pB) : Precedes(qB, f, g),
         NEW y \in first..r, f.nr = Num(base, y)
  PROVE  Acks(pB, base, r, y)
<1>1. ASSUME NEW g \in In(pB), g.type = "RR"
      PROVE  \E z \in y..r : g.nr = Num(base, z)
  <2>1. PICK z \in first..r : g.nr = Num(base, z)
    BY <1>1 DEF Acks, Fewer
  <2>2. IsAck(g) /\ Precedes(qB, f, g)
    BY <1>1 DEF IsAck
  <2>3. y <= z
    BY <2>1, <2>2 DEF Acks
  <2>4. QED
    BY <2>1, <2>3
<1>2. y..r \subseteq first..r
  OBVIOUS
<1>3. QED
  BY <1>1, <1>2 DEF Acks, Fewer

(* A hears how far B is.                                                   *)
LEMMA AckedKeeps ==
  ASSUME NEW A, NEW B, NEW qA, NEW qB, NEW acc, NEW last, NEW base, NEW r, NEW top,
         Pair(A, B, qA, qB, acc, last, base, r, top), A.state \in Connected,
         NEW f \in In(qB), f.type = "RR",
         NEW T, NEW w, Acked(A, T, w, f.nr), NEW pB, Fewer(qB, pB),
         \A g \in In(pB) : Precedes(qB, f, g)
  PROVE  Pair(Cleared(T), B, qA \o w, pB, acc, last, base, r, top)
<1> DEFINE U == Cleared(T)
           pA == qA \o w
           rx == B.rxdata_by_ns
           taken == Taken(A, acc)
           first == First(A, acc)
<1>1. /\ SenderAfter(T, w) /\ T.state \in Connected /\ T.i_frame_queue = A.i_frame_queue
      /\ T.vs = A.vs /\ T.va = f.nr /\ KeepsSent(A, T)
      /\ \A g \in In(w) : g.type \notin {"I", "SABM"}
  BY DEF Acked
<1>2. PairParts(A, B, qA, qB, acc, last, base, r, top, taken, first, rx)
  BY PairHasParts
<1>3. Follows(A, T, U, qA, w, pA, B, pB, acc)
  BY <1>1, <1>2, SenderFollows DEF PairParts
<1>3a. Taken(T, acc) = taken
  BY <1>1 DEF Taken
<1> HIDE DEF U, pA, rx, taken, first
<1>4. PICK y \in first..r : f.nr = Num(base, y)
  BY <1>2 DEF PairParts, Joined, Acks
<1>5. First(T, acc) = y /\ Window(T, base, r, top, taken, y)
  BY <1>1, <1>2, <1>3a, <1>4, WindowMoves
<1>6. IFrames(rx, pA, base, r, top)
  BY <1>1, <1>2, <1>3, IFramesLonger DEF PairParts, Follows
<1>7. Sabms(U.state, rx, pA, base, r)
  <2>1. Sabms(A.state, rx, pA, base, r)
    BY <1>1, <1>2, <1>3, SabmsQuiet DEF PairParts, Follows
  <2>2. QED
    BY <1>1, <1>3, <2>1, InStates DEF Sabms, Follows
<1>8. Uas(U.state, rx, pA, pB, base, r, taken)
  BY <1>1, <1>3, InStates DEF Uas, Follows
<1>9. Window(U, base, r, top, taken, First(U, acc)) /\ First(U, acc) = y
  BY <1>3, <1>5 DEF Window, Follows, SameWindow
<1>10. Acks(pB, base, r, y)
  <2>1. r \in Int /\ first \in Int
    BY <1>2, WindowNumbers
  <2>2. IsAck(f) /\ Acks(qB, base, r, first)
    BY <1>2 DEF IsAck, PairParts, Joined
  <2>3. QED
    BY <1>4, <2>1, <2>2, AcksAfter
<1>11. Srejs(rx, pA, pB, base, r, top)
  <2>1. Longer(qB, << >>, pB) /\ In(<< >>) = {}
    BY FewerIsLonger, EmptyQueue
  <2>2. QED
    BY <1>1, <1>2, <1>3, <2>1, SrejsLonger DEF PairParts, Joined, Follows
<1>12. Joined(U, rx, pA, pB, base, r, top, taken, First(U, acc))
  BY <1>9, <1>10, <1>11 DEF Joined
<1>13. QED
  BY <1>2, <1>3, <1>6, <1>7, <1>8, <1>12 DEF Pair, PairParts, Follows, U, pA, rx, taken

(* Parts are numbers a frame can carry.                                    *)
LEMMA PartsAreInfo ==
  ASSUME NEW A, NEW B, NEW qA, NEW qB, NEW acc, NEW last, NEW base, NEW r, NEW top,
         NEW taken, NEW first, NEW rx,
         PairParts(A, B, qA, qB, acc, last, base, r, top, taken, first, rx)
  PROVE  \A z \in 1..taken : z \in Info /\ z # NULL
<1>1. Len(A.i_frame_queue) \in Nat /\ acc \in Nat /\ acc <= Parts /\ taken = acc - Len(A.i_frame_queue)
  BY LinkTypes DEF PairParts, Ends, Sender, Idle, LinkInv, Sound, Taken
<1>2. Info = 1..Parts /\ Parts \in Nat /\ NULL \notin Info
  BY LinkPairAssumption, LinkAssumption
<1>3. \A z \in 1..taken : z \in 1..Parts
  BY <1>1, <1>2
<1>4. QED
  BY <1>2, <1>3

(* While something is kept the numbers are not fresh.                      *)
LEMMA KeptIsNotFresh ==
  ASSUME NEW A, NEW B, NEW qA, NEW qB, NEW acc, NEW last, NEW base, NEW r, NEW top,
         NEW taken, NEW first, NEW rx,
         PairParts(A, B, qA, qB, acc, last, base, r, top, taken, first, rx),
         NEW z, KeptAt(rx, base, r, top, z)
  PROVE  ~Fresh(rx, base, r)
<1>1. z \in Int /\ 1 <= z /\ z <= taken /\ base \in Int
  BY WindowNumbers DEF KeptAt
<1>2. z # NULL
  BY <1>1, PartsAreInfo, WindowNumbers
<1>3. Num(base, z) \in Number
  BY <1>1, NumIs
<1>4. QED
  BY <1>2, <1>3 DEF KeptAt, Fresh

(* A hears which part B misses.                                            *)
LEMMA ResentKeeps ==
  ASSUME NEW A, NEW B, NEW qA, NEW qB, NEW acc, NEW last, NEW base, NEW r, NEW top,
         Pair(A, B, qA, qB, acc, last, base, r, top), A.state \in Connected,
         NEW f \in In(qB), f.type = "SREJ",
         NEW T, NEW w, Resent(A, T, w, f), NEW pB, Fewer(qB, pB),
         \A g \in In(pB) : Precedes(qB, f, g)
  PROVE  Pair(Cleared(T), B, qA \o w, pB, acc, last, base, r, top)
<1> DEFINE U == Cleared(T)
           pA == qA \o w
           rx == B.rxdata_by_ns
           taken == Taken(A, acc)
           first == First(A, acc)
           y == IF f.pf = 1 THEN r ELSE first
<1>1. /\ SenderAfter(T, w) /\ T.state \in Connected /\ T.i_frame_queue = A.i_frame_queue
      /\ T.vs = A.vs /\ T.va = (IF f.pf = 1 THEN f.nr ELSE A.va) /\ KeepsSent(A, T)
      /\ \A g \in In(w) : g.type # "SABM" /\
           (g.type = "I" => g.ns = f.nr /\ g.info = T.txdata_by_ns[f.nr])
      /\ \A g, h : Precedes(w, g, h) => ~(g.type = "I" /\ h.type = "I")
  BY DEF Resent
<1>2. PairParts(A, B, qA, qB, acc, last, base, r, top, taken, first, rx)
  BY PairHasParts
<1>3. Follows(A, T, U, qA, w, pA, B, pB, acc)
  BY <1>1, <1>2, SenderFollows DEF PairParts
<1>3a. Taken(T, acc) = taken
  BY <1>1 DEF Taken
<1> HIDE DEF U, pA, rx, taken, first
<1>4. /\ first \in Int /\ r \in Int /\ top = taken /\ first <= r /\ taken \in Int
  BY <1>2, WindowNumbers
<1>5. PICK x \in r..top : AsksFrom(rx, f, base, r, top, x)
  BY <1>2 DEF PairParts, Joined, Srejs
<1>6. f.nr = Num(base, x) /\ rx[f.nr] = NULL /\ (f.pf = 1 => x = r)
  BY <1>5 DEF AsksFrom
<1>7. y \in first..r /\ T.va = Num(base, y)
  <2>1. A.va = Num(base, first)
    BY <1>2 DEF PairParts, Joined, Window
  <2>2. QED
    BY <1>1, <1>4, <1>6, <2>1
<1>7a. (f.pf = 1 => y = r) /\ (f.pf # 1 => y = first)
  OBVIOUS
<1> HIDE DEF y
<1>8. First(T, acc) = y /\ Window(T, base, r, top, taken, y)
  BY <1>1, <1>2, <1>3a, <1>7, WindowMoves
<1>9. T.txdata_by_ns[f.nr] = x
  <2>1. x \in y..taken
    BY <1>4, <1>5, <1>7
  <2>2. QED
    BY <1>6, <1>8, <2>1 DEF Window
<1>10. /\ IFrames(rx, qA, base, r, top) /\ Srejs(rx, qA, qB, base, r, top)
       /\ Acks(qB, base, r, first)
  BY <1>2 DEF PairParts, Joined
<1>11. Longer(qA, w, pA)
  BY <1>3 DEF Follows
<1>12. \A g \in In(w) : g.type = "I" => g.ns = Num(base, x) /\ g.info = x
  BY <1>1, <1>6, <1>9
<1>13. IFrames(rx, pA, base, r, top)
  <2>1. ASSUME NEW g \in In(pA), g.type = "I"
        PROVE  g.info \in r..top /\ g.ns = Num(base, g.info) /\ rx[g.ns] = NULL
    <3>1. CASE g \in In(qA)
      BY <1>10, <2>1, <3>1 DEF IFrames
    <3>2. CASE g \in In(w)
      BY <1>6, <1>12, <2>1, <3>2
    <3>3. QED
      BY <1>11, <3>1, <3>2 DEF Longer
  <2>2. ASSUME NEW g, NEW h, Precedes(pA, g, h), g.type = "I", h.type = "I"
        PROVE  Ord(rx, base, r, top, g.info, h.info)
    <3>1. CASE Precedes(qA, g, h)
      BY <1>10, <2>2, <3>1 DEF IFrames
    <3>2. CASE g \in In(qA) /\ h \in In(w)
      BY <1>6, <1>10, <1>12, <2>2, <3>2 DEF Srejs
    <3>3. QED
      BY <1>1, <1>11, <2>2, <3>1, <3>2 DEF Longer
  <2>3. QED
    BY <2>1, <2>2 DEF IFrames
<1>14. U.state \in Connected /\ U.state # 1
  BY <1>1, <1>3, InStates DEF Follows
<1>15. Sabms(U.state, rx, pA, base, r)
  <2>1. \E z : KeptAt(rx, base, r, top, z)
    BY <1>5 DEF AsksFrom
  <2>2. ~Fresh(rx, base, r)
    BY <1>2, <2>1, KeptIsNotFresh
  <2>3. ~Has(qA, "SABM")
    BY <1>2, <2>2 DEF PairParts, Sabms
  <2>4. ~Has(pA, "SABM")
    BY <1>1, <1>11, <2>3 DEF Has, Longer
  <2>5. \A g, h : Precedes(pA, g, h) => g \in In(pA) /\ h \in In(pA)
    BY PrecedesIn
  <2>6. QED
    BY <1>14, <2>4, <2>5 DEF Sabms, Has, SabmBeforeI
<1>16. Uas(U.state, rx, pA, pB, base, r, taken)
  BY <1>14 DEF Uas
<1>17. Window(U, base, r, top, taken, First(U, acc)) /\ First(U, acc) = y
  BY <1>3, <1>8 DEF Window, Follows, SameWindow
<1>18. Acks(pB, base, r, y)
  <2>1. CASE f.pf = 1
    <3>1. IsAck(f) /\ f.nr = Num(base, y)
      BY <1>6, <1>7a, <2>1 DEF IsAck
    <3>2. QED
      BY <1>4, <1>7, <1>10, <3>1, AcksAfter
  <2>2. CASE f.pf # 1
    BY <1>7a, <1>10, <2>2, AcksFewer
  <2>3. QED
    BY <2>1, <2>2
<1>19. Srejs(rx, pA, pB, base, r, top)
  <2>1. ASSUME NEW g \in In(pB), g.type = "SREJ"
        PROVE  /\ \E z \in r..top : AsksFrom(rx, g, base, r, top, z)
               /\ \A h \in In(pA) : h.type = "I" =>
                    \A z \in r..top : g.nr = Num(base, z) => Ord(rx, base, r, top, h.info, z)
    <3>1. g \in In(qB) /\ Precedes(qB, f, g)
      BY DEF Fewer
    <3>2. ASSUME NEW h \in In(pA), h.type = "I", NEW z \in r..top, g.nr = Num(base, z)
          PROVE  Ord(rx, base, r, top, h.info, z)
      <4>1. CASE h \in In(qA)
        BY <1>10, <2>1, <3>1, <3>2, <4>1 DEF Srejs
      <4>2. CASE h \in In(w)
        <5>1. Ord(rx, base, r, top, x, z)
          BY <1>6, <1>10, <2>1, <3>1, <3>2 DEF Srejs
        <5>2. QED
          BY <1>12, <3>2, <4>2, <5>1
      <4>3. QED
        BY <1>11, <4>1, <4>2 DEF Longer
    <3>3. QED
      BY <1>10, <2>1, <3>1, <3>2 DEF Srejs
  <2>2. QED
    BY <1>10, <2>1 DEF Srejs, Fewer
<1>20. Joined(U, rx, pA, pB, base, r, top, taken, First(U, acc))
  BY <1>17, <1>18, <1>19 DEF Joined
<1>21. QED
  BY <1>2, <1>3, <1>13, <1>15, <1>16, <1>20 DEF Pair, PairParts, Follows, U, pA, rx, taken

-----------------------------------------------------------------------------
(* A's calls keep it: parts sent for the first time.                       *)

(* Numbers repeat after Modulo parts.                                      *)
LEMMA NumRound ==
  ASSUME NEW base \in Int, NEW p \in Int
  PROVE  Num(base, p + Modulo) = Num(base, p)
<1>1. Modulo \in Int /\ -Modulo <= Modulo /\ Modulo <= Modulo
  BY Bounds
<1>2. AX25MODULO(Num(base, p) + Modulo) = Num(base, p + Modulo)
  BY <1>1, NumPlus
<1> DEFINE n == Num(base, p)
<1>3. n \in Number /\ n \in Int /\ 0 <= n /\ n < Modulo
  BY NumIs, Bounds
<1> HIDE DEF n
<1>4. AX25MODULO(n + Modulo) = (n + Modulo) - Modulo
  BY <1>1, <1>3, Wrap
<1>5. (n + Modulo) - Modulo = n
  BY <1>1, <1>3
<1>6. QED
  BY <1>2, <1>4, <1>5 DEF n

(* A sends n parts for the first time.                                     *)
LEMMA SendsFollows ==
  ASSUME NEW A, NEW B, NEW qA, NEW qB, NEW acc, NEW last, NEW base, NEW r, NEW top,
         NEW taken, NEW first, NEW rx,
         PairParts(A, B, qA, qB, acc, last, base, r, top, taken, first, rx),
         NEW T, NEW w, NEW n \in Nat, Sends(A, T, w, n)
  PROVE  /\ Taken(T, acc) = taken + n /\ First(T, acc) = first
         /\ \A i \in 1..Len(T.i_frame_queue) : T.i_frame_queue[i] = Taken(T, acc) + i
         /\ \A i \in 1..n : A.i_frame_queue[i] = taken + i
         /\ Window(T, base, r, taken + n, taken + n, first)
         /\ taken + n - r <= Modulo - 2
         /\ \A i \in 1..n : AX25MODULO(A.vs + i - 1) = Num(base, taken + i)
<1> DEFINE q == A.i_frame_queue
           s == SubSeq(q, n + 1, Len(q))
<1>1. /\ A.state \in Connected /\ T.va = A.va /\ n <= Len(q) /\ Outstanding(A) + n <= k_maxframe
      /\ T.vs = AX25MODULO(A.vs + n) /\ T.i_frame_queue = s
      /\ \A x \in Number :
           T.txdata_by_ns[x] = IF Ahead(A.vs, x) < n THEN q[Ahead(A.vs, x) + 1]
                               ELSE A.txdata_by_ns[x]
  BY DEF Sends
<1>2. /\ taken \in Nat /\ first \in Int /\ base \in Nat /\ r \in Nat /\ top = taken
      /\ Outstanding(A) \in Nat /\ Outstanding(A) <= k_maxframe
      /\ (taken + 1) - first = Outstanding(A) /\ base < first /\ first <= r /\ r <= top + 1
  <2>1. A.state \in Connected
    BY <1>1
  <2> HIDE DEF q, s
  <2>2. QED
    BY <2>1, WindowNumbers
<1>3. q \in Seq(Info) /\ Len(q) \in Nat /\ acc \in Nat /\ taken = acc - Len(q)
  BY LinkTypes DEF PairParts, Ends, Sender, Idle, LinkInv, Sound, Taken
<1>4. \A i \in 1..Len(q) : q[i] = taken + i
  BY DEF PairParts, Ends
<1>5. Len(s) = Len(q) - n /\ \A i \in 1..Len(s) : s[i] = q[n + i]
  <2>1. n <= Len(q) /\ n \in Nat
    BY <1>1
  <2> HIDE DEF q
  <2>2. QED
    BY <1>3, <2>1
<1>6. /\ A.va = Num(base, first) /\ A.vs = Num(base, taken + 1)
      /\ \A p \in first..taken : A.txdata_by_ns[Num(base, p)] = p
  BY <1>1 DEF PairParts, Joined, Window
<1>7. Modulo \in Nat /\ k_maxframe < Modulo /\ n < Modulo /\ base \in Int /\ k_maxframe \in Nat
  BY <1>1, <1>2, Bounds
<1> HIDE DEF q, s
<1>7a. /\ n <= Len(q) /\ Outstanding(A) + n <= k_maxframe /\ Outstanding(A) \in Int
       /\ taken \in Int /\ first \in Int /\ n \in Int /\ Modulo \in Int /\ k_maxframe \in Int
       /\ (taken + 1) - first = Outstanding(A) /\ Len(q) \in Int
       /\ k_maxframe < Modulo /\ 0 <= n /\ n < Modulo /\ 0 <= Outstanding(A)
  <2>1. n <= Len(q) /\ Outstanding(A) + n <= k_maxframe
    BY <1>1
  <2>2. /\ Outstanding(A) \in Int /\ taken \in Int /\ first \in Int /\ 0 <= Outstanding(A)
        /\ (taken + 1) - first = Outstanding(A)
    BY <1>2
  <2>3. /\ n \in Int /\ Modulo \in Int /\ k_maxframe \in Int /\ Len(q) \in Int
        /\ k_maxframe < Modulo /\ 0 <= n /\ n < Modulo
    BY <1>3, <1>7
  <2>4. QED
    BY <2>1, <2>2, <2>3
<1>8. Taken(T, acc) = taken + n
  BY <1>1, <1>3, <1>5 DEF Taken
<1>9. \A i \in 1..Len(T.i_frame_queue) : T.i_frame_queue[i] = Taken(T, acc) + i
  <2>1. SUFFICES ASSUME NEW i \in 1..Len(s)
                 PROVE  s[i] = taken + n + i
    BY <1>1, <1>8
  <2>2. n + i \in 1..Len(q)
    BY <1>3, <1>5
  <2>3. QED
    BY <1>2, <1>4, <1>5, <2>2
<1>10. T.vs = Num(base, taken + n + 1)
  <2> DEFINE t == taken + 1
  <2>1. t \in Int /\ -Modulo <= n /\ n <= Modulo /\ n \in Int
    BY <1>2, <1>7
  <2> HIDE DEF t
  <2>2. AX25MODULO(Num(base, t) + n) = Num(base, t + n)
    BY <1>7, <2>1, NumPlus
  <2>3. t + n = taken + n + 1
    BY <1>2 DEF t
  <2>4. QED
    BY <1>1, <1>6, <2>2, <2>3 DEF t
<1>11. Outstanding(T) = Outstanding(A) + n
  <2> DEFINE t == taken + n + 1
  <2>1. t \in Int /\ first <= t /\ t < first + Modulo /\ t - first = Outstanding(A) + n
    BY <1>7a
  <2> HIDE DEF t
  <2>2. Ahead(Num(base, first), Num(base, t)) = t - first
    BY <1>2, <1>7, <2>1, NumAhead
  <2>3. QED
    BY <1>1, <1>6, <1>10, <2>1, <2>2 DEF Outstanding, t
<1>12. First(T, acc) = first
  BY <1>2, <1>8, <1>11 DEF First
<1>13. ASSUME NEW p \in first..(taken + n)
       PROVE  T.txdata_by_ns[Num(base, p)] = p
  <2>0. p \in Int /\ first <= p /\ p <= taken + n /\ Num(base, p) \in Number
    BY <1>2, <1>7, NumIs
  <2>1. CASE p <= taken
    <3> DEFINE t == taken + 1
               u == p + Modulo
    <3>1. /\ t \in Int /\ u \in Int /\ t <= u /\ u < t + Modulo /\ u - t >= n
      BY <1>1, <1>2, <1>7, <2>0, <2>1
    <3> HIDE DEF t
    <3>2. Num(base, u) = Num(base, p)
      BY <1>7, <2>0, NumRound
    <3> HIDE DEF u
    <3>3. Ahead(Num(base, t), Num(base, u)) = u - t
      BY <1>7, <3>1, NumAhead
    <3>4. Ahead(A.vs, Num(base, p)) = u - t
      BY <1>6, <3>2, <3>3 DEF t
    <3>5. ~(Ahead(A.vs, Num(base, p)) < n)
      BY <3>1, <3>4
    <3>6. T.txdata_by_ns[Num(base, p)] = A.txdata_by_ns[Num(base, p)]
      BY <1>1, <2>0, <3>5
    <3>7. p \in first..taken
      BY <1>2, <2>0, <2>1
    <3>8. QED
      BY <1>6, <3>6, <3>7
  <2>2. CASE ~(p <= taken)
    <3> DEFINE t == taken + 1
    <3>1. t \in Int /\ t <= p /\ p < t + Modulo /\ p - t < n /\ p - t >= 0
      BY <1>2, <1>7, <2>0, <2>2
    <3> HIDE DEF t
    <3>2. Ahead(Num(base, t), Num(base, p)) = p - t
      BY <1>7, <2>0, <3>1, NumAhead
    <3>3. Ahead(A.vs, Num(base, p)) = p - t
      BY <1>6, <3>2 DEF t
    <3>4. T.txdata_by_ns[Num(base, p)] = q[(p - t) + 1]
      BY <1>1, <2>0, <3>1, <3>3
    <3>5. (p - t) + 1 = p - taken /\ p - taken \in 1..Len(q)
      BY <1>1, <1>2, <1>3, <2>0, <3>1 DEF t
    <3>6. q[p - taken] = taken + (p - taken)
      BY <1>4, <3>5
    <3>7. QED
      BY <1>2, <2>0, <3>4, <3>5, <3>6
  <2>3. QED
    BY <2>1, <2>2
<1>14. Window(T, base, r, taken + n, taken + n, first)
  BY <1>1, <1>2, <1>6, <1>10, <1>13 DEF Window
<1>15. taken + n - r <= Modulo - 2
  BY <1>1, <1>2, <1>7
<1>16. ASSUME NEW i \in 1..n
       PROVE  A.i_frame_queue[i] = taken + i /\ AX25MODULO(A.vs + i - 1) = Num(base, taken + i)
  <2> DEFINE t == taken + 1
             j == i - 1
  <2>1. t \in Int /\ j \in Int /\ -Modulo <= j /\ j <= Modulo /\ i \in 1..Len(q) /\ t + j = taken + i
    BY <1>7a
  <2> HIDE DEF t
  <2>2. A.vs + i - 1 = Num(base, t) + j
    <3>1. Num(base, t) \in Int /\ A.vs = Num(base, t)
      BY <1>6, <1>7, <2>1, NumIs DEF t
    <3>2. QED
      BY <3>1
  <2> HIDE DEF j
  <2>3. AX25MODULO(Num(base, t) + j) = Num(base, t + j)
    BY <1>7, <2>1, NumPlus
  <2>4. QED
    BY <1>4, <2>1, <2>2, <2>3 DEF q
<1>17. QED
  BY <1>8, <1>9, <1>12, <1>14, <1>15, <1>16

(* A higher top takes nothing away.                                        *)
LEMMA KeptMore ==
  ASSUME NEW rx, NEW base, NEW r \in Int, NEW top \in Int, NEW top2 \in Int, top <= top2
  PROVE  /\ \A z : KeptAt(rx, base, r, top, z) => KeptAt(rx, base, r, top2, z)
         /\ \A t, u : Ord(rx, base, r, top, t, u) => Ord(rx, base, r, top2, t, u)
         /\ \A f, x : AsksFrom(rx, f, base, r, top, x) => AsksFrom(rx, f, base, r, top2, x)
         /\ Stash(rx, base, r, top) => Stash(rx, base, r, top2)
<1>1. \A z : KeptAt(rx, base, r, top, z) => KeptAt(rx, base, r, top2, z)
  BY DEF KeptAt
<1>2. ASSUME NEW t, NEW u, Ord(rx, base, r, top, t, u)
      PROVE  Ord(rx, base, r, top2, t, u)
  BY <1>1, <1>2, OrdFrom
<1>3. ASSUME NEW f, NEW x, AsksFrom(rx, f, base, r, top, x)
      PROVE  AsksFrom(rx, f, base, r, top2, x)
  <2>1. PICK z \in (x + 1)..top : KeptAt(rx, base, r, top, z)
    BY <1>3 DEF AsksFrom
  <2>2. z \in (r + 1)..top
    BY <2>1 DEF KeptAt
  <2>3. z \in (x + 1)..top2
    BY <2>1, <2>2
  <2>4. QED
    BY <1>1, <1>3, <2>1, <2>3 DEF AsksFrom
<1>4. ASSUME Stash(rx, base, r, top), NEW n \in Number, rx[n] # NULL
      PROVE  \E z \in (r + 1)..top2 : n = Num(base, z) /\ rx[n] = z
  <2>1. PICK z \in (r + 1)..top : n = Num(base, z) /\ rx[n] = z
    BY <1>4 DEF Stash
  <2>2. z \in (r + 1)..top2
    BY <2>1
  <2>3. QED
    BY <2>1, <2>2
<1>5. Stash(rx, base, r, top) => Stash(rx, base, r, top2)
  BY <1>4 DEF Stash
<1>6. QED
  BY <1>1, <1>2, <1>3, <1>5

(* A part's number within the range is its own.                            *)
LEMMA InRange ==
  ASSUME NEW base \in Int, NEW r \in Int, NEW top \in Int, top - r <= Modulo - 2,
         NEW x \in r..top, NEW y \in r..top, Num(base, x) = Num(base, y)
  PROVE  x = y
<1>1. -Modulo < x - y /\ x - y < Modulo
  BY Bounds
<1>2. QED
  BY <1>1, NumSame

(* What A sends for the first time comes after all that is under way.      *)
LEMMA SendsKeeps ==
  ASSUME NEW A, NEW B, NEW qA, NEW qB, NEW acc, NEW last, NEW base, NEW r, NEW top,
         Pair(A, B, qA, qB, acc, last, base, r, top),
         NEW T, NEW w, NEW n \in Nat, Sends(A, T, w, n), NEW pB, Fewer(qB, pB)
  PROVE  Pair(Cleared(T), B, qA \o w, pB, acc, last, base, r, top + n)
<1> DEFINE U == Cleared(T)
           pA == qA \o w
           rx == B.rxdata_by_ns
           taken == Taken(A, acc)
           first == First(A, acc)
           top2 == top + n
<1>1. /\ SenderAfter(T, w) /\ T.state = A.state /\ A.state \in Connected
      /\ n <= Len(A.i_frame_queue)
      /\ \A f \in In(w) : f.type = "I" /\ \E i \in 1..n : f = SentFrame(A, i)
      /\ \A f, g : Precedes(w, f, g) =>
           \E i \in 1..n : \E j \in 1..n : i < j /\ f = SentFrame(A, i) /\ g = SentFrame(A, j)
  BY DEF Sends
<1>2. PairParts(A, B, qA, qB, acc, last, base, r, top, taken, first, rx)
  BY PairHasParts
<1> HIDE DEF taken, first, rx
<1>3. /\ taken \in Nat /\ first \in Int /\ base \in Nat /\ r \in Nat /\ top = taken
      /\ (taken + 1) - first = Outstanding(A) /\ base < first /\ first <= r /\ r <= top + 1
      /\ top - r <= Modulo - 2
  BY <1>1, <1>2, WindowNumbers
<1>4. /\ Taken(T, acc) = top2 /\ First(T, acc) = first
      /\ \A i \in 1..Len(T.i_frame_queue) : T.i_frame_queue[i] = Taken(T, acc) + i
      /\ \A i \in 1..n : A.i_frame_queue[i] = top + i
      /\ Window(T, base, r, top2, top2, first)
      /\ top2 - r <= Modulo - 2
      /\ \A i \in 1..n : AX25MODULO(A.vs + i - 1) = Num(base, top + i)
  <2>1. /\ Taken(T, acc) = taken + n /\ First(T, acc) = first
        /\ \A i \in 1..Len(T.i_frame_queue) : T.i_frame_queue[i] = Taken(T, acc) + i
        /\ \A i \in 1..n : A.i_frame_queue[i] = taken + i
        /\ Window(T, base, r, taken + n, taken + n, first)
        /\ taken + n - r <= Modulo - 2
        /\ \A i \in 1..n : AX25MODULO(A.vs + i - 1) = Num(base, taken + i)
    BY <1>2, SendsFollows
  <2>2. top2 = taken + n
    BY <1>3
  <2>3. top2 - r <= Modulo - 2
    BY <1>3, <2>1
  <2> HIDE DEF top2
  <2>4. QED
    BY <1>3, <2>1, <2>2, <2>3
<1>5. /\ Ends(U, B, pA, pB, acc) /\ Longer(qA, w, pA)
      /\ Taken(U, acc) = top2 /\ First(U, acc) = first
      /\ U.state = T.state /\ SameWindow(T, U)
  <2>1. Taken(T, acc) \in Nat
    BY <1>3, <1>4
  <2>2. Ends(A, B, qA, qB, acc)
    BY <1>2 DEF PairParts
  <2> HIDE DEF U, top2
  <2>3. QED
    BY <1>1, <1>4, <2>1, <2>2, SenderEnds DEF U
<1>6. top2 \in Nat /\ top <= top2 /\ base \in Int /\ r \in Int /\ top \in Int /\ top2 \in Int
  BY <1>3
<1>6a. \A i \in 1..n : top + i \in r..top2 /\ top < top + i /\ i \in Int
  BY <1>3
<1> HIDE DEF U, pA, top2
<1>7. /\ IFrames(rx, qA, base, r, top) /\ Stash(rx, base, r, top)
      /\ Acks(qB, base, r, first) /\ Srejs(rx, qA, qB, base, r, top)
      /\ Counted(B.vr, base, r, top, taken, last) /\ Sabms(A.state, rx, qA, base, r)
      /\ Ends(A, B, qA, qB, acc)
  BY <1>1, <1>2 DEF PairParts, Joined
<1>8. /\ \A t, u : Ord(rx, base, r, top, t, u) => Ord(rx, base, r, top2, t, u)
      /\ \A f, x : AsksFrom(rx, f, base, r, top, x) => AsksFrom(rx, f, base, r, top2, x)
      /\ Stash(rx, base, r, top2)
  BY <1>6, <1>7, KeptMore
<1>9. \A x, y \in r..top2 : Num(base, x) = Num(base, y) => x = y
  BY <1>4, <1>6, InRange
<1>10. \A f \in In(w) : \E i \in 1..n :
          f = SentFrame(A, i) /\ f.info = top + i /\ f.ns = Num(base, top + i)
  <2>1. Sender(A)
    BY <1>7 DEF Ends
  <2>2. /\ \A i \in 1..n : SentFrame(A, i).ns = AX25MODULO(A.vs + i - 1)
                           /\ SentFrame(A, i).info = A.i_frame_queue[i]
    BY <1>1, <2>1, SentFrames
  <2>3. QED
    BY <1>1, <1>4, <2>2
<1>11. \A i \in 1..n : rx[Num(base, top + i)] = NULL
  <2> SUFFICES ASSUME NEW i \in 1..n, rx[Num(base, top + i)] # NULL
               PROVE  FALSE
    OBVIOUS
  <2>1. top + i \in Int /\ Num(base, top + i) \in Number /\ top + i \in r..top2 /\ top < top + i
    <3> DEFINE t == top + i
    <3>1. t \in Int /\ t \in r..top2 /\ top < t
      BY <1>6, <1>6a
    <3> HIDE DEF t
    <3>2. Num(base, t) \in Number
      BY <1>6, <3>1, NumIs
    <3>3. QED
      BY <3>1, <3>2 DEF t
  <2>2. PICK z \in (r + 1)..top : Num(base, top + i) = Num(base, z)
    BY <1>7, <2>1 DEF Stash
  <2>3. z \in r..top2 /\ z <= top
    BY <1>6
  <2>4. z = top + i
    BY <1>9, <2>1, <2>2, <2>3
  <2>5. QED
    BY <1>6, <2>1, <2>3, <2>4
<1>12. IFrames(rx, pA, base, r, top2)
  <2>1. ASSUME NEW g \in In(pA), g.type = "I"
        PROVE  g.info \in r..top2 /\ g.ns = Num(base, g.info) /\ rx[g.ns] = NULL
    <3>1. CASE g \in In(qA)
      <4>1. g.info \in r..top /\ g.ns = Num(base, g.info) /\ rx[g.ns] = NULL
        BY <1>7, <2>1, <3>1 DEF IFrames
      <4>2. QED
        BY <1>6, <4>1
    <3>2. CASE g \in In(w)
      BY <1>6a, <1>10, <1>11, <3>2
    <3>3. QED
      BY <1>5, <3>1, <3>2 DEF Longer
  <2>2. ASSUME NEW g, NEW h, Precedes(pA, g, h), g.type = "I", h.type = "I"
        PROVE  Ord(rx, base, r, top2, g.info, h.info)
    <3>1. CASE Precedes(qA, g, h)
      BY <1>7, <1>8, <2>2, <3>1 DEF IFrames
    <3>2. CASE g \in In(qA) /\ h \in In(w)
      <4>1. g.info \in r..top
        BY <1>7, <2>2, <3>2 DEF IFrames
      <4>2. PICK i \in 1..n : h.info = top + i
        BY <1>10, <3>2
      <4>3. g.info # h.info /\ ~(h.info < g.info)
        BY <1>6, <1>6a, <4>1, <4>2
      <4>4. QED
        BY <4>3 DEF Ord
    <3>3. CASE Precedes(w, g, h)
      <4>1. PICK i \in 1..n, j \in 1..n : i < j /\ g = SentFrame(A, i) /\ h = SentFrame(A, j)
        BY <1>1, <3>3
      <4>2. g.info = top + i /\ h.info = top + j
        BY <1>1, <1>4, <1>7, <4>1, SentFrames DEF Ends
      <4>3. g.info # h.info /\ ~(h.info < g.info)
        BY <1>6, <1>6a, <4>1, <4>2
      <4>4. QED
        BY <4>3 DEF Ord
    <3>4. QED
      BY <1>5, <2>2, <3>1, <3>2, <3>3 DEF Longer
  <2>3. QED
    BY <2>1, <2>2 DEF IFrames
<1>13. U.state \in Connected /\ U.state # 1 /\ U.state = A.state
  BY <1>1, <1>5, InStates
<1>14. Sabms(U.state, rx, pA, base, r)
  <2>1. Has(pA, "SABM") => Has(qA, "SABM")
    BY <1>1, <1>5 DEF Has, Longer
  <2>2. \A g, h : Precedes(w, g, h) => h \in In(w)
    BY PrecedesIn
  <2>3. IBeforeSabm(pA) => IBeforeSabm(qA)
    BY <1>1, <1>5, <2>2 DEF IBeforeSabm, Longer
  <2>4. SabmBeforeI(pA) => Has(pA, "SABM")
    BY PrecedesIn DEF SabmBeforeI, Has
  <2>5. QED
    BY <1>1, <1>7, <1>13, <2>1, <2>3, <2>4 DEF Sabms
<1>15. Uas(U.state, rx, pA, pB, base, r, top2)
  BY <1>13 DEF Uas
<1>16. Window(U, base, r, top2, top2, first)
  BY <1>4, <1>5 DEF Window, SameWindow
<1>17. Acks(pB, base, r, first)
  BY <1>7, AcksFewer
<1>18. Srejs(rx, pA, pB, base, r, top2)
  <2>1. ASSUME NEW g \in In(pB), g.type = "SREJ"
        PROVE  \E x \in r..top : AsksFrom(rx, g, base, r, top, x)
               /\ x \in r..top2
               /\ \A y \in r..top2 : g.nr = Num(base, y) => y = x
    <3>1. PICK x \in r..top : AsksFrom(rx, g, base, r, top, x)
      BY <1>7, <2>1 DEF Srejs, Fewer
    <3>2. x \in r..top2
      BY <1>6
    <3>3. g.nr = Num(base, x)
      BY <3>1 DEF AsksFrom
    <3>4. QED
      BY <1>9, <3>1, <3>2, <3>3
  <2>2. ASSUME NEW g \in In(pB), g.type = "SREJ"
        PROVE  /\ \E x \in r..top2 : AsksFrom(rx, g, base, r, top2, x)
               /\ \A h \in In(pA) : h.type = "I" =>
                    \A x \in r..top2 : g.nr = Num(base, x) => Ord(rx, base, r, top2, h.info, x)
    <3>1. PICK x \in r..top : /\ AsksFrom(rx, g, base, r, top, x)
                              /\ x \in r..top2
                              /\ \A y \in r..top2 : g.nr = Num(base, y) => y = x
      BY <2>1, <2>2
    <3>2. ASSUME NEW h \in In(pA), h.type = "I", g.nr = Num(base, x)
          PROVE  Ord(rx, base, r, top2, h.info, x)
      <4>1. CASE h \in In(qA)
        BY <1>7, <1>8, <2>2, <3>1, <3>2, <4>1 DEF Srejs, Fewer
      <4>2. CASE h \in In(w)
        <5>1. PICK i \in 1..n : h.info = top + i
          BY <1>10, <4>2
        <5>2. PICK z \in (x + 1)..top : KeptAt(rx, base, r, top, z)
          BY <3>1 DEF AsksFrom
        <5>3. /\ h.info # x /\ z \in (x + 1)..(h.info - 1)
          BY <1>6, <1>6a, <3>1, <5>1, <5>2
        <5>4. KeptAt(rx, base, r, top2, z)
          BY <1>6, <5>2, KeptMore
        <5>5. QED
          BY <5>3, <5>4 DEF Ord
      <4>3. QED
        BY <1>5, <4>1, <4>2 DEF Longer
    <3>3. QED
      BY <1>8, <3>1, <3>2
  <2>3. ASSUME NEW g, NEW h, Precedes(pB, g, h), g.type = "SREJ", h.type = "SREJ",
               NEW x \in r..top2, NEW y \in r..top2, g.nr = Num(base, x), h.nr = Num(base, y)
        PROVE  Ord(rx, base, r, top2, x, y)
    <3>1. g \in In(pB) /\ h \in In(pB) /\ Precedes(qB, g, h)
      BY <2>3, PrecedesIn DEF Fewer
    <3>2. x \in r..top /\ y \in r..top
      BY <2>1, <2>3, <3>1
    <3>3. QED
      BY <1>7, <1>8, <2>3, <3>1, <3>2 DEF Srejs
  <2>4. QED
    BY <2>2, <2>3 DEF Srejs
<1>19. Joined(U, rx, pA, pB, base, r, top2, top2, first)
  BY <1>16, <1>17, <1>18 DEF Joined
<1>20. Counted(B.vr, base, r, top2, top2, last)
  <2>1. r <= top2 + 1
    BY <1>3, <1>6
  <2>2. QED
    BY <1>4, <1>6, <1>7, <2>1 DEF Counted
<1>21. QED
  BY <1>5, <1>8, <1>12, <1>14, <1>15, <1>19, <1>20 DEF Pair, U, pA, rx, top2

-----------------------------------------------------------------------------
(* B's calls keep it: answers and resets.                                  *)

(* The ends after a call of B.                                             *)
LEMMA ReceiverEnds ==
  ASSUME NEW A, NEW B, NEW qA, NEW qB, NEW acc, Ends(A, B, qA, qB, acc),
         NEW T, NEW w, ReceiverAfter(T, w), NEW pA, Fewer(qA, pA)
  PROVE  /\ Ends(A, Cleared(T), pA, qB \o w, acc)
         /\ Longer(qB, w, qB \o w)
         /\ Cleared(T).vr = T.vr /\ Cleared(T).rxdata_by_ns = T.rxdata_by_ns
<1> DEFINE U == Cleared(T)
<1>1. /\ Idle(U) /\ U.state = T.state /\ SameWindow(T, U) /\ U.vr = T.vr
      /\ U.rxdata_by_ns = T.rxdata_by_ns
      /\ U.i_frame_queue = T.i_frame_queue
      /\ U.peer_receiver_busy = T.peer_receiver_busy
  BY ClearedIs DEF ReceiverAfter
<1> HIDE DEF U
<1>2. Receiver(U)
  BY <1>1 DEF Receiver, ReceiverAfter, SameWindow
<1>3. Longer(qB, w, qB \o w)
  BY JoinIsLonger DEF Ends, ReceiverAfter
<1>4. \A f \in In(qB \o w) : FromReceiver(f)
  BY <1>3 DEF Longer, Ends, ReceiverAfter
<1>5. Ends(A, U, pA, qB \o w, acc)
  BY <1>2, <1>3, <1>4 DEF Ends, Longer, Fewer
<1>6. QED
  BY <1>1, <1>3, <1>5 DEF U

(* An acknowledgement of r comes last.                                     *)
LEMMA AcksLonger ==
  ASSUME NEW qB, NEW base \in Int, NEW r \in Int, NEW first \in Int, first <= r,
         r - first < Modulo, Acks(qB, base, r, first),
         NEW w, NEW pB, Longer(qB, w, pB), \A g \in In(w) : IsAck(g) => g.nr = Num(base, r)
  PROVE  Acks(pB, base, r, first)
<1>1. \A f \in In(pB) : f.type = "RR" => \E y \in first..r : f.nr = Num(base, y)
  <2> SUFFICES ASSUME NEW f \in In(pB), f.type = "RR"
               PROVE  \E y \in first..r : f.nr = Num(base, y)
    OBVIOUS
  <2>1. CASE f \in In(qB)
    BY <2>1 DEF Acks
  <2>2. CASE f \in In(w)
    <3>1. f.nr = Num(base, r)
      BY <2>2 DEF IsAck
    <3>2. QED
      BY <3>1
  <2>3. QED
    BY <2>1, <2>2 DEF Longer
<1>2. ASSUME NEW f, NEW g, Precedes(pB, f, g), IsAck(f), IsAck(g),
             NEW y \in first..r, NEW z \in first..r, f.nr = Num(base, y), g.nr = Num(base, z)
      PROVE  y <= z
  <2>1. CASE Precedes(qB, f, g)
    BY <1>2, <2>1 DEF Acks
  <2>2. CASE g \in In(w)
    <3>1. Num(base, z) = Num(base, r)
      BY <1>2, <2>2
    <3>2. -Modulo < z - r /\ z - r < Modulo
      BY Bounds
    <3>3. z = r
      BY <3>1, <3>2, NumSame
    <3>4. QED
      BY <3>3
  <2>3. \A h, k : Precedes(w, h, k) => k \in In(w)
    BY PrecedesIn
  <2>4. QED
    BY <1>2, <2>1, <2>2, <2>3 DEF Longer
<1>3. QED
  BY <1>1, <1>2 DEF Acks

(* B's numbers and what it keeps stay as they are.                         *)
LEMMA SameNumbersKeep ==
  ASSUME NEW A, NEW B, NEW qA, NEW qB, NEW acc, NEW last, NEW base, NEW r, NEW top,
         Pair(A, B, qA, qB, acc, last, base, r, top),
         NEW T, NEW w, ReceiverAfter(T, w), T.vr = B.vr, T.rxdata_by_ns = B.rxdata_by_ns,
         \A f \in In(w) : f.type \in {"RR", "DM", "null", "UA"} /\ (f.type = "RR" => f.nr = B.vr)
                          /\ (f.type = "UA" => A.state # 1),
         NEW pA, Fewer(qA, pA)
  PROVE  Pair(A, Cleared(T), pA, qB \o w, acc, last, base, r, top)
<1> DEFINE U == Cleared(T)
           pB == qB \o w
           rx == B.rxdata_by_ns
           taken == Taken(A, acc)
           first == First(A, acc)
<1>1. PairParts(A, B, qA, qB, acc, last, base, r, top, taken, first, rx)
  BY PairHasParts
<1>2. /\ Ends(A, U, pA, pB, acc) /\ Longer(qB, w, pB) /\ U.vr = B.vr /\ U.rxdata_by_ns = rx
  BY <1>1, ReceiverEnds DEF PairParts
<1> HIDE DEF U, pB, rx, taken, first
<1>3. /\ taken \in Nat /\ first \in Int /\ base \in Nat /\ r \in Nat
      /\ Outstanding(A) \in Nat /\ Outstanding(A) <= k_maxframe
      /\ (taken + 1) - first = Outstanding(A)
      /\ base < r /\ r <= top + 1 /\ top <= taken /\ top \in Nat
      /\ A.state \in Connected => top = taken /\ base < first /\ first <= r
  BY <1>1, WindowNumbers
<1>4. Longer(qA, << >>, pA) /\ In(<< >>) = {}
  BY FewerIsLonger, EmptyQueue
<1>5. IFrames(rx, pA, base, r, top)
  BY <1>1, <1>4, IFramesLonger DEF PairParts
<1>6. Sabms(A.state, rx, pA, base, r)
  BY <1>1, <1>4, SabmsQuiet DEF PairParts
<1>7. Uas(A.state, rx, pA, pB, base, r, taken)
  <2>1. CASE A.state = 1
    <3>1. Fresh(rx, base, r) => B.vr = 0
      <4>1. B.vr = Num(base, r)
        BY <1>1 DEF PairParts, Counted
      <4>2. Num(base, base + 1) = 0
        BY <1>3, NumFirst
      <4>3. QED
        BY <4>1, <4>2 DEF Fresh
    <3>2. \A f \in In(w) : f.type \notin {"UA", "SREJ"} /\ (f.type = "RR" => f.nr = B.vr)
      BY <2>1
    <3>3. Uas(A.state, rx, qA, qB, base, r, taken)
      BY <1>1 DEF PairParts
    <3>4. QED
      BY <1>2, <1>4, <3>1, <3>2, <3>3, UasLonger
  <2>2. CASE A.state # 1
    BY <2>2 DEF Uas
  <2>3. QED
    BY <2>1, <2>2
<1>8. ASSUME A.state \in Connected
      PROVE  Joined(A, rx, pA, pB, base, r, top, taken, first)
  <2>1. Joined(A, rx, qA, qB, base, r, top, taken, first)
    BY <1>1, <1>8 DEF PairParts
  <2>2. Acks(pB, base, r, first)
    <3>1. /\ base \in Int /\ r \in Int /\ first <= r /\ r - first < Modulo
      BY <1>3, <1>8, Bounds
    <3>2. \A g \in In(w) : IsAck(g) => g.nr = Num(base, r)
      BY <1>1 DEF IsAck, PairParts, Counted
    <3>3. Acks(qB, base, r, first)
      BY <2>1 DEF Joined
    <3>4. QED
      BY <1>2, <1>3, <3>1, <3>2, <3>3, AcksLonger
  <2>3. Srejs(rx, pA, pB, base, r, top)
    <3>1. \A f \in In(w) : f.type # "SREJ"
      OBVIOUS
    <3>2. QED
      BY <1>2, <1>4, <2>1, <3>1, SrejsLonger DEF Joined
  <2>4. QED
    BY <2>1, <2>2, <2>3 DEF Joined
<1>9. QED
  BY <1>1, <1>2, <1>5, <1>6, <1>7, <1>8 DEF Pair, PairParts, U, pB, taken, first

(* B answers, and its numbers stay.                                        *)
LEMMA StaysKeeps ==
  ASSUME NEW A, NEW B, NEW qA, NEW qB, NEW acc, NEW last, NEW base, NEW r, NEW top,
         Pair(A, B, qA, qB, acc, last, base, r, top),
         NEW T, NEW w, Stays(B, T, w), NEW pA, Fewer(qA, pA)
  PROVE  Pair(A, Cleared(T), pA, qB \o w, acc, last, base, r, top) /\ T.up = << >>
<1>1. /\ ReceiverAfter(T, w) /\ T.vr = B.vr /\ T.rxdata_by_ns = B.rxdata_by_ns /\ T.up = << >>
      /\ \A f \in In(w) : f.type \in {"RR", "DM", "null"} /\ (f.type = "RR" => f.nr = B.vr)
  BY DEF Stays
<1>2. \A f \in In(w) : f.type \in {"RR", "DM", "null", "UA"} /\ (f.type = "RR" => f.nr = B.vr)
                       /\ (f.type = "UA" => A.state # 1)
  BY <1>1
<1>3. QED
  BY <1>1, <1>2, SameNumbersKeep

(* B hears of a new attempt.                                               *)
LEMMA ResetsKeeps ==
  ASSUME NEW A, NEW B, NEW qA, NEW qB, NEW acc, NEW last, NEW base, NEW r, NEW top,
         Pair(A, B, qA, qB, acc, last, base, r, top),
         NEW T, NEW w, Resets(B, T, w), NEW pA, Fewer(qA, pA),
         NEW f \in In(qA), f.type = "SABM", \A g \in In(pA) : Precedes(qA, f, g)
  PROVE  /\ T.up = << >>
         /\ \/ Pair(A, Cleared(T), pA, qB \o w, acc, last, base, r, top)
            \/ Pair(A, Cleared(T), pA, qB \o w, acc, last, Taken(A, acc), Taken(A, acc) + 1,
                    Taken(A, acc))
<1> DEFINE U == Cleared(T)
           pB == qB \o w
           rx == B.rxdata_by_ns
           taken == Taken(A, acc)
           first == First(A, acc)
           ry == T.rxdata_by_ns
           s == taken + 1
<1>1. /\ ReceiverAfter(T, w) /\ T.vr = 0 /\ NothingStashed(T) /\ T.up = << >>
      /\ \A g \in In(w) : g.type = "UA"
  BY DEF Resets
<1>2. PairParts(A, B, qA, qB, acc, last, base, r, top, taken, first, rx)
  BY PairHasParts
<1>3. \A n \in Number : ry[n] = NULL
  BY <1>1 DEF NothingStashed
<1>4. /\ taken \in Nat /\ base \in Nat /\ r \in Nat /\ top \in Nat /\ r <= top + 1 /\ top <= taken
  BY <1>2, WindowNumbers
<1>5. CASE A.state \in Connected \/ SabmBeforeI(qA)
  <2>1. Fresh(rx, base, r) /\ A.state # 1
    BY <1>2, <1>5, InStates DEF PairParts, Sabms, Has
  <2>2. ry = rx
    <3>1. /\ ry \in [Number -> Info \cup {NULL}] /\ rx \in [Number -> Info \cup {NULL}]
      BY <1>1, <1>2, LinkTypes DEF ReceiverAfter, LinkInv, Sound, PairParts, Ends,
         Receiver, Idle
    <3>2. \A n \in Number : ry[n] = rx[n]
      BY <1>3, <2>1 DEF Fresh
    <3>3. QED
      BY <3>1, <3>2
  <2>3. T.vr = B.vr
    <3>1. B.vr = Num(base, base + 1)
      BY <1>2, <2>1 DEF PairParts, Counted, Fresh
    <3>2. QED
      BY <1>1, <1>4, <3>1, NumFirst
  <2>4. \A g \in In(w) : g.type \in {"RR", "DM", "null", "UA"} /\ (g.type = "RR" => g.nr = B.vr)
                         /\ (g.type = "UA" => A.state # 1)
    BY <1>1, <2>1
  <2>5. QED
    BY <1>1, <2>2, <2>3, <2>4, SameNumbersKeep
<1>6. CASE ~(A.state \in Connected \/ SabmBeforeI(qA))
  <2>1. /\ Ends(A, U, pA, pB, acc) /\ Longer(qB, w, pB) /\ U.vr = 0 /\ U.rxdata_by_ns = ry
    BY <1>1, <1>2, ReceiverEnds DEF PairParts
  <2>2. \A g \in In(pA) : g.type # "I"
    BY <1>6 DEF SabmBeforeI
  <2>3. \A g, h : Precedes(pA, g, h) => g \in In(pA) /\ h \in In(pA)
    BY PrecedesIn
  <2>4. Counted(0, taken, s, taken, taken, last)
    <3>1. last \in Nat /\ last < r
      BY <1>2 DEF PairParts, Counted
    <3>2. Num(taken, taken + 1) = 0
      BY <1>4, NumFirst
    <3> HIDE DEF taken
    <3>3. taken - s <= Modulo - 2 /\ last < s /\ s \in Nat /\ taken < s /\ s <= taken + 1
      BY <1>4, <3>1, Bounds
    <3>4. QED
      BY <1>4, <3>1, <3>2, <3>3 DEF Counted
  <2> HIDE DEF U, pB, rx, ry
  <2>5. Stash(ry, taken, s, taken)
    BY <1>3 DEF Stash
  <2>6. IFrames(ry, pA, taken, s, taken)
    BY <2>2, <2>3 DEF IFrames
  <2>7. Sabms(A.state, ry, pA, taken, s)
    BY <1>6, <2>2, <2>3 DEF Sabms, SabmBeforeI
  <2>8. Fresh(ry, taken, s)
    BY <1>3 DEF Fresh
  <2>9. Uas(A.state, ry, pA, pB, taken, s, taken)
    <3>1. ASSUME A.state = 1, NEW g, NEW h, Precedes(pB, g, h), g.type = "UA"
          PROVE  h.type # "SREJ" /\ (h.type = "RR" => h.nr = 0)
      <4>1. CASE h \in In(w)
        BY <1>1, <4>1
      <4>2. CASE Precedes(qB, g, h)
        <5>1. Has(qB, "UA")
          BY <3>1, <4>2, PrecedesIn DEF Has
        <5>2. QED
          BY <1>2, <3>1, <4>2, <5>1 DEF PairParts, Uas
      <4>3. \A k, l : Precedes(w, k, l) => l \in In(w)
        BY PrecedesIn
      <4>4. QED
        BY <2>1, <3>1, <4>1, <4>2, <4>3 DEF Longer
    <3>2. QED
      BY <2>2, <2>8, <3>1 DEF Uas, Has
  <2>10. Pair(A, U, pA, pB, acc, last, taken, s, taken)
    BY <1>6, <2>1, <2>4, <2>5, <2>6, <2>7, <2>9 DEF Pair
  <2>11. QED
    BY <1>1, <2>10 DEF U, pB
<1>7. QED
  BY <1>5, <1>6

-----------------------------------------------------------------------------
(* B's calls keep it: parts given up.                                      *)

(* An I frame at the head of A's queue: no SABM that A still answers to    *)
(* follows it, and no UA that it waits for comes from B.                   *)
LEMMA HeadIsI ==
  ASSUME NEW A, NEW B, NEW qA, NEW qB, NEW acc, NEW last, NEW base, NEW r, NEW top,
         NEW taken, NEW first, NEW rx,
         PairParts(A, B, qA, qB, acc, last, base, r, top, taken, first, rx),
         NEW f \in In(qA), f.type = "I", NEW pA, Fewer(qA, pA),
         \A g \in In(pA) : Precedes(qA, f, g),
         NEW w, NEW pB, Longer(qB, w, pB), \A g \in In(w) : g.type # "UA",
         NEW rx2, NEW base2, NEW r2, NEW taken2
  PROVE  /\ Sabms(A.state, rx2, pA, base2, r2)
         /\ Uas(A.state, rx2, pA, pB, base2, r2, taken2)
<1>1. Sabms(A.state, rx, qA, base, r) /\ Uas(A.state, rx, qA, qB, base, r, taken)
  BY DEF PairParts
<1>2. Has(pA, "SABM") => IBeforeSabm(qA) /\ Has(qA, "SABM")
  BY DEF Has, IBeforeSabm, Fewer
<1>3. SabmBeforeI(pA) => SabmBeforeI(qA) /\ Has(pA, "SABM")
  BY PrecedesIn DEF SabmBeforeI, Fewer, Has
<1>4. Sabms(A.state, rx2, pA, base2, r2)
  BY <1>1, <1>2, <1>3 DEF Sabms
<1>5. Has(pB, "UA") => Has(qB, "UA")
  BY DEF Longer, Has
<1>6. Has(qA, "I")
  BY DEF Has
<1>7. QED
  BY <1>1, <1>4, <1>5, <1>6 DEF Uas

(* The frame expected is at the head of A's queue, and c more are kept.    *)
LEMMA GivesUpParts ==
  ASSUME NEW A, NEW B, NEW qA, NEW qB, NEW acc, NEW last, NEW base, NEW r, NEW top,
         NEW taken, NEW first, NEW rx,
         PairParts(A, B, qA, qB, acc, last, base, r, top, taken, first, rx),
         NEW f \in In(qA), f.type = "I", f.ns = B.vr
  PROVE  /\ f.info = r /\ r <= top
         /\ Following(B) \in Nat /\ r + Following(B) <= top
         /\ \A j \in 1..Following(B) : AX25MODULO(B.vr + j) = Num(base, r + j)
                                       /\ rx[Num(base, r + j)] = r + j
         /\ \A z \in r..top : Ahead(B.vr, Num(base, z)) = z - r
         /\ AX25MODULO(B.vr + Following(B) + 1) = Num(base, (r + Following(B)) + 1)
<1> DEFINE c == Following(B)
<1>1. /\ B.vr = Num(base, r) /\ base \in Int /\ r \in Int /\ top \in Int /\ top - r <= Modulo - 2
      /\ r <= top + 1 /\ Modulo \in Nat
  BY Bounds DEF PairParts, Counted
<1>2. IFrames(rx, qA, base, r, top) /\ Stash(rx, base, r, top) /\ rx = B.rxdata_by_ns
  BY DEF PairParts
<1>3. f.info \in r..top /\ f.ns = Num(base, f.info)
  BY <1>2 DEF IFrames
<1>4. f.info = r /\ r <= top
  <2>1. r \in r..top
    BY <1>1, <1>3
  <2>2. Num(base, f.info) = Num(base, r)
    BY <1>1, <1>3
  <2> DEFINE i == f.info
  <2>3. i \in r..top
    BY <1>3
  <2> HIDE DEF i
  <2>4. Num(base, i) = Num(base, r)
    BY <2>2 DEF i
  <2>5. i = r
    BY <1>1, <2>1, <2>3, <2>4, InRange
  <2>6. QED
    BY <1>1, <1>3, <2>1, <2>5 DEF i
<1>5. /\ c \in Nat /\ c + 1 < Modulo
      /\ \A j \in 1..c : rx[AX25MODULO(B.vr + j)] # NULL
  BY <1>2, FollowingIs DEF PairParts, Ends, Receiver, Idle, LinkInv, Sound
<1> HIDE DEF c
<1>6. ASSUME NEW j \in 1..c
      PROVE  /\ AX25MODULO(B.vr + j) = Num(base, r + j) /\ r + j <= top
             /\ rx[Num(base, r + j)] = r + j
  <2>1. j \in Int /\ -Modulo <= j /\ j <= Modulo /\ 1 <= j /\ j <= Modulo - 2
    BY <1>1, <1>5, <1>6
  <2>2. AX25MODULO(B.vr + j) = Num(base, r + j)
    BY <1>1, <2>1, NumPlus
  <2>3. Num(base, r + j) \in Number
    BY <1>1, <2>1, NumIs
  <2>4. PICK z \in (r + 1)..top : Num(base, r + j) = Num(base, z) /\ rx[Num(base, r + j)] = z
    BY <1>2, <1>5, <2>2, <2>3 DEF Stash
  <2>5. /\ z \in Int /\ r + j \in Int /\ -Modulo < (r + j) - z /\ (r + j) - z < Modulo
    BY <1>1, <2>1
  <2>6. r + j = z
    BY <1>1, <2>4, <2>5, NumSame
  <2>7. QED
    BY <2>2, <2>4, <2>6
<1>7. r + c <= top
  <2>1. CASE c = 0
    BY <1>1, <1>4, <2>1
  <2>2. CASE c # 0
    <3>1. c \in 1..c
      BY <1>5, <2>2
    <3>2. QED
      BY <1>6, <3>1
  <2>3. QED
    BY <2>1, <2>2
<1>8. ASSUME NEW z \in r..top
      PROVE  Ahead(B.vr, Num(base, z)) = z - r
  <2>1. z \in Int /\ r <= z /\ z < r + Modulo
    BY <1>1
  <2>2. QED
    BY <1>1, <2>1, NumAhead
<1>9. AX25MODULO(B.vr + c + 1) = Num(base, (r + c) + 1)
  <2>1. c + 1 \in Int /\ -Modulo <= c + 1 /\ c + 1 <= Modulo
    BY <1>1, <1>5
  <2>2. AX25MODULO(B.vr + (c + 1)) = Num(base, r + (c + 1))
    BY <1>1, <2>1, NumPlus
  <2>3. B.vr \in Int
    BY <1>1, NumIs
  <2>4. B.vr + (c + 1) = B.vr + c + 1 /\ r + (c + 1) = (r + c) + 1
    BY <1>1, <1>5, <2>3
  <2>5. QED
    BY <2>2, <2>4
<1>10. QED
  BY <1>4, <1>5, <1>6, <1>7, <1>8, <1>9 DEF c

(* B's numbers move from r to r2: what it keeps from r2 on stays.          *)
Moves(rx, rx2, base, r, r2, top) ==
  /\ r2 \in Nat /\ r < r2 /\ r2 <= top + 1
  /\ \A n \in Number : rx2[n] = NULL \/ rx2[n] = rx[n]
  /\ \A z \in r2..top : rx2[Num(base, z)] = rx[Num(base, z)]
  /\ \A z \in r..top : z < r2 => rx2[Num(base, z)] = NULL
  /\ \A z \in (r + 1)..top : rx[Num(base, z)] = NULL => r2 <= z
  /\ rx2[Num(base, r2)] = NULL

(* What Gives does is such a move.                                         *)
LEMMA MovesIs ==
  ASSUME NEW A, NEW B, NEW qA, NEW qB, NEW acc, NEW last, NEW base, NEW r, NEW top,
         NEW taken, NEW first, NEW rx,
         PairParts(A, B, qA, qB, acc, last, base, r, top, taken, first, rx),
         NEW f \in In(qA), f.type = "I", f.ns = B.vr,
         NEW T, NEW w, Gives(B, T, w, f.info)
  PROVE  /\ Moves(rx, T.rxdata_by_ns, base, r, (r + Following(B)) + 1, top)
         /\ T.vr = Num(base, (r + Following(B)) + 1)
<1> DEFINE c == Following(B)
           r2 == (r + c) + 1
           rx2 == T.rxdata_by_ns
<1>1. /\ f.info = r /\ r <= top
      /\ c \in Nat /\ r + c <= top
      /\ \A j \in 1..c : rx[Num(base, r + j)] = r + j
      /\ \A z \in r..top : Ahead(B.vr, Num(base, z)) = z - r
      /\ AX25MODULO(B.vr + c + 1) = Num(base, r2)
  BY GivesUpParts
<1>2. /\ T.vr = AX25MODULO(B.vr + c + 1)
      /\ \A n \in Number : rx2[n] = IF Ahead(B.vr, n) <= c THEN NULL ELSE rx[n]
  BY DEF Gives, PairParts
<1>3. base \in Nat /\ r \in Nat /\ top \in Nat /\ top <= taken /\ taken \in Nat /\ base < r
  BY WindowNumbers
<1>4. \A z \in r..top : z \in Info /\ z # NULL
  BY <1>3, PartsAreInfo
<1>4a. rx2[Num(base, r2)] = NULL
  <2>1. rx[AX25MODULO(B.vr + c + 1)] = NULL
    BY FollowingIs DEF PairParts, Ends, Receiver, Idle, LinkInv, Sound
  <2>2. base \in Int /\ r2 \in Int
    BY <1>1, <1>3
  <2>3. AX25MODULO(B.vr + c + 1) = Num(base, r2)
    BY <1>1
  <2> HIDE DEF r2
  <2>4. Num(base, r2) \in Number
    BY <2>2, NumIs
  <2>5. QED
    BY <1>2, <2>1, <2>3, <2>4
<1> HIDE DEF c, rx2
<1>5. ASSUME NEW z \in r..top
      PROVE  /\ z < r2 => rx2[Num(base, z)] = NULL
             /\ r2 <= z => rx2[Num(base, z)] = rx[Num(base, z)]
  <2>1. Num(base, z) \in Number
    BY <1>3, NumIs
  <2>2. Ahead(B.vr, Num(base, z)) = z - r
    BY <1>1
  <2>3. (z < r2 <=> z - r <= c) /\ (r2 <= z <=> ~(z - r <= c))
    BY <1>1, <1>3
  <2>4. QED
    BY <1>2, <2>1, <2>2, <2>3
<1>6. ASSUME NEW z \in (r + 1)..top, rx[Num(base, z)] = NULL
      PROVE  r2 <= z
  <2>1. ASSUME z < r2 PROVE FALSE
    <3> DEFINE j == z - r
    <3>1. j \in 1..c /\ r + j = z
      BY <1>1, <1>3, <2>1
    <3> HIDE DEF j
    <3>2. rx[Num(base, z)] = z
      BY <1>1, <3>1
    <3>3. z \in r..top
      BY <1>3
    <3>4. QED
      BY <1>4, <1>6, <3>2, <3>3
  <2>2. QED
    BY <1>1, <1>3, <2>1
<1>7. \A n \in Number : rx2[n] = NULL \/ rx2[n] = rx[n]
  BY <1>2
<1>8. r2 \in Nat /\ r < r2 /\ r2 <= top + 1 /\ \A z \in r2..top : z \in r..top
  BY <1>1, <1>3
<1> HIDE DEF r2
<1>9. /\ \A z \in r2..top : rx2[Num(base, z)] = rx[Num(base, z)]
      /\ \A z \in r..top : z < r2 => rx2[Num(base, z)] = NULL
  BY <1>5, <1>8, <1>3
<1>10. Moves(rx, rx2, base, r, r2, top)
  BY <1>4a, <1>6, <1>7, <1>8, <1>9 DEF Moves
<1>11. T.vr = Num(base, r2)
  BY <1>1, <1>2
<1>12. QED
  BY <1>10, <1>11 DEF c, r2, rx2

(* What is kept after it is in its place.                                  *)
LEMMA MovesParts ==
  ASSUME NEW base \in Nat, NEW r \in Nat, NEW top \in Nat, NEW r2, NEW rx, NEW rx2,
         Moves(rx, rx2, base, r, r2, top)
  PROVE  /\ \A z : r2 < z /\ KeptAt(rx, base, r, top, z) => KeptAt(rx2, base, r2, top, z)
         /\ \A t, u \in r2..top : Ord(rx, base, r, top, t, u) => Ord(rx2, base, r2, top, t, u)
         /\ Stash(rx, base, r, top) => Stash(rx2, base, r2, top)
<1>1. /\ r2 \in Nat /\ r < r2 /\ r2 <= top + 1
      /\ \A n \in Number : rx2[n] = NULL \/ rx2[n] = rx[n]
      /\ \A z \in r2..top : rx2[Num(base, z)] = rx[Num(base, z)]
      /\ \A z \in r..top : z < r2 => rx2[Num(base, z)] = NULL
      /\ rx2[Num(base, r2)] = NULL
  BY DEF Moves
<1>2. ASSUME NEW z, r2 < z, KeptAt(rx, base, r, top, z)
      PROVE  KeptAt(rx2, base, r2, top, z)
  <2>1. z \in (r + 1)..top /\ rx[Num(base, z)] = z
    BY <1>2 DEF KeptAt
  <2>2. z \in (r2 + 1)..top /\ z \in r2..top
    BY <1>1, <1>2, <2>1
  <2>3. QED
    BY <1>1, <2>1, <2>2 DEF KeptAt
<1>3. ASSUME NEW t \in r2..top, NEW u \in r2..top, Ord(rx, base, r, top, t, u)
      PROVE  Ord(rx2, base, r2, top, t, u)
  <2>1. t # u /\ (u < t => \E z \in (u + 1)..(t - 1) : KeptAt(rx, base, r, top, z))
    BY <1>3 DEF Ord
  <2>2. ASSUME u < t
        PROVE  \E z \in (u + 1)..(t - 1) : KeptAt(rx2, base, r2, top, z)
    <3>1. PICK z \in (u + 1)..(t - 1) : KeptAt(rx, base, r, top, z)
      BY <2>1, <2>2
    <3>2. r2 < z
      BY <1>1
    <3>3. QED
      BY <1>2, <3>1, <3>2
  <2>3. QED
    BY <2>1, <2>2 DEF Ord
<1>4. ASSUME Stash(rx, base, r, top), NEW n \in Number, rx2[n] # NULL
      PROVE  \E z \in (r2 + 1)..top : n = Num(base, z) /\ rx2[n] = z
  <2>1. rx2[n] = rx[n] /\ rx[n] # NULL
    BY <1>1, <1>4
  <2>2. PICK z \in (r + 1)..top : n = Num(base, z) /\ rx[n] = z
    BY <1>4, <2>1 DEF Stash
  <2>3. ~(z < r2) /\ z # r2
    BY <1>1, <1>4, <2>2
  <2>4. z \in r2..top
    BY <1>1, <2>3
  <2>5. QED
    BY <1>1, <2>1, <2>2, <2>4
<1>5. QED
  BY <1>2, <1>3, <1>4 DEF Stash

(* The acknowledgements under way when B's numbers move.                   *)
LEMMA AcksWider ==
  ASSUME NEW qB, NEW base \in Int, NEW r \in Int, NEW r2 \in Int, NEW first \in Int,
         Acks(qB, base, r, first), r <= r2, r2 - first < Modulo,
         \A f \in In(qB) : IsAck(f) => f.type = "RR"
  PROVE  Acks(qB, base, r2, first)
<1>1. \A y \in first..r : y \in first..r2
  OBVIOUS
<1>2. ASSUME NEW f \in In(qB), IsAck(f), NEW y \in first..r2, f.nr = Num(base, y)
      PROVE  y \in first..r
  <2>1. PICK x \in first..r : f.nr = Num(base, x)
    BY <1>2 DEF Acks
  <2>2. /\ y \in Int /\ x \in Int /\ -Modulo < y - x /\ y - x < Modulo
    BY Bounds
  <2>3. y = x
    BY <1>2, <2>1, <2>2, NumSame
  <2>4. QED
    BY <2>3
<1>3. \A f \in In(qB) : f.type = "RR" => \E y \in first..r2 : f.nr = Num(base, y)
  BY <1>1 DEF Acks
<1>4. ASSUME NEW f, NEW g, Precedes(qB, f, g), IsAck(f), IsAck(g),
             NEW y \in first..r2, NEW z \in first..r2, f.nr = Num(base, y), g.nr = Num(base, z)
      PROVE  y <= z
  <2>1. f \in In(qB) /\ g \in In(qB)
    BY <1>4, PrecedesIn
  <2>2. y \in first..r /\ z \in first..r
    BY <1>2, <1>4, <2>1
  <2>3. QED
    BY <1>4, <2>2 DEF Acks
<1>5. QED
  BY <1>3, <1>4 DEF Acks

(* B gives up the part it expects and those that follow it.                *)
LEMMA GivesKeeps ==
  ASSUME NEW A, NEW B, NEW qA, NEW qB, NEW acc, NEW last, NEW base, NEW r, NEW top,
         Pair(A, B, qA, qB, acc, last, base, r, top),
         NEW f \in In(qA), f.type = "I", f.ns = B.vr,
         NEW T, NEW w, Gives(B, T, w, f.info), NEW pA, Fewer(qA, pA),
         \A g \in In(pA) : Precedes(qA, f, g)
  PROVE  LET c == Following(B) IN
         Pair(A, Cleared(T), pA, qB \o w, acc, r + c, base, (r + c) + 1, top)
<1> DEFINE U == Cleared(T)
           pB == qB \o w
           rx == B.rxdata_by_ns
           rx2 == T.rxdata_by_ns
           c == Following(B)
           r2 == (r + c) + 1
           taken == Taken(A, acc)
           first == First(A, acc)
<1>1. PairParts(A, B, qA, qB, acc, last, base, r, top, taken, first, rx)
  BY PairHasParts
<1>2. /\ ReceiverAfter(T, w) /\ \A g \in In(w) : g.type = "null"
  BY DEF Gives
<1>3. /\ Ends(A, U, pA, pB, acc) /\ Longer(qB, w, pB) /\ U.vr = T.vr /\ U.rxdata_by_ns = rx2
  BY <1>1, <1>2, ReceiverEnds DEF PairParts
<1>4. Moves(rx, rx2, base, r, r2, top) /\ T.vr = Num(base, r2)
  BY <1>1, MovesIs
<1>5. c \in Nat /\ f.info = r /\ r <= top
  BY <1>1, GivesUpParts
<1>6. /\ taken \in Nat /\ first \in Int /\ base \in Nat /\ r \in Nat /\ top \in Nat
      /\ Outstanding(A) \in Nat /\ Outstanding(A) <= k_maxframe
      /\ (taken + 1) - first = Outstanding(A)
      /\ base < r /\ r <= top + 1 /\ top <= taken /\ top - r <= Modulo - 2
      /\ A.state \in Connected => top = taken /\ base < first /\ first <= r
  BY <1>1, WindowNumbers
<1>7. r2 \in Nat /\ r < r2 /\ r2 <= top + 1 /\ r + c < r2 /\ r + c \in Nat
  BY <1>4, <1>5, <1>6 DEF Moves
<1> HIDE DEF U, pB, rx, rx2, c, r2, taken, first
<1>8. Counted(U.vr, base, r2, top, taken, r + c)
  <2>1. U.vr = Num(base, r2)
    BY <1>3, <1>4
  <2>2. base < r2 /\ top - r2 <= Modulo - 2
    BY <1>6, <1>7, Bounds
  <2>3. QED
    BY <1>6, <1>7, <2>1, <2>2 DEF Counted
<1>9. /\ \A z : r2 < z /\ KeptAt(rx, base, r, top, z) => KeptAt(rx2, base, r2, top, z)
      /\ \A t, u \in r2..top : Ord(rx, base, r, top, t, u) => Ord(rx2, base, r2, top, t, u)
      /\ Stash(rx, base, r, top) => Stash(rx2, base, r2, top)
  BY <1>4, <1>6, MovesParts
<1>10. Stash(rx2, base, r2, top)
  BY <1>1, <1>9 DEF PairParts
<1>11. IFrames(rx, qA, base, r, top)
  BY <1>1 DEF PairParts
<1>12. /\ \A n \in Number : rx2[n] = NULL \/ rx2[n] = rx[n]
       /\ \A z \in (r + 1)..top : rx[Num(base, z)] = NULL => r2 <= z
  BY <1>4 DEF Moves
<1>13. ASSUME NEW g \in In(pA), g.type = "I"
       PROVE  g.info \in r2..top /\ g.ns = Num(base, g.info) /\ rx2[g.ns] = NULL
  <2>1. g \in In(qA) /\ Precedes(qA, f, g)
    BY <1>13 DEF Fewer
  <2>2. g.info \in r..top /\ g.ns = Num(base, g.info) /\ rx[g.ns] = NULL
    BY <1>11, <1>13, <2>1 DEF IFrames
  <2>3. g.info # r
    BY <1>5, <1>11, <1>13, <2>1 DEF IFrames, Ord
  <2>4. r2 <= g.info
    <3>1. g.info \in (r + 1)..top
      BY <1>6, <2>2, <2>3
    <3>2. QED
      BY <1>12, <2>2, <3>1
  <2>5. g.ns \in Number
    <3>1. base \in Int /\ g.info \in Int
      BY <1>6, <2>2
    <3>2. Num(base, g.info) \in Number
      BY <3>1, NumIs
    <3>3. QED
      BY <2>2, <3>2
  <2>6. g.info \in r2..top
    BY <1>7, <2>2, <2>4
  <2>7. QED
    BY <1>12, <2>2, <2>5, <2>6
<1>14. IFrames(rx2, pA, base, r2, top)
  <2>1. ASSUME NEW g, NEW h, Precedes(pA, g, h), g.type = "I", h.type = "I"
        PROVE  Ord(rx2, base, r2, top, g.info, h.info)
    <3>1. g \in In(pA) /\ h \in In(pA) /\ Precedes(qA, g, h)
      BY <2>1, PrecedesIn DEF Fewer
    <3>2. g.info \in r2..top /\ h.info \in r2..top
      BY <1>13, <2>1, <3>1
    <3>3. Ord(rx, base, r, top, g.info, h.info)
      BY <1>11, <2>1, <3>1 DEF IFrames
    <3>4. QED
      BY <1>9, <3>2, <3>3
  <2>2. QED
    BY <1>13, <2>1 DEF IFrames
<1>15. Sabms(A.state, rx2, pA, base, r2) /\ Uas(A.state, rx2, pA, pB, base, r2, taken)
  <2>1. \A g \in In(w) : g.type # "UA"
    BY <1>2
  <2>2. QED
    BY <1>1, <1>3, <2>1, HeadIsI
<1>16. ASSUME A.state \in Connected
       PROVE  Joined(A, rx2, pA, pB, base, r2, top, taken, first)
  <2>1. /\ Window(A, base, r, top, taken, first) /\ Acks(qB, base, r, first)
        /\ Srejs(rx, qA, qB, base, r, top)
    BY <1>1, <1>16 DEF PairParts, Joined
  <2>2. Window(A, base, r2, top, taken, first)
    <3>1. first <= r2
      BY <1>6, <1>7, <1>16
    <3>2. QED
      BY <2>1, <3>1 DEF Window
  <2>3. ASSUME NEW g \in In(qB), g.type = "SREJ", NEW x \in r..top, g.nr = Num(base, x)
        PROVE  x # r
    <3>1. Ord(rx, base, r, top, f.info, x)
      BY <2>1, <2>3 DEF Srejs
    <3>2. QED
      BY <1>5, <3>1 DEF Ord
  <2>4. \A g \in In(qB) : IsAck(g) => g.type = "RR"
    <3>1. ASSUME NEW g \in In(qB), g.type = "SREJ", g.pf = 1 PROVE FALSE
      <4>1. PICK x \in r..top : AsksFrom(rx, g, base, r, top, x)
        BY <2>1, <3>1 DEF Srejs
      <4>2. x = r /\ g.nr = Num(base, x)
        BY <3>1, <4>1 DEF AsksFrom
      <4>3. QED
        BY <2>3, <3>1, <4>2
    <3>2. QED
      BY <3>1 DEF IsAck
  <2>5. Acks(pB, base, r2, first)
    <3>1. r2 - first < Modulo /\ first <= r2 /\ base \in Int /\ r \in Int /\ r2 \in Int /\ r <= r2
      BY <1>6, <1>7, <1>16, Bounds
    <3>2. Acks(qB, base, r2, first)
      BY <1>6, <2>1, <2>4, <3>1, AcksWider
    <3>3. \A g \in In(w) : IsAck(g) => g.nr = Num(base, r2)
      BY <1>2 DEF IsAck
    <3>4. QED
      BY <1>3, <1>6, <3>1, <3>2, <3>3, AcksLonger
  <2>6. \A g \in In(pB) : g.type = "SREJ" => g \in In(qB)
    BY <1>2, <1>3 DEF Longer
  <2>7. ASSUME NEW g \in In(qB), g.type = "SREJ", NEW x \in r..top, AsksFrom(rx, g, base, r, top, x)
        PROVE  x \in r2..top /\ AsksFrom(rx2, g, base, r2, top, x)
    <3>1. /\ g.nr = Num(base, x) /\ rx[g.nr] = NULL
          /\ \E z \in (x + 1)..top : KeptAt(rx, base, r, top, z)
      BY <2>7 DEF AsksFrom
    <3>2. x # r
      BY <2>3, <2>7, <3>1
    <3>3. x \in (r + 1)..top
      BY <1>6, <3>2
    <3>4. r2 <= x
      BY <1>12, <3>1, <3>3
    <3>5. x \in r2..top
      BY <1>7, <3>4
    <3>6. rx2[g.nr] = NULL
      <4>1. g.nr \in Number
        BY <1>6, <3>1, NumIs
      <4>2. QED
        BY <1>12, <3>1, <4>1
    <3>7. g.pf # 1
      BY <2>7, <3>2 DEF AsksFrom
    <3>8. PICK z \in (x + 1)..top : KeptAt(rx, base, r, top, z)
      BY <3>1
    <3>9. r2 < z
      BY <1>7, <3>4
    <3>10. KeptAt(rx2, base, r2, top, z)
      BY <1>9, <3>8, <3>9
    <3>11. AsksFrom(rx2, g, base, r2, top, x)
      BY <3>1, <3>6, <3>7, <3>10 DEF AsksFrom
    <3>12. QED
      BY <3>5, <3>11
  <2>8. Srejs(rx2, pA, pB, base, r2, top)
    <3>1. \A x \in r2..top : x \in r..top
      BY <1>6, <1>7
    <3>2. ASSUME NEW g \in In(pB), g.type = "SREJ"
          PROVE  /\ \E x \in r2..top : AsksFrom(rx2, g, base, r2, top, x)
                 /\ \A h \in In(pA) : h.type = "I" =>
                      \A x \in r2..top : g.nr = Num(base, x) => Ord(rx2, base, r2, top, h.info, x)
      <4>1. g \in In(qB)
        BY <2>6, <3>2
      <4>2. PICK x \in r..top : AsksFrom(rx, g, base, r, top, x)
        BY <2>1, <3>2, <4>1 DEF Srejs
      <4>3. x \in r2..top /\ AsksFrom(rx2, g, base, r2, top, x)
        BY <2>7, <3>2, <4>1, <4>2
      <4>4. ASSUME NEW h \in In(pA), h.type = "I", NEW y \in r2..top, g.nr = Num(base, y)
            PROVE  Ord(rx2, base, r2, top, h.info, y)
        <5>1. h \in In(qA) /\ h.info \in r2..top
          BY <1>13, <4>4 DEF Fewer
        <5>2. Ord(rx, base, r, top, h.info, y)
          BY <2>1, <3>1, <3>2, <4>1, <4>4, <5>1 DEF Srejs
        <5>3. QED
          BY <1>9, <5>1, <5>2
      <4>5. QED
        BY <4>3, <4>4
    <3>3. ASSUME NEW g, NEW h, Precedes(pB, g, h), g.type = "SREJ", h.type = "SREJ",
                 NEW x \in r2..top, NEW y \in r2..top, g.nr = Num(base, x), h.nr = Num(base, y)
          PROVE  Ord(rx2, base, r2, top, x, y)
      <4>1. Precedes(qB, g, h)
        <5>1. \A k, l : Precedes(w, k, l) => k \in In(w) /\ l \in In(w)
          BY PrecedesIn
        <5>2. QED
          BY <1>2, <1>3, <3>3, <5>1 DEF Longer
      <4>2. Ord(rx, base, r, top, x, y)
        BY <2>1, <3>1, <3>3, <4>1 DEF Srejs
      <4>3. QED
        BY <1>9, <4>2
    <3>4. QED
      BY <3>2, <3>3 DEF Srejs
  <2>9. QED
    BY <2>2, <2>5, <2>8 DEF Joined
<1>17. Pair(A, U, pA, pB, acc, r + c, base, r2, top)
  BY <1>3, <1>8, <1>10, <1>14, <1>15, <1>16 DEF Pair, taken, first
<1>18. QED
  BY <1>17 DEF U, pB, c, r2

(* What a call gives: accepted parts, each after the one                    *)
(* before it, the first of them after the last that was given before.      *)
Rises(up, last, acc) ==
  /\ up \in Seq(Nat) /\ up # << >>
  /\ \A i \in 1..Len(up) : up[i] \in 1..acc /\ (IF i = 1 THEN last ELSE up[i - 1]) < up[i]

LEMMA CountRises ==
  ASSUME NEW up \in Seq(Nat), NEW last \in Nat, NEW acc \in Nat, NEW r \in Nat, NEW c \in Nat,
         Len(up) = c + 1, last < r, r + c <= acc,
         \A i \in 1..(c + 1) : up[i] = r + i - 1
  PROVE  Rises(up, last, acc)
<1>1. up # << >> /\ Len(up) = c + 1
  OBVIOUS
<1>2. ASSUME NEW i \in 1..Len(up)
      PROVE  up[i] \in 1..acc /\ (IF i = 1 THEN last ELSE up[i - 1]) < up[i]
  <2>1. i \in 1..(c + 1) /\ up[i] = r + i - 1
    OBVIOUS
  <2>2. i # 1 => up[i - 1] = r + (i - 1) - 1
    <3>1. i # 1 => i - 1 \in 1..(c + 1)
      BY <2>1
    <3>2. QED
      BY <3>1
  <2>3. QED
    BY <2>1, <2>2
<1>3. QED
  BY <1>1, <1>2 DEF Rises

(* What is given continues what was given before.                          *)
LEMMA GivesInOrder ==
  ASSUME NEW A, NEW B, NEW qA, NEW qB, NEW acc, NEW last, NEW base, NEW r, NEW top,
         Pair(A, B, qA, qB, acc, last, base, r, top),
         NEW f \in In(qA), f.type = "I", f.ns = B.vr,
         NEW T, NEW w, Gives(B, T, w, f.info)
  PROVE  LET c == Following(B) IN
         /\ T.up \in Seq(Nat) /\ Len(T.up) = c + 1 /\ T.up[c + 1] = r + c /\ c \in Nat
         /\ Rises(T.up, last, acc)
<1> DEFINE rx == B.rxdata_by_ns
           c == Following(B)
           taken == Taken(A, acc)
           first == First(A, acc)
           more == [j \in 1..c |-> rx[AX25MODULO(B.vr + j)]]
<1>1. PairParts(A, B, qA, qB, acc, last, base, r, top, taken, first, rx)
  BY PairHasParts
<1>2. /\ f.info = r /\ r <= top
      /\ c \in Nat /\ r + c <= top
      /\ \A j \in 1..c : /\ AX25MODULO(B.vr + j) = Num(base, r + j)
                         /\ rx[Num(base, r + j)] = r + j
  BY <1>1, GivesUpParts
<1>3. T.up = <<f.info>> \o more
  BY DEF Gives
<1>4. /\ taken \in Nat /\ r \in Nat /\ top \in Nat /\ top <= taken
  BY <1>1, WindowNumbers
<1>5. last \in Nat /\ last < r
  BY <1>1 DEF PairParts, Counted
<1>6. acc \in Nat /\ taken <= acc
  <2>1. acc \in Nat /\ Len(A.i_frame_queue) \in Nat
    BY <1>1, LinkTypes DEF PairParts, Ends, Sender, Idle, LinkInv, Sound
  <2>2. QED
    BY <2>1 DEF taken, Taken
<1> HIDE DEF rx, c, taken, first
<1>7. more = [j \in 1..c |-> r + j] /\ more \in Seq(Nat) /\ Len(more) = c
  <2>1. \A j \in 1..c : rx[AX25MODULO(B.vr + j)] = r + j
    BY <1>2
  <2>2. more = [j \in 1..c |-> r + j]
    BY <2>1
  <2>3. [j \in 1..c |-> r + j] \in Seq(Nat) /\ Len([j \in 1..c |-> r + j]) = c
    BY <1>2, <1>4
  <2>4. QED
    BY <2>2, <2>3
<1> HIDE DEF more
<1>8. <<f.info>> \in Seq(Nat) /\ Len(<<f.info>>) = 1
  BY <1>2, <1>4
<1>9. /\ T.up \in Seq(Nat) /\ Len(T.up) = 1 + c
      /\ \A i \in 1..(1 + c) : T.up[i] = IF i <= 1 THEN <<f.info>>[i] ELSE more[i - 1]
  BY <1>2, <1>3, <1>7, <1>8
<1>10. ASSUME NEW i \in 1..(c + 1)
       PROVE  T.up[i] = r + i - 1
  <2>1. i \in 1..(1 + c)
    BY <1>2
  <2>2. CASE i = 1
    <3>1. T.up[i] = <<f.info>>[1]
      BY <1>9, <2>1, <2>2
    <3>2. QED
      BY <1>2, <1>4, <2>2, <3>1
  <2>3. CASE i # 1
    <3>1. T.up[i] = more[i - 1] /\ i - 1 \in 1..c
      BY <1>2, <1>9, <2>1, <2>3
    <3>2. more[i - 1] = r + (i - 1)
      BY <1>7, <3>1
    <3>3. QED
      BY <1>2, <1>4, <3>1, <3>2
  <2>4. QED
    BY <2>2, <2>3
<1>11. /\ c + 1 \in 1..(c + 1) /\ r + (c + 1) - 1 = r + c /\ 1 + c = c + 1
       /\ r + c <= acc
  BY <1>2, <1>4, <1>6
<1>12. T.up[c + 1] = r + c
  BY <1>10, <1>11
<1>13. T.up \in Seq(Nat) /\ Len(T.up) = c + 1
  BY <1>9, <1>11
<1>14. Rises(T.up, last, acc)
  BY <1>2, <1>4, <1>5, <1>6, <1>10, <1>11, <1>13, CountRises
<1>15. QED
  BY <1>2, <1>12, <1>13, <1>14 DEF c

-----------------------------------------------------------------------------
(* B's calls keep it: parts kept out of sequence.                          *)

(* B keeps one part more, t, and misses those from x to the one before.    *)
Adds(rx, rx2, base, r, top, t, x) ==
  /\ t \in (r + 1)..top /\ x \in r..t
  /\ \A n \in Number : n # Num(base, t) => rx2[n] = rx[n]
  /\ rx2[Num(base, t)] = t
  /\ \A y \in x..(t - 1) : rx2[Num(base, y)] = NULL /\ y # NULL

(* What Stashes does is such an addition.                                  *)
LEMMA AddsIs ==
  ASSUME NEW A, NEW B, NEW qA, NEW qB, NEW acc, NEW last, NEW base, NEW r, NEW top,
         NEW taken, NEW first, NEW rx,
         PairParts(A, B, qA, qB, acc, last, base, r, top, taken, first, rx),
         NEW f \in In(qA), f.type = "I", f.ns # B.vr,
         NEW T, NEW w, NEW a, Stashes(B, T, w, f, a)
  PROVE  /\ Adds(rx, T.rxdata_by_ns, base, r, top, f.info, r + a)
         /\ a \in Nat /\ Ahead(B.vr, f.ns) = f.info - r
<1> DEFINE t == f.info
           d == Ahead(B.vr, f.ns)
           rx2 == T.rxdata_by_ns
<1>1. IFrames(rx, qA, base, r, top) /\ B.vr = Num(base, r) /\ rx = B.rxdata_by_ns
  BY DEF PairParts, Counted
<1>2. /\ taken \in Nat /\ base \in Nat /\ r \in Nat /\ top \in Nat
      /\ base < r /\ r <= top + 1 /\ top <= taken /\ top - r <= Modulo - 2 /\ Modulo \in Nat
  BY WindowNumbers, Bounds
<1>3. t \in r..top /\ f.ns = Num(base, t)
  BY <1>1 DEF IFrames
<1>4. rx \in [Number -> Info \cup {NULL}]
  BY LinkTypes DEF PairParts, Ends, Receiver, Idle, LinkInv, Sound
<1>5. /\ rx2 = [rx EXCEPT ![f.ns] = t] /\ a \in 0..d
      /\ \A j \in a..(d - 1) : rx2[AX25MODULO(B.vr + j)] = NULL
  BY <1>1 DEF Stashes
<1>6. \A z \in r..top : z \in Info /\ z # NULL
  BY <1>2, PartsAreInfo
<1> HIDE DEF t, d, rx2
<1>7. t # r
  BY <1>1, <1>3
<1>8. d = t - r
  <2>1. t \in Int /\ r <= t /\ t < r + Modulo
    BY <1>2, <1>3
  <2>2. Ahead(Num(base, r), Num(base, t)) = t - r
    BY <1>2, <2>1, NumAhead
  <2>3. QED
    BY <1>1, <1>3, <2>2 DEF d
<1>9. Num(base, t) \in Number
  <2>1. base \in Int /\ t \in Int
    BY <1>2, <1>3
  <2>2. QED
    BY <2>1, NumIs
<1>10. rx2[Num(base, t)] = t /\ \A n \in Number : n # Num(base, t) => rx2[n] = rx[n]
  BY <1>3, <1>4, <1>5, <1>9
<1>11. a \in Nat /\ r + a \in r..t /\ t \in (r + 1)..top
  BY <1>2, <1>3, <1>5, <1>7, <1>8
<1>12. ASSUME NEW y \in (r + a)..(t - 1)
       PROVE  rx2[Num(base, y)] = NULL /\ y # NULL
  <2> DEFINE j == y - r
  <2>1. /\ j \in a..(d - 1) /\ r + j = y /\ j \in Int /\ -Modulo <= j /\ j <= Modulo
    BY <1>2, <1>3, <1>8, <1>11
  <2>2. y \in r..top
    BY <1>2, <1>11
  <2> HIDE DEF j
  <2>3. AX25MODULO(B.vr + j) = Num(base, y)
    <3>1. AX25MODULO(Num(base, r) + j) = Num(base, r + j)
      BY <1>2, <2>1, NumPlus
    <3>2. QED
      BY <1>1, <2>1, <3>1
  <2>4. QED
    BY <1>5, <1>6, <2>1, <2>2, <2>3
<1>13. Adds(rx, rx2, base, r, top, t, r + a)
  BY <1>10, <1>11, <1>12 DEF Adds
<1>14. QED
  BY <1>8, <1>11, <1>13 DEF t, d, rx2

(* What is kept after it.                                                  *)
LEMMA AddsParts ==
  ASSUME NEW base \in Nat, NEW r \in Nat, NEW top \in Nat, NEW rx, NEW rx2, NEW t, NEW x,
         top - r <= Modulo - 2, Adds(rx, rx2, base, r, top, t, x)
  PROVE  /\ KeptAt(rx2, base, r, top, t)
         /\ \A z \in r..top : z # t => rx2[Num(base, z)] = rx[Num(base, z)]
         /\ \A z : z # t /\ KeptAt(rx, base, r, top, z) => KeptAt(rx2, base, r, top, z)
         /\ Stash(rx, base, r, top) => Stash(rx2, base, r, top)
         /\ \A z \in x..(t - 1) : ~KeptAt(rx, base, r, top, z)
<1>1. /\ t \in (r + 1)..top /\ x \in r..t
      /\ \A n \in Number : n # Num(base, t) => rx2[n] = rx[n]
      /\ rx2[Num(base, t)] = t
      /\ \A y \in x..(t - 1) : rx2[Num(base, y)] = NULL /\ y # NULL
  BY DEF Adds
<1>2. ASSUME NEW z \in r..top, z # t
      PROVE  rx2[Num(base, z)] = rx[Num(base, z)]
  <2>1. t \in r..top
    BY <1>1
  <2>2. Num(base, z) # Num(base, t)
    <3>1. base \in Int /\ r \in Int /\ top \in Int
      OBVIOUS
    <3>2. ASSUME Num(base, z) = Num(base, t) PROVE z = t
      BY <1>2, <2>1, <3>1, <3>2, InRange
    <3>3. QED
      BY <1>2, <3>2
  <2>3. Num(base, z) \in Number
    BY NumIs
  <2>4. QED
    BY <1>1, <2>2, <2>3
<1>3. KeptAt(rx2, base, r, top, t)
  BY <1>1 DEF KeptAt
<1>4. ASSUME NEW z, z # t, KeptAt(rx, base, r, top, z)
      PROVE  KeptAt(rx2, base, r, top, z)
  <2>1. z \in (r + 1)..top /\ rx[Num(base, z)] = z
    BY <1>4 DEF KeptAt
  <2>2. z \in r..top
    BY <2>1
  <2>3. QED
    BY <1>2, <1>4, <2>1, <2>2 DEF KeptAt
<1>5. ASSUME Stash(rx, base, r, top), NEW n \in Number, rx2[n] # NULL
      PROVE  \E z \in (r + 1)..top : n = Num(base, z) /\ rx2[n] = z
  <2>1. CASE n = Num(base, t)
    BY <1>1, <2>1
  <2>2. CASE n # Num(base, t)
    BY <1>1, <1>5, <2>2 DEF Stash
  <2>3. QED
    BY <2>1, <2>2
<1>6. ASSUME NEW z \in x..(t - 1), KeptAt(rx, base, r, top, z)
      PROVE  FALSE
  <2>1. z # t
    BY <1>1
  <2>2. KeptAt(rx2, base, r, top, z)
    BY <1>4, <1>6, <2>1
  <2>3. QED
    BY <1>1, <2>2 DEF KeptAt
<1>7. QED
  BY <1>2, <1>3, <1>4, <1>5, <1>6 DEF Stash

(* What is under way for a part stays in its place, and comes before a     *)
(* request for a part that is missing.                                     *)
LEMMA AddsOrd ==
  ASSUME NEW base \in Nat, NEW r \in Nat, NEW top \in Nat, NEW rx, NEW rx2, NEW t, NEW x,
         top - r <= Modulo - 2, Adds(rx, rx2, base, r, top, t, x), rx[Num(base, t)] = NULL
  PROVE  /\ \A z : KeptAt(rx, base, r, top, z) => KeptAt(rx2, base, r, top, z)
         /\ \A p, q : Ord(rx, base, r, top, p, q) => Ord(rx2, base, r, top, p, q)
         /\ \A u \in r..top : Ord(rx, base, r, top, t, u) =>
              \A y \in x..(t - 1) : Ord(rx2, base, r, top, u, y)
<1>1. /\ KeptAt(rx2, base, r, top, t)
      /\ \A z : z # t /\ KeptAt(rx, base, r, top, z) => KeptAt(rx2, base, r, top, z)
      /\ \A z \in x..(t - 1) : ~KeptAt(rx, base, r, top, z)
  BY AddsParts
<1>2. t \in (r + 1)..top /\ x \in r..t
  BY DEF Adds
<1>3. \A z : KeptAt(rx, base, r, top, z) => KeptAt(rx2, base, r, top, z)
  BY <1>1
<1>4. \A p, q : Ord(rx, base, r, top, p, q) => Ord(rx2, base, r, top, p, q)
  BY <1>3 DEF Ord
<1>5. ASSUME NEW u \in r..top, Ord(rx, base, r, top, t, u), NEW y \in x..(t - 1)
      PROVE  Ord(rx2, base, r, top, u, y)
  <2>1. t # u
    BY <1>5 DEF Ord
  <2>2. CASE u < t
    <3>1. PICK z \in (u + 1)..(t - 1) : KeptAt(rx, base, r, top, z)
      BY <1>5, <2>2 DEF Ord
    <3>2. z \notin x..(t - 1)
      BY <1>1, <3>1
    <3>3. u < y
      BY <1>2, <3>1, <3>2
    <3>4. QED
      BY <1>2, <3>3 DEF Ord
  <2>3. CASE t < u
    <3>1. t \in (y + 1)..(u - 1) /\ u # y
      BY <1>2, <2>3
    <3>2. QED
      BY <1>1, <3>1 DEF Ord
  <2>4. QED
    BY <1>2, <2>1, <2>2, <2>3
<1>6. QED
  BY <1>3, <1>4, <1>5

(* The frames by which B asks for what is missing from x to before t.      *)
Requests(w, base, r, t, x) ==
  /\ \A g \in In(w) : g.type = "SREJ" /\ \E y \in x..(t - 1) :
       g.nr = Num(base, y) /\ (g.pf = 1 => g.nr = Num(base, r))
  /\ \A g, h : Precedes(w, g, h) => \E y, z \in x..(t - 1) :
       y < z /\ g.nr = Num(base, y) /\ h.nr = Num(base, z)

(* Such are the frames that Stashes sends.                                 *)
LEMMA RequestsAre ==
  ASSUME NEW A, NEW B, NEW qA, NEW qB, NEW acc, NEW last, NEW base, NEW r, NEW top,
         NEW taken, NEW first, NEW rx,
         PairParts(A, B, qA, qB, acc, last, base, r, top, taken, first, rx),
         NEW f \in In(qA), f.type = "I", f.ns # B.vr,
         NEW T, NEW w, NEW a, Stashes(B, T, w, f, a)
  PROVE  Requests(w, base, r, f.info, r + a)
<1> DEFINE t == f.info
           d == Ahead(B.vr, f.ns)
<1>1. B.vr = Num(base, r)
  BY DEF PairParts, Counted
<1>2. /\ base \in Nat /\ r \in Nat /\ top \in Nat /\ top - r <= Modulo - 2 /\ Modulo \in Nat
  BY WindowNumbers, Bounds
<1>3. Adds(rx, T.rxdata_by_ns, base, r, top, t, r + a) /\ a \in Nat /\ d = t - r
  BY AddsIs
<1>4. t \in (r + 1)..top
  BY <1>3 DEF Adds
<1>5. /\ \A g \in In(w) : \E i \in a..(d - 1) : Asking(B, i, g)
      /\ \A g, h : Precedes(w, g, h) =>
           \E i, j \in a..(d - 1) : i < j /\ Asking(B, i, g) /\ Asking(B, j, h)
  BY DEF Stashes
<1> HIDE DEF t, d
<1>6. ASSUME NEW i \in a..(d - 1), NEW g, Asking(B, i, g)
      PROVE  /\ r + i \in (r + a)..(t - 1) /\ g.type = "SREJ" /\ g.nr = Num(base, r + i)
             /\ (g.pf = 1 => g.nr = Num(base, r))
  <2>1. r + i \in (r + a)..(t - 1) /\ i \in Int /\ -Modulo <= i /\ i <= Modulo
    BY <1>2, <1>3, <1>4
  <2>2. AX25MODULO(Num(base, r) + i) = Num(base, r + i)
    BY <1>2, <2>1, NumPlus
  <2>3. QED
    BY <1>1, <1>6, <2>1, <2>2 DEF Asking
<1>7. ASSUME NEW g, NEW h, Precedes(w, g, h)
      PROVE  \E y, z \in (r + a)..(t - 1) : y < z /\ g.nr = Num(base, y) /\ h.nr = Num(base, z)
  <2>1. PICK i \in a..(d - 1), j \in a..(d - 1) : i < j /\ Asking(B, i, g) /\ Asking(B, j, h)
    BY <1>5, <1>7
  <2>2. r + i < r + j
    BY <1>2, <1>3, <1>4, <2>1
  <2>3. QED
    BY <1>6, <2>1, <2>2
<1>8. ASSUME NEW g \in In(w)
      PROVE  g.type = "SREJ" /\ \E y \in (r + a)..(t - 1) :
               g.nr = Num(base, y) /\ (g.pf = 1 => g.nr = Num(base, r))
  <2>1. PICK i \in a..(d - 1) : Asking(B, i, g)
    BY <1>5
  <2>2. QED
    BY <1>6, <2>1
<1>9. Requests(w, base, r, t, r + a)
  BY <1>7, <1>8 DEF Requests
<1>10. QED
  BY <1>9 DEF t

(* B keeps a part out of sequence and asks for those before it.            *)
LEMMA StashedIFrames ==
  ASSUME NEW base \in Nat, NEW r \in Nat, NEW top \in Nat, NEW rx, NEW rx2, NEW t, NEW x,
         top - r <= Modulo - 2, Adds(rx, rx2, base, r, top, t, x), rx[Num(base, t)] = NULL,
         NEW qA, NEW pA, Fewer(qA, pA), IFrames(rx, qA, base, r, top),
         \A g \in In(pA) : g.type = "I" => Ord(rx, base, r, top, t, g.info)
  PROVE  IFrames(rx2, pA, base, r, top)
<1>1. /\ \A z \in r..top : z # t => rx2[Num(base, z)] = rx[Num(base, z)]
      /\ \A p, q : Ord(rx, base, r, top, p, q) => Ord(rx2, base, r, top, p, q)
  BY AddsParts, AddsOrd
<1>2. ASSUME NEW g \in In(pA), g.type = "I"
      PROVE  g.info \in r..top /\ g.ns = Num(base, g.info) /\ rx2[g.ns] = NULL
  <2>1. g.info \in r..top /\ g.ns = Num(base, g.info) /\ rx[g.ns] = NULL
    BY <1>2 DEF IFrames, Fewer
  <2>2. g.info # t
    BY <1>2 DEF Ord
  <2>3. QED
    BY <1>1, <2>1, <2>2
<1>3. ASSUME NEW g, NEW h, Precedes(pA, g, h), g.type = "I", h.type = "I"
      PROVE  Ord(rx2, base, r, top, g.info, h.info)
  BY <1>1, <1>3 DEF IFrames, Fewer
<1>4. QED
  BY <1>2, <1>3 DEF IFrames

LEMMA StashedSrejs ==
  ASSUME NEW base \in Nat, NEW r \in Nat, NEW top \in Nat, NEW rx, NEW rx2, NEW t, NEW x,
         top - r <= Modulo - 2, Adds(rx, rx2, base, r, top, t, x), rx[Num(base, t)] = NULL,
         NEW qA, NEW pA, Fewer(qA, pA), IFrames(rx, qA, base, r, top),
         \A g \in In(pA) : g.type = "I" => Ord(rx, base, r, top, t, g.info),
         NEW qB, NEW w, NEW pB, Longer(qB, w, pB), Requests(w, base, r, t, x),
         Srejs(rx, qA, qB, base, r, top),
         \A g \in In(qB) : g.type = "SREJ" =>
           \A y \in r..top : g.nr = Num(base, y) => Ord(rx, base, r, top, t, y)
  PROVE  Srejs(rx2, pA, pB, base, r, top)
<1>1. /\ \A z \in r..top : z # t => rx2[Num(base, z)] = rx[Num(base, z)]
      /\ KeptAt(rx2, base, r, top, t)
      /\ \A z : KeptAt(rx, base, r, top, z) => KeptAt(rx2, base, r, top, z)
      /\ \A p, q : Ord(rx, base, r, top, p, q) => Ord(rx2, base, r, top, p, q)
      /\ \A u \in r..top : Ord(rx, base, r, top, t, u) =>
           \A y \in x..(t - 1) : Ord(rx2, base, r, top, u, y)
  BY AddsParts, AddsOrd
<1>2. /\ t \in (r + 1)..top /\ x \in r..t
      /\ \A y \in x..(t - 1) : rx2[Num(base, y)] = NULL
  BY DEF Adds
<1>3. \A y \in x..(t - 1) : y \in r..top
  BY <1>2
<1>4. \A g \in In(pA) : g.type = "I" => g \in In(qA) /\ g.info \in r..top
  BY DEF Fewer, IFrames
<1>5. \A y, z \in r..top : Num(base, y) = Num(base, z) => y = z
  <2>1. base \in Int /\ r \in Int /\ top \in Int
    OBVIOUS
  <2>2. QED
    BY <2>1, InRange
<1>6. ASSUME NEW g \in In(qB), g.type = "SREJ"
      PROVE  /\ \E y \in r..top : AsksFrom(rx2, g, base, r, top, y)
             /\ \A h \in In(pA) : h.type = "I" =>
                  \A y \in r..top : g.nr = Num(base, y) => Ord(rx2, base, r, top, h.info, y)
  <2>1. PICK y \in r..top : AsksFrom(rx, g, base, r, top, y)
    BY <1>6 DEF Srejs
  <2>2. /\ g.nr = Num(base, y) /\ rx[g.nr] = NULL /\ (g.pf = 1 => y = r)
        /\ \E z \in (y + 1)..top : KeptAt(rx, base, r, top, z)
    BY <2>1 DEF AsksFrom
  <2>3. y # t
    BY <1>6, <2>2 DEF Ord
  <2>4. AsksFrom(rx2, g, base, r, top, y)
    BY <1>1, <2>2, <2>3 DEF AsksFrom
  <2>5. \A h \in In(pA) : h.type = "I" =>
          \A z \in r..top : g.nr = Num(base, z) => Ord(rx, base, r, top, h.info, z)
    BY <1>4, <1>6 DEF Srejs
  <2>6. QED
    BY <1>1, <2>4, <2>5
<1>7. ASSUME NEW g \in In(w)
      PROVE  /\ \E y \in r..top : AsksFrom(rx2, g, base, r, top, y)
             /\ \A h \in In(pA) : h.type = "I" =>
                  \A y \in r..top : g.nr = Num(base, y) => Ord(rx2, base, r, top, h.info, y)
  <2>1. PICK y \in x..(t - 1) : g.nr = Num(base, y) /\ (g.pf = 1 => g.nr = Num(base, r))
    BY DEF Requests
  <2>2. y \in r..top /\ r \in r..top /\ t \in (y + 1)..top
    BY <1>2, <1>3, <2>1
  <2>3. g.pf = 1 => y = r
    BY <1>5, <2>1, <2>2
  <2>4. AsksFrom(rx2, g, base, r, top, y)
    BY <1>1, <1>2, <2>1, <2>2, <2>3 DEF AsksFrom
  <2>5. ASSUME NEW h \in In(pA), h.type = "I", NEW z \in r..top, g.nr = Num(base, z)
        PROVE  Ord(rx2, base, r, top, h.info, z)
    <3>1. z = y
      BY <1>5, <2>1, <2>2, <2>5
    <3>2. QED
      BY <1>1, <1>4, <2>5, <3>1
  <2>6. QED
    BY <2>2, <2>4, <2>5
<1>8. ASSUME NEW g, NEW h, Precedes(pB, g, h), g.type = "SREJ", h.type = "SREJ",
             NEW y \in r..top, NEW z \in r..top, g.nr = Num(base, y), h.nr = Num(base, z)
      PROVE  Ord(rx2, base, r, top, y, z)
  <2>1. CASE Precedes(qB, g, h)
    BY <1>1, <1>8, <2>1 DEF Srejs
  <2>2. CASE g \in In(qB) /\ h \in In(w)
    <3>1. PICK v \in x..(t - 1) : h.nr = Num(base, v)
      BY <2>2 DEF Requests
    <3>2. z = v
      BY <1>3, <1>5, <1>8, <3>1
    <3>3. QED
      BY <1>1, <1>8, <2>2, <3>2
  <2>3. CASE Precedes(w, g, h)
    <3>1. PICK v \in x..(t - 1), u \in x..(t - 1) :
            v < u /\ g.nr = Num(base, v) /\ h.nr = Num(base, u)
      BY <2>3 DEF Requests
    <3>2. y = v /\ z = u
      BY <1>3, <1>5, <1>8, <3>1
    <3>3. y # z /\ ~(z < y)
      BY <1>8, <3>1, <3>2
    <3>4. QED
      BY <3>3 DEF Ord
  <2>4. QED
    BY <1>8, <2>1, <2>2, <2>3 DEF Longer
<1>9. \A g \in In(pB) : g \in In(qB) \/ g \in In(w)
  BY DEF Longer
<1>10. QED
  BY <1>6, <1>7, <1>8, <1>9 DEF Srejs

LEMMA StashesKeeps ==
  ASSUME NEW A, NEW B, NEW qA, NEW qB, NEW acc, NEW last, NEW base, NEW r, NEW top,
         Pair(A, B, qA, qB, acc, last, base, r, top),
         NEW f \in In(qA), f.type = "I", f.ns # B.vr,
         NEW T, NEW w, NEW a, Stashes(B, T, w, f, a), NEW pA, Fewer(qA, pA),
         \A g \in In(pA) : Precedes(qA, f, g)
  PROVE  Pair(A, Cleared(T), pA, qB \o w, acc, last, base, r, top) /\ T.up = << >>
<1> DEFINE U == Cleared(T)
           pB == qB \o w
           rx == B.rxdata_by_ns
           rx2 == T.rxdata_by_ns
           taken == Taken(A, acc)
           first == First(A, acc)
           t == f.info
           x == r + a
<1>1. PairParts(A, B, qA, qB, acc, last, base, r, top, taken, first, rx)
  BY PairHasParts
<1>2. ReceiverAfter(T, w) /\ T.vr = B.vr /\ T.up = << >>
  BY DEF Stashes
<1>3. /\ Ends(A, U, pA, pB, acc) /\ Longer(qB, w, pB) /\ U.vr = T.vr /\ U.rxdata_by_ns = rx2
  BY <1>1, <1>2, ReceiverEnds DEF PairParts
<1>4. Adds(rx, rx2, base, r, top, t, x) /\ Requests(w, base, r, t, x)
  BY <1>1, AddsIs, RequestsAre
<1>5. /\ taken \in Nat /\ first \in Int /\ base \in Nat /\ r \in Nat /\ top \in Nat
      /\ Outstanding(A) \in Nat /\ Outstanding(A) <= k_maxframe
      /\ (taken + 1) - first = Outstanding(A)
      /\ base < r /\ r <= top + 1 /\ top <= taken /\ top - r <= Modulo - 2
      /\ A.state \in Connected => top = taken /\ base < first /\ first <= r
  BY <1>1, WindowNumbers
<1> HIDE DEF U, pB, rx, rx2, t, x, taken, first
<1>6. IFrames(rx, qA, base, r, top) /\ Stash(rx, base, r, top)
      /\ Counted(B.vr, base, r, top, taken, last)
  BY <1>1 DEF PairParts
<1>7. rx[Num(base, t)] = NULL
  BY <1>6 DEF IFrames, t
<1>8. \A g \in In(pA) : g.type = "I" => Ord(rx, base, r, top, t, g.info)
  BY <1>6 DEF IFrames, t
<1>9. Stash(rx2, base, r, top)
  BY <1>4, <1>5, <1>6, AddsParts
<1>10. IFrames(rx2, pA, base, r, top)
  BY <1>4, <1>5, <1>6, <1>7, <1>8, StashedIFrames
<1>11. Sabms(A.state, rx2, pA, base, r) /\ Uas(A.state, rx2, pA, pB, base, r, taken)
  <2>1. \A g \in In(w) : g.type # "UA"
    BY <1>4 DEF Requests
  <2>2. QED
    BY <1>1, <1>3, <2>1, HeadIsI
<1>12. ASSUME A.state \in Connected
       PROVE  Joined(A, rx2, pA, pB, base, r, top, taken, first)
  <2>1. /\ Window(A, base, r, top, taken, first) /\ Acks(qB, base, r, first)
        /\ Srejs(rx, qA, qB, base, r, top)
    BY <1>1, <1>12 DEF PairParts, Joined
  <2>2. Acks(pB, base, r, first)
    <3>1. base \in Int /\ r \in Int /\ first <= r /\ r - first < Modulo
      BY <1>5, <1>12, Bounds
    <3>2. \A g \in In(w) : IsAck(g) => g.nr = Num(base, r)
      BY <1>4 DEF IsAck, Requests
    <3>3. QED
      BY <1>3, <1>5, <2>1, <3>1, <3>2, AcksLonger
  <2>3. Srejs(rx2, pA, pB, base, r, top)
    <3>1. \A g \in In(qB) : g.type = "SREJ" =>
            \A y \in r..top : g.nr = Num(base, y) => Ord(rx, base, r, top, t, y)
      BY <2>1 DEF Srejs, t
    <3>2. QED
      BY <1>3, <1>4, <1>5, <1>6, <1>7, <1>8, <2>1, <3>1, StashedSrejs
  <2>4. QED
    BY <2>1, <2>2, <2>3 DEF Joined
<1>13. Counted(U.vr, base, r, top, taken, last)
  BY <1>2, <1>3, <1>6
<1>14. Pair(A, U, pA, pB, acc, last, base, r, top)
  BY <1>3, <1>9, <1>10, <1>11, <1>12, <1>13 DEF Pair, taken, first
<1>15. QED
  BY <1>2, <1>14 DEF U, pB

-----------------------------------------------------------------------------
(* Frames that are heard or lost.                                          *)

(* Out of connection, RR and SREJ do nothing to A's numbers.               *)
LEMMA SenderIgnores ==
  ASSUME NEW S, Sender(S), S.state \notin Connected, NEW f \in Frame, f.type \in {"RR", "SREJ"}
  PROVE  LET T == lm_data_indication(S, Received(f)) IN Pauses(S, T, FramesOf(T.out))
<1>1. S.state \in {0, 1}
  BY InStates DEF Sender
<1>2. Dispatch(S, Received(f)) = S
  <2>1. CASE f.type = "RR"
    <3>1. rr_rnr_frame(S, TRUE, "cr_11", f.pf, f.nr) = S
      BY <1>1, InStates DEF rr_rnr_frame, RefuseCommand
    <3>2. QED
      BY <2>1, <3>1, DispatchIs
  <2>2. CASE f.type = "SREJ"
    <3>1. srej_frame(S, f.pf, f.nr, f.more) = S
      BY <1>1, InStates DEF srej_frame
    <3>2. QED
      BY <2>2, <3>1, DispatchIs
  <2>3. QED
    BY <2>1, <2>2
<1>3. lm_data_indication(S, Received(f)) = S
  BY <1>2 DEF lm_data_indication
<1>4. QED
  BY <1>3, NothingHappens

(* What A makes of the frame at the head of B's queue.                     *)
LEMMA SenderHears ==
  ASSUME NEW A, NEW B, NEW qA, NEW qB, NEW acc, NEW last, NEW base, NEW r, NEW top,
         Pair(A, B, qA, qB, acc, last, base, r, top), qB # << >>, Head(qB).type # "null",
         A.state \in Connected /\ Head(qB).type = "UA" => ~Has(qA, "SABM") /\ ~Has(Tail(qB), "UA")
  PROVE  LET T == lm_data_indication(A, Received(Head(qB))) IN
         Pair(Cleared(T), B, qA \o FramesOf(T.out), Tail(qB), acc, last, base, r, top)
<1> DEFINE f == Head(qB)
           T == lm_data_indication(A, Received(f))
           w == FramesOf(T.out)
           pB == Tail(qB)
           taken == Taken(A, acc)
           first == First(A, acc)
           rx == B.rxdata_by_ns
<1>1. PairParts(A, B, qA, qB, acc, last, base, r, top, taken, first, rx)
  BY PairHasParts
<1>2. Ends(A, B, qA, qB, acc)
  BY <1>1 DEF PairParts
<1>3. /\ Fewer(qB, pB) /\ f \in In(qB) /\ f \in Frame
      /\ \A g \in In(pB) : Precedes(qB, f, g)
  BY <1>2, TailIsFewer DEF Ends
<1>4. Sender(A) /\ FromReceiver(f)
  BY <1>2, <1>3 DEF Ends
<1>5. /\ base \in Int /\ r \in Int /\ top \in Int /\ r <= top + 1 /\ first \in Int /\ taken \in Int
      /\ A.state \in Connected => top = taken /\ first <= r
  BY <1>1, WindowNumbers
<1> HIDE DEF f, T, w, pB, taken, first, rx
<1>6. f.type \in {"RR", "SREJ", "UA", "DM"} /\ f.more = << >>
  BY <1>4 DEF FromReceiver, f
<1>7. CASE f.type = "RR" /\ A.state \in Connected
  <2>1. PICK y \in first..r : f.nr = Num(base, y)
    BY <1>1, <1>3, <1>7 DEF PairParts, Joined, Acks
  <2>2. y \in first..(taken + 1)
    <3>1. top = taken /\ first <= r /\ r <= taken + 1
      BY <1>5, <1>7
    <3>2. QED
      BY <1>5, <2>1, <3>1
  <2>3. is_good_nr(A, f.nr)
    BY <1>1, <1>7, <2>1, <2>2, GoodNr
  <2>4. Acked(A, T, w, f.nr)
    BY <1>3, <1>4, <1>7, <2>3, HearsAck DEF T, w
  <2>5. QED
    BY <1>3, <1>7, <2>4, AckedKeeps DEF T, w, f, pB
<1>8. CASE f.type = "SREJ" /\ A.state \in Connected
  <2>1. PICK y \in r..top : f.nr = Num(base, y)
    BY <1>1, <1>3, <1>8 DEF PairParts, Joined, Srejs, AsksFrom
  <2>2. y \in first..(taken + 1)
    <3>1. top = taken /\ first <= r /\ r <= taken + 1
      BY <1>5, <1>8
    <3>2. QED
      BY <1>5, <2>1, <3>1
  <2>3. is_good_nr(A, f.nr)
    BY <1>1, <1>8, <2>1, <2>2, GoodNr
  <2>4. Resent(A, T, w, f)
    BY <1>3, <1>4, <1>6, <1>8, <2>3, HearsSrej DEF T, w
  <2>5. QED
    BY <1>3, <1>8, <2>4, ResentKeeps DEF T, w, f, pB
<1>9. CASE f.type \in {"RR", "SREJ"} /\ A.state \notin Connected
  <2>1. Pauses(A, T, w)
    BY <1>3, <1>4, <1>9, SenderIgnores DEF T, w
  <2>2. QED
    BY <1>3, <2>1, PausesKeeps DEF T, w, f, pB
<1>10. CASE f.type = "UA"
  <2>1. \/ Pauses(A, T, w)
        \/ A.state = 1 /\ Opens(A, T, w)
        \/ A.state \in Connected /\ Reopens(A, T, w)
    BY <1>3, <1>4, <1>10, HearsUa DEF T, w
  <2>2. CASE Pauses(A, T, w)
    BY <1>3, <2>2, PausesKeeps DEF T, w, f, pB
  <2>3. CASE A.state = 1 /\ Opens(A, T, w)
    BY <1>3, <1>10, <2>3, OpensKeeps DEF T, w, f, pB
  <2>4. CASE A.state \in Connected /\ Reopens(A, T, w)
    <3>1. ~Has(qA, "SABM") /\ ~Has(pB, "UA")
      BY <1>10, <2>4 DEF f, pB
    <3>2. QED
      BY <1>3, <2>4, <3>1, ReopensKeeps DEF T, w, f, pB
  <2>5. QED
    BY <2>1, <2>2, <2>3, <2>4
<1>11. CASE f.type = "DM"
  <2>1. Pauses(A, T, w) \/ Closes(A, T, w)
    BY <1>3, <1>4, <1>11, HearsDm DEF T, w
  <2>2. CASE Pauses(A, T, w)
    BY <1>3, <2>2, PausesKeeps DEF T, w, f, pB
  <2>3. CASE Closes(A, T, w)
    BY <1>3, <2>3, ClosesKeeps DEF T, w, f, pB
  <2>4. QED
    BY <2>1, <2>2, <2>3
<1>12. QED
  BY <1>6, <1>7, <1>8, <1>9, <1>10, <1>11

(* What is given, if anything, goes on from what was given before.         *)
GivenAfter(up, last, last2, acc) ==
  \/ up = << >> /\ last2 = last
  \/ Rises(up, last, acc) /\ last2 = up[Len(up)]

(* What B makes of the frame at the head of A's queue.                     *)
LEMMA ReceiverHears ==
  ASSUME NEW A, NEW B, NEW qA, NEW qB, NEW acc, NEW last, NEW base, NEW r, NEW top,
         Pair(A, B, qA, qB, acc, last, base, r, top), qA # << >>, Head(qA).type # "null"
  PROVE  LET T == lm_data_indication(B, Received(Head(qA))) IN
         \E last2, base2, r2, top2 :
           /\ Pair(A, Cleared(T), Tail(qA), qB \o FramesOf(T.out), acc, last2, base2, r2, top2)
           /\ GivenAfter(T.up, last, last2, acc)
<1> DEFINE f == Head(qA)
           T == lm_data_indication(B, Received(f))
           w == FramesOf(T.out)
           pA == Tail(qA)
           pB == qB \o w
           U == Cleared(T)
<1>1. Ends(A, B, qA, qB, acc)
  BY DEF Pair
<1>2. /\ Fewer(qA, pA) /\ f \in In(qA) /\ f \in Frame
      /\ \A g \in In(pA) : Precedes(qA, f, g)
  BY <1>1, TailIsFewer DEF Ends
<1>3. Receiver(B) /\ FromSender(f)
  BY <1>1, <1>2 DEF Ends
<1>4. SUFFICES \E last2, base2, r2, top2 :
                 Pair(A, U, pA, pB, acc, last2, base2, r2, top2)
                 /\ GivenAfter(T.up, last, last2, acc)
  OBVIOUS
<1> HIDE DEF f, T, w, pA
<1>5. f.type \in {"I", "RR", "SABM", "DM"} /\ f.nr = 0 /\ (f.type = "I" => f.pf = 0)
  BY <1>3 DEF FromSender, f
<1>6. ASSUME Stays(B, T, w)
      PROVE  Pair(A, U, pA, pB, acc, last, base, r, top) /\ GivenAfter(T.up, last, last, acc)
  BY <1>2, <1>6, StaysKeeps DEF GivenAfter
<1>7. CASE f.type \in {"RR", "DM"}
  <2>1. Stays(B, T, w)
    BY <1>2, <1>3, <1>5, <1>7, ReceiverHearsRr, ReceiverHearsDm DEF T, w
  <2>2. QED
    BY <1>6, <2>1
<1>8. CASE f.type = "SABM"
  <2>1. Resets(B, T, w)
    BY <1>2, <1>3, <1>8, ReceiverHearsSabm DEF T, w
  <2>2. /\ T.up = << >>
        /\ \/ Pair(A, U, pA, pB, acc, last, base, r, top)
           \/ Pair(A, U, pA, pB, acc, last, Taken(A, acc), Taken(A, acc) + 1, Taken(A, acc))
    BY <1>2, <1>8, <2>1, ResetsKeeps
  <2>3. GivenAfter(T.up, last, last, acc)
    BY <2>2 DEF GivenAfter
  <2> HIDE DEF U, pB
  <2>4. QED
    BY <2>2, <2>3
<1>9. CASE f.type = "I"
  <2>1. \/ Stays(B, T, w)
        \/ f.ns = B.vr /\ Gives(B, T, w, f.info)
        \/ f.ns # B.vr /\ \E a : Stashes(B, T, w, f, a)
    BY <1>2, <1>3, <1>5, <1>9, ReceiverHearsI DEF T, w
  <2>2. CASE Stays(B, T, w)
    BY <1>6, <2>2
  <2>3. CASE f.ns = B.vr /\ Gives(B, T, w, f.info)
    <3> DEFINE c == Following(B)
               last2 == r + c
               r2 == (r + c) + 1
    <3>1. Pair(A, U, pA, pB, acc, last2, base, r2, top)
      BY <1>2, <1>9, <2>3, GivesKeeps
    <3>2. /\ T.up \in Seq(Nat) /\ Len(T.up) = c + 1 /\ T.up[c + 1] = last2 /\ c \in Nat
          /\ Rises(T.up, last, acc)
      <4>1. f \in In(qA) /\ f.type = "I" /\ f.ns = B.vr /\ Gives(B, T, w, f.info)
        BY <1>2, <1>9, <2>3
      <4> HIDE DEF U, pB
      <4>2. LET d == Following(B) IN
            /\ T.up \in Seq(Nat) /\ Len(T.up) = d + 1 /\ T.up[d + 1] = r + d /\ d \in Nat
            /\ Rises(T.up, last, acc)
        BY <4>1, GivesInOrder
      <4>3. QED
        BY <4>2
    <3> HIDE DEF U, pB, c, last2, r2
    <3>3. T.up # << >> /\ T.up[Len(T.up)] = last2
      BY <3>2
    <3>4. GivenAfter(T.up, last, last2, acc)
      BY <3>2, <3>3 DEF GivenAfter
    <3>5. QED
      BY <3>1, <3>4
  <2>4. CASE f.ns # B.vr /\ \E a : Stashes(B, T, w, f, a)
    <3>1. PICK a : Stashes(B, T, w, f, a)
      BY <2>4
    <3>2. Pair(A, U, pA, pB, acc, last, base, r, top) /\ T.up = << >>
      BY <1>2, <1>9, <2>4, <3>1, StashesKeeps
    <3>3. GivenAfter(T.up, last, last, acc)
      BY <3>2 DEF GivenAfter
    <3>4. QED
      BY <3>2, <3>3
  <2>5. QED
    BY <2>1, <2>2, <2>3, <2>4
<1>10. QED
  BY <1>5, <1>7, <1>8, <1>9

-----------------------------------------------------------------------------
(* The first state, the client, timers and confirms.                       *)

(* Nothing to clear, and nothing to add.                                   *)
LEMMA ClearedSame ==
  ASSUME NEW S, Idle(S)
  PROVE  Cleared(S) = S
<1>1. IsLink(S) /\ S.out = << >> /\ S.up = << >>
  BY DEF Idle, LinkInv, Sound
<1>2. QED
  BY <1>1 DEF Cleared, IsLink

LEMMA NothingAdded ==
  ASSUME NEW X, NEW q \in Seq(X)
  PROVE  q \o << >> = q
  OBVIOUS

(* A frame is taken from either queue and not heard.                       *)
LEMMA LostKeeps ==
  ASSUME NEW A, NEW B, NEW qA, NEW qB, NEW acc, NEW last, NEW base, NEW r, NEW top,
         Pair(A, B, qA, qB, acc, last, base, r, top)
  PROVE  /\ qB # << >> => Pair(A, B, qA, Tail(qB), acc, last, base, r, top)
         /\ qA # << >> => Pair(A, B, Tail(qA), qB, acc, last, base, r, top)
<1>1. Ends(A, B, qA, qB, acc)
  BY DEF Pair
<1>2. Sender(A) /\ Receiver(B) /\ qA \in Seq(Frame) /\ qB \in Seq(Frame)
  BY <1>1 DEF Ends
<1>3. /\ Cleared(A) = A /\ Cleared(B) = B
      /\ A.out = << >> /\ B.out = << >>
  BY <1>2, ClearedSame DEF Sender, Receiver, Idle
<1>4. qA \o << >> = qA /\ qB \o << >> = qB
  BY <1>2, NothingAdded
<1>5. ASSUME qB # << >>
      PROVE  Pair(A, B, qA, Tail(qB), acc, last, base, r, top)
  <2>1. Fewer(qB, Tail(qB))
    BY <1>2, <1>5, TailIsFewer
  <2>2. Pauses(A, A, << >>)
    BY <1>2, <1>3, NothingHappens, FramesOfNone
  <2>3. Pair(Cleared(A), B, qA \o << >>, Tail(qB), acc, last, base, r, top)
    BY <2>1, <2>2, PausesKeeps
  <2>4. QED
    BY <1>3, <1>4, <2>3
<1>6. ASSUME qA # << >>
      PROVE  Pair(A, B, Tail(qA), qB, acc, last, base, r, top)
  <2>1. Fewer(qA, Tail(qA))
    BY <1>2, <1>6, TailIsFewer
  <2>2. Stays(B, B, << >>)
    <3>1. Stays(B, B, FramesOf(B.out))
      BY <1>2, ReceiverParts, Stayed
    <3>2. QED
      BY <1>3, <3>1, FramesOfNone
  <2>3. Pair(A, Cleared(B), Tail(qA), qB \o << >>, acc, last, base, r, top)
    BY <2>1, <2>2, StaysKeeps
  <2>4. QED
    BY <1>3, <1>4, <2>3
<1>7. QED
  BY <1>5, <1>6

(* A new link.                                                             *)
LEMMA NewLinkIs ==
  /\ LinkInv(NewLink) /\ Rec(NewLink) /\ NewLink.out = << >> /\ NewLink.up = << >>
  /\ NewLink.state = 0 /\ NewLink.vs = 0 /\ NewLink.va = 0 /\ NewLink.vr = 0
  /\ NewLink.i_frame_queue = << >> /\ ~NewLink.peer_receiver_busy
  /\ NothingStashed(NewLink)
<1> DEFINE S == NewLink
<1>1. 0 \in Number
  BY Bounds DEF Number
<1>2. << >> \in Seq(Info)
  OBVIOUS
<1>3. /\ IsLink(S) /\ S.vs = 0 /\ S.va = 0 /\ S.vr = 0 /\ S.state = 0
      /\ S.out = << >> /\ S.up = << >> /\ ~S.t1 /\ S.i_frame_queue = << >>
      /\ ~S.peer_receiver_busy
      /\ \A n \in Number : S.txdata_by_ns[n] = NULL /\ S.rxdata_by_ns[n] = NULL
  BY <1>1, <1>2 DEF NewLink, IsLink, state_0_disconnected
<1>4. Rec(S)
  BY DEF NewLink, Rec, Fields
<1> HIDE DEF S
<1>5. Outstanding(S) = 0
  BY <1>1, <1>3, AheadSelf DEF Outstanding
<1>6. AX25MODULO(0 - 1) \in Number
  BY <1>1, Before
<1>7. WindowOK(S)
  <2>1. \A n \in Number : ~(Ahead(S.va, n) < 0)
    BY <1>1, <1>3, AheadIs, Bounds
  <2>2. 0 <= k_maxframe
    BY Bounds
  <2>3. QED
    BY <1>3, <1>5, <1>6, <2>1, <2>2 DEF WindowOK
<1>8. StashOK(S) /\ PausedOK(S) /\ NothingStashed(S)
  BY <1>1, <1>3, <1>6 DEF StashOK, PausedOK, NothingStashed
<1>9. Settled(S)
  BY <1>3, <1>8, InStates DEF Settled, WaitsWithTimer, RetriesOK
<1>10. QED
  BY <1>3, <1>4, <1>7, <1>8, <1>9 DEF LinkInv, Sound, S

(* A begins to connect to a B that knows nothing of it.                    *)
LEMMA PairInit ==
  LET T == nr_error_recovery(NewLink)
      A == [T EXCEPT !.out = << >>]
      B == [NewLink EXCEPT !.out = << >>]
  IN Pair(A, B, FramesOf(T.out), << >>, 0, 0, 0, 1, 0)
<1> DEFINE S == NewLink
           T == nr_error_recovery(S)
           A == [T EXCEPT !.out = << >>]
           B == [S EXCEPT !.out = << >>]
           f == ax25_u_frame("cr_cmd", "SABM", 1)
           qA == FramesOf(T.out)
<1>1. /\ LinkInv(S) /\ Rec(S) /\ S.out = << >> /\ S.up = << >>
      /\ S.state = 0 /\ S.vs = 0 /\ S.va = 0 /\ S.vr = 0
      /\ S.i_frame_queue = << >> /\ ~S.peer_receiver_busy
      /\ NothingStashed(S)
  BY NewLinkIs
<1>2. B = S
  <2>1. IsLink(S)
    BY <1>1 DEF LinkInv, Sound
  <2> HIDE DEF S
  <2>2. QED
    BY <1>1, <2>1 DEF IsLink
<1>3. LinkInv(T)
  BY <1>1, Recovers DEF LinkInv
<1>4. /\ Leaves(S, T) /\ SameWindow(S, T) /\ T.state = 1 /\ T.up = S.up
      /\ T.out = Append(<< >>, <<TQ_PRIO_1_LO, f>>)
  BY <1>1, RecoveryIs
<1>5. f.type = "SABM" /\ FromSender(f) /\ f \in Frame
  BY Built, CmdResFacts DEF FromSender
<1>6. qA = <<f>> /\ In(qA) = {f} /\ qA \in Seq(Frame) /\ \A g, h : ~Precedes(qA, g, h)
  BY <1>4, <1>5, FramesOfOne, OneFrame
<1> HIDE DEF S, T, f, qA
<1>7. A = Cleared(T)
  BY <1>1, <1>4 DEF Cleared, Leaves, Rec, Fields
<1>8. /\ Idle(A) /\ A.state = 1 /\ A.vs = 0 /\ A.va = 0 /\ A.vr = 0
      /\ A.i_frame_queue = << >> /\ ~A.peer_receiver_busy
  <2>1. /\ Idle(Cleared(T)) /\ Cleared(T).state = T.state /\ SameWindow(T, Cleared(T))
        /\ Cleared(T).vr = T.vr /\ Cleared(T).i_frame_queue = T.i_frame_queue
        /\ Cleared(T).peer_receiver_busy = T.peer_receiver_busy
    BY <1>3, <1>4, ClearedIs DEF Leaves
  <2>2. QED
    BY <1>1, <1>4, <1>7, <2>1 DEF Leaves, SameWindow
<1> HIDE DEF A, B
<1>9. Len(A.i_frame_queue) = 0
  BY <1>8
<1>10. Ends(A, B, qA, << >>, 0)
  <2>1. Sender(A) /\ Receiver(B)
    BY <1>1, <1>2, <1>8 DEF Sender, Receiver, Idle
  <2>2. << >> \in Seq(Frame)
    OBVIOUS
  <2>3. 0 <= Parts /\ 0 \in Nat
    BY LinkPairAssumption
  <2>4. Taken(A, 0) = 0
    BY <1>9 DEF Taken
  <2>5. \A i \in 1..Len(A.i_frame_queue) : A.i_frame_queue[i] = Taken(A, 0) + i
    BY <1>9
  <2>6. QED
    BY <1>5, <1>6, <2>1, <2>2, <2>3, <2>4, <2>5, EmptyQueue DEF Ends
<1>11. Taken(A, 0) = 0
  BY <1>9 DEF Taken
<1>12. Counted(B.vr, 0, 1, 0, 0, 0)
  <2>1. Num(0, 0 + 1) = 0
    BY NumFirst
  <2>2. 0 - 1 <= Modulo - 2
    BY Bounds
  <2>3. QED
    BY <1>1, <1>2, <2>1, <2>2 DEF Counted
<1>13. Stash(B.rxdata_by_ns, 0, 1, 0)
  BY <1>1, <1>2 DEF Stash, NothingStashed
<1>14. IFrames(B.rxdata_by_ns, qA, 0, 1, 0)
  BY <1>5, <1>6 DEF IFrames
<1>15. Sabms(A.state, B.rxdata_by_ns, qA, 0, 1)
  BY <1>6, <1>8, InStates DEF Sabms, SabmBeforeI
<1>16. Uas(A.state, B.rxdata_by_ns, qA, << >>, 0, 1, 0)
  BY EmptyQueue DEF Uas, Has
<1>17. A.state \notin Connected
  BY <1>8, InStates
<1>18. QED
  BY <1>10, <1>11, <1>12, <1>13, <1>14, <1>15, <1>16, <1>17 DEF Pair, S, T, A, B, qA

(* A part more in A's queue.                                               *)
LEMMA ClientAdds ==
  ASSUME NEW A, Sender(A), NEW x \in Info
  PROVE  LET U == [A EXCEPT !.i_frame_queue = Append(@, x)] IN
         /\ Sender(U) /\ U.state = A.state /\ SameWindow(A, U)
         /\ U.i_frame_queue = Append(A.i_frame_queue, x) /\ A.i_frame_queue \in Seq(Info)
<1> DEFINE q == Append(A.i_frame_queue, x)
           U == [A EXCEPT !.i_frame_queue = q]
<1>1. /\ LinkInv(A) /\ Rec(A) /\ A.out = << >> /\ A.up = << >> /\ A.vr = 0
      /\ ~A.peer_receiver_busy /\ A.state \in {0, 1, 3, 4}
  BY DEF Sender, Idle
<1>2. A.i_frame_queue \in Seq(Info) /\ IsLink(A)
  BY <1>1, LinkTypes DEF LinkInv, Sound
<1>3. q \in Seq(Info)
  BY <1>2
<1> HIDE DEF q
<1>4. Quiet(A, U)
  BY <1>2, <1>3 DEF IsLink, Quiet, Same, SameTimers, SameControl, SameReceive, SameSend
<1>5. LinkInv(U)
  BY <1>1, <1>4, QuietInv
<1>6. /\ Rec(U) /\ U.out = << >> /\ U.up = << >> /\ U.vr = 0 /\ ~U.peer_receiver_busy
      /\ U.state = A.state /\ SameWindow(A, U) /\ U.i_frame_queue = q
  BY <1>1 DEF Rec, Fields, SameWindow
<1> HIDE DEF U
<1>7. Sender(U)
  BY <1>1, <1>5, <1>6 DEF Sender, Idle
<1>8. QED
  BY <1>2, <1>6, <1>7 DEF U, q

(* A's client hands over the next part.                                    *)
LEMMA ClientSendsKeeps ==
  ASSUME NEW A, NEW B, NEW qA, NEW qB, NEW acc, NEW last, NEW base, NEW r, NEW top,
         Pair(A, B, qA, qB, acc, last, base, r, top), acc < Parts
  PROVE  Pair([A EXCEPT !.i_frame_queue = Append(@, acc + 1)], B, Append(qA, NullFrame), qB,
              acc + 1, last, base, r, top)
<1> DEFINE iq == A.i_frame_queue
           U == [A EXCEPT !.i_frame_queue = Append(@, acc + 1)]
           pA == Append(qA, NullFrame)
           w == <<NullFrame>>
           acc2 == acc + 1
           rx == B.rxdata_by_ns
           taken == Taken(A, acc)
           first == First(A, acc)
<1>1. PairParts(A, B, qA, qB, acc, last, base, r, top, taken, first, rx)
  BY PairHasParts
<1>2. Ends(A, B, qA, qB, acc)
  BY <1>1 DEF PairParts
<1>3. acc \in Nat /\ acc2 \in Nat /\ acc2 <= Parts /\ acc2 \in Info
  BY <1>2, LinkPairAssumption DEF Ends
<1>4. /\ Sender(U) /\ U.state = A.state /\ SameWindow(A, U)
      /\ U.i_frame_queue = Append(iq, acc2) /\ iq \in Seq(Info)
  BY <1>2, <1>3, ClientAdds DEF Ends
<1>5. /\ NullFrame \in Frame /\ NullFrame.type = "null" /\ FromSender(NullFrame)
  BY Built
<1>6. /\ pA = qA \o w /\ w \in Seq(Frame) /\ In(w) = {NullFrame}
      /\ qA \in Seq(Frame)
  <2>1. qA \in Seq(Frame)
    BY <1>2 DEF Ends
  <2>2. Append(qA, NullFrame) = qA \o <<NullFrame>> /\ <<NullFrame>> \in Seq(Frame)
    BY <1>5, <2>1
  <2>3. QED
    BY <2>1, <2>2, OneFrame
<1>7. Longer(qA, w, pA)
  BY <1>6, JoinIsLonger
<1>8. qB \in Seq(Frame) /\ Longer(qB, << >>, qB) /\ In(<< >>) = {}
  BY <1>2, SameIsFewer, FewerIsLonger, EmptyQueue DEF Ends
<1> HIDE DEF U, pA, w, rx, taken, first, iq
<1>9. /\ Len(U.i_frame_queue) = Len(iq) + 1 /\ Len(iq) \in Nat
      /\ \A i \in 1..Len(iq) : U.i_frame_queue[i] = iq[i]
      /\ U.i_frame_queue[Len(iq) + 1] = acc2
  BY <1>3, <1>4
<1>10. taken = acc - Len(iq) /\ taken \in Nat
  BY <1>2 DEF taken, Taken, Ends, iq
<1>11. Taken(U, acc2) = taken
  BY <1>3, <1>9, <1>10 DEF Taken
<1>12. First(U, acc2) = first
  BY <1>4, <1>11 DEF First, Outstanding, SameWindow, first, taken
<1>13. \A i \in 1..Len(U.i_frame_queue) : U.i_frame_queue[i] = taken + i
  <2>1. \A i \in 1..Len(iq) : iq[i] = taken + i
    BY <1>2 DEF Ends, taken, iq
  <2>2. acc2 = taken + (Len(iq) + 1)
    BY <1>3, <1>9, <1>10
  <2> HIDE DEF acc2
  <2>3. ASSUME NEW i \in 1..(Len(iq) + 1) PROVE U.i_frame_queue[i] = taken + i
    <3>1. CASE i \in 1..Len(iq)
      BY <1>9, <2>1, <3>1
    <3>2. CASE i = Len(iq) + 1
      BY <1>9, <2>2, <3>2
    <3>3. QED
      BY <1>9, <3>1, <3>2
  <2>4. QED
    BY <1>9, <2>3
<1> HIDE DEF acc2
<1>14. \A f \in In(w) : f.type \notin {"I", "SABM"}
  BY <1>5, <1>6
<1>15. Ends(U, B, pA, qB, acc2)
  <2>1. pA \in Seq(Frame) /\ \A f \in In(pA) : FromSender(f)
    BY <1>2, <1>5, <1>6, <1>7 DEF Longer, Ends
  <2>2. QED
    BY <1>2, <1>3, <1>4, <1>10, <1>11, <1>13, <2>1 DEF Ends
<1>16. IFrames(rx, pA, base, r, top)
  BY <1>1, <1>7, <1>14, IFramesLonger DEF PairParts
<1>17. Sabms(U.state, rx, pA, base, r)
  BY <1>1, <1>4, <1>7, <1>14, SabmsQuiet DEF PairParts
<1>18. Uas(U.state, rx, pA, qB, base, r, taken)
  <2>1. CASE A.state = 1
    <3>1. Fresh(rx, base, r) => B.vr = 0
      <4>1. B.vr = Num(base, r) /\ base \in Int
        BY <1>1 DEF PairParts, Counted
      <4>2. Num(base, base + 1) = 0
        BY <4>1, NumFirst
      <4>3. QED
        BY <4>1, <4>2 DEF Fresh
    <3>2. Uas(A.state, rx, qA, qB, base, r, taken)
      BY <1>1 DEF PairParts
    <3>3. /\ \A f \in In(<< >>) :
               f.type \notin {"UA", "SREJ"} /\ (f.type = "RR" => f.nr = B.vr)
          /\ \A f \in In(w) : f.type # "I"
      BY <1>8, <1>14
    <3>4. Uas(A.state, rx, pA, qB, base, r, taken)
      BY <1>7, <1>8, <3>1, <3>2, <3>3, UasLonger
    <3>5. QED
      BY <1>4, <3>4
  <2>2. CASE A.state # 1
    BY <1>4, <2>2 DEF Uas
  <2>3. QED
    BY <2>1, <2>2
<1>19. ASSUME U.state \in Connected
       PROVE  Joined(U, rx, pA, qB, base, r, top, taken, first)
  <2>1. Joined(A, rx, qA, qB, base, r, top, taken, first)
    BY <1>1, <1>4, <1>19 DEF PairParts
  <2>2. Window(U, base, r, top, taken, first)
    BY <1>4, <2>1 DEF Joined, Window, SameWindow
  <2>3. Srejs(rx, pA, qB, base, r, top)
    BY <1>7, <1>8, <1>14, <2>1, SrejsLonger DEF Joined
  <2>4. QED
    BY <2>1, <2>2, <2>3 DEF Joined
<1>20. Pair(U, B, pA, qB, acc2, last, base, r, top)
  BY <1>1, <1>11, <1>12, <1>15, <1>16, <1>17, <1>18, <1>19 DEF Pair, PairParts, rx
<1>21. QED
  BY <1>20 DEF U, pA, acc2

(* A timer, or the channel that was asked for.                             *)
LEMMA SenderActs ==
  ASSUME NEW A, NEW B, NEW qA, NEW qB, NEW acc, NEW last, NEW base, NEW r, NEW top,
         Pair(A, B, qA, qB, acc, last, base, r, top),
         NEW T \in {lm_seize_confirm(A), dl_timer_t1(A), dl_timer_t3(A)}
  PROVE  \E top2 : Pair(Cleared(T), B, qA \o FramesOf(T.out), qB, acc, last, base, r, top2)
<1> DEFINE w == FramesOf(T.out)
<1>1. Sender(A) /\ Fewer(qB, qB)
  BY SameIsFewer DEF Pair, Ends
<1>2. Pauses(A, T, w) \/ Closes(A, T, w) \/ \E n \in Nat : Sends(A, T, w, n)
  BY <1>1, SenderSeizes, SenderT1, SenderT3
<1> HIDE DEF w
<1>3. CASE Pauses(A, T, w)
  BY <1>1, <1>3, PausesKeeps DEF w
<1>4. CASE Closes(A, T, w)
  BY <1>1, <1>4, ClosesKeeps DEF w
<1>5. CASE \E n \in Nat : Sends(A, T, w, n)
  <2>1. PICK n \in Nat : Sends(A, T, w, n)
    BY <1>5
  <2>2. QED
    BY <1>1, <2>1, SendsKeeps DEF w
<1>6. QED
  BY <1>2, <1>3, <1>4, <1>5

LEMMA ReceiverActs ==
  ASSUME NEW A, NEW B, NEW qA, NEW qB, NEW acc, NEW last, NEW base, NEW r, NEW top,
         Pair(A, B, qA, qB, acc, last, base, r, top),
         NEW T \in {lm_seize_confirm(B), dl_timer_t1(B), dl_timer_t3(B)}
  PROVE  /\ Pair(A, Cleared(T), qA, qB \o FramesOf(T.out), acc, last, base, r, top)
         /\ T.up = << >>
<1> DEFINE w == FramesOf(T.out)
<1>1. Receiver(B) /\ Fewer(qA, qA)
  BY SameIsFewer DEF Pair, Ends
<1>2. Stays(B, T, w)
  BY <1>1, ReceiverSeizes, ReceiverT1, ReceiverT3
<1>3. QED
  BY <1>1, <1>2, StaysKeeps

(* The last part given, 0 before the first.                                *)
LastOf(up) == IF up = << >> THEN 0 ELSE up[Len(up)]

(* The invariant.                                                          *)
PairInv ==
  /\ DOMAIN link = Station /\ DOMAIN txq = Station /\ stale \in BOOLEAN
  /\ ~stale =>
       /\ given \in Seq(Nat)
       /\ \E base, r, top :
            Pair(link["A"], link["B"], txq["A"], txq["B"], accepted, LastOf(given), base, r, top)

(* What a step does for the clients.                                       *)
Serves ==
  ~stale' =>
    \/ accepted' = accepted /\ given' = given
    \/ accepted' = accepted + 1 /\ given' = given
    \/ accepted' = accepted /\ Service!Continues(given, given', accepted)

(* The two stations, and what stale asks of the queues.                    *)
LEMMA PeerIs ==
  Peer("A") = "B" /\ Peer("B") = "A"
<1>1. \A p \in Station : (p # "A" <=> p = "B") /\ (p # "B" <=> p = "A")
  BY DEF Station
<1>2. "A" \in Station /\ "B" \in Station /\ "A" # "B"
  BY DEF Station
<1>3. \E p \in Station : p # "A"
  BY <1>2
<1>4. \E p \in Station : p # "B"
  BY <1>2
<1>5. QED
  BY <1>1, <1>3, <1>4 DEF Peer

LEMMA InQueueHas ==
  ASSUME NEW q, NEW type
  PROVE  InQueue(q, type) <=> Has(q, type)
  BY DEF InQueue, Has, In

(* The history of what was given, after a call.                            *)
LEMMA LastGiven ==
  ASSUME NEW up, NEW last2, NEW acc, given \in Seq(Nat),
         GivenAfter(up, LastOf(given), last2, acc)
  PROVE  /\ given \o up \in Seq(Nat) /\ LastOf(given \o up) = last2
         /\ given \o up = given \/ Service!Continues(given, given \o up, acc)
<1>1. CASE up = << >> /\ last2 = LastOf(given)
  <2>1. given \o up = given
    BY <1>1
  <2>2. QED
    BY <1>1, <2>1
<1>2. CASE Rises(up, LastOf(given), acc) /\ last2 = up[Len(up)]
  <2> DEFINE g == given \o up
  <2>0. /\ up \in Seq(Nat) /\ up # << >> /\ last2 = up[Len(up)]
        /\ \A i \in 1..Len(up) :
             up[i] \in 1..acc /\ (IF i = 1 THEN LastOf(given) ELSE up[i - 1]) < up[i]
    BY <1>2 DEF Rises
  <2>1. /\ g \in Seq(Nat) /\ Len(g) = Len(given) + Len(up) /\ Len(up) \in Nat /\ Len(up) > 0
        /\ Len(given) \in Nat
        /\ \A i \in 1..Len(g) : g[i] = IF i <= Len(given) THEN given[i] ELSE up[i - Len(given)]
        /\ SubSeq(g, 1, Len(given)) = given
    BY <2>0
  <2> HIDE DEF g
  <2>2. /\ g # << >> /\ Len(g) \in 1..Len(g) /\ ~(Len(g) <= Len(given))
        /\ Len(g) - Len(given) = Len(up)
    BY <2>1
  <2>3. g[Len(g)] = up[Len(up)]
    BY <2>1, <2>2
  <2>4. LastOf(g) = last2
    BY <1>2, <2>2, <2>3 DEF LastOf
  <2>5. ASSUME NEW i \in (Len(given) + 1)..Len(g)
        PROVE  g[i] \in 1..acc /\ (i > 1 => g[i - 1] < g[i])
    <3> DEFINE k == i - Len(given)
    <3>1. /\ k \in 1..Len(up) /\ i \in 1..Len(g) /\ ~(i <= Len(given)) /\ (k = 1 <=> i = Len(given) + 1)
          /\ i > 1 => i - 1 \in 1..Len(g)
          /\ k # 1 => ~(i - 1 <= Len(given)) /\ (i - 1) - Len(given) = k - 1
          /\ k = 1 => i - 1 = Len(given)
      BY <2>1
    <3>2. g[i] = up[k]
      BY <2>1, <3>1
    <3> HIDE DEF k
    <3>3. up[k] \in 1..acc /\ (IF k = 1 THEN LastOf(given) ELSE up[k - 1]) < up[k]
      BY <2>0, <3>1
    <3>4. ASSUME i > 1, k # 1
          PROVE  g[i - 1] = up[k - 1]
      BY <2>1, <3>1, <3>4
    <3>5. ASSUME i > 1, k = 1
          PROVE  g[i - 1] = LastOf(given)
      <4>1. i - 1 = Len(given) /\ i - 1 \in 1..Len(g) /\ i - 1 <= Len(given)
        BY <2>1, <3>1, <3>5
      <4>2. g[i - 1] = given[i - 1]
        BY <2>1, <4>1
      <4>3. given # << >>
        BY <2>1, <3>5, <4>1
      <4>4. QED
        BY <4>1, <4>2, <4>3 DEF LastOf
    <3>6. QED
      BY <3>2, <3>3, <3>4, <3>5
  <2>6. Service!Continues(given, g, acc)
    BY <2>1, <2>5 DEF Service!Continues
  <2>7. QED
    BY <2>1, <2>4, <2>6 DEF g
<1>3. QED
  BY <1>1, <1>2 DEF GivenAfter

-----------------------------------------------------------------------------
(* The steps of the specification.                                         *)

(* The two links, between two steps, with witnesses for the numbers.       *)
Holds(base, r, top) ==
  /\ given \in Seq(Nat)
  /\ Pair(link["A"], link["B"], txq["A"], txq["B"], accepted, LastOf(given), base, r, top)

Domains == DOMAIN link = Station /\ DOMAIN txq = Station /\ stale \in BOOLEAN

LEMMA InvIs ==
  PairInv <=> Domains /\ (~stale => \E base, r, top : Holds(base, r, top))
  BY DEF PairInv, Holds, Domains

(* A frame of A is heard, and one of B.                                    *)
LEMMA HeardByB ==
  ASSUME PairInv, Heard("A")
  PROVE  PairInv' /\ Serves
<1> DEFINE S == lm_data_indication(link["B"], Received(Head(txq["A"])))
           A == link["A"]
           B == link["B"]
           qA == txq["A"]
           qB == txq["B"]
<1>1. Domains /\ (~stale => \E base, r, top : Holds(base, r, top))
  BY InvIs
<1>2. /\ qA # << >> /\ Head(qA).type # "null"
      /\ link' = [link EXCEPT !["B"] = Cleared(S)]
      /\ given' = given \o S.up
      /\ txq' = [txq EXCEPT !["A"] = Tail(@), !["B"] = qB \o FramesOf(S.out)]
      /\ accepted' = accepted
      /\ stale' = (stale \/ OvertakesItself("A"))
  BY PeerIs DEF Heard, Becomes, Queued, Cleared
<1>3. "A" \in Station /\ "B" \in Station /\ "A" # "B"
  BY DEF Station
<1> HIDE DEF S
<1>4. /\ DOMAIN link' = Station /\ DOMAIN txq' = Station /\ stale' \in BOOLEAN
      /\ link'["A"] = A /\ link'["B"] = Cleared(S)
      /\ txq'["A"] = Tail(qA) /\ txq'["B"] = qB \o FramesOf(S.out)
  BY <1>1, <1>2, <1>3 DEF Domains
<1>5. ASSUME ~stale'
      PROVE  /\ \E base, r, top : Holds(base, r, top)'
             /\ given' = given \/ Service!Continues(given, given', accepted)
  <2>1. PICK base, r, top : Holds(base, r, top)
    BY <1>1, <1>2, <1>5
  <2>2. Pair(A, B, qA, qB, accepted, LastOf(given), base, r, top) /\ given \in Seq(Nat)
    BY <2>1 DEF Holds
  <2>3. PICK last2, base2, r2, top2 :
          /\ Pair(A, Cleared(S), Tail(qA), qB \o FramesOf(S.out), accepted, last2, base2, r2, top2)
          /\ GivenAfter(S.up, LastOf(given), last2, accepted)
    BY <1>2, <2>2, ReceiverHears DEF S
  <2>4. /\ given' \in Seq(Nat) /\ LastOf(given') = last2
        /\ given' = given \/ Service!Continues(given, given', accepted)
    BY <1>2, <2>2, <2>3, LastGiven
  <2>5. Holds(base2, r2, top2)'
    BY <1>2, <1>4, <2>3, <2>4 DEF Holds
  <2>6. QED
    BY <2>4, <2>5
<1>6. PairInv'
  BY <1>4, <1>5 DEF PairInv, Holds
<1>7. Serves
  BY <1>2, <1>5 DEF Serves
<1>8. QED
  BY <1>6, <1>7

LEMMA HeardByA ==
  ASSUME PairInv, Heard("B")
  PROVE  PairInv' /\ Serves
<1> DEFINE S == lm_data_indication(link["A"], Received(Head(txq["B"])))
           A == link["A"]
           B == link["B"]
           qA == txq["A"]
           qB == txq["B"]
<1>1. Domains /\ (~stale => \E base, r, top : Holds(base, r, top))
  BY InvIs
<1>2. /\ qB # << >> /\ Head(qB).type # "null"
      /\ link' = [link EXCEPT !["A"] = Cleared(S)]
      /\ given' = given
      /\ txq' = [txq EXCEPT !["B"] = Tail(@), !["A"] = qA \o FramesOf(S.out)]
      /\ accepted' = accepted
      /\ stale' = (stale \/ OvertakesItself("B"))
  BY PeerIs DEF Heard, Becomes, Queued, Cleared
<1>3. "A" \in Station /\ "B" \in Station /\ "A" # "B"
  BY DEF Station
<1> HIDE DEF S
<1>4. /\ DOMAIN link' = Station /\ DOMAIN txq' = Station /\ stale' \in BOOLEAN
      /\ link'["B"] = B /\ link'["A"] = Cleared(S)
      /\ txq'["B"] = Tail(qB) /\ txq'["A"] = qA \o FramesOf(S.out)
  BY <1>1, <1>2, <1>3 DEF Domains
<1>5. ASSUME ~stale'
      PROVE  \E base, r, top : Holds(base, r, top)'
  <2>1. PICK base, r, top : Holds(base, r, top)
    BY <1>1, <1>2, <1>5
  <2>2. Pair(A, B, qA, qB, accepted, LastOf(given), base, r, top) /\ given \in Seq(Nat)
    BY <2>1 DEF Holds
  <2>3. A.state \in Connected /\ Head(qB).type = "UA" => ~Has(qA, "SABM") /\ ~Has(Tail(qB), "UA")
    BY <1>2, <1>5, InQueueHas DEF OvertakesItself
  <2>4. Pair(Cleared(S), B, qA \o FramesOf(S.out), Tail(qB), accepted, LastOf(given), base, r, top)
    BY <1>2, <2>2, <2>3, SenderHears DEF S
  <2>5. Holds(base, r, top)'
    BY <1>2, <1>4, <2>2, <2>4 DEF Holds
  <2>6. QED
    BY <2>5
<1>6. PairInv'
  BY <1>4, <1>5 DEF PairInv, Holds
<1>7. QED
  BY <1>2, <1>6 DEF Serves

(* A frame that is not heard.                                              *)
LEMMA NotHeard ==
  ASSUME PairInv, NEW s \in Station, Lost(s) \/ NullFrameTaken(s)
  PROVE  PairInv' /\ Serves
<1>1. Domains /\ (~stale => \E base, r, top : Holds(base, r, top))
  BY InvIs
<1>2. /\ txq[s] # << >> /\ txq' = [txq EXCEPT ![s] = Tail(@)]
      /\ link' = link /\ given' = given /\ accepted' = accepted /\ stale' = stale
  BY DEF Lost, NullFrameTaken
<1>3. "A" \in Station /\ "B" \in Station /\ "A" # "B" /\ s \in {"A", "B"}
  BY DEF Station
<1>4. /\ DOMAIN link' = Station /\ DOMAIN txq' = Station /\ stale' \in BOOLEAN
      /\ txq'[s] = Tail(txq[s]) /\ \A p \in Station : p # s => txq'[p] = txq[p]
  BY <1>1, <1>2, <1>3 DEF Domains
<1>5. ASSUME ~stale'
      PROVE  \E base, r, top : Holds(base, r, top)'
  <2>1. PICK base, r, top : Holds(base, r, top)
    BY <1>1, <1>2, <1>5
  <2>2. Pair(link["A"], link["B"], txq["A"], txq["B"], accepted, LastOf(given), base, r, top)
        /\ given \in Seq(Nat)
    BY <2>1 DEF Holds
  <2>3. Pair(link["A"], link["B"], txq'["A"], txq'["B"], accepted, LastOf(given), base, r, top)
    BY <1>2, <1>3, <1>4, <2>2, LostKeeps
  <2>4. Holds(base, r, top)'
    BY <1>2, <2>2, <2>3 DEF Holds
  <2>5. QED
    BY <2>4
<1>6. PairInv'
  BY <1>4, <1>5 DEF PairInv, Holds
<1>7. QED
  BY <1>2, <1>6 DEF Serves

(* A timer, or the channel that was asked for.                             *)
LEMMA Acts ==
  ASSUME PairInv, NEW s \in Station,
         SeizeConfirmed(s) \/ T1Expires(s) \/ T3Expires(s)
  PROVE  PairInv' /\ Serves
<1> DEFINE A == link["A"]
           B == link["B"]
           qA == txq["A"]
           qB == txq["B"]
<1>1. Domains /\ (~stale => \E base, r, top : Holds(base, r, top))
  BY InvIs
<1>2. PICK S \in {lm_seize_confirm(link[s]), dl_timer_t1(link[s]), dl_timer_t3(link[s])} :
        Handles(s, S)
  BY DEF SeizeConfirmed, T1Expires, T3Expires
<1>3. /\ link' = [link EXCEPT ![s] = Cleared(S)]
      /\ given' = (IF s = "B" THEN given \o S.up ELSE given)
      /\ txq' = [txq EXCEPT ![s] = txq[s] \o FramesOf(S.out)]
      /\ accepted' = accepted /\ stale' = stale
  BY <1>2 DEF Handles, Becomes, Queued, Cleared
<1>4. "A" \in Station /\ "B" \in Station /\ "A" # "B" /\ s \in {"A", "B"}
  BY DEF Station
<1>5. /\ DOMAIN link' = Station /\ DOMAIN txq' = Station /\ stale' \in BOOLEAN
      /\ txq'[s] = txq[s] \o FramesOf(S.out) /\ link'[s] = Cleared(S)
      /\ \A p \in Station : p # s => txq'[p] = txq[p] /\ link'[p] = link[p]
  BY <1>1, <1>3, <1>4 DEF Domains
<1>6. ASSUME ~stale'
      PROVE  /\ \E base, r, top : Holds(base, r, top)'
             /\ given' = given
  <2>1. PICK base, r, top : Holds(base, r, top)
    BY <1>1, <1>3, <1>6
  <2>2. Pair(A, B, qA, qB, accepted, LastOf(given), base, r, top) /\ given \in Seq(Nat)
    BY <2>1 DEF Holds
  <2>3. CASE s = "A"
    <3>0. S \in {lm_seize_confirm(A), dl_timer_t1(A), dl_timer_t3(A)}
      BY <1>2, <2>3
    <3>1. PICK top2 :
            Pair(Cleared(S), B, qA \o FramesOf(S.out), qB, accepted, LastOf(given), base, r, top2)
      BY <2>2, <3>0, SenderActs
    <3>2. given' = given
      BY <1>3, <1>4, <2>3
    <3>3. Holds(base, r, top2)'
      BY <1>3, <1>4, <1>5, <2>2, <2>3, <3>1, <3>2 DEF Holds
    <3>4. QED
      BY <3>2, <3>3
  <2>4. CASE s = "B"
    <3>0. S \in {lm_seize_confirm(B), dl_timer_t1(B), dl_timer_t3(B)}
      BY <1>2, <2>4
    <3>1. /\ Pair(A, Cleared(S), qA, qB \o FramesOf(S.out), accepted, LastOf(given), base, r, top)
          /\ S.up = << >>
      <4>1. Pair(A, B, qA, qB, accepted, LastOf(given), base, r, top)
        BY <2>2
      <4> HIDE DEF A, B, qA, qB
      <4>2. QED
        BY ONLY <3>0, <4>1, ReceiverActs
    <3>2. given' = given
      BY <1>3, <2>2, <3>1
    <3>3. Holds(base, r, top)'
      BY <1>3, <1>4, <1>5, <2>2, <2>4, <3>1, <3>2 DEF Holds
    <3>4. QED
      BY <3>2, <3>3
  <2>5. QED
    BY <1>4, <2>3, <2>4
<1>7. PairInv'
  BY <1>5, <1>6 DEF PairInv, Holds
<1>8. QED
  BY <1>3, <1>6, <1>7 DEF Serves

(* A's client, the start, and any step.                                    *)
LEMMA Sent ==
  ASSUME PairInv, ClientSends
  PROVE  PairInv' /\ Serves
<1>1. Domains /\ (~stale => \E base, r, top : Holds(base, r, top))
  BY InvIs
<1> DEFINE U == [link["A"] EXCEPT !.i_frame_queue = Append(@, accepted + 1)]
<1>2. /\ accepted < Parts /\ accepted' = accepted + 1
      /\ link' = [link EXCEPT !["A"] = U]
      /\ txq' = [txq EXCEPT !["A"] = Append(@, NullFrame)]
      /\ given' = given /\ stale' = stale
  BY DEF ClientSends
<1>3. "A" \in Station /\ "B" \in Station /\ "A" # "B"
  BY DEF Station
<1> HIDE DEF U
<1>4. /\ DOMAIN link' = Station /\ DOMAIN txq' = Station /\ stale' \in BOOLEAN
      /\ link'["A"] = U /\ link'["B"] = link["B"]
      /\ txq'["A"] = Append(txq["A"], NullFrame) /\ txq'["B"] = txq["B"]
  BY <1>1, <1>2, <1>3 DEF Domains
<1>5. ASSUME ~stale'
      PROVE  \E base, r, top : Holds(base, r, top)'
  <2>1. PICK base, r, top : Holds(base, r, top)
    BY <1>1, <1>2, <1>5
  <2>2. Pair(link["A"], link["B"], txq["A"], txq["B"], accepted, LastOf(given), base, r, top)
        /\ given \in Seq(Nat)
    BY <2>1 DEF Holds
  <2>3. Pair(U, link["B"], Append(txq["A"], NullFrame), txq["B"], accepted + 1, LastOf(given),
             base, r, top)
    BY <1>2, <2>2, ClientSendsKeeps DEF U
  <2>4. Holds(base, r, top)'
    BY <1>2, <1>4, <2>2, <2>3 DEF Holds
  <2>5. QED
    BY <2>4
<1>6. PairInv'
  BY <1>4, <1>5 DEF PairInv, Holds
<1>7. QED
  BY <1>2, <1>6 DEF Serves

LEMMA Starts ==
  ASSUME Init
  PROVE  PairInv
<1> DEFINE T == nr_error_recovery(NewLink)
           A == [T EXCEPT !.out = << >>]
           B == [NewLink EXCEPT !.out = << >>]
<1>1. "A" \in Station /\ "B" \in Station /\ "A" # "B"
  BY DEF Station
<1>2. /\ DOMAIN link = Station /\ DOMAIN txq = Station /\ stale = FALSE
      /\ link["A"] = A /\ link["B"] = B
      /\ txq["A"] = FramesOf(T.out) /\ txq["B"] = << >>
      /\ accepted = 0 /\ given = << >>
  BY <1>1 DEF Init
<1>3. Pair(A, B, FramesOf(T.out), << >>, 0, 0, 0, 1, 0)
  BY PairInit
<1> HIDE DEF A, B, T
<1>4. LastOf(given) = 0 /\ given \in Seq(Nat)
  BY <1>2 DEF LastOf
<1>5. QED
  BY <1>2, <1>3, <1>4 DEF PairInv

LEMMA StepKeeps ==
  ASSUME PairInv, [Next]_vars
  PROVE  PairInv' /\ Serves
<1>1. CASE Next
  <2>1. CASE ClientSends
    BY <2>1, Sent
  <2>2. ASSUME NEW s \in Station, Heard(s)
        PROVE  PairInv' /\ Serves
    <3>1. s \in {"A", "B"}
      BY DEF Station
    <3>2. QED
      BY <2>2, <3>1, HeardByA, HeardByB
  <2>3. ASSUME NEW s \in Station, Lost(s) \/ NullFrameTaken(s)
        PROVE  PairInv' /\ Serves
    BY <2>3, NotHeard
  <2>4. ASSUME NEW s \in Station, SeizeConfirmed(s) \/ T1Expires(s) \/ T3Expires(s)
        PROVE  PairInv' /\ Serves
    BY <2>4, Acts
  <2>5. QED
    BY <1>1, <2>1, <2>2, <2>3, <2>4 DEF Next
<1>2. CASE UNCHANGED vars
  <2>1. /\ link' = link /\ txq' = txq /\ accepted' = accepted /\ given' = given /\ stale' = stale
    BY <1>2 DEF vars
  <2>2. QED
    BY <2>1 DEF PairInv, Serves
<1>3. QED
  BY <1>1, <1>2

-----------------------------------------------------------------------------
(* Theorems.                                                               *)

(* For any modulus, window, number of tries and of parts, the two stations *)
(* and their queues stay as PairInv says, from the SABM of A's first       *)
(* attempt on: every frame that is heard, lost or queued by a handler of   *)
(* ax25_link.c keeps it.                                                   *)
THEOREM PairInvHolds == Spec => []PairInv
<1>1. Init => PairInv
  BY Starts
<1>2. PairInv /\ [Next]_vars => PairInv'
  BY StepKeeps
<1>3. QED
  BY <1>1, <1>2, PTL DEF Spec

(* What B expects next is one of the numbers that A has sent and not heard *)
(* of, or the next it will send, whenever A is connected and not by a UA   *)
(* of an earlier attempt: is_good_nr takes the number B would answer.      *)
THEOREM NumbersAlwaysAgree == Spec => []NumbersAgree
<1>1. ASSUME PairInv PROVE NumbersAgree
  <2> SUFFICES ASSUME Agreed
               PROVE  Ahead(link["A"].va, link["B"].vr) <= Outstanding(link["A"])
    BY DEF NumbersAgree
  <2> DEFINE A == link["A"]
             B == link["B"]
             taken == Taken(A, accepted)
             first == First(A, accepted)
  <2>1. A.state \in Connected /\ ~stale
    BY DEF Agreed
  <2>2. PICK base, r, top :
          Pair(A, B, txq["A"], txq["B"], accepted, LastOf(given), base, r, top)
    BY <1>1, <2>1 DEF PairInv
  <2>3. PairParts(A, B, txq["A"], txq["B"], accepted, LastOf(given), base, r, top, taken, first,
                  B.rxdata_by_ns)
    BY <2>2, PairHasParts
  <2>4. B.vr = Num(base, r)
    BY <2>3 DEF PairParts, Counted
  <2> HIDE DEF A, B, taken, first
  <2>5. r \in first..(taken + 1)
    <3>1. /\ taken \in Nat /\ first \in Int /\ r \in Nat /\ r <= top + 1 /\ top = taken /\ first <= r
      BY <2>1, <2>3, WindowNumbers
    <3>2. QED
      BY <3>1
  <2>6. is_good_nr(A, Num(base, r))
    BY <2>1, <2>3, <2>5, GoodNr
  <2>7. QED
    BY <2>4, <2>6 DEF is_good_nr, A, B
<1>2. QED
  BY <1>1, PairInvHolds, PTL

(* Under the same condition a part that B keeps out of sequence is the one *)
(* A keeps under the same number, so what B gives up from rxdata_by_ns is  *)
(* what would be sent again.                                               *)
THEOREM StashCorrect == Spec => []StashIsWhatWasSent
<1>1. ASSUME PairInv PROVE StashIsWhatWasSent
  <2> DEFINE A == link["A"]
             B == link["B"]
             rx == B.rxdata_by_ns
             taken == Taken(A, accepted)
             first == First(A, accepted)
  <2> SUFFICES ASSUME Agreed, NEW n \in Number, rx[n] # NULL
               PROVE  rx[n] = A.txdata_by_ns[n]
    BY DEF StashIsWhatWasSent
  <2>1. A.state \in Connected /\ ~stale
    BY DEF Agreed
  <2>2. PICK base, r, top :
          Pair(A, B, txq["A"], txq["B"], accepted, LastOf(given), base, r, top)
    BY <1>1, <2>1 DEF PairInv
  <2>3. PairParts(A, B, txq["A"], txq["B"], accepted, LastOf(given), base, r, top, taken, first, rx)
    BY <2>2, PairHasParts
  <2> HIDE DEF A, B, rx, taken, first
  <2>4. PICK z \in (r + 1)..top : n = Num(base, z) /\ rx[n] = z
    BY <2>3 DEF PairParts, Stash
  <2>5. Window(A, base, r, top, taken, first)
    BY <2>1, <2>3 DEF PairParts, Joined
  <2>6. z \in first..taken
    <3>1. /\ first \in Int /\ r \in Nat /\ top = taken /\ first <= r /\ taken \in Nat
      BY <2>1, <2>3, WindowNumbers
    <3>2. QED
      BY <3>1
  <2>7. QED
    BY <2>4, <2>5, <2>6 DEF Window
<1>2. QED
  BY <1>1, PairInvHolds, PTL

(* What a call of B's link gives its client are accepted parts, in the     *)
(* order they were accepted and each after all that were given before, the *)
(* ones kept out of sequence included: LinkService, as long as A takes no  *)
(* UA of an earlier attempt for its own.                                   *)
THEOREM ServiceImplemented == Spec => ImplementsService
<1>1. Init => Service!ServiceInit
  BY DEF Init, Service!ServiceInit
<1>2. ASSUME PairInv, [Next]_vars
      PROVE  [Service!ServiceNext]_<<accepted, given, stale>>
  <2>1. Serves /\ stale \in BOOLEAN /\ stale' \in BOOLEAN
    BY <1>2, StepKeeps DEF PairInv
  <2>2. stale' \/ ~stale
    BY <1>2 DEF Next, vars, Heard, Lost, NullFrameTaken, SeizeConfirmed, T1Expires,
       T3Expires,
                Handles, ClientSends
  <2>3. CASE stale'
    BY <2>3 DEF Service!ServiceNext
  <2>4. CASE ~stale'
    <3>1. stale' = stale
      BY <2>1, <2>2, <2>4
    <3>2. \/ accepted' = accepted /\ given' = given
          \/ accepted' = accepted + 1 /\ given' = given
          \/ accepted' = accepted /\ Service!Continues(given, given', accepted)
      BY <2>1, <2>4 DEF Serves
    <3>3. QED
      BY <3>1, <3>2 DEF Service!ServiceNext, Service!Accept, Service!Give
  <2>5. QED
    BY <2>3, <2>4
<1>3. QED
  BY <1>1, <1>2, PairInvHolds, PTL DEF Spec, ImplementsService, Service!ServiceSpec
=============================================================================
