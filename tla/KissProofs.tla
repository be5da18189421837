------------------------------ MODULE KissProofs ------------------------------
(***************************************************************************)
(* Proofs about the KISS receiver, for any buffer size: what it holds of   *)
(* any stream of bytes, well formed or not; that unwrapping undoes         *)
(* wrapping; and that what clients send whole arrives.                     *)
(***************************************************************************)
EXTENDS KissFrame, WellFoundedInduction, TLAPS

-----------------------------------------------------------------------------
(* Sequences and counting.                                                 *)

(* An append puts one element at the end and keeps the rest.               *)
LEMMA AppendFacts ==
  ASSUME NEW S, NEW q \in Seq(S), NEW e \in S
  PROVE  /\ Append(q, e) \in Seq(S)
         /\ Len(Append(q, e)) = Len(q) + 1
         /\ \A i \in 1..Len(q) : Append(q, e)[i] = q[i]
         /\ Append(q, e)[Len(q) + 1] = e
  OBVIOUS

(* A sequence of one element is that element's singleton.                  *)
LEMMA SingletonFact ==
  ASSUME NEW S, NEW q \in Seq(S), Len(q) = 1
  PROVE  q = <<q[1]>>
<1>1. DOMAIN q = 1..1 /\ q = [i \in DOMAIN q |-> q[i]]
  OBVIOUS
<1>2. QED
  BY <1>1

(* Two sequences, one after the other.                                     *)
LEMMA JoinFacts ==
  ASSUME NEW S, NEW q \in Seq(S), NEW r \in Seq(S)
  PROVE  /\ q \o r \in Seq(S)
         /\ Len(q \o r) = Len(q) + Len(r)
         /\ \A i \in 1..Len(q) : (q \o r)[i] = q[i]
         /\ \A i \in 1..Len(r) : (q \o r)[Len(q) + i] = r[i]
  OBVIOUS

(* Sequences are equal element by element.                                 *)
LEMMA SameSequence ==
  ASSUME NEW S, NEW q \in Seq(S), NEW r \in Seq(S), Len(q) = Len(r),
         \A i \in 1..Len(r) : q[i] = r[i]
  PROVE  q = r
<1>1. q = [i \in 1..Len(q) |-> q[i]] /\ r = [i \in 1..Len(r) |-> r[i]]
  OBVIOUS
<1>2. QED
  BY <1>1

(* A tail leaves the first element out.                                    *)
LEMMA TailFacts ==
  ASSUME NEW S, NEW q \in Seq(S), q # << >>
  PROVE  /\ Tail(q) \in Seq(S) /\ Len(Tail(q)) = Len(q) - 1
         /\ Len(q) \in Nat /\ Len(q) >= 1 /\ Head(q) = q[1] /\ Head(q) \in S
         /\ \A i \in 1..(Len(q) - 1) : Tail(q)[i] = q[i + 1]
         /\ Tail(q) = << >> <=> Len(q) = 1
<1>1. /\ Tail(q) \in Seq(S) /\ Len(Tail(q)) = Len(q) - 1
      /\ Len(q) \in Nat /\ Len(q) >= 1 /\ Head(q) = q[1] /\ Head(q) \in S
      /\ \A i \in 1..(Len(q) - 1) : Tail(q)[i] = q[i + 1]
  OBVIOUS
<1>2. \A r \in Seq(S) : r = << >> <=> Len(r) = 0
  OBVIOUS
<1>3. Tail(q) = << >> <=> Len(Tail(q)) = 0
  BY <1>1, <1>2
<1>4. QED
  BY <1>1, <1>3

(* A set of numbers that is not empty has a least one.                     *)
LEMMA LeastNatural ==
  ASSUME NEW X, X \subseteq Nat, X # {}
  PROVE  \E x \in X : \A y \in X : x <= y
<1>1. PICK x \in X : \A y \in X : <<y, x>> \notin OpToRel(<, Nat)
  BY NatLessThanWellFounded, WFMin
<1>2. \A y \in X : ~(y < x)
  BY <1>1 DEF OpToRel
<1>3. QED
  BY <1>2

(* What holds of 0, and of each number after one it holds of, holds of all *)
(* up to the last: induction, for a set instead of a predicate.            *)
LEMMA CountUp ==
  ASSUME NEW n \in Nat, NEW S, 0 \in S, \A i \in 0..(n - 1) : i \in S => i + 1 \in S
  PROVE  \A i \in 0..n : i \in S
<1> DEFINE X == {i \in 0..n : i \notin S}
<1> SUFFICES ASSUME X # {} PROVE FALSE
  OBVIOUS
<1>1. PICK m \in X : \A y \in X : m <= y
  <2>1. X \subseteq Nat
    OBVIOUS
  <2> HIDE DEF X
  <2>2. QED
    BY <2>1, LeastNatural
<1>2. m \in 1..n /\ m \notin S
  OBVIOUS
<1>3. m - 1 \notin X
  BY <1>1, <1>2
<1>4. m - 1 \in S /\ m - 1 \in 0..(n - 1)
  BY <1>2, <1>3
<1>5. QED
  BY <1>2, <1>4

(* A function defined by a step from each number to the next exists.       *)
Steps(g, n, b, T) == g[0] = b /\ \A k \in 1..n : g[k] = T[k][g[k - 1]]

LEMMA StepByStep ==
  ASSUME NEW n \in Nat, NEW X, NEW b \in X, NEW T \in [1..n -> [X -> X]]
  PROVE  \E g \in [0..n -> X] : Steps(g, n, b, T)
<1> DEFINE Good(m) == {g \in [0..m -> X] :
                         g[0] = b /\ \A k \in 1..m : g[k] = T[k][g[k - 1]]}
           S == {m \in 0..n : Good(m) # {}}
<1>1. 0 \in S
  <2> DEFINE g == [k \in 0..0 |-> b]
  <2>1. g \in Good(0)
    OBVIOUS
  <2>2. QED
    BY <2>1
<1>2. ASSUME NEW i \in 0..(n - 1), i \in S
      PROVE  i + 1 \in S
  <2>1. PICK g : g \in Good(i)
    BY <1>2
  <2> DEFINE h == [k \in 0..(i + 1) |-> IF k = i + 1 THEN T[i + 1][g[i]] ELSE g[k]]
  <2>2. g \in [0..i -> X] /\ g[0] = b /\ \A k \in 1..i : g[k] = T[k][g[k - 1]]
    BY <2>1
  <2>3. i \in 0..i /\ i + 1 \in 1..n
    OBVIOUS
  <2>4. T[i + 1][g[i]] \in X
    BY <2>2, <2>3
  <2>5. h \in [0..(i + 1) -> X]
    BY <2>2, <2>4
  <2>6. h[0] = b
    BY <2>2
  <2>7. ASSUME NEW k \in 1..(i + 1) PROVE h[k] = T[k][h[k - 1]]
    <3>1. k - 1 \in 0..i /\ h[k - 1] = g[k - 1]
      OBVIOUS
    <3>2. QED
      BY <2>2, <3>1
  <2>8. h \in Good(i + 1)
    BY <2>5, <2>6, <2>7
  <2> HIDE DEF h
  <2>9. i + 1 \in 0..n /\ Good(i + 1) # {}
    BY <2>8
  <2>10. QED
    BY <2>9
<1>3. n \in S
  <2>1. n \in 0..n
    OBVIOUS
  <2> HIDE DEF S
  <2>2. QED
    BY <1>1, <1>2, <2>1, CountUp
<1>4. PICK g : g \in Good(n)
  BY <1>3
<1>5. Steps(g, n, b, T)
  BY <1>4 DEF Steps
<1>6. QED
  BY <1>4, <1>5

-----------------------------------------------------------------------------
(* The receiver, fed with any bytes.                                       *)

(* The closing FEND is stored without a test of the length: one byte more  *)
(* than the buffer holds may be stored, never two.                         *)
OverrunAtMostOne == Len(kiss_msg) <= MAX_KISS_LEN + 1

BufferInv ==
  /\ state \in {"KS_SEARCHING", "KS_COLLECTING"}
  /\ kiss_msg \in Seq(0..255)
  /\ state = "KS_COLLECTING" => Len(kiss_msg) \in 1..MAX_KISS_LEN
  /\ OverrunAtMostOne

IInv == BufferInv /\ FramesAreDelimited

(* kisspt_init leaves an empty buffer.                                     *)
LEMMA InitIInv == Init => IInv
  BY KissAssumption DEF Init, IInv, BufferInv, OverrunAtMostOne, FramesAreDelimited

(* An opening FEND starts a frame afresh; anything else is skipped.        *)
LEMMA SearchKeeps ==
  ASSUME IInv, NEW chr \in 0..255, Search(chr)
  PROVE  IInv'
<1>1. CASE chr = FEND
  <2>1. /\ state' = "KS_COLLECTING"
        /\ kiss_msg' = <<chr>>
    BY <1>1 DEF Search
  <2>2. kiss_msg' \in Seq(0..255) /\ Len(kiss_msg') = 1 /\ kiss_msg'[1] = FEND
    BY <1>1, <2>1
  <2>3. QED
    BY <2>1, <2>2, KissAssumption
    DEF IInv, BufferInv, OverrunAtMostOne, FramesAreDelimited
<1>2. CASE chr # FEND
  BY <1>2 DEF Search, kiss_frame, IInv, BufferInv, OverrunAtMostOne, FramesAreDelimited
<1>3. QED
  BY <1>1, <1>2

(* A FEND either leaves a frame of one FEND alone or completes a longer    *)
(* one.                                                                    *)
LEMMA EndOfFrameKeeps ==
  ASSUME IInv, NEW chr \in 0..255, EndOfFrame(chr)
  PROVE  IInv'
<1>1. /\ state = "KS_COLLECTING"
      /\ chr = FEND
      /\ kiss_msg \in Seq(0..255)
      /\ Len(kiss_msg) \in 1..MAX_KISS_LEN
  BY DEF EndOfFrame, IInv, BufferInv
<1>2. CASE kiss_msg = <<FEND>>
  BY <1>2 DEF EndOfFrame, kiss_frame, IInv, BufferInv, OverrunAtMostOne,
              FramesAreDelimited
<1>3. CASE kiss_msg # <<FEND>>
  <2>1. kiss_msg' = Append(kiss_msg, chr) /\ state' = "KS_SEARCHING"
    BY <1>3 DEF EndOfFrame
  <2>2. /\ kiss_msg' \in Seq(0..255)
        /\ Len(kiss_msg') = Len(kiss_msg) + 1
        /\ \A k \in 1..Len(kiss_msg) : kiss_msg'[k] = kiss_msg[k]
        /\ kiss_msg'[Len(kiss_msg) + 1] = chr
    BY <1>1, <2>1, AppendFacts
  <2>3. /\ kiss_msg[1] = FEND
        /\ \A k \in 2..Len(kiss_msg) : kiss_msg[k] # FEND
    BY <1>1 DEF IInv, FramesAreDelimited
  <2>4. Len(kiss_msg) > 1
    <3>1. ASSUME Len(kiss_msg) = 1 PROVE FALSE
      <4>1. kiss_msg = <<kiss_msg[1]>>
        BY <1>1, <3>1, SingletonFact
      <4>2. QED
        BY <1>3, <2>3, <4>1
    <3>2. Len(kiss_msg) \in Nat /\ Len(kiss_msg) >= 1
      BY <1>1, KissAssumption
    <3>3. Len(kiss_msg) # 1
      BY <3>1
    <3>4. \A l \in Nat : l >= 1 /\ l # 1 => l > 1
      OBVIOUS
    <3>5. QED
      BY <3>2, <3>3, <3>4, Zenon
  <2>5. BufferInv'
    BY <1>1, <2>1, <2>2, KissAssumption DEF BufferInv, OverrunAtMostOne
  <2>6. FramesAreDelimited'
    <3>1. /\ kiss_msg'[1] = FEND
          /\ Len(kiss_msg') > 2
          /\ kiss_msg'[Len(kiss_msg')] = FEND
      BY <1>1, <2>2, <2>3, <2>4
    <3>2. \A k \in 2..Len(kiss_msg') : kiss_msg'[k] = FEND => k = Len(kiss_msg')
      BY <1>1, <2>2, <2>3
    <3>3. QED
      BY <2>1, <3>1, <3>2 DEF FramesAreDelimited
  <2>7. QED
    BY <2>5, <2>6 DEF IInv
<1>4. QED
  BY <1>2, <1>3

(* Any other byte joins the frame while there is room.                     *)
LEMMA CollectKeeps ==
  ASSUME IInv, NEW chr \in 0..255, Collect(chr)
  PROVE  IInv'
<1>1. /\ state = "KS_COLLECTING" /\ state' = state
      /\ chr # FEND
      /\ kiss_msg \in Seq(0..255)
      /\ Len(kiss_msg) \in 1..MAX_KISS_LEN
  BY DEF Collect, IInv, BufferInv
<1>2. CASE Len(kiss_msg) < MAX_KISS_LEN
  <2>1. kiss_msg' = Append(kiss_msg, chr)
    BY <1>2 DEF Collect
  <2>2. /\ kiss_msg' \in Seq(0..255)
        /\ Len(kiss_msg') = Len(kiss_msg) + 1
        /\ \A k \in 1..Len(kiss_msg) : kiss_msg'[k] = kiss_msg[k]
        /\ kiss_msg'[Len(kiss_msg) + 1] = chr
    BY <1>1, <2>1, AppendFacts
  <2>3. BufferInv'
    BY <1>1, <1>2, <2>2, KissAssumption DEF BufferInv, OverrunAtMostOne
  <2>4. FramesAreDelimited'
    BY <1>1, <2>2 DEF IInv, FramesAreDelimited
  <2>5. QED
    BY <2>3, <2>4 DEF IInv
<1>3. CASE ~(Len(kiss_msg) < MAX_KISS_LEN)
  BY <1>1, <1>3 DEF Collect, IInv, BufferInv, OverrunAtMostOne, FramesAreDelimited
<1>4. QED
  BY <1>2, <1>3

(* One byte, whatever it is.                                               *)
LEMMA AnyByteKeeps == IInv /\ [AnyByte]_vars => IInv'
<1> SUFFICES ASSUME IInv, [AnyByte]_vars PROVE IInv'
  OBVIOUS
<1>1. ASSUME NEW chr \in 0..255, kiss_rec_byte(chr)
      PROVE  IInv'
  BY <1>1, SearchKeeps, EndOfFrameKeeps, CollectKeeps DEF kiss_rec_byte
<1>2. CASE UNCHANGED vars
  BY <1>2 DEF vars, kiss_frame, IInv, BufferInv, OverrunAtMostOne, FramesAreDelimited
<1>3. QED
  BY <1>1, <1>2 DEF AnyByte

(* Every message kiss_unwrap gets is one FEND, bytes that are none, and a  *)
(* FEND, for any buffer size and any bytes a client may write.             *)
THEOREM Delimited == AnyBytesSpec => []FramesAreDelimited
<1>1. IInv => FramesAreDelimited
  BY DEF IInv
<1>2. QED
  BY <1>1, InitIInv, AnyByteKeeps, PTL DEF AnyBytesSpec

(* The write past kiss_msg (StoredMessageFits fails) is of one byte, the   *)
(* closing FEND, and no more, for any buffer size and any bytes.           *)
THEOREM OverrunBounded == AnyBytesSpec => []OverrunAtMostOne
<1>1. IInv => OverrunAtMostOne
  BY DEF IInv, BufferInv
<1>2. QED
  BY <1>1, InitIInv, AnyByteKeeps, PTL DEF AnyBytesSpec

-----------------------------------------------------------------------------
(* Wrapping and unwrapping.                                                *)

Byte == 0..255
Acc == [out: Seq(Byte), escaped: BOOLEAN]
NothingYet == [out |-> << >>, escaped |-> FALSE]

(* A byte on the wire.                                                     *)
LEMMA EscapeIs ==
  ASSUME NEW chr \in Byte
  PROVE  /\ Escape(chr) \in Seq(Byte)
         /\ chr = FEND => Escape(chr) = <<FESC, TFEND>>
         /\ chr = FESC => Escape(chr) = <<FESC, TFESC>>
         /\ chr # FEND /\ chr # FESC => Escape(chr) = <<chr>>
<1>1. \A x, y \in Byte : <<x>> \in Seq(Byte) /\ <<x, y>> \in Seq(Byte)
  OBVIOUS
<1>2. FESC \in Byte /\ FEND \in Byte /\ TFESC \in Byte /\ TFEND \in Byte /\ FEND # FESC
  BY DEF Byte, FEND, FESC, TFEND, TFESC
<1>3. CASE chr = FEND
  BY <1>1, <1>2, <1>3, Zenon DEF Escape
<1>4. CASE chr = FESC
  BY <1>1, <1>2, <1>4, Zenon DEF Escape
<1>5. CASE chr # FEND /\ chr # FESC
  BY <1>1, <1>2, <1>5, Zenon DEF Escape
<1>6. QED
  BY <1>3, <1>4, <1>5

(* The encoder's loop, byte by byte.                                       *)
LEMMA WrappedIs ==
  ASSUME NEW in \in Seq(Byte)
  PROVE  /\ Wrapped(in) \in [0..Len(in) -> Seq(Byte)]
         /\ Wrapped(in)[0] = <<FEND>>
         /\ \A k \in 1..Len(in) : Wrapped(in)[k] = Wrapped(in)[k - 1] \o Escape(in[k])
<1> DEFINE n == Len(in)
           X == Seq(Byte)
           b == <<FEND>>
           T == [k \in 1..n |-> [x \in X |-> x \o Escape(in[k])]]
           Is(g) == g = [k \in 0..n |-> IF k = 0 THEN b ELSE g[k - 1] \o Escape(in[k])]
<1>1. n \in Nat /\ b \in X
  BY DEF Byte, FEND
<1>2. \A k \in 1..n : Escape(in[k]) \in X
  BY EscapeIs
<1>3. T \in [1..n -> [X -> X]]
  BY <1>2
<1>3a. \A k \in 1..n : k - 1 \in 0..n /\ k \in 0..n /\ k # 0
  OBVIOUS
<1>3b. 0 \in 0..n
  OBVIOUS
<1>3c. \A x \in X, k \in 1..n : T[k][x] = x \o Escape(in[k])
  OBVIOUS
<1> HIDE DEF T, X, b, n
<1>3d. PICK g \in [0..n -> X] : Steps(g, n, b, T)
  BY <1>1, <1>3, StepByStep, Zenon
<1>4. g[0] = b /\ \A k \in 1..n : g[k] = T[k][g[k - 1]]
  BY <1>3d DEF Steps
<1>5. \A k \in 1..n : T[k][g[k - 1]] = g[k - 1] \o Escape(in[k])
  <2> TAKE k \in 1..n
  <2>1. g[k - 1] \in X
    BY <1>3a, <1>4
  <2>2. QED
    BY <1>3c, <2>1
<1>6. Is(g)
  <2>1. \A k \in 0..n : g[k] = IF k = 0 THEN b ELSE g[k - 1] \o Escape(in[k])
    <3> TAKE k \in 0..n
    <3>1. k = 0 \/ (k # 0 /\ k \in 1..n)
      BY <1>1
    <3>2. QED
      BY <1>4, <1>5, <3>1
  <2>2. g = [k \in 0..n |-> g[k]]
    OBVIOUS
  <2>3. QED
    BY <2>1, <2>2
<1>7. Wrapped(in) = CHOOSE out : Is(out)
  BY DEF Wrapped, n, b
<1> HIDE DEF Is
<1>8. Is(Wrapped(in))
  BY <1>6, <1>7
<1> DEFINE w == Wrapped(in)
<1> HIDE DEF w
<1>9. Is(w)
  BY <1>8 DEF w
<1>10. /\ DOMAIN w = 0..n /\ w = [k \in 0..n |-> w[k]]
       /\ w[0] = b
       /\ \A k \in 1..n : w[k] = w[k - 1] \o Escape(in[k])
  BY <1>1, <1>9 DEF Is
<1>11. \A k \in 0..n : w[k] \in X
  <2> DEFINE S == {k \in 0..n : w[k] \in X}
  <2>1. 0 \in S
    BY <1>1, <1>3b, <1>10
  <2>2. ASSUME NEW i \in 0..(n - 1), i \in S PROVE i + 1 \in S
    <3> DEFINE k == i + 1
    <3>1. w[k - 1] \in X /\ k \in 0..n /\ k \in 1..n
      BY <1>1, <2>2
    <3> HIDE DEF k
    <3>2. w[k] = w[k - 1] \o Escape(in[k]) /\ Escape(in[k]) \in X
      BY <1>2, <1>10, <3>1, Zenon
    <3>3. w[k] \in X
      BY <3>1, <3>2 DEF X
    <3>4. w[k] \in X /\ k \in 0..n /\ k = i + 1
      BY <3>1, <3>3 DEF k
    <3>5. QED
      BY <3>4 DEF k
  <2> HIDE DEF S
  <2>3. \A k \in 0..n : k \in S
    BY <1>1, <2>1, <2>2, CountUp
  <2>4. QED
    BY <2>3 DEF S
<1>12. w \in [0..n -> X]
  BY <1>10, <1>11
<1>13. QED
  BY <1>10, <1>12 DEF w, n, X, b

(* One byte read.                                                          *)
LEMMA UnwrapByteIs ==
  ASSUME NEW acc \in Acc, NEW chr \in Byte
  PROVE  /\ UnwrapByte(acc, chr) \in Acc
         /\ ~acc.escaped /\ chr # FESC =>
              UnwrapByte(acc, chr) = [out |-> Append(acc.out, chr), escaped |-> FALSE]
         /\ ~acc.escaped /\ chr = FESC =>
              UnwrapByte(acc, chr) = [out |-> acc.out, escaped |-> TRUE]
         /\ acc.escaped /\ chr = TFESC =>
              UnwrapByte(acc, chr) = [out |-> Append(acc.out, FESC), escaped |-> FALSE]
         /\ acc.escaped /\ chr = TFEND =>
              UnwrapByte(acc, chr) = [out |-> Append(acc.out, FEND), escaped |-> FALSE]
<1>1. /\ acc = [out |-> acc.out, escaped |-> acc.escaped]
      /\ acc.out \in Seq(Byte) /\ acc.escaped \in BOOLEAN
  BY DEF Acc
<1>2. /\ Unescape(TFESC) = <<FESC>> /\ Unescape(TFEND) = <<FEND>>
      /\ Unescape(chr) \in Seq(Byte)
  <2>1. \A x \in Byte : <<x>> \in Seq(Byte)
    OBVIOUS
  <2>2. << >> \in Seq(Byte)
    OBVIOUS
  <2>3. FESC \in Byte /\ FEND \in Byte /\ TFESC # TFEND
    BY DEF TFESC, TFEND, FESC, FEND, Byte
  <2>4. QED
    BY <2>1, <2>2, <2>3, Zenon DEF Unescape
<1>3. /\ acc.out \o <<FESC>> = Append(acc.out, FESC)
      /\ acc.out \o <<FEND>> = Append(acc.out, FEND)
  BY <1>1
<1>4. CASE acc.escaped
  <2>1. UnwrapByte(acc, chr) = [out |-> acc.out \o Unescape(chr), escaped |-> FALSE]
    BY <1>4 DEF UnwrapByte
  <2>2. acc.out \o Unescape(chr) \in Seq(Byte)
    BY <1>1, <1>2
  <2>3. UnwrapByte(acc, chr) \in Acc
    BY <2>1, <2>2 DEF Acc
  <2>4. /\ chr = TFESC => Unescape(chr) = <<FESC>>
        /\ chr = TFEND => Unescape(chr) = <<FEND>>
    BY <1>2
  <2>5. QED
    BY <1>3, <1>4, <2>1, <2>3, <2>4, Zenon
<1>5. CASE ~acc.escaped
  <2>1. Append(acc.out, chr) \in Seq(Byte)
    BY <1>1
  <2>2. UnwrapByte(acc, chr) = IF chr = FESC THEN [out |-> acc.out, escaped |-> TRUE]
                               ELSE [out |-> Append(acc.out, chr), escaped |-> FALSE]
    BY <1>5, Zenon DEF UnwrapByte
  <2>3. QED
    BY <1>1, <1>5, <2>1, <2>2 DEF Acc
<1>6. QED
  BY <1>4, <1>5

(* The decoder's loop, byte by byte.                                       *)
LEMMA UnwrappedIs ==
  ASSUME NEW in \in Seq(Byte), NEW first \in {1, 2}
  PROVE  /\ Unwrapped(in, first) \in [0..Len(in) -> Acc]
         /\ \A k \in 0..Len(in) : k < first => Unwrapped(in, first)[k] = NothingYet
         /\ \A k \in 1..Len(in) : k >= first =>
              Unwrapped(in, first)[k] = UnwrapByte(Unwrapped(in, first)[k - 1], in[k])
<1> DEFINE n == Len(in)
           F(x, k) == IF k < first THEN NothingYet ELSE UnwrapByte(x, in[k])
           T == [k \in 1..n |-> [x \in Acc |-> F(x, k)]]
           Is(g) == g = [k \in 0..n |-> IF k < first THEN NothingYet
                                        ELSE UnwrapByte(g[k - 1], in[k])]
<1>1. n \in Nat /\ NothingYet \in Acc
  <2>1. << >> \in Seq(Byte)
    OBVIOUS
  <2>2. QED
    BY <2>1 DEF Acc, NothingYet
<1>2. \A x \in Acc, k \in 1..n : F(x, k) \in Acc
  BY <1>1, UnwrapByteIs
<1>3. T \in [1..n -> [Acc -> Acc]]
  BY <1>2
<1>3a. \A k \in 1..n : k - 1 \in 0..n /\ k \in 0..n /\ k # 0
  OBVIOUS
<1>3c. \A x \in Acc, k \in 1..n : T[k][x] = F(x, k)
  OBVIOUS
<1> HIDE DEF T, n
<1>3d. PICK g \in [0..n -> Acc] : Steps(g, n, NothingYet, T)
  BY <1>1, <1>3, StepByStep, Zenon
<1>4. g[0] = NothingYet /\ \A k \in 1..n : g[k] = T[k][g[k - 1]]
  BY <1>3d DEF Steps
<1>5. \A k \in 1..n : T[k][g[k - 1]] = F(g[k - 1], k)
  <2> TAKE k \in 1..n
  <2>1. g[k - 1] \in Acc
    BY <1>3a, <1>4
  <2>2. QED
    BY <1>3c, <2>1
<1>6. Is(g)
  <2>1. \A k \in 0..n : g[k] = IF k < first THEN NothingYet
                               ELSE UnwrapByte(g[k - 1], in[k])
    <3> TAKE k \in 0..n
    <3>1. (k = 0 /\ k < first) \/ k \in 1..n
      BY <1>1
    <3>2. QED
      BY <1>4, <1>5, <3>1
  <2>2. g = [k \in 0..n |-> g[k]]
    OBVIOUS
  <2>3. QED
    BY <2>1, <2>2
<1>7. Unwrapped(in, first) = CHOOSE acc : Is(acc)
  BY DEF Unwrapped, NothingYet, n
<1> HIDE DEF Is
<1>8. Is(Unwrapped(in, first))
  BY <1>6, <1>7
<1> DEFINE u == Unwrapped(in, first)
<1> HIDE DEF u
<1>9. Is(u)
  BY <1>8 DEF u
<1>10. /\ DOMAIN u = 0..n /\ u = [k \in 0..n |-> u[k]]
       /\ \A k \in 0..n : k < first => u[k] = NothingYet
       /\ \A k \in 1..n : k >= first => u[k] = UnwrapByte(u[k - 1], in[k])
  BY <1>1, <1>9 DEF Is
<1>11. \A k \in 0..n : u[k] \in Acc
  <2> DEFINE S == {k \in 0..n : u[k] \in Acc}
  <2>1. 0 \in S
    BY <1>1, <1>10
  <2>2. ASSUME NEW i \in 0..(n - 1), i \in S PROVE i + 1 \in S
    <3> DEFINE k == i + 1
    <3>1. u[k - 1] \in Acc /\ in[k] \in Byte /\ k \in 1..n /\ k \in 0..n
      BY <1>1, <2>2 DEF n
    <3>2. k < first \/ k >= first
      BY <1>1
    <3> HIDE DEF k
    <3>3. u[k] = NothingYet \/ u[k] = UnwrapByte(u[k - 1], in[k])
      BY <1>10, <3>1, <3>2, Zenon
    <3>4. u[k] \in Acc
      BY <1>1, <3>1, <3>3, UnwrapByteIs, Zenon
    <3>5. QED
      BY <3>1, <3>4 DEF k
  <2> HIDE DEF S
  <2>3. \A k \in 0..n : k \in S
    BY <1>1, <2>1, <2>2, CountUp
  <2>4. QED
    BY <2>3 DEF S
<1>12. u \in [0..n -> Acc]
  BY <1>10, <1>11
<1>13. QED
  BY <1>10, <1>12 DEF u, n

(* An escaped byte is one or two, none of them a FEND.                     *)
LEMMA EscapeShape ==
  ASSUME NEW chr \in Byte
  PROVE  /\ Len(Escape(chr)) \in {1, 2}
         /\ \A i \in 1..Len(Escape(chr)) : Escape(chr)[i] # FEND
<1>1. CASE chr = FEND
  <2>1. Escape(chr) = <<219, 220>>
    BY <1>1, EscapeIs, Zenon DEF FESC, TFEND
  <2>2. QED
    BY <2>1 DEF FEND
<1>2. CASE chr = FESC
  <2>1. Escape(chr) = <<219, 221>>
    BY <1>2, EscapeIs, Zenon DEF FESC, TFESC
  <2>2. QED
    BY <2>1 DEF FEND
<1>3. CASE chr # FEND /\ chr # FESC
  <2>1. Escape(chr) = <<chr>>
    BY <1>3, EscapeIs, Zenon
  <2>2. QED
    BY <1>3, <2>1
<1>4. QED
  BY <1>1, <1>2, <1>3

(* Wrapped so far: a FEND, at least one byte for each, and no other FEND.  *)
Opened(q, k) ==
  /\ q \in Seq(Byte)
  /\ Len(q) >= k + 1
  /\ q[1] = FEND
  /\ \A i \in 2..Len(q) : q[i] # FEND

LEMMA OpenedGoesOn ==
  ASSUME NEW k \in Nat, NEW q, Opened(q, k), NEW chr \in Byte
  PROVE  Opened(q \o Escape(chr), k + 1)
<1> DEFINE r == Escape(chr)
<1>1. /\ r \in Seq(Byte)
      /\ Len(r) \in {1, 2}
      /\ \A i \in 1..Len(r) : r[i] # FEND
  BY EscapeIs, EscapeShape
<1>2. q \in Seq(Byte)
  BY DEF Opened
<1> HIDE DEF r
<1>3. /\ q \o r \in Seq(Byte)
      /\ Len(q \o r) = Len(q) + Len(r)
      /\ \A i \in 1..Len(q) : (q \o r)[i] = q[i]
      /\ \A i \in 1..Len(r) : (q \o r)[Len(q) + i] = r[i]
  BY <1>1, <1>2, JoinFacts
<1>4. Len(q) \in Nat /\ Len(q) >= k + 1 /\ q[1] = FEND /\ \A i \in 2..Len(q) : q[i] # FEND
  BY <1>2 DEF Opened
<1> DEFINE s == q \o r
<1> HIDE DEF s
<1>5. ASSUME NEW i \in 2..Len(s) PROVE s[i] # FEND
  <2>1. CASE i <= Len(q)
    BY <1>1, <1>3, <1>4, <2>1 DEF s
  <2>2. CASE i > Len(q)
    <3>1. i - Len(q) \in 1..Len(r) /\ Len(q) + (i - Len(q)) = i
      BY <1>1, <1>3, <1>4, <2>2 DEF s
    <3>2. (q \o r)[Len(q) + (i - Len(q))] = r[i - Len(q)]
      BY <1>3, <3>1, Zenon
    <3>3. QED
      BY <1>1, <3>1, <3>2 DEF s
  <2>3. QED
    BY <1>1, <1>3, <1>4, <2>1, <2>2 DEF s
<1>6. s \in Seq(Byte) /\ Len(s) >= k + 1 + 1 /\ s[1] = FEND
  BY <1>1, <1>3, <1>4 DEF s
<1>7. QED
  BY <1>5, <1>6 DEF Opened, s, r

LEMMA WrappedOpened ==
  ASSUME NEW in \in Seq(Byte)
  PROVE  \A k \in 0..Len(in) : Opened(Wrapped(in)[k], k)
<1> DEFINE n == Len(in)
           w == Wrapped(in)
           S == {k \in 0..n : Opened(w[k], k)}
<1>1. /\ n \in Nat
      /\ w[0] = <<FEND>>
      /\ \A k \in 1..n : w[k] = w[k - 1] \o Escape(in[k])
      /\ \A k \in 1..n : in[k] \in Byte
  <2>1. n \in Nat /\ \A k \in 1..n : in[k] \in Byte
    OBVIOUS
  <2>2. QED
    BY <2>1, WrappedIs, Zenon
<1> HIDE DEF w, n
<1>2. 0 \in S
  <2>1. Opened(<<FEND>>, 0)
    BY DEF Opened, FEND, Byte
  <2>2. QED
    BY <1>1, <2>1
<1>3. ASSUME NEW i \in 0..(n - 1), i \in S PROVE i + 1 \in S
  <2> DEFINE k == i + 1
  <2>1. k - 1 = i /\ k \in 1..n /\ k \in 0..n /\ i \in Nat
    BY <1>1
  <2>2. Opened(w[i], i)
    BY <1>3
  <2> HIDE DEF k
  <2>3. w[k] = w[i] \o Escape(in[k]) /\ in[k] \in Byte
    BY <1>1, <2>1
  <2>4. Opened(w[k], i + 1)
    BY <2>1, <2>2, <2>3, OpenedGoesOn
  <2>5. QED
    BY <2>1, <2>4 DEF k
<1> HIDE DEF S
<1>4. \A k \in 0..n : k \in S
  BY <1>1, <1>2, <1>3, CountUp
<1>5. QED
  BY <1>4 DEF S, n, w

(* What has been written stays.                                            *)
Begins(q, r) == Len(q) <= Len(r) /\ \A i \in 1..Len(q) : r[i] = q[i]

LEMMA WrappedBegins ==
  ASSUME NEW in \in Seq(Byte)
  PROVE  \A j \in 0..Len(in) : \A k \in 0..j : Begins(Wrapped(in)[k], Wrapped(in)[j])
<1> DEFINE n == Len(in)
           w == Wrapped(in)
           S == {j \in 0..n : \A k \in 0..j : Begins(w[k], w[j])}
<1>1. /\ n \in Nat
      /\ \A k \in 1..n : w[k] = w[k - 1] \o Escape(in[k])
      /\ \A k \in 1..n : in[k] \in Byte
      /\ \A k \in 0..n : w[k] \in Seq(Byte)
  <2>1. n \in Nat /\ \A k \in 1..n : in[k] \in Byte
    OBVIOUS
  <2>2. \A k \in 0..n : w[k] \in Seq(Byte)
    BY WrappedIs, Zenon
  <2>3. QED
    BY <2>1, <2>2, WrappedIs, Zenon
<1> HIDE DEF w, n
<1>2. \A q \in Seq(Byte) : Begins(q, q)
  BY DEF Begins
<1>3. 0 \in S
  BY <1>1, <1>2
<1>4. ASSUME NEW i \in 0..(n - 1), i \in S PROVE i + 1 \in S
  <2> DEFINE k == i + 1
             q == w[i]
             r == Escape(in[k])
  <2>1. k - 1 = i /\ k \in 1..n /\ k \in 0..n /\ i \in 0..n /\ 0..k = (0..i) \cup {k}
    BY <1>1
  <2>2. \A l \in 0..i : Begins(w[l], q)
    BY <1>4
  <2> HIDE DEF k
  <2>3. w[k] = q \o r /\ q \in Seq(Byte) /\ r \in Seq(Byte) /\ w[k] \in Seq(Byte)
    BY <1>1, <2>1, EscapeIs
  <2>4. \A l \in 0..i : l \in 0..n /\ w[l] \in Seq(Byte) /\ Len(w[l]) \in Nat
    BY <1>1
  <2> HIDE DEF q, r
  <2>5. Len(w[k]) >= Len(q) /\ \A x \in 1..Len(q) : w[k][x] = q[x]
    BY <2>3, JoinFacts
  <2>6. ASSUME NEW l \in 0..i PROVE Begins(w[l], w[k])
    <3> DEFINE p == w[l]
               s == w[k]
    <3>1. /\ Len(p) <= Len(q) /\ \A x \in 1..Len(p) : q[x] = p[x]
          /\ Len(p) \in Nat
      BY <2>2, <2>4 DEF Begins
    <3>2. Len(q) \in Nat /\ Len(s) \in Nat
      BY <2>3
    <3> HIDE DEF p, s
    <3>3. Len(s) >= Len(q) /\ \A x \in 1..Len(q) : s[x] = q[x]
      BY <2>5 DEF s
    <3>4. Len(p) <= Len(s) /\ \A x \in 1..Len(p) : s[x] = p[x]
      BY <3>1, <3>2, <3>3
    <3>5. QED
      BY <3>4 DEF Begins, p, s
  <2>7. \A l \in 0..k : Begins(w[l], w[k])
    BY <1>2, <2>1, <2>3, <2>6, Zenon
  <2>8. QED
    BY <2>1, <2>7 DEF k
<1> HIDE DEF S
<1>5. \A j \in 0..n : j \in S
  BY <1>1, <1>3, <1>4, CountUp
<1>6. QED
  BY <1>5 DEF S, n, w

(* A frame: a FEND, bytes that are none, a FEND; it begins as the loop     *)
(* left it after each byte.                                                *)
LEMMA FrameShape ==
  ASSUME NEW in \in Seq(Byte)
  PROVE  LET e == kiss_encapsulate(in) IN
         /\ e \in Seq(Byte)
         /\ Len(e) >= Len(in) + 2
         /\ e[1] = FEND /\ e[Len(e)] = FEND
         /\ \A i \in 2..(Len(e) - 1) : e[i] # FEND
         /\ \A k \in 0..Len(in) : Begins(Wrapped(in)[k], e)
         /\ Len(e) - 1 = Len(Wrapped(in)[Len(in)])
<1> DEFINE n == Len(in)
           w == Wrapped(in)
           q == w[n]
           e == Append(q, FEND)
<1>1. n \in Nat /\ n \in 0..n /\ FEND \in Byte
  BY DEF FEND, Byte
<1>2. Opened(q, n)
  BY <1>1, WrappedOpened, Zenon
<1>3. \A k \in 0..n : Begins(w[k], q) /\ w[k] \in Seq(Byte)
  BY <1>1, WrappedBegins, WrappedIs, Zenon
<1> HIDE DEF w, n, q
<1>4. /\ e \in Seq(Byte)
      /\ Len(e) = Len(q) + 1
      /\ \A i \in 1..Len(q) : e[i] = q[i]
      /\ e[Len(q) + 1] = FEND
  BY <1>1, <1>2, AppendFacts DEF Opened
<1> HIDE DEF e
<1>5. /\ Len(q) \in Nat /\ Len(q) >= n + 1 /\ q[1] = FEND
      /\ \A i \in 2..Len(q) : q[i] # FEND
  BY <1>2 DEF Opened
<1>6. ASSUME NEW k \in 0..n PROVE Begins(w[k], e)
  <2> DEFINE p == w[k]
  <2>1. /\ Len(p) \in Nat /\ Len(p) <= Len(q)
        /\ \A i \in 1..Len(p) : q[i] = p[i]
    BY <1>3 DEF Begins
  <2> HIDE DEF p
  <2>2. Len(p) <= Len(e) /\ \A i \in 1..Len(p) : e[i] = p[i]
    BY <1>4, <1>5, <2>1
  <2>3. QED
    BY <2>2 DEF p, Begins
<1>7. /\ Len(e) >= n + 2
      /\ e[1] = FEND /\ e[Len(e)] = FEND
      /\ \A i \in 2..(Len(e) - 1) : e[i] # FEND
      /\ Len(e) - 1 = Len(q)
  BY <1>1, <1>4, <1>5
<1>8. e = kiss_encapsulate(in)
  BY DEF e, q, w, n, kiss_encapsulate
<1>9. QED
  BY <1>4, <1>6, <1>7, <1>8 DEF q, w, n

(* What kiss_unwrap makes of any message is bytes.                         *)
LEMMA UnwrapBytes ==
  ASSUME NEW in \in Seq(Byte)
  PROVE  kiss_unwrap(in) \in Seq(Byte)
<1>1. << >> \in Seq(Byte)
  OBVIOUS
<1>2. ASSUME Len(in) >= 2, NEW first \in {1, 2}, NEW last \in {Len(in) - 1, Len(in)}
      PROVE  Unwrapped(in, first)[last].out \in Seq(Byte)
  <2>1. last \in 0..Len(in)
    BY <1>2
  <2>2. Unwrapped(in, first)[last] \in Acc
    BY <2>1, UnwrappedIs
  <2>3. QED
    BY <2>2 DEF Acc
<1>3. CASE Len(in) < 2
  BY <1>1, <1>3 DEF kiss_unwrap
<1>4. CASE ~(Len(in) < 2)
  <2>1. Len(in) >= 2
    BY <1>4
  <2> DEFINE first == IF in[1] = FEND THEN 2 ELSE 1
             last == IF in[Len(in)] = FEND THEN Len(in) - 1 ELSE Len(in)
  <2>2. first \in {1, 2} /\ last \in {Len(in) - 1, Len(in)}
    OBVIOUS
  <2>3. kiss_unwrap(in) = Unwrapped(in, first)[last].out
    BY <1>4 DEF kiss_unwrap
  <2> HIDE DEF first, last
  <2>4. QED
    BY <1>2, <2>1, <2>2, <2>3
<1>5. QED
  BY <1>3, <1>4

(* The bytes a byte became are turned back into it.                        *)
LEMMA EscapeUndone ==
  ASSUME NEW chr \in Byte, NEW o \in Seq(Byte)
  PROVE  \/ /\ Len(Escape(chr)) = 1
            /\ UnwrapByte([out |-> o, escaped |-> FALSE], Escape(chr)[1])
                 = [out |-> Append(o, chr), escaped |-> FALSE]
         \/ /\ Len(Escape(chr)) = 2
            /\ UnwrapByte(UnwrapByte([out |-> o, escaped |-> FALSE], Escape(chr)[1]),
                          Escape(chr)[2])
                 = [out |-> Append(o, chr), escaped |-> FALSE]
<1> DEFINE plain == [out |-> o, escaped |-> FALSE]
           esc == [out |-> o, escaped |-> TRUE]
<1>1. plain \in Acc /\ esc \in Acc
  BY DEF Acc
<1>2. /\ plain.out = o /\ plain.escaped = FALSE
      /\ esc.out = o /\ esc.escaped = TRUE
  OBVIOUS
<1> HIDE DEF plain, esc
<1>3. FESC \in Byte /\ FEND \in Byte /\ TFESC \in Byte /\ TFEND \in Byte
  BY DEF Byte, FEND, FESC, TFEND, TFESC
<1>4. UnwrapByte(plain, FESC) = esc
  BY <1>1, <1>2, <1>3, UnwrapByteIs, Zenon DEF esc
<1>5. /\ UnwrapByte(esc, TFESC) = [out |-> Append(o, FESC), escaped |-> FALSE]
      /\ UnwrapByte(esc, TFEND) = [out |-> Append(o, FEND), escaped |-> FALSE]
  BY <1>1, <1>2, <1>3, UnwrapByteIs, Zenon
<1>6. CASE chr = FEND
  <2>1. Escape(chr) = <<FESC, TFEND>>
    BY <1>6, EscapeIs, Zenon
  <2>3. Len(Escape(chr)) = 2 /\ Escape(chr)[1] = FESC /\ Escape(chr)[2] = TFEND
    BY <2>1
  <2>4. UnwrapByte(plain, Escape(chr)[1]) = esc
    BY <1>4, <2>3, Zenon
  <2>5. UnwrapByte(UnwrapByte(plain, Escape(chr)[1]), Escape(chr)[2])
          = [out |-> Append(o, chr), escaped |-> FALSE]
    BY <1>5, <1>6, <2>3, <2>4, Zenon
  <2>6. QED
    BY <2>3, <2>5, Zenon DEF plain
<1>7. CASE chr = FESC
  <2>1. Escape(chr) = <<FESC, TFESC>>
    BY <1>7, EscapeIs, Zenon
  <2>3. Len(Escape(chr)) = 2 /\ Escape(chr)[1] = FESC /\ Escape(chr)[2] = TFESC
    BY <2>1
  <2>4. UnwrapByte(plain, Escape(chr)[1]) = esc
    BY <1>4, <2>3, Zenon
  <2>5. UnwrapByte(UnwrapByte(plain, Escape(chr)[1]), Escape(chr)[2])
          = [out |-> Append(o, chr), escaped |-> FALSE]
    BY <1>5, <1>7, <2>3, <2>4, Zenon
  <2>6. QED
    BY <2>3, <2>5, Zenon DEF plain
<1>8. CASE chr # FEND /\ chr # FESC
  <2>1. Escape(chr) = <<chr>>
    BY <1>8, EscapeIs, Zenon
  <2>2. \A x : Len(<<x>>) = 1 /\ <<x>>[1] = x
    OBVIOUS
  <2>3. UnwrapByte(plain, chr) = [out |-> Append(o, chr), escaped |-> FALSE]
    BY <1>1, <1>2, <1>8, UnwrapByteIs, Zenon
  <2>4. QED
    BY <2>1, <2>2, <2>3, Zenon DEF plain
<1>9. QED
  BY <1>6, <1>7, <1>8

(* What is unwrapped of a frame, up to where each byte of the message      *)
(* ends, is the message up to that byte.                                   *)
LEMMA UnwrappedSoFar ==
  ASSUME NEW in \in Seq(Byte)
  PROVE  \A k \in 0..Len(in) :
           Unwrapped(kiss_encapsulate(in), 2)[Len(Wrapped(in)[k])]
             = [out |-> SubSeq(in, 1, k), escaped |-> FALSE]
<1> DEFINE n == Len(in)
           w == Wrapped(in)
           e == kiss_encapsulate(in)
           u == Unwrapped(e, 2)
           S == {k \in 0..n : u[Len(w[k])] = [out |-> SubSeq(in, 1, k), escaped |-> FALSE]}
<1>1. /\ n \in Nat
      /\ \A k \in 1..n : in[k] \in Byte
      /\ \A k \in 0..n : SubSeq(in, 1, k) \in Seq(Byte)
      /\ SubSeq(in, 1, 0) = << >>
      /\ \A k \in 1..n : SubSeq(in, 1, k) = Append(SubSeq(in, 1, k - 1), in[k])
  OBVIOUS
<1>2. /\ w[0] = <<FEND>>
      /\ \A k \in 1..n : w[k] = w[k - 1] \o Escape(in[k])
      /\ \A k \in 0..n : w[k] \in Seq(Byte)
  BY WrappedIs, Zenon
<1>3. e \in Seq(Byte) /\ Len(e) \in Nat /\ \A k \in 0..n : Begins(w[k], e)
  BY FrameShape
<1>4. /\ \A k \in 0..Len(e) : k < 2 => u[k] = NothingYet
      /\ \A k \in 1..Len(e) : k >= 2 => u[k] = UnwrapByte(u[k - 1], e[k])
  <2>1. 2 \in {1, 2}
    OBVIOUS
  <2> HIDE DEF e
  <2>2. QED
    BY <1>3, <2>1, UnwrappedIs, Zenon
<1>5. \A k \in 0..n : Opened(w[k], k)
  BY WrappedOpened
<1> HIDE DEF w, e, u
<1>6. 0 \in S
  <2>1. Len(w[0]) = 1 /\ 0 \in 0..n
    BY <1>1, <1>2
  <2>2. 1 \in 0..Len(e)
    BY <1>3, <2>1 DEF Begins
  <2>3. u[1] = NothingYet
    BY <1>4, <2>2
  <2>4. QED
    BY <1>1, <2>1, <2>3 DEF NothingYet
<1> HIDE DEF n
<1>7. ASSUME NEW i \in 0..(n - 1), i \in S PROVE i + 1 \in S
  <2> DEFINE k == i + 1
             q == w[i]
             r == Escape(in[k])
             o == SubSeq(in, 1, i)
             l == Len(q)
  <2>1. k - 1 = i /\ k \in 1..n /\ k \in 0..n /\ i \in 0..n
    BY <1>1
  <2>2. u[l] = [out |-> o, escaped |-> FALSE] /\ o \in Seq(Byte)
    BY <1>1, <1>7, <2>1
  <2> HIDE DEF k, o
  <2>3. in[k] \in Byte /\ SubSeq(in, 1, k) = Append(o, in[k])
    BY <1>1, <2>1 DEF o
  <2>4. q \in Seq(Byte) /\ w[k] = q \o r /\ Opened(q, i)
    BY <1>2, <1>5, <2>1
  <2>5. r \in Seq(Byte)
    BY <2>3, EscapeIs
  <2> HIDE DEF q, r
  <2>6. /\ Len(w[k]) = l + Len(r) /\ l \in Nat /\ l >= 1
        /\ \A x \in 1..Len(r) : w[k][l + x] = r[x]
    <3>1. l \in Nat /\ l >= 1
      BY <2>1, <2>4 DEF Opened
    <3>2. QED
      BY <2>4, <2>5, <3>1, JoinFacts
  <2> HIDE DEF l
  <2>7. Len(w[k]) <= Len(e) /\ \A x \in 1..Len(w[k]) : e[x] = w[k][x]
    BY <1>3, <2>1 DEF Begins
  <2>7a. Len(e) \in Nat
    BY <1>3
  <2>8. \/ Len(r) = 1 /\ UnwrapByte(u[l], r[1]) = [out |-> Append(o, in[k]), escaped |-> FALSE]
        \/ Len(r) = 2 /\ UnwrapByte(UnwrapByte(u[l], r[1]), r[2])
                           = [out |-> Append(o, in[k]), escaped |-> FALSE]
    BY <2>2, <2>3, EscapeUndone DEF r
  <2>9. Len(r) \in {1, 2} => e[l + 1] = r[1] /\ u[l + 1] = UnwrapByte(u[l], r[1])
    <3>1. SUFFICES ASSUME Len(r) \in {1, 2}
                   PROVE  e[l + 1] = r[1] /\ u[l + 1] = UnwrapByte(u[l], r[1])
      OBVIOUS
    <3> DEFINE j == l + 1
    <3>1a. Len(w[k]) = l + 1 \/ Len(w[k]) = l + 2
      BY <2>6, <3>1
    <3>1b. l \in Nat /\ l >= 1 /\ Len(w[k]) <= Len(e)
      BY <2>6, <2>7
    <3>2. j \in 1..Len(w[k]) /\ j \in 1..Len(e) /\ j >= 2 /\ j - 1 = l
      BY <2>7a, <3>1a, <3>1b
    <3>3. e[j] = r[1]
      BY <2>6, <2>7, <3>1, <3>2
    <3> HIDE DEF j
    <3>4. u[j] = UnwrapByte(u[j - 1], e[j])
      BY <1>4, <3>2, Zenon
    <3>5. u[j] = UnwrapByte(u[l], r[1])
      BY <3>2, <3>3, <3>4, Zenon
    <3>6. QED
      BY <3>3, <3>5 DEF j
  <2>10. Len(r) = 2 => e[l + 2] = r[2] /\ u[l + 2] = UnwrapByte(u[l + 1], r[2])
    <3>1. SUFFICES ASSUME Len(r) = 2
                   PROVE  e[l + 2] = r[2] /\ u[l + 2] = UnwrapByte(u[l + 1], r[2])
      OBVIOUS
    <3> DEFINE j == l + 2
    <3>2. j \in 1..Len(w[k]) /\ j \in 1..Len(e) /\ j >= 2 /\ j - 1 = l + 1
      BY <2>6, <2>7, <2>7a, <3>1
    <3>3. e[j] = r[2]
      BY <2>6, <2>7, <3>1, <3>2
    <3> HIDE DEF j
    <3>4. u[j] = UnwrapByte(u[j - 1], e[j])
      BY <1>4, <3>2, Zenon
    <3>5. u[j] = UnwrapByte(u[l + 1], r[2])
      BY <3>2, <3>3, <3>4, Zenon
    <3>6. QED
      BY <3>3, <3>5 DEF j
  <2>11. u[Len(w[k])] = [out |-> SubSeq(in, 1, k), escaped |-> FALSE]
    <3>1. CASE Len(r) = 1
      <4>1. Len(w[k]) = l + 1 /\ Len(r) \in {1, 2} /\ Len(r) # 2
        BY <2>6, <3>1
      <4>2. QED
        BY <2>3, <2>8, <2>9, <4>1, Zenon
    <3>2. CASE Len(r) = 2
      <4>1. Len(w[k]) = l + 2 /\ Len(r) \in {1, 2} /\ Len(r) # 1
        BY <2>6, <3>2
      <4>2. QED
        BY <2>3, <2>8, <2>9, <2>10, <3>2, <4>1, Zenon
    <3>3. QED
      BY <2>8, <3>1, <3>2
  <2>12. QED
    BY <2>1, <2>11 DEF k
<1> HIDE DEF S
<1>8. \A k \in 0..n : k \in S
  BY <1>1, <1>6, <1>7, CountUp
<1>9. QED
  BY <1>8 DEF S, n, w, u, e

(* kiss_unwrap undoes kiss_encapsulate, whatever bytes the message has.    *)
THEOREM RoundTrip ==
  \A m \in Seq(Byte) : m # << >> => kiss_unwrap(kiss_encapsulate(m)) = m
<1> TAKE m \in Seq(Byte)
<1> HAVE m # << >>
<1> DEFINE e == kiss_encapsulate(m)
           n == Len(m)
<1>1. /\ n \in 0..n /\ n >= 1
      /\ SubSeq(m, 1, n) = m
  OBVIOUS
<1>2. /\ e \in Seq(Byte)
      /\ Len(e) >= n + 2 /\ Len(e) \in Nat
      /\ e[1] = FEND /\ e[Len(e)] = FEND
      /\ Len(e) - 1 = Len(Wrapped(m)[n])
  BY FrameShape
<1>3. Unwrapped(e, 2)[Len(e) - 1] = [out |-> m, escaped |-> FALSE]
  BY <1>1, <1>2, UnwrappedSoFar
<1> HIDE DEF e
<1>4. kiss_unwrap(e) = Unwrapped(e, 2)[Len(e) - 1].out
  BY <1>1, <1>2 DEF kiss_unwrap
<1>5. QED
  BY <1>3, <1>4 DEF e

-----------------------------------------------------------------------------
(* The receiver and its clients.                                           *)

(* Ready for a frame: searching, or just after a FEND.                     *)
Clean == state = "KS_SEARCHING" \/ kiss_msg = <<FEND>>

(* What is unsent is the end of the frame; what has been read of a frame   *)
(* that fits, on a line nobody left, is in kiss_msg.                       *)
Underway ==
  LET e == kiss_encapsulate(sending)
  IN /\ Len(unsent) \in 1..Len(e)
     /\ \A i \in 1..Len(unsent) : unsent[i] = e[(Len(e) - Len(unsent)) + i]
     /\ (~aborted /\ Fits(sending)) =>
          /\ got = << >>
          /\ Len(unsent) = Len(e) => Clean
          /\ Len(unsent) < Len(e) =>
               /\ state = "KS_COLLECTING"
               /\ Len(kiss_msg) = Len(e) - Len(unsent)
               /\ \A i \in 1..Len(kiss_msg) : kiss_msg[i] = e[i]

ClientTypes ==
  /\ got \in Seq(Seq(Byte))
  /\ sending \in Payloads \cup {<< >>}
  /\ unsent \in Seq(Byte)
  /\ aborted \in BOOLEAN

SpecInv ==
  /\ IInv
  /\ ClientTypes
  /\ unsent # << >> => sending \in Payloads /\ Underway
  /\ (unsent = << >> /\ (sending # << >> \/ ~aborted)) => Clean
  /\ WholeFramesArrive

(* A frame of any message a client sends.                                  *)
LEMMA PayloadFacts ==
  ASSUME NEW m \in Payloads
  PROVE  /\ m \in Seq(Byte) /\ m # << >> /\ Len(m) >= 1
         /\ kiss_encapsulate(m) \in Seq(Byte)
         /\ Len(kiss_encapsulate(m)) \in Nat /\ Len(kiss_encapsulate(m)) >= 3
         /\ kiss_encapsulate(m)[1] = FEND
         /\ kiss_encapsulate(m)[Len(kiss_encapsulate(m))] = FEND
         /\ \A i \in 2..(Len(kiss_encapsulate(m)) - 1) : kiss_encapsulate(m)[i] # FEND
         /\ kiss_unwrap(kiss_encapsulate(m)) = m
<1>1. m \in Seq(Byte) /\ m # << >>
  BY KissAssumption DEF Byte
<1>2. Len(m) >= 1 /\ Len(m) \in Nat
  BY <1>1
<1> DEFINE e == kiss_encapsulate(m)
<1>3. /\ e \in Seq(Byte)
      /\ Len(e) >= Len(m) + 2
      /\ e[1] = FEND /\ e[Len(e)] = FEND
      /\ \A i \in 2..(Len(e) - 1) : e[i] # FEND
  BY <1>1, FrameShape
<1>4. kiss_unwrap(e) = m
  BY <1>1, RoundTrip
<1> HIDE DEF e
<1>5. Len(e) \in Nat /\ Len(e) >= 3
  BY <1>2, <1>3
<1>6. QED
  BY <1>1, <1>2, <1>3, <1>4, <1>5 DEF e

(* kisspt_init: nothing read, nothing sent.                                *)
LEMMA InitSpecInv == Init => SpecInv
<1> SUFFICES ASSUME Init PROVE SpecInv
  OBVIOUS
<1>1. << >> \in Seq(Byte) /\ << >> \in Seq(Seq(Byte))
  OBVIOUS
<1>2. QED
  BY <1>1, InitIInv DEF Init, SpecInv, ClientTypes, Clean, WholeFramesArrive

(* After a FEND the receiver is ready, whatever it was doing.              *)
LEMMA FendCleans ==
  ASSUME IInv, kiss_rec_byte(FEND)
  PROVE  Clean'
<1>1. CASE Search(FEND)
  BY <1>1 DEF Search, Clean
<1>2. CASE EndOfFrame(FEND)
  BY <1>2 DEF EndOfFrame, Clean, kiss_frame
<1>3. CASE Collect(FEND)
  BY <1>3 DEF Collect
<1>4. QED
  BY <1>1, <1>2, <1>3 DEF kiss_rec_byte

(* Only a complete message reaches the transmit queue, less its command.   *)
LEMMA GotKeepsType ==
  ASSUME IInv, ClientTypes, NEW chr \in Byte, kiss_rec_byte(chr)
  PROVE  got' \in Seq(Seq(Byte))
<1>1. got \in Seq(Seq(Byte)) /\ kiss_msg \in Seq(Byte)
  BY DEF ClientTypes, IInv, BufferInv, Byte
<1>2. CASE got' = got
  BY <1>1, <1>2
<1>3. CASE EndOfFrame(chr) /\ kiss_msg # <<FEND>>
  <2> DEFINE msg == kiss_unwrap(Append(kiss_msg, chr))
  <2>1. Append(kiss_msg, chr) \in Seq(Byte)
    BY <1>1
  <2>2. msg \in Seq(Byte)
    BY <2>1, UnwrapBytes
  <2> HIDE DEF msg
  <2>3. kiss_msg' = Append(kiss_msg, chr) /\ kiss_process_msg(kiss_unwrap(kiss_msg'))
    BY <1>3 DEF EndOfFrame
  <2>4. got' = IF IsDataFrame(msg) THEN Append(got, Tail(msg)) ELSE got
    BY <2>3 DEF kiss_process_msg, msg
  <2>5. CASE IsDataFrame(msg)
    <3>1. msg # << >>
      BY <2>5 DEF IsDataFrame
    <3>2. Tail(msg) \in Seq(Byte)
      BY <2>2, <3>1
    <3>3. \A q \in Seq(Byte) : Append(got, q) \in Seq(Seq(Byte))
      BY <1>1
    <3>4. QED
      BY <2>4, <2>5, <3>2, <3>3, Zenon
  <2>6. QED
    BY <1>1, <2>4, <2>5
<1>4. got' = got \/ (EndOfFrame(chr) /\ kiss_msg # <<FEND>>)
  BY DEF kiss_rec_byte, Search, EndOfFrame, Collect
<1>5. QED
  BY <1>2, <1>3, <1>4

(* The opening FEND of a client's frame.                                   *)
LEMMA FirstByte ==
  ASSUME IInv, Clean, kiss_rec_byte(FEND)
  PROVE  state' = "KS_COLLECTING" /\ kiss_msg' = <<FEND>> /\ got' = got
<1>1. CASE Search(FEND)
  BY <1>1 DEF Search
<1>2. CASE EndOfFrame(FEND)
  <2>1. state = "KS_COLLECTING" /\ kiss_msg = <<FEND>>
    BY <1>2 DEF EndOfFrame, Clean
  <2>2. QED
    BY <1>2, <2>1 DEF EndOfFrame, kiss_frame
<1>3. CASE Collect(FEND)
  BY <1>3 DEF Collect
<1>4. QED
  BY <1>1, <1>2, <1>3 DEF kiss_rec_byte

(* A byte in the middle of it.                                             *)
LEMMA MiddleByte ==
  ASSUME NEW chr \in Byte, chr # FEND, state = "KS_COLLECTING",
         Len(kiss_msg) < MAX_KISS_LEN, kiss_rec_byte(chr)
  PROVE  /\ state' = "KS_COLLECTING" /\ kiss_msg' = Append(kiss_msg, chr)
         /\ got' = got
  BY DEF kiss_rec_byte, Search, EndOfFrame, Collect

(* The closing FEND.                                                       *)
LEMMA LastByte ==
  ASSUME state = "KS_COLLECTING", kiss_msg # <<FEND>>, kiss_rec_byte(FEND)
  PROVE  /\ kiss_msg' = Append(kiss_msg, FEND)
         /\ LET msg == kiss_unwrap(Append(kiss_msg, FEND)) IN
            got' = IF IsDataFrame(msg) THEN Append(got, Tail(msg)) ELSE got
  BY DEF kiss_rec_byte, Search, EndOfFrame, Collect, kiss_process_msg

(* The listener reads one byte of a client's frame.                        *)
LEMMA ListenKeeps ==
  ASSUME SpecInv, kisspt_listen_thread
  PROVE  SpecInv'
<1> DEFINE e == kiss_encapsulate(sending)
           chr == Head(unsent)
           left == Len(unsent)
<1>1. /\ unsent # << >> /\ kiss_rec_byte(chr) /\ unsent' = Tail(unsent)
      /\ sending' = sending /\ aborted' = aborted
  BY DEF kisspt_listen_thread
<1>2. /\ IInv /\ ClientTypes /\ sending \in Payloads /\ Underway
      /\ unsent \in Seq(Byte) /\ kiss_msg \in Seq(Byte) /\ Len(kiss_msg) \in Nat
      /\ got \in Seq(Seq(Byte)) /\ aborted \in BOOLEAN
  BY <1>1 DEF SpecInv, ClientTypes, IInv, BufferInv, Byte
<1>3. /\ sending \in Seq(Byte) /\ sending # << >>
      /\ e \in Seq(Byte) /\ Len(e) \in Nat /\ Len(e) >= 3
      /\ e[1] = FEND /\ e[Len(e)] = FEND
      /\ \A i \in 2..(Len(e) - 1) : e[i] # FEND
      /\ kiss_unwrap(e) = sending
  BY <1>2, PayloadFacts
<1>4. /\ unsent' \in Seq(Byte) /\ Len(unsent') = left - 1
      /\ left \in Nat /\ left >= 1 /\ chr = unsent[1] /\ chr \in Byte
      /\ \A i \in 1..(left - 1) : unsent'[i] = unsent[i + 1]
      /\ unsent' = << >> <=> left = 1
  BY <1>1, <1>2, TailFacts
<1> HIDE DEF e, chr
<1>5. /\ left \in 1..Len(e)
      /\ \A i \in 1..left : unsent[i] = e[(Len(e) - left) + i]
      /\ (~aborted /\ Fits(sending)) =>
           /\ got = << >>
           /\ left = Len(e) => Clean
           /\ left < Len(e) =>
                /\ state = "KS_COLLECTING"
                /\ Len(kiss_msg) = Len(e) - left
                /\ \A i \in 1..Len(kiss_msg) : kiss_msg[i] = e[i]
  BY <1>2 DEF Underway, e
<1>6. chr = e[(Len(e) - left) + 1]
  BY <1>4, <1>5
<1>7. \A i \in 1..(left - 1) : unsent'[i] = e[(Len(e) - (left - 1)) + i]
  <2> TAKE i \in 1..(left - 1)
  <2>1. unsent'[i] = unsent[i + 1] /\ i + 1 \in 1..left
    BY <1>4
  <2>2. unsent[i + 1] = e[(Len(e) - left) + (i + 1)]
    BY <1>5, <2>1
  <2>3. (Len(e) - left) + (i + 1) = (Len(e) - (left - 1)) + i
    BY <1>3, <1>4
  <2>4. QED
    BY <2>1, <2>2, <2>3
<1> HIDE DEF left
<1>8. IInv'
  BY <1>1, <1>2, <1>4, SearchKeeps, EndOfFrameKeeps, CollectKeeps DEF kiss_rec_byte, Byte
<1>9. ClientTypes'
  <2>1. got' \in Seq(Seq(Byte))
    BY <1>1, <1>2, <1>4, GotKeepsType
  <2>2. QED
    BY <1>1, <1>2, <1>4, <2>1 DEF ClientTypes
<1>10. chr = FEND => Clean'
  BY <1>1, <1>2, FendCleans
<1>11. left = 1 => chr = FEND
  BY <1>3, <1>5, <1>6
<1>12. CASE ~(~aborted /\ Fits(sending))
  <2>1. unsent' # << >> => sending' \in Payloads /\ Underway'
    <3>1. SUFFICES ASSUME unsent' # << >> PROVE Underway'
      BY <1>1, <1>2
    <3>2. Len(unsent') \in 1..Len(e)
      BY <1>3, <1>4, <1>5, <3>1
    <3>3. e = kiss_encapsulate(sending')
      BY <1>1 DEF e
    <3>4. \A i \in 1..Len(unsent') : unsent'[i] = e[(Len(e) - Len(unsent')) + i]
      BY <1>4, <1>7
    <3>5. ~(~aborted' /\ Fits(sending'))
      BY <1>1, <1>12
    <3>6. QED
      BY <3>2, <3>3, <3>4, <3>5 DEF Underway
  <2>2. unsent' = << >> => Clean'
    BY <1>4, <1>10, <1>11
  <2>3. WholeFramesArrive'
    BY <1>1, <1>12 DEF WholeFramesArrive
  <2>4. QED
    BY <1>8, <1>9, <2>1, <2>2, <2>3 DEF SpecInv
<1>13. CASE ~aborted /\ Fits(sending)
  <2>1. got = << >>
    BY <1>5, <1>13
  <2>2. Len(e) <= MAX_KISS_LEN
    BY <1>13 DEF Fits, e
  <2>3. CASE left = 1
    <3>1. /\ state = "KS_COLLECTING" /\ Len(kiss_msg) = Len(e) - 1
          /\ \A i \in 1..Len(kiss_msg) : kiss_msg[i] = e[i]
      BY <1>3, <1>5, <1>13, <2>3
    <3>2. kiss_msg # <<FEND>>
      <4>1. Len(<<FEND>>) = 1
        OBVIOUS
      <4>2. Len(kiss_msg) # 1
        BY <1>3, <3>1
      <4>3. QED
        BY <4>1, <4>2
    <3>3. Append(kiss_msg, FEND) = e
      <4> DEFINE m == Append(kiss_msg, FEND)
      <4>1. FEND \in Byte
        BY DEF FEND, Byte
      <4>2. /\ m \in Seq(Byte) /\ Len(m) = Len(kiss_msg) + 1
            /\ \A i \in 1..Len(kiss_msg) : m[i] = kiss_msg[i]
            /\ m[Len(kiss_msg) + 1] = FEND
        BY <1>2, <4>1, AppendFacts
      <4> HIDE DEF m
      <4>3. Len(m) = Len(e)
        BY <1>3, <3>1, <4>2
      <4>4. \A i \in 1..Len(e) : m[i] = e[i]
        <5> DEFINE l == Len(kiss_msg)
        <5>1. l \in Nat /\ Len(e) = l + 1 /\ m[l + 1] = FEND /\ e[l + 1] = FEND
          BY <1>2, <1>3, <3>1, <4>2
        <5>2. \A i \in 1..l : m[i] = e[i]
          BY <3>1, <4>2
        <5> HIDE DEF l
        <5>3. \A i \in 1..(l + 1) : i \in 1..l \/ i = l + 1
          BY <5>1
        <5>4. QED
          BY <5>1, <5>2, <5>3
      <4>5. QED
        BY <1>3, <4>2, <4>3, <4>4, SameSequence DEF m
    <3>4. got' = IF IsDataFrame(sending) THEN Append(got, Tail(sending)) ELSE got
      <4>1. kiss_rec_byte(FEND)
        BY <1>1, <1>11, <2>3
      <4>2. got' = IF IsDataFrame(kiss_unwrap(e)) THEN Append(got, Tail(kiss_unwrap(e)))
                   ELSE got
        BY <3>1, <3>2, <3>3, <4>1, LastByte, Zenon
      <4>3. QED
        BY <1>3, <4>2
    <3>5. got' = IF IsDataFrame(sending) THEN <<Tail(sending)>> ELSE << >>
      <4>1. \A x : Append(<< >>, x) = <<x>>
        OBVIOUS
      <4>2. QED
        BY <2>1, <3>4, <4>1
    <3>6. WholeFramesArrive'
      BY <1>1, <3>5 DEF WholeFramesArrive
    <3>7. unsent' = << >> /\ Clean'
      BY <1>4, <1>10, <1>11, <2>3
    <3>8. QED
      BY <1>8, <1>9, <3>6, <3>7 DEF SpecInv
  <2>4. CASE left # 1
    <3>1. unsent' # << >> /\ left >= 2 /\ Len(unsent') < Len(e) /\ Len(unsent') \in 1..Len(e)
      BY <1>3, <1>4, <1>5, <2>4
    <3>2. /\ got' = got /\ state' = "KS_COLLECTING"
          /\ kiss_msg' \in Seq(Byte)
          /\ Len(kiss_msg') = Len(e) - (left - 1)
          /\ \A i \in 1..Len(kiss_msg') : kiss_msg'[i] = e[i]
      <4>1. CASE left = Len(e)
        <5>1. chr = FEND /\ Clean
          BY <1>3, <1>5, <1>6, <1>13, <4>1
        <5>2. got' = got /\ state' = "KS_COLLECTING" /\ kiss_msg' = <<FEND>>
          BY <1>1, <1>2, <5>1, FirstByte
        <5>3. FEND \in Byte
          BY DEF FEND, Byte
        <5>4. kiss_msg' \in Seq(Byte) /\ Len(kiss_msg') = 1 /\ kiss_msg'[1] = FEND
          BY <5>2, <5>3
        <5>5. Len(e) - (left - 1) = 1
          BY <1>3, <4>1
        <5>6. QED
          BY <1>3, <5>2, <5>4, <5>5
      <4>2. CASE left # Len(e)
        <5>1. /\ state = "KS_COLLECTING" /\ Len(kiss_msg) = Len(e) - left
              /\ \A i \in 1..Len(kiss_msg) : kiss_msg[i] = e[i]
          BY <1>3, <1>5, <1>13, <4>2
        <5>2. (Len(e) - left) + 1 \in 2..(Len(e) - 1) /\ Len(kiss_msg) < Len(e)
          BY <1>3, <1>4, <1>5, <2>4, <4>2, <5>1
        <5>3. chr # FEND /\ Len(kiss_msg) < MAX_KISS_LEN
          <6>1. chr # FEND
            BY <1>3, <1>6, <5>2
          <6>2. MAX_KISS_LEN \in Nat
            BY KissAssumption
          <6>3. QED
            BY <1>2, <1>3, <2>2, <5>2, <6>1, <6>2
        <5>4. got' = got /\ state' = "KS_COLLECTING" /\ kiss_msg' = Append(kiss_msg, chr)
          BY <1>1, <1>4, <5>1, <5>3, MiddleByte
        <5>5. /\ kiss_msg' \in Seq(Byte) /\ Len(kiss_msg') = Len(kiss_msg) + 1
              /\ \A i \in 1..Len(kiss_msg) : kiss_msg'[i] = kiss_msg[i]
              /\ kiss_msg'[Len(kiss_msg) + 1] = chr
          BY <1>2, <1>4, <5>4, AppendFacts
        <5>6. Len(kiss_msg') = Len(e) - (left - 1)
          BY <1>3, <1>4, <5>1, <5>5
        <5>7. \A i \in 1..Len(kiss_msg') : kiss_msg'[i] = e[i]
          <6> DEFINE l == Len(kiss_msg)
          <6>1. l \in Nat /\ kiss_msg'[l + 1] = e[l + 1] /\ Len(kiss_msg') = l + 1
            BY <1>2, <1>6, <5>1, <5>5
          <6>2. \A i \in 1..l : kiss_msg'[i] = e[i]
            BY <5>1, <5>5
          <6> HIDE DEF l
          <6>3. \A i \in 1..(l + 1) : i \in 1..l \/ i = l + 1
            BY <6>1
          <6>4. QED
            BY <6>1, <6>2, <6>3
        <5>8. QED
          BY <5>4, <5>5, <5>6, <5>7
      <4>3. QED
        BY <4>1, <4>2
    <3>3. Underway'
      <4>1. e = kiss_encapsulate(sending')
        BY <1>1 DEF e
      <4>2. \A i \in 1..Len(unsent') : unsent'[i] = e[(Len(e) - Len(unsent')) + i]
        BY <1>4, <1>7
      <4>3. Len(kiss_msg') = Len(e) - Len(unsent')
        BY <1>4, <3>2
      <4>4. QED
        BY <2>1, <3>1, <3>2, <4>1, <4>2, <4>3 DEF Underway
    <3>4. WholeFramesArrive'
      BY <3>1 DEF WholeFramesArrive
    <3>5. QED
      BY <1>1, <1>2, <1>8, <1>9, <3>1, <3>3, <3>4 DEF SpecInv
  <2>5. QED
    BY <2>3, <2>4
<1>14. QED
  BY <1>12, <1>13

(* A client begins a frame: the whole of it is still to be read.           *)
LEMMA SendsKeeps ==
  ASSUME SpecInv, ClientSends
  PROVE  SpecInv'
<1> DEFINE e == kiss_encapsulate(sending')
<1>1. /\ unsent = << >> /\ sending' \in Payloads /\ unsent' = e /\ got' = << >>
      /\ aborted' = (aborted /\ sending = << >>)
      /\ state' = state /\ kiss_msg' = kiss_msg
  BY DEF ClientSends, kiss_frame
<1>2. /\ e \in Seq(Byte) /\ Len(e) \in Nat /\ Len(e) >= 3
  BY <1>1, PayloadFacts
<1>3. IInv'
  BY <1>1 DEF SpecInv, IInv, BufferInv, OverrunAtMostOne, FramesAreDelimited
<1>4. ClientTypes'
  <2>1. << >> \in Seq(Seq(Byte))
    OBVIOUS
  <2>2. aborted' \in BOOLEAN
    BY <1>1 DEF SpecInv, ClientTypes
  <2>3. QED
    BY <1>1, <1>2, <2>1, <2>2 DEF ClientTypes
<1>5. ~aborted' => Clean'
  BY <1>1 DEF SpecInv, ClientTypes, Clean
<1> HIDE DEF e
<1>6. unsent' # << >>
  BY <1>1, <1>2
<1>7. Underway'
  <2>1. e = kiss_encapsulate(sending')
    BY DEF e
  <2>2. Len(unsent') = Len(e) /\ Len(unsent') \in 1..Len(e)
    BY <1>1, <1>2
  <2>3. \A i \in 1..Len(unsent') : unsent'[i] = e[(Len(e) - Len(unsent')) + i]
    BY <1>1, <1>2
  <2>4. ~(Len(unsent') < Len(e))
    BY <1>2, <2>2
  <2>5. QED
    BY <1>1, <1>5, <2>1, <2>2, <2>3, <2>4 DEF Underway
<1>8. WholeFramesArrive'
  BY <1>6 DEF WholeFramesArrive
<1>9. QED
  BY <1>1, <1>3, <1>4, <1>6, <1>7, <1>8 DEF SpecInv

(* A client goes away: the receiver keeps what it has of the frame.        *)
LEMMA GoesAwayKeeps ==
  ASSUME SpecInv, ClientGoesAway
  PROVE  SpecInv'
<1>1. /\ unsent' = << >> /\ sending' = << >> /\ aborted' = TRUE
      /\ state' = state /\ kiss_msg' = kiss_msg /\ got' = got
  BY DEF ClientGoesAway, kiss_frame
<1>2. IInv'
  BY <1>1 DEF SpecInv, IInv, BufferInv, OverrunAtMostOne, FramesAreDelimited
<1>3. << >> \in Seq(Byte)
  OBVIOUS
<1>4. ClientTypes'
  BY <1>1, <1>3 DEF SpecInv, ClientTypes
<1>5. QED
  BY <1>1, <1>2, <1>4 DEF SpecInv, WholeFramesArrive

(* One step of the system.                                                 *)
LEMMA SpecStep == SpecInv /\ [Next]_vars => SpecInv'
<1> SUFFICES ASSUME SpecInv, [Next]_vars PROVE SpecInv'
  OBVIOUS
<1>1. CASE kisspt_listen_thread
  BY <1>1, ListenKeeps
<1>2. CASE ClientSends
  BY <1>2, SendsKeeps
<1>3. CASE ClientGoesAway
  BY <1>3, GoesAwayKeeps
<1>4. CASE UNCHANGED vars
  <2>1. /\ state' = state /\ kiss_msg' = kiss_msg /\ got' = got
        /\ sending' = sending /\ unsent' = unsent /\ aborted' = aborted
    BY <1>4 DEF vars, kiss_frame
  <2>2. IInv' /\ ClientTypes' /\ WholeFramesArrive' /\ (Clean' <=> Clean)
    BY <2>1 DEF SpecInv, IInv, BufferInv, OverrunAtMostOne, FramesAreDelimited,
                ClientTypes, WholeFramesArrive, Clean
  <2>3. unsent' # << >> => Underway'
    BY <2>1 DEF SpecInv, Underway, Clean
  <2>4. QED
    BY <2>1, <2>2, <2>3 DEF SpecInv
<1>5. QED
  BY <1>1, <1>2, <1>3, <1>4 DEF Next

(* Type correctness of the receiver with its clients: kiss_msg never holds *)
(* more than a full buffer and the closing FEND.                           *)
THEOREM KissTypeCorrect == Spec => []TypeOK
<1>1. SpecInv => TypeOK
  BY DEF SpecInv, IInv, BufferInv, OverrunAtMostOne, ClientTypes, TypeOK, Byte
<1>2. QED
  BY <1>1, InitSpecInv, SpecStep, PTL DEF Spec

(* Every frame a client sends whole and that fits is appended to the       *)
(* transmit queue once, byte for byte, whatever bytes it has and however   *)
(* often clients went away before it, but for the first after such a one.  *)
THEOREM FramesArrive == Spec => []WholeFramesArrive
<1>1. SpecInv => WholeFramesArrive
  BY DEF SpecInv
<1>2. QED
  BY <1>1, InitSpecInv, SpecStep, PTL DEF Spec
=============================================================================
