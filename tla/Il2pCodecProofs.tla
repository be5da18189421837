---------------------------- MODULE Il2pCodecProofs ----------------------------
(***************************************************************************)
(* Proofs about the IL2P codec.  First the payload, for every length of an *)
(* information part and every size of block: the sender and the receiver   *)
(* cut the same blocks, and what is delivered is what was sent.  Then the  *)
(* header, for every AX.25 frame: what is read of its bits is what was     *)
(* spread over them.  Last the two together, a whole frame.                *)
(***************************************************************************)
EXTENDS Il2pFrame, SequenceTheorems, TLAPS

(* The data before block n, counting from 0.                               *)
DataBefore(s, n) ==
  n * small_block_size(s) + (IF n <= large_block_count(s) THEN n ELSE large_block_count(s))
BlockData(s, n) ==
  IF n < large_block_count(s) THEN large_block_size(s) ELSE small_block_size(s)
PlaceOf(s, n) == DataBefore(s, n) + n * Parity

-----------------------------------------------------------------------------
(* Arithmetic.                                                             *)

(* The integer quotient.                                                   *)
LEMMA DivFacts ==
  ASSUME NEW a \in Nat, NEW d \in Nat \ {0}
  PROVE  /\ a \div d \in Nat
         /\ d * (a \div d) <= a
         /\ a < d * (a \div d) + d
  BY SMT

(* A product grows with its factor.                                        *)
LEMMA MulMono ==
  ASSUME NEW x \in Int, NEW y \in Int, NEW d \in Nat, x <= y
  PROVE  /\ x * d <= y * d /\ d * x <= d * y
         /\ x * d \in Int /\ y * d \in Int
  BY SMT

(* A factor is smaller when its product is.                                *)
LEMMA MulCancel ==
  ASSUME NEW x \in Int, NEW y \in Int, NEW d \in Nat \ {0}, d * x < d * y
  PROVE  x < y
<1>1. CASE y <= x
  <2>1. d * y <= d * x
    BY <1>1, MulMono
  <2>2. d * x \in Int /\ d * y \in Int
    BY <1>1, MulMono
  <2>3. QED
    BY <2>1, <2>2
<1>2. QED
  BY <1>1

(* The blocks of a payload: how many there are, and that none is empty or  *)
(* longer than a block may be.                                             *)
LEMMA BlockFacts ==
  ASSUME NEW s \in 1..MaxPayload
  PROVE  /\ payload_block_count(s) \in 1..MaxBlocks
         /\ small_block_size(s) \in 1..DataMax
         /\ large_block_count(s) \in 0..(payload_block_count(s) - 1)
         /\ large_block_count(s) > 0 => large_block_size(s) <= DataMax
         /\ s = payload_block_count(s) * small_block_size(s) + large_block_count(s)
<1> DEFINE D == DataMax
           q == payload_block_count(s)
           k == small_block_size(s)
<1>1. D \in Nat \ {0} /\ s \in Nat \ {0} /\ MaxBlocks \in Nat /\ s <= MaxBlocks * D
      /\ MaxPayload \in Nat
  BY Il2pCodecAssumption
<1>2. q = (s + D - 1) \div D /\ s + D - 1 \in Nat
  BY <1>1 DEF payload_block_count
<1>3. q \in Nat /\ D * q <= s + D - 1 /\ s + D - 1 < D * q + D /\ D * q \in Int
  BY <1>1, <1>2, DivFacts
<1>4. D * q >= s
  BY <1>1, <1>3
<1>5. q >= 1
  <2>1. q = 0 => D * q = 0
    BY <1>1
  <2>2. QED
    BY <2>1, <1>1, <1>3, <1>4
<1>6. q <= MaxBlocks
  <2>1. D * q < D * (MaxBlocks + 1)
    BY <1>1, <1>3
  <2>2. q < MaxBlocks + 1
    BY <2>1, <1>1, <1>3, MulCancel
  <2>3. QED
    BY <2>2, <1>1, <1>3
<1>7. k = s \div q /\ q \in Nat \ {0}
  BY <1>3, <1>5 DEF small_block_size
<1>8. k \in Nat /\ q * k <= s /\ s < q * k + q /\ q * k \in Int
  <2>1. /\ s \div q \in Nat
        /\ q * (s \div q) <= s
        /\ s < q * (s \div q) + q
    BY <1>1, <1>7, DivFacts
  <2>2. k \in Nat /\ q * k <= s /\ s < q * k + q
    BY <2>1, <1>7
  <2>3. QED
    BY <2>2, <1>7, MulMono
<1>9. s >= q
  <2>1. D * (q - 1) < s
    BY <1>1, <1>3
  <2>2. q - 1 <= D * (q - 1) /\ D * (q - 1) \in Int
    <3>1. 1 * (q - 1) <= D * (q - 1) /\ D * (q - 1) \in Int
      BY <1>1, <1>7, MulMono
    <3>2. QED
      BY <3>1, <1>7
  <2>3. QED
    BY <2>1, <2>2, <1>1, <1>7
<1>10. k >= 1
  <2>1. k = 0 => q * k = 0
    BY <1>7
  <2>2. QED
    BY <2>1, <1>1, <1>7, <1>8, <1>9
<1>11. k <= D
  <2>1. q * k < q * (D + 1)
    BY <1>1, <1>4, <1>7, <1>8
  <2>2. k < D + 1
    BY <2>1, <1>1, <1>7, <1>8, MulCancel
  <2>3. QED
    BY <2>2, <1>1, <1>8
<1>12. large_block_count(s) = s - q * k
  BY DEF large_block_count
<1>13. large_block_count(s) > 0 => k + 1 <= D
  <2>1. k = D => q * k = D * q
    BY <1>1, <1>7
  <2>2. QED
    BY <2>1, <1>1, <1>3, <1>4, <1>8, <1>11, <1>12
<1>14. QED
  BY <1>1, <1>5, <1>6, <1>7, <1>8, <1>10, <1>11, <1>12, <1>13 DEF large_block_size

(* One block further in the walk over the payload.                         *)
LEMMA WalkFacts ==
  ASSUME NEW s \in 1..MaxPayload, NEW n \in 0..(payload_block_count(s) - 1)
  PROVE  /\ BlockData(s, n) \in 1..DataMax
         /\ DataBefore(s, n) \in Nat
         /\ DataBefore(s, n + 1) = DataBefore(s, n) + BlockData(s, n)
         /\ DataBefore(s, n + 1) <= s
         /\ PlaceOf(s, n) \in Nat
         /\ PlaceOf(s, n + 1) = PlaceOf(s, n) + BlockData(s, n) + Parity
<1> DEFINE q == payload_block_count(s)
           k == small_block_size(s)
           L == large_block_count(s)
<1>1. /\ q \in Nat /\ k \in 1..DataMax /\ L \in 0..(q - 1)
      /\ L > 0 => k + 1 <= DataMax
      /\ s = q * k + L
      /\ n \in Nat /\ n + 1 <= q
      /\ DataMax \in Nat /\ Parity \in Nat /\ MaxBlocks \in Nat
  BY BlockFacts, Il2pCodecAssumption DEF large_block_size
<1>2. /\ n * k \in Nat /\ q * k \in Int
      /\ (n + 1) * k = n * k + k
      /\ (n + 1) * k <= q * k
  <2>1. (n + 1) * k <= q * k /\ q * k \in Int
    BY <1>1, MulMono
  <2>2. n * k \in Nat /\ (n + 1) * k = n * k + k
    BY <1>1, SMT
  <2>3. QED
    BY <2>1, <2>2
<1>3. n * Parity \in Nat /\ (n + 1) * Parity = n * Parity + Parity
  BY <1>1, SMT
<1>4. BlockData(s, n) = IF n < L THEN k + 1 ELSE k
  BY DEF BlockData, large_block_size
<1>5. /\ DataBefore(s, n) = n * k + (IF n <= L THEN n ELSE L)
      /\ DataBefore(s, n + 1) = (n + 1) * k + (IF n + 1 <= L THEN n + 1 ELSE L)
  BY DEF DataBefore
<1>6. /\ PlaceOf(s, n) = DataBefore(s, n) + n * Parity
      /\ PlaceOf(s, n + 1) = DataBefore(s, n + 1) + (n + 1) * Parity
  BY DEF PlaceOf
<1> HIDE DEF q, k, L
<1>7. BlockData(s, n) \in 1..DataMax
  BY <1>1, <1>4
<1>8. /\ DataBefore(s, n) \in Nat
      /\ DataBefore(s, n + 1) = DataBefore(s, n) + BlockData(s, n)
      /\ DataBefore(s, n + 1) <= s
  BY <1>1, <1>2, <1>4, <1>5
<1>9. QED
  BY <1>1, <1>3, <1>6, <1>7, <1>8

(* The walk starts at the start and ends at the announced end.             *)
LEMMA WalkEnds ==
  ASSUME NEW s \in 1..MaxPayload
  PROVE  /\ DataBefore(s, 0) = 0 /\ PlaceOf(s, 0) = 0
         /\ DataBefore(s, payload_block_count(s)) = s
         /\ PlaceOf(s, payload_block_count(s)) = il2p_payload_compute(s)
         /\ il2p_payload_compute(s) <= MaxEncoded
<1> DEFINE q == payload_block_count(s)
           k == small_block_size(s)
           L == large_block_count(s)
<1>1. /\ q \in 1..MaxBlocks /\ k \in Nat /\ L \in 0..(q - 1)
      /\ s = q * k + L /\ s \in Nat /\ s <= MaxPayload /\ MaxPayload \in Nat
      /\ Parity \in Nat /\ MaxBlocks \in Nat
  BY BlockFacts, Il2pCodecAssumption
<1>2. /\ DataBefore(s, 0) = 0 * k + (IF 0 <= L THEN 0 ELSE L)
      /\ DataBefore(s, q) = q * k + (IF q <= L THEN q ELSE L)
  BY DEF DataBefore
<1>3. /\ PlaceOf(s, 0) = DataBefore(s, 0) + 0 * Parity
      /\ PlaceOf(s, q) = DataBefore(s, q) + q * Parity
  BY DEF PlaceOf
<1>4. il2p_payload_compute(s) = (q - L) * (k + Parity) + L * ((k + 1) + Parity)
  BY <1>1 DEF il2p_payload_compute, small_block_count, large_block_size
<1>5. q * Parity <= MaxBlocks * Parity /\ q * Parity \in Int /\ MaxBlocks * Parity \in Int
  BY <1>1, MulMono
<1>6. q * k \in Int
  BY <1>1, MulMono
<1> HIDE DEF q, k, L
<1>7. (q - L) * (k + Parity) + L * ((k + 1) + Parity) = q * k + q * Parity + L
  BY <1>1, SMT
<1>8. DataBefore(s, 0) = 0 /\ PlaceOf(s, 0) = 0
  BY <1>1, <1>2, <1>3
<1>9. DataBefore(s, q) = s /\ PlaceOf(s, q) = s + q * Parity
  BY <1>1, <1>2, <1>3, <1>6
<1>10. PlaceOf(s, q) = il2p_payload_compute(s)
  BY <1>1, <1>4, <1>5, <1>6, <1>7, <1>9
<1>11. il2p_payload_compute(s) <= MaxEncoded
  BY <1>1, <1>5, <1>9, <1>10 DEF MaxEncoded
<1>12. QED
  BY <1>8, <1>9, <1>10, <1>11 DEF q

(* The places follow each other.                                           *)
LEMMA PlaceMono ==
  ASSUME NEW s \in 1..MaxPayload, NEW c \in 0..payload_block_count(s), NEW n \in 0..c
  PROVE  /\ DataBefore(s, n) \in Nat /\ DataBefore(s, c) \in Nat
         /\ DataBefore(s, n) <= DataBefore(s, c)
         /\ PlaceOf(s, n) \in Nat /\ PlaceOf(s, c) \in Nat
         /\ PlaceOf(s, n) <= PlaceOf(s, c)
<1> DEFINE k == small_block_size(s)
           L == large_block_count(s)
<1>1. /\ k \in Nat /\ L \in Nat /\ Parity \in Nat /\ c \in Nat /\ n \in Nat /\ n <= c
  BY BlockFacts, Il2pCodecAssumption
<1>2. /\ n * k \in Nat /\ c * k \in Nat /\ n * k <= c * k
      /\ n * Parity \in Nat /\ c * Parity \in Nat /\ n * Parity <= c * Parity
  <2>1. n * k <= c * k /\ n * Parity <= c * Parity
    BY <1>1, MulMono
  <2>2. /\ n * k \in Nat /\ c * k \in Nat /\ n * Parity \in Nat /\ c * Parity \in Nat
    BY <1>1, SMT
  <2>3. QED
    BY <2>1, <2>2
<1>3. /\ DataBefore(s, n) = n * k + (IF n <= L THEN n ELSE L)
      /\ DataBefore(s, c) = c * k + (IF c <= L THEN c ELSE L)
      /\ PlaceOf(s, n) = DataBefore(s, n) + n * Parity
      /\ PlaceOf(s, c) = DataBefore(s, c) + c * Parity
  BY DEF DataBefore, PlaceOf
<1> HIDE DEF k, L
<1>4. QED
  BY <1>1, <1>2, <1>3

(* No place of the walk is beyond its end.                                 *)
LEMMA PlaceBound ==
  ASSUME NEW s \in 1..MaxPayload, NEW n \in 0..payload_block_count(s)
  PROVE  /\ DataBefore(s, n) \in 0..s
         /\ PlaceOf(s, n) \in 0..PlaceOf(s, payload_block_count(s))
<1>1. payload_block_count(s) \in Nat /\ n \in 0..payload_block_count(s) /\ s \in Nat
      /\ payload_block_count(s) \in 0..payload_block_count(s)
  BY BlockFacts, Il2pCodecAssumption
<1>2. QED
  BY <1>1, PlaceMono, WalkEnds

(* The buffer for an encoded payload has room for the payload.             *)
LEMMA MaxEncodedIsNat == MaxEncoded \in Nat /\ MaxPayload <= MaxEncoded
<1>1. 0 * Parity <= MaxBlocks * Parity /\ MaxBlocks * Parity \in Int
  BY Il2pCodecAssumption, MulMono
<1>2. QED
  BY <1>1, Il2pCodecAssumption DEF MaxEncoded

-----------------------------------------------------------------------------
(* Sequences of symbols.                                                   *)

Sym == Nat \X Nat \X Nat

(* The data and the parity of a block are sequences of symbols.            *)
LEMMA BlockIsSequence ==
  ASSUME NEW lo \in Nat, NEW n \in Nat
  PROVE  /\ Slice(lo, n) \in Seq(Sym) /\ Len(Slice(lo, n)) = n
         /\ \A k \in 1..n : Slice(lo, n)[k] = Symbol(lo + k)
         /\ il2p_encode_rs(lo, n) \in Seq(Sym) /\ Len(il2p_encode_rs(lo, n)) = Parity
<1>1. Parity \in Nat
  BY Il2pCodecAssumption
<1>2. \A k \in 1..n : Symbol(lo + k) \in Sym
  BY DEF Symbol, Sym
<1>3. \A j \in 1..Parity : <<lo + 1, lo + n, j>> \in Sym
  BY <1>1 DEF Sym
<1>4. QED
  BY <1>1, <1>2, <1>3 DEF Slice, il2p_encode_rs

(* Slices that follow each other join.                                     *)
LEMMA SliceJoins ==
  ASSUME NEW m \in Nat, NEW n \in Nat
  PROVE  Slice(0, m) \o Slice(m, n) = Slice(0, m + n)
<1> DEFINE u == Slice(0, m) \o Slice(m, n)
<1>1. /\ Slice(0, m) \in Seq(Sym) /\ Len(Slice(0, m)) = m
      /\ \A k \in 1..m : Slice(0, m)[k] = Symbol(0 + k)
  BY BlockIsSequence
<1>2. /\ Slice(m, n) \in Seq(Sym) /\ Len(Slice(m, n)) = n
      /\ \A k \in 1..n : Slice(m, n)[k] = Symbol(m + k)
  BY BlockIsSequence
<1>3. /\ Slice(0, m + n) \in Seq(Sym) /\ Len(Slice(0, m + n)) = m + n
      /\ \A k \in 1..(m + n) : Slice(0, m + n)[k] = Symbol(0 + k)
  BY BlockIsSequence
<1>4. /\ u \in Seq(Sym) /\ Len(u) = m + n
      /\ \A k \in 1..(m + n) : u[k] = IF k <= m THEN Slice(0, m)[k] ELSE Slice(m, n)[k - m]
  <2> DEFINE x == Slice(0, m)
             y == Slice(m, n)
  <2>1. x \in Seq(Sym) /\ y \in Seq(Sym) /\ Len(x) = m /\ Len(y) = n
    BY <1>1, <1>2
  <2> HIDE DEF x, y
  <2>2. /\ x \o y \in Seq(Sym) /\ Len(x \o y) = Len(x) + Len(y)
        /\ \A k \in 1..(Len(x) + Len(y)) :
             (x \o y)[k] = IF k <= Len(x) THEN x[k] ELSE y[k - Len(x)]
    BY <2>1, ConcatProperties
  <2>3. /\ x \o y \in Seq(Sym) /\ Len(x \o y) = m + n
        /\ \A k \in 1..(m + n) : (x \o y)[k] = IF k <= m THEN x[k] ELSE y[k - m]
    BY <2>1, <2>2
  <2>4. QED
    BY <2>3 DEF x, y
<1> HIDE DEF u
<1>5. \A k \in 1..(m + n) : u[k] = Slice(0, m + n)[k]
  <2> TAKE k \in 1..(m + n)
  <2>1. CASE k <= m
    BY <2>1, <1>1, <1>3, <1>4
  <2>2. CASE k > m
    <3>1. k - m \in 1..n /\ m + (k - m) = 0 + k
      BY <2>2
    <3>2. QED
      BY <3>1, <2>2, <1>2, <1>3, <1>4
  <2>3. k <= m \/ k > m
    OBVIOUS
  <2>4. QED
    BY <2>1, <2>2, <2>3
<1>6. QED
  <2>1. u = Slice(0, m + n)
    BY <1>3, <1>4, <1>5, SeqEqual
  <2>2. QED
    BY <2>1 DEF u

(* The first part of a piece made of two.                                  *)
LEMMA FirstPart ==
  ASSUME NEW e \in Seq(Sym), NEW p \in Nat, NEW n \in Nat, NEW m \in Nat,
         NEW u \in Seq(Sym), NEW v \in Seq(Sym), Len(u) = n, Len(v) = m,
         n # 0, p + n + m <= Len(e),
         SubSeq(e, p + 1, p + n + m) = u \o v
  PROVE  /\ SubSeq(e, p + 1, p + n) = u
         /\ SubSeq(e, p + 1, p + n)[1] = e[p + 1]
<1>1. Len(e) \in Nat
  OBVIOUS
<1>2. SubSeq(SubSeq(e, p + 1, p + n + m), 1, n) = SubSeq(e, (p + 1) + 1 - 1, (p + 1) + n - 1)
  <2>1. /\ p + 1 \in 1..Len(e) /\ p + n + m \in 1..Len(e)
        /\ 1 \in 1..((p + n + m) - (p + 1) + 1) /\ n \in 1..((p + n + m) - (p + 1) + 1)
    BY <1>1
  <2>2. QED
    BY <2>1, SubSeqOfSubSeq
<1>3. SubSeq(u \o v, 1, n) = SubSeq(u, 1, n)
  BY SubSeqOfConcat1
<1>4. SubSeq(u, 1, n) = u
  BY SubSeqFull
<1>5. (p + 1) + 1 - 1 = p + 1 /\ (p + 1) + n - 1 = p + n
  OBVIOUS
<1>6. SubSeq(e, p + 1, p + n) = u
  BY <1>2, <1>3, <1>4, <1>5
<1>7. SubSeq(e, p + 1, p + n)[1] = e[p + 1]
  <2> DEFINE a == p + 1
             c == p + n
  <2>1. a \in Int /\ c \in Int /\ 1 \in 1..(c - a + 1) /\ a + 1 - 1 = a
    OBVIOUS
  <2>2. \A i \in a..c : e[i] \in Sym
    BY <1>1, ElementOfSeq
  <2> HIDE DEF a, c
  <2>3. \A i \in 1..(c - a + 1) : SubSeq(e, a, c)[i] = e[a + i - 1]
    BY <2>1, <2>2, SubSeqProperties
  <2>4. SubSeq(e, a, c)[1] = e[a]
    BY <2>1, <2>3
  <2>5. QED
    BY <2>4 DEF a, c
<1>8. QED
  BY <1>6, <1>7

(* The elements of a part of a sequence.                                   *)
LEMMA PartOf ==
  ASSUME NEW e \in Seq(Sym), NEW p \in Nat, NEW n \in Nat, p + n <= Len(e), NEW j \in 1..n
  PROVE  SubSeq(e, p + 1, p + n)[j] = e[p + j]
<1> DEFINE a == p + 1
           c == p + n
<1>1. a \in Int /\ c \in Int /\ j \in 1..(c - a + 1) /\ a + j - 1 = p + j /\ Len(e) \in Nat
  BY LenProperties
<1>2. \A i \in a..c : e[i] \in Sym
  BY <1>1, ElementOfSeq
<1> HIDE DEF a, c
<1>3. \A i \in 1..(c - a + 1) : SubSeq(e, a, c)[i] = e[a + i - 1]
  BY <1>1, <1>2, SubSeqProperties
<1>4. SubSeq(e, a, c)[j] = e[a + j - 1]
  BY <1>1, <1>3
<1>5. QED
  BY <1>1, <1>4 DEF a, c

-----------------------------------------------------------------------------
(* The invariant of the walk.                                              *)

Count == payload_block_count(size)
Encoding == {"encode_large", "encode_small", "sent"}
Decoding == {"decode_large", "decode_small", "decoded"}

(* Blocks done, of both kinds.                                             *)
Done ==
  CASE pc \in {"encode_large", "decode_large"} -> b
    [] pc \in {"encode_small", "decode_small"} -> large_block_count(size) + b
    [] OTHER -> Count

EncodedBlock(n) ==
  Slice(DataBefore(size, n), BlockData(size, n))
    \o il2p_encode_rs(DataBefore(size, n), BlockData(size, n))
Holds(n) ==
  SubSeq(enc, PlaceOf(size, n) + 1, PlaceOf(size, n + 1)) = EncodedBlock(n)
Encoded(n) ==
  Len(enc) = PlaceOf(size, n) /\ \A k \in 0..(n - 1) : Holds(k)

(* Byte k of s is the one that was sent, or one of a block with more       *)
(* damage than its parity corrects.                                        *)
RightOrBeyond(s, k) ==
  \/ s[k] = Symbol(k)
  \/ s[k] = WrongSymbol /\ \E p \in beyond : InBlock(p, k)
Credible(s) == \A k \in 1..Len(s) : RightOrBeyond(s, k)

SeqInv == enc \in Seq(Sym) /\ out \in Seq(Sym) /\ beyond \subseteq damaged
CountInv ==
  /\ pc \in {"encode_large", "decode_large"} => b \in 0..large_block_count(size)
  /\ pc \in {"encode_small", "decode_small"} => b \in 0..small_block_count(size)
  /\ pc \in {"sent", "received", "decoded"} => b = 0
  /\ pc \in (Encoding \cup Decoding) \ {"sent"} => size > 0
SenderInv ==
  pc \in Encoding /\ size > 0 => Encoded(Done) /\ pin = DataBefore(size, Done)
ChannelInv ==
  /\ pc \in Decoding \cup {"received"} /\ size > 0 => Encoded(Count)
  /\ pc \in {"sent", "received"} /\ size = 0 => enc = << >>
  /\ pc \in Encoding \cup {"received"} => out = << >> /\ failed = FALSE
  /\ pc = "received" => pin = 0
ReceiverInv ==
  pc \in Decoding =>
    /\ pin = PlaceOf(size, Done) /\ Len(out) = DataBefore(size, Done)
    /\ ~failed => Credible(out)
    /\ damaged = {} => ~failed /\ out = Slice(0, Len(out))

IInv ==
  /\ TypeOK /\ SeqInv /\ CountInv
  /\ SenderInv /\ ChannelInv /\ ReceiverInv
  /\ DeliveredIntact
  /\ pc # "idle" => packet = NoPacket

(* A turn of the sender's loops: one block more of the kind at hand, or on *)
(* to the next kind.                                                       *)
LEMMA EncodeTurn ==
  ASSUME IInv, EncodeBlock
  PROVE  /\ size \in 1..MaxPayload /\ size' = size
         /\ pc \in Encoding /\ pc # "sent" /\ pc' \in Encoding
         /\ CountInv' /\ b' \in 0..MaxBlocks
         /\ Done \in 0..Count
         /\ \/ /\ b' > b /\ Done < Count /\ Done' = Done + 1
               /\ BlockLength = BlockData(size, Done)
            \/ ~(b' > b) /\ Done' = Done
<1> DEFINE L == large_block_count(size)
           S == small_block_count(size)
           q == payload_block_count(size)
<1>1. /\ pc \in {"encode_large", "encode_small"}
      /\ size' = size
      /\ size \in 1..MaxPayload
  BY Il2pCodecAssumption DEF IInv, TypeOK, CountInv, EncodeBlock, Transition, Encoding
<1>2. /\ q \in 1..MaxBlocks /\ L \in 0..(q - 1) /\ S = q - L /\ MaxBlocks \in Nat
  BY <1>1, BlockFacts, Il2pCodecAssumption DEF small_block_count
<1>3. CASE pc = "encode_large"
  <2>1. b \in 0..L /\ Done = b /\ Count = q
    BY <1>3 DEF IInv, CountInv, Done, Count
  <2>2. CASE b < L
    <3>1. b' = b + 1 /\ pc' = "encode_large"
      BY <1>3, <2>2 DEF EncodeBlock, Transition
    <3>2. Done' = b + 1
      BY <3>1 DEF Done
    <3>3. BlockLength = BlockData(size, Done)
      BY <1>3, <2>1, <2>2 DEF BlockLength, BlockData
    <3>4. CountInv' /\ b' \in 0..MaxBlocks
      BY <1>1, <1>2, <2>1, <2>2, <3>1 DEF CountInv
    <3>5. QED
      BY <1>1, <1>2, <1>3, <2>1, <2>2, <3>1, <3>2, <3>3, <3>4 DEF Encoding
  <2>3. CASE ~(b < L)
    <3>1. b' = 0 /\ pc' = "encode_small"
      BY <1>3, <2>3 DEF EncodeBlock, Transition
    <3>2. Done' = L + 0
      BY <3>1, <1>1 DEF Done
    <3>3. CountInv' /\ b' \in 0..MaxBlocks
      BY <1>1, <1>2, <3>1 DEF CountInv, small_block_count, payload_block_count, large_block_count
    <3>4. QED
      BY <1>1, <1>2, <1>3, <2>1, <2>3, <3>1, <3>2, <3>3 DEF Encoding
  <2>4. QED
    BY <2>2, <2>3
<1>4. CASE pc = "encode_small"
  <2>1. b \in 0..S /\ Done = L + b /\ Count = q
    BY <1>4 DEF IInv, CountInv, Done, Count
  <2>2. CASE b < S
    <3>1. b' = b + 1 /\ pc' = "encode_small"
      BY <1>4, <2>2 DEF EncodeBlock, Transition
    <3>2. Done' = L + (b + 1)
      BY <3>1, <1>1 DEF Done
    <3>3. BlockLength = BlockData(size, Done)
      <4>1. ~(Done < L)
        BY <1>2, <2>1
      <4>2. QED
        BY <1>4, <4>1 DEF BlockLength, BlockData
    <3>4. CountInv' /\ b' \in 0..MaxBlocks
      BY <1>1, <1>2, <2>1, <2>2, <3>1 DEF CountInv
    <3>5. QED
      BY <1>1, <1>2, <1>4, <2>1, <2>2, <3>1, <3>2, <3>3, <3>4 DEF Encoding
  <2>3. CASE ~(b < S)
    <3>1. b' = 0 /\ pc' = "sent"
      BY <1>4, <2>3 DEF EncodeBlock, Transition
    <3>2. Done' = q
      BY <3>1, <1>1 DEF Done, Count
    <3>3. CountInv' /\ b' \in 0..MaxBlocks
      BY <1>1, <1>2, <3>1 DEF CountInv, Encoding
    <3>4. QED
      BY <1>1, <1>2, <1>4, <2>1, <2>3, <3>1, <3>2, <3>3 DEF Encoding
  <2>4. QED
    BY <2>2, <2>3
<1>5. QED
  BY <1>1, <1>3, <1>4

(* A turn of the receiver's loops: one block more of the kind at hand, or on *)
(* to the next kind.                                                       *)
LEMMA DecodeTurn ==
  ASSUME IInv, DecodeBlock
  PROVE  /\ size \in 1..MaxPayload /\ size' = size
         /\ pc \in Decoding /\ pc # "decoded" /\ pc' \in Decoding
         /\ CountInv' /\ b' \in 0..MaxBlocks
         /\ Done \in 0..Count
         /\ \/ /\ b' > b /\ Done < Count /\ Done' = Done + 1
               /\ BlockLength = BlockData(size, Done)
            \/ ~(b' > b) /\ Done' = Done
<1> DEFINE L == large_block_count(size)
           S == small_block_count(size)
           q == payload_block_count(size)
<1>1. /\ pc \in {"decode_large", "decode_small"}
      /\ size' = size
      /\ size \in 1..MaxPayload
  BY Il2pCodecAssumption DEF IInv, TypeOK, CountInv, DecodeBlock, Transition, Decoding
<1>2. /\ q \in 1..MaxBlocks /\ L \in 0..(q - 1) /\ S = q - L /\ MaxBlocks \in Nat
  BY <1>1, BlockFacts, Il2pCodecAssumption DEF small_block_count
<1>3. CASE pc = "decode_large"
  <2>1. b \in 0..L /\ Done = b /\ Count = q
    BY <1>3 DEF IInv, CountInv, Done, Count
  <2>2. CASE b < L
    <3>1. b' = b + 1 /\ pc' = "decode_large"
      BY <1>3, <2>2 DEF DecodeBlock, Transition
    <3>2. Done' = b + 1
      BY <3>1 DEF Done
    <3>3. BlockLength = BlockData(size, Done)
      BY <1>3, <2>1, <2>2 DEF BlockLength, BlockData
    <3>4. CountInv' /\ b' \in 0..MaxBlocks
      BY <1>1, <1>2, <2>1, <2>2, <3>1 DEF CountInv
    <3>5. QED
      BY <1>1, <1>2, <1>3, <2>1, <2>2, <3>1, <3>2, <3>3, <3>4 DEF Decoding
  <2>3. CASE ~(b < L)
    <3>1. b' = 0 /\ pc' = "decode_small"
      BY <1>3, <2>3 DEF DecodeBlock, Transition
    <3>2. Done' = L + 0
      BY <3>1, <1>1 DEF Done
    <3>3. CountInv' /\ b' \in 0..MaxBlocks
      BY <1>1, <1>2, <3>1 DEF CountInv, small_block_count, payload_block_count, large_block_count
    <3>4. QED
      BY <1>1, <1>2, <1>3, <2>1, <2>3, <3>1, <3>2, <3>3 DEF Decoding
  <2>4. QED
    BY <2>2, <2>3
<1>4. CASE pc = "decode_small"
  <2>1. b \in 0..S /\ Done = L + b /\ Count = q
    BY <1>4 DEF IInv, CountInv, Done, Count
  <2>2. CASE b < S
    <3>1. b' = b + 1 /\ pc' = "decode_small"
      BY <1>4, <2>2 DEF DecodeBlock, Transition
    <3>2. Done' = L + (b + 1)
      BY <3>1, <1>1 DEF Done
    <3>3. BlockLength = BlockData(size, Done)
      <4>1. ~(Done < L)
        BY <1>2, <2>1
      <4>2. QED
        BY <1>4, <4>1 DEF BlockLength, BlockData
    <3>4. CountInv' /\ b' \in 0..MaxBlocks
      BY <1>1, <1>2, <2>1, <2>2, <3>1 DEF CountInv
    <3>5. QED
      BY <1>1, <1>2, <1>4, <2>1, <2>2, <3>1, <3>2, <3>3, <3>4 DEF Decoding
  <2>3. CASE ~(b < S)
    <3>1. b' = 0 /\ pc' = "decoded"
      BY <1>4, <2>3 DEF DecodeBlock, Transition
    <3>2. Done' = q
      BY <3>1, <1>1 DEF Done, Count
    <3>3. CountInv' /\ b' \in 0..MaxBlocks
      BY <1>1, <1>2, <3>1 DEF CountInv, Decoding
    <3>4. QED
      BY <1>1, <1>2, <1>4, <2>1, <2>3, <3>1, <3>2, <3>3 DEF Decoding
  <2>4. QED
    BY <2>2, <2>3
<1>5. QED
  BY <1>1, <1>3, <1>4

(* What the sender appends is kept, and found where it was put.            *)
LEMMA AppendedBlock ==
  ASSUME NEW e \in Seq(Sym), NEW x \in Seq(Sym), x # << >>
  PROVE  /\ e \o x \in Seq(Sym) /\ Len(e \o x) = Len(e) + Len(x)
         /\ SubSeq(e \o x, Len(e) + 1, Len(e) + Len(x)) = x
         /\ \A m, n \in 1..Len(e) : SubSeq(e \o x, m, n) = SubSeq(e, m, n)
<1>1. Len(e) \in Nat /\ Len(x) \in Nat \ {0}
  BY EmptySeq, LenProperties
<1>2. /\ e \o x \in Seq(Sym) /\ Len(e \o x) = Len(e) + Len(x)
  BY ConcatProperties
<1>3. SubSeq(e \o x, Len(e) + 1, Len(e) + Len(x)) = x
  <2>1. Len(e) + 1 \in (Len(e) + 1)..(Len(e) + Len(x))
        /\ Len(e) + Len(x) \in (Len(e) + 1)..(Len(e) + Len(x))
    BY <1>1
  <2>2. SubSeq(e \o x, Len(e) + 1, Len(e) + Len(x))
          = SubSeq(x, (Len(e) + 1) - Len(e), (Len(e) + Len(x)) - Len(e))
    BY <2>1, SubSeqOfConcat2
  <2>3. (Len(e) + 1) - Len(e) = 1 /\ (Len(e) + Len(x)) - Len(e) = Len(x)
    BY <1>1
  <2>4. QED
    BY <2>2, <2>3, SubSeqFull
<1>4. \A m, n \in 1..Len(e) : SubSeq(e \o x, m, n) = SubSeq(e, m, n)
  BY SubSeqOfConcat1
<1>5. QED
  BY <1>2, <1>3, <1>4

(* An encoded block: its data, then its parity.                            *)
LEMMA EncodedBlockFacts ==
  ASSUME size \in 1..MaxPayload, NEW n \in 0..(Count - 1)
  PROVE  /\ Slice(DataBefore(size, n), BlockData(size, n)) \in Seq(Sym)
         /\ il2p_encode_rs(DataBefore(size, n), BlockData(size, n)) \in Seq(Sym)
         /\ Len(Slice(DataBefore(size, n), BlockData(size, n))) = BlockData(size, n)
         /\ Len(il2p_encode_rs(DataBefore(size, n), BlockData(size, n))) = Parity
         /\ EncodedBlock(n) \in Seq(Sym)
         /\ Len(EncodedBlock(n)) = BlockData(size, n) + Parity
         /\ EncodedBlock(n) # << >>
<1>1. DataBefore(size, n) \in Nat /\ BlockData(size, n) \in Nat \ {0} /\ Parity \in Nat
  BY WalkFacts, Il2pCodecAssumption DEF Count
<1> DEFINE u == Slice(DataBefore(size, n), BlockData(size, n))
           v == il2p_encode_rs(DataBefore(size, n), BlockData(size, n))
<1>2. /\ u \in Seq(Sym) /\ Len(u) = BlockData(size, n)
      /\ v \in Seq(Sym) /\ Len(v) = Parity
  BY <1>1, BlockIsSequence
<1>3. EncodedBlock(n) = u \o v
  BY DEF EncodedBlock
<1> HIDE DEF u, v
<1>4. u \o v \in Seq(Sym) /\ Len(u \o v) = BlockData(size, n) + Parity
  BY <1>2, ConcatProperties
<1>5. u \o v # << >>
  BY <1>1, <1>4, EmptySeq
<1>6. QED
  BY <1>2, <1>3, <1>4, <1>5 DEF u, v

-----------------------------------------------------------------------------
(* Each step keeps the invariant.                                          *)

(* Nothing has been sent.                                                  *)
LEMMA InitIInv == Init => IInv
<1> SUFFICES ASSUME Init PROVE IInv
  OBVIOUS
<1>1. MaxEncoded \in Nat /\ MaxPayload \in Nat /\ MaxBlocks \in Nat
  BY MaxEncodedIsNat, Il2pCodecAssumption
<1>2. << >> \in Seq(Sym) /\ Len(<< >>) = 0
  BY EmptySeq
<1>3. TypeOK
  <2>1. Len(enc) <= MaxEncoded /\ Len(out) <= MaxPayload
    BY <1>1, <1>2 DEF Init
  <2>2. failed \in BOOLEAN /\ packet.kind \in {"NULL", "packet"}
    BY DEF Init, NoPacket
  <2>3. pc = "idle" /\ size \in Nat /\ b \in 0..MaxBlocks /\ pin \in 0..MaxEncoded
    BY <1>1 DEF Init
  <2>4. QED
    BY <2>1, <2>2, <2>3 DEF TypeOK
<1>4. SeqInv
  BY <1>2 DEF Init, SeqInv
<1>5. CountInv /\ SenderInv /\ ChannelInv /\ ReceiverInv
  BY DEF Init, CountInv, SenderInv, ChannelInv, ReceiverInv, Encoding, Decoding
<1>6. DeliveredIntact /\ (pc # "idle" => packet = NoPacket)
  BY DEF Init, DeliveredIntact, NoPacket
<1>7. QED
  BY <1>3, <1>4, <1>5, <1>6 DEF IInv

(* A new frame starts with nothing encoded.                                *)
LEMMA FrameKeeps ==
  ASSUME IInv, il2p_encode_frame
  PROVE  IInv'
<1>1. MaxEncoded \in Nat /\ MaxPayload \in Nat /\ MaxBlocks \in Nat
  BY MaxEncodedIsNat, Il2pCodecAssumption
<1>2. << >> \in Seq(Sym) /\ Len(<< >>) = 0
  BY EmptySeq
<1>3. /\ b' = 0 /\ pin' = 0 /\ enc' = << >> /\ packet' = NoPacket
      /\ out' = << >> /\ failed' = FALSE /\ damaged' = {} /\ beyond' = {}
      /\ size' \in Nat
      /\ \/ pc' = "idle"
         \/ size' = 0 /\ pc' = "sent"
         \/ size' \in 1..MaxPayload /\ pc' = "encode_large"
  BY Il2pCodecAssumption DEF il2p_encode_frame
<1>4. TypeOK'
  <2>1. Len(enc') <= MaxEncoded /\ Len(out') <= MaxPayload
    BY <1>1, <1>2, <1>3
  <2>2. failed' \in BOOLEAN /\ packet'.kind \in {"NULL", "packet"}
    BY <1>3 DEF NoPacket
  <2>3. pc' \in {"idle", "sent", "encode_large"} /\ b' \in 0..MaxBlocks /\ pin' \in 0..MaxEncoded
    BY <1>1, <1>3
  <2>4. size' \in Nat /\ (pc' # "idle" => size' <= MaxPayload)
    BY <1>1, <1>3
  <2>5. QED
    BY <2>1, <2>2, <2>3, <2>4 DEF TypeOK
<1>5. SeqInv'
  BY <1>2, <1>3 DEF SeqInv
<1>6. DeliveredIntact' /\ (pc # "idle" => packet = NoPacket)'
  BY <1>3 DEF DeliveredIntact, NoPacket
<1>7. CASE pc' = "encode_large" /\ size' \in 1..MaxPayload
  <2>1. DataBefore(size', 0) = 0 /\ PlaceOf(size', 0) = 0
    BY <1>7, WalkEnds
  <2>2. large_block_count(size') \in Nat
    BY <1>7, BlockFacts
  <2>3. CountInv'
    BY <1>3, <1>7, <2>2, <1>1 DEF CountInv
  <2>4. Done' = 0
    BY <1>3, <1>7 DEF Done
  <2>5. SenderInv'
    BY <1>2, <1>3, <2>1, <2>4 DEF SenderInv, Encoded
  <2>6. ChannelInv' /\ ReceiverInv'
    BY <1>3, <1>7 DEF ChannelInv, ReceiverInv, Encoding, Decoding
  <2>7. QED
    BY <1>4, <1>5, <1>6, <2>3, <2>5, <2>6 DEF IInv
<1>8. CASE pc' = "idle" \/ (pc' = "sent" /\ size' = 0)
  <2>1. CountInv' /\ SenderInv' /\ ChannelInv' /\ ReceiverInv'
    BY <1>3, <1>8 DEF CountInv, SenderInv, ChannelInv, ReceiverInv, Encoding, Decoding
  <2>2. QED
    BY <1>4, <1>5, <1>6, <2>1 DEF IInv
<1>9. QED
  BY <1>3, <1>7, <1>8

(* A turn of the sender appends the next block where the walk has it.      *)
LEMMA EncodeKeeps ==
  ASSUME IInv, EncodeBlock
  PROVE  IInv'
<1>1. /\ size \in 1..MaxPayload /\ size' = size
      /\ pc \in Encoding /\ pc # "sent" /\ pc' \in Encoding
      /\ CountInv' /\ b' \in 0..MaxBlocks
      /\ Done \in 0..Count
      /\ \/ /\ b' > b /\ Done < Count /\ Done' = Done + 1
            /\ BlockLength = BlockData(size, Done)
         \/ ~(b' > b) /\ Done' = Done
  BY EncodeTurn
<1>2. /\ damaged' = damaged /\ beyond' = beyond /\ out' = out /\ failed' = failed
      /\ packet' = packet
      /\ IF b' > b
         THEN /\ enc' = enc \o Slice(pin, BlockLength) \o il2p_encode_rs(pin, BlockLength)
              /\ pin' = pin + BlockLength
         ELSE enc' = enc /\ pin' = pin
  BY DEF EncodeBlock
<1>3. /\ enc \in Seq(Sym) /\ out \in Seq(Sym) /\ beyond \subseteq damaged
      /\ Encoded(Done) /\ pin = DataBefore(size, Done)
      /\ out = << >> /\ failed = FALSE /\ packet = NoPacket
  BY <1>1, Il2pCodecAssumption DEF IInv, SeqInv, SenderInv, ChannelInv, Encoding
<1>4. /\ payload_block_count(size) \in Nat /\ Count = payload_block_count(size)
      /\ Count' = Count /\ MaxEncoded \in Nat /\ MaxPayload \in Nat /\ Parity \in Nat
  BY <1>1, BlockFacts, MaxEncodedIsNat, Il2pCodecAssumption DEF Count
<1>5. /\ enc' \in Seq(Sym) /\ pin' = DataBefore(size, Done') /\ Done' \in 0..Count
      /\ Encoded(Done)'
  <2>1. CASE b' > b
    <3> DEFINE u == Slice(pin, BlockLength)
               v == il2p_encode_rs(pin, BlockLength)
               n == Done
    <3>1. n \in 0..(Count - 1) /\ n \in Nat /\ Done' = n + 1
      BY <1>1, <1>4, <2>1
    <3>2. /\ u \in Seq(Sym) /\ v \in Seq(Sym) /\ EncodedBlock(n) = u \o v
          /\ EncodedBlock(n) \in Seq(Sym) /\ EncodedBlock(n) # << >>
          /\ Len(EncodedBlock(n)) = BlockData(size, n) + Parity
      BY <1>1, <1>3, <2>1, <3>1, EncodedBlockFacts DEF EncodedBlock
    <3>3. enc' = enc \o EncodedBlock(n)
      <4>1. enc' = (enc \o u) \o v
        BY <1>2, <2>1
      <4>2. u \in Seq(Sym) /\ v \in Seq(Sym) /\ EncodedBlock(n) = u \o v
        BY <3>2
      <4> HIDE DEF u, v, n
      <4>3. (enc \o u) \o v = enc \o (u \o v)
        <5>1. enc \in Seq(Sym)
          BY <1>3
        <5>2. QED
          BY ONLY <4>2, <5>1, ConcatAssociative
      <4>4. QED
        BY <4>1, <4>2, <4>3
    <3>4. /\ BlockData(size, n) \in Nat /\ PlaceOf(size, n) \in Nat
          /\ DataBefore(size, n + 1) = DataBefore(size, n) + BlockData(size, n)
          /\ PlaceOf(size, n + 1) = PlaceOf(size, n) + BlockData(size, n) + Parity
      BY <1>1, <1>4, <3>1, WalkFacts, Il2pCodecAssumption
    <3>5. Len(enc) = PlaceOf(size, n) /\ \A k \in 0..(n - 1) : Holds(k)
      BY <1>3 DEF Encoded
    <3> HIDE DEF n, u, v
    <3>6. /\ enc' \in Seq(Sym) /\ Len(enc') = PlaceOf(size, n + 1)
          /\ SubSeq(enc', PlaceOf(size, n) + 1, PlaceOf(size, n + 1)) = EncodedBlock(n)
          /\ \A i, j \in 1..PlaceOf(size, n) : SubSeq(enc', i, j) = SubSeq(enc, i, j)
      <4>1. /\ enc' \in Seq(Sym) /\ Len(enc') = Len(enc) + Len(EncodedBlock(n))
            /\ SubSeq(enc', Len(enc) + 1, Len(enc) + Len(EncodedBlock(n))) = EncodedBlock(n)
            /\ \A i, j \in 1..Len(enc) : SubSeq(enc', i, j) = SubSeq(enc, i, j)
        <5> DEFINE x == EncodedBlock(n)
        <5>1. x \in Seq(Sym) /\ x # << >> /\ enc' = enc \o x
          BY <3>2, <3>3
        <5> HIDE DEF x
        <5>2. /\ enc' \in Seq(Sym) /\ Len(enc') = Len(enc) + Len(x)
              /\ SubSeq(enc', Len(enc) + 1, Len(enc) + Len(x)) = x
              /\ \A i, j \in 1..Len(enc) : SubSeq(enc', i, j) = SubSeq(enc, i, j)
          BY <5>1, <1>3, AppendedBlock
        <5>3. QED
          BY <5>2 DEF x
      <4>2. Len(enc) + Len(EncodedBlock(n)) = PlaceOf(size, n + 1)
        BY <3>2, <3>4, <3>5, <1>4
      <4>3. QED
        BY <4>1, <4>2, <3>5
    <3>7. \A k \in 0..n : Holds(k)'
      <4> SUFFICES ASSUME NEW k \in 0..n PROVE Holds(k)'
        OBVIOUS
      <4>1. /\ EncodedBlock(k)' = EncodedBlock(k)
            /\ PlaceOf(size, k)' = PlaceOf(size, k)
            /\ PlaceOf(size, k + 1)' = PlaceOf(size, k + 1)
        BY <1>1 DEF EncodedBlock
      <4>2. CASE k = n
        BY <3>6, <4>1, <4>2 DEF Holds
      <4>3. CASE k # n
        <5>1. k \in 0..(n - 1) /\ k \in 0..(payload_block_count(size) - 1)
              /\ k + 1 \in 0..n /\ n \in 0..payload_block_count(size)
          BY <3>1, <4>3, <1>4
        <5>2. PlaceOf(size, k) \in Nat /\ PlaceOf(size, k + 1) <= PlaceOf(size, n)
          BY <1>1, <5>1, WalkFacts, PlaceMono
        <5>3. PlaceOf(size, k + 1) = PlaceOf(size, k) + BlockData(size, k) + Parity
              /\ BlockData(size, k) \in 1..DataMax
          BY <1>1, <5>1, WalkFacts
        <5>4. PlaceOf(size, k) + 1 \in 1..PlaceOf(size, n)
              /\ PlaceOf(size, k + 1) \in 1..PlaceOf(size, n)
          BY <5>2, <5>3, <3>4, <1>4, Il2pCodecAssumption
        <5>5. Holds(k)
          BY <3>5, <5>1
        <5>6. QED
          BY <5>4, <5>5, <3>6, <4>1 DEF Holds
      <4>4. QED
        BY <4>2, <4>3
    <3>8. pin' = DataBefore(size, n + 1)
      BY <1>1, <1>2, <1>3, <2>1, <3>4 DEF n
    <3>9. Encoded(Done)'
      <4>1. Done' - 1 = n
        BY <3>1
      <4>2. QED
        BY <3>1, <3>6, <3>7, <4>1, <1>1 DEF Encoded
    <3>10. QED
      BY <3>1, <3>6, <3>8, <3>9, <1>4
  <2>2. CASE ~(b' > b)
    <3>1. enc' = enc /\ pin' = pin /\ Done' = Done
      BY <1>1, <1>2, <2>2
    <3>2. \A k : Holds(k)' = Holds(k)
      BY <3>1, <1>1 DEF Holds, EncodedBlock
    <3>3. Encoded(Done)'
      BY <1>1, <1>3, <3>1, <3>2 DEF Encoded
    <3>4. QED
      BY <1>1, <1>3, <3>1, <3>3
  <2>3. QED
    BY <2>1, <2>2
<1>6. TypeOK'
  <2>1. DataBefore(size, Done') \in 0..size /\ PlaceOf(size, Done') \in 0..MaxEncoded
    <3>1. DataBefore(size, Done') \in 0..size
          /\ PlaceOf(size, Done') \in 0..PlaceOf(size, payload_block_count(size))
      BY <1>1, <1>4, <1>5, PlaceBound
    <3>2. PlaceOf(size, payload_block_count(size)) <= MaxEncoded
          /\ PlaceOf(size, payload_block_count(size)) \in Int
      BY <1>1, <1>4, WalkEnds, PlaceBound
    <3>3. QED
      BY <3>1, <3>2, <1>4
  <2>2. Len(enc') <= MaxEncoded /\ pin' \in 0..MaxEncoded
    BY <2>1, <1>1, <1>4, <1>5, MaxEncodedIsNat DEF Encoded
  <2>3. Len(out') <= MaxPayload
    BY <1>2 DEF IInv, TypeOK
  <2>4. failed' \in BOOLEAN /\ packet'.kind \in {"NULL", "packet"}
    BY <1>2 DEF IInv, TypeOK
  <2>5. pc' \in {"encode_large", "encode_small", "sent"} /\ size' \in Nat /\ size' <= MaxPayload
    BY <1>1, <1>4 DEF Encoding
  <2>6. QED
    BY <2>2, <2>3, <2>4, <2>5, <1>1 DEF TypeOK
<1>7. SenderInv' /\ SeqInv'
  BY <1>1, <1>2, <1>3, <1>5 DEF SenderInv, SeqInv
<1>8. ChannelInv' /\ ReceiverInv' /\ (pc # "idle" => packet = NoPacket)'
  BY <1>1, <1>2, <1>3, <1>4 DEF ChannelInv, ReceiverInv, Encoding, Decoding
<1>9. DeliveredIntact'
  BY <1>2, <1>3 DEF DeliveredIntact, NoPacket
<1>10. QED
  BY <1>1, <1>6, <1>7, <1>8, <1>9 DEF IInv

(* A step that leaves the encoded payload and the size alone leaves the    *)
(* blocks where they are.                                                  *)
LEMMA BlocksStay ==
  ASSUME enc' = enc, size' = size
  PROVE  Count' = Count /\ Encoded(Count)' = Encoded(Count)
<1>1. \A k : Holds(k)' = Holds(k)
  BY DEF Holds, EncodedBlock
<1>2. QED
  BY <1>1 DEF Encoded, Count

(* Noise changes nothing but what is damaged.                              *)
LEMMA TransmitKeeps ==
  ASSUME IInv, Transmit
  PROVE  IInv'
<1>1. /\ pc = "sent" /\ pc' = "received" /\ pin' = 0
      /\ size' = size /\ b' = b /\ enc' = enc /\ out' = out
      /\ failed' = failed /\ packet' = packet /\ beyond' \subseteq damaged'
  BY DEF Transmit
<1>2. Count' = Count /\ Encoded(Count)' = Encoded(Count) /\ Done = Count
  BY <1>1, BlocksStay DEF Done
<1>3. TypeOK'
  BY <1>1, MaxEncodedIsNat DEF IInv, TypeOK
<1>4. SeqInv' /\ CountInv' /\ SenderInv'
  BY <1>1 DEF IInv, SeqInv, CountInv, SenderInv, Encoding, Decoding
<1>5. ChannelInv' /\ ReceiverInv'
  BY <1>1, <1>2 DEF IInv, SenderInv, ChannelInv, ReceiverInv, Encoding, Decoding
<1>6. DeliveredIntact' /\ (pc # "idle" => packet = NoPacket)'
  BY <1>1 DEF IInv, DeliveredIntact, NoPacket
<1>7. QED
  BY <1>3, <1>4, <1>5, <1>6 DEF IInv

(* The receiver starts at the first block, or has no blocks to decode.     *)
LEMMA HeaderKeeps ==
  ASSUME IInv, il2p_decode_header_payload
  PROVE  IInv'
<1>1. /\ pc = "received"
      /\ size' = size /\ b' = b /\ pin' = pin /\ enc' = enc /\ damaged' = damaged
      /\ beyond' = beyond /\ out' = out /\ failed' = failed
      /\ \/ pc' = "idle" /\ packet' = NoPacket
         \/ size = 0 /\ pc' = "idle" /\ packet' = Packet(<< >>)
         \/ size > 0 /\ pc' = "decode_large" /\ packet' = packet
  BY DEF il2p_decode_header_payload
<1>2. SeqInv' /\ SenderInv'
  BY <1>1 DEF IInv, SeqInv, SenderInv, Encoding
<1>3. TypeOK'
  <2>1. packet'.kind \in {"NULL", "packet"}
    BY <1>1 DEF IInv, TypeOK, NoPacket, Packet
  <2>2. QED
    BY <1>1, <2>1 DEF IInv, TypeOK
<1>4. CASE pc' = "idle"
  <2>1. CountInv' /\ ChannelInv' /\ ReceiverInv' /\ (pc # "idle" => packet = NoPacket)'
    BY <1>4 DEF CountInv, ChannelInv, ReceiverInv, Encoding, Decoding
  <2>2. DeliveredIntact'
    <3>1. CASE packet' = NoPacket
      BY <3>1 DEF DeliveredIntact, NoPacket
    <3>2. CASE size = 0 /\ packet' = Packet(<< >>)
      <4>1. Len(<< >>) = 0 /\ size' = 0
        BY <1>1, <3>2, EmptySeq
      <4>2. QED
        BY <3>2, <4>1 DEF DeliveredIntact, Packet
    <3>3. QED
      BY <1>1, <1>4, <3>1, <3>2
  <2>3. QED
    BY <1>2, <1>3, <2>1, <2>2 DEF IInv
<1>5. CASE size > 0 /\ pc' = "decode_large" /\ packet' = packet
  <2>1. /\ size \in 1..MaxPayload /\ b = 0 /\ pin = 0 /\ out = << >> /\ failed = FALSE
        /\ Encoded(Count) /\ packet = NoPacket
    BY <1>1, <1>5, Il2pCodecAssumption
    DEF IInv, TypeOK, CountInv, ChannelInv, Encoding, Decoding
  <2>2. DataBefore(size, 0) = 0 /\ PlaceOf(size, 0) = 0 /\ large_block_count(size) \in Nat
    BY <2>1, WalkEnds, BlockFacts
  <2>3. Done' = 0
    BY <1>1, <1>5, <2>1 DEF Done
  <2>4. CountInv'
    BY <1>1, <1>5, <2>1, <2>2 DEF CountInv
  <2>5. Encoded(Count)'
    BY <1>1, <2>1, BlocksStay
  <2>6. ChannelInv'
    BY <1>5, <2>5 DEF ChannelInv, Encoding, Decoding
  <2>7. Len(<< >>) = 0 /\ Slice(0, 0) = << >>
    <3>1. Slice(0, 0) \in Seq(Sym) /\ Len(Slice(0, 0)) = 0
      BY BlockIsSequence
    <3>2. QED
      BY <3>1, EmptySeq
  <2>8. ReceiverInv'
    BY <1>1, <2>1, <2>2, <2>3, <2>7 DEF ReceiverInv, Credible
  <2>9. DeliveredIntact' /\ (pc # "idle" => packet = NoPacket)'
    BY <1>5, <2>1 DEF DeliveredIntact, NoPacket
  <2>10. QED
    BY <1>2, <1>3, <2>4, <2>6, <2>8, <2>9 DEF IInv
<1>6. QED
  BY <1>1, <1>4, <1>5

(* What the receiver finds at its place in the walk: a block as the sender *)
(* encoded it.                                                             *)
LEMMA BlockAtHand ==
  ASSUME IInv, size \in 1..MaxPayload, pc \in Decoding, Done \in 0..(Count - 1)
  PROVE  /\ IsCodeword(BlockData(size, Done))
         /\ SubSeq(enc, pin + 1, pin + BlockData(size, Done))
              = Slice(DataBefore(size, Done), BlockData(size, Done))
         /\ pin + BlockData(size, Done) + Parity <= Len(enc)
         /\ \A j \in 1..BlockData(size, Done) :
              enc[pin + j] = Symbol(DataBefore(size, Done) + j)
<1> DEFINE n == Done
           w == BlockData(size, n)
           lo == DataBefore(size, n)
           u == Slice(lo, w)
           v == il2p_encode_rs(lo, w)
<1>1. /\ Count = payload_block_count(size) /\ Count \in Nat
      /\ n \in 0..(payload_block_count(size) - 1) /\ n + 1 \in 0..payload_block_count(size)
  BY BlockFacts DEF Count
<1>2. /\ w \in Nat \ {0} /\ lo \in Nat /\ PlaceOf(size, n) \in Nat /\ Parity \in Nat
      /\ PlaceOf(size, n + 1) = PlaceOf(size, n) + w + Parity
  BY <1>1, WalkFacts, Il2pCodecAssumption
<1>3. Encoded(Count) /\ pin = PlaceOf(size, n) /\ enc \in Seq(Sym)
  BY DEF IInv, ChannelInv, ReceiverInv, SeqInv
<1>4. Len(enc) = PlaceOf(size, Count) /\ Holds(n)
  BY <1>3 DEF Encoded
<1>5. PlaceOf(size, n + 1) <= Len(enc)
  BY <1>1, <1>4, PlaceBound
<1>6. /\ u \in Seq(Sym) /\ Len(u) = w /\ v \in Seq(Sym) /\ Len(v) = Parity
      /\ EncodedBlock(n) = u \o v
      /\ \A j \in 1..w : u[j] = Symbol(lo + j)
  <2>1. /\ u \in Seq(Sym) /\ Len(u) = w /\ v \in Seq(Sym) /\ Len(v) = Parity
        /\ \A k \in 1..w : u[k] = Symbol(lo + k)
    BY <1>2, BlockIsSequence
  <2>2. QED
    BY <2>1, <1>2 DEF EncodedBlock
<1>7. SubSeq(enc, pin + 1, pin + w + Parity) = u \o v
  BY <1>2, <1>3, <1>4, <1>6 DEF Holds
<1> HIDE DEF n, w, lo, u, v
<1>8. pin \in Nat /\ pin + w + Parity <= Len(enc)
  BY <1>2, <1>3, <1>5
<1>9. SubSeq(enc, pin + 1, pin + w) = u /\ enc[pin + 1] = u[1]
  <2>1. /\ enc \in Seq(Sym) /\ pin \in Nat /\ w \in Nat /\ w # 0 /\ Parity \in Nat
        /\ pin + w + Parity <= Len(enc)
        /\ u \in Seq(Sym) /\ v \in Seq(Sym) /\ Len(u) = w /\ Len(v) = Parity
    BY <1>2, <1>3, <1>6, <1>8
  <2>2. SubSeq(enc, pin + 1, pin + w) = u
    BY ONLY <2>1, <1>7, FirstPart
  <2>3. SubSeq(enc, pin + 1, pin + w)[1] = enc[pin + 1]
    BY ONLY <2>1, <1>7, FirstPart
  <2>4. QED
    BY <2>2, <2>3
<1>10. enc[pin + 1][1] - 1 = lo
  <2>1. 1 \in 1..w
    BY <1>2
  <2>2. u[1] = Symbol(lo + 1)
    BY <1>6, <2>1
  <2>3. QED
    BY <1>2, <1>9, <2>2 DEF Symbol
<1>11. IsCodeword(w)
  BY <1>7, <1>8, <1>10 DEF IsCodeword, u, v
<1>12. ASSUME NEW j \in 1..w
       PROVE  enc[pin + j] = Symbol(lo + j)
  <2>1. /\ enc \in Seq(Sym) /\ pin \in Nat /\ w \in Nat /\ pin + w <= Len(enc)
    BY <1>2, <1>3, <1>8, LenProperties
  <2>2. SubSeq(enc, pin + 1, pin + w)[j] = enc[pin + j]
    BY ONLY <2>1, PartOf
  <2>3. QED
    BY <2>2, <1>6, <1>9
<1>13. QED
  BY <1>8, <1>9, <1>11, <1>12 DEF u, w, lo, n

(* A turn of the receiver takes the next block off the walk; unless the    *)
(* block was damaged, its data follow what was decoded before, and if it   *)
(* was damaged beyond correction, what follows may be wrong.               *)
LEMMA DecodeKeeps ==
  ASSUME IInv, DecodeBlock
  PROVE  IInv'
<1>1. /\ size \in 1..MaxPayload /\ size' = size
      /\ pc \in Decoding /\ pc # "decoded" /\ pc' \in Decoding
      /\ CountInv' /\ b' \in 0..MaxBlocks
      /\ Done \in 0..Count
      /\ \/ /\ b' > b /\ Done < Count /\ Done' = Done + 1
            /\ BlockLength = BlockData(size, Done)
         \/ ~(b' > b) /\ Done' = Done
  BY DecodeTurn
<1>2. /\ enc' = enc /\ damaged' = damaged /\ beyond' = beyond /\ packet' = packet
      /\ b' > b => pin' = pin + BlockLength + Parity
      /\ ~(b' > b) => pin' = pin /\ out' = out /\ failed' = failed
  BY DEF DecodeBlock
<1>3. /\ enc \in Seq(Sym) /\ out \in Seq(Sym) /\ packet = NoPacket
      /\ Encoded(Count) /\ pin = PlaceOf(size, Done) /\ Len(out) = DataBefore(size, Done)
      /\ ~failed => Credible(out)
      /\ damaged = {} => ~failed /\ out = Slice(0, Len(out))
      /\ failed \in BOOLEAN /\ beyond \subseteq damaged
  BY <1>1, Il2pCodecAssumption
  DEF IInv, TypeOK, SeqInv, ChannelInv, ReceiverInv, Decoding
<1>4. /\ payload_block_count(size) \in Nat /\ Count = payload_block_count(size)
      /\ MaxEncoded \in Nat /\ MaxPayload \in Nat /\ Parity \in Nat
  BY <1>1, BlockFacts, MaxEncodedIsNat, Il2pCodecAssumption DEF Count
<1>5. Count' = Count /\ Encoded(Count)'
  BY <1>1, <1>2, <1>3, BlocksStay
<1>6. /\ Done' \in 0..Count
      /\ out' \in Seq(Sym) /\ failed' \in BOOLEAN
      /\ pin' = PlaceOf(size, Done') /\ Len(out') = DataBefore(size, Done')
      /\ ~failed' => Credible(out')
      /\ damaged' = {} => ~failed' /\ out' = Slice(0, Len(out'))
  <2>1. CASE b' > b
    <3> DEFINE n == Done
               w == BlockData(size, n)
    <3>1. n \in 0..(Count - 1) /\ Done' = n + 1 /\ Done' \in 0..Count
      BY <1>1, <1>4, <2>1
    <3>2. /\ w \in Nat /\ DataBefore(size, n) \in Nat
          /\ DataBefore(size, n + 1) = DataBefore(size, n) + w
          /\ PlaceOf(size, n + 1) = PlaceOf(size, n) + w + Parity
      BY <1>1, <1>4, <3>1, WalkFacts, Il2pCodecAssumption
    <3>3. /\ IsCodeword(w)
          /\ SubSeq(enc, pin + 1, pin + w) = Slice(DataBefore(size, n), w)
          /\ pin + w + Parity <= Len(enc)
          /\ \A j \in 1..w : enc[pin + j] = Symbol(DataBefore(size, n) + j)
      BY <1>1, <3>1, BlockAtHand
    <3>4. /\ pin' = pin + w + Parity
          /\ \/ out' = out \o Slice(DataBefore(size, n), w) /\ failed' = failed
             \/ /\ pin \in damaged
                /\ out' = out \o [k \in 1..w |-> NoSymbol] /\ failed' = TRUE
             \/ /\ pin \in beyond
                /\ out' = out \o [k \in 1..w |-> WrongSymbol] /\ failed' = failed
      BY <1>1, <1>2, <2>1, <3>3 DEF DecodeBlock
    <3> HIDE DEF n, w
    <3>5. pin' = PlaceOf(size, n + 1) /\ pin \in Nat
      BY <1>3, <3>2, <3>4, <3>1, <1>1, <1>4, WalkFacts DEF n
    <3>6. Len(out) = DataBefore(size, n)
      BY <1>3 DEF n
    <3>7. ASSUME NEW z \in Seq(Sym), Len(z) = w, out' = out \o z
          PROVE  /\ out' \in Seq(Sym) /\ Len(out') = DataBefore(size, n + 1)
                 /\ \A k \in 1..Len(out) : out'[k] = out[k]
                 /\ \A k \in (Len(out) + 1)..Len(out') :
                      k - Len(out) \in 1..w /\ out'[k] = z[k - Len(out)]
      <4>1. /\ out \o z \in Seq(Sym) /\ Len(out \o z) = Len(out) + Len(z)
            /\ \A k \in 1..(Len(out) + Len(z)) :
                 (out \o z)[k] = IF k <= Len(out) THEN out[k] ELSE z[k - Len(out)]
        BY <1>3, <3>7, ConcatProperties
      <4>2. Len(out) \in Nat /\ w \in Nat
        BY <3>2, <3>6
      <4>3. QED
        BY <4>1, <4>2, <3>2, <3>6, <3>7
    <3>8. CASE out' = out \o Slice(DataBefore(size, n), w) /\ failed' = failed
      <4> DEFINE z == Slice(DataBefore(size, n), w)
      <4>1. z \in Seq(Sym) /\ Len(z) = w /\ \A j \in 1..w : z[j] = Symbol(DataBefore(size, n) + j)
        BY <3>2, BlockIsSequence
      <4>2. out' = out \o z
        BY <3>8
      <4> HIDE DEF z
      <4>3. /\ out' \in Seq(Sym) /\ Len(out') = DataBefore(size, n + 1)
            /\ \A k \in 1..Len(out) : out'[k] = out[k]
            /\ \A k \in (Len(out) + 1)..Len(out') :
                 k - Len(out) \in 1..w /\ out'[k] = z[k - Len(out)]
        BY <3>7, <4>1, <4>2
      <4>4. ASSUME ~failed', NEW k \in 1..Len(out')
            PROVE  RightOrBeyond(out', k)
        <5>1. CASE k \in 1..Len(out)
          BY <1>3, <3>8, <4>3, <4>4, <5>1 DEF Credible, RightOrBeyond
        <5>2. CASE k \in (Len(out) + 1)..Len(out')
          <6>1. k - Len(out) \in 1..w /\ out'[k] = z[k - Len(out)]
            BY <4>3, <5>2
          <6>2. out'[k] = Symbol(DataBefore(size, n) + (k - Len(out)))
            BY <4>1, <6>1
          <6>3. DataBefore(size, n) + (k - Len(out)) = k
            BY <3>2, <3>6, <5>2
          <6>4. QED
            BY <6>2, <6>3 DEF RightOrBeyond
        <5>3. QED
          BY <3>2, <3>6, <4>3, <4>4, <5>1, <5>2
      <4>5. damaged' = {} => out' = Slice(0, Len(out'))
        <5> SUFFICES ASSUME damaged' = {} PROVE out' = Slice(0, Len(out'))
          OBVIOUS
        <5>1. out = Slice(0, DataBefore(size, n))
          BY <1>2, <1>3, <3>6
        <5>2. Slice(0, DataBefore(size, n)) \o Slice(DataBefore(size, n), w)
                = Slice(0, DataBefore(size, n) + w)
          BY <3>2, SliceJoins
        <5>3. QED
          BY <5>1, <5>2, <3>8, <4>3, <3>2
      <4>6. failed' \in BOOLEAN /\ (damaged' = {} => ~failed')
        BY <1>2, <1>3, <3>8
      <4>7. QED
        BY <3>1, <3>5, <4>3, <4>4, <4>5, <4>6 DEF Credible
    <3>9. CASE /\ pin \in damaged
               /\ out' = out \o [k \in 1..w |-> NoSymbol] /\ failed' = TRUE
      <4> DEFINE z == [k \in 1..w |-> NoSymbol]
      <4>1. z \in Seq(Sym) /\ Len(z) = w
        <5>1. NoSymbol \in Sym
          BY DEF NoSymbol, Sym
        <5>2. QED
          BY <5>1, <3>2
      <4>2. out' = out \o z
        BY <3>9
      <4> HIDE DEF z
      <4>3. out' \in Seq(Sym) /\ Len(out') = DataBefore(size, n + 1)
        BY <4>1, <4>2, <3>7
      <4>4. damaged' # {} /\ failed' = TRUE
        BY <3>9, <1>2
      <4>5. QED
        BY <3>1, <3>5, <4>3, <4>4
    <3>10. CASE /\ pin \in beyond
                /\ out' = out \o [k \in 1..w |-> WrongSymbol] /\ failed' = failed
      <4> DEFINE z == [k \in 1..w |-> WrongSymbol]
      <4>1. z \in Seq(Sym) /\ Len(z) = w /\ \A j \in 1..w : z[j] = WrongSymbol
        <5>1. WrongSymbol \in Sym
          BY DEF WrongSymbol, Sym
        <5>2. QED
          BY <5>1, <3>2
      <4>2. out' = out \o z
        BY <3>10
      <4> HIDE DEF z
      <4>3. /\ out' \in Seq(Sym) /\ Len(out') = DataBefore(size, n + 1)
            /\ \A k \in 1..Len(out) : out'[k] = out[k]
            /\ \A k \in (Len(out) + 1)..Len(out') :
                 k - Len(out) \in 1..w /\ out'[k] = z[k - Len(out)]
        BY <3>7, <4>1, <4>2
      <4>4. ASSUME ~failed', NEW k \in 1..Len(out')
            PROVE  RightOrBeyond(out', k)
        <5>1. CASE k \in 1..Len(out)
          BY <1>3, <3>10, <4>3, <4>4, <5>1 DEF Credible, RightOrBeyond
        <5>2. CASE k \in (Len(out) + 1)..Len(out')
          <6> DEFINE j == k - Len(out)
          <6>1. j \in 1..w /\ out'[k] = WrongSymbol
            BY <4>1, <4>3, <5>2
          <6>2. DataBefore(size, n) + j = k
            BY <3>2, <3>6, <5>2
          <6>3. enc[pin + j] = Symbol(k)
            BY <3>3, <6>1, <6>2
          <6>4. enc[pin + 1][1] = DataBefore(size, n) + 1
            <7>1. 1 \in 1..w
              BY <6>1, <3>2
            <7>2. enc[pin + 1] = Symbol(DataBefore(size, n) + 1)
              BY <3>3, <7>1
            <7>3. QED
              BY <7>2 DEF Symbol
          <6> HIDE DEF j
          <6>5. /\ pin + 1 + k - enc[pin + 1][1] = pin + j
                /\ k >= enc[pin + 1][1] /\ pin + j <= Len(enc)
            <7>1. Len(enc) \in Nat /\ Parity \in Nat /\ pin + w + Parity <= Len(enc)
              BY <1>3, <1>4, <3>3, LenProperties
            <7>2. /\ w \in Nat /\ pin \in Nat /\ DataBefore(size, n) \in Nat
                  /\ j \in 1..w /\ k = DataBefore(size, n) + j
              BY <3>2, <3>5, <6>1, <6>2
            <7> DEFINE d == DataBefore(size, n)
                       first == enc[pin + 1][1]
            <7>3. first = d + 1 /\ d \in Nat /\ k = d + j
              BY <6>4, <7>2
            <7> HIDE DEF d, first
            <7>4. pin + 1 + k - first = pin + j /\ k >= first /\ pin + j <= Len(enc)
              <8>1. j \in Nat /\ j >= 1 /\ j <= w
                BY ONLY <7>2
              <8>2. pin + 1 + (d + j) - (d + 1) = pin + j /\ d + j >= d + 1
                BY ONLY <7>2, <7>3, <8>1
              <8>3. pin + j <= Len(enc)
                BY ONLY <7>1, <7>2, <8>1
              <8>4. QED
                BY ONLY <7>3, <8>2, <8>3
            <7>5. QED
              BY <7>4 DEF first
          <6>6. InBlock(pin, k)
            BY <6>3, <6>5 DEF InBlock
          <6>7. QED
            BY <3>10, <6>1, <6>6 DEF RightOrBeyond
        <5>3. QED
          BY <3>2, <3>6, <4>3, <4>4, <5>1, <5>2
      <4>5. damaged' # {} /\ failed' \in BOOLEAN
        BY <1>2, <1>3, <3>10
      <4>6. QED
        BY <3>1, <3>5, <4>3, <4>4, <4>5 DEF Credible
    <3>11. QED
      BY <3>4, <3>8, <3>9, <3>10
  <2>2. CASE ~(b' > b)
    <3>1. Done' = Done /\ pin' = pin /\ out' = out /\ failed' = failed /\ damaged' = damaged
      BY <1>1, <1>2, <2>2
    <3>2. QED
      BY <3>1, <1>1, <1>3
  <2>3. QED
    BY <2>1, <2>2
<1>7. TypeOK'
  <2>1. DataBefore(size, Done') \in 0..size /\ PlaceOf(size, Done') \in 0..MaxEncoded
    <3>1. DataBefore(size, Done') \in 0..size
          /\ PlaceOf(size, Done') \in 0..PlaceOf(size, payload_block_count(size))
      BY <1>1, <1>4, <1>6, PlaceBound
    <3>2. PlaceOf(size, payload_block_count(size)) <= MaxEncoded
          /\ PlaceOf(size, payload_block_count(size)) \in Int
      BY <1>1, <1>4, WalkEnds, PlaceBound
    <3>3. QED
      BY <3>1, <3>2, <1>4
  <2>2. pin' \in 0..MaxEncoded /\ Len(out') <= MaxPayload
    BY <2>1, <1>1, <1>4, <1>6
  <2>3. Len(enc') <= MaxEncoded
    BY <1>2 DEF IInv, TypeOK
  <2>4. failed' \in BOOLEAN /\ packet'.kind \in {"NULL", "packet"}
    BY <1>2, <1>6 DEF IInv, TypeOK
  <2>5. pc' \in {"decode_large", "decode_small", "decoded"} /\ size' \in Nat /\ size' <= MaxPayload
    BY <1>1, <1>4 DEF Decoding
  <2>6. QED
    BY <2>2, <2>3, <2>4, <2>5, <1>1 DEF TypeOK
<1>8. SenderInv' /\ SeqInv'
  BY <1>1, <1>2, <1>3, <1>6 DEF SenderInv, SeqInv, Encoding, Decoding
<1>9. ChannelInv' /\ (pc # "idle" => packet = NoPacket)'
  BY <1>1, <1>2, <1>3, <1>5 DEF ChannelInv, Encoding, Decoding
<1>10. ReceiverInv'
  <2>1. ~failed' => Credible(out)'
    BY <1>2, <1>6 DEF Credible, RightOrBeyond, InBlock, Symbol
  <2>2. QED
    BY <1>1, <1>6, <2>1 DEF ReceiverInv, Slice, Symbol
<1>11. DeliveredIntact'
  BY <1>2, <1>3 DEF DeliveredIntact, NoPacket
<1>12. QED
  BY <1>1, <1>7, <1>8, <1>9, <1>10, <1>11 DEF IInv

(* A decoder that never returns changes nothing more.                      *)
LEMMA StuckKeeps ==
  ASSUME IInv, NeverReturns
  PROVE  IInv'
<1>1. /\ pc \in {"decode_large", "decode_small"} /\ pc' = "stuck"
      /\ size' = size /\ b' = b /\ pin' = pin /\ enc' = enc
      /\ damaged' = damaged /\ beyond' = beyond
      /\ out' = out /\ failed' = failed /\ packet' = packet
  BY DEF NeverReturns
<1>2. TypeOK'
  BY <1>1 DEF IInv, TypeOK
<1>3. SeqInv' /\ CountInv' /\ SenderInv' /\ ChannelInv' /\ ReceiverInv'
  BY <1>1 DEF IInv, SeqInv, CountInv, SenderInv, ChannelInv, ReceiverInv, Encoding, Decoding
<1>4. DeliveredIntact' /\ (pc # "idle" => packet = NoPacket)'
  BY <1>1 DEF IInv, DeliveredIntact, NoPacket
<1>5. QED
  BY <1>2, <1>3, <1>4 DEF IInv

(* Only an unfailed payload is delivered, and it is the one that was sent, *)
(* but for the blocks beyond correction.                                   *)
LEMMA FinishKeeps ==
  ASSUME IInv, Finish
  PROVE  IInv'
<1>1. /\ pc = "decoded" /\ pc' = "idle"
      /\ size' = size /\ b' = b /\ pin' = pin /\ enc' = enc
      /\ damaged' = damaged /\ beyond' = beyond /\ out' = << >> /\ failed' = failed
      /\ \/ packet' = NoPacket
         \/ ~failed /\ Len(out) = size /\ packet' = Packet(out)
  BY DEF Finish
<1>2. TypeOK'
  <2>1. packet'.kind \in {"NULL", "packet"}
    BY <1>1 DEF NoPacket, Packet
  <2>2. Len(out') <= MaxPayload
    BY <1>1, EmptySeq, Il2pCodecAssumption
  <2>3. QED
    BY <1>1, <2>1, <2>2 DEF IInv, TypeOK
<1>3. SeqInv' /\ CountInv' /\ SenderInv' /\ ChannelInv' /\ ReceiverInv'
  BY <1>1, EmptySeq DEF IInv, SeqInv, CountInv, SenderInv, ChannelInv, ReceiverInv, Encoding, Decoding
<1>4. DeliveredIntact'
  <2>1. CASE packet' = NoPacket
    BY <2>1 DEF DeliveredIntact, NoPacket
  <2>2. CASE ~failed /\ Len(out) = size /\ packet' = Packet(out)
    <3>1. \A k \in 1..size : RightOrBeyond(out, k)
      BY <1>1, <2>2 DEF IInv, ReceiverInv, Decoding, Credible
    <3>2. packet'.info = out
      BY <2>2 DEF Packet
    <3>3. \A k \in 1..size' :
            \/ packet'.info[k] = Symbol(k)
            \/ packet'.info[k] = WrongSymbol /\ \E p \in beyond' : InBlock(p, k)'
      BY <1>1, <3>1, <3>2 DEF RightOrBeyond, InBlock
    <3>4. QED
      BY <1>1, <2>2, <3>2, <3>3 DEF DeliveredIntact
  <2>3. QED
    BY <1>1, <2>1, <2>2
<1>5. QED
  BY <1>1, <1>2, <1>3, <1>4 DEF IInv

(* A step that changes nothing keeps everything.                           *)
LEMMA StutterKeeps ==
  ASSUME IInv, UNCHANGED vars
  PROVE  IInv'
<1>1. /\ pc' = pc /\ size' = size /\ b' = b /\ pin' = pin /\ enc' = enc
      /\ damaged' = damaged /\ beyond' = beyond
      /\ out' = out /\ failed' = failed /\ packet' = packet
  BY DEF vars
<1>2. TypeOK' /\ SeqInv' /\ CountInv' /\ DeliveredIntact' /\ (pc # "idle" => packet = NoPacket)'
  BY <1>1 DEF IInv, TypeOK, SeqInv, CountInv, DeliveredIntact, InBlock
<1>3. Done' = Done /\ Count' = Count
  BY <1>1 DEF Done, Count
<1>4. \A n : Encoded(n)' = Encoded(n)
  <2>1. \A k : Holds(k)' = Holds(k)
    BY <1>1 DEF Holds, EncodedBlock
  <2>2. QED
    BY <2>1, <1>1 DEF Encoded
<1>5. SenderInv' /\ ChannelInv' /\ ReceiverInv'
  <2>1. Encoded(Done)' = Encoded(Done) /\ Encoded(Count)' = Encoded(Count)
    BY <1>1, <1>3, <1>4 DEF Encoded, Holds, EncodedBlock
  <2>2. QED
    BY <1>1, <1>3, <2>1 DEF IInv, SenderInv, ChannelInv, ReceiverInv, Credible, RightOrBeyond,
       InBlock
<1>6. QED
  BY <1>2, <1>5 DEF IInv

-----------------------------------------------------------------------------
(* What the invariant says.                                                *)

(* The invariant of the walk holds throughout.                             *)
THEOREM WalkInvariant == Spec => []IInv
<1>1. ASSUME IInv, [Next]_vars PROVE IInv'
  BY <1>1, FrameKeeps, EncodeKeeps, TransmitKeeps, HeaderKeeps, DecodeKeeps,
     StuckKeeps, FinishKeeps, StutterKeeps DEF Next
<1>2. QED
  BY <1>1, InitIInv, PTL DEF Spec

(* Type correctness of the codec, for every size of block and payload      *)
(* (il2p_payload.c, il2p_codec.c).                                         *)
THEOREM CodecTypeCorrect == Spec => []TypeOK
<1>1. IInv => TypeOK
  BY DEF IInv
<1>2. QED
  BY <1>1, WalkInvariant, PTL

(* A packet that comes out has the length of the information part that     *)
(* went in and every byte of it at its place, but for those of a block     *)
(* with more damage than its parity corrects, whatever becomes of the      *)
(* other blocks (il2p_codec.c:87, il2p_payload.c:183).                     *)
THEOREM CodecDeliversIntact == Spec => []DeliveredIntact
<1>1. IInv => DeliveredIntact
  BY DEF IInv
<1>2. QED
  BY <1>1, WalkInvariant, PTL

(* What is sent is as long as the receiver computes from the header, and   *)
(* fits the receiver's buffer (il2p_rec.c:70).                             *)
THEOREM CodecLengthAnnounced == Spec => []LengthAnnounced
<1>1. ASSUME IInv PROVE LengthAnnounced
  <2> SUFFICES ASSUME pc \in {"sent", "received"}
               PROVE  Len(enc) = il2p_payload_compute(size) /\ Len(enc) <= MaxEncoded
    BY DEF LengthAnnounced
  <2>1. size \in 0..MaxPayload /\ MaxPayload \in Nat /\ MaxEncoded \in Nat
    BY <1>1, MaxEncodedIsNat, Il2pCodecAssumption DEF IInv, TypeOK
  <2>2. CASE size = 0
    <3>1. enc = << >>
      BY <1>1, <2>2 DEF IInv, ChannelInv
    <3>2. QED
      BY <2>1, <2>2, <3>1, EmptySeq DEF il2p_payload_compute
  <2>3. CASE size # 0
    <3>1. size > 0 /\ size \in 1..MaxPayload
      BY <2>1, <2>3
    <3>2. Encoded(Count)
      BY <1>1, <3>1 DEF IInv, SenderInv, ChannelInv, Encoding, Decoding, Done
    <3>3. QED
      BY <3>1, <3>2, WalkEnds DEF Encoded, Count
  <2>4. QED
    BY <2>2, <2>3
<1>2. QED
  BY <1>1, WalkInvariant, PTL

(* With nothing damaged the receiver recovers the whole information part   *)
(* (il2p_payload.c:143-181).                                               *)
THEOREM CodecRecoversClean == Spec => []CleanIsRecovered
<1>1. ASSUME IInv PROVE CleanIsRecovered
  <2> SUFFICES ASSUME pc = "decoded", damaged = {}
               PROVE  ~failed /\ out = Slice(0, size)
    BY DEF CleanIsRecovered
  <2>1. size \in 1..MaxPayload
    BY <1>1, Il2pCodecAssumption DEF IInv, TypeOK, CountInv, Encoding, Decoding
  <2>2. ~failed /\ out = Slice(0, Len(out)) /\ Len(out) = DataBefore(size, Count)
    BY <1>1 DEF IInv, ReceiverInv, Decoding, Done
  <2>3. DataBefore(size, Count) = size
    BY <2>1, WalkEnds DEF Count
  <2>4. QED
    BY <2>2, <2>3
<1>2. QED
  BY <1>1, WalkInvariant, PTL

(* Every block has data and fits a Reed-Solomon block, and neither side    *)
(* reads or writes beyond its arrays (il2p_payload.c:81-115, 143-181).     *)
THEOREM CodecBlocksFit == Spec => []BlocksFit
<1>1. ASSUME IInv PROVE BlocksFit
  <2> DEFINE n == Done
             w == BlockData(size, n)
             ahead == Ahead("encode_large", "encode_small") \/ Ahead("decode_large", "decode_small")
  <2>1. CASE ahead
    <3>1. /\ pc \in {"encode_large", "encode_small", "decode_large", "decode_small"}
          /\ size \in 1..MaxPayload
      BY <1>1, <2>1, Il2pCodecAssumption
      DEF Ahead, IInv, TypeOK, CountInv, Encoding, Decoding
    <3>2. /\ payload_block_count(size) \in Nat /\ Count = payload_block_count(size)
          /\ large_block_count(size) \in 0..(payload_block_count(size) - 1)
          /\ small_block_count(size) = payload_block_count(size) - large_block_count(size)
      BY <3>1, BlockFacts DEF Count, small_block_count
    <3>3. n \in 0..(payload_block_count(size) - 1) /\ BlockLength = w
      <4>1. CASE pc \in {"encode_large", "decode_large"}
        <5>1. b \in Nat /\ b < large_block_count(size) /\ n = b
          BY <1>1, <2>1, <4>1, <3>2 DEF Ahead, IInv, CountInv, Done
        <5>2. QED
          BY <4>1, <5>1, <3>2 DEF BlockLength, BlockData
      <4>2. CASE pc \in {"encode_small", "decode_small"}
        <5>1. b \in Nat /\ b < small_block_count(size) /\ n = large_block_count(size) + b
          BY <1>1, <2>1, <4>2, <3>2 DEF Ahead, IInv, CountInv, Done
        <5>2. n \in 0..(payload_block_count(size) - 1) /\ ~(n < large_block_count(size))
          BY <5>1, <3>2
        <5>3. QED
          BY <4>2, <5>2 DEF BlockLength, BlockData
      <4>3. QED
        BY <3>1, <4>1, <4>2
    <3>4. /\ w \in 1..DataMax /\ DataBefore(size, n) \in Nat
          /\ DataBefore(size, n + 1) = DataBefore(size, n) + w
          /\ DataBefore(size, n + 1) <= size
      BY <3>1, <3>3, WalkFacts
    <3> HIDE DEF n, w
    <3>5. BlockLength \in 1..(BlockSize - Parity) /\ DataBefore(size, n) + BlockLength <= size
      BY <3>1, <3>3, <3>4, Il2pCodecAssumption
    <3>6. pc \in {"encode_large", "encode_small"} => pin = DataBefore(size, n)
      BY <1>1, <3>1 DEF IInv, SenderInv, Encoding, n
    <3>7. pc \in {"decode_large", "decode_small"} =>
            Len(out) = DataBefore(size, n) /\ pin + BlockLength + Parity <= Len(enc)
      <4> SUFFICES ASSUME pc \in {"decode_large", "decode_small"}
                   PROVE  Len(out) = DataBefore(size, n) /\ pin + BlockLength + Parity <= Len(enc)
        OBVIOUS
      <4>1. pc \in Decoding /\ Done \in 0..(Count - 1)
        BY <3>2, <3>3 DEF Decoding, n
      <4>2. pin + BlockData(size, Done) + Parity <= Len(enc)
        BY <1>1, <3>1, <4>1, BlockAtHand
      <4>3. QED
        BY <1>1, <3>3, <4>1, <4>2 DEF IInv, ReceiverInv, n, w
    <3>8. QED
      BY <3>5, <3>6, <3>7 DEF BlocksFit, Ahead
  <2>2. CASE ~ahead
    BY <2>2 DEF BlocksFit
  <2>3. QED
    BY <2>1, <2>2
<1>2. QED
  BY <1>1, WalkInvariant, PTL

-----------------------------------------------------------------------------
(* The numbers in a header: their bits.                                    *)

(* The powers of two up to the width of a field.                           *)
LEMMA Powers ==
  /\ 2^0 = 1 /\ 2^1 = 2 /\ 2^2 = 4 /\ 2^3 = 8 /\ 2^4 = 16 /\ 2^5 = 32
  /\ 2^6 = 64 /\ 2^7 = 128 /\ 2^8 = 256 /\ 2^9 = 512 /\ 2^10 = 1024
  OBVIOUS

(* Two to the power i.                                                     *)
Two == [i \in 0..10 |->
          CASE i = 0 -> 1 [] i = 1 -> 2 [] i = 2 -> 4 [] i = 3 -> 8 [] i = 4 -> 16 [] i = 5 -> 32
            [] i = 6 -> 64 [] i = 7 -> 128 [] i = 8 -> 256 [] i = 9 -> 512 [] i = 10 -> 1024]

(* Which number 2^i is.                                                    *)
LEMMA PowerIs ==
  ASSUME NEW i \in 0..10
  PROVE  2^i = Two[i]
<1>1. i \in {0, 1, 2, 3, 4, 5, 6, 7, 8, 9, 10}
  OBVIOUS
<1>2. CASE i = 0
  BY <1>2, Powers DEF Two
<1>3. CASE i = 1
  BY <1>3, Powers DEF Two
<1>4. CASE i = 2
  BY <1>4, Powers DEF Two
<1>5. CASE i = 3
  BY <1>5, Powers DEF Two
<1>6. CASE i = 4
  BY <1>6, Powers DEF Two
<1>7. CASE i = 5
  BY <1>7, Powers DEF Two
<1>8. CASE i = 6
  BY <1>8, Powers DEF Two
<1>9. CASE i = 7
  BY <1>9, Powers DEF Two
<1>10. CASE i = 8
  BY <1>10, Powers DEF Two
<1>11. CASE i = 9
  BY <1>11, Powers DEF Two
<1>12. CASE i = 10
  BY <1>12, Powers DEF Two
<1>13. QED
  BY <1>1, <1>2, <1>3, <1>4, <1>5, <1>6, <1>7, <1>8, <1>9, <1>10, <1>11, <1>12

Power(i) == 2^i

(* The powers grow, and each is twice the one before.                      *)
LEMMA PowerFacts ==
  /\ \A i \in 0..10 : Power(i) \in Nat \ {0} /\ Power(i) <= 1024
  /\ \A w \in 0..10, i \in 0..10 : w <= i => Power(w) <= Power(i)
<1>1. /\ \A i \in 0..10 : Two[i] \in Nat \ {0} /\ Two[i] <= 1024
      /\ \A w \in 0..10, i \in 0..10 : w <= i => Two[w] <= Two[i]
  BY DEF Two
<1>2. QED
  BY <1>1, PowerIs DEF Power

(* Halving.                                                                *)
LEMMA Halves ==
  ASSUME NEW v \in Nat
  PROVE  /\ v \div 1 = v
         /\ v \div 4 = (v \div 2) \div 2
         /\ v \div 8 = (v \div 4) \div 2
         /\ v \div 16 = (v \div 8) \div 2
         /\ v \div 32 = (v \div 16) \div 2
         /\ v \div 64 = (v \div 32) \div 2
         /\ v \div 128 = (v \div 64) \div 2
         /\ v \div 256 = (v \div 128) \div 2
         /\ v \div 512 = (v \div 256) \div 2
  OBVIOUS

(* A number is twice its half and its lowest bit.                          *)
LEMMA HalfAndBit ==
  ASSUME NEW u \in Nat, NEW v \in Nat, u \div 2 = v \div 2, u % 2 = v % 2
  PROVE  u = v
  OBVIOUS

(* A bit is 0 or 1.                                                        *)
LEMMA BitIsBit ==
  ASSUME NEW v \in Nat, NEW i \in 0..10
  PROVE  Bit(v, i) \in {0, 1} /\ v \div Power(i) \in Nat
<1>1. Power(i) \in Nat \ {0}
  BY PowerFacts
<1>2. \A d \in Nat \ {0} : v \div d \in Nat
  OBVIOUS
<1>3. v \div Power(i) \in Nat
  BY <1>1, <1>2
<1>4. QED
  BY <1>3 DEF Bit, Power

(* Two numbers of ten bits with the same bits.                             *)
BitsAgree(u, v) ==
  /\ u \in 0..1023 /\ v \in 0..1023
  /\ \A i \in 0..9 : Bit(u, i) = Bit(v, i)

(* A number of ten bits is known by its bits.                              *)
LEMMA SameBits ==
  ASSUME NEW u, NEW v, BitsAgree(u, v)
  PROVE  u = v
<1>0. u \in 0..1023 /\ v \in 0..1023
  BY DEF BitsAgree
<1>1. /\ (u \div 1) % 2 = (v \div 1) % 2 /\ (u \div 2) % 2 = (v \div 2) % 2
      /\ (u \div 4) % 2 = (v \div 4) % 2 /\ (u \div 8) % 2 = (v \div 8) % 2
      /\ (u \div 16) % 2 = (v \div 16) % 2 /\ (u \div 32) % 2 = (v \div 32) % 2
      /\ (u \div 64) % 2 = (v \div 64) % 2 /\ (u \div 128) % 2 = (v \div 128) % 2
      /\ (u \div 256) % 2 = (v \div 256) % 2 /\ (u \div 512) % 2 = (v \div 512) % 2
  BY <1>0, Powers DEF Bit, BitsAgree, Power
<1>2. u \div 512 = v \div 512
  <2>1. \A w \in 0..1023 : (w \div 512) % 2 = w \div 512
    OBVIOUS
  <2>2. QED
    BY <1>0, <1>1, <2>1
<1>3. u \div 256 = v \div 256
  BY <1>0, <1>1, <1>2, Halves, HalfAndBit
<1>4. u \div 128 = v \div 128
  BY <1>0, <1>1, <1>3, Halves, HalfAndBit
<1>5. u \div 64 = v \div 64
  BY <1>0, <1>1, <1>4, Halves, HalfAndBit
<1>6. u \div 32 = v \div 32
  BY <1>0, <1>1, <1>5, Halves, HalfAndBit
<1>7. u \div 16 = v \div 16
  BY <1>0, <1>1, <1>6, Halves, HalfAndBit
<1>8. u \div 8 = v \div 8
  BY <1>0, <1>1, <1>7, Halves, HalfAndBit
<1>9. u \div 4 = v \div 4
  BY <1>0, <1>1, <1>8, Halves, HalfAndBit
<1>10. u \div 2 = v \div 2
  BY <1>0, <1>1, <1>9, Halves, HalfAndBit
<1>11. QED
  BY <1>0, <1>1, <1>10, Halves, HalfAndBit

(* A number of w bits, of which those above are 0.                         *)
Fits(v, w) == v \in 0..(Power(w) - 1)

LEMMA HighBits ==
  ASSUME NEW w, NEW v, NEW i, w \in 0..10, Fits(v, w), i \in 0..9, w <= i
  PROVE  Bit(v, i) = 0
<1>1. Power(w) \in Nat /\ Power(w) <= Power(i) /\ Power(i) \in Nat \ {0}
  <2>1. i \in 0..10
    OBVIOUS
  <2>2. QED
    BY <2>1, PowerFacts
<1>2. v \in Nat /\ v < Power(i)
  BY <1>1 DEF Fits
<1>3. \A d \in Nat \ {0} : \A x \in Nat : x < d => x \div d = 0
  OBVIOUS
<1>4. v \div Power(i) = 0
  BY <1>1, <1>2, <1>3
<1>5. QED
  BY <1>4 DEF Bit, Power

(* A number of w bits is less than the power of w.                         *)
LEMMA Width ==
  ASSUME NEW w \in 0..10, NEW v \in 0..(Power(w) - 1)
  PROVE  v \in 0..1023
<1>1. Power(w) \in Nat /\ Power(w) <= 1024
  BY PowerFacts
<1>2. QED
  BY <1>1

(* A number of w bits is the only one with its bits.                       *)
LEMMA OnlyOne ==
  ASSUME NEW w \in 0..10, NEW u \in 0..(Power(w) - 1), NEW v \in 0..(Power(w) - 1),
         \A i \in 0..(w - 1) : Bit(u, i) = 1 <=> Bit(v, i) = 1
  PROVE  u = v
<1>0. Fits(u, w) /\ Fits(v, w)
  BY DEF Fits
<1>1. u \in 0..1023 /\ v \in 0..1023
  BY Width
<1>2. ASSUME NEW i \in 0..9
      PROVE  Bit(u, i) = Bit(v, i)
  <2>1. CASE i \in 0..(w - 1)
    <3>1. Bit(u, i) = 1 <=> Bit(v, i) = 1
      BY <2>1
    <3>2. u \in Nat /\ v \in Nat /\ i \in 0..10
      BY <1>1
    <3>3. Bit(u, i) \in {0, 1} /\ Bit(v, i) \in {0, 1}
      BY <3>2, BitIsBit
    <3>4. QED
      BY <3>1, <3>3
  <2>2. CASE w <= i
    <3>1. Bit(u, i) = 0
      BY <1>0, <2>2, HighBits
    <3>2. Bit(v, i) = 0
      BY <1>0, <2>2, HighBits
    <3>3. QED
      BY <3>1, <3>2
  <2>3. i \in 0..(w - 1) \/ w <= i
    OBVIOUS
  <2>4. QED
    BY <2>1, <2>2, <2>3
<1>3. BitsAgree(u, v)
  BY <1>1, <1>2 DEF BitsAgree
<1>4. QED
  BY <1>3, SameBits

(* A field, or the low bits of an octet, of a header that hold a number.   *)
HoldsField(h, bit_num, lsb, w, v) ==
  \A i \in 0..(w - 1) : Bit(v, i) = 1 <=> <<lsb - i, bit_num>> \in h
HoldsOctet(h, o, w, v) ==
  \A j \in 0..(w - 1) : Bit(v, j) = 1 <=> <<o, j>> \in h

(* What a field holds is what is read of it.                               *)
LEMMA FieldRead ==
  ASSUME NEW h, NEW bit_num, NEW lsb, NEW w, NEW v, w \in 0..10, v \in 0..(Power(w) - 1),
         HoldsField(h, bit_num, lsb, w, v)
  PROVE  get_field(h, bit_num, lsb, w) = v
<1> DEFINE Reads(x) == \A i \in 0..(w - 1) : Bit(x, i) = 1 <=> <<lsb - i, bit_num>> \in h
           g == CHOOSE x \in 0..(Power(w) - 1) : Reads(x)
<1>1. g \in 0..(Power(w) - 1) /\ Reads(g)
  <2>1. \E x \in 0..(Power(w) - 1) : Reads(x)
    BY DEF HoldsField
  <2> HIDE DEF Reads
  <2>2. QED
    BY <2>1
<1>2. g = v
  <2>1. \A i \in 0..(w - 1) : Bit(g, i) = 1 <=> Bit(v, i) = 1
    BY <1>1 DEF HoldsField
  <2> HIDE DEF g
  <2>2. QED
    BY <1>1, <2>1, OnlyOne
<1>3. QED
  BY <1>2 DEF get_field, Power

(* What an octet holds is what is read.                                    *)
LEMMA OctetRead ==
  ASSUME NEW h, NEW o, NEW w, NEW v, w \in 0..10, v \in 0..(Power(w) - 1),
         HoldsOctet(h, o, w, v)
  PROVE  GetOctet(h, o, w) = v
<1> DEFINE Reads(x) == \A j \in 0..(w - 1) : Bit(x, j) = 1 <=> <<o, j>> \in h
           g == CHOOSE x \in 0..(Power(w) - 1) : Reads(x)
<1>1. g \in 0..(Power(w) - 1) /\ Reads(g)
  <2>1. \E x \in 0..(Power(w) - 1) : Reads(x)
    BY DEF HoldsOctet
  <2> HIDE DEF Reads
  <2>2. QED
    BY <2>1
<1>2. g = v
  <2>1. \A i \in 0..(w - 1) : Bit(g, i) = 1 <=> Bit(v, i) = 1
    BY <1>1 DEF HoldsOctet
  <2> HIDE DEF g
  <2>2. QED
    BY <1>1, <2>1, OnlyOne
<1>3. QED
  BY <1>2 DEF GetOctet, Power

-----------------------------------------------------------------------------
(* Names.                                                                  *)

Padded(s) == [i \in 1..6 |-> IF i <= Len(s) THEN s[i] ELSE Space]

(* Where a name ends that is followed by spaces only.                      *)
EndsAt(name, m) ==
  /\ m \in 0..Len(name)
  /\ m = 0 \/ name[m] # Space
  /\ \A i \in (m + 1)..Len(name) : name[i] = Space

(* A name ends at one place.                                               *)
LEMMA EndsOnce ==
  ASSUME NEW name, name \in Seq(Nat), NEW m, NEW n, EndsAt(name, m), EndsAt(name, n)
  PROVE  m = n
<1>1. Len(name) \in Nat
  OBVIOUS
<1>2. m \in 0..Len(name) /\ n \in 0..Len(name)
  BY DEF EndsAt
<1>3. ~(m < n)
  <2>1. SUFFICES ASSUME m < n PROVE FALSE
    OBVIOUS
  <2>2. n \in (m + 1)..Len(name)
    BY <1>1, <1>2, <2>1
  <2>3. QED
    BY <1>2, <2>1, <2>2 DEF EndsAt
<1>4. ~(n < m)
  <2>1. SUFFICES ASSUME n < m PROVE FALSE
    OBVIOUS
  <2>2. m \in (n + 1)..Len(name)
    BY <1>1, <1>2, <2>1
  <2>3. QED
    BY <1>2, <2>1, <2>2 DEF EndsAt
<1>5. QED
  BY <1>1, <1>2, <1>3, <1>4

(* Names have six characters at most.                                      *)
LEMMA EndsSomewhere ==
  ASSUME NEW name, name \in Seq(Nat), Len(name) <= 6
  PROVE  \E m : EndsAt(name, m)
<1> DEFINE S(i) == i <= Len(name) => name[i] = Space
           E(m) == m <= Len(name) /\ (m = 0 \/ name[m] # Space)
<1>1. Len(name) \in Nat
  OBVIOUS
<1>2. \A m \in 0..6 : E(m) /\ (\A i \in (m + 1)..6 : S(i)) => EndsAt(name, m)
  BY <1>1 DEF EndsAt
<1>3. \A i \in 1..6 : E(i) \/ S(i)
  OBVIOUS
<1>4. E(0)
  BY <1>1
<1> HIDE DEF S, E
<1>5. \/ E(6)
      \/ S(6) /\ E(5)
      \/ S(6) /\ S(5) /\ E(4)
      \/ S(6) /\ S(5) /\ S(4) /\ E(3)
      \/ S(6) /\ S(5) /\ S(4) /\ S(3) /\ E(2)
      \/ S(6) /\ S(5) /\ S(4) /\ S(3) /\ S(2) /\ E(1)
      \/ S(6) /\ S(5) /\ S(4) /\ S(3) /\ S(2) /\ S(1) /\ E(0)
  BY <1>3, <1>4
<1>6. \E m \in 0..6 : E(m) /\ (\A i \in (m + 1)..6 : S(i))
  BY <1>5
<1>7. QED
  BY <1>2, <1>6

(* What the CHOOSE of Trimmed chooses.                                     *)
LEMMA TrimmedIs ==
  ASSUME NEW name, name \in Seq(Nat), NEW m, EndsAt(name, m)
  PROVE  Trimmed(name) = SubSeq(name, 1, m)
<1> DEFINE End(x) == /\ x = 0 \/ name[x] # Space
                     /\ \A i \in (x + 1)..Len(name) : name[i] = Space
           n == CHOOSE x \in 0..Len(name) : End(x)
<1>1. n \in 0..Len(name) /\ End(n)
  <2>1. \E x \in 0..Len(name) : End(x)
    BY DEF EndsAt
  <2> HIDE DEF End
  <2>2. QED
    BY <2>1
<1>2. EndsAt(name, n)
  BY <1>1 DEF EndsAt
<1>3. Trimmed(name) = SubSeq(name, 1, n)
  BY DEF Trimmed
<1> HIDE DEF n
<1>4. n = m
  BY <1>2, EndsOnce
<1>5. QED
  BY <1>3, <1>4

(* The part of a name before its trailing spaces.                          *)
LEMMA SubSeqFacts ==
  ASSUME NEW s, s \in Seq(Nat), NEW m, m \in 0..Len(s)
  PROVE  /\ SubSeq(s, 1, m) \in Seq(Nat)
         /\ Len(SubSeq(s, 1, m)) = m
         /\ \A i \in 1..m : SubSeq(s, 1, m)[i] = s[i]
<1>1. Len(s) \in Nat
  OBVIOUS
<1>2. \A i \in 1..m : s[i] \in Nat
  BY <1>1
<1>3. QED
  BY <1>1, <1>2

(* A trimmed name is the beginning of the name.                            *)
LEMMA TrimmedFacts ==
  ASSUME NEW name, name \in Seq(Nat), Len(name) <= 6
  PROVE  \E m : /\ EndsAt(name, m)
                /\ Trimmed(name) = SubSeq(name, 1, m)
                /\ Trimmed(name) \in Seq(Nat)
                /\ Len(Trimmed(name)) = m
                /\ m <= 6
                /\ \A i \in 1..m : Trimmed(name)[i] = name[i]
<1>1. PICK m : EndsAt(name, m)
  BY EndsSomewhere
<1>2. m \in 0..Len(name) /\ Len(name) \in Nat
  BY <1>1 DEF EndsAt
<1>3. Trimmed(name) = SubSeq(name, 1, m)
  BY <1>1, TrimmedIs
<1>4. QED
  BY <1>1, <1>2, <1>3, SubSeqFacts

(* A trimmed name ends where it ends.                                      *)
LEMMA TrimmedTwice ==
  ASSUME NEW name, name \in Seq(Nat), Len(name) <= 6
  PROVE  Trimmed(Trimmed(name)) = Trimmed(name)
<1> DEFINE t == Trimmed(name)
<1>1. PICK m : /\ EndsAt(name, m) /\ t \in Seq(Nat) /\ Len(t) = m
               /\ \A i \in 1..m : t[i] = name[i]
  BY TrimmedFacts
<1> HIDE DEF t
<1>2. m \in Nat /\ Len(t) \in Nat
  BY <1>1
<1>3. EndsAt(t, m)
  <2>1. m = 0 \/ t[m] # Space
    BY <1>1, <1>2 DEF EndsAt
  <2>2. QED
    BY <1>1, <1>2, <2>1 DEF EndsAt
<1>4. Trimmed(t) = SubSeq(t, 1, m)
  BY <1>1, <1>3, TrimmedIs
<1>5. SubSeq(t, 1, m) = t
  BY <1>1, <1>2
<1>6. QED
  BY <1>4, <1>5 DEF t

(* A padded name has six characters.                                       *)
LEMMA PaddedIsSeq ==
  ASSUME NEW s, s \in Seq(Nat)
  PROVE  /\ Padded(s) \in Seq(Nat) /\ Len(Padded(s)) = 6
         /\ \A i \in 1..6 : Padded(s)[i] = IF i <= Len(s) THEN s[i] ELSE Space
<1>1. Len(s) \in Nat /\ \A i \in 1..6 : (IF i <= Len(s) THEN s[i] ELSE Space) \in Nat
  BY DEF Space
<1>2. QED
  BY <1>1 DEF Padded

(* Spaces at the end of a name make no difference.                         *)
LEMMA TrimmedPadded ==
  ASSUME NEW s, s \in Seq(Nat), Len(s) <= 6
  PROVE  Trimmed(Padded(s)) = Trimmed(s)
<1> DEFINE p == Padded(s)
<1>1. PICK m : /\ EndsAt(s, m) /\ Trimmed(s) = SubSeq(s, 1, m) /\ Trimmed(s) \in Seq(Nat)
               /\ Len(Trimmed(s)) = m /\ m <= 6
               /\ \A i \in 1..m : Trimmed(s)[i] = s[i]
  BY TrimmedFacts
<1>2. m \in 0..Len(s) /\ Len(s) \in Nat
  BY <1>1 DEF EndsAt
<1>3. p \in Seq(Nat) /\ Len(p) = 6 /\ \A i \in 1..6 : p[i] = IF i <= Len(s) THEN s[i] ELSE Space
  BY PaddedIsSeq
<1> HIDE DEF p
<1>4. EndsAt(p, m)
  <2>1. m = 0 \/ p[m] # Space
    BY <1>1, <1>2, <1>3 DEF EndsAt
  <2>2. ASSUME NEW i \in (m + 1)..6 PROVE p[i] = Space
    <3>1. i \in 1..6
      BY <1>2
    <3>2. CASE i <= Len(s)
      <4>1. i \in (m + 1)..Len(s)
        BY <1>2, <3>2
      <4>2. s[i] = Space
        BY <4>1, <1>1 DEF EndsAt
      <4>3. QED
        BY <1>3, <3>1, <3>2, <4>2
    <3>3. QED
      BY <1>3, <3>1, <3>2
  <2>3. QED
    BY <1>1, <1>2, <1>3, <2>1, <2>2 DEF EndsAt
<1>5. Trimmed(p) = SubSeq(p, 1, m)
  BY <1>3, <1>4, TrimmedIs
<1>6. /\ SubSeq(p, 1, m) \in Seq(Nat) /\ Len(SubSeq(p, 1, m)) = m
      /\ \A i \in 1..m : SubSeq(p, 1, m)[i] = p[i]
  <2>1. m \in 0..Len(p)
    BY <1>1, <1>2, <1>3
  <2>2. p \in Seq(Nat)
    BY <1>3
  <2>3. QED
    BY ONLY <2>1, <2>2, SubSeqFacts, ZenonT(20)
<1>7. ASSUME NEW i \in 1..m PROVE p[i] = s[i]
  <2>1. i \in 1..6 /\ i <= Len(s)
    BY <1>1, <1>2
  <2>2. QED
    BY <1>3, <2>1
<1>8. Trimmed(p) = Trimmed(s)
  BY <1>1, <1>2, <1>5, <1>6, <1>7
<1>9. QED
  BY <1>8 DEF p

(* What a C string is, the characters before the first NUL of its array.   *)
StopsAt(name, m) ==
  /\ m \in 0..Len(name)
  /\ m = Len(name) \/ name[m + 1] = NUL
  /\ \A i \in 1..m : name[i] # NUL

(* A C string ends at one place.                                           *)
LEMMA StopsOnce ==
  ASSUME NEW name, name \in Seq(Nat), NEW m, NEW n, StopsAt(name, m), StopsAt(name, n)
  PROVE  m = n
<1>1. Len(name) \in Nat
  OBVIOUS
<1>2. m \in 0..Len(name) /\ n \in 0..Len(name)
  BY DEF StopsAt
<1>3. ~(m < n)
  <2>1. SUFFICES ASSUME m < n PROVE FALSE
    OBVIOUS
  <2>2. m + 1 \in 1..n
    BY <1>1, <1>2, <2>1
  <2>3. QED
    BY <1>1, <1>2, <2>1, <2>2 DEF StopsAt
<1>4. ~(n < m)
  <2>1. SUFFICES ASSUME n < m PROVE FALSE
    OBVIOUS
  <2>2. n + 1 \in 1..m
    BY <1>1, <1>2, <2>1
  <2>3. QED
    BY <1>1, <1>2, <2>1, <2>2 DEF StopsAt
<1>5. QED
  BY <1>1, <1>2, <1>3, <1>4

(* And it ends.                                                            *)
LEMMA StopsSomewhere ==
  ASSUME NEW name, name \in Seq(Nat), Len(name) <= 6
  PROVE  \E m : StopsAt(name, m)
<1> DEFINE C(i) == i <= Len(name) /\ name[i] # NUL
<1>1. Len(name) \in Nat
  OBVIOUS
<1>2. \A m \in 0..6 : ~C(m + 1) /\ (\A i \in 1..m : C(i)) => StopsAt(name, m)
  <2>1. SUFFICES ASSUME NEW m \in 0..6, ~C(m + 1), \A i \in 1..m : C(i)
                 PROVE  StopsAt(name, m)
    OBVIOUS
  <2>2. m = 0 \/ C(m)
    BY <2>1
  <2>3. m <= Len(name)
    BY <1>1, <2>1, <2>2
  <2>4. m = Len(name) \/ name[m + 1] = NUL
    BY <1>1, <2>1, <2>3
  <2>5. QED
    BY <1>1, <2>1, <2>3, <2>4 DEF StopsAt
<1>3. ~C(7)
  BY <1>1
<1> HIDE DEF C
<1>4. \E m \in 0..6 : ~C(m + 1) /\ (\A i \in 1..m : C(i))
  BY <1>3
<1>5. QED
  BY <1>2, <1>4

(* What the CHOOSE of BeforeNUL chooses.                                   *)
LEMMA BeforeNULIs ==
  ASSUME NEW name, name \in Seq(Nat), NEW m, StopsAt(name, m)
  PROVE  BeforeNUL(name) = SubSeq(name, 1, m)
<1> DEFINE Stop(x) == /\ x = Len(name) \/ name[x + 1] = NUL
                      /\ \A i \in 1..x : name[i] # NUL
           n == CHOOSE x \in 0..Len(name) : Stop(x)
<1>1. n \in 0..Len(name) /\ Stop(n)
  <2>1. \E x \in 0..Len(name) : Stop(x)
    BY DEF StopsAt
  <2> HIDE DEF Stop
  <2>2. QED
    BY <2>1
<1>2. StopsAt(name, n)
  BY <1>1 DEF StopsAt
<1>3. BeforeNUL(name) = SubSeq(name, 1, n)
  BY DEF BeforeNUL
<1> HIDE DEF n
<1>4. n = m
  BY <1>2, StopsOnce
<1>5. QED
  BY <1>3, <1>4

(* The name of a station in a frame: at most six characters, none NUL.     *)
Station(f, n) == ax25_get_addr_no_ssid(f, n)

(* It is as ax25_get_addr_no_ssid cuts it.                                 *)
LEMMA StationFacts ==
  ASSUME NEW f \in packet_t, NEW n \in 1..2
  PROVE  /\ Station(f, n) \in Seq(Nat)
         /\ Len(Station(f, n)) <= 6
         /\ \A i \in 1..Len(Station(f, n)) : Station(f, n)[i] # NUL
<1> DEFINE name == [i \in 1..6 |-> f.addr.name[n][i] \div 2]
           t == Trimmed(name)
<1>1. name \in Seq(Nat) /\ Len(name) = 6
  <2>1. f.addr.name[n] \in [1..6 -> 0..255]
    <3> DEFINE Octets == [1..6 -> 0..255]
    <3>1. f.addr.name \in [1..2 -> Octets]
      BY DEF packet_t
    <3> HIDE DEF Octets
    <3>2. f.addr.name[n] \in Octets
      BY <3>1
    <3>3. QED
      BY <3>2 DEF Octets
  <2>2. \A x \in 0..255 : x \div 2 \in Nat
    OBVIOUS
  <2>3. \A i \in 1..6 : f.addr.name[n][i] \div 2 \in Nat
    BY <2>1, <2>2
  <2>4. QED
    BY <2>3
<1>2. Station(f, n) = BeforeNUL(t)
  BY DEF Station, ax25_get_addr_no_ssid
<1> HIDE DEF name
<1>3. t \in Seq(Nat) /\ Len(t) <= 6
  <2>1. Len(name) <= 6
    BY <1>1
  <2>2. QED
    BY <1>1, <2>1, TrimmedFacts
<1> HIDE DEF t
<1>4. PICK m : StopsAt(t, m)
  BY <1>3, StopsSomewhere
<1>5. BeforeNUL(t) = SubSeq(t, 1, m)
  BY <1>3, <1>4, BeforeNULIs
<1>6. m \in 0..Len(t) /\ (\A i \in 1..m : t[i] # NUL) /\ Len(t) \in Nat
  BY <1>3, <1>4 DEF StopsAt
<1>7. /\ SubSeq(t, 1, m) \in Seq(Nat) /\ Len(SubSeq(t, 1, m)) = m
      /\ \A i \in 1..m : SubSeq(t, 1, m)[i] = t[i]
  BY <1>3, <1>6, SubSeqFacts
<1>8. QED
  BY <1>2, <1>3, <1>5, <1>6, <1>7

-----------------------------------------------------------------------------
(* The bits of a header.                                                   *)

(* The bits that set_field sets.                                           *)
LEMMA InField ==
  ASSUME NEW bn, NEW lsb, NEW w, NEW v, NEW o, NEW k,
         bn \in Int, lsb \in Int, w \in Nat, o \in Int, k \in Int
  PROVE  <<o, k>> \in set_field(bn, lsb, w, v)
           <=> k = bn /\ lsb - o \in 0..(w - 1) /\ Bit(v, lsb - o) = 1
<1> DEFINE P(i) == Bit(v, i) = 1
<1>1. set_field(bn, lsb, w, v) = {<<lsb - i, bn>> : i \in {j \in 0..(w - 1) : P(j)}}
  BY DEF set_field
<1> HIDE DEF P
<1>2. ASSUME <<o, k>> \in set_field(bn, lsb, w, v)
      PROVE  k = bn /\ lsb - o \in 0..(w - 1) /\ P(lsb - o)
  <2>1. PICK i \in 0..(w - 1) : P(i) /\ <<o, k>> = <<lsb - i, bn>>
    BY <1>1, <1>2
  <2>2. o = lsb - i /\ k = bn
    BY <2>1
  <2>3. i = lsb - o
    BY <2>2
  <2>4. QED
    BY <2>1, <2>2, <2>3
<1>3. ASSUME k = bn, lsb - o \in 0..(w - 1), P(lsb - o)
      PROVE  <<o, k>> \in set_field(bn, lsb, w, v)
  <2>1. lsb - (lsb - o) = o
    OBVIOUS
  <2>2. QED
    BY <1>1, <1>3, <2>1
<1>4. QED
  BY <1>2, <1>3 DEF P

(* The bits that SetOctet sets.                                            *)
LEMMA InOctet ==
  ASSUME NEW i, NEW w, NEW v, NEW o, NEW k, i \in Int, w \in Nat, o \in Int, k \in Int
  PROVE  <<o, k>> \in SetOctet(i, w, v) <=> o = i /\ k \in 0..(w - 1) /\ Bit(v, k) = 1
<1> DEFINE P(j) == Bit(v, j) = 1
<1>1. SetOctet(i, w, v) = {<<i, j>> : j \in {x \in 0..(w - 1) : P(x)}}
  BY DEF SetOctet
<1> HIDE DEF P
<1>2. <<o, k>> \in {<<i, j>> : j \in {x \in 0..(w - 1) : P(x)}} <=> o = i /\ k \in 0..(w - 1) /\ P(k)
  OBVIOUS
<1>3. QED
  BY <1>1, <1>2 DEF P

SSIDs(f) == 16 * f.addr.ssid[1] + f.addr.ssid[2]

(* A bit of a character of an address.                                     *)
NameBit(f, n, o, k) ==
  /\ o - 6 * (n - 1) + 1 \in 1..Len(Station(f, n))
  /\ k \in 0..5
  /\ Bit(Station(f, n)[o - 6 * (n - 1) + 1] - 32, k) = 1

NameBits(f, n) ==
  UNION {SetOctet(6 * (n - 1) + i - 1, 6, ascii_to_sixbit(Station(f, n)[i])) : i \in DOMAIN Station(f, n)}

(* The bits of one address.                                                *)
LEMMA InName ==
  ASSUME NEW f \in packet_t, NEW n \in 1..2, NEW o \in Int, NEW k \in Int
  PROVE  <<o, k>> \in NameBits(f, n) <=> NameBit(f, n, o, k)
<1> DEFINE s == Station(f, n)
           V(i) == ascii_to_sixbit(s[i])
           O(i) == SetOctet(6 * (n - 1) + i - 1, 6, V(i))
<1>1. s \in Seq(Nat) /\ Len(s) \in Nat
  BY StationFacts
<1>2. DOMAIN s = 1..Len(s)
  BY <1>1
<1>3. \A i \in 1..Len(s) : <<o, k>> \in O(i) <=> o = 6 * (n - 1) + i - 1 /\ k \in 0..5 /\ Bit(V(i), k) = 1
  <2> HIDE DEF V
  <2>1. TAKE i \in 1..Len(s)
  <2> DEFINE x == 6 * (n - 1) + i - 1
  <2>2. x \in Int
    BY <1>1
  <2>3. 0..(6 - 1) = 0..5
    OBVIOUS
  <2>4. <<o, k>> \in SetOctet(x, 6, V(i)) <=> o = x /\ k \in 0..(6 - 1) /\ Bit(V(i), k) = 1
    <3> HIDE DEF x
    <3>1. QED
      BY <2>2, InOctet
  <2>5. QED
    BY <2>3, <2>4
<1>4. <<o, k>> \in UNION {O(i) : i \in DOMAIN s} <=> \E i \in 1..Len(s) : <<o, k>> \in O(i)
  <2> HIDE DEF O
  <2>1. QED
    BY <1>2
<1>5. \A i \in 1..Len(s) : (o = 6 * (n - 1) + i - 1) <=> (i = o - 6 * (n - 1) + 1)
  BY <1>1
<1>6. \A i : V(i) = s[i] - 32
  BY DEF ascii_to_sixbit
<1> HIDE DEF O, V
<1>7. (\E i \in 1..Len(s) : <<o, k>> \in O(i)) <=> NameBit(f, n, o, k)
  <2> DEFINE x == o - 6 * (n - 1) + 1
  <2>1. NameBit(f, n, o, k) <=> x \in 1..Len(s) /\ k \in 0..5 /\ Bit(V(x), k) = 1
    BY <1>6 DEF NameBit
  <2>2. \A i \in 1..Len(s) : (o = 6 * (n - 1) + i - 1) <=> i = x
    BY <1>5
  <2> HIDE DEF x, s
  <2>3. \A i \in 1..Len(s) : <<o, k>> \in O(i) <=> i = x /\ k \in 0..5 /\ Bit(V(i), k) = 1
    BY <1>3, <2>2
  <2>4. QED
    BY <2>1, <2>3
<1>8. QED
  BY <1>4, <1>7 DEF O, V, NameBits

(* The bits of both and of their SSIDs.                                    *)
LEMMA InAddress ==
  ASSUME NEW f \in packet_t, NEW o \in Int, NEW k \in Int
  PROVE  <<o, k>> \in AddressBits(f)
           <=> \/ NameBit(f, 1, o, k) \/ NameBit(f, 2, o, k)
               \/ o = 12 /\ k \in 0..7 /\ Bit(SSIDs(f), k) = 1
<1>1. AddressBits(f) = (UNION {NameBits(f, n) : n \in 1..2}) \cup SetOctet(12, 8, SSIDs(f))
  BY DEF AddressBits, SSIDs, Station, NameBits
<1>2. /\ <<o, k>> \in NameBits(f, 1) <=> NameBit(f, 1, o, k)
      /\ <<o, k>> \in NameBits(f, 2) <=> NameBit(f, 2, o, k)
  <2>1. 1 \in 1..2 /\ 2 \in 1..2
    OBVIOUS
  <2>2. QED
    BY <2>1, InName
<1>3. <<o, k>> \in SetOctet(12, 8, SSIDs(f)) <=> o = 12 /\ k \in 0..7 /\ Bit(SSIDs(f), k) = 1
  <2>1. <<o, k>> \in SetOctet(12, 8, SSIDs(f)) <=> o = 12 /\ k \in 0..(8 - 1) /\ Bit(SSIDs(f), k) = 1
    BY InOctet
  <2>2. 0..(8 - 1) = 0..7
    OBVIOUS
  <2>3. QED
    BY <2>1, <2>2
<1>4. \A x : x \in AddressBits(f)
        <=> x \in NameBits(f, 1) \/ x \in NameBits(f, 2) \/ x \in SetOctet(12, 8, SSIDs(f))
  <2>1. 1..2 = {1, 2}
    OBVIOUS
  <2>2. QED
    BY <1>1, <2>1
<1>5. QED
  BY <1>2, <1>3, <1>4, Zenon

(* The values of the fields of a frame's header.                           *)
UIOf(f) == IF ax25_frame_type(f).type = "UI" THEN 1 ELSE 0
PidOf(f) == HeaderPid(f, ax25_frame_type(f))
ControlIn(f) == HeaderControl(ax25_frame_type(f))
CountOf(f) == ax25_get_num_info(f)

(* A bit of the header is a bit of one of its fields.                      *)
FieldBit(lsb, w, v, o) == lsb - o \in 0..(w - 1) /\ Bit(v, lsb - o) = 1

(* All the bits of a header.                                               *)
LEMMA InHeader ==
  ASSUME NEW f \in packet_t, NEW o \in Int, NEW k \in Int
  PROVE  <<o, k>> \in il2p_type_1_header(f)
           <=> \/ NameBit(f, 1, o, k) \/ NameBit(f, 2, o, k)
               \/ o = 12 /\ k \in 0..7 /\ Bit(SSIDs(f), k) = 1
               \/ k = 6 /\ FieldBit(0, 1, UIOf(f), o)
               \/ k = 6 /\ FieldBit(4, 4, PidOf(f), o)
               \/ k = 6 /\ FieldBit(11, 7, ControlIn(f), o)
               \/ k = 7 /\ FieldBit(0, 1, 1, o)
               \/ k = 7 /\ FieldBit(1, 1, 1, o)
               \/ k = 7 /\ FieldBit(11, 10, CountOf(f), o)
<1>1. il2p_type_1_header(f) =
        AddressBits(f) \cup set_field(6, 0, 1, UIOf(f)) \cup set_field(6, 4, 4, PidOf(f))
          \cup set_field(6, 11, 7, ControlIn(f))
          \cup set_field(7, 0, 1, 1) \cup set_field(7, 1, 1, 1) \cup set_field(7, 11, 10, CountOf(f))
  BY DEF il2p_type_1_header, SET_UI, SET_PID, SET_CONTROL, SET_FEC_LEVEL, SET_HDR_TYPE,
         SET_PAYLOAD_BYTE_COUNT, UIOf, PidOf, ControlIn, CountOf
<1>2. \A v : \A bn \in {6, 7}, lsb \in 0..11, w \in {1, 4, 7, 10} :
        <<o, k>> \in set_field(bn, lsb, w, v) <=> k = bn /\ FieldBit(lsb, w, v, o)
  <2>1. TAKE v
  <2>4. TAKE bn \in {6, 7}, lsb \in 0..11, w \in {1, 4, 7, 10}
  <2>2. bn \in Int /\ lsb \in Int /\ w \in Nat
    OBVIOUS
  <2>3. QED
    BY <2>2, InField DEF FieldBit
<1>3. /\ <<o, k>> \in set_field(6, 0, 1, UIOf(f)) <=> k = 6 /\ FieldBit(0, 1, UIOf(f), o)
      /\ <<o, k>> \in set_field(6, 4, 4, PidOf(f)) <=> k = 6 /\ FieldBit(4, 4, PidOf(f), o)
      /\ <<o, k>> \in set_field(6, 11, 7, ControlIn(f)) <=> k = 6 /\ FieldBit(11, 7, ControlIn(f), o)
      /\ <<o, k>> \in set_field(7, 0, 1, 1) <=> k = 7 /\ FieldBit(0, 1, 1, o)
      /\ <<o, k>> \in set_field(7, 1, 1, 1) <=> k = 7 /\ FieldBit(1, 1, 1, o)
      /\ <<o, k>> \in set_field(7, 11, 10, CountOf(f)) <=> k = 7 /\ FieldBit(11, 10, CountOf(f), o)
  BY <1>2
<1>4. QED
  BY <1>1, <1>3, InAddress

-----------------------------------------------------------------------------
(* The types of frames.                                                    *)

(* The types of S frames and of U frames.                                  *)
LEMMA Types ==
  /\ Supervisory = {"RR", "RNR", "REJ", "SREJ"}
  /\ Unnumbered = {"SABM", "DISC", "DM", "UA", "FRMR", "UI"}
  BY DEF Supervisory, Unnumbered, SupervisoryCode, UnnumberedCode

(* The bit of P/F.                                                         *)
LEMMA BitFour ==
  ASSUME NEW c, c \in 0..255
  PROVE  Bit(c, 4) = (c \div 16) % 2 /\ Bit(c, 4) \in {0, 1}
  BY Powers DEF Bit

(* A control octet has one of the types.                                   *)
TypeAndNumbers(c, t) ==
  \/ c % 4 = 1 /\ t \in Supervisory /\ t = <<"RR", "RNR", "REJ", "SREJ">>[((c \div 4) % 4) + 1]
  \/ c % 4 = 3 /\ t \in Unnumbered /\ c = ControlOf(t) + 16 * Bit(c, 4)
  \/ c % 4 = 3 /\ t = "U"
  \/ c % 2 = 0 /\ t = "I"

(* The types as the control octet has them.                                *)
LEMMA TypeOfControlIs ==
  ASSUME NEW c, c \in 0..255
  PROVE  TypeAndNumbers(c, TypeOfControl(c))
<1>1. CASE c % 2 = 0
  BY <1>1 DEF TypeOfControl, TypeAndNumbers
<1>2. CASE c % 4 = 1
  <2>1. c % 2 # 0
    BY <1>2
  <2>2. TypeOfControl(c) = <<"RR", "RNR", "REJ", "SREJ">>[((c \div 4) % 4) + 1]
    BY <1>2, <2>1 DEF TypeOfControl
  <2>3. ((c \div 4) % 4) + 1 \in {1, 2, 3, 4}
    OBVIOUS
  <2>4. TypeOfControl(c) \in Supervisory
    BY <2>2, <2>3, Types
  <2>5. QED
    BY <1>2, <2>2, <2>4 DEF TypeAndNumbers
<1>3. CASE c % 4 = 3
  <2> DEFINE named == {t \in {"SABM", "DISC", "DM", "UA", "FRMR", "UI"} :
                         ControlOf(t) = c - 16 * Bit(c, 4)}
  <2>1. c % 2 # 0 /\ c % 4 # 1
    BY <1>3
  <2>2. TypeOfControl(c) = IF named = {} THEN "U" ELSE CHOOSE t \in named : TRUE
    BY <1>3, <2>1 DEF TypeOfControl
  <2>3. \A t \in named : t \in Unnumbered /\ ControlOf(t) = c - 16 * Bit(c, 4)
    BY Types
  <2> HIDE DEF named
  <2>4. CASE named = {}
    BY <1>3, <2>2, <2>4 DEF TypeAndNumbers
  <2>5. CASE named # {}
    <3>1. TypeOfControl(c) \in named
      BY <2>2, <2>5
    <3>2. TypeOfControl(c) \in Unnumbered /\ ControlOf(TypeOfControl(c)) = c - 16 * Bit(c, 4)
      BY <2>3, <3>1
    <3>3. c = ControlOf(TypeOfControl(c)) + 16 * Bit(c, 4)
      BY <3>2, BitFour
    <3>4. QED
      BY <1>3, <3>2, <3>3 DEF TypeAndNumbers
  <2>6. QED
    BY <2>4, <2>5
<1>4. c % 2 = 0 \/ c % 4 = 1 \/ c % 4 = 3
  OBVIOUS
<1>5. QED
  BY <1>1, <1>2, <1>3, <1>4

(* What is read of a control octet is what was put into it.                *)
LEMMA SupervisoryControl ==
  ASSUME NEW t, NEW nr, NEW pf, t \in Supervisory, nr \in 0..7, pf \in {0, 1},
         NEW c, c = ControlOf(t) + 16 * pf + 32 * nr
  PROVE  /\ c \in 0..255 /\ c % 4 = 1 /\ c % 2 = 1
         /\ TypeOfControl(c) = t /\ Bit(c, 4) = pf /\ c \div 32 = nr
<1>1. t \in {"RR", "RNR", "REJ", "SREJ"}
  BY Types
<1>2. ASSUME NEW k \in 0..3, c = 1 + 4 * k + 16 * pf + 32 * nr
      PROVE  /\ c \in 0..255 /\ c % 4 = 1 /\ c % 2 = 1
             /\ (c \div 4) % 4 = k /\ (c \div 16) % 2 = pf /\ c \div 32 = nr
  BY <1>2
<1>3. PICK k \in 0..3 : ControlOf(t) = 1 + 4 * k /\ t = <<"RR", "RNR", "REJ", "SREJ">>[k + 1]
  <2>1. CASE t = "RR"
    BY <2>1 DEF ControlOf
  <2>2. CASE t = "RNR"
    BY <2>2 DEF ControlOf
  <2>3. CASE t = "REJ"
    BY <2>3 DEF ControlOf
  <2>4. CASE t = "SREJ"
    BY <2>4 DEF ControlOf
  <2>5. QED
    BY <1>1, <2>1, <2>2, <2>3, <2>4
<1>4. /\ c \in 0..255 /\ c % 4 = 1 /\ c % 2 = 1
      /\ (c \div 4) % 4 = k /\ (c \div 16) % 2 = pf /\ c \div 32 = nr
  BY <1>2, <1>3
<1>5. TypeOfControl(c) = t
  BY <1>3, <1>4 DEF TypeOfControl
<1>6. QED
  BY <1>4, <1>5, BitFour

(* The control octet of a U frame.                                         *)
LEMMA UnnumberedControl ==
  ASSUME NEW t, NEW pf, t \in Unnumbered, pf \in {0, 1}, NEW c, c = ControlOf(t) + 16 * pf
  PROVE  /\ c \in 0..255 /\ c % 4 = 3 /\ c % 2 = 1
         /\ TypeOfControl(c) = t /\ Bit(c, 4) = pf
         /\ c \in {3, 19} <=> t = "UI"
<1>1. t \in {"SABM", "DISC", "DM", "UA", "FRMR", "UI"}
  BY Types
<1>2. /\ c \in 0..255 /\ c % 4 = 3 /\ c % 2 = 1 /\ (c \div 16) % 2 = pf
      /\ c \in {3, 19} <=> t = "UI"
  <2>1. ControlOf(t) \in {47, 67, 15, 99, 135, 3} /\ (ControlOf(t) = 3 <=> t = "UI")
    <3>1. CASE t = "SABM"
      BY <3>1 DEF ControlOf
    <3>2. CASE t = "DISC"
      BY <3>2 DEF ControlOf
    <3>3. CASE t = "DM"
      BY <3>3 DEF ControlOf
    <3>4. CASE t = "UA"
      BY <3>4 DEF ControlOf
    <3>5. CASE t = "FRMR"
      BY <3>5 DEF ControlOf
    <3>6. CASE t = "UI"
      BY <3>6 DEF ControlOf
    <3>7. QED
      BY <1>1, <3>1, <3>2, <3>3, <3>4, <3>5, <3>6
  <2>2. \A d \in {47, 67, 15, 99, 135, 3} : c = d + 16 * pf =>
          /\ c \in 0..255 /\ c % 4 = 3 /\ c % 2 = 1 /\ (c \div 16) % 2 = pf
          /\ c \in {3, 19} <=> d = 3
    OBVIOUS
  <2>3. QED
    BY <2>1, <2>2
<1>3. Bit(c, 4) = pf
  BY <1>2, BitFour
<1>4. TypeAndNumbers(c, TypeOfControl(c))
  BY <1>2, TypeOfControlIs
<1>5. TypeOfControl(c) = t
  <2> DEFINE named == {x \in {"SABM", "DISC", "DM", "UA", "FRMR", "UI"} :
                         ControlOf(x) = c - 16 * Bit(c, 4)}
  <2>1. TypeOfControl(c) = IF named = {} THEN "U" ELSE CHOOSE x \in named : TRUE
    BY <1>2 DEF TypeOfControl
  <2>2. ControlOf(t) = c - 16 * Bit(c, 4)
    <3>1. ControlOf(t) \in Int
      BY <1>1 DEF ControlOf
    <3>2. QED
      BY <1>3, <3>1
  <2>3. \A x \in {"SABM", "DISC", "DM", "UA", "FRMR", "UI"} : ControlOf(x) = ControlOf(t) => x = t
    BY <1>1 DEF ControlOf
  <2>4. named = {t}
    BY <1>1, <2>2, <2>3
  <2> HIDE DEF named
  <2>5. QED
    BY <2>1, <2>4
<1>6. QED
  BY <1>2, <1>3, <1>5

(* The control octet of an I frame.                                        *)
LEMMA InformationControl ==
  ASSUME NEW nr, NEW ns, NEW pf, nr \in 0..7, ns \in 0..7, pf \in {0, 1},
         NEW c, c = 32 * nr + 2 * ns + 16 * pf
  PROVE  /\ c \in 0..255 /\ c % 2 = 0 /\ c % 4 # 3
         /\ TypeOfControl(c) = "I" /\ Bit(c, 4) = pf /\ c \div 32 = nr /\ (c \div 2) % 8 = ns
<1>1. /\ c \in 0..255 /\ c % 2 = 0 /\ c % 4 # 3 /\ (c \div 16) % 2 = pf
      /\ c \div 32 = nr /\ (c \div 2) % 8 = ns
  OBVIOUS
<1>2. QED
  BY <1>1, BitFour DEF TypeOfControl

(* What ax25_frame_type tells of a frame.                                  *)
LEMMA TypeFacts ==
  ASSUME NEW f \in packet_t, NEW t, t = ax25_frame_type(f)
  PROVE  /\ t.pf \in {0, 1} /\ f.control \in 0..255 /\ f.pid \in 0..255
         /\ t.cr \in {"cr_11", "cr_cmd", "cr_res", "cr_00"}
         /\ \/ t.type \in Supervisory /\ t.nr \in 0..7 /\ t.ns = -1 /\ f.control % 4 = 1
            \/ t.type \in Unnumbered /\ t.nr = -1 /\ t.ns = -1 /\ f.control = ControlOf(t.type) + 16 * t.pf
            \/ t.type = "U"
            \/ t.type = "I" /\ t.nr \in 0..7 /\ t.ns \in 0..7 /\ f.control % 2 = 0
<1> DEFINE c == f.control
<1>1. c \in 0..255 /\ f.pid \in 0..255
  BY DEF packet_t
<1>2. /\ t.type = TypeOfControl(c) /\ t.pf = Bit(c, 4)
      /\ t.nr = IF c % 4 # 3 THEN c \div 32 ELSE -1
      /\ t.ns = IF t.type = "I" THEN (c \div 2) % 8 ELSE -1
      /\ t.cr = CommandOrResponse(f)
  BY DEF ax25_frame_type
<1>3. t.cr \in {"cr_11", "cr_cmd", "cr_res", "cr_00"}
  BY <1>2 DEF CommandOrResponse
<1> HIDE DEF c
<1>4. t.pf \in {0, 1}
  BY <1>1, <1>2, BitFour
<1>5. TypeAndNumbers(c, t.type)
  BY <1>1, <1>2, TypeOfControlIs
<1>6. c \div 32 \in 0..7 /\ (c \div 2) % 8 \in 0..7 /\ (c % 2 = 0 => c % 4 # 3)
  BY <1>1
<1>7. "I" \notin Supervisory /\ "I" \notin Unnumbered
  BY Types
<1>8. CASE c % 4 = 1 /\ t.type \in Supervisory
  BY <1>1, <1>2, <1>3, <1>4, <1>6, <1>7, <1>8 DEF c
<1>9. CASE c % 4 = 3 /\ t.type \in Unnumbered /\ c = ControlOf(t.type) + 16 * Bit(c, 4)
  BY <1>1, <1>2, <1>3, <1>4, <1>6, <1>7, <1>9 DEF c
<1>10. CASE t.type = "U"
  BY <1>1, <1>3, <1>4, <1>10 DEF c
<1>11. CASE c % 2 = 0 /\ t.type = "I"
  BY <1>1, <1>2, <1>3, <1>4, <1>6, <1>11 DEF c
<1>12. QED
  BY <1>5, <1>8, <1>9, <1>10, <1>11 DEF TypeAndNumbers

-----------------------------------------------------------------------------
(* The fields of a header.                                                 *)

(* The characters have the lower six bits of the first twelve octets.      *)
LEMMA NameBitPlace ==
  ASSUME NEW f \in packet_t, NEW n \in 1..2, NEW o \in Int, NEW k \in Int, NameBit(f, n, o, k)
  PROVE  k \in 0..5 /\ o \in 6 * (n - 1)..(6 * (n - 1) + 5)
<1>1. Len(Station(f, n)) \in Nat /\ Len(Station(f, n)) <= 6
  BY StationFacts
<1>2. QED
  BY <1>1 DEF NameBit

Sixbit(f) == \A n \in 1..2 : HasSixbit(Station(f, n))

(* Above the characters.                                                   *)
LEMMA InUpperBits ==
  ASSUME NEW f \in packet_t, NEW o \in 0..11, NEW k \in {6, 7}
  PROVE  <<o, k>> \in il2p_type_1_header(f)
           <=> \/ k = 6 /\ FieldBit(0, 1, UIOf(f), o)
               \/ k = 6 /\ FieldBit(4, 4, PidOf(f), o)
               \/ k = 6 /\ FieldBit(11, 7, ControlIn(f), o)
               \/ k = 7 /\ FieldBit(0, 1, 1, o)
               \/ k = 7 /\ FieldBit(1, 1, 1, o)
               \/ k = 7 /\ FieldBit(11, 10, CountOf(f), o)
<1>1. o \in Int /\ k \in Int /\ o # 12
  OBVIOUS
<1>2. ~NameBit(f, 1, o, k) /\ ~NameBit(f, 2, o, k)
  <2>1. k \notin 0..5 /\ 1 \in 1..2 /\ 2 \in 1..2
    OBVIOUS
  <2>2. QED
    BY <1>1, <2>1, NameBitPlace
<1>3. QED
  BY <1>1, <1>2, InHeader

(* The fields over the characters are read as they were set.               *)
LEMMA UpperFields ==
  ASSUME NEW f \in packet_t, PidOf(f) \in 0..15, ControlIn(f) \in 0..127, CountOf(f) \in 0..1023,
         NEW h, h = il2p_type_1_header(f)
  PROVE  /\ GET_UI(h) = UIOf(f)
         /\ GET_PID(h) = PidOf(f)
         /\ GET_CONTROL(h) = ControlIn(f)
         /\ GET_PAYLOAD_BYTE_COUNT(h) = CountOf(f)
<1>1. Power(1) = 2 /\ Power(4) = 16 /\ Power(7) = 128 /\ Power(10) = 1024
  BY Powers DEF Power
<1>2. \A o \in 0..11, k \in {6, 7} : <<o, k>> \in h
           <=> \/ k = 6 /\ FieldBit(0, 1, UIOf(f), o)
               \/ k = 6 /\ FieldBit(4, 4, PidOf(f), o)
               \/ k = 6 /\ FieldBit(11, 7, ControlIn(f), o)
               \/ k = 7 /\ FieldBit(0, 1, 1, o)
               \/ k = 7 /\ FieldBit(1, 1, 1, o)
               \/ k = 7 /\ FieldBit(11, 10, CountOf(f), o)
  BY InUpperBits
<1>3. HoldsField(h, 6, 0, 1, UIOf(f))
  <2>1. ASSUME NEW i \in 0..0
        PROVE  <<0 - i, 6>> \in h <=> Bit(UIOf(f), i) = 1
    <3>3. i = 0
      OBVIOUS
    <3>1. 0 - i \in 0..11 /\ 0 - (0 - i) = i /\ i \in 0..(1 - 1)
          /\ 4 - (0 - i) \notin 0..(4 - 1) /\ 11 - (0 - i) \notin 0..(7 - 1)
      BY <3>3
    <3>2. QED
      BY <1>2, <3>1 DEF FieldBit
  <2>2. QED
    BY <2>1 DEF HoldsField
<1>4. HoldsField(h, 6, 4, 4, PidOf(f))
  <2>1. ASSUME NEW i \in 0..3
        PROVE  <<4 - i, 6>> \in h <=> Bit(PidOf(f), i) = 1
    <3>1. 4 - i \in 0..11 /\ 4 - (4 - i) = i /\ i \in 0..(4 - 1)
          /\ 0 - (4 - i) \notin 0..(1 - 1) /\ 11 - (4 - i) \notin 0..(7 - 1)
      OBVIOUS
    <3>2. QED
      BY <1>2, <3>1 DEF FieldBit
  <2>2. QED
    BY <2>1 DEF HoldsField
<1>5. HoldsField(h, 6, 11, 7, ControlIn(f))
  <2>1. ASSUME NEW i \in 0..6
        PROVE  <<11 - i, 6>> \in h <=> Bit(ControlIn(f), i) = 1
    <3>1. 11 - i \in 0..11 /\ 11 - (11 - i) = i /\ i \in 0..(7 - 1)
          /\ 0 - (11 - i) \notin 0..(1 - 1) /\ 4 - (11 - i) \notin 0..(4 - 1)
      OBVIOUS
    <3>2. QED
      BY <1>2, <3>1 DEF FieldBit
  <2>2. QED
    BY <2>1 DEF HoldsField
<1>6. HoldsField(h, 7, 11, 10, CountOf(f))
  <2>1. ASSUME NEW i \in 0..9
        PROVE  <<11 - i, 7>> \in h <=> Bit(CountOf(f), i) = 1
    <3>1. 11 - i \in 0..11 /\ 11 - (11 - i) = i /\ i \in 0..(10 - 1)
          /\ 0 - (11 - i) \notin 0..(1 - 1) /\ 1 - (11 - i) \notin 0..(1 - 1)
      OBVIOUS
    <3>2. QED
      BY <1>2, <3>1 DEF FieldBit
  <2>2. QED
    BY <2>1 DEF HoldsField
<1>7. UIOf(f) \in 0..1
  BY DEF UIOf
<1>8. GET_UI(h) = UIOf(f)
  BY <1>1, <1>3, <1>7, FieldRead DEF GET_UI
<1>9. GET_PID(h) = PidOf(f)
  BY <1>1, <1>4, FieldRead DEF GET_PID
<1>10. GET_CONTROL(h) = ControlIn(f)
  BY <1>1, <1>5, FieldRead DEF GET_CONTROL
<1>11. GET_PAYLOAD_BYTE_COUNT(h) = CountOf(f)
  BY <1>1, <1>6, FieldRead DEF GET_PAYLOAD_BYTE_COUNT
<1>12. QED
  BY <1>8, <1>9, <1>10, <1>11

(* The addresses.                                                          *)
LEMMA SSIDOctet ==
  ASSUME NEW f \in packet_t, NEW h, h = il2p_type_1_header(f)
  PROVE  /\ GetOctet(h, 12, 8) = SSIDs(f)
         /\ SSIDs(f) \div 16 = f.addr.ssid[1] /\ SSIDs(f) % 16 = f.addr.ssid[2]
<1>1. f.addr.ssid[1] \in 0..15 /\ f.addr.ssid[2] \in 0..15
  BY DEF packet_t
<1>2. \A x \in 0..15, y \in 0..15 :
        16 * x + y \in 0..255 /\ (16 * x + y) \div 16 = x /\ (16 * x + y) % 16 = y
  OBVIOUS
<1>3. SSIDs(f) \in 0..255 /\ SSIDs(f) \div 16 = f.addr.ssid[1] /\ SSIDs(f) % 16 = f.addr.ssid[2]
  BY <1>1, <1>2 DEF SSIDs
<1>4. Power(8) = 256
  BY Powers DEF Power
<1>5. HoldsOctet(h, 12, 8, SSIDs(f))
  <2>1. ASSUME NEW k \in 0..7
        PROVE  <<12, k>> \in h <=> Bit(SSIDs(f), k) = 1
    <3>1. /\ <<12, k>> \in h
           <=> \/ NameBit(f, 1, 12, k) \/ NameBit(f, 2, 12, k)
               \/ k \in 0..7 /\ Bit(SSIDs(f), k) = 1
               \/ k = 6 /\ FieldBit(0, 1, UIOf(f), 12)
               \/ k = 6 /\ FieldBit(4, 4, PidOf(f), 12)
               \/ k = 6 /\ FieldBit(11, 7, ControlIn(f), 12)
               \/ k = 7 /\ FieldBit(0, 1, 1, 12)
               \/ k = 7 /\ FieldBit(1, 1, 1, 12)
               \/ k = 7 /\ FieldBit(11, 10, CountOf(f), 12)
      BY InHeader
    <3>2. ~NameBit(f, 1, 12, k) /\ ~NameBit(f, 2, 12, k)
      <4>1. 12 \notin 6 * (1 - 1)..(6 * (1 - 1) + 5) /\ 12 \notin 6 * (2 - 1)..(6 * (2 - 1) + 5)
            /\ 12 \in Int /\ k \in Int /\ 1 \in 1..2 /\ 2 \in 1..2
        OBVIOUS
      <4>2. QED
        BY <4>1, NameBitPlace
    <3>3. \A lsb \in 0..11, w \in 1..10 : \A v : ~FieldBit(lsb, w, v, 12)
      BY DEF FieldBit
    <3>4. QED
      BY <3>1, <3>2, <3>3
  <2>2. QED
    BY <2>1 DEF HoldsOctet
<1>6. GetOctet(h, 12, 8) = SSIDs(f)
  BY <1>3, <1>4, <1>5, OctetRead
<1>7. QED
  BY <1>3, <1>6

(* So are the characters, and a space is read where none was set.          *)
LEMMA NameOctet ==
  ASSUME NEW f \in packet_t, Sixbit(f), NEW h, h = il2p_type_1_header(f),
         NEW n \in 1..2, NEW i \in 1..6
  PROVE  sixbit_to_ascii(GetOctet(h, 6 * (n - 1) + i - 1, 6)) = Padded(Station(f, n))[i]
<1> DEFINE s == Station(f, n)
           o == 6 * (n - 1) + i - 1
           v == IF i <= Len(s) THEN s[i] - 32 ELSE 0
<1>1. s \in Seq(Nat) /\ Len(s) \in Nat /\ Len(s) <= 6 /\ DOMAIN s = 1..Len(s)
  BY StationFacts
<1>2. v \in 0..63
  <2>1. \A j \in 1..Len(s) : s[j] \in 32..95
    BY <1>1 DEF Sixbit, HasSixbit
  <2>2. i <= Len(s) => s[i] \in 32..95
    BY <1>1, <2>1
  <2> HIDE DEF s
  <2>3. CASE i <= Len(s)
    BY <2>2, <2>3
  <2>4. CASE ~(i <= Len(s))
    BY <2>4
  <2>5. QED
    BY <2>3, <2>4
<1>3. o \in 0..11 /\ o \in 6 * (n - 1)..(6 * (n - 1) + 5) /\ o - 6 * (n - 1) + 1 = i
  OBVIOUS
<1>4. \A m \in 1..2 : m # n => o \notin 6 * (m - 1)..(6 * (m - 1) + 5)
  OBVIOUS
<1>5. \A k \in 0..5 : Bit(0, k) = 0
  <2>1. TAKE k \in 0..5
  <2>2. k \in 0..10
    OBVIOUS
  <2>3. Power(k) \in Nat \ {0}
    BY <2>2, PowerFacts
  <2>4. \A d \in Nat \ {0} : 0 \div d = 0
    OBVIOUS
  <2>5. 0 \div Power(k) = 0
    BY <2>3, <2>4
  <2>6. Bit(0, k) = (0 \div Power(k)) % 2
    BY DEF Bit, Power
  <2>7. QED
    BY <2>5, <2>6
<1>6. HoldsOctet(h, o, 6, v)
  <2>1. ASSUME NEW k \in 0..5
        PROVE  <<o, k>> \in h <=> Bit(v, k) = 1
    <3>1. k # 6 /\ k # 7 /\ o # 12 /\ k \in Int /\ o \in Int
      BY <1>3
    <3>2. <<o, k>> \in h <=> NameBit(f, 1, o, k) \/ NameBit(f, 2, o, k)
      <4> HIDE DEF o
      <4>1. QED
        BY <3>1, InHeader
    <3>3. \A m \in 1..2 : m # n => ~NameBit(f, m, o, k)
      <4> HIDE DEF o
      <4>1. QED
        BY <1>4, <3>1, NameBitPlace
    <3>4. <<o, k>> \in h <=> NameBit(f, n, o, k)
      <4> HIDE DEF o
      <4>1. CASE n = 1
        BY <4>1, <3>2, <3>3
      <4>2. CASE n = 2
        BY <4>2, <3>2, <3>3
      <4>3. QED
        BY <4>1, <4>2
    <3>5. NameBit(f, n, o, k) <=> i \in 1..Len(s) /\ Bit(s[i] - 32, k) = 1
      <4> HIDE DEF o
      <4>1. QED
        BY <1>3 DEF NameBit
    <3>6. CASE i <= Len(s)
      BY <1>1, <3>4, <3>5, <3>6
    <3>7. CASE ~(i <= Len(s))
      BY <1>1, <1>5, <3>4, <3>5, <3>7
    <3>8. QED
      BY <3>6, <3>7
  <2> HIDE DEF o, v
  <2>2. QED
    BY <2>1 DEF HoldsOctet
<1>7. Power(6) = 64
  BY Powers DEF Power
<1>8. GetOctet(h, o, 6) = v
  <2> HIDE DEF o, v
  <2>1. QED
    BY <1>2, <1>6, <1>7, OctetRead
<1>9. v + 32 = Padded(s)[i]
  <2>1. Padded(s)[i] = IF i <= Len(s) THEN s[i] ELSE 32
    BY DEF Padded, Space
  <2>2. i <= Len(s) => s[i] \in Nat
    BY <1>1
  <2> HIDE DEF s
  <2>3. QED
    BY <2>1, <2>2
<1>10. QED
  BY <1>8, <1>9 DEF sixbit_to_ascii

-----------------------------------------------------------------------------
(* From a frame to its header.                                             *)

(* What is sent for a PID is read as a PID for which the same is sent.     *)
LEMMA PidFacts ==
  ASSUME NEW p, p \in 0..255, encode_pid(p) >= 0, NEW q, q = ValidPid(decode_pid(encode_pid(p)))
  PROVE  /\ encode_pid(p) \in 2..15
         /\ q \in 0..254 /\ encode_pid(q) = encode_pid(p)
<1> DEFINE r == encode_pid(p)
<1>1. r \in {2, 3, 4, 5, 6, 11, 12, 13, 14, 15}
  BY DEF encode_pid
<1>2. /\ encode_pid(32) = 2 /\ encode_pid(1) = 3 /\ encode_pid(6) = 4 /\ encode_pid(7) = 5
      /\ encode_pid(8) = 6 /\ encode_pid(204) = 11 /\ encode_pid(205) = 12
      /\ encode_pid(206) = 13 /\ encode_pid(207) = 14 /\ encode_pid(240) = 15
  BY DEF encode_pid
<1> HIDE DEF r
<1>3. CASE r = 2
  BY <1>2, <1>3 DEF decode_pid, ValidPid, r
<1>4. CASE r = 3
  BY <1>2, <1>4 DEF decode_pid, ValidPid, r
<1>5. CASE r = 4
  BY <1>2, <1>5 DEF decode_pid, ValidPid, r
<1>6. CASE r = 5
  BY <1>2, <1>6 DEF decode_pid, ValidPid, r
<1>7. CASE r = 6
  BY <1>2, <1>7 DEF decode_pid, ValidPid, r
<1>8. CASE r = 11
  BY <1>2, <1>8 DEF decode_pid, ValidPid, r
<1>9. CASE r = 12
  BY <1>2, <1>9 DEF decode_pid, ValidPid, r
<1>10. CASE r = 13
  BY <1>2, <1>10 DEF decode_pid, ValidPid, r
<1>11. CASE r = 14
  BY <1>2, <1>11 DEF decode_pid, ValidPid, r
<1>12. CASE r = 15
  BY <1>2, <1>12 DEF decode_pid, ValidPid, r
<1>13. QED
  BY <1>1, <1>3, <1>4, <1>5, <1>6, <1>7, <1>8, <1>9, <1>10, <1>11, <1>12

(* The codes are different.                                                *)
LEMMA Codes ==
  /\ SupervisoryCode["RR"] = 0 /\ SupervisoryCode["RNR"] = 1
  /\ SupervisoryCode["REJ"] = 2 /\ SupervisoryCode["SREJ"] = 3
  /\ UnnumberedCode["SABM"] = 0 /\ UnnumberedCode["DISC"] = 1 /\ UnnumberedCode["DM"] = 2
  /\ UnnumberedCode["UA"] = 3 /\ UnnumberedCode["FRMR"] = 4 /\ UnnumberedCode["UI"] = 5
  BY DEF SupervisoryCode, UnnumberedCode

(* The name of a code is the type it is the code of.                       *)
LEMMA SupervisoryName ==
  ASSUME NEW t, t \in Supervisory
  PROVE  /\ SupervisoryCode[t] \in 0..3
         /\ CodeName(SupervisoryCode, "SREJ", SupervisoryCode[t]) = t
<1>1. t \in {"RR", "RNR", "REJ", "SREJ"} /\ DOMAIN SupervisoryCode = {"RR", "RNR", "REJ", "SREJ"}
  BY Types DEF Supervisory
<1>2. \A x \in DOMAIN SupervisoryCode : SupervisoryCode[x] = SupervisoryCode[t] => x = t
  BY <1>1, Codes
<1>3. SupervisoryCode[t] \in 0..3
  BY <1>1, Codes
<1>4. QED
  BY <1>1, <1>2, <1>3 DEF CodeName

(* An unnumbered type from its code.                                       *)
LEMMA UnnumberedName ==
  ASSUME NEW t, t \in Unnumbered
  PROVE  /\ UnnumberedCode[t] \in 0..5
         /\ CodeName(UnnumberedCode, "FRMR", UnnumberedCode[t]) = t
<1>1. t \in {"SABM", "DISC", "DM", "UA", "FRMR", "UI"}
      /\ DOMAIN UnnumberedCode = {"SABM", "DISC", "DM", "UA", "FRMR", "UI"}
  BY Types DEF Unnumbered
<1>2. \A x \in DOMAIN UnnumberedCode : UnnumberedCode[x] = UnnumberedCode[t] => x = t
  BY <1>1, Codes
<1>3. UnnumberedCode[t] \in 0..5
  BY <1>1, Codes
<1>4. QED
  BY <1>1, <1>2, <1>3 DEF CodeName

(* C is one bit of the control field.                                      *)
LEMMA CommandIs ==
  ASSUME NEW t
  PROVE  CommandBit(t) \in {0, 4} /\ (CommandBit(t) = 4 <=> t.cr \in {"cr_cmd", "cr_11"})
  BY DEF CommandBit

SupervisorySum(p, n, c, k) == 64 * p + 8 * n + c + k
UnnumberedSum(p, k, c) == 64 * p + 8 * k + c
InformationSum(p, n, m) == 64 * p + 8 * n + m

(* The parts of each kind of control field.                                *)
LEMMA SupervisoryFields ==
  ASSUME NEW p, NEW n, NEW c, NEW k, p \in {0, 1}, n \in 0..7, c \in {0, 4}, k \in 0..3,
         NEW x, x = SupervisorySum(p, n, c, k)
  PROVE  /\ x \in 0..127 /\ x % 4 = k /\ (x \div 8) % 8 = n
         /\ Bit(x, 2) = 1 <=> c = 4
         /\ Bit(x, 6) = p
<1>1. /\ x \in 0..127 /\ x % 4 = k /\ (x \div 8) % 8 = n
      /\ (x \div 4) % 2 = 1 <=> c = 4
      /\ (x \div 64) % 2 = p
  BY DEF SupervisorySum
<1>2. Bit(x, 2) = (x \div 4) % 2 /\ Bit(x, 6) = (x \div 64) % 2
  BY Powers DEF Bit
<1>3. QED
  BY <1>1, <1>2

(* The code is above C.                                                    *)
LEMMA UnnumberedFields ==
  ASSUME NEW p, NEW c, NEW k, p \in {0, 1}, c \in {0, 4}, k \in 0..5,
         NEW x, x = UnnumberedSum(p, k, c)
  PROVE  /\ x \in 0..127 /\ (x \div 8) % 8 = k
         /\ Bit(x, 2) = 1 <=> c = 4
         /\ Bit(x, 6) = p
<1>1. /\ x \in 0..127 /\ (x \div 8) % 8 = k
      /\ (x \div 4) % 2 = 1 <=> c = 4
      /\ (x \div 64) % 2 = p
  BY DEF UnnumberedSum
<1>2. Bit(x, 2) = (x \div 4) % 2 /\ Bit(x, 6) = (x \div 64) % 2
  BY Powers DEF Bit
<1>3. QED
  BY <1>1, <1>2

(* N(R) is above N(S).                                                     *)
LEMMA InformationFields ==
  ASSUME NEW p, NEW n, NEW m, p \in {0, 1}, n \in 0..7, m \in 0..7,
         NEW x, x = InformationSum(p, n, m)
  PROVE  x \in 0..127 /\ (x \div 8) % 8 = n /\ x % 8 = m /\ Bit(x, 6) = p
<1>1. x \in 0..127 /\ (x \div 8) % 8 = n /\ x % 8 = m /\ (x \div 64) % 2 = p
  BY DEF InformationSum
<1>2. Bit(x, 6) = (x \div 64) % 2
  BY Powers DEF Bit
<1>3. QED
  BY <1>1, <1>2

(* What is read of the control field of an S frame.                        *)
LEMMA SupervisoryHeader ==
  ASSUME NEW t, t.type \in Supervisory, t.pf \in {0, 1}, t.nr \in 0..7,
         NEW x, x = HeaderControl(t)
  PROVE  /\ x \in 0..127
         /\ x % 4 = SupervisoryCode[t.type] /\ (x \div 8) % 8 = t.nr
         /\ Bit(x, 2) = 1 <=> t.cr \in {"cr_cmd", "cr_11"}
         /\ Bit(x, 6) = t.pf
<1>2. SupervisoryCode[t.type] \in 0..3
  BY SupervisoryName
<1>1. x = SupervisorySum(t.pf, t.nr, CommandBit(t), SupervisoryCode[t.type])
  <2>1. t.type \notin Unnumbered /\ t.type # "I"
    BY Types
  <2>2. QED
    BY <1>2, <2>1, CommandIs DEF HeaderControl, SupervisorySum
<1>3. QED
  BY <1>1, <1>2, CommandIs, SupervisoryFields

(* What is read of that of a U frame.                                      *)
LEMMA UnnumberedHeader ==
  ASSUME NEW t, t.type \in Unnumbered, t.pf \in {0, 1},
         NEW x, x = HeaderControl(t)
  PROVE  /\ x \in 0..127
         /\ (x \div 8) % 8 = UnnumberedCode[t.type]
         /\ Bit(x, 2) = 1 <=> t.cr \in {"cr_cmd", "cr_11"}
         /\ Bit(x, 6) = t.pf
<1>2. UnnumberedCode[t.type] \in 0..5
  BY UnnumberedName
<1>1. x = UnnumberedSum(t.pf, UnnumberedCode[t.type], CommandBit(t))
  <2>1. t.type \notin Supervisory /\ t.type # "I"
    BY Types
  <2>2. QED
    BY <1>2, <2>1, CommandIs DEF HeaderControl, UnnumberedSum
<1>3. QED
  BY <1>1, <1>2, CommandIs, UnnumberedFields

(* What is read of that of an I frame.                                     *)
LEMMA InformationHeader ==
  ASSUME NEW t, t.type = "I", t.pf \in {0, 1}, t.nr \in 0..7, t.ns \in 0..7,
         NEW x, x = HeaderControl(t)
  PROVE  /\ x \in 0..127 /\ (x \div 8) % 8 = t.nr /\ x % 8 = t.ns
         /\ Bit(x, 6) = t.pf
<1>1. x = InformationSum(t.pf, t.nr, t.ns)
  <2>1. t.type \notin Supervisory /\ t.type \notin Unnumbered
    BY Types
  <2>2. QED
    BY <2>1 DEF HeaderControl, InformationSum
<1>2. QED
  BY <1>1, InformationFields

(* No length is negative.                                                  *)
LEMMA CountIsNat ==
  ASSUME NEW f \in packet_t
  PROVE  CountOf(f) \in Nat
<1>1. f.frame_len \in Int
  <2>1. f.frame_len \in AX25_MIN_PACKET_LEN..AX25_MAX_PACKET_LEN
    BY DEF packet_t
  <2>2. AX25_MIN_PACKET_LEN \in Int /\ AX25_MAX_PACKET_LEN \in Int
    BY DEF AX25_MIN_PACKET_LEN, AX25_MAX_PACKET_LEN, AX25_MAX_INFO_LEN
  <2>3. QED
    BY <2>1, <2>2
<1>2. ax25_get_num_pid(f) \in {0, 1, 2}
  BY DEF ax25_get_num_pid
<1>3. QED
  BY <1>1, <1>2 DEF CountOf, ax25_get_num_info

(* What il2p_type_1_header returns.                                        *)
LEMMA ResultFacts ==
  ASSUME NEW f \in packet_t, NEW e, e = HeaderResult(f, MaxPayload), MaxPayload < 1024
  PROVE  /\ e \in Int
         /\ e >= 0 => /\ Sixbit(f) /\ ax25_frame_type(f).type # "U" /\ PidOf(f) >= 0
                      /\ e = CountOf(f) /\ CountOf(f) <= MaxPayload /\ CountOf(f) \in 0..1023
<1>1. MaxPayload \in Nat
  BY Il2pCodecAssumption
<1>2. CountOf(f) \in Nat
  BY CountIsNat
<1>3. e = IF ~Sixbit(f) THEN -1
          ELSE IF ax25_frame_type(f).type = "U" \/ PidOf(f) < 0 THEN -1
               ELSE IF CountOf(f) > MaxPayload THEN -2 ELSE CountOf(f)
  BY DEF HeaderResult, Sixbit, Station, PidOf, CountOf
<1>4. ax25_frame_type(f).type # "U" => PidOf(f) \in Int
  <2>1. f.pid \in 0..255
    BY DEF packet_t
  <2>2. encode_pid(f.pid) \in Int
    BY DEF encode_pid
  <2> DEFINE t == ax25_frame_type(f)
  <2>3. t.type \in Supervisory \/ t.type \in Unnumbered \/ t.type \in {"U", "I"}
    BY TypeFacts
  <2> HIDE DEF t
  <2>4. t.type # "U" => HeaderPid(f, t) \in Int
    BY <2>2, <2>3, Types DEF HeaderPid
  <2>5. QED
    BY <2>4 DEF PidOf, t
<1>5. QED
  BY <1>1, <1>2, <1>3, <1>4

-----------------------------------------------------------------------------
(* From a header to a frame.                                               *)

(* A name is read as the receiver trims it.                                *)
LEMMA HeaderNameIs ==
  ASSUME NEW f \in packet_t, Sixbit(f), NEW h, h = il2p_type_1_header(f), NEW n \in 1..2
  PROVE  HeaderName(h, n) = StationName(f, n)
<1> DEFINE s == Station(f, n)
           read == [i \in 1..6 |-> sixbit_to_ascii(GetOctet(h, 6 * (n - 1) + i - 1, 6))]
<1>1. s \in Seq(Nat) /\ Len(s) <= 6
  BY StationFacts
<1>2. \A i \in 1..6 : sixbit_to_ascii(GetOctet(h, 6 * (n - 1) + i - 1, 6)) = Padded(s)[i]
  BY NameOctet
<1>3. read = Padded(s)
  <2>1. Padded(s) = [i \in 1..6 |-> Padded(s)[i]]
    BY DEF Padded
  <2>2. QED
    BY <1>2, <2>1
<1>4. HeaderName(h, n) = Trimmed(read)
  BY DEF HeaderName
<1>5. Trimmed(Padded(s)) = Trimmed(s)
  BY <1>1, TrimmedPadded
<1>6. QED
  BY <1>3, <1>4, <1>5 DEF StationName, Station

Addrs(f) == <<[name |-> StationName(f, 1), ssid |-> f.addr.ssid[1]],
              [name |-> StationName(f, 2), ssid |-> f.addr.ssid[2]]>>

(* So are the addresses.                                                   *)
LEMMA HeaderAddrsIs ==
  ASSUME NEW f \in packet_t, Sixbit(f), NEW h, h = il2p_type_1_header(f)
  PROVE  HeaderAddrs(h) = Addrs(f)
<1>1. HeaderName(h, 1) = StationName(f, 1) /\ HeaderName(h, 2) = StationName(f, 2)
  <2>1. 1 \in 1..2 /\ 2 \in 1..2
    OBVIOUS
  <2>2. QED
    BY <2>1, HeaderNameIs
<1>2. GetOctet(h, 12, 8) \div 16 = f.addr.ssid[1] /\ GetOctet(h, 12, 8) % 16 = f.addr.ssid[2]
  BY SSIDOctet
<1>3. QED
  BY <1>1, <1>2 DEF HeaderAddrs, Addrs

(* A frame is heard as its header says.                                    *)
CommandRead(f) == IF Bit(ControlIn(f), 2) = 1 THEN "cr_cmd" ELSE "cr_res"

Decoded(f, t) ==
  CASE t.type \in Supervisory -> ax25_s_frame(Addrs(f), CommandRead(f), t.type, t.nr, t.pf, 0)
    [] t.type \in Unnumbered \ {"UI"} ->
         ax25_u_frame(Addrs(f), CommandRead(f), t.type, t.pf, AX25_PID_NO_LAYER_3, 0)
    [] t.type = "UI" ->
         ax25_u_frame(Addrs(f), CommandRead(f), "UI", t.pf, decode_pid(encode_pid(f.pid)), 0)
    [] t.type = "I" ->
         ax25_i_frame(Addrs(f), "cr_cmd", t.nr, t.ns, t.pf, decode_pid(encode_pid(f.pid)), 0)

(* The control field has seven bits, the PID four.                         *)
LEMMA ControlFits ==
  ASSUME NEW f \in packet_t, ax25_frame_type(f).type # "U", PidOf(f) >= 0
  PROVE  ControlIn(f) \in 0..127 /\ PidOf(f) \in 0..15
<1> DEFINE t == ax25_frame_type(f)
<1>1. /\ t.pf \in {0, 1} /\ f.pid \in 0..255
      /\ \/ t.type \in Supervisory /\ t.nr \in 0..7
         \/ t.type \in Unnumbered
         \/ t.type = "I" /\ t.nr \in 0..7 /\ t.ns \in 0..7
  BY TypeFacts
<1>2. PidOf(f) = HeaderPid(f, t) /\ ControlIn(f) = HeaderControl(t)
  BY DEF PidOf, ControlIn
<1> HIDE DEF t
<1>3. HeaderControl(t) \in 0..127
  BY <1>1, SupervisoryHeader, UnnumberedHeader, InformationHeader
<1>4. PidOf(f) \in 0..15
  <2>1. CASE t.type \in {"UI", "I"}
    <3>1. PidOf(f) = encode_pid(f.pid)
      BY <1>2, <2>1, Types DEF HeaderPid
    <3>2. QED
      BY <1>1, <3>1, PidFacts
  <2>2. CASE t.type \notin {"UI", "I"}
    BY <1>1, <1>2, <2>2, Types DEF HeaderPid
  <2>3. QED
    BY <2>1, <2>2
<1>5. QED
  BY <1>2, <1>3, <1>4

(* Which frame is made of the header, if one is (il2p_header.c:336-480).   *)
LEMMA DecodedFrame ==
  ASSUME NEW f \in packet_t, MaxPayload < 1024, HeaderResult(f, MaxPayload) >= 0,
         NEW h, h = il2p_type_1_header(f)
  PROVE  /\ ~PlainNames(f) => il2p_decode_header_type_1(h) = NULL_PACKET
         /\ PlainNames(f) => il2p_decode_header_type_1(h) = Decoded(f, ax25_frame_type(f))
<1> DEFINE t == ax25_frame_type(f)
           x == ControlIn(f)
           p == PidOf(f)
           u == UIOf(f)
           cr == CommandRead(f)
           plain == \A n \in 1..2 : Alphanumeric(Addrs(f)[n].name)
           said ==
             CASE p = 0 -> ax25_s_frame(Addrs(f), cr, CodeName(SupervisoryCode, "SREJ", x % 4),
                                        (x \div 8) % 8, Bit(x, 6), 0)
               [] p = 1 -> ax25_u_frame(Addrs(f), cr, CodeName(UnnumberedCode, "FRMR", (x \div 8) % 8),
                                        Bit(x, 6), AX25_PID_NO_LAYER_3, 0)
               [] p > 1 /\ u = 1 -> ax25_u_frame(Addrs(f), cr, "UI", Bit(x, 6), decode_pid(p), 0)
               [] p > 1 /\ u = 0 -> ax25_i_frame(Addrs(f), "cr_cmd", (x \div 8) % 8, x % 8,
                                                 Bit(x, 6), decode_pid(p), 0)
<1>1. Sixbit(f) /\ t.type # "U" /\ p >= 0 /\ CountOf(f) \in 0..1023
  BY ResultFacts
<1>2. x \in 0..127 /\ p \in 0..15
  BY <1>1, ControlFits
<1>3. GET_UI(h) = u /\ GET_PID(h) = p /\ GET_CONTROL(h) = x
  BY <1>1, <1>2, UpperFields
<1>4. HeaderAddrs(h) = Addrs(f)
  BY <1>1, HeaderAddrsIs
<1>5. plain <=> PlainNames(f)
  BY DEF PlainNames, Addrs
<1>6. /\ t.pf \in {0, 1} /\ f.pid \in 0..255
      /\ \/ t.type \in Supervisory /\ t.nr \in 0..7
         \/ t.type \in Unnumbered
         \/ t.type = "I" /\ t.nr \in 0..7 /\ t.ns \in 0..7
  BY <1>1, TypeFacts
<1>7. p = HeaderPid(f, t) /\ x = HeaderControl(t)
  BY DEF PidOf, ControlIn
<1>8. il2p_decode_header_type_1(h) = CASE ~plain -> NULL_PACKET [] OTHER -> said
  BY <1>3, <1>4 DEF il2p_decode_header_type_1, CommandRead
<1>9. u = IF t.type = "UI" THEN 1 ELSE 0
  BY DEF UIOf
<1> HIDE DEF t, x, p, u, cr, plain, said
<1> DEFINE d == il2p_decode_header_type_1(h)
<1>10. CASE ~plain
  <2>1. d = NULL_PACKET
    BY <1>8, <1>10
  <2>2. QED
    BY <1>5, <1>10, <2>1
<1>11. CASE plain
  <2>1. d = said
    BY <1>8, <1>11
  <2> HIDE DEF d
  <2>2. CASE t.type \in Supervisory
    <3>1. p = 0 /\ t.type \notin Unnumbered /\ t.type \notin {"UI", "I"}
      BY <1>7, <2>2, Types DEF HeaderPid
    <3>2. d = ax25_s_frame(Addrs(f), cr, CodeName(SupervisoryCode, "SREJ", x % 4),
                           (x \div 8) % 8, Bit(x, 6), 0)
      BY <2>1, <3>1 DEF said
    <3>3. x % 4 = SupervisoryCode[t.type] /\ (x \div 8) % 8 = t.nr /\ Bit(x, 6) = t.pf
      BY <1>6, <1>7, <2>2, <3>1, SupervisoryHeader
    <3>4. CodeName(SupervisoryCode, "SREJ", SupervisoryCode[t.type]) = t.type
      BY <2>2, SupervisoryName
    <3>5. d = ax25_s_frame(Addrs(f), cr, t.type, t.nr, t.pf, 0)
      BY <3>2, <3>3, <3>4
    <3>6. Decoded(f, t) = ax25_s_frame(Addrs(f), cr, t.type, t.nr, t.pf, 0)
      BY <2>2, <3>1 DEF Decoded, cr
    <3>7. QED
      BY <1>5, <1>11, <3>5, <3>6 DEF d, t
  <2>3. CASE t.type \in Unnumbered \ {"UI"}
    <3>1. p = 1 /\ t.type \notin Supervisory /\ t.type \notin {"UI", "I"}
      BY <1>7, <2>3, Types DEF HeaderPid
    <3>2. d = ax25_u_frame(Addrs(f), cr, CodeName(UnnumberedCode, "FRMR", (x \div 8) % 8),
                           Bit(x, 6), AX25_PID_NO_LAYER_3, 0)
      BY <2>1, <3>1 DEF said
    <3>3. (x \div 8) % 8 = UnnumberedCode[t.type] /\ Bit(x, 6) = t.pf
      BY <1>6, <1>7, <2>3, UnnumberedHeader
    <3>4. CodeName(UnnumberedCode, "FRMR", UnnumberedCode[t.type]) = t.type
      BY <2>3, UnnumberedName
    <3>5. d = ax25_u_frame(Addrs(f), cr, t.type, t.pf, AX25_PID_NO_LAYER_3, 0)
      BY <3>2, <3>3, <3>4
    <3>6. Decoded(f, t) = ax25_u_frame(Addrs(f), cr, t.type, t.pf, AX25_PID_NO_LAYER_3, 0)
      BY <2>3, <3>1 DEF Decoded, cr
    <3>7. QED
      BY <1>5, <1>11, <3>5, <3>6 DEF d, t
  <2>4. CASE t.type = "UI"
    <3>1. p = encode_pid(f.pid) /\ t.type \in Unnumbered /\ t.type \notin Supervisory
      BY <1>7, <2>4, Types DEF HeaderPid
    <3>2. p > 1 /\ u = 1
      BY <1>2, <1>6, <1>9, <2>4, <3>1, PidFacts
    <3>3. d = ax25_u_frame(Addrs(f), cr, "UI", Bit(x, 6), decode_pid(p), 0)
      BY <2>1, <3>2 DEF said
    <3>4. Bit(x, 6) = t.pf
      BY <1>6, <1>7, <3>1, UnnumberedHeader
    <3>5. Decoded(f, t) = ax25_u_frame(Addrs(f), cr, "UI", t.pf, decode_pid(p), 0)
      BY <2>4, <3>1 DEF Decoded, cr
    <3>6. QED
      BY <1>5, <1>11, <3>3, <3>4, <3>5 DEF d, t
  <2>5. CASE t.type = "I"
    <3>1. p = encode_pid(f.pid) /\ t.type \notin Unnumbered /\ t.type \notin Supervisory
      BY <1>7, <2>5, Types DEF HeaderPid
    <3>2. p > 1 /\ u = 0
      BY <1>2, <1>6, <1>9, <2>5, <3>1, PidFacts
    <3>3. d = ax25_i_frame(Addrs(f), "cr_cmd", (x \div 8) % 8, x % 8, Bit(x, 6), decode_pid(p), 0)
      BY <2>1, <3>2 DEF said
    <3>4. (x \div 8) % 8 = t.nr /\ x % 8 = t.ns /\ Bit(x, 6) = t.pf
      BY <1>6, <1>7, <2>5, <3>1, InformationHeader
    <3>5. Decoded(f, t) = ax25_i_frame(Addrs(f), "cr_cmd", t.nr, t.ns, t.pf, decode_pid(p), 0)
      BY <2>5, <3>1 DEF Decoded
    <3>6. QED
      BY <1>5, <1>11, <3>3, <3>4, <3>5 DEF d, t
  <2>6. QED
    BY <1>6, <2>2, <2>3, <2>4, <2>5
<1>12. QED
  BY <1>10, <1>11

-----------------------------------------------------------------------------
(* What is heard.                                                          *)

HasPid(type) == IF type \in {"UI", "I"} THEN 1 ELSE 0

(* The control octet c and the PID p say what f says.                      *)
SaysAs(f, c, p) ==
  LET t == ax25_frame_type(f) IN
  /\ c \in 0..255 /\ p \in 0..254
  /\ TypeOfControl(c) = t.type /\ Bit(c, 4) = t.pf
  /\ (IF c % 4 # 3 THEN c \div 32 ELSE -1) = t.nr
  /\ (IF t.type = "I" THEN (c \div 2) % 8 ELSE -1) = t.ns
  /\ (IF c % 2 = 0 \/ c \in {3, 19} THEN 1 ELSE 0) = HasPid(t.type)
  /\ t.type \in {"UI", "I"} => encode_pid(p) = encode_pid(f.pid)

(* How a header says command or response.                                  *)
SaysWhose(f, cr) ==
  /\ cr \in {"cr_cmd", "cr_res"}
  /\ cr = "cr_res" => f.addr.name[AX25_DESTINATION][1] = NUL /\ ax25_frame_type(f).type # "I"

(* g says what f says and has n octets of information.                     *)
Echoes(g, f, n) ==
  \E cr, c, p :
    /\ SaysAs(f, c, p) /\ SaysWhose(f, cr)
    /\ g = PacketOf(Addrs(f), cr, c, p, 15 + HasPid(ax25_frame_type(f).type) + n)

(* Command, but for a destination that begins with a NUL.                  *)
LEMMA CommandReadFacts ==
  ASSUME NEW f \in packet_t, ax25_frame_type(f).type \in Supervisory \cup Unnumbered
  PROVE  SaysWhose(f, CommandRead(f))
<1> DEFINE t == ax25_frame_type(f)
<1>1. t.pf \in {0, 1} /\ (t.type \in Supervisory => t.nr \in 0..7) /\ t.type # "I"
  BY Types, TypeFacts
<1>2. Bit(ControlIn(f), 2) = 1 <=> t.cr \in {"cr_cmd", "cr_11"}
  <2>1. ControlIn(f) = HeaderControl(t)
    BY DEF ControlIn
  <2>2. t.type \in Supervisory \/ t.type \in Unnumbered
    OBVIOUS
  <2> HIDE DEF t
  <2>3. QED
    BY <1>1, <2>1, <2>2, SupervisoryHeader, UnnumberedHeader
<1>3. f.addr.name[AX25_DESTINATION][1] # NUL => t.cr \in {"cr_cmd", "cr_11"}
  <2>1. t.cr = CommandOrResponse(f)
    BY DEF ax25_frame_type
  <2> HIDE DEF t
  <2>2. QED
    BY <2>1 DEF CommandOrResponse, AX25_DESTINATION, AX25_SOURCE, NUL
<1>4. QED
  BY <1>1, <1>2, <1>3 DEF SaysWhose, CommandRead

(* The frame that is made says what the one that was sent says.            *)
LEMMA DecodedEchoes ==
  ASSUME NEW f \in packet_t, ax25_frame_type(f).type # "U", PidOf(f) >= 0
  PROVE  Echoes(Decoded(f, ax25_frame_type(f)), f, 0)
<1> DEFINE t == ax25_frame_type(f)
           cr == CommandRead(f)
           q == ValidPid(decode_pid(encode_pid(f.pid)))
<1>1. /\ t.pf \in {0, 1} /\ f.pid \in 0..255
      /\ \/ t.type \in Supervisory /\ t.nr \in 0..7 /\ t.ns = -1
         \/ t.type \in Unnumbered /\ t.nr = -1 /\ t.ns = -1
         \/ t.type = "I" /\ t.nr \in 0..7 /\ t.ns \in 0..7
  BY TypeFacts
<1>2. PidOf(f) = HeaderPid(f, t)
  BY DEF PidOf
<1>3. t.type \in Supervisory \cup Unnumbered => SaysWhose(f, cr)
  BY CommandReadFacts
<1>4. t = ax25_frame_type(f)
  OBVIOUS
<1> HIDE DEF t, cr
<1>5. CASE t.type \in Supervisory
  <2> DEFINE c == ControlOf(t.type) + 16 * t.pf + 32 * t.nr
  <2>1. t.type \notin Unnumbered /\ t.type \notin {"UI", "I"} /\ t.ns = -1 /\ t.nr \in 0..7
    BY <1>1, <1>5, Types
  <2>2. Decoded(f, t) = ax25_s_frame(Addrs(f), cr, t.type, t.nr, t.pf, 0)
    BY <1>5, <2>1 DEF Decoded, cr
  <2>3. Decoded(f, t) = PacketOf(Addrs(f), cr, c, 0, 15)
    BY <2>2 DEF ax25_s_frame
  <2>4. /\ c \in 0..255 /\ c % 4 = 1 /\ c % 2 = 1
        /\ TypeOfControl(c) = t.type /\ Bit(c, 4) = t.pf /\ c \div 32 = t.nr
    BY <1>1, <1>5, <2>1, SupervisoryControl
  <2> HIDE DEF c
  <2>5. SaysAs(f, c, 0)
    BY <1>4, <2>1, <2>4 DEF SaysAs, HasPid
  <2>6. 15 + HasPid(t.type) + 0 = 15
    BY <2>1 DEF HasPid
  <2>7. QED
    BY <1>3, <1>4, <1>5, <2>3, <2>5, <2>6 DEF Echoes
<1>6. CASE t.type \in Unnumbered
  <2> DEFINE c == ControlOf(t.type) + 16 * t.pf
             p == IF t.type = "UI" THEN q ELSE 0
  <2>1. t.type \notin Supervisory /\ t.type # "I" /\ t.ns = -1 /\ t.nr = -1
    BY <1>1, <1>6, Types
  <2>2. t.type # "UI" => Decoded(f, t) = ax25_u_frame(Addrs(f), cr, t.type, t.pf, AX25_PID_NO_LAYER_3, 0)
    BY <1>6, <2>1 DEF Decoded, cr
  <2>3. t.type = "UI" =>
          Decoded(f, t) = ax25_u_frame(Addrs(f), cr, "UI", t.pf, decode_pid(encode_pid(f.pid)), 0)
    BY <1>6, <2>1 DEF Decoded, cr
  <2>4. /\ c \in 0..255 /\ c % 4 = 3 /\ c % 2 = 1
        /\ TypeOfControl(c) = t.type /\ Bit(c, 4) = t.pf
        /\ c \in {3, 19} <=> t.type = "UI"
    BY <1>1, <1>6, UnnumberedControl
  <2>5. p \in 0..254 /\ (t.type = "UI" => encode_pid(p) = encode_pid(f.pid))
    <3>1. t.type = "UI" => PidOf(f) = encode_pid(f.pid)
      BY <1>2, <2>1, Types DEF HeaderPid
    <3>2. QED
      BY <1>1, <3>1, PidFacts
  <2>6. Decoded(f, t) = PacketOf(Addrs(f), cr, c, p, 15 + HasPid(t.type) + 0)
    <3>1. CASE t.type = "UI"
      <4>1. 15 + 1 + (IF "UI" \in {"UI", "FRMR"} THEN 0 ELSE 0) = 15 + HasPid(t.type) + 0
        BY <3>1 DEF HasPid
      <4>2. QED
        BY <2>3, <3>1, <4>1 DEF ax25_u_frame
    <3>2. CASE t.type # "UI"
      <4>1. 15 + 0 + (IF t.type \in {"UI", "FRMR"} THEN 0 ELSE 0) = 15 + HasPid(t.type) + 0
        BY <2>1, <3>2 DEF HasPid
      <4>2. QED
        BY <2>2, <3>2, <4>1 DEF ax25_u_frame
    <3>3. QED
      BY <3>1, <3>2
  <2> HIDE DEF c, p
  <2>7. SaysAs(f, c, p)
    BY <1>4, <2>1, <2>4, <2>5 DEF SaysAs, HasPid
  <2>8. QED
    BY <1>3, <1>4, <1>6, <2>6, <2>7 DEF Echoes
<1>7. CASE t.type = "I"
  <2> DEFINE c == 32 * t.nr + 2 * t.ns + 16 * t.pf
  <2>1. t.type \notin Supervisory /\ t.type \notin Unnumbered /\ t.nr \in 0..7 /\ t.ns \in 0..7
    BY <1>1, <1>7, Types
  <2>2. Decoded(f, t) =
          ax25_i_frame(Addrs(f), "cr_cmd", t.nr, t.ns, t.pf, decode_pid(encode_pid(f.pid)), 0)
    BY <1>7, <2>1 DEF Decoded
  <2>3. Decoded(f, t) = PacketOf(Addrs(f), "cr_cmd", c, q, 16 + 0)
    BY <2>2 DEF ax25_i_frame
  <2>4. /\ c \in 0..255 /\ c % 2 = 0 /\ c % 4 # 3
        /\ TypeOfControl(c) = "I" /\ Bit(c, 4) = t.pf /\ c \div 32 = t.nr /\ (c \div 2) % 8 = t.ns
    BY <1>1, <2>1, InformationControl
  <2>5. q \in 0..254 /\ encode_pid(q) = encode_pid(f.pid)
    <3>1. PidOf(f) = encode_pid(f.pid)
      BY <1>2, <1>7, <2>1 DEF HeaderPid
    <3>2. QED
      BY <1>1, <3>1, PidFacts
  <2> HIDE DEF c, q
  <2>6. SaysAs(f, c, q)
    BY <1>4, <1>7, <2>4, <2>5 DEF SaysAs, HasPid
  <2>7. 15 + HasPid(t.type) + 0 = 16 + 0
    BY <1>7 DEF HasPid
  <2>8. SaysWhose(f, "cr_cmd")
    BY DEF SaysWhose
  <2>9. QED
    BY <1>4, <2>3, <2>6, <2>7, <2>8 DEF Echoes
<1>8. QED
  BY <1>1, <1>4, <1>5, <1>6, <1>7

(* What was gathered is put into a frame that has none.                    *)
LEMMA InfoOfEcho ==
  ASSUME NEW f \in packet_t, NEW g, NEW n, n \in Nat, Echoes(g, f, n)
  PROVE  /\ ax25_get_num_pid(g) = HasPid(ax25_frame_type(f).type)
         /\ ax25_get_num_info(g) = n
<1> DEFINE np == HasPid(ax25_frame_type(f).type)
<1>1. PICK cr, c, p : SaysAs(f, c, p) /\ g = PacketOf(Addrs(f), cr, c, p, 15 + np + n)
  BY DEF Echoes
<1>2. g.control = c /\ g.pid = p /\ g.frame_len = 15 + np + n
  BY <1>1 DEF PacketOf
<1>3. np \in {0, 1}
  BY DEF HasPid
<1>4. p # 255 /\ (IF c % 2 = 0 \/ c \in {3, 19} THEN 1 ELSE 0) = np
  BY <1>1 DEF SaysAs
<1> HIDE DEF np
<1>5. ax25_get_num_pid(g) = np
  BY <1>2, <1>4 DEF ax25_get_num_pid, AX25_PID_ESCAPE_CHARACTER
<1>6. ax25_get_num_info(g) = n
  BY <1>2, <1>3, <1>5 DEF ax25_get_num_info
<1>7. QED
  BY <1>5, <1>6 DEF np

(* And with the payload it is an echo of the whole frame.                  *)
LEMMA SetInfoEchoes ==
  ASSUME NEW f \in packet_t, NEW g, Echoes(g, f, 0), NEW n, n \in 0..1023
  PROVE  Echoes(ax25_set_info(g, n), f, n)
<1> DEFINE np == HasPid(ax25_frame_type(f).type)
<1>1. PICK cr, c, p : /\ SaysAs(f, c, p) /\ SaysWhose(f, cr)
                      /\ g = PacketOf(Addrs(f), cr, c, p, 15 + np + 0)
  BY DEF Echoes
<1>2. np \in {0, 1}
  BY DEF HasPid
<1>3. ax25_get_num_info(g) = 0
  BY InfoOfEcho
<1>4. ax25_set_info(g, n) = [g EXCEPT !.frame_len = 15 + np + n]
  <2>1. ax25_set_info(g, n) = [g EXCEPT !.frame_len = @ - 0 + n]
    BY <1>3 DEF ax25_set_info, AX25_MAX_INFO_LEN
  <2>2. g.frame_len = 15 + np + 0
    BY <1>1 DEF PacketOf
  <2>3. (15 + np + 0) - 0 + n = 15 + np + n
    BY <1>2
  <2>4. QED
    BY <2>1, <2>2, <2>3
<1>5. [g EXCEPT !.frame_len = 15 + np + n] = PacketOf(Addrs(f), cr, c, p, 15 + np + n)
  BY <1>1 DEF PacketOf
<1>6. QED
  BY <1>1, <1>4, <1>5 DEF Echoes

(* A plain name, as it is padded and read again, is itself.                *)
LEMMA PlainNameStays ==
  ASSUME NEW name, name \in Seq(Nat), Len(name) <= 6, NEW s, s = Trimmed(name), Alphanumeric(s)
  PROVE  /\ s \in Seq(Nat) /\ Len(s) <= 6
         /\ Trimmed(Padded(s)) = s /\ BeforeNUL(s) = s /\ Trimmed(s) = s
         /\ \A i \in 1..6 : Padded(s)[i] \in Nat /\ Padded(s)[i] # NUL
<1>1. PICK m : s \in Seq(Nat) /\ Len(s) = m /\ m <= 6
  BY TrimmedFacts
<1>2. Trimmed(s) = s
  BY TrimmedTwice
<1>3. Trimmed(Padded(s)) = s
  BY <1>1, <1>2, TrimmedPadded
<1>4. \A i \in 1..Len(s) : s[i] \in Nat /\ s[i] # NUL
  <2>1. DOMAIN s = 1..Len(s)
    BY <1>1
  <2>2. \A i \in DOMAIN s : s[i] \in 65..90 \/ s[i] \in 48..57
    BY DEF Alphanumeric, Upper, Digit
  <2>3. (\A x \in 65..90 : x \in Nat /\ x # NUL) /\ (\A x \in 48..57 : x \in Nat /\ x # NUL)
    BY DEF NUL
  <2>4. QED
    BY <2>1, <2>2, <2>3
<1>5. BeforeNUL(s) = s
  <2>1. StopsAt(s, Len(s))
    BY <1>1, <1>4 DEF StopsAt
  <2>2. SubSeq(s, 1, Len(s)) = s
    BY <1>1
  <2>3. QED
    BY <1>1, <2>1, <2>2, BeforeNULIs
<1>6. \A i \in 1..6 : Padded(s)[i] \in Nat /\ Padded(s)[i] # NUL
  <2>1. \A i \in 1..6 : Padded(s)[i] = IF i <= Len(s) THEN s[i] ELSE Space
    BY <1>1, PaddedIsSeq
  <2>2. Space \in Nat /\ Space # NUL
    BY DEF Space, NUL
  <2>3. \A i \in 1..6 : i <= Len(s) => i \in 1..Len(s)
    BY <1>1
  <2>4. QED
    BY <1>4, <2>1, <2>2, <2>3
<1>7. QED
  BY <1>1, <1>2, <1>3, <1>5, <1>6

(* The addresses of a frame that echoes one with plain names.              *)
LEMMA EchoedAddresses ==
  ASSUME NEW f \in packet_t, PlainNames(f), NEW g, NEW n, Echoes(g, f, n), NEW k \in 1..2
  PROVE  /\ StationName(g, k) = StationName(f, k)
         /\ g.addr.ssid = f.addr.ssid
         /\ \A i \in 1..6 : g.addr.name[k][i] # 0
<1> DEFINE s == StationName(f, k)
<1>1. PICK cr, c, p : g = PacketOf(Addrs(f), cr, c, p, 15 + HasPid(ax25_frame_type(f).type) + n)
  BY DEF Echoes
<1>2. g.addr = set_addrs(Addrs(f), cr)
  BY <1>1 DEF PacketOf
<1>3. Station(f, k) \in Seq(Nat) /\ Len(Station(f, k)) <= 6
  BY StationFacts
<1>4. s = Trimmed(Station(f, k)) /\ Alphanumeric(s)
  BY DEF StationName, Station, PlainNames
<1>5. Addrs(f)[k].name = s /\ Addrs(f)[k].ssid = f.addr.ssid[k]
  <2>1. CASE k = 1
    BY <2>1 DEF Addrs
  <2>2. CASE k = 2
    BY <2>2 DEF Addrs
  <2>3. QED
    BY <2>1, <2>2
<1>6. Addrs(f)[1].ssid = f.addr.ssid[1] /\ Addrs(f)[2].ssid = f.addr.ssid[2]
  BY DEF Addrs
<1>7. g.addr.ssid = f.addr.ssid
  <2>1. f.addr.ssid \in [1..2 -> 0..15]
    BY DEF packet_t
  <2>2. g.addr.ssid = [x \in 1..2 |-> Addrs(f)[x].ssid]
    BY <1>2 DEF set_addrs
  <2>3. \A x \in 1..2 : Addrs(f)[x].ssid = f.addr.ssid[x]
    BY <1>6
  <2>4. QED
    BY <2>1, <2>2, <2>3
<1> HIDE DEF s
<1>8. /\ s \in Seq(Nat) /\ Len(s) <= 6
      /\ Trimmed(Padded(s)) = s /\ BeforeNUL(s) = s /\ Trimmed(s) = s
      /\ \A i \in 1..6 : Padded(s)[i] \in Nat /\ Padded(s)[i] # NUL
  BY <1>3, <1>4, PlainNameStays
<1>9. \A i \in 1..6 : g.addr.name[k][i] = 2 * Padded(s)[i]
  <2>1. g.addr.name[k] =
          [i \in 1..6 |-> 2 * (IF i <= Len(s) THEN s[i] ELSE Space)]
    <3>1. g.addr.name = [m \in 1..2 |-> [i \in 1..6 |->
            2 * (IF i <= Len(Addrs(f)[m].name) THEN Addrs(f)[m].name[i] ELSE Space)]]
      BY <1>2 DEF set_addrs
    <3>2. Addrs(f)[k].name = s
      BY <1>5
    <3>3. g.addr.name[k] = [i \in 1..6 |->
            2 * (IF i <= Len(Addrs(f)[k].name) THEN Addrs(f)[k].name[i] ELSE Space)]
      BY ONLY <3>1, k \in 1..2
    <3>4. QED
      BY ONLY <3>2, <3>3, Zenon
  <2>2. QED
    BY <2>1 DEF Padded
<1>10. \A i \in 1..6 : g.addr.name[k][i] # 0 /\ g.addr.name[k][i] \div 2 = Padded(s)[i]
  <2>1. \A x \in Nat : x # 0 => 2 * x # 0 /\ (2 * x) \div 2 = x
    OBVIOUS
  <2>2. QED
    BY <1>8, <1>9, <2>1 DEF NUL
<1>11. [i \in 1..6 |-> g.addr.name[k][i] \div 2] = Padded(s)
  <2>1. Padded(s) = [i \in 1..6 |-> Padded(s)[i]]
    BY DEF Padded
  <2>2. QED
    BY <1>10, <2>1
<1>12. StationName(g, k) = s
  BY <1>8, <1>11 DEF StationName, ax25_get_addr_no_ssid
<1>13. QED
  BY <1>7, <1>10, <1>12 DEF s

(* Its type and numbers, and what it says of command and response.         *)
LEMMA EchoedType ==
  ASSUME NEW f \in packet_t, PlainNames(f), NEW g, NEW n, Echoes(g, f, n)
  PROVE  /\ ax25_frame_type(g).type = ax25_frame_type(f).type
         /\ ax25_frame_type(g).pf = ax25_frame_type(f).pf
         /\ ax25_frame_type(g).nr = ax25_frame_type(f).nr
         /\ ax25_frame_type(g).ns = ax25_frame_type(f).ns
         /\ ax25_frame_type(g).cr = "cr_11"
         /\ ax25_frame_type(f).type \in {"UI", "I"} => encode_pid(g.pid) = encode_pid(f.pid)
<1> DEFINE t == ax25_frame_type(f)
<1>1. PICK cr, c, p : /\ SaysAs(f, c, p)
                      /\ g = PacketOf(Addrs(f), cr, c, p, 15 + HasPid(t.type) + n)
  BY DEF Echoes
<1>2. g.control = c /\ g.pid = p
  BY <1>1 DEF PacketOf
<1>3. CommandOrResponse(g) = "cr_11"
  <2>1. 1 \in 1..2 /\ 1 \in 1..6 /\ 2 \in 1..6
    OBVIOUS
  <2>2. g.addr.name[1][1] # 0 /\ g.addr.name[1][2] # 0
    BY <2>1, EchoedAddresses
  <2>3. QED
    BY <2>2 DEF CommandOrResponse, AX25_DESTINATION, AX25_SOURCE
<1>4. /\ ax25_frame_type(g).type = TypeOfControl(c) /\ ax25_frame_type(g).pf = Bit(c, 4)
      /\ ax25_frame_type(g).nr = IF c % 4 # 3 THEN c \div 32 ELSE -1
      /\ ax25_frame_type(g).ns = IF TypeOfControl(c) = "I" THEN (c \div 2) % 8 ELSE -1
      /\ ax25_frame_type(g).cr = "cr_11"
  BY <1>2, <1>3 DEF ax25_frame_type
<1>5. /\ TypeOfControl(c) = t.type /\ Bit(c, 4) = t.pf
      /\ (IF c % 4 # 3 THEN c \div 32 ELSE -1) = t.nr
      /\ (IF t.type = "I" THEN (c \div 2) % 8 ELSE -1) = t.ns
      /\ t.type \in {"UI", "I"} => encode_pid(p) = encode_pid(f.pid)
  BY <1>1 DEF SaysAs
<1> HIDE DEF t
<1>6. QED
  BY <1>2, <1>4, <1>5 DEF t

(* A frame has a PID when its type says so.                                *)
LEMMA PidByType ==
  ASSUME NEW f \in packet_t, ax25_frame_type(f).type # "U"
  PROVE  ax25_get_num_pid(f) = 0 <=> ax25_frame_type(f).type \notin {"UI", "I"}
<1> DEFINE t == ax25_frame_type(f)
           c == f.control
<1>1. /\ t.pf \in {0, 1} /\ c \in 0..255
      /\ \/ t.type \in Supervisory /\ c % 4 = 1
         \/ t.type \in Unnumbered /\ c = ControlOf(t.type) + 16 * t.pf
         \/ t.type = "I" /\ c % 2 = 0
  BY TypeFacts
<1>2. ax25_get_num_pid(f) = 0 <=> ~(c % 2 = 0 \/ c \in {3, 19})
  BY DEF ax25_get_num_pid
<1> HIDE DEF t, c
<1>3. CASE t.type \in Supervisory /\ c % 4 = 1
  <2>1. c % 2 # 0 /\ c \notin {3, 19}
    BY <1>1, <1>3
  <2>2. QED
    BY <1>2, <1>3, <2>1, Types DEF t
<1>4. CASE t.type \in Unnumbered /\ c = ControlOf(t.type) + 16 * t.pf
  <2>1. c % 2 = 1 /\ (c \in {3, 19} <=> t.type = "UI")
    BY <1>1, <1>4, UnnumberedControl
  <2>2. QED
    BY <1>2, <1>4, <2>1, Types DEF t
<1>5. CASE t.type = "I" /\ c % 2 = 0
  BY <1>2, <1>5 DEF t
<1>6. QED
  BY <1>1, <1>3, <1>4, <1>5

(* A reader is told the same of both.                                      *)
LEMMA EchoedMeaning ==
  ASSUME NEW f \in packet_t, PlainNames(f), ax25_frame_type(f).type # "U",
         NEW g, Echoes(g, f, CountOf(f))
  PROVE  Meaning(g) = Meaning(f)
<1> DEFINE t == ax25_frame_type(f)
           u == ax25_frame_type(g)
           pid(h) == IF ax25_get_num_pid(h) = 0 THEN 0 ELSE encode_pid(h.pid)
<1>1. /\ u.type = t.type /\ u.pf = t.pf /\ u.nr = t.nr /\ u.ns = t.ns
      /\ t.type \in {"UI", "I"} => encode_pid(g.pid) = encode_pid(f.pid)
  BY EchoedType
<1>2. CountOf(f) \in Nat
  BY CountIsNat
<1>3. ax25_get_num_pid(g) = HasPid(t.type) /\ ax25_get_num_info(g) = ax25_get_num_info(f)
  BY <1>2, InfoOfEcho DEF CountOf
<1>4. pid(g) = pid(f)
  <2>1. ax25_get_num_pid(f) = 0 <=> t.type \notin {"UI", "I"}
    BY PidByType
  <2>2. ax25_get_num_pid(g) = 0 <=> t.type \notin {"UI", "I"}
    BY <1>3 DEF HasPid
  <2>3. QED
    BY <1>1, <2>1, <2>2
<1>5. \A k \in 1..2 : StationName(g, k) = StationName(f, k) /\ g.addr.ssid = f.addr.ssid
  BY EchoedAddresses
<1>6. [k \in 1..2 |-> StationName(g, k)] = [k \in 1..2 |-> StationName(f, k)]
  BY <1>5
<1>7. g.addr.ssid = f.addr.ssid
  <2>1. 1 \in 1..2
    OBVIOUS
  <2>2. QED
    BY <1>5, <2>1
<1>8. /\ Meaning(g) = [type |-> u.type, pf |-> u.pf, nr |-> u.nr, ns |-> u.ns, pid |-> pid(g),
                       name |-> [k \in 1..2 |-> StationName(g, k)], ssid |-> g.addr.ssid,
                       info |-> ax25_get_num_info(g)]
      /\ Meaning(f) = [type |-> t.type, pf |-> t.pf, nr |-> t.nr, ns |-> t.ns, pid |-> pid(f),
                       name |-> [k \in 1..2 |-> StationName(f, k)], ssid |-> f.addr.ssid,
                       info |-> ax25_get_num_info(f)]
  BY DEF Meaning
<1> HIDE DEF t, u, pid
<1>9. QED
  BY <1>1, <1>3, <1>4, <1>6, <1>7, <1>8

(* Every echo is read as both, and says whose it is by the header alone.   *)
LEMMA EchoIsReadAsBoth ==
  ASSUME NEW f \in packet_t, PlainNames(f), NEW g, NEW n, Echoes(g, f, n)
  PROVE  /\ ax25_frame_type(g).cr = "cr_11"
         /\ \/ g.addr.c = <<TRUE, FALSE>>
            \/ /\ f.addr.name[AX25_DESTINATION][1] = NUL /\ ax25_frame_type(f).type # "I"
               /\ g.addr.c = <<FALSE, TRUE>>
<1>1. ax25_frame_type(g).cr = "cr_11"
  BY EchoedType
<1>2. PICK cr, c, p : /\ SaysWhose(f, cr)
                      /\ g = PacketOf(Addrs(f), cr, c, p, 15 + HasPid(ax25_frame_type(f).type) + n)
  BY DEF Echoes
<1>3. g.addr.c = [k \in 1..2 |-> IF k = AX25_DESTINATION THEN cr = "cr_cmd" ELSE cr = "cr_res"]
  BY <1>2 DEF PacketOf, set_addrs
<1>4. CASE cr = "cr_cmd"
  <2>1. g.addr.c = <<TRUE, FALSE>>
    <3>1. /\ DOMAIN g.addr.c = 1..2
          /\ g.addr.c[1] = (cr = "cr_cmd") /\ g.addr.c[2] = (cr = "cr_res")
      BY <1>3 DEF AX25_DESTINATION
    <3>2. g.addr.c = <<cr = "cr_cmd", cr = "cr_res">>
      BY <1>3, <3>1
    <3>3. QED
      BY <1>4, <3>2
  <2>2. QED
    BY <1>1, <2>1
<1>5. CASE cr = "cr_res"
  <2>1. g.addr.c = <<FALSE, TRUE>>
    <3>1. /\ DOMAIN g.addr.c = 1..2
          /\ g.addr.c[1] = (cr = "cr_cmd") /\ g.addr.c[2] = (cr = "cr_res")
      BY <1>3 DEF AX25_DESTINATION
    <3>2. g.addr.c = <<cr = "cr_cmd", cr = "cr_res">>
      BY <1>3, <3>1
    <3>3. QED
      BY <1>5, <3>2
  <2>2. QED
    BY <1>1, <1>2, <1>5, <2>1 DEF SaysWhose
<1>6. QED
  BY <1>2, <1>4, <1>5 DEF SaysWhose

(* An echo is a frame.                                                     *)
LEMMA EchoIsAFrame ==
  ASSUME NEW f, NEW g, NEW n, n \in Nat, Echoes(g, f, n)
  PROVE  g # NULL_PACKET
<1>1. PICK cr, c, p : g = PacketOf(Addrs(f), cr, c, p, 15 + HasPid(ax25_frame_type(f).type) + n)
  BY DEF Echoes
<1>2. HasPid(ax25_frame_type(f).type) \in {0, 1}
  BY DEF HasPid
<1>3. g.frame_len = 15 + HasPid(ax25_frame_type(f).type) + n
  BY <1>1 DEF PacketOf
<1>4. g.frame_len # -1
  BY <1>2, <1>3
<1>5. QED
  BY <1>4 DEF NULL_PACKET

-----------------------------------------------------------------------------
(* A frame through the codec.                                              *)

(* The header that is on its way was made of the frame to send.            *)
HeaderOf ==
  /\ pp \in Frames /\ HeaderResult(pp, MaxPayload) >= 0
  /\ hdr = il2p_type_1_header(pp) /\ size = CountOf(pp)

FrameInv ==
  /\ pc # "idle" \/ hdr # {} \/ Ended => HeaderOf
  /\ pc \in Decoding => PlainNames(pp) /\ Echoes(heard, pp, 0)
  /\ Ended => PlainNames(pp) /\ Echoes(heard, pp, CountOf(pp))
  /\ pc = "idle" /\ hdr # {} /\ packet = NoPacket /\ ~failed => ~PlainNames(pp)

(* Before the first frame.                                                 *)
LEMMA FrameInitInv == FrameInit => FrameInv
  BY DEF FrameInit, Init, FrameInv, Ended, NoPacket, Decoding

(* A packet is not no packet.                                              *)
LEMMA KindOfPacket == \A info : Packet(info).kind = "packet" /\ Packet(info) # NoPacket
  BY DEF Packet, NoPacket

(* A frame is sent.                                                        *)
LEMMA EncodeFrameKeeps ==
  ASSUME EncodeFrame
  PROVE  FrameInv'
<1>1. PICK f \in Frames :
        /\ size' = ax25_get_num_info(f)
        /\ (pc' = "idle") <=> (HeaderResult(f, MaxPayload) < 0)
        /\ pp' = f
        /\ hdr' = IF HeaderResult(f, MaxPayload) < 0 THEN {} ELSE il2p_type_1_header(f)
  BY DEF EncodeFrame
<1>2. pc' \in {"idle", "sent", "encode_large"} /\ packet' = NoPacket
  BY DEF EncodeFrame, il2p_encode_frame
<1>3. ~Ended' /\ pc' \notin Decoding
  BY <1>2 DEF Ended, NoPacket, Decoding
<1>4. CASE HeaderResult(f, MaxPayload) < 0
  BY <1>1, <1>3, <1>4 DEF FrameInv
<1>5. CASE ~(HeaderResult(f, MaxPayload) < 0)
  <2>1. HeaderResult(f, MaxPayload) \in Int
    BY <1>1, Il2pFrameAssumption, ResultFacts
  <2>2. HeaderOf'
    BY <1>1, <1>5, <2>1 DEF HeaderOf, CountOf
  <2>3. QED
    BY <1>1, <1>3, <1>5, <2>2 DEF FrameInv
<1>6. QED
  BY <1>4, <1>5

(* What HeaderOf says of the frame.                                        *)
LEMMA HeaderOfFacts ==
  ASSUME HeaderOf
  PROVE  /\ pp \in packet_t /\ MaxPayload < 1024
         /\ ax25_frame_type(pp).type # "U" /\ PidOf(pp) >= 0
         /\ CountOf(pp) \in 0..1023 /\ GET_PAYLOAD_BYTE_COUNT(hdr) = size
         /\ ~PlainNames(pp) => il2p_decode_header_type_1(hdr) = NULL_PACKET
         /\ PlainNames(pp) => /\ Echoes(il2p_decode_header_type_1(hdr), pp, 0)
                              /\ il2p_decode_header_type_1(hdr) # NULL_PACKET
<1>1. pp \in packet_t /\ MaxPayload < 1024
  BY Il2pFrameAssumption DEF HeaderOf
<1>2. HeaderResult(pp, MaxPayload) >= 0 /\ hdr = il2p_type_1_header(pp) /\ size = CountOf(pp)
  BY DEF HeaderOf
<1>3. /\ Sixbit(pp) /\ ax25_frame_type(pp).type # "U" /\ PidOf(pp) >= 0
      /\ CountOf(pp) \in 0..1023
  BY <1>1, <1>2, ResultFacts
<1>4. GET_PAYLOAD_BYTE_COUNT(hdr) = size
  BY <1>1, <1>2, <1>3, UpperFields, ControlFits
<1>5. /\ ~PlainNames(pp) => il2p_decode_header_type_1(hdr) = NULL_PACKET
      /\ PlainNames(pp) => il2p_decode_header_type_1(hdr) = Decoded(pp, ax25_frame_type(pp))
  BY <1>1, <1>2, DecodedFrame
<1>6. Echoes(Decoded(pp, ax25_frame_type(pp)), pp, 0)
  BY <1>1, <1>3, DecodedEchoes
<1>7. PlainNames(pp) => il2p_decode_header_type_1(hdr) # NULL_PACKET
  <2>1. 0 \in Nat
    OBVIOUS
  <2>2. QED
    BY <1>5, <1>6, <2>1, EchoIsAFrame
<1>8. QED
  BY <1>1, <1>3, <1>4, <1>5, <1>6, <1>7

(* Its header is read.                                                     *)
LEMMA DecodeHeaderKeeps ==
  ASSUME FrameInv, IInv, DecodeHeader
  PROVE  FrameInv'
<1> DEFINE f == il2p_decode_header_type_1(hdr)
<1>1. /\ pc = "received" /\ heard' = f /\ pp' = pp /\ hdr' = hdr /\ size' = size
      /\ failed' = failed
      /\ (f = NULL_PACKET) <=> (pc' = "idle" /\ packet' = NoPacket)
      /\ \/ pc' = "idle" /\ packet' = NoPacket
         \/ size = 0 /\ pc' = "idle" /\ packet' = Packet(<< >>)
         \/ size > 0 /\ pc' = "decode_large" /\ packet' = packet
  BY DEF DecodeHeader, il2p_decode_header_payload
<1>2. HeaderOf /\ packet = NoPacket
  BY <1>1 DEF FrameInv, IInv
<1>3. /\ ~PlainNames(pp) => f = NULL_PACKET
      /\ PlainNames(pp) => Echoes(f, pp, 0) /\ f # NULL_PACKET
  BY <1>2, HeaderOfFacts
<1> HIDE DEF f
<1>4. HeaderOf' /\ size = CountOf(pp)
  BY <1>1, <1>2 DEF HeaderOf
<1>5. CASE f = NULL_PACKET
  <2>1. ~PlainNames(pp)'
    BY <1>1, <1>3, <1>5
  <2>2. ~Ended' /\ pc' \notin Decoding
    BY <1>1, <1>5 DEF Ended, NoPacket, Decoding
  <2>3. QED
    BY <1>4, <2>1, <2>2 DEF FrameInv
<1>6. CASE f # NULL_PACKET
  <2>1. PlainNames(pp)' /\ Echoes(heard, pp, 0)'
    BY <1>1, <1>3, <1>6
  <2>2. CASE size = 0 /\ pc' = "idle" /\ packet' = Packet(<< >>)
    <3>1. Echoes(heard, pp, CountOf(pp))' /\ pc' \notin Decoding /\ packet' # NoPacket
      BY <1>1, <1>4, <2>1, <2>2, KindOfPacket DEF Decoding
    <3>2. QED
      BY <1>4, <2>1, <3>1 DEF FrameInv
  <2>3. CASE size > 0 /\ pc' = "decode_large" /\ packet' = packet
    <3>1. ~Ended' /\ pc' # "idle"
      BY <1>2, <2>3 DEF Ended, NoPacket
    <3>2. QED
      BY <1>4, <2>1, <3>1 DEF FrameInv
  <2>4. QED
    BY <1>1, <1>6, <2>2, <2>3
<1>7. QED
  BY <1>5, <1>6

(* Its payload is put into the frame.                                      *)
LEMMA FinishFrameKeeps ==
  ASSUME FrameInv, IInv, FinishFrame
  PROVE  FrameInv'
<1>1. /\ pc = "decoded" /\ pc' = "idle" /\ pp' = pp /\ hdr' = hdr /\ size' = size
      /\ failed' = failed
      /\ packet' = IF failed \/ Len(out) # size THEN NoPacket ELSE Packet(out)
      /\ packet' # NoPacket => heard' = ax25_set_info(heard, GET_PAYLOAD_BYTE_COUNT(hdr))
  BY DEF FinishFrame, Finish
<1>2. HeaderOf /\ PlainNames(pp) /\ Echoes(heard, pp, 0)
  BY <1>1 DEF FrameInv, Decoding
<1>3. HeaderOf' /\ pc' \notin Decoding /\ PlainNames(pp)'
  BY <1>1, <1>2 DEF HeaderOf, Decoding
<1>4. Len(out) = size
  <2>1. size \in 1..MaxPayload
    BY <1>1, Il2pCodecAssumption DEF IInv, TypeOK, CountInv, Encoding, Decoding
  <2>2. Len(out) = DataBefore(size, Count)
    BY <1>1 DEF IInv, ReceiverInv, Decoding, Done
  <2>3. QED
    BY <2>1, <2>2, WalkEnds DEF Count
<1>5. CASE failed
  <2>1. packet' = NoPacket /\ failed'
    BY <1>1, <1>5
  <2>2. ~Ended'
    BY <2>1 DEF Ended, NoPacket
  <2>3. QED
    BY <1>3, <2>1, <2>2 DEF FrameInv
<1>6. CASE ~failed
  <2>1. packet' # NoPacket
    BY <1>1, <1>4, <1>6, KindOfPacket
  <2>2. heard' = ax25_set_info(heard, CountOf(pp))
    BY <1>1, <1>2, <2>1, HeaderOfFacts DEF HeaderOf
  <2>3. Echoes(ax25_set_info(heard, CountOf(pp)), pp, CountOf(pp))
    BY <1>2, HeaderOfFacts, SetInfoEchoes
  <2>4. Echoes(heard, pp, CountOf(pp))'
    BY <1>1, <2>2, <2>3
  <2>5. QED
    BY <1>3, <2>1, <2>4 DEF FrameInv
<1>7. QED
  BY <1>5, <1>6

(* The payload on its way.                                                 *)
LEMMA PayloadStepKeeps ==
  ASSUME FrameInv, PayloadStep
  PROVE  FrameInv'
<1>1. /\ pp' = pp /\ hdr' = hdr /\ heard' = heard /\ size' = size /\ packet' = packet
      /\ pc # "idle" /\ pc' # "idle" /\ (pc' \in Decoding => pc \in Decoding)
  BY DEF PayloadStep, frameVars, EncodeBlock, Transition, Transmit, DecodeBlock, NeverReturns, Decoding
<1>2. HeaderOf' <=> HeaderOf
  BY <1>1 DEF HeaderOf
<1>3. Ended' <=> Ended
  BY <1>1 DEF Ended
<1>4. QED
  BY <1>1, <1>2, <1>3 DEF FrameInv

(* And nothing.                                                            *)
LEMMA FrameStutterKeeps ==
  ASSUME FrameInv, UNCHANGED <<vars, frameVars>>
  PROVE  FrameInv'
<1>1. /\ pp' = pp /\ hdr' = hdr /\ heard' = heard /\ size' = size /\ packet' = packet
      /\ pc' = pc /\ failed' = failed
  BY DEF vars, frameVars
<1>2. HeaderOf' <=> HeaderOf
  BY <1>1 DEF HeaderOf
<1>3. Ended' <=> Ended
  BY <1>1 DEF Ended
<1>4. QED
  BY <1>1, <1>2, <1>3 DEF FrameInv

(* The codec does with a frame what it does with any information part:     *)
(* il2p_encode_frame and il2p_decode_header_payload only add the header.    *)
THEOREM FrameImplementsCodec == FrameSpec => Spec
<1>1. FrameInit => Init
  BY DEF FrameInit
<1>2. [FrameNext]_<<vars, frameVars>> => [Next]_vars
  BY DEF FrameNext, EncodeFrame, DecodeHeader, FinishFrame, PayloadStep, Next, vars
<1>3. QED
  BY <1>1, <1>2, PTL DEF FrameSpec, Spec

(* The invariant of a frame holds throughout.                              *)
LEMMA FrameInvariant == FrameSpec => [](IInv /\ FrameInv)
<1>1. FrameSpec => []IInv
  BY FrameImplementsCodec, WalkInvariant
<1>2. ASSUME IInv, FrameInv, [FrameNext]_<<vars, frameVars>>
      PROVE  FrameInv'
  BY <1>2, EncodeFrameKeeps, DecodeHeaderKeeps, FinishFrameKeeps, PayloadStepKeeps,
     FrameStutterKeeps DEF FrameNext
<1>3. QED
  BY <1>1, <1>2, FrameInitInv, PTL DEF FrameSpec

(* A frame that is heard says what the one that was sent says, and the     *)
(* receiver gathers as many bytes as were counted (il2p_header.c:36, 66).   *)
THEOREM FrameHeardAsSent == FrameSpec => []HeardAsSent
<1>1. ASSUME FrameInv PROVE HeardAsSent
  <2>1. ASSUME Ended PROVE Meaning(heard) = Meaning(pp)
    <3>1. HeaderOf /\ PlainNames(pp) /\ Echoes(heard, pp, CountOf(pp))
      BY <1>1, <2>1 DEF FrameInv
    <3>2. QED
      BY <3>1, HeaderOfFacts, EchoedMeaning
  <2>2. ASSUME pc \in {"sent", "received"} PROVE GET_PAYLOAD_BYTE_COUNT(hdr) = size
    <3>1. HeaderOf
      BY <1>1, <2>2 DEF FrameInv
    <3>2. QED
      BY <3>1, HeaderOfFacts
  <2>3. QED
    BY <2>1, <2>2 DEF HeardAsSent
<1>2. QED
  BY <1>1, FrameInvariant, PTL

(* Of the frames that get a header those with plain names are heard, and   *)
(* no others (il2p_header.c:180, 379).                                      *)
THEOREM FrameHeardIffPlain == FrameSpec => []HeardIffPlain
<1>1. ASSUME FrameInv PROVE HeardIffPlain
  BY <1>1 DEF FrameInv, HeardIffPlain, Decoding
<1>2. QED
  BY <1>1, FrameInvariant, PTL

(* Every frame that is heard is read as a command and a response, and no   *)
(* header says response unless its destination begins with a NUL           *)
(* (ax25_pad.c:335).                                                        *)
THEOREM FrameReadAsBoth == FrameSpec => []ReadAsBoth
<1>1. ASSUME FrameInv PROVE ReadAsBoth
  <2> SUFFICES ASSUME Ended
               PROVE  /\ ax25_frame_type(heard).cr = "cr_11"
                      /\ \/ heard.addr.c = <<TRUE, FALSE>>
                         \/ /\ pp.addr.name[AX25_DESTINATION][1] = NUL
                            /\ ax25_frame_type(pp).type # "I"
                            /\ heard.addr.c = <<FALSE, TRUE>>
    BY DEF ReadAsBoth
  <2>1. HeaderOf /\ PlainNames(pp) /\ Echoes(heard, pp, CountOf(pp))
    BY <1>1 DEF FrameInv
  <2>2. pp \in packet_t
    BY <2>1, HeaderOfFacts
  <2>3. QED
    BY <2>1, <2>2, EchoIsReadAsBoth
<1>2. QED
  BY <1>1, FrameInvariant, PTL
=============================================================================
