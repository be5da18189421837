------------------------------ MODULE Il2pProofs ------------------------------
(***************************************************************************)
(* Proof that the receiver of il2p_rec.c never leaves IL2P_SEARCHING, for  *)
(* any stream of bits, any header size and any encoded lengths.            *)
(***************************************************************************)
EXTENDS Il2pReceive, FiniteSetTheorems, TLAPS

(* A register with at most its lowest bit set is far from the sync word.   *)
LEMMA FarFromSync ==
  ASSUME NEW acc \in Register, acc[3] = 0, acc[6] = 0
  PROVE  ~(Mismatches(acc) <= 1)
<1> DEFINE D == {k \in 0..23 : acc[k] # SyncBit(k)}
<1>1. 3 \in D /\ 6 \in D
  <2>1. 3 \in 0..23 /\ 6 \in 0..23
    OBVIOUS
  <2>2. SyncBit(3) = 1 /\ SyncBit(6) = 1
    BY DEF SyncBit, SyncOnes
  <2>3. QED
    BY <2>1, <2>2
<1>2. IsFiniteSet(0..23) /\ IsFiniteSet(D)
  <2>1. \A a, b \in Int : IsFiniteSet(a..b)
    BY FS_Interval, Zenon
  <2>2. 0 \in Int /\ 23 \in Int
    OBVIOUS
  <2>3. IsFiniteSet(0..23)
    BY <2>1, <2>2, Zenon
  <2>4. QED
    BY <2>3, FS_Subset
<1>3. Cardinality({3, 6}) = 2
  <2>1. IsFiniteSet({3}) /\ Cardinality({3}) = 1
    BY FS_Singleton
  <2>2. {3, 6} = {3} \cup {6} /\ 6 \notin {3}
    OBVIOUS
  <2>3. QED
    BY <2>1, <2>2, FS_AddElement
<1>4. Cardinality({3, 6}) <= Cardinality(D)
  BY <1>1, <1>2, FS_Subset
<1>5. Cardinality(D) \in Nat
  BY <1>2, FS_CardinalityType
<1>6. QED
  BY <1>3, <1>4, <1>5 DEF Mismatches

(* One bit from a cleared context: still searching, nothing received.      *)
LEMMA BitKeepsSearching ==
  ASSUME NEW dbit \in Bit, frames = 0, il2p_rec_bit(dbit)
  PROVE  NothingIsReceived'
<1> DEFINE G == [Cleared EXCEPT !.acc = Shift(@, dbit)]
<1>1. /\ G.state = "IL2P_SEARCHING"
      /\ G.acc = Shift([k \in 0..23 |-> 0], dbit)
  BY DEF Cleared
<1>2. G.acc \in Register /\ G.acc[3] = 0 /\ G.acc[6] = 0
  BY <1>1 DEF Shift, Register, Bit
<1>3. ~(Mismatches(G.acc) <= 1)
  BY <1>2, FarFromSync
<1>4. SearchForSync(G)
  BY <1>1 DEF il2p_rec_bit, GatherHeader, GatherPayload, Decode
<1>5. F' = G /\ frames' = frames
  BY <1>3, <1>4 DEF SearchForSync
<1>6. QED
  BY <1>1, <1>5 DEF NothingIsReceived

(* Every bit of the channel is 0 or 1.                                     *)
LEMMA NextIsABit == Next => \E dbit \in Bit : il2p_rec_bit(dbit)
<1>1. Idle \/ AfterSync => \E dbit \in Bit : il2p_rec_bit(dbit)
  BY DEF Idle, AfterSync
<1>2. ASSUME SyncWordBit
      PROVE  \E dbit \in Bit : il2p_rec_bit(dbit)
  <2> DEFINE right == SyncBit(23 - sent)
             dbit == IF flipped' = sent' THEN 1 - right ELSE right
  <2>1. right \in Bit
    BY DEF SyncBit, Bit
  <2>2. dbit \in Bit
    BY <2>1 DEF Bit
  <2>3. il2p_rec_bit(dbit)
    BY <1>2 DEF SyncWordBit
  <2>4. QED
    BY <2>2, <2>3
<1>3. QED
  BY <1>1, <1>2 DEF Next

(* As the code stands, the receiver never finds a sync word and no frame   *)
(* reaches the receive queue, whatever bits arrive.                        *)
THEOREM NeverReceives == Spec => []NothingIsReceived
<1>1. Init => NothingIsReceived
  BY DEF Init, Cleared, NothingIsReceived
<1>2. NothingIsReceived /\ [Next]_vars => NothingIsReceived'
  <2>1. NothingIsReceived /\ Next => NothingIsReceived'
    BY NextIsABit, BitKeepsSearching DEF NothingIsReceived
  <2>2. NothingIsReceived /\ UNCHANGED vars => NothingIsReceived'
    BY DEF NothingIsReceived, vars
  <2>3. QED
    BY <2>1, <2>2
<1>3. QED
  BY <1>1, <1>2, PTL DEF Spec
=============================================================================
