------------------------------ MODULE Il2pReceive ------------------------------
(***************************************************************************)
(* The bit-level IL2P receiver (il2p_rec.c): a shift register that looks   *)
(* for the sync word, then gathers header and payload bytes and decodes    *)
(* them.  Every call of il2p_rec_bit first clears the whole context with   *)
(* memset, the shift register and the state included.                      *)
(*                                                                         *)
(* The transmitter at the other end sends idle bits and, at times, a sync  *)
(* word and what follows it; noise may flip one bit of the sync word.      *)
(* What clarifying a header and decoding a payload give is left open.      *)
(***************************************************************************)
EXTENDS Integers, FiniteSets

CONSTANTS
  HeaderBytes,     \* IL2P_HEADER_SIZE + IL2P_HEADER_PARITY: 15
  EncodedLengths,  \* what il2p_payload_compute may give for a good header
  Follow           \* bits the transmitter sends after a sync word (a bound)

VARIABLES
  F,       \* il2p_context
  frames,  \* packets given to rx_queue_rec_frame
  sent,    \* bits sent since the sync word began, 0 in idle
  flipped  \* the sync word bit that noise flipped, 0 if none

vars == <<F, frames, sent, flipped>>

Bit == {0, 1}
Register == [0..23 -> Bit]  \* bit 0 is the most recent

(* IL2P_SYNC_WORD, 0xF15E48: its bits that are 1.                          *)
SyncOnes == {3, 6, 9, 10, 11, 12, 14, 16, 20, 21, 22, 23}
SyncBit(k) == IF k \in SyncOnes THEN 1 ELSE 0

(* What memset leaves.                                                     *)
Cleared == [state |-> "IL2P_SEARCHING", acc |-> [k \in 0..23 |-> 0],
            bc |-> 0, hc |-> 0, eplen |-> 0, pc |-> 0]

Shift(acc, dbit) == [k \in 0..23 |-> IF k = 0 THEN dbit ELSE acc[k - 1]]

(* __builtin_popcount(acc ^ IL2P_SYNC_WORD)                                *)
Mismatches(acc) == Cardinality({k \in 0..23 : acc[k] # SyncBit(k)})

-----------------------------------------------------------------------------
(* The cases of the switch, on the context G with the new bit in.          *)

SearchForSync(G) ==
  /\ G.state = "IL2P_SEARCHING"
  /\ F' = IF Mismatches(G.acc) <= 1
          THEN [G EXCEPT !.state = "IL2P_HEADER", !.bc = 0, !.hc = 0]
          ELSE G
  /\ UNCHANGED frames

GatherHeader(G) ==
  /\ G.state = "IL2P_HEADER"
  /\ \/ G.bc + 1 < 8 /\ F' = [G EXCEPT !.bc = @ + 1]
     \/ /\ G.bc + 1 = 8
        /\ G.hc + 1 # HeaderBytes
        /\ F' = [G EXCEPT !.bc = 0, !.hc = @ + 1]
     \/ /\ G.bc + 1 = 8
        /\ G.hc + 1 = HeaderBytes
        /\ LET H == [G EXCEPT !.bc = 0, !.hc = @ + 1] IN
           \/ F' = [H EXCEPT !.state = "IL2P_SEARCHING"]
           \/ \E eplen \in EncodedLengths :
                F' = [H EXCEPT !.eplen = eplen, !.pc = 0,
                        !.state = IF eplen = 0 THEN "IL2P_DECODE" ELSE "IL2P_PAYLOAD"]
  /\ UNCHANGED frames

GatherPayload(G) ==
  /\ G.state = "IL2P_PAYLOAD"
  /\ \/ G.bc + 1 < 8 /\ F' = [G EXCEPT !.bc = @ + 1]
     \/ /\ G.bc + 1 = 8
        /\ F' = [G EXCEPT !.bc = 0, !.pc = @ + 1,
                   !.state = IF G.pc + 1 = G.eplen THEN "IL2P_DECODE" ELSE @]
  /\ UNCHANGED frames

Decode(G) ==
  /\ G.state = "IL2P_DECODE"
  /\ F' = [G EXCEPT !.state = "IL2P_SEARCHING"]
  /\ frames' \in {frames, frames + 1}

il2p_rec_bit(dbit) ==
  LET G == [Cleared EXCEPT !.acc = Shift(@, dbit)]
  IN SearchForSync(G) \/ GatherHeader(G) \/ GatherPayload(G) \/ Decode(G)

-----------------------------------------------------------------------------
(* The channel.                                                            *)

Idle ==
  /\ sent = 0
  /\ \E dbit \in Bit : il2p_rec_bit(dbit)
  /\ UNCHANGED <<sent, flipped>>

(* The sync word goes out with its highest bit first.                      *)
SyncWordBit ==
  /\ sent < 24
  /\ sent' = sent + 1
  /\ flipped' \in IF sent = 0 THEN 0..24 ELSE {flipped}
  /\ LET right == SyncBit(23 - sent)
     IN il2p_rec_bit(IF flipped' = sent' THEN 1 - right ELSE right)

AfterSync ==
  /\ sent >= 24
  /\ \E dbit \in Bit : il2p_rec_bit(dbit)
  /\ sent' \in IF sent < 24 + Follow THEN {sent + 1, 0} ELSE {0}
  /\ UNCHANGED flipped

Init ==
  /\ F = Cleared
  /\ frames = 0
  /\ sent = 0
  /\ flipped = 0

Next == Idle \/ SyncWordBit \/ AfterSync

Spec == Init /\ [][Next]_vars

-----------------------------------------------------------------------------
(* il2p_rec.c:38, "State machine to look for sync word then gather         *)
(* appropriate number of header and payload bytes": when a sync word has   *)
(* come in, with at most one bit wrong, the receiver gathers the header.   *)
SyncWordIsFound == sent = 24 => F.state = "IL2P_HEADER"

(* What the code does: every call starts from a cleared context, so the    *)
(* sync word is never seen and no frame ever reaches the receive queue.    *)
NothingIsReceived == F.state = "IL2P_SEARCHING" /\ frames = 0
=============================================================================
