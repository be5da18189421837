------------------------------- MODULE Il2pCodec -------------------------------
(***************************************************************************)
(* An information part on its way through the IL2P codec: il2p_codec.c     *)
(* puts a header in front of it and takes it off, il2p_payload.c cuts it   *)
(* into Reed-Solomon blocks, large ones first, each followed by its parity *)
(* symbols, and the receiver walks over the same blocks.                   *)
(*                                                                         *)
(* The data are positions: byte k of the payload is <<k, k, 0>>, parity    *)
(* symbol j of the block that holds bytes lo..hi is <<lo, hi, j>>.  Each   *)
(* block is scrambled and unscrambled by itself, which changes no          *)
(* position.  Between the two noise damages some blocks.                   *)
(***************************************************************************)
EXTENDS Integers, Sequences

CONSTANTS
  DataMax,     \* data bytes of a full block: 239
  Parity,      \* parity_symbols_per_block: 16
  BlockSize,   \* BLOCK_SIZE of the Reed-Solomon code: 255
  MaxPayload,  \* IL2P_MAX_PAYLOAD_SIZE: 1023
  MaxBlocks,   \* IL2P_MAX_PAYLOAD_BLOCKS: 5
  InfoLengths  \* lengths of the information parts to send (a bound)

ASSUME Il2pCodecAssumption ==
  /\ DataMax \in Nat \ {0}
  /\ Parity \in Nat \ {0}
  /\ BlockSize \in Nat /\ DataMax + Parity <= BlockSize
  /\ MaxBlocks \in Nat
  /\ MaxPayload \in Nat /\ MaxPayload <= MaxBlocks * DataMax
  /\ InfoLengths \subseteq Nat

VARIABLES
  pc,        \* where the codec is
  size,      \* info_len, and the byte count of the header
  b,         \* blocks of the current kind done
  pin,       \* the input pointer, as the number of bytes before it
  enc,       \* the encoded payload written so far
  damaged,   \* the blocks that noise damaged, by the place they start at
  beyond,    \* those of them with more wrong symbols than the parity corrects
  out,       \* the payload decoded so far
  failed,    \* a block could not be corrected
  packet     \* what il2p_decode_header_payload returns

vars == <<pc, size, b, pin, enc, damaged, beyond, out, failed, packet>>

NoSymbol == <<0, 0, 0>>
WrongSymbol == <<0, 0, 1>>  \* a byte of a block that was "corrected" into another
NoPacket == [kind |-> "NULL", info |-> << >>]
Packet(info) == [kind |-> "packet", info |-> info]

MaxEncoded == MaxPayload + MaxBlocks * Parity  \* IL2P_MAX_ENCODED_PAYLOAD_SIZE

-----------------------------------------------------------------------------
(* il2p_payload_compute.                                                   *)

(* Mutants: the divisions round the other way; every block is large.       *)
BlockCountRoundedDown(s) == IF s < DataMax THEN 1 ELSE s \div DataMax
LargeCountRounded(s) == 0
SmallBlockRoundedUp(s) == 1 + s \div ((s + DataMax - 1) \div DataMax)

payload_block_count(s) == (s + DataMax - 1) \div DataMax
small_block_size(s) == s \div payload_block_count(s)
large_block_size(s) == small_block_size(s) + 1
large_block_count(s) == s - payload_block_count(s) * small_block_size(s)
small_block_count(s) == payload_block_count(s) - large_block_count(s)

(* Mutant: the parity of the large blocks is forgotten.                    *)
ParityForgotten(s) ==
  IF s > MaxPayload THEN -1
  ELSE IF s = 0 THEN 0
  ELSE s + small_block_count(s) * Parity

il2p_payload_compute(s) ==
  IF s > MaxPayload THEN -1
  ELSE IF s = 0 THEN 0
  ELSE small_block_count(s) * (small_block_size(s) + Parity)
       + large_block_count(s) * (large_block_size(s) + Parity)

BlockLength == IF pc \in {"encode_large", "decode_large"}
               THEN large_block_size(size) ELSE small_block_size(size)

(* The blocks of one kind, then those of the other, then the end.          *)
Transition(from, count, next) ==
  /\ pc = from
  /\ IF b < count
     THEN b' = b + 1 /\ UNCHANGED pc
     ELSE b' = 0 /\ pc' = next

-----------------------------------------------------------------------------
(* The sender.                                                             *)

Symbol(k) == <<k, k, 0>>
Slice(lo, n) == [k \in 1..n |-> Symbol(lo + k)]
il2p_encode_rs(lo, n) == [j \in 1..Parity |-> <<lo + 1, lo + n, j>>]

(* A header that cannot be made, or a part too long for it, sends nothing. *)
il2p_encode_frame ==
  /\ pc = "idle"
  /\ size' \in InfoLengths
  /\ \/ pc' = "idle"
     \/ size' = 0 /\ pc' = "sent"
     \/ size' \in 1..MaxPayload /\ pc' = "encode_large"
  /\ b' = 0 /\ pin' = 0 /\ enc' = << >> /\ packet' = NoPacket
  /\ out' = << >> /\ failed' = FALSE /\ damaged' = {} /\ beyond' = {}

EncodeBlock ==
  /\ \/ Transition("encode_large", large_block_count(size), "encode_small")
     \/ Transition("encode_small", small_block_count(size), "sent")
  /\ IF b' > b
     THEN /\ enc' = enc \o Slice(pin, BlockLength) \o il2p_encode_rs(pin, BlockLength)
          /\ pin' = pin + BlockLength
     ELSE UNCHANGED <<enc, pin>>
  /\ UNCHANGED <<size, damaged, beyond, out, failed, packet>>

-----------------------------------------------------------------------------
(* The channel: noise damages any of the blocks, a few symbols of one or   *)
(* many.                                                                   *)
Transmit ==
  /\ pc = "sent"
  /\ pc' = "received"
  /\ damaged' \in SUBSET {k \in 0..(Len(enc) - 1) : enc[k + 1][3] = 0
                                                     /\ (k = 0 \/ enc[k][3] # 0)}
  /\ beyond' \in SUBSET damaged'
  /\ pin' = 0
  /\ UNCHANGED <<size, b, enc, out, failed, packet>>

-----------------------------------------------------------------------------
(* The receiver.                                                           *)

(* The header is good; the addresses in it may not be.                     *)
il2p_decode_header_payload ==
  /\ pc = "received"
  /\ \/ pc' = "idle" /\ packet' = NoPacket
     \/ size = 0 /\ pc' = "idle" /\ packet' = Packet(<< >>)
     \/ size > 0 /\ pc' = "decode_large" /\ UNCHANGED packet
  /\ UNCHANGED <<size, b, pin, enc, damaged, beyond, out, failed>>

(* What is at the input pointer: n data bytes and their parity.            *)
IsCodeword(n) ==
  /\ pin + n + Parity <= Len(enc)
  /\ LET lo == enc[pin + 1][1] - 1
     IN  SubSeq(enc, pin + 1, pin + n + Parity) = Slice(lo, n) \o il2p_encode_rs(lo, n)

(* A clean block comes out as it went in.  A damaged one, or one cut out   *)
(* at the wrong place, runs into undefined behaviour in decode_rs_char (a  *)
(* loop whose unsigned variable is never negative): it may be corrected,   *)
(* given up, or never come back.  With more wrong symbols than the parity  *)
(* corrects it may also be nearer to the code word of another block, and   *)
(* is then changed into that one and reported as corrected, unless         *)
(* il2p_decode_rs finds a padding byte among the "errors".                 *)
DecodeBlock ==
  /\ \/ Transition("decode_large", large_block_count(size), "decode_small")
     \/ Transition("decode_small", small_block_count(size), "decoded")
  /\ IF b' > b
     THEN /\ pin' = pin + BlockLength + Parity
          /\ \/ /\ IsCodeword(BlockLength)
               /\ out' = out \o SubSeq(enc, pin + 1, pin + BlockLength)
               /\ UNCHANGED failed
            \/ /\ pin \in damaged \/ ~IsCodeword(BlockLength)
               /\ out' = out \o [k \in 1..BlockLength |-> NoSymbol]
               /\ failed' = TRUE
            \/ /\ pin \in beyond \/ ~IsCodeword(BlockLength)
               /\ out' = out \o [k \in 1..BlockLength |-> WrongSymbol]
               /\ UNCHANGED failed
     ELSE UNCHANGED <<pin, out, failed>>
  /\ UNCHANGED <<size, enc, damaged, beyond, packet>>

NeverReturns ==
  /\ pc \in {"decode_large", "decode_small"}
  /\ pin \in damaged
  /\ pc' = "stuck"
  /\ UNCHANGED <<size, b, pin, enc, damaged, beyond, out, failed, packet>>

(* Mutant: a failed block does not fail the payload.                       *)
FinishRegardless ==
  /\ pc = "decoded"
  /\ pc' = "idle"
  /\ packet' = IF Len(out) # size THEN NoPacket ELSE Packet(out)
  /\ out' = << >>
  /\ UNCHANGED <<size, b, pin, enc, damaged, beyond, failed>>

(* A payload with a failed block or of the wrong length is refused and the *)
(* packet deleted.  The buffer it was decoded into is a local one.         *)
Finish ==
  /\ pc = "decoded"
  /\ pc' = "idle"
  /\ packet' = IF failed \/ Len(out) # size THEN NoPacket ELSE Packet(out)
  /\ out' = << >>
  /\ UNCHANGED <<size, b, pin, enc, damaged, beyond, failed>>

Init ==
  /\ pc = "idle"
  /\ size = 0 /\ b = 0 /\ pin = 0
  /\ enc = << >> /\ damaged = {} /\ beyond = {}
  /\ out = << >> /\ failed = FALSE
  /\ packet = NoPacket

Next ==
  \/ il2p_encode_frame \/ EncodeBlock
  \/ Transmit
  \/ il2p_decode_header_payload \/ DecodeBlock \/ NeverReturns \/ Finish

Spec == Init /\ [][Next]_vars

-----------------------------------------------------------------------------
(* The codec is where it can be, its counters and pointers within the      *)
(* bounds of the arrays they stand for.                                    *)
TypeOK ==
  /\ pc \in {"idle", "encode_large", "encode_small", "sent", "received",
             "decode_large", "decode_small", "decoded", "stuck"}
  /\ size \in Nat
  /\ pc # "idle" => size <= MaxPayload
  /\ b \in 0..MaxBlocks
  /\ pin \in 0..MaxEncoded
  /\ Len(enc) <= MaxEncoded /\ Len(out) <= MaxPayload
  /\ failed \in BOOLEAN
  /\ packet.kind \in {"NULL", "packet"}

(* Whenever a block is still to be cut, it has data, it fits the           *)
(* Reed-Solomon block with its parity, the sender reads no byte beyond the *)
(* information part (il2p_payload.c:81, 100), and the receiver none beyond *)
(* what was received, writing none beyond the payload (il2p_payload.c:143, *)
(* 162).                                                                   *)
Ahead(large, small) ==
  \/ pc = large /\ b < large_block_count(size)
  \/ pc = small /\ b < small_block_count(size)
BlocksFit ==
  /\ Ahead("encode_large", "encode_small") =>
       /\ BlockLength \in 1..(BlockSize - Parity)
       /\ pin + BlockLength <= size
  /\ Ahead("decode_large", "decode_small") =>
       /\ BlockLength \in 1..(BlockSize - Parity)
       /\ pin + BlockLength + Parity <= Len(enc)
       /\ Len(out) + BlockLength <= size

(* What is sent is as long as il2p_payload_compute says: the receiver      *)
(* learns the byte count from the header and gathers that many bytes       *)
(* (il2p_rec.c:70), in a buffer of IL2P_MAX_ENCODED_PAYLOAD_SIZE.          *)
LengthAnnounced ==
  pc \in {"sent", "received"} =>
    /\ Len(enc) = il2p_payload_compute(size)
    /\ Len(enc) <= MaxEncoded

(* Byte k of the payload is in the block at place p: as far behind it as   *)
(* behind the block's first byte, with no parity in between.               *)
InBlock(p, k) ==
  LET i == p + 1 + k - enc[p + 1][1]
  IN  k >= enc[p + 1][1] /\ i <= Len(enc) /\ enc[i] = Symbol(k)

(* A packet comes out of the receiver only with as many bytes as went in,  *)
(* and every byte is the one that was sent at its place, but for those of  *)
(* a block with more damage than its parity corrects: a block that was     *)
(* given up fails the whole payload, one that was changed into another     *)
(* is not noticed and takes no other with it (il2p_codec.c:87, 99;         *)
(* il2p_payload.c:183; docs/il2p-readme.md:242).                           *)
DeliveredIntact ==
  packet.kind = "packet" =>
    /\ Len(packet.info) = size
    /\ \A k \in 1..size :
         \/ packet.info[k] = Symbol(k)
         \/ packet.info[k] = WrongSymbol /\ \E p \in beyond : InBlock(p, k)

(* With nothing damaged the payload is recovered: the receiver cuts the    *)
(* blocks where the sender did (il2p_payload.c:143-181).                   *)
CleanIsRecovered ==
  pc = "decoded" /\ damaged = {} => ~failed /\ out = Slice(0, size)
=============================================================================
