------------------------------- MODULE Il2pFrame -------------------------------
(***************************************************************************)
(* A whole frame through the codec: il2p_encode_frame makes a header of it *)
(* and sends its information part (Il2pCodec) behind the header;           *)
(* il2p_decode_header_payload makes a frame of the header and gives it the *)
(* information part back.  The header itself is protected by two parity    *)
(* symbols of its own; here it arrives as it was sent.                     *)
(***************************************************************************)
EXTENDS Il2pCodec, Il2pHeader

CONSTANT Frames  \* the frames to send

(* Ten bits of the header count the payload.                               *)
ASSUME Il2pFrameAssumption ==
  /\ Frames \subseteq packet_t
  /\ \A f \in Frames : ax25_get_num_info(f) \in InfoLengths
  /\ MaxPayload < 1024

VARIABLES
  pp,    \* the frame to send
  hdr,   \* its header
  heard  \* the frame made of the header, NULL_PACKET when there is none

frameVars == <<pp, hdr, heard>>

FrameInit == Init /\ pp = NULL_PACKET /\ hdr = {} /\ heard = NULL_PACKET

EncodeFrame ==
  \E f \in Frames :
    LET e == HeaderResult(f, MaxPayload) IN
    /\ size' = ax25_get_num_info(f)
    /\ il2p_encode_frame
    /\ (pc' = "idle") <=> (e < 0)
    /\ pp' = f
    /\ hdr' = IF e < 0 THEN {} ELSE il2p_type_1_header(f)
    /\ heard' = NULL_PACKET

DecodeHeader ==
  LET f == il2p_decode_header_type_1(hdr) IN
  /\ il2p_decode_header_payload
  /\ (f = NULL_PACKET) <=> (pc' = "idle" /\ packet' = NoPacket)
  /\ heard' = f
  /\ UNCHANGED <<pp, hdr>>

FinishFrame ==
  /\ Finish
  /\ heard' = IF packet' = NoPacket THEN NULL_PACKET
              ELSE ax25_set_info(heard, GET_PAYLOAD_BYTE_COUNT(hdr))
  /\ UNCHANGED <<pp, hdr>>

PayloadStep ==
  /\ EncodeBlock \/ Transmit \/ DecodeBlock \/ NeverReturns
  /\ UNCHANGED frameVars

FrameNext == EncodeFrame \/ DecodeHeader \/ FinishFrame \/ PayloadStep

FrameSpec == FrameInit /\ [][FrameNext]_<<vars, frameVars>>

-----------------------------------------------------------------------------
Ended == packet.kind = "packet"

(* A station's name, as the receiver trims it: a C string may have a space *)
(* before its NUL.                                                         *)
StationName(f, n) == Trimmed(ax25_get_addr_no_ssid(f, n))

(* What a reader of the frame is told, but for command or response.        *)
Meaning(f) ==
  LET t == ax25_frame_type(f) IN
  [type |-> t.type, pf |-> t.pf, nr |-> t.nr, ns |-> t.ns,
   pid |-> IF ax25_get_num_pid(f) = 0 THEN 0 ELSE encode_pid(f.pid),
   name |-> [n \in 1..2 |-> StationName(f, n)], ssid |-> f.addr.ssid, info |-> ax25_get_num_info(f)]

(* A frame that is heard has the type, the numbers, the addresses, the     *)
(* kind of protocol and the length of the one that was sent: the fields    *)
(* spread over the header's spare bits come together again                 *)
(* (il2p_header.c:36, 66), and the count in it is what the receiver         *)
(* gathers for the payload.                                                *)
HeardAsSent ==
  /\ Ended => Meaning(heard) = Meaning(pp)
  /\ pc \in {"sent", "received"} => GET_PAYLOAD_BYTE_COUNT(hdr) = size

(* The sender takes every character that has six bits, the receiver only   *)
(* letters and digits (il2p_header.c:180, 379): of the frames that get a   *)
(* header, exactly those with a plain name at both ends are heard.         *)
PlainNames(f) == \A n \in 1..2 : Alphanumeric(StationName(f, n))
HeardIffPlain ==
  /\ pc \in {"decode_large", "decode_small", "decoded"} => PlainNames(pp)
  /\ pc = "idle" /\ hdr # {} /\ packet = NoPacket /\ ~failed => ~PlainNames(pp)

(* Whoever asks what a frame is learns that it is both a command and a     *)
(* response: the characters of the destination are tested for the C bits   *)
(* (ax25_pad.c:335).  And each has lost, as it was heard, what its sender  *)
(* wrote there: every header says command, but one for a destination that  *)
(* begins with a NUL, which says response when it has a bit for it, where  *)
(* il2p_header.c:220 has it that "C is copied from the C bit in the        *)
(* destination addr."                                                      *)
ReadAsBoth ==
  Ended =>
    /\ ax25_frame_type(heard).cr = "cr_11"
    /\ \/ heard.addr.c = <<TRUE, FALSE>>
       \/ /\ pp.addr.name[AX25_DESTINATION][1] = NUL /\ ax25_frame_type(pp).type # "I"
          /\ heard.addr.c = <<FALSE, TRUE>>
=============================================================================
