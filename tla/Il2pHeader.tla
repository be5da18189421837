------------------------------ MODULE Il2pHeader ------------------------------
(***************************************************************************)
(* The IL2P header, type 1 (il2p_header.c): thirteen octets that stand for *)
(* the addresses, the control octet and the PID of an AX.25 frame and the  *)
(* length of its information part.  A header is the set of the bits that   *)
(* are 1, each as <<octet, bit>>; the fields are spread over one bit of    *)
(* several octets, above six bits of a character.                          *)
(***************************************************************************)
EXTENDS Ax25Frame

NULL_PACKET == [frame_len |-> -1]

set_field(bit_num, lsb_index, width, value) ==
  {<<lsb_index - i, bit_num>> : i \in {j \in 0..(width - 1) : Bit(value, j) = 1}}

get_field(hdr, bit_num, lsb_index, width) ==
  CHOOSE v \in 0..(2^width - 1) :
    \A i \in 0..(width - 1) : Bit(v, i) = 1 <=> <<lsb_index - i, bit_num>> \in hdr

SET_UI(val) == set_field(6, 0, 1, val)
SET_PID(val) == set_field(6, 4, 4, val)
SET_CONTROL(val) == set_field(6, 11, 7, val)
SET_FEC_LEVEL(val) == set_field(7, 0, 1, val)
SET_HDR_TYPE(val) == set_field(7, 1, 1, val)
SET_PAYLOAD_BYTE_COUNT(val) == set_field(7, 11, 10, val)
GET_UI(hdr) == get_field(hdr, 6, 0, 1)
GET_PID(hdr) == get_field(hdr, 6, 4, 4)
GET_CONTROL(hdr) == get_field(hdr, 6, 11, 7)
GET_PAYLOAD_BYTE_COUNT(hdr) == get_field(hdr, 7, 11, 10)

(* The low bits of an octet, written and read as a number.                 *)
SetOctet(i, width, v) == {<<i, j>> : j \in {k \in 0..(width - 1) : Bit(v, k) = 1}}
GetOctet(hdr, i, width) ==
  CHOOSE v \in 0..(2^width - 1) : \A j \in 0..(width - 1) : Bit(v, j) = 1 <=> <<i, j>> \in hdr

(* Characters from space to underscore have six bits.                      *)
HasSixbit(name) == \A i \in DOMAIN name : name[i] \in 32..95
ascii_to_sixbit(a) == a - 32
sixbit_to_ascii(s) == s + 32

encode_pid(pid) ==
  CASE (pid \div 16) % 4 \in {1, 2} -> 2 [] pid = 1 -> 3 [] pid = 6 -> 4 [] pid = 7 -> 5
    [] pid = 8 -> 6 [] pid = 204 -> 11 [] pid = 205 -> 12 [] pid = 206 -> 13
    [] pid = 207 -> 14 [] pid = 240 -> 15 [] OTHER -> -1

decode_pid(pid) ==
  CASE pid = 2 -> 32 [] pid = 3 -> 1 [] pid = 4 -> 6 [] pid = 5 -> 7 [] pid = 6 -> 8
    [] pid = 11 -> 204 [] pid = 12 -> 205 [] pid = 13 -> 206 [] pid = 14 -> 207
    [] OTHER -> 240

-----------------------------------------------------------------------------
(* From frame to header.                                                   *)

SupervisoryCode == [RR |-> 0, RNR |-> 1, REJ |-> 2, SREJ |-> 3]
UnnumberedCode == [SABM |-> 0, DISC |-> 1, DM |-> 2, UA |-> 3, FRMR |-> 4, UI |-> 5]
Supervisory == DOMAIN SupervisoryCode
Unnumbered == DOMAIN UnnumberedCode

(* What is copied from the C bits.                                         *)
CommandBit(f) == IF f.cr \in {"cr_cmd", "cr_11"} THEN 4 ELSE 0

(* Mutant: P/F one bit too low, where N(R) ends.                           *)
ControlWithLowFinal(f) ==
  CASE f.type \in Supervisory -> 32 * f.pf + 8 * f.nr + CommandBit(f) + SupervisoryCode[f.type]
    [] f.type \in Unnumbered -> 32 * f.pf + 8 * UnnumberedCode[f.type] + CommandBit(f)
    [] f.type = "I" -> 32 * f.pf + 8 * f.nr + f.ns

(* P/F, then N(R), C and the code, or the code and C, or N(R) and N(S).    *)
HeaderControl(f) ==
  CASE f.type \in Supervisory -> 64 * f.pf + 8 * f.nr + CommandBit(f) + SupervisoryCode[f.type]
    [] f.type \in Unnumbered -> 64 * f.pf + 8 * UnnumberedCode[f.type] + CommandBit(f)
    [] f.type = "I" -> 64 * f.pf + 8 * f.nr + f.ns

(* 0 for S frames, 1 for U frames other than UI.                           *)
HeaderPid(pp, f) ==
  CASE f.type \in Supervisory -> 0
    [] f.type \in Unnumbered \ {"UI"} -> 1
    [] f.type \in {"UI", "I"} -> encode_pid(pp.pid)

AddressBits(pp) ==
  (UNION {LET name == ax25_get_addr_no_ssid(pp, n) IN
          UNION {SetOctet(6 * (n - 1) + i - 1, 6, ascii_to_sixbit(name[i])) : i \in DOMAIN name} :
            n \in 1..2})
  \cup SetOctet(12, 8, 16 * pp.addr.ssid[1] + pp.addr.ssid[2])

(* What it returns, negative when there is no header for this frame.       *)
HeaderResult(pp, MaxPayload) ==
  LET f == ax25_frame_type(pp)
      n == ax25_get_num_info(pp)
  IN CASE ~(\A a \in 1..2 : HasSixbit(ax25_get_addr_no_ssid(pp, a))) -> -1
       [] OTHER -> IF f.type = "U" \/ HeaderPid(pp, f) < 0 THEN -1
                   ELSE IF n > MaxPayload THEN -2 ELSE n

il2p_type_1_header(pp) ==
  LET f == ax25_frame_type(pp) IN
  AddressBits(pp)
    \cup SET_UI(IF f.type = "UI" THEN 1 ELSE 0) \cup SET_PID(HeaderPid(pp, f))
    \cup SET_CONTROL(HeaderControl(f))
    \cup SET_FEC_LEVEL(1) \cup SET_HDR_TYPE(1) \cup SET_PAYLOAD_BYTE_COUNT(ax25_get_num_info(pp))

-----------------------------------------------------------------------------
(* From header to frame, without its information part.                     *)

(* Mutant: the trailing spaces stay in the name.                           *)
UntrimmedName(hdr, n) == [i \in 1..6 |-> sixbit_to_ascii(GetOctet(hdr, 6 * (n - 1) + i - 1, 6))]

HeaderName(hdr, n) ==
  Trimmed([i \in 1..6 |-> sixbit_to_ascii(GetOctet(hdr, 6 * (n - 1) + i - 1, 6))])

HeaderAddrs(hdr) ==
  LET ssids == GetOctet(hdr, 12, 8) IN
  <<[name |-> HeaderName(hdr, 1), ssid |-> ssids \div 16],
    [name |-> HeaderName(hdr, 2), ssid |-> ssids % 16]>>

CodeName(code, otherwise, k) ==
  IF \E t \in DOMAIN code : code[t] = k THEN CHOOSE t \in DOMAIN code : code[t] = k ELSE otherwise

il2p_decode_header_type_1(hdr) ==
  LET addrs == HeaderAddrs(hdr)
      control == GET_CONTROL(hdr)
      pid == GET_PID(hdr)
      cr == IF Bit(control, 2) = 1 THEN "cr_cmd" ELSE "cr_res"
      pf == Bit(control, 6)
      nr == (control \div 8) % 8
      opcode == CodeName(UnnumberedCode, "FRMR", (control \div 8) % 8)
  IN CASE ~(\A n \in 1..2 : Alphanumeric(addrs[n].name)) -> NULL_PACKET
       [] OTHER ->
            CASE pid = 0 ->
                   ax25_s_frame(addrs, cr, CodeName(SupervisoryCode, "SREJ", control % 4), nr, pf, 0)
              [] pid = 1 -> ax25_u_frame(addrs, cr, opcode, pf, AX25_PID_NO_LAYER_3, 0)
              [] pid > 1 /\ GET_UI(hdr) = 1 ->
                   ax25_u_frame(addrs, cr, "UI", pf, decode_pid(pid), 0)
              [] pid > 1 /\ GET_UI(hdr) = 0 ->
                   ax25_i_frame(addrs, "cr_cmd", nr, control % 8, pf, decode_pid(pid), 0)
=============================================================================
