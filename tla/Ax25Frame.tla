------------------------------- MODULE Ax25Frame -------------------------------
(***************************************************************************)
(* An AX.25 frame as ax25_pad.c lays it out: two addresses of six shifted  *)
(* characters and an SSID octet each, the control octet, for I and UI      *)
(* frames the PID, and the information part, of which only the length is   *)
(* followed here.  An octet that was never written is 0 (calloc).  A       *)
(* character of an address is its octet's upper seven bits.                *)
(***************************************************************************)
EXTENDS Integers, Sequences

AX25_DESTINATION == 1
AX25_SOURCE == 2
AX25_PID_NO_LAYER_3 == 240
AX25_PID_ESCAPE_CHARACTER == 255
AX25_MAX_INFO_LEN == 2048
AX25_MIN_PACKET_LEN == 5          \* less than the addresses take
AX25_MAX_PACKET_LEN == 9 + AX25_MAX_INFO_LEN

Space == 32                       \* characters are their ASCII codes
NUL == 0
Upper(ch) == ch \in 65..90
Digit(ch) == ch \in 48..57
Alphanumeric(name) == \A i \in DOMAIN name : Upper(name[i]) \/ Digit(name[i])

Bit(v, i) == (v \div 2^i) % 2

(* A name without its trailing spaces.                                     *)
Trimmed(name) ==
  LET n == CHOOSE m \in 0..Len(name) :
             /\ m = 0 \/ name[m] # Space
             /\ \A i \in (m + 1)..Len(name) : name[i] = Space
  IN SubSeq(name, 1, n)

(* What a C string is of the characters in its array: those before a NUL.  *)
BeforeNUL(name) ==
  LET n == CHOOSE m \in 0..Len(name) :
             /\ m = Len(name) \/ name[m + 1] = NUL
             /\ \A i \in 1..m : name[i] # NUL
  IN SubSeq(name, 1, n)

-----------------------------------------------------------------------------
(* Making a frame.  A station is a name and an SSID; addrs has two.        *)

(* Of a name that is too long, or has other characters, no frame is made.  *)
ax25_parse_addr(station) == Len(station.name) <= 6 /\ Alphanumeric(station.name)

(* The C bit of one of the SSID octets tells a command from a response.    *)
set_addrs(addrs, cr) ==
  [name |-> [n \in 1..2 |-> [i \in 1..6 |->
               2 * (IF i <= Len(addrs[n].name) THEN addrs[n].name[i] ELSE Space)]],
   ssid |-> [n \in 1..2 |-> addrs[n].ssid],
   c |-> [n \in 1..2 |-> IF n = AX25_DESTINATION THEN cr = "cr_cmd" ELSE cr = "cr_res"]]

(* pid is the octet after the control octet.                               *)
PacketOf(addrs, cr, control, pid, frame_len) ==
  [addr |-> set_addrs(addrs, cr), control |-> control, pid |-> pid, frame_len |-> frame_len]

ControlOf(type) ==
  CASE type = "SABM" -> 47 [] type = "DISC" -> 67 [] type = "DM" -> 15
    [] type = "UA" -> 99 [] type = "FRMR" -> 135 [] type = "UI" -> 3
    [] type = "RR" -> 1 [] type = "RNR" -> 5 [] type = "REJ" -> 9 [] type = "SREJ" -> 13

ValidPid(pid) == IF pid \in {0, 255} THEN AX25_PID_NO_LAYER_3 ELSE pid

ax25_u_frame(addrs, cr, type, pf, pid, info_len) ==
  PacketOf(addrs, cr, ControlOf(type) + 16 * pf,
           IF type = "UI" THEN ValidPid(pid) ELSE 0,
           15 + (IF type = "UI" THEN 1 ELSE 0) + (IF type \in {"UI", "FRMR"} THEN info_len ELSE 0))

ax25_s_frame(addrs, cr, type, nr, pf, info_len) ==
  PacketOf(addrs, cr, ControlOf(type) + 16 * pf + 32 * nr, 0,
           15 + (IF type = "SREJ" THEN info_len ELSE 0))

ax25_i_frame(addrs, cr, nr, ns, pf, pid, info_len) ==
  PacketOf(addrs, cr, 32 * nr + 2 * ns + 16 * pf, ValidPid(pid), 16 + info_len)

-----------------------------------------------------------------------------
(* Reading a frame: one that ax25_u_frame and the others made, or that      *)
(* ax25_from_frame took as it came.                                        *)

packet_t ==
  [addr : [name : [1..2 -> [1..6 -> 0..255]], ssid : [1..2 -> 0..15], c : [1..2 -> BOOLEAN]],
   control : 0..255, pid : 0..255, frame_len : AX25_MIN_PACKET_LEN..AX25_MAX_PACKET_LEN]

ax25_get_addr_no_ssid(pp, n) ==
  BeforeNUL(Trimmed([i \in 1..6 |-> pp.addr.name[n][i] \div 2]))

(* I and UI frames have a PID, or two.                                     *)
ax25_get_num_pid(pp) ==
  IF (pp.control % 2) = 0 \/ pp.control \in {3, 19}
  THEN IF pp.pid = AX25_PID_ESCAPE_CHARACTER THEN 2 ELSE 1
  ELSE 0

ax25_get_num_info(pp) ==
  LET len == pp.frame_len - 15 - ax25_get_num_pid(pp) IN IF len < 0 THEN 0 ELSE len

ax25_set_info(pp, new_info_len) ==
  [pp EXCEPT !.frame_len = @ - ax25_get_num_info(pp)
                             + (IF new_info_len > AX25_MAX_INFO_LEN
                                THEN AX25_MAX_INFO_LEN ELSE new_info_len)]

(* Mutant: the C bits of the SSID octets are read.                         *)
CommandByTheBits(pp) ==
  CASE pp.addr.c[1] /\ pp.addr.c[2] -> "cr_11" [] pp.addr.c[1] /\ ~pp.addr.c[2] -> "cr_cmd"
    [] ~pp.addr.c[1] /\ pp.addr.c[2] -> "cr_res" [] ~pp.addr.c[1] /\ ~pp.addr.c[2] -> "cr_00"

(* Octets 0 and 1 of the frame, not the SSID octets, are tested: the first *)
(* two characters of the destination.                                      *)
CommandOrResponse(pp) ==
  LET dst_c == pp.addr.name[1][AX25_DESTINATION] # 0
      src_c == pp.addr.name[1][AX25_SOURCE] # 0
  IN CASE dst_c /\ src_c -> "cr_11" [] dst_c /\ ~src_c -> "cr_cmd"
       [] ~dst_c /\ src_c -> "cr_res" [] ~dst_c /\ ~src_c -> "cr_00"

TypeOfControl(c) ==
  CASE c % 2 = 0 -> "I"
    [] c % 4 = 1 -> <<"RR", "RNR", "REJ", "SREJ">>[((c \div 4) % 4) + 1]
    [] c % 4 = 3 ->
         LET named == {t \in {"SABM", "DISC", "DM", "UA", "FRMR", "UI"} :
                         ControlOf(t) = c - 16 * Bit(c, 4)}
         IN IF named = {} THEN "U" ELSE CHOOSE t \in named : TRUE

ax25_frame_type(pp) ==
  LET c == pp.control
      type == TypeOfControl(c)
  IN [type |-> type, cr |-> CommandOrResponse(pp), pf |-> Bit(c, 4),
      nr |-> IF c % 4 # 3 THEN c \div 32 ELSE -1,
      ns |-> IF type = "I" THEN (c \div 2) % 8 ELSE -1]
=============================================================================
