------------------------------ MODULE MCDataLink ------------------------------
(* An instance of DataLink for TLC: the frames that a handler tells apart, *)
(* with every number.                                                      *)
EXTENDS DataLink

CONSTANTS short, long

MCInfo == {short, long}
MCTooLong == {long}

(* As they are sent, and with the cr_11 that ax25_frame_type makes of it.  *)
(* The two numbers of an I frame are handled one after the other: every    *)
(* value of each, but two differences between them keep the instance small. *)
MCFrames ==
  LET S(type, cr, pf) == {ax25_s_frame(cr, type, nr, pf) : nr \in Number}
      U(type, cr) == {ax25_u_frame(cr, type, pf) : pf \in {0, 1}}
  IN {ax25_i_frame(AX25MODULO(n + d), n, short) : n \in Number, d \in {0, 1}}
     \cup {[ax25_i_frame(n, n, short) EXCEPT !.pf = 1] : n \in Number}
     \cup {ax25_i_frame(0, 0, long)}
     \cup S("RR", "cr_11", 0) \cup S("RR", "cr_cmd", 1) \cup S("RR", "cr_res", 1)
     \cup S("RNR", "cr_res", 0) \cup S("RNR", "cr_res", 1)
     \cup S("REJ", "cr_11", 0)
     \cup S("SREJ", "cr_res", 0) \cup S("SREJ", "cr_res", 1)
     \cup {[ax25_s_frame("cr_res", "SREJ", n, 0) EXCEPT !.more = <<AX25MODULO(n + 1)>>] :
             n \in Number}
     \cup {ax25_u_frame("cr_cmd", type, 1) : type \in {"SABM", "DISC", "UI"}}
     \cup U("DM", "cr_res") \cup U("UA", "cr_res") \cup {ax25_u_frame("cr_res", "FRMR", 0)}
=============================================================================
