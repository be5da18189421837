------------------------------ MODULE MCIl2pFrame ------------------------------
(* An instance of Il2pFrame for TLC: every control octet, every PID, names *)
(* of every length and frames with an information part.                    *)
EXTENDS Il2pFrame

Station(name, ssid) == [name |-> name, ssid |-> ssid]
A == Station(<<75, 53, 79, 75, 67>>, 0)         \* K5OKC
B == Station(<<90, 48, 65, 57, 66, 89>>, 15)    \* Z0A9BY
Plain == <<A, B>>
Names == {<< >>, <<65>>, <<57, 90>>, B.name}

(* Frames from a KISS client may have any characters: a lower case letter, *)
(* a space inside, a slash, a NUL at the end, after a space, at the front. *)
Raw(name, f) == [f EXCEPT !.addr.name[1] = [i \in 1..6 |-> 2 * name[i]]]
RawNames == {<<97, 65, 65, 65, 65, 65>>, <<65, 32, 65, 32, 32, 32>>, <<65, 47, 65, 65, 65, 32>>,
             <<65, 66, 0, 0, 0, 0>>, <<65, 32, 0, 97, 32, 32>>, <<0, 65, 32, 32, 32, 32>>}

MCFrames ==
  {ax25_i_frame(Plain, "cr_cmd", nr, ns, (nr + ns) % 2, 240, 0) : nr \in 0..7, ns \in 0..7}
  \cup {ax25_s_frame(Plain, cr, type, nr, nr % 2, 0) :
          cr \in {"cr_cmd", "cr_res"}, type \in Supervisory, nr \in 0..7}
  \cup {ax25_u_frame(Plain, cr, type, pf, 240, 0) :
          cr \in {"cr_cmd", "cr_res"}, type \in Unnumbered, pf \in {0, 1}}
  \cup {ax25_u_frame(Plain, "cr_cmd", "UI", 0, pid, 0) : pid \in 0..255}
  \cup {ax25_i_frame(Plain, "cr_cmd", 5, 2, 1, 207, n) : n \in InfoLengths}
  \cup {ax25_s_frame(Plain, "cr_res", "SREJ", 3, 1, 2)}
  \cup {ax25_u_frame(<<Station(x, s), Station(y, 15 - s)>>, "cr_cmd", "UI", 0, 240, 0) :
          x \in Names, y \in Names, s \in {0, 1, 8, 15}}
  \cup {Raw(name, f) : name \in RawNames,
          f \in {ax25_u_frame(Plain, "cr_cmd", "UI", 0, 240, 1), ax25_i_frame(Plain, "cr_cmd", 1, 2, 0, 240, 1)}}
  \cup {[ax25_s_frame(Plain, "cr_res", "RR", 2, 0, 0) EXCEPT !.frame_len = AX25_MIN_PACKET_LEN]}
  \cup {[ax25_u_frame(Plain, "cr_cmd", "UI", 0, 240, 0) EXCEPT !.control = c, !.pid = 255] :
          c \in {3, 111, 127}}
=============================================================================
