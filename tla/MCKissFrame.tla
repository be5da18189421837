----------------------------- MODULE MCKissFrame -----------------------------
(***************************************************************************)
(* Instances of KissFrame for TLC.  The messages are made of the four      *)
(* bytes the framing treats specially and two others: 0, which is the data *)
(* command, and 1, which is another one.  (FEND as a command byte is a     *)
(* data command too: its low nibble is 0.)                                 *)
(***************************************************************************)
EXTENDS KissFrame

Alphabet == {0, 1, FEND, FESC, TFEND, TFESC}

ShortPayloads == UNION {[1..k -> Alphabet] : k \in 1..3}
=============================================================================
