------------------------------- MODULE KissFrame -------------------------------
(***************************************************************************)
(* KISS framing on the pseudo terminal (kiss_pt.c): how the bytes a client *)
(* writes become packets for the transmit queue, and how a packet is       *)
(* wrapped for the client.  Bytes are their numbers.                       *)
(*                                                                         *)
(* The client (kissattach, say) is outside this code: it writes frames in  *)
(* the form kiss_encapsulate gives them, and may go away in the middle of  *)
(* one; the next client starts with a frame of its own.  The terminal      *)
(* itself loses nothing and keeps the order.                               *)
(***************************************************************************)
EXTENDS Naturals, Sequences

CONSTANTS
  MAX_KISS_LEN,         \* 2048 in the code
  AX25_MIN_PACKET_LEN,  \* 5
  AX25_MAX_PACKET_LEN,  \* 2057
  Payloads              \* what clients send: a command byte and the packet

ASSUME KissAssumption ==
  /\ MAX_KISS_LEN \in Nat \ {0}
  /\ AX25_MIN_PACKET_LEN \in Nat
  /\ AX25_MAX_PACKET_LEN \in Nat
  /\ \A m \in Payloads : m \in Seq(0..255) /\ m # << >>

VARIABLES
  state,     \* kiss_frame.state
  kiss_msg,  \* kiss_frame.kiss_msg, up to kiss_len
  got,       \* packets appended since the client began its frame
  sending,   \* the client's frame, << >> before the first
  unsent,    \* the bytes of it not yet read
  aborted    \* history: a client went away since the last whole frame

kiss_frame == <<state, kiss_msg>>
vars == <<kiss_frame, got, sending, unsent, aborted>>

FEND == 192
FESC == 219
TFEND == 220
TFESC == 221
KISS_CMD_DATA_FRAME == 0

-----------------------------------------------------------------------------
(* Wrapping.                                                               *)

Escape(chr) ==
  CASE chr = FEND -> <<FESC, TFEND>>
    [] chr = FESC -> <<FESC, TFESC>>
    [] OTHER      -> <<chr>>

(* What is written after an opening FEND and the first n bytes.            *)
Wrapped(in) ==
  LET out[n \in 0..Len(in)] == IF n = 0 THEN <<FEND>> ELSE out[n - 1] \o Escape(in[n])
  IN out

kiss_encapsulate(in) == Append(Wrapped(in)[Len(in)], FEND)

-----------------------------------------------------------------------------
(* Unwrapping.                                                             *)

(* What a character after FESC stands for; any other is dropped.           *)
Unescape(chr) ==
  CASE chr = TFESC -> <<FESC>>
    [] chr = TFEND -> <<FEND>>
    [] OTHER       -> << >>

UnwrapByte(acc, chr) ==
  IF acc.escaped
  THEN [out |-> acc.out \o Unescape(chr), escaped |-> FALSE]
  ELSE IF chr = FESC
       THEN [out |-> acc.out, escaped |-> TRUE]
       ELSE [out |-> Append(acc.out, chr), escaped |-> FALSE]

(* Mutant: an escaped FEND is not undone.                                  *)
UnwrapKeepsTfend(in) ==
  LET first == IF in[1] = FEND THEN 2 ELSE 1
      last == IF in[Len(in)] = FEND THEN Len(in) - 1 ELSE Len(in)
  IN SelectSeq(SubSeq(in, first, last), LAMBDA chr : chr # FESC)

(* What the loop has made of the bytes from first to n.                    *)
Unwrapped(in, first) ==
  LET acc[n \in 0..Len(in)] == IF n < first THEN [out |-> << >>, escaped |-> FALSE]
                               ELSE UnwrapByte(acc[n - 1], in[n])
  IN acc

kiss_unwrap(in) ==
  LET first == IF in[1] = FEND THEN 2 ELSE 1
      last == IF in[Len(in)] = FEND THEN Len(in) - 1 ELSE Len(in)
  IN IF Len(in) < 2 THEN << >> ELSE Unwrapped(in, first)[last].out

(* kiss_process_msg and the limits of ax25_from_frame: a data frame of an  *)
(* allowed length goes to the transmit queue, anything else is ignored.    *)
(* An empty message has no command byte; the code reads an uninitialized   *)
(* one, but a frame of length -1 is refused whatever it says.              *)
IsDataFrame(msg) ==
  /\ msg # << >>
  /\ (msg[1] % 16) = KISS_CMD_DATA_FRAME
  /\ Len(msg) - 1 \in AX25_MIN_PACKET_LEN..AX25_MAX_PACKET_LEN

kiss_process_msg(msg) ==
  got' = IF IsDataFrame(msg) THEN Append(got, Tail(msg)) ELSE got

-----------------------------------------------------------------------------
(* kiss_rec_byte.                                                          *)

Search(chr) ==
  /\ state = "KS_SEARCHING"
  /\ IF chr = FEND
     THEN state' = "KS_COLLECTING" /\ kiss_msg' = <<chr>>
     ELSE UNCHANGED kiss_frame
  /\ UNCHANGED got

(* Mutants: a second FEND ends an empty frame; a FEND inside a frame is    *)
(* kept and the frame goes on.                                             *)
EndsEmptyFrame(chr) ==
  /\ state = "KS_COLLECTING"
  /\ chr = FEND
  /\ kiss_msg' = Append(kiss_msg, chr)
  /\ kiss_process_msg(kiss_unwrap(kiss_msg'))
  /\ state' = "KS_SEARCHING"
KeepsCollecting(chr) ==
  /\ state = "KS_COLLECTING"
  /\ chr = FEND
  /\ kiss_msg' = Append(kiss_msg, chr)
  /\ kiss_process_msg(kiss_unwrap(kiss_msg'))
  /\ UNCHANGED state

(* A FEND while collecting: a frame of nothing but its opening FEND goes   *)
(* on, any other is complete.                                              *)
EndOfFrame(chr) ==
  /\ state = "KS_COLLECTING"
  /\ chr = FEND
  /\ IF kiss_msg = <<FEND>>
     THEN UNCHANGED <<kiss_frame, got>>
     ELSE /\ kiss_msg' = Append(kiss_msg, chr)
          /\ kiss_process_msg(kiss_unwrap(kiss_msg'))
          /\ state' = "KS_SEARCHING"

(* Mutant: the buffer has no end.                                          *)
CollectUnbounded(chr) ==
  /\ state = "KS_COLLECTING"
  /\ chr # FEND
  /\ kiss_msg' = Append(kiss_msg, chr)
  /\ UNCHANGED <<state, got>>

(* Any other byte, unless the buffer is full.                              *)
Collect(chr) ==
  /\ state = "KS_COLLECTING"
  /\ chr # FEND
  /\ kiss_msg' = IF Len(kiss_msg) < MAX_KISS_LEN THEN Append(kiss_msg, chr) ELSE kiss_msg
  /\ UNCHANGED <<state, got>>

kiss_rec_byte(chr) == Search(chr) \/ EndOfFrame(chr) \/ Collect(chr)

-----------------------------------------------------------------------------
(* The listener thread reads one byte.                                     *)
kisspt_listen_thread ==
  /\ unsent # << >>
  /\ kiss_rec_byte(Head(unsent))
  /\ unsent' = Tail(unsent)
  /\ UNCHANGED <<sending, aborted>>

(* The client.                                                             *)
ClientSends ==
  /\ unsent = << >>
  /\ sending' \in Payloads
  /\ unsent' = kiss_encapsulate(sending')
  /\ got' = << >>
  /\ aborted' = (aborted /\ sending = << >>)
  /\ UNCHANGED kiss_frame

ClientGoesAway ==
  /\ unsent # << >>
  /\ unsent' = << >>
  /\ sending' = << >>
  /\ aborted' = TRUE
  /\ UNCHANGED <<kiss_frame, got>>

(* kisspt_init.                                                            *)
Init ==
  /\ state = "KS_SEARCHING"
  /\ kiss_msg = << >>
  /\ got = << >>
  /\ sending = << >>
  /\ unsent = << >>
  /\ aborted = FALSE

Next == kisspt_listen_thread \/ ClientSends \/ ClientGoesAway

Spec == Init /\ [][Next]_vars

(* The listener thread alone, whatever bytes come.                         *)
AnyByte ==
  /\ \E chr \in 0..255 : kiss_rec_byte(chr)
  /\ UNCHANGED <<sending, unsent, aborted>>

AnyBytesSpec == Init /\ [][AnyByte]_vars

-----------------------------------------------------------------------------
(* The values the variables can have; a message still being collected fits *)
(* its buffer, a complete one exceeds it by the closing FEND at most.      *)
TypeOK ==
  /\ state \in {"KS_SEARCHING", "KS_COLLECTING"}
  /\ kiss_msg \in Seq(0..255)
  /\ Len(kiss_msg) <= MAX_KISS_LEN + 1
  /\ state = "KS_COLLECTING" => Len(kiss_msg) \in 1..MAX_KISS_LEN
  /\ got \in Seq(Seq(0..255))
  /\ sending \in Payloads \cup {<< >>}
  /\ unsent \in Seq(0..255)
  /\ aborted \in BOOLEAN

(* kiss_unwrap is only ever given one FEND, some bytes that are none, and  *)
(* a FEND: its complaints about a missing one and one in the middle        *)
(* (kiss_pt.c:246 and 257) never appear, whatever the client does.         *)
FramesAreDelimited ==
  kiss_msg # << >> =>
    /\ kiss_msg[1] = FEND
    /\ state = "KS_SEARCHING" => Len(kiss_msg) > 2 /\ kiss_msg[Len(kiss_msg)] = FEND
    /\ \A k \in 2..Len(kiss_msg) :
         kiss_msg[k] = FEND => k = Len(kiss_msg) /\ state = "KS_SEARCHING"

(* Every data frame that a client sends whole and that fits is appended to *)
(* the transmit queue exactly once, byte for byte, and nothing else is -   *)
(* except for the first frame after a client that went away, which may be  *)
(* taken for the rest of the unfinished one.                               *)
Fits(m) == Len(kiss_encapsulate(m)) <= MAX_KISS_LEN
WholeFramesArrive ==
  (unsent = << >> /\ sending # << >> /\ ~aborted /\ Fits(sending)) =>
     got = IF IsDataFrame(sending) THEN <<Tail(sending)>> ELSE << >>

(* kiss_pt.h:46, "uint8_t kiss_msg[MAX_KISS_LEN]": what is stored fits.    *)
StoredMessageFits == Len(kiss_msg) <= MAX_KISS_LEN
=============================================================================
