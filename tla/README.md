# A verification project for IPNode

IPNode is an AX.25 packet radio node for Linux: a KISS client (the kernel's AX.25
stack) writes packets to a pseudo terminal, the node sends them over the air in IL2P
frames on a QPSK modem, and what it receives goes back to the client and to its own
data link. This directory holds TLA+ models of its parts, the TLC runs that check them
on small instances and TLAPS proofs of what holds for every instance. File and line
references are to `src/src/`.

## 1. The system

Four threads share three pieces of state:

```
 KISS client            kiss thread          transmit queue        tx thread
 ----------> pseudo --> kiss_rec_byte -----> two priorities -----> CSMA, IL2P, audio out
             terminal                            ^                     |
    ^                                            | lm_data_request     | seize confirm
    |                                            | lm_seize_request    v
    +---- app_process_rec_packet <---- main thread <------------- receive queue
                                       (data link, timers)             ^
                                                                       | frames
                                       audio in, demodulator, IL2P: rx thread
```

| component | state | operations | who calls it | what makes it correct |
|---|---|---|---|---|
| transmit queue (`transmit_queue.c`) | two linked lists, `xmit_thread_is_waiting`, two mutexes, a condition | append, `lm_data_request`, `lm_seize_request`, peek, remove, wait | kiss, main, tx threads | FIFO, one owner per packet, no lost wakeup |
| transmit thread (`transmit_thread.c`) | audio lock, packet in hand, counters | `wait_for_clear_channel`, `tx_frames` | itself | every packet sent or given up once, the lock released, bounded transmissions |
| receive queue (`receive_queue.c`) | list with head, tail and length, flag, condition | three appends, timed wait, remove, delete | rx, tx, main threads | the list spells the queue, nothing leaks, no lost wakeup |
| main loop (`ipnode.c`) | item in hand | `rx_process` | itself | every item handled in order, timers served |
| KISS terminal (`kiss_pt.c`) | frame buffer and state, terminal descriptor | `kiss_rec_byte`, `kisspt_send_rec_packet` | kiss, main threads | frames arrive whole, once, unaltered; the buffer is not overrun |
| IL2P receiver (`il2p_rec.c`) | shift register, state, header and payload bytes | `il2p_rec_bit` | rx thread | a sync word is found, the frame after it gathered |
| IL2P codec (`il2p_codec.c`, `il2p_payload.c`, `il2p_header.c`, `il2p_scramble.c`, `il2p_init.c`, `il2p_send.c`) | tables | encode, decode, Reed-Solomon | rx, tx threads | decoding undoes encoding; blocks fit; decoding ends |
| AX.25 frames (`ax25_pad.c`) | the packet object | build, take apart | main, tx threads | frame types and command bits survive |
| data link (`ax25_link.c`) | per link: state, V(S), V(R), V(A), T1, T3, queues, reassembler | `lm_*`, `dl_timer_expiry` | main thread | in-order delivery once, window, retries end |
| demodulator (`receive_thread.c`, `ted.c`, `deque.c`, `costas_loop.c`, ...) | filters, DCD flag, deque | `processSymbols` | rx thread | DCD; the deque; start-up order |
| audio (`audio.c`) | in and out buffers, device handles | get, put, flush, wait, close | rx, tx threads, SIGINT handler | nothing is written past a buffer or after close |
| configuration, PTT | structures, GPIO lines | parse, set | main | sequential, not modelled |

What is hard here, and where, is listed line by line under `hazards` in
`PROJECT.json`: the wake-up protocol of the transmit queue, unlocked peeks and flags,
ownership of packets across three threads, a channel that stays busy, the SIGINT
handler that closes the audio device under the other threads, timers racing items, a
KISS client that goes away in the middle of a frame.

The data link of this repository is built but not reached: no source file registers a
callsign or requests a connection (`reg_callsign_list` is never filled), so `list_head`
stays null. `MainLoop` sees it from outside (its handlers may append to the transmit
queue and start timers); `DataLink` and `LinkPair` are the state machine itself, as it
would act for a registered client.

## 2. Modules

| module | what it is |
|---|---|
| `TransmitQueue` | `transmit_queue.c`: lists, heap, wake-up protocol, producers |
| `TransmitThread` | `transmit_thread.c` over it, the DCD flag, the SIGINT handler; properties |
| `TransmitService` | what the two promise together, without threads or locks |
| `MCTransmit` | instances for TLC |
| `TransmitProofs` | proofs about `TransmitThread` |
| `ReceiveQueue` | `receive_queue.c`: pointer list, heap, flag, waits, producers |
| `MainLoop` | `rx_process` over it, timers seen from outside; properties |
| `ReceiveService` | what the two promise together |
| `MCMainLoop` | instances for TLC |
| `ReceiveProofs` | proofs about `MainLoop` |
| `KissFrame` | framing of `kiss_pt.c`, the client at the other end; properties |
| `MCKissFrame` | the messages the client sends in TLC's runs |
| `KissProofs` | proofs about the KISS receiver and its clients |
| `Il2pReceive` | `il2p_rec_bit`, the transmitter at the other end |
| `Il2pProofs` | what that receiver does with any bits |
| `Il2pCodec` | `il2p_payload.c` and `il2p_codec.c`: blocks, encoder, noise, decoder; properties |
| `Il2pCodecProofs` | proofs about the codec, the header and the frame |
| `Ax25Frame` | `ax25_pad.c`: frames built and read, octet by octet where it matters |
| `Il2pHeader` | `il2p_header.c`: the header of a frame as a set of bits, and back |
| `Il2pFrame` | a whole frame through header and payload, over `Il2pCodec`; properties |
| `MCIl2pFrame` | the frames of TLC's runs |
| `Ax25Link` | `ax25_link.c`: the link, and the functions its handlers are made of |
| `Ax25Handlers` | the handlers of `ax25_link.c` |
| `DataLink` | one link against any peer, its timers and its channel; properties |
| `MCDataLink` | the frames of TLC's run |
| `LinkFacts` | what the functions of `Ax25Link` and `Ax25Handlers` do to a link: the lemmas of the next two |
| `DataLinkProofs` | proofs about `DataLink` |
| `LinkPair` | two links and a channel that loses frames; properties |
| `LinkService` | what a link promises its two clients |
| `MCLinkPair` | an instance for TLC |
| `LinkPairProofs` | proofs about `LinkPair` |

### The transmit side

A step is what runs between two points at which another thread can see or change
shared state. `transmit_queue_mutex` makes each list operation one step. What the code
does outside it is a step each: a peek of a queue head, a read of the DCD flag, the
producer's read of `xmit_thread_is_waiting` and the signal after it, the transmit
thread's emptiness test, its announcement of the wait and its falling asleep.
`pc["tx"]` is the place in `tx_thread`, `wait_for_clear_channel` or `tx_frames`;
`pc["kiss"]` and `pc["main"]` the place in an append. `wake_up_cond` is TRUE while the
thread is blocked on the condition; it may wake spuriously. `packet[p]` is the state of
a heap object: unused, live, or freed with the reason why. `overtaken` is a history
variable and takes part in no guard.

`TransmitService` has two lists, the fate of each packet, the packet in hand and
whether a transmission is on. `ImplementsService` is the refinement: `keyed` is the
time from the first step of `tx_frames` to the unlocking of the audio device.

The wait for a slot compares `rand() & 0xff` with `persist`: both outcomes are possible
unless `persist` is 255. `ptt_set` changes nothing without DEBUG_TX and is left out,
as is the waveform.

### The receive side

Here one mutex guards list, flag and condition, so an append is one step, and so is the
test for emptiness up to the point where the wait blocks. The list is modelled with its
pointers (`queue_head`, `queue_tail`, `nextp`), and `contents` is the history the
pointers must spell. Addresses are reused: an item deleted may be allocated again.
`timers` is the first running timer of the data link: stopped, running or due; the
handlers (`lm_data_indication`, `lm_channel_busy`, `lm_seize_confirm`,
`dl_timer_expiry`) may leave any of the first two behind.

### KISS

Bytes are numbers and the frame buffer is a sequence, its length `kiss_len`. The client
writes what `kiss_encapsulate` gives and may go away in the middle. `AnyBytesSpec` is
the same receiver fed with any bytes; what it never does is proved of that, what it
delivers of `Spec`. The loops over bytes are recursive functions of the number of bytes
done, so that they can be proved about.

### The IL2P receiver

`il2p_rec_bit` as it stands, with the `memset` of its context at the top of every call.
A transmitter sends idle bits and sync words, one bit of which noise may flip.

### The IL2P codec

A turn of one of the four loops over blocks is a step. The data are positions: byte `k`
of the payload is `<<k, k, 0>>` and a parity symbol names the bytes it protects, so a
block cut at the wrong place is seen not to be a codeword. `pin` is the input pointer of
the side at work, `b` the loop counter. Scrambling works on each block by itself and
keeps every position, so it is left out here. Noise damages any set of blocks.
`decode_rs_char` returns a clean block unchanged; on any other it reaches a loop that
counts a `uint8_t` up to 255 or one that waits for an `unsigned` to be negative
(`il2p_init.c:275`, `il2p_init.c:345`), so what the build does then is left open: the
block is corrected, given up, or the decoder never returns. Of the damaged blocks any may
have more wrong symbols than the parity corrects (`beyond`); such a block may also be
"corrected" into the code word of another, which `decode_rs_char` reports as a success and
`il2p_decode_rs` notices only if a byte of the padding was "corrected" with it
(`il2p_init.c:402`). Its bytes are then `WrongSymbol`, which is none that was sent. The
header is taken to arrive clean.

### AX.25 frames and the IL2P header

`Ax25Frame` follows what the builders of `ax25_pad.c` write (addresses, SSID octets with
their C bits, control octet, PID) and what `ax25_frame_type` and the other readers make
of it; of the information part it keeps the length. A frame that `ax25_from_frame` took
from a KISS client may have any octets where the addresses are (`packet_t`); a name is
what `ax25_get_addr_no_ssid` makes of them, up to a NUL. `Il2pHeader` translates
`il2p_type_1_header` and `il2p_decode_header_type_1`: a header is the set of its bits
that are 1, and a field such as CONTROL is one bit of each of seven octets.
`Il2pFrame` runs both around the payload of `Il2pCodec`: the first step builds the header
together with `il2p_encode_frame`, the middle ones are those of `Il2pCodec`, the last
gives the information part to the frame made of the header.

### The data link

A link is a record with the fields of `ax25_dlsm_t`. The main thread runs every handler
from end to end, so a handler is an operator from the link before to the link after and
a step of `DataLink` is one call; inside, the handlers are composed as in the code:
`check_i_frame_ackd` calls `SET_VA`, `stop_t1`, `start_t3` and so on in their order. What
a call sends is collected in `out` and given to the transmit queue by the step, what it
delivers in `up`. Loops over sequence numbers are stated by what they send or free:
`SET_VA` frees downwards to the first empty slot, `i_frame_pop_off_queue` sends `ToSend`
frames, `InSequence` delivers the kept frames that follow.

Left out: the length of T1 (`select_t1_value`, `srt`), statistics, and branches on
`own_receiver_busy`, `reject_exception` and `layer_3_initiated`, which no code sets.

`DataLink` lets any frame of `Frames` arrive at any time, the channel become busy and
free, timers expire whenever they run, and the transmit thread give up a request for the
channel. `LinkPair` connects two such links: each has a transmit queue whose head the
peer hears or not, and confirms that come back for null frames. A received frame is read
as `ax25_frame_type` reads it (`cr_11`, shown by `ReadAsBoth`). The client's calls do not
exist in this code and are modelled from the states they would leave.

## 3. Runs

| run | checks | instance |
|---|---|---|
| `TransmitSafety` | `TypeOK`, `PeekedFrameIsThere`, `OneOwner`, `AudioHeldToSend`, `AtMostOneOvertakes`, `ImplementsService` | three frames and a null frame, two frames per transmission, SIGINT at any time |
| `TransmitFairness` | `QueuedLeavesOrThreadSleeps`, `LaterAppendWakes` | a frame, a null frame, one that cannot be encoded |
| `LostWakeup` | violation of `NotifiedWhenNotEmpty` | two packets |
| `CloseWhileSending` | violation of `NoAudioAfterClose` | two packets |
| `ReceiveQueue` | `TypeOK`, `ListWellFormed`, `NothingLeaks`, `SleepsOnlyOnEmpty`, `ImplementsService`, `EveryItemIsHandled`, `TimersServed` | three item addresses, timers |
| `KissFrame` | `TypeOK`, `FramesAreDelimited`, `WholeFramesArrive` | every message of up to three bytes over the four special bytes, 0 and 1, buffer of 6 |
| `KissBuffer` | violation of `StoredMessageFits` | the same |
| `Il2pReceive` | violation of `SyncWordIsFound` | one sync word after any idle bits |
| `Il2pCodec` | `TypeOK`, `BlocksFit`, `LengthAnnounced`, `DeliveredIntact`, `CleanIsRecovered`, `HeardAsSent`, `HeardIffPlain`, `ReadAsBoth` | the code's own sizes (239, 16, 255, 1023, 5); lengths 0, 1, 2, 238, 239, 240, 478, 479, 718, 956, 1023 and 1024; any set of damaged blocks, any of them damaged beyond correction; every I frame number, every S and U frame, every PID, names of every length, names that no callsign has (six of them, with a NUL in some), a frame of five octets |
| `DataLink` | `TypeOK`, `OutstandingIsKept`, `ExpectedIsNotKept`, `TimerDrivesLink`, `PausedWhileBusy`, `AckIsOnItsWay`, `RetriesCounted`, `AcksOnlyWhatWasSent`, `RetriesEnd` | modulo 4, window 2, two tries, a queue of one, one null frame under way, every kind of frame with every number |
| `RecoveryStalls` | violation of `RecoveryGivesUp` | the same |
| `LinkPair` | `NumbersAgree`, `StashIsWhatWasSent`, `GivenOrBroken`, `RecoveryEnds`, `ImplementsService` | modulo 3, window 2, two tries, three parts, any loss |

Bounds. Three frames of which two fit a transmission give a full batch, one that is
left over and one that arrives late; `WaitLimit` 1 instead of 6000 gives a poll that
waits and one that gives up, and with `Persist` 63 slots are won and lost. A packet is
allocated once in the transmit model, so the state space is finite; the receive model
reuses addresses and needs no such bound. A KISS buffer of 6 is overrun by a message of
three bytes of which two are escaped, and holds every message of two bytes.
`DataLink` with modulo 4 wraps its numbers again and again, has windows that are empty,
half full and full, gaps of one and two frames before one that is kept, and numbers
outside the window; modulo 8 and its window of 4 run through the same tests, which are
of distances. `LinkPair` has three parts for a modulus of three, so a number is used again
while an old frame with it may still be on its way, and a window of modulo less one, the
largest the code allows and the one where a stale number is nearest to a new one.
`TransmitSafety` and `CloseWhileSending` do not check for deadlock: after SIGINT the
process ends. `Il2pCodec` does not either: a decoder that never returns is a state
without a step. Nor does `LinkPair`: two links that gave up have nothing to do.

The counters that a bound holds down, with the steps it holds back: `WaitLimit` (polls of a
busy channel) and `MaxFrames` (frames of a transmission) are the code's own limits, smaller;
in `DataLink`, `MaxQueue` (the client sends while fewer parts wait) and `MaxRequests`
(null frames under way: with that many, a step that would ask for the channel once more is
not taken); in `LinkPair`, `Parts` (the client sends), `MaxTx` (T1 and T3 expire, and the
client sends, only while the station's own transmit queue is shorter, 1 in the run; frames
that a handler answers with are queued without limit) and `MaxConfirms` (a null frame is
taken while fewer confirms are on their way). With `MaxTx` 1 a timer expires only on an
empty queue, so a try is not repeated while the last one still waits to be sent. The proofs
hold for every value of these.

Fairness. `SchedulerFairness` says that a thread that can run does run, that a producer
finishes an append it began, and that `rand()` wins a slot again and again as long as
the thread keeps trying (strong fairness of `RandWins`, with `Persist` at least 0 one value in 256
wins). Nothing is assumed of the channel: the properties ask that in the end it stays
clear or stays busy, since a DCD flag that flips at the wrong moments can send
`wait_for_clear_channel` back to its start for ever without counting. On the receive
side the main thread is weakly fair, and a timed wait whose time has come ends
(strongly fair, since spurious wakeups may get in between); nothing is assumed of the
producers. For the data link, a busy channel is in the end reported free (weak fairness of
`ChannelChanges(FALSE)`) and T1, which counts only the time the channel is free, expires
if it is able to again and again (strong fairness of `T1Expires`, in `DataLink`, where
the channel is paused and resumed; weak in `LinkPair`, where it is not). In `LinkPair` the
transmit thread takes what is queued and the main thread handles the confirms; nothing
says that any frame is ever heard, so a channel that loses everything is allowed. Their
weak fairness is written with `[]<>` since a non-empty queue is all that enables them.

## 4. What the runs show

* The transmit side is safe under every interleaving of its unlocked reads: only the
  transmit thread removes, so what a peek saw is there when the removal comes. The
  price is that a high-priority packet that arrives between the two peeks and the
  removal is overtaken by one low-priority packet; `AtMostOneOvertakes` says never by
  two. The audio lock is free whenever the thread asks for it, so the `try_lock` loop
  never spins.
* **A lost wakeup** (`LostWakeup`, `transmit_queue.c:236`). The emptiness test and the
  wait are under different mutexes and the wait does not look again. A packet appended
  in between stays queued until a later append. `QueuedLeavesOrThreadSleeps` and
  `LaterAppendWakes` say that this is all that goes wrong: a queued packet leaves
  unless the thread sleeps, and any append after it fell asleep wakes it. The receive
  queue, with one mutex, has no such gap (`SleepsOnlyOnEmpty`).
* **Audio after close** (`CloseWhileSending`, `ipnode.c:61`).
* **The KISS buffer** (`KissBuffer`, `kiss_pt.c:350`): the closing FEND is stored
  without a length test. `OverrunBounded` proves that it is one byte and never two.
* **The IL2P receiver** (`Il2pReceive`, `il2p_rec.c:32`) never finds a sync word;
  `NeverReceives` proves it for any stream of bits. `ReceiveQueue` therefore models the
  append of a frame as the code around it would do it, not as something this build is
  seen to do.
* The payload codec is right at every boundary (`Il2pCodec`): blocks differ by at most
  one byte, none exceeds 239 with its parity of 16, the receiver gathers as many bytes
  as were sent, and a payload with a block that was given up is refused whole. A block
  that was changed into another code word is not noticed: the packet is delivered with
  those bytes wrong, as `docs/il2p-readme.md:242` warns. `DeliveredIntact` says what is
  true whatever the damage: the packet is as long as what was sent, and every byte that is
  wrong is one of a block damaged beyond correction. The trailing CRC which that document
  describes as the remedy is not in this code.
* The header carries types, numbers, addresses, protocol and length of every frame it
  takes (`HeardAsSent`). It takes names the receiver refuses: a frame of a KISS client
  whose address has a character other than a capital or a digit is sent and heard by
  nobody (`HeardIffPlain`).
* **Every frame is a command** (`ReadAsBoth`, `ax25_pad.c:334`): the C bits are looked
  for in two characters of the destination's name. Each frame reads as `cr_11`, every
  header says command although `il2p_header.c:220` has C "copied from the C bit in the
  destination addr", polls are not answered (`ax25_link.c:1057`) and no RR ends timer
  recovery. One kind of frame is an exception that helps nobody: the header
  of an S or U frame whose destination begins with a NUL says response.
* The data link holds its window and its store against any peer (`OutstandingIsKept`,
  `ExpectedIsNotKept`). V(A) moves only over what was sent (`AcksOnlyWhatWasSent`). An
  acknowledgement that waits for the channel is lost only when the transmit thread gives
  its request up; `acknowledge_pending` then keeps later frames from asking again
  (`AckIsOnItsWay`).
* **A recovery that stalls** (`RecoveryStalls`, `ax25_link.c:1298`). A link that waits for
  its peer has a timer that will end the wait (`TimerDrivesLink`): T1 in states 1 and 2 and
  in timer recovery, T1 or T3 when connected. There is one exception. In timer recovery
  `srej_frame` stops T1 first; an SREJ with F = 0 whose N(R) is V(S) is accepted by
  `is_good_nr`, acknowledges nothing, and asks for a frame that is not kept, so nothing is
  sent and nothing starts T1 again, while T3 does nothing in that state. If the peer is
  silent from then on, no further try is made and the link never gives up. `stalled` is the
  history of that one frame, and `TimerDrivesLink` says that nothing else, whatever arrives
  in whatever order, leaves the link so.
* Over a channel that loses frames, parts are given in order and at most once
  (`LinkPair`, `ImplementsService`). One call of B's link may give several, the frame that
  was expected and those kept behind it: `LinkService.Give` asks of each of them that it
  was accepted and comes after the one before it, be that in the same call or an earlier
  one. This rests on the misread C bits: were responses recognised, frames would be sent
  again after an enquiry, and the window of `is_ns_in_window`, as large as the modulus less
  two, would keep a repeated old frame as a future one: `ReceivedAsSent`, which is that
  change, breaks `StashIsWhatWasSent` and `ImplementsService` both. It is not promised
  that every part is given: a SABM that is repeated resets a link that is in use, and its
  parts are lost without a word to the client, which is why `LinkService` lets parts be
  skipped.
* The promise has an end (`LinkPair.stale`). A UA that is heard in state 3 or 4 starts a
  new attempt (`ax25_link.c:1617`), and with three tries or more there may be a SABM or a
  UA of the last attempt still under way then. Nothing in a SABM or a UA says which
  attempt it belongs to: A may take the old UA for the answer to its new SABM, send parts
  under new numbers, and B resets in the middle of them when that SABM is heard. Without
  `~stale`, `NumbersAgree` is violated in 14 steps with `n2_retry` 3. In the run, with two
  tries, no state is stale, so what it shows is shown without that condition; three tries
  are too many states for a run, and there `LinkPairProofs` says what holds, for any
  number of tries.
* A timer recovery ends, by an acknowledgement in an I frame or by the last try
  (`RecoveryEnds`), when the peer is a link like this one, which asks only for what was
  sent. A sender that stays connected gets each part through (`GivenOrBroken`). Both are
  checked with timers that expire on an empty transmit queue (`MaxTx`).
* Timers are served only once the receive queue is found empty: `TimersServed` needs
  that the flow of items ends.

## 5. Proofs

All are machine-checked for every value of the constants that satisfies the named
assumptions (`PacketsAssumption`, `TransmitAssumption`, `ItemsAssumption`,
`LinkTimersAssumption`, `KissAssumption`, `Il2pCodecAssumption`, `Il2pFrameAssumption`,
`LinkAssumption`, `DataLinkAssumption`, `LinkPairAssumption`), with no bound on packets,
items, bytes, frames or tries.

* `TransmitProofs`: `TypeCorrect`, `PeekSafe`, `Ownership`, `AudioLock`,
  `BoundedOvertaking`, `Refinement`. The inductive invariant has four parts: the types;
  the control part, which ties each label of the thread to what it must hold there (a
  peeked list is not empty, the packet in hand is or is not NULL, the lock, the
  counters); the ownership part; and the overtaking part, which is stronger than the
  property: a packet that arrived in the high-priority queue between the look at that
  queue and the low-priority removal has not been overtaken yet. Preservation is proved per group of actions by what they touch
  (quiet, append, removal, deletion).
* `ReceiveProofs`: `TypeCorrect`, `ListCorrect`, `HeapCorrect`, `NoLostWakeup`,
  `Refinement`. The invariant says that the pointers spell `contents`, that the items of
  `contents` are distinct, allocated and not in the main thread's hand, and what holds
  at each label. The bound on `queue_length` comes from the injection of positions into
  `Items` (`LengthBound`).
* `KissProofs`: `Delimited` and `OverrunBounded`, for any bytes; `RoundTrip`, that
  `kiss_unwrap` undoes `kiss_encapsulate` for a message of any bytes and any length;
  `KissTypeCorrect` and `FramesArrive`, of the receiver with its clients. The invariant of
  the last says that what is read and what is still to be read of the current frame are
  together an encapsulated message, and that the buffer is what the receiver makes of what
  was read. `RoundTrip` goes byte by byte: up to where each byte of the message ends in the
  frame, what is unwrapped is the message up to that byte (`UnwrappedSoFar`).
* `Il2pProofs`: `NeverReceives`: a register with at most its lowest bit set differs from
  the sync word in bits 3 and 6.
* `Il2pCodecProofs`: `CodecTypeCorrect`, `CodecBlocksFit`, `CodecLengthAnnounced`,
  `CodecDeliversIntact`, `CodecRecoversClean`, for every block size, parity and payload
  length. `BlockFacts` is the arithmetic of `il2p_payload_compute`: with `q` blocks of
  `k` or `k + 1` bytes, `q * k` plus the number of large blocks is the payload. The
  invariant gives each block its place (`DataBefore`, `PlaceOf`): in both walks the
  pointer is at the place of the next block, what the sender has written is at each
  place the block that belongs there, and what the receiver has written is a prefix of
  the payload unless a block failed, but for the bytes of blocks in `beyond`. None of the properties is inductive without it.

  `FrameHeardAsSent`, `FrameHeardIffPlain`, `FrameReadAsBoth`, for every AX.25 frame, its
  addresses of any octets (`Frames` is any set of frames whose information parts have
  lengths in `InfoLengths`), and for every largest payload that ten bits can count. The
  header is a set of bits, and the proof goes from the bits up. `InHeader` says which bits
  there are; `FieldRead` and `OctetRead`, that a field or an octet that holds a number is
  read as that number, since a number of ten bits is known by its bits (`SameBits`);
  `UpperFields`, `NameOctet` and `SSIDOctet`, that no field has a bit of another.
  `TypeOfControlIs` and the lemmas on the control octet of each kind of frame take the
  types through the three-bit codes and back, `PidFacts` the protocols. `DecodedFrame` is
  the whole of `il2p_decode_header_type_1` after `il2p_type_1_header`, and `Echoes` says
  what that frame has in common with the one sent. The invariant (`FrameInv`) is that the
  header under way is that of the frame to send, and that the frame made of it is an echo
  of it, without its information part until the payload is decoded and with it after.
  `FrameImplementsCodec` is the refinement: a frame with its header is, as far as the
  payload goes, the codec, so that the theorems above hold of frames too.

* `DataLinkProofs`: `LinkTypeCorrect`, `WindowKept`, `ExpectedNeverKept`,
  `PauseFollowsChannel`, `AlwaysATimer`, `RetriesBounded`, `AcksStayInWindow`,
  `AckOnItsWay`, for every modulus, every window below it and any frames, so against any
  peer. A handler is a composition of functions on the link, and the proof follows it
  (`LinkFacts`): `Sound` (the window, the store, the pause) is kept by each function,
  `Settled` (a timer for whoever waits, the count of tries, nothing stored while a
  connection is tried) holds again when the handler ends. One part is in no property and is
  needed: the store is empty in state 1, since the UA that ends it sets V(R) to 0 whatever
  is kept there. `AlwaysATimer` goes handler by handler once more, for timer recovery: each
  either leaves T1 running (`Timed`) or is the SREJ that `AsksForNothing`; that an SREJ for
  any other number finds its frame is the invariant on the window (`AskedIsKept`,
  `SrejTimed`), and `Awake`, in the invariant, says that without that SREJ T1 runs. `AckOnItsWay` needs one more (`AckLink`): no acknowledgement is owed in
  state 1, since the link would come out of it owing one that nothing asks for. `Wrap`, `AheadAdds` and `AheadFlips` are the arithmetic of distances modulo
  `Modulo`.
* `LinkPairProofs`: `PairInvHolds`, `NumbersAlwaysAgree`, `StashCorrect`,
  `ServiceImplemented`, for every modulus, window, number of tries and of parts. The
  inductive invariant, `Pair`, says what each number stands for. Three numbers that are not
  in the program describe the two links: `base`, the last part before the connection from
  which the numbers count; `r`, the part B expects; `top`, the last that may be under way.
  Its parts:
  - `Counted`, `Window`, `Stash`: V(R) is the number of `r`; V(A) and V(S) are those of the
    first part A keeps and of the next it takes, `r` is between them, and A keeps each part
    under its number, as B does those it holds out of sequence. `top - r` is at most the
    modulus less two, so no two parts B could take have one number.
  - `IFrames`, `Acks`, `Srejs`: what is under way is of a part between `r` and `top`, or for
    an acknowledgement between the first A keeps and `r`, and the acknowledgements are in
    order.
  - `Ord`, the heart of it: of two I frames under way, of a request and an I frame, and of
    two requests, the earlier in the queue is of the earlier part, unless B keeps a part
    in between. A frame sent again is an old part behind newer ones, and this order is why
    B, which has not passed that part, never meets its number again for a later one. None
    of the properties is inductive without it.
  - `Sabms`, `Uas`: a SABM that is still under way while A is connected finds B with its
    numbers fresh, and a UA that A waits for finds no I frame before it.

  The argument has three layers. Each handler does one of seven things to the sender
  (`Pauses`, `Closes`, `Acked`, `Resent`, `Opens`, `Reopens`, `Sends`) and one of four to
  the receiver (`Stays`, `Resets`, `Gives`, `Stashes`), proved from `Ax25Handlers`. Each of
  these keeps `Pair`, with new `base`, `r` or `top` where the numbers move. The steps of
  `LinkPair` are then one lemma each, which also says what the step is for `LinkService`
  (`Serves`): the parts that one call gives are `r` and those that follow it without a gap
  (`GivesInOrder`, `CountRises`), and `r` is after the last that was given, so the history
  goes on from what it was (`LastGiven`).

Loops are proved about by induction all the same, where they are written as recursive
functions: the library's induction theorems take a predicate and cannot be used, but a set
of numbers that is not empty has a least one (`LeastNatural`, from a well-founded order),
and from this follow `CountUp` (a set that has 0 and the successor of each of its members
has all) and `StepByStep` (a function given step by step exists). `KissProofs` and
`LinkFacts` have each their own, for bytes and for the frames a handler sends or delivers.

Only model-checked:

* the liveness properties (`QueuedLeavesOrThreadSleeps`, `LaterAppendWakes`,
  `EveryItemIsHandled`, `TimersServed`, `RetriesEnd`, `RecoveryEnds`, `GivenOrBroken`),
  since the prover does no temporal reasoning about fairness.

Every invariant, action property and refinement that a passing run checks is proved.

## 6. Plan

Done: transmit side, receive side, KISS framing, IL2P bit receiver, IL2P payload and
header, AX.25 frames, the data link alone and in a pair.

Next, in this order:

1. `Node`: transmit thread, receive queue and data link together, from seize request to
   seize confirm.
2. `ReedSolomon`: encoder and decoder over a small field, with the decoder's loops as
   steps.
3. The KISS send path and the life of the pseudo terminal; `il2p_send_frame`.
4. The deque of the timing detector and its list invariant; the audio buffers; the order
   of start-up.

Not modelled:

* in the data link: the list of links (`get_link_handle`; one link is followed), the
  length of T1 (`select_t1_value` is arithmetic in floating point on measured times; a
  timer expires at any time here) and the reassembler (`dl_data_indication` passes what
  it is given to it; no segment reaches it without a registered client);
* the inside of the Reed-Solomon decoder: the codec leaves open what its two doubtful
  loops do in a build and whether a block with too many errors is changed into another,
  and `DeliveredIntact` holds whichever it is;
* the scrambler, a position-wise exclusive or that the receiver repeats, and
  `il2p_send_frame`, which hands octets to the modem without a decision;
* the writes to the pseudo terminal and its opening and closing: the KISS model is of
  what a client writes and the node reads;
* `audio.c` but for its lock and its closing, which the transmit model has: the rest is
  the sound library's behaviour;
* `ted.c`, `deque.c` and the demodulator: their control is driven by comparisons of
  floating-point samples, and so are the filters, loops and transforms
  (`costas_loop.c`, `rrc_fir.c`, `fft.c`, `constellation.c`);
* `config.c` and `ptt.c`: sequential handling of text, and output to a device.

Hazards in these parts are listed in `PROJECT.json` with the reason why no property
covers them.
