---------------------------- MODULE TransmitThread ----------------------------
(***************************************************************************)
(* The transmit thread of IPNode (transmit_thread.c) over the transmit     *)
(* queue: it sleeps while the queue is empty, waits for a clear channel    *)
(* (CSMA with persistence, given up after 60 s), takes one packet and, if  *)
(* it got the channel, sends it and whatever else is waiting in one        *)
(* transmission.                                                           *)
(*                                                                         *)
(* Each unlocked peek of a queue head, each read of the DCD flag and each  *)
(* locked removal is a step of its own: producers and the receiver run     *)
(* between them.  ptt_set changes nothing in a build without DEBUG_TX and  *)
(* is left out.                                                            *)
(***************************************************************************)
EXTENDS TransmitQueue

CONSTANTS
  WaitLimit,   \* WAIT_TIMEOUT_MS / WAIT_CHECK_EVERY_MS: 6000 in the code
  MaxFrames,   \* frames per transmission: 256 in the code
  Persist,     \* tx_persist: 0..255
  FullDuplex,  \* tx_fulldup
  Interrupted  \* whether SIGINT may arrive

ASSUME TransmitAssumption ==
  /\ WaitLimit \in Nat
  /\ MaxFrames \in Nat \ {0}
  /\ Persist \in 0..255
  /\ FullDuplex \in BOOLEAN
  /\ Interrupted \in BOOLEAN

VARIABLES
  dcd,                  \* get_dcd_detect(): owned by the receive thread
  n,                    \* wait_for_clear_channel: polls that found it busy
  ok,                   \* its result
  audio_out_dev_locked, \* audio_out_dev_mutex is held
  pp,                   \* the packet in the thread's hand
  numframe,             \* frames sent in this transmission
  seize_confirms,       \* RXQ_SEIZE_CONFIRM items put on the receive queue
  process,              \* how far the SIGINT handler has got
  overtaken             \* history: per packet, low-priority removals while it
                        \* waited in the high-priority queue

threadVars == <<n, ok, audio_out_dev_locked, pp, numframe, seize_confirms>>
vars == <<queueVars, threadVars, dcd, process, overtaken>>

WaitPC == {"wait_while_empty", "going_to_wait", "cond_wait", "asleep"}
PeekPC == {"peek_hi", "peek_lo"}
ChannelPC == {"dcd_loop", "dwait", "persist", "slot", "try_lock"}
RemovePC == {"remove_hi", "remove_lo", "removed"}
SendPC == {"tx_frames", "send", "batch_hi", "batch_lo", "batch_remove_hi",
           "batch_remove_lo", "tail", "unlock"}
TxPC == WaitPC \cup PeekPC \cup ChannelPC \cup RemovePC \cup SendPC \cup {"done"}

(* The labels at which the thread hands samples to audio_put.              *)
AudioPC == {"tx_frames", "send", "tail"}

node_shutdown == process # "running"

-----------------------------------------------------------------------------
(* tx_thread: the two unlocked peeks of the inner loop.                    *)

(* A queue that is not empty starts wait_for_clear_channel.                *)
StartWaiting(from) ==
  /\ n' = 0
  /\ Transition("tx", from, IF FullDuplex THEN "try_lock" ELSE "dcd_loop")

PeekHi ==
  /\ IF transmit_queue_peek(TQ_PRIO_0_HI) # NULL
     THEN StartWaiting("peek_hi")
     ELSE Transition("tx", "peek_hi", "peek_lo") /\ UNCHANGED n
  /\ UNCHANGED <<queue, ok, audio_out_dev_locked, pp, numframe, seize_confirms>>

PeekLo ==
  /\ IF transmit_queue_peek(TQ_PRIO_1_LO) # NULL
     THEN StartWaiting("peek_lo")
     ELSE /\ Transition("tx", "peek_lo",
                        IF node_shutdown THEN "done" ELSE "wait_while_empty")
          /\ UNCHANGED n
  /\ UNCHANGED <<queue, ok, audio_out_dev_locked, pp, numframe, seize_confirms>>

-----------------------------------------------------------------------------
(* wait_for_clear_channel.                                                 *)

(* Mutants: the limit is tested before the count goes up; polls do not     *)
(* count.                                                                  *)
CountPollLate(at) ==
  /\ n' = n + 1
  /\ IF n > WaitLimit
     THEN ok' = FALSE /\ Transition("tx", at, "remove_hi")
     ELSE Transition("tx", at, at) /\ UNCHANGED ok
PollUncounted(at) == Transition("tx", at, at) /\ UNCHANGED <<n, ok>>

(* One poll that fails counts; more than WaitLimit of them give up.        *)
CountPoll(at) ==
  /\ n' = n + 1
  /\ IF n' > WaitLimit
     THEN ok' = FALSE /\ Transition("tx", at, "remove_hi")
     ELSE Transition("tx", at, at) /\ UNCHANGED ok

PollDcd ==
  /\ IF dcd
     THEN CountPoll("dcd_loop")
     ELSE Transition("tx", "dcd_loop", "dwait") /\ UNCHANGED <<n, ok>>
  /\ UNCHANGED <<queue, audio_out_dev_locked, pp, numframe, seize_confirms>>

(* The second look, after the dwait pause: busy again starts over and does *)
(* not count.                                                              *)
Dwait ==
  /\ Transition("tx", "dwait", IF dcd THEN "dcd_loop" ELSE "persist")
  /\ UNCHANGED <<queue, threadVars>>

(* A high-priority packet skips the slots.                                 *)
PeekHiForPersistence ==
  /\ Transition("tx", "persist",
                IF transmit_queue_peek(TQ_PRIO_0_HI) = NULL THEN "slot" ELSE "try_lock")
  /\ UNCHANGED <<queue, threadVars>>

SlotBusy ==
  /\ dcd
  /\ Transition("tx", "slot", "dcd_loop")
  /\ UNCHANGED <<queue, threadVars>>

(* rand() & 0xff is at most Persist ...                                    *)
SlotWon ==
  /\ ~dcd
  /\ Transition("tx", "slot", "try_lock")
  /\ UNCHANGED <<queue, threadVars>>

(* ... or above it, and another slot time passes.                          *)
SlotLost ==
  /\ ~dcd
  /\ Persist < 255
  /\ Transition("tx", "slot", "persist")
  /\ UNCHANGED <<queue, threadVars>>

TryLockAudio ==
  /\ IF audio_out_dev_locked
     THEN CountPoll("try_lock") /\ UNCHANGED audio_out_dev_locked
     ELSE /\ audio_out_dev_locked' = TRUE
          /\ ok' = TRUE
          /\ Transition("tx", "try_lock", "remove_hi")
          /\ UNCHANGED n
  /\ UNCHANGED <<queue, pp, numframe, seize_confirms>>

-----------------------------------------------------------------------------
(* tx_thread again: take the packet.                                       *)

RemoveHi ==
  /\ transmit_queue_remove(TQ_PRIO_0_HI, pp)
  /\ Transition("tx", "remove_hi", IF pp' # NULL THEN "removed" ELSE "remove_lo")
  /\ UNCHANGED <<n, ok, audio_out_dev_locked, numframe, seize_confirms>>

RemoveLo ==
  /\ transmit_queue_remove(TQ_PRIO_1_LO, pp)
  /\ Transition("tx", "remove_lo", "removed")
  /\ UNCHANGED <<n, ok, audio_out_dev_locked, numframe, seize_confirms>>

(* With the channel it goes on to tx_frames; a packet without the channel  *)
(* is deleted; with neither, back to the peeks.                            *)
UsePacket ==
  /\ Transition("tx", "removed", IF pp # NULL /\ ok THEN "tx_frames" ELSE "peek_hi")
  /\ IF pp # NULL /\ ~ok
     THEN packet' = [packet EXCEPT ![pp] = "dropped"] /\ pp' = NULL
     ELSE UNCHANGED <<packet, pp>>
  /\ UNCHANGED <<queue, n, ok, audio_out_dev_locked, numframe, seize_confirms>>

-----------------------------------------------------------------------------
(* tx_frames.                                                              *)

StartTransmission ==
  /\ Transition("tx", "tx_frames", "send")
  /\ numframe' = 0
  /\ seize_confirms' = seize_confirms + 1
  /\ UNCHANGED <<queue, packet, n, ok, audio_out_dev_locked, pp>>

(* send_one_frame and the ax25_delete that follows it.  Only a frame that  *)
(* yields bits is counted.                                                 *)
send_one_frame ==
  /\ Transition("tx", "send", "batch_hi")
  /\ pp' = NULL
  /\ \/ /\ pp \in NullFrames
        /\ packet' = [packet EXCEPT ![pp] = "confirmed"]
        /\ seize_confirms' = seize_confirms + 1
        /\ UNCHANGED numframe
     \/ /\ pp \in Unencodable
        /\ packet' = [packet EXCEPT ![pp] = "unencodable"]
        /\ UNCHANGED <<numframe, seize_confirms>>
     \/ /\ pp \in Packets \ (NullFrames \cup Unencodable)
        /\ packet' = [packet EXCEPT ![pp] = "sent"]
        /\ numframe' = numframe + 1
        /\ UNCHANGED seize_confirms
  /\ UNCHANGED <<queue, n, ok, audio_out_dev_locked>>

(* Mutants: one frame too many; low priority looked at first.              *)
BatchOneMore ==
  /\ Transition("tx", "batch_hi",
                IF numframe > MaxFrames THEN "tail"
                ELSE IF transmit_queue_peek(TQ_PRIO_0_HI) # NULL
                THEN "batch_remove_hi" ELSE "batch_lo")
  /\ UNCHANGED <<queue, threadVars>>
BatchLowFirst ==
  /\ Transition("tx", "batch_hi", IF numframe >= MaxFrames THEN "tail" ELSE "batch_lo")
  /\ UNCHANGED <<queue, threadVars>>

(* The batch loop: room for another frame?  Is a high-priority one there?  *)
BatchPeekHi ==
  /\ Transition("tx", "batch_hi",
                IF numframe >= MaxFrames THEN "tail"
                ELSE IF transmit_queue_peek(TQ_PRIO_0_HI) # NULL
                THEN "batch_remove_hi" ELSE "batch_lo")
  /\ UNCHANGED <<queue, threadVars>>

(* Mutant: the low-priority peek is not tested.                            *)
BatchLoUnchecked ==
  /\ Transition("tx", "batch_lo", "batch_remove_lo")
  /\ UNCHANGED <<queue, threadVars>>

BatchPeekLo ==
  /\ Transition("tx", "batch_lo",
                IF transmit_queue_peek(TQ_PRIO_1_LO) # NULL
                THEN "batch_remove_lo" ELSE "tail")
  /\ UNCHANGED <<queue, threadVars>>

BatchRemove(prio, at) ==
  /\ transmit_queue_remove(prio, pp)
  /\ Transition("tx", at, "send")
  /\ UNCHANGED <<n, ok, audio_out_dev_locked, numframe, seize_confirms>>

(* The tail, audio_flush and audio_wait.                                   *)
SendTail ==
  /\ Transition("tx", "tail", "unlock")
  /\ UNCHANGED <<queue, threadVars>>

(* Mutant: the device stays locked.                                        *)
KeepAudioLocked ==
  /\ Transition("tx", "unlock", "peek_hi")
  /\ UNCHANGED <<queue, threadVars>>

UnlockAudio ==
  /\ Transition("tx", "unlock", "peek_hi")
  /\ audio_out_dev_locked' = FALSE
  /\ UNCHANGED <<queue, n, ok, pp, numframe, seize_confirms>>

-----------------------------------------------------------------------------
(* The receive thread raises and clears the DCD flag at any time.          *)
DcdChange ==
  /\ dcd' = ~dcd
  /\ UNCHANGED <<queueVars, threadVars, process, overtaken>>

(* The SIGINT handler: set node_shutdown, close the audio device, sleep a  *)
(* second, exit.  It runs on one of the threads, which then takes no step; *)
(* every other thread goes on until exit.                                  *)
Cleanup ==
  /\ Interrupted
  /\ \/ process = "running" /\ process' = "stopping"
     \/ process = "stopping" /\ process' = "closed"
     \/ process = "closed" /\ process' = "exited"
  /\ UNCHANGED <<queueVars, threadVars, dcd, overtaken>>

-----------------------------------------------------------------------------
Init ==
  /\ transmit_queue_init
  /\ dcd = FALSE
  /\ n = 0
  /\ ok = FALSE
  /\ audio_out_dev_locked = FALSE
  /\ pp = NULL
  /\ numframe = 0
  /\ seize_confirms = 0
  /\ process = "running"
  /\ overtaken = [p \in Packets |-> 0]

(* The steps of the transmit thread that leave the heap alone.             *)
ThreadMoves ==
  \/ PeekHi \/ PeekLo
  \/ PollDcd \/ Dwait \/ PeekHiForPersistence
  \/ SlotBusy \/ SlotWon \/ SlotLost
  \/ TryLockAudio
  \/ BatchPeekHi \/ BatchPeekLo
  \/ SendTail \/ UnlockAudio

Takes(prio) ==
  \/ prio = TQ_PRIO_0_HI /\ (RemoveHi \/ BatchRemove(prio, "batch_remove_hi"))
  \/ prio = TQ_PRIO_1_LO /\ (RemoveLo \/ BatchRemove(prio, "batch_remove_lo"))

InQueue(prio) == {queue[prio][i] : i \in 1..Len(queue[prio])}

(* The history: a low-priority packet leaves while these are waiting.      *)
NoteOvertaking(prio) ==
  overtaken' = IF prio = TQ_PRIO_1_LO /\ pp' # NULL
               THEN [p \in Packets |->
                       overtaken[p] + IF p \in InQueue(TQ_PRIO_0_HI) THEN 1 ELSE 0]
               ELSE overtaken

TxStep ==
  /\ \/ WaitNext /\ UNCHANGED <<threadVars, overtaken>>
     \/ ThreadMoves /\ UNCHANGED <<packet, wakeVars, overtaken>>
     \/ \E prio \in Prio :
          Takes(prio) /\ NoteOvertaking(prio) /\ UNCHANGED <<packet, wakeVars>>
     \/ /\ UsePacket \/ StartTransmission \/ send_one_frame
        /\ UNCHANGED <<wakeVars, overtaken>>
  /\ UNCHANGED <<dcd, process>>

ProducerStep ==
  ProducerNext /\ UNCHANGED <<threadVars, overtaken, dcd, process>>

Next ==
  \/ process # "exited" /\ (TxStep \/ ProducerStep \/ DcdChange)
  \/ process # "exited" /\ SpuriousWakeup /\ UNCHANGED <<threadVars, overtaken, dcd, process>>
  \/ Cleanup

Spec == Init /\ [][Next]_vars

-----------------------------------------------------------------------------
(* Fairness: the operating system runs every thread that can run, and rand *)
(* wins a slot again and again while the thread keeps trying.  Nothing is  *)
(* assumed of the channel, of new appends or of spurious wakeups.          *)
RandWins == SlotWon /\ UNCHANGED <<packet, wakeVars, overtaken, dcd, process>>
FinishesAppend(t) ==
  /\ ReadWaitingFlag(t) \/ SignalTransmitThread(t)
  /\ UNCHANGED <<threadVars, overtaken, dcd, process>>

SchedulerFairness ==
  /\ WF_vars(TxStep)
  /\ SF_vars(RandWins)
  /\ \A t \in Producers : WF_vars(FinishesAppend(t))

FairSpec == Spec /\ SchedulerFairness

-----------------------------------------------------------------------------
(* The values the variables can have.  The poll counter of                 *)
(* wait_for_clear_channel stops one above its limit.                       *)
TypeOK ==
  /\ queue \in [Prio -> Seq(Packets)]
  /\ packet \in [Packets -> PacketState]
  /\ xmit_thread_is_waiting \in BOOLEAN
  /\ wake_up_mutex \in {"free", "tx"}
  /\ wake_up_cond \in BOOLEAN
  /\ pc \in [Threads -> ProducerPC \cup TxPC]
  /\ pc["tx"] \in TxPC
  /\ \A t \in Producers : pc[t] \in ProducerPC
  /\ dcd \in BOOLEAN
  /\ n \in 0..(WaitLimit + 1)
  /\ ok \in BOOLEAN
  /\ audio_out_dev_locked \in BOOLEAN
  /\ pp \in Packets \cup {NULL}
  /\ numframe \in 0..MaxFrames
  /\ seize_confirms \in Nat
  /\ process \in {"running", "stopping", "closed", "exited"}
  /\ overtaken \in [Packets -> Nat]

(* Whatever the unlocked peeks saw is still there when the locked removal  *)
(* comes: tx_thread never goes round with no packet (and the audio device  *)
(* locked for good), and tx_frames never sends or deletes a null pointer.  *)
PeekedFrameIsThere == pc["tx"] \in {"removed", "tx_frames", "send"} => pp # NULL

(* Every live packet is in one place of one queue or in the transmit       *)
(* thread's hand, and nothing freed is in any: packets are neither leaked  *)
(* nor deleted twice nor used after ax25_delete.                           *)
OneOwner ==
  /\ \A p \in Packets :
       packet[p] = "live" <=> pp = p \/ \E prio \in Prio : p \in InQueue(prio)
  /\ InQueue(TQ_PRIO_0_HI) \cap InQueue(TQ_PRIO_1_LO) = {}
  /\ \A prio \in Prio :
       /\ pp \notin InQueue(prio)
       /\ \A i, j \in 1..Len(queue[prio]) : queue[prio][i] = queue[prio][j] => i = j

(* The audio output is locked exactly from the try_lock that won it to the *)
(* end of the transmission: it is free whenever the thread asks for it, so *)
(* the try_lock loop never spins, and the thread never sleeps with it.     *)
AudioHeldToSend ==
  audio_out_dev_locked <=> \/ pc["tx"] \in SendPC
                           \/ pc["tx"] \in RemovePC /\ ok

(* However the unlocked peeks interleave with appends, at most one low-    *)
(* priority packet is taken while a high-priority packet waits.            *)
AtMostOneOvertakes == \A p \in Packets : overtaken[p] <= 1

(* The thread implements the abstract service: a transmission is the time  *)
(* spent in tx_frames after its first step.                                *)
Keyed == pc["tx"] \in SendPC \ {"tx_frames"}

Service == INSTANCE TransmitService WITH
  pending <- queue, fate <- packet, hand <- pp, keyed <- Keyed,
  carried <- IF Keyed THEN numframe ELSE 0, confirms <- seize_confirms

ImplementsService == Service!Spec

Queued(p) == \E prio \in Prio : p \in InQueue(prio)

(* On a channel that in the end stays clear or stays busy every queued     *)
(* packet leaves the queue, unless the thread is asleep.                   *)
QueuedLeavesOrThreadSleeps ==
  (<>[]dcd \/ <>[]~dcd) =>
     \A p \in Packets : Queued(p) ~> (~Queued(p) \/ pc["tx"] = "asleep")

(* An append that comes after the thread fell asleep wakes it.             *)
LaterAppendWakes ==
  \A t \in Producers : (pc["tx"] = "asleep" /\ pc[t] = "appended") ~> pc["tx"] # "asleep"

(* transmit_queue.c:29, "Notify transmit thread when queue not empty":     *)
(* whenever something is queued the thread is woken and takes it.          *)
NotifiedWhenNotEmpty ==
  (<>[]dcd \/ <>[]~dcd) => \A p \in Packets : Queued(p) ~> ~Queued(p)

(* ipnode.c:58, "kill tx/rx threads": no thread hands samples to audio_put *)
(* after cleanup has closed the audio device and freed its buffers.        *)
NoAudioAfterClose == process = "closed" => pc["tx"] \notin AudioPC
=============================================================================
