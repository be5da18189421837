---------------------------- MODULE TransmitQueue ----------------------------
(***************************************************************************)
(* The transmit queue of IPNode (transmit_queue.c): two FIFO lists of      *)
(* packets, one per priority, filled by the KISS listener thread and by    *)
(* the main thread (the data link) and emptied by the transmit thread.     *)
(*                                                                         *)
(* transmit_queue_mutex guards each list operation, so an operation under  *)
(* it is one step.  The transmit thread sleeps on wake_up_cond under a     *)
(* second mutex, wake_up_mutex, and says so in xmit_thread_is_waiting; the *)
(* producers read that flag outside both mutexes, which is why an append   *)
(* takes three steps here: append, read the flag, signal.                  *)
(***************************************************************************)
EXTENDS Naturals, Sequences, FiniteSets

CONSTANTS
  Packets,      \* the packet_t objects that may ever be allocated (a bound)
  NullFrames,   \* those lm_seize_request makes: no frame data
  Unencodable,  \* those il2p_send_frame cannot encode (it returns -1)
  NULL          \* the C null pointer

ASSUME PacketsAssumption ==
  /\ NullFrames \subseteq Packets
  /\ Unencodable \subseteq Packets \ NullFrames
  /\ NULL \notin Packets

VARIABLES
  queue,                   \* queue[prio]: the list that starts at queue_head[prio]
  packet,                  \* packet[p]: the state of the heap object p
  xmit_thread_is_waiting,
  wake_up_mutex,           \* its owner: "tx" while it is held across steps, or "free"
  wake_up_cond,            \* TRUE: the transmit thread is blocked in pthread_cond_wait
  pc                       \* where each thread is

wakeVars == <<xmit_thread_is_waiting, wake_up_mutex, wake_up_cond>>
queueVars == <<queue, packet, wakeVars, pc>>

TQ_PRIO_0_HI == 0
TQ_PRIO_1_LO == 1
Prio == {TQ_PRIO_0_HI, TQ_PRIO_1_LO}

Producers == {"kiss", "main"}
Threads == Producers \cup {"tx"}
ProducerPC == {"idle", "appended", "signal"}

(* ax25_delete gives the object one of the states of Freed, which also     *)
(* says why: on the air, a null frame answered with a seize confirm, given *)
(* up after the channel stayed busy, not encodable.                        *)
Freed == {"sent", "confirmed", "dropped", "unencodable"}
PacketState == {"unused", "live"} \cup Freed

Transition(t, from, to) ==
  /\ pc[t] = from
  /\ pc' = [pc EXCEPT ![t] = to]

-----------------------------------------------------------------------------
(* The list operations.                                                    *)

transmit_queue_is_empty == \A prio \in Prio : queue[prio] = << >>

transmit_queue_peek(prio) ==
  IF queue[prio] = << >> THEN NULL ELSE Head(queue[prio])

(* What a locked append does to the list and to the heap.                  *)
AppendPacket(prio, p) ==
  /\ packet[p] = "unused"
  /\ packet' = [packet EXCEPT ![p] = "live"]
  /\ queue' = [queue EXCEPT ![prio] = Append(@, p)]

(* Mutant: the head is not advanced.                                       *)
RemoveKeepsHead(prio, v) == v' = transmit_queue_peek(prio) /\ UNCHANGED queue

(* A locked removal that stores its result in the caller's variable v.     *)
transmit_queue_remove(prio, v) ==
  /\ v' = transmit_queue_peek(prio)
  /\ queue' = IF queue[prio] = << >>
              THEN queue
              ELSE [queue EXCEPT ![prio] = Tail(@)]

-----------------------------------------------------------------------------
(* The producers.                                                          *)

(* kiss_process_msg appends a data frame at low priority.                  *)
transmit_queue_append ==
  /\ \E p \in Packets \ NullFrames : AppendPacket(TQ_PRIO_1_LO, p)
  /\ Transition("kiss", "idle", "appended")
  /\ UNCHANGED wakeVars

(* The data link sends a frame at either priority.                         *)
lm_data_request ==
  /\ \E p \in Packets \ NullFrames, prio \in Prio : AppendPacket(prio, p)
  /\ Transition("main", "idle", "appended")
  /\ UNCHANGED wakeVars

(* The data link asks for the channel: a null frame at low priority.       *)
lm_seize_request ==
  /\ \E p \in NullFrames : AppendPacket(TQ_PRIO_1_LO, p)
  /\ Transition("main", "idle", "appended")
  /\ UNCHANGED wakeVars

(* The unlocked test of xmit_thread_is_waiting that ends each of the three *)
(* operations.                                                             *)
ReadWaitingFlag(t) ==
  /\ Transition(t, "appended", IF xmit_thread_is_waiting THEN "signal" ELSE "idle")
  /\ UNCHANGED <<queue, packet, wakeVars>>

(* Lock wake_up_mutex, signal, unlock.                                     *)
SignalTransmitThread(t) ==
  /\ wake_up_mutex = "free"
  /\ Transition(t, "signal", "idle")
  /\ wake_up_cond' = FALSE
  /\ UNCHANGED <<queue, packet, xmit_thread_is_waiting, wake_up_mutex>>

-----------------------------------------------------------------------------
(* transmit_queue_wait_while_empty, run by the transmit thread.            *)

(* The emptiness test, under transmit_queue_mutex.                         *)
CheckEmpty ==
  /\ Transition("tx", "wait_while_empty",
                IF transmit_queue_is_empty THEN "going_to_wait" ELSE "peek_hi")
  /\ UNCHANGED <<queue, packet, wakeVars>>

(* Mutant: the flag is not raised.                                         *)
WaitUnannounced ==
  /\ wake_up_mutex = "free"
  /\ wake_up_mutex' = "tx"
  /\ Transition("tx", "going_to_wait", "cond_wait")
  /\ UNCHANGED <<queue, packet, xmit_thread_is_waiting, wake_up_cond>>

(* Lock wake_up_mutex and announce the wait.                               *)
AnnounceWait ==
  /\ wake_up_mutex = "free"
  /\ wake_up_mutex' = "tx"
  /\ xmit_thread_is_waiting' = TRUE
  /\ Transition("tx", "going_to_wait", "cond_wait")
  /\ UNCHANGED <<queue, packet, wake_up_cond>>

(* pthread_cond_wait releases the mutex and blocks in one step.            *)
FallAsleep ==
  /\ wake_up_mutex = "tx"
  /\ wake_up_mutex' = "free"
  /\ wake_up_cond' = TRUE
  /\ Transition("tx", "cond_wait", "asleep")
  /\ UNCHANGED <<queue, packet, xmit_thread_is_waiting>>

(* POSIX lets pthread_cond_wait return without a signal.                   *)
SpuriousWakeup ==
  /\ wake_up_cond
  /\ wake_up_cond' = FALSE
  /\ UNCHANGED <<queue, packet, xmit_thread_is_waiting, wake_up_mutex, pc>>

(* pthread_cond_wait returns with the mutex; clear the flag and unlock.    *)
(* The function does not look at the queue again.                          *)
WakeUp ==
  /\ ~wake_up_cond
  /\ wake_up_mutex = "free"
  /\ xmit_thread_is_waiting' = FALSE
  /\ Transition("tx", "asleep", "peek_hi")
  /\ UNCHANGED <<queue, packet, wake_up_mutex, wake_up_cond>>

-----------------------------------------------------------------------------
transmit_queue_init ==
  /\ queue = [prio \in Prio |-> << >>]
  /\ packet = [p \in Packets |-> "unused"]
  /\ xmit_thread_is_waiting = FALSE
  /\ wake_up_mutex = "free"
  /\ wake_up_cond = FALSE
  /\ pc = [t \in Threads |-> IF t = "tx" THEN "wait_while_empty" ELSE "idle"]

ProducerNext ==
  \/ transmit_queue_append
  \/ lm_data_request
  \/ lm_seize_request
  \/ \E t \in Producers : ReadWaitingFlag(t) \/ SignalTransmitThread(t)

WaitNext ==
  \/ CheckEmpty
  \/ AnnounceWait
  \/ FallAsleep
  \/ WakeUp
=============================================================================
