----------------------------- MODULE ReceiveQueue -----------------------------
(***************************************************************************)
(* The receive queue of IPNode (receive_queue.c): a singly linked list of  *)
(* heap items that the receive thread (frames), the transmit thread (seize *)
(* confirms) and ptt.c (channel busy) append to and the main thread        *)
(* empties.                                                                *)
(*                                                                         *)
(* One mutex guards the list, the flag recv_thread_is_waiting and the      *)
(* condition variable, and pthread_cond_wait releases it in the step that  *)
(* blocks, so an append, a removal, the test that ends in blocking and the *)
(* return from the wait are each one step.                                 *)
(***************************************************************************)
EXTENDS Naturals, Sequences, FiniteSets

CONSTANTS
  Items,  \* the heap addresses calloc may return (a bound on live items)
  NULL    \* the C null pointer

ASSUME ItemsAssumption == NULL \notin Items /\ IsFiniteSet(Items)

VARIABLES
  queue_head,
  queue_tail,
  queue_length,
  nextp,                  \* nextp[i], type[i]: two fields of the item at i
  type,
  allocated,              \* the items that are not free
  recv_thread_is_waiting,
  wake_up_cond,           \* TRUE: the main thread is blocked on it
  timed_out_result,       \* the result of rx_queue_wait_while_empty
  contents                \* history: appended and not yet removed, in order

listVars == <<queue_head, queue_tail, queue_length, nextp, contents>>
waitVars == <<recv_thread_is_waiting, wake_up_cond, timed_out_result>>
queueVars == <<listVars, type, allocated, waitVars>>

ItemType == {"RXQ_REC_FRAME", "RXQ_CHANNEL_BUSY", "RXQ_SEIZE_CONFIRM"}

rx_queue_init ==
  /\ queue_head = NULL
  /\ queue_tail = NULL
  /\ queue_length = 0
  /\ nextp = [i \in Items |-> NULL]
  /\ type = [i \in Items |-> "RXQ_REC_FRAME"]
  /\ allocated = {}
  /\ recv_thread_is_waiting = FALSE
  /\ wake_up_cond = FALSE
  /\ timed_out_result = FALSE
  /\ contents = << >>

-----------------------------------------------------------------------------
(* The producers.                                                          *)

(* calloc, and the fields the caller fills in.                             *)
NewItem(pnew, kind) ==
  /\ pnew \notin allocated
  /\ allocated' = allocated \cup {pnew}
  /\ type' = [type EXCEPT ![pnew] = kind]

(* The list half of the append.                                            *)
Link(pnew) ==
  /\ queue_tail' = pnew
  /\ IF queue_head = NULL
     THEN /\ queue_head' = pnew
          /\ queue_length' = 1
          /\ nextp' = [nextp EXCEPT ![pnew] = NULL]
     ELSE /\ queue_length' = queue_length + 1
          /\ nextp' = [nextp EXCEPT ![pnew] = NULL, ![queue_tail] = pnew]
          /\ UNCHANGED queue_head
  /\ contents' = Append(contents, pnew)

(* Mutants: the tail stays where it was; the new item goes in front; the   *)
(* signal is forgotten.                                                    *)
AppendKeepsTail(pnew) ==
  /\ IF queue_head = NULL
     THEN Link(pnew)
     ELSE /\ queue_length' = queue_length + 1
          /\ nextp' = [nextp EXCEPT ![pnew] = NULL, ![queue_tail] = pnew]
          /\ contents' = Append(contents, pnew)
          /\ UNCHANGED <<queue_head, queue_tail>>
  /\ wake_up_cond' = (wake_up_cond /\ ~recv_thread_is_waiting)
  /\ UNCHANGED <<recv_thread_is_waiting, timed_out_result>>
AppendInFront(pnew) ==
  /\ queue_head' = pnew
  /\ queue_tail' = IF queue_head = NULL THEN pnew ELSE queue_tail
  /\ queue_length' = queue_length + 1
  /\ nextp' = [nextp EXCEPT ![pnew] = queue_head]
  /\ contents' = Append(contents, pnew)
  /\ wake_up_cond' = (wake_up_cond /\ ~recv_thread_is_waiting)
  /\ UNCHANGED <<recv_thread_is_waiting, timed_out_result>>
AppendSilently(pnew) == Link(pnew) /\ UNCHANGED waitVars

(* Link the item; signal if the main thread says it is waiting.            *)
append_to_rx_queue(pnew) ==
  /\ Link(pnew)
  /\ wake_up_cond' = (wake_up_cond /\ ~recv_thread_is_waiting)
  /\ UNCHANGED <<recv_thread_is_waiting, timed_out_result>>

(* The receive thread has decoded a frame.                                 *)
rx_queue_rec_frame(pnew) ==
  NewItem(pnew, "RXQ_REC_FRAME") /\ append_to_rx_queue(pnew)

(* ptt_set, in a build with DEBUG_TX.                                      *)
rx_queue_channel_busy(pnew) ==
  NewItem(pnew, "RXQ_CHANNEL_BUSY") /\ append_to_rx_queue(pnew)

(* The transmit thread has the channel.                                    *)
rx_queue_seize_confirm(pnew) ==
  NewItem(pnew, "RXQ_SEIZE_CONFIRM") /\ append_to_rx_queue(pnew)

Produce ==
  \E pnew \in Items :
    \/ rx_queue_rec_frame(pnew)
    \/ rx_queue_channel_busy(pnew)
    \/ rx_queue_seize_confirm(pnew)

-----------------------------------------------------------------------------
(* The consumer.                                                           *)

(* Mutant: the wait is not announced.                                      *)
BlockUnannounced ==
  /\ queue_head = NULL
  /\ wake_up_cond' = TRUE
  /\ timed_out_result' = FALSE
  /\ UNCHANGED recv_thread_is_waiting

(* rx_queue_wait_while_empty on an empty queue, up to the wait ...         *)
Block ==
  /\ queue_head = NULL
  /\ recv_thread_is_waiting' = TRUE
  /\ wake_up_cond' = TRUE
  /\ timed_out_result' = FALSE

(* ... and on one that is not empty.                                       *)
PassBy ==
  /\ queue_head # NULL
  /\ timed_out_result' = FALSE
  /\ UNCHANGED <<recv_thread_is_waiting, wake_up_cond>>

(* pthread_cond_timedwait gives up; the mutex is still to be had.          *)
TimeOut ==
  /\ wake_up_cond
  /\ wake_up_cond' = FALSE
  /\ timed_out_result' = TRUE
  /\ UNCHANGED recv_thread_is_waiting

(* POSIX lets the wait end without a signal.                               *)
SpuriousWakeup ==
  /\ wake_up_cond
  /\ wake_up_cond' = FALSE
  /\ UNCHANGED <<recv_thread_is_waiting, timed_out_result>>

(* The wait returns with the mutex.                                        *)
Return ==
  /\ ~wake_up_cond
  /\ recv_thread_is_waiting' = FALSE
  /\ UNCHANGED <<wake_up_cond, timed_out_result>>

(* Mutant: the length is not counted down.                                 *)
RemoveUncounted(v) ==
  IF queue_head = NULL
  THEN v' = NULL /\ UNCHANGED listVars
  ELSE /\ v' = queue_head
       /\ queue_head' = nextp[queue_head]
       /\ queue_tail' = IF nextp[queue_head] = NULL THEN NULL ELSE queue_tail
       /\ contents' = Tail(contents)
       /\ UNCHANGED <<nextp, queue_length>>

(* A locked removal that stores its result in the caller's variable v.     *)
rx_queue_remove(v) ==
  IF queue_head = NULL
  THEN v' = NULL /\ UNCHANGED listVars
  ELSE /\ v' = queue_head
       /\ queue_head' = nextp[queue_head]
       /\ queue_length' = queue_length - 1
       /\ queue_tail' = IF nextp[queue_head] = NULL THEN NULL ELSE queue_tail
       /\ contents' = Tail(contents)
       /\ UNCHANGED nextp

(* Mutant: only items with a packet are freed.                             *)
DeleteFramesOnly(i) ==
  allocated' = IF type[i] = "RXQ_REC_FRAME" THEN allocated \ {i} ELSE allocated

(* The packet, if there is one, and the item.                              *)
rx_queue_delete(i) == allocated' = allocated \ {i}
=============================================================================
