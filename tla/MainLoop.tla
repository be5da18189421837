------------------------------- MODULE MainLoop -------------------------------
(***************************************************************************)
(* rx_process of ipnode.c, the main thread's loop over the receive queue:  *)
(* wait for an item or for the data link's next timer, then either run the *)
(* timer handlers or take one item, hand it to the KISS client and the     *)
(* data link, and delete it.                                               *)
(*                                                                         *)
(* The data link is seen from outside: any of its handlers may start or    *)
(* stop timers.  All of them run on this thread.                           *)
(***************************************************************************)
EXTENDS ReceiveQueue

CONSTANT LinkTimers  \* whether the link ever starts a timer

ASSUME LinkTimersAssumption == LinkTimers \in BOOLEAN

VARIABLES
  pc,      \* where the main thread is
  timeout, \* the argument of rx_queue_wait_while_empty is not 0.0
  timers,  \* of the link's running timers, the first: none, ahead or passed
  pitem    \* the item in hand

vars == <<queueVars, pc, timeout, timers, pitem>>

MainPC == {"timer", "wait", "blocked", "expiry", "remove", "dispatch",
           "indication", "delete"}

Transition(from, to) == pc = from /\ pc' = to

(* What a handler of the data link may leave behind.                       *)
HandlerSetsTimers ==
  timers' \in {timers, "stopped"} \cup (IF LinkTimers THEN {"running"} ELSE {})

-----------------------------------------------------------------------------
(* Mutant: T3 is not looked at, nor T1.                                    *)
NoTimerExpiry ==
  /\ Transition("timer", "wait")
  /\ timeout' = FALSE
  /\ UNCHANGED <<queueVars, timers, pitem>>

ax25_link_get_next_timer_expiry ==
  /\ Transition("timer", "wait")
  /\ timeout' = (timers # "stopped")
  /\ UNCHANGED <<queueVars, timers, pitem>>

(* rx_queue_wait_while_empty, to where it blocks or returns.               *)
Wait ==
  /\ \/ Block /\ Transition("wait", "blocked")
     \/ PassBy /\ Transition("wait", "remove")
  /\ UNCHANGED <<listVars, type, allocated, timeout, timers, pitem>>

WaitTimesOut ==
  /\ timeout
  /\ timers = "due"
  /\ TimeOut
  /\ UNCHANGED <<listVars, type, allocated, pc, timeout, timers, pitem>>

(* The way out of the wait; the queue is not looked at again.              *)
WakeUp ==
  /\ Return
  /\ Transition("blocked", IF timed_out_result THEN "expiry" ELSE "remove")
  /\ UNCHANGED <<listVars, type, allocated, timeout, timers, pitem>>

(* Every timer that has passed is cleared, then its handler runs.          *)
dl_timer_expiry ==
  /\ Transition("expiry", "timer")
  /\ timers' \in {"stopped"} \cup (IF LinkTimers THEN {"running"} ELSE {})
  /\ UNCHANGED <<queueVars, timeout, pitem>>

Remove ==
  /\ rx_queue_remove(pitem)
  /\ Transition("remove", IF pitem' = NULL THEN "timer" ELSE "dispatch")
  /\ UNCHANGED <<type, allocated, waitVars, timeout, timers>>

(* A frame goes to the KISS client first ...                               *)
app_process_rec_packet ==
  /\ Transition("dispatch", "indication")
  /\ type[pitem] = "RXQ_REC_FRAME"
  /\ UNCHANGED <<queueVars, timeout, timers, pitem>>

(* ... and to the link next.                                               *)
lm_data_indication ==
  /\ Transition("indication", "delete")
  /\ HandlerSetsTimers
  /\ UNCHANGED <<queueVars, timeout, pitem>>

(* lm_channel_busy pauses and resumes T1, lm_seize_confirm sends.          *)
LinkEvent ==
  /\ Transition("dispatch", "delete")
  /\ type[pitem] \in {"RXQ_CHANNEL_BUSY", "RXQ_SEIZE_CONFIRM"}
  /\ HandlerSetsTimers
  /\ UNCHANGED <<queueVars, timeout, pitem>>

Delete ==
  /\ Transition("delete", "timer")
  /\ rx_queue_delete(pitem)
  /\ pitem' = NULL
  /\ UNCHANGED <<listVars, type, waitVars, timeout, timers>>

-----------------------------------------------------------------------------
(* Time passes the first running timer.                                    *)
TimerPasses ==
  /\ timers = "running"
  /\ timers' = "due"
  /\ UNCHANGED <<queueVars, pc, timeout, pitem>>

Init ==
  /\ rx_queue_init
  /\ pc = "timer"
  /\ timeout = FALSE
  /\ timers = "stopped"
  /\ pitem = NULL

ProduceStep == Produce /\ UNCHANGED <<pc, timeout, timers, pitem>>

SpuriousStep ==
  /\ SpuriousWakeup
  /\ UNCHANGED <<listVars, type, allocated, pc, timeout, timers, pitem>>

rx_process ==
  \/ ax25_link_get_next_timer_expiry
  \/ Wait \/ WakeUp
  \/ dl_timer_expiry
  \/ Remove
  \/ app_process_rec_packet \/ lm_data_indication \/ LinkEvent
  \/ Delete

Next == rx_process \/ WaitTimesOut \/ ProduceStep \/ SpuriousStep \/ TimerPasses

Spec == Init /\ [][Next]_vars

(* The main thread runs when it can; a wait whose time has come ends, and  *)
(* other wakeups do not get in before it for ever.                         *)
FairSpec == Spec /\ WF_vars(rx_process) /\ SF_vars(WaitTimesOut)

-----------------------------------------------------------------------------
(* The values the variables can have; the counter of the list stays within *)
(* the number of live items.                                               *)
TypeOK ==
  /\ queue_head \in Items \cup {NULL}
  /\ queue_tail \in Items \cup {NULL}
  /\ queue_length \in 0..Cardinality(Items)
  /\ nextp \in [Items -> Items \cup {NULL}]
  /\ type \in [Items -> ItemType]
  /\ allocated \subseteq Items
  /\ recv_thread_is_waiting \in BOOLEAN
  /\ wake_up_cond \in BOOLEAN
  /\ timed_out_result \in BOOLEAN
  /\ contents \in Seq(Items)
  /\ pc \in MainPC
  /\ timeout \in BOOLEAN
  /\ timers \in {"stopped", "running", "due"}
  /\ pitem \in Items \cup {NULL}

(* The pointers spell the queue: following nextp from queue_head passes    *)
(* through the items appended and not yet removed, in order, and ends at   *)
(* queue_tail with a null pointer.                                         *)
ListWellFormed ==
  /\ queue_length = Len(contents)
  /\ contents = << >> => queue_head = NULL /\ queue_tail = NULL
  /\ contents # << >> =>
       /\ queue_head = contents[1]
       /\ queue_tail = contents[Len(contents)]
       /\ nextp[queue_tail] = NULL
  /\ \A k \in 1..(Len(contents) - 1) : nextp[contents[k]] = contents[k + 1]

(* Every item that was allocated and not freed is once in the queue or in  *)
(* the main thread's hand, never both: none leaks, none is freed twice or  *)
(* used after rx_queue_delete.                                             *)
NothingLeaks ==
  /\ allocated = {contents[k] : k \in 1..Len(contents)}
                 \cup (IF pitem = NULL THEN {} ELSE {pitem})
  /\ \A k \in 1..Len(contents) : contents[k] # pitem
  /\ \A j, k \in 1..Len(contents) : contents[j] = contents[k] => j = k

(* The main thread is blocked only while the queue is empty and the flag   *)
(* is up: the append that ends the emptiness also ends the wait.  (The     *)
(* transmit queue has no such invariant: see NotifiedWhenNotEmpty.)        *)
SleepsOnlyOnEmpty ==
  wake_up_cond => queue_head = NULL /\ recv_thread_is_waiting /\ pc = "blocked"

(* The loop implements the abstract service.                               *)
Service == INSTANCE ReceiveService WITH
  pending <- contents, current <- pitem, expiring <- pc = "expiry",
  stage <- IF pc = "indication" THEN "offered"
           ELSE IF pc = "delete" THEN "indicated" ELSE "taken"

ImplementsService == Service!Spec

(* Every queued item is taken and deleted, whatever timers run.            *)
EveryItemIsHandled == \A i \in Items : i \in allocated ~> i \notin allocated

(* Once no more items come, a timer that has passed gets its handler.      *)
(* While they keep coming it may have to wait: the loop looks at timers    *)
(* only when it finds the queue empty.                                     *)
TimersServed == <>[](queue_head = NULL) => (timers = "due" ~> timers # "due")
=============================================================================
