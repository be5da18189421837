---------------------------- MODULE ReceiveProofs ----------------------------
(***************************************************************************)
(* Proofs about MainLoop, for any set of item addresses: the linked list   *)
(* is a queue, nothing leaks, the main thread never sleeps on a queue that *)
(* is not empty, and the loop implements ReceiveService.                   *)
(***************************************************************************)
EXTENDS MainLoop, FiniteSetTheorems, TLAPS

(* An append puts one element at the end and keeps the rest.               *)
LEMMA AppendFacts ==
  ASSUME NEW S, NEW q \in Seq(S), NEW e \in S
  PROVE  /\ Append(q, e) \in Seq(S)
         /\ Append(q, e) # << >>
         /\ Len(Append(q, e)) = Len(q) + 1
         /\ \A i \in 1..Len(q) : Append(q, e)[i] = q[i]
         /\ Append(q, e)[Len(q) + 1] = e
  OBVIOUS

(* A removal takes the first element and moves the others up by one.       *)
LEMMA TailFacts ==
  ASSUME NEW S, NEW q \in Seq(S), q # << >>
  PROVE  /\ Head(q) \in S
         /\ Head(q) = q[1]
         /\ Tail(q) \in Seq(S)
         /\ Len(q) \in Nat \ {0}
         /\ Len(Tail(q)) = Len(q) - 1
         /\ \A i \in 1..(Len(q) - 1) : Tail(q)[i] = q[i + 1]
  OBVIOUS

-----------------------------------------------------------------------------
(* The inductive invariant.                                                *)

(* Where the main thread has an item in hand, and where it has not.        *)
HandInv == pc \in {"dispatch", "indication", "delete"} <=> pitem # NULL

IInv ==
  /\ TypeOK
  /\ ListWellFormed
  /\ NothingLeaks
  /\ SleepsOnlyOnEmpty
  /\ HandInv

(* The items in the queue.                                                 *)
Waiting == {contents[k] : k \in 1..Len(contents)}

-----------------------------------------------------------------------------
(* Distinct items from Items: no more of them than there are.              *)
LEMMA LengthBound ==
  ASSUME NEW q \in Seq(Items),
         \A j, k \in 1..Len(q) : q[j] = q[k] => j = k
  PROVE  Len(q) \in 0..Cardinality(Items)
<1>1. Len(q) \in Nat /\ DOMAIN q = 1..Len(q) /\ q \in [1..Len(q) -> Items]
  OBVIOUS
<1>2. q \in Injection(1..Len(q), Items)
  BY <1>1 DEF Injection, IsInjective
<1>3. Cardinality(1..Len(q)) <= Cardinality(Items)
  BY <1>2, FS_Injection, ItemsAssumption, Zenon
<1>4. Cardinality(1..Len(q)) = Len(q)
  BY <1>1, FS_Interval
<1>5. Cardinality(Items) \in Nat
  BY FS_CardinalityType, ItemsAssumption
<1>6. QED
  BY <1>1, <1>3, <1>4, <1>5

(* The empty list, nothing allocated, the main thread awake.               *)
LEMMA InitIInv == Init => IInv
<1> SUFFICES ASSUME Init PROVE IInv
  OBVIOUS
<1> USE DEF Init, rx_queue_init
<1>1. Cardinality(Items) \in Nat
  BY FS_CardinalityType, ItemsAssumption
<1>2. TypeOK
  <2>1. queue_length \in 0..Cardinality(Items)
    BY <1>1
  <2>2. nextp \in [Items -> Items \cup {NULL}] /\ type \in [Items -> ItemType]
    BY DEF ItemType
  <2>3. contents \in Seq(Items)
    OBVIOUS
  <2>4. QED
    BY <2>1, <2>2, <2>3 DEF TypeOK, MainPC
<1>3. ListWellFormed /\ NothingLeaks /\ SleepsOnlyOnEmpty /\ HandInv
  BY DEF ListWellFormed, NothingLeaks, SleepsOnlyOnEmpty, HandInv
<1>4. QED
  BY <1>2, <1>3 DEF IInv

-----------------------------------------------------------------------------
(* The append.                                                             *)

(* One link more, and the list still spells the queue.                     *)
LEMMA LinkKeepsList ==
  ASSUME IInv, NEW pnew \in Items, pnew \notin allocated, Link(pnew)
  PROVE  /\ ListWellFormed'
         /\ contents' = Append(contents, pnew)
         /\ contents' \in Seq(Items)
         /\ queue_head' \in Items
         /\ queue_tail' \in Items
         /\ nextp' \in [Items -> Items \cup {NULL}]
         /\ \A j, k \in 1..Len(contents') : contents'[j] = contents'[k] => j = k
<1> DEFINE q == contents
           m == Len(contents)
<1>1. /\ q \in Seq(Items) /\ m \in Nat
      /\ queue_length = m
      /\ nextp \in [Items -> Items \cup {NULL}]
      /\ queue_head \in Items \cup {NULL}
  BY DEF IInv, TypeOK, ListWellFormed
<1>2. /\ contents' = Append(q, pnew)
      /\ Append(q, pnew) \in Seq(Items)
      /\ Append(q, pnew) # << >>
      /\ Len(Append(q, pnew)) = m + 1
      /\ \A i \in 1..m : Append(q, pnew)[i] = q[i]
      /\ Append(q, pnew)[m + 1] = pnew
  BY <1>1, AppendFacts DEF Link
<1>3. \A k \in 1..m : q[k] \in Items /\ q[k] # pnew
  BY <1>1 DEF IInv, NothingLeaks
<1>4. \A j, k \in 1..m : q[j] = q[k] => j = k
  BY DEF IInv, NothingLeaks
<1>5. \A j, k \in 1..Len(contents') : contents'[j] = contents'[k] => j = k
  BY <1>1, <1>2, <1>3, <1>4
<1>6. CASE queue_head = NULL
  <2>1. m = 0
    BY <1>1, <1>3, <1>6, ItemsAssumption DEF IInv, ListWellFormed
  <2>2. /\ queue_tail' = pnew /\ queue_head' = pnew /\ queue_length' = 1
        /\ nextp' = [nextp EXCEPT ![pnew] = NULL]
    BY <1>6 DEF Link
  <2>3. nextp' \in [Items -> Items \cup {NULL}] /\ nextp'[pnew] = NULL
    BY <1>1, <2>2
  <2>4. ListWellFormed'
    BY <1>2, <2>1, <2>2, <2>3 DEF ListWellFormed
  <2>5. QED
    BY <1>2, <1>5, <2>2, <2>3, <2>4
<1>7. CASE queue_head # NULL
  <2>1. /\ m > 0
        /\ queue_head = q[1] /\ queue_tail = q[m]
        /\ \A k \in 1..(m - 1) : nextp[q[k]] = q[k + 1]
    BY <1>1, <1>7 DEF IInv, ListWellFormed
  <2>2. /\ queue_tail' = pnew /\ queue_head' = queue_head
        /\ queue_length' = m + 1
        /\ nextp' = [nextp EXCEPT ![pnew] = NULL, ![queue_tail] = pnew]
    BY <1>1, <1>7 DEF Link
  <2>3. queue_tail \in Items /\ queue_tail # pnew /\ queue_head \in Items
    BY <1>1, <1>3, <2>1
  <2>4. /\ nextp' \in [Items -> Items \cup {NULL}]
        /\ nextp'[pnew] = NULL
        /\ nextp'[q[m]] = pnew
        /\ \A i \in Items : i # pnew /\ i # q[m] => nextp'[i] = nextp[i]
    BY <1>1, <2>1, <2>2, <2>3
  <2>5. ASSUME NEW k \in 1..m
        PROVE  nextp'[contents'[k]] = contents'[k + 1]
    <3>1. CASE k = m
      BY <1>2, <2>1, <2>4, <3>1
    <3>2. CASE k \in 1..(m - 1)
      <4>1. q[k] # q[m] /\ q[k] # pnew /\ q[k] \in Items
        BY <1>1, <1>3, <1>4, <3>2
      <4>2. nextp'[q[k]] = q[k + 1]
        BY <2>1, <2>4, <3>2, <4>1
      <4>3. contents'[k] = q[k] /\ contents'[k + 1] = q[k + 1]
        BY <1>1, <1>2, <3>2
      <4>4. QED
        BY <4>2, <4>3
    <3>3. QED
      BY <1>1, <3>1, <3>2
  <2>6. ListWellFormed'
    <3>1. contents'[1] = q[1] /\ contents'[Len(contents')] = pnew
      BY <1>1, <1>2, <2>1
    <3>2. \A k \in 1..(Len(contents') - 1) : nextp'[contents'[k]] = contents'[k + 1]
      BY <1>1, <1>2, <2>5
    <3>3. QED
      BY <1>2, <2>1, <2>2, <2>4, <3>1, <3>2 DEF ListWellFormed
  <2>7. QED
    BY <1>2, <1>5, <2>2, <2>3, <2>4, <2>6
<1>8. QED
  BY <1>6, <1>7

(* A producer's whole step.                                                *)
LEMMA ProduceKeeps == IInv /\ ProduceStep => IInv'
<1> SUFFICES ASSUME IInv, ProduceStep PROVE IInv'
  OBVIOUS
<1>1. PICK pnew \in Items, kind \in ItemType :
        NewItem(pnew, kind) /\ append_to_rx_queue(pnew)
  BY DEF ProduceStep, Produce, rx_queue_rec_frame, rx_queue_channel_busy,
         rx_queue_seize_confirm, ItemType
<1>2. /\ pnew \notin allocated
      /\ allocated' = allocated \cup {pnew}
      /\ type' = [type EXCEPT ![pnew] = kind]
      /\ Link(pnew)
      /\ wake_up_cond' = (wake_up_cond /\ ~recv_thread_is_waiting)
      /\ UNCHANGED <<recv_thread_is_waiting, timed_out_result>>
      /\ UNCHANGED <<pc, timeout, timers, pitem>>
  BY <1>1 DEF NewItem, append_to_rx_queue, ProduceStep
<1>3. /\ ListWellFormed'
      /\ contents' = Append(contents, pnew)
      /\ contents' \in Seq(Items)
      /\ queue_head' \in Items
      /\ queue_tail' \in Items
      /\ nextp' \in [Items -> Items \cup {NULL}]
      /\ \A j, k \in 1..Len(contents') : contents'[j] = contents'[k] => j = k
  BY <1>2, LinkKeepsList
<1>4. TypeOK'
  <2>1. queue_length' \in 0..Cardinality(Items)
    BY <1>3, LengthBound DEF ListWellFormed
  <2>2. type' \in [Items -> ItemType] /\ allocated' \subseteq Items
    BY <1>1, <1>2 DEF IInv, TypeOK
  <2>3. wake_up_cond' \in BOOLEAN
    BY <1>2
  <2>4. QED
    BY <1>2, <1>3, <2>1, <2>2, <2>3 DEF IInv, TypeOK
<1>5. NothingLeaks'
  <2>1. /\ contents \in Seq(Items) /\ Len(contents) \in Nat
        /\ Len(contents') = Len(contents) + 1
        /\ \A i \in 1..Len(contents) : contents'[i] = contents[i]
        /\ contents'[Len(contents) + 1] = pnew
    BY <1>3, AppendFacts DEF IInv, TypeOK
  <2>2. {contents'[k] : k \in 1..Len(contents')} = Waiting \cup {pnew}
    BY <2>1 DEF Waiting
  <2>3. pnew # pitem
    BY <1>2, ItemsAssumption DEF IInv, NothingLeaks
  <2>4. \A k \in 1..Len(contents') : contents'[k] # pitem'
    BY <1>2, <2>1, <2>3 DEF IInv, NothingLeaks
  <2>5. QED
    BY <1>2, <1>3, <2>2, <2>4 DEF IInv, NothingLeaks, Waiting
<1>6. SleepsOnlyOnEmpty' /\ HandInv'
  BY <1>2 DEF IInv, SleepsOnlyOnEmpty, HandInv
<1>7. QED
  BY <1>3, <1>4, <1>5, <1>6 DEF IInv

-----------------------------------------------------------------------------
(* The removal.                                                            *)

(* On a queue that is not empty: one link less, and the item in hand is    *)
(* the oldest one.                                                         *)
LEMMA RemoveTakesHead ==
  ASSUME IInv, pitem = NULL, queue_head # NULL, rx_queue_remove(pitem)
  PROVE  /\ contents # << >>
         /\ pitem' = Head(contents)
         /\ pitem' \in Items
         /\ contents' = Tail(contents)
         /\ contents' \in Seq(Items)
         /\ ListWellFormed'
         /\ queue_head' \in Items \cup {NULL}
         /\ queue_tail' \in Items \cup {NULL}
         /\ nextp' = nextp
         /\ \A k \in 1..Len(contents') : contents'[k] # pitem'
         /\ \A j, k \in 1..Len(contents') : contents'[j] = contents'[k] => j = k
         /\ {contents'[k] : k \in 1..Len(contents')} \cup {pitem'} = Waiting
<1> DEFINE q == contents
           m == Len(contents)
<1>1. /\ q \in Seq(Items) /\ queue_length = m
      /\ nextp \in [Items -> Items \cup {NULL}]
      /\ queue_head \in Items \cup {NULL} /\ queue_tail \in Items \cup {NULL}
  BY DEF IInv, TypeOK, ListWellFormed
<1>2. /\ q # << >> /\ queue_head = q[1] /\ queue_tail = q[m]
      /\ nextp[q[m]] = NULL
      /\ \A k \in 1..(m - 1) : nextp[q[k]] = q[k + 1]
  BY DEF IInv, ListWellFormed
<1>3. /\ Head(q) \in Items /\ Head(q) = q[1]
      /\ Tail(q) \in Seq(Items)
      /\ m \in Nat \ {0}
      /\ Len(Tail(q)) = m - 1
      /\ \A i \in 1..(m - 1) : Tail(q)[i] = q[i + 1]
  BY <1>1, <1>2, TailFacts
<1>4. \A j, k \in 1..m : q[j] = q[k] => j = k
  BY DEF IInv, NothingLeaks
<1>5. /\ pitem' = queue_head
      /\ queue_head' = nextp[queue_head]
      /\ queue_length' = queue_length - 1
      /\ queue_tail' = IF nextp[queue_head] = NULL THEN NULL ELSE queue_tail
      /\ contents' = Tail(q)
      /\ nextp' = nextp
  BY DEF rx_queue_remove
<1>6. \A k \in 1..m : q[k] \in Items /\ q[k] # NULL
  BY <1>1, ItemsAssumption
<1>7. ListWellFormed'
  <2>1. \A k \in 1..(Len(contents') - 1) : nextp'[contents'[k]] = contents'[k + 1]
    <3> SUFFICES ASSUME NEW k \in 1..(m - 2)
                 PROVE  nextp[Tail(q)[k]] = Tail(q)[k + 1]
      BY <1>3, <1>5
    <3>1. Tail(q)[k] = q[k + 1] /\ Tail(q)[k + 1] = q[k + 2]
      BY <1>3
    <3>2. nextp[q[k + 1]] = q[k + 2]
      BY <1>2, <1>3
    <3>3. QED
      BY <3>1, <3>2
  <2>2. CASE m = 1
    <3>1. contents' = << >> /\ queue_length' = 0
      BY <1>1, <1>3, <1>5, <2>2
    <3>2. queue_head' = NULL /\ queue_tail' = NULL
      BY <1>2, <1>5, <2>2
    <3>3. QED
      BY <3>1, <3>2 DEF ListWellFormed
  <2>3. CASE m > 1
    <3>1. contents'[1] = q[2] /\ contents'[Len(contents')] = q[m]
      BY <1>3, <1>5, <2>3
    <3>2. nextp[q[1]] = q[2] /\ q[2] # NULL
      BY <1>2, <1>3, <1>6, <2>3
    <3>3. queue_head' = q[2] /\ queue_tail' = q[m]
      BY <1>2, <1>5, <3>2
    <3>4. contents' # << >> /\ queue_length' = Len(contents')
      <4>1. Len(contents') = m - 1 /\ Len(contents') > 0
        BY <1>3, <1>5, <2>3
      <4>2. contents' # << >>
        BY <4>1
      <4>3. QED
        BY <1>1, <1>5, <4>1, <4>2
    <3>5. QED
      BY <1>2, <1>5, <2>1, <3>1, <3>3, <3>4 DEF ListWellFormed
  <2>4. QED
    BY <1>3, <2>2, <2>3
<1>8. \A k \in 1..Len(contents') : contents'[k] # pitem'
  BY <1>2, <1>3, <1>4, <1>5
<1>9. \A j, k \in 1..Len(contents') : contents'[j] = contents'[k] => j = k
  BY <1>3, <1>4, <1>5
<1>10. {contents'[k] : k \in 1..Len(contents')} \cup {pitem'} = Waiting
  <2>1. ASSUME NEW i \in Waiting
        PROVE  i \in {contents'[k] : k \in 1..Len(contents')} \cup {pitem'}
    <3>1. PICK k \in 1..m : i = q[k]
      BY DEF Waiting
    <3>2. CASE k = 1
      BY <1>2, <1>5, <3>1, <3>2
    <3>3. CASE k > 1
      <4>1. k - 1 \in 1..Len(contents') /\ contents'[k - 1] = q[k]
        BY <1>3, <1>5, <3>3
      <4>2. QED
        BY <3>1, <4>1
    <3>4. QED
      BY <1>3, <3>2, <3>3
  <2>2. ASSUME NEW i \in {contents'[k] : k \in 1..Len(contents')} \cup {pitem'}
        PROVE  i \in Waiting
    <3>1. CASE i = pitem'
      BY <1>2, <1>3, <1>5, <3>1 DEF Waiting
    <3>2. CASE i \in {contents'[k] : k \in 1..Len(contents')}
      <4>1. PICK k \in 1..Len(contents') : i = contents'[k]
        BY <3>2
      <4>2. k + 1 \in 1..m /\ i = q[k + 1]
        BY <1>3, <1>5, <4>1
      <4>3. QED
        BY <4>2 DEF Waiting
    <3>3. QED
      BY <3>1, <3>2
  <2>3. QED
    BY <2>1, <2>2
<1>11. queue_head' \in Items \cup {NULL} /\ queue_tail' \in Items \cup {NULL}
  BY <1>1, <1>2, <1>3, <1>5
<1>12. QED
  BY <1>2, <1>3, <1>5, <1>7, <1>8, <1>9, <1>10, <1>11

(* The main thread takes the oldest item.                                  *)
LEMMA RemoveKeeps == IInv /\ Remove => IInv'
<1> SUFFICES ASSUME IInv, Remove PROVE IInv'
  OBVIOUS
<1>1. /\ rx_queue_remove(pitem)
      /\ pc = "remove"
      /\ pc' = IF pitem' = NULL THEN "timer" ELSE "dispatch"
      /\ UNCHANGED <<type, allocated, waitVars, timeout, timers>>
  BY DEF Remove, Transition
<1>2. pitem = NULL /\ ~wake_up_cond
  BY <1>1 DEF IInv, HandInv, SleepsOnlyOnEmpty
<1>3. CASE queue_head = NULL
  <2>1. pitem' = NULL /\ UNCHANGED listVars
    BY <1>3, <1>1 DEF rx_queue_remove
  <2>2. TypeOK'
    BY <1>1, <2>1 DEF IInv, TypeOK, MainPC, listVars, waitVars
  <2>3. ListWellFormed' /\ NothingLeaks'
    BY <1>1, <1>2, <2>1 DEF IInv, ListWellFormed, NothingLeaks, listVars
  <2>4. SleepsOnlyOnEmpty' /\ HandInv'
    BY <1>1, <1>2, <2>1 DEF SleepsOnlyOnEmpty, HandInv, waitVars
  <2>5. QED
    BY <2>2, <2>3, <2>4 DEF IInv
<1>4. CASE queue_head # NULL
  <2>1. /\ pitem' \in Items
        /\ contents' \in Seq(Items)
        /\ ListWellFormed'
        /\ queue_head' \in Items \cup {NULL}
        /\ queue_tail' \in Items \cup {NULL}
        /\ nextp' = nextp
        /\ \A k \in 1..Len(contents') : contents'[k] # pitem'
        /\ \A j, k \in 1..Len(contents') : contents'[j] = contents'[k] => j = k
        /\ {contents'[k] : k \in 1..Len(contents')} \cup {pitem'} = Waiting
    BY <1>1, <1>2, <1>4, RemoveTakesHead
  <2>2. pitem' # NULL
    BY <2>1, ItemsAssumption
  <2>3. TypeOK'
    <3>1. queue_length' \in 0..Cardinality(Items)
      BY <2>1, LengthBound DEF ListWellFormed
    <3>2. QED
      BY <1>1, <2>1, <3>1 DEF IInv, TypeOK, MainPC, waitVars
  <2>4. NothingLeaks'
    BY <1>1, <1>2, <2>1, <2>2 DEF IInv, NothingLeaks, Waiting
  <2>5. SleepsOnlyOnEmpty' /\ HandInv'
    BY <1>1, <1>2, <2>2 DEF SleepsOnlyOnEmpty, HandInv, waitVars
  <2>6. QED
    BY <2>1, <2>3, <2>4, <2>5 DEF IInv
<1>5. QED
  BY <1>3, <1>4

-----------------------------------------------------------------------------
(* The steps that leave the list and the heap alone.                       *)

Quiet ==
  \/ ax25_link_get_next_timer_expiry \/ Wait \/ WakeUp \/ dl_timer_expiry
  \/ app_process_rec_packet \/ lm_data_indication \/ LinkEvent
  \/ WaitTimesOut \/ SpuriousStep \/ TimerPasses

(* A list nobody touches stays as it is.                                   *)
LEMMA QuietKeepsList ==
  ASSUME Quiet
  PROVE  UNCHANGED <<listVars, type, allocated, pitem>>
  BY DEF Quiet, ax25_link_get_next_timer_expiry, Wait, WakeUp, dl_timer_expiry,
         app_process_rec_packet, lm_data_indication, LinkEvent, WaitTimesOut,
         SpuriousStep, TimerPasses, queueVars

(* The steps of the main thread that touch neither list nor heap.          *)
LEMMA QuietKeeps == IInv /\ Quiet => IInv'
<1> SUFFICES ASSUME IInv, Quiet PROVE IInv'
  OBVIOUS
<1>1. UNCHANGED <<listVars, type, allocated, pitem>>
  BY QuietKeepsList
<1>2. ListWellFormed' /\ NothingLeaks'
  BY <1>1 DEF IInv, ListWellFormed, NothingLeaks, listVars
<1>3. TypeOK'
  <2> USE DEF Quiet, ax25_link_get_next_timer_expiry, Wait, WakeUp,
       dl_timer_expiry, app_process_rec_packet, lm_data_indication, LinkEvent,
       WaitTimesOut, SpuriousStep, TimerPasses
  <2>1. /\ recv_thread_is_waiting' \in BOOLEAN
        /\ wake_up_cond' \in BOOLEAN
        /\ timed_out_result' \in BOOLEAN
    BY DEF IInv, TypeOK, queueVars, waitVars, Block, PassBy, Return, TimeOut,
       SpuriousWakeup
  <2>2. pc' \in MainPC
    BY DEF IInv, TypeOK, MainPC, Transition
  <2>3. timeout' \in BOOLEAN
    BY DEF IInv, TypeOK
  <2>4. timers' \in {"stopped", "running", "due"}
    BY DEF IInv, TypeOK, HandlerSetsTimers
  <2>5. QED
    BY <1>1, <2>1, <2>2, <2>3, <2>4 DEF IInv, TypeOK, listVars
<1>4. SleepsOnlyOnEmpty' /\ HandInv'
  BY <1>1 DEF IInv, TypeOK, SleepsOnlyOnEmpty, HandInv, listVars, waitVars,
     queueVars, Transition, Quiet, ax25_link_get_next_timer_expiry, Wait, Block,
     PassBy, WakeUp, Return, dl_timer_expiry, app_process_rec_packet,
     lm_data_indication, LinkEvent, WaitTimesOut, TimeOut, SpuriousStep,
     SpuriousWakeup, TimerPasses
<1>5. QED
  BY <1>2, <1>3, <1>4 DEF IInv

(* The item in hand is freed and forgotten.                                *)
LEMMA DeleteKeeps == IInv /\ Delete => IInv'
<1> SUFFICES ASSUME IInv, Delete PROVE IInv'
  OBVIOUS
<1>1. /\ pc = "delete" /\ pc' = "timer" /\ pitem' = NULL
      /\ allocated' = allocated \ {pitem}
      /\ UNCHANGED <<listVars, type, waitVars, timeout, timers>>
  BY DEF Delete, rx_queue_delete, Transition
<1>2. TypeOK' /\ ListWellFormed'
  BY <1>1 DEF IInv, TypeOK, ListWellFormed, MainPC, listVars, waitVars
<1>3. NothingLeaks'
  <2>1. contents' = contents /\ contents \in Seq(Items)
    BY <1>1 DEF listVars, IInv, TypeOK
  <2>2. \A k \in 1..Len(contents) : contents[k] # NULL
    BY <2>1, ItemsAssumption
  <2>3. pitem \notin Waiting /\ allocated = Waiting \cup {pitem}
    BY <1>1 DEF IInv, NothingLeaks, HandInv, Waiting
  <2>4. allocated' = Waiting
    BY <1>1, <2>3
  <2>5. QED
    BY <1>1, <2>1, <2>2, <2>4 DEF IInv, NothingLeaks, Waiting
<1>4. SleepsOnlyOnEmpty' /\ HandInv'
  BY <1>1 DEF IInv, SleepsOnlyOnEmpty, HandInv, listVars, waitVars
<1>5. QED
  BY <1>2, <1>3, <1>4 DEF IInv

(* Nothing happens.                                                        *)
LEMMA StutterKeeps == IInv /\ UNCHANGED vars => IInv'
  BY DEF IInv, TypeOK, ListWellFormed, NothingLeaks, SleepsOnlyOnEmpty, HandInv,
         vars, queueVars, listVars, waitVars

(* Every step keeps the invariant.                                         *)
LEMMA NextKeeps == IInv /\ [Next]_vars => IInv'
<1>1. [Next]_vars => Quiet \/ Remove \/ Delete \/ ProduceStep \/ UNCHANGED vars
  BY DEF Next, rx_process, Quiet
<1>2. QED
  BY <1>1, QuietKeeps, RemoveKeeps, DeleteKeeps, ProduceKeeps, StutterKeeps

-----------------------------------------------------------------------------
(* The theorems.                                                           *)

(* IInv holds in every reachable state.                                    *)
THEOREM Invariance == Spec => []IInv
  BY InitIInv, NextKeeps, PTL DEF Spec

(* The variables keep their types, and queue_length the bound the heap     *)
(* sets it.                                                                *)
THEOREM TypeCorrect == Spec => []TypeOK
<1>1. IInv => TypeOK
  BY DEF IInv
<1>2. QED
  BY <1>1, Invariance, PTL

(* The pointers of receive_queue.c always spell the queue.                 *)
THEOREM ListCorrect == Spec => []ListWellFormed
<1>1. IInv => ListWellFormed
  BY DEF IInv
<1>2. QED
  BY <1>1, Invariance, PTL

(* No item leaks, is freed twice, or is both queued and in hand.           *)
THEOREM HeapCorrect == Spec => []NothingLeaks
<1>1. IInv => NothingLeaks
  BY DEF IInv
<1>2. QED
  BY <1>1, Invariance, PTL

(* The main thread never sleeps on a queue that is not empty.              *)
THEOREM NoLostWakeup == Spec => []SleepsOnlyOnEmpty
<1>1. IInv => SleepsOnlyOnEmpty
  BY DEF IInv
<1>2. QED
  BY <1>1, Invariance, PTL

-----------------------------------------------------------------------------
(* The refinement.                                                         *)

(* Initial states map to initial states.                                   *)
LEMMA RefineInit == Init => Service!Init
  BY DEF Init, rx_queue_init, Service!Init

(* An append is an arrival.                                                *)
LEMMA RefineProduce == IInv /\ ProduceStep => Service!Arrive
<1> SUFFICES ASSUME IInv, ProduceStep PROVE Service!Arrive
  OBVIOUS
<1>1. PICK pnew \in Items :
        /\ pnew \notin allocated
        /\ contents' = Append(contents, pnew)
        /\ UNCHANGED <<pc, pitem>>
  BY DEF ProduceStep, Produce, rx_queue_rec_frame, rx_queue_channel_busy,
         rx_queue_seize_confirm, NewItem, append_to_rx_queue, Link
<1>2. pnew # pitem
  BY <1>1, ItemsAssumption DEF IInv, NothingLeaks
<1>3. \A k \in 1..Len(contents) : contents[k] # pnew
  BY <1>1 DEF IInv, NothingLeaks
<1>4. QED
  BY <1>1, <1>2, <1>3 DEF Service!Arrive

(* A removal takes the oldest item or, finding none, is not seen.          *)
LEMMA RefineRemove ==
  IInv /\ Remove => Service!Take \/ UNCHANGED Service!vars
<1> SUFFICES ASSUME IInv, Remove PROVE Service!Take \/ UNCHANGED Service!vars
  OBVIOUS
<1>1. /\ rx_queue_remove(pitem)
      /\ pc = "remove"
      /\ pc' = IF pitem' = NULL THEN "timer" ELSE "dispatch"
  BY DEF Remove, Transition
<1>2. pitem = NULL
  BY <1>1 DEF IInv, HandInv
<1>3. CASE queue_head = NULL
  BY <1>1, <1>2, <1>3 DEF rx_queue_remove, listVars, Service!vars
<1>4. CASE queue_head # NULL
  <2>1. /\ contents # << >>
        /\ pitem' = Head(contents)
        /\ contents' = Tail(contents)
    BY <1>1, <1>2, <1>4, RemoveTakesHead
  <2>2. QED
    BY <1>1, <1>2, <2>1 DEF Service!Take
<1>5. QED
  BY <1>3, <1>4

(* The dispatch of an item, step by step.                                  *)
LEMMA RefineHandle ==
  ASSUME IInv
  PROVE  /\ app_process_rec_packet => Service!Offer
         /\ lm_data_indication \/ LinkEvent => Service!Indicate
         /\ Delete => Service!Finish
<1>1. app_process_rec_packet => Service!Offer
  BY DEF IInv, HandInv, app_process_rec_packet, Transition, queueVars, listVars,
         Service!Offer
<1>2. lm_data_indication \/ LinkEvent => Service!Indicate
  BY DEF IInv, HandInv, lm_data_indication, LinkEvent, Transition, queueVars,
         listVars, Service!Indicate
<1>3. Delete => Service!Finish
  BY DEF IInv, HandInv, Delete, Transition, listVars, Service!Finish
<1>4. QED
  BY <1>1, <1>2, <1>3

(* Waiting and waking are not seen; the timer handlers are, and run with   *)
(* no item in hand.                                                        *)
LEMMA RefineWaiting ==
  ASSUME IInv, \/ ax25_link_get_next_timer_expiry \/ Wait \/ WakeUp \/ dl_timer_expiry
               \/ WaitTimesOut \/ SpuriousStep \/ TimerPasses
  PROVE  Service!Expire \/ UNCHANGED Service!vars
<1>1. ASSUME WakeUp \/ dl_timer_expiry
      PROVE  Service!Expire \/ UNCHANGED Service!vars
  BY <1>1 DEF IInv, HandInv, WakeUp, dl_timer_expiry, Transition, queueVars,
     listVars, Service!Expire, Service!vars
<1>2. ASSUME ax25_link_get_next_timer_expiry \/ Wait
      PROVE  UNCHANGED Service!vars
  BY <1>2 DEF ax25_link_get_next_timer_expiry, Wait, Transition, queueVars,
     listVars, Service!vars
<1>3. ASSUME WaitTimesOut \/ SpuriousStep \/ TimerPasses
      PROVE  UNCHANGED Service!vars
  BY <1>3 DEF WaitTimesOut, SpuriousStep, TimerPasses, queueVars, listVars,
     Service!vars
<1>4. QED
  BY <1>1, <1>2, <1>3

(* Every step of the loop is a step of the service or a stutter.           *)
LEMMA RefineNext == IInv /\ [Next]_vars => [Service!Next]_(Service!vars)
<1> SUFFICES ASSUME IInv, [Next]_vars PROVE [Service!Next]_(Service!vars)
  OBVIOUS
<1>1. CASE ProduceStep
  BY <1>1, RefineProduce DEF Service!Next
<1>2. CASE Remove
  BY <1>2, RefineRemove DEF Service!Next
<1>3. CASE app_process_rec_packet \/ lm_data_indication \/ LinkEvent \/ Delete
  BY <1>3, RefineHandle DEF Service!Next
<1>4. CASE \/ ax25_link_get_next_timer_expiry \/ Wait \/ WakeUp \/ dl_timer_expiry
           \/ WaitTimesOut \/ SpuriousStep \/ TimerPasses
  BY <1>4, RefineWaiting DEF Service!Next
<1>5. CASE UNCHANGED vars
  BY <1>5 DEF vars, queueVars, listVars, Service!vars
<1>6. QED
  BY <1>1, <1>2, <1>3, <1>4, <1>5 DEF Next, rx_process

(* rx_process over receive_queue.c implements the abstract service, for    *)
(* any number of items.                                                    *)
THEOREM Refinement == Spec => ImplementsService
<1>1. Init /\ [][Next]_vars /\ []IInv => Service!Init /\ [][Service!Next]_(Service!vars)
  BY RefineInit, RefineNext, PTL
<1>2. QED
  BY <1>1, Invariance, PTL DEF Spec, ImplementsService, Service!Spec
=============================================================================
