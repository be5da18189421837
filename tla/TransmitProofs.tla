---------------------------- MODULE TransmitProofs ----------------------------
(***************************************************************************)
(* Proofs about TransmitThread, for any set of packets, any limits and any *)
(* interleaving: type correctness, the safety invariants and the           *)
(* refinement of TransmitService.                                          *)
(***************************************************************************)
EXTENDS TransmitThread, TLAPS

(* An append puts one element at the end and keeps the rest.               *)
LEMMA AppendFacts ==
  ASSUME NEW S, NEW q \in Seq(S), NEW e \in S
  PROVE  /\ Append(q, e) \in Seq(S)
         /\ Append(q, e) # << >>
         /\ Len(Append(q, e)) = Len(q) + 1
         /\ \A i \in 1..Len(q) : Append(q, e)[i] = q[i]
         /\ Append(q, e)[Len(q) + 1] = e
  OBVIOUS

(* A removal takes the first element and moves the others up by one.       *)
LEMMA TailFacts ==
  ASSUME NEW S, NEW q \in Seq(S), q # << >>
  PROVE  /\ Head(q) \in S
         /\ Head(q) = q[1]
         /\ Tail(q) \in Seq(S)
         /\ Len(q) \in Nat \ {0}
         /\ Len(Tail(q)) = Len(q) - 1
         /\ \A i \in 1..(Len(q) - 1) : Tail(q)[i] = q[i + 1]
  OBVIOUS

-----------------------------------------------------------------------------
(* The inductive invariant.                                                *)

(* What a peek saw stays, because nobody else removes; where the thread    *)
(* has a packet in hand, and where it has not.                             *)
PeekInv ==
  /\ pc["tx"] \in ChannelPC \cup {"remove_hi"} => \E prio \in Prio : queue[prio] # << >>
  /\ pc["tx"] \in {"remove_lo", "batch_remove_lo"} => queue[TQ_PRIO_1_LO] # << >>
  /\ pc["tx"] = "batch_remove_hi" => queue[TQ_PRIO_0_HI] # << >>
  /\ pc["tx"] \in {"removed", "tx_frames", "send"} <=> pp # NULL

(* The counters are below their limits where they may still go up.         *)
CountInv ==
  /\ pc["tx"] \in ChannelPC => n <= WaitLimit
  /\ pc["tx"] \in {"send", "batch_lo", "batch_remove_hi", "batch_remove_lo"} =>
       numframe < MaxFrames

(* A packet in the high-priority queue between the look at that queue and  *)
(* the low-priority removal arrived after the look.                        *)
OvertakeInv ==
  /\ \A p \in Packets : packet[p] = "unused" => overtaken[p] = 0
  /\ pc["tx"] \in {"remove_lo", "batch_lo", "batch_remove_lo"} =>
       \A p \in InQueue(TQ_PRIO_0_HI) : overtaken[p] = 0
  /\ AtMostOneOvertakes

IInv ==
  /\ TypeOK
  /\ PeekInv
  /\ CountInv
  /\ AudioHeldToSend
  /\ OneOwner
  /\ OvertakeInv

-----------------------------------------------------------------------------
(* Type correctness and control: one case per action.                      *)

ControlInv == TypeOK /\ PeekInv /\ CountInv /\ AudioHeldToSend

(* The queues are empty, nothing is allocated, the thread is about to      *)
(* check.                                                                  *)
LEMMA InitIInv == Init => IInv
<1> SUFFICES ASSUME Init PROVE IInv
  OBVIOUS
<1> USE PacketsAssumption, TransmitAssumption DEF Init, transmit_queue_init
<1>1. \A prio \in Prio : queue[prio] = << >> /\ InQueue(prio) = {}
  BY DEF Prio, InQueue
<1>2. TypeOK
  <2>1. queue \in [Prio -> Seq(Packets)] /\ packet \in [Packets -> PacketState]
    BY DEF PacketState
  <2>2. /\ pc \in [Threads -> ProducerPC \cup TxPC]
        /\ pc["tx"] \in TxPC
        /\ \A t \in Producers : pc[t] \in ProducerPC
    BY DEF Threads, Producers, ProducerPC, TxPC, WaitPC
  <2>3. n \in 0..(WaitLimit + 1) /\ numframe \in 0..MaxFrames
    OBVIOUS
  <2>4. overtaken \in [Packets -> Nat]
    OBVIOUS
  <2>5. QED
    BY <2>1, <2>2, <2>3, <2>4 DEF TypeOK
<1>3. PeekInv /\ CountInv /\ AudioHeldToSend
  BY DEF PeekInv, CountInv, AudioHeldToSend, Threads, Producers, ChannelPC,
         RemovePC, SendPC
<1>4. OneOwner
  BY <1>1 DEF OneOwner, Prio, TQ_PRIO_0_HI, TQ_PRIO_1_LO
<1>5. OvertakeInv
  BY <1>1 DEF OvertakeInv, AtMostOneOvertakes, Prio, TQ_PRIO_0_HI
<1>6. QED
  BY <1>2, <1>3, <1>4, <1>5 DEF IInv

(* A step of the transmit thread moves its label and no other.             *)
LEMMA TxTransition ==
  ASSUME TypeOK, NEW a, NEW b \in TxPC, Transition("tx", a, b)
  PROVE  /\ pc["tx"] = a
         /\ pc'["tx"] = b
         /\ pc' \in [Threads -> ProducerPC \cup TxPC]
         /\ \A t \in Producers : pc'[t] \in ProducerPC
  BY DEF TypeOK, Transition, Threads, Producers

(* A producer's step leaves the transmit thread where it is.               *)
LEMMA ProducerTransition ==
  ASSUME TypeOK, NEW t \in Producers, NEW a, NEW b \in ProducerPC, Transition(t, a, b)
  PROVE  /\ pc'["tx"] = pc["tx"]
         /\ pc' \in [Threads -> ProducerPC \cup TxPC]
         /\ \A u \in Producers : pc'[u] \in ProducerPC
  BY DEF TypeOK, Transition, Threads, Producers

(* Moves of the transmit thread that touch nothing but labels, counters,   *)
(* flags and the audio lock.                                               *)
LEMMA ControlMoves ==
  ASSUME ControlInv, ThreadMoves, UNCHANGED <<packet, wakeVars, overtaken, dcd, process>>
  PROVE  ControlInv'
<1> USE TransmitAssumption
    DEF ControlInv, wakeVars, threadVars, TxPC, WaitPC, PeekPC, ChannelPC, RemovePC,
        SendPC
<1> DEFINE TxAt(b) == /\ pc'["tx"] = b
                      /\ pc' \in [Threads -> ProducerPC \cup TxPC]
                      /\ \A t \in Producers : pc'[t] \in ProducerPC
<1>1. CASE PeekHi
  <2>1. queue' = queue /\ pp' = pp
    BY <1>1 DEF PeekHi
  <2>2. CASE transmit_queue_peek(TQ_PRIO_0_HI) # NULL
    <3>1. pc["tx"] = "peek_hi" /\ (TxAt("try_lock") \/ TxAt("dcd_loop"))
      BY <1>1, <2>2, TxTransition DEF PeekHi, StartWaiting
    <3>2. queue[TQ_PRIO_0_HI] # << >>
      BY <2>2 DEF transmit_queue_peek
    <3>3. QED
      BY <1>1, <2>2, <3>1, <3>2 DEF PeekHi, StartWaiting, TypeOK, PeekInv, CountInv,
         AudioHeldToSend, Prio
  <2>3. CASE transmit_queue_peek(TQ_PRIO_0_HI) = NULL
    <3>1. pc["tx"] = "peek_hi" /\ TxAt("peek_lo")
      BY <1>1, <2>3, TxTransition DEF PeekHi
    <3>2. QED
      BY <1>1, <2>3, <3>1 DEF PeekHi, TypeOK, PeekInv, CountInv, AudioHeldToSend
  <2>4. QED
    BY <2>2, <2>3
<1>2. CASE PeekLo
  <2>2. CASE transmit_queue_peek(TQ_PRIO_1_LO) # NULL
    <3>1. pc["tx"] = "peek_lo" /\ (TxAt("try_lock") \/ TxAt("dcd_loop"))
      BY <1>2, <2>2, TxTransition DEF PeekLo, StartWaiting
    <3>2. queue[TQ_PRIO_1_LO] # << >>
      BY <2>2 DEF transmit_queue_peek
    <3>3. QED
      BY <1>2, <2>2, <3>1, <3>2 DEF PeekLo, StartWaiting, TypeOK, PeekInv, CountInv,
         AudioHeldToSend, Prio
  <2>3. CASE transmit_queue_peek(TQ_PRIO_1_LO) = NULL
    <3>1. pc["tx"] = "peek_lo" /\ (TxAt("done") \/ TxAt("wait_while_empty"))
      BY <1>2, <2>3, TxTransition DEF PeekLo
    <3>2. QED
      BY <1>2, <2>3, <3>1 DEF PeekLo, TypeOK, PeekInv, CountInv, AudioHeldToSend
  <2>4. QED
    BY <2>2, <2>3
<1>3. CASE PollDcd
  <2>1. /\ pc["tx"] = "dcd_loop"
        /\ \/ TxAt("dwait") /\ UNCHANGED <<n, ok>>
           \/ TxAt("dcd_loop") /\ n' = n + 1 /\ n' <= WaitLimit /\ ok' = ok
           \/ TxAt("remove_hi") /\ n' = n + 1 /\ ok' = FALSE
    BY <1>3, TxTransition DEF PollDcd, CountPoll, TypeOK
  <2>2. n \in Nat /\ n <= WaitLimit /\ pp = NULL /\ ~audio_out_dev_locked
    BY <2>1 DEF TypeOK, CountInv, PeekInv, AudioHeldToSend
  <2>3. /\ n' \in 0..(WaitLimit + 1)
        /\ pc'["tx"] \in ChannelPC => n' <= WaitLimit
    BY <2>1, <2>2
  <2>4. UNCHANGED <<queue, audio_out_dev_locked, pp, numframe, seize_confirms>>
    BY <1>3 DEF PollDcd
  <2>5. TypeOK'
    <3>1. ok' \in BOOLEAN /\ pc'["tx"] \in TxPC
      BY <2>1 DEF TypeOK
    <3>2. QED
      BY <2>1, <2>3, <2>4, <3>1 DEF TypeOK
  <2>6. CountInv' /\ PeekInv' /\ AudioHeldToSend'
    BY <2>1, <2>2, <2>3, <2>4 DEF CountInv, PeekInv, AudioHeldToSend
  <2>7. QED
    BY <2>5, <2>6
<1>4. CASE Dwait \/ PeekHiForPersistence \/ SlotBusy \/ SlotWon \/ SlotLost
  <2>1. /\ pc["tx"] \in ChannelPC \ {"try_lock"}
        /\ \E b \in ChannelPC : TxAt(b)
        /\ UNCHANGED <<queue, threadVars>>
    BY <1>4, TxTransition DEF Dwait, PeekHiForPersistence, SlotBusy, SlotWon, SlotLost
  <2>2. QED
    BY <2>1 DEF TypeOK, PeekInv, CountInv, AudioHeldToSend
<1>5. CASE TryLockAudio
  <2>1. pc["tx"] = "try_lock" /\ ~audio_out_dev_locked
    BY <1>5 DEF TryLockAudio, CountPoll, Transition, AudioHeldToSend
  <2>2. TxAt("remove_hi") /\ ok' /\ audio_out_dev_locked' /\ n' = n
    BY <1>5, <2>1, TxTransition DEF TryLockAudio
  <2>3. QED
    BY <1>5, <2>1, <2>2 DEF TryLockAudio, TypeOK, PeekInv, CountInv, AudioHeldToSend
<1>6. CASE BatchPeekHi
  <2>1. /\ pc["tx"] = "batch_hi"
        /\ \/ TxAt("tail")
           \/ TxAt("batch_remove_hi") /\ queue[TQ_PRIO_0_HI] # << >> /\ numframe < MaxFrames
           \/ TxAt("batch_lo") /\ numframe < MaxFrames
        /\ UNCHANGED <<queue, threadVars>>
    BY <1>6, TxTransition DEF BatchPeekHi, transmit_queue_peek, TypeOK
  <2>2. QED
    BY <2>1 DEF TypeOK, PeekInv, CountInv, AudioHeldToSend
<1>7. CASE BatchPeekLo
  <2>1. /\ pc["tx"] = "batch_lo"
        /\ \/ TxAt("tail")
           \/ TxAt("batch_remove_lo") /\ queue[TQ_PRIO_1_LO] # << >>
        /\ UNCHANGED <<queue, threadVars>>
    BY <1>7, TxTransition DEF BatchPeekLo, transmit_queue_peek
  <2>2. QED
    BY <2>1 DEF TypeOK, PeekInv, CountInv, AudioHeldToSend
<1>8. CASE SendTail
  <2>1. pc["tx"] = "tail" /\ TxAt("unlock") /\ UNCHANGED <<queue, threadVars>>
    BY <1>8, TxTransition DEF SendTail
  <2>2. QED
    BY <2>1 DEF TypeOK, PeekInv, CountInv, AudioHeldToSend
<1>9. CASE UnlockAudio
  <2>1. pc["tx"] = "unlock" /\ TxAt("peek_hi") /\ ~audio_out_dev_locked'
    BY <1>9, TxTransition DEF UnlockAudio
  <2>2. QED
    BY <1>9, <2>1 DEF UnlockAudio, TypeOK, PeekInv, CountInv, AudioHeldToSend
<1>10. QED
  BY <1>1, <1>2, <1>3, <1>4, <1>5, <1>6, <1>7, <1>8, <1>9 DEF ThreadMoves

(* The sleep and wake-up of the transmit thread.                           *)
LEMMA ControlWait ==
  ASSUME ControlInv, WaitNext, UNCHANGED <<threadVars, overtaken, dcd, process>>
  PROVE  ControlInv'
<1> USE DEF ControlInv, wakeVars, threadVars, TxPC, WaitPC, PeekPC, ChannelPC, RemovePC,
        SendPC
<1>1. /\ pc["tx"] \in WaitPC
      /\ pc'["tx"] \in WaitPC \cup PeekPC
      /\ pc' \in [Threads -> ProducerPC \cup TxPC]
      /\ \A t \in Producers : pc'[t] \in ProducerPC
      /\ UNCHANGED <<queue, packet>>
      /\ xmit_thread_is_waiting' \in BOOLEAN
      /\ wake_up_mutex' \in {"free", "tx"}
      /\ wake_up_cond' \in BOOLEAN
  BY TxTransition DEF WaitNext, CheckEmpty, AnnounceWait, FallAsleep, WakeUp, TypeOK
<1>2. QED
  BY <1>1 DEF TypeOK, PeekInv, CountInv, AudioHeldToSend

(* The producers: an append makes one list longer.                         *)
Appends(prio, p) ==
  /\ p \in NullFrames => prio = TQ_PRIO_1_LO
  /\ AppendPacket(prio, p)
  /\ UNCHANGED <<pp, overtaken>>

(* What a producer's step changes: an append, or only the wake-up state.   *)
LEMMA ProducerCases ==
  ASSUME TypeOK, ProducerStep
  PROVE  /\ pc'["tx"] = pc["tx"]
         /\ pc' \in [Threads -> ProducerPC \cup TxPC]
         /\ \A t \in Producers : pc'[t] \in ProducerPC
         /\ UNCHANGED <<xmit_thread_is_waiting, wake_up_mutex>>
         /\ wake_up_cond' \in BOOLEAN
         /\ \/ UNCHANGED <<queue, packet>>
            \/ \E prio \in Prio, p \in Packets : Appends(prio, p)
<1> USE PacketsAssumption DEF ProducerStep, ProducerNext, threadVars, wakeVars, Producers,
        ProducerPC
<1>1. CASE transmit_queue_append \/ lm_data_request \/ lm_seize_request
  <2>1. /\ pc'["tx"] = pc["tx"]
        /\ pc' \in [Threads -> ProducerPC \cup TxPC]
        /\ \A t \in Producers : pc'[t] \in ProducerPC
    BY <1>1, ProducerTransition DEF transmit_queue_append, lm_data_request, lm_seize_request
  <2>2. UNCHANGED wakeVars /\ UNCHANGED <<threadVars, overtaken>>
    BY <1>1 DEF transmit_queue_append, lm_data_request, lm_seize_request
  <2>3. \E prio \in Prio, p \in Packets : Appends(prio, p)
    BY <1>1, <2>2 DEF transmit_queue_append, lm_data_request, lm_seize_request, Appends,
       Prio, TQ_PRIO_0_HI, TQ_PRIO_1_LO
  <2>4. QED
    BY <2>1, <2>2, <2>3 DEF TypeOK
<1>2. CASE \E t \in Producers : ReadWaitingFlag(t) \/ SignalTransmitThread(t)
  <2>1. PICK t \in Producers : ReadWaitingFlag(t) \/ SignalTransmitThread(t)
    BY <1>2
  <2>2. /\ pc'["tx"] = pc["tx"]
        /\ pc' \in [Threads -> ProducerPC \cup TxPC]
        /\ \A u \in Producers : pc'[u] \in ProducerPC
    BY <2>1, ProducerTransition DEF ReadWaitingFlag, SignalTransmitThread
  <2>3. QED
    BY <2>1, <2>2 DEF ReadWaitingFlag, SignalTransmitThread, TypeOK
<1>3. QED
  BY <1>1, <1>2

(* An append keeps the lists lists of packets and empties none.            *)
LEMMA AppendKeepsQueues ==
  ASSUME TypeOK, NEW prio \in Prio, NEW p \in Packets, Appends(prio, p)
  PROVE  /\ queue' \in [Prio -> Seq(Packets)]
         /\ queue' = [queue EXCEPT ![prio] = Append(queue[prio], p)]
         /\ packet' \in [Packets -> PacketState]
         /\ packet[p] = "unused"
         /\ \A q \in Prio : queue[q] # << >> => queue'[q] # << >>
<1>1. queue[prio] \in Seq(Packets)
  BY DEF TypeOK
<1>2. Append(queue[prio], p) \in Seq(Packets) /\ Append(queue[prio], p) # << >>
  BY <1>1, AppendFacts
<1>3. QED
  BY <1>2 DEF Appends, AppendPacket, TypeOK, PacketState

(* An append, the read of the flag and the signal.                         *)
LEMMA ControlProducers ==
  ASSUME ControlInv, ProducerStep
  PROVE  ControlInv'
<1> USE DEF ControlInv
<1>1. UNCHANGED <<threadVars, overtaken, dcd, process>>
  BY DEF ProducerStep
<1>2. /\ queue' \in [Prio -> Seq(Packets)]
      /\ packet' \in [Packets -> PacketState]
      /\ \A q \in Prio : queue[q] # << >> => queue'[q] # << >>
  BY ProducerCases, AppendKeepsQueues DEF TypeOK
<1>3. TypeOK'
  BY <1>1, <1>2, ProducerCases DEF TypeOK, threadVars
<1>4. PeekInv'
  BY <1>1, <1>2, ProducerCases DEF PeekInv, threadVars, Prio, TQ_PRIO_0_HI, TQ_PRIO_1_LO
<1>5. CountInv' /\ AudioHeldToSend'
  BY <1>1, ProducerCases DEF CountInv, AudioHeldToSend, threadVars
<1>6. QED
  BY <1>3, <1>4, <1>5

(* What a removal does when the list is not empty, and when it is.         *)
LEMMA RemoveCases ==
  ASSUME TypeOK, NEW prio \in Prio, transmit_queue_remove(prio, pp)
  PROVE  /\ queue' \in [Prio -> Seq(Packets)]
         /\ \A q \in Prio \ {prio} : queue'[q] = queue[q]
         /\ \/ queue[prio] = << >> /\ pp' = NULL /\ queue' = queue
            \/ /\ queue[prio] # << >>
               /\ pp' = Head(queue[prio])
               /\ pp' \in Packets
               /\ queue' = [queue EXCEPT ![prio] = Tail(queue[prio])]
<1>1. queue[prio] \in Seq(Packets)
  BY DEF TypeOK
<1>2. CASE queue[prio] = << >>
  BY <1>2 DEF transmit_queue_remove, transmit_queue_peek, TypeOK
<1>3. CASE queue[prio] # << >>
  <2>1. Head(queue[prio]) \in Packets /\ Tail(queue[prio]) \in Seq(Packets)
    BY <1>1, <1>3, TailFacts
  <2>2. QED
    BY <1>3, <2>1 DEF transmit_queue_remove, transmit_queue_peek, TypeOK
<1>4. QED
  BY <1>2, <1>3

(* The four removals.                                                      *)
LEMMA ControlTakes ==
  ASSUME ControlInv, NEW prio \in Prio, Takes(prio), NoteOvertaking(prio),
         UNCHANGED <<packet, wakeVars, dcd, process>>
  PROVE  ControlInv'
<1> USE PacketsAssumption DEF ControlInv, wakeVars
<1>1. transmit_queue_remove(prio, pp)
  BY DEF Takes, RemoveHi, RemoveLo, BatchRemove
<1>2. UNCHANGED <<n, ok, audio_out_dev_locked, numframe, seize_confirms>>
  BY DEF Takes, RemoveHi, RemoveLo, BatchRemove
<1>3. overtaken' \in [Packets -> Nat]
  BY DEF NoteOvertaking, TypeOK
<1>4. /\ pc' \in [Threads -> ProducerPC \cup TxPC]
      /\ \A t \in Producers : pc'[t] \in ProducerPC
      /\ \/ /\ pc["tx"] = "remove_hi" /\ prio = TQ_PRIO_0_HI
            /\ pc'["tx"] = IF pp' # NULL THEN "removed" ELSE "remove_lo"
         \/ pc["tx"] = "remove_lo" /\ prio = TQ_PRIO_1_LO /\ pc'["tx"] = "removed"
         \/ pc["tx"] = "batch_remove_hi" /\ prio = TQ_PRIO_0_HI /\ pc'["tx"] = "send"
         \/ pc["tx"] = "batch_remove_lo" /\ prio = TQ_PRIO_1_LO /\ pc'["tx"] = "send"
  BY TxTransition DEF Takes, RemoveHi, RemoveLo, BatchRemove, TxPC, RemovePC, SendPC
<1>5. pp' \in Packets \cup {NULL}
  BY <1>1, RemoveCases
<1>6. TypeOK'
  <2>1. pc'["tx"] \in TxPC
    BY <1>4 DEF TxPC, RemovePC, SendPC
  <2>2. queue' \in [Prio -> Seq(Packets)]
    BY <1>1, RemoveCases
  <2>3. QED
    BY <1>2, <1>3, <1>4, <1>5, <2>1, <2>2 DEF TypeOK
<1>7. CountInv' /\ AudioHeldToSend'
  BY <1>2, <1>4 DEF CountInv, AudioHeldToSend, ChannelPC, RemovePC, SendPC
<1>8. PeekInv'
  <2>1. CASE pc["tx"] = "remove_hi" /\ queue[TQ_PRIO_0_HI] = << >>
    <3>1. prio = TQ_PRIO_0_HI /\ queue' = queue /\ pp' = NULL
      BY <1>1, <1>4, <2>1, RemoveCases
    <3>2. queue[TQ_PRIO_1_LO] # << >>
      BY <2>1 DEF PeekInv, Prio
    <3>3. QED
      BY <1>4, <2>1, <3>1, <3>2 DEF PeekInv, ChannelPC
  <2>2. CASE ~(pc["tx"] = "remove_hi" /\ queue[TQ_PRIO_0_HI] = << >>)
    <3>1. queue[prio] # << >>
      BY <1>4, <2>2 DEF PeekInv
    <3>2. pp' # NULL
      BY <1>1, <3>1, RemoveCases
    <3>3. QED
      BY <1>4, <3>2 DEF PeekInv, ChannelPC
  <2>3. QED
    BY <2>1, <2>2
<1>9. QED
  BY <1>6, <1>7, <1>8

(* The steps that use the packet in hand.                                  *)
UsesPacket == UsePacket \/ StartTransmission \/ send_one_frame

(* The three steps that use or delete the packet in hand.                  *)
LEMMA UsesPacketCases ==
  ASSUME ControlInv, UsesPacket
  PROVE  /\ pp \in Packets
         /\ queue' = queue
         /\ \/ UNCHANGED <<packet, pp>>
            \/ \E how \in Freed : pp' = NULL /\ packet' = [packet EXCEPT ![pp] = how]
<1>1. pc["tx"] \in {"removed", "tx_frames", "send"}
  BY DEF UsesPacket, UsePacket, StartTransmission, send_one_frame, Transition
<1>2. pp \in Packets
  BY <1>1 DEF ControlInv, PeekInv, TypeOK
<1>3. CASE UsePacket
  BY <1>2, <1>3 DEF UsePacket, Freed
<1>4. CASE StartTransmission
  BY <1>2, <1>4 DEF StartTransmission
<1>5. CASE send_one_frame
  BY <1>2, <1>5 DEF send_one_frame, Freed
<1>6. QED
  BY <1>3, <1>4, <1>5 DEF UsesPacket

(* Deleting the packet, starting a transmission and sending a frame.       *)
LEMMA ControlUses ==
  ASSUME ControlInv, UsesPacket, UNCHANGED <<wakeVars, overtaken, dcd, process>>
  PROVE  ControlInv'
<1> USE TransmitAssumption, PacketsAssumption DEF ControlInv, wakeVars
<1>1. /\ pp \in Packets
      /\ queue' = queue
      /\ pp' \in {pp, NULL}
      /\ packet' \in [Packets -> PacketState]
  BY UsesPacketCases DEF TypeOK, PacketState
<1>2. UNCHANGED <<n, ok, audio_out_dev_locked>>
  BY DEF UsesPacket, UsePacket, StartTransmission, send_one_frame
<1>3. /\ pc' \in [Threads -> ProducerPC \cup TxPC]
      /\ \A t \in Producers : pc'[t] \in ProducerPC
      /\ \/ pc["tx"] = "removed" /\ ok /\ pc'["tx"] = "tx_frames" /\ pp' = pp
         \/ pc["tx"] = "removed" /\ ~ok /\ pc'["tx"] = "peek_hi" /\ pp' = NULL
         \/ pc["tx"] = "tx_frames" /\ pc'["tx"] = "send" /\ pp' = pp /\ numframe' = 0
         \/ pc["tx"] = "send" /\ pc'["tx"] = "batch_hi" /\ pp' = NULL
  BY <1>1, TxTransition DEF UsesPacket, UsePacket, StartTransmission, send_one_frame, TxPC,
     PeekPC, SendPC
<1>4. numframe' \in 0..MaxFrames /\ seize_confirms' \in Nat
  BY DEF UsesPacket, UsePacket, StartTransmission, send_one_frame, TypeOK, CountInv,
         Transition
<1>5. pc'["tx"] \in TxPC
  BY <1>3 DEF TxPC, PeekPC, SendPC
<1>6. TypeOK'
  BY <1>1, <1>2, <1>3, <1>4, <1>5 DEF TypeOK
<1>7. PeekInv' /\ AudioHeldToSend'
  BY <1>1, <1>2, <1>3 DEF PeekInv, AudioHeldToSend, ChannelPC, RemovePC, SendPC
<1>8. CountInv'
  BY <1>3 DEF CountInv, ChannelPC
<1>9. QED
  BY <1>6, <1>7, <1>8

(* Every step keeps types and control.                                     *)
LEMMA ControlNext ==
  ASSUME ControlInv, [Next]_vars
  PROVE  ControlInv'
<1>1. CASE TxStep
  BY <1>1, ControlWait, ControlMoves, ControlTakes, ControlUses DEF TxStep, UsesPacket
<1>2. CASE ProducerStep
  BY <1>2, ControlProducers
<1>3. CASE DcdChange \/ Cleanup \/ (SpuriousWakeup /\ UNCHANGED <<threadVars, overtaken, dcd, process>>)
  <2>1. /\ UNCHANGED <<queue, packet, pc, threadVars, overtaken>>
        /\ UNCHANGED <<xmit_thread_is_waiting, wake_up_mutex>>
        /\ wake_up_cond' \in BOOLEAN
        /\ dcd' \in BOOLEAN
        /\ process' \in {"running", "stopping", "closed", "exited"}
    BY <1>3 DEF DcdChange, Cleanup, SpuriousWakeup, ControlInv, TypeOK, queueVars, wakeVars
  <2>2. QED
    BY <2>1 DEF ControlInv, TypeOK, PeekInv, CountInv, AudioHeldToSend, threadVars
<1>4. CASE UNCHANGED vars
  BY <1>4 DEF ControlInv, TypeOK, PeekInv, CountInv, AudioHeldToSend, vars, queueVars,
     wakeVars, threadVars
<1>5. QED
  BY <1>1, <1>2, <1>3, <1>4 DEF Next

-----------------------------------------------------------------------------
(* Ownership of the packets.                                               *)

(* What a step can do to the lists, the heap and the hand.                 *)
Quiet == UNCHANGED <<queue, packet, pp>>
Removes(prio) ==
  /\ pp = NULL
  /\ transmit_queue_remove(prio, pp)
  /\ NoteOvertaking(prio)
  /\ UNCHANGED packet
  /\ prio = TQ_PRIO_1_LO => /\ pc["tx"] \in {"remove_lo", "batch_remove_lo"}
                            /\ pc'["tx"] \in {"removed", "send"}
Frees ==
  /\ pp \in Packets
  /\ pp' = NULL
  /\ \E how \in Freed : packet' = [packet EXCEPT ![pp] = how]
  /\ UNCHANGED <<queue, overtaken>>

(* Seen by the heap, a step is quiet, an append, a removal or a deletion.  *)
LEMMA HeapCases ==
  ASSUME ControlInv, [Next]_vars
  PROVE  \/ Quiet /\ UNCHANGED overtaken
         \/ \E prio \in Prio, p \in Packets : Appends(prio, p)
         \/ \E prio \in Prio : Removes(prio)
         \/ Frees
<1>1. CASE TxStep
  <2>1. CASE WaitNext /\ UNCHANGED <<threadVars, overtaken>>
    BY <2>1 DEF WaitNext, CheckEmpty, AnnounceWait, FallAsleep, WakeUp, Quiet, threadVars
  <2>2. CASE ThreadMoves /\ UNCHANGED <<packet, wakeVars, overtaken>>
    BY <2>2 DEF ThreadMoves, PeekHi, PeekLo, PollDcd, Dwait, PeekHiForPersistence,
       SlotBusy, SlotWon, SlotLost, TryLockAudio, BatchPeekHi, BatchPeekLo, SendTail,
       UnlockAudio, Quiet, threadVars
  <2>3. CASE \E prio \in Prio :
               Takes(prio) /\ NoteOvertaking(prio) /\ UNCHANGED <<packet, wakeVars>>
    <3>1. PICK prio \in Prio : Takes(prio) /\ NoteOvertaking(prio) /\ UNCHANGED packet
      BY <2>3
    <3>2. transmit_queue_remove(prio, pp) /\ pp = NULL
      BY <3>1 DEF Takes, RemoveHi, RemoveLo, BatchRemove, ControlInv, PeekInv, Transition
    <3>3. prio = TQ_PRIO_1_LO => /\ pc["tx"] \in {"remove_lo", "batch_remove_lo"}
                                /\ pc'["tx"] \in {"removed", "send"}
      BY <3>1, TxTransition DEF Takes, RemoveLo, BatchRemove, ControlInv, TQ_PRIO_0_HI,
         TQ_PRIO_1_LO, TxPC, RemovePC, SendPC
    <3>4. QED
      BY <3>1, <3>2, <3>3 DEF Removes
  <2>4. CASE UsesPacket /\ UNCHANGED <<wakeVars, overtaken>>
    BY <2>4, UsesPacketCases DEF Quiet, Frees
  <2>5. QED
    BY <1>1, <2>1, <2>2, <2>3, <2>4 DEF TxStep, UsesPacket
<1>2. CASE ProducerStep
  BY <1>2, ProducerCases DEF ControlInv, ProducerStep, Quiet, threadVars
<1>3. CASE DcdChange \/ Cleanup \/ UNCHANGED vars
           \/ (SpuriousWakeup /\ UNCHANGED <<threadVars, overtaken, dcd, process>>)
  BY <1>3 DEF DcdChange, Cleanup, SpuriousWakeup, Quiet, vars, queueVars, threadVars
<1>4. QED
  BY <1>1, <1>2, <1>3 DEF Next

(* The elements of a list after an append and after a removal.             *)
LEMMA InQueueAppend ==
  ASSUME TypeOK, NEW prio \in Prio, NEW p \in Packets, Appends(prio, p)
  PROVE  /\ InQueue(prio)' = InQueue(prio) \cup {p}
         /\ \A q \in Prio \ {prio} : InQueue(q)' = InQueue(q)
         /\ Len(queue'[prio]) = Len(queue[prio]) + 1
         /\ \A i \in 1..Len(queue[prio]) : queue'[prio][i] = queue[prio][i]
         /\ queue'[prio][Len(queue[prio]) + 1] = p
         /\ Len(queue[prio]) \in Nat
<1>1. queue[prio] \in Seq(Packets)
  BY DEF TypeOK
<1>2. queue'[prio] = Append(queue[prio], p) /\ \A q \in Prio \ {prio} : queue'[q] = queue[q]
  BY AppendKeepsQueues DEF TypeOK
<1>3. /\ Len(queue'[prio]) = Len(queue[prio]) + 1
      /\ \A i \in 1..Len(queue[prio]) : queue'[prio][i] = queue[prio][i]
      /\ queue'[prio][Len(queue[prio]) + 1] = p
      /\ Len(queue[prio]) \in Nat
  BY <1>1, <1>2, AppendFacts
<1>4. InQueue(prio)' = InQueue(prio) \cup {p}
  BY <1>3 DEF InQueue
<1>5. \A q \in Prio \ {prio} : InQueue(q)' = InQueue(q)
  BY <1>2 DEF InQueue
<1>6. QED
  BY <1>3, <1>4, <1>5

Distinct(prio) ==
  \A i, j \in 1..Len(queue[prio]) : queue[prio][i] = queue[prio][j] => i = j

LEMMA InQueueRemove ==
  ASSUME TypeOK, NEW prio \in Prio, transmit_queue_remove(prio, pp), queue[prio] # << >>,
         Distinct(prio)
  PROVE  /\ pp' \in InQueue(prio)
         /\ InQueue(prio)' = InQueue(prio) \ {pp'}
         /\ \A q \in Prio \ {prio} : InQueue(q)' = InQueue(q)
         /\ Distinct(prio)'
<1>1. queue[prio] \in Seq(Packets)
  BY DEF TypeOK
<1>2. queue'[prio] = Tail(queue[prio]) /\ pp' = queue[prio][1]
  BY <1>1, RemoveCases, TailFacts DEF TypeOK
<1>3. /\ Len(queue[prio]) \in Nat \ {0}
      /\ Len(queue'[prio]) = Len(queue[prio]) - 1
      /\ \A i \in 1..(Len(queue[prio]) - 1) : queue'[prio][i] = queue[prio][i + 1]
  BY <1>1, <1>2, TailFacts
<1>4. pp' \in InQueue(prio)
  BY <1>2, <1>3 DEF InQueue
<1>5. ASSUME NEW x PROVE x \in InQueue(prio)' <=> x \in InQueue(prio) \ {pp'}
  <2>1. ASSUME x \in InQueue(prio)' PROVE x \in InQueue(prio) \ {pp'}
    <3>1. PICK i \in 1..Len(queue'[prio]) : x = queue'[prio][i]
      BY <2>1 DEF InQueue
    <3>2. i + 1 \in 1..Len(queue[prio]) /\ x = queue[prio][i + 1] /\ i + 1 # 1
      BY <1>3, <3>1
    <3>3. x # pp'
      BY <1>2, <1>3, <3>2 DEF Distinct
    <3>4. QED
      BY <3>2, <3>3 DEF InQueue
  <2>2. ASSUME x \in InQueue(prio) \ {pp'} PROVE x \in InQueue(prio)'
    <3>1. PICK i \in 1..Len(queue[prio]) : x = queue[prio][i]
      BY <2>2 DEF InQueue
    <3>2. i # 1
      BY <1>2, <2>2, <3>1
    <3>3. i - 1 \in 1..Len(queue'[prio]) /\ queue'[prio][i - 1] = queue[prio][(i - 1) + 1]
      BY <1>3, <3>1, <3>2
    <3>4. QED
      BY <3>1, <3>3 DEF InQueue
  <2>3. QED
    BY <2>1, <2>2
<1>6. \A q \in Prio \ {prio} : InQueue(q)' = InQueue(q)
  BY RemoveCases DEF InQueue
<1>7. Distinct(prio)'
  <2>1. SUFFICES ASSUME NEW i \in 1..Len(queue'[prio]), NEW j \in 1..Len(queue'[prio]),
                        queue'[prio][i] = queue'[prio][j]
                 PROVE  i = j
    BY DEF Distinct
  <2>2. /\ i + 1 \in 1..Len(queue[prio]) /\ j + 1 \in 1..Len(queue[prio])
        /\ queue[prio][i + 1] = queue[prio][j + 1]
    BY <1>3, <2>1
  <2>3. QED
    BY <2>2 DEF Distinct
<1>8. QED
  BY <1>4, <1>5, <1>6, <1>7

(* Nothing moves.                                                          *)
LEMMA OwnerQuiet ==
  ASSUME OneOwner, Quiet
  PROVE  OneOwner'
  BY DEF Quiet, OneOwner, InQueue

(* A new packet enters one list.                                           *)
LEMMA OwnerAppend ==
  ASSUME TypeOK, OneOwner, NEW prio \in Prio, NEW p \in Packets, Appends(prio, p)
  PROVE  OneOwner'
<1> USE PacketsAssumption
<1>1. packet[p] = "unused" /\ packet' = [packet EXCEPT ![p] = "live"] /\ pp' = pp
  BY AppendKeepsQueues DEF Appends, AppendPacket
<1>2. pp # p /\ \A q \in Prio : p \notin InQueue(q)
  BY <1>1 DEF OneOwner
<1>3. \A x : \A q \in Prio : x \in InQueue(q)' <=> x \in InQueue(q) \/ (q = prio /\ x = p)
  BY InQueueAppend
<1>4. \A x \in Packets :
        packet'[x] = "live" <=> pp' = x \/ \E q \in Prio : x \in InQueue(q)'
  <2>1. \A x \in Packets : packet'[x] = "live" <=> packet[x] = "live" \/ x = p
    BY <1>1 DEF TypeOK
  <2>2. QED
    BY <1>1, <1>3, <2>1 DEF OneOwner
<1>5. InQueue(TQ_PRIO_0_HI)' \cap InQueue(TQ_PRIO_1_LO)' = {}
  BY <1>2, <1>3 DEF OneOwner, Prio, TQ_PRIO_0_HI, TQ_PRIO_1_LO
<1>6. \A q \in Prio : pp' \notin InQueue(q)'
  BY <1>1, <1>2, <1>3 DEF OneOwner
<1>7. ASSUME NEW q \in Prio PROVE Distinct(q)'
  <2>1. Distinct(q)
    BY DEF OneOwner, Distinct
  <2>2. CASE q # prio
    BY <2>1, <2>2, AppendKeepsQueues DEF Distinct, TypeOK
  <2>3. CASE q = prio
    <3>1. \A i \in 1..Len(queue[prio]) : queue[prio][i] # p
      BY <1>2 DEF InQueue
    <3>2. /\ Len(queue'[prio]) = Len(queue[prio]) + 1 /\ Len(queue[prio]) \in Nat
          /\ \A i \in 1..Len(queue[prio]) : queue'[prio][i] = queue[prio][i]
          /\ queue'[prio][Len(queue[prio]) + 1] = p
      BY InQueueAppend
    <3>3. SUFFICES ASSUME NEW i \in 1..Len(queue'[prio]), NEW j \in 1..Len(queue'[prio]),
                          queue'[prio][i] = queue'[prio][j]
                   PROVE  i = j
      BY <2>3 DEF Distinct
    <3>4. CASE i \in 1..Len(queue[prio]) /\ j \in 1..Len(queue[prio])
      BY <2>1, <2>3, <3>2, <3>3, <3>4 DEF Distinct
    <3>5. CASE i = Len(queue[prio]) + 1 \/ j = Len(queue[prio]) + 1
      BY <3>1, <3>2, <3>3, <3>5
    <3>6. QED
      BY <3>2, <3>3, <3>4, <3>5
  <2>4. QED
    BY <2>2, <2>3
<1>8. QED
  BY <1>4, <1>5, <1>6, <1>7 DEF OneOwner, Distinct

(* A packet goes from a list to the thread's hand.                         *)
LEMMA OwnerRemove ==
  ASSUME TypeOK, OneOwner, NEW prio \in Prio, Removes(prio)
  PROVE  OneOwner'
<1> USE PacketsAssumption
<1>1. pp = NULL /\ transmit_queue_remove(prio, pp) /\ packet' = packet
  BY DEF Removes
<1>2. CASE queue[prio] = << >>
  <2>1. queue' = queue /\ pp' = pp /\ packet' = packet
    BY <1>1, <1>2, RemoveCases
  <2>2. QED
    BY <2>1, OwnerQuiet DEF Quiet
<1>3. CASE queue[prio] # << >>
  <2>1. \A q \in Prio : Distinct(q)
    BY DEF OneOwner, Distinct
  <2>2. /\ pp' \in InQueue(prio)
        /\ InQueue(prio)' = InQueue(prio) \ {pp'}
        /\ \A q \in Prio \ {prio} : InQueue(q)' = InQueue(q)
        /\ Distinct(prio)'
    BY <1>1, <1>3, <2>1, InQueueRemove
  <2>3. \A q \in Prio \ {prio} : pp' \notin InQueue(q)
    BY <2>2 DEF OneOwner, Prio
  <2>4. \A x \in Packets :
          packet'[x] = "live" <=> pp' = x \/ \E q \in Prio : x \in InQueue(q)'
    BY <1>1, <2>2, <2>3 DEF OneOwner
  <2>5. \A q \in Prio : pp' \notin InQueue(q)'
    BY <2>2, <2>3
  <2>6. InQueue(TQ_PRIO_0_HI)' \cap InQueue(TQ_PRIO_1_LO)' = {}
    BY <2>2 DEF OneOwner, Prio
  <2>7. \A q \in Prio : Distinct(q)'
    <3>1. \A q \in Prio \ {prio} : queue'[q] = queue[q]
      BY <1>1, RemoveCases
    <3>2. QED
      BY <2>1, <2>2, <3>1 DEF Distinct
  <2>8. QED
    BY <2>4, <2>5, <2>6, <2>7 DEF OneOwner, Distinct
<1>4. QED
  BY <1>2, <1>3

(* The packet in hand is deleted.                                          *)
LEMMA OwnerFrees ==
  ASSUME TypeOK, OneOwner, Frees
  PROVE  OneOwner'
<1> USE PacketsAssumption
<1>1. \A x \in Packets : packet'[x] = "live" <=> packet[x] = "live" /\ x # pp
  BY DEF Frees, TypeOK, Freed
<1>2. pp' = NULL /\ queue' = queue /\ \A q \in Prio : pp \notin InQueue(q)
  BY DEF Frees, OneOwner
<1>3. \A q \in Prio : InQueue(q)' = InQueue(q) /\ InQueue(q) \subseteq Packets
  BY <1>2 DEF InQueue, TypeOK
<1>4. \A x \in Packets :
        packet'[x] = "live" <=> pp' = x \/ \E q \in Prio : x \in InQueue(q)'
  BY <1>1, <1>2, <1>3 DEF OneOwner
<1>5. \A q \in Prio : pp' \notin InQueue(q)'
  BY <1>2, <1>3
<1>6. InQueue(TQ_PRIO_0_HI)' \cap InQueue(TQ_PRIO_1_LO)' = {}
  BY <1>3 DEF OneOwner, Prio
<1>7. \A q \in Prio : \A i, j \in 1..Len(queue'[q]) : queue'[q][i] = queue'[q][j] => i = j
  BY <1>2 DEF OneOwner
<1>8. QED
  BY <1>4, <1>5, <1>6, <1>7 DEF OneOwner

(* Every step keeps one owner per packet.                                  *)
LEMMA OwnerNext ==
  ASSUME ControlInv, OneOwner, [Next]_vars
  PROVE  OneOwner'
  BY HeapCases, OwnerQuiet, OwnerAppend, OwnerRemove, OwnerFrees DEF ControlInv

-----------------------------------------------------------------------------
(* Overtaking.                                                             *)

Between == {"remove_lo", "batch_lo", "batch_remove_lo"}

(* The thread comes to the low-priority side only past an empty high-      *)
(* priority queue.                                                         *)
LEMMA EnterBetween ==
  ASSUME ControlInv, [Next]_vars, pc'["tx"] \in Between, pc["tx"] \notin Between
  PROVE  queue'[TQ_PRIO_0_HI] = << >>
<1> USE DEF ControlInv, Between
<1>1. CASE TxStep
  <2>1. CASE WaitNext
    BY <2>1, TxTransition DEF WaitNext, CheckEmpty, AnnounceWait, FallAsleep, WakeUp,
       TxPC, WaitPC, PeekPC
  <2>2. CASE BatchPeekHi
    <3>1. queue[TQ_PRIO_0_HI] = << >> \/ Head(queue[TQ_PRIO_0_HI]) \in Packets
      BY TailFacts DEF TypeOK, Prio
    <3>2. transmit_queue_peek(TQ_PRIO_0_HI) = NULL
      BY <2>2, TxTransition DEF BatchPeekHi, TxPC, SendPC
    <3>3. QED
      BY <2>2, <3>1, <3>2, PacketsAssumption DEF BatchPeekHi, transmit_queue_peek
  <2>3. CASE ThreadMoves /\ ~BatchPeekHi
    <3>1. CASE PeekHi \/ PeekLo
      BY <3>1, TxTransition DEF PeekHi, PeekLo, StartWaiting, TxPC, WaitPC, PeekPC, ChannelPC
    <3>2. CASE PollDcd \/ TryLockAudio
      BY <3>2, TxTransition DEF PollDcd, TryLockAudio, CountPoll, TxPC, ChannelPC, RemovePC
    <3>3. CASE Dwait \/ PeekHiForPersistence \/ SlotBusy \/ SlotWon \/ SlotLost
      BY <3>3, TxTransition DEF Dwait, PeekHiForPersistence, SlotBusy, SlotWon, SlotLost,
         TxPC, ChannelPC
    <3>4. CASE BatchPeekLo
      BY <3>4 DEF BatchPeekLo, Transition
    <3>5. CASE SendTail \/ UnlockAudio
      BY <3>5, TxTransition DEF SendTail, UnlockAudio, TxPC, PeekPC, SendPC
    <3>6. QED
      BY <2>3, <3>1, <3>2, <3>3, <3>4, <3>5 DEF ThreadMoves
  <2>4. CASE RemoveHi
    <3>1. pp' = NULL
      BY <2>4, TxTransition DEF RemoveHi, TxPC, RemovePC
    <3>2. QED
      BY <2>4, <3>1, RemoveCases, PacketsAssumption DEF RemoveHi, Prio
  <2>5. CASE RemoveLo \/ BatchRemove(TQ_PRIO_0_HI, "batch_remove_hi")
             \/ BatchRemove(TQ_PRIO_1_LO, "batch_remove_lo")
    BY <2>5, TxTransition DEF RemoveLo, BatchRemove, TxPC, RemovePC, SendPC
  <2>6. CASE UsesPacket
    BY <2>6, TxTransition DEF UsesPacket, UsePacket, StartTransmission, send_one_frame,
       TxPC, PeekPC, SendPC
  <2>7. QED
    BY <1>1, <2>1, <2>2, <2>3, <2>4, <2>5, <2>6 DEF TxStep, Takes, UsesPacket
<1>2. CASE ProducerStep
  BY <1>2, ProducerCases
<1>3. CASE DcdChange \/ Cleanup \/ SpuriousWakeup \/ UNCHANGED vars
  BY <1>3 DEF DcdChange, Cleanup, SpuriousWakeup, vars, queueVars
<1>4. QED
  BY <1>1, <1>2, <1>3 DEF Next

(* From there to the low-priority removal that queue only grows, by        *)
(* packets nobody has overtaken yet.                                       *)
LEMMA OvertakeNext ==
  ASSUME ControlInv, OneOwner, OvertakeInv, [Next]_vars
  PROVE  OvertakeInv'
<1> USE DEF ControlInv
<1> DEFINE HI == TQ_PRIO_0_HI
<1>1. pc'["tx"] \in Between => pc["tx"] \in Between \/ InQueue(HI)' = {}
  BY EnterBetween DEF InQueue
<1>2. pc["tx"] \in Between => \A p \in InQueue(HI) : overtaken[p] = 0
  BY DEF OvertakeInv, Between
<1>3. SUFFICES /\ \A p \in Packets : packet'[p] = "unused" => overtaken'[p] = 0
               /\ pc'["tx"] \in Between => \A p \in InQueue(HI)' : overtaken'[p] = 0
               /\ \A p \in Packets : overtaken'[p] <= 1
  BY DEF OvertakeInv, AtMostOneOvertakes, Between
<1>4. CASE Quiet /\ UNCHANGED overtaken
  BY <1>1, <1>2, <1>4 DEF Quiet, OvertakeInv, AtMostOneOvertakes, InQueue
<1>5. ASSUME NEW prio \in Prio, NEW p \in Packets, Appends(prio, p)
      PROVE  OvertakeInv'
  <2>1. /\ overtaken' = overtaken
        /\ packet[p] = "unused"
        /\ packet' = [packet EXCEPT ![p] = "live"]
    BY <1>5 DEF Appends, AppendPacket
  <2>2. InQueue(HI)' \subseteq InQueue(HI) \cup {p}
    BY <1>5, InQueueAppend DEF Prio
  <2>3. overtaken[p] = 0
    BY <2>1 DEF OvertakeInv
  <2>4. pc'["tx"] \in Between => \A x \in InQueue(HI)' : overtaken'[x] = 0
    BY <1>1, <1>2, <2>1, <2>2, <2>3
  <2>5. \A x \in Packets : packet'[x] = "unused" => overtaken'[x] = 0
    BY <2>1 DEF OvertakeInv, TypeOK
  <2>6. QED
    BY <2>1, <2>4, <2>5 DEF OvertakeInv, AtMostOneOvertakes, Between
<1>6. ASSUME NEW prio \in Prio, Removes(prio)
      PROVE  OvertakeInv'
  <2>1. packet' = packet
    BY <1>6 DEF Removes
  <2>2. CASE prio = HI \/ pp' = NULL
    <3>1. overtaken' = overtaken
      BY <1>6, <2>2 DEF Removes, NoteOvertaking, TQ_PRIO_0_HI, TQ_PRIO_1_LO
    <3>2. InQueue(HI)' \subseteq InQueue(HI)
      <4>1. \A q \in Prio : Distinct(q)
        BY DEF OneOwner, Distinct
      <4>2. CASE queue[prio] = << >>
        BY <1>6, <4>2, RemoveCases, PacketsAssumption DEF Removes, InQueue
      <4>3. CASE queue[prio] # << >>
        BY <1>6, <4>1, <4>3, InQueueRemove DEF Removes, Prio
      <4>4. QED
        BY <4>2, <4>3
    <3>3. QED
      BY <1>1, <1>2, <2>1, <3>1, <3>2 DEF OvertakeInv, AtMostOneOvertakes, Between
  <2>3. CASE prio # HI /\ pp' # NULL
    <3>1. prio = TQ_PRIO_1_LO /\ pc["tx"] \in Between /\ pc'["tx"] \notin Between
      BY <1>6, <2>3 DEF Prio, Removes, Between
    <3>2. overtaken' = [p \in Packets |-> overtaken[p] + IF p \in InQueue(HI) THEN 1 ELSE 0]
      BY <1>6, <2>3, <3>1 DEF Removes, NoteOvertaking
    <3>3. \A p \in Packets : overtaken'[p] <= 1
      BY <1>2, <3>1, <3>2 DEF OvertakeInv, AtMostOneOvertakes, TypeOK
    <3>4. \A p \in Packets : packet[p] = "unused" => p \notin InQueue(HI)
      BY DEF OneOwner, Prio
    <3>5. \A p \in Packets : packet'[p] = "unused" => overtaken'[p] = 0
      BY <2>1, <3>2, <3>4 DEF OvertakeInv, TypeOK
    <3>6. QED
      BY <3>1, <3>3, <3>5 DEF OvertakeInv, AtMostOneOvertakes, Between
  <2>4. QED
    BY <2>2, <2>3
<1>7. CASE Frees
  <2>1. /\ overtaken' = overtaken
        /\ \A x \in Packets : packet'[x] = "unused" => packet[x] = "unused"
        /\ InQueue(HI)' = InQueue(HI)
    BY <1>7 DEF Frees, Freed, InQueue, TypeOK
  <2>2. QED
    BY <1>1, <1>2, <2>1 DEF OvertakeInv, AtMostOneOvertakes
<1>8. QED
  BY <1>4, <1>5, <1>6, <1>7, HeapCases DEF OvertakeInv, AtMostOneOvertakes, Between

-----------------------------------------------------------------------------
(* The invariants as theorems of the specification.                        *)

(* The inductive invariant holds in every reachable state.                 *)
THEOREM Invariance == Spec => []IInv
<1>1. IInv /\ [Next]_vars => IInv'
  BY ControlNext, OwnerNext, OvertakeNext DEF IInv, ControlInv
<1>2. QED
  BY InitIInv, <1>1, PTL DEF Spec

(* The variables keep their types; in particular the poll counter never    *)
(* passes WaitLimit + 1 and a transmission never passes MaxFrames frames.  *)
THEOREM TypeCorrect == Spec => []TypeOK
<1>1. IInv => TypeOK
  BY DEF IInv
<1>2. QED
  BY Invariance, <1>1, PTL

(* A frame seen by an unlocked peek is there when it is removed: tx_thread *)
(* never goes on with a null packet.                                       *)
THEOREM PeekSafe == Spec => []PeekedFrameIsThere
<1>1. IInv => PeekedFrameIsThere
  BY DEF IInv, PeekInv, PeekedFrameIsThere
<1>2. QED
  BY Invariance, <1>1, PTL

(* No packet is leaked, shared, deleted twice or used after its deletion.  *)
THEOREM Ownership == Spec => []OneOwner
<1>1. IInv => OneOwner
  BY DEF IInv
<1>2. QED
  BY Invariance, <1>1, PTL

(* The audio output is held to send and at no other time.                  *)
THEOREM AudioLock == Spec => []AudioHeldToSend
<1>1. IInv => AudioHeldToSend
  BY DEF IInv
<1>2. QED
  BY Invariance, <1>1, PTL

(* At most one low-priority packet overtakes a high-priority one.          *)
THEOREM BoundedOvertaking == Spec => []AtMostOneOvertakes
<1>1. IInv => AtMostOneOvertakes
  BY DEF IInv, OvertakeInv
<1>2. QED
  BY Invariance, <1>1, PTL

-----------------------------------------------------------------------------
(* The refinement of TransmitService.                                      *)

(* A step that moves the label within or outside the keyed labels and      *)
(* leaves the lists, the heap, the hand and the counts alone is a stutter. *)
LEMMA StutterMapped ==
  ASSUME UNCHANGED <<queue, packet, pp, numframe, seize_confirms>>, Keyed' = Keyed
  PROVE  UNCHANGED Service!vars
  BY DEF Service!vars

(* Initial states map to initial states.                                   *)
LEMMA RefineInit == Init => Service!Init
<1> SUFFICES ASSUME Init PROVE Service!Init
  OBVIOUS
<1>1. ~Keyed
  BY DEF Init, transmit_queue_init, Threads, Keyed, SendPC
<1>2. QED
  BY <1>1 DEF Init, transmit_queue_init, Service!Init, Prio, TQ_PRIO_0_HI, TQ_PRIO_1_LO

(* A step of the thread that leaves the heap alone ends a transmission or  *)
(* stutters.                                                               *)
LEMMA RefineMoves ==
  ASSUME IInv, ThreadMoves, UNCHANGED <<packet, wakeVars, overtaken, dcd, process>>
  PROVE  [Service!Next]_(Service!vars)
<1> USE DEF IInv, threadVars
<1>1. CASE UnlockAudio
  <2>1. Keyed /\ ~Keyed' /\ pp = NULL
    BY <1>1, TxTransition DEF UnlockAudio, Keyed, SendPC, TxPC, PeekPC, PeekInv
  <2>2. UNCHANGED <<queue, packet, pp, seize_confirms>>
    BY <1>1 DEF UnlockAudio
  <2>3. Service!Unkey
    BY <2>1, <2>2 DEF Service!Unkey
  <2>4. QED
    BY <2>3 DEF Service!Next
<1>2. CASE ThreadMoves /\ ~UnlockAudio
  <2>1. Keyed' = Keyed
    <3>1. CASE PeekHi \/ PeekLo
      BY <3>1, TxTransition DEF PeekHi, PeekLo, StartWaiting, TxPC, WaitPC, PeekPC,
         ChannelPC, Keyed, SendPC
    <3>2. CASE PollDcd \/ TryLockAudio
      BY <3>2, TxTransition DEF PollDcd, TryLockAudio, CountPoll, TxPC, ChannelPC,
         RemovePC, Keyed, SendPC
    <3>3. CASE Dwait \/ PeekHiForPersistence \/ SlotBusy \/ SlotWon \/ SlotLost
      BY <3>3, TxTransition DEF Dwait, PeekHiForPersistence, SlotBusy, SlotWon, SlotLost,
         TxPC, ChannelPC, Keyed, SendPC
    <3>4. CASE BatchPeekHi \/ BatchPeekLo \/ SendTail
      BY <3>4, TxTransition DEF BatchPeekHi, BatchPeekLo, SendTail, TxPC, Keyed, SendPC
    <3>5. QED
      BY <1>2, <3>1, <3>2, <3>3, <3>4 DEF ThreadMoves
  <2>2. UNCHANGED <<queue, packet, pp, numframe, seize_confirms>>
    BY <1>2 DEF ThreadMoves, PeekHi, PeekLo, PollDcd, Dwait, PeekHiForPersistence,
       SlotBusy, SlotWon, SlotLost, TryLockAudio, BatchPeekHi, BatchPeekLo, SendTail
  <2>3. QED
    BY <2>1, <2>2, StutterMapped
<1>3. QED
  BY <1>1, <1>2

(* A removal is a Take, or a stutter when the list is empty.               *)
LEMMA RefineTakes ==
  ASSUME IInv, NEW prio \in Prio, Takes(prio), UNCHANGED packet
  PROVE  [Service!Next]_(Service!vars)
<1> USE DEF IInv
<1>1. /\ transmit_queue_remove(prio, pp)
      /\ pp = NULL
      /\ UNCHANGED <<numframe, seize_confirms>>
  BY DEF Takes, RemoveHi, RemoveLo, BatchRemove, PeekInv, Transition
<1>2. Keyed' = Keyed
  BY TxTransition DEF Takes, RemoveHi, RemoveLo, BatchRemove, TxPC, RemovePC, SendPC, Keyed
<1>3. Keyed => numframe < MaxFrames
  BY DEF Takes, RemoveHi, RemoveLo, BatchRemove, Transition, CountInv, Keyed, SendPC
<1>4. CASE queue[prio] = << >>
  <2>1. UNCHANGED <<queue, pp>>
    BY <1>1, <1>4, RemoveCases
  <2>2. QED
    BY <1>1, <1>2, <2>1, StutterMapped
<1>5. CASE queue[prio] # << >>
  <2>1. /\ pp' = Head(queue[prio])
        /\ queue' = [queue EXCEPT ![prio] = Tail(queue[prio])]
    BY <1>1, <1>5, RemoveCases
  <2>2. Service!Take
    BY <1>1, <1>2, <1>3, <1>5, <2>1 DEF Service!Take, Prio, TQ_PRIO_0_HI, TQ_PRIO_1_LO
  <2>3. QED
    BY <2>2 DEF Service!Next
<1>6. QED
  BY <1>4, <1>5

(* Using the packet is GiveUp, Key, Send, Reject or Confirm.               *)
LEMMA RefineUses ==
  ASSUME IInv, UsesPacket
  PROVE  [Service!Next]_(Service!vars)
<1> USE DEF IInv
<1>1. pp \in Packets /\ queue' = queue /\ pp # NULL
  BY UsesPacketCases, PacketsAssumption DEF ControlInv
<1>2. CASE UsePacket
  <2>1. ~Keyed /\ Keyed' = Keyed /\ UNCHANGED <<numframe, seize_confirms>>
    BY <1>2, TxTransition DEF UsePacket, TxPC, PeekPC, SendPC, Keyed
  <2>2. CASE ok
    <3>1. UNCHANGED <<queue, packet, pp, numframe, seize_confirms>>
      BY <1>1, <1>2, <2>1, <2>2 DEF UsePacket
    <3>2. QED
      BY <2>1, <3>1, StutterMapped
  <2>3. CASE ~ok
    <3>1. packet' = [packet EXCEPT ![pp] = "dropped"] /\ pp' = NULL
      BY <1>1, <1>2, <2>3 DEF UsePacket
    <3>2. Service!GiveUp
      BY <1>1, <2>1, <3>1 DEF Service!GiveUp, Service!Finish
    <3>3. QED
      BY <3>2 DEF Service!Next
  <2>4. QED
    BY <2>2, <2>3
<1>3. CASE StartTransmission
  <2>1. ~Keyed /\ Keyed'
    BY <1>3, TxTransition DEF StartTransmission, TxPC, SendPC, Keyed
  <2>2. Service!Key
    BY <1>1, <1>3, <2>1 DEF StartTransmission, Service!Key
  <2>3. QED
    BY <2>2 DEF Service!Next
<1>4. CASE send_one_frame
  <2>1. Keyed /\ Keyed' /\ numframe < MaxFrames
    BY <1>4, TxTransition DEF send_one_frame, TxPC, SendPC, Keyed, CountInv
  <2>2. Service!Send \/ Service!Reject \/ Service!Confirm
    BY <1>1, <1>4, <2>1 DEF send_one_frame, Service!Send, Service!Reject, Service!Confirm,
       Service!Finish
  <2>3. QED
    BY <2>2 DEF Service!Next
<1>5. QED
  BY <1>2, <1>3, <1>4 DEF UsesPacket

(* Every step of the code is a step of the service or a stutter.           *)
LEMMA RefineNext ==
  ASSUME IInv, [Next]_vars
  PROVE  [Service!Next]_(Service!vars)
<1> USE DEF IInv
<1>1. CASE TxStep
  <2>1. CASE WaitNext /\ UNCHANGED <<threadVars, overtaken>>
    <3>1. Keyed' = Keyed
      BY <2>1, TxTransition DEF WaitNext, CheckEmpty, AnnounceWait, FallAsleep, WakeUp,
         TxPC, WaitPC, PeekPC, SendPC, Keyed
    <3>2. UNCHANGED <<queue, packet, pp, numframe, seize_confirms>>
      BY <2>1 DEF WaitNext, CheckEmpty, AnnounceWait, FallAsleep, WakeUp, threadVars
    <3>3. QED
      BY <3>1, <3>2, StutterMapped
  <2>2. QED
    BY <1>1, <2>1, RefineMoves, RefineTakes, RefineUses DEF TxStep, UsesPacket
<1>2. CASE ProducerStep
  <2>1. Keyed' = Keyed /\ UNCHANGED threadVars
    BY <1>2, ProducerCases DEF Keyed, ProducerStep
  <2>2. CASE UNCHANGED <<queue, packet>>
    BY <2>1, <2>2, StutterMapped DEF threadVars
  <2>3. ASSUME NEW prio \in Prio, NEW p \in Packets, Appends(prio, p)
        PROVE  Service!Submit
    BY <2>1, <2>3 DEF Service!Submit, Appends, AppendPacket, threadVars, Prio,
       TQ_PRIO_0_HI, TQ_PRIO_1_LO
  <2>4. QED
    BY <1>2, <2>2, <2>3, ProducerCases DEF Service!Next
<1>3. CASE DcdChange \/ Cleanup \/ UNCHANGED vars
           \/ (SpuriousWakeup /\ UNCHANGED <<threadVars, overtaken, dcd, process>>)
  BY <1>3, StutterMapped DEF DcdChange, Cleanup, SpuriousWakeup, vars, queueVars,
     threadVars, Keyed
<1>4. QED
  BY <1>1, <1>2, <1>3 DEF Next

(* The transmit thread implements the transmit service.                    *)
THEOREM Refinement == Spec => ImplementsService
<1>1. IInv /\ [Next]_vars => [Service!Next]_(Service!vars)
  BY RefineNext
<1>2. QED
  BY RefineInit, Invariance, <1>1, PTL DEF Spec, ImplementsService, Service!Spec
=============================================================================
