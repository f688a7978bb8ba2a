--------------------------- MODULE PacketQueueProofs ---------------------------
(***************************************************************************)
(* The packet queue for any number of pushing threads, any packets and any *)
(* bound: types, no lost wakeup, and the safety half of the refinement of  *)
(* the abstract queue.                                                     *)
(*                                                                         *)
(* QueueInv adds to the types what start and stop know of the flag and of  *)
(* the handler thread (the flag is set exactly between the two, and before *)
(* start there is no handler thread), and that one thread at a time is     *)
(* inside the queue: a pusher finds the room it saw when it took the mutex.*)
(***************************************************************************)
EXTENDS PacketQueue, TLAPS

FlagInv ==
    /\ m_running <=> main = "started"
    /\ main = "ready" => hpc = "none"

MutexInv ==
    /\ hpc = "test" => m_mutex
    /\ \A t \in Pushers :
           pushers[t] = "locked" => m_mutex /\ hpc # "test" /\ Len(m_queue) < MaxQueue
    /\ \A t, u \in Pushers : pushers[t] = "locked" /\ pushers[u] = "locked" => t = u

QueueInv == QueueTypeOK /\ FlagInv /\ MutexInv /\ NoLostWakeup

--------------------------------------------------------------------------------
LEMMA QueueInitInv == QueueInit => QueueInv
<1> SUFFICES ASSUME QueueInit PROVE QueueInv
  OBVIOUS
<1> USE QueueAssumption DEF QueueInit
<1>1. pushers \in [Pushers -> {"out", "locked", "notify"}]
  OBVIOUS
<1>2. m_queue \in Seq(Packets) /\ Len(m_queue) <= MaxQueue
  OBVIOUS
<1>3. hpc \in HandlerStates /\ packet \in Packets \cup {NoPacket}
  BY DEF HandlerStates
<1>4. QueueTypeOK
  BY <1>1, <1>2, <1>3 DEF QueueTypeOK
<1> QED
  BY <1>4 DEF QueueInv, FlagInv, MutexInv, NoLostWakeup

\* The steps of pushers ...
LEMMA PusherStep ==
    ASSUME QueueInv, NEW t \in Pushers, Pusher(t)
    PROVE  QueueInv'
<1> USE QueueAssumption DEF QueueInv
<1>1. CASE LockToPush(t)
  <2>1. QueueTypeOK'
    BY <1>1 DEF LockToPush, QueueTypeOK
  <2>2. FlagInv' /\ NoLostWakeup'
    BY <1>1 DEF LockToPush, QueueTypeOK, FlagInv, NoLostWakeup
  <2>3. MutexInv'
    BY <1>1 DEF LockToPush, QueueTypeOK, MutexInv
  <2> QED
    BY <2>1, <2>2, <2>3
<1>2. ASSUME NEW p \in Packets, Push(t, p)
      PROVE  QueueInv'
  <2>1. m_queue' \in Seq(Packets) /\ Len(m_queue') <= MaxQueue
    BY <1>2 DEF Push, QueueTypeOK, MutexInv
  <2>2. /\ pushers' \in [Pushers -> {"out", "locked", "notify"}]
        /\ pushers'[t] = "notify"
        /\ \A u \in Pushers : u # t => pushers'[u] = pushers[u]
    BY <1>2 DEF Push, QueueTypeOK
  <2>3. QueueTypeOK'
    BY <1>2, <2>1, <2>2 DEF Push, QueueTypeOK
  <2>4. \A u \in Pushers : pushers'[u] # "locked"
    BY <1>2, <2>2 DEF Push, MutexInv
  <2>5. MutexInv'
    BY <1>2, <2>4 DEF Push, MutexInv
  <2>6. FlagInv' /\ NoLostWakeup'
    BY <1>2, <2>2 DEF Push, FlagInv, NoLostWakeup
  <2> QED
    BY <2>3, <2>5, <2>6
<1>3. CASE Notify(t)
  <2>1. QueueTypeOK'
    BY <1>3 DEF Notify, QueueTypeOK
  <2>2. FlagInv' /\ NoLostWakeup'
    BY <1>3 DEF Notify, FlagInv, NoLostWakeup
  <2>3. MutexInv'
    BY <1>3 DEF Notify, QueueTypeOK, MutexInv
  <2> QED
    BY <2>1, <2>2, <2>3
<1> QED
  BY <1>1, <1>2, <1>3 DEF Pusher

\* ... of the handler thread ...
LEMMA HandlerStep ==
    ASSUME QueueInv, HandlerThread
    PROVE  QueueInv'
<1> USE DEF QueueInv
<1>1. CASE Check \/ LockToPop
  <2>1. QueueTypeOK'
    BY <1>1 DEF Check, LockToPop, QueueTypeOK, HandlerStates
  <2>2. FlagInv' /\ MutexInv' /\ NoLostWakeup'
    BY <1>1 DEF Check, LockToPop, FlagInv, MutexInv, NoLostWakeup
  <2> QED
    BY <2>1, <2>2
<1>2. CASE Sleep \/ Wake
  <2>1. QueueTypeOK'
    BY <1>2 DEF Sleep, Wake, QueueTypeOK, HandlerStates
  <2>2. FlagInv' /\ MutexInv' /\ NoLostWakeup'
    BY <1>2 DEF Sleep, Wake, FlagInv, MutexInv, NoLostWakeup
  <2> QED
    BY <2>1, <2>2
<1>3. CASE Pop
  <2>1. Head(m_queue) \in Packets /\ m_queue' \in Seq(Packets)
    BY <1>3 DEF Pop, QueueTypeOK
  <2>2. Len(m_queue') <= MaxQueue
    BY <1>3, QueueAssumption DEF Pop, QueueTypeOK
  <2>3. QueueTypeOK'
    BY <1>3, <2>1, <2>2, QueueAssumption DEF Pop, QueueTypeOK, HandlerStates
  <2>4. MutexInv'
    BY <1>3 DEF Pop, MutexInv
  <2>5. FlagInv' /\ NoLostWakeup'
    BY <1>3 DEF Pop, FlagInv, NoLostWakeup
  <2> QED
    BY <2>3, <2>4, <2>5
<1>4. CASE handlePacket
  <2>1. QueueTypeOK'
    BY <1>4, QueueAssumption DEF handlePacket, QueueTypeOK, HandlerStates
  <2>2. FlagInv' /\ MutexInv' /\ NoLostWakeup'
    BY <1>4 DEF handlePacket, FlagInv, MutexInv, NoLostWakeup
  <2> QED
    BY <2>1, <2>2
<1> QED
  BY <1>1, <1>2, <1>3, <1>4 DEF HandlerThread

\* ... of the main thread, and wakeups out of the blue.
LEMMA MainStep ==
    ASSUME QueueInv, SpuriousWake \/ start \/ stop \/ join
    PROVE  QueueInv'
<1> USE DEF QueueInv
<1>1. QueueTypeOK'
  BY DEF SpuriousWake, start, stop, join, QueueTypeOK, FlagInv, HandlerStates
<1>2. FlagInv'
  BY DEF SpuriousWake, start, stop, join, FlagInv
<1>3. MutexInv'
  BY DEF SpuriousWake, start, stop, join, MutexInv
<1>4. NoLostWakeup'
  BY DEF SpuriousWake, start, stop, join, NoLostWakeup
<1> QED
  BY <1>1, <1>2, <1>3, <1>4

LEMMA QueueStep ==
    ASSUME QueueInv, [QueueNext]_queueVars
    PROVE  QueueInv'
<1>1. CASE UNCHANGED queueVars
  BY <1>1 DEF queueVars, QueueInv, QueueTypeOK, FlagInv, MutexInv, NoLostWakeup
<1> QED
  BY <1>1, PusherStep, HandlerStep, MainStep DEF QueueNext

LEMMA QueueAlways == QueueSpec => []QueueInv
  BY QueueInitInv, QueueStep, PTL DEF QueueSpec

(***************************************************************************)
(* The variables of the queue keep their types: in particular the handler  *)
(* handles nothing but packets that were pushed.                           *)
(***************************************************************************)
THEOREM QueueTypes == QueueSpec => []QueueTypeOK
  BY QueueAlways, PTL DEF QueueInv

(***************************************************************************)
(* The handler never sleeps beside a packet that nobody is going to notify *)
(* it of, with any number of threads pushing (ThreadSafeQueue.hpp:18-30).  *)
(***************************************************************************)
THEOREM QueueWakes == QueueSpec => []NoLostWakeup
  BY QueueAlways, PTL DEF QueueInv

--------------------------------------------------------------------------------
\* Every step of the queue is a step of the abstract one, or none.
LEMMA FifoStep ==
    ASSUME QueueInv, [QueueNext]_queueVars
    PROVE  [Fifo!FifoNext]_Fifo!fifoVars
<1> USE DEF Fifo!FifoNext, Fifo!fifoVars
<1>1. CASE UNCHANGED queueVars
  BY <1>1 DEF queueVars
<1>2. ASSUME NEW t \in Pushers, Pusher(t)
      PROVE  [Fifo!FifoNext]_Fifo!fifoVars
  <2>1. CASE LockToPush(t) \/ Notify(t)
    BY <2>1 DEF LockToPush, Notify
  <2>2. ASSUME NEW p \in Packets, Push(t, p)
        PROVE  Fifo!Put(p)
    BY <2>2 DEF Push, Fifo!Put
  <2> QED
    BY <1>2, <2>1, <2>2 DEF Pusher
<1>3. CASE Check \/ LockToPop \/ Sleep \/ Wake \/ SpuriousWake \/ join
  BY <1>3 DEF Check, LockToPop, Sleep, Wake, SpuriousWake, join
<1>4. CASE Pop
  <2>1. Fifo!Take
    BY <1>4 DEF Pop, Fifo!Take, QueueInv, QueueTypeOK
  <2> QED
    BY <2>1
<1>5. CASE handlePacket
  <2>1. Fifo!Done
    BY <1>5 DEF handlePacket, Fifo!Done, QueueInv, QueueTypeOK
  <2> QED
    BY <2>1
<1>6. CASE start
  <2>1. Fifo!Open
    BY <1>6 DEF start, Fifo!Open, QueueInv, FlagInv
  <2> QED
    BY <2>1
<1>7. CASE stop
  <2>1. Fifo!Close
    BY <1>7 DEF stop, Fifo!Close, QueueInv, FlagInv
  <2> QED
    BY <2>1
<1> QED
  BY <1>1, <1>2, <1>3, <1>4, <1>5, <1>6, <1>7 DEF QueueNext, HandlerThread

(***************************************************************************)
(* The queue and its thread implement the abstract queue, for any number   *)
(* of pushing threads: packets are handled one at a time, in the order in  *)
(* which they were pushed, none twice and none left out                    *)
(* (PacketHandler.cpp:29-34).                                              *)
(***************************************************************************)
THEOREM QueueImplementsFifo == QueueSpec => Fifo!FifoSpec
<1>1. QueueInit => Fifo!FifoInit
  BY DEF QueueInit, Fifo!FifoInit
<1>2. QueueInv /\ [QueueNext]_queueVars => [Fifo!FifoNext]_Fifo!fifoVars
  BY FifoStep
<1> QED
  BY <1>1, <1>2, QueueAlways, PTL DEF QueueSpec, Fifo!FifoSpec
================================================================================
