------------------------------ MODULE PacketQueue ------------------------------
(***************************************************************************)
(* ThreadSafeQueue (Network/include/ThreadSafeQueue.hpp) and the thread    *)
(* that PacketHandler runs on it (Network/src/PacketHandler.cpp): a mutex, *)
(* a condition variable, and the flag m_running with which the main thread *)
(* starts and stops the handler.                                           *)
(*                                                                         *)
(* A step ends where a thread takes or gives back the mutex, goes to sleep *)
(* on the condition variable or reads or writes m_running.  notify_one     *)
(* comes after the mutex is given back, as in the code.  Handling a packet *)
(* is one step; module Server has its inside.                              *)
(***************************************************************************)
EXTENDS Naturals, Sequences

CONSTANTS
    Pushers,        \* the threads that push; the server has one, the io thread
    Packets,        \* the packets they push
    NoPacket,       \* no packet in the handler's hands
    MaxQueue        \* bound: packets waiting

ASSUME QueueAssumption ==
    /\ NoPacket \notin Packets
    /\ MaxQueue \in Nat \ {0}

VARIABLES
    m_queue,
    m_mutex,        \* whether the mutex is held
    sleeping,       \* the handler waits on m_cond_var and nobody woke it
    m_running,
    pushers,        \* where each pusher is: out, locked, notify
    hpc,            \* where the handler thread is
    packet,         \* the packet it popped
    main            \* where the main thread is: ready, started, joining, joined

queueVars == <<m_queue, m_mutex, sleeping, m_running, pushers, hpc, packet, main>>

HandlerStates ==
    {"none", "check", "lock", "test", "wait", "handle", "ended"}

QueueInit ==
    /\ m_queue = <<>>
    /\ m_mutex = FALSE
    /\ sleeping = FALSE
    /\ m_running = FALSE
    /\ pushers = [t \in Pushers |-> "out"]
    /\ hpc = "none"
    /\ packet = NoPacket
    /\ main = "ready"

--------------------------------------------------------------------------------
(* ThreadSafeQueue::push *)

LockToPush(t) ==
    /\ pushers[t] = "out"
    /\ ~m_mutex
    /\ Len(m_queue) < MaxQueue
    /\ m_mutex' = TRUE
    /\ pushers' = [pushers EXCEPT ![t] = "locked"]
    /\ UNCHANGED <<m_queue, sleeping, m_running, hpc, packet, main>>

\* The guard's scope ends with the packet in the queue.
Push(t, p) ==
    /\ pushers[t] = "locked"
    /\ m_queue' = Append(m_queue, p)
    /\ m_mutex' = FALSE
    /\ pushers' = [pushers EXCEPT ![t] = "notify"]
    /\ UNCHANGED <<sleeping, m_running, hpc, packet, main>>

\* Mutant: only a packet that found the queue empty wakes the handler.
NotifyWhenFirst(t) ==
    /\ pushers[t] = "notify"
    /\ pushers' = [pushers EXCEPT ![t] = "out"]
    /\ sleeping' = (sleeping /\ Len(m_queue) # 1)
    /\ UNCHANGED <<m_queue, m_mutex, m_running, hpc, packet, main>>

\* notify_one: there is one thread at most to wake.
Notify(t) ==
    /\ pushers[t] = "notify"
    /\ pushers' = [pushers EXCEPT ![t] = "out"]
    /\ sleeping' = FALSE
    /\ UNCHANGED <<m_queue, m_mutex, m_running, hpc, packet, main>>

--------------------------------------------------------------------------------
(* PacketHandler::processPackets, and ThreadSafeQueue::pop inside it *)

Check ==
    /\ hpc = "check"
    /\ hpc' = IF m_running THEN "lock" ELSE "ended"
    /\ UNCHANGED <<m_queue, m_mutex, sleeping, m_running, pushers, packet, main>>

LockToPop ==
    /\ hpc = "lock"
    /\ ~m_mutex
    /\ m_mutex' = TRUE
    /\ hpc' = "test"
    /\ UNCHANGED <<m_queue, sleeping, m_running, pushers, packet, main>>

\* wait: the predicate fails; the mutex is given back and the thread put to
\* sleep in one step.
Sleep ==
    /\ hpc = "test"
    /\ m_queue = <<>>
    /\ m_mutex' = FALSE
    /\ sleeping' = TRUE
    /\ hpc' = "wait"
    /\ UNCHANGED <<m_queue, m_running, pushers, packet, main>>

\* Mutant: woken, the thread takes the packet without testing.
WakeTrusting ==
    /\ hpc = "wait"
    /\ ~sleeping
    /\ ~m_mutex
    /\ IF m_queue = <<>> THEN hpc' = "handle" /\ UNCHANGED m_mutex
                         ELSE hpc' = "test" /\ m_mutex' = TRUE
    /\ UNCHANGED <<m_queue, sleeping, m_running, pushers, packet, main>>

\* Woken, the thread takes the mutex again and tests again.
Wake ==
    /\ hpc = "wait"
    /\ ~sleeping
    /\ ~m_mutex
    /\ m_mutex' = TRUE
    /\ hpc' = "test"
    /\ UNCHANGED <<m_queue, sleeping, m_running, pushers, packet, main>>

\* A condition variable may wake its thread unasked.
SpuriousWake ==
    /\ sleeping
    /\ sleeping' = FALSE
    /\ UNCHANGED <<m_queue, m_mutex, m_running, pushers, hpc, packet, main>>

\* Mutant: the newest packet is taken.
PopNewest ==
    /\ hpc = "test"
    /\ m_queue # <<>>
    /\ packet' = m_queue[Len(m_queue)]
    /\ m_queue' = SubSeq(m_queue, 1, Len(m_queue) - 1)
    /\ m_mutex' = FALSE
    /\ hpc' = "handle"
    /\ UNCHANGED <<sleeping, m_running, pushers, main>>

Pop ==
    /\ hpc = "test"
    /\ m_queue # <<>>
    /\ packet' = Head(m_queue)
    /\ m_queue' = Tail(m_queue)
    /\ m_mutex' = FALSE
    /\ hpc' = "handle"
    /\ UNCHANGED <<sleeping, m_running, pushers, main>>

\* Mutant: the flag is not looked at again.
handlePacketForEver ==
    /\ hpc = "handle"
    /\ packet' = NoPacket
    /\ hpc' = "lock"
    /\ UNCHANGED <<m_queue, m_mutex, sleeping, m_running, pushers, main>>

\* handlePacket, and back to the loop's condition.
handlePacket ==
    /\ hpc = "handle"
    /\ packet' = NoPacket
    /\ hpc' = "check"
    /\ UNCHANGED <<m_queue, m_mutex, sleeping, m_running, pushers, main>>

--------------------------------------------------------------------------------
(* The main thread: PacketHandler::start and stop *)

start ==
    /\ main = "ready"
    /\ m_running' = TRUE
    /\ hpc' = "check"
    /\ main' = "started"
    /\ UNCHANGED <<m_queue, m_mutex, sleeping, pushers, packet>>

\* stop sets the flag and joins; it does not notify m_cond_var.
stop ==
    /\ main = "started"
    /\ m_running' = FALSE
    /\ main' = "joining"
    /\ UNCHANGED <<m_queue, m_mutex, sleeping, pushers, hpc, packet>>

join ==
    /\ main = "joining"
    /\ hpc = "ended"
    /\ main' = "joined"
    /\ UNCHANGED <<m_queue, m_mutex, sleeping, m_running, pushers, hpc, packet>>

--------------------------------------------------------------------------------
Pusher(t) == LockToPush(t) \/ (\E p \in Packets : Push(t, p)) \/ Notify(t)

HandlerThread ==
    Check \/ LockToPop \/ Sleep \/ Wake \/ Pop \/ handlePacket

QueueNext ==
    \/ \E t \in Pushers : Pusher(t)
    \/ HandlerThread \/ SpuriousWake
    \/ start \/ stop \/ join

QueueSpec == QueueInit /\ [][QueueNext]_queueVars

\* A pusher that has begun ends its push, but need not begin another one.
\* The mutex may be taken by pushers again and again: SF says that the
\* handler, which waits for it, is not passed over for ever.  The condition
\* variable owes nobody a spurious wakeup.
QueueFairness ==
    /\ \A t \in Pushers : WF_queueVars((\E p \in Packets : Push(t, p)) \/ Notify(t))
    /\ SF_queueVars(LockToPop) /\ SF_queueVars(Wake)
    /\ WF_queueVars(Check \/ Sleep \/ Pop \/ handlePacket)
    /\ WF_queueVars(join)

FairQueueSpec == QueueSpec /\ QueueFairness

--------------------------------------------------------------------------------
(***************************************************************************)
(* The types of the variables.                                             *)
(***************************************************************************)
QueueTypeOK ==
    /\ m_queue \in Seq(Packets)
    /\ Len(m_queue) <= MaxQueue
    /\ m_mutex \in BOOLEAN
    /\ sleeping \in BOOLEAN
    /\ m_running \in BOOLEAN
    /\ pushers \in [Pushers -> {"out", "locked", "notify"}]
    /\ hpc \in HandlerStates
    /\ packet \in Packets \cup {NoPacket}
    /\ hpc = "handle" <=> packet # NoPacket
    /\ main \in {"ready", "started", "joining", "joined"}

(***************************************************************************)
(* No wakeup is lost: the handler sleeps beside a packet only while        *)
(* whoever pushed it is still to notify, although the notification comes   *)
(* after the mutex is given back (ThreadSafeQueue.hpp:18-24,30).           *)
(***************************************************************************)
NoLostWakeup ==
    sleeping /\ m_queue # <<>> => \E t \in Pushers : pushers[t] = "notify"

(***************************************************************************)
(* The queue and its thread implement the abstract queue: packets are      *)
(* handled in the order they were pushed, each once, and none waits for    *)
(* ever while the handler is to run (PacketHandler.cpp:29-34).             *)
(***************************************************************************)
Fifo == INSTANCE PacketFifo WITH
    waiting <- m_queue, inHand <- packet, open <- m_running

ImplementsFifo == Fifo!FairFifoSpec

(***************************************************************************)
(* stop() returns whenever a packet waits or still comes in: the handler   *)
(* is then not left in pop(), which is where stop() would join it for ever *)
(* (PacketHandler.cpp:23-27,31).                                           *)
(***************************************************************************)
StopReturns == (main = "joining" /\ m_queue # <<>>) ~> (main = "joined")
================================================================================
