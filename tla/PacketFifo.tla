------------------------------ MODULE PacketFifo ------------------------------
(***************************************************************************)
(* What the packet queue and the thread behind it promise together: the    *)
(* packets that are handed in are handled one at a time, in the order they *)
(* came, none twice and none left out, and as long as the handler runs     *)
(* none waits for ever.                                                    *)
(*                                                                         *)
(* PacketQueue implements it with a mutex, a condition variable and a      *)
(* thread; Server uses it as its queue of packets.                         *)
(***************************************************************************)
EXTENDS Naturals, Sequences

CONSTANTS
    Packets,        \* the packets there are
    NoPacket        \* no packet is being handled

VARIABLES
    waiting,        \* the packets handed in and not yet taken, oldest first
    inHand,         \* the packet being handled
    open            \* the handler is to go on taking packets

fifoVars == <<waiting, inHand, open>>

FifoInit ==
    /\ waiting = <<>>
    /\ inHand = NoPacket
    /\ open \in BOOLEAN

Put(p) ==
    /\ waiting' = Append(waiting, p)
    /\ UNCHANGED <<inHand, open>>

Take ==
    /\ inHand = NoPacket
    /\ waiting # <<>>
    /\ inHand' = Head(waiting)
    /\ waiting' = Tail(waiting)
    /\ UNCHANGED open

Done ==
    /\ inHand # NoPacket
    /\ inHand' = NoPacket
    /\ UNCHANGED <<waiting, open>>

Open == ~open /\ open' = TRUE /\ UNCHANGED <<waiting, inHand>>

\* A packet may still be taken after the queue was closed.
Close == open /\ open' = FALSE /\ UNCHANGED <<waiting, inHand>>

FifoNext == (\E p \in Packets : Put(p)) \/ Take \/ Done \/ Open \/ Close

FifoSpec == FifoInit /\ [][FifoNext]_fifoVars

FairFifoSpec ==
    FifoSpec /\ WF_fifoVars(open /\ Take) /\ WF_fifoVars(Done)
================================================================================
