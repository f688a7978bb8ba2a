---------------------------- MODULE MCPacketQueue ----------------------------
(***************************************************************************)
(* The packet queue with two threads that push and two kinds of packets.   *)
(***************************************************************************)
EXTENDS PacketQueue
================================================================================
