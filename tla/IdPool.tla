-------------------------------- MODULE IdPool --------------------------------
(***************************************************************************)
(* What a dispenser of ids promises: an id that is handed out is in nobody *)
(* else's hands, only an id in use is given back, and a fresh id is drawn  *)
(* only when every id drawn so far is in use.                              *)
(*                                                                         *)
(* The server's table of clients implements it with a queue of ids given   *)
(* back (ClientTable), the ECS registry with a stack (Registry).           *)
(***************************************************************************)
EXTENDS Naturals

VARIABLES
    used,           \* the ids in use
    drawn           \* how many ids were ever drawn; they are 0 .. drawn - 1

poolVars == <<used, drawn>>

PoolInit == used = {} /\ drawn = 0

AllocUsedBefore ==
    /\ \E i \in (0 .. drawn - 1) \ used : used' = used \cup {i}
    /\ UNCHANGED drawn

AllocFresh ==
    /\ used = 0 .. drawn - 1
    /\ used' = used \cup {drawn}
    /\ drawn' = drawn + 1

Free ==
    /\ \E i \in used : used' = used \ {i}
    /\ UNCHANGED drawn

PoolNext == AllocUsedBefore \/ AllocFresh \/ Free

PoolSpec == PoolInit /\ [][PoolNext]_poolVars
================================================================================
