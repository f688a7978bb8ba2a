------------------------------ MODULE MCEntities ------------------------------
(***************************************************************************)
(* A place among the players and one among the enemies, two threads that   *)
(* spawn, and a registry that draws two ids.                               *)
(***************************************************************************)
EXTENDS Entities, TLC

\* The threads do the same things.
Symmetry == Permutations(Threads)
================================================================================
