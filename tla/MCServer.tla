-------------------------------- MODULE MCServer --------------------------------
(* The server with two endpoints. *)
EXTENDS Server, TLC
Perms == Permutations(Endpoints)
================================================================================
