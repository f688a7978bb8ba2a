------------------------------ MODULE MCSession ------------------------------
(***************************************************************************)
(* Two clients of one server, and the ids of its table as a dispenser.     *)
(***************************************************************************)
EXTENDS Session, TLC

Perms == Permutations(Endpoints)
================================================================================
