-------------------------------- MODULE MCStream --------------------------------
(***************************************************************************)
(* One game with two figures and a bullet, seen by one client.             *)
(***************************************************************************)
EXTENDS Stream
================================================================================
