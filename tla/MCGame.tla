-------------------------------- MODULE MCGame --------------------------------
(* The game with two positions and little hp. *)
EXTENDS Game
================================================================================
