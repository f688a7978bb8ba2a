-------------------------------- MODULE MCClient --------------------------------
(* The client with the packets of a game of one player, whose id is not the one
   that a reset leaves; and one that finds a game running. *)
EXTENDS Client
P(a, i) == [action |-> a, id |-> i]
Lively == {P("GAME_START", 0), P("HEARTBEAT", 0), P("CREATE_PLAYER", 1)}
Unset == {P("GAME_STARTED", 0), P("DESTROY_PLAYER", 1)}
Late == {P("GAME_STARTED", 0), P("CREATE_PLAYER", 1)}
Zero == {P("NONE", 0)}
================================================================================
