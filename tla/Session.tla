-------------------------------- MODULE Session --------------------------------
(***************************************************************************)
(* Clients and server at the two ends of a network: how clients come,      *)
(* learn of a game, play in it, leave and come back (Client.cpp main_loop, *)
(* PacketHandler.cpp, Server.cpp, the players of Game.cpp and AGame.cpp).  *)
(*                                                                         *)
(* Datagrams may be lost, repeated and overtake one another: UDP allows    *)
(* it, and neither side retries anything.  A client may vanish without a   *)
(* word (SIGINT closes its socket before it sends its last packet), and    *)
(* may be started again with the same port.                                *)
(*                                                                         *)
(* Inside, both ends are taken at their word: a handler runs in one step   *)
(* and knows its packet's sender, as it does when no later datagram comes  *)
(* in between (Server!QuietAttribution); a client acts upon the packet it  *)
(* gets (Client!HandedOver).  A game's players are there when it starts,   *)
(* and none dies: what game threads do besides is in module Game.          *)
(***************************************************************************)
EXTENDS ClientTable

CONSTANTS
    MaxFlight,      \* bound: datagrams on their way
    MaxGames        \* bound: accepted GAME_STARTs

ASSUME SessionAssumption == MaxFlight \in Nat \ {0} /\ MaxGames \in Nat

VARIABLES
    mode,           \* where each client is: off, lobby, game, playing
    toServer,       \* datagrams on their way to the server: <<type, endpoint>>
    toClients,      \* datagrams on their way to a client: <<type, endpoint>>
    announcing,     \* a GAME_START is in send_queue_
    game_running,
    games,          \* accepted GAME_STARTs
    players,        \* the ids of the players in the game
    playerActions,  \* the ids of the players with actions to be processed
    aborted,        \* an exception nobody caught has ended the server
    lost,           \* history: the clients that missed a datagram
    seated          \* history: the clients a game was started for

clientVars == <<mode, toServer>>
gameVars == <<players, playerActions, aborted>>
startVars == <<announcing, game_running, games, seated>>
sessionVars ==
    <<tableVars, clientVars, toClients, startVars, gameVars, lost>>

\* The datagrams to a client that its main loop looks at before it plays.
Answers == {"GAME_START", "GAME_STARTED"}
Requests == {"REQCONNECT", "DISCONNECTED", "GAME_START", "GAME_END", "MOVE"}

SessionInit ==
    /\ TableInit
    /\ mode = [e \in Endpoints |-> "off"]
    /\ toServer = {} /\ toClients = {}
    /\ announcing = FALSE /\ game_running = FALSE /\ games = 0
    /\ players = {} /\ playerActions = {} /\ aborted = FALSE
    /\ lost = {} /\ seated = {}

--------------------------------------------------------------------------------
(* The clients.  Once the server has aborted, what they do is of no interest. *)

On(e) == ~aborted /\ mode[e] # "off"

\* What no longer fits on its way is lost.
Fits(up, down) == Cardinality(up) + Cardinality(down) <= MaxFlight

\* Any of the datagrams may get lost at once.
Sends(e, types) ==
    \E sent \in SUBSET types :
        /\ toServer' = toServer \cup (sent \X {e})
        /\ Fits(toServer', toClients)
        /\ lost' = IF sent # types THEN lost \cup {e}
                   ELSE IF "REQCONNECT" \in types THEN lost \ {e} ELSE lost

\* main_loop begins with REQCONNECT.  What an earlier run of the client missed
\* does not count.
Start(e) ==
    /\ ~aborted /\ mode[e] = "off"
    /\ mode' = [mode EXCEPT ![e] = "lobby"]
    /\ Sends(e, {"REQCONNECT"})
    /\ UNCHANGED <<tableVars, toClients, startVars, gameVars>>

\* A click on the button: the client does not wait for an answer.
ClickStart(e) ==
    /\ On(e) /\ mode[e] = "lobby"
    /\ mode' = [mode EXCEPT ![e] = "game"]
    /\ Sends(e, {"GAME_START"})
    /\ UNCHANGED <<tableVars, toClients, startVars, gameVars>>

\* A CREATE_PLAYER, broadcast like everything else, has come: from now on
\* playerAliveStatus_ lets the keys through.  After resetValues the packet's id
\* is 0, whatever the client's own id may be.
SeePlayer(e) ==
    /\ On(e) /\ mode[e] = "game"
    /\ 0 \in players /\ e \in Registered
    /\ mode' = [mode EXCEPT ![e] = "playing"]
    /\ UNCHANGED <<tableVars, toServer, toClients, startVars, gameVars, lost>>

PressKey(e) ==
    /\ On(e) /\ mode[e] = "playing"
    /\ Sends(e, {"MOVE"})
    /\ UNCHANGED <<tableVars, mode, toClients, startVars, gameVars>>

\* The window is closed: sendExitPacket, and GAME_END before it for Escape and
\* for the last player in the client's sight.
Leave(e) ==
    /\ On(e)
    /\ mode' = [mode EXCEPT ![e] = "off"]
    /\ \E goodbyes \in {{"DISCONNECTED"}, {"GAME_END", "DISCONNECTED"}} :
           /\ mode[e] = "lobby" => goodbyes = {"DISCONNECTED"}
           /\ Sends(e, goodbyes)
    /\ UNCHANGED <<tableVars, toClients, startVars, gameVars>>

\* SIGINT, or worse.
Vanish(e) ==
    /\ On(e)
    /\ mode' = [mode EXCEPT ![e] = "off"]
    /\ UNCHANGED <<tableVars, toServer, toClients, startVars, gameVars, lost>>

\* GAME_STARTED makes a client leave at once and say nothing, wherever it is;
\* GAME_START leads from the lobby into the game.  The datagram may come again.
Receive(e, type) ==
    /\ ~aborted
    /\ <<type, e>> \in toClients
    /\ toClients' \in {toClients, toClients \ {<<type, e>>}}
    /\ mode' = [mode EXCEPT ![e] = IF type = "GAME_STARTED" THEN "off"
                                  ELSE IF @ = "lobby" THEN "game" ELSE @]
    /\ UNCHANGED <<tableVars, toServer, startVars, gameVars, lost>>

--------------------------------------------------------------------------------
(* The server. *)

\* A packet is taken from the network, from which it may come again.
Takes(type, e) ==
    /\ ~aborted
    /\ <<type, e>> \in toServer
    /\ toServer' \in {toServer, toServer \ {<<type, e>>}}

Answer(ds) ==
    \E sent \in SUBSET ds :
        /\ toClients' = toClients \cup sent
        /\ Fits(toServer', toClients')
        /\ lost' = lost \cup {d[2] : d \in ds \ sent}

\* Mutant: a client that comes during a game is not told of it.
reqConnectSilent(e) ==
    /\ Takes("REQCONNECT", e)
    /\ createClient(e)
    /\ UNCHANGED <<mode, toClients, startVars, gameVars, lost>>

\* GAME_NOT_STARTED makes no difference to a client.
reqConnect(e) ==
    /\ Takes("REQCONNECT", e)
    /\ createClient(e)
    /\ Answer(IF game_running THEN {<<"GAME_STARTED", e>>} ELSE {})
    /\ UNCHANGED <<mode, startVars, gameVars>>

\* Nor does NONE, the answer to a client that is not registered.
handleDisconnected(e) ==
    /\ Takes("DISCONNECTED", e)
    /\ disconnectData(e) \/ (e \notin Registered /\ UNCHANGED tableVars)
    /\ seated' = seated \ {e}
    /\ UNCHANGED <<mode, toClients, announcing, game_running, games, gameVars, lost>>

\* Mutant: players are counted from one.
initializePlayersFromOne(n) == players \cup 1 .. n

\* Players of an earlier game that are still there keep their places.
initializePlayers(n) == players \cup 0 .. n - 1

\* The players' ids are counted up, whatever the clients' are.  A push on
\* send_queue_ may be lost when a game thread pushes at the same time.
handleGameStart(e) ==
    /\ Takes("GAME_START", e)
    /\ \/ game_running /\ UNCHANGED <<startVars, players>>
       \/ /\ ~game_running
          /\ games < MaxGames
          /\ game_running' = TRUE
          /\ games' = games + 1
          /\ announcing' \in {TRUE} \cup (IF games > 0 THEN {announcing} ELSE {})
          /\ players' = initializePlayers(Cardinality(DOMAIN clients))
          /\ seated' = IF available_ids = <<>> THEN Registered ELSE {}
    /\ UNCHANGED <<tableVars, mode, toClients, playerActions, aborted, lost>>

\* m_game.stop() empties the game, but for the actions.
handleGameEnd(e) ==
    /\ Takes("GAME_END", e)
    /\ game_running' = FALSE
    /\ players' = IF game_running THEN {} ELSE players
    /\ UNCHANGED <<tableVars, mode, toClients, announcing, games, seated, playerActions,
                   aborted, lost>>

IdOf(e) == CHOOSE i \in DOMAIN clients : clients[i] = e

handlePlayerAction(e) ==
    /\ Takes("MOVE", e)
    /\ playerActions' = IF game_running /\ e \in Registered
                        THEN playerActions \cup {IdOf(e)} ELSE playerActions
    /\ UNCHANGED <<tableVars, mode, toClients, startVars, players, aborted, lost>>

\* The send timer: the message goes to those that are registered by now.
handle_send_timer ==
    /\ ~aborted
    /\ announcing
    /\ announcing' = FALSE
    /\ UNCHANGED toServer
    /\ Answer({"GAME_START"} \X Registered)
    /\ UNCHANGED <<tableVars, mode, game_running, games, seated, gameVars>>

\* handlePlayerMove throws for a player that is not there, on a thread that
\* catches nothing.
processPlayerActions(i) ==
    /\ ~aborted
    /\ IF i \in players THEN playerActions' = playerActions \ {i} /\ UNCHANGED aborted
                        ELSE aborted' = TRUE /\ UNCHANGED playerActions
    /\ UNCHANGED <<tableVars, clientVars, toClients, startVars, players, lost>>

--------------------------------------------------------------------------------
Clients(e) ==
    \/ Start(e) \/ ClickStart(e) \/ SeePlayer(e) \/ PressKey(e) \/ Leave(e) \/ Vanish(e)
    \/ \E type \in Answers : Receive(e, type)

Handler(e) ==
    \/ reqConnect(e) \/ handleDisconnected(e)
    \/ handleGameStart(e) \/ handleGameEnd(e) \/ handlePlayerAction(e)

SessionNext ==
    \/ \E e \in Endpoints : Clients(e) \/ Handler(e)
    \/ handle_send_timer
    \/ \E i \in playerActions : processPlayerActions(i)

SessionSpec == SessionInit /\ [][SessionNext]_sessionVars

--------------------------------------------------------------------------------
(***************************************************************************)
(* The types of the variables.                                             *)
(***************************************************************************)
SessionTypeOK ==
    /\ TableTypeOK
    /\ mode \in [Endpoints -> {"off", "lobby", "game", "playing"}]
    /\ toServer \subseteq Requests \X Endpoints
    /\ toClients \subseteq Answers \X Endpoints
    /\ announcing \in BOOLEAN /\ game_running \in BOOLEAN /\ games \in Nat
    /\ players \subseteq Nat /\ playerActions \subseteq Nat /\ aborted \in BOOLEAN
    /\ lost \subseteq Endpoints /\ seated \subseteq Endpoints

(***************************************************************************)
(* A client has a player of its own in the game that was started while it  *)
(* was registered, provided that nobody had left and given an id back by   *)
(* then.  The game numbers its players from zero and never looks at the    *)
(* clients' ids (Game.cpp:15-20, PacketHandler.cpp:89,93); that they match *)
(* rests on how createClient draws and reuses ids (Server.cpp:100-104).    *)
(***************************************************************************)
OwnPlayer ==
    game_running => \A e \in seated : \E i \in players \cap DOMAIN clients : clients[i] = e

(***************************************************************************)
(* A client that waits in its lobby while the server has it registered and *)
(* runs the first game gets to know of it, unless a datagram is lost: the  *)
(* GAME_START is still to be sent, or its request or the answer is on its  *)
(* way, in whatever order clients connect, start, leave and come back      *)
(* (PacketHandler.cpp:87-90, Server.cpp:117-122, Client.cpp:260-272).      *)
(***************************************************************************)
Waits(e) == mode[e] = "lobby" /\ e \in Registered /\ game_running /\ games = 1

NewsFor(e) ==
    \/ announcing
    \/ <<"REQCONNECT", e>> \in toServer
    \/ \E type \in Answers : <<type, e>> \in toClients

NotForgotten == \A e \in Endpoints : Waits(e) => NewsFor(e) \/ e \in lost

(***************************************************************************)
(* "[ERROR] Invalid player ID" (Game.cpp:144) is an error the server       *)
(* reports and survives: a move in a running game, from whichever          *)
(* registered client, does not end the server.                             *)
(***************************************************************************)
MovesSurvived == game_running => ~aborted
================================================================================
