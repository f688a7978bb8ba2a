----------------------------- MODULE SessionProofs -----------------------------
(***************************************************************************)
(* What Session promises for any number of clients, any network that       *)
(* loses, repeats and reorders, and any number of games.                   *)
(*                                                                         *)
(* The table's invariants carry over from ClientTableProofs.  OwnPlayer    *)
(* needs that a seated client is registered, so that its id goes on naming *)
(* it, and the partition of ids, by which the ids of a table without free  *)
(* ones are counted up from zero, as the players' are.                     *)
(***************************************************************************)
EXTENDS Session, ClientTableProofs

SessionInv == SessionTypeOK /\ IdPartition /\ OneIdPerEndpoint /\ NotForgotten

--------------------------------------------------------------------------------
\* Nothing that a client does touches the server's table or its games.
LEMMA ClientsKeep ==
    ASSUME NEW e \in Endpoints, Clients(e)
    PROVE  UNCHANGED <<tableVars, startVars, gameVars>>
  BY DEF Clients, Start, ClickStart, SeePlayer, PressKey, Leave, Vanish, Receive

\* What the server does with its table.
LEMMA StepOfTable == [SessionNext]_sessionVars => [TableNext]_tableVars
<1> SUFFICES ASSUME [SessionNext]_sessionVars PROVE [TableNext]_tableVars
  OBVIOUS
<1>1. ASSUME NEW e \in Endpoints, Clients(e) PROVE [TableNext]_tableVars
  BY <1>1, ClientsKeep
<1>2. ASSUME NEW e \in Endpoints, Handler(e) PROVE [TableNext]_tableVars
  BY <1>2 DEF Handler, reqConnect, handleDisconnected, handleGameStart, handleGameEnd,
              handlePlayerAction, TableNext
<1>3. CASE handle_send_timer
  BY <1>3 DEF handle_send_timer
<1>4. ASSUME NEW i \in playerActions, processPlayerActions(i)
      PROVE  [TableNext]_tableVars
  BY <1>4 DEF processPlayerActions
<1>5. CASE UNCHANGED sessionVars
  BY <1>5 DEF sessionVars
<1> QED
  BY <1>1, <1>2, <1>3, <1>4, <1>5 DEF SessionNext

LEMMA TableOfInv == SessionTypeOK /\ IdPartition /\ OneIdPerEndpoint => TableInv
  BY DEF SessionTypeOK, TableInv

\* Who is registered is an endpoint.
LEMMA RegisteredType == TableTypeOK => Registered \subseteq Endpoints
  BY DEF TableTypeOK, Registered, Range

--------------------------------------------------------------------------------
(* The types. *)

LEMMA ClientsTypes ==
    ASSUME SessionTypeOK, TableTypeOK', NEW e \in Endpoints, Clients(e)
    PROVE  SessionTypeOK'
<1>1. UNCHANGED <<startVars, gameVars>>
  BY ClientsKeep
<1>2. ASSUME NEW types \in SUBSET Requests, Sends(e, types)
      PROVE  toServer' \subseteq Requests \X Endpoints /\ lost' \subseteq Endpoints
  BY <1>2 DEF Sends, SessionTypeOK
<1>3. CASE Start(e)
  BY <1>1, <1>2, <1>3 DEF Start, SessionTypeOK, startVars, gameVars, Requests
<1>4. CASE ClickStart(e)
  BY <1>1, <1>2, <1>4 DEF ClickStart, SessionTypeOK, startVars, gameVars, Requests
<1>5. CASE SeePlayer(e)
  BY <1>1, <1>5 DEF SeePlayer, SessionTypeOK, startVars, gameVars
<1>6. CASE PressKey(e)
  BY <1>1, <1>2, <1>6 DEF PressKey, SessionTypeOK, startVars, gameVars, Requests
<1>7. CASE Leave(e)
  <2>1. PICK goodbyes \in {{"DISCONNECTED"}, {"GAME_END", "DISCONNECTED"}} :
            Sends(e, goodbyes)
    BY <1>7 DEF Leave
  <2>2. toServer' \subseteq Requests \X Endpoints /\ lost' \subseteq Endpoints
    BY <1>2, <2>1 DEF Requests
  <2> QED
    BY <1>1, <1>7, <2>2 DEF Leave, SessionTypeOK, startVars, gameVars
<1>8. CASE Vanish(e)
  BY <1>1, <1>8 DEF Vanish, SessionTypeOK, startVars, gameVars
<1>9. ASSUME NEW type \in Answers, Receive(e, type) PROVE SessionTypeOK'
  <2>1. mode' \in [Endpoints -> {"off", "lobby", "game", "playing"}]
    BY <1>9 DEF Receive, SessionTypeOK
  <2>2. toClients' \subseteq toClients /\ UNCHANGED <<toServer, lost>>
    BY <1>9 DEF Receive
  <2> QED
    BY <1>1, <2>1, <2>2 DEF SessionTypeOK, startVars, gameVars
<1> QED
  BY <1>3, <1>4, <1>5, <1>6, <1>7, <1>8, <1>9 DEF Clients

LEMMA HandlerTypes ==
    ASSUME SessionTypeOK, IdPartition, TableTypeOK', NEW e \in Endpoints, Handler(e)
    PROVE  SessionTypeOK'
<1> USE DEF SessionTypeOK
<1>1. CASE reqConnect(e)
  <2>1. toServer' \subseteq toServer
    BY <1>1 DEF reqConnect, Takes
  <2>2. toClients' \subseteq Answers \X Endpoints /\ lost' \subseteq Endpoints
    BY <1>1 DEF reqConnect, Answer, Answers
  <2> QED
    BY <1>1, <2>1, <2>2 DEF reqConnect, startVars, gameVars
<1>2. CASE handleDisconnected(e)
  <2>1. toServer' \subseteq toServer
    BY <1>2 DEF handleDisconnected, Takes
  <2> QED
    BY <1>2, <2>1 DEF handleDisconnected, gameVars
<1>3. CASE handleGameStart(e)
  <2>1. toServer' \subseteq toServer
    BY <1>3 DEF handleGameStart, Takes
  <2>2. /\ players' \subseteq Nat /\ seated' \subseteq Endpoints
        /\ announcing' \in BOOLEAN /\ game_running' \in BOOLEAN /\ games' \in Nat
    <3>1. CASE UNCHANGED <<startVars, players>>
      BY <3>1 DEF startVars
    <3>2. CASE ~UNCHANGED <<startVars, players>>
      <4>1. /\ game_running' = TRUE /\ games' = games + 1
            /\ announcing' = TRUE \/ announcing' = announcing
        BY <1>3, <3>2 DEF handleGameStart
      <4>2. /\ players' = initializePlayers(Cardinality(DOMAIN clients))
            /\ seated' = Registered \/ seated' = {}
        BY <1>3, <3>2 DEF handleGameStart
      <4>3. 0 .. Cardinality(DOMAIN clients) - 1 \subseteq Nat
        BY SMT
      <4>4. players' \subseteq Nat
        BY <4>2, <4>3 DEF initializePlayers
      <4>5. seated' \subseteq Endpoints
        BY <4>2, RegisteredType
      <4>6. announcing' \in BOOLEAN /\ game_running' \in BOOLEAN
        BY <4>1, Zenon
      <4>7. games' \in Nat
        BY <4>1
      <4> QED
        BY <4>4, <4>5, <4>6, <4>7
    <3> QED
      BY <3>1, <3>2
  <2> QED
    BY <1>3, <2>1, <2>2 DEF handleGameStart
<1>4. CASE handleGameEnd(e)
  <2>1. toServer' \subseteq toServer
    BY <1>4 DEF handleGameEnd, Takes
  <2> QED
    BY <1>4, <2>1 DEF handleGameEnd
<1>5. CASE handlePlayerAction(e)
  <2>1. toServer' \subseteq toServer
    BY <1>5 DEF handlePlayerAction, Takes
  <2>2. e \in Registered => IdOf(e) \in Nat
    <3>1. e \in Registered => \E i \in DOMAIN clients : clients[i] = e
      BY DEF Registered, Range
    <3>2. DOMAIN clients \subseteq Nat
      BY DEF TableTypeOK, Ids
    <3> QED
      BY <3>1, <3>2 DEF IdOf
  <2>3. playerActions' \subseteq Nat
    BY <1>5, <2>2 DEF handlePlayerAction
  <2> QED
    BY <1>5, <2>1, <2>3 DEF handlePlayerAction, startVars
<1> QED
  BY <1>1, <1>2, <1>3, <1>4, <1>5 DEF Handler

LEMMA OtherTypes ==
    ASSUME SessionTypeOK, TableTypeOK'
    PROVE  /\ handle_send_timer => SessionTypeOK'
           /\ \A i \in playerActions : processPlayerActions(i) => SessionTypeOK'
           /\ UNCHANGED sessionVars => SessionTypeOK'
<1> USE DEF SessionTypeOK
<1>1. ASSUME handle_send_timer PROVE SessionTypeOK'
  <2>1. toClients' \subseteq Answers \X Endpoints /\ lost' \subseteq Endpoints
    BY <1>1, RegisteredType DEF handle_send_timer, Answer, Answers
  <2> QED
    BY <1>1, <2>1 DEF handle_send_timer, gameVars
<1>2. ASSUME NEW i \in playerActions, processPlayerActions(i) PROVE SessionTypeOK'
  BY <1>2 DEF processPlayerActions, clientVars, startVars
<1>3. ASSUME UNCHANGED sessionVars PROVE SessionTypeOK'
  BY <1>3 DEF sessionVars, tableVars, clientVars, startVars, gameVars
<1> QED
  BY <1>1, <1>2, <1>3

--------------------------------------------------------------------------------
(* The news of the first game. *)

\* A client's own steps: only Start brings it into the lobby, and it leaves
\* the lobby with any of the datagrams that it waits for.
LEMMA ClientsNews ==
    ASSUME SessionTypeOK, NotForgotten, NEW e \in Endpoints, Clients(e)
    PROVE  NotForgotten'
<1>0. UNCHANGED <<tableVars, startVars, gameVars>>
  BY ClientsKeep
<1>1. Registered' = Registered
  BY <1>0 DEF tableVars, Registered
<1> SUFFICES ASSUME NEW f \in Endpoints, Waits(f)'
             PROVE  NewsFor(f)' \/ f \in lost'
  BY DEF NotForgotten
<1>2. mode'[f] = "lobby" /\ f \in Registered /\ game_running /\ games = 1
  BY <1>0, <1>1 DEF Waits, startVars
<1>3. mode[f] = "lobby" => NewsFor(f) \/ f \in lost
  BY <1>2 DEF NotForgotten, Waits
<1>4. ASSUME NEW types, Sends(e, types), UNCHANGED toClients, mode[f] = "lobby",
             "REQCONNECT" \notin types
      PROVE  NewsFor(f)' \/ f \in lost'
  <2>1. toServer \subseteq toServer' /\ lost \subseteq lost'
    BY <1>4 DEF Sends
  <2> QED
    BY <1>0, <1>3, <1>4, <2>1 DEF NewsFor, startVars
<1>5. CASE Start(e)
  <2>1. CASE f = e
    <3>1. PICK sent \in SUBSET {"REQCONNECT"} :
              /\ toServer' = toServer \cup (sent \X {e})
              /\ lost' = IF sent # {"REQCONNECT"} THEN lost \cup {e} ELSE lost \ {e}
      BY <1>5 DEF Start, Sends
    <3>2. sent = {"REQCONNECT"} => <<"REQCONNECT", e>> \in toServer'
      BY <3>1
    <3> QED
      BY <2>1, <3>1, <3>2 DEF NewsFor
  <2>2. CASE f # e
    <3>1. mode[f] = "lobby"
      BY <1>2, <1>5, <2>2 DEF Start, SessionTypeOK
    <3>2. toServer \subseteq toServer' /\ (f \in lost => f \in lost')
      BY <1>5, <2>2 DEF Start, Sends
    <3> QED
      BY <1>0, <1>3, <1>5, <3>1, <3>2 DEF Start, NewsFor, startVars
  <2> QED
    BY <2>1, <2>2
<1>6. CASE ClickStart(e)
  <2>1. mode[f] = "lobby"
    BY <1>2, <1>6 DEF ClickStart, SessionTypeOK
  <2> QED
    BY <1>4, <1>6, <2>1 DEF ClickStart
<1>7. CASE SeePlayer(e)
  <2>1. mode[f] = "lobby" /\ UNCHANGED <<toServer, toClients, lost>>
    BY <1>2, <1>7 DEF SeePlayer, SessionTypeOK
  <2> QED
    BY <1>0, <1>3, <2>1 DEF NewsFor, startVars
<1>8. CASE PressKey(e)
  <2>1. mode[f] = "lobby"
    BY <1>2, <1>8 DEF PressKey
  <2> QED
    BY <1>4, <1>8, <2>1 DEF PressKey
<1>9. CASE Leave(e)
  <2>1. mode[f] = "lobby"
    BY <1>2, <1>9 DEF Leave, SessionTypeOK
  <2>2. PICK goodbyes \in {{"DISCONNECTED"}, {"GAME_END", "DISCONNECTED"}} :
            Sends(e, goodbyes)
    BY <1>9 DEF Leave
  <2> QED
    BY <1>4, <1>9, <2>1, <2>2 DEF Leave
<1>10. CASE Vanish(e)
  <2>1. mode[f] = "lobby" /\ UNCHANGED <<toServer, toClients, lost>>
    BY <1>2, <1>10 DEF Vanish, SessionTypeOK
  <2> QED
    BY <1>0, <1>3, <2>1 DEF NewsFor, startVars
<1>11. ASSUME NEW type \in Answers, Receive(e, type)
       PROVE  NewsFor(f)' \/ f \in lost'
  <2>1. /\ toClients' \in {toClients, toClients \ {<<type, e>>}}
        /\ UNCHANGED <<toServer, lost>>
    BY <1>11 DEF Receive
  <2>3. mode[f] = "lobby" /\ f # e
    BY <1>2, <1>11 DEF Receive, SessionTypeOK
  <2>5. \A t \in Answers : <<t, f>> \in toClients => <<t, f>> \in toClients'
    BY <2>1, <2>3
  <2> QED
    BY <1>0, <1>3, <2>1, <2>3, <2>5 DEF NewsFor, startVars
<1> QED
  BY <1>5, <1>6, <1>7, <1>8, <1>9, <1>10, <1>11 DEF Clients

\* The server's steps: whoever it registers in a game it tells of the game, and
\* whoever is registered when the first game starts gets its GAME_START.
LEMMA ServerNews ==
    ASSUME SessionTypeOK, NotForgotten,
           \/ \E e \in Endpoints : Handler(e)
           \/ handle_send_timer
           \/ \E i \in playerActions : processPlayerActions(i)
           \/ UNCHANGED sessionVars
    PROVE  NotForgotten'
<1> SUFFICES ASSUME NEW f \in Endpoints, Waits(f)'
             PROVE  NewsFor(f)' \/ f \in lost'
  BY DEF NotForgotten
<1>0. mode' = mode
  BY DEF Handler, reqConnect, handleDisconnected, handleGameStart, handleGameEnd,
         handlePlayerAction, handle_send_timer, processPlayerActions, clientVars,
         sessionVars
<1>1. mode[f] = "lobby" /\ f \in Registered' /\ game_running' /\ games' = 1
  BY <1>0 DEF Waits
<1>2. ASSUME f \in Registered, UNCHANGED <<announcing, game_running, games, toClients>>,
             NEW type \in Requests \ {"REQCONNECT"}, NEW e \in Endpoints,
             toServer' \in {toServer, toServer \ {<<type, e>>}}, lost' = lost
      PROVE  NewsFor(f)' \/ f \in lost'
  <2>1. NewsFor(f) \/ f \in lost
    BY <1>1, <1>2 DEF NotForgotten, Waits
  <2> QED
    BY <1>2, <2>1 DEF NewsFor
<1>3. ASSUME NEW e \in Endpoints, reqConnect(e) PROVE NewsFor(f)' \/ f \in lost'
  <2>0. game_running /\ games = 1 /\ announcing' = announcing
    BY <1>1, <1>3 DEF reqConnect, startVars
  <2>1. PICK sent \in SUBSET {<<"GAME_STARTED", e>>} :
            /\ toClients' = toClients \cup sent
            /\ lost' = lost \cup {d[2] : d \in {<<"GAME_STARTED", e>>} \ sent}
    BY <1>3, <2>0 DEF reqConnect, Answer
  <2>2. CASE f = e
    BY <2>1, <2>2 DEF NewsFor, Answers
  <2>3. CASE f # e
    <3>1. f \in Registered
      BY <1>1, <1>3, <2>3 DEF reqConnect, createClient, tableVars, Registered, Range, Insert
    <3>2. NewsFor(f) \/ f \in lost
      BY <1>1, <2>0, <3>1 DEF NotForgotten, Waits
    <3>3. <<"REQCONNECT", f>> \in toServer => <<"REQCONNECT", f>> \in toServer'
      BY <1>3, <2>3 DEF reqConnect, Takes
    <3> QED
      BY <2>0, <2>1, <3>2, <3>3 DEF NewsFor
  <2> QED
    BY <2>2, <2>3
<1>4. ASSUME NEW e \in Endpoints, handleDisconnected(e)
      PROVE  NewsFor(f)' \/ f \in lost'
  <2>1. f \in Registered
    BY <1>1, <1>4 DEF handleDisconnected, disconnectData, Restrict, Registered, Range,
                      tableVars
  <2> QED
    BY <1>2, <1>4, <2>1 DEF handleDisconnected, Takes, Requests
<1>5. ASSUME NEW e \in Endpoints, handleGameStart(e)
      PROVE  NewsFor(f)' \/ f \in lost'
  <2>1. CASE game_running /\ UNCHANGED <<startVars, players>>
    BY <1>1, <1>2, <1>5, <2>1 DEF handleGameStart, Takes, Requests, startVars, tableVars,
                                  Registered
  <2>2. CASE ~game_running /\ games' = games + 1
             /\ announcing' \in {TRUE} \cup (IF games > 0 THEN {announcing} ELSE {})
    <3>1. games = 0
      BY <1>1, <2>2 DEF SessionTypeOK
    <3>2. announcing'
      BY <2>2, <3>1
    <3> QED
      BY <3>2 DEF NewsFor
  <2> QED
    BY <1>5, <2>1, <2>2 DEF handleGameStart
<1>6. ASSUME NEW e \in Endpoints, handleGameEnd(e) PROVE NewsFor(f)' \/ f \in lost'
  BY <1>1, <1>6 DEF handleGameEnd
<1>7. ASSUME NEW e \in Endpoints, handlePlayerAction(e)
      PROVE  NewsFor(f)' \/ f \in lost'
  BY <1>1, <1>2, <1>7 DEF handlePlayerAction, Takes, Requests, startVars, tableVars, Registered
<1>8. CASE handle_send_timer
  <2>1. /\ announcing /\ game_running /\ games = 1 /\ f \in Registered
    BY <1>1, <1>8 DEF handle_send_timer, tableVars, Registered
  <2>2. PICK sent \in SUBSET ({"GAME_START"} \X Registered) :
            /\ toClients' = toClients \cup sent
            /\ lost' = lost \cup {d[2] : d \in ({"GAME_START"} \X Registered) \ sent}
    BY <1>8 DEF handle_send_timer, Answer
  <2>3. <<"GAME_START", f>> \in {"GAME_START"} \X Registered
    BY <2>1
  <2>4. CASE <<"GAME_START", f>> \in sent
    BY <2>2, <2>4 DEF NewsFor, Answers
  <2>5. CASE <<"GAME_START", f>> \notin sent
    <3>1. <<"GAME_START", f>>[2] \in lost'
      BY <2>2, <2>3, <2>5
    <3> QED
      BY <3>1
  <2> QED
    BY <2>4, <2>5
<1>9. CASE \/ \E i \in playerActions : processPlayerActions(i)
           \/ UNCHANGED sessionVars
  <2>1. UNCHANGED <<tableVars, toServer, toClients, startVars, lost>>
    BY <1>9 DEF processPlayerActions, sessionVars, clientVars
  <2>2. Waits(f)
    BY <1>1, <2>1 DEF Waits, startVars, tableVars, Registered
  <2> QED
    BY <2>1, <2>2 DEF NotForgotten, NewsFor, startVars
<1> QED
  BY <1>3, <1>4, <1>5, <1>6, <1>7, <1>8, <1>9 DEF Handler

--------------------------------------------------------------------------------
LEMMA SessionInitInv == SessionInit => SessionInv
<1> SUFFICES ASSUME SessionInit PROVE SessionInv
  OBVIOUS
<1>1. TableInv
  BY TableInitInv DEF SessionInit
<1>2. SessionTypeOK
  BY <1>1 DEF SessionInit, SessionTypeOK, TableInv
<1>3. NotForgotten
  BY DEF SessionInit, NotForgotten, Waits
<1> QED
  BY <1>1, <1>2, <1>3 DEF SessionInv, TableInv

LEMMA SessionInvStep == SessionInv /\ [SessionNext]_sessionVars => SessionInv'
<1> SUFFICES ASSUME SessionInv, [SessionNext]_sessionVars PROVE SessionInv'
  OBVIOUS
<1>1. TableInv'
  BY StepOfTable, TableOfInv, TableStep DEF SessionInv
<1>2. SessionTypeOK'
  BY <1>1, ClientsTypes, HandlerTypes, OtherTypes DEF SessionInv, TableInv, SessionNext
<1>3. NotForgotten'
  BY ClientsNews, ServerNews DEF SessionInv, SessionNext
<1> QED
  BY <1>1, <1>2, <1>3 DEF SessionInv, TableInv

(***************************************************************************)
(* The types of the variables.                                             *)
(***************************************************************************)
THEOREM SessionTypes == SessionSpec => []SessionTypeOK
<1>1. SessionInv => SessionTypeOK
  BY DEF SessionInv
<1> QED
  BY <1>1, SessionInitInv, SessionInvStep, PTL DEF SessionSpec

(***************************************************************************)
(* Whatever clients and network do, the table of clients is used as its    *)
(* own specification says, so that what is proved of it holds in a session *)
(* (PacketHandler.cpp:64-76).                                              *)
(***************************************************************************)
THEOREM SessionUsesTable == SessionSpec => TableSpec
<1>1. SessionInit => TableInit
  BY DEF SessionInit
<1> QED
  BY <1>1, StepOfTable, PTL DEF SessionSpec, TableSpec

(***************************************************************************)
(* A client that waits in its lobby while it is registered and the first   *)
(* game runs gets to know of it unless a datagram is lost, however many    *)
(* clients come and go (PacketHandler.cpp:87-90, Server.cpp:117-122).      *)
(***************************************************************************)
THEOREM SessionNotForgotten == SessionSpec => []NotForgotten
<1>1. SessionInv => NotForgotten
  BY DEF SessionInv
<1> QED
  BY <1>1, SessionInitInv, SessionInvStep, PTL DEF SessionSpec

--------------------------------------------------------------------------------
(* Clients and players. *)

\* Who was seated is still registered: a client that leaves gives up its seat.
Seated == seated \subseteq Registered

\* The ids of a table without free ones are those that players are given.
LEMMA PlayersForAll ==
    ASSUME TableInv, available_ids = <<>>
    PROVE  DOMAIN clients \subseteq initializePlayers(Cardinality(DOMAIN clients))
<1>1. FreeIds = {} /\ nbClients \in Nat
  BY DEF FreeIds, Range, TableInv, TableTypeOK
<1>2. DOMAIN clients = 0 .. nbClients - 1
  BY <1>1 DEF TableInv, IdPartition, Ids
<1>3. Cardinality(0 .. nbClients - 1) = nbClients
  BY <1>1, FS_Interval
<1> QED
  BY <1>2, <1>3 DEF initializePlayers

LEMMA OwnPlayerStep ==
    ASSUME SessionInv, Seated, OwnPlayer, [SessionNext]_sessionVars
    PROVE  (Seated /\ OwnPlayer)'
<1>0. TableInv
  BY TableOfInv DEF SessionInv
<1>1. ASSUME UNCHANGED tableVars, UNCHANGED seated, players \subseteq players',
             game_running' => game_running
      PROVE  (Seated /\ OwnPlayer)'
  BY <1>1 DEF Seated, OwnPlayer, tableVars, Registered
<1>2. ASSUME NEW e \in Endpoints, reqConnect(e) PROVE (Seated /\ OwnPlayer)'
  <2>1. /\ DOMAIN clients \subseteq DOMAIN clients'
        /\ \A i \in DOMAIN clients : clients'[i] = clients[i]
    BY <1>2 DEF reqConnect, createClient, Insert, tableVars
  <2>2. UNCHANGED <<seated, game_running, players>>
    BY <1>2 DEF reqConnect, startVars, gameVars
  <2>3. Registered \subseteq Registered'
    BY <2>1 DEF Registered, Range
  <2> QED
    BY <2>1, <2>2, <2>3 DEF Seated, OwnPlayer
<1>3. ASSUME NEW e \in Endpoints, handleDisconnected(e) PROVE (Seated /\ OwnPlayer)'
  <2>0. UNCHANGED <<game_running, players>> /\ seated' = seated \ {e}
    BY <1>3 DEF handleDisconnected, gameVars
  <2>1. CASE UNCHANGED tableVars
    BY <2>0, <2>1, <1>3 DEF Seated, OwnPlayer, tableVars, Registered, handleDisconnected
  <2>2. CASE disconnectData(e)
    <3>1. clients[FirstId(e)] = e
      BY <1>0, <2>2, FirstIdFacts DEF TableInv, disconnectData
    <3>2. \A i \in DOMAIN clients : clients[i] # e =>
              i \in DOMAIN clients' /\ clients'[i] = clients[i]
      BY <2>2, <3>1 DEF disconnectData, Restrict
    <3>3. \A f \in Registered : f # e => f \in Registered'
      BY <3>2 DEF Registered, Range
    <3> QED
      BY <2>0, <3>2, <3>3 DEF Seated, OwnPlayer
  <2> QED
    BY <1>3, <2>1, <2>2 DEF handleDisconnected
<1>4. ASSUME NEW e \in Endpoints, handleGameStart(e) PROVE (Seated /\ OwnPlayer)'
  <2>1. CASE UNCHANGED <<startVars, players>>
    BY <1>1, <1>4, <2>1 DEF handleGameStart, startVars
  <2>2. CASE /\ players' = initializePlayers(Cardinality(DOMAIN clients))
             /\ seated' = IF available_ids = <<>> THEN Registered ELSE {}
    <3>1. clients' = clients
      BY <1>4 DEF handleGameStart, tableVars
    <3>2. ASSUME NEW f \in seated'
          PROVE  f \in Registered' /\ \E i \in players' \cap DOMAIN clients' : clients'[i] = f
      <4>1. available_ids = <<>> /\ f \in Registered
        BY <2>2, <3>2
      <4>2. PICK i \in DOMAIN clients : clients[i] = f
        BY <4>1 DEF Registered, Range
      <4>3. i \in players'
        BY <1>0, <2>2, <4>1, <4>2, PlayersForAll
      <4> QED
        BY <3>1, <4>1, <4>2, <4>3 DEF Registered
    <3> QED
      BY <3>2 DEF Seated, OwnPlayer
  <2> QED
    BY <1>4, <2>1, <2>2 DEF handleGameStart
<1>5. ASSUME NEW e \in Endpoints, handleGameEnd(e) PROVE (Seated /\ OwnPlayer)'
  BY <1>5 DEF handleGameEnd, Seated, OwnPlayer, tableVars, Registered
<1>6. CASE \/ \E e \in Endpoints : Clients(e) \/ handlePlayerAction(e)
           \/ handle_send_timer
           \/ \E i \in playerActions : processPlayerActions(i)
           \/ UNCHANGED sessionVars
  <2>1. UNCHANGED <<tableVars, seated, players, game_running>>
    BY <1>6, ClientsKeep DEF handlePlayerAction, handle_send_timer, processPlayerActions,
                             sessionVars, startVars, gameVars
  <2> QED
    BY <1>1, <2>1
<1> QED
  BY <1>2, <1>3, <1>4, <1>5, <1>6 DEF SessionNext, Handler

(***************************************************************************)
(* Each client that was registered, by ids that were never given back,     *)
(* when a game started has a player of its own for as long as the game     *)
(* runs and it stays: the numbers that the game gives its players are the  *)
(* clients' ids (Game.cpp:15-20, Server.cpp:100-104).                      *)
(***************************************************************************)
THEOREM SessionOwnPlayer == SessionSpec => []OwnPlayer
<1>1. SessionInit => Seated /\ OwnPlayer
  BY DEF SessionInit, Seated, OwnPlayer
<1>2. SessionInv /\ Seated /\ OwnPlayer /\ [SessionNext]_sessionVars
          => (Seated /\ OwnPlayer)'
  BY OwnPlayerStep
<1> QED
  BY <1>1, <1>2, SessionInitInv, SessionInvStep, PTL DEF SessionSpec
================================================================================
