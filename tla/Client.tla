--------------------------------- MODULE Client ---------------------------------
(***************************************************************************)
(* The client (Client/src): the io thread, which receives, parses, pings   *)
(* and sends, and the main thread, which runs main_loop with the lobby and *)
(* then the game scene.                                                    *)
(*                                                                         *)
(* Both threads share one packet_data_: the scenes hold references to it.  *)
(* mutex_ is locked by the io thread before it parses a packet and         *)
(* unlocked by the main thread at the end of a frame: a binary semaphore,  *)
(* which is what the mutexes of the platform make of it.  It does not keep *)
(* the main thread from reading while the io thread writes, so that both   *)
(* are cut into steps there: at the reads and the writes of the fields of  *)
(* the slot.                                                               *)
(*                                                                         *)
(* Positions, the ping shown and the loss statistics are left out.  The    *)
(* network is any sequence of datagrams of `Incoming'.                     *)
(***************************************************************************)
EXTENDS Naturals, Sequences

CONSTANTS
    Incoming,           \* datagrams the client may get: [action, id]
    Garbage,            \* what packet_data_ may hold before it is written
    MaxSend             \* bound: length of send_queue_

\* The sprites that a packet creates, and those it destroys.  The bullets that
\* are created and those that are destroyed are kept in different maps.
Creates == [CREATE_ENEMY |-> "enemy", CREATE_BOSS |-> "boss",
            CREATE_PLAYER |-> "player", CREATE_BULLET |-> "bullet"]
Destroys == [DESTROY_ENEMY |-> "enemy", DESTROY_BOSS |-> "boss",
             DESTROY_PLAYER |-> "player", DESTROY_BULLET |-> "fastBullet"]

Actions == DOMAIN Creates \cup DOMAIN Destroys
           \cup {"NONE", "GAME_START", "GAME_STARTED", "HEARTBEAT", "OTHER"}

\* What the client sends; every key but Escape is one PLAYER_ACTION.
Messages == {"REQCONNECT", "GAME_START", "GAME_END", "PLAYER_ACTION", "HEARTBEAT"}

NoPacket == [action |-> "NONE", id |-> 0]

NoAction == "none"      \* newAction_ without a value

ASSUME ClientAssumption ==
    /\ Incoming \subseteq [action : Actions, id : Nat]
    /\ Garbage \subseteq [action : Actions, id : Nat]
    /\ MaxSend \in Nat \ {0, 1}

VARIABLES
    packet,             \* packet_data_: [action, id]
    mutex,              \* whether mutex_ is locked
    rpc,                \* where the io thread is in handleReceive
    buffer,             \* the datagram it deals with, or NoPacket
    running,            \* whether the io_context runs handlers
    awaiting,           \* awaiting_
    silence,            \* pings since last_response_time_, up to Patience
    sendQueue,          \* send_queue_
    mpc,                \* where the main thread is in main_loop
    started,            \* isGameStarted
    open,               \* window_.isOpen()
    startButtonClicked,
    newAction,          \* LobbyScene's newAction_
    branch,             \* the action on which the game scene has switched
    sprites,            \* the maps of sprites: pairs <<kind, id>>
    alive,              \* the ids for which playerAliveStatus_ is true
    owed,               \* history: the slot holds a packet for this frame
    uses,               \* history: how often the packet was acted upon
    clicks, asked       \* history: clicks on the button, GAME_STARTs queued

ioVars == <<rpc, buffer, running, awaiting, silence>>
sceneVars == <<startButtonClicked, newAction, branch, sprites, alive>>
mainVars == <<mpc, started, open, sceneVars>>
historyVars == <<owed, uses, clicks, asked>>
clientVars == <<packet, mutex, sendQueue, ioVars, mainVars, historyVars>>

Leaving == mpc \in {"exit", "stop", "join", "done"}

ClientInit ==
    /\ packet \in Garbage           \* never initialised
    /\ mutex = FALSE
    /\ rpc = "idle" /\ buffer = NoPacket /\ running = TRUE
    /\ awaiting = FALSE /\ silence = 0
    /\ sendQueue = <<>>
    /\ mpc = "connect"
    /\ started = FALSE /\ open = TRUE
    /\ startButtonClicked = FALSE /\ newAction = NoAction /\ branch = "NONE"
    /\ sprites = {} /\ alive = {}
    /\ owed = FALSE /\ uses = 0 /\ clicks = 0 /\ asked = 0

--------------------------------------------------------------------------------
(* The io thread. *)

\* A datagram has come.
startReceive(d) ==
    /\ running /\ rpc = "idle"
    /\ buffer' = d
    /\ rpc' = "lock"
    /\ UNCHANGED <<packet, mutex, sendQueue, running, awaiting, silence, mainVars,
                   historyVars>>

\* Mutant: the lock is not waited for.
handleReceiveUnlocked ==
    /\ rpc = "lock"
    /\ mutex' = TRUE
    /\ rpc' = "parse"
    /\ UNCHANGED <<packet, sendQueue, buffer, running, awaiting, silence, mainVars,
                   historyVars>>

handleReceive ==
    /\ rpc = "lock"
    /\ ~mutex
    /\ mutex' = TRUE
    /\ rpc' = "parse"
    /\ UNCHANGED <<packet, sendQueue, buffer, running, awaiting, silence, mainVars,
                   historyVars>>

handleHeartBeat ==
    /\ rpc = "parse"
    /\ buffer.action = "HEARTBEAT"
    /\ awaiting' = FALSE
    /\ silence' = 0
    /\ rpc' = "idle" /\ buffer' = NoPacket
    /\ UNCHANGED <<packet, mutex, sendQueue, running, mainVars, historyVars>>

\* A datagram that is empty or has not six fields, whatever its type: nothing
\* is written, and the lock is kept until the end of the frame gives it back.
parseMalformed ==
    /\ rpc = "parse"
    /\ rpc' = "idle" /\ buffer' = NoPacket
    /\ UNCHANGED <<packet, mutex, sendQueue, running, awaiting, silence, mainVars,
                   historyVars>>

\* setPacketData copies packet_data_ onto itself: a field that is written
\* meanwhile may get its old value back.
Written(new, old) == IF mpc = "copy" THEN {new, old} ELSE {new}

\* parseMessage writes the action first ...
parseAction ==
    /\ rpc = "parse"
    /\ buffer.action # "HEARTBEAT"
    /\ \E a \in Written(buffer.action, packet.action) : packet' = [packet EXCEPT !.action = a]
    /\ rpc' = "rest"
    /\ uses' = 0
    /\ UNCHANGED <<mutex, sendQueue, buffer, running, awaiting, silence, mainVars,
                   owed, clicks, asked>>

\* The main thread has still to look at the packet in this frame.
BeforeLook == mpc \in {"connect", "begin", "copy", "lobby", "send", "start", "apply"}

\* ... and then the rest, unless std::stoi finds no number and throws: the id
\* stays.  The caller listens again.
parseRest ==
    /\ rpc = "rest"
    /\ \E i \in Written(buffer.id, packet.id) \cup {packet.id} :
           packet' = [packet EXCEPT !.id = i]
    /\ rpc' = "idle" /\ buffer' = NoPacket
    /\ owed' = (mutex /\ BeforeLook /\ packet' = buffer)
    /\ UNCHANGED <<mutex, sendQueue, running, awaiting, silence, mainVars,
                   uses, clicks, asked>>

\* The send timer.
handleSendTimer ==
    /\ running /\ rpc = "idle"
    /\ sendQueue # <<>>
    /\ sendQueue' = Tail(sendQueue)
    /\ UNCHANGED <<packet, mutex, ioVars, mainVars, historyVars>>

\* send_queue_ has no lock: of two pushes that race one may be lost.
Pushed(m, racing) == {Append(sendQueue, m)} \cup (IF racing THEN {sendQueue} ELSE {})

\* Five seconds without an answer have passed at the fourth ping after it, and
\* may have at the third.
Patience == 4
TooLong(s) == IF s = Patience THEN {TRUE} ELSE IF s = Patience - 1 THEN BOOLEAN ELSE {FALSE}

\* One place of the queue is kept for the main thread, which never waits.
sendHeartBeat ==
    IF awaiting THEN UNCHANGED sendQueue
    ELSE /\ Len(sendQueue) < MaxSend - 1
         /\ sendQueue' \in Pushed("HEARTBEAT", mpc \in {"connect", "send", "input"})

\* Mutant: after a timeout the answer is still awaited.
schedulePingStuck ==
    /\ running /\ rpc = "idle"
    /\ sendHeartBeat
    /\ silence' = IF silence = Patience THEN Patience ELSE silence + 1
    /\ awaiting' = TRUE
    /\ UNCHANGED <<packet, mutex, rpc, buffer, running, mainVars, historyVars>>

\* The heartbeat timer: sendHeartBeat, which sets awaiting_, and checkTimeout,
\* which gives it up.
schedulePing ==
    /\ running /\ rpc = "idle"
    /\ sendHeartBeat
    /\ silence' = IF silence = Patience THEN Patience ELSE silence + 1
    /\ \E late \in TooLong(silence') : awaiting' = ~late
    /\ UNCHANGED <<packet, mutex, rpc, buffer, running, mainVars, historyVars>>

--------------------------------------------------------------------------------
(* The main thread. *)

Goto(l) == mpc' = l

connect ==
    /\ mpc = "connect"
    /\ sendQueue' \in Pushed("REQCONNECT", ~awaiting)
    /\ Goto("begin")
    /\ UNCHANGED <<packet, mutex, ioVars, started, open, sceneVars, historyVars>>

\* Game already started: main_loop returns without sendExitPacket.
beginFrame ==
    /\ mpc = "begin"
    /\ Goto(IF packet.action = "GAME_STARTED" THEN "stop" ELSE "copy")
    /\ UNCHANGED <<packet, mutex, sendQueue, ioVars, started, open, sceneVars,
                   historyVars>>

\* Of the lobby, or of the game scene.
setPacketData ==
    /\ mpc = "copy"
    /\ Goto(IF started THEN "apply" ELSE "lobby")
    /\ UNCHANGED <<packet, mutex, sendQueue, ioVars, started, open, sceneVars,
                   historyVars>>

\* LobbyScene::update, for the events of this frame.  Within the bound, nobody
\* clicks while the queue is full.
lobbyUpdate(click, close) ==
    /\ mpc = "lobby"
    /\ IF click
       THEN /\ Len(sendQueue) < MaxSend
            /\ startButtonClicked' = TRUE
            /\ newAction' = "GAME_START"
            /\ clicks' = 1
       ELSE UNCHANGED <<startButtonClicked, newAction, clicks>>
    /\ open' = ~close
    /\ Goto("send")
    /\ UNCHANGED <<packet, mutex, sendQueue, ioVars, started, branch, sprites, alive,
                   owed, uses, asked>>

\* LobbyScene::sendOverPackets, and the push of what it returns.
sendOverPackets ==
    /\ mpc = "send"
    /\ \/ newAction = NoAction /\ UNCHANGED <<sendQueue, asked>>
       \/ /\ newAction # NoAction
          /\ sendQueue' \in Pushed(newAction, ~awaiting)
          /\ asked' = asked + 1
    /\ newAction' = NoAction
    /\ Goto("start")
    /\ UNCHANGED <<packet, mutex, ioVars, started, open, startButtonClicked, branch,
                   sprites, alive, owed, uses, clicks>>

EndOfFrame == IF open THEN "unlock" ELSE "exit"

\* Mutant: checkGameStart returns the flag, which it has reset before.
checkGameStartFlag ==
    /\ mpc = "start"
    /\ LET starts == startButtonClicked \/ packet.action = "GAME_START" IN
           /\ startButtonClicked' = FALSE
           /\ newAction' = IF starts THEN "GAME_START" ELSE newAction
           /\ started' = startButtonClicked'
    /\ Goto(IF started' /\ open THEN "copy" ELSE EndOfFrame)
    /\ owed' = (owed /\ started')
    /\ UNCHANGED <<packet, mutex, sendQueue, ioVars, open, branch, sprites, alive, uses,
                   clicks, asked>>

\* The game starts for a click, and for a GAME_START that came.  Either way
\* newAction_ is set, for a sendOverPackets that does not follow any more.
checkGameStart ==
    /\ mpc = "start"
    /\ LET starts == startButtonClicked \/ packet.action = "GAME_START" IN
           /\ startButtonClicked' = FALSE
           /\ newAction' = IF starts THEN "GAME_START" ELSE newAction
           /\ started' = starts
    /\ Goto(IF started' /\ open THEN "copy" ELSE EndOfFrame)
    /\ owed' = (owed /\ started')
    /\ UNCHANGED <<packet, mutex, sendQueue, ioVars, open, branch, sprites, alive, uses,
                   clicks, asked>>

\* The switch of GameScene::handleServerAction, which reads the action ...
handleServerAction ==
    /\ mpc = "apply"
    /\ branch' = packet.action
    /\ uses' = IF packet.action = "NONE" THEN uses ELSE uses + 1
    /\ Goto("act")
    /\ UNCHANGED <<packet, mutex, sendQueue, ioVars, started, open, startButtonClicked,
                   newAction, sprites, alive, owed, clicks, asked>>

\* ... and its branch, which reads server_id.  The two reads of server_id for
\* a player, one for the sprite and one for playerAliveStatus_, are one step.
actOnPacket ==
    /\ mpc = "act"
    /\ LET i == packet.id IN
           /\ sprites' = CASE branch \in DOMAIN Creates  -> sprites \cup {<<Creates[branch], i>>}
                           [] branch \in DOMAIN Destroys -> sprites \ {<<Destroys[branch], i>>}
                           [] OTHER                      -> sprites
           /\ alive' = CASE branch = "CREATE_PLAYER"  -> alive \cup {i}
                         [] branch = "DESTROY_PLAYER" -> alive \ {i}
                         [] OTHER                     -> alive
    /\ branch' = "NONE"
    /\ owed' = FALSE
    /\ Goto("reset")
    /\ UNCHANGED <<packet, mutex, sendQueue, ioVars, started, open, startButtonClicked,
                   newAction, uses, clicks, asked>>

\* Mutant: the action stays.
resetValuesOfId ==
    /\ mpc = "reset"
    /\ Goto("resetId")
    /\ UNCHANGED <<packet, mutex, sendQueue, ioVars, started, open, sceneVars, historyVars>>

\* One field after the other, while the io thread may write them.
resetValues ==
    /\ mpc = "reset"
    /\ packet' = [packet EXCEPT !.action = "NONE"]
    /\ Goto("resetId")
    /\ UNCHANGED <<mutex, sendQueue, ioVars, started, open, sceneVars, historyVars>>

resetId ==
    /\ mpc = "resetId"
    /\ packet' = [packet EXCEPT !.id = 0]
    /\ Goto("input")
    /\ UNCHANGED <<mutex, sendQueue, ioVars, started, open, sceneVars, historyVars>>

\* GameScene::handleInput and sendOverPackets: one action per frame, the last
\* one.  Keys count while the player of the packet's id is alive, and after
\* resetValues that is player 0.  Escape and closing the window end the events.
KeyActions == {NoAction} \cup (IF packet.id \in alive THEN {"PLAYER_ACTION"} ELSE {})

Others == {x \in sprites : x[1] = "player" /\ x[2] # packet.id}

Send(m) ==
    IF m = NoAction THEN UNCHANGED sendQueue
    ELSE Len(sendQueue) < MaxSend /\ sendQueue' \in Pushed(m, ~awaiting)

handleInput ==
    /\ mpc = "input"
    /\ \E key \in KeyActions :
           \/ Send(key) /\ UNCHANGED <<open, sprites>>
           \/ packet.id \in alive                           \* Escape
              /\ Send("GAME_END") /\ open' = FALSE /\ UNCHANGED sprites
           \/ /\ sprites' = sprites \ {<<"player", packet.id>>}
              /\ Send(IF Others = {} THEN "GAME_END" ELSE key)
              /\ open' = FALSE
    /\ Goto(IF open' THEN "unlock" ELSE "exit")
    /\ UNCHANGED <<packet, mutex, ioVars, started, startButtonClicked, newAction, branch,
                   alive, historyVars>>

\* Mutant: the lobby's frames do not unlock.
endFrameOfGame ==
    /\ mpc = "unlock"
    /\ mutex' = (mutex /\ ~started)
    /\ Goto("begin")
    /\ UNCHANGED <<packet, sendQueue, ioVars, started, open, sceneVars, historyVars>>

endFrame ==
    /\ mpc = "unlock"
    /\ mutex' = FALSE
    /\ Goto("begin")
    /\ UNCHANGED <<packet, sendQueue, ioVars, started, open, sceneVars, historyVars>>

\* sendExitPacket, and the end of main_loop: mutex_ stays as it is.
sendExitPacket ==
    /\ mpc = "exit"
    /\ Goto("stop")
    /\ UNCHANGED <<packet, mutex, sendQueue, ioVars, started, open, sceneVars,
                   historyVars>>

\* ~Client: stop the io_context, and join its thread.
stop ==
    /\ mpc = "stop"
    /\ running' = FALSE
    /\ open' = FALSE
    /\ Goto("join")
    /\ UNCHANGED <<packet, mutex, sendQueue, rpc, buffer, awaiting, silence, started,
                   sceneVars, historyVars>>

join ==
    /\ mpc = "join"
    /\ rpc = "idle"
    /\ Goto("done")
    /\ UNCHANGED <<packet, mutex, sendQueue, ioVars, started, open, sceneVars,
                   historyVars>>

--------------------------------------------------------------------------------
Callback ==
    \/ handleReceive \/ handleHeartBeat \/ parseMalformed \/ parseAction \/ parseRest

MainThread ==
    \/ connect \/ beginFrame \/ setPacketData
    \/ \E click, close \in BOOLEAN : lobbyUpdate(click, close)
    \/ sendOverPackets \/ checkGameStart
    \/ handleServerAction \/ actOnPacket \/ resetValues \/ resetId
    \/ handleInput \/ endFrame \/ sendExitPacket \/ stop \/ join

ClientNext ==
    \/ \E d \in Incoming : startReceive(d)
    \/ Callback \/ handleSendTimer \/ schedulePing
    \/ MainThread

ClientSpec == ClientInit /\ [][ClientNext]_clientVars

\* The threads run, and the io_context runs its handlers in the order in which
\* they become ready: the heartbeat timer is not starved by datagrams.  Nobody
\* owes the client a datagram, and nothing below rests on the send timer.
FairClientSpec ==
    /\ ClientSpec
    /\ WF_clientVars(MainThread) /\ WF_clientVars(Callback)
    /\ SF_clientVars(schedulePing)

--------------------------------------------------------------------------------
(***************************************************************************)
(* The types of the client's variables.                                    *)
(***************************************************************************)
ClientTypeOK ==
    /\ packet \in [action : Actions, id : Nat]
    /\ mutex \in BOOLEAN /\ running \in BOOLEAN /\ awaiting \in BOOLEAN
    /\ rpc \in {"idle", "lock", "parse", "rest"}
    /\ buffer \in Incoming \cup {NoPacket}
    /\ silence \in 0 .. Patience
    /\ sendQueue \in Seq(Messages) /\ Len(sendQueue) <= MaxSend
    /\ mpc \in {"connect", "begin", "copy", "lobby", "send", "start", "apply", "act",
                "reset", "resetId", "input", "unlock", "exit", "stop", "join",
                "done"}
    /\ sprites \subseteq {"enemy", "boss", "player", "bullet"} \X Nat /\ alive \subseteq Nat
    /\ started \in BOOLEAN /\ open \in BOOLEAN /\ startButtonClicked \in BOOLEAN
    /\ newAction \in {NoAction, "GAME_START"} /\ branch \in Actions
    /\ owed \in BOOLEAN /\ uses \in Nat /\ clicks \in 0 .. 1 /\ asked \in 0 .. 1

(***************************************************************************)
(* No packet is acted upon twice, although it stays in the slot until the  *)
(* next one and the slot is written while it is read and reset, field by   *)
(* field, so that the fields of two packets may get mixed                  *)
(* (Client.cpp:182-187, GameScene.cpp:77-124).                             *)
(***************************************************************************)
ActedOnce == uses <= 1

(***************************************************************************)
(* A packet that is in the slot, its lock still held, before the main      *)
(* thread looks at the slot in a frame is not overwritten by the next      *)
(* packet before all of it has been looked at (Client.cpp:77,287).         *)
(***************************************************************************)
HandedOver == [][rpc = "parse" /\ rpc' = "rest" => ~owed]_clientVars

(***************************************************************************)
(* A client queues GAME_START once, for a click on its button, and never   *)
(* because a GAME_START came: clients do not start games for one another.  *)
(* checkGameStart does set newAction_ for a GAME_START that came           *)
(* (LobbyScene.cpp:32); that nobody sends it rests on the order of the     *)
(* calls in main_loop and on the client's never being in the lobby again   *)
(* (LobbyScene.cpp:38-42,66-77, Client.cpp:265-273).                       *)
(***************************************************************************)
NoEcho == asked <= clicks

(***************************************************************************)
(* As long as the window is open, a received packet does not block the io  *)
(* thread for ever: every frame unlocks (Client.cpp:77,287).               *)
(***************************************************************************)
CallbackReturns == rpc # "idle" ~> (rpc = "idle" \/ Leaving)

(***************************************************************************)
(* Heartbeats go on: an answer that is lost, or a heartbeat that is lost   *)
(* in a race, is given up in the end, even while datagrams keep the io     *)
(* thread busy (Client.cpp:207-248).                                       *)
(***************************************************************************)
HeartbeatsGoOn == awaiting ~> (~awaiting \/ Leaving)

(***************************************************************************)
(* "Ensure the receive thread stops" (Client.cpp:49): a client that leaves *)
(* its main loop comes to its end.                                         *)
(***************************************************************************)
ClientEnds == Leaving ~> mpc = "done"
================================================================================
