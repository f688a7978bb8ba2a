-------------------------------- MODULE Server --------------------------------
(***************************************************************************)
(* The game server's threads and what they share: Server/src/Server.cpp,   *)
(* Network/src/PacketHandler.cpp and Network/include/ThreadSafeQueue.hpp.  *)
(*                                                                         *)
(*  - the io thread runs the callbacks of the io_context: a datagram       *)
(*    overwrites remote_endpoint_ and recv_buffer_ (async_receive_from),   *)
(*    handleReceive pushes the packet's TYPE, and nothing else, on the     *)
(*    queue, and every millisecond handle_send_timer sends one message of  *)
(*    send_queue_ to every client;                                         *)
(*  - the handler thread (PacketHandler::processPackets) pops one type at  *)
(*    a time and runs its handler, which reads remote_endpoint_ to find    *)
(*    out who sent the packet;                                             *)
(*  - each accepted GAME_START leaves a detached game thread behind, which *)
(*    broadcasts on its own.                                               *)
(*                                                                         *)
(* A step ends where another thread can see the difference: where          *)
(* clients_mutex_ is taken, where it is given back, and after every single *)
(* read of remote_endpoint_, which no lock protects.  An endpoint is read  *)
(* as a whole: a datagram that arrives between the comparison of the       *)
(* address and that of the port is taken to arrive before or after both.   *)
(* m_mutex of PacketHandler is taken by the handler thread alone, once for *)
(* each packet, so that nobody waits for it, and is left out.              *)
(*                                                                         *)
(* The environment sends any packet type of Inputs from any endpoint at    *)
(* any time, which covers datagrams lost, duplicated and reordered.        *)
(***************************************************************************)
EXTENDS ClientTable

CONSTANTS
    Inputs,         \* the packet types the environment sends
    NoEndpoint,     \* remote_endpoint_ before the first datagram
    MaxQueue,       \* bound: packets waiting for the handler thread
    MaxSend         \* bound: messages waiting for the send timer

\* PLAYER_MOVE stands for PLAYER_UP, DOWN, LEFT and RIGHT, which share
\* handlePlayerAction; OTHER for every type without a handler.
PacketTypes ==
    {"NONE", "REQCONNECT", "DISCONNECTED", "GAME_START", "GAME_END",
     "PLAYER_SHOOT", "PLAYER_MOVE", "HEARTBEAT", "OTHER"}

ASSUME ServerAssumption ==
    /\ Inputs \subseteq PacketTypes
    /\ NoEndpoint \notin Endpoints
    /\ MaxQueue \in Nat \ {0}
    /\ MaxSend \in Nat \ {0, 1}

VARIABLES
    remote_endpoint,    \* remote_endpoint_: the sender of the last datagram
    received,           \* recv_buffer_ when handleReceive is about to run
    packetQueue,        \* m_queue: the ThreadSafeQueue of packets
    hpc,                \* where the handler thread is
    packet,             \* the packet in the handler's hands
    endpoint,           \* its local copy of remote_endpoint_
    toScan,             \* ids its loop over the clients has yet to compare
    playerId,           \* the id that loop found
    clients_mutex,      \* who holds clients_mutex_
    game_running,
    send_queue,         \* send_queue_: the broadcasts not yet sent
    gameThreads,        \* detached game threads: 0, 1, or 2 for "several"
    told                \* history: the endpoints whose last news of the game,
                        \* since the last accepted GAME_START, is that it runs

ioVars == <<remote_endpoint, received, packetQueue>>
handlerVars == <<hpc, packet, endpoint, toScan, playerId>>
gameVars == <<game_running, gameThreads>>
serverVars ==
    <<tableVars, ioVars, handlerVars, clients_mutex, gameVars, send_queue, told>>

\* `from' is history: the code keeps the type only, and no guard or
\* assignment below that models code reads it.
Packet == [type : PacketTypes, from : Endpoints]

Nothing == [type |-> "nothing"]         \* no datagram since startReceive
Failed == [type |-> "error"]            \* the receive completed with an error
Aborted == [type |-> "aborted"]         \* ... with operation_aborted
Idle == [type |-> "idle"]               \* no packet in the handler's hands

Messages == {"GAME_START", "HEARTBEAT", "STATE"}

\* Where the handler thread waits for clients_mutex_, and where it holds it.
HandlerStates ==
    {"pop", "dispatch", "create", "creating", "reply", "replying",
     "disconnect", "disconnecting", "scan", "call"}

Holders == {"free", "io", "handler"}

\* std::lock_guard on clients_mutex_, which waits while anyone holds it, its
\* own thread included.
Lock(thread) == clients_mutex = "free" /\ clients_mutex' = thread

Unlock(thread) == clients_mutex = thread /\ clients_mutex' = "free"

--------------------------------------------------------------------------------
ServerInit ==
    /\ TableInit
    /\ remote_endpoint = NoEndpoint
    /\ received = Nothing
    /\ packetQueue = <<>>
    /\ hpc = "pop"
    /\ packet = Idle
    /\ endpoint = NoEndpoint
    /\ toScan = {}
    /\ playerId = 0
    /\ clients_mutex = "free"
    /\ game_running = FALSE
    /\ send_queue = <<>>
    /\ gameThreads = 0
    /\ told = {}

--------------------------------------------------------------------------------
(* The io thread, which runs one callback at a time: nothing is received    *)
(* while handle_send_timer holds clients_mutex_.                             *)

\* Mutant: the sender is recorded for the first datagram only.
ReceiveOnce(e, t) ==
    /\ received = Nothing /\ clients_mutex # "io"
    /\ Len(packetQueue) < MaxQueue
    /\ remote_endpoint' = IF remote_endpoint = NoEndpoint THEN e ELSE remote_endpoint
    /\ received' = [type |-> t, from |-> e]
    /\ UNCHANGED <<tableVars, packetQueue, handlerVars, clients_mutex, gameVars,
                   send_queue, told>>

\* async_receive_from: the datagram's sender overwrites remote_endpoint_
\* although packets of earlier senders still wait in the queue.
Receive(e, t) ==
    /\ received = Nothing /\ clients_mutex # "io"
    /\ Len(packetQueue) < MaxQueue
    /\ remote_endpoint' = e
    /\ received' = [type |-> t, from |-> e]
    /\ UNCHANGED <<tableVars, packetQueue, handlerVars, clients_mutex, gameVars,
                   send_queue, told>>

\* The receive completes with an error other than message_size.
ReceiveError ==
    /\ received = Nothing /\ clients_mutex # "io"
    /\ received' \in {Failed, Aborted}
    /\ UNCHANGED <<tableVars, remote_endpoint, packetQueue, handlerVars,
                   clients_mutex, gameVars, send_queue, told>>

\* After an error nothing is queued.  startReceive follows, except after
\* operation_aborted, which leaves handleReceive early: nothing is received
\* any more.
handleReceive ==
    /\ received \notin {Nothing, Aborted} /\ clients_mutex # "io"
    /\ packetQueue' = IF received = Failed THEN packetQueue
                                           ELSE Append(packetQueue, received)
    /\ received' = Nothing
    /\ UNCHANGED <<tableVars, remote_endpoint, handlerVars, clients_mutex,
                   gameVars, send_queue, told>>

\* The timer's callback takes clients_mutex_, also when it has nothing to send.
lock_send_timer ==
    /\ Lock("io")
    /\ UNCHANGED <<tableVars, ioVars, handlerVars, gameVars, send_queue, told>>

handle_send_timer ==
    /\ Unlock("io")
    /\ \/ send_queue = <<>> /\ UNCHANGED <<send_queue, told>>
       \/ /\ send_queue # <<>>
          /\ told' = IF Head(send_queue) = "GAME_START" THEN told \cup Registered
                                                       ELSE told
          /\ send_queue' = Tail(send_queue)
    /\ UNCHANGED <<tableVars, ioVars, handlerVars, gameVars>>

\* Every five seconds, with no lock: a log line, and the timer again.
handle_print_timer ==
    /\ clients_mutex # "io"
    /\ UNCHANGED serverVars

--------------------------------------------------------------------------------
(* A game thread, as far as the server sees it. *)

\* push on send_queue_, which no lock protects against a second push: when
\* two threads push at once both may write the same slot, and one message
\* is lost.
Pushes(q, m, racing) == {Append(q, m)} \cup IF racing THEN {q} ELSE {}

\* One place of the bound is kept for the handler thread.
GameBroadcast ==
    /\ gameThreads > 0
    /\ Len(send_queue) < MaxSend - 1
    /\ send_queue' = Append(send_queue, "STATE")
    /\ UNCHANGED <<tableVars, ioVars, handlerVars, clients_mutex, gameVars, told>>

--------------------------------------------------------------------------------
(* The handler thread. *)

\* ThreadSafeQueue::pop, which waits while the queue is empty.
pop ==
    /\ hpc = "pop"
    /\ packetQueue # <<>>
    /\ packet' = Head(packetQueue)
    /\ packetQueue' = Tail(packetQueue)
    /\ hpc' = "dispatch"
    /\ UNCHANGED <<tableVars, remote_endpoint, received, endpoint, toScan,
                   playerId, clients_mutex, gameVars, send_queue, told>>

Dispatch(types) == hpc = "dispatch" /\ packet.type \in types

\* The handler returns to processPackets: its locals are gone.
Return ==
    /\ hpc' = "pop"
    /\ packet' = Idle
    /\ endpoint' = NoEndpoint
    /\ toScan' = {}
    /\ playerId' = 0

\* handleNone, and handlePacket on a type without a handler: a log line.
handleNone ==
    /\ Dispatch({"NONE", "OTHER"})
    /\ Return
    /\ UNCHANGED <<tableVars, ioVars, clients_mutex, gameVars, send_queue, told>>

\* reqConnect and handleDisconnected begin by copying remote_endpoint_.
CopyEndpoint ==
    /\ Dispatch({"REQCONNECT", "DISCONNECTED"})
    /\ endpoint' = remote_endpoint
    /\ hpc' = IF packet.type = "REQCONNECT" THEN "create" ELSE "disconnect"
    /\ UNCHANGED <<tableVars, ioVars, packet, toScan, playerId, clients_mutex,
                   gameVars, send_queue, told>>

\* The handler's locks: around createClient, around the answer to whoever
\* connects and around disconnectData.
Locks ==
    [create |-> "creating", reply |-> "replying", disconnect |-> "disconnecting"]

HandlerLocks ==
    /\ hpc \in DOMAIN Locks
    /\ Lock("handler")
    /\ hpc' = Locks[hpc]
    /\ UNCHANGED <<tableVars, ioVars, packet, endpoint, toScan, playerId, gameVars,
                   send_queue, told>>

\* Mutant: the lock of createClient reaches to the end of reqConnectData,
\* which locks again.
reqConnectCreateHolding ==
    /\ hpc = "creating"
    /\ createClient(endpoint)
    /\ hpc' = "reply"
    /\ UNCHANGED <<ioVars, packet, endpoint, toScan, playerId, clients_mutex,
                   gameVars, send_queue, told>>

\* reqConnectData, first half: createClient, which every one of its returns
\* leaves without the lock.
reqConnectCreate ==
    /\ hpc = "creating"
    /\ createClient(endpoint)
    /\ Unlock("handler")
    /\ hpc' = "reply"
    /\ UNCHANGED <<ioVars, packet, endpoint, toScan, playerId, gameVars,
                   send_queue, told>>

\* Mutant: whoever asks is told that no game has started.
reqConnectReplyStale ==
    /\ hpc = "replying"
    /\ told' = told \ {endpoint}
    /\ Unlock("handler")
    /\ Return
    /\ UNCHANGED <<tableVars, ioVars, gameVars, send_queue>>

\* reqConnectData, second half: the answer, under the lock it took again.
reqConnectReply ==
    /\ hpc = "replying"
    /\ told' = IF game_running THEN told \cup {endpoint}       \* GAME_STARTED
                               ELSE told \ {endpoint}         \* GAME_NOT_STARTED
    /\ Unlock("handler")
    /\ Return
    /\ UNCHANGED <<tableVars, ioVars, gameVars, send_queue>>

\* disconnectData: an endpoint that is not registered is answered NONE, after
\* the lock, which is no news of the game.
handleDisconnected ==
    /\ hpc = "disconnecting"
    /\ \/ disconnectData(endpoint)
       \/ endpoint \notin Registered /\ UNCHANGED tableVars
    /\ Unlock("handler")
    /\ Return
    /\ UNCHANGED <<ioVars, gameVars, send_queue, told>>

\* A detached thread is started for every game and never joined.  Only the
\* push races: the counter of threads saturates at "several".
StartGame ==
    /\ game_running' = TRUE
    /\ gameThreads' = IF gameThreads < 2 THEN gameThreads + 1 ELSE 2
    /\ Len(send_queue) < MaxSend
    /\ send_queue' \in Pushes(send_queue, "GAME_START", gameThreads > 0)
    /\ told' = {}

\* Mutant: the game starts without the broadcast.
handleGameStartSilent ==
    /\ Dispatch({"GAME_START"})
    /\ game_running' = TRUE
    /\ gameThreads' = IF gameThreads < 2 THEN gameThreads + 1 ELSE 2
    /\ told' = {}
    /\ Return
    /\ UNCHANGED <<tableVars, ioVars, clients_mutex, send_queue>>

handleGameStart ==
    /\ Dispatch({"GAME_START"})
    /\ \/ game_running /\ UNCHANGED <<gameVars, send_queue, told>>
       \/ ~game_running /\ StartGame
    /\ Return
    /\ UNCHANGED <<tableVars, ioVars, clients_mutex>>

\* m_game.stop() empties the game's containers: it neither stops the game
\* thread nor tells anyone.
handleGameEnd ==
    /\ Dispatch({"GAME_END"})
    /\ game_running' = FALSE      \* outside a game: a log line
    /\ Return
    /\ UNCHANGED <<tableVars, ioVars, clients_mutex, gameThreads, send_queue, told>>

\* sendPong: the answer to a HEARTBEAT is broadcast.
handlePing ==
    /\ Dispatch({"HEARTBEAT"})
    /\ Len(send_queue) < MaxSend
    /\ send_queue' \in Pushes(send_queue, "HEARTBEAT", gameThreads > 0)
    /\ Return
    /\ UNCHANGED <<tableVars, ioVars, clients_mutex, gameVars, told>>

\* handlePlayerAction outside a game: a log line.
handlePlayerActionIgnored ==
    /\ Dispatch({"PLAYER_MOVE"})
    /\ ~game_running
    /\ Return
    /\ UNCHANGED <<tableVars, ioVars, clients_mutex, gameVars, send_queue, told>>

\* Mutant: the loop runs over every id ever given out.
ScanBeginAllIds ==
    /\ Dispatch({"PLAYER_SHOOT", "PLAYER_MOVE"})
    /\ packet.type = "PLAYER_MOVE" => game_running
    /\ Lock("handler")
    /\ hpc' = "scan"
    /\ toScan' = Ids
    /\ UNCHANGED <<tableVars, ioVars, packet, endpoint, playerId, gameVars,
                   send_queue, told>>

\* handlePlayerShoot, and handlePlayerAction in a game, lock clients_mutex_
\* and walk through the clients.  A shot is not refused outside a game.
ScanBegin ==
    /\ Dispatch({"PLAYER_SHOOT", "PLAYER_MOVE"})
    /\ packet.type = "PLAYER_MOVE" => game_running
    /\ Lock("handler")
    /\ hpc' = "scan"
    /\ toScan' = DOMAIN clients
    /\ UNCHANGED <<tableVars, ioVars, packet, endpoint, playerId, gameVars,
                   send_queue, told>>

\* One comparison of the loop, in the order of the ids.  clientEndpoint is
\* a reference to remote_endpoint_, so that each comparison reads it anew.
ScanStep ==
    /\ hpc = "scan"
    /\ \E id \in toScan :
           /\ \A j \in toScan : id <= j
           /\ \/ /\ clients[id] = remote_endpoint
                 /\ playerId' = id
                 /\ hpc' = "call"
                 /\ toScan' = {}
                 /\ Unlock("handler")
              \/ /\ clients[id] # remote_endpoint
                 /\ toScan' = toScan \ {id}
                 /\ UNCHANGED <<playerId, hpc, clients_mutex>>
    /\ UNCHANGED <<tableVars, ioVars, packet, endpoint, gameVars, send_queue, told>>

\* Nobody matched: a log line.
ScanEnd ==
    /\ hpc = "scan"
    /\ toScan = {}
    /\ Unlock("handler")
    /\ Return
    /\ UNCHANGED <<tableVars, ioVars, gameVars, send_queue, told>>

\* m_game.spawnBullet(playerId) or addPlayerAction(playerId, action), with
\* clients_mutex_ released.  What they do to the game is not part of this
\* module.
CallGame ==
    /\ hpc = "call"
    /\ Return
    /\ UNCHANGED <<tableVars, ioVars, clients_mutex, gameVars, send_queue, told>>

--------------------------------------------------------------------------------
Handler ==
    \/ pop \/ handleNone \/ CopyEndpoint
    \/ HandlerLocks \/ reqConnectCreate \/ reqConnectReply \/ handleDisconnected
    \/ handleGameStart \/ handleGameEnd \/ handlePing
    \/ handlePlayerActionIgnored \/ ScanBegin \/ ScanStep \/ ScanEnd \/ CallGame

Io ==
    \/ \E e \in Endpoints, t \in Inputs : Receive(e, t)
    \/ ReceiveError \/ handleReceive
    \/ lock_send_timer \/ handle_send_timer \/ handle_print_timer

ServerNext == Io \/ Handler \/ GameBroadcast

ServerSpec == ServerInit /\ [][ServerNext]_serverVars

\* The handler thread runs on, and the callback of the send timer comes and
\* goes.  Both wait for clients_mutex_, which either may take again as soon as
\* it gave it back: SF says that a thread which finds the mutex free again and
\* again gets it in the end.  Nobody is obliged to send datagrams, to receive
\* them or to broadcast.
ServerFairness ==
    /\ SF_serverVars(Handler)
    /\ SF_serverVars(lock_send_timer)
    /\ WF_serverVars(handle_send_timer)

FairServerSpec == ServerSpec /\ ServerFairness

--------------------------------------------------------------------------------
\* The queue of packets and the thread behind it, which PacketQueue implements
\* in detail; it is open as long as the server runs.
Fifo == INSTANCE PacketFifo WITH
            Packets <- Packet, NoPacket <- Idle,
            waiting <- packetQueue, inHand <- packet, open <- TRUE

--------------------------------------------------------------------------------
(***************************************************************************)
(* The types of the server's variables.                                    *)
(***************************************************************************)
ServerTypeOK ==
    /\ TableTypeOK
    /\ remote_endpoint \in Endpoints \cup {NoEndpoint}
    /\ received \in Packet \cup {Nothing, Failed, Aborted}
    /\ packetQueue \in Seq(Packet)
    /\ hpc \in HandlerStates
    /\ packet \in Packet \cup {Idle}
    /\ endpoint \in Endpoints \cup {NoEndpoint}
    /\ toScan \subseteq DOMAIN clients
    /\ playerId \in Nat
    /\ clients_mutex \in Holders
    /\ game_running \in BOOLEAN
    /\ send_queue \in Seq(Messages)
    /\ gameThreads \in 0 .. 2
    /\ told \subseteq Endpoints

(***************************************************************************)
(* The handler thread credits a packet to the endpoint that sent it as     *)
(* long as no later datagram has arrived: the endpoint it registers,       *)
(* answers or removes, and the player it moves, are the sender's.  The     *)
(* queue carries types only (Server.cpp:52-54), and remote_endpoint_ is    *)
(* read when the packet is handled (PacketHandler.cpp:67,74,116,169).      *)
(***************************************************************************)
\* Where the handler works on its copy of remote_endpoint_.
Copied ==
    {"create", "creating", "reply", "replying", "disconnect", "disconnecting"}

Quiet == packetQueue = <<>> /\ received \in {Nothing, Failed, Aborted}

QuietAttribution ==
    Quiet =>
        /\ hpc # "pop" => remote_endpoint = packet.from
        /\ hpc \in Copied => endpoint = packet.from
        /\ hpc = "call" => playerId \in DOMAIN clients
                           /\ clients[playerId] = packet.from

(***************************************************************************)
(* In the first game every registered client has been told of it, or the   *)
(* GAME_START is still on its way to all, or the handler is about to       *)
(* answer: a client that registers between the broadcast being queued and  *)
(* being sent, or after it was sent, is not forgotten                      *)
(* (Server.cpp:117-122,183-188, PacketHandler.cpp:87-90).                  *)
(***************************************************************************)
OnItsWay(e) ==
    \/ "GAME_START" \in Range(send_queue)
    \/ hpc \in {"reply", "replying"} /\ endpoint = e

InformedOfGame ==
    game_running /\ gameThreads = 1 =>
        \A e \in Registered : e \in told \/ OnItsWay(e)

(***************************************************************************)
(* A registered client is in the end told of the first game, unless it     *)
(* leaves or the game is ended: neither the one-message-per-millisecond    *)
(* timer nor the lock it shares with the handler holds the message back    *)
(* for ever (Server.cpp:179-194).                                          *)
(***************************************************************************)
EventuallyInformed ==
    \A e \in Endpoints :
        (game_running /\ gameThreads = 1 /\ e \in Registered)
            ~> (e \in told \/ e \notin Registered
                \/ ~game_running \/ gameThreads > 1)

(***************************************************************************)
(* Whatever arrives, the handler comes back to the queue                   *)
(* (PacketHandler.cpp:29-34): it waits for clients_mutex_ up to twice in   *)
(* one packet (Server.cpp:94,118), never while it holds it itself, and the *)
(* timer, which takes the mutex a thousand times a second                  *)
(* (Server.cpp:182), gives it back each time.                              *)
(***************************************************************************)
HandlerReturns == []<>(hpc = "pop")
================================================================================
