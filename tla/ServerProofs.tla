------------------------------ MODULE ServerProofs ------------------------------
(***************************************************************************)
(* What Server promises for every set of endpoints, every choice of inputs *)
(* and every bound on the queues.                                          *)
(***************************************************************************)
EXTENDS Server, ClientTableProofs

\* The handler holds clients_mutex_ in these states and in no other.
Holding == {"creating", "replying", "disconnecting", "scan"}

LockInv == clients_mutex = "handler" <=> hpc \in Holding

\* A handler runs only with a packet in its hands, hence after a datagram,
\* and leaves no loop behind.
HandlerInv ==
    /\ LockInv
    /\ hpc # "pop" => packet \in Packet /\ remote_endpoint \in Endpoints
    /\ hpc \in Copied => endpoint \in Endpoints
    /\ hpc # "scan" => toScan = {}

\* remote_endpoint_ is the sender of the youngest packet still in the pipe.
YoungestSender ==
    /\ received \in Packet => received.from = remote_endpoint
    /\ received \notin Packet /\ packetQueue # <<>> =>
           packetQueue[Len(packetQueue)].from = remote_endpoint

GameInv == game_running => gameThreads > 0

ServerInv ==
    /\ ServerTypeOK
    /\ TableInv
    /\ HandlerInv
    /\ YoungestSender
    /\ GameInv

USE DEF HandlerStates, Messages, Copied, Holders, Lock, Unlock,
        LockInv, Holding

--------------------------------------------------------------------------------
\* The four values that stand for no packet are none.
LEMMA NoPacket ==
    /\ Nothing \notin Packet /\ Failed \notin Packet
    /\ Aborted \notin Packet /\ Idle \notin Packet
  BY DEF Nothing, Failed, Aborted, Idle, Packet, PacketTypes

\* Taking a lock moves the handler on and changes nothing else.
LEMMA LockFacts ==
    ASSUME HandlerLocks
    PROVE  /\ \/ hpc = "create" /\ hpc' = "creating"
              \/ hpc = "reply" /\ hpc' = "replying"
              \/ hpc = "disconnect" /\ hpc' = "disconnecting"
           /\ clients_mutex' = "handler"
           /\ UNCHANGED <<tableVars, ioVars, packet, endpoint, toScan, playerId,
                          gameVars, send_queue, told>>
  BY DEF HandlerLocks, Locks

\* Only createClient and disconnectData touch the table of clients.
LEMMA StepOfTable ==
    ASSUME ServerInv, [ServerNext]_serverVars
    PROVE  [TableNext]_tableVars
<1>1. CASE reqConnectCreate
  BY <1>1 DEF reqConnectCreate, ServerInv, HandlerInv, TableNext
<1>2. CASE handleDisconnected
  <2>1. endpoint \in Endpoints
    BY <1>2 DEF handleDisconnected, ServerInv, HandlerInv
  <2> QED
    BY <1>2, <2>1 DEF handleDisconnected, TableNext
<1>3. CASE ~reqConnectCreate /\ ~handleDisconnected
  <2>1. UNCHANGED tableVars
    BY <1>3 DEF ServerNext, Io, Handler, Receive, ReceiveError, handleReceive,
                lock_send_timer, handle_send_timer, handle_print_timer,
         HandlerLocks, GameBroadcast, pop, handleNone, CopyEndpoint,
                reqConnectReply, handleGameStart, handleGameEnd, handlePing,
                handlePlayerActionIgnored, ScanBegin, ScanStep, ScanEnd, CallGame,
                serverVars
  <2> QED
    BY <2>1
<1> QED
  BY <1>1, <1>2, <1>3

--------------------------------------------------------------------------------
\* The actions that leave the io thread's variables alone keep what is said
\* of the youngest packet.
LEMMA StepOfSender ==
    ASSUME ServerInv, [ServerNext]_serverVars
    PROVE  YoungestSender'
<1> USE NoPacket DEF ServerInv, YoungestSender
<1>1. ASSUME NEW e \in Endpoints, NEW t \in Inputs, Receive(e, t)
      PROVE  YoungestSender'
  BY <1>1, ServerAssumption DEF Receive, Packet
<1>2. CASE ReceiveError
  BY <1>2 DEF ReceiveError, Nothing
<1>3. CASE handleReceive
  <2>1. CASE received = Failed
    BY <1>3, <2>1 DEF handleReceive
  <2>2. CASE received # Failed
    <3>1. received \in Packet
      BY <1>3, <2>2 DEF handleReceive, ServerTypeOK
    <3>2. packetQueue' = Append(packetQueue, received) /\ received' = Nothing
      BY <1>3, <2>2 DEF handleReceive
    <3>3. packetQueue'[Len(packetQueue')] = received
      BY <3>1, <3>2, AppendProperties DEF ServerTypeOK
    <3> QED
      BY <1>3, <3>1, <3>2, <3>3 DEF handleReceive
  <2> QED
    BY <2>1, <2>2
<1>4. CASE pop
  <2>1. /\ packetQueue' = Tail(packetQueue)
        /\ Len(packetQueue') = Len(packetQueue) - 1
        /\ \A i \in 1 .. Len(packetQueue') : packetQueue'[i] = packetQueue[i + 1]
        /\ packetQueue' \in Seq(Packet)
    BY <1>4, HeadTailProperties DEF pop, ServerTypeOK
  <2>2. CASE packetQueue' # <<>>
    <3>1. Len(packetQueue') \in 1 .. Len(packetQueue')
      BY <2>1, <2>2, EmptySeq
    <3> QED
      BY <1>4, <2>1, <3>1 DEF pop, ServerTypeOK
  <2> QED
    BY <1>4, <2>2 DEF pop
<1>5. CASE UNCHANGED ioVars
  BY <1>5 DEF ioVars
<1>6. CASE /\ ~\E e \in Endpoints, t \in Inputs : Receive(e, t)
           /\ ~ReceiveError /\ ~handleReceive /\ ~pop
  <2>1. UNCHANGED ioVars
    BY <1>6 DEF ServerNext, Io, Handler, lock_send_timer, handle_send_timer,
                handle_print_timer, HandlerLocks, GameBroadcast,
                handleNone, CopyEndpoint, reqConnectCreate, reqConnectReply,
                handleDisconnected, handleGameStart, handleGameEnd, handlePing,
                handlePlayerActionIgnored, ScanBegin, ScanStep, ScanEnd, CallGame,
                serverVars
  <2> QED
    BY <1>5, <2>1
<1> QED
  BY <1>1, <1>2, <1>3, <1>4, <1>6

\* Where the handler thread is, and what it holds.
LEMMA StepOfHandler ==
    ASSUME ServerInv, [ServerNext]_serverVars
    PROVE  HandlerInv'
<1> USE DEF ServerInv, HandlerInv
<1>1. CASE Io
  BY <1>1 DEF Io, Receive, ReceiveError, handleReceive, lock_send_timer, handle_send_timer,
                handle_print_timer, serverVars, handlerVars, ioVars
<1>2. CASE GameBroadcast
  BY <1>2 DEF GameBroadcast, handlerVars, ioVars
<1>3. CASE pop
  <2>1. packet' \in Packet
    BY <1>3 DEF pop, ServerTypeOK
  <2>2. remote_endpoint \in Endpoints
    <3>1. CASE received \in Packet
      BY <3>1 DEF YoungestSender, Packet
    <3>2. CASE received \notin Packet
      <4>1. packetQueue[Len(packetQueue)] \in Packet
        BY <1>3 DEF pop, ServerTypeOK
      <4> QED
        BY <1>3, <3>2, <4>1 DEF YoungestSender, Packet, pop
    <3> QED
      BY <3>1, <3>2
  <2> QED
    BY <1>3, <2>1, <2>2 DEF pop
<1>4. CASE CopyEndpoint
  BY <1>4 DEF CopyEndpoint, Dispatch, ioVars
<1>5. CASE reqConnectCreate
  BY <1>5 DEF reqConnectCreate, ioVars
<1>6. CASE ScanBegin
  BY <1>6 DEF ScanBegin, Dispatch, ioVars
<1>7. CASE ScanStep
  BY <1>7 DEF ScanStep, ioVars
<1>8. CASE Return /\ Unlock("handler") /\ UNCHANGED ioVars
  BY <1>8 DEF Return, ioVars
<1>11. CASE Return /\ hpc \notin Holding /\ UNCHANGED clients_mutex
  BY <1>11 DEF Return
<1>9. CASE UNCHANGED serverVars
  BY <1>9 DEF serverVars, handlerVars, ioVars
<1>10. CASE HandlerLocks
  BY <1>10, LockFacts DEF ioVars
<1>12. CASE reqConnectReply \/ handleDisconnected \/ ScanEnd
  BY <1>8, <1>12 DEF reqConnectReply, handleDisconnected, ScanEnd, ioVars
<1>13. CASE \/ handleNone \/ handleGameStart \/ handleGameEnd \/ handlePing
            \/ handlePlayerActionIgnored \/ CallGame
  BY <1>11, <1>13 DEF handleNone, handleGameStart, handleGameEnd, handlePing,
                      handlePlayerActionIgnored, CallGame, Dispatch
<1> QED
  BY <1>1, <1>2, <1>3, <1>4, <1>5, <1>6, <1>7, <1>9, <1>10, <1>12, <1>13
  DEF ServerNext, Handler

\* A push by the handler thread leaves a queue of messages.
LEMMA PushFacts ==
    ASSUME NEW q \in Seq(Messages), NEW m \in Messages, NEW racing,
           NEW r \in Pushes(q, m, racing)
    PROVE  r \in Seq(Messages) /\ (r = q \/ r = Append(q, m))
<1>1. r = q \/ r = Append(q, m)
  BY DEF Pushes
<1>2. Append(q, m) \in Seq(Messages)
  BY AppendProperties
<1> QED
  BY <1>1, <1>2

\* The types survive every step.
LEMMA StepOfTypes ==
    ASSUME ServerInv, [ServerNext]_serverVars
    PROVE  ServerTypeOK'
<1> USE DEF ServerInv, ServerTypeOK
<1>t. TableTypeOK'
  BY StepOfTable, TableStep DEF TableInv
<1>1. CASE Io
  <2>1. ASSUME NEW e \in Endpoints, NEW t \in Inputs, Receive(e, t)
        PROVE  ServerTypeOK'
    BY <1>t, <2>1, ServerAssumption
    DEF Receive, Packet, tableVars, handlerVars, gameVars
  <2>2. CASE ReceiveError
    BY <1>t, <2>2 DEF ReceiveError, tableVars, handlerVars, gameVars
  <2>3. CASE handleReceive
    BY <1>t, <2>3 DEF handleReceive, tableVars, handlerVars, gameVars
  <2>4. CASE handle_send_timer
    <3>1. Registered \subseteq Endpoints
      BY DEF TableTypeOK, Registered, Range
    <3>2. send_queue' \in Seq(Messages) /\ told' \subseteq Endpoints
      BY <2>4, <3>1 DEF handle_send_timer
    <3> QED
      BY <1>t, <2>4, <3>2 DEF handle_send_timer, tableVars, handlerVars, gameVars, ioVars
  <2>5. CASE lock_send_timer
    BY <1>t, <2>5 DEF lock_send_timer, tableVars, handlerVars, gameVars, ioVars
  <2>6. CASE handle_print_timer
    BY <1>t, <2>6 DEF handle_print_timer, serverVars, tableVars, handlerVars, gameVars, ioVars
  <2> QED
    BY <1>1, <2>1, <2>2, <2>3, <2>4, <2>5, <2>6 DEF Io
<1>2. CASE GameBroadcast
  BY <1>t, <1>2 DEF GameBroadcast, tableVars, handlerVars, gameVars, ioVars
<1>3. CASE pop
  BY <1>t, <1>3 DEF pop, tableVars, gameVars
<1>4. CASE CopyEndpoint
  BY <1>t, <1>4 DEF CopyEndpoint, Dispatch, tableVars, gameVars, ioVars, HandlerInv
<1>5. CASE reqConnectCreate
  BY <1>t, <1>5 DEF reqConnectCreate, gameVars, ioVars, HandlerInv
<1>6. CASE ScanBegin
  BY <1>t, <1>6 DEF ScanBegin, Dispatch, tableVars, gameVars, ioVars
<1>7. CASE ScanStep
  <2>1. DOMAIN clients \subseteq Nat
    BY DEF TableTypeOK, Ids
  <2> QED
    BY <1>t, <1>7, <2>1 DEF ScanStep, tableVars, gameVars, ioVars
<1>8. CASE handleNone \/ handlePlayerActionIgnored \/ ScanEnd \/ CallGame
  BY <1>t, <1>8 DEF handleNone, handlePlayerActionIgnored, ScanEnd, CallGame, Return,
                    Dispatch, tableVars, gameVars, ioVars
<1>9. CASE reqConnectReply
  <2>1. told' \subseteq Endpoints
    BY <1>9 DEF reqConnectReply, HandlerInv
  <2> QED
    BY <1>t, <1>9, <2>1 DEF reqConnectReply, Return, tableVars, gameVars, ioVars
<1>10. CASE handleDisconnected
  BY <1>t, <1>10 DEF handleDisconnected, Return, gameVars, ioVars
<1>11. CASE handleGameStart
  <2>1. CASE UNCHANGED <<gameVars, send_queue, told>>
    BY <1>t, <1>11, <2>1 DEF handleGameStart, Return, Dispatch, tableVars, gameVars, ioVars
  <2>2. CASE StartGame
    <3>1. gameThreads' \in 0 .. 2
      BY <2>2 DEF StartGame
    <3>2. send_queue' \in Seq(Messages)
      <4>1. send_queue \in Seq(Messages) /\ "GAME_START" \in Messages
        OBVIOUS
      <4> QED
        BY <2>2, <4>1, PushFacts, Zenon DEF StartGame
    <3>3. told' \subseteq Endpoints /\ game_running' \in BOOLEAN
      BY <2>2 DEF StartGame
    <3> QED
      BY <1>t, <1>11, <3>1, <3>2, <3>3
      DEF handleGameStart, Return, Dispatch, tableVars, ioVars
  <2> QED
    BY <1>11, <2>1, <2>2 DEF handleGameStart
<1>12. CASE handleGameEnd
  BY <1>t, <1>12 DEF handleGameEnd, Return, Dispatch, tableVars, ioVars
<1>13. CASE handlePing
  <2>1. send_queue' \in Seq(Messages)
    <3>1. send_queue \in Seq(Messages) /\ "HEARTBEAT" \in Messages
      OBVIOUS
    <3> QED
      BY <1>13, <3>1, PushFacts, Zenon DEF handlePing
  <2> QED
    BY <1>t, <1>13, <2>1 DEF handlePing, Return, Dispatch, tableVars, gameVars, ioVars
<1>14. CASE UNCHANGED serverVars
  BY <1>t, <1>14 DEF serverVars, tableVars, gameVars, ioVars, handlerVars
<1>15. CASE HandlerLocks
  BY <1>t, <1>15, LockFacts DEF tableVars, gameVars, ioVars
<1> QED
  BY <1>1, <1>2, <1>3, <1>4, <1>5, <1>6, <1>7, <1>8, <1>9, <1>10, <1>11, <1>12,
     <1>13, <1>14, <1>15 DEF ServerNext, Handler

\* A running game has a thread.
LEMMA StepOfGame ==
    ASSUME ServerInv, [ServerNext]_serverVars
    PROVE  GameInv'
<1> USE DEF ServerInv, GameInv
<1>1. CASE handleGameStart
  <2>1. CASE UNCHANGED gameVars
    BY <2>1 DEF gameVars
  <2>2. CASE StartGame
    <3>1. gameThreads \in 0 .. 2
      BY DEF ServerTypeOK
    <3> QED
      BY <2>2, <3>1 DEF StartGame
  <2> QED
    BY <1>1, <2>1, <2>2 DEF handleGameStart
<1>2. CASE handleGameEnd
  BY <1>2 DEF handleGameEnd
<1>3. CASE UNCHANGED gameVars
  BY <1>3 DEF gameVars
<1> QED
  BY <1>1, <1>2, <1>3
  DEF ServerNext, Io, Handler, Receive, ReceiveError, handleReceive,
      lock_send_timer, handle_send_timer, handle_print_timer,
         HandlerLocks, GameBroadcast, pop, handleNone, CopyEndpoint,
      reqConnectCreate, reqConnectReply, handleDisconnected, handlePing,
      handlePlayerActionIgnored, ScanBegin, ScanStep, ScanEnd, CallGame, serverVars

LEMMA ServerInvStep == ServerInv /\ [ServerNext]_serverVars => ServerInv'
<1> SUFFICES ASSUME ServerInv, [ServerNext]_serverVars PROVE ServerInv'
  OBVIOUS
<1>1. TableInv'
  BY StepOfTable, TableStep DEF ServerInv
<1> QED
  BY <1>1, StepOfTypes, StepOfHandler, StepOfSender, StepOfGame DEF ServerInv

LEMMA ServerInitInv == ServerInit => ServerInv
<1> SUFFICES ASSUME ServerInit PROVE ServerInv
  OBVIOUS
<1>1. TableInv /\ TableTypeOK
  BY TableInitInv DEF ServerInit, TableInv
<1>2. ServerTypeOK
  <2>1. packetQueue \in Seq(Packet) /\ send_queue \in Seq(Messages)
    BY EmptySeq, Zenon DEF ServerInit
  <2>2. told \subseteq Endpoints
    BY DEF ServerInit
  <2>3. /\ received = Nothing /\ packet = Idle /\ hpc \in HandlerStates
        /\ remote_endpoint = NoEndpoint /\ endpoint = NoEndpoint
        /\ toScan = {} /\ playerId \in Nat
        /\ gameThreads \in 0 .. 2 /\ clients_mutex = "free"
    BY DEF ServerInit
  <2>4. game_running \in BOOLEAN
    BY Zenon DEF ServerInit
  <2> QED
    BY <1>1, <2>1, <2>2, <2>3, <2>4 DEF ServerTypeOK
<1>3. HandlerInv /\ GameInv
  BY DEF ServerInit, HandlerInv, GameInv
<1>4. YoungestSender
  <2>1. received = Nothing /\ packetQueue = <<>>
    BY DEF ServerInit
  <2>2. received \notin Packet
    BY <2>1, NoPacket
  <2> QED
    BY <2>1, <2>2 DEF YoungestSender
<1> QED
  BY <1>1, <1>2, <1>3, <1>4 DEF ServerInv

--------------------------------------------------------------------------------
(***************************************************************************)
(* The types of the server's variables.                                    *)
(***************************************************************************)
THEOREM ServerTypes == ServerSpec => []ServerTypeOK
<1>1. ServerInv => ServerTypeOK
  BY DEF ServerInv
<1> QED
  BY <1>1, ServerInitInv, ServerInvStep, PTL DEF ServerSpec

(***************************************************************************)
(* The handler thread never waits for itself: where it is about to lock    *)
(* clients_mutex_, which is not recursive, it does not hold it             *)
(* (Server.cpp:94,118,131, PacketHandler.cpp:121,174).                     *)
(***************************************************************************)
THEOREM ServerLocksOnce ==
    ServerSpec => [](hpc \in DOMAIN Locks \cup {"dispatch"} => clients_mutex # "handler")
<1>1. ServerInv => (hpc \in DOMAIN Locks \cup {"dispatch"} => clients_mutex # "handler")
  BY DEF ServerInv, HandlerInv, Locks
<1> QED
  BY <1>1, ServerInitInv, ServerInvStep, PTL DEF ServerSpec

(***************************************************************************)
(* The threads together use the table of clients as its own specification  *)
(* says: the remote_endpoint_ that createClient and disconnectData are     *)
(* given is always that of some datagram (PacketHandler.cpp:64-76).        *)
(***************************************************************************)
THEOREM ServerUsesTable == ServerSpec => TableSpec
<1>1. ServerInit => TableInit
  BY DEF ServerInit
<1>2. ServerInv /\ [ServerNext]_serverVars => [TableNext]_tableVars
  BY StepOfTable
<1> QED
  BY <1>1, <1>2, ServerInitInv, ServerInvStep, PTL DEF ServerSpec, TableSpec

(***************************************************************************)
(* So the ids stay partitioned, and no endpoint holds two, whatever the    *)
(* threads do (Server.cpp:90-149).                                         *)
(***************************************************************************)
THEOREM ServerIds == ServerSpec => [](IdPartition /\ OneIdPerEndpoint)
<1>1. TableTypeOK /\ IdPartition /\ OneIdPerEndpoint => IdPartition /\ OneIdPerEndpoint
  OBVIOUS
<1> QED
  BY <1>1, ServerUsesTable, TableSafety, PTL

--------------------------------------------------------------------------------
\* Between two packets the handler has none.
HandsFree == hpc = "pop" => packet = Idle

LEMMA StepOfFifo ==
    ASSUME ServerInv, HandsFree, [ServerNext]_serverVars
    PROVE  HandsFree' /\ [Fifo!FifoNext]_Fifo!fifoVars
<1> USE DEF HandsFree, Fifo!FifoNext, Fifo!fifoVars
<1>0. hpc # "pop" => packet # Idle
  BY NoPacket DEF ServerInv, HandlerInv
<1>1. CASE handleReceive
  <2>1. CASE received = Failed
    BY <1>1, <2>1 DEF handleReceive, handlerVars
  <2>2. CASE received # Failed
    <3>1. received \in Packet
      BY <1>1, <2>2 DEF handleReceive, ServerInv, ServerTypeOK
    <3>2. Fifo!Put(received)
      BY <1>1, <2>2 DEF handleReceive, handlerVars, Fifo!Put
    <3> QED
      BY <1>1, <3>1, <3>2 DEF handleReceive, handlerVars
  <2> QED
    BY <2>1, <2>2
<1>2. CASE pop
  <2>1. Fifo!Take
    BY <1>2 DEF pop, Fifo!Take
  <2> QED
    BY <1>2, <2>1 DEF pop
<1>3. CASE hpc # "pop" /\ Return /\ packetQueue' = packetQueue
  <2>1. Fifo!Done
    BY <1>0, <1>3 DEF Return, Fifo!Done
  <2> QED
    BY <1>3, <2>1 DEF Return
<1>4. CASE packetQueue' = packetQueue /\ packet' = packet /\ (hpc' = hpc \/ hpc' # "pop")
  BY <1>4
<1>5. CASE HandlerLocks
  BY <1>5, LockFacts DEF ioVars
<1> QED
  BY <1>1, <1>2, <1>3, <1>4, <1>5
     DEF ServerNext, Io, Handler, Receive, ReceiveError, lock_send_timer, handle_send_timer, handle_print_timer,
         HandlerLocks, GameBroadcast,
         handleNone, CopyEndpoint, reqConnectCreate, reqConnectReply, handleDisconnected,
         handleGameStart, handleGameEnd, handlePing, handlePlayerActionIgnored, ScanBegin,
         ScanStep, ScanEnd, CallGame, Dispatch, serverVars, handlerVars, ioVars

(***************************************************************************)
(* The server uses its packets as the abstract queue has them: one at a    *)
(* time, in the order in which they came, whatever a handler is cut by     *)
(* (PacketHandler.cpp:29-62, Server.cpp:48-62).  PacketQueue implements    *)
(* that queue with a mutex and a condition variable (QueueImplementsFifo), *)
(* so that it may stand in its place.                                      *)
(***************************************************************************)
THEOREM ServerUsesFifo == ServerSpec => Fifo!FifoSpec
<1>1. ServerInit => HandsFree /\ Fifo!FifoInit
  BY DEF ServerInit, HandsFree, Fifo!FifoInit
<1>2. /\ ServerInv /\ HandsFree /\ [ServerNext]_serverVars
      => HandsFree' /\ [Fifo!FifoNext]_Fifo!fifoVars
  BY StepOfFifo
<1> QED
  BY <1>1, <1>2, ServerInitInv, ServerInvStep, PTL DEF ServerSpec, Fifo!FifoSpec

--------------------------------------------------------------------------------
LEMMA QuietAttributionStep ==
    ASSUME ServerInv, QuietAttribution, [ServerNext]_serverVars
    PROVE  QuietAttribution'
<1> USE NoPacket DEF ServerInv, QuietAttribution, Quiet
<1>1. ASSUME NEW e \in Endpoints, NEW t \in Inputs, Receive(e, t)
      PROVE  QuietAttribution'
  BY <1>1, ServerAssumption DEF Receive, Packet, Nothing, Failed, Aborted, PacketTypes
<1>2. CASE ReceiveError
  BY <1>2 DEF ReceiveError, handlerVars, tableVars
<1>3. CASE handleReceive
  <2>1. CASE received = Failed
    BY <1>3, <2>1 DEF handleReceive, handlerVars, tableVars
  <2>2. CASE received # Failed
    <3>1. packetQueue' # <<>>
      BY <1>3, <2>2, AppendProperties DEF handleReceive, ServerTypeOK
    <3> QED
      BY <3>1
  <2> QED
    BY <2>1, <2>2
<1>4. CASE pop
  <2>1. packetQueue # <<>> /\ packetQueue \in Seq(Packet) /\ hpc' = "dispatch"
    BY <1>4 DEF pop, ServerTypeOK
  <2>2. ASSUME Quiet' PROVE remote_endpoint' = packet'.from
    <3>1. Tail(packetQueue) = <<>> /\ received \notin Packet
      BY <1>4, <2>2 DEF pop
    <3>2. Len(packetQueue) = 1 /\ packetQueue[1] = Head(packetQueue)
      <4>1. Len(Tail(packetQueue)) = Len(packetQueue) - 1 /\ Len(Tail(packetQueue)) = 0
        BY <2>1, <3>1, HeadTailProperties, EmptySeq
      <4>2. Len(packetQueue) \in Nat
        BY <2>1
      <4>3. Len(packetQueue) = 1
        BY <4>1, <4>2
      <4> QED
        BY <2>1, <4>3, HeadTailProperties
    <3> QED
      BY <1>4, <3>1, <3>2 DEF pop, YoungestSender
  <2> QED
    BY <2>1, <2>2
<1>5. CASE CopyEndpoint
  BY <1>5 DEF CopyEndpoint, Dispatch, ioVars, tableVars
<1>6. CASE reqConnectCreate
  BY <1>6 DEF reqConnectCreate, ioVars
<1>7. CASE ScanBegin
  BY <1>7 DEF ScanBegin, Dispatch, ioVars
<1>8. CASE ScanStep
  BY <1>8 DEF ScanStep, ioVars, tableVars, ServerTypeOK
<1>9. CASE Return
  BY <1>9 DEF Return
<1>10. CASE UNCHANGED <<tableVars, ioVars, handlerVars>>
  BY <1>10 DEF ioVars, tableVars, handlerVars
<1>11. CASE HandlerLocks
  BY <1>11, LockFacts DEF ioVars
<1> QED
  BY <1>1, <1>2, <1>3, <1>4, <1>5, <1>6, <1>7, <1>8, <1>9, <1>10, <1>11
  DEF ServerNext, Io, Handler, lock_send_timer, handle_send_timer, handle_print_timer,
         HandlerLocks, GameBroadcast, handleNone,
      reqConnectReply, handleDisconnected, handleGameStart, handleGameEnd,
      handlePing, handlePlayerActionIgnored, ScanEnd, CallGame, serverVars

(***************************************************************************)
(* As long as no later datagram has arrived, the handler registers,        *)
(* answers, removes and moves the endpoint that sent the packet, however   *)
(* many clients there are (PacketHandler.cpp:64-76 and 113-189).           *)
(***************************************************************************)
THEOREM ServerAttribution == ServerSpec => []QuietAttribution
<1>1. ServerInit => QuietAttribution
  BY DEF ServerInit, QuietAttribution
<1>2. ServerInv /\ QuietAttribution /\ [ServerNext]_serverVars => QuietAttribution'
  BY QuietAttributionStep
<1> QED
  BY <1>1, <1>2, ServerInitInv, ServerInvStep, PTL DEF ServerSpec

--------------------------------------------------------------------------------
\* What the timer takes from the queue of broadcasts, and what it leaves.
LEMMA QueueShrinks ==
    ASSUME NEW s \in Seq(Messages), s # <<>>
    PROVE  Range(s) \subseteq Range(Tail(s)) \cup {Head(s)}
<1>1. /\ Head(s) = s[1] /\ Len(Tail(s)) = Len(s) - 1 /\ Tail(s) \in Seq(Messages)
      /\ \A i \in 1 .. Len(Tail(s)) : Tail(s)[i] = s[i + 1]
  BY HeadTailProperties
<1>2. DOMAIN s = 1 .. Len(s) /\ DOMAIN Tail(s) = 1 .. Len(s) - 1 /\ Len(s) \in Nat
  BY <1>1, LenProperties
<1> SUFFICES ASSUME NEW i \in 1 .. Len(s), i # 1 PROVE s[i] \in Range(Tail(s))
  BY <1>1, <1>2 DEF Range
<1>3. i - 1 \in 1 .. Len(s) - 1 /\ Tail(s)[i - 1] = s[i]
  BY <1>1, <1>2
<1> QED
  BY <1>2, <1>3 DEF Range

\* A push never removes a message from the queue.
LEMMA QueueGrows ==
    ASSUME NEW q \in Seq(Messages), NEW m \in Messages, NEW r, r = q \/ r = Append(q, m)
    PROVE  Range(q) \subseteq Range(r)
<1>1. Range(Append(q, m)) = Range(q) \cup {m}
  BY AppendFacts
<1> QED
  BY <1>1

\* What an operation of the table does to the set of registered endpoints.
LEMMA RegisteredChange ==
    /\ \A e : createClient(e) => Registered' \subseteq Registered \cup {e}
    /\ \A e : disconnectData(e) => Registered' \subseteq Registered
<1>1. ASSUME NEW e, createClient(e) PROVE Registered' \subseteq Registered \cup {e}
  BY <1>1 DEF createClient, Registered, Range, Insert, tableVars
<1>2. ASSUME NEW e, disconnectData(e) PROVE Registered' \subseteq Registered
  BY <1>2 DEF disconnectData, Registered, Range, Restrict
<1> QED
  BY <1>1, <1>2

LEMMA InformedStep ==
    ASSUME ServerInv, InformedOfGame, [ServerNext]_serverVars
    PROVE  InformedOfGame'
<1> USE DEF InformedOfGame, OnItsWay
<1>q. send_queue \in Seq(Messages) /\ told \subseteq Endpoints
      /\ gameThreads \in 0 .. 2
  BY DEF ServerInv, ServerTypeOK
<1>r. Registered \subseteq Endpoints
  BY DEF ServerInv, ServerTypeOK, TableTypeOK, Registered, Range
<1>1. CASE handle_send_timer
  <2>1. /\ Registered' = Registered
        /\ UNCHANGED <<game_running, gameThreads, hpc, endpoint>>
    BY <1>1 DEF handle_send_timer, tableVars, gameVars, handlerVars, Registered
  <2>2. CASE UNCHANGED <<send_queue, told>>
    BY <2>1, <2>2
  <2>3. CASE /\ send_queue # <<>> /\ send_queue' = Tail(send_queue)
             /\ Head(send_queue) = "GAME_START"
    BY <1>1, <1>r, <2>1, <2>3 DEF handle_send_timer
  <2>4. CASE /\ send_queue # <<>> /\ send_queue' = Tail(send_queue)
             /\ Head(send_queue) # "GAME_START"
    <3>1. told' = told
      BY <1>1, <2>4 DEF handle_send_timer
    <3>2. "GAME_START" \in Range(send_queue) => "GAME_START" \in Range(send_queue')
      BY <1>q, <2>4, QueueShrinks
    <3> QED
      BY <2>1, <3>1, <3>2
  <2> QED
    BY <1>1, <2>2, <2>3, <2>4 DEF handle_send_timer
<1>2. CASE GameBroadcast
  <2>1. Range(send_queue) \subseteq Range(send_queue')
    BY <1>2, <1>q, QueueGrows DEF GameBroadcast
  <2> QED
    BY <1>2, <2>1 DEF GameBroadcast, tableVars, gameVars, handlerVars, Registered
<1>3. CASE handlePing
  <2>1. send_queue' = send_queue \/ send_queue' = Append(send_queue, "HEARTBEAT")
    BY <1>3 DEF handlePing, Pushes
  <2>2. Range(send_queue) \subseteq Range(send_queue')
    BY <1>q, <2>1, QueueGrows
  <2> QED
    BY <1>3, <2>2 DEF handlePing, Dispatch, Return, tableVars, gameVars, Registered
<1>4. CASE reqConnectCreate
  <2>1. Registered' \subseteq Registered \cup {endpoint}
    BY <1>4, RegisteredChange DEF reqConnectCreate
  <2> QED
    BY <1>4, <2>1 DEF reqConnectCreate, gameVars
<1>5. CASE reqConnectReply
  <2>1. endpoint \in Endpoints
    BY <1>5 DEF reqConnectReply, ServerInv, HandlerInv
  <2> QED
    BY <1>5, <1>q, <1>r, <2>1 DEF reqConnectReply, Return, tableVars, gameVars, Registered
<1>6. CASE handleDisconnected
  <2>1. Registered' \subseteq Registered
    BY <1>6, RegisteredChange DEF handleDisconnected, tableVars, Registered
  <2>2. told' = told
    BY <1>6, <1>q, <1>r, <2>1 DEF handleDisconnected, tableVars, Registered
  <2> QED
    BY <1>6, <2>1, <2>2 DEF handleDisconnected, gameVars
<1>7. CASE handleGameStart
  <2>1. CASE UNCHANGED <<gameVars, send_queue, told>>
    BY <1>7, <2>1 DEF handleGameStart, Dispatch, Return, tableVars, gameVars, Registered
  <2>2. CASE StartGame
    <3>1. gameThreads' = 1 => send_queue' = Append(send_queue, "GAME_START")
      BY <1>q, <2>2 DEF StartGame, Pushes
    <3>2. Range(Append(send_queue, "GAME_START")) = Range(send_queue) \cup {"GAME_START"}
      BY <1>q, AppendFacts
    <3> QED
      BY <3>1, <3>2
  <2> QED
    BY <1>7, <2>1, <2>2 DEF handleGameStart
<1>8. CASE handleGameEnd
  BY <1>8 DEF handleGameEnd
<1>9. CASE /\ UNCHANGED <<tableVars, gameVars, send_queue, told>>
           /\ hpc \in {"reply", "replying"} => UNCHANGED <<hpc, endpoint>>
  BY <1>9 DEF tableVars, gameVars, Registered
<1>10. CASE HandlerLocks
  BY <1>10, LockFacts DEF tableVars, gameVars, Registered
<1> QED
  BY <1>1, <1>2, <1>3, <1>4, <1>5, <1>6, <1>7, <1>8, <1>9, <1>10
  DEF ServerNext, Io, Handler, Receive, ReceiveError, handleReceive, lock_send_timer,
      handle_print_timer, pop, handleNone,
      CopyEndpoint, handlePlayerActionIgnored, ScanBegin, ScanStep, ScanEnd, CallGame,
      Dispatch, serverVars, handlerVars

(***************************************************************************)
(* In the first game no registered client is forgotten, whatever the       *)
(* interleaving of registrations, the start of the game and the timer      *)
(* (Server.cpp:111-125 and 179-194, PacketHandler.cpp:78-97).              *)
(***************************************************************************)
THEOREM ServerInforms == ServerSpec => []InformedOfGame
<1>1. ServerInit => InformedOfGame
  BY DEF ServerInit, InformedOfGame
<1>2. ServerInv /\ InformedOfGame /\ [ServerNext]_serverVars => InformedOfGame'
  BY InformedStep
<1> QED
  BY <1>1, <1>2, ServerInitInv, ServerInvStep, PTL DEF ServerSpec
================================================================================
