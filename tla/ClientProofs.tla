------------------------------ MODULE ClientProofs ------------------------------
(* Theorems about the client. *)
EXTENDS Client, TLAPS

\* What a packet in the slot rests on while the main thread has not looked at
\* it: the lock is held, so that no other packet is being parsed.
HandInv ==
    owed => /\ mutex
            /\ rpc \in {"idle", "lock"}
            /\ mpc \notin {"reset", "resetId", "input", "unlock"}

\* A packet that has been acted upon is reset before the next frame.
UseInv ==
    /\ uses \in {0, 1}
    /\ uses = 1 => mpc \in {"act", "reset"} \/ packet.action = "NONE"

\* The button is clicked in the lobby, and leads out of it in the same frame.
\* What checkGameStart leaves in newAction_ is there when the lobby is over, so
\* that in the lobby a new action is that of a click which nobody has sent yet.
ClickInv ==
    /\ mpc \in {"lobby", "send", "start"} => ~started
    /\ startButtonClicked => mpc \in {"send", "start"}
    /\ newAction # NoAction =>
           started \/ (mpc = "send" /\ startButtonClicked /\ asked = 0 /\ clicks = 1)
    /\ \/ asked = 0
       \/ asked = 1 /\ clicks = 1 /\ (started \/ (mpc = "start" /\ startButtonClicked))

\* The place of the queue that is kept for the main thread.
RoomInv ==
    mpc = "connect" \/ (mpc = "send" /\ newAction # NoAction) => Len(sendQueue) < MaxSend

Inv == HandInv /\ UseInv /\ ClickInv

USE DEF sceneVars

--------------------------------------------------------------------------------
(* The hand-over of packets and the clicks. *)

LEMMA InvInit == ClientInit => Inv
  BY DEF ClientInit, Inv, HandInv, UseInv, ClickInv

LEMMA InvStep == packet \in [action : Actions, id : Nat] /\ Inv /\ [ClientNext]_clientVars => Inv'
<1> SUFFICES ASSUME packet \in [action : Actions, id : Nat], Inv, [ClientNext]_clientVars
             PROVE  Inv'
  OBVIOUS
<1> USE DEF Inv, HandInv, UseInv, ClickInv
<1>1. ASSUME NEW d \in Incoming, startReceive(d) PROVE Inv'
  BY <1>1 DEF startReceive, mainVars, historyVars
<1>2. CASE handleReceive
  BY <1>2 DEF handleReceive, mainVars, historyVars
<1>3. CASE handleHeartBeat
  BY <1>3 DEF handleHeartBeat, mainVars, historyVars
<1>4. CASE parseAction
  BY <1>4 DEF parseAction, mainVars
<1>5. CASE parseRest
  <2>1. PICK i : packet' = [packet EXCEPT !.id = i]
    BY <1>5 DEF parseRest
  <2>2. packet'.action = packet.action
    BY <2>1
  <2> QED
    BY <1>5, <2>2 DEF parseRest, mainVars, BeforeLook
<1>6. CASE handleSendTimer
  BY <1>6 DEF handleSendTimer, ioVars, mainVars, historyVars
<1>7. CASE schedulePing
  BY <1>7 DEF schedulePing, mainVars, historyVars
<1>8. CASE connect
  BY <1>8 DEF connect, Goto, ioVars, historyVars
<1>9. CASE beginFrame
  BY <1>9 DEF beginFrame, Goto, ioVars, historyVars
<1>10. CASE setPacketData
  BY <1>10 DEF setPacketData, Goto, ioVars, historyVars
<1>11. ASSUME NEW click \in BOOLEAN, NEW close \in BOOLEAN, lobbyUpdate(click, close)
       PROVE  Inv'
  BY <1>11 DEF lobbyUpdate, Goto, ioVars
<1>21. CASE parseMalformed
  BY <1>21 DEF parseMalformed, mainVars, historyVars
<1>22. CASE sendOverPackets
  BY <1>22 DEF sendOverPackets, Goto, ioVars
<1>23. CASE actOnPacket
  BY <1>23 DEF actOnPacket, Goto, ioVars
<1>24. CASE resetId
  <2>1. packet'.action = packet.action
    BY <1>24 DEF resetId
  <2> QED
    BY <1>24, <2>1 DEF resetId, Goto, ioVars, historyVars
<1>12. CASE checkGameStart
  BY <1>12 DEF checkGameStart, EndOfFrame, Goto, ioVars
<1>13. CASE handleServerAction
  BY <1>13 DEF handleServerAction, Goto, ioVars
<1>14. CASE resetValues
  <2>1. packet'.action = "NONE"
    BY <1>14 DEF resetValues
  <2> QED
    BY <1>14, <2>1 DEF resetValues, Goto, ioVars, historyVars
<1>15. CASE handleInput
  BY <1>15 DEF handleInput, Goto, ioVars, historyVars
<1>16. CASE endFrame
  BY <1>16 DEF endFrame, Goto, ioVars, historyVars
<1>17. CASE sendExitPacket
  BY <1>17 DEF sendExitPacket, Goto, ioVars, historyVars
<1>18. CASE stop
  BY <1>18 DEF stop, Goto, historyVars
<1>19. CASE join
  BY <1>19 DEF join, Goto, ioVars, historyVars
<1>20. CASE UNCHANGED clientVars
  BY <1>20 DEF clientVars, ioVars, mainVars, historyVars
<1> QED
  BY <1>1, <1>2, <1>3, <1>4, <1>5, <1>6, <1>7, <1>8, <1>9, <1>10, <1>11, <1>12, <1>13,
     <1>14, <1>15, <1>16, <1>17, <1>18, <1>19, <1>20, <1>21, <1>22, <1>23, <1>24
  DEF ClientNext, Callback, MainThread

--------------------------------------------------------------------------------
(* Types. *)

Packets == [action : Actions, id : Nat]

TypeInv == ClientTypeOK /\ RoomInv

LEMMA SpriteKinds ==
    \A a \in DOMAIN Creates : Creates[a] \in {"enemy", "boss", "player", "bullet"}
  BY DEF Creates

LEMMA NoPacketIsPacket == NoPacket \in Packets
  BY DEF NoPacket, Packets, Actions

\* A push leaves a queue that has room within its bound.
LEMMA PushKeeps ==
    ASSUME sendQueue \in Seq(Messages), Len(sendQueue) < MaxSend,
           NEW m \in Messages, NEW racing, sendQueue' \in Pushed(m, racing)
    PROVE  sendQueue' \in Seq(Messages) /\ Len(sendQueue') <= MaxSend
<1>1. Len(sendQueue) \in Nat /\ MaxSend \in Nat
  BY ClientAssumption DEF ClientAssumption
<1>2. CASE sendQueue' = sendQueue
  BY <1>1, <1>2
<1>3. CASE sendQueue' = Append(sendQueue, m)
  BY <1>1, <1>3
<1> QED
  BY <1>2, <1>3 DEF Pushed

LEMMA TypeInit == ClientInit => TypeInv
<1> SUFFICES ASSUME ClientInit PROVE TypeInv
  OBVIOUS
<1>1. MaxSend \in Nat /\ MaxSend > 0 /\ Garbage \subseteq Packets
  BY ClientAssumption DEF ClientAssumption, Packets
<1>2. sendQueue \in Seq(Messages) /\ Len(sendQueue) = 0
  BY DEF ClientInit
<1>3. packet \in [action : Actions, id : Nat]
  BY <1>1 DEF ClientInit, Packets
<1>4. RoomInv /\ Len(sendQueue) <= MaxSend
  BY <1>1, <1>2 DEF RoomInv
<1>5. silence \in 0 .. Patience /\ uses \in Nat /\ clicks \in 0 .. 1 /\ asked \in 0 .. 1
  BY DEF ClientInit, Patience
<1>6. /\ mutex \in BOOLEAN /\ running \in BOOLEAN /\ awaiting \in BOOLEAN
      /\ started \in BOOLEAN /\ open \in BOOLEAN /\ startButtonClicked \in BOOLEAN
      /\ owed \in BOOLEAN
  BY DEF ClientInit
<1>7. /\ rpc \in {"idle", "lock", "parse", "rest"}
      /\ mpc \in {"connect", "begin", "copy", "lobby", "send", "start", "apply", "act",
                  "reset", "resetId", "input", "unlock", "exit", "stop", "join", "done"}
      /\ newAction \in {NoAction, "GAME_START"} /\ branch \in Actions
      /\ buffer \in Incoming \cup {NoPacket}
      /\ sprites \subseteq {"enemy", "boss", "player", "bullet"} \X Nat /\ alive \subseteq Nat
  BY DEF ClientInit, Actions
<1> QED
  BY <1>2, <1>3, <1>4, <1>5, <1>6, <1>7 DEF TypeInv, ClientTypeOK

LEMMA TypeStep == TypeInv /\ Inv /\ [ClientNext]_clientVars => TypeInv'
<1> SUFFICES ASSUME TypeInv, Inv, [ClientNext]_clientVars
             PROVE  TypeInv'
  OBVIOUS
<1> USE ClientAssumption DEF ClientAssumption, TypeInv, ClientTypeOK, RoomInv
<1>1. ASSUME NEW d \in Incoming, startReceive(d) PROVE TypeInv'
  BY <1>1 DEF startReceive, mainVars, historyVars
<1>2. CASE handleReceive
  BY <1>2 DEF handleReceive, mainVars, historyVars
<1>3. CASE handleHeartBeat
  <2>1. silence' \in 0 .. Patience
    BY <1>3 DEF handleHeartBeat, Patience
  <2>2. awaiting' \in BOOLEAN /\ buffer' \in Incoming \cup {NoPacket}
    BY <1>3 DEF handleHeartBeat
  <2> QED
    BY <1>3, <2>1, <2>2 DEF handleHeartBeat, mainVars, historyVars
<1>4. CASE parseAction
  <2>1. buffer.action \in Actions
    BY NoPacketIsPacket DEF Packets
  <2>2. PICK a \in Actions : packet' = [packet EXCEPT !.action = a]
    BY <1>4, <2>1 DEF parseAction, Written
  <2>3. packet' \in [action : Actions, id : Nat]
    BY <2>2
  <2> QED
    BY <1>4, <2>3 DEF parseAction, mainVars
<1>5. CASE parseRest
  <2>1. buffer.id \in Nat
    BY NoPacketIsPacket DEF Packets
  <2>2. PICK i \in Nat : packet' = [packet EXCEPT !.id = i]
    BY <1>5, <2>1 DEF parseRest, Written
  <2>3. packet' \in [action : Actions, id : Nat]
    BY <2>2
  <2>4. owed' \in BOOLEAN
    BY <1>5 DEF parseRest, BeforeLook
  <2> QED
    BY <1>5, <2>3, <2>4 DEF parseRest, mainVars
<1>6. CASE handleSendTimer
  <2>1. sendQueue' \in Seq(Messages) /\ Len(sendQueue') = Len(sendQueue) - 1
    BY <1>6 DEF handleSendTimer
  <2> QED
    BY <1>6, <2>1 DEF handleSendTimer, ioVars, mainVars, historyVars
<1>7. CASE schedulePing
  <2>1. sendQueue' \in Seq(Messages) /\ Len(sendQueue') <= MaxSend
        /\ (mpc = "connect" \/ (mpc = "send" /\ newAction # NoAction)
            => Len(sendQueue') < MaxSend)
    <3>1. CASE awaiting
      BY <1>7, <3>1 DEF schedulePing, sendHeartBeat
    <3>2. CASE ~awaiting
      <4>1. Len(sendQueue) < MaxSend - 1
        BY <1>7, <3>2 DEF schedulePing, sendHeartBeat
      <4>2. sendQueue' = sendQueue \/ sendQueue' = Append(sendQueue, "HEARTBEAT")
        BY <1>7, <3>2 DEF schedulePing, sendHeartBeat, Pushed
      <4>3. Len(sendQueue) \in Nat /\ MaxSend \in Nat
        OBVIOUS
      <4>4. CASE sendQueue' = sendQueue
        BY <4>1, <4>3, <4>4
      <4>5. CASE sendQueue' = Append(sendQueue, "HEARTBEAT")
        <5>1. "HEARTBEAT" \in Messages
          BY DEF Messages
        <5>2. sendQueue' \in Seq(Messages) /\ Len(sendQueue') = Len(sendQueue) + 1
          BY <4>5, <5>1
        <5> QED
          BY <4>1, <4>3, <5>2
      <4> QED
        BY <4>2, <4>4, <4>5
    <3> QED
      BY <3>1, <3>2
  <2>2. silence' \in 0 .. Patience /\ awaiting' \in BOOLEAN
    BY <1>7 DEF schedulePing, Patience, TooLong
  <2> QED
    BY <1>7, <2>1, <2>2 DEF schedulePing, mainVars, historyVars
<1>8. CASE connect
  <2>1. sendQueue' \in Seq(Messages) /\ Len(sendQueue') <= MaxSend
    BY <1>8, PushKeeps DEF connect, Messages
  <2> QED
    BY <1>8, <2>1 DEF connect, Goto, ioVars, historyVars
<1>9. CASE beginFrame
  BY <1>9 DEF beginFrame, Goto, ioVars, historyVars
<1>10. CASE setPacketData
  BY <1>10 DEF setPacketData, Goto, ioVars, historyVars
<1>11. ASSUME NEW click \in BOOLEAN, NEW close \in BOOLEAN, lobbyUpdate(click, close)
       PROVE  TypeInv'
  <2>1. mpc = "lobby" /\ mpc' = "send" /\ ~started /\ newAction = NoAction
    BY <1>11 DEF lobbyUpdate, Goto, Inv, ClickInv
  <2>2. /\ startButtonClicked' \in BOOLEAN /\ clicks' \in 0 .. 1
        /\ newAction' \in {NoAction, "GAME_START"}
        /\ newAction' # NoAction => Len(sendQueue) < MaxSend
    <3>1. CASE click
      BY <1>11, <3>1 DEF lobbyUpdate
    <3>2. CASE ~click
      BY <1>11, <2>1, <3>2 DEF lobbyUpdate
    <3> QED
      BY <3>1, <3>2
  <2> QED
    BY <1>11, <2>1, <2>2 DEF lobbyUpdate, ioVars
<1>21. CASE parseMalformed
  BY <1>21 DEF parseMalformed, mainVars, historyVars
<1>22. CASE sendOverPackets
  <2>1. sendQueue' \in Seq(Messages) /\ Len(sendQueue') <= MaxSend
    <3>1. CASE newAction = NoAction
      BY <1>22, <3>1 DEF sendOverPackets
    <3>2. CASE newAction # NoAction
      <4>1. Len(sendQueue) < MaxSend /\ newAction \in Messages
        BY <1>22, <3>2 DEF sendOverPackets, Messages
      <4>2. sendQueue' \in Pushed(newAction, ~awaiting)
        BY <1>22, <3>2 DEF sendOverPackets
      <4> QED
        BY <4>1, <4>2, PushKeeps
    <3> QED
      BY <3>1, <3>2
  <2>2. asked' \in 0 .. 1
    <3>1. Inv'
      BY InvStep, <1>22
    <3> QED
      BY <3>1 DEF Inv, ClickInv
  <2> QED
    BY <1>22, <2>1, <2>2 DEF sendOverPackets, Goto, ioVars
<1>23. CASE actOnPacket
  <2>1. mpc' = "reset" /\ owed' = FALSE /\ branch' \in Actions
    BY <1>23 DEF actOnPacket, Goto, Actions
  <2>2. packet.id \in Nat
    OBVIOUS
  <2>3. sprites' \subseteq {"enemy", "boss", "player", "bullet"} \X Nat
    BY <1>23, <2>2, SpriteKinds DEF actOnPacket
  <2>4. alive' \subseteq Nat
    BY <1>23, <2>2 DEF actOnPacket
  <2> QED
    BY <1>23, <2>1, <2>3, <2>4 DEF actOnPacket, ioVars
<1>24. CASE resetId
  <2>1. packet' \in [action : Actions, id : Nat]
    BY <1>24 DEF resetId
  <2> QED
    BY <1>24, <2>1 DEF resetId, Goto, ioVars, historyVars
<1>12. CASE checkGameStart
  BY <1>12 DEF checkGameStart, EndOfFrame, Goto, ioVars
<1>13. CASE handleServerAction
  <2>1. uses' \in Nat /\ mpc' = "act" /\ branch' \in Actions
    BY <1>13 DEF handleServerAction, Goto
  <2> QED
    BY <1>13, <2>1 DEF handleServerAction, ioVars
<1>14. CASE resetValues
  <2>1. packet' \in [action : Actions, id : Nat]
    BY <1>14 DEF resetValues, Actions
  <2> QED
    BY <1>14, <2>1 DEF resetValues, Goto, ioVars, historyVars
<1>15. CASE handleInput
  <2>1. ASSUME NEW m \in Messages \cup {NoAction}, Send(m)
        PROVE  sendQueue' \in Seq(Messages) /\ Len(sendQueue') <= MaxSend
    <3>1. CASE m = NoAction
      BY <2>1, <3>1 DEF Send
    <3>2. CASE m # NoAction
      BY <2>1, <3>2, PushKeeps DEF Send
    <3> QED
      BY <3>1, <3>2
  <2>2. KeyActions \subseteq Messages \cup {NoAction} /\ "GAME_END" \in Messages
    BY DEF KeyActions, Messages
  <2>3. sendQueue' \in Seq(Messages) /\ Len(sendQueue') <= MaxSend
    BY <1>15, <2>1, <2>2 DEF handleInput
  <2>4. /\ open' \in BOOLEAN
        /\ sprites' \subseteq {"enemy", "boss", "player", "bullet"} \X Nat
    BY <1>15 DEF handleInput
  <2> QED
    BY <1>15, <2>3, <2>4 DEF handleInput, Goto, ioVars, historyVars
<1>16. CASE endFrame
  BY <1>16 DEF endFrame, Goto, ioVars, historyVars
<1>17. CASE sendExitPacket
  BY <1>17 DEF sendExitPacket, Goto, ioVars, historyVars
<1>18. CASE stop
  BY <1>18 DEF stop, Goto, historyVars
<1>19. CASE join
  BY <1>19 DEF join, Goto, ioVars, historyVars
<1>20. CASE UNCHANGED clientVars
  BY <1>20 DEF clientVars, ioVars, mainVars, historyVars
<1> QED
  BY <1>1, <1>2, <1>3, <1>4, <1>5, <1>6, <1>7, <1>8, <1>9, <1>10, <1>11, <1>12, <1>13,
     <1>14, <1>15, <1>16, <1>17, <1>18, <1>19, <1>20, <1>21, <1>22, <1>23, <1>24
  DEF ClientNext, Callback, MainThread

\* Both invariants together.
LEMMA ClientSafe == ClientSpec => [](TypeInv /\ Inv)
<1>1. ClientInit => TypeInv /\ Inv
  BY InvInit, TypeInit
<1>2. TypeInv /\ Inv /\ [ClientNext]_clientVars => (TypeInv /\ Inv)'
  BY InvStep, TypeStep DEF TypeInv, ClientTypeOK
<1> QED
  BY <1>1, <1>2, PTL DEF ClientSpec

(***************************************************************************)
(* The client's variables keep their types, for any datagrams, any garbage *)
(* in packet_data_ and any bound of the queue.                             *)
(***************************************************************************)
THEOREM ClientTypes == ClientSpec => []ClientTypeOK
<1>1. TypeInv /\ Inv => ClientTypeOK
  BY DEF TypeInv
<1> QED
  BY <1>1, ClientSafe, PTL

(***************************************************************************)
(* No packet is acted upon twice (GameScene.cpp:77-124): whatever the two  *)
(* threads do to the slot meanwhile.                                       *)
(***************************************************************************)
THEOREM ClientActsOnce == ClientSpec => []ActedOnce
<1>1. TypeInv /\ Inv => ActedOnce
  BY DEF Inv, UseInv, ActedOnce
<1> QED
  BY <1>1, ClientSafe, PTL

(***************************************************************************)
(* A client queues GAME_START once, and only for a click on its button:    *)
(* what checkGameStart leaves in newAction_ for a GAME_START that came is  *)
(* never sent, whatever comes when (LobbyScene.cpp:28-42,66-77).          *)
(***************************************************************************)
THEOREM ClientNoEcho == ClientSpec => []NoEcho
<1>1. TypeInv /\ Inv => NoEcho
  BY DEF TypeInv, ClientTypeOK, Inv, ClickInv, NoEcho
<1> QED
  BY <1>1, ClientSafe, PTL

(***************************************************************************)
(* A packet that is in the slot under its lock before the main thread's    *)
(* look at it is not overwritten (Client.cpp:77,287).                      *)
(***************************************************************************)
THEOREM ClientHandsOver == ClientSpec => HandedOver
<1>1. TypeInv /\ Inv /\ [ClientNext]_clientVars
      => [rpc = "parse" /\ rpc' = "rest" => ~owed]_clientVars
  BY DEF Inv, HandInv
<1> QED
  BY <1>1, ClientSafe, PTL DEF ClientSpec, HandedOver
================================================================================
