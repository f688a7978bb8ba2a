--------------------------------- MODULE Stream ---------------------------------
(***************************************************************************)
(* The way of the server's messages to the screen of a client: who numbers *)
(* and queues them (Server.cpp createPacket, Broadcast, handle_send_timer),*)
(* what the client makes of the numbers (Client.cpp parseMessage), and the *)
(* sprites it draws of what the game has (GameScene.cpp) - for one game.   *)
(*                                                                         *)
(* The handler thread and the game thread number messages without a lock,  *)
(* one reading or writing of sequence_number at a time.  Numbers are also  *)
(* drawn for what never reaches this client (answers to others), and       *)
(* spent on heartbeats, which the client parses but does not count.        *)
(*                                                                         *)
(* The client has connected and been answered before.  The network keeps   *)
(* the order and may lose anything.  Of the client only the slot between   *)
(* its threads is left: module Client has the inside.  What the game does  *)
(* while stop() runs is in module Game; positions are left out.            *)
(***************************************************************************)
EXTENDS Integers, Sequences, FiniteSets

CONSTANTS
    Figures,        \* the players, enemies and bosses of a game, and its
    Bullets,        \* bullets; ids are not used twice
    MaxMade,        \* bound: packets made
    MaxStream       \* bound: messages queued or on their way

Things == Figures \cup Bullets

Threads == {"handler", "game"}

ASSUME StreamAssumption ==
    /\ Figures \cap Bullets = {}
    /\ MaxMade \in Nat /\ MaxStream \in Nat \ {0}

VARIABLES
    sequence_number,
    tpc,                \* where each thread is in createPacket and Broadcast
    making,             \* the packet it makes
    reg,                \* the number it has read
    game_running,
    ever, running,      \* history: a game was started; its thread runs
    things, born,       \* what is in the game, and what ever was
    stream,             \* datagrams on their way to this client, and behind
                        \* them send_queue_, from which handle_send_timer adds
                        \* to them in the same order
    mutex,              \* the client's mutex_
    slot,               \* packet_data_
    unseen,             \* no frame has looked at the slot yet
    inGame,             \* isGameStarted
    drawn,              \* sprites in playerSprites_, enemySprites_, bossSprites_
                        \* and bulletSprites_
    last_packetnb,
    made,               \* history: packets made
    raced,              \* history: the threads numbered packets at once
    missing,            \* history: packets lost since the last one counted
    incomplete,         \* history: a packet did not get to a frame
    cleared             \* history: what stop() removed without a word

numberVars == <<sequence_number, tpc, making, reg, made, raced>>
gameVars == <<game_running, ever, running, things, born, cleared>>
lagVars == <<last_packetnb, missing>>
sceneVars == <<mutex, slot, unseen, inGame, drawn>>
streamVars == <<numberVars, gameVars, stream, lagVars, sceneVars, incomplete>>

\* What a packet says.  OTHER is anything that changes no sprite.
Say(word) == [word |-> word]
Create(x) == [word |-> "CREATE", thing |-> x]
Destroy(x) == [word |-> "DESTROY", thing |-> x]

Nothing == Say("NONE")
Packets ==
    {Say(w) : w \in {"GAME_START", "HEARTBEAT", "OTHER", "ELSEWHERE"}}
    \cup {Create(x) : x \in Things} \cup {Destroy(x) : x \in Things}

Numbered == [packet : Packets, nr : Nat \ {0}]

StreamInit ==
    /\ sequence_number = 0
    /\ tpc = [t \in Threads |-> "idle"]
    /\ making = [t \in Threads |-> Nothing]
    /\ reg = [t \in Threads |-> 0]
    /\ game_running = FALSE /\ ever = FALSE /\ running = FALSE
    /\ things = {} /\ born = {}
    /\ stream = <<>>
    /\ mutex = FALSE /\ slot = Nothing /\ unseen = FALSE /\ inGame = FALSE
    /\ drawn = {}
    /\ last_packetnb = 0
    /\ made = 0 /\ raced = FALSE /\ missing = 0 /\ incomplete = FALSE /\ cleared = {}

--------------------------------------------------------------------------------
(* createPacket and Broadcast, on either thread. *)

Numbering == {t \in Threads : tpc[t] # "idle"}

\* A thread turns to making a packet: sequence_number++ reads ...
Makes(t, p) ==
    /\ tpc[t] = "idle"
    /\ made < MaxMade
    /\ made' = made + 1
    /\ tpc' = [tpc EXCEPT ![t] = "store"]
    /\ making' = [making EXCEPT ![t] = p]
    /\ reg' = [reg EXCEPT ![t] = sequence_number]
    /\ raced' = (raced \/ Numbering # {})
    /\ UNCHANGED sequence_number

\* ... and writes.
Store(t) ==
    /\ tpc[t] = "store"
    /\ sequence_number' = reg[t] + 1
    /\ tpc' = [tpc EXCEPT ![t] = "push"]
    /\ UNCHANGED <<making, reg, made, raced, gameVars, stream, lagVars, sceneVars,
                   incomplete>>

\* Mutant: std::to_string(sequence_number++).
NumberBefore(t) == {reg[t]}

\* std::to_string(sequence_number): the compiler may keep or read it again.
Number(t) == {reg[t] + 1, sequence_number}

Returns(t) ==
    /\ tpc' = [tpc EXCEPT ![t] = "idle"]
    /\ making' = [making EXCEPT ![t] = Nothing]
    /\ reg' = [reg EXCEPT ![t] = 0]
    /\ UNCHANGED <<sequence_number, made, raced>>

\* Broadcast.  Of two pushes at once one may be lost.  After GAME_START the
\* handler starts the game thread.
Push(t) ==
    /\ tpc[t] = "push"
    /\ making[t].word # "ELSEWHERE"
    /\ Len(stream) < MaxStream
    /\ \/ /\ \E n \in Number(t) :
                 stream' = Append(stream, [packet |-> making[t], nr |-> n])
          /\ UNCHANGED incomplete
       \/ /\ \A u \in Threads : tpc[u] = "push"
          /\ incomplete' = TRUE
          /\ UNCHANGED stream
    /\ Returns(t)
    /\ running' = (running \/ making[t].word = "GAME_START")
    /\ UNCHANGED <<game_running, ever, things, born, cleared, lagVars, sceneVars>>

\* send_to_client, with another client's endpoint.
SendElsewhere(t) ==
    /\ tpc[t] = "push"
    /\ making[t].word = "ELSEWHERE"
    /\ Returns(t)
    /\ UNCHANGED <<gameVars, stream, lagVars, sceneVars, incomplete>>

--------------------------------------------------------------------------------
(* What the threads tell. *)

\* Mutant: the game thread is started first.
handleGameStartEarly ==
    /\ ~ever
    /\ game_running' = TRUE /\ ever' = TRUE /\ running' = TRUE
    /\ Makes("handler", Say("GAME_START"))
    /\ UNCHANGED <<things, born, cleared, stream, lagVars, sceneVars,
                   incomplete>>

\* One game is all that is modelled here.
handleGameStart ==
    /\ ~ever
    /\ game_running' = TRUE /\ ever' = TRUE
    /\ Makes("handler", Say("GAME_START"))
    /\ UNCHANGED <<running, things, born, cleared, stream, lagVars,
                   sceneVars, incomplete>>

\* Pongs are for everyone; reqConnectData and disconnectData answer one client.
Answer ==
    /\ \E w \in {"HEARTBEAT", "ELSEWHERE"} : Makes("handler", Say(w))
    /\ UNCHANGED <<gameVars, stream, lagVars, sceneVars, incomplete>>

\* spawnPlayer, spawnEnemy and spawnBoss on the game thread, spawnBullet on the
\* handler thread: the thing is in the game before its packet is made.
Spawn(t, x) ==
    /\ running
    /\ x \notin born
    /\ Makes(t, Create(x))
    /\ things' = things \cup {x} /\ born' = born \cup {x}
    /\ UNCHANGED <<game_running, ever, running, cleared, stream, lagVars, sceneVars,
                   incomplete>>

\* removeEntities: a bullet may be gone before its CREATE_BULLET is made.
Remove(x) ==
    /\ running
    /\ Makes("game", Destroy(x))
    /\ things' = things \ {x}
    /\ UNCHANGED <<game_running, ever, running, born, cleared, stream, lagVars,
                   sceneVars, incomplete>>

\* CHANGE and UI_UPDATE.
Update ==
    /\ running
    /\ Makes("game", Say("OTHER"))
    /\ UNCHANGED <<gameVars, stream, lagVars, sceneVars, incomplete>>

\* handleGameEnd: stop() empties the game and tells nobody.
handleGameEnd ==
    /\ game_running /\ tpc["handler"] = "idle"
    /\ game_running' = FALSE
    /\ things' = {} /\ cleared' = cleared \cup things
    /\ UNCHANGED <<numberVars, ever, running, born, stream, lagVars,
                   sceneVars, incomplete>>

Lose ==
    /\ stream # <<>>
    /\ stream' = Tail(stream)
    /\ missing' = missing + 1
    /\ incomplete' = TRUE
    /\ UNCHANGED <<numberVars, gameVars, last_packetnb, sceneVars>>

--------------------------------------------------------------------------------
(* The client. *)

\* The receive callback, which waits for the mutex.
Receives(heartbeat) ==
    /\ stream # <<>> /\ ~mutex
    /\ (Head(stream).packet.word = "HEARTBEAT") = heartbeat
    /\ stream' = Tail(stream)
    /\ mutex' = TRUE

\* Mutant: the number of a heartbeat is taken down.
parseHeartBeatNumber ==
    /\ Receives(TRUE)
    /\ last_packetnb' = Head(stream).nr
    /\ UNCHANGED <<numberVars, gameVars, missing, slot, unseen,
                   inGame, drawn, incomplete>>

\* parseMessage returns before it gets to the number.
parseHeartBeat ==
    /\ Receives(TRUE)
    /\ UNCHANGED <<numberVars, gameVars, lagVars, slot, unseen, inGame, drawn,
                   incomplete>>

\* The packet in the slot is overwritten, whether or not a frame has seen it.
\* packets_lost_ is what is written to it here; that the heartbeat timer turns it
\* into a percentage is left out.
parseMessage ==
    /\ Receives(FALSE)
    /\ slot' = Head(stream).packet /\ unseen' = TRUE
    /\ last_packetnb' = Head(stream).nr
    /\ missing' = 0
    /\ incomplete' = (incomplete \/ unseen)
    /\ UNCHANGED <<numberVars, gameVars, inGame, drawn>>

\* Mutant: everything is erased from the wrong map.
SpritesKept(p) == IF p.word = "CREATE" THEN drawn \cup {p.thing} ELSE drawn

\* handleServerAction: DESTROY_BULLET erases from fastBulletSprites_, which is
\* always empty.
Sprites(p) ==
    IF p.word = "CREATE" THEN drawn \cup {p.thing}
    ELSE IF p.word = "DESTROY" THEN drawn \ ({p.thing} \cap Figures) ELSE drawn

\* A frame of the main loop.  In the lobby a packet is looked at, not acted upon
\* and left in the slot; a click, or GAME_START, leads into the game at once.
Frame(click) ==
    /\ mutex \/ unseen
    /\ mutex' = FALSE /\ unseen' = FALSE
    /\ inGame' = (inGame \/ click \/ slot.word = "GAME_START")
    /\ drawn' = IF inGame' THEN Sprites(slot) ELSE drawn
    /\ slot' = IF inGame' THEN Nothing ELSE slot
    /\ UNCHANGED <<numberVars, gameVars, stream, lagVars, incomplete>>

\* The packet came when the frame had looked already; the frame unlocks all the
\* same.
FrameMisses ==
    /\ mutex /\ unseen
    /\ mutex' = FALSE
    /\ UNCHANGED <<numberVars, gameVars, stream, lagVars, slot, unseen,
                   inGame, drawn, incomplete>>

\* It came just before resetValues.
FrameWipes ==
    /\ mutex /\ unseen /\ inGame
    /\ mutex' = FALSE /\ unseen' = FALSE /\ slot' = Nothing
    /\ incomplete' = TRUE
    /\ UNCHANGED <<numberVars, gameVars, stream, lagVars, inGame, drawn>>

--------------------------------------------------------------------------------
Broadcasts(t) == Store(t) \/ Push(t) \/ SendElsewhere(t)

StreamNext ==
    \/ \E t \in Threads : Broadcasts(t)
    \/ handleGameStart \/ Answer \/ handleGameEnd \/ Update
    \/ \E x \in Figures : Spawn("game", x)
    \/ \E x \in Bullets : Spawn("handler", x)
    \/ \E x \in things : Remove(x)
    \/ Lose
    \/ parseHeartBeat \/ parseMessage
    \/ \E click \in BOOLEAN : Frame(click)
    \/ FrameMisses \/ FrameWipes

StreamSpec == StreamInit /\ [][StreamNext]_streamVars

\* Threads and timers go on; the stream need not lose anything, and owes
\* nothing but that what it does not lose arrives.
FairStreamSpec ==
    /\ StreamSpec
    /\ \A t \in Threads : WF_streamVars(Broadcasts(t))
    /\ WF_streamVars(parseHeartBeat \/ parseMessage)
    /\ WF_streamVars(Frame(FALSE))

--------------------------------------------------------------------------------
(***************************************************************************)
(* The types of the variables.                                             *)
(***************************************************************************)
StreamTypeOK ==
    /\ sequence_number \in Nat /\ made \in Nat
    /\ tpc \in [Threads -> {"idle", "store", "push"}]
    /\ making \in [Threads -> Packets \cup {Nothing}]
    /\ reg \in [Threads -> Nat]
    /\ game_running \in BOOLEAN /\ ever \in BOOLEAN /\ running \in BOOLEAN
    /\ things \subseteq born /\ born \subseteq Things /\ cleared \subseteq born
    /\ stream \in Seq(Numbered)
    /\ mutex \in BOOLEAN /\ unseen \in BOOLEAN /\ inGame \in BOOLEAN
    /\ slot \in Packets \cup {Nothing}
    /\ drawn \subseteq born
    /\ last_packetnb \in Nat /\ missing \in Nat
    /\ raced \in BOOLEAN /\ incomplete \in BOOLEAN

(***************************************************************************)
(* A loss shows in the numbers: when the next packet that counts arrives,  *)
(* packets_lost_ becomes at least the number of those lost before it,      *)
(* whatever heartbeats and answers to other clients used up numbers in     *)
(* between - as long as no two threads numbered packets at once            *)
(* (Server.cpp:83-84, Client.cpp:179-201).                                 *)
(***************************************************************************)
WarnedOf == last_packetnb' - last_packetnb - 1

Noticed ==
    [][last_packetnb' # last_packetnb /\ ~raced
           => WarnedOf >= missing]_streamVars

(***************************************************************************)
(* Once everything told has arrived and been looked at, a client that was  *)
(* in its lobby when the game started draws the figures there are, no      *)
(* others but those that stop() removed without a word, and at least the   *)
(* bullets there are (PacketHandler.cpp:90-95, GameScene.cpp:86-124,       *)
(* Client.cpp:260-283).                                                    *)
(***************************************************************************)
Settled ==
    /\ ~incomplete
    /\ Numbering = {}
    /\ stream = <<>> /\ ~unseen

Shown ==
    Settled => /\ things \subseteq drawn
               /\ drawn \subseteq things \cup cleared \cup Bullets

(***************************************************************************)
(* And it comes to that: unless a packet goes astray, a figure in the game *)
(* gets drawn, and one that is destroyed disappears, while the game goes   *)
(* on (Server.cpp:179-188, GameScene.cpp:37-43).                           *)
(***************************************************************************)
Agree(x) == x \in things <=> x \in drawn

CatchesUp ==
    \A x \in Figures :
        ~Agree(x) ~> (Agree(x) \/ incomplete \/ x \in cleared)
================================================================================
