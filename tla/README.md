# BeeR-Type: a TLA+ verification project

BeeR-Type is an online shoot'em up in C++: a server that owns the game, clients
that draw it, UDP between them. These modules model the server, the game it
runs and the client, as the code under `src/` has them, check them with TLC and prove the
properties that matter most with TLAPS.

## 1. The system

| Component | Source | State | Operations |
|---|---|---|---|
| Client table | `Server/src/Server.cpp:90-149` | `clients_` (id to endpoint), `available_ids_`, `_nbClients` | `createClient`, `disconnectData`, both under `clients_mutex_` |
| Server (io thread) | `Server/src/Server.cpp` | `remote_endpoint_`, `recv_buffer_`, `send_queue_`, timers, `sequence_number` | `startReceive`, `handleReceive`, `handle_send_timer`, `Broadcast`, `createPacket` |
| Packet queue | `Network/include/ThreadSafeQueue.hpp` | a deque, a mutex, a condition variable | `push`, `pop`, `empty` |
| Packet handler (its own thread) | `Network/src/PacketHandler.cpp` | `m_running`, the handler table; sets the server's `game_running` | one handler per packet type |
| Game (one detached thread per game) | `R-Type/src/Game.cpp`, `GameEngine/src/AGame.cpp` | players, bullets, enemies, bosses, dead lists, `playerActions`, waves, function statics | `run`, `update` and its six phases; `stop`, `addPlayerAction`, `spawnBullet` on the handler thread |
| Entities and ECS | `R-Type/src/{Players,Bullet,Enemy,Boss}.cpp`, `ECS/` | entity ids, dead entities, component arrays | `spawn_entity`, `kill_entity`, components |
| Client | `Client/src/Client.cpp` | a one-packet slot, a send queue, packet statistics, heartbeat times | receive, parse, send timer, heartbeat, timeout, main loop |
| Scenes | `Client/src/{GameScene,LobbyScene}.cpp` | sprites, key states | apply a server message, send inputs |

How they interact:

- The **io thread** receives a datagram into `remote_endpoint_` and
  `recv_buffer_`, and pushes the packet's *type* on the packet queue. Every
  millisecond it takes one message from `send_queue_` and sends it to every
  client.
- The **handler thread** pops types and runs handlers. It finds out who sent a
  packet by reading `remote_endpoint_` at that moment. It changes the client
  table, starts game threads, and calls into the game.
- A **game thread** runs the endless loop of `Game::update` and broadcasts by
  pushing on `send_queue_`, without a lock.
- The **client** has an io thread, which parses packets into one shared
  `packet_data_`, pings and sends, and a main thread, which runs the lobby and
  the game scene on it. `mutex_` is locked by the one and unlocked by the other.
- Locks: `clients_mutex_` (client table and the send timer),
  `playerActionsMutex` (appending and erasing actions, `checkCollisions`,
  `stop`), the packet queue's own. `send_queue_`, `remote_endpoint_`,
  `game_running`, `sequence_number` and the game's containers outside those
  operations have none.

What is hard: three kinds of threads on shared state with few locks; a sender
that is read long after its packet was queued; a slot that one thread writes
while another reads and resets it; a game that is restarted while
its thread runs on; entities that are hit twice; ids that are used again; a
client that has to learn of a game in one of two ways, over a network that
loses and repeats; players numbered by counting clients whose ids are drawn
elsewhere; a thread that sleeps until somebody notifies it. `PROJECT.json` lists each
such hazard at its line.

What makes each part correct:

- table: no id is shared, leaked or moved, and the counter is bounded;
- packet queue: no wakeup is lost, packets are handled in order, each once;
- server: a packet is credited to its sender; the handler always comes back;
  every registered client learns of the game; one game at a time;
- game: ids are unique; the dead are removed and only the dead; the clients
  see the players and bullets of the game; it ends; no packet brings it down;
- both ends together: every client has its own player, nobody is forgotten in
  its lobby, losses show in the numbers, and what is drawn is what there is;
- client: no packet is acted upon twice or overwritten once handed over; a
  lost answer does not end the heartbeats; starting a game echoes nothing; it
  ends when it is left;
- registry: entity ids are unique, a component belongs to a living entity.

## 2. Modules

| Module | Models | Status |
|---|---|---|
| `IdPool` | abstract: a dispenser of ids | implemented by `ClientTable` and `Registry` |
| `ClientTable` | the client table | done |
| `PacketFifo` | abstract: packets handled in order, once, none left lying | implemented by `PacketQueue` |
| `PacketQueue` | `ThreadSafeQueue` with mutex and condition variable; start, loop and stop of the handler thread | done |
| `Server` (extends `ClientTable`) | io thread, handlers step by step, `clients_mutex_`, timers, broadcasts of game threads | done but for timers that fail |
| `Game` | game threads against the handler thread | done but for scores |
| `Client` | the client's two threads, lobby and game scene | done but for loss statistics and SIGINT |
| `Registry` | the ECS registry and its sparse arrays | done but for systems |
| `Entities` (extends `Registry`) | players, bullets, enemies and bosses as owners of registries | done |
| `Session` (extends `ClientTable`) | clients and server over a lossy network: coming, playing, leaving, vanishing | composition |
| `Stream` | messages from the server's threads to a client's screen | composition |
| `...Proofs` (eight of them) | the theorems about the module they are named after | see section 4 |
| `MC...` | instances for TLC | see section 3 |

Two compositions, because they ask different questions. `Session` looks at who
is known to whom and takes each packet's handling as one step; that this is
sound as long as no later datagram comes in between is `QuietAttribution` of
`Server`, and what the client does with a packet is `HandedOver` of `Client`.
`Stream` looks at one client of one game and keeps the steps in which threads
number and queue messages. `Server` and `PacketQueue` meet in `PacketFifo`: the queue with
its mutex and condition variable implements it (`QueueImplementsFifo`), and so do the
server's `packetQueue` and `packet` (`ServerUsesFifo`).

Left of the plan: `Game` shown to respect what `Server` assumes of it
(`GameBroadcast`); pure operators for the overlap of two entities and for the
clamping of positions.

### From code to model

**ClientTable.** `clients` is a function from ids to endpoints, `available_ids` a
sequence, `nbClients` a number. `createClient` has one disjunct per branch
(already registered, a free id, a fresh id). `disconnectData` removes the
smallest id bound to the endpoint, which is what the loop over the map finds.
Seen as an `IdPool`, its ids in use are `DOMAIN clients` and the number drawn is `nbClients`.

**PacketQueue.** A step ends where a thread takes or gives back the mutex, goes to
sleep or reads or writes `m_running`. `Notify` comes after the mutex is given back,
as in `push`. A condition variable may wake its thread unasked (`SpuriousWake`). Two
pushers are allowed; the server has one. `stop` sets the flag and joins, and does
not notify: on an empty queue it waits for the next packet, for ever if there is
none. In the server this is reached only when `runServer` unwinds, since
`io_context.run` has timers that are set anew for ever and does not return.

**Server.** The handler's program counter `hpc` cuts handlers where a lock is
taken, where it is released and where `remote_endpoint` is read: `CopyEndpoint`;
`HandlerLocks`, `reqConnectCreate`, `HandlerLocks` again, `reqConnectReply`; `ScanBegin`,
`ScanStep` (each comparison reads `remote_endpoint` anew), `ScanEnd`, `CallGame`.
`clients_mutex` says who holds `clients_mutex_`: nobody, the handler thread, or the io
thread inside `handle_send_timer`, which takes it every millisecond even if it has
nothing to send (`lock_send_timer`). `Lock` waits while anyone holds the mutex, its own
thread included, as `std::mutex` does on the platform, so that a thread which locks
twice would wait for ever. While the send timer holds it no other callback runs on
the io thread. An endpoint is read as a whole, and `PacketHandler::m_mutex`, which only
the handler thread takes, is left out. A receive that fails with `operation_aborted`
leaves nothing that receives again. `GameBroadcast` stands for
whatever a game thread broadcasts. A `push` on `send_queue_` that races another
push may lose the message (`Pushes`). `told` is history: the endpoints whose
last news of the game is that it runs, as a send happens. The field
`from` of a queued packet is history too: the code keeps the type only, and no
action reads it. So a packet that is followed by another one before it is handled
is answered, registered or credited to the other one's sender: the properties say
what holds when that does not happen.

**Game.** Each game thread has a program counter over the phases of `update`
(`spawn`, `fill`, `actions`, `move`, `bullets`, `enemies`, `collide`, `waves`,
`ui`). `checkCollisions`, `stop`, `addPlayerAction` and `deletePlayerAction` are one step
each, under `playerActionsMutex`. The pass over `playerActions` and `spawnBullet`
are cut into their unlocked steps. A pass remembers the players it has left
(`todo`) and whether the vector it walks through is still the current one
(`attached`): an append that makes the vector grow detaches it, and what it then
marks as processed is lost. `status` becomes "undefined" where the code's
behaviour is (a container changed while another thread is in it, a pointer
into what is gone): that is one possible outcome, going on as if nothing had
happened is the other, and properties are checked on the latter. An exception
nobody catches makes it "aborted", as the queued move of a player that has died
since does. `shown` and `seen` are history: what the
broadcasts, in the order they are queued, make a client show. A hit is any pair
of a bullet or player and an enemy or boss, out of bounds is any entity:
positions do not restrict what may collide. The dead lists are one bag. Two
facts the properties leave room for: once player 0 of two has died, player 1's
moves are no longer broadcast, since `playerPacketFactory` counts ids up to the
number of players; and a bullet that hits between its insertion and its
announcement is destroyed on the clients before it is created there.

**Client.** `packet` is the one `packet_data_`, to which the scenes hold
references; it starts with `Garbage`, since nobody initialises it. `rpc` cuts
`handleReceive` where it waits for the lock and between the writes of
`parseMessage` (the action first, then the rest, unless `std::stoi` throws and leaves
it); a malformed datagram writes nothing and keeps the lock. `mpc` cuts a frame of
`main_loop` where it reads or resets a field of the slot: the game scene reads the
action, then the id, and resets the one before the other, so that it may act on the
action of one packet with the id of another. Only the two reads of `server_id` for one
player, the sprite's and `playerAliveStatus_`'s, are one step. `setPacketData` copies the slot
onto itself, in the frame in which the game starts a second time, and may undo a write
that races it (`Written`). `newAction` is the lobby's `newAction_`: a click sets it,
`sendOverPackets` queues and clears it, and `checkGameStart`, which comes after, sets it
once more, for a click and for a GAME_START that came alike. That this one is never
sent is what `NoEcho` is about. `mutex` is a binary semaphore: one
thread locks it, the other unlocks it, which C++ leaves undefined and the
mutexes of the platform do. Time is counted in pings: five seconds without an
answer have passed at the fourth ping after it and may have at the third. The
network is any sequence of datagrams, so that it loses, repeats and reorders. An
error of a receive only listens again and changes nothing. `owed`, `uses`, `clicks`
and `asked` are history.

**Registry and Entities.** A registry is a value, since classes copy it: its operations
are operators on a record of `nextEntity`, the stack `deadEntities` and, for each component
type, the set of ids that have a value. `kill_entity` pushes an id whether or not it is
there already; that nobody does it twice is the discipline of its callers, which
ask `entity_exists` first (`Destroy`). An object of the game is an entity
and the place of its registry in `memory`. To spawn, a thread builds a temporary from a
copy of the game's registry (`construct`), has `emplace` copy it into its map, and
destroys it (`destroyTemporary`), whose destructor kills the temporary's entity in the
registry the temporary refers to. That the copy in the map refers to another one is a matter
of `emplace`, and the mutant of `OwnPosition` is a copy that shares it. `index` is
`players[id]` of nobody (`Game.cpp:173`), which inserts a default `Player` with an empty
registry. The game never spawns in its own
registry but has it copied; the model lets it be used in any way.

**Session.** A client is off, in its lobby, in the game, or playing, which is when
keys are let through. Datagrams are sets of type and endpoint: one may be lost at
the moment it is sent, stay after it was taken (a duplicate) and overtake any
other. A client that is interrupted goes off without a word (`signalHandler` stops the
socket before it sends its last packet) and may come back. The handlers are one step
each. `createClient` and `disconnectData` are those of `ClientTable`. The players are numbered
from zero by the count of the clients, as `initializePlayers` does; a queued move of a
registered client whose id has no player ends the server. `lost` and `seated` are history:
who missed a datagram, and for whom a game was started when no id below the
highest was free.

**Stream.** The handler thread and the game thread make packets in three steps: read
`sequence_number`, write it back, and queue the packet with the number as read again.
Numbers are also drawn for heartbeats and for answers to another client
(`SendElsewhere`). `stream` is what is queued and under way, in order; anything in it may be
lost. The client takes a packet when `mutex` is free, returns early for a heartbeat, and
otherwise overwrites the slot and takes down the number. A frame acts upon the slot,
misses it, or wipes it out. `drawn` are the sprites. `raced`, `missing`, `incomplete` and
`cleared` are history and condition the properties. Facts the properties leave
room for: after every pong, or answer to another client, the next packet is taken
for the sign of a loss that there was not; answers are sent at once and overtake
messages that were numbered before; a destroyed bullet is never erased, for
`DESTROY_BULLET` looks for it in `fastBulletSprites_`, which stays empty; what `stop` removes
is not announced and stays on the screen.

## 3. Runs

| Run | Bounds | Shows |
|---|---|---|
| `MCServer` | 2 endpoints, all packet types, 1 waiting packet, 2 waiting messages | types, attribution in quiet, everybody informed of the first game |
| `MCServerLive` | the same, 4 packet types | the handler comes back, with two threads at `clients_mutex_`; clients are informed in the end |
| `MCGame` | 2 game threads, 1 player, 1 bullet, 1 enemy wave and a boss | ids, dead lists, hp, waves and announcements under collisions, restarts and racing threads |
| `MCGameMoves` | 1 game thread, 2 players, 2 actions, 2 positions, 1 enemy | the pass over the actions; moves made in order, none dropped; positions as the clients see them |
| `MCClient` | 3 kinds of datagrams, 2 waiting messages | the slot between the threads, GAME_START, callbacks and heartbeats that go on |
| `MCPacketQueue` | 2 pushers, 2 packets, 3 waiting | no lost wakeup, the FIFO with its fairness, `stop` |
| `MCEntities` | 2 ids, 1 component type, 1 player, 1 enemy, 2 threads that spawn | ids, components, objects, no exception, the dispenser |
| `MCSession` | 2 clients, 2 datagrams under way, 2 games | the table's ids as a dispenser, own players, nobody forgotten |
| `MCStream` | 2 figures, 1 bullet, 4 packets made, 3 under way | losses noticed, figures drawn, in the end |

and three runs that TLC finds violated, each a disagreement between the code
and what its documentation or its own messages say (`findings` in
`PROJECT.json`):

| Run | What happens |
|---|---|
| `MCSessionAbort` | a client whose id is not among the players' - it came late, or somebody before it had left - ends the server with its first move |
| `MCGameEnds` | the game never ends, since `update` never returns |
| `MCClientExit` | the client leaves with its lock held, and hangs when it joins its io thread |

Why the bounds suffice: two endpoints are the least for which a sender can be
mistaken or an id given back out of order, one waiting
packet and one in the handler's hands already separate a packet from its
sender. One place of `send_queue` is kept for the handler, so that a chatty game
thread does not block it: the queue of the code has no bound. Two game threads
are the least that race; the third adds no new pair. One enemy and a boss hit a
player twice in a round, which is what double entries in the dead lists need.
The boss comes at the third count, so that one enemy wave and one boss show both
branches of the schedule; `GameWaves` proves the rest. `MCGame` has one player and
one bullet: hits are counted per entity, and `GamePlayersAlive` is proved for any
number. `MCGameMoves` has one game thread; that two may pass over the same vector and still
drop no move is left to `GameMovesInOrder`, which is proved for any number. The client keeps one place of its queue for the main thread, which never
waits for room. Its datagrams name player 1, because a reset leaves id 0: a
packet read half written is told apart. Two pushers race for the queue's mutex and
its notification; two kinds of packets tell orders apart. Two entity ids let the
stack of dead ones be used in either order, and two threads have temporaries with the
same entity at the same time; one component type is enough, for every array is treated
alike, and `EntitiesProofs` has any number of them. The live run of the server has
every packet whose handler takes `clients_mutex_` (a shot takes it as a move does) and
`GAME_START`; the others lock nothing and return in one step. Two datagrams under way suffice for one to
overtake another; two games, because the numbering of players must survive a
restart. Four packets are GAME_START, two creations or a creation and a
destruction, and something else between them. `SessionProofs` and `StreamProofs` prove the safety
properties for any bounds. Runs that say
`CHECK_DEADLOCK FALSE` have states in which the system really stops: a server that has
aborted, a client that has ended, a handler that was joined, a bound that is
used up.

Fairness. `FairServerSpec`: the handler thread and the timer's locking are strongly
fair: each waits for a mutex that the other takes and gives back again and again, and
may take again at once; a fair scheduler and a mutex that is free infinitely often let
both in. The timer's callback, once it has the mutex, is weakly fair, as any running
thread. Nobody is obliged to send or to receive a datagram (after `operation_aborted` the
server receives none), and no game thread to broadcast. `FairGameSpec`: every game
thread is weakly fair, the handler is not. `FairClientSpec`: the main thread and a
callback that has begun are weakly fair; the heartbeat timer is strongly fair, because
the io context runs handlers in the order in which they become ready: datagrams
do not starve it. Nobody owes the client a datagram, and no property rests on the send
timer. `FairQueueSpec`: a push that has
begun ends and notifies; the handler gets the mutex it waits for (strongly fair, as
above); no spurious wakeup is owed. `FairStreamSpec`: threads that number and queue, the
receive callback and the frames go on; nothing need be lost and nothing need be
sent.

## 4. Theorems

Proved by TLAPS for any constants the modules allow: any finite set of endpoints
(`EndpointsFinite`), any set of inputs, any figures, bullets, components and pushers, and any
bounds.

- `TableSafety`, `TableOneId`, `TableBounded`, `TableBindings`: the table's invariants and its
  action property. The inductive invariant is `TableInv`: types, `IdPartition` and
  `OneIdPerEndpoint`. `OneIdPerEndpoint` is not inductive alone, since inserting
  under an id in use would drop a binding; the partition says that it is not.
  The bound follows from injectivity and the cardinality of a free id's owners
  at the moment the counter advances: it does so only when every id is bound.
- `TableImplementsPool`, `RegistryImplementsPool`: the table, and the registry under its
  callers' discipline, implement the dispenser `IdPool`. Every step is a step of it or
  leaves the ids alone; a fresh id is drawn only when the queue, or the stack, of
  free ones is empty, which by the partition is when every id is in use.
- `QueueTypes`, `QueueWakes`, `QueueImplementsFifo`: the inductive invariant `QueueInv` joins
  the types, `NoLostWakeup`, `FlagInv` (`m_running` is set exactly between `start` and `stop`, and
  there is no handler before) and `MutexInv` (one thread at a time is inside the queue, and a
  pusher finds the room it saw).
  `QueueImplementsFifo` is the safety part of `ImplementsFifo`; its fairness is model-checked.
- `ServerTypes`: the types of the server.
- `ServerUsesTable`, `SessionUsesTable`: `ServerSpec` and `SessionSpec` imply `TableSpec`, so
  that the theorems of the table hold in them, as `ServerIds` states.
- `ServerUsesFifo`: every step of the server's threads is a step of `PacketFifo` or leaves
  its variables alone: packets are handled one at a time, in order, none twice or left
  out. Besides `ServerInv` it needs that the handler holds no packet between two
  (`HandsFree`).
- `ServerAttribution`, `ServerInforms`: the two safety properties of `MCServer`. Both
  rest on `ServerInv`, which adds to types and table what the handler's local
  variables say of its program counter (`HandlerInv`), that the youngest packet's
  sender is `remote_endpoint` (`YoungestSender`), and that a running game has a
  thread (`GameInv`).
- `ServerLocksOnce`: wherever the handler is about to lock `clients_mutex_` it does not hold
  it. `LockInv` says of every place in the handler whether it does. That the handler then
  gets the mutex needs fairness and is `HandlerReturns`, which is model-checked.
- `GameWaves`: the schedule of waves for any first wave, growth and escort. With
  the types of the counters (`WaveInv`) it is inductive; the work is arithmetic: what
  dividing by three does across a step, and sums that grow by one term.
- `GamePlayersAlive`: the strengthening (`PlayersInv`) adds the types of the players
  and of the threads' counters, and that the live entities are finitely many, so
  that hits can be counted. A player that is not pushed on the dead list
  survives the damage of the round (`Unpushed`), whatever the number of its hits; one
  that is pushed is condemned (`NotCondemned`). All other steps leave hp alone or
  add to it (`PlayersKept`).
- `GameTypes`: the types of the game. They are inductive only all together
  (`TypeInv`): who is alive and who is in the dead lists was once given an id (`Born`), so
  that a new one cannot meet an old one, and a thread in the middle of a move has a
  player left to move. What is said of the game elsewhere starts from here.
- `GameFreshIds`: whoever comes into the game has an id nobody had before, alive or dead, in
  this game or an earlier one. `BulletIds` counts a bullet that is inserted and not yet
  announced, whose number the counter has not passed.
- `GameStaleDeadHarmless`: nobody is in a dead list during the setup of the first game
  (`StaleInv`), and before that there is nothing at all (`Fresh`). Afterwards no player comes
  in, and no foe or bullet comes with the id of a dead one (`Born`), so that what is left in a
  list names nobody who is alive later.
- `GameAnnounced`: `Announced` is inductive once the types, `Fresh` and `StaleInv` hold. The first
  game runs after a step only if it ran before or starts now, from nothing (`FirstStep`); a
  step that brings in nothing the clients are not shown keeps them informed
  (`AnnouncedKept`); what a round of hits condemns leaves the game and the screens alike.
- `GamePassAligned`: `AlignedAt` adds that a pass is never ahead of the vector: what it has behind
  it and what it has left together fit. With that an append, which leaves what is there as it
  was, and a mark, which leaves who moves as it was, disturb no pass.
- `GameMovesInOrder`, `CompactedKeeps`: the moves that wait change by a new one at the end or
  by the first one made. What is processed is a prefix of the vector (`DonePrefix`), because a
  pass marks an action only when all before it are marked, or was detached and marks
  nothing. Erasing is then cutting off the front (`OpenAfter`). `CompactedKeeps` says of the erasing
  alone that it keeps whatever is not processed, in its order, prefix or not.
- `GamePositionsSeen`: who is in the first game was numbered by `initializePlayers` in order, and nobody
  is there by name only (`Seated`, with `NoPos` no position); once the setup is over the last
  position broadcast is what the clients show (`Positioned`), so that a position equal to it
  need not be sent.
- `ClientTypes`, `ClientActsOnce`, `ClientNoEcho`, `ClientHandsOver`: the safety properties
  of `MCClient`, for any datagrams and any garbage. `HandInv` says that a packet that
  is still to be looked at holds the lock, so that nobody parses; `UseInv` that one
  acted upon is reset before the next frame; `ClickInv` that `newAction_` is set between a
  click and the push in its own frame, or once the game has started, when no push of the
  lobby follows.
- `RegistryInOrder`, `RegistryCleansUp`, `ObjectsInOrder`, `ObjectsBuilt`: ids that are dead once,
  components of the living, objects with their entity, constructors that do not
  throw. `EntitiesIInv` joins them with `Owned`: every object refers to the registry that was made
  with it, so that a destructor disturbs nobody else (`OneLess`), and a new object nobody
  who is there (`OneMore`); `NothingThrown` needs
  that no id is dead twice (`DeadOnce`), or a fresh entity might still count as dead.
- `SessionTypes`, `SessionNotForgotten`, `SessionOwnPlayer`: `SessionInv` is types, table and
  `NotForgotten`, which is inductive with them. `OwnPlayer` needs that who was seated is
  still registered (`Seated`) and that, when no id is free, the ids of the clients are the numbers below
  their count (`PlayersForAll`, from the partition of ids).
- `StreamTypes`, `StreamNoticed`, `StreamShown`: `Noticed` needs `Ascending`: while nobody has raced,
  numbers grow along the stream and leave room for what was lost. `Shown` needs `Faithful`:
  GAME_START is the first thing a client in its lobby finds (`Starting`), no destruction of
  a figure is ahead of its creation (`InOrder`), and whatever the game has and the
  screen has not, or the other way round, is under way (`Arrives`, `Lasts`).

Only model-checked: everything under fairness (`EventuallyInformed`, `HandlerReturns`,
`CallbackReturns`, `HeartbeatsGoOn`, `StopReturns`, `CatchesUp`, the fairness of `ImplementsFifo`), which the
prover does not reach. Every safety invariant of the runs that pass is proved. The theorems
hold of the models, with the abstractions named here.

## 5. Not modelled, and why

- Memory corruption: two racing operations on a `std::queue` may do worse than
  lose a message, and so may racing reads and writes of `remote_endpoint_`
  (a torn endpoint). A lost message is the mildest outcome and enough to break
  what is claimed.
- A push that races the timer's pop: they touch different ends of the deque,
  and the loss it may cause is not distinguished.
- The start of a later game: its GAME_START may be lost in a race of two pushes
  on `send_queue_`. `InformedOfGame` and `NotForgotten` are about the first game only.
- The percentage the client makes of its losses (`resetPacketLoss`), the overflow of
  `sequence_number`, and the text of packets.
- What the handler of SIGINT does inside the client (`Client/main.cpp:5-11`): it joins a
  thread and locks in a signal handler, which is undefined; seen from outside the
  client vanishes (`Session!Vanish`). That a received
  datagram sets `server_endpoint_` to its sender.
- `send_to_client` hands the socket a buffer that may be gone when the send is
  retried.
- `bytes_recieved_5_seconds` (read before it is ever set): log output.
- A datagram for the client that is one byte long: `substr(2)` throws out of
  `io_context.run` and ends the process; and one for the server that is empty is read as
  type 0.
- Timers that fail: the send timer is not started again after an error; nothing
  in the server cancels it.
- Scores, `bulletIdWhoShot` (written, never read),
  `handleBulletPlayerCollision`, `killPlayers`, `killBullets`, `killEnemies`, `killBosses`, `killEntity`, `getEntityRegistry` (never
  called from outside themselves).
- The systems of the ECS: no source file includes one, `CollisionSystem` and `ControlSystem` name
  members their components do not have, and nobody calls `add_system`, so that
  `run_systems` runs nothing. Reading a component array by index without asking
  (`operator[]`) is safe as far as `OwnPosition` goes; for a player that `players[id]` made,
  `get_components` throws, since nothing is registered in its registry.
- Drawing, sound, fonts, build files, assets.
