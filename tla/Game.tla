---------------------------------- MODULE Game ----------------------------------
(***************************************************************************)
(* The game (R-Type/src/Game.cpp and GameEngine/src/AGame.cpp): the game   *)
(* threads that run Game::run, and what the handler thread does to the     *)
(* same object.                                                            *)
(*                                                                         *)
(* Only addPlayerAction, deletePlayerAction, checkCollisions and stop take *)
(* playerActionsMutex; each of them is one step.  Everything else runs     *)
(* without a lock and is cut where another thread can come in between.     *)
(* Where the code then walks through a container that another thread       *)
(* changes, or uses an iterator to what is gone, its behaviour is          *)
(* undefined: the step may go on as if nothing had happened or put status  *)
(* to "undefined", after which nothing is said.                            *)
(*                                                                         *)
(* Positions are abstract: a move leads to any position (clamping included)*)
(* and any bullet or player may overlap any enemy or boss.  Scores,        *)
(* UI_UPDATE packets and bulletIdWhoShot, which is written but never read, *)
(* are left out.  run_systems has no systems to run.                       *)
(***************************************************************************)
EXTENDS Integers, Sequences, FiniteSets, Bags, Functions

CONSTANTS
    MaxThreads,         \* bound: games started in the life of the server
    Sizes,              \* numbers of clients a game may start with
    ClientIds,          \* the ids the handler thread may name
    Positions, StartPos,
    StartHp,            \* 100.0f, in units of an enemy's damage 10
    EnemyDamage,        \* 10.0f
    BossDamage,         \* 20.0f
    FirstWave,          \* 5 enemies in the first wave
    WaveGrowth,         \* 5 more in each later one
    BossEscort,         \* 4 enemies that come with a boss
    MaxWave,            \* bound: currentWave
    MaxBullets,         \* bound: bullets fired
    MaxActions          \* bound: waiting player actions

Threads == 1 .. MaxThreads

Phases == {"none", "spawn", "fill", "actions", "move", "bullets", "enemies",
           "collide", "waves", "ui"}

\* What a player has for a position that has no component.
NoPos == "none"

ASSUME GameAssumption ==
    /\ MaxThreads \in Nat \ {0}
    /\ Sizes \subseteq Nat /\ ClientIds \subseteq Nat
    /\ StartPos \in Positions /\ NoPos \notin Positions
    /\ StartHp \in Nat \ {0} /\ EnemyDamage \in Nat \ {0} /\ BossDamage \in Nat \ {0}
    /\ FirstWave \in Nat /\ WaveGrowth \in Nat /\ BossEscort \in Nat
    /\ MaxWave \in Nat /\ MaxBullets \in Nat /\ MaxActions \in Nat

VARIABLES
    players,            \* players: id -> [hp, pos]
    live,               \* enemies_, bosses_, bullets: pairs <<kind, id>>
    dead,               \* deadPlayers, deadEnemies, deadBullets, deadBosses:
                        \* one bag of pairs <<kind, id>>
    actions,            \* playerActions
    currentWave, enemiesPerWave, enemyId, bossId,
    nextBulletId,
    lastKnown,          \* lastKnownPositions, a static of playerPacketFactory
    gpc,                \* where each game thread is
    count,              \* its loop variable, or the player it moves
    size,               \* numPlayers it was started with
    todo,               \* the player ids its pass over playerActions has left
    attached,           \* whether that pass still walks through the vector
    running,            \* game_running of the server
    hpc, shooter, bullet,   \* spawnBullet on the handler thread
    status,             \* "ok", "aborted" or "undefined"
    shown,              \* history: what the broadcasts made the clients show
    seen                \* history: where they show each player

waveVars == <<currentWave, enemiesPerWave, enemyId, bossId>>
entityVars == <<players, live, dead>>
threadVars == <<gpc, count, size, todo, attached>>
handlerVars == <<running, hpc, shooter, bullet, nextBulletId>>
clientVars == <<shown, seen>>
gameVars == <<entityVars, actions, waveVars, lastKnown, threadVars, handlerVars,
              status, clientVars>>

Kind(k) == {x \in live : x[1] = k}
Foes == Kind("enemy") \cup Kind("boss")
Bullets == Kind("bullet")
PlayerEntities == {<<"player", i>> : i \in DOMAIN players}

\* What players[id] creates for an id that is not there: no hp, and a
\* registry without components.
Phantoms == {i \in DOMAIN players : players[i].pos = NoPos}

--------------------------------------------------------------------------------
(* Undefined behaviour. *)

\* The containers a thread walks through or changes without the lock.
Unlocked(t) ==
    CASE gpc[t] \in {"spawn", "fill", "move", "ui"} -> {"player"}
      [] gpc[t] = "actions" /\ todo[t] # <<>> -> {"player"}
      [] gpc[t] = "bullets" -> {"bullet"}
      [] gpc[t] \in {"enemies", "waves"} -> {"enemy", "boss"}
      [] OTHER -> {}

Kinds == {"player", "enemy", "boss", "bullet"}

\* How a change of containers may end while the threads of `others' go on:
\* `LockedOutcomes' for one made under the lock, which checkCollisions takes
\* too, and `Outcomes' for one made without it.
Verdict(racing) == IF racing THEN {"ok", "undefined"} ELSE {"ok"}

LockedOutcomes(kinds, others) ==
    Verdict(\E t \in others : Unlocked(t) \cap kinds # {})

Outcomes(kinds, others) ==
    Verdict(\E t \in others : Unlocked(t) \cap kinds # {} \/ gpc[t] = "collide")

Abort == status' = "aborted"

--------------------------------------------------------------------------------
GameInit ==
    /\ players = <<>>
    /\ live = {}
    /\ dead = EmptyBag
    /\ actions = <<>>
    /\ currentWave = 0 /\ enemiesPerWave = FirstWave /\ enemyId = 0 /\ bossId = 0
    /\ nextBulletId = 0
    /\ lastKnown = <<>>
    /\ gpc = [t \in Threads |-> "none"]
    /\ count = [t \in Threads |-> 0]
    /\ size = [t \in Threads |-> 0]
    /\ todo = [t \in Threads |-> <<>>]
    /\ attached = [t \in Threads |-> TRUE]
    /\ running = FALSE
    /\ hpc = "idle" /\ shooter = 0 /\ bullet = 0
    /\ status = "ok"
    /\ shown = {}
    /\ seen = <<>>

\* std::map::emplace and operator[]: a key that is in the map keeps its value.
Insert(f, k, v) ==
    [i \in DOMAIN f \cup {k} |-> IF i \in DOMAIN f THEN f[i] ELSE v]

Override(f, g) ==
    [i \in DOMAIN f \cup DOMAIN g |-> IF i \in DOMAIN g THEN g[i] ELSE f[i]]

Goto(t, l) == gpc' = [gpc EXCEPT ![t] = l]

--------------------------------------------------------------------------------
(* Game::run and initializePlayers. *)

\* spawnPlayer, first half: emplace, which keeps a player that is there.
spawnPlayer(t) ==
    /\ gpc[t] = "spawn"
    /\ count[t] < size[t]
    /\ players' = Insert(players, count[t], [hp |-> 0, pos |-> StartPos])
    /\ status' \in Outcomes({"player"}, Threads \ {t})
    /\ Goto(t, "fill")
    /\ UNCHANGED <<live, dead, actions, waveVars, lastKnown, count, size, todo,
                   attached, handlerVars, clientVars>>

\* spawnPlayer, second half: at() throws when the player is gone again, and
\* nothing catches it.
fillPlayer(t) ==
    /\ gpc[t] = "fill"
    /\ \/ /\ count[t] \notin DOMAIN players
          /\ Abort
          /\ UNCHANGED <<players, threadVars, clientVars>>
       \/ /\ count[t] \in DOMAIN players
          /\ players' = [players EXCEPT ![count[t]].hp = @ + StartHp]
          /\ shown' = shown \cup {<<"player", count[t]>>}
          /\ seen' = Override(seen, [i \in {count[t]} |-> StartPos])
          /\ count' = [count EXCEPT ![t] = @ + 1]
          /\ Goto(t, "spawn")
          /\ UNCHANGED <<status, size, todo, attached>>
    /\ UNCHANGED <<live, dead, actions, waveVars, lastKnown, handlerVars>>

\* A round of the endless loop of update() begins with processPlayerActions,
\* whose range-for takes the ends of the vector without the lock.
beginRound(t) ==
    /\ \/ gpc[t] = "spawn" /\ count[t] >= size[t]
       \/ gpc[t] = "ui"
    /\ Goto(t, "actions")
    /\ count' = [count EXCEPT ![t] = 1]
    /\ todo' = [todo EXCEPT ![t] = [i \in DOMAIN actions |-> actions[i].player]]
    /\ attached' = [attached EXCEPT ![t] = TRUE]
    /\ UNCHANGED <<entityVars, actions, waveVars, lastKnown, size, handlerVars,
                   status, clientVars>>

--------------------------------------------------------------------------------
(* processPlayerActions and handlePlayerMove. *)

\* getPlayerPosition throws for a player that is not there, or that has no
\* position; nothing on the game thread catches it.
readPosition(t) ==
    /\ gpc[t] = "actions"
    /\ todo[t] # <<>>
    /\ LET i == Head(todo[t]) IN
           \/ /\ i \in DOMAIN players \ Phantoms
              /\ Goto(t, "move")
              /\ UNCHANGED status
           \/ /\ i \notin DOMAIN players \ Phantoms
              /\ Abort
              /\ UNCHANGED gpc
    /\ UNCHANGED <<entityVars, actions, waveVars, lastKnown, count, size, todo,
                   attached, handlerVars, clientVars>>

\* playerPacketFactory broadcasts CHANGE for the ids below the NUMBER of
\* players whose position is not the last one broadcast, in any game.
Changed(ps) ==
    {i \in DOMAIN ps : /\ i < Cardinality(DOMAIN ps)
                       /\ ps[i].pos # NoPos
                       /\ i \in DOMAIN lastKnown => lastKnown[i] # ps[i].pos}

\* Mutant: the first id is skipped.
playerPacketFactoryFromOne(ps) ==
    LET sent == [i \in Changed(ps) \ {0} |-> ps[i].pos]
    IN  /\ lastKnown' = Override(lastKnown, sent)
        /\ seen' = Override(seen, sent)

playerPacketFactory(ps) ==
    LET sent == [i \in Changed(ps) |-> ps[i].pos]
    IN  /\ lastKnown' = Override(lastKnown, sent)
        /\ seen' = Override(seen, sent)

\* players[playerId] inserts a player without hp when stop() or a collision
\* seen by another thread has removed it since its position was read.  A
\* phantom has no position to move.
Moved(i) ==
    CASE i \in Phantoms -> {players}
      [] i \in DOMAIN players \ Phantoms ->
             {[players EXCEPT ![i].pos = p] : p \in Positions}
      [] OTHER -> {Insert(players, i, [hp |-> 0, pos |-> NoPos])}

\* lastKnownPositions is shared by the game threads.
MoveOutcomes(t) ==
    LET others == Threads \ {t}
    IN  Verdict(\E u \in others : gpc[u] = "move")
        \cup IF Head(todo[t]) \in DOMAIN players THEN {"ok"}
                                                 ELSE Outcomes({"player"}, others)

movePlayer(t) ==
    /\ gpc[t] = "move"
    /\ \E ps \in Moved(Head(todo[t])) : players' = ps /\ playerPacketFactory(ps)
    /\ status' \in MoveOutcomes(t)
    /\ actions' = IF attached[t] THEN [actions EXCEPT ![count[t]].done = TRUE]
                                 ELSE actions
    /\ todo' = [todo EXCEPT ![t] = Tail(@)]
    /\ count' = [count EXCEPT ![t] = @ + 1]
    /\ Goto(t, "actions")
    /\ UNCHANGED <<live, dead, waveVars, size, attached, handlerVars, shown>>

InPass(t) == gpc[t] \in {"actions", "move"}

\* std::remove_if and erase: what waits is kept, in its order.
Unprocessed == {k \in DOMAIN actions : ~actions[k].done}

Rank(k) == Cardinality({j \in Unprocessed : j <= k})

Nth(n) == CHOOSE k \in Unprocessed : Rank(k) = n

\* Mutant: the vector is cleared.
Cleared == <<>>

Compacted == [n \in 1 .. Cardinality(Unprocessed) |-> actions[Nth(n)]]

\* Under the lock.  Erasing shifts the vector below the pass of another thread.
deletePlayerAction(t) ==
    /\ gpc[t] = "actions"
    /\ todo[t] = <<>>
    /\ actions' = Compacted
    /\ LET others == {u \in Threads \ {t} : actions' # actions /\ InPass(u)} IN
           /\ attached' = [u \in Threads |-> attached[u] /\ u \notin others]
           /\ status' \in Verdict(others # {})
    /\ Goto(t, "bullets")
    /\ UNCHANGED <<entityVars, waveVars, lastKnown, count, size, todo, handlerVars,
                   clientVars>>

--------------------------------------------------------------------------------
(* The rest of a round. *)

\* updateBullets and updateEnemies move what they walk through: positions are
\* abstract, so that only the walk itself is left.
updateBullets(t) ==
    /\ gpc[t] = "bullets"
    /\ Goto(t, "enemies")
    /\ UNCHANGED <<entityVars, actions, waveVars, lastKnown, count, size, todo,
                   attached, handlerVars, status, clientVars>>

updateEnemies(t) ==
    /\ gpc[t] = "enemies"
    /\ Goto(t, "collide")
    /\ UNCHANGED <<entityVars, actions, waveVars, lastKnown, count, size, todo,
                   attached, handlerVars, status, clientVars>>

HitsOn(hits, x, kinds) == Cardinality({h \in hits : h[1] = x /\ h[2][1] \in kinds})

\* A player is pushed once for every hit that finds or leaves it without hp;
\* the hits of enemies come before those of bosses.
PlayerPushes(hp, ne, nb) ==
      Cardinality({j \in 1 .. ne : hp - j * EnemyDamage <= 0})
    + Cardinality({k \in 1 .. nb : hp - ne * EnemyDamage - k * BossDamage <= 0})

\* What detectCollisions and detectOutOfBounds push on the dead lists: a
\* bullet and its target once for every overlap.
Pushes(hits, outside) ==
    LET times(x) ==
          IF x[1] = "player"
          THEN PlayerPushes(players[x[2]].hp, HitsOn(hits, x, {"enemy"}),
                            HitsOn(hits, x, {"boss"}))
          ELSE   Cardinality({h \in hits : h[1] = x \/ h[2] = x})
               + (IF x \in outside THEN 1 ELSE 0)
        hit == {x \in live \cup PlayerEntities : times(x) > 0}
    IN  [x \in hit |-> times(x)]

\* Mutant: the dead players are not removed.
CondemnedFoes(lists) == {x \in live : BagIn(x, lists)}

\* The entities the dead lists name: removeEntities erases each once, with one
\* of its entries, and leaves the other entries in the list.
Condemned(lists) == {x \in live \cup PlayerEntities : BagIn(x, lists)}

\* Under the lock.
checkCollisions(t) ==
    /\ gpc[t] = "collide"
    /\ Phantoms = {} \/ Foes = {}
    /\ \E hits \in SUBSET ((Bullets \cup PlayerEntities) \X Foes), outside \in SUBSET live :
           LET lists == dead (+) Pushes(hits, outside)
               gone == Condemned(lists)
               left == {i \in DOMAIN players : <<"player", i>> \notin gone}
               damage(i) ==
                   EnemyDamage * HitsOn(hits, <<"player", i>>, {"enemy"})
                   + BossDamage * HitsOn(hits, <<"player", i>>, {"boss"})
           IN  /\ players' = [i \in left |-> [players[i] EXCEPT !.hp = @ - damage(i)]]
               /\ live' = live \ gone
               /\ dead' = lists (-) SetToBag(gone)
               /\ shown' = shown \ gone
               /\ seen' = Restrict(seen, {i \in DOMAIN seen : <<"player", i>> \notin gone})
               /\ status' \in LockedOutcomes({x[1] : x \in gone}, Threads \ {t})
    /\ Goto(t, "waves")
    /\ UNCHANGED <<actions, waveVars, lastKnown, count, size, todo, attached,
                   handlerVars>>

\* A phantom has no position to compare: the exception ends the server.
checkCollisionsThrows(t) ==
    /\ gpc[t] = "collide"
    /\ Phantoms # {} /\ Foes # {}
    /\ Abort
    /\ UNCHANGED <<entityVars, actions, waveVars, lastKnown, threadVars,
                   handlerVars, clientVars>>

Spawn(new) ==
    /\ live' = live \cup new
    /\ shown' = shown \cup new

\* Mutant: the first id of a wave is skipped.
NewEnemiesOffByOne(n) == {<<"enemy", i>> : i \in enemyId + 1 .. enemyId + n}

NewEnemies(n) == {<<"enemy", i>> : i \in enemyId .. enemyId + n - 1}

spawnBossWave ==
    /\ Spawn(NewEnemies(BossEscort) \cup {<<"boss", bossId>>})
    /\ bossId' = bossId + 1
    /\ enemyId' = enemyId + BossEscort
    /\ UNCHANGED enemiesPerWave

startNextWave ==
    /\ Spawn(NewEnemies(enemiesPerWave))
    /\ enemyId' = enemyId + enemiesPerWave
    /\ enemiesPerWave' = enemiesPerWave + WaveGrowth
    /\ UNCHANGED bossId

\* Mutant: an enemy wave does not count itself.
waveSystemOnce(t) ==
    /\ gpc[t] = "waves"
    /\ currentWave' = currentWave + 1
    /\ currentWave' <= MaxWave
    /\ IF currentWave' % 3 = 0 THEN spawnBossWave ELSE startNextWave
    /\ status' \in Outcomes({"enemy", "boss"}, Threads \ {t})
    /\ Goto(t, "ui")
    /\ UNCHANGED <<players, dead, actions, lastKnown, count, size, todo, attached,
                   handlerVars, seen>>

\* Ten seconds have passed since the last wave, or they have not.  A wave of
\* enemies counts twice: here and in startNextWave.
waveSystem(t) ==
    /\ gpc[t] = "waves"
    /\ \/ /\ \/ /\ (currentWave + 1) % 3 = 0
                /\ currentWave' = currentWave + 1
                /\ spawnBossWave
             \/ /\ (currentWave + 1) % 3 # 0
                /\ currentWave' = currentWave + 2
                /\ startNextWave
          /\ currentWave' <= MaxWave
          /\ status' \in Outcomes({"enemy", "boss"}, Threads \ {t})
       \/ UNCHANGED <<live, waveVars, status, shown>>
    /\ Goto(t, "ui")
    /\ UNCHANGED <<players, dead, actions, lastKnown, count, size, todo, attached,
                   handlerVars, seen>>

--------------------------------------------------------------------------------
(* The handler thread (PacketHandler.cpp:78-135,184-185). *)

\* A game thread is started for the clients of the moment.
handleGameStart(n) ==
    /\ hpc = "idle" /\ ~running
    /\ running' = TRUE
    /\ \E t \in Threads :
           /\ gpc[t] = "none"
           /\ \A u \in Threads : u < t => gpc[u] # "none"
           /\ Goto(t, "spawn")
           /\ size' = [size EXCEPT ![t] = n]
    /\ UNCHANGED <<entityVars, actions, waveVars, lastKnown, count, todo, attached,
                   hpc, shooter, bullet, nextBulletId, status, clientVars>>

\* handleGameEnd and stop, under the lock: nothing is broadcast, the game
\* thread runs on and the waiting actions stay.
stop ==
    /\ hpc = "idle" /\ running
    /\ running' = FALSE
    /\ players' = <<>> /\ live' = {} /\ dead' = EmptyBag
    /\ status' \in LockedOutcomes(Kinds, Threads)
    /\ UNCHANGED <<actions, waveVars, lastKnown, threadVars, hpc, shooter, bullet,
                   nextBulletId, clientVars>>

Waiting(i) == [player |-> i, done |-> FALSE]

\* Under the lock, which a pass does not hold: when the vector has to grow,
\* the passes still walk through the memory it was moved from.
Appended(new) ==
    /\ hpc = "idle" /\ running
    /\ Len(actions) < MaxActions
    /\ actions' = new
    /\ \/ UNCHANGED <<attached, status>>
       \/ LET passing == {t \in Threads : InPass(t) /\ todo[t] # <<>>} IN
              /\ passing # {}
              /\ attached' = [t \in Threads |-> attached[t] /\ t \notin passing]
              /\ status' \in {"ok", "undefined"}
    /\ UNCHANGED <<entityVars, waveVars, lastKnown, gpc, count, size, todo,
                   handlerVars, clientVars>>

\* Mutant: a new action goes before those that wait.
addPlayerActionFront(i) == Appended(<<Waiting(i)>> \o actions)

addPlayerAction(i) == Appended(Append(actions, Waiting(i)))

\* spawnBullet, first step: players.find, and the position it will read.
\* Nobody asks whether a game is running, and no lock is held.
shoot(i) ==
    /\ hpc = "idle"
    /\ nextBulletId < MaxBullets
    /\ i \in DOMAIN players \ Phantoms      \* otherwise: a log line
    /\ hpc' = "found"
    /\ shooter' = i
    /\ status' \in Verdict(\E t \in Threads : gpc[t] \in {"spawn", "move", "collide"})
    /\ UNCHANGED <<entityVars, actions, waveVars, lastKnown, threadVars, running,
                   bullet, nextBulletId, clientVars>>

ShooterGone == shooter \notin DOMAIN players \ Phantoms

\* Second step: the bullet enters the map, at a position read through a
\* pointer into the player.
emplaceBullet ==
    /\ hpc = "found"
    /\ live' = live \cup {<<"bullet", nextBulletId>>}
    /\ bullet' = nextBulletId
    /\ hpc' = "emplaced"
    /\ status' \in Outcomes({"bullet"}, Threads) \cup Verdict(ShooterGone)
    /\ UNCHANGED <<players, dead, actions, waveVars, lastKnown, threadVars, running,
                   shooter, nextBulletId, clientVars>>

\* Mutant: the next bullet gets the same id.
announceBulletSameId ==
    /\ hpc = "emplaced"
    /\ shown' = shown \cup {<<"bullet", bullet>>}
    /\ hpc' = "idle"
    /\ status' \in Verdict(ShooterGone)
    /\ UNCHANGED <<entityVars, actions, waveVars, lastKnown, threadVars, running,
                   shooter, bullet, nextBulletId, seen>>

\* Mutant: the id is counted up before it is broadcast.
announceBulletNextId ==
    /\ hpc = "emplaced"
    /\ nextBulletId' = nextBulletId + 1
    /\ shown' = shown \cup {<<"bullet", nextBulletId'>>}
    /\ hpc' = "idle"
    /\ status' \in Verdict(ShooterGone)
    /\ UNCHANGED <<entityVars, actions, waveVars, lastKnown, threadVars, running,
                   shooter, bullet, seen>>

\* Third step: CREATE_BULLET is broadcast, whatever became of the bullet.
announceBullet ==
    /\ hpc = "emplaced"
    /\ shown' = shown \cup {<<"bullet", bullet>>}
    /\ nextBulletId' = nextBulletId + 1
    /\ hpc' = "idle"
    /\ status' \in Verdict(ShooterGone)
    /\ UNCHANGED <<entityVars, actions, waveVars, lastKnown, threadVars, running,
                   shooter, bullet, seen>>

--------------------------------------------------------------------------------
GameThread(t) ==
    \/ spawnPlayer(t) \/ fillPlayer(t) \/ beginRound(t)
    \/ readPosition(t) \/ movePlayer(t) \/ deletePlayerAction(t)
    \/ updateBullets(t) \/ updateEnemies(t)
    \/ checkCollisions(t) \/ checkCollisionsThrows(t) \/ waveSystem(t)

HandlerThread ==
    \/ \E n \in Sizes : handleGameStart(n)
    \/ \E i \in ClientIds : addPlayerAction(i) \/ shoot(i)
    \/ stop \/ emplaceBullet \/ announceBullet

\* Nothing happens in a server that has aborted, and nothing is said of one
\* whose behaviour is undefined.
Running == status = "ok"

GameNext ==
    \/ \E t \in Threads : Running /\ GameThread(t)
    \/ Running /\ HandlerThread

GameSpec == GameInit /\ [][GameNext]_gameVars

\* The scheduler runs every game thread.  The handler owes nobody a packet.
FairGameSpec ==
    GameSpec /\ \A t \in Threads : WF_gameVars(Running /\ GameThread(t))
--------------------------------------------------------------------------------
(***************************************************************************)
(* The types of the game's variables.  Ids are handed out once: a foe or a *)
(* bullet in the game has an id below the next one, so that none is ever   *)
(* inserted under an id in use (Game.cpp:81-83,242, AGame.cpp:95-106).     *)
(***************************************************************************)
BulletIds == 0 .. IF hpc = "emplaced" THEN nextBulletId ELSE nextBulletId - 1

GameTypeOK ==
    /\ \A i \in DOMAIN players : players[i].pos \in Positions \cup {NoPos}
    /\ DOMAIN players \subseteq Nat
    /\ live \subseteq    ({"enemy"} \X (0 .. enemyId - 1))
                    \cup ({"boss"} \X (0 .. bossId - 1))
                    \cup ({"bullet"} \X BulletIds)
    /\ IsABag(dead)
    /\ \A k \in DOMAIN actions : actions[k] \in [player : ClientIds, done : BOOLEAN]
    /\ currentWave \in 0 .. MaxWave
    /\ \A t \in Threads : todo[t] \in Seq(ClientIds)
    /\ gpc \in [Threads -> Phases]
    /\ running \in BOOLEAN
    /\ hpc \in {"idle", "found", "emplaced"}
    /\ status \in {"ok", "aborted", "undefined"}

(***************************************************************************)
(* What a round leaves in a dead list - an entity that was hit twice is    *)
(* pushed twice and erased once (Game.cpp:332-392) - never names an entity *)
(* that is alive later: no new bullet or foe dies of the hits of an old    *)
(* one, and in the first game no player does.  In a later game a player    *)
(* may, when two game threads create it one after the other.               *)
(***************************************************************************)
FirstGame == \A t \in Threads : t > 1 => gpc[t] = "none"

StaleDeadHarmless ==
    /\ \A x \in live : ~BagIn(x, dead)
    /\ FirstGame => \A i \in DOMAIN players \ Phantoms : ~BagIn(<<"player", i>>, dead)

(***************************************************************************)
(* Whoever is in the game is alive, whatever hits it in whatever order:    *)
(* only the player a thread is just creating, and the phantoms that        *)
(* players[id] leaves, have no hp (AGame.cpp:84-85, Game.cpp:474-483).     *)
(***************************************************************************)
PlayersAlive ==
    \A i \in DOMAIN players :
        \/ players[i].hp > 0
        \/ i \in Phantoms
        \/ \E t \in Threads : gpc[t] = "fill" /\ count[t] = i

(***************************************************************************)
(* Waves of enemies and bosses alternate for ever, although an enemy wave  *)
(* counts twice (Game.cpp:79-87,240): currentWave is never 1 modulo 3, one *)
(* boss has come for every three counts, and the enemies grow by the wave. *)
(***************************************************************************)
EnemyWaves == (currentWave + 1) \div 3

WaveSchedule ==
    /\ currentWave % 3 \in {0, 2}
    /\ bossId = currentWave \div 3
    /\ enemiesPerWave = FirstWave + WaveGrowth * EnemyWaves
    /\ enemyId = BossEscort * bossId + FirstWave * EnemyWaves
                 + WaveGrowth * ((EnemyWaves * (EnemyWaves - 1)) \div 2)

(***************************************************************************)
(* In the first game, as long as nobody has died, every client sees every  *)
(* player where it is once a move has been dealt with: comparing with the  *)
(* last position broadcast loses none (Game.cpp:124-147).                  *)
(***************************************************************************)
PositionsSeen ==
    /\ running /\ FirstGame /\ gpc[1] \notin {"none", "spawn", "fill"}
    /\ DOMAIN players = 0 .. size[1] - 1
    => \A i \in DOMAIN players : seen[i] = players[i].pos

(***************************************************************************)
(* A pass over playerActions keeps in step with the vector although the    *)
(* handler appends to it meanwhile (AGame.cpp:30-50): what it has passed   *)
(* is processed, so that it makes no move twice, and what it has yet to do *)
(* is what the vector holds there, so that none is skipped.                *)
(***************************************************************************)
PassAligned ==
    \A t \in Threads :
        InPass(t) /\ attached[t] =>
            /\ \A k \in 1 .. count[t] - 1 : actions[k].done
            /\ \A k \in DOMAIN todo[t] :
                   actions[count[t] + k - 1].player = todo[t][k]

(***************************************************************************)
(* Moves are made in the order they were asked for and none is dropped,    *)
(* however appending, passing, marking and erasing interleave, and however *)
(* many game threads pass over the same vector (AGame.cpp:30-57): the      *)
(* moves that wait change only by a new one at the end, or by the first    *)
(* one, at the moment it is made.  A second pass over the same vector, or  *)
(* over memory it has left, may make a move again that no longer waits.    *)
(***************************************************************************)
MovesWaiting == [n \in 1 .. Cardinality(Unprocessed) |-> actions[Nth(n)].player]

QueuesMoves ==
    \/ MovesWaiting' = MovesWaiting
    \/ \E i \in ClientIds : MovesWaiting' = Append(MovesWaiting, i)
    \/ \E t \in Threads :
           /\ gpc[t] = "move" /\ gpc'[t] = "actions"
           /\ MovesWaiting # <<>> /\ Head(MovesWaiting) = Head(todo[t])
           /\ MovesWaiting' = Tail(MovesWaiting)

MovesInOrder == [][QueuesMoves]_gameVars

(***************************************************************************)
(* What the first game has, the clients have been shown and not been told  *)
(* that it is gone, but for what a thread is just creating (AGame.cpp:     *)
(* 83-106, Game.cpp:332-392).  The reverse is not so: a bullet that hits   *)
(* before it is announced is destroyed first and created afterwards.       *)
(***************************************************************************)
Entities == live \cup {<<"player", i>> : i \in DOMAIN players \ Phantoms}

Announced ==
    running /\ FirstGame =>
        \A x \in Entities \ shown :
            \/ hpc = "emplaced" /\ x = <<"bullet", bullet>>
            \/ \E t \in Threads : gpc[t] = "fill" /\ x = <<"player", count[t]>>

(***************************************************************************)
(* protocol.md:72-75 lists `GAME_END` among the packets of the server, and *)
(* Game.cpp:112-121 sends it and leaves the loop when no player is left:   *)
(* when the last player has died the game thread comes to its end.         *)
(***************************************************************************)
GameEnds ==
    (running /\ FirstGame /\ gpc[1] \notin {"none", "spawn", "fill"} /\ players = <<>>)
        ~> (~running \/ gpc[1] = "done" \/ ~Running)
================================================================================
