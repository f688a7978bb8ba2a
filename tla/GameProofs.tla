------------------------------- MODULE GameProofs -------------------------------
(***************************************************************************)
(* Theorems about the game.  The types (TypeInv, with the schedule of the  *)
(* waves and the players' hp it rests on) carry the rest; what is said of  *)
(* the first game rests, besides, on what was there before it (Fresh) and  *)
(* on the dead lists (StaleInv).                                           *)
(***************************************************************************)
EXTENDS Game, FiniteSetTheorems, SequenceTheorems, TLAPS

--------------------------------------------------------------------------------
(* The schedule of the waves. *)

WaveInv == currentWave \in Nat /\ bossId \in Nat /\ enemiesPerWave \in Nat /\ enemyId \in Nat

\* Dividing by three across a boss wave and across an enemy wave.
LEMMA Thirds ==
    ASSUME NEW n \in Nat, n % 3 \in {0, 2}
    PROVE  /\ (n + 1) % 3 = 0 =>
                 /\ (n + 1) \div 3 = (n \div 3) + 1
                 /\ (n + 2) \div 3 = (n + 1) \div 3
           /\ (n + 1) % 3 # 0 =>
                 /\ (n + 2) % 3 = 2
                 /\ (n + 2) \div 3 = n \div 3
                 /\ (n + 3) \div 3 = ((n + 1) \div 3) + 1
  OBVIOUS

\* The arithmetic of sums that grow by one term.
LEMMA OneMore ==
    ASSUME NEW a \in Nat, NEW k \in Nat
    PROVE  /\ a * (k + 1) = a * k + a
           /\ ((k + 1) * k) \div 2 = ((k * (k - 1)) \div 2) + k
           /\ (k * (k - 1)) \div 2 \in Nat
<1>1. a * (k + 1) = a * k + a
  OBVIOUS
<1>2. (k + 1) * k = k * (k - 1) + 2 * k
  OBVIOUS
<1>3. k * (k - 1) \in Nat
  <2>1. CASE k = 0
    BY <2>1
  <2>2. CASE k > 0
    <3>1. k - 1 \in Nat
      BY <2>2
    <3> QED
      BY <3>1
  <2> QED
    BY <2>1, <2>2
<1> DEFINE m == k * (k - 1)
<1>4. (m + 2 * k) \div 2 = (m \div 2) + k /\ m \div 2 \in Nat
  <2> HIDE DEF m
  <2>1. m \in Nat
    BY <1>3 DEF m
  <2> QED
    BY <2>1
<1> QED
  BY <1>1, <1>2, <1>4

LEMMA WaveInit == GameInit => WaveInv /\ WaveSchedule
  BY GameAssumption DEF GameInit, WaveInv, WaveSchedule, EnemyWaves, GameAssumption

LEMMA WaveStep == WaveInv /\ WaveSchedule /\ [GameNext]_gameVars => (WaveInv /\ WaveSchedule)'
<1> SUFFICES ASSUME WaveInv, WaveSchedule, [GameNext]_gameVars
             PROVE  (WaveInv /\ WaveSchedule)'
  OBVIOUS
<1> USE GameAssumption DEF GameAssumption
<1>1. CASE UNCHANGED waveVars
  BY <1>1 DEF waveVars, WaveInv, WaveSchedule, EnemyWaves
<1>2. ASSUME NEW t \in Threads, waveSystem(t)
      PROVE  (WaveInv /\ WaveSchedule)'
  <2> DEFINE k == EnemyWaves
  <2>1. currentWave \in Nat /\ currentWave % 3 \in {0, 2} /\ k \in Nat
    BY DEF WaveInv, WaveSchedule, EnemyWaves
  <2>2. CASE /\ (currentWave + 1) % 3 = 0
             /\ currentWave' = currentWave + 1
             /\ spawnBossWave
    <3>1. /\ bossId' = bossId + 1 /\ enemyId' = enemyId + BossEscort
          /\ enemiesPerWave' = enemiesPerWave
      BY <2>2 DEF spawnBossWave
    <3>2. currentWave' % 3 = 0 /\ currentWave' \div 3 = (currentWave \div 3) + 1
      BY <2>1, <2>2, Thirds
    <3>3. EnemyWaves' = k
      BY <2>1, <2>2, Thirds DEF EnemyWaves
    <3>4. enemyId' = BossEscort * bossId' + FirstWave * EnemyWaves'
                      + WaveGrowth * ((EnemyWaves' * (EnemyWaves' - 1)) \div 2)
      <4>1. BossEscort * (bossId + 1) = BossEscort * bossId + BossEscort
        BY OneMore DEF WaveInv
      <4>2. (k * (k - 1)) \div 2 \in Nat
        BY <2>1, OneMore
      <4> DEFINE f == FirstWave * k
                 g == WaveGrowth * ((k * (k - 1)) \div 2)
                 b == BossEscort * bossId
      <4>3. f \in Nat /\ g \in Nat /\ b \in Nat
        BY <2>1, <4>2 DEF WaveInv
      <4>4. enemyId = b + f + g
        BY DEF WaveSchedule
      <4>5. BossEscort * bossId' + FirstWave * EnemyWaves'
              + WaveGrowth * ((EnemyWaves' * (EnemyWaves' - 1)) \div 2)
            = (b + BossEscort) + f + g
        BY <3>1, <3>3, <4>1
      <4> HIDE DEF f, g, b
      <4> QED
        BY <3>1, <4>3, <4>4, <4>5
    <3>5. bossId' = currentWave' \div 3
      BY <3>1, <3>2 DEF WaveSchedule
    <3>6. enemiesPerWave' = FirstWave + WaveGrowth * EnemyWaves'
      BY <3>1, <3>3 DEF WaveSchedule
    <3>7. WaveInv'
      BY <2>1, <2>2, <3>1 DEF WaveInv
    <3> QED
      BY <3>2, <3>4, <3>5, <3>6, <3>7 DEF WaveSchedule
  <2>3. CASE /\ (currentWave + 1) % 3 # 0
             /\ currentWave' = currentWave + 2
             /\ startNextWave
    <3>1. /\ bossId' = bossId /\ enemyId' = enemyId + enemiesPerWave
          /\ enemiesPerWave' = enemiesPerWave + WaveGrowth
      BY <2>3 DEF startNextWave
    <3>2. currentWave' % 3 = 2 /\ currentWave' \div 3 = currentWave \div 3
      BY <2>1, <2>3, Thirds
    <3>3. EnemyWaves' = k + 1
      BY <2>1, <2>3, Thirds DEF EnemyWaves
    <3>4. enemiesPerWave' = FirstWave + WaveGrowth * EnemyWaves'
      <4>1. WaveGrowth * (k + 1) = WaveGrowth * k + WaveGrowth
        BY <2>1, OneMore
      <4> DEFINE h == WaveGrowth * k
      <4>2. h \in Nat /\ enemiesPerWave = FirstWave + h
        BY <2>1 DEF WaveSchedule
      <4>3. WaveGrowth * EnemyWaves' = h + WaveGrowth
        BY <3>3, <4>1
      <4> HIDE DEF h
      <4> QED
        BY <3>1, <4>2, <4>3
    <3>5. enemyId' = BossEscort * bossId' + FirstWave * EnemyWaves'
                      + WaveGrowth * ((EnemyWaves' * (EnemyWaves' - 1)) \div 2)
      <4> DEFINE p == (k * (k - 1)) \div 2
                 b == BossEscort * bossId
                 f == FirstWave * k
                 g == WaveGrowth * p
                 h == WaveGrowth * k
      <4>1. p \in Nat /\ ((k + 1) * k) \div 2 = p + k
        BY <2>1, OneMore
      <4>2. FirstWave * (k + 1) = f + FirstWave
        BY <2>1, OneMore
      <4>3. enemyId = b + f + g /\ enemiesPerWave = FirstWave + h
        BY DEF WaveSchedule
      <4>4. b \in Nat /\ f \in Nat /\ g \in Nat /\ h \in Nat
        BY <2>1, <4>1 DEF WaveInv
      <4>5. WaveGrowth * (p + k) = g + h
        <5> HIDE DEF p, k
        <5> QED
          BY <2>1, <4>1
      <4>6. EnemyWaves' - 1 = k
        BY <2>1, <3>3
      <4>7. WaveGrowth * ((EnemyWaves' * (EnemyWaves' - 1)) \div 2) = g + h
        BY <3>3, <4>1, <4>5, <4>6
      <4>8. BossEscort * bossId' = b /\ FirstWave * EnemyWaves' = f + FirstWave
        BY <3>1, <3>3, <4>2
      <4> HIDE DEF p, b, f, g, h
      <4> QED
        BY <3>1, <4>3, <4>4, <4>7, <4>8
    <3>6. bossId' = currentWave' \div 3
      BY <3>1, <3>2 DEF WaveSchedule
    <3>7. WaveInv'
      BY <2>1, <2>3, <3>1 DEF WaveInv
    <3> QED
      BY <3>2, <3>4, <3>5, <3>6, <3>7 DEF WaveSchedule
  <2> QED
    BY <1>1, <1>2, <2>2, <2>3 DEF waveSystem
<1>3. ASSUME NEW t \in Threads, GameThread(t), ~waveSystem(t)
      PROVE  UNCHANGED waveVars
  BY <1>3 DEF GameThread, spawnPlayer, fillPlayer, beginRound, readPosition, movePlayer,
              deletePlayerAction, updateBullets, updateEnemies, checkCollisions,
              checkCollisionsThrows
<1>4. ASSUME HandlerThread
      PROVE  UNCHANGED waveVars
  BY <1>4 DEF HandlerThread, handleGameStart, stop, addPlayerAction, Appended, shoot,
              emplaceBullet, announceBullet
<1>5. CASE UNCHANGED gameVars
  BY <1>1, <1>5 DEF gameVars
<1> QED
  BY <1>1, <1>2, <1>3, <1>4, <1>5 DEF GameNext

(***************************************************************************)
(* Enemy waves and bosses alternate for ever, and the numbers of enemies   *)
(* and ids follow, for any first wave, growth and escort: waveSystem and   *)
(* startNextWave (Game.cpp:73-90,239-245).                                 *)
(***************************************************************************)
THEOREM GameWaves == GameSpec => []WaveSchedule
<1>1. WaveInv /\ WaveSchedule => WaveSchedule
  OBVIOUS
<1> QED
  BY <1>1, WaveInit, WaveStep, PTL DEF GameSpec

--------------------------------------------------------------------------------
(* Who is in the game is alive. *)

\* The strengthening of PlayersAlive that a step preserves.
PlayersInv ==
    /\ players \in [DOMAIN players -> [hp : Nat, pos : Positions \cup {NoPos}]]
    /\ IsFiniteSet(live)
    /\ gpc \in [Threads -> Phases]
    /\ count \in [Threads -> Int]

\* What is pushed on a dead list is in it.
LEMMA PushedIn ==
    ASSUME NEW B1, NEW B2, NEW x, x \in DOMAIN B2
    PROVE  BagIn(x, B1 (+) B2)
  BY DEF BagIn, BagToSet, (+)

\* A player is hit by finitely many enemies and bosses.
LEMMA HitsNat ==
    ASSUME IsFiniteSet(live),
           NEW hits \in SUBSET ((Bullets \cup PlayerEntities) \X Foes),
           NEW x, NEW kinds
    PROVE  HitsOn(hits, x, kinds) \in Nat
<1> DEFINE S == {h \in hits : h[1] = x /\ h[2][1] \in kinds}
           f == [h \in S |-> h[2]]
<1>1. IsFiniteSet(Foes)
  <2>1. Foes \in SUBSET live
    BY DEF Foes, Kind
  <2> QED
    BY <2>1, FS_Subset
<1>2. f \in [S -> Foes]
  OBVIOUS
<1>3. \A h, g \in S : f[h] = f[g] => h = g
  <2> SUFFICES ASSUME NEW h \in S, NEW g \in S, h[2] = g[2]
               PROVE  h = g
    OBVIOUS
  <2>1. h[1] = g[1]
    OBVIOUS
  <2> QED
    BY <2>1
<1>4. f \in Injection(S, Foes)
  BY <1>2, <1>3 DEF Injection, IsInjective
<1>5. IsFiniteSet(S)
  BY <1>1, <1>4, FS_Injection
<1> QED
  BY <1>5, FS_CardinalityType DEF HitsOn

\* A player is pushed finitely often.
LEMMA PushesNat ==
    ASSUME NEW hp, NEW ne \in Nat, NEW nb \in Nat
    PROVE  /\ IsFiniteSet({j \in 1 .. ne : hp - j * EnemyDamage <= 0})
           /\ IsFiniteSet({k \in 1 .. nb : hp - ne * EnemyDamage - k * BossDamage <= 0})
           /\ PlayerPushes(hp, ne, nb) \in Nat
<1> DEFINE E == {j \in 1 .. ne : hp - j * EnemyDamage <= 0}
           B == {k \in 1 .. nb : hp - ne * EnemyDamage - k * BossDamage <= 0}
<1>1. IsFiniteSet(1 .. ne) /\ IsFiniteSet(1 .. nb)
  BY FS_Interval
<1>2. E \in SUBSET (1 .. ne) /\ B \in SUBSET (1 .. nb)
  OBVIOUS
<1>3. IsFiniteSet(E) /\ IsFiniteSet(B)
  BY <1>1, <1>2, FS_Subset
<1>4. Cardinality(E) \in Nat /\ Cardinality(B) \in Nat
  BY <1>3, FS_CardinalityType
<1>5. PlayerPushes(hp, ne, nb) = Cardinality(E) + Cardinality(B)
  BY DEF PlayerPushes
<1> HIDE DEF E, B
<1>6. PlayerPushes(hp, ne, nb) \in Nat
  BY <1>4, <1>5
<1> QED
  BY <1>3, <1>6 DEF E, B

\* A player that is not pushed survives the damage of the round.
LEMMA Unpushed ==
    ASSUME NEW hp \in Nat, NEW ne \in Nat, NEW nb \in Nat,
           ~(PlayerPushes(hp, ne, nb) > 0)
    PROVE  LET d == EnemyDamage * ne + BossDamage * nb
           IN  hp - d \in Nat /\ (d = 0 \/ hp - d > 0)
<1> DEFINE E == {j \in 1 .. ne : hp - j * EnemyDamage <= 0}
           B == {k \in 1 .. nb : hp - ne * EnemyDamage - k * BossDamage <= 0}
           de == ne * EnemyDamage
           db == nb * BossDamage
<1>1. IsFiniteSet(E) /\ IsFiniteSet(B)
  BY PushesNat, Zenon
<1> USE GameAssumption DEF GameAssumption
<1>2. Cardinality(E) \in Nat /\ Cardinality(B) \in Nat
  BY <1>1, FS_CardinalityType
<1>3. Cardinality(E) = 0 /\ Cardinality(B) = 0
  <2> HIDE DEF E, B
  <2>1. PlayerPushes(hp, ne, nb) = Cardinality(E) + Cardinality(B)
    BY DEF PlayerPushes, E, B
  <2> QED
    BY <1>2, <2>1
<1>4. E = {} /\ B = {}
  BY <1>1, <1>3, FS_EmptySet
<1>5. de \in Nat /\ db \in Nat
  OBVIOUS
<1>6. ne > 0 => hp - de > 0
  <2> SUFFICES ASSUME ne > 0 PROVE ~(hp - de <= 0)
    BY <1>5
  <2>1. ne \in 1 .. ne
    OBVIOUS
  <2> QED
    BY <1>4, <2>1
<1>7. nb > 0 => hp - de - db > 0
  <2> SUFFICES ASSUME nb > 0 PROVE ~(hp - de - db <= 0)
    BY <1>5
  <2>1. nb \in 1 .. nb
    OBVIOUS
  <2> QED
    BY <1>4, <2>1
<1>8. (ne = 0 => de = 0) /\ (nb = 0 => db = 0)
  OBVIOUS
<1>9. EnemyDamage * ne = de /\ BossDamage * nb = db
  OBVIOUS
<1> HIDE DEF de, db
<1> QED
  BY <1>5, <1>6, <1>7, <1>8, <1>9

PlayersOK == PlayersInv /\ PlayersAlive

\* The enemies of a wave are finitely many.
LEMMA WaveFinite ==
    ASSUME WaveInv, NEW n \in Nat
    PROVE  IsFiniteSet(NewEnemies(n))
<1> DEFINE D == enemyId .. enemyId + n - 1
           f == [i \in D |-> <<"enemy", i>>]
<1>1. IsFiniteSet(D)
  BY FS_Interval DEF WaveInv
<1>2. f \in Surjection(D, NewEnemies(n))
  BY DEF Surjection, NewEnemies
<1> QED
  BY <1>1, <1>2, FS_Surjection

LEMMA PlayersInit == GameInit => PlayersOK
<1> SUFFICES ASSUME GameInit PROVE PlayersOK
  OBVIOUS
<1>1. DOMAIN players = {}
  BY DEF GameInit
<1>2. IsFiniteSet(live)
  BY FS_EmptySet DEF GameInit
<1>3. gpc \in [Threads -> Phases] /\ count \in [Threads -> Int]
  BY DEF GameInit, Phases
<1>4. players \in [DOMAIN players -> [hp : Nat, pos : Positions \cup {NoPos}]]
  BY <1>1 DEF GameInit
<1> QED
  BY <1>1, <1>2, <1>3, <1>4 DEF PlayersOK, PlayersInv, PlayersAlive

\* A step that leaves the players alone, and no thread in the middle of
\* creating one, keeps them alive.
LEMMA PlayersKept ==
    ASSUME PlayersOK, players' = players, IsFiniteSet(live'),
           gpc' \in [Threads -> Phases], count' \in [Threads -> Int],
           \A t \in Threads : gpc[t] = "fill" => gpc'[t] = "fill" /\ count'[t] = count[t]
    PROVE  PlayersOK'
  BY DEF PlayersOK, PlayersInv, PlayersAlive, Phantoms

LEMMA SpawnKeeps ==
    ASSUME PlayersOK, NEW t \in Threads, spawnPlayer(t)
    PROVE  PlayersOK'
<1> DEFINE new == [hp |-> 0, pos |-> StartPos]
<1>1. /\ players' = Insert(players, count[t], new)
      /\ gpc' = [gpc EXCEPT ![t] = "fill"] /\ gpc[t] = "spawn"
      /\ live' = live /\ count' = count
  BY DEF spawnPlayer, Goto
<1>2. new \in [hp : Nat, pos : Positions \cup {NoPos}]
  BY GameAssumption DEF GameAssumption
<1>3. PlayersInv'
  <2>1. players' \in [DOMAIN players' -> [hp : Nat, pos : Positions \cup {NoPos}]]
    BY <1>1, <1>2 DEF PlayersOK, PlayersInv, Insert
  <2>2. gpc' \in [Threads -> Phases]
    BY <1>1 DEF PlayersOK, PlayersInv, Phases
  <2> QED
    BY <1>1, <2>1, <2>2 DEF PlayersOK, PlayersInv
<1>4. ASSUME NEW i \in DOMAIN players'
      PROVE  \/ players'[i].hp > 0
             \/ i \in Phantoms'
             \/ \E u \in Threads : gpc'[u] = "fill" /\ count'[u] = i
  <2>1. CASE i \in DOMAIN players
    <3>1. players'[i] = players[i]
      BY <1>1, <2>1 DEF Insert
    <3>2. i \in Phantoms => i \in Phantoms'
      BY <1>4, <3>1 DEF Phantoms
    <3>3. \A u \in Threads : gpc[u] = "fill" => gpc'[u] = "fill"
      BY <1>1 DEF PlayersOK, PlayersInv
    <3> QED
      BY <1>1, <2>1, <3>1, <3>2, <3>3 DEF PlayersOK, PlayersAlive
  <2>2. CASE i \notin DOMAIN players
    <3>1. i = count[t]
      BY <1>1, <1>4, <2>2 DEF Insert
    <3>2. gpc'[t] = "fill"
      BY <1>1 DEF PlayersOK, PlayersInv
    <3> QED
      BY <1>1, <3>1, <3>2
  <2> QED
    BY <2>1, <2>2
<1> QED
  BY <1>3, <1>4 DEF PlayersOK, PlayersAlive

LEMMA FillKeeps ==
    ASSUME PlayersOK, NEW t \in Threads, fillPlayer(t)
    PROVE  PlayersOK'
<1>1. CASE UNCHANGED <<players, threadVars, clientVars>>
  BY <1>1, PlayersKept DEF fillPlayer, threadVars, PlayersOK, PlayersInv
<1>2. CASE /\ count[t] \in DOMAIN players
           /\ players' = [players EXCEPT ![count[t]].hp = @ + StartHp]
           /\ count' = [count EXCEPT ![t] = @ + 1]
           /\ Goto(t, "spawn")
  <2> DEFINE c == count[t]
             p == players[c]
             q == [p EXCEPT !.hp = @ + StartHp]
  <2>1. p \in [hp : Nat, pos : Positions \cup {NoPos}]
    BY <1>2 DEF PlayersOK, PlayersInv
  <2>2. q \in [hp : Nat, pos : Positions \cup {NoPos}] /\ q.hp > 0 /\ q.pos = p.pos
    BY <2>1, GameAssumption DEF GameAssumption
  <2>3. players' = [players EXCEPT ![c] = q]
    BY <1>2
  <2> HIDE DEF p, q
  <2>4. PlayersInv'
    <3>1. live' = live
      BY DEF fillPlayer
    <3>2. players' \in [DOMAIN players' -> [hp : Nat, pos : Positions \cup {NoPos}]]
      BY <2>2, <2>3 DEF PlayersOK, PlayersInv
    <3>3. gpc' \in [Threads -> Phases] /\ count' \in [Threads -> Int]
      BY <1>2 DEF PlayersOK, PlayersInv, Goto, Phases
    <3> QED
      BY <3>1, <3>2, <3>3 DEF PlayersOK, PlayersInv
  <2>5. ASSUME NEW i \in DOMAIN players'
        PROVE  \/ players'[i].hp > 0
               \/ i \in Phantoms'
               \/ \E u \in Threads : gpc'[u] = "fill" /\ count'[u] = i
    <3>1. CASE i = c
      BY <1>2, <2>2, <2>3, <3>1 DEF PlayersOK, PlayersInv
    <3>2. CASE i # c
      <4>1. i \in DOMAIN players /\ players'[i] = players[i]
        BY <2>3, <2>5, <3>2 DEF PlayersOK, PlayersInv
      <4>2. i \in Phantoms => i \in Phantoms'
        BY <2>5, <4>1 DEF Phantoms
      <4>3. ASSUME NEW u \in Threads, gpc[u] = "fill", count[u] = i
            PROVE  gpc'[u] = "fill" /\ count'[u] = i
        BY <1>2, <3>2, <4>3 DEF PlayersOK, PlayersInv, Goto
      <4> QED
        BY <4>1, <4>2, <4>3 DEF PlayersOK, PlayersAlive
    <3> QED
      BY <3>1, <3>2
  <2> QED
    BY <2>4, <2>5 DEF PlayersOK, PlayersAlive
<1> QED
  BY <1>1, <1>2 DEF fillPlayer

LEMMA MoveKeeps ==
    ASSUME PlayersOK, NEW t \in Threads, movePlayer(t)
    PROVE  PlayersOK'
<1> DEFINE c == Head(todo[t])
           new == [hp |-> 0, pos |-> NoPos]
           P == Positions \cup {NoPos}
<1>1. /\ gpc[t] = "move" /\ gpc' = [gpc EXCEPT ![t] = "actions"]
      /\ count' = [count EXCEPT ![t] = @ + 1] /\ live' = live
      /\ players' \in Moved(c)
  BY DEF movePlayer, Goto
<1>2. gpc' \in [Threads -> Phases] /\ count' \in [Threads -> Int]
  BY <1>1 DEF PlayersOK, PlayersInv, Phases
<1>3. \A u \in Threads : gpc[u] = "fill" => gpc'[u] = "fill" /\ count'[u] = count[u]
  BY <1>1 DEF PlayersOK, PlayersInv
<1>4. CASE players' = players
  BY <1>1, <1>2, <1>3, <1>4, PlayersKept DEF PlayersOK, PlayersInv
<1>5. ASSUME c \in DOMAIN players \ Phantoms, NEW p \in Positions,
             players' = [players EXCEPT ![c].pos = p]
      PROVE  PlayersOK'
  <2> DEFINE q == [players[c] EXCEPT !.pos = p]
  <2>1. players[c] \in [hp : Nat, pos : P]
    BY <1>5 DEF PlayersOK, PlayersInv
  <2>2. q \in [hp : Nat, pos : P] /\ q.hp = players[c].hp
    BY <2>1
  <2>3. players' = [players EXCEPT ![c] = q]
    BY <1>5
  <2> HIDE DEF q
  <2>4. PlayersInv'
    BY <1>1, <1>2, <2>2, <2>3 DEF PlayersOK, PlayersInv
  <2>5. ASSUME NEW i \in DOMAIN players', ~(players'[i].hp > 0), i \notin Phantoms'
        PROVE  \E u \in Threads : gpc'[u] = "fill" /\ count'[u] = i
    <3>1. i \in DOMAIN players /\ players'[i].hp = players[i].hp
      BY <2>2, <2>3, <2>5 DEF PlayersOK, PlayersInv
    <3>2. CASE i \in Phantoms
      <4>1. i = c
        BY <2>3, <2>5, <3>1, <3>2 DEF PlayersOK, PlayersInv, Phantoms
      <4>2. c \notin Phantoms
        BY <1>5
      <4> QED
        BY <3>2, <4>1, <4>2
    <3>3. CASE i \notin Phantoms
      BY <1>3, <2>5, <3>1, <3>3 DEF PlayersOK, PlayersAlive
    <3> QED
      BY <3>2, <3>3
  <2> QED
    BY <2>4, <2>5 DEF PlayersOK, PlayersAlive
<1>6. CASE c \notin DOMAIN players /\ players' = Insert(players, c, new)
  <2>1. PlayersInv'
    <3>1. new \in [hp : Nat, pos : P]
      OBVIOUS
    <3>2. players' \in [DOMAIN players' -> [hp : Nat, pos : P]]
      BY <1>6, <3>1 DEF PlayersOK, PlayersInv, Insert
    <3> QED
      BY <1>1, <1>2, <3>2 DEF PlayersOK, PlayersInv
  <2>2. ASSUME NEW i \in DOMAIN players'
        PROVE  \/ players'[i].hp > 0
               \/ i \in Phantoms'
               \/ \E u \in Threads : gpc'[u] = "fill" /\ count'[u] = i
    <3>1. CASE i \in DOMAIN players
      <4>1. players'[i] = players[i]
        BY <1>6, <3>1 DEF Insert
      <4>2. i \in Phantoms => i \in Phantoms'
        BY <2>2, <4>1 DEF Phantoms
      <4> QED
        BY <1>3, <3>1, <4>1, <4>2 DEF PlayersOK, PlayersAlive
    <3>2. CASE i \notin DOMAIN players
      <4>1. players'[i] = new
        BY <1>6, <2>2, <3>2 DEF Insert
      <4> QED
        BY <2>2, <4>1 DEF Phantoms
    <3> QED
      BY <3>1, <3>2
  <2> QED
    BY <2>1, <2>2 DEF PlayersOK, PlayersAlive
<1> QED
  <2>1. CASE c \in Phantoms
    BY <1>1, <1>4, <2>1 DEF Moved
  <2>2. CASE c \in DOMAIN players \ Phantoms
    BY <1>1, <1>5, <2>2 DEF Moved
  <2>3. CASE c \notin Phantoms /\ c \notin DOMAIN players
    BY <1>1, <1>6, <2>3 DEF Moved
  <2> QED
    BY <2>1, <2>2, <2>3

\* Whoever is not condemned after a round was not pushed in it.
LEMMA NotCondemned ==
    ASSUME NEW hits, NEW outside, NEW i \in DOMAIN players,
           <<"player", i>> \notin Condemned(dead (+) Pushes(hits, outside))
    PROVE  ~(PlayerPushes(players[i].hp, HitsOn(hits, <<"player", i>>, {"enemy"}),
                          HitsOn(hits, <<"player", i>>, {"boss"})) > 0)
<1> DEFINE x == <<"player", i>>
<1>1. x \in PlayerEntities
  BY DEF PlayerEntities
<1>2. ~BagIn(x, dead (+) Pushes(hits, outside))
  BY <1>1 DEF Condemned
<1>3. x \notin DOMAIN Pushes(hits, outside)
  BY <1>2, PushedIn
<1>4. x[1] = "player" /\ x[2] = i
  OBVIOUS
<1> HIDE DEF x
<1> QED
  BY <1>1, <1>3, <1>4 DEF Pushes, x

LEMMA CollideKeeps ==
    ASSUME PlayersOK, NEW t \in Threads, checkCollisions(t)
    PROVE  PlayersOK'
<1> DEFINE P == Positions \cup {NoPos}
<1>1. PICK hits \in SUBSET ((Bullets \cup PlayerEntities) \X Foes), outside \in SUBSET live :
         LET lists == dead (+) Pushes(hits, outside)
             gone == Condemned(lists)
             left == {i \in DOMAIN players : <<"player", i>> \notin gone}
             damage(i) ==
                 EnemyDamage * HitsOn(hits, <<"player", i>>, {"enemy"})
                 + BossDamage * HitsOn(hits, <<"player", i>>, {"boss"})
         IN  /\ players' = [i \in left |-> [players[i] EXCEPT !.hp = @ - damage(i)]]
             /\ live' = live \ gone
  BY DEF checkCollisions
<1> DEFINE gone == Condemned(dead (+) Pushes(hits, outside))
           left == {i \in DOMAIN players : <<"player", i>> \notin gone}
           ne(i) == HitsOn(hits, <<"player", i>>, {"enemy"})
           nb(i) == HitsOn(hits, <<"player", i>>, {"boss"})
           damage(i) == EnemyDamage * ne(i) + BossDamage * nb(i)
           after(i) == [players[i] EXCEPT !.hp = @ - damage(i)]
<1>2. players' = [i \in left |-> after(i)] /\ live' = live \ gone
  BY <1>1
<1>3. /\ gpc[t] = "collide" /\ gpc' = [gpc EXCEPT ![t] = "waves"] /\ count' = count
  BY DEF checkCollisions, Goto
<1>4. ASSUME NEW i \in left
      PROVE  /\ after(i) \in [hp : Nat, pos : P]
             /\ after(i).hp = players[i].hp \/ after(i).hp > 0
             /\ after(i).pos = players[i].pos
  <2>1. players[i] \in [hp : Nat, pos : P]
    BY DEF PlayersOK, PlayersInv
  <2>2. ne(i) \in Nat /\ nb(i) \in Nat
    <3>1. IsFiniteSet(live)
      BY DEF PlayersOK, PlayersInv
    <3> QED
      BY <3>1, HitsNat
  <2>3. ~(PlayerPushes(players[i].hp, ne(i), nb(i)) > 0)
    BY NotCondemned
  <2>4. players[i].hp \in Nat
    BY <2>1
  <2> DEFINE hp == players[i].hp
             d == EnemyDamage * ne(i) + BossDamage * nb(i)
  <2>5. hp - d \in Nat /\ (d = 0 \/ hp - d > 0)
    <3> HIDE DEF hp, ne, nb
    <3> QED
      BY <2>2, <2>3, <2>4, Unpushed DEF hp
  <2> HIDE DEF d
  <2>6. after(i) = [players[i] EXCEPT !.hp = @ - d]
    BY DEF d
  <2>7. after(i) \in [hp : Nat, pos : P] /\ after(i).hp = hp - d /\ after(i).pos = players[i].pos
    BY <2>1, <2>5, <2>6
  <2> HIDE DEF after
  <2>8. d \in Int
    BY <2>2, GameAssumption DEF GameAssumption, d
  <2> QED
    BY <2>4, <2>5, <2>7, <2>8
<1> HIDE DEF after, left, gone
<1>5. DOMAIN players' = left /\ \A i \in left : players'[i] = after(i)
  BY <1>2
<1>6. PlayersInv'
  <2>1. players' \in [DOMAIN players' -> [hp : Nat, pos : P]]
    BY <1>2, <1>4, <1>5
  <2>2. IsFiniteSet(live')
    <3>1. live' \in SUBSET live /\ IsFiniteSet(live)
      BY <1>2 DEF PlayersOK, PlayersInv
    <3> QED
      BY <3>1, FS_Subset
  <2>3. gpc' \in [Threads -> Phases] /\ count' \in [Threads -> Int]
    BY <1>3 DEF PlayersOK, PlayersInv, Phases
  <2> QED
    BY <2>1, <2>2, <2>3 DEF PlayersInv
<1>7. ASSUME NEW i \in DOMAIN players', ~(players'[i].hp > 0), i \notin Phantoms'
      PROVE  \E u \in Threads : gpc'[u] = "fill" /\ count'[u] = i
  <2>1. i \in left /\ players'[i] = after(i)
    BY <1>5, <1>7
  <2>2. players'[i].hp = players[i].hp /\ players'[i].pos = players[i].pos
    BY <1>4, <1>7, <2>1
  <2>3. i \in DOMAIN players /\ i \notin Phantoms
    BY <1>7, <2>1, <2>2 DEF left, Phantoms
  <2>4. PICK u \in Threads : gpc[u] = "fill" /\ count[u] = i
    BY <1>7, <2>2, <2>3 DEF PlayersOK, PlayersAlive
  <2>5. gpc'[u] = "fill"
    BY <1>3, <2>4 DEF PlayersOK, PlayersInv
  <2> QED
    BY <1>3, <2>4, <2>5
<1> QED
  BY <1>6, <1>7 DEF PlayersOK, PlayersAlive

LEMMA WaveKeeps ==
    ASSUME WaveInv, PlayersOK, NEW t \in Threads, waveSystem(t)
    PROVE  PlayersOK'
<1>1. /\ players' = players /\ count' = count
      /\ gpc[t] = "waves" /\ gpc' = [gpc EXCEPT ![t] = "ui"]
  BY DEF waveSystem, Goto
<1>2. IsFiniteSet(live)
  BY DEF PlayersOK, PlayersInv
<1>3. IsFiniteSet(live')
  <2>1. CASE live' = live
    BY <1>2, <2>1
  <2>2. CASE spawnBossWave
    <3>1. IsFiniteSet(NewEnemies(BossEscort))
      BY WaveFinite, GameAssumption DEF GameAssumption
    <3>2. IsFiniteSet(NewEnemies(BossEscort) \cup {<<"boss", bossId>>})
      BY <3>1, FS_AddElement
    <3>3. live' = live \cup (NewEnemies(BossEscort) \cup {<<"boss", bossId>>})
      BY <2>2 DEF spawnBossWave, Spawn
    <3> QED
      BY <1>2, <3>2, <3>3, FS_Union
  <2>3. CASE startNextWave
    <3>1. IsFiniteSet(NewEnemies(enemiesPerWave))
      BY WaveFinite DEF WaveInv
    <3>2. live' = live \cup NewEnemies(enemiesPerWave)
      BY <2>3 DEF startNextWave, Spawn
    <3> QED
      BY <1>2, <3>1, <3>2, FS_Union
  <2> QED
    BY <2>1, <2>2, <2>3 DEF waveSystem
<1>4. gpc' \in [Threads -> Phases]
  BY <1>1 DEF PlayersOK, PlayersInv, Phases
<1>5. \A u \in Threads : gpc[u] = "fill" => gpc'[u] = "fill" /\ count'[u] = count[u]
  BY <1>1 DEF PlayersOK, PlayersInv
<1> QED
  BY <1>1, <1>3, <1>4, <1>5, PlayersKept DEF PlayersOK, PlayersInv

\* The steps of a game thread that touch no player.
LEMMA ThreadKeeps ==
    ASSUME PlayersOK, NEW t \in Threads,
           \/ beginRound(t) \/ readPosition(t) \/ deletePlayerAction(t)
           \/ updateBullets(t) \/ updateEnemies(t) \/ checkCollisionsThrows(t)
    PROVE  PlayersOK'
<1>1. players' = players /\ live' = live /\ gpc[t] # "fill"
  BY DEF beginRound, readPosition, deletePlayerAction, updateBullets, updateEnemies,
         checkCollisionsThrows, entityVars
<1>2. count' = count \/ count' = [count EXCEPT ![t] = 1]
  BY DEF beginRound, readPosition, deletePlayerAction, updateBullets, updateEnemies,
         checkCollisionsThrows, threadVars
<1>3. \/ gpc' = gpc
      \/ \E l \in Phases : gpc' = [gpc EXCEPT ![t] = l]
  BY DEF beginRound, readPosition, deletePlayerAction, updateBullets, updateEnemies,
         checkCollisionsThrows, threadVars, Goto, Phases
<1>4. IsFiniteSet(live) /\ gpc \in [Threads -> Phases] /\ count \in [Threads -> Int]
  BY DEF PlayersOK, PlayersInv
<1>5. gpc' \in [Threads -> Phases] /\ count' \in [Threads -> Int]
  BY <1>2, <1>3, <1>4
<1>6. \A u \in Threads : gpc[u] = "fill" => gpc'[u] = "fill" /\ count'[u] = count[u]
  BY <1>1, <1>2, <1>3, <1>4
<1> QED
  BY <1>1, <1>4, <1>5, <1>6, PlayersKept

LEMMA HandlerKeeps ==
    ASSUME PlayersOK, HandlerThread
    PROVE  PlayersOK'
<1>1. IsFiniteSet(live) /\ gpc \in [Threads -> Phases] /\ count \in [Threads -> Int]
  BY DEF PlayersOK, PlayersInv
<1>2. ASSUME NEW n \in Sizes, handleGameStart(n)
      PROVE  PlayersOK'
  <2>1. PICK t \in Threads : gpc[t] = "none" /\ gpc' = [gpc EXCEPT ![t] = "spawn"]
    BY <1>2 DEF handleGameStart, Goto
  <2>2. players' = players /\ live' = live /\ count' = count
    BY <1>2 DEF handleGameStart, entityVars
  <2>3. gpc' \in [Threads -> Phases]
    BY <1>1, <2>1 DEF Phases
  <2>4. \A u \in Threads : gpc[u] = "fill" => gpc'[u] = "fill"
    BY <1>1, <2>1
  <2> QED
    BY <1>1, <2>2, <2>3, <2>4, PlayersKept
<1>3. CASE stop
  <2>1. players' = <<>> /\ live' = {} /\ gpc' = gpc /\ count' = count
    BY <1>3 DEF stop, threadVars
  <2>2. DOMAIN players' = {} /\ IsFiniteSet(live')
    BY <2>1, FS_EmptySet
  <2>3. players' \in [DOMAIN players' -> [hp : Nat, pos : Positions \cup {NoPos}]]
    BY <2>1, <2>2
  <2> QED
    BY <1>1, <2>1, <2>2, <2>3 DEF PlayersOK, PlayersInv, PlayersAlive
<1>4. ASSUME players' = players, gpc' = gpc, count' = count, IsFiniteSet(live')
      PROVE  PlayersOK'
  BY <1>1, <1>4, PlayersKept
<1>5. ASSUME NEW i \in ClientIds, addPlayerAction(i) \/ shoot(i)
      PROVE  PlayersOK'
  BY <1>1, <1>4, <1>5 DEF addPlayerAction, Appended, shoot, entityVars, threadVars
<1>6. CASE emplaceBullet
  <2>1. IsFiniteSet(live')
    BY <1>1, <1>6, FS_AddElement DEF emplaceBullet
  <2> QED
    BY <1>4, <1>6, <2>1 DEF emplaceBullet, threadVars
<1>7. CASE announceBullet
  BY <1>1, <1>4, <1>7 DEF announceBullet, entityVars, threadVars
<1> QED
  BY <1>2, <1>3, <1>5, <1>6, <1>7 DEF HandlerThread

LEMMA PlayersStep == WaveInv /\ PlayersOK /\ [GameNext]_gameVars => PlayersOK'
<1> SUFFICES ASSUME WaveInv, PlayersOK, [GameNext]_gameVars
             PROVE  PlayersOK'
  OBVIOUS
<1>1. ASSUME NEW t \in Threads, GameThread(t)
      PROVE  PlayersOK'
  BY <1>1, SpawnKeeps, FillKeeps, MoveKeeps, CollideKeeps, WaveKeeps, ThreadKeeps
     DEF GameThread
<1>2. CASE UNCHANGED gameVars
  BY <1>2, PlayersKept DEF gameVars, entityVars, threadVars, PlayersOK, PlayersInv
<1> QED
  BY <1>1, <1>2, HandlerKeeps DEF GameNext

(***************************************************************************)
(* Whoever is in the game is alive, for any damage, hit points, numbers of *)
(* players and threads: checkCollisions condemns everyone whose hp it      *)
(* takes away (Game.cpp:332-392,474-483, AGame.cpp:84-85), whatever the    *)
(* handler thread and other game threads do around it.                     *)
(***************************************************************************)
THEOREM GamePlayersAlive == GameSpec => []PlayersAlive
<1>1. PlayersOK => PlayersAlive
  BY DEF PlayersOK
<1>2. GameInit => WaveInv /\ WaveSchedule /\ PlayersOK
  BY WaveInit, PlayersInit
<1>3. /\ WaveInv /\ WaveSchedule /\ PlayersOK
      /\ [GameNext]_gameVars
      => (WaveInv /\ WaveSchedule /\ PlayersOK)'
  BY WaveStep, PlayersStep
<1> QED
  BY <1>1, <1>2, <1>3, PTL DEF GameSpec

--------------------------------------------------------------------------------
(* The types. *)

\* All foes that ever came, and all bullets ever fired.
Born ==    ({"enemy"} \X (0 .. enemyId - 1))
      \cup ({"boss"} \X (0 .. bossId - 1))
      \cup ({"bullet"} \X BulletIds)

\* What is in the dead lists was born, too.
EntityTypes ==
    /\ DOMAIN players \subseteq Nat /\ IsFiniteSet(DOMAIN players)
    /\ live \subseteq Born
    /\ IsABag(dead) /\ BagToSet(dead) \subseteq Born \cup ({"player"} \X Nat)
    /\ currentWave <= MaxWave

ThreadTypes ==
    /\ gpc \in [Threads -> Phases]
    /\ count \in [Threads -> Nat] /\ size \in [Threads -> Nat]
    /\ todo \in [Threads -> Seq(ClientIds)]
    /\ attached \in [Threads -> BOOLEAN]
    /\ \A t \in Threads : gpc[t] = "move" => todo[t] # <<>>

PlayerActions == [player : ClientIds, done : BOOLEAN]

HandlerTypes ==
    /\ actions \in Seq(PlayerActions)
    /\ nextBulletId \in Nat
    /\ running \in BOOLEAN
    /\ hpc \in {"idle", "found", "emplaced"}
    /\ hpc = "emplaced" => bullet = nextBulletId
    /\ status \in {"ok", "aborted", "undefined"}

TypeInv == WaveInv /\ PlayersInv /\ EntityTypes /\ ThreadTypes /\ HandlerTypes

--------------------------------------------------------------------------------
(* The data structures: the dead lists and the vector of actions. *)

\* The lists grow by what is pushed on them.
LEMMA BagAdds ==
    ASSUME NEW B1, IsABag(B1), NEW B2, IsABag(B2)
    PROVE  /\ IsABag(B1 (+) B2)
           /\ BagToSet(B1 (+) B2) = BagToSet(B1) \cup BagToSet(B2)
  BY DEF IsABag, BagToSet, (+)

\* Erasing removes entries and adds none.
LEMMA BagErases ==
    ASSUME NEW B, IsABag(B), NEW S
    PROVE  /\ IsABag(B (-) SetToBag(S))
           /\ BagToSet(B (-) SetToBag(S)) \subseteq BagToSet(B)
<1> DEFINE D == [e \in DOMAIN B |-> IF e \in S THEN B[e] - 1 ELSE B[e]]
<1>1. B (-) SetToBag(S) = [e \in {d \in DOMAIN D : D[d] > 0} |-> D[e]]
  BY DEF SetToBag, (-)
<1>2. \A e \in DOMAIN D : D[e] \in Int
  BY DEF IsABag
<1> HIDE DEF D
<1>3. B (-) SetToBag(S) \in [{d \in DOMAIN D : D[d] > 0} -> {n \in Nat : n > 0}]
  BY <1>1, <1>2
<1>4. DOMAIN D = DOMAIN B
  BY DEF D
<1> QED
  BY <1>1, <1>3, <1>4 DEF IsABag, BagToSet

LEMMA EmptyBagIsABag == IsABag(EmptyBag) /\ BagToSet(EmptyBag) = {}
  BY DEF IsABag, EmptyBag, SetToBag, BagToSet

\* What collisions and the edges of the screen push on the dead lists is finite
\* in number, and names entities that are there.
LEMMA PushesAreABag ==
    ASSUME TypeInv,
           NEW hits \in SUBSET ((Bullets \cup PlayerEntities) \X Foes), NEW outside
    PROVE  /\ IsABag(Pushes(hits, outside))
           /\ BagToSet(Pushes(hits, outside)) \subseteq live \cup PlayerEntities
<1> DEFINE times(x) ==
             IF x[1] = "player"
             THEN PlayerPushes(players[x[2]].hp, HitsOn(hits, x, {"enemy"}),
                               HitsOn(hits, x, {"boss"}))
             ELSE   Cardinality({h \in hits : h[1] = x \/ h[2] = x})
                  + (IF x \in outside THEN 1 ELSE 0)
           hit == {x \in live \cup PlayerEntities : times(x) > 0}
<1>0. PlayersInv /\ IsFiniteSet(DOMAIN players) /\ live \subseteq Born
  BY DEF TypeInv, EntityTypes
<1>1. Pushes(hits, outside) = [x \in hit |-> times(x)]
  BY DEF Pushes
<1>2. IsFiniteSet(hits)
  <2>1. IsFiniteSet(PlayerEntities)
    <3> DEFINE f == [i \in DOMAIN players |-> <<"player", i>>]
    <3>1. f \in Surjection(DOMAIN players, PlayerEntities)
      BY DEF Surjection, PlayerEntities
    <3> QED
      BY <1>0, <3>1, FS_Surjection
  <2>2. IsFiniteSet(Bullets) /\ IsFiniteSet(Foes)
    <3>1. Bullets \in SUBSET live /\ Foes \in SUBSET live
      BY DEF Bullets, Foes, Kind
    <3> QED
      BY <1>0, <3>1, FS_Subset DEF PlayersInv
  <2>3. IsFiniteSet((Bullets \cup PlayerEntities) \X Foes)
    BY <2>1, <2>2, FS_Union, FS_Product
  <2> QED
    BY <2>3, FS_Subset
<1>3. ASSUME NEW x \in live \cup PlayerEntities
      PROVE  times(x) \in Nat
  <2>1. CASE x[1] = "player" /\ x \in PlayerEntities
    <3>1. players[x[2]].hp \in Nat
      BY <1>0, <2>1 DEF PlayerEntities, PlayersInv
    <3>2. HitsOn(hits, x, {"enemy"}) \in Nat /\ HitsOn(hits, x, {"boss"}) \in Nat
      BY <1>0, HitsNat DEF PlayersInv
    <3> QED
      BY <2>1, <3>1, <3>2, PushesNat
  <2>2. CASE x[1] # "player"
    <3>1. {h \in hits : h[1] = x \/ h[2] = x} \in SUBSET hits
      OBVIOUS
    <3>2. Cardinality({h \in hits : h[1] = x \/ h[2] = x}) \in Nat
      BY <1>2, <3>1, FS_Subset, FS_CardinalityType
    <3> QED
      BY <2>2, <3>2
  <2>3. x[1] = "player" => x \in PlayerEntities
    BY <1>0 DEF Born
  <2> QED
    BY <2>1, <2>2, <2>3
<1> HIDE DEF times
<1> QED
  BY <1>1, <1>3 DEF IsABag, BagToSet

--------------------------------------------------------------------------------
(* deletePlayerAction. *)

\* The ranks of the actions that wait are the numbers from one to their count.
LEMMA Ranks ==
    ASSUME IsFiniteSet(Unprocessed), Unprocessed \in SUBSET Nat
    PROVE  [k \in Unprocessed |-> Rank(k)] \in
               Bijection(Unprocessed, 1 .. Cardinality(Unprocessed))
<1> DEFINE U == Unprocessed
           n == Cardinality(U)
           upto(k) == {j \in U : j <= k}
           rank == [k \in U |-> Rank(k)]
<1>1. n \in Nat /\ IsFiniteSet(1 .. n) /\ Cardinality(1 .. n) = n
  BY FS_CardinalityType, FS_Interval
<1>2. ASSUME NEW k \in U
      PROVE  IsFiniteSet(upto(k)) /\ Rank(k) \in 1 .. n
  <2>1. upto(k) \in SUBSET U /\ k \in upto(k)
    OBVIOUS
  <2>2. IsFiniteSet(upto(k)) /\ Cardinality(upto(k)) <= n /\ Cardinality(upto(k)) \in Nat
    BY <2>1, FS_Subset, FS_CardinalityType
  <2>3. Cardinality(upto(k)) # 0
    BY <2>1, <2>2, FS_EmptySet
  <2> QED
    BY <1>1, <2>2, <2>3 DEF Rank
<1>3. ASSUME NEW j \in U, NEW k \in U, j < k
      PROVE  Rank(j) # Rank(k)
  <2>0. /\ j \in Nat /\ k \in Nat
        /\ \A i \in U : i \in Nat
    OBVIOUS
  <2>1. upto(j) \in SUBSET upto(k) /\ k \in upto(k) /\ k \notin upto(j)
    <3>1. \A i \in U : i <= j => i <= k
      BY <1>3, <2>0
    <3>2. k <= k /\ ~(k <= j)
      BY <1>3, <2>0
    <3> QED
      BY <3>1, <3>2
  <2> QED
    BY <1>2, <2>1, FS_Subset DEF Rank
<1>4. rank \in Injection(U, 1 .. n)
  <2>1. rank \in [U -> 1 .. n]
    BY <1>2
  <2>2. \A j, k \in U : rank[j] = rank[k] => j = k
    <3> SUFFICES ASSUME NEW j \in U, NEW k \in U, Rank(j) = Rank(k) PROVE j = k
      OBVIOUS
    <3>1. ~(j < k) /\ ~(k < j)
      BY <1>3
    <3>2. j \in Nat /\ k \in Nat
      OBVIOUS
    <3> QED
      BY <3>1, <3>2
  <2> QED
    BY <2>1, <2>2 DEF Injection, IsInjective
<1>5. rank \in Surjection(U, 1 .. n)
  BY <1>1, <1>4, FS_Injection
<1> QED
  BY <1>4, <1>5 DEF Bijection


(***************************************************************************)
(* deletePlayerAction removes what is processed and nothing else, for a    *)
(* vector of any length: every action that waits is kept, and in its order *)
(* (AGame.cpp:52-57).                                                      *)
(***************************************************************************)
THEOREM CompactedKeeps ==
    ASSUME NEW S, actions \in Seq(S)
    PROVE  /\ Compacted \in Seq(S)
           /\ \A n \in DOMAIN Compacted : ~Compacted[n].done
           /\ \A k \in Unprocessed :
                  Rank(k) \in DOMAIN Compacted /\ Compacted[Rank(k)] = actions[k]
           /\ \A j, k \in Unprocessed : j < k => Rank(j) < Rank(k)
<1> DEFINE U == Unprocessed
           n == Cardinality(U)
           rank == [k \in U |-> Rank(k)]
           at(m) == CHOOSE k \in U : Rank(k) = m
<1>1. U \in SUBSET (1 .. Len(actions)) /\ \A k \in U : ~actions[k].done /\ actions[k] \in S
  BY DEF Unprocessed
<1>2. IsFiniteSet(U) /\ U \in SUBSET Nat /\ n \in Nat
  <2>1. Len(actions) \in Nat /\ IsFiniteSet(1 .. Len(actions))
    BY FS_Interval, LenProperties
  <2>2. IsFiniteSet(U)
    BY <1>1, <2>1, FS_Subset
  <2>3. U \in SUBSET Nat
    BY <1>1, <2>1
  <2> QED
    BY <2>2, <2>3, FS_CardinalityType
<1>3. rank \in Bijection(U, 1 .. n)
  BY <1>2, Ranks
<1>4. ASSUME NEW m \in 1 .. n
      PROVE  at(m) \in U /\ Rank(at(m)) = m
  <2>1. \E k \in U : Rank(k) = m
    BY <1>3 DEF Bijection, Surjection
  <2> QED
    BY <2>1
<1>5. Compacted = [m \in 1 .. n |-> actions[at(m)]]
  BY DEF Compacted, Nth
<1>6. ASSUME NEW k \in U
      PROVE  Rank(k) \in 1 .. n /\ at(Rank(k)) = k
  <2>1. Rank(k) \in 1 .. n /\ \A j \in U : Rank(j) = Rank(k) => j = k
    BY <1>3 DEF Bijection, Injection, IsInjective
  <2> QED
    BY <1>4, <2>1
<1> HIDE DEF U, n, at
<1>7. Compacted \in Seq(S)
  <2>1. \A m \in 1 .. n : actions[at(m)] \in S
    BY <1>1, <1>4
  <2> QED
    BY <1>2, <1>5, <2>1, IsASeq
<1>8. \A m \in DOMAIN Compacted : ~Compacted[m].done
  BY <1>1, <1>4, <1>5
<1>9. \A k \in U : Rank(k) \in DOMAIN Compacted /\ Compacted[Rank(k)] = actions[k]
  BY <1>5, <1>6
<1>10. ASSUME NEW j \in U, NEW k \in U, j < k
       PROVE  Rank(j) < Rank(k)
  <2>1. {i \in U : i <= j} \in SUBSET {i \in U : i <= k}
    <3>1. j \in Nat /\ k \in Nat /\ \A i \in U : i \in Nat
      BY <1>2
    <3>2. \A i \in U : i <= j => i <= k
      BY <1>10, <3>1
    <3> QED
      BY <3>2
  <2>2. {i \in U : i <= k} \in SUBSET U
    OBVIOUS
  <2>3. Rank(j) <= Rank(k)
    BY <1>2, <2>1, <2>2, FS_Subset DEF Rank, U
  <2>4. Rank(j) # Rank(k)
    BY <1>2, <1>6, <1>10
  <2> QED
    BY <1>2, <1>6, <2>3, <2>4
<1> QED
  BY <1>7, <1>8, <1>9, <1>10 DEF U

--------------------------------------------------------------------------------
(* The types are kept. *)

LEMMA TypesSuffice == TypeInv => GameTypeOK
<1> SUFFICES ASSUME TypeInv PROVE GameTypeOK
  OBVIOUS
<1> USE DEF TypeInv, EntityTypes, ThreadTypes, HandlerTypes
<1>1. \A i \in DOMAIN players : players[i].pos \in Positions \cup {NoPos}
  BY DEF PlayersInv
<1>2. \A k \in DOMAIN actions : actions[k] \in [player : ClientIds, done : BOOLEAN]
  <2>1. \A k \in 1 .. Len(actions) : actions[k] \in PlayerActions
    BY ElementOfSeq
  <2> QED
    BY <2>1, LenProperties DEF PlayerActions
<1>3. currentWave \in 0 .. MaxWave
  BY GameAssumption DEF GameAssumption, WaveInv
<1>4. \A t \in Threads : todo[t] \in Seq(ClientIds)
  OBVIOUS
<1> QED
  BY <1>1, <1>2, <1>3, <1>4 DEF GameTypeOK, Born

LEMMA TypesInit == GameInit => TypeInv
<1> SUFFICES ASSUME GameInit PROVE TypeInv
  OBVIOUS
<1>1. WaveInv /\ PlayersInv
  BY WaveInit, PlayersInit DEF PlayersOK
<1>2. EntityTypes
  <2>1. DOMAIN players = {}
    BY DEF GameInit
  <2> QED
    BY <2>1, EmptyBagIsABag, FS_EmptySet, GameAssumption DEF GameInit, EntityTypes, GameAssumption
<1>3. ThreadTypes
  BY EmptySeq DEF GameInit, ThreadTypes, Phases
<1>4. HandlerTypes
  BY EmptySeq DEF GameInit, HandlerTypes
<1> QED
  BY <1>1, <1>2, <1>3, <1>4 DEF TypeInv

\* A phase that a thread goes to is one.
LEMMA GotoTypes ==
    ASSUME ThreadTypes, NEW t \in Threads, NEW l \in Phases, Goto(t, l)
    PROVE  /\ gpc' \in [Threads -> Phases]
           /\ gpc'[t] = l
           /\ \A u \in Threads \ {t} : gpc'[u] = gpc[u]
  BY DEF Goto, ThreadTypes

LEMMA ThreadTypesStep ==
    ASSUME TypeInv, NEW t \in Threads, GameThread(t)
    PROVE  ThreadTypes'
<1> USE DEF Phases
<1>0. ThreadTypes /\ actions \in Seq(PlayerActions)
  BY DEF TypeInv, HandlerTypes
<1>1. ASSUME NEW l \in Phases, Goto(t, l), l # "move", UNCHANGED <<size, todo, attached>>,
             count' = count \/ count' = [count EXCEPT ![t] = @ + 1]
      PROVE  ThreadTypes'
  BY <1>0, <1>1, GotoTypes DEF ThreadTypes
<1>2. CASE fillPlayer(t)
  <2>1. CASE UNCHANGED threadVars
    BY <1>0, <2>1 DEF ThreadTypes, threadVars
  <2>2. CASE /\ Goto(t, "spawn")
             /\ count' = [count EXCEPT ![t] = @ + 1]
             /\ UNCHANGED <<size, todo, attached>>
    BY <1>1, <2>2
  <2> QED
    BY <1>2, <2>1, <2>2 DEF fillPlayer
<1>3. CASE beginRound(t)
  <2>1. [i \in DOMAIN actions |-> actions[i].player] \in Seq(ClientIds)
    <3>1. DOMAIN actions = 1 .. Len(actions) /\ Len(actions) \in Nat
      BY <1>0, LenProperties
    <3>2. \A i \in 1 .. Len(actions) : actions[i].player \in ClientIds
      <4>1. \A i \in 1 .. Len(actions) : actions[i] \in PlayerActions
        BY <1>0, ElementOfSeq
      <4> QED
        BY <4>1 DEF PlayerActions
    <3> QED
      BY <3>1, <3>2, IsASeq
  <2>2. Goto(t, "actions")
    BY <1>3 DEF beginRound
  <2> QED
    BY <1>0, <1>3, <2>1, <2>2, GotoTypes DEF beginRound, ThreadTypes
<1>4. CASE readPosition(t)
  <2>1. CASE Goto(t, "move")
    BY <1>0, <1>4, <2>1, GotoTypes DEF readPosition, ThreadTypes
  <2>2. CASE UNCHANGED gpc
    BY <1>0, <1>4, <2>2 DEF readPosition, ThreadTypes
  <2> QED
    BY <1>4, <2>1, <2>2 DEF readPosition
<1>5. CASE movePlayer(t)
  <2>1. Tail(todo[t]) \in Seq(ClientIds)
    BY <1>0, <1>5, HeadTailProperties DEF movePlayer, ThreadTypes
  <2>2. Goto(t, "actions")
    BY <1>5 DEF movePlayer
  <2> QED
    BY <1>0, <1>5, <2>1, <2>2, GotoTypes DEF movePlayer, ThreadTypes
<1>6. CASE deletePlayerAction(t)
  <2>1. Goto(t, "bullets")
    BY <1>6 DEF deletePlayerAction
  <2>2. attached' \in [Threads -> BOOLEAN]
    BY <1>0, <1>6 DEF deletePlayerAction, ThreadTypes
  <2> QED
    BY <1>0, <1>6, <2>1, <2>2, GotoTypes DEF deletePlayerAction, ThreadTypes
<1>7. CASE checkCollisionsThrows(t)
  BY <1>0, <1>7 DEF checkCollisionsThrows, threadVars, ThreadTypes
<1>8. CASE spawnPlayer(t)
  BY <1>1, <1>8 DEF spawnPlayer
<1>9. CASE updateBullets(t) \/ updateEnemies(t) \/ checkCollisions(t) \/ waveSystem(t)
  BY <1>1, <1>9 DEF updateBullets, updateEnemies, checkCollisions, waveSystem
<1> QED
  BY <1>2, <1>3, <1>4, <1>5, <1>6, <1>7, <1>8, <1>9 DEF GameThread

LEMMA HandlerThreadTypes ==
    ASSUME TypeInv, HandlerThread
    PROVE  ThreadTypes'
<1>0. ThreadTypes
  BY DEF TypeInv
<1>1. ASSUME NEW n \in Sizes, handleGameStart(n)
      PROVE  ThreadTypes'
  <2>1. PICK t \in Threads : Goto(t, "spawn") /\ size' = [size EXCEPT ![t] = n]
    BY <1>1 DEF handleGameStart
  <2>2. n \in Nat
    BY GameAssumption DEF GameAssumption
  <2> QED
    BY <1>0, <1>1, <2>1, <2>2, GotoTypes DEF handleGameStart, ThreadTypes, Phases
<1>2. ASSUME NEW i \in ClientIds, addPlayerAction(i)
      PROVE  ThreadTypes'
  <2>1. attached' \in [Threads -> BOOLEAN]
    BY <1>0, <1>2 DEF addPlayerAction, Appended, ThreadTypes
  <2> QED
    BY <1>0, <1>2, <2>1 DEF addPlayerAction, Appended, ThreadTypes
<1>3. CASE UNCHANGED threadVars
  BY <1>0, <1>3 DEF ThreadTypes, threadVars
<1> QED
  BY <1>1, <1>2, <1>3
     DEF HandlerThread, shoot, stop, emplaceBullet, announceBullet

\* What is inserted is one more.
LEMMA Inserted ==
    ASSUME NEW f, NEW k \in Nat, NEW v, DOMAIN f \subseteq Nat, IsFiniteSet(DOMAIN f)
    PROVE  /\ DOMAIN Insert(f, k, v) = DOMAIN f \cup {k}
           /\ DOMAIN Insert(f, k, v) \subseteq Nat
           /\ IsFiniteSet(DOMAIN Insert(f, k, v))
<1>1. DOMAIN Insert(f, k, v) = DOMAIN f \cup {k}
  BY DEF Insert
<1> QED
  BY <1>1, FS_AddElement

\* A move changes one player's position, or inserts a phantom.
LEMMA MovedDomain ==
    ASSUME NEW i, NEW ps \in Moved(i)
    PROVE  DOMAIN ps = DOMAIN players \cup {i}
<1>1. CASE i \in Phantoms
  BY <1>1 DEF Moved, Phantoms
<1>2. CASE i \in DOMAIN players \ Phantoms
  BY <1>2 DEF Moved
<1>3. CASE i \notin DOMAIN players
  BY <1>3 DEF Moved, Insert, Phantoms
<1> QED
  BY <1>1, <1>2, <1>3

\* What a round of collisions leaves behind.
Aftermath(hits, outside) ==
    LET lists == dead (+) Pushes(hits, outside)
        gone == Condemned(lists)
    IN  /\ DOMAIN players' = {i \in DOMAIN players : <<"player", i>> \notin gone}
        /\ \A i \in DOMAIN players' : players'[i].pos = players[i].pos
        /\ live' = live \ gone
        /\ dead' = lists (-) SetToBag(gone)
        /\ shown' = shown \ gone
        /\ seen' = Restrict(seen, {i \in DOMAIN seen : <<"player", i>> \notin gone})
        /\ IsABag(lists) /\ IsABag(dead') /\ BagToSet(dead') \subseteq BagToSet(lists)
        /\ BagToSet(lists) \subseteq BagToSet(dead) \cup live \cup PlayerEntities

LEMMA CollisionsLeave ==
    ASSUME TypeInv, NEW t \in Threads, checkCollisions(t)
    PROVE  \E hits, outside : Aftermath(hits, outside)
<1>1. PICK hits \in SUBSET ((Bullets \cup PlayerEntities) \X Foes), outside \in SUBSET live :
         LET lists == dead (+) Pushes(hits, outside)
             gone == Condemned(lists)
             left == {i \in DOMAIN players : <<"player", i>> \notin gone}
             damage(i) ==
                 EnemyDamage * HitsOn(hits, <<"player", i>>, {"enemy"})
                 + BossDamage * HitsOn(hits, <<"player", i>>, {"boss"})
         IN  /\ players' = [i \in left |-> [players[i] EXCEPT !.hp = @ - damage(i)]]
             /\ live' = live \ gone
             /\ dead' = lists (-) SetToBag(gone)
             /\ shown' = shown \ gone
             /\ seen' = Restrict(seen, {i \in DOMAIN seen : <<"player", i>> \notin gone})
  BY DEF checkCollisions
<1> DEFINE lists == dead (+) Pushes(hits, outside)
           gone == Condemned(lists)
           left == {i \in DOMAIN players : <<"player", i>> \notin gone}
           damage(i) ==
               EnemyDamage * HitsOn(hits, <<"player", i>>, {"enemy"})
               + BossDamage * HitsOn(hits, <<"player", i>>, {"boss"})
<1>2. /\ IsABag(Pushes(hits, outside))
      /\ BagToSet(Pushes(hits, outside)) \subseteq live \cup PlayerEntities
  BY PushesAreABag
<1>3. /\ IsABag(lists)
      /\ BagToSet(lists) \subseteq BagToSet(dead) \cup live \cup PlayerEntities
  BY <1>2, BagAdds DEF TypeInv, EntityTypes
<1>4. /\ players' = [i \in left |-> [players[i] EXCEPT !.hp = @ - damage(i)]]
      /\ live' = live \ gone /\ dead' = lists (-) SetToBag(gone) /\ shown' = shown \ gone
      /\ seen' = Restrict(seen, {i \in DOMAIN seen : <<"player", i>> \notin gone})
  BY <1>1
<1>5. IsABag(dead') /\ BagToSet(dead') \subseteq BagToSet(lists)
  <2> HIDE DEF lists, gone
  <2> QED
    BY <1>3, <1>4, BagErases
<1>6. DOMAIN players' = left /\ \A i \in left : players'[i].pos = players[i].pos
  <2>1. \A i \in left : players[i] \in [hp : Nat, pos : Positions \cup {NoPos}]
    BY DEF TypeInv, PlayersInv
  <2> HIDE DEF left, damage
  <2> QED
    BY <1>4, <2>1
<1> HIDE DEF lists, gone
<1>7. Aftermath(hits, outside)
  BY <1>3, <1>4, <1>5, <1>6 DEF Aftermath, lists, gone
<1> QED
  BY <1>7

\* A game thread that changes no entity keeps their types.
LEMMA EntitiesKept ==
    ASSUME TypeInv, UNCHANGED <<entityVars, waveVars>>, BulletIds \subseteq BulletIds'
    PROVE  EntityTypes'
<1>1. EntityTypes
  BY DEF TypeInv
<1>2. players' = players /\ live' = live /\ dead' = dead
      /\ currentWave' = currentWave /\ enemyId' = enemyId /\ bossId' = bossId
  BY DEF entityVars, waveVars
<1>3. Born \subseteq Born'
  BY <1>2 DEF Born
<1> QED
  BY <1>1, <1>2, <1>3 DEF EntityTypes

LEMMA EntityTypesStep ==
    ASSUME TypeInv, NEW t \in Threads, GameThread(t)
    PROVE  EntityTypes'
<1>0. EntityTypes /\ ThreadTypes /\ PlayersInv
  BY DEF TypeInv
<1>1. UNCHANGED BulletIds
  BY DEF GameThread, spawnPlayer, fillPlayer, beginRound, readPosition, movePlayer,
         deletePlayerAction, updateBullets, updateEnemies, checkCollisions,
         checkCollisionsThrows, waveSystem, handlerVars, BulletIds
<1>2. ASSUME UNCHANGED waveVars
      PROVE  Born' = Born /\ currentWave' = currentWave
  BY <1>1, <1>2 DEF Born, waveVars
<1>3. CASE spawnPlayer(t)
  <2>1. count[t] \in Nat
    BY <1>0 DEF ThreadTypes
  <2>2. /\ DOMAIN players' \subseteq Nat /\ IsFiniteSet(DOMAIN players')
        /\ live' = live /\ dead' = dead /\ UNCHANGED waveVars
    BY <1>0, <1>3, <2>1, Inserted DEF spawnPlayer, EntityTypes
  <2> QED
    BY <1>0, <1>2, <2>2 DEF EntityTypes
<1>4. CASE fillPlayer(t)
  <2>1. /\ DOMAIN players' = DOMAIN players
        /\ live' = live /\ dead' = dead /\ UNCHANGED waveVars
    BY <1>4 DEF fillPlayer
  <2> QED
    BY <1>0, <1>2, <2>1 DEF EntityTypes
<1>5. CASE movePlayer(t)
  <2>1. Head(todo[t]) \in Nat
    <3>1. todo[t] \in Seq(ClientIds) /\ todo[t] # <<>>
      BY <1>0, <1>5 DEF movePlayer, ThreadTypes
    <3> QED
      BY <3>1, HeadTailProperties, GameAssumption DEF GameAssumption
  <2>2. DOMAIN players' \subseteq Nat /\ IsFiniteSet(DOMAIN players')
    <3>1. players' \in Moved(Head(todo[t]))
      BY <1>5 DEF movePlayer
    <3>2. DOMAIN players' = DOMAIN players \cup {Head(todo[t])}
      BY <3>1, MovedDomain
    <3> QED
      BY <1>0, <2>1, <3>2, FS_AddElement DEF EntityTypes
  <2>3. live' = live /\ dead' = dead /\ UNCHANGED waveVars
    BY <1>5 DEF movePlayer
  <2> QED
    BY <1>0, <1>2, <2>2, <2>3 DEF EntityTypes
<1>6. CASE checkCollisions(t)
  <2>1. PICK hits, outside : Aftermath(hits, outside)
    BY <1>6, CollisionsLeave
  <2>2. /\ DOMAIN players' \in SUBSET DOMAIN players
        /\ live' \subseteq live
        /\ IsABag(dead')
        /\ BagToSet(dead') \subseteq BagToSet(dead) \cup live \cup PlayerEntities
    BY <2>1 DEF Aftermath
  <2>3. IsFiniteSet(DOMAIN players')
    BY <1>0, <2>2, FS_Subset DEF EntityTypes
  <2>4. PlayerEntities \subseteq {"player"} \X Nat
    BY <1>0 DEF PlayerEntities, EntityTypes
  <2>5. Born' = Born /\ currentWave' = currentWave
    BY <1>2, <1>6 DEF checkCollisions
  <2> QED
    BY <1>0, <2>2, <2>3, <2>4, <2>5 DEF EntityTypes
<1>7. CASE waveSystem(t)
  <2>0. enemyId \in Nat /\ bossId \in Nat /\ enemiesPerWave \in Nat
    BY DEF TypeInv, WaveInv
  <2>1. CASE UNCHANGED <<live, waveVars, status, shown>>
    <3>1. UNCHANGED <<players, live, dead>> /\ UNCHANGED waveVars
      BY <1>7, <2>1 DEF waveSystem
    <3> QED
      BY <1>0, <1>2, <3>1 DEF EntityTypes
  <2>2. CASE spawnBossWave /\ currentWave' <= MaxWave
    <3>1. /\ live' = live \cup NewEnemies(BossEscort) \cup {<<"boss", bossId>>}
          /\ enemyId' = enemyId + BossEscort /\ bossId' = bossId + 1
      BY <2>2 DEF spawnBossWave, Spawn
    <3>2. BossEscort \in Nat
      BY GameAssumption DEF GameAssumption
    <3>3. NewEnemies(BossEscort) \subseteq {"enemy"} \X (0 .. enemyId' - 1)
      BY <2>0, <3>1, <3>2 DEF NewEnemies
    <3>4. Born \subseteq Born'
      BY <1>1, <2>0, <3>1, <3>2 DEF Born
    <3>5. live' \subseteq Born'
      BY <1>0, <2>0, <3>1, <3>3, <3>4 DEF EntityTypes, Born
    <3>6. players' = players /\ dead' = dead
      BY <1>7 DEF waveSystem
    <3> QED
      BY <1>0, <2>2, <3>4, <3>5, <3>6 DEF EntityTypes
  <2>3. CASE startNextWave /\ currentWave' <= MaxWave
    <3>1. /\ live' = live \cup NewEnemies(enemiesPerWave)
          /\ enemyId' = enemyId + enemiesPerWave /\ bossId' = bossId
      BY <2>3 DEF startNextWave, Spawn
    <3>2. NewEnemies(enemiesPerWave) \subseteq {"enemy"} \X (0 .. enemyId' - 1)
      BY <2>0, <3>1 DEF NewEnemies
    <3>3. Born \subseteq Born'
      BY <1>1, <2>0, <3>1 DEF Born
    <3>4. live' \subseteq Born'
      BY <1>0, <3>1, <3>2, <3>3 DEF EntityTypes, Born
    <3>5. players' = players /\ dead' = dead
      BY <1>7 DEF waveSystem
    <3> QED
      BY <1>0, <2>3, <3>3, <3>4, <3>5 DEF EntityTypes
  <2> QED
    BY <1>7, <2>1, <2>2, <2>3 DEF waveSystem
<1>8. CASE UNCHANGED <<entityVars, waveVars>>
  BY <1>1, <1>8, EntitiesKept
<1> QED
  BY <1>3, <1>4, <1>5, <1>6, <1>7, <1>8
     DEF GameThread, beginRound, readPosition, deletePlayerAction, updateBullets,
         updateEnemies, checkCollisionsThrows

LEMMA HandlerEntityTypes ==
    ASSUME TypeInv, HandlerThread
    PROVE  EntityTypes'
<1>0. EntityTypes /\ HandlerTypes
  BY DEF TypeInv
<1>1. CASE stop
  <2>1. /\ DOMAIN players' = {} /\ live' = {} /\ dead' = EmptyBag
        /\ currentWave' = currentWave
    BY <1>1 DEF stop, waveVars
  <2> QED
    BY <1>0, <2>1, EmptyBagIsABag, FS_EmptySet DEF EntityTypes
<1>2. CASE emplaceBullet
  <2>1. /\ players' = players /\ live' = live \cup {<<"bullet", nextBulletId>>} /\ dead' = dead
        /\ UNCHANGED waveVars /\ nextBulletId' = nextBulletId
        /\ hpc = "found" /\ hpc' = "emplaced"
    BY <1>2 DEF emplaceBullet
  <2>2. BulletIds' = 0 .. nextBulletId /\ BulletIds = 0 .. nextBulletId - 1
    BY <2>1 DEF BulletIds
  <2>3. Born \subseteq Born' /\ <<"bullet", nextBulletId>> \in Born'
    BY <1>0, <2>1, <2>2 DEF Born, HandlerTypes, waveVars
  <2> QED
    BY <1>0, <2>1, <2>3 DEF EntityTypes, waveVars
<1>3. CASE announceBullet
  <2>1. /\ hpc = "emplaced" /\ hpc' = "idle" /\ nextBulletId' = nextBulletId + 1
        /\ UNCHANGED <<entityVars, waveVars>>
    BY <1>3 DEF announceBullet
  <2>2. BulletIds' = BulletIds
    BY <1>0, <2>1 DEF BulletIds, HandlerTypes
  <2> QED
    BY <2>1, <2>2, EntitiesKept
<1>4. ASSUME NEW i \in ClientIds, shoot(i)
      PROVE  EntityTypes'
  BY <1>4, EntitiesKept DEF shoot, BulletIds
<1>5. ASSUME NEW i \in ClientIds, addPlayerAction(i)
      PROVE  EntityTypes'
  BY <1>5, EntitiesKept DEF addPlayerAction, Appended, handlerVars, BulletIds
<1>6. ASSUME NEW n \in Sizes, handleGameStart(n)
      PROVE  EntityTypes'
  BY <1>6, EntitiesKept DEF handleGameStart, BulletIds
<1> QED
  BY <1>1, <1>2, <1>3, <1>4, <1>5, <1>6 DEF HandlerThread

LEMMA HandlerTypesStep ==
    ASSUME TypeInv, NEW t \in Threads, GameThread(t)
    PROVE  HandlerTypes'
<1>0. HandlerTypes /\ ThreadTypes
  BY DEF TypeInv
<1>1. UNCHANGED handlerVars
  BY DEF GameThread, spawnPlayer, fillPlayer, beginRound, readPosition, movePlayer,
         deletePlayerAction, updateBullets, updateEnemies, checkCollisions,
         checkCollisionsThrows, waveSystem
<1>2. status' \in {"ok", "aborted", "undefined"}
  BY <1>0 DEF GameThread, spawnPlayer, fillPlayer, beginRound, readPosition, movePlayer,
         deletePlayerAction, updateBullets, updateEnemies, checkCollisions,
         checkCollisionsThrows, waveSystem, MoveOutcomes, Outcomes, LockedOutcomes, Verdict,
         Abort, HandlerTypes
<1>3. actions' \in Seq(PlayerActions)
  <2>1. CASE movePlayer(t)
    <3>1. CASE actions' = actions
      BY <1>0, <3>1 DEF HandlerTypes
    <3>2. CASE actions' = [actions EXCEPT ![count[t]].done = TRUE]
      <4> DEFINE c == count[t]
                 a == [actions[c] EXCEPT !.done = TRUE]
      <4>1. CASE c \in 1 .. Len(actions)
        <5>1. actions[c] \in PlayerActions
          BY <1>0, <4>1, ElementOfSeq DEF HandlerTypes
        <5>2. a \in PlayerActions
          BY <5>1 DEF PlayerActions
        <5>3. actions' = [actions EXCEPT ![c] = a]
          BY <3>2
        <5> HIDE DEF a
        <5> QED
          BY <1>0, <4>1, <5>2, <5>3, ExceptSeq DEF HandlerTypes
      <4>2. CASE c \notin 1 .. Len(actions)
        <5>1. DOMAIN actions = 1 .. Len(actions)
          BY <1>0, LenProperties DEF HandlerTypes
        <5>2. actions' = actions
          BY <1>0, <3>2, <4>2, <5>1 DEF HandlerTypes
        <5> QED
          BY <1>0, <5>2 DEF HandlerTypes
      <4> QED
        BY <4>1, <4>2
    <3> QED
      BY <2>1, <3>1, <3>2 DEF movePlayer
  <2>2. CASE deletePlayerAction(t)
    BY <1>0, <2>2, CompactedKeeps DEF deletePlayerAction, HandlerTypes
  <2>3. CASE actions' = actions
    BY <1>0, <2>3 DEF HandlerTypes
  <2> QED
    BY <2>1, <2>2, <2>3
       DEF GameThread, spawnPlayer, fillPlayer, beginRound, readPosition, updateBullets,
           updateEnemies, checkCollisions, checkCollisionsThrows, waveSystem
<1> QED
  BY <1>0, <1>1, <1>2, <1>3 DEF HandlerTypes, handlerVars

LEMMA HandlerHandlerTypes ==
    ASSUME TypeInv, HandlerThread
    PROVE  HandlerTypes'
<1>0. HandlerTypes
  BY DEF TypeInv
<1>1. ASSUME NEW i \in ClientIds, addPlayerAction(i)
      PROVE  HandlerTypes'
  <2>1. Waiting(i) \in PlayerActions
    BY DEF Waiting, PlayerActions
  <2>2. actions' = Append(actions, Waiting(i))
    BY <1>1 DEF addPlayerAction, Appended
  <2>3. actions' \in Seq(PlayerActions)
    BY <1>0, <2>1, <2>2, AppendProperties DEF HandlerTypes
  <2> QED
    BY <1>0, <1>1, <2>3 DEF addPlayerAction, Appended, handlerVars, HandlerTypes
<1>2. ASSUME actions' = actions
      PROVE  actions' \in Seq(PlayerActions)
  BY <1>0, <1>2 DEF HandlerTypes
<1>3. ASSUME NEW i \in ClientIds, shoot(i)
      PROVE  HandlerTypes'
  BY <1>0, <1>2, <1>3 DEF shoot, Verdict, HandlerTypes
<1>4. ASSUME NEW n \in Sizes, handleGameStart(n)
      PROVE  HandlerTypes'
  BY <1>0, <1>2, <1>4 DEF handleGameStart, HandlerTypes
<1>5. CASE stop
  BY <1>0, <1>2, <1>5 DEF stop, LockedOutcomes, Verdict, HandlerTypes
<1>6. CASE emplaceBullet
  BY <1>0, <1>2, <1>6 DEF emplaceBullet, Outcomes, Verdict, HandlerTypes
<1>7. CASE announceBullet
  BY <1>0, <1>2, <1>7 DEF announceBullet, Verdict, HandlerTypes
<1> QED
  BY <1>1, <1>3, <1>4, <1>5, <1>6, <1>7 DEF HandlerThread

\* The types, with the schedule and the players' hp, on which they rest.
GameInv == TypeInv /\ WaveSchedule /\ PlayersAlive

LEMMA GameInvInit == GameInit => GameInv
  BY TypesInit, WaveInit, PlayersInit DEF GameInv, PlayersOK

LEMMA GameInvStep == GameInv /\ [GameNext]_gameVars => GameInv'
<1> SUFFICES ASSUME GameInv, [GameNext]_gameVars PROVE GameInv'
  OBVIOUS
<1>0. TypeInv /\ WaveInv /\ WaveSchedule /\ PlayersOK
  BY DEF GameInv, TypeInv, PlayersOK
<1>1. WaveInv' /\ WaveSchedule' /\ PlayersInv' /\ PlayersAlive'
  BY <1>0, WaveStep, PlayersStep DEF PlayersOK
<1>2. ASSUME NEW t \in Threads, GameThread(t)
      PROVE  EntityTypes' /\ ThreadTypes' /\ HandlerTypes'
  BY <1>0, <1>2, EntityTypesStep, ThreadTypesStep, HandlerTypesStep
<1>3. CASE HandlerThread
  BY <1>0, <1>1, <1>3, HandlerEntityTypes, HandlerThreadTypes, HandlerHandlerTypes
     DEF GameInv, TypeInv
<1>4. CASE UNCHANGED gameVars
  <2>1. ThreadTypes'
    BY <1>0, <1>4 DEF gameVars, threadVars, TypeInv, ThreadTypes
  <2>2. HandlerTypes'
    BY <1>0, <1>4 DEF gameVars, handlerVars, TypeInv, HandlerTypes
  <2>3. EntityTypes'
    BY <1>0, <1>4, EntitiesKept DEF gameVars, handlerVars, BulletIds
  <2> QED
    BY <1>1, <2>1, <2>2, <2>3 DEF GameInv, TypeInv
<1> QED
  BY <1>1, <1>2, <1>3, <1>4 DEF GameNext, GameInv, TypeInv

(***************************************************************************)
(* The types of the game, for any bounds, numbers of threads and hits:     *)
(* whatever two threads insert at a time, a foe or a bullet in the game    *)
(* has an id below the next one, so that no id is given out twice          *)
(* (Game.cpp:81-83,242, AGame.cpp:95-106).                                 *)
(***************************************************************************)
THEOREM GameTypes == GameSpec => []GameTypeOK
<1>1. GameInv => GameTypeOK
  BY TypesSuffice DEF GameInv
<1> QED
  BY <1>1, GameInvInit, GameInvStep, PTL DEF GameSpec

--------------------------------------------------------------------------------
(* The first game. *)

Begun == \E t \in Threads : gpc[t] # "none"

\* Before the first game there is nothing.
Fresh ==
    ~Begun => /\ ~running /\ hpc = "idle"
              /\ DOMAIN players = {} /\ live = {} /\ dead = EmptyBag
              /\ lastKnown = <<>>
              /\ count[1] = 0

Setup == gpc[1] \in {"none", "spawn", "fill"}

First == running /\ FirstGame

\* How a game thread moves on.
LEMMA ThreadMoves ==
    ASSUME TypeInv, NEW t \in Threads, GameThread(t)
    PROVE  /\ gpc[t] # "none" /\ gpc'[t] # "none"
           /\ gpc'[t] \in {"spawn", "fill"} => gpc[t] \in {"spawn", "fill"}
           /\ \A u \in Threads \ {t} : gpc'[u] = gpc[u]
<1>0. ThreadTypes
  BY DEF TypeInv
<1>1. \/ gpc' = gpc
      \/ \E l \in Phases \ {"none", "spawn", "fill"} : Goto(t, l)
      \/ gpc[t] = "spawn" /\ Goto(t, "fill")
      \/ gpc[t] = "fill" /\ Goto(t, "spawn")
  BY DEF GameThread, spawnPlayer, fillPlayer, beginRound, readPosition, movePlayer,
         deletePlayerAction, updateBullets, updateEnemies, checkCollisions,
         checkCollisionsThrows, waveSystem, threadVars, Phases
<1>2. gpc[t] # "none"
  BY DEF GameThread, spawnPlayer, fillPlayer, beginRound, readPosition, movePlayer,
         deletePlayerAction, updateBullets, updateEnemies, checkCollisions,
         checkCollisionsThrows, waveSystem
<1> QED
  BY <1>0, <1>1, <1>2, GotoTypes DEF Phases

\* The handler thread starts game threads and leaves those alone that run.
LEMMA HandlerMoves ==
    ASSUME TypeInv, HandlerThread
    PROVE  \A t \in Threads : gpc[t] # "none" => gpc'[t] = gpc[t]
<1>1. CASE \E n \in Sizes : handleGameStart(n)
  BY <1>1 DEF handleGameStart, Goto, TypeInv, ThreadTypes
<1>2. CASE ~\E n \in Sizes : handleGameStart(n)
  BY <1>2 DEF HandlerThread, stop, addPlayerAction, Appended, shoot, emplaceBullet,
              announceBullet, threadVars
<1> QED
  BY <1>1, <1>2

\* No thread is ever again what it was before it started.
LEMMA FirstGameStays ==
    ASSUME TypeInv, [GameNext]_gameVars
    PROVE  /\ \A t \in Threads : gpc[t] # "none" => gpc'[t] # "none"
           /\ FirstGame' => FirstGame
           /\ FirstGame' /\ gpc[1] # "none" /\ Setup' => Setup
<1>1. 1 \in Threads
  BY GameAssumption DEF GameAssumption, Threads
<1>2. ASSUME NEW t \in Threads, GameThread(t)
      PROVE  /\ \A u \in Threads : gpc[u] # "none" => gpc'[u] # "none"
             /\ Setup' => Setup
  BY <1>1, <1>2, ThreadMoves DEF Setup
<1>3. CASE HandlerThread
  BY <1>1, <1>3, HandlerMoves DEF Setup, FirstGame
<1>4. CASE UNCHANGED gameVars
  BY <1>4 DEF gameVars, threadVars, Setup, FirstGame
<1>5. \A t \in Threads : gpc[t] # "none" => gpc'[t] # "none"
  BY <1>2, <1>3, <1>4, HandlerMoves DEF GameNext, gameVars, threadVars
<1> QED
  BY <1>2, <1>3, <1>4, <1>5 DEF GameNext, FirstGame

\* In the first game there is one thread.
LEMMA FirstThread ==
    ASSUME TypeInv, FirstGame, NEW t \in Threads, GameThread(t)
    PROVE  t = 1
  BY ThreadMoves, GameAssumption DEF FirstGame, Threads, GameAssumption

LEMMA FreshStep ==
    ASSUME TypeInv, Fresh, [GameNext]_gameVars
    PROVE  /\ Fresh'
           /\ ~Begun => UNCHANGED gameVars \/ \E n \in Sizes : handleGameStart(n)
<1>1. ASSUME ~Begun
      PROVE  UNCHANGED gameVars \/ \E n \in Sizes : handleGameStart(n)
  <2>1. \A t \in Threads : ~GameThread(t)
    BY <1>1, ThreadMoves DEF Begun
  <2>2. /\ ~stop /\ ~emplaceBullet /\ ~announceBullet
        /\ \A i \in ClientIds : ~addPlayerAction(i) /\ ~shoot(i)
    BY <1>1 DEF Fresh, stop, emplaceBullet, announceBullet, addPlayerAction, Appended, shoot
  <2> QED
    BY <2>1, <2>2 DEF GameNext, HandlerThread
<1>2. ASSUME NEW n \in Sizes, handleGameStart(n)
      PROVE  Begun'
  BY <1>2, GotoTypes DEF handleGameStart, Begun, TypeInv, Phases
<1>3. Begun => Begun'
  BY FirstGameStays DEF Begun
<1>4. CASE UNCHANGED gameVars
  BY <1>4 DEF gameVars, entityVars, threadVars, handlerVars, Fresh, Begun
<1> QED
  BY <1>1, <1>2, <1>3, <1>4 DEF Fresh

LEMMA FreshInit == GameInit => Fresh
  BY GameAssumption DEF GameInit, Fresh, GameAssumption, Threads

\* A player is in the game after a move only if it was there before.
LEMMA MovedPlayers ==
    ASSUME NEW i, NEW ps \in Moved(i), NEW j \in DOMAIN ps, ps[j].pos # NoPos
    PROVE  j \in DOMAIN players \ Phantoms
<1>1. CASE i \in Phantoms
  BY <1>1 DEF Moved, Phantoms
<1>2. CASE i \in DOMAIN players \ Phantoms
  BY <1>2 DEF Moved, Phantoms
<1>3. CASE i \notin DOMAIN players
  BY <1>3 DEF Moved, Insert, Phantoms
<1> QED
  BY <1>1, <1>2, <1>3

--------------------------------------------------------------------------------
(* What stays in the dead lists. *)

\* Nothing has died before the first game's players are there.
StaleInv ==
    /\ StaleDeadHarmless
    /\ FirstGame /\ Setup => dead = EmptyBag

StaleOK == TypeInv /\ Fresh /\ StaleInv

LEMMA StaleThread ==
    ASSUME StaleOK, NEW t \in Threads, GameThread(t), TypeInv', FirstGame' => FirstGame,
           FirstGame' /\ Setup' => Setup
    PROVE  StaleInv'
<1>0. TypeInv /\ StaleInv /\ StaleDeadHarmless
  BY DEF StaleOK, StaleInv
<1>1. ASSUME live' = live, dead' = dead,
             FirstGame' => DOMAIN players' \ Phantoms' \subseteq DOMAIN players \ Phantoms
      PROVE  StaleInv'
  BY <1>0, <1>1 DEF StaleInv, StaleDeadHarmless
<1>2. CASE spawnPlayer(t)
  <2>1. live' = live /\ dead' = dead /\ gpc[t] = "spawn"
    BY <1>2 DEF spawnPlayer
  <2>2. FirstGame => dead = EmptyBag
    BY <1>0, <2>1, FirstThread DEF Setup, StaleInv
  <2>3. dead = EmptyBag => \A x : ~BagIn(x, dead)
    BY EmptyBagIsABag DEF BagIn
  <2> QED
    BY <1>0, <2>1, <2>2, <2>3 DEF StaleInv, StaleDeadHarmless
<1>3. CASE fillPlayer(t)
  <2>1. /\ live' = live /\ dead' = dead
        /\ DOMAIN players' = DOMAIN players
        /\ \A i \in DOMAIN players : players'[i].pos = players[i].pos
    <3>1. CASE players' = players
      BY <1>3, <3>1 DEF fillPlayer
    <3>2. CASE players' = [players EXCEPT ![count[t]].hp = @ + StartHp]
      <4>1. \A i \in DOMAIN players :
                players[i] \in [hp : Nat, pos : Positions \cup {NoPos}]
        BY <1>0 DEF TypeInv, PlayersInv
      <4> QED
        BY <1>3, <3>2, <4>1 DEF fillPlayer
    <3> QED
      BY <1>3, <3>1, <3>2 DEF fillPlayer
  <2> QED
    BY <1>1, <2>1 DEF Phantoms
<1>4. CASE movePlayer(t)
  <2>1. live' = live /\ dead' = dead /\ players' \in Moved(Head(todo[t]))
    BY <1>4 DEF movePlayer
  <2> QED
    BY <1>1, <2>1, MovedPlayers DEF Phantoms
<1>5. CASE checkCollisions(t)
  <2>1. PICK hits, outside : Aftermath(hits, outside)
    BY <1>0, <1>5, CollisionsLeave
  <2> DEFINE lists == dead (+) Pushes(hits, outside)
             gone == Condemned(lists)
  <2>2. /\ DOMAIN players' = {i \in DOMAIN players : <<"player", i>> \notin gone}
        /\ live' = live \ gone
        /\ BagToSet(dead') \subseteq BagToSet(lists)
    BY <2>1 DEF Aftermath
  <2>3. \A x \in live \cup PlayerEntities : x \notin gone => ~BagIn(x, dead')
    BY <2>2 DEF Condemned, BagIn
  <2>4. \A i \in DOMAIN players' : ~BagIn(<<"player", i>>, dead')
    BY <2>2, <2>3 DEF PlayerEntities
  <2>5. ~(FirstGame' /\ Setup')
    <3>1. gpc[t] = "collide"
      BY <1>5 DEF checkCollisions
    <3> QED
      BY <1>0, <3>1, FirstThread DEF Setup
  <2> QED
    BY <2>2, <2>3, <2>4, <2>5 DEF StaleInv, StaleDeadHarmless
<1>6. CASE waveSystem(t)
  <2>1. players' = players /\ dead' = dead
    BY <1>6 DEF waveSystem
  <2>2. ASSUME NEW x \in live' \ live
        PROVE  ~BagIn(x, dead)
    <3>1. enemyId \in Nat /\ bossId \in Nat /\ enemiesPerWave \in Nat /\ BossEscort \in Nat
      BY <1>0, GameAssumption DEF TypeInv, WaveInv, GameAssumption
    <3>2. \/ \E i \in Nat : x = <<"enemy", i>> /\ i >= enemyId
          \/ x = <<"boss", bossId>>
      BY <1>6, <2>2, <3>1 DEF waveSystem, spawnBossWave, startNextWave, Spawn, NewEnemies
    <3>3. x \notin Born \cup ({"player"} \X Nat)
      BY <3>1, <3>2 DEF Born
    <3> QED
      BY <1>0, <3>3 DEF TypeInv, EntityTypes, BagIn
  <2> QED
    BY <1>0, <2>1, <2>2 DEF StaleInv, StaleDeadHarmless, Phantoms
<1>7. CASE UNCHANGED entityVars
  BY <1>1, <1>7 DEF entityVars, Phantoms
<1> QED
  BY <1>2, <1>3, <1>4, <1>5, <1>6, <1>7
     DEF GameThread, beginRound, readPosition, deletePlayerAction, updateBullets,
         updateEnemies, checkCollisionsThrows

LEMMA StaleHandler ==
    ASSUME StaleOK, HandlerThread, FirstGame' => FirstGame
    PROVE  StaleInv'
<1>0. TypeInv /\ StaleInv /\ StaleDeadHarmless /\ Fresh
  BY DEF StaleOK, StaleInv
<1>1. ASSUME players' = players, live' = live, dead' = dead,
             FirstGame' /\ Setup' => Setup
      PROVE  StaleInv'
  BY <1>0, <1>1 DEF StaleInv, StaleDeadHarmless, Phantoms
<1>2. CASE stop
  <2>1. DOMAIN players' = {} /\ live' = {} /\ dead' = EmptyBag
    BY <1>2 DEF stop
  <2> QED
    BY <2>1 DEF StaleInv, StaleDeadHarmless
<1>3. CASE emplaceBullet
  <2>1. /\ live' = live \cup {<<"bullet", nextBulletId>>}
        /\ players' = players /\ dead' = dead /\ gpc' = gpc /\ hpc = "found"
    BY <1>3 DEF emplaceBullet, threadVars
  <2>2. <<"bullet", nextBulletId>> \notin Born \cup ({"player"} \X Nat)
    BY <1>0, <2>1 DEF Born, BulletIds, TypeInv, HandlerTypes
  <2>3. ~BagIn(<<"bullet", nextBulletId>>, dead)
    BY <1>0, <2>2 DEF TypeInv, EntityTypes, BagIn
  <2> QED
    BY <1>0, <2>1, <2>3 DEF StaleInv, StaleDeadHarmless, Phantoms, FirstGame, Setup
<1>4. ASSUME NEW n \in Sizes, handleGameStart(n)
      PROVE  StaleInv'
  <2>1. players' = players /\ live' = live /\ dead' = dead
    BY <1>4 DEF handleGameStart, entityVars
  <2>2. FirstGame' /\ Setup' => Setup
    <3>1. gpc[1] # "none" => gpc'[1] = gpc[1]
      BY <1>0, HandlerMoves, GameAssumption DEF Threads, GameAssumption
    <3> QED
      BY <3>1 DEF Setup
  <2> QED
    BY <1>1, <2>1, <2>2
<1>5. CASE UNCHANGED <<entityVars, gpc>>
  BY <1>1, <1>5 DEF entityVars, Setup
<1> QED
  BY <1>2, <1>3, <1>4, <1>5
     DEF HandlerThread, addPlayerAction, Appended, shoot, announceBullet, threadVars

\* All that the invariants of the first game rest on.
StaleGame == GameInv /\ Fresh /\ StaleInv

LEMMA StaleStep == StaleGame /\ [GameNext]_gameVars => StaleGame'
<1> SUFFICES ASSUME StaleGame, [GameNext]_gameVars PROVE StaleGame'
  OBVIOUS
<1>0. GameInv /\ TypeInv /\ Fresh /\ StaleInv /\ StaleOK
  BY DEF StaleGame, GameInv, StaleOK
<1>1. GameInv' /\ TypeInv'
  BY <1>0, GameInvStep DEF GameInv
<1>2. Fresh'
  BY <1>0, FreshStep
<1>3. (FirstGame' => FirstGame) /\ (FirstGame' /\ gpc[1] # "none" /\ Setup' => Setup)
  BY <1>0, FirstGameStays
<1>4. gpc[1] = "none" => Setup
  BY DEF Setup
<1>5. ASSUME UNCHANGED gameVars
      PROVE  StaleInv'
  BY <1>0, <1>5 DEF gameVars, entityVars, threadVars, StaleInv, StaleDeadHarmless,
                    FirstGame, Setup, Phantoms
<1> QED
  BY <1>0, <1>1, <1>2, <1>3, <1>4, <1>5, StaleThread, StaleHandler DEF GameNext, StaleGame

LEMMA StaleInit == GameInit => StaleGame
<1> SUFFICES ASSUME GameInit PROVE StaleGame
  OBVIOUS
<1>1. DOMAIN players = {} /\ live = {} /\ dead = EmptyBag
  BY DEF GameInit
<1> QED
  BY <1>1, GameInvInit, FreshInit DEF StaleGame, StaleInv, StaleDeadHarmless

(***************************************************************************)
(* What is left in the dead lists never names who is alive later, for any  *)
(* numbers of hits, threads and games: removeEntities may erase one entry  *)
(* of several (Game.cpp:332-392), because ids are never given out again.   *)
(***************************************************************************)
THEOREM GameStaleDeadHarmless == GameSpec => []StaleDeadHarmless
<1>1. StaleGame => StaleDeadHarmless
  BY DEF StaleGame, StaleInv
<1> QED
  BY <1>1, StaleInit, StaleStep, PTL DEF GameSpec

--------------------------------------------------------------------------------
(* What the clients have been shown. *)

\* The first game runs after a step only if it ran before or starts now.
LEMMA FirstStep ==
    ASSUME StaleGame, [GameNext]_gameVars, First'
    PROVE  First \/ (~Begun /\ \E n \in Sizes : handleGameStart(n))
<1>1. FirstGame
  BY FirstGameStays DEF StaleGame, GameInv, First
<1>2. running' = running \/ \E n \in Sizes : handleGameStart(n)
  BY DEF First, GameNext, gameVars, GameThread, spawnPlayer, fillPlayer, beginRound,
         readPosition, movePlayer, deletePlayerAction, updateBullets, updateEnemies,
         checkCollisions, checkCollisionsThrows, waveSystem, HandlerThread, stop,
         addPlayerAction, Appended, shoot, emplaceBullet, announceBullet, handlerVars
<1>3. ASSUME NEW n \in Sizes, handleGameStart(n)
      PROVE  ~Begun
  <2>1. PICK t \in Threads : /\ gpc[t] = "none" /\ gpc' = [gpc EXCEPT ![t] = "spawn"]
                             /\ \A u \in Threads : u < t => gpc[u] # "none"
    BY <1>3 DEF handleGameStart, Goto
  <2>2. gpc'[t] # "none"
    BY <2>1 DEF StaleGame, GameInv, TypeInv, ThreadTypes
  <2>3. t = 1
    BY <2>2 DEF First, FirstGame, Threads
  <2> QED
    BY <1>1, <2>1, <2>3 DEF FirstGame, Begun, Threads
<1> QED
  BY <1>1, <1>2, <1>3 DEF First

\* A step that brings in nothing the clients are not shown keeps them informed.
LEMMA AnnouncedKept ==
    ASSUME Announced, First' => First,
           Entities' \ shown' \subseteq Entities \ shown,
           hpc' = hpc, bullet' = bullet,
           \A t \in Threads : gpc[t] = "fill" => gpc'[t] = "fill" /\ count'[t] = count[t]
    PROVE  Announced'
  BY DEF Announced, First

LEMMA AnnouncedThread ==
    ASSUME StaleGame, Announced, NEW t \in Threads, GameThread(t), First' => First
    PROVE  Announced'
<1>0. /\ TypeInv /\ ThreadTypes
      /\ \A i \in DOMAIN players : players[i] \in [hp : Nat, pos : Positions \cup {NoPos}]
  BY DEF StaleGame, GameInv, TypeInv, PlayersInv
<1>1. hpc' = hpc /\ bullet' = bullet
  BY DEF GameThread, spawnPlayer, fillPlayer, beginRound, readPosition, movePlayer,
         deletePlayerAction, updateBullets, updateEnemies, checkCollisions,
         checkCollisionsThrows, waveSystem, handlerVars
<1>2. ASSUME gpc[t] # "fill",
             count' = count \/ \E c : count' = [count EXCEPT ![t] = c]
      PROVE  \A u \in Threads :
                 gpc[u] = "fill" => gpc'[u] = "fill" /\ count'[u] = count[u]
  BY <1>0, <1>2, ThreadMoves DEF ThreadTypes
<1>3. CASE spawnPlayer(t)
  <2>1. /\ gpc[t] = "spawn" /\ Goto(t, "fill") /\ count' = count
        /\ players' = Insert(players, count[t], [hp |-> 0, pos |-> StartPos])
        /\ live' = live /\ shown' = shown
    BY <1>3 DEF spawnPlayer, clientVars
  <2>2. gpc'[t] = "fill" /\ \A u \in Threads : gpc[u] = "fill" => gpc'[u] = "fill"
    BY <1>0, <2>1, GotoTypes DEF Phases
  <2>3. ASSUME NEW x \in Entities'
        PROVE  x \in Entities \/ x = <<"player", count[t]>>
    BY <2>1, <2>3 DEF Entities, Phantoms, Insert
  <2> QED
    BY <1>1, <2>1, <2>2, <2>3 DEF Announced, First
<1>4. CASE fillPlayer(t)
  <2>1. CASE UNCHANGED <<players, threadVars, clientVars>>
    <3>1. UNCHANGED <<players, live, shown, gpc, count>>
      BY <1>4, <2>1 DEF fillPlayer, threadVars, clientVars
    <3> QED
      BY <1>1, <3>1, AnnouncedKept DEF Entities, Phantoms
  <2>2. CASE /\ players' = [players EXCEPT ![count[t]].hp = @ + StartHp]
             /\ shown' = shown \cup {<<"player", count[t]>>}
             /\ count' = [count EXCEPT ![t] = @ + 1]
             /\ Goto(t, "spawn")
    <3>1. live' = live
      BY <1>4 DEF fillPlayer
    <3>2. DOMAIN players' \ Phantoms' = DOMAIN players \ Phantoms
      BY <1>0, <2>2 DEF Phantoms
    <3>3. Entities' = Entities
      BY <3>1, <3>2 DEF Entities
    <3>4. \A u \in Threads \ {t} : gpc'[u] = gpc[u] /\ count'[u] = count[u]
      BY <1>0, <2>2, GotoTypes DEF ThreadTypes, Phases
    <3> QED
      BY <1>1, <2>2, <3>3, <3>4 DEF Announced, First
  <2> QED
    BY <1>4, <2>1, <2>2 DEF fillPlayer
<1>5. CASE movePlayer(t)
  <2>1. /\ players' \in Moved(Head(todo[t])) /\ live' = live /\ shown' = shown
        /\ gpc[t] # "fill" /\ count' = [count EXCEPT ![t] = @ + 1]
    BY <1>5 DEF movePlayer
  <2>2. DOMAIN players' \ Phantoms' \subseteq DOMAIN players \ Phantoms
    BY <2>1, MovedPlayers DEF Phantoms
  <2>3. Entities' \ shown' \subseteq Entities \ shown
    BY <2>1, <2>2 DEF Entities
  <2> QED
    BY <1>1, <1>2, <2>1, <2>3, AnnouncedKept
<1>6. CASE checkCollisions(t)
  <2>1. PICK hits, outside : Aftermath(hits, outside)
    BY <1>0, <1>6, CollisionsLeave
  <2> DEFINE gone == Condemned(dead (+) Pushes(hits, outside))
  <2>2. /\ DOMAIN players' = {i \in DOMAIN players : <<"player", i>> \notin gone}
        /\ \A i \in DOMAIN players' : players'[i].pos = players[i].pos
        /\ live' = live \ gone /\ shown' = shown \ gone
    BY <2>1 DEF Aftermath
  <2> HIDE DEF gone
  <2>3. DOMAIN players' \ Phantoms' \subseteq
            {i \in DOMAIN players \ Phantoms : <<"player", i>> \notin gone}
    BY <2>2 DEF Phantoms
  <2>4. Entities' \subseteq Entities \ gone
    BY <2>2, <2>3 DEF Entities
  <2>5. Entities' \ shown' \subseteq Entities \ shown
    BY <2>2, <2>4
  <2>6. gpc[t] # "fill" /\ count' = count
    BY <1>6 DEF checkCollisions
  <2> QED
    BY <1>1, <1>2, <2>5, <2>6, AnnouncedKept
<1>7. CASE waveSystem(t)
  <2>1. /\ players' = players
        /\ \/ live' = live /\ shown' = shown
           \/ \E new : Spawn(new)
    BY <1>7 DEF waveSystem, spawnBossWave, startNextWave
  <2>2. Entities' \ shown' \subseteq Entities \ shown
    BY <2>1 DEF Entities, Phantoms, Spawn
  <2>3. gpc[t] # "fill" /\ count' = count
    BY <1>7 DEF waveSystem
  <2> QED
    BY <1>1, <1>2, <2>2, <2>3, AnnouncedKept
<1>8. CASE /\ UNCHANGED <<entityVars, clientVars>> /\ gpc[t] # "fill"
           /\ count' = count \/ \E c : count' = [count EXCEPT ![t] = c]
  BY <1>1, <1>2, <1>8, AnnouncedKept DEF entityVars, clientVars, Entities, Phantoms
<1> QED
  BY <1>3, <1>4, <1>5, <1>6, <1>7, <1>8
     DEF GameThread, beginRound, readPosition, deletePlayerAction, updateBullets,
         updateEnemies, checkCollisionsThrows, threadVars

LEMMA AnnouncedHandler ==
    ASSUME StaleGame, Announced, HandlerThread,
           First' => First \/ (~Begun /\ \E n \in Sizes : handleGameStart(n))
    PROVE  Announced'
<1>0. TypeInv /\ ThreadTypes /\ HandlerTypes /\ Fresh
  BY DEF StaleGame, GameInv, TypeInv
<1>1. CASE \E n \in Sizes : handleGameStart(n)
  <2>1. /\ \A t \in Threads : gpc[t] # "none" => gpc'[t] = gpc[t]
        /\ UNCHANGED <<players, live, shown, hpc, bullet, count, running>>
             \/ UNCHANGED <<players, live, shown, hpc, bullet, count>>
    BY <1>0, <1>1, HandlerMoves DEF handleGameStart, entityVars, clientVars
  <2>2. Entities' = Entities
    BY <2>1 DEF Entities, Phantoms
  <2>3. CASE ~Begun
    BY <1>0, <2>2, <2>3 DEF Announced, Fresh, Entities, Phantoms
  <2>4. CASE First' => First
    BY <2>1, <2>2, <2>4, AnnouncedKept
  <2> QED
    BY <2>3, <2>4
<1>2. CASE ~\E n \in Sizes : handleGameStart(n)
  <2>0. First' => First
    BY <1>2
  <2>1. CASE stop
    BY <2>1 DEF stop, Announced
  <2>2. CASE emplaceBullet
    <3>1. /\ live' = live \cup {<<"bullet", bullet'>>} /\ players' = players
          /\ hpc = "found" /\ hpc' = "emplaced"
          /\ shown' = shown /\ gpc' = gpc /\ count' = count
      BY <2>2 DEF emplaceBullet, threadVars, clientVars
    <3>2. Entities' = Entities \cup {<<"bullet", bullet'>>}
      BY <3>1 DEF Entities, Phantoms
    <3> QED
      BY <2>0, <3>1, <3>2 DEF Announced, First
  <2>3. CASE announceBullet
    <3>1. /\ UNCHANGED <<players, live, gpc, count>>
          /\ shown' = shown \cup {<<"bullet", bullet>>}
      BY <2>3 DEF announceBullet, entityVars, threadVars
    <3>2. Entities' = Entities
      BY <3>1 DEF Entities, Phantoms
    <3> QED
      BY <2>0, <3>1, <3>2 DEF Announced, First
  <2>4. ASSUME NEW i \in ClientIds, shoot(i)
        PROVE  Announced'
    <3>1. /\ UNCHANGED <<players, live, gpc, count, shown>>
          /\ hpc = "idle" /\ hpc' = "found"
      BY <2>4 DEF shoot, entityVars, threadVars, clientVars
    <3>2. Entities' = Entities
      BY <3>1 DEF Entities, Phantoms
    <3> QED
      BY <2>0, <3>1, <3>2 DEF Announced, First
  <2>5. ASSUME NEW i \in ClientIds, addPlayerAction(i)
        PROVE  Announced'
    <3>1. UNCHANGED <<players, live, gpc, count, shown, hpc, bullet>>
      BY <2>5 DEF addPlayerAction, Appended, entityVars, handlerVars, clientVars
    <3>2. Entities' = Entities
      BY <3>1 DEF Entities, Phantoms
    <3> QED
      BY <2>0, <3>1, <3>2, AnnouncedKept
  <2> QED
    BY <1>2, <2>1, <2>2, <2>3, <2>4, <2>5 DEF HandlerThread
<1> QED
  BY <1>1, <1>2

LEMMA AnnouncedStep == StaleGame /\ Announced /\ [GameNext]_gameVars => Announced'
<1> SUFFICES ASSUME StaleGame, Announced, [GameNext]_gameVars PROVE Announced'
  OBVIOUS
<1>1. First' => First \/ (~Begun /\ \E n \in Sizes : handleGameStart(n))
  BY FirstStep
<1>2. ASSUME NEW t \in Threads, GameThread(t)
      PROVE  Announced'
  <2>1. Begun
    BY <1>2, ThreadMoves DEF Begun, StaleGame, GameInv
  <2> QED
    BY <1>1, <1>2, <2>1, AnnouncedThread
<1>3. CASE HandlerThread
  BY <1>1, <1>3, AnnouncedHandler
<1>4. CASE UNCHANGED gameVars
  BY <1>4 DEF gameVars, entityVars, threadVars, handlerVars, clientVars, Announced,
              FirstGame, Entities, Phantoms
<1> QED
  BY <1>2, <1>3, <1>4 DEF GameNext

(***************************************************************************)
(* In the first game the clients have been shown what there is and not     *)
(* been told that it is gone, for any numbers of players, foes, bullets    *)
(* and hits: whatever the two threads do between an insertion and its      *)
(* broadcast (AGame.cpp:83-106), removeEntities names what it erases and   *)
(* nothing else (Game.cpp:332-392).                                        *)
(***************************************************************************)
THEOREM GameAnnounced == GameSpec => []Announced
<1>1. GameInit => Announced
  BY DEF GameInit, Announced
<1> QED
  BY <1>1, StaleInit, StaleStep, AnnouncedStep, PTL DEF GameSpec

--------------------------------------------------------------------------------
(* The pass over the actions. *)

\* A thread that is not in its pass, or whose pass has been cut off, has nothing
\* to keep in step with.
AlignedAt(t) ==
    InPass(t) /\ attached[t] =>
        /\ count[t] >= 1
        /\ count[t] + Len(todo[t]) <= Len(actions) + 1
        /\ \A k \in 1 .. count[t] - 1 : actions[k].done
        /\ \A k \in 1 .. Len(todo[t]) : actions[count[t] + k - 1].player = todo[t][k]

AlignedInv == \A t \in Threads : AlignedAt(t)

AlignedOK == TypeInv /\ AlignedInv

\* The vector may grow at its end, and what it holds may be marked.
LEMMA AlignedGrows ==
    ASSUME TypeInv, NEW t \in Threads, AlignedAt(t),
           actions' \in Seq(PlayerActions), Len(actions') >= Len(actions),
           \A k \in 1 .. Len(actions) :
               /\ actions'[k].player = actions[k].player
               /\ actions[k].done => actions'[k].done,
           InPass(t)' => InPass(t), attached'[t] => attached[t],
           todo'[t] = todo[t], count'[t] = count[t]
    PROVE  AlignedAt(t)'
<1>0. /\ count[t] \in Nat /\ todo[t] \in Seq(ClientIds)
      /\ Len(actions) \in Nat /\ Len(actions') \in Nat /\ Len(todo[t]) \in Nat
  BY LenProperties DEF TypeInv, ThreadTypes, HandlerTypes
<1> SUFFICES ASSUME InPass(t)', attached'[t]
             PROVE  /\ count[t] >= 1
                    /\ count[t] + Len(todo[t]) <= Len(actions') + 1
                    /\ \A k \in 1 .. count[t] - 1 : actions'[k].done
                    /\ \A k \in 1 .. Len(todo[t]) :
                           actions'[count[t] + k - 1].player = todo[t][k]
  BY DEF AlignedAt
<1>1. /\ count[t] >= 1
      /\ count[t] + Len(todo[t]) <= Len(actions) + 1
      /\ \A k \in 1 .. count[t] - 1 : actions[k].done
      /\ \A k \in 1 .. Len(todo[t]) : actions[count[t] + k - 1].player = todo[t][k]
  BY DEF AlignedAt
<1>2. /\ \A k \in 1 .. count[t] - 1 : k \in 1 .. Len(actions)
      /\ \A k \in 1 .. Len(todo[t]) : count[t] + k - 1 \in 1 .. Len(actions)
  BY <1>0, <1>1
<1>3. \A k \in 1 .. count[t] - 1 : actions'[k].done
  BY <1>1, <1>2
<1>4. ASSUME NEW k \in 1 .. Len(todo[t])
      PROVE  actions'[count[t] + k - 1].player = todo[t][k]
  <2>1. actions[count[t] + k - 1].player = todo[t][k]
    BY <1>1
  <2>2. count[t] + k - 1 \in 1 .. Len(actions)
    BY <1>2
  <2> QED
    BY <2>1, <2>2
<1>5. count[t] + Len(todo[t]) <= Len(actions') + 1
  BY <1>0, <1>1
<1> QED
  BY <1>1, <1>3, <1>4, <1>5

LEMMA AlignedMove ==
    ASSUME AlignedOK, NEW t \in Threads, movePlayer(t), TypeInv'
    PROVE  AlignedInv'
<1> DEFINE c == count[t]
<1>0. /\ TypeInv /\ AlignedInv /\ ThreadTypes /\ HandlerTypes
      /\ actions' \in Seq(PlayerActions)
  BY DEF AlignedOK, TypeInv, HandlerTypes
<1>1. /\ gpc[t] = "move" /\ Goto(t, "actions") /\ todo[t] # <<>>
      /\ todo' = [todo EXCEPT ![t] = Tail(@)]
      /\ count' = [count EXCEPT ![t] = @ + 1]
      /\ actions' = IF attached[t] THEN [actions EXCEPT ![c].done = TRUE] ELSE actions
      /\ attached' = attached
  BY <1>0 DEF movePlayer, ThreadTypes
<1>2. c \in Nat /\ todo[t] \in Seq(ClientIds) /\ Len(actions) \in Nat
  BY <1>0, LenProperties DEF ThreadTypes, HandlerTypes
<1>3. /\ Len(actions') = Len(actions)
      /\ \A k \in 1 .. Len(actions) :
             /\ actions'[k].player = actions[k].player
             /\ actions[k].done => actions'[k].done
             /\ attached[t] /\ k = c => actions'[k].done
  <2>1. \A k \in 1 .. Len(actions) : actions[k] \in PlayerActions
    BY <1>0, ElementOfSeq DEF HandlerTypes
  <2>2. DOMAIN actions = 1 .. Len(actions) /\ DOMAIN actions' = 1 .. Len(actions')
        /\ Len(actions') \in Nat
    BY <1>0, LenProperties DEF HandlerTypes
  <2>3. DOMAIN actions' = DOMAIN actions
    BY <1>1
  <2>4. Len(actions') = Len(actions)
    <3> DEFINE m == Len(actions)
               n == Len(actions')
    <3>1. m \in Nat /\ n \in Nat /\ 1 .. m = 1 .. n
      BY <1>2, <2>2, <2>3
    <3> HIDE DEF m, n
    <3>2. ~(m < n) /\ ~(n < m)
      <4>1. m < n => n \in 1 .. n /\ n \notin 1 .. m
        BY <3>1
      <4>2. n < m => m \in 1 .. m /\ m \notin 1 .. n
        BY <3>1
      <4> QED
        BY <3>1, <4>1, <4>2
    <3>3. m = n
      BY <3>1, <3>2
    <3> QED
      BY <3>3 DEF m, n
  <2>5. \A k \in 1 .. Len(actions) :
            actions'[k] = IF attached[t] /\ k = c THEN [actions[k] EXCEPT !.done = TRUE]
                                                  ELSE actions[k]
    BY <1>1, <2>2
  <2> QED
    BY <2>1, <2>4, <2>5 DEF PlayerActions
<1>4. ASSUME NEW u \in Threads \ {t}
      PROVE  AlignedAt(u)'
  <2>1. gpc'[u] = gpc[u] /\ todo'[u] = todo[u] /\ count'[u] = count[u]
    BY <1>0, <1>1, GotoTypes DEF ThreadTypes, Phases
  <2>2. AlignedAt(u)
    BY <1>0 DEF AlignedInv
  <2>3. InPass(u)' => InPass(u)
    BY <2>1 DEF InPass
  <2>4. Len(actions') >= Len(actions)
    BY <1>2, <1>3
  <2> QED
    BY <1>0, <1>1, <1>3, <2>1, <2>2, <2>3, <2>4, AlignedGrows
<1>5. AlignedAt(t)'
  <2> SUFFICES ASSUME attached[t]
               PROVE  /\ count'[t] >= 1
                      /\ count'[t] + Len(todo'[t]) <= Len(actions') + 1
                      /\ \A k \in 1 .. count'[t] - 1 : actions'[k].done
                      /\ \A k \in 1 .. Len(todo'[t]) :
                             actions'[count'[t] + k - 1].player = todo'[t][k]
    BY <1>1 DEF AlignedAt
  <2>1. /\ c >= 1
        /\ c + Len(todo[t]) <= Len(actions) + 1
        /\ \A k \in 1 .. c - 1 : actions[k].done
        /\ \A k \in 1 .. Len(todo[t]) : actions[c + k - 1].player = todo[t][k]
    BY <1>0, <1>1 DEF AlignedInv, AlignedAt, InPass
  <2>2. /\ Len(todo[t]) \in Nat \ {0} /\ Len(Tail(todo[t])) = Len(todo[t]) - 1
        /\ \A k \in 1 .. Len(todo[t]) - 1 : Tail(todo[t])[k] = todo[t][k + 1]
    BY <1>1, <1>2, HeadTailProperties, EmptySeq
  <2>3. count'[t] = c + 1 /\ todo'[t] = Tail(todo[t])
    BY <1>0, <1>1 DEF ThreadTypes
  <2>4. \A k \in 1 .. c : actions'[k].done
    BY <1>2, <1>3, <2>1, <2>2
  <2>5. \A k \in 1 .. Len(todo[t]) - 1 :
            actions'[(c + 1) + k - 1].player = Tail(todo[t])[k]
    <3> SUFFICES ASSUME NEW k \in 1 .. Len(todo[t]) - 1
                 PROVE  actions'[c + k].player = todo[t][k + 1]
      BY <1>2, <2>2
    <3>1. k + 1 \in 1 .. Len(todo[t]) /\ c + (k + 1) - 1 = c + k
          /\ c + k \in 1 .. Len(actions)
      BY <1>2, <2>1, <2>2
    <3>2. actions[c + k].player = todo[t][k + 1]
      BY <2>1, <3>1
    <3> QED
      BY <1>3, <3>1, <3>2
  <2> QED
    BY <1>2, <1>3, <2>1, <2>2, <2>3, <2>4, <2>5
<1> QED
  BY <1>4, <1>5 DEF AlignedInv

\* A pass begins with the whole vector before it.
LEMMA AlignedBegin ==
    ASSUME AlignedOK, NEW t \in Threads, beginRound(t)
    PROVE  AlignedInv'
<1>0. TypeInv /\ AlignedInv /\ ThreadTypes /\ HandlerTypes
  BY DEF AlignedOK, TypeInv
<1>1. /\ Goto(t, "actions") /\ actions' = actions
      /\ count' = [count EXCEPT ![t] = 1]
      /\ todo' = [todo EXCEPT ![t] = [i \in DOMAIN actions |-> actions[i].player]]
      /\ attached' = [attached EXCEPT ![t] = TRUE]
  BY DEF beginRound
<1>2. DOMAIN actions = 1 .. Len(actions) /\ Len(actions) \in Nat
  BY <1>0, LenProperties DEF HandlerTypes
<1>3. /\ count'[t] = 1
      /\ todo'[t] = [i \in 1 .. Len(actions) |-> actions[i].player]
  BY <1>0, <1>1, <1>2 DEF ThreadTypes
<1>4. AlignedAt(t)'
  <2>1. Len(todo'[t]) = Len(actions)
    BY <1>2, <1>3
  <2>2. \A k \in 1 .. Len(actions) : actions[1 + k - 1].player = todo'[t][k]
    <3> SUFFICES ASSUME NEW k \in 1 .. Len(actions)
                 PROVE  actions[1 + k - 1].player = todo'[t][k]
      OBVIOUS
    <3>1. 1 + k - 1 = k
      OBVIOUS
    <3> QED
      BY <1>3, <3>1
  <2> QED
    BY <1>1, <1>2, <1>3, <2>1, <2>2 DEF AlignedAt
<1>5. ASSUME NEW u \in Threads \ {t}
      PROVE  AlignedAt(u)'
  <2>1. /\ gpc'[u] = gpc[u] /\ count'[u] = count[u] /\ todo'[u] = todo[u]
        /\ attached'[u] = attached[u]
    BY <1>0, <1>1, GotoTypes DEF ThreadTypes, Phases
  <2> QED
    BY <1>0, <1>1, <2>1 DEF AlignedInv, AlignedAt, InPass
<1> QED
  BY <1>4, <1>5 DEF AlignedInv

\* Who erases cuts off the passes of all others.
LEMMA AlignedDelete ==
    ASSUME AlignedOK, NEW t \in Threads, deletePlayerAction(t)
    PROVE  AlignedInv'
<1>0. TypeInv /\ AlignedInv /\ ThreadTypes
  BY DEF AlignedOK, TypeInv
<1>1. /\ Goto(t, "bullets") /\ count' = count /\ todo' = todo
      /\ attached' = [u \in Threads |->
              attached[u] /\ u \notin {v \in Threads \ {t} : actions' # actions /\ InPass(v)}]
  BY DEF deletePlayerAction
<1>2. gpc'[t] = "bullets" /\ \A u \in Threads \ {t} : gpc'[u] = gpc[u]
  BY <1>0, <1>1, GotoTypes DEF Phases
<1>3. AlignedAt(t)'
  BY <1>2 DEF AlignedAt, InPass
<1>4. ASSUME NEW u \in Threads \ {t}
      PROVE  AlignedAt(u)'
  <2>1. CASE actions' = actions
    BY <1>0, <1>1, <1>2, <2>1 DEF AlignedInv, AlignedAt, InPass
  <2>2. CASE actions' # actions
    BY <1>1, <1>2, <2>2 DEF AlignedAt, InPass
  <2> QED
    BY <2>1, <2>2
<1> QED
  BY <1>3, <1>4 DEF AlignedInv

LEMMA AlignedAppend ==
    ASSUME AlignedOK, NEW i \in ClientIds, addPlayerAction(i), TypeInv'
    PROVE  AlignedInv'
<1>0. TypeInv /\ AlignedInv /\ actions \in Seq(PlayerActions)
      /\ actions' \in Seq(PlayerActions) /\ attached \in [Threads -> BOOLEAN]
  BY DEF AlignedOK, TypeInv, HandlerTypes, ThreadTypes
<1>1. /\ actions' = Append(actions, Waiting(i)) /\ UNCHANGED <<gpc, count, todo>>
      /\ \A t \in Threads : attached'[t] => attached[t]
  BY <1>0 DEF addPlayerAction, Appended
<1>2. Waiting(i) \in PlayerActions
  BY DEF Waiting, PlayerActions
<1>3. /\ Len(actions') = Len(actions) + 1 /\ Len(actions) \in Nat
      /\ \A k \in 1 .. Len(actions) : actions'[k] = actions[k]
  BY <1>0, <1>1, <1>2, AppendProperties, LenProperties
<1>4. ASSUME NEW t \in Threads
      PROVE  AlignedAt(t)'
  <2>1. AlignedAt(t)
    BY <1>0 DEF AlignedInv
  <2> QED
    BY <1>0, <1>1, <1>3, <2>1, AlignedGrows DEF InPass
<1> QED
  BY <1>4 DEF AlignedInv

LEMMA AlignedStep == AlignedOK /\ TypeInv' /\ [GameNext]_gameVars => AlignedInv'
<1> SUFFICES ASSUME AlignedOK, TypeInv', [GameNext]_gameVars PROVE AlignedInv'
  OBVIOUS
<1>0. TypeInv /\ AlignedInv /\ ThreadTypes
  BY DEF AlignedOK, TypeInv
<1>1. ASSUME UNCHANGED <<actions, todo, attached>>,
             \A t \in Threads :
                 InPass(t)' => InPass(t) /\ count'[t] = count[t]
      PROVE  AlignedInv'
  BY <1>0, <1>1 DEF AlignedInv, AlignedAt
<1>2. ASSUME NEW t \in Threads, GameThread(t),
             ~beginRound(t), ~movePlayer(t), ~deletePlayerAction(t)
      PROVE  AlignedInv'
  <2>1. UNCHANGED <<actions, todo, attached>>
    BY <1>2 DEF GameThread, spawnPlayer, fillPlayer, readPosition, updateBullets,
                updateEnemies, checkCollisions, checkCollisionsThrows, waveSystem, threadVars
  <2>2. \/ InPass(t)' => InPass(t) /\ count' = count
        \/ ~InPass(t)'
    <3>1. CASE readPosition(t)
      BY <3>1 DEF readPosition, InPass
    <3>2. CASE spawnPlayer(t) \/ checkCollisions(t) \/ waveSystem(t)
               \/ updateBullets(t) \/ updateEnemies(t)
      BY <1>0, <3>2, GotoTypes
         DEF spawnPlayer, checkCollisions, waveSystem, updateBullets, updateEnemies,
             InPass, Phases
    <3>3. CASE fillPlayer(t) \/ checkCollisionsThrows(t)
      BY <1>0, <3>3, GotoTypes DEF fillPlayer, checkCollisionsThrows, threadVars, InPass, Phases
    <3> QED
      BY <1>2, <3>1, <3>2, <3>3 DEF GameThread
  <2>3. ASSUME NEW u \in Threads \ {t}
        PROVE  gpc'[u] = gpc[u] /\ count'[u] = count[u]
    <3>1. gpc'[u] = gpc[u]
      BY <1>0, <1>2, ThreadMoves
    <3>2. count' = count \/ count' = [count EXCEPT ![t] = @ + 1]
      BY <1>2 DEF GameThread, spawnPlayer, fillPlayer, readPosition, updateBullets,
                  updateEnemies, checkCollisions, checkCollisionsThrows, waveSystem,
                  threadVars
    <3> QED
      BY <1>0, <3>1, <3>2 DEF ThreadTypes
  <2> QED
    BY <1>1, <2>1, <2>2, <2>3 DEF InPass
<1>3. ASSUME NEW n \in Sizes, handleGameStart(n)
      PROVE  AlignedInv'
  <2>1. UNCHANGED <<actions, todo, attached, count>>
    BY <1>3 DEF handleGameStart
  <2>2. \A t \in Threads : InPass(t)' => InPass(t)
    BY <1>0, <1>3, GotoTypes DEF handleGameStart, InPass, Phases
  <2> QED
    BY <1>1, <2>1, <2>2
<1>4. CASE UNCHANGED <<actions, threadVars>>
  BY <1>1, <1>4 DEF threadVars, InPass
<1>5. CASE HandlerThread
  BY <1>3, <1>4, <1>5, AlignedAppend
     DEF HandlerThread, shoot, stop, emplaceBullet, announceBullet
<1>6. CASE UNCHANGED gameVars
  BY <1>4, <1>6 DEF gameVars
<1> QED
  BY <1>2, <1>5, <1>6, AlignedMove, AlignedBegin, AlignedDelete DEF GameNext

LEMMA AlignedInit == GameInit => AlignedInv
  BY DEF GameInit, AlignedInv, AlignedAt, InPass

LEMMA AlignedSuffices == TypeInv /\ AlignedInv => PassAligned
<1> SUFFICES ASSUME TypeInv, AlignedInv, NEW t \in Threads, InPass(t), attached[t]
             PROVE  /\ \A k \in 1 .. count[t] - 1 : actions[k].done
                    /\ \A k \in DOMAIN todo[t] :
                           actions[count[t] + k - 1].player = todo[t][k]
  BY DEF PassAligned
<1>1. DOMAIN todo[t] = 1 .. Len(todo[t])
  BY LenProperties DEF TypeInv, ThreadTypes
<1> QED
  BY <1>1 DEF AlignedInv, AlignedAt

(***************************************************************************)
(* A pass over playerActions stays in step with the vector, for any number *)
(* of actions, appended while it goes on, and of game threads: what it has *)
(* passed is processed, what it has left is what the vector holds there    *)
(* (AGame.cpp:30-57).  A pass that the vector was moved away from, or      *)
(* erased under, is not spoken of.                                         *)
(***************************************************************************)
THEOREM GamePassAligned == GameSpec => []PassAligned
<1>1. GameInv /\ AlignedInv => PassAligned
  BY AlignedSuffices DEF GameInv
<1>2. GameInv /\ AlignedInv /\ [GameNext]_gameVars => (GameInv /\ AlignedInv)'
  BY GameInvStep, AlignedStep DEF GameInv, AlignedOK
<1> QED
  BY <1>1, <1>2, GameInvInit, AlignedInit, PTL DEF GameSpec

--------------------------------------------------------------------------------
(* Where the clients see the players. *)

\* Who is in the game was created by initializePlayers, in the order of the ids.
Seated ==
    First =>
        /\ Phantoms = {}
        /\ gpc[1] = "spawn" => DOMAIN players = 0 .. count[1] - 1 /\ count[1] <= size[1]
        /\ gpc[1] = "fill" => DOMAIN players = 0 .. count[1] /\ count[1] < size[1]
        /\ ~Setup => DOMAIN players \subseteq 0 .. size[1] - 1
        /\ gpc[1] = "move" => Head(todo[1]) \in DOMAIN players

Everybody == DOMAIN players = 0 .. size[1] - 1

Sees(i) == i \in DOMAIN seen /\ seen[i] = players[i].pos

\* Nothing is sent of a player before the setup is over; afterwards what was sent
\* last is what the clients show.
Positioned ==
    First =>
        /\ Setup =>
               /\ lastKnown = <<>>
               /\ \A i \in DOMAIN players : players[i].pos = StartPos
               /\ \A i \in 0 .. count[1] - 1 : Sees(i)
        /\ ~Setup /\ Everybody =>
               \A i \in DOMAIN players :
                   /\ Sees(i)
                   /\ i \in DOMAIN lastKnown => lastKnown[i] = seen[i]

PositionInv == Seated /\ Positioned

PositionGame == StaleGame /\ PositionInv

\* Nothing the positions depend on has changed.
LEMMA PositionsKept ==
    ASSUME PositionInv, First' => First,
           UNCHANGED <<players, gpc, count, size, todo, seen, lastKnown>>
    PROVE  PositionInv'
<1>1. /\ Setup' = Setup /\ Everybody' = Everybody /\ Phantoms' = Phantoms
      /\ \A i : Sees(i)' = Sees(i)
  BY DEF Setup, Everybody, Phantoms, Sees
<1> QED
  BY <1>1 DEF PositionInv, Seated, Positioned

\* A round goes on, and nobody but a collision touches the players.
LEMMA PositionsRound ==
    ASSUME PositionInv, First' => First, ~Setup, ~Setup',
           UNCHANGED <<players, size, seen, lastKnown>>,
           gpc'[1] = "move" => Head(todo'[1]) \in DOMAIN players
    PROVE  PositionInv'
<1>1. /\ Everybody' = Everybody /\ Phantoms' = Phantoms
      /\ \A i : Sees(i)' = Sees(i)
  BY DEF Everybody, Phantoms, Sees
<1>2. gpc'[1] \notin {"spawn", "fill"}
  BY DEF Setup
<1> QED
  BY <1>1, <1>2 DEF PositionInv, Seated, Positioned

LEMMA PositionsThread ==
    ASSUME PositionGame, First, First', GameThread(1), StaleGame'
    PROVE  PositionInv'
<1>0. /\ TypeInv /\ ThreadTypes /\ 1 \in Threads
      /\ count[1] \in Nat /\ size[1] \in Nat
      /\ \A i \in DOMAIN players : players[i] \in [hp : Nat, pos : Positions \cup {NoPos}]
      /\ Seated /\ Positioned
  <2>1. TypeInv /\ ThreadTypes /\ Seated /\ Positioned /\ PlayersInv
    BY DEF PositionGame, PositionInv, StaleGame, GameInv, TypeInv
  <2>2. 1 \in Threads
    BY GameAssumption DEF Threads, GameAssumption
  <2>3. count[1] \in Nat /\ size[1] \in Nat
    BY <2>1, <2>2 DEF ThreadTypes
  <2>4. \A i \in DOMAIN players : players[i] \in [hp : Nat, pos : Positions \cup {NoPos}]
    BY <2>1 DEF PlayersInv
  <2> QED
    BY <2>1, <2>2, <2>3, <2>4
<1>1. Phantoms = {} /\ StartPos # NoPos /\ NoPos \notin Positions
  BY <1>0, GameAssumption DEF Seated, GameAssumption
<1>2. CASE spawnPlayer(1)
  <2>1. /\ gpc[1] = "spawn" /\ Goto(1, "fill") /\ count[1] < size[1]
        /\ players' = Insert(players, count[1], [hp |-> 0, pos |-> StartPos])
        /\ UNCHANGED <<count, size, lastKnown, seen>>
    BY <1>2 DEF spawnPlayer, clientVars
  <2>2. gpc'[1] = "fill"
    BY <1>0, <2>1, GotoTypes DEF Phases
  <2>3. /\ DOMAIN players = 0 .. count[1] - 1
        /\ lastKnown = <<>>
        /\ \A i \in DOMAIN players : players[i].pos = StartPos
        /\ \A i \in 0 .. count[1] - 1 : Sees(i)
    BY <1>0, <2>1 DEF Seated, Positioned, Setup
  <2>4. /\ DOMAIN players' = 0 .. count[1]
        /\ \A i \in DOMAIN players' : players'[i].pos = StartPos
        /\ \A i \in 0 .. count[1] - 1 : players'[i] = players[i]
    BY <1>0, <2>1, <2>3 DEF Insert
  <2>5. Phantoms' = {}
    BY <1>1, <2>4 DEF Phantoms
  <2>6. \A i \in 0 .. count[1] - 1 : Sees(i)'
    BY <2>1, <2>3, <2>4 DEF Sees
  <2> QED
    BY <1>0, <2>1, <2>2, <2>3, <2>4, <2>5, <2>6
       DEF PositionInv, Seated, Positioned, Setup
<1>3. CASE fillPlayer(1)
  <2>1. CASE UNCHANGED <<players, threadVars, clientVars>>
    BY <1>0, <1>3, <2>1, PositionsKept DEF fillPlayer, threadVars, clientVars, PositionInv
  <2>2. CASE /\ players' = [players EXCEPT ![count[1]].hp = @ + StartHp]
             /\ seen' = Override(seen, [i \in {count[1]} |-> StartPos])
             /\ count' = [count EXCEPT ![1] = @ + 1]
             /\ Goto(1, "spawn")
             /\ size' = size
    <3>1. gpc[1] = "fill" /\ gpc'[1] = "spawn" /\ lastKnown' = lastKnown
      BY <1>0, <1>3, <2>2, GotoTypes DEF fillPlayer, Phases
    <3>2. /\ DOMAIN players = 0 .. count[1] /\ count[1] < size[1]
          /\ lastKnown = <<>>
          /\ \A i \in DOMAIN players : players[i].pos = StartPos
          /\ \A i \in 0 .. count[1] - 1 : Sees(i)
      BY <1>0, <3>1 DEF Seated, Positioned, Setup
    <3>3. count'[1] = count[1] + 1
      BY <1>0, <2>2 DEF ThreadTypes
    <3>4. /\ DOMAIN players' = DOMAIN players
          /\ \A i \in DOMAIN players : players'[i].pos = players[i].pos
      BY <1>0, <2>2
    <3>5. Phantoms' = {}
      BY <1>1, <3>2, <3>4 DEF Phantoms
    <3>6. /\ DOMAIN seen' = DOMAIN seen \cup {count[1]}
          /\ seen'[count[1]] = StartPos
          /\ \A i \in DOMAIN seen : i # count[1] => seen'[i] = seen[i]
      BY <2>2 DEF Override
    <3>7. \A i \in 0 .. count[1] : Sees(i)'
      <4> SUFFICES ASSUME NEW i \in 0 .. count[1] PROVE Sees(i)'
        OBVIOUS
      <4>1. players'[i].pos = StartPos
        BY <3>2, <3>4
      <4>2. CASE i = count[1]
        BY <3>6, <4>1, <4>2 DEF Sees
      <4>3. CASE i \in 0 .. count[1] - 1
        BY <1>0, <3>2, <3>4, <3>6, <4>1, <4>3 DEF Sees
      <4> QED
        BY <1>0, <4>2, <4>3
    <3>8. DOMAIN players' = 0 .. count'[1] - 1 /\ count'[1] <= size'[1]
      BY <1>0, <2>2, <3>2, <3>3, <3>4
    <3>9. \A i \in 0 .. count'[1] - 1 : Sees(i)'
      BY <1>0, <3>3, <3>7
    <3> QED
      BY <3>1, <3>2, <3>4, <3>5, <3>8, <3>9 DEF PositionInv, Seated, Positioned, Setup
  <2> QED
    BY <1>3, <2>1, <2>2 DEF fillPlayer
<1>4. CASE beginRound(1)
  <2>1. /\ Goto(1, "actions") /\ UNCHANGED <<players, size, seen, lastKnown>>
    BY <1>4 DEF beginRound, entityVars, clientVars
  <2>2. gpc'[1] = "actions"
    BY <1>0, <2>1, GotoTypes DEF Phases
  <2>3. CASE gpc[1] = "spawn" /\ count[1] >= size[1]
    <3>1. /\ DOMAIN players = 0 .. size[1] - 1
          /\ lastKnown = <<>>
          /\ \A i \in 0 .. size[1] - 1 : Sees(i)
      BY <1>0, <2>3 DEF Seated, Positioned, Setup
    <3>2. \A i \in DOMAIN players' : Sees(i)' /\ i \notin DOMAIN lastKnown'
      BY <2>1, <3>1 DEF Sees
    <3>3. Phantoms' = {}
      BY <1>1, <2>1 DEF Phantoms
    <3> QED
      BY <2>1, <2>2, <3>1, <3>2, <3>3 DEF PositionInv, Seated, Positioned, Setup
  <2>4. CASE gpc[1] = "ui"
    BY <1>0, <2>1, <2>2, <2>4, PositionsRound DEF PositionInv, Setup
  <2> QED
    BY <1>4, <2>3, <2>4 DEF beginRound
<1>5. CASE readPosition(1)
  <2>1. /\ gpc[1] = "actions" /\ UNCHANGED <<players, size, seen, lastKnown, todo>>
        /\ \/ Goto(1, "move") /\ Head(todo[1]) \in DOMAIN players
           \/ gpc' = gpc
    BY <1>5 DEF readPosition, entityVars, clientVars
  <2>2. \/ gpc'[1] = "move" /\ Head(todo[1]) \in DOMAIN players
        \/ gpc'[1] = "actions"
    BY <1>0, <2>1, GotoTypes DEF Phases
  <2> QED
    BY <1>0, <2>1, <2>2, PositionsRound DEF PositionInv, Setup
<1>6. CASE movePlayer(1)
  <2> DEFINE i == Head(todo[1])
             sent == [j \in Changed(players') |-> players'[j].pos]
  <2>1. /\ gpc[1] = "move" /\ Goto(1, "actions") /\ size' = size
        /\ players' \in Moved(i)
        /\ lastKnown' = Override(lastKnown, sent)
        /\ seen' = Override(seen, sent)
    BY <1>6 DEF movePlayer, playerPacketFactory
  <2>2. i \in DOMAIN players /\ DOMAIN players \subseteq 0 .. size[1] - 1
    BY <1>0, <2>1 DEF Seated, Setup
  <2>3. gpc'[1] = "actions"
    BY <1>0, <2>1, GotoTypes DEF Phases
  <2>4. PICK p \in Positions : players' = [players EXCEPT ![i].pos = p]
    BY <1>1, <2>1, <2>2 DEF Moved
  <2>5. DOMAIN players' = DOMAIN players /\ \A j \in DOMAIN players : players'[j].pos # NoPos
    <3>1. \A j \in DOMAIN players : players[j].pos # NoPos
      BY <1>1 DEF Phantoms
    <3> HIDE DEF i
    <3> QED
      BY <1>0, <1>1, <2>2, <2>4, <3>1
  <2>6. Phantoms' = {}
    BY <2>5 DEF Phantoms
  <2>7. ASSUME Everybody', NEW j \in DOMAIN players'
        PROVE  Sees(j)' /\ lastKnown'[j] = seen'[j]
    <3>1. Everybody
      BY <2>1, <2>5, <2>7 DEF Everybody
    <3>2. Sees(j) /\ (j \in DOMAIN lastKnown => lastKnown[j] = seen[j])
      BY <1>0, <2>1, <2>5, <2>7, <3>1 DEF Positioned, Setup
    <3>3. Cardinality(DOMAIN players') = size[1] /\ j \in 0 .. size[1] - 1
      <4>1. DOMAIN players' = 0 .. size[1] - 1
        BY <2>1, <2>7 DEF Everybody
      <4>2. Cardinality(0 .. size[1] - 1) = size[1]
        BY <1>0, FS_Interval
      <4> QED
        BY <2>7, <4>1, <4>2
    <3>4. CASE j \in Changed(players')
      <4>1. lastKnown'[j] = players'[j].pos /\ seen'[j] = players'[j].pos /\ j \in DOMAIN seen'
        BY <2>1, <3>4 DEF Override
      <4> QED
        BY <4>1 DEF Sees
    <3>5. CASE j \notin Changed(players')
      <4>1. j \in DOMAIN lastKnown /\ lastKnown[j] = players'[j].pos
        BY <1>0, <2>5, <2>7, <3>3, <3>5 DEF Changed
      <4>2. lastKnown'[j] = lastKnown[j] /\ seen'[j] = seen[j] /\ j \in DOMAIN seen'
        BY <2>1, <3>2, <3>5, <4>1 DEF Override, Sees
      <4> QED
        BY <3>2, <4>1, <4>2 DEF Sees
    <3> QED
      BY <3>4, <3>5
  <2> QED
    BY <2>1, <2>2, <2>3, <2>5, <2>6, <2>7 DEF PositionInv, Seated, Positioned, Setup
<1>7. CASE checkCollisions(1)
  <2>1. PICK hits, outside : Aftermath(hits, outside)
    BY <1>0, <1>7, CollisionsLeave
  <2> DEFINE gone == Condemned(dead (+) Pushes(hits, outside))
  <2>2. /\ DOMAIN players' = {i \in DOMAIN players : <<"player", i>> \notin gone}
        /\ \A i \in DOMAIN players' : players'[i].pos = players[i].pos
        /\ seen' = Restrict(seen, {i \in DOMAIN seen : <<"player", i>> \notin gone})
    BY <2>1 DEF Aftermath
  <2> HIDE DEF gone
  <2>3. gpc[1] = "collide" /\ Goto(1, "waves") /\ size' = size /\ lastKnown' = lastKnown
    BY <1>7 DEF checkCollisions
  <2>4. gpc'[1] = "waves"
    BY <1>0, <2>3, GotoTypes DEF Phases
  <2>5. DOMAIN players \subseteq 0 .. size[1] - 1
    BY <1>0, <2>3 DEF Seated, Setup
  <2>6. Phantoms' = {}
    BY <1>1, <2>2 DEF Phantoms
  <2>7. ASSUME Everybody', NEW i \in DOMAIN players'
        PROVE  Sees(i)' /\ (i \in DOMAIN lastKnown' => lastKnown'[i] = seen'[i])
    <3>1. Everybody
      BY <2>2, <2>3, <2>5, <2>7 DEF Everybody
    <3>2. Sees(i) /\ (i \in DOMAIN lastKnown => lastKnown[i] = seen[i])
      BY <1>0, <2>2, <2>3, <2>7, <3>1 DEF Positioned, Setup
    <3>3. i \in DOMAIN seen' /\ seen'[i] = seen[i]
      BY <2>2, <2>7, <3>2 DEF Restrict, Sees
    <3> QED
      BY <2>2, <2>3, <2>7, <3>2, <3>3 DEF Sees
  <2> QED
    BY <2>2, <2>3, <2>4, <2>5, <2>6, <2>7 DEF PositionInv, Seated, Positioned, Setup
<1>8. CASE /\ UNCHANGED <<players, size, seen, lastKnown>>
           /\ gpc[1] \notin {"none", "spawn", "fill"}
           /\ \/ \E l \in {"bullets", "enemies", "collide", "waves", "ui"} : Goto(1, l)
              \/ gpc' = gpc /\ gpc[1] # "move"
  <2>1. gpc'[1] \notin {"none", "spawn", "fill", "move"}
    BY <1>0, <1>8, GotoTypes DEF Phases
  <2> QED
    BY <1>0, <1>8, <2>1, PositionsRound DEF PositionInv, Setup
<1> QED
  BY <1>2, <1>3, <1>4, <1>5, <1>6, <1>7, <1>8
     DEF GameThread, deletePlayerAction, updateBullets, updateEnemies,
         checkCollisionsThrows, waveSystem, entityVars, clientVars, threadVars

\* The first game begins with nobody in it.
LEMMA PositionsStart ==
    ASSUME StaleGame, First', ~Begun, NEW n \in Sizes, handleGameStart(n)
    PROVE  PositionInv'
<1>0. ThreadTypes /\ Fresh /\ 1 \in Threads /\ n \in Nat
  BY GameAssumption DEF StaleGame, GameInv, TypeInv, Threads, GameAssumption
<1>1. /\ DOMAIN players = {} /\ lastKnown = <<>> /\ count[1] = 0
      /\ UNCHANGED <<players, lastKnown, count, seen>>
  BY <1>0 DEF Fresh, handleGameStart, entityVars, clientVars
<1>2. PICK t \in Threads : /\ Goto(t, "spawn")
                           /\ \A u \in Threads : u < t => gpc[u] # "none"
                           /\ size' = [size EXCEPT ![t] = n]
  BY DEF handleGameStart
<1>3. t = 1
  BY <1>0, <1>2 DEF Begun, Threads
<1>4. gpc'[1] = "spawn" /\ size'[1] = n /\ count'[1] = 0
  BY <1>0, <1>1, <1>2, <1>3, GotoTypes DEF ThreadTypes, Phases
<1>5. DOMAIN players' = 0 .. count'[1] - 1 /\ Phantoms' = {} /\ count'[1] <= size'[1]
  BY <1>0, <1>1, <1>4 DEF Phantoms
<1>6. \A i \in 0 .. count'[1] - 1 : Sees(i)'
  BY <1>4
<1> QED
  BY <1>1, <1>4, <1>5, <1>6 DEF PositionInv, Seated, Positioned, Setup

LEMMA PositionsStep == PositionGame /\ [GameNext]_gameVars => PositionGame'
<1> SUFFICES ASSUME PositionGame, [GameNext]_gameVars PROVE PositionGame'
  OBVIOUS
<1>1. StaleGame /\ PositionInv /\ StaleGame'
  BY StaleStep DEF PositionGame
<1> SUFFICES PositionInv'
  BY <1>1 DEF PositionGame
<1>2. First' => First \/ (~Begun /\ \E n \in Sizes : handleGameStart(n))
  BY <1>1, FirstStep
<1>3. CASE ~First'
  BY <1>3 DEF PositionInv, Seated, Positioned
<1>4. CASE First' /\ ~First
  BY <1>1, <1>2, <1>4, PositionsStart
<1>5. CASE First' /\ First
  <2>1. ASSUME NEW t \in Threads, GameThread(t)
        PROVE  PositionInv'
    <3>1. t = 1
      BY <1>1, <1>5, <2>1, FirstThread DEF StaleGame, GameInv, First
    <3> QED
      BY <1>1, <1>5, <2>1, <3>1, PositionsThread
  <2>2. CASE HandlerThread
    <3>1. ~stop /\ \A n \in Sizes : ~handleGameStart(n)
      BY <1>5 DEF First, stop, handleGameStart
    <3>2. UNCHANGED <<players, gpc, count, size, todo, seen, lastKnown>>
      BY <2>2, <3>1
         DEF HandlerThread, addPlayerAction, Appended, shoot, emplaceBullet,
             announceBullet, entityVars, threadVars, clientVars
    <3> QED
      BY <1>1, <1>5, <3>2, PositionsKept
  <2>3. CASE UNCHANGED gameVars
    BY <1>1, <1>5, <2>3, PositionsKept DEF gameVars, entityVars, threadVars, clientVars
  <2> QED
    BY <2>1, <2>2, <2>3 DEF GameNext
<1> QED
  BY <1>3, <1>4, <1>5

LEMMA PositionsInit == GameInit => PositionGame
<1> SUFFICES ASSUME GameInit PROVE PositionGame
  OBVIOUS
<1>1. ~First
  BY DEF GameInit, First
<1> QED
  BY <1>1, StaleInit DEF PositionGame, PositionInv, Seated, Positioned

(***************************************************************************)
(* In the first game, while nobody has died, every client sees every       *)
(* player where it is whenever a move has been dealt with, for any number  *)
(* of players, moves and positions: playerPacketFactory sends only what    *)
(* differs from the last position it sent (Game.cpp:124-147), and what it  *)
(* does not send is what the clients show.                                 *)
(***************************************************************************)
THEOREM GamePositionsSeen == GameSpec => []PositionsSeen
<1>1. PositionGame => PositionsSeen
  <2> SUFFICES ASSUME PositionGame, First, gpc[1] \notin {"none", "spawn", "fill"},
                      Everybody, NEW i \in DOMAIN players
               PROVE  seen[i] = players[i].pos
    BY DEF PositionsSeen, First, Everybody
  <2> QED
    BY DEF PositionGame, PositionInv, Positioned, Setup, Sees
<1> QED
  BY <1>1, PositionsInit, PositionsStep, PTL DEF GameSpec

--------------------------------------------------------------------------------
(* The order of the moves. *)

\* A vector whose first d actions are processed, and no other.
DoneTo(s, d) ==
    d \in 0 .. Len(s) /\ \A k \in 1 .. Len(s) : s[k].done <=> k <= d

DonePrefix == \E d \in Nat : DoneTo(actions, d)

OpenIn(s) == {k \in DOMAIN s : ~s[k].done}

MovesOf(s) ==
    [n \in 1 .. Cardinality(OpenIn(s)) |->
        s[CHOOSE k \in OpenIn(s) : Cardinality({j \in OpenIn(s) : j <= k}) = n].player]

\* Erasing what is processed is cutting off the front.
LEMMA OpenAfter ==
    ASSUME NEW s \in Seq(PlayerActions), NEW d \in Nat, DoneTo(s, d)
    PROVE  LET U == OpenIn(s)
           IN  /\ Cardinality(U) = Len(s) - d
               /\ \A n \in 1 .. Len(s) - d :
                      (CHOOSE k \in U : Cardinality({j \in U : j <= k}) = n) = d + n
<1> DEFINE U == OpenIn(s)
           at(n) == CHOOSE k \in U : Cardinality({j \in U : j <= k}) = n
<1>0. \A a \in Nat : Cardinality(d + 1 .. a) = IF d + 1 > a THEN 0 ELSE a - d
  <2> SUFFICES ASSUME NEW a \in Nat, NEW b \in Nat, b = d + 1
               PROVE  Cardinality(b .. a) = IF b > a THEN 0 ELSE a - d
    OBVIOUS
  <2>1. Cardinality(b .. a) = IF b > a THEN 0 ELSE a - b + 1
    BY FS_Interval
  <2> QED
    BY <2>1
<1>1. Len(s) \in Nat /\ DOMAIN s = 1 .. Len(s) /\ d <= Len(s)
  BY LenProperties DEF DoneTo
<1>2. U = d + 1 .. Len(s)
  BY <1>1 DEF DoneTo, OpenIn
<1> HIDE DEF U
<1>3. Cardinality(U) = Len(s) - d
  BY <1>0, <1>1, <1>2
<1>4. ASSUME NEW k \in U
      PROVE  Cardinality({j \in U : j <= k}) = k - d
  <2>1. {j \in U : j <= k} = d + 1 .. k
    BY <1>1, <1>2
  <2>2. k \in Nat /\ k >= d + 1
    BY <1>1, <1>2
  <2>3. Cardinality(d + 1 .. k) = k - d
    BY <1>0, <2>2
  <2> QED
    BY <2>1, <2>3
<1>5. ASSUME NEW n \in 1 .. Len(s) - d
      PROVE  at(n) = d + n
  <2>1. d + n \in U
    BY <1>1, <1>2
  <2>2. \E k \in U : Cardinality({j \in U : j <= k}) = n
    BY <1>1, <1>4, <2>1
  <2>3. at(n) \in U /\ Cardinality({j \in U : j <= at(n)}) = n
    BY <2>2
  <2> HIDE DEF at
  <2>4. at(n) - d = n
    BY <1>4, <2>3
  <2>5. at(n) \in Nat
    BY <1>1, <1>2, <2>3
  <2> QED
    BY <1>1, <2>4, <2>5
<1> QED
  BY <1>3, <1>5 DEF U

LEMMA MovesAfter ==
    ASSUME NEW s \in Seq(PlayerActions), NEW d \in Nat, DoneTo(s, d)
    PROVE  /\ MovesOf(s) = [n \in 1 .. Len(s) - d |-> s[d + n].player]
           /\ MovesOf(s) \in Seq(ClientIds) /\ Len(MovesOf(s)) = Len(s) - d
<1> DEFINE at(n) == CHOOSE k \in OpenIn(s) : Cardinality({j \in OpenIn(s) : j <= k}) = n
           m == Len(s) - d
<1>1. Cardinality(OpenIn(s)) = m /\ \A n \in 1 .. m : at(n) = d + n
  BY OpenAfter
<1>2. m \in Nat
  BY LenProperties DEF DoneTo
<1>3. MovesOf(s) = [n \in 1 .. m |-> s[at(n)].player]
  BY <1>1 DEF MovesOf
<1> HIDE DEF at
<1>4. MovesOf(s) = [n \in 1 .. m |-> s[d + n].player]
  BY <1>1, <1>3
<1>5. \A n \in 1 .. m : s[d + n].player \in ClientIds
  <2>1. \A k \in 1 .. Len(s) : s[k] \in PlayerActions
    BY ElementOfSeq
  <2>2. \A n \in 1 .. m : d + n \in 1 .. Len(s)
    BY LenProperties DEF DoneTo
  <2> QED
    BY <2>1, <2>2 DEF PlayerActions
<1> HIDE DEF m
<1>6. MovesOf(s) \in Seq(ClientIds)
  BY <1>2, <1>4, <1>5, IsASeq
<1>7. Len(MovesOf(s)) = m
  BY <1>2, <1>4
<1> QED
  BY <1>4, <1>6, <1>7 DEF m

LEMMA MovesAre == /\ MovesWaiting = MovesOf(actions)
                  /\ MovesWaiting' = MovesOf(actions')
  BY DEF MovesWaiting, MovesOf, OpenIn, Unprocessed, Nth, Rank

MovesOK == AlignedOK /\ DonePrefix

\* Marking an action marks the first that waits, or one that is marked.
LEMMA MovesMove ==
    ASSUME MovesOK, TypeInv', NEW t \in Threads, movePlayer(t)
    PROVE  DonePrefix' /\ QueuesMoves
<1> DEFINE c == count[t]
<1>0. /\ TypeInv /\ AlignedInv /\ ThreadTypes /\ HandlerTypes
      /\ actions \in Seq(PlayerActions) /\ actions' \in Seq(PlayerActions)
  BY DEF MovesOK, AlignedOK, TypeInv, HandlerTypes
<1>1. /\ gpc[t] = "move" /\ gpc'[t] = "actions" /\ todo[t] # <<>>
      /\ actions' = IF attached[t] THEN [actions EXCEPT ![c].done = TRUE] ELSE actions
  BY <1>0, GotoTypes DEF movePlayer, ThreadTypes, Phases
<1>2. PICK d \in Nat : DoneTo(actions, d)
  BY DEF MovesOK, DonePrefix
<1>3. CASE actions' = actions
  BY <1>2, <1>3, MovesAre DEF DonePrefix, DoneTo, QueuesMoves
<1>4. CASE attached[t]
  <2>1. /\ c >= 1 /\ c + Len(todo[t]) <= Len(actions) + 1
        /\ \A k \in 1 .. c - 1 : actions[k].done
        /\ \A k \in 1 .. Len(todo[t]) : actions[c + k - 1].player = todo[t][k]
    BY <1>0, <1>1, <1>4 DEF AlignedInv, AlignedAt, InPass
  <2>2. c \in Nat /\ Len(todo[t]) \in Nat \ {0} /\ Len(actions) \in Nat
        /\ Head(todo[t]) = todo[t][1] /\ todo[t] \in Seq(ClientIds)
    BY <1>0, <1>1, LenProperties, EmptySeq DEF ThreadTypes
  <2>3. c \in 1 .. Len(actions) /\ actions[c].player = Head(todo[t])
    <3>1. actions[c + 1 - 1].player = todo[t][1] /\ c + 1 - 1 = c
      BY <2>1, <2>2
    <3> QED
      BY <2>1, <2>2, <3>1
  <2> DEFINE a == actions[c]
             b == [a EXCEPT !.done = TRUE]
  <2>4. a \in PlayerActions /\ b \in PlayerActions /\ b.done /\ (a.done => b = a)
    <3>1. a \in PlayerActions
      BY <1>0, <2>3, ElementOfSeq
    <3> HIDE DEF a
    <3> QED
      BY <3>1 DEF PlayerActions
  <2>5. /\ Len(actions') = Len(actions)
        /\ \A k \in 1 .. Len(actions) :
               actions'[k] = IF k = c THEN b ELSE actions[k]
    <3>1. actions' = [actions EXCEPT ![c] = b]
      BY <1>1, <1>4
    <3> HIDE DEF b
    <3> QED
      BY <1>0, <2>3, <2>4, <3>1, ExceptSeq
  <2>6. CASE actions[c].done
    <3>1. b = a
      BY <2>4, <2>6
    <3>2. actions' = actions
      BY <1>0, <2>5, <3>1, SeqEqual
    <3> QED
      BY <1>3, <3>2
  <2>7. CASE ~actions[c].done
    <3>1. d = c - 1
      <4>1. d \in 0 .. Len(actions) /\ \A k \in 1 .. Len(actions) : actions[k].done <=> k <= d
        BY <1>2 DEF DoneTo
      <4>2. ~(c <= d)
        BY <2>3, <2>7, <4>1
      <4>3. c - 1 <= d
        <5>1. CASE c = 1
          BY <4>1, <5>1
        <5>2. CASE c > 1
          <6>1. c - 1 \in 1 .. c - 1 /\ c - 1 \in 1 .. Len(actions)
            BY <2>2, <2>3, <5>2
          <6> QED
            BY <2>1, <4>1, <6>1
        <5> QED
          BY <2>1, <2>2, <5>1, <5>2
      <4> QED
        BY <2>2, <4>1, <4>2, <4>3
    <3>2. DoneTo(actions', c)
      <4>1. c \in 0 .. Len(actions')
        BY <2>2, <2>3, <2>5
      <4>2. ASSUME NEW k \in 1 .. Len(actions')
            PROVE  actions'[k].done <=> k <= c
        <5>1. CASE k = c
          <6>1. actions'[k] = b
            BY <2>3, <2>5, <5>1
          <6> QED
            BY <2>2, <2>4, <5>1, <6>1
        <5>2. CASE k # c
          <6>1. actions'[k] = actions[k] /\ (actions[k].done <=> k <= d)
            BY <1>2, <2>5, <4>2, <5>2 DEF DoneTo
          <6>2. k <= c - 1 <=> k <= c
            BY <2>2, <5>2
          <6> QED
            BY <3>1, <6>1, <6>2
        <5> QED
          BY <5>1, <5>2
      <4> QED
        BY <4>1, <4>2 DEF DoneTo
    <3>3. DonePrefix'
      BY <2>2, <3>2 DEF DonePrefix
    <3> DEFINE M == MovesOf(actions)
               N == MovesOf(actions')
               m == Len(actions) - d
    <3>4. /\ M \in Seq(ClientIds) /\ Len(M) = m /\ M = [n \in 1 .. m |-> actions[d + n].player]
      BY <1>0, <1>2, MovesAfter
    <3>5. /\ N \in Seq(ClientIds) /\ Len(N) = m - 1
          /\ N = [n \in 1 .. m - 1 |-> actions'[c + n].player]
      <4>1. Len(actions') - c = m - 1
        BY <2>2, <2>5, <3>1
      <4>2. /\ N \in Seq(ClientIds) /\ Len(N) = Len(actions') - c
            /\ N = [n \in 1 .. Len(actions') - c |-> actions'[c + n].player]
        BY <1>0, <2>2, <3>2, MovesAfter
      <4> QED
        BY <4>1, <4>2
    <3>6. m \in Nat \ {0}
      BY <2>2, <2>3, <3>1
    <3>7. M # <<>> /\ Head(M) = Head(todo[t])
      <4>1. 1 \in 1 .. m /\ d + 1 = c
        BY <2>2, <3>1, <3>6
      <4>2. M[1] = actions[c].player
        BY <3>4, <4>1
      <4>3. M # <<>> /\ Head(M) = M[1]
        <5> HIDE DEF M, m
        <5>1. M \in Seq(ClientIds) /\ Len(M) # 0
          BY <3>4, <3>6
        <5> QED
          BY <5>1, EmptySeq
      <4> QED
        BY <2>3, <4>2, <4>3
    <3>8. N = Tail(M)
      <4>1. /\ Tail(M) \in Seq(ClientIds) /\ Len(Tail(M)) = m - 1
            /\ \A k \in 1 .. m - 1 : Tail(M)[k] = M[k + 1]
        <5> HIDE DEF M, m
        <5> QED
          BY <3>4, <3>7, HeadTailProperties
      <4>2. ASSUME NEW k \in 1 .. m - 1
            PROVE  N[k] = M[k + 1]
        <5>0. k \in Nat \ {0} /\ k <= Len(actions) - (c - 1) - 1 /\ m = Len(actions) - (c - 1)
          BY <3>1, <3>6
        <5>1. k + 1 \in 1 .. m /\ d + (k + 1) = c + k /\ c + k \in 1 .. Len(actions)
              /\ c + k # c
          <6> DEFINE L == Len(actions)
          <6>1. c \in Nat /\ d \in Nat /\ L \in Nat /\ c >= 1 /\ d = c - 1
            BY <2>2, <2>3, <3>1
          <6>2. k \in Nat \ {0} /\ k <= m - 1 /\ m = L - d
            BY <3>6, <5>0
          <6> HIDE DEF L, c, m
          <6>3. k + 1 \in 1 .. m /\ d + (k + 1) = c + k /\ c + k \in 1 .. L /\ c + k # c
            BY <6>1, <6>2
          <6> QED
            BY <6>3 DEF L
        <5>2. M[k + 1] = actions[c + k].player /\ N[k] = actions'[c + k].player
          BY <3>4, <3>5, <5>1
        <5> QED
          BY <2>5, <5>1, <5>2
      <4> HIDE DEF M, N, m
      <4> QED
        BY <3>5, <4>1, <4>2, SeqEqual
    <3> QED
      BY <1>1, <3>3, <3>7, <3>8, MovesAre DEF QueuesMoves
  <2> QED
    BY <2>6, <2>7
<1> QED
  BY <1>1, <1>3, <1>4

LEMMA MovesDelete ==
    ASSUME MovesOK, TypeInv', NEW t \in Threads, deletePlayerAction(t)
    PROVE  DonePrefix' /\ QueuesMoves
<1>0. /\ actions \in Seq(PlayerActions) /\ actions' \in Seq(PlayerActions)
      /\ actions' = Compacted
  BY DEF MovesOK, AlignedOK, TypeInv, HandlerTypes, deletePlayerAction
<1>1. PICK d \in Nat : DoneTo(actions, d)
  BY DEF MovesOK, DonePrefix
<1> DEFINE m == Len(actions) - d
           at(n) == CHOOSE k \in OpenIn(actions) : Cardinality({j \in OpenIn(actions) : j <= k}) = n
<1>2. m \in Nat /\ \A n \in 1 .. m : d + n \in 1 .. Len(actions) /\ ~(d + n <= d)
  BY <1>0, <1>1, LenProperties DEF DoneTo
<1>3. actions' = [n \in 1 .. m |-> actions[d + n]]
  <2>1. Cardinality(OpenIn(actions)) = m /\ \A n \in 1 .. m : at(n) = d + n
    BY <1>0, <1>1, OpenAfter
  <2>2. Compacted = [n \in 1 .. Cardinality(OpenIn(actions)) |-> actions[at(n)]]
    BY DEF Compacted, OpenIn, Unprocessed, Nth, Rank
  <2> HIDE DEF m, at
  <2> QED
    BY <1>0, <2>1, <2>2
<1>4. Len(actions') = m
  <2> HIDE DEF m
  <2> QED
    BY <1>2, <1>3
<1>5. DoneTo(actions', 0)
  <2>1. \A n \in 1 .. m : ~actions'[n].done
    BY <1>1, <1>2, <1>3 DEF DoneTo
  <2> HIDE DEF m
  <2> QED
    BY <1>2, <1>4, <2>1 DEF DoneTo
<1>6. MovesOf(actions') = MovesOf(actions)
  <2>1. MovesOf(actions) = [n \in 1 .. m |-> actions[d + n].player]
    BY <1>0, <1>1, MovesAfter
  <2>2. MovesOf(actions') = [n \in 1 .. Len(actions') - 0 |-> actions'[0 + n].player]
    BY <1>0, <1>5, MovesAfter
  <2>3. MovesOf(actions') = [n \in 1 .. m |-> actions'[n].player]
    BY <1>2, <1>4, <2>2
  <2> QED
    BY <1>3, <2>1, <2>3
<1> QED
  BY <1>5, <1>6, MovesAre DEF DonePrefix, QueuesMoves

LEMMA MovesAppend ==
    ASSUME MovesOK, TypeInv', NEW i \in ClientIds, addPlayerAction(i)
    PROVE  DonePrefix' /\ QueuesMoves
<1>0. /\ actions \in Seq(PlayerActions) /\ actions' \in Seq(PlayerActions)
      /\ actions' = Append(actions, Waiting(i)) /\ Waiting(i) \in PlayerActions
      /\ Waiting(i).player = i /\ ~Waiting(i).done
  BY DEF MovesOK, AlignedOK, TypeInv, HandlerTypes, addPlayerAction, Appended, Waiting,
         PlayerActions
<1>1. PICK d \in Nat : DoneTo(actions, d)
  BY DEF MovesOK, DonePrefix
<1> DEFINE L == Len(actions)
           m == L - d
           M == MovesOf(actions)
           N == MovesOf(actions')
<1>2. L \in Nat /\ d <= L /\ m \in Nat
  BY <1>0, <1>1, LenProperties DEF DoneTo
<1>3. /\ Len(actions') = L + 1 /\ actions'[L + 1] = Waiting(i)
      /\ \A k \in 1 .. L : actions'[k] = actions[k]
  BY <1>0, AppendProperties
<1>4. DoneTo(actions', d)
  BY <1>0, <1>1, <1>2, <1>3 DEF DoneTo
<1>5. M \in Seq(ClientIds) /\ Len(M) = m /\ M = [n \in 1 .. m |-> actions[d + n].player]
  BY <1>0, <1>1, MovesAfter
<1>6. /\ N \in Seq(ClientIds) /\ Len(N) = m + 1
      /\ N = [n \in 1 .. m + 1 |-> actions'[d + n].player]
  <2>1. Len(actions') - d = m + 1
    BY <1>2, <1>3
  <2>2. /\ N \in Seq(ClientIds) /\ Len(N) = Len(actions') - d
        /\ N = [n \in 1 .. Len(actions') - d |-> actions'[d + n].player]
    BY <1>0, <1>4, MovesAfter
  <2> QED
    BY <2>1, <2>2
<1>7. N[m + 1] = i /\ \A n \in 1 .. m : N[n] = M[n]
  <2>1. N[m + 1] = actions'[d + (m + 1)].player /\ d + (m + 1) = L + 1
    BY <1>2, <1>6
  <2>2. \A n \in 1 .. m : n \in 1 .. m + 1 /\ d + n \in 1 .. L
    BY <1>2
  <2>3. ASSUME NEW n \in 1 .. m
        PROVE  N[n] = M[n]
    <3>1. N[n] = actions'[d + n].player /\ M[n] = actions[d + n].player
      BY <1>5, <1>6, <2>2
    <3> QED
      BY <1>3, <2>2, <3>1
  <2> QED
    BY <1>0, <1>3, <2>1, <2>3
<1> HIDE DEF M, N, m
<1>8. N = Append(M, i)
  <2>0. M \in Seq(ClientIds) /\ Len(M) = m
    BY <1>5
  <2>1. /\ Append(M, i) \in Seq(ClientIds) /\ Len(Append(M, i)) = m + 1
        /\ \A n \in 1 .. m : Append(M, i)[n] = M[n]
        /\ Append(M, i)[m + 1] = i
    BY <2>0, AppendProperties
  <2>2. \A n \in 1 .. m + 1 : N[n] = Append(M, i)[n]
    BY <1>2, <1>7, <2>1
  <2> QED
    BY <1>6, <2>1, <2>2, SeqEqual
<1> QED
  BY <1>1, <1>4, <1>8, MovesAre DEF M, N, DonePrefix, QueuesMoves

LEMMA MovesStep ==
    MovesOK /\ TypeInv' /\ [GameNext]_gameVars => DonePrefix' /\ [QueuesMoves]_gameVars
<1> SUFFICES ASSUME MovesOK, TypeInv', [GameNext]_gameVars PROVE DonePrefix' /\ QueuesMoves
  OBVIOUS
<1>1. CASE actions' = actions
  BY <1>1, MovesAre DEF MovesOK, DonePrefix, QueuesMoves
<1>2. ASSUME NEW t \in Threads, GameThread(t), ~movePlayer(t), ~deletePlayerAction(t)
      PROVE  actions' = actions
  BY <1>2 DEF GameThread, spawnPlayer, fillPlayer, beginRound, readPosition, updateBullets,
              updateEnemies, checkCollisions, checkCollisionsThrows, waveSystem
<1>3. ASSUME HandlerThread, \A i \in ClientIds : ~addPlayerAction(i)
      PROVE  actions' = actions
  BY <1>3 DEF HandlerThread, handleGameStart, stop, shoot, emplaceBullet, announceBullet
<1>4. CASE UNCHANGED gameVars
  BY <1>1, <1>4 DEF gameVars
<1> QED
  BY <1>1, <1>2, <1>3, <1>4, MovesMove, MovesDelete, MovesAppend DEF GameNext

LEMMA MovesInit == GameInit => DonePrefix
<1> SUFFICES ASSUME GameInit PROVE DoneTo(actions, 0)
  BY DEF DonePrefix
<1>1. Len(actions) = 0
  BY DEF GameInit
<1> QED
  BY <1>1 DEF DoneTo

(***************************************************************************)
(* Moves are made in the order they were asked for and none is dropped,    *)
(* for any number of clients, actions and game threads passing over the    *)
(* same vector (AGame.cpp:30-57).  What is processed is always a prefix of *)
(* it (DonePrefix), since a pass marks an action only when all before it   *)
(* are marked (AlignedInv).                                                *)
(***************************************************************************)
THEOREM GameMovesInOrder == GameSpec => MovesInOrder
<1>1. /\ GameInv /\ AlignedInv /\ DonePrefix
      /\ [GameNext]_gameVars
      => (GameInv /\ AlignedInv /\ DonePrefix)' /\ [QueuesMoves]_gameVars
  BY GameInvStep, AlignedStep, MovesStep DEF GameInv, AlignedOK, MovesOK
<1> QED
  BY <1>1, GameInvInit, AlignedInit, MovesInit, PTL DEF GameSpec, MovesInOrder

--------------------------------------------------------------------------------
(* Ids. *)

\* Who comes into the game never was in it, and who was once born stays so.
NewcomersAreNew ==
    /\ Born \subseteq Born'
    /\ live' \subseteq Born'
    /\ (live' \ live) \cap Born = {}

LEMMA RangeGrows ==
    ASSUME NEW m \in Nat, NEW n \in Nat, n >= m, NEW i \in 0 .. m - 1
    PROVE  i \in 0 .. n - 1
OBVIOUS

LEMMA BornGrows ==
    ASSUME TypeInv, enemyId' \in Nat, bossId' \in Nat, enemyId' >= enemyId, bossId' >= bossId,
           BulletIds \subseteq BulletIds'
    PROVE  Born \subseteq Born'
<1>1. enemyId \in Nat /\ bossId \in Nat
  BY DEF TypeInv, EntityTypes, WaveInv
<1>2. ASSUME NEW i \in 0 .. enemyId - 1 PROVE <<"enemy", i>> \in Born'
  <2>1. i \in 0 .. enemyId' - 1
    BY <1>1, <1>2, RangeGrows
  <2> QED
    BY <2>1 DEF Born
<1>3. ASSUME NEW i \in 0 .. bossId - 1 PROVE <<"boss", i>> \in Born'
  <2>1. i \in 0 .. bossId' - 1
    BY <1>1, <1>3, RangeGrows
  <2> QED
    BY <2>1 DEF Born
<1>4. ASSUME NEW i \in BulletIds PROVE <<"bullet", i>> \in Born'
  <2>1. i \in BulletIds'
    BY <1>4
  <2> QED
    BY <2>1 DEF Born
<1>5. ASSUME NEW x \in Born PROVE x \in Born'
  <2>1. \/ \E i \in 0 .. enemyId - 1 : x = <<"enemy", i>>
        \/ \E i \in 0 .. bossId - 1 : x = <<"boss", i>>
        \/ \E i \in BulletIds : x = <<"bullet", i>>
    BY <1>5 DEF Born
  <2> QED
    BY <1>2, <1>3, <1>4, <2>1
<1> QED
  BY <1>5

LEMMA NewcomersStep == TypeInv /\ TypeInv' /\ [GameNext]_gameVars => [NewcomersAreNew]_gameVars
<1> SUFFICES ASSUME TypeInv, TypeInv', [GameNext]_gameVars PROVE NewcomersAreNew
  OBVIOUS
<1>0. /\ live' \subseteq Born'
      /\ enemyId \in Nat /\ bossId \in Nat /\ enemiesPerWave \in Nat /\ BossEscort \in Nat
      /\ enemyId' \in Nat /\ bossId' \in Nat
      /\ nextBulletId \in Nat
  BY GameAssumption DEF TypeInv, EntityTypes, WaveInv, HandlerTypes, GameAssumption
<1>1. ASSUME UNCHANGED waveVars, live' \subseteq live, BulletIds \subseteq BulletIds'
      PROVE  NewcomersAreNew
  BY <1>0, <1>1, BornGrows DEF waveVars, NewcomersAreNew
<1>2. ASSUME UNCHANGED handlerVars
      PROVE  BulletIds' = BulletIds
  BY <1>2 DEF handlerVars, BulletIds
<1>3. ASSUME NEW t \in Threads, waveSystem(t)
      PROVE  NewcomersAreNew
  <2>1. BulletIds' = BulletIds
    BY <1>2, <1>3 DEF waveSystem
  <2>2. CASE UNCHANGED <<live, waveVars>>
    BY <1>1, <2>1, <2>2
  <2>3. CASE spawnBossWave \/ startNextWave
    <3>1. enemyId' >= enemyId /\ bossId' >= bossId
      BY <1>0, <2>3 DEF spawnBossWave, startNextWave
    <3>2. Born \subseteq Born'
      BY <1>0, <2>1, <3>1, BornGrows
    <3>3. ASSUME NEW x \in live' \ live
          PROVE  x \notin Born
      <4>1. \/ \E i \in Nat : x = <<"enemy", i>> /\ i >= enemyId
            \/ x = <<"boss", bossId>>
        BY <1>0, <2>3, <3>3 DEF spawnBossWave, startNextWave, Spawn, NewEnemies
      <4> QED
        BY <1>0, <4>1 DEF Born
    <3> QED
      BY <1>0, <3>2, <3>3 DEF NewcomersAreNew
  <2> QED
    BY <1>3, <2>2, <2>3 DEF waveSystem
<1>4. ASSUME NEW t \in Threads, GameThread(t), ~waveSystem(t)
      PROVE  NewcomersAreNew
  <2>1. UNCHANGED waveVars /\ UNCHANGED handlerVars /\ live' \subseteq live
    BY <1>4 DEF GameThread, spawnPlayer, fillPlayer, beginRound, readPosition, movePlayer,
                deletePlayerAction, updateBullets, updateEnemies, checkCollisions,
                checkCollisionsThrows, entityVars
  <2> QED
    BY <1>1, <1>2, <2>1
<1>5. CASE emplaceBullet
  <2>1. /\ hpc = "found" /\ hpc' = "emplaced" /\ nextBulletId' = nextBulletId
        /\ live' = live \cup {<<"bullet", nextBulletId>>} /\ UNCHANGED waveVars
    BY <1>5 DEF emplaceBullet
  <2>2. BulletIds \subseteq BulletIds' /\ nextBulletId \notin BulletIds
    BY <1>0, <2>1 DEF BulletIds
  <2>3. Born \subseteq Born'
    BY <1>0, <2>1, <2>2, BornGrows DEF waveVars
  <2>4. <<"bullet", nextBulletId>> \notin Born
    BY <2>2 DEF Born
  <2> QED
    BY <1>0, <2>1, <2>3, <2>4 DEF NewcomersAreNew
<1>6. CASE announceBullet
  <2>1. /\ hpc = "emplaced" /\ hpc' = "idle" /\ nextBulletId' = nextBulletId + 1
        /\ live' = live /\ UNCHANGED waveVars
    BY <1>6 DEF announceBullet, entityVars
  <2>2. BulletIds \subseteq BulletIds'
    BY <1>0, <2>1 DEF BulletIds
  <2> QED
    BY <1>1, <2>1, <2>2
<1>7. ASSUME HandlerThread, ~emplaceBullet, ~announceBullet
      PROVE  NewcomersAreNew
  <2>1. UNCHANGED waveVars /\ live' \subseteq live
    BY <1>7 DEF HandlerThread, handleGameStart, addPlayerAction, Appended, shoot, stop, entityVars
  <2>2. \/ nextBulletId' = nextBulletId /\ hpc # "emplaced" /\ hpc' # "emplaced"
        \/ UNCHANGED handlerVars
    BY <1>7 DEF HandlerThread, handleGameStart, addPlayerAction, Appended, shoot, stop
  <2>3. BulletIds' = BulletIds
    BY <1>2, <2>2 DEF BulletIds
  <2> QED
    BY <1>1, <2>1, <2>3
<1>8. CASE UNCHANGED gameVars
  BY <1>1, <1>2, <1>8 DEF gameVars, entityVars
<1> QED
  BY <1>3, <1>4, <1>5, <1>6, <1>7, <1>8 DEF GameNext

(***************************************************************************)
(* No id is given out twice: an enemy, boss or bullet that comes into the  *)
(* game has an id that nobody had before it, alive or dead, in this game   *)
(* or an earlier one, whatever two threads insert at a time                *)
(* (Game.cpp:81-83,239-253, AGame.cpp:95-106).                             *)
(***************************************************************************)
THEOREM GameFreshIds == GameSpec => [][NewcomersAreNew]_gameVars
<1>1. GameInv /\ [GameNext]_gameVars => GameInv' /\ [NewcomersAreNew]_gameVars
  BY GameInvStep, NewcomersStep DEF GameInv
<1> QED
  BY <1>1, GameInvInit, PTL DEF GameSpec
================================================================================
