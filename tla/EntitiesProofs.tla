---------------------------- MODULE EntitiesProofs ----------------------------
(***************************************************************************)
(* Proofs about the registry and the objects of the game, for any set of   *)
(* component types, any bound on the ids and any set of keys.              *)
(***************************************************************************)
EXTENDS Entities, SequenceTheorems, TLAPS

(* Facts about the stack of dead ids. *)

\* back() and pop_back().
LEMMA PopBackFacts ==
    ASSUME NEW S, NEW s \in Seq(S), s # <<>>, IsInjective(s)
    PROVE  LET f == SubSeq(s, 1, Len(s) - 1) IN
           /\ s[Len(s)] \in S
           /\ f \in Seq(S)
           /\ Range(f) = Range(s) \ {s[Len(s)]}
           /\ s[Len(s)] \in Range(s)
           /\ IsInjective(f)
  <1> DEFINE k == Len(s)
             f == SubSeq(s, 1, k - 1)
  <1>1. /\ k \in Nat \ {0} /\ DOMAIN s = 1 .. k
        /\ \A i \in 1 .. k : s[i] \in S
    BY EmptySeq, LenProperties
  <1>2. /\ f \in Seq(S) /\ Len(f) = k - 1
        /\ \A i \in 1 .. k - 1 : f[i] = s[i]
    <2>1. \A i \in 1 .. k - 1 : s[i] \in S
      BY <1>1
    <2>2. /\ f \in Seq(S)
          /\ Len(f) = IF 1 <= k - 1 THEN k - 1 - 1 + 1 ELSE 0
          /\ \A i \in 1 .. k - 1 - 1 + 1 : f[i] = s[1 + i - 1]
      BY <1>1, <2>1, SubSeqProperties
    <2> QED BY <1>1, <2>2
  <1>3. DOMAIN f = 1 .. k - 1
    BY <1>2, LenProperties
  <1>4. IsInjective(f)
    BY <1>1, <1>2, <1>3 DEF IsInjective
  <1>5. s[k] \in Range(s)
    BY <1>1 DEF Range
  <1>6. Range(f) \subseteq Range(s) \ {s[k]}
    BY <1>1, <1>2, <1>3 DEF Range, IsInjective
  <1>7. ASSUME NEW x \in Range(s) \ {s[k]} PROVE x \in Range(f)
    <2>1. PICK i \in 1 .. k : x = s[i]
      BY <1>1 DEF Range
    <2>2. i \in 1 .. k - 1
      BY <1>1, <2>1
    <2> QED BY <1>2, <1>3, <2>1, <2>2 DEF Range
  <1> QED BY <1>1, <1>2, <1>4, <1>5, <1>6, <1>7

\* push_back() of an id that is not on the stack.
LEMMA PushBackFacts ==
    ASSUME NEW S, NEW s \in Seq(S), NEW x \in S, x \notin Range(s), IsInjective(s)
    PROVE  /\ Append(s, x) \in Seq(S)
           /\ Range(Append(s, x)) = Range(s) \cup {x}
           /\ IsInjective(Append(s, x))
  <1>1. /\ Append(s, x) \in Seq(S)
        /\ Len(Append(s, x)) = Len(s) + 1
        /\ \A i \in 1 .. Len(s) : Append(s, x)[i] = s[i]
        /\ Append(s, x)[Len(s) + 1] = x
    BY AppendProperties
  <1>2. /\ DOMAIN s = 1 .. Len(s) /\ DOMAIN Append(s, x) = 1 .. Len(s) + 1
        /\ Len(s) \in Nat
    BY <1>1, LenProperties
  <1>3. Range(Append(s, x)) = Range(s) \cup {x}
    BY <1>1, <1>2 DEF Range
  <1>4. IsInjective(Append(s, x))
    BY <1>1, <1>2 DEF Range, IsInjective
  <1> QED BY <1>1, <1>3, <1>4

(***************************************************************************)
(* What spawn_entity does to the ids: the id it returns was not alive and  *)
(* is afterwards, the others stay as they are (Registry.hpp:23-30).        *)
(***************************************************************************)
LEMMA SpawnAdds ==
    ASSUME NEW r, IsRegistry(r), DeadOnce(r)
    PROVE  /\ IsRegistry(spawn_entity(r)) /\ DeadOnce(spawn_entity(r))
           /\ Spawned(r) \in Nat \ Living(r)
           /\ Living(spawn_entity(r)) = Living(r) \cup {Spawned(r)}
           /\ spawn_entity(r).arrays = r.arrays
  <1> DEFINE d == r.deadEntities
             n == r.nextEntity
             s == spawn_entity(r)
  <1>0. /\ d \in Seq(Nat) /\ n \in Nat
        /\ r.arrays \in [Components -> SUBSET Nat]
        /\ r = [nextEntity |-> n, deadEntities |-> d, arrays |-> r.arrays]
        /\ Range(d) \subseteq 0 .. n - 1 /\ IsInjective(d)
    BY DEF IsRegistry, DeadOnce
  <1>1. CASE d = <<>>
    <2>1. /\ s = [nextEntity |-> n + 1, deadEntities |-> <<>>, arrays |-> r.arrays]
          /\ Spawned(r) = n
      BY <1>0, <1>1 DEF spawn_entity, Spawned
    <2>2. Range(<<>>) = {} /\ IsInjective(<<>>)
      BY DEF Range, IsInjective
    <2>3. Living(r) = 0 .. n - 1 /\ Living(s) = 0 .. n
      BY <1>0, <1>1, <2>1, <2>2 DEF Living
    <2>4. IsRegistry(s) /\ DeadOnce(s)
      BY <1>0, <2>1, <2>2 DEF IsRegistry, DeadOnce
    <2> QED BY <1>0, <2>1, <2>3, <2>4
  <1>2. CASE d # <<>>
    <2> DEFINE l == d[Len(d)]
               f == SubSeq(d, 1, Len(d) - 1)
    <2>1. /\ s = [nextEntity |-> n, deadEntities |-> f, arrays |-> r.arrays]
          /\ Spawned(r) = l
      BY <1>0, <1>2 DEF spawn_entity, Spawned
    <2>2. /\ l \in Nat /\ f \in Seq(Nat) /\ IsInjective(f)
          /\ Range(f) = Range(d) \ {l} /\ l \in Range(d)
      BY <1>0, <1>2, PopBackFacts
    <2> HIDE DEF f, l
    <2>3. IsRegistry(s) /\ DeadOnce(s)
      BY <1>0, <2>1, <2>2 DEF IsRegistry, DeadOnce
    <2>4. Living(r) = (0 .. n - 1) \ Range(d) /\ Living(s) = (0 .. n - 1) \ Range(f)
      BY <2>1 DEF Living
    <2> QED BY <1>0, <2>1, <2>2, <2>3, <2>4
  <1> QED BY <1>1, <1>2

(***************************************************************************)
(* What kill_entity does to a living entity: its id is dead, once, and no  *)
(* array holds anything for it (Registry.hpp:36-41).                       *)
(***************************************************************************)
LEMMA KillRemoves ==
    ASSUME NEW r, IsRegistry(r), DeadOnce(r), NEW e \in Living(r)
    PROVE  LET k == kill_entity(r, e) IN
           /\ IsRegistry(k) /\ DeadOnce(k)
           /\ k.nextEntity = r.nextEntity
           /\ Living(k) = Living(r) \ {e}
           /\ \A c \in Components : k.arrays[c] = r.arrays[c] \ {e}
  <1> DEFINE d == r.deadEntities
             n == r.nextEntity
             k == kill_entity(r, e)
             a == Append(d, e)
  <1>0. /\ d \in Seq(Nat) /\ n \in Nat
        /\ r.arrays \in [Components -> SUBSET Nat]
        /\ r = [nextEntity |-> n, deadEntities |-> d, arrays |-> r.arrays]
        /\ Range(d) \subseteq 0 .. n - 1 /\ IsInjective(d)
    BY DEF IsRegistry, DeadOnce
  <1>1. e \in 0 .. n - 1 /\ e \in Nat /\ e \notin Range(d)
    BY <1>0 DEF Living
  <1>2. k = [nextEntity |-> n, deadEntities |-> a,
             arrays |-> [c \in Components |-> r.arrays[c] \ {e}]]
    <2>1. DOMAIN r.arrays = Components
      BY <1>0
    <2> DEFINE w == [c \in DOMAIN r.arrays |-> r.arrays[c] \ {e}]
    <2>2. w = [c \in Components |-> r.arrays[c] \ {e}]
      BY <2>1, Zenon
    <2>3. k = [r EXCEPT !.deadEntities = a, !.arrays = w]
      BY DEF kill_entity
    <2> HIDE DEF w, k, a
    <2>4. k = [nextEntity |-> n, deadEntities |-> a, arrays |-> w]
      BY <1>0, <2>3
    <2> QED BY <2>2, <2>4
  <1>3. a \in Seq(Nat) /\ Range(a) = Range(d) \cup {e} /\ IsInjective(a)
    BY <1>0, <1>1, PushBackFacts
  <1> HIDE DEF a
  <1>4. IsRegistry(k)
    BY <1>0, <1>2, <1>3 DEF IsRegistry
  <1>5. DeadOnce(k)
    BY <1>0, <1>1, <1>2, <1>3 DEF DeadOnce
  <1>6. Living(k) = Living(r) \ {e}
    BY <1>2, <1>3 DEF Living
  <1>7. \A c \in Components : k.arrays[c] = r.arrays[c] \ {e}
    BY <1>2
  <1> QED BY <1>2, <1>4, <1>5, <1>6, <1>7

--------------------------------------------------------------------------------
\* Whoever is there refers to the registry made with it, and nobody else does.
Owned ==
    /\ DOMAIN memory = DOMAIN things
    /\ \A o \in DOMAIN things : things[o].place = o

EntitiesIInv ==
    /\ RegistryOK
    /\ ComponentsAlive
    /\ Owned
    /\ OwnPosition
    /\ NothingThrown

RegistryInv(r) == IsRegistry(r) /\ DeadOnce(r) /\ NothingLeftBehind(r)

(***************************************************************************)
(* The operations of the class keep the registry in order and use the ids  *)
(* as a dispenser does.                                                    *)
(***************************************************************************)
LEMMA RegistryStep ==
    ASSUME RegistryInv(registry), RegistryNext
    PROVE  RegistryInv(registry)' /\ [Pool!PoolNext]_Pool!poolVars
  <1> USE DEF RegistryInv
  <1> DEFINE r == registry
  <1>1. CASE SpawnEntity
    <2>1. /\ IsRegistry(registry') /\ DeadOnce(registry')
          /\ Spawned(r) \in Nat \ Living(r)
          /\ Living(registry') = Living(r) \cup {Spawned(r)}
          /\ registry'.arrays = r.arrays
      BY <1>1, SpawnAdds DEF SpawnEntity
    <2>2. NothingLeftBehind(registry')
      BY <2>1 DEF NothingLeftBehind
    <2>3. Pool!PoolNext
      <3>1. CASE r.deadEntities = <<>>
        <4>1. Range(r.deadEntities) = {}
          BY <3>1 DEF Range
        <4>2. Living(r) = 0 .. r.nextEntity - 1 /\ Spawned(r) = r.nextEntity
          BY <3>1, <4>1 DEF Living, Spawned
        <4>3. registry'.nextEntity = r.nextEntity + 1
          BY <1>1, <3>1 DEF SpawnEntity, spawn_entity, IsRegistry
        <4> QED BY <2>1, <4>2, <4>3 DEF Pool!PoolNext, Pool!AllocFresh
      <3>2. CASE r.deadEntities # <<>>
        <4>1. registry'.nextEntity = r.nextEntity
          BY <1>1, <3>2 DEF SpawnEntity, spawn_entity, IsRegistry
        <4>2. Spawned(r) \in 0 .. r.nextEntity - 1
          BY <2>1, <4>1 DEF Living
        <4> QED BY <2>1, <4>1, <4>2 DEF Pool!PoolNext, Pool!AllocUsedBefore
      <3> QED BY <3>1, <3>2
    <2> QED BY <2>1, <2>2, <2>3
  <1>2. ASSUME NEW e \in Entities, Destroy(e)
        PROVE  RegistryInv(registry)' /\ [Pool!PoolNext]_Pool!poolVars
    <2>1. CASE entity_exists(registry, e)
      <3>1. e \in Living(r) /\ registry' = kill_entity(r, e)
        BY <1>2, <2>1 DEF Destroy, entity_exists
      <3>2. /\ IsRegistry(registry') /\ DeadOnce(registry')
            /\ registry'.nextEntity = r.nextEntity
            /\ Living(registry') = Living(r) \ {e}
            /\ \A c \in Components : registry'.arrays[c] = r.arrays[c] \ {e}
        BY <3>1, KillRemoves
      <3>3. NothingLeftBehind(registry')
        BY <3>2 DEF NothingLeftBehind
      <3> QED BY <3>1, <3>2, <3>3 DEF Pool!PoolNext, Pool!Free
    <2>2. CASE ~entity_exists(registry, e)
      BY <1>2, <2>2 DEF Destroy, Pool!poolVars
    <2> QED BY <2>1, <2>2
  <1>3. ASSUME NEW e \in Entities, NEW c \in Components,
               AddComponent(c, e) \/ RemoveComponent(c, e)
        PROVE  RegistryInv(registry)' /\ [Pool!PoolNext]_Pool!poolVars
    <2>1. CASE UNCHANGED registry
      BY <2>1 DEF Pool!poolVars
    <2>2. CASE entity_exists(registry, e) /\ registry' = insert_at(registry, c, e)
      <3>1. /\ registry' = [r EXCEPT !.arrays = [r.arrays EXCEPT ![c] = @ \cup {e}]]
            /\ e \in Living(r) /\ e \in Nat
        BY <2>2 DEF insert_at, entity_exists, Living, Entities
      <3>2. Living(registry') = Living(r) /\ registry'.nextEntity = r.nextEntity
        BY <3>1 DEF Living, IsRegistry
      <3> QED BY <3>1, <3>2 DEF IsRegistry, DeadOnce, NothingLeftBehind, Pool!poolVars
    <2>3. CASE RemoveComponent(c, e)
      <3>1. registry' = [r EXCEPT !.arrays = [r.arrays EXCEPT ![c] = @ \ {e}]]
        BY <2>3 DEF RemoveComponent, erase
      <3>2. Living(registry') = Living(r) /\ registry'.nextEntity = r.nextEntity
        BY <3>1 DEF Living, IsRegistry
      <3> QED BY <3>1, <3>2 DEF IsRegistry, DeadOnce, NothingLeftBehind, Pool!poolVars
    <2> QED BY <1>3, <2>1, <2>2, <2>3 DEF AddComponent
  <1> QED BY <1>1, <1>2, <1>3 DEF RegistryNext

(***************************************************************************)
(* A new object has its entity, with a Position, and its constructor does  *)
(* not throw.                                                              *)
(***************************************************************************)
LEMMA ConstructedOwnsPosition ==
    ASSUME NEW r, IsRegistry(r), DeadOnce(r)
    PROVE  /\ entity_exists(spawn_entity(r), Spawned(r))
           /\ has_component(Constructed(r), "Position", Spawned(r))
  <1> DEFINE s == spawn_entity(r)
             e == Spawned(r)
             t == insert_at(s, "Position", e)
  <1>1. IsRegistry(s) /\ e \in Living(s)
    BY SpawnAdds
  <1>2. t = [s EXCEPT !.arrays = [s.arrays EXCEPT !["Position"] = @ \cup {e}]]
    BY DEF insert_at
  <1>3. /\ Living(t) = Living(s) /\ e \in t.arrays["Position"]
        /\ "Position" \in DOMAIN t.arrays
    BY <1>1, <1>2, PositionAssumption DEF Living, IsRegistry
  <1> QED BY <1>1, <1>3 DEF has_component, entity_exists, Constructed

(***************************************************************************)
(* An object that comes into being with a registry of its own leaves those *)
(* of the others alone; it is in order when its own entity is.             *)
(***************************************************************************)
LEMMA OneMore ==
    ASSUME Owned, OwnPosition, NEW o, o \notin DOMAIN things, NEW r, NEW w,
           w.place = o,
           "Position" \in DOMAIN r.arrays => has_component(r, "Position", w.entity),
           DOMAIN things' = DOMAIN things \cup {o},
           DOMAIN memory' = DOMAIN memory \cup {o},
           things'[o] = w, memory'[o] = r,
           \A x \in DOMAIN things : things'[x] = things[x] /\ memory'[x] = memory[x]
    PROVE  Owned' /\ OwnPosition'
  <1>1. \A x \in DOMAIN things' : things'[x].place = x
    BY DEF Owned
  <1>2. ASSUME NEW x \in DOMAIN things',
               "Position" \in DOMAIN memory'[things'[x].place].arrays
        PROVE  has_component(memory'[things'[x].place], "Position", things'[x].entity)
    <2>1. CASE x = o
      BY <1>2, <2>1
    <2>2. CASE x # o
      BY <1>2, <2>2 DEF Owned, OwnPosition
    <2> QED BY <2>1, <2>2
  <1> QED BY <1>1, <1>2 DEF Owned, OwnPosition

(***************************************************************************)
(* A destructor kills in the registry of its own object and of no other    *)
(* (Players.cpp:18-21).                                                    *)
(***************************************************************************)
LEMMA OneLess ==
    ASSUME Owned, OwnPosition, NEW o \in DOMAIN things, destroy(o)
    PROVE  Owned' /\ OwnPosition'
  <1> DEFINE D == DOMAIN things \ {o}
             M == Destructed(things[o])
  <1>1. /\ things' = Restrict(things, D)
        /\ memory' = Restrict(M, {things[x].place : x \in D})
    BY DEF destroy
  <1>2. {things[x].place : x \in D} = D
    BY DEF Owned
  <1>3. \A x \in D : M[x] = memory[x]
    BY DEF Destructed, Owned
  <1> HIDE DEF M
  <1>4. /\ DOMAIN things' = D /\ DOMAIN memory' = D
        /\ \A x \in D : things'[x] = things[x] /\ memory'[x] = memory[x]
    BY <1>1, <1>2, <1>3 DEF Restrict
  <1> QED BY <1>4 DEF Owned, OwnPosition

LEMMA NewRegistryInv ==
    ASSUME RegistryInit
    PROVE  RegistryInv(registry) /\ Pool!PoolInit
  <1>1. /\ registry.nextEntity = 0 /\ registry.deadEntities = <<>>
        /\ registry.arrays = [c \in Components |-> {}]
        /\ registry \in [nextEntity : Nat, deadEntities : Seq(Nat),
                         arrays : [Components -> SUBSET Nat]]
    BY DEF RegistryInit, NewRegistry
  <1>2. Range(registry.deadEntities) = {} /\ Living(registry) = {}
    BY <1>1 DEF Living, Range
  <1> QED BY <1>1, <1>2 DEF RegistryInv, IsRegistry, DeadOnce, IsInjective,
                            NothingLeftBehind, Pool!PoolInit

LEMMA EntitiesStep ==
    ASSUME EntitiesIInv, [EntitiesNext]_entityVars
    PROVE  EntitiesIInv' /\ [Pool!PoolNext]_Pool!poolVars
  <1>0. RegistryInv(registry) /\ Owned /\ OwnPosition /\ ~thrown
    BY DEF EntitiesIInv, RegistryOK, ComponentsAlive, RegistryInv, NothingThrown
  <1>a. SUFFICES /\ RegistryInv(registry)' /\ Owned' /\ OwnPosition' /\ thrown' = FALSE
                 /\ [Pool!PoolNext]_Pool!poolVars
    BY DEF EntitiesIInv, RegistryOK, ComponentsAlive, RegistryInv, NothingThrown
  <1>b. ASSUME UNCHANGED registry
        PROVE  RegistryInv(registry)' /\ [Pool!PoolNext]_Pool!poolVars
    BY <1>0, <1>b DEF RegistryInv, Pool!poolVars
  <1>1. ASSUME NEW t \in Threads, construct(t)
        PROVE  UNCHANGED registry /\ Owned' /\ OwnPosition' /\ thrown' = FALSE
    <2> DEFINE r == Constructed(registry)
               w == [place |-> t, entity |-> Spawned(registry)]
    <2>1. ~Throws /\ has_component(r, "Position", w.entity)
      BY <1>0, ConstructedOwnsPosition DEF RegistryInv, Throws
    <2>2. /\ memory' = Inserted(memory, t, r) /\ things' = Inserted(things, t, w)
          /\ thrown' = FALSE /\ registry' = registry /\ t \notin DOMAIN things
      BY <1>0, <1>1, <2>1 DEF construct
    <2> HIDE DEF r
    <2>3. /\ DOMAIN things' = DOMAIN things \cup {t}
          /\ DOMAIN memory' = DOMAIN memory \cup {t}
          /\ things'[t] = w /\ memory'[t] = r
          /\ \A x \in DOMAIN things : things'[x] = things[x] /\ memory'[x] = memory[x]
      BY <1>0, <2>2 DEF Owned, Inserted
    <2>4. Owned' /\ OwnPosition'
      BY <1>0, <2>1, <2>2, <2>3, OneMore
    <2> QED BY <2>2, <2>4
  <1>2. ASSUME NEW t \in Threads, NEW k \in Keys, emplace(t, k)
        PROVE  UNCHANGED registry /\ Owned' /\ OwnPosition' /\ thrown' = FALSE
    <2> DEFINE r == memory[things[t].place]
               w == [place |-> k, entity |-> things[t].entity]
    <2>1. /\ t \in DOMAIN things
          /\ things' = Inserted(things, k, w) /\ memory' = Inserted(memory, k, r)
          /\ thrown' = FALSE /\ registry' = registry
      BY <1>0, <1>2 DEF emplace
    <2>2. CASE k \in DOMAIN things
      <3>1. /\ DOMAIN things' = DOMAIN things /\ DOMAIN memory' = DOMAIN memory
            /\ \A x \in DOMAIN things : things'[x] = things[x] /\ memory'[x] = memory[x]
        BY <1>0, <2>1, <2>2 DEF Owned, Inserted
      <3> QED BY <1>0, <2>1, <3>1 DEF Owned, OwnPosition
    <2>3. CASE k \notin DOMAIN things
      <3>1. "Position" \in DOMAIN r.arrays => has_component(r, "Position", things[t].entity)
        BY <1>0, <2>1 DEF OwnPosition
      <3>2. w.place = k /\ w.entity = things[t].entity
        BY <1>0, <2>1
      <3>3. /\ DOMAIN things' = DOMAIN things \cup {k}
            /\ DOMAIN memory' = DOMAIN memory \cup {k}
            /\ things'[k] = w /\ memory'[k] = r
            /\ \A x \in DOMAIN things : things'[x] = things[x] /\ memory'[x] = memory[x]
        BY <1>0, <2>1, <2>3 DEF Owned, Inserted
      <3> HIDE DEF r, w
      <3>4. Owned' /\ OwnPosition'
        BY <1>0, <2>3, <3>1, <3>2, <3>3, OneMore
      <3> QED BY <2>1, <3>4
    <2> QED BY <2>2, <2>3
  <1>3. ASSUME NEW k \in PlayerKeys, index(k)
        PROVE  UNCHANGED registry /\ Owned' /\ OwnPosition' /\ thrown' = FALSE
    <2> DEFINE w == [place |-> k, entity |-> 0]
    <2>1. /\ things' = Inserted(things, k, w) /\ memory' = Inserted(memory, k, EmptyRegistry)
          /\ thrown' = FALSE /\ registry' = registry /\ k \notin DOMAIN things
      BY <1>0, <1>3 DEF index
    <2>2. DOMAIN EmptyRegistry.arrays = {}
      BY DEF EmptyRegistry
    <2>3. /\ DOMAIN things' = DOMAIN things \cup {k}
          /\ DOMAIN memory' = DOMAIN memory \cup {k}
          /\ things'[k] = w /\ memory'[k] = EmptyRegistry
          /\ \A x \in DOMAIN things : things'[x] = things[x] /\ memory'[x] = memory[x]
      BY <1>0, <2>1 DEF Owned, Inserted
    <2>4. Owned' /\ OwnPosition'
      BY <1>0, <2>1, <2>2, <2>3, OneMore
    <2> QED BY <2>1, <2>4
  <1>4. ASSUME NEW o \in DOMAIN things, destroy(o)
        PROVE  UNCHANGED registry /\ Owned' /\ OwnPosition' /\ thrown' = FALSE
    BY <1>0, <1>4, OneLess DEF destroy
  <1>5. CASE UseRegistry
    <2>1. RegistryInv(registry)' /\ [Pool!PoolNext]_Pool!poolVars
      BY <1>0, <1>5, RegistryStep DEF UseRegistry
    <2> QED BY <1>0, <1>5, <2>1 DEF UseRegistry, Owned, OwnPosition
  <1>6. CASE UNCHANGED entityVars
    BY <1>0, <1>6, <1>b DEF entityVars, Owned, OwnPosition
  <1> QED BY <1>b, <1>1, <1>2, <1>3, <1>4, <1>5, <1>6
          DEF EntitiesNext, destroyTemporary, remove

LEMMA EntitiesStart ==
    ASSUME EntitiesInit
    PROVE  EntitiesIInv /\ Pool!PoolInit
  <1>1. RegistryInv(registry) /\ Pool!PoolInit
    BY NewRegistryInv DEF EntitiesInit
  <1>2. Owned /\ OwnPosition /\ NothingThrown
    BY DEF EntitiesInit, Owned, OwnPosition, NothingThrown
  <1> QED BY <1>1, <1>2 DEF EntitiesIInv, RegistryOK, ComponentsAlive, RegistryInv

(***************************************************************************)
(* Every id of the registry is alive or dead, once (Registry.hpp:23-41).   *)
(***************************************************************************)
THEOREM RegistryInOrder == EntitiesSpec => []RegistryOK
  <1>1. EntitiesInit => EntitiesIInv
    BY EntitiesStart
  <1>2. EntitiesIInv /\ [EntitiesNext]_entityVars => EntitiesIInv'
    BY EntitiesStep
  <1>3. EntitiesIInv => RegistryOK
    BY DEF EntitiesIInv
  <1> QED BY <1>1, <1>2, <1>3, PTL DEF EntitiesSpec

(***************************************************************************)
(* Components belong to the living: an id that is used again comes without *)
(* those of its last owner (Registry.hpp:37-39,81,95-98).                  *)
(***************************************************************************)
THEOREM RegistryCleansUp == EntitiesSpec => []ComponentsAlive
  <1>1. EntitiesInit => EntitiesIInv
    BY EntitiesStart
  <1>2. EntitiesIInv /\ [EntitiesNext]_entityVars => EntitiesIInv'
    BY EntitiesStep
  <1>3. EntitiesIInv => ComponentsAlive
    BY DEF EntitiesIInv
  <1> QED BY <1>1, <1>2, <1>3, PTL DEF EntitiesSpec

(***************************************************************************)
(* No destructor kills the entity of another object, not even that of the  *)
(* temporary an object was copied from: whoever was built from the game's  *)
(* registry has its Position as long as it is there                        *)
(* (AGame.cpp:69-70,84,102, Players.cpp:18-21, Game.cpp:311-312).          *)
(***************************************************************************)
THEOREM ObjectsInOrder == EntitiesSpec => []OwnPosition
  <1>1. EntitiesInit => EntitiesIInv
    BY EntitiesStart
  <1>2. EntitiesIInv /\ [EntitiesNext]_entityVars => EntitiesIInv'
    BY EntitiesStep
  <1>3. EntitiesIInv => OwnPosition
    BY DEF EntitiesIInv
  <1> QED BY <1>1, <1>2, <1>3, PTL DEF EntitiesSpec

(***************************************************************************)
(* No constructor throws: the entity just spawned exists (Registry.hpp:81). *)
(***************************************************************************)
THEOREM ObjectsBuilt == EntitiesSpec => []NothingThrown
  <1>1. EntitiesInit => EntitiesIInv
    BY EntitiesStart
  <1>2. EntitiesIInv /\ [EntitiesNext]_entityVars => EntitiesIInv'
    BY EntitiesStep
  <1>3. EntitiesIInv => NothingThrown
    BY DEF EntitiesIInv
  <1> QED BY <1>1, <1>2, <1>3, PTL DEF EntitiesSpec

(***************************************************************************)
(* The registry implements the dispenser of ids.                           *)
(***************************************************************************)
THEOREM RegistryImplementsPool == EntitiesSpec => EntitiesFromPool
  <1>1. EntitiesInit => EntitiesIInv /\ Pool!PoolInit
    BY EntitiesStart
  <1>2. EntitiesIInv /\ [EntitiesNext]_entityVars => EntitiesIInv'
    BY EntitiesStep
  <1>3. EntitiesIInv /\ [EntitiesNext]_entityVars => [Pool!PoolNext]_Pool!poolVars
    BY EntitiesStep
  <1> QED BY <1>1, <1>2, <1>3, PTL DEF EntitiesSpec, EntitiesFromPool, Pool!PoolSpec
================================================================================
