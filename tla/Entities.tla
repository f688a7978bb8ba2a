------------------------------- MODULE Entities -------------------------------
(***************************************************************************)
(* The objects of the game: Player, Bullet, Enemy and Boss                 *)
(* (R-Type/src/Players.cpp, Bullet.cpp, Enemy.cpp, Boss.cpp), which share  *)
(* one shape, in the game's maps of them (AGame.hpp:47-48).                *)
(*                                                                         *)
(* Each object holds a registry, a copy of the game's taken when it is     *)
(* built, and one entity of it.  A thread that spawns one builds a         *)
(* temporary, has emplace copy it into the map, and destroys it; its       *)
(* destructor kills the entity.  Which registry that is, is what the model *)
(* is about: objects refer to registries in memory, so that two of them    *)
(* could share one.  players[id] makes a default Player of an id that is   *)
(* not in the map, with an empty registry and entity 0.                    *)
(*                                                                         *)
(* The game makes no use of its own registry but to have it copied.  Here  *)
(* it may be used in any way the class allows, so that the properties do   *)
(* not depend on that.                                                     *)
(***************************************************************************)
EXTENDS Registry

CONSTANTS
    Keys,           \* what the maps use as keys: kinds of objects with ids
    PlayerKeys,     \* those of players
    Threads         \* who spawns; each has one temporary at a time

ASSUME PositionAssumption == "Position" \in Components

ASSUME ObjectsAssumption == PlayerKeys \subseteq Keys /\ Keys \cap Threads = {}

VARIABLES
    memory,         \* the objects' registries, by the object made with them
    things,         \* players, bullets, enemies_, bosses_ and the temporaries
    emplaced,       \* the threads whose temporary was copied into its map
    thrown          \* an exception that nothing catches

entityVars == <<registry, memory, things, emplaced, thrown>>

EntitiesInit ==
    /\ RegistryInit
    /\ memory = <<>>
    /\ things = <<>>
    /\ emplaced = {}
    /\ thrown = FALSE

\* A key that is in a map keeps its value.
Inserted(f, k, v) ==
    [x \in DOMAIN f \cup {k} |-> IF x \in DOMAIN f THEN f[x] ELSE v]

\* The parameter of a constructor is a copy of the game's registry, and the
\* member one of the parameter.
Constructed(r) == insert_at(spawn_entity(r), "Position", Spawned(r))

Throws == ~entity_exists(spawn_entity(registry), Spawned(registry))

\* Player(registry, x, y) and the like: add_component throws when the registry
\* does not know the entity it has just spawned.
construct(t) ==
    /\ t \notin DOMAIN things
    /\ IF Throws
       THEN thrown' = TRUE /\ UNCHANGED <<memory, things>>
       ELSE /\ memory' = Inserted(memory, t, Constructed(registry))
            /\ things' = Inserted(things, t, [place |-> t, entity |-> Spawned(registry)])
            /\ UNCHANGED thrown
    /\ UNCHANGED <<registry, emplaced>>

\* Mutant: the copy of an object has the registry of the original.
emplaceSharing(t, k) ==
    /\ t \in DOMAIN things \ emplaced
    /\ emplaced' = emplaced \cup {t}
    /\ things' = Inserted(things, k, things[t])
    /\ UNCHANGED <<registry, memory, thrown>>

\* std::map::emplace: the copy constructor, member by member.
emplace(t, k) ==
    /\ t \in DOMAIN things \ emplaced
    /\ emplaced' = emplaced \cup {t}
    /\ things' = Inserted(things, k, [place |-> k, entity |-> things[t].entity])
    /\ memory' = Inserted(memory, k, memory[things[t].place])
    /\ UNCHANGED <<registry, thrown>>

\* players[id] of nobody.
index(k) ==
    /\ k \notin DOMAIN things
    /\ things' = Inserted(things, k, [place |-> k, entity |-> 0])
    /\ memory' = Inserted(memory, k, EmptyRegistry)
    /\ UNCHANGED <<registry, emplaced, thrown>>

\* The destructors, which ask before they kill.
Destructed(w) ==
    IF entity_exists(memory[w.place], w.entity)
    THEN [memory EXCEPT ![w.place] = kill_entity(@, w.entity)]
    ELSE memory

\* An object is destroyed, and memory nobody refers to any more is gone.
destroy(o) ==
    /\ things' = Restrict(things, DOMAIN things \ {o})
    /\ memory' = Restrict(Destructed(things[o]),
                          {things[x].place : x \in DOMAIN things \ {o}})
    /\ emplaced' = emplaced \ {o}
    /\ UNCHANGED <<registry, thrown>>

\* The temporary, at the end of the statement that spawns.
destroyTemporary(t) == t \in emplaced \cap DOMAIN things /\ destroy(t)

\* removeEntities and stop erase an object of a map.
remove(k) == k \in DOMAIN things /\ destroy(k)

UseRegistry == RegistryNext /\ UNCHANGED <<memory, things, emplaced, thrown>>

EntitiesNext ==
    /\ ~thrown
    /\ \/ \E t \in Threads : construct(t) \/ destroyTemporary(t)
       \/ \E t \in Threads, k \in Keys : emplace(t, k)
       \/ \E k \in PlayerKeys : index(k)
       \/ \E k \in Keys : remove(k)
       \/ UseRegistry

EntitiesSpec == EntitiesInit /\ [][EntitiesNext]_entityVars

--------------------------------------------------------------------------------
(***************************************************************************)
(* Every object that was built from the game's registry has its entity,    *)
(* with a Position, in the registry it refers to, also after the temporary *)
(* it was copied from has killed its own entity of the same id:            *)
(* detectOutOfBounds and checkCollision dereference it unasked             *)
(* (Game.cpp:311-312,395-396), and AGame.cpp:69-70 does.  It is not so of  *)
(* the players that players[id] makes (Game.cpp:173, Players.cpp:11),      *)
(* which have no array to look into.                                       *)
(***************************************************************************)
OwnPosition ==
    \A o \in DOMAIN things :
        LET r == memory[things[o].place] IN
        "Position" \in DOMAIN r.arrays => has_component(r, "Position", things[o].entity)

(***************************************************************************)
(* No constructor throws: the registry knows the entity it has spawned.    *)
(* It would not if an entity had been killed twice: the first of the two   *)
(* entries taken from the stack leaves the other there (Registry.hpp:      *)
(* 24-27,40,81).                                                           *)
(***************************************************************************)
NothingThrown == ~thrown
================================================================================
