------------------------------- MODULE Registry -------------------------------
(***************************************************************************)
(* The ECS registry (ECS/Registry.hpp) with its sparse arrays of           *)
(* components (ECS/components/SparseArray.hpp).                            *)
(*                                                                         *)
(* A registry is a value: classes copy it freely, and every Player,        *)
(* Bullet, Enemy and Boss has one of its own (module Entities).  Its       *)
(* operations are therefore operators on a record, and the actions below   *)
(* apply them to the registry of the game.  A sparse array is the set of   *)
(* the ids for which it holds a value; how far its vector was resized and  *)
(* the values themselves make no difference to the operations.             *)
(*                                                                         *)
(* All calls come from one thread at a time, and kill_entity is called the *)
(* way the destructors call it: only after entity_exists.                  *)
(***************************************************************************)
EXTENDS Naturals, Sequences, Functions

CONSTANTS
    Components,     \* the component types, all registered at the start
    MaxEntity       \* bound: ids drawn by one registry

ASSUME RegistryAssumption == MaxEntity \in Nat

VARIABLE registry   \* AGame::registry

\* registerComponents on a new registry: no entity, and no value in any array.
NewRegistry ==
    [nextEntity |-> 0, deadEntities |-> <<>>, arrays |-> [c \in Components |-> {}]]

\* A registry as its class makes it: no component type is registered.
EmptyRegistry == [nextEntity |-> 0, deadEntities |-> <<>>, arrays |-> <<>>]

Entities == 0 .. MaxEntity

Living(r) == (0 .. r.nextEntity - 1) \ Range(r.deadEntities)

entity_exists(r, e) == e \in Living(r)

has_component(r, c, e) ==
    entity_exists(r, e) /\ c \in DOMAIN r.arrays /\ e \in r.arrays[c]

\* The id spawn_entity returns: the one killed last, or a fresh one.
Spawned(r) ==
    IF r.deadEntities = <<>> THEN r.nextEntity
                             ELSE r.deadEntities[Len(r.deadEntities)]

\* Mutant: the dead ones are not looked at.
spawnFresh(r) == [r EXCEPT !.nextEntity = @ + 1]

spawn_entity(r) ==
    IF r.deadEntities = <<>>
    THEN [r EXCEPT !.nextEntity = @ + 1]
    ELSE [r EXCEPT !.deadEntities = SubSeq(@, 1, Len(@) - 1)]

\* Mutant: the erase functions are not run.
killKeepsComponents(r, e) == [r EXCEPT !.deadEntities = Append(@, e)]

\* The erase function of every registered component, then the id is put on
\* the stack, whether or not it is there already.
kill_entity(r, e) ==
    [r EXCEPT !.deadEntities = Append(@, e),
              !.arrays = [c \in DOMAIN @ |-> @[c] \ {e}]]

insert_at(r, c, e) == [r EXCEPT !.arrays[c] = @ \cup {e}]

erase(r, c, e) == [r EXCEPT !.arrays[c] = @ \ {e}]

--------------------------------------------------------------------------------
RegistryInit == registry = NewRegistry

SpawnEntity ==
    /\ registry.nextEntity < MaxEntity \/ registry.deadEntities # <<>>
    /\ registry' = spawn_entity(registry)

\* Mutant: the destructor kills without asking whether the entity exists.
DestroyUnasked(e) == registry' = kill_entity(registry, e)

\* What every destructor does with its entity, which may be gone by then.
Destroy(e) ==
    IF entity_exists(registry, e) THEN registry' = kill_entity(registry, e)
                                  ELSE UNCHANGED registry

\* add_component and emplace_component throw when there is no such entity.
AddComponent(c, e) ==
    IF entity_exists(registry, e) THEN registry' = insert_at(registry, c, e)
                                  ELSE UNCHANGED registry

\* remove_component does not ask.
RemoveComponent(c, e) == registry' = erase(registry, c, e)

RegistryNext ==
    \/ SpawnEntity
    \/ \E e \in Entities : Destroy(e)
    \/ \E e \in Entities, c \in Components :
           AddComponent(c, e) \/ RemoveComponent(c, e)

RegistrySpec == RegistryInit /\ [][RegistryNext]_registry

--------------------------------------------------------------------------------
IsRegistry(r) ==
    /\ r \in [nextEntity : Nat, deadEntities : Seq(Nat),
              arrays : [Components -> SUBSET Nat]]

(***************************************************************************)
(* Every id drawn is alive or once on the stack of dead ones, so that      *)
(* spawn_entity never hands out an id that is in use: "Identified by       *)
(* unique IDs" (Documentation/ECS_README.md).  kill_entity does not see to *)
(* it (Registry.hpp:36-41): its callers do.                                *)
(***************************************************************************)
DeadOnce(r) ==
    /\ Range(r.deadEntities) \subseteq 0 .. r.nextEntity - 1
    /\ IsInjective(r.deadEntities)

(***************************************************************************)
(* Components belong to living entities: an id that is used again starts   *)
(* without what its last owner left behind (Registry.hpp:37-39,81,95-98).  *)
(***************************************************************************)
NothingLeftBehind(r) == \A c \in Components : r.arrays[c] \subseteq Living(r)

RegistryOK == IsRegistry(registry) /\ DeadOnce(registry)

ComponentsAlive == NothingLeftBehind(registry)

(***************************************************************************)
(* The registry's ids implement the dispenser of ids.                      *)
(***************************************************************************)
Pool == INSTANCE IdPool WITH
    used <- Living(registry), drawn <- registry.nextEntity

EntitiesFromPool == Pool!PoolSpec
================================================================================
