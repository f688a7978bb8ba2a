------------------------------ MODULE ClientTable ------------------------------
(***************************************************************************)
(* The server's table of clients (Server/src/Server.cpp): the map clients_ *)
(* from ids to endpoints, the FIFO available_ids_ of ids that were given   *)
(* back, and the counter _nbClients from which fresh ids are drawn.        *)
(*                                                                         *)
(* Both operations run under clients_mutex_ from their first read to their *)
(* last write, so each is one step.                                        *)
(*                                                                         *)
(* An id is a uint32_t in the code and a natural number here: IdsBounded   *)
(* shows that the counter never passes the number of endpoints, however    *)
(* often they come and go, so that the width of the code is not what       *)
(* limits it.                                                              *)
(***************************************************************************)
EXTENDS Naturals, Sequences, FiniteSets, Functions

CONSTANT Endpoints          \* the UDP endpoints that can reach the server

ASSUME EndpointsFinite == IsFiniteSet(Endpoints)

VARIABLES
    clients,                \* clients_: id -> endpoint
    available_ids,          \* available_ids_: ids given back, oldest first
    nbClients               \* _nbClients: the next fresh id

tableVars == <<clients, available_ids, nbClients>>

Ids == 0 .. nbClients - 1   \* every id ever drawn from the counter

FreeIds == Range(available_ids)

Registered == Range(clients)

\* std::map::insert: a key that is in the map keeps its value.
Insert(f, k, v) ==
    [i \in DOMAIN f \cup {k} |-> IF i \in DOMAIN f THEN f[i] ELSE v]

--------------------------------------------------------------------------------
TableInit ==
    /\ clients = <<>>
    /\ available_ids = <<>>
    /\ nbClients = 0

(***************************************************************************)
(* Plausible bugs of createClient and disconnectData, used as mutants.     *)
(***************************************************************************)

\* The search for an endpoint that is already registered is dropped.
createClientNoLookup(e) ==
    \/ /\ available_ids # <<>>
       /\ available_ids' = Tail(available_ids)
       /\ clients' = Insert(clients, Head(available_ids), e)
       /\ UNCHANGED nbClients
    \/ /\ available_ids = <<>>
       /\ nbClients' = nbClients + 1
       /\ clients' = Insert(clients, nbClients, e)
       /\ UNCHANGED available_ids

\* front() without pop(): the id stays available after it was handed out.
createClientNoPop(e) ==
    \/ /\ e \in Registered
       /\ UNCHANGED tableVars
    \/ /\ e \notin Registered /\ available_ids # <<>>
       /\ clients' = Insert(clients, Head(available_ids), e)
       /\ UNCHANGED <<available_ids, nbClients>>
    \/ /\ e \notin Registered /\ available_ids = <<>>
       /\ nbClients' = nbClients + 1
       /\ clients' = Insert(clients, nbClients, e)
       /\ UNCHANGED available_ids

\* A fresh id is drawn without advancing the counter.
createClientNoCount(e) ==
    \/ /\ e \in Registered
       /\ UNCHANGED tableVars
    \/ /\ e \notin Registered /\ available_ids # <<>>
       /\ available_ids' = Tail(available_ids)
       /\ clients' = Insert(clients, Head(available_ids), e)
       /\ UNCHANGED nbClients
    \/ /\ e \notin Registered /\ available_ids = <<>>
       /\ clients' = Insert(clients, nbClients, e)
       /\ UNCHANGED <<available_ids, nbClients>>

\* The ids that were given back are never looked at.
createClientAlwaysFresh(e) ==
    \/ /\ e \in Registered
       /\ UNCHANGED tableVars
    \/ /\ e \notin Registered
       /\ nbClients' = nbClients + 1
       /\ clients' = Insert(clients, nbClients, e)
       /\ UNCHANGED available_ids

--------------------------------------------------------------------------------
(***************************************************************************)
(* createClient: an endpoint that is registered keeps its id; otherwise    *)
(* the oldest id given back is used again, and only when there is none is  *)
(* a fresh one drawn.                                                      *)
(***************************************************************************)
createClient(e) ==
    \/ /\ e \in Registered
       /\ UNCHANGED tableVars
    \/ /\ e \notin Registered /\ available_ids # <<>>
       /\ available_ids' = Tail(available_ids)
       /\ clients' = Insert(clients, Head(available_ids), e)
       /\ UNCHANGED nbClients
    \/ /\ e \notin Registered /\ available_ids = <<>>
       /\ nbClients' = nbClients + 1
       /\ clients' = Insert(clients, nbClients, e)
       /\ UNCHANGED available_ids

(***************************************************************************)
(* The part of disconnectData under the lock, for an endpoint that is      *)
(* registered.  The loop over the map stops at the first match, which is   *)
(* the smallest id bound to the endpoint.                                  *)
(***************************************************************************)
FirstId(e) ==
    CHOOSE i \in DOMAIN clients :
        /\ clients[i] = e
        /\ \A j \in DOMAIN clients : clients[j] = e => i <= j

disconnectData(e) ==
    /\ e \in Registered
    /\ available_ids' = Append(available_ids, FirstId(e))
    /\ clients' = Restrict(clients, DOMAIN clients \ {FirstId(e)})
    /\ UNCHANGED nbClients

TableNext == \E e \in Endpoints : createClient(e) \/ disconnectData(e)

TableSpec == TableInit /\ [][TableNext]_tableVars

--------------------------------------------------------------------------------
(***************************************************************************)
(* The types of the three variables.                                       *)
(***************************************************************************)
TableTypeOK ==
    /\ nbClients \in Nat
    /\ available_ids \in Seq(Ids)
    /\ DOMAIN clients \subseteq Ids
    /\ clients \in [DOMAIN clients -> Endpoints]

(***************************************************************************)
(* Every id drawn so far is in exactly one place: bound to one client, or  *)
(* once in the queue of ids given back.  createClient may therefore insert *)
(* under the id it takes without looking whether the id is in use          *)
(* (Server.cpp:100-106), and no id leaks.                                  *)
(***************************************************************************)
IdPartition ==
    /\ FreeIds \cup DOMAIN clients = Ids
    /\ FreeIds \cap DOMAIN clients = {}
    /\ IsInjective(available_ids)

(***************************************************************************)
(* No endpoint is registered under two ids, whatever the order in which    *)
(* endpoints come and go and ids are used again (Server.cpp:96-99).        *)
(***************************************************************************)
OneIdPerEndpoint == IsInjective(clients)

(***************************************************************************)
(* The counter is bounded by the number of endpoints: leaving and coming   *)
(* back never makes the ids grow (Server.cpp:100-104), so that the         *)
(* uint32_t does not wrap in a long-lived server.                          *)
(***************************************************************************)
IdsBounded == nbClients <= Cardinality(Endpoints)

(***************************************************************************)
(* While a client stays registered its id keeps naming it, and it keeps    *)
(* its id: the game addresses players by client id from other threads      *)
(* (PacketHandler.cpp:123-131), and would otherwise move someone else.     *)
(***************************************************************************)
BindingKept ==
    /\ \A i \in DOMAIN clients \cap DOMAIN clients' : clients'[i] = clients[i]
    /\ \A i \in DOMAIN clients, j \in DOMAIN clients' :
           clients'[j] = clients[i] => i = j

BindingStable == [][BindingKept]_tableVars

(***************************************************************************)
(* The table is a dispenser of ids: whatever the order in which endpoints  *)
(* come, leave and come back, an id is taken from those given back before  *)
(* a fresh one is drawn, and given back by its holder only                 *)
(* (Server.cpp:100-106,133-141).                                           *)
(***************************************************************************)
Pool == INSTANCE IdPool WITH used <- DOMAIN clients, drawn <- nbClients

TableFromPool == Pool!PoolSpec
================================================================================
