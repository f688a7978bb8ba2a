--------------------------- MODULE ClientTableProofs ---------------------------
(***************************************************************************)
(* What ClientTable promises for every set of endpoints.  The invariants   *)
(* are not inductive one by one: that an id taken from the queue is not in *)
(* use needs IdPartition, that disconnectData removes the only binding of  *)
(* an endpoint needs OneIdPerEndpoint, and both need the types.            *)
(***************************************************************************)
EXTENDS ClientTable, FiniteSetTheorems, SequenceTheorems, TLAPS

TableInv == TableTypeOK /\ IdPartition /\ OneIdPerEndpoint

--------------------------------------------------------------------------------
(* Facts about the data structures. *)

\* pop() on the queue of ids: the head leaves, nothing else changes.
LEMMA TailFacts ==
    ASSUME NEW S, NEW s \in Seq(S), s # <<>>, IsInjective(s)
    PROVE  /\ Head(s) \in Range(s)
           /\ Head(s) \in S
           /\ Tail(s) \in Seq(S)
           /\ Range(Tail(s)) = Range(s) \ {Head(s)}
           /\ IsInjective(Tail(s))
<1>1. /\ Head(s) \in S /\ Head(s) = s[1]
      /\ Tail(s) \in Seq(S)
      /\ Len(Tail(s)) = Len(s) - 1
      /\ \A i \in 1 .. Len(Tail(s)) : Tail(s)[i] = s[i+1]
  BY HeadTailProperties
<1>2. /\ DOMAIN s = 1 .. Len(s) /\ DOMAIN Tail(s) = 1 .. Len(s) - 1
      /\ Len(s) \in Nat \ {0}
  BY <1>1, LenProperties, EmptySeq
<1>3. Head(s) \in Range(s)
  BY <1>1, <1>2 DEF Range
<1>4. IsInjective(Tail(s))
  BY <1>1, <1>2 DEF IsInjective
<1>5. Range(Tail(s)) \subseteq Range(s) \ {Head(s)}
  BY <1>1, <1>2 DEF Range, IsInjective
<1>6. ASSUME NEW x \in Range(s) \ {Head(s)} PROVE x \in Range(Tail(s))
  <2>1. PICK i \in 1 .. Len(s) : x = s[i]
    BY <1>2 DEF Range
  <2>2. i - 1 \in 1 .. Len(s) - 1 /\ Tail(s)[i - 1] = x
    BY <1>1, <1>2, <2>1
  <2> QED
    BY <1>2, <2>2 DEF Range
<1> QED
  BY <1>1, <1>3, <1>4, <1>5, <1>6

\* push() of an id that is not in the queue.
LEMMA AppendFacts ==
    ASSUME NEW S, NEW s \in Seq(S), NEW x \in S
    PROVE  /\ Append(s, x) \in Seq(S)
           /\ Range(Append(s, x)) = Range(s) \cup {x}
           /\ IsInjective(s) /\ x \notin Range(s) => IsInjective(Append(s, x))
<1>1. /\ Append(s, x) \in Seq(S)
      /\ Len(Append(s, x)) = Len(s) + 1
      /\ \A i \in 1 .. Len(s) : Append(s, x)[i] = s[i]
      /\ Append(s, x)[Len(s) + 1] = x
  BY AppendProperties
<1>2. /\ DOMAIN s = 1 .. Len(s) /\ DOMAIN Append(s, x) = 1 .. Len(s) + 1
      /\ Len(s) \in Nat
  BY <1>1, LenProperties
<1>3. Range(Append(s, x)) = Range(s) \cup {x}
  BY <1>1, <1>2 DEF Range
<1>4. ASSUME IsInjective(s), x \notin Range(s) PROVE IsInjective(Append(s, x))
  BY <1>1, <1>2, <1>4 DEF Range, IsInjective
<1> QED
  BY <1>1, <1>3, <1>4

\* The loop of disconnectData finds an id of the endpoint.
LEMMA FirstIdFacts ==
    ASSUME TableTypeOK, OneIdPerEndpoint, NEW e, e \in Registered
    PROVE  FirstId(e) \in DOMAIN clients /\ clients[FirstId(e)] = e
<1>1. PICK i \in DOMAIN clients : clients[i] = e
  BY DEF Registered, Range
<1>2. i \in Nat
  BY DEF TableTypeOK, Ids
<1>3. \A j \in DOMAIN clients : clients[j] = e => i <= j
  BY <1>1, <1>2 DEF OneIdPerEndpoint, IsInjective
<1> QED
  BY <1>1, <1>3 DEF FirstId

--------------------------------------------------------------------------------
(* One lemma per operation. *)

\* createClient keeps the table sound, whichever way it finds an id.
LEMMA CreateClientStep ==
    ASSUME TableInv, NEW e \in Endpoints, createClient(e)
    PROVE  TableInv' /\ BindingKept
<1> USE DEF TableInv
<1>1. CASE UNCHANGED tableVars
  BY <1>1 DEF TableTypeOK, IdPartition, OneIdPerEndpoint, Ids, FreeIds,
              BindingKept, tableVars, IsInjective
<1>2. CASE /\ e \notin Registered /\ available_ids # <<>>
           /\ available_ids' = Tail(available_ids)
           /\ clients' = Insert(clients, Head(available_ids), e)
           /\ UNCHANGED nbClients
  <2> DEFINE h == Head(available_ids)
  <2>1. /\ h \in FreeIds /\ h \in Ids
        /\ available_ids' \in Seq(Ids)
        /\ Range(available_ids') = FreeIds \ {h}
        /\ IsInjective(available_ids')
    BY <1>2, TailFacts DEF TableTypeOK, IdPartition, FreeIds
  <2>2. h \notin DOMAIN clients
    BY <2>1 DEF IdPartition
  <2>3. /\ DOMAIN clients' = DOMAIN clients \cup {h}
        /\ \A i \in DOMAIN clients : clients'[i] = clients[i]
        /\ clients'[h] = e
        /\ clients' \in [DOMAIN clients \cup {h} -> Endpoints]
        /\ IsInjective(clients')
    <3>1. /\ clients \in [DOMAIN clients -> Endpoints]
          /\ IsInjective(clients) /\ e \notin Range(clients)
      BY <1>2 DEF TableTypeOK, OneIdPerEndpoint, Registered
    <3>2. /\ DOMAIN Insert(clients, h, e) = DOMAIN clients \cup {h}
          /\ \A i \in DOMAIN clients : Insert(clients, h, e)[i] = clients[i]
          /\ Insert(clients, h, e)[h] = e
          /\ Insert(clients, h, e) \in [DOMAIN clients \cup {h} -> Endpoints]
          /\ IsInjective(Insert(clients, h, e))
      BY <2>2, <3>1 DEF Insert, IsInjective, Range
    <3> QED
      BY <1>2, <3>2
  <2>4. Ids' = Ids
    BY <1>2 DEF Ids
  <2>5. TableTypeOK'
    BY <1>2, <2>1, <2>3, <2>4 DEF TableTypeOK
  <2>6. IdPartition'
    BY <2>1, <2>2, <2>3, <2>4 DEF IdPartition, FreeIds
  <2>7. BindingKept
    BY <1>2, <2>3 DEF BindingKept, OneIdPerEndpoint, IsInjective, Registered, Range
  <2> QED
    BY <2>3, <2>5, <2>6, <2>7 DEF OneIdPerEndpoint
<1>3. CASE /\ e \notin Registered /\ available_ids = <<>>
           /\ nbClients' = nbClients + 1
           /\ clients' = Insert(clients, nbClients, e)
           /\ UNCHANGED available_ids
  <2>1. nbClients \in Nat /\ nbClients \notin DOMAIN clients
    BY DEF TableTypeOK, Ids
  <2>2. /\ DOMAIN clients' = DOMAIN clients \cup {nbClients}
        /\ \A i \in DOMAIN clients : clients'[i] = clients[i]
        /\ clients'[nbClients] = e
        /\ clients' \in [DOMAIN clients \cup {nbClients} -> Endpoints]
        /\ IsInjective(clients')
    <3>1. /\ clients \in [DOMAIN clients -> Endpoints]
          /\ IsInjective(clients) /\ e \notin Range(clients)
      BY <1>3 DEF TableTypeOK, OneIdPerEndpoint, Registered
    <3>2. /\ DOMAIN Insert(clients, nbClients, e) = DOMAIN clients \cup {nbClients}
          /\ \A i \in DOMAIN clients : Insert(clients, nbClients, e)[i] = clients[i]
          /\ Insert(clients, nbClients, e)[nbClients] = e
          /\ Insert(clients, nbClients, e) \in [DOMAIN clients \cup {nbClients} -> Endpoints]
          /\ IsInjective(Insert(clients, nbClients, e))
      BY <2>1, <3>1 DEF Insert, IsInjective, Range
    <3> QED
      BY <1>3, <3>2
  <2>3. Ids' = Ids \cup {nbClients}
    BY <1>3, <2>1 DEF Ids
  <2>4. available_ids' \in Seq(Ids')
    BY <1>3
  <2>5. TableTypeOK'
    BY <1>3, <2>1, <2>2, <2>3, <2>4 DEF TableTypeOK
  <2>6. FreeIds = {} /\ FreeIds' = {} /\ IsInjective(available_ids')
    BY <1>3 DEF FreeIds, Range, IsInjective
  <2>7. IdPartition'
    BY <2>2, <2>3, <2>6 DEF IdPartition
  <2>8. BindingKept
    BY <1>3, <2>2 DEF BindingKept, OneIdPerEndpoint, IsInjective, Registered, Range
  <2> QED
    BY <2>2, <2>5, <2>7, <2>8 DEF OneIdPerEndpoint
<1> QED
  BY <1>1, <1>2, <1>3 DEF createClient

\* disconnectData keeps the table sound.
LEMMA DisconnectDataStep ==
    ASSUME TableInv, NEW e \in Endpoints, disconnectData(e)
    PROVE  TableInv' /\ BindingKept
<1> USE DEF TableInv
<1> DEFINE k == FirstId(e)
<1>1. k \in DOMAIN clients /\ k \in Ids /\ k \notin FreeIds
  BY FirstIdFacts DEF disconnectData, TableTypeOK, IdPartition
<1>2. /\ clients' = [i \in DOMAIN clients \ {k} |-> clients[i]]
      /\ available_ids' = Append(available_ids, k)
      /\ nbClients' = nbClients
  BY DEF disconnectData, Restrict
<1>3. /\ available_ids' \in Seq(Ids)
      /\ FreeIds' = FreeIds \cup {k}
      /\ IsInjective(available_ids')
  BY <1>1, <1>2, AppendFacts DEF TableTypeOK, IdPartition, FreeIds
<1>4. Ids' = Ids
  BY <1>2 DEF Ids
<1>5. TableTypeOK'
  BY <1>2, <1>3, <1>4 DEF TableTypeOK
<1>6. IdPartition'
  BY <1>1, <1>2, <1>3, <1>4 DEF IdPartition
<1>7. OneIdPerEndpoint'
  BY <1>2 DEF OneIdPerEndpoint, IsInjective
<1>8. BindingKept
  BY <1>2 DEF BindingKept, OneIdPerEndpoint, IsInjective
<1> QED
  BY <1>5, <1>6, <1>7, <1>8

\* A table step, or none of the table's variables changing, keeps the table
\* sound: what a module that EXTENDS ClientTable needs.
LEMMA TableStep ==
    ASSUME TableInv, [TableNext]_tableVars
    PROVE  TableInv' /\ BindingKept
<1>1. CASE UNCHANGED tableVars
  BY <1>1 DEF TableInv, TableTypeOK, IdPartition, OneIdPerEndpoint, Ids, FreeIds,
              BindingKept, tableVars, IsInjective
<1>2. CASE TableNext
  BY <1>2, CreateClientStep, DisconnectDataStep DEF TableNext
<1> QED
  BY <1>1, <1>2

LEMMA TableInitInv == TableInit => TableInv
<1> SUFFICES ASSUME TableInit PROVE TableInv
  OBVIOUS
<1>1. Ids = {} /\ DOMAIN clients = {} /\ FreeIds = {}
  BY DEF TableInit, Ids, FreeIds, Range
<1>2. TableTypeOK
  BY <1>1 DEF TableInit, TableTypeOK
<1>3. IdPartition /\ OneIdPerEndpoint
  BY <1>1 DEF TableInit, IdPartition, OneIdPerEndpoint, IsInjective
<1> QED
  BY <1>2, <1>3 DEF TableInv

\* A fresh id is drawn only when the ids below it are all bound, each to an
\* endpoint of its own and none to the newcomer: there are too few endpoints
\* for the counter to pass their number.
LEMMA IdsBoundedStep ==
    ASSUME TableInv, IdsBounded, [TableNext]_tableVars
    PROVE  IdsBounded'
<1>1. CASE nbClients' = nbClients
  BY <1>1 DEF IdsBounded
<1>2. CASE nbClients' # nbClients
  <2>1. PICK e \in Endpoints : /\ e \notin Registered /\ available_ids = <<>>
                              /\ nbClients' = nbClients + 1
    BY <1>2 DEF TableNext, createClient, disconnectData, tableVars
  <2>2. nbClients \in Nat /\ DOMAIN clients = 0 .. nbClients - 1
    BY <2>1 DEF TableInv, TableTypeOK, IdPartition, FreeIds, Range, Ids
  <2>3. clients \in [0 .. nbClients - 1 -> Endpoints \ {e}]
    BY <2>1, <2>2 DEF TableInv, TableTypeOK, Registered, Range
  <2>4. clients \in Injection(0 .. nbClients - 1, Endpoints \ {e})
    BY <2>3 DEF TableInv, OneIdPerEndpoint, Injection
  <2>5. /\ IsFiniteSet(Endpoints \ {e})
        /\ Cardinality(Endpoints \ {e}) = Cardinality(Endpoints) - 1
    BY <2>1, EndpointsFinite, FS_RemoveElement
  <2>6. Cardinality(0 .. nbClients - 1) <= Cardinality(Endpoints) - 1
    BY <2>4, <2>5, FS_Injection
  <2>7. Cardinality(0 .. nbClients - 1) = nbClients
    BY <2>2, FS_Interval
  <2>8. Cardinality(Endpoints) \in Nat
    BY EndpointsFinite, FS_CardinalityType
  <2> QED
    BY <2>1, <2>2, <2>6, <2>7, <2>8 DEF IdsBounded
<1> QED
  BY <1>1, <1>2

--------------------------------------------------------------------------------
(***************************************************************************)
(* The types, the partition of the ids into bound and free ones, and the   *)
(* uniqueness of an endpoint's id hold in every reachable state of the     *)
(* table (Server.cpp:90-109 and 127-144).                                  *)
(***************************************************************************)
THEOREM TableSafety == TableSpec => [](TableTypeOK /\ IdPartition /\ OneIdPerEndpoint)
<1>1. TableInit => TableInv
  BY TableInitInv
<1>2. TableInv /\ [TableNext]_tableVars => TableInv'
  BY TableStep
<1> QED
  BY <1>1, <1>2, PTL DEF TableSpec, TableInv

(***************************************************************************)
(* However often a client connects, it is registered once                  *)
(* (Server.cpp:96-99).                                                     *)
(***************************************************************************)
THEOREM TableOneId == TableSpec => []OneIdPerEndpoint
<1>1. TableTypeOK /\ IdPartition /\ OneIdPerEndpoint => OneIdPerEndpoint
  OBVIOUS
<1> QED
  BY <1>1, TableSafety, PTL

(***************************************************************************)
(* The counter _nbClients never passes the number of endpoints, however    *)
(* long the server runs (Server.cpp:100-104).                              *)
(***************************************************************************)
THEOREM TableBounded == TableSpec => []IdsBounded
<1>1. TableInit => TableInv /\ IdsBounded
  <2> SUFFICES ASSUME TableInit PROVE IdsBounded
    BY TableInitInv
  <2>1. Cardinality(Endpoints) \in Nat
    BY EndpointsFinite, FS_CardinalityType
  <2> QED
    BY <2>1 DEF TableInit, IdsBounded
<1>2. TableInv /\ IdsBounded /\ [TableNext]_tableVars => (TableInv /\ IdsBounded)'
  BY TableStep, IdsBoundedStep
<1> QED
  BY <1>1, <1>2, PTL DEF TableSpec

(***************************************************************************)
(* An id names the same endpoint, and an endpoint keeps its id, for as     *)
(* long as the client stays registered (Server.cpp:96-106).                *)
(***************************************************************************)
THEOREM TableBindings == TableSpec => BindingStable
<1>1. TableInit => TableInv
  BY TableInitInv
<1>2. TableInv /\ [TableNext]_tableVars => TableInv' /\ [BindingKept]_tableVars
  BY TableStep
<1> QED
  BY <1>1, <1>2, PTL DEF TableSpec, BindingStable

--------------------------------------------------------------------------------
\* Every step of the table is a step of the dispenser, or none of its steps.
LEMMA PoolStep ==
    ASSUME TableInv, [TableNext]_tableVars
    PROVE  [Pool!PoolNext]_Pool!poolVars
<1> USE DEF TableInv
<1>1. CASE UNCHANGED tableVars
  BY <1>1 DEF tableVars, Pool!poolVars
<1>2. ASSUME NEW e \in Endpoints, createClient(e)
      PROVE  [Pool!PoolNext]_Pool!poolVars
  <2>1. CASE UNCHANGED tableVars
    BY <2>1 DEF tableVars, Pool!poolVars
  <2>2. CASE /\ available_ids # <<>>
             /\ clients' = Insert(clients, Head(available_ids), e)
             /\ UNCHANGED nbClients
    <3>1. Head(available_ids) \in Ids \ DOMAIN clients
      BY <2>2, TailFacts DEF TableTypeOK, IdPartition, FreeIds
    <3>2. DOMAIN clients' = DOMAIN clients \cup {Head(available_ids)}
      BY <2>2 DEF Insert
    <3>3. Pool!AllocUsedBefore
      BY <2>2, <3>1, <3>2 DEF Pool!AllocUsedBefore, Ids
    <3> QED
      BY <3>3 DEF Pool!PoolNext
  <2>3. CASE /\ available_ids = <<>>
             /\ nbClients' = nbClients + 1
             /\ clients' = Insert(clients, nbClients, e)
    <3>0. FreeIds = {}
      BY <2>3 DEF FreeIds, Range
    <3>1. DOMAIN clients = 0 .. nbClients - 1
      BY <3>0 DEF IdPartition, Ids
    <3>2. DOMAIN clients' = DOMAIN clients \cup {nbClients}
      BY <2>3 DEF Insert
    <3>3. Pool!AllocFresh
      BY <2>3, <3>1, <3>2 DEF Pool!AllocFresh
    <3> QED
      BY <3>3 DEF Pool!PoolNext
  <2> QED
    BY <1>2, <2>1, <2>2, <2>3 DEF createClient
<1>3. ASSUME NEW e \in Endpoints, disconnectData(e)
      PROVE  [Pool!PoolNext]_Pool!poolVars
  <2>1. FirstId(e) \in DOMAIN clients
    BY <1>3, FirstIdFacts DEF disconnectData
  <2>2. DOMAIN clients' = DOMAIN clients \ {FirstId(e)} /\ nbClients' = nbClients
    BY <1>3 DEF disconnectData, Restrict
  <2>3. Pool!Free
    BY <2>1, <2>2 DEF Pool!Free
  <2> QED
    BY <2>3 DEF Pool!PoolNext
<1> QED
  BY <1>1, <1>2, <1>3 DEF TableNext

(***************************************************************************)
(* The table implements the dispenser of ids, for any endpoints: ids that  *)
(* were given back go out before fresh ones (Server.cpp:100-106).          *)
(***************************************************************************)
THEOREM TableImplementsPool == TableSpec => TableFromPool
<1>1. TableInit => TableInv /\ Pool!PoolInit
  <2>1. TableInit => Pool!PoolInit
    BY DEF TableInit, Pool!PoolInit
  <2> QED
    BY <2>1, TableInitInv
<1>2. TableInv /\ [TableNext]_tableVars => TableInv'
  BY TableStep
<1>3. TableInv /\ [TableNext]_tableVars => [Pool!PoolNext]_Pool!poolVars
  BY PoolStep
<1> QED
  BY <1>1, <1>2, <1>3, PTL DEF TableSpec, TableFromPool, Pool!PoolSpec
================================================================================
