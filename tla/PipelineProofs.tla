--------------------------- MODULE PipelineProofs ----------------------------
(***************************************************************************)
(* Pipeline, for every number of slots, queue capacity, set of clients and *)
(* response size: each connection has one holder, reaches each stage in    *)
(* the state the stage expects, the free list stays exact, and each client *)
(* receives its own response and no other.                                 *)
(***************************************************************************)
EXTENDS Pipeline, DataFacts

-----------------------------------------------------------------------------
(* The slab. *)

\* SlabInit lists every slot once.
LEMMA SlabInitFacts ==
    ASSUME SlabInit
    PROVE  /\ free_list \in Seq(SlotIds)
           /\ FreeListExact
BY SlabCapacityAssumption, VacantAtFirst DEF SlabInit, SlotIds, FreeListExact, ListsVacant

\* insert takes a vacant slot, fills it and keeps the free list exact.
LEMMA InsertFacts ==
    ASSUME NEW T, slots \in [SlotIds -> T],
           free_list \in Seq(SlotIds), FreeListExact,
           NEW conn, conn # NoConn, Insert(conn)
    PROVE  /\ NextFree \in SlotIds
           /\ slots[NextFree] = NoConn
           /\ free_list' \in Seq(SlotIds)
           /\ FreeListExact'
<1>1. ListsVacant(free_list, slots, SlotIds, NoConn) /\ free_list # <<>>
  BY DEF FreeListExact, ListsVacant, Insert
<1>2. PICK last : last = free_list[Len(free_list)]
  OBVIOUS
<1>3. NextFree = last /\ slots' = [slots EXCEPT ![last] = conn]
  BY <1>2 DEF NextFree, Insert
<1>4. slots'[last] # NoConn /\ \A id \in SlotIds : id # last => slots'[id] = slots[id]
  <2>1. last \in SlotIds
    BY <1>1, <1>2
  <2> QED BY <1>3, <2>1
<1>5. /\ last \in SlotIds /\ slots[last] = NoConn
      /\ SubSeq(free_list, 1, Len(free_list) - 1) \in Seq(SlotIds)
      /\ ListsVacant(SubSeq(free_list, 1, Len(free_list) - 1), slots', SlotIds, NoConn)
  BY <1>1, <1>2, <1>4, VacantTaken
<1>6. free_list' = SubSeq(free_list, 1, Len(free_list) - 1)
  BY DEF Insert
<1> QED BY <1>3, <1>5, <1>6 DEF FreeListExact, ListsVacant

\* remove of an occupied slot keeps the free list exact.
LEMMA RemoveFacts ==
    ASSUME NEW T, slots \in [SlotIds -> T],
           free_list \in Seq(SlotIds), FreeListExact,
           NEW id \in SlotIds, slots[id] # NoConn, Remove(id)
    PROVE  /\ free_list' \in Seq(SlotIds)
           /\ FreeListExact'
<1>1. ListsVacant(free_list, slots, SlotIds, NoConn)
  BY DEF FreeListExact, ListsVacant
<1>2. /\ Append(free_list, id) \in Seq(SlotIds)
      /\ ListsVacant(Append(free_list, id), [slots EXCEPT ![id] = NoConn], SlotIds, NoConn)
  BY <1>1, VacantReturned
<1>3. ListsVacant(free_list', slots', SlotIds, NoConn) /\ free_list' \in Seq(SlotIds)
  BY <1>2 DEF Remove
<1> QED BY <1>3 DEF FreeListExact, ListsVacant

\* With an exact free list, active_count is the number of occupied slots.
LEMMA ActiveCountFacts ==
    ASSUME free_list \in Seq(SlotIds), FreeListExact
    PROVE  /\ IsFiniteSet(Occupied)
           /\ active_count = Cardinality(Occupied)
<1> DEFINE Vacant == SlotIds \ Occupied
           n == Len(free_list)
<1>1. n \in Nat /\ DOMAIN free_list = 1 .. n /\ free_list \in [1 .. n -> SlotIds]
  BY LenProperties
<1>2. Vacant = {id \in SlotIds : \E i \in 1 .. n : free_list[i] = id}
  BY <1>1 DEF Occupied, FreeListExact
<1>3. free_list \in Surjection(1 .. n, Vacant) /\ free_list \in Injection(1 .. n, Vacant)
  <2>1. free_list \in [1 .. n -> Vacant]
    BY <1>1, <1>2
  <2>2. \A i, j \in 1 .. n : free_list[i] = free_list[j] => i = j
    BY <1>1 DEF FreeListExact
  <2> QED BY <1>2, <2>1, <2>2 DEF Surjection, Injection, IsInjective
<1>4. IsFiniteSet(1 .. n) /\ Cardinality(1 .. n) = n
  BY <1>1, FS_Interval
<1>5. IsFiniteSet(Vacant) /\ Cardinality(Vacant) = n
  BY <1>3, <1>4, FS_Surjection
<1>6. IsFiniteSet(SlotIds) /\ Cardinality(SlotIds) = SlabCapacity
  BY SlabCapacityAssumption, FS_Interval DEF SlotIds
<1>7. Occupied \in SUBSET SlotIds /\ IsFiniteSet(Occupied)
  BY <1>6, FS_Subset DEF Occupied
<1>8. Cardinality(SlotIds) = Cardinality(Occupied) + Cardinality(Vacant)
  <2>1. Occupied \cup Vacant = SlotIds /\ Occupied \cap Vacant = {}
    BY DEF Occupied
  <2>2. Cardinality(Occupied \cup Vacant)
          = Cardinality(Occupied) + Cardinality(Vacant)
              - Cardinality(Occupied \cap Vacant)
    BY <1>5, <1>7, FS_Union
  <2>3. Cardinality(Occupied \cap Vacant) = 0
    BY <2>1, FS_EmptySet
  <2>4. Cardinality(Occupied) \in Nat /\ Cardinality(Vacant) \in Nat
    BY <1>5, <1>7, FS_CardinalityType
  <2>5. Cardinality(SlotIds) = Cardinality(Occupied) + Cardinality(Vacant) - 0
    BY <2>1, <2>2, <2>3, Zenon
  <2> HIDE DEF Vacant
  <2> QED BY <2>4, <2>5
<1> QED BY <1>5, <1>6, <1>7, <1>8, FS_CardinalityType, SlabCapacityAssumption
        DEF active_count

-----------------------------------------------------------------------------
(* Moving an id between queues and hands. *)

LEMMA QueueFacts ==
    ASSUME TypeOK, NEW s \in Stages
    PROVE  /\ queue[s] \in Seq(SlotIds)
           /\ Len(queue[s]) \in Nat
           /\ DOMAIN queue[s] = 1 .. Len(queue[s])
           /\ \A i \in 1 .. Len(queue[s]) : queue[s][i] \in SlotIds
<1>1. queue[s] \in Seq(SlotIds)
  BY DEF TypeOK
<1> QED BY <1>1, LenProperties, ElementOfSeq

\* Pop takes the first id: the others move up by one place.
LEMMA PopQueue ==
    ASSUME TypeOK, NEW s \in Stages, Pop(s)
    PROVE  /\ queue[s] # <<>> /\ Len(queue[s]) \in Nat \ {0}
           /\ hand' = [hand EXCEPT ![s] = queue[s][1]]
           /\ queue[s][1] \in SlotIds
           /\ queue' \in [Stages -> Seq(SlotIds)]
           /\ DOMAIN queue'[s] = 1 .. Len(queue[s]) - 1
           /\ \A i \in 1 .. Len(queue[s]) - 1 : queue'[s][i] = queue[s][i + 1]
           /\ \A t \in Stages : t # s => queue'[t] = queue[t]
<1>1. queue[s] \in Seq(SlotIds) /\ queue[s] # <<>> /\ queue \in [Stages -> Seq(SlotIds)]
  BY DEF TypeOK, Pop
<1>2. Len(queue[s]) \in Nat \ {0} /\ Head(queue[s]) = queue[s][1] /\ queue[s][1] \in SlotIds
  BY <1>1, EmptySeq, HeadTailProperties
<1>3. /\ Tail(queue[s]) \in Seq(SlotIds)
      /\ Len(Tail(queue[s])) = Len(queue[s]) - 1
      /\ \A i \in 1 .. Len(queue[s]) - 1 : Tail(queue[s])[i] = queue[s][i + 1]
  BY <1>1, HeadTailProperties
<1>4. queue'[s] = Tail(queue[s]) /\ queue' \in [Stages -> Seq(SlotIds)]
      /\ \A t \in Stages : t # s => queue'[t] = queue[t]
  BY <1>1, <1>3 DEF Pop
<1>5. DOMAIN queue'[s] = 1 .. Len(queue[s]) - 1
  BY <1>3, <1>4, LenProperties
<1> QED BY <1>1, <1>2, <1>3, <1>4, <1>5 DEF Pop

\* A push adds the id at the end or changes nothing.
LEMMA PushedQueue ==
    ASSUME TypeOK, NEW q \in Stages, NEW id \in SlotIds, queue' = Pushed(q, id)
    PROVE  /\ queue' \in [Stages -> Seq(SlotIds)]
           /\ \A t \in Stages : t # q => queue'[t] = queue[t]
           /\ \/ queue'[q] = queue[q]
              \/ /\ Len(queue[q]) < Room
                 /\ DOMAIN queue'[q] = 1 .. Len(queue[q]) + 1
                 /\ \A i \in 1 .. Len(queue[q]) : queue'[q][i] = queue[q][i]
                 /\ queue'[q][Len(queue[q]) + 1] = id
<1>1. queue[q] \in Seq(SlotIds) /\ queue \in [Stages -> Seq(SlotIds)]
  BY DEF TypeOK
<1>2. CASE Len(queue[q]) < Room
  <2>1. queue'[q] = Append(queue[q], id) /\ \A t \in Stages : t # q => queue'[t] = queue[t]
    BY <1>1, <1>2 DEF Pushed
  <2>2. /\ Append(queue[q], id) \in Seq(SlotIds)
        /\ Len(Append(queue[q], id)) = Len(queue[q]) + 1
        /\ \A i \in 1 .. Len(queue[q]) : Append(queue[q], id)[i] = queue[q][i]
        /\ Append(queue[q], id)[Len(queue[q]) + 1] = id
    BY <1>1, AppendProperties
  <2>3. queue' \in [Stages -> Seq(SlotIds)]
    BY <1>1, <1>2, <2>2 DEF Pushed
  <2>4. DOMAIN queue'[q] = 1 .. Len(queue[q]) + 1
    BY <2>1, <2>2, LenProperties
  <2> QED BY <1>2, <2>1, <2>2, <2>3, <2>4
<1>3. CASE ~(Len(queue[q]) < Room)
  BY <1>1, <1>3 DEF Pushed
<1> QED BY <1>2, <1>3

LEMMA PopOneHolder ==
    ASSUME TypeOK, OneHolder, NEW s \in Stages, Pop(s)
    PROVE  OneHolder'
<1> DEFINE n == Len(queue[s])
           shift(t) == IF t = s THEN 1 ELSE 0
<1>1. /\ n \in Nat \ {0} /\ hand' = [hand EXCEPT ![s] = queue[s][1]]
      /\ hand \in [Threads -> SlotIds \cup {NoId}] /\ s \in Threads
      /\ \A t \in Stages : DOMAIN queue[t] = 1 .. Len(queue[t]) /\ Len(queue[t]) \in Nat
      /\ queue[s][1] \in SlotIds
  BY PopQueue, QueueFacts DEF TypeOK, Threads
<1>2. \A t \in Stages : \A i \in DOMAIN queue'[t] :
         /\ i \in Nat /\ i + shift(t) \in DOMAIN queue[t]
         /\ queue'[t][i] = queue[t][i + shift(t)]
         /\ t = s => i + shift(t) # 1
  BY <1>1, PopQueue, SMTT(40)
<1>3. QueuedOnce'
  <2> SUFFICES ASSUME NEW t \in Stages, NEW u \in Stages,
                      NEW i \in DOMAIN queue'[t], NEW j \in DOMAIN queue'[u],
                      queue'[t][i] = queue'[u][j]
               PROVE  t = u /\ i = j
    BY DEF QueuedOnce
  <2>1. t = u /\ i + shift(t) = j + shift(u)
    BY <1>2 DEF OneHolder, QueuedOnce
  <2> QED BY <1>2, <2>1
<1>4. \A t \in Stages : \A i \in DOMAIN queue'[t] : queue'[t][i] # queue[s][1]
  BY <1>1, <1>2 DEF OneHolder, QueuedOnce
<1>5. HeldNotQueued'
  <2> SUFFICES ASSUME NEW x \in Threads, NEW t \in Stages, NEW i \in DOMAIN queue'[t]
               PROVE  queue'[t][i] # hand'[x]
    BY DEF HeldNotQueued
  <2>1. CASE x = s
    BY <1>1, <1>4, <2>1
  <2>2. CASE x # s
    BY <1>1, <1>2, <2>2 DEF OneHolder, HeldNotQueued
  <2> QED BY <2>1, <2>2
<1>6. HeldOnce'
  <2>1. \A x \in Threads : hand[x] # queue[s][1]
    BY <1>1 DEF OneHolder, HeldNotQueued
  <2> QED BY <1>1, <2>1 DEF OneHolder, HeldOnce
<1> QED BY <1>3, <1>5, <1>6 DEF OneHolder

LEMMA LetGoOneHolder ==
    ASSUME TypeOK, OneHolder, NEW s \in Threads, LetGo(s)
    PROVE  OneHolder'
<1>1. hand \in [Threads -> SlotIds \cup {NoId}] /\ queue' = queue
      /\ hand' = [hand EXCEPT ![s] = NoId]
  BY DEF TypeOK, LetGo
<1>2. \A t \in Stages : \A i \in DOMAIN queue[t] : queue[t][i] # NoId
  BY QueueFacts, ConnectionAssumption, PipelineAssumption
<1>3. QueuedOnce'
  BY <1>1 DEF OneHolder, QueuedOnce
<1>4. HeldOnce'
  BY <1>1 DEF OneHolder, HeldOnce
<1>5. HeldNotQueued'
  BY <1>1, <1>2 DEF OneHolder, HeldNotQueued
<1> QED BY <1>3, <1>4, <1>5 DEF OneHolder

Passers == Threads \ {"net_out"}

LEMMA OutputFacts == \A s \in Passers : Output[s] \in Stages
BY DEF Passers, Threads, Stages, Output

LEMMA ForwardOneHolder ==
    ASSUME TypeOK, OneHolder, NEW s \in Passers, Holding(s), Forward(s)
    PROVE  OneHolder'
<1> DEFINE q == Output[s]
           n == Len(queue[q])
<1>1. /\ hand \in [Threads -> SlotIds \cup {NoId}] /\ s \in Threads
      /\ hand[s] \in SlotIds /\ q \in Stages
      /\ hand' = [hand EXCEPT ![s] = NoId] /\ queue' = Pushed(q, hand[s])
  BY OutputFacts DEF TypeOK, Forward, Passers, Holding
<1>2. \A t \in Stages : DOMAIN queue[t] = 1 .. Len(queue[t]) /\ Len(queue[t]) \in Nat
  BY QueueFacts
<1>3. \A t \in Stages : \A i \in DOMAIN queue'[t] :
         \/ i \in DOMAIN queue[t] /\ queue'[t][i] = queue[t][i]
         \/ t = q /\ i = n + 1 /\ queue'[t][i] = hand[s]
  BY <1>1, <1>2, PushedQueue, SMTT(40)
<1>4. \A t \in Stages : \A i \in DOMAIN queue[t] : queue[t][i] # hand[s]
  BY <1>1 DEF OneHolder, HeldNotQueued
<1>5. QueuedOnce'
  <2> SUFFICES ASSUME NEW t \in Stages, NEW u \in Stages,
                      NEW i \in DOMAIN queue'[t], NEW j \in DOMAIN queue'[u],
                      queue'[t][i] = queue'[u][j]
               PROVE  t = u /\ i = j
    BY DEF QueuedOnce
  <2> QED BY <1>3, <1>4 DEF OneHolder, QueuedOnce
<1>6. HeldOnce'
  BY <1>1 DEF OneHolder, HeldOnce
<1>7. HeldNotQueued'
  <2> SUFFICES ASSUME NEW x \in Threads, NEW t \in Stages, NEW i \in DOMAIN queue'[t]
               PROVE  queue'[t][i] # hand'[x]
    BY DEF HeldNotQueued
  <2>1. queue'[t][i] \in SlotIds
    BY <1>1, <1>2, <1>3, QueueFacts
  <2>2. CASE x = s
    BY <1>1, <2>1, <2>2, ConnectionAssumption, PipelineAssumption
  <2>3. CASE x # s
    <3>1. hand'[x] = hand[x]
      BY <1>1, <2>3
    <3>2. CASE queue'[t][i] = hand[s]
      BY <1>1, <2>3, <3>1, <3>2 DEF OneHolder, HeldOnce, Holding
    <3>3. CASE i \in DOMAIN queue[t] /\ queue'[t][i] = queue[t][i]
      BY <3>1, <3>3 DEF OneHolder, HeldNotQueued
    <3> QED BY <1>3, <3>2, <3>3
  <2> QED BY <2>2, <2>3
<1> QED BY <1>5, <1>6, <1>7 DEF OneHolder

\* main takes a slot that no thread knew of.
LEMMA InsertOneHolder ==
    ASSUME TypeOK, OneHolder, HandoverReady, InsertConn,
           NextFree \in SlotIds, slots[NextFree] = NoConn
    PROVE  OneHolder'
<1>1. /\ hand \in [Threads -> SlotIds \cup {NoId}] /\ queue' = queue
      /\ hand' = [hand EXCEPT !["main"] = NextFree] /\ "main" \in Threads
  BY DEF TypeOK, InsertConn, Threads
<1>2. \A t \in Threads : hand[t] # NextFree
  BY ConnectionAssumption, PipelineAssumption DEF HandoverReady, ReadyFor
<1>3. \A t \in Stages : \A i \in DOMAIN queue[t] : queue[t][i] # NextFree
  BY DEF HandoverReady, ReadyFor
<1>4. QueuedOnce'
  BY <1>1 DEF OneHolder, QueuedOnce
<1>5. HeldOnce'
  BY <1>1, <1>2 DEF OneHolder, HeldOnce
<1>6. HeldNotQueued'
  BY <1>1, <1>3 DEF OneHolder, HeldNotQueued
<1> QED BY <1>4, <1>5, <1>6 DEF OneHolder

-----------------------------------------------------------------------------
(* Handing a connection on. *)

\* A thread lets go of an id, or passes it on to a stage it is ready for: as
\* nobody else has the id, what becomes of its slot disturbs nobody.
LEMMA HandoverStep ==
    ASSUME TypeOK, OneHolder, HandoverReady, NEW s \in Threads, Holding(s),
           \A k \in SlotIds : k # hand[s] => slots'[k] = slots[k],
           \/ LetGo(s)
           \/ s \in Passers /\ Forward(s) /\ ReadyFor(Output[s], slots'[hand[s]])
    PROVE  HandoverReady'
<1>1. /\ hand \in [Threads -> SlotIds \cup {NoId}] /\ hand[s] \in SlotIds
      /\ hand' = [hand EXCEPT ![s] = NoId]
  BY DEF TypeOK, Holding, LetGo, Forward
<1>2. ASSUME NEW x \in Threads, hand'[x] # NoId
      PROVE  ReadyFor(x, slots'[hand'[x]])
  <2>1. x # s /\ hand'[x] = hand[x] /\ hand[x] \in SlotIds
    BY <1>1, <1>2
  <2>2. hand[x] # hand[s]
    BY <1>2, <2>1 DEF OneHolder, HeldOnce
  <2>3. slots'[hand[x]] = slots[hand[x]] /\ ReadyFor(x, slots[hand[x]])
    BY <1>2, <2>1, <2>2 DEF HandoverReady
  <2> QED BY <2>1, <2>3
<1>3. ASSUME NEW t \in Stages, NEW i \in DOMAIN queue[t]
      PROVE  ReadyFor(t, slots'[queue[t][i]])
  <2>1. queue[t][i] \in SlotIds /\ queue[t][i] # hand[s]
    BY QueueFacts DEF OneHolder, HeldNotQueued
  <2> QED BY <2>1 DEF HandoverReady
<1>4. ASSUME NEW t \in Stages, NEW i \in DOMAIN queue'[t]
      PROVE  ReadyFor(t, slots'[queue'[t][i]])
  <2>1. CASE LetGo(s)
    BY <1>3, <2>1 DEF LetGo
  <2>2. CASE s \in Passers /\ Forward(s) /\ ReadyFor(Output[s], slots'[hand[s]])
    <3>1. Output[s] \in Stages /\ queue' = Pushed(Output[s], hand[s])
      BY <2>2, OutputFacts DEF Forward
    <3>2. \/ i \in DOMAIN queue[t] /\ queue'[t][i] = queue[t][i]
          \/ t = Output[s] /\ queue'[t][i] = hand[s]
      BY <1>1, <3>1, QueueFacts, PushedQueue
    <3> QED BY <1>3, <2>2, <3>2
  <2> QED BY <2>1, <2>2
<1> QED BY <1>2, <1>4 DEF HandoverReady, ReadyFor

LEMMA PopHandover ==
    ASSUME TypeOK, HandoverReady, NEW s \in Stages, Pop(s)
    PROVE  HandoverReady'
<1>1. /\ Len(queue[s]) \in Nat \ {0} /\ slots' = slots
      /\ DOMAIN queue[s] = 1 .. Len(queue[s])
      /\ hand' = [hand EXCEPT ![s] = queue[s][1]]
      /\ hand \in [Threads -> SlotIds \cup {NoId}] /\ s \in Threads
  BY PopQueue, QueueFacts DEF TypeOK, Pop, Threads, slabVars
<1>2. ASSUME NEW x \in Threads, hand'[x] # NoId
      PROVE  ReadyFor(x, slots[hand'[x]])
  BY <1>1, <1>2 DEF HandoverReady
<1>3. ASSUME NEW t \in Stages, NEW i \in DOMAIN queue'[t]
      PROVE  ReadyFor(t, slots[queue'[t][i]])
  <2>1. CASE t = s
    <3>1. i + 1 \in DOMAIN queue[s] /\ queue'[t][i] = queue[s][i + 1]
      BY <1>1, <2>1, PopQueue
    <3> QED BY <2>1, <3>1 DEF HandoverReady
  <2>2. CASE t # s
    BY <2>2, PopQueue DEF HandoverReady
  <2> QED BY <2>1, <2>2
<1> QED BY <1>1, <1>2, <1>3 DEF HandoverReady, ReadyFor

LEMMA NewConnFacts ==
    ASSUME NEW c \in Clients
    PROVE  NewConn(c) \in ConnType /\ NewConn(c) # NoConn
<1>1. NewConn(c) \in ConnType
  BY ConnectionAssumption, PipelineAssumption, EmptySeq DEF NewConn, ConnType, Lifecycle, None
<1> QED BY <1>1, NoConnAssumption

\* main's new connection is ready for Parse; the others do not change.
LEMMA InsertHandover ==
    ASSUME TypeOK, HandoverReady, InsertConn,
           NextFree \in SlotIds, slots[NextFree] = NoConn
    PROVE  HandoverReady'
<1>1. /\ hand \in [Threads -> SlotIds \cup {NoId}] /\ queue' = queue
      /\ hand' = [hand EXCEPT !["main"] = NextFree]
      /\ "main" \in Threads /\ accepted # <<>> /\ accepted \in Seq(Clients)
      /\ slots' = [slots EXCEPT ![NextFree] = NewConn(Head(accepted))]
      /\ slots \in [SlotIds -> ConnType \cup {NoConn}]
  BY DEF TypeOK, InsertConn, Threads, Insert
<1>2. Head(accepted) \in Clients
  BY <1>1, HeadTailProperties
<1>3. NewConn(Head(accepted)) # NoConn
  BY <1>2, NewConnFacts
<1>4. ReadyFor("main", NewConn(Head(accepted)))
  BY <1>3 DEF ReadyFor, NewConn, StateAt
<1>5. \A k \in SlotIds : slots[k] # NoConn => slots'[k] = slots[k]
  BY <1>1
<1>6. slots'[NextFree] = NewConn(Head(accepted))
  BY <1>1
<1>7. ASSUME NEW x \in Threads, hand'[x] # NoId
      PROVE  ReadyFor(x, slots'[hand'[x]])
  <2>1. CASE x = "main"
    BY <1>1, <1>4, <1>6, <2>1
  <2>2. CASE x # "main"
    <3>1. hand'[x] = hand[x] /\ hand[x] \in SlotIds
      BY <1>1, <1>7, <2>2
    <3>2. ReadyFor(x, slots[hand[x]])
      BY <1>7, <3>1 DEF HandoverReady
    <3>3. slots'[hand[x]] = slots[hand[x]]
      BY <1>5, <3>1, <3>2 DEF ReadyFor
    <3> QED BY <3>1, <3>2, <3>3
  <2> QED BY <2>1, <2>2
<1>8. ASSUME NEW t \in Stages, NEW i \in DOMAIN queue[t]
      PROVE  ReadyFor(t, slots'[queue[t][i]])
  <2>1. queue[t][i] \in SlotIds /\ ReadyFor(t, slots[queue[t][i]])
    BY QueueFacts DEF HandoverReady
  <2>2. slots'[queue[t][i]] = slots[queue[t][i]]
    BY <1>5, <2>1 DEF ReadyFor
  <2> QED BY <2>1, <2>2
<1> QED BY <1>1, <1>7, <1>8 DEF HandoverReady, ReadyFor

-----------------------------------------------------------------------------
(* The inductive invariant. *)

\* A client that has sent something has asked for something.
ClientsOK ==
    \A c \in Clients :
        /\ client[c].status = "new" => client[c].sent = 0
        /\ client[c].status # "new" => client[c].ask \in Asks

CountOK == total_conns = Cardinality(Occupied)

IInv ==
    /\ TypeOK
    /\ FreeListExact
    /\ OneHolder
    /\ HandoverReady
    /\ ClientsOK
    /\ CountOK

\* The part of the state that the threads share, and what is claimed of it.
SharedOK ==
    /\ slots \in [SlotIds -> ConnType \cup {NoConn}]
    /\ free_list \in Seq(SlotIds)
    /\ queue \in [Stages -> Seq(SlotIds)]
    /\ hand \in [Threads -> SlotIds \cup {NoId}]
    /\ FreeListExact
    /\ OneHolder
    /\ HandoverReady

\* The connection that a thread holds exists and is ready for it.
LEMMA HeldConn ==
    ASSUME IInv, NEW s \in Threads, Holding(s)
    PROVE  /\ hand[s] \in SlotIds
           /\ Conn(s) \in ConnType
           /\ ReadyFor(s, Conn(s))
<1>1. hand[s] \in SlotIds /\ slots[hand[s]] \in ConnType \cup {NoConn}
  BY DEF IInv, TypeOK, Holding
<1>2. ReadyFor(s, slots[hand[s]])
  BY DEF IInv, HandoverReady, Holding
<1> QED BY <1>1, <1>2 DEF Conn, ReadyFor

\* A stage that changes at most the slot of the id it holds, leaves it occupied,
\* and lets the id go or passes it on, keeps the shared state as it should be.
LEMMA StageRun ==
    ASSUME IInv, NEW s \in Threads, Holding(s),
           free_list' = free_list,
           NEW conn \in ConnType, slots' = [slots EXCEPT ![hand[s]] = conn],
           LetGo(s) \/ (s \in Passers /\ Forward(s) /\ ReadyFor(Output[s], conn))
    PROVE  SharedOK' /\ Occupied' = Occupied
<1>1. hand[s] \in SlotIds /\ slots[hand[s]] # NoConn
  BY HeldConn DEF Conn, ReadyFor
<1>2. TypeOK /\ OneHolder /\ HandoverReady /\ FreeListExact
  BY DEF IInv
<1>3. slots' \in [SlotIds -> ConnType \cup {NoConn}] /\ free_list' \in Seq(SlotIds)
  BY <1>1, <1>2 DEF TypeOK
<1>4. hand' \in [Threads -> SlotIds \cup {NoId}]
  BY <1>2 DEF TypeOK, LetGo, Forward
<1>5. queue' \in [Stages -> Seq(SlotIds)]
  <2>1. CASE LetGo(s)
    BY <1>2, <2>1 DEF TypeOK, LetGo
  <2>2. CASE s \in Passers /\ Forward(s)
    BY <1>1, <1>2, <2>2, OutputFacts, PushedQueue DEF Forward
  <2> QED BY <2>1, <2>2
<1>6. \A k \in SlotIds : slots'[k] = NoConn <=> slots[k] = NoConn
  BY <1>1, <1>2, NoConnAssumption DEF TypeOK
<1>7. FreeListExact' /\ Occupied' = Occupied
  BY <1>2, <1>6 DEF FreeListExact, Occupied
<1>8. OneHolder'
  BY <1>2, LetGoOneHolder, ForwardOneHolder
<1>9. HandoverReady'
  <2>1. /\ slots'[hand[s]] = conn
        /\ \A k \in SlotIds : k # hand[s] => slots'[k] = slots[k]
    BY <1>1, <1>2 DEF TypeOK
  <2> QED BY <1>2, <2>1, HandoverStep
<1> QED BY <1>3, <1>4, <1>5, <1>7, <1>8, <1>9 DEF SharedOK

\* A stage that only moves the id.
LEMMA StageMove ==
    ASSUME IInv, NEW s \in Threads, Holding(s), UNCHANGED slabVars,
           LetGo(s) \/ (s \in Passers /\ Forward(s) /\ ReadyFor(Output[s], Conn(s)))
    PROVE  SharedOK' /\ Occupied' = Occupied
<1>1. /\ Conn(s) \in ConnType /\ hand[s] \in SlotIds
      /\ slots \in [SlotIds -> ConnType \cup {NoConn}]
  BY HeldConn DEF IInv, TypeOK
<1>2. slots' = [slots EXCEPT ![hand[s]] = Conn(s)] /\ free_list' = free_list
  BY <1>1 DEF slabVars, Conn
<1> QED BY <1>1, <1>2, StageRun

\* NetOut gives a slot back and lets go of its id.
LEMMA NetOutFrees ==
    ASSUME IInv, Holding("net_out"), Remove(hand["net_out"]), LetGo("net_out"),
           total_conns' = total_conns - 1
    PROVE  SharedOK' /\ CountOK'
<1> DEFINE id == hand["net_out"]
<1>1. "net_out" \in Threads
  BY DEF Threads, Stages
<1>2. id \in SlotIds /\ slots[id] # NoConn
  BY <1>1, HeldConn DEF Conn, ReadyFor
<1>3. TypeOK /\ OneHolder /\ HandoverReady /\ FreeListExact /\ CountOK
  BY DEF IInv
<1>4. /\ slots' = [slots EXCEPT ![id] = NoConn]
      /\ slots \in [SlotIds -> ConnType \cup {NoConn}]
      /\ slots' \in [SlotIds -> ConnType \cup {NoConn}]
  BY <1>3 DEF Remove, TypeOK
<1>5. free_list' \in Seq(SlotIds) /\ FreeListExact'
  BY <1>2, <1>3, <1>4, RemoveFacts DEF TypeOK
<1>6. hand' \in [Threads -> SlotIds \cup {NoId}] /\ queue' \in [Stages -> Seq(SlotIds)]
  BY <1>3 DEF TypeOK, LetGo
<1>7. OneHolder'
  BY <1>1, <1>3, LetGoOneHolder
<1>8. HandoverReady'
  <2>1. \A k \in SlotIds : k # id => slots'[k] = slots[k]
    BY <1>4
  <2> QED BY <1>1, <1>3, <2>1, HandoverStep
<1>9. CountOK'
  <2>1. Occupied' = Occupied \ {id} /\ id \in Occupied
    BY <1>2, <1>4 DEF Occupied
  <2>2. IsFiniteSet(Occupied)
    BY <1>3, ActiveCountFacts DEF TypeOK
  <2>3. Cardinality(Occupied \ {id}) = Cardinality(Occupied) - 1
    BY <2>1, <2>2, FS_RemoveElement
  <2> QED BY <1>3, <2>1, <2>3 DEF CountOK
<1> QED BY <1>4, <1>5, <1>6, <1>7, <1>8, <1>9 DEF SharedOK

\* The state that only one kind of action changes.
PrivateOK ==
    /\ accepted \in Seq(Clients)
    /\ backlog \in Seq(Clients)
    /\ client \in [Clients -> ClientType]
    /\ total_conns \in Int
    /\ total_requests \in Nat
    /\ parse_queue_len \in Nat
    /\ errors \in [{"parse", "net_out"} -> Nat]
    /\ ClientsOK

LEMMA Parts == IInv <=> SharedOK /\ PrivateOK /\ CountOK
BY DEF IInv, TypeOK, SharedOK, PrivateOK

LEMMA PartsNext == SharedOK' /\ PrivateOK' /\ CountOK' => IInv'
BY Parts, PTL

-----------------------------------------------------------------------------
(* Each action preserves it. *)

LEMMA InitIInv == Init => IInv
<1> SUFFICES ASSUME Init PROVE IInv
  OBVIOUS
<1>1. SlabInit
  BY DEF Init
<1>2. slots \in [SlotIds -> ConnType \cup {NoConn}]
      /\ free_list \in Seq(SlotIds) /\ FreeListExact
  BY <1>1, SlabInitFacts DEF SlabInit
<1>3. queue \in [Stages -> Seq(SlotIds)] /\ hand \in [Threads -> SlotIds \cup {NoId}]
      /\ \A s \in Stages : queue[s] = <<>> /\ DOMAIN queue[s] = {}
  BY EmptySeq DEF Init
<1>4. OneHolder
  BY <1>3 DEF OneHolder, QueuedOnce, HeldOnce, HeldNotQueued, Init
<1>5. HandoverReady
  BY <1>3 DEF HandoverReady, Init
<1>6. SharedOK
  BY <1>2, <1>3, <1>4, <1>5 DEF SharedOK
<1>7. client \in [Clients -> ClientType] /\ ClientsOK
  BY ConnectionAssumption, PipelineAssumption, EmptySeq DEF Init, ClientType, ClientsOK
<1>8. PrivateOK
  BY <1>7, EmptySeq DEF Init, PrivateOK
<1>9. CountOK
  <2>1. Occupied = {}
    BY <1>1 DEF SlabInit, Occupied
  <2> QED BY <2>1, FS_EmptySet DEF Init, CountOK
<1> QED BY <1>6, <1>8, <1>9, Parts

LEMMA PopStep == ASSUME IInv, NEW s \in Stages, Pop(s) PROVE IInv'
<1>1. TypeOK /\ OneHolder /\ HandoverReady /\ FreeListExact /\ PrivateOK /\ CountOK
  BY Parts DEF IInv
<1>2. OneHolder' /\ HandoverReady'
  BY <1>1, PopOneHolder, PopHandover
<1>3. queue' \in [Stages -> Seq(SlotIds)] /\ hand' \in [Threads -> SlotIds \cup {NoId}]
  BY <1>1, PopQueue DEF TypeOK, Threads
<1>4. SharedOK'
  BY <1>1, <1>2, <1>3 DEF SharedOK, Pop, slabVars, TypeOK, FreeListExact
<1>5. PrivateOK' /\ CountOK'
  BY <1>1 DEF Pop, clientVars, metricVars, slabVars, PrivateOK, ClientsOK,
              CountOK, Occupied
<1> QED BY <1>4, <1>5, PartsNext

LEMMA AcceptAllStep ==
    ASSUME IInv, NEW n \in 1 .. Len(backlog), AcceptAll(n) PROVE IInv'
<1>1. SharedOK /\ PrivateOK /\ CountOK
  BY Parts
<1>2. SharedOK' /\ CountOK'
  BY <1>1 DEF AcceptAll, slabVars, metricVars, SharedOK, CountOK, Occupied,
              FreeListExact, OneHolder, QueuedOnce, HeldOnce, HeldNotQueued,
              HandoverReady, ReadyFor
<1>3. backlog \in Seq(Clients) /\ Len(backlog) \in Nat
      /\ \A i \in 1 .. Len(backlog) : backlog[i] \in Clients
  BY <1>1 DEF PrivateOK
<1>4. SubSeq(backlog, 1, n) \in Seq(Clients)
  <2>1. 1 \in Int /\ n \in Int /\ \A i \in 1 .. n : backlog[i] \in Clients
    BY <1>3
  <2> QED BY <2>1, SubSeqProperties
<1>5. SubSeq(backlog, n + 1, Len(backlog)) \in Seq(Clients)
  <2>1. /\ n + 1 \in Int /\ Len(backlog) \in Int
        /\ \A i \in n + 1 .. Len(backlog) : backlog[i] \in Clients
    BY <1>3
  <2> QED BY <2>1, SubSeqProperties
<1>6. PrivateOK'
  BY <1>1, <1>4, <1>5 DEF AcceptAll, metricVars, PrivateOK, ClientsOK
<1> QED BY <1>2, <1>6, PartsNext

LEMMA InsertConnStep == ASSUME IInv, InsertConn PROVE IInv'
<1> DEFINE new == NewConn(Head(accepted))
<1>1. TypeOK /\ OneHolder /\ HandoverReady /\ FreeListExact /\ PrivateOK /\ CountOK
  BY Parts DEF IInv
<1>2. accepted \in Seq(Clients) /\ accepted # <<>> /\ Insert(new)
  BY <1>1 DEF TypeOK, InsertConn
<1>3. Head(accepted) \in Clients /\ accepted' \in Seq(Clients)
  BY <1>2, HeadTailProperties DEF InsertConn
<1>4. new \in ConnType /\ new # NoConn
  BY <1>3, NewConnFacts
<1>5. /\ NextFree \in SlotIds /\ slots[NextFree] = NoConn
      /\ free_list' \in Seq(SlotIds) /\ FreeListExact'
  BY <1>1, <1>2, <1>4, InsertFacts DEF TypeOK
<1>6. OneHolder' /\ HandoverReady'
  BY <1>1, <1>5, InsertOneHolder, InsertHandover
<1>7. slots' \in [SlotIds -> ConnType \cup {NoConn}]
  BY <1>1, <1>2, <1>4 DEF Insert, TypeOK
<1>8. SharedOK'
  BY <1>1, <1>5, <1>6, <1>7 DEF SharedOK, InsertConn, TypeOK, Threads
<1>9. PrivateOK'
  BY <1>1, <1>3 DEF InsertConn, clientVars, PrivateOK, ClientsOK
<1>10. CountOK'
  <2>1. Occupied' = Occupied \cup {NextFree} /\ NextFree \notin Occupied
    BY <1>1, <1>2, <1>4, <1>5 DEF Occupied, Insert, TypeOK
  <2>2. IsFiniteSet(Occupied)
    BY <1>1, ActiveCountFacts DEF TypeOK
  <2>3. Cardinality(Occupied \cup {NextFree}) = Cardinality(Occupied) + 1
    BY <2>1, <2>2, FS_AddElement
  <2> QED BY <1>1, <2>1, <2>3 DEF CountOK, InsertConn
<1> QED BY <1>8, <1>9, <1>10, PartsNext

LEMMA RefuseConnStep == ASSUME IInv, RefuseConn PROVE IInv'
<1>1. SharedOK /\ PrivateOK /\ CountOK
  BY Parts
<1>2. SharedOK' /\ CountOK'
  BY <1>1 DEF RefuseConn, slabVars, metricVars, SharedOK, CountOK, Occupied,
              FreeListExact, OneHolder, QueuedOnce, HeldOnce, HeldNotQueued,
              HandoverReady, ReadyFor
<1>3. accepted \in Seq(Clients) /\ accepted # <<>>
  BY <1>1 DEF PrivateOK, RefuseConn
<1>4. Head(accepted) \in Clients /\ accepted' \in Seq(Clients)
  BY <1>3, HeadTailProperties DEF RefuseConn
<1>5. client' \in [Clients -> ClientType] /\ ClientsOK'
  <2>1. PICK c \in Clients : c = Head(accepted)
    BY <1>4
  <2>2. client' = [client EXCEPT ![c] =
                     [client[c] EXCEPT !.status = IF @ = "open" THEN "closed" ELSE @]]
    BY <1>1, <2>1 DEF RefuseConn, Hangup
  <2>3. client[c] \in ClientType /\ client \in [Clients -> ClientType]
    BY <1>1 DEF PrivateOK
  <2>4. [client[c] EXCEPT !.status = IF @ = "open" THEN "closed" ELSE @] \in ClientType
    BY <2>3 DEF ClientType
  <2>5. ClientsOK'
    BY <1>1, <2>2, <2>3 DEF PrivateOK, ClientType, ClientsOK
  <2> QED BY <2>2, <2>3, <2>4, <2>5
<1>6. PrivateOK'
  BY <1>1, <1>4, <1>5 DEF RefuseConn, metricVars, PrivateOK
<1> QED BY <1>2, <1>6, PartsNext

LEMMA PushConnStep == ASSUME IInv, PushConn PROVE IInv'
<1>1. PrivateOK /\ CountOK /\ "main" \in Passers
  BY Parts DEF Passers, Threads, Stages
<1>2. ReadyFor("main", Conn("main")) /\ Holding("main") /\ "main" \in Threads
  BY <1>1, HeldConn DEF PushConn, Passers
<1>3. ReadyFor(Output["main"], Conn("main"))
  BY <1>2 DEF ReadyFor, StateAt, Output
<1>4. SharedOK' /\ Occupied' = Occupied
  BY <1>1, <1>2, <1>3, StageMove DEF PushConn
<1>5. PrivateOK' /\ CountOK'
  BY <1>1, <1>4 DEF PushConn, clientVars, PrivateOK, ClientsOK, CountOK
<1> QED BY <1>4, <1>5, PartsNext

LEMMA ParseRequestStep == ASSUME IInv, ParseRequest PROVE IInv'
<1> DEFINE new == [Conn("parse") EXCEPT !.request_path = Peer.ask,
                                        !.state = "Routed",
                                        !.read_buf = 0]
<1>1. PrivateOK /\ CountOK /\ "parse" \in Passers /\ "parse" \in Threads
  BY Parts DEF Passers, Threads, Stages
<1>2. /\ Holding("parse") /\ Conn("parse") \in ConnType
      /\ ReadyFor("parse", Conn("parse"))
  BY <1>1, HeldConn DEF ParseRequest
<1>3. Peer.sent = Segments /\ Peer.ask \in Asks
  <2>1. Conn("parse").client \in Clients /\ Peer \in ClientType
    BY <1>1, <1>2 DEF ConnType, Peer, PrivateOK
  <2>2. ReadAll(Segments)
    BY DEF ParseRequest, Parses
  <2>3. Segments \in Nat \ {0} /\ Peer.sent \in 0 .. Segments
    BY <2>1, ConnectionAssumption, PipelineAssumption DEF ClientType
  <2>4. Peer.sent = Segments /\ Peer.sent # 0
    BY <2>2, <2>3 DEF ReadAll
  <2> QED BY <1>1, <2>1, <2>4 DEF PrivateOK, ClientsOK, Peer
<1>4. new \in ConnType
  <2>1. 0 \in 0 .. Segments /\ Peer.ask \in Asks \cup {None}
    BY <1>3, ConnectionAssumption, PipelineAssumption
  <2> QED BY <1>2, <2>1 DEF ConnType, Lifecycle
<1>5. ReadyFor(Output["parse"], new)
  <2>1. new # NoConn
    BY <1>4, NoConnAssumption
  <2>2. Peer.ask # None
    BY <1>3, ConnectionAssumption, PipelineAssumption DEF AllAsks, None
  <2> QED BY <1>2, <2>1, <2>2 DEF ReadyFor, StateAt, Output, ConnType
<1>6. slots' = [slots EXCEPT ![hand["parse"]] = new]
  BY DEF ParseRequest, Conn
<1>7. SharedOK' /\ Occupied' = Occupied
  BY <1>1, <1>2, <1>4, <1>5, <1>6, StageRun DEF ParseRequest
<1>8. PrivateOK' /\ CountOK'
  BY <1>1, <1>7 DEF ParseRequest, clientVars, metricVars, PrivateOK, ClientsOK, CountOK
<1> QED BY <1>7, <1>8, PartsNext

LEMMA ParseIncompleteStep ==
    ASSUME IInv, NEW n \in 0 .. Segments, ParseIncomplete(n) PROVE IInv'
<1> DEFINE new == [Conn("parse") EXCEPT !.read_buf = n]
<1>1. PrivateOK /\ CountOK /\ "parse" \in Threads
  BY Parts DEF Threads, Stages
<1>2. /\ Holding("parse") /\ Conn("parse") \in ConnType
      /\ ReadyFor("parse", Conn("parse"))
  BY <1>1, HeldConn DEF ParseIncomplete
<1>3. Conn("parse") # NoConn
  BY <1>2 DEF ReadyFor
<1>4. new \in ConnType
  BY <1>2 DEF ConnType
<1>5. slots' = [slots EXCEPT ![hand["parse"]] = new]
  BY <1>3 DEF ParseIncomplete, Conn
<1>6. SharedOK' /\ Occupied' = Occupied
  BY <1>1, <1>2, <1>4, <1>5, StageRun DEF ParseIncomplete
<1>7. PrivateOK' /\ CountOK'
  BY <1>1, <1>6
  DEF ParseIncomplete, clientVars, metricVars, PrivateOK, ClientsOK, CountOK
<1> QED BY <1>6, <1>7, PartsNext

LEMMA ParseInvalidStep ==
    ASSUME IInv, NEW n \in 0 .. Segments, ParseInvalid(n) PROVE IInv'
<1> DEFINE new == [Conn("parse") EXCEPT !.read_buf = n, !.state = "Closed"]
<1>1. PrivateOK /\ CountOK /\ "parse" \in Threads
  BY Parts DEF Threads, Stages
<1>2. Holding("parse") /\ Conn("parse") \in ConnType
  BY <1>1, HeldConn DEF ParseInvalid
<1>4. new \in ConnType
  BY <1>2 DEF ConnType, Lifecycle
<1>5. slots' = [slots EXCEPT ![hand["parse"]] = new]
  BY DEF ParseInvalid, Conn
<1>6. SharedOK' /\ Occupied' = Occupied
  BY <1>1, <1>2, <1>4, <1>5, StageRun DEF ParseInvalid
<1>7. errors' \in [{"parse", "net_out"} -> Nat]
  BY <1>1 DEF ParseInvalid, PrivateOK
<1>8. PrivateOK' /\ CountOK'
  BY <1>1, <1>6, <1>7 DEF ParseInvalid, clientVars, PrivateOK, ClientsOK, CountOK
<1> QED BY <1>6, <1>8, PartsNext

LEMMA RouteStep == ASSUME IInv, Route PROVE IInv'
<1> DEFINE new == [Conn("route") EXCEPT !.route_id = RouteOf(Conn("route").request_path),
                                        !.state = "Processing"]
<1>1. PrivateOK /\ CountOK /\ "route" \in Passers /\ "route" \in Threads
  BY Parts DEF Passers, Threads, Stages
<1>2. /\ Holding("route") /\ Conn("route") \in ConnType
      /\ ReadyFor("route", Conn("route"))
  BY <1>1, HeldConn DEF Route
<1>3. RouteOf(Conn("route").request_path) \in {"hello", "json", "not_found"}
  BY DEF RouteOf
<1>4. new \in ConnType
  BY <1>2, <1>3 DEF ConnType, Lifecycle
<1>5. ReadyFor(Output["route"], new)
  <2>1. new # NoConn
    BY <1>4, NoConnAssumption
  <2> QED BY <1>2, <1>3, <2>1 DEF ReadyFor, StateAt, Output, ConnType, None
<1>6. slots' = [slots EXCEPT ![hand["route"]] = new] /\ Forward("route")
  BY <1>2 DEF Route, Conn, ReadyFor
<1>7. SharedOK' /\ Occupied' = Occupied
  BY <1>1, <1>2, <1>4, <1>5, <1>6, StageRun DEF Route
<1>8. PrivateOK' /\ CountOK'
  BY <1>1, <1>7 DEF Route, clientVars, metricVars, PrivateOK, ClientsOK, CountOK
<1> QED BY <1>7, <1>8, PartsNext

\* The response to a route is a sequence of chunks.
LEMMA ResponseFacts ==
    ASSUME NEW r \in {"hello", "json", "not_found"}
    PROVE  ResponseOf(r) \in Seq(Chunks)
<1>1. ChunksOf(r) \in 1 .. SendBuffer + 1
  BY ConnectionAssumption, PipelineAssumption DEF ChunksOf
<1>2. \A n \in 1 .. ChunksOf(r) : <<r, n>> \in Chunks
  BY <1>1, ConnectionAssumption, PipelineAssumption DEF Chunks
<1> QED BY <1>1, <1>2 DEF ResponseOf

LEMMA AppStep == ASSUME IInv, App PROVE IInv'
<1> DEFINE new == [Conn("app") EXCEPT
                     !.write_buf = Conn("app").write_buf \o ResponseOf(Conn("app").route_id),
                     !.state = "Sending"]
<1>1. PrivateOK /\ CountOK /\ "app" \in Passers /\ "app" \in Threads
  BY Parts DEF Passers, Threads, Stages
<1>2. /\ Holding("app") /\ Conn("app") \in ConnType
      /\ ReadyFor("app", Conn("app"))
  BY <1>1, HeldConn DEF App
<1>3. Conn("app").route_id \in {"hello", "json", "not_found"}
  BY <1>2 DEF ReadyFor, ConnType
<1>4. Conn("app").write_buf \o ResponseOf(Conn("app").route_id) \in Seq(Chunks)
  <2>1. Conn("app").write_buf \in Seq(Chunks)
    BY <1>2 DEF ConnType
  <2> QED BY <1>3, <2>1, ResponseFacts, ConcatProperties
<1>5. new \in ConnType
  BY <1>2, <1>4 DEF ConnType, Lifecycle
<1>6. ReadyFor(Output["app"], new)
  <2>1. new # NoConn
    BY <1>5, NoConnAssumption
  <2> QED BY <1>2, <2>1 DEF ReadyFor, StateAt, Output, ConnType
<1>7. slots' = [slots EXCEPT ![hand["app"]] = new] /\ Forward("app")
      /\ total_requests' = total_requests + 1
  BY <1>2 DEF App, Conn, ReadyFor
<1>8. SharedOK' /\ Occupied' = Occupied
  BY <1>1, <1>2, <1>5, <1>6, <1>7, StageRun DEF App
<1>9. PrivateOK' /\ CountOK'
  BY <1>1, <1>7, <1>8 DEF App, clientVars, PrivateOK, ClientsOK, CountOK
<1> QED BY <1>8, <1>9, PartsNext

LEMMA EncodeStep == ASSUME IInv, Encode PROVE IInv'
<1>1. PrivateOK /\ CountOK /\ "encode" \in Passers /\ "encode" \in Threads
  BY Parts DEF Passers, Threads, Stages
<1>2. Holding("encode") /\ ReadyFor("encode", Conn("encode"))
  BY <1>1, HeldConn DEF Encode
<1>3. ReadyFor(Output["encode"], Conn("encode"))
  BY <1>2 DEF ReadyFor, StateAt, Output
<1>4. SharedOK' /\ Occupied' = Occupied
  BY <1>1, <1>2, <1>3, StageMove DEF Encode
<1>5. PrivateOK' /\ CountOK'
  BY <1>1, <1>4
  DEF Encode, clientVars, metricVars, PrivateOK, ClientsOK, CountOK
<1> QED BY <1>4, <1>5, PartsNext

LEMMA RcvdFacts ==
    ASSUME NEW f \in [Clients -> ClientType], NEW k \in Clients,
           NEW r \in Seq(Chunks)
    PROVE  /\ [f EXCEPT ![k].rcvd = r] \in [Clients -> ClientType]
           /\ \A c \in Clients : /\ [f EXCEPT ![k].rcvd = r][c].status = f[c].status
                                 /\ [f EXCEPT ![k].rcvd = r][c].ask = f[c].ask
                                 /\ [f EXCEPT ![k].rcvd = r][c].sent = f[c].sent
BY DEF ClientType

\* Delivering chunks of a response that was not begun changes rcvd only.
LEMMA DeliverFacts ==
    ASSUME PrivateOK, NEW conn \in ConnType, conn.bytes_written = 0,
           NEW n \in 0 .. Len(conn.write_buf)
    PROVE  /\ Deliver(conn, n) \in [Clients -> ClientType]
           /\ \A c \in Clients : /\ Deliver(conn, n)[c].status = client[c].status
                                 /\ Deliver(conn, n)[c].ask = client[c].ask
                                 /\ Deliver(conn, n)[c].sent = client[c].sent
<1> DEFINE part == SubSeq(conn.write_buf, conn.bytes_written + 1, conn.bytes_written + n)
<1>1. conn.client \in Clients /\ conn.write_buf \in Seq(Chunks)
      /\ client \in [Clients -> ClientType]
  BY DEF ConnType, PrivateOK
<1>2. part \in Seq(Chunks)
  <2>1. /\ conn.bytes_written + 1 \in Int /\ conn.bytes_written + n \in Int
        /\ \A i \in conn.bytes_written + 1 .. conn.bytes_written + n :
             conn.write_buf[i] \in Chunks
    BY <1>1
  <2> QED BY <2>1, SubSeqProperties
<1>3. client[conn.client].rcvd \o part \in Seq(Chunks)
  <2>1. client[conn.client].rcvd \in Seq(Chunks)
    BY <1>1 DEF ClientType
  <2> QED BY <1>2, <2>1, ConcatProperties
<1> DEFINE rcvd == IF client[conn.client].status = "open"
                   THEN client[conn.client].rcvd \o part
                   ELSE client[conn.client].rcvd
<1>4. rcvd \in Seq(Chunks)
  BY <1>1, <1>3 DEF ClientType
<1>5. Deliver(conn, n) = [client EXCEPT ![conn.client].rcvd = rcvd]
  BY DEF Deliver
<1> HIDE DEF rcvd
<1> QED BY <1>1, <1>4, <1>5, RcvdFacts

LEMMA NetOutSentStep == ASSUME IInv, NetOutSent PROVE IInv'
<1> DEFINE conn == Conn("net_out")
           sent == Deliver(conn, Unsent(conn))
<1>1. PrivateOK /\ "net_out" \in Threads
  BY Parts DEF Threads, Stages
<1>2. conn \in ConnType /\ ReadyFor("net_out", conn)
  BY <1>1, HeldConn DEF NetOutSent
<1>3. SharedOK' /\ CountOK'
  BY NetOutFrees DEF NetOutSent
<1>4. conn.bytes_written = 0 /\ Unsent(conn) \in 0 .. Len(conn.write_buf)
      /\ conn.client \in Clients
  <2>1. conn.write_buf \in Seq(Chunks) /\ conn.bytes_written = 0 /\ conn.client \in Clients
    BY <1>2 DEF ConnType, ReadyFor
  <2>2. Len(conn.write_buf) \in Nat
    BY <2>1, LenProperties
  <2> QED BY <2>1, <2>2 DEF Unsent
<1>5. /\ sent \in [Clients -> ClientType]
      /\ \A c \in Clients : /\ sent[c].status = client[c].status
                            /\ sent[c].ask = client[c].ask
                            /\ sent[c].sent = client[c].sent
  BY <1>1, <1>2, <1>4, DeliverFacts
<1>6. client' = [sent EXCEPT ![conn.client].status = IF @ = "open" THEN "closed" ELSE @]
  BY DEF NetOutSent
<1> HIDE DEF sent, conn
<1>7. client' \in [Clients -> ClientType]
  BY <1>4, <1>5, <1>6 DEF ClientType
<1>8. ClientsOK'
  BY <1>1, <1>4, <1>5, <1>6 DEF PrivateOK, ClientsOK, ClientType
<1>9. PrivateOK'
  BY <1>1, <1>7, <1>8 DEF NetOutSent, PrivateOK
<1> QED BY <1>3, <1>9, PartsNext

LEMMA NetOutPartialStep ==
    ASSUME IInv, NEW n \in 1 .. SendBuffer, NetOutPartial(n) PROVE IInv'
<1> DEFINE conn == Conn("net_out")
           new == [conn EXCEPT !.bytes_written = conn.bytes_written + n]
<1>1. PrivateOK /\ CountOK /\ "net_out" \in Threads
  BY Parts DEF Threads, Stages
<1>2. /\ Holding("net_out") /\ conn \in ConnType
      /\ ReadyFor("net_out", conn) /\ conn # NoConn
  BY <1>1, HeldConn DEF NetOutPartial, ReadyFor
<1>3. /\ n < Unsent(conn) /\ client' = Deliver(conn, n)
      /\ slots' = [slots EXCEPT ![hand["net_out"]] = new]
      /\ LetGo("net_out") /\ UNCHANGED <<free_list, accepted, backlog, metricVars>>
  <2>1. /\ n < Unsent(conn) /\ client' = Deliver(conn, n)
        /\ slots' = [slots EXCEPT ![hand["net_out"]] =
                       [@ EXCEPT !.bytes_written = conn.bytes_written + n]]
        /\ LetGo("net_out") /\ UNCHANGED <<free_list, accepted, backlog, metricVars>>
    BY <1>2 DEF NetOutPartial
  <2> QED BY <2>1 DEF Conn
<1>4. n \in Nat /\ conn.bytes_written = 0
  BY <1>2, ConnectionAssumption, PipelineAssumption DEF ReadyFor
<1>5. new \in ConnType
  BY <1>2, <1>4 DEF ConnType
<1>6. SharedOK' /\ Occupied' = Occupied
  BY <1>1, <1>2, <1>3, <1>5, StageRun
<1>7. n \in 0 .. Len(conn.write_buf)
  <2>1. Len(conn.write_buf) \in Nat
    BY <1>2, LenProperties DEF ConnType
  <2> QED BY <1>3, <1>4, <2>1 DEF Unsent
<1>8. client' \in [Clients -> ClientType]
      /\ \A c \in Clients : /\ client'[c].status = client[c].status
                            /\ client'[c].ask = client[c].ask
                            /\ client'[c].sent = client[c].sent
  BY <1>1, <1>2, <1>3, <1>4, <1>7, DeliverFacts
<1>9. PrivateOK' /\ CountOK'
  BY <1>1, <1>3, <1>6, <1>8 DEF metricVars, PrivateOK, ClientsOK, CountOK
<1> QED BY <1>6, <1>9, PartsNext

LEMMA NetOutErrorStep == ASSUME IInv, NetOutError PROVE IInv'
<1>1. PrivateOK
  BY Parts
<1>2. SharedOK' /\ CountOK'
  BY NetOutFrees DEF NetOutError
<1>3. errors' \in [{"parse", "net_out"} -> Nat] /\ total_conns' \in Int
  BY <1>1 DEF NetOutError, PrivateOK
<1>4. PrivateOK'
  BY <1>1, <1>3 DEF NetOutError, clientVars, PrivateOK, ClientsOK
<1> QED BY <1>2, <1>4, PartsNext

LEMMA EnvironmentStep == ASSUME IInv, Environment PROVE IInv'
<1>1. SharedOK /\ PrivateOK /\ CountOK
  BY Parts
<1>2. UNCHANGED <<slabVars, queue, hand, accepted, metricVars>>
  BY DEF Environment, Connect, Send, Leave
<1>3. SharedOK' /\ CountOK'
  BY <1>1, <1>2 DEF slabVars, metricVars, SharedOK, CountOK, Occupied,
              FreeListExact, OneHolder, QueuedOnce, HeldOnce, HeldNotQueued,
              HandoverReady, ReadyFor
<1>4. client' \in [Clients -> ClientType] /\ ClientsOK' /\ backlog' \in Seq(Clients)
  <2> USE <1>1 DEF PrivateOK
  <2>1. ASSUME NEW c \in Clients, NEW ask \in Asks, Connect(c, ask)
        PROVE  client' \in [Clients -> ClientType] /\ ClientsOK' /\ backlog' \in Seq(Clients)
    <3>1. backlog' \in Seq(Clients)
      BY <2>1, AppendProperties DEF Connect
    <3>2. client' \in [Clients -> ClientType]
      <4>1. ask \in Asks /\ client[c] \in ClientType
        BY <2>1
      <4>2. [client[c] EXCEPT !.status = "open", !.ask = ask] \in ClientType
        BY <4>1 DEF ClientType
      <4>3. client' = [client EXCEPT ![c] = [client[c] EXCEPT !.status = "open", !.ask = ask]]
        BY <2>1 DEF Connect
      <4> QED BY <4>2, <4>3
    <3>3. ClientsOK'
      BY <2>1 DEF Connect, ClientType, ClientsOK
    <3> QED BY <3>1, <3>2, <3>3
  <2>2. ASSUME NEW c \in Clients, Send(c)
        PROVE  client' \in [Clients -> ClientType] /\ ClientsOK' /\ backlog' \in Seq(Clients)
    <3>1. client[c].sent + 1 \in 0 .. Segments
      BY <2>2, ConnectionAssumption, PipelineAssumption DEF Send, ClientType
    <3> QED BY <2>2, <3>1 DEF Send, ClientType, ClientsOK
  <2>3. ASSUME NEW c \in Clients, Leave(c)
        PROVE  client' \in [Clients -> ClientType] /\ ClientsOK' /\ backlog' \in Seq(Clients)
    BY <2>3 DEF Leave, ClientType, ClientsOK
  <2> QED BY <2>1, <2>2, <2>3 DEF Environment
<1>5. PrivateOK'
  BY <1>1, <1>2, <1>4 DEF metricVars, PrivateOK
<1> QED BY <1>3, <1>5, PartsNext

LEMMA StutterStep == ASSUME IInv, UNCHANGED vars PROVE IInv'
BY DEF vars, slabVars, clientVars, metricVars, IInv, TypeOK, FreeListExact,
       OneHolder, QueuedOnce, HeldOnce, HeldNotQueued, HandoverReady, ReadyFor,
       ClientsOK, CountOK, Occupied

LEMMA NextIInv == IInv /\ [Next]_vars => IInv'
<1> SUFFICES ASSUME IInv, [Next]_vars PROVE IInv'
  OBVIOUS
<1>1. CASE Main
  BY <1>1, AcceptAllStep, InsertConnStep, RefuseConnStep, PushConnStep DEF Main
<1>2. CASE \E s \in Stages : Pop(s)
  BY <1>2, PopStep
<1>3. CASE ParseStage
  BY <1>3, ParseRequestStep, ParseIncompleteStep, ParseInvalidStep DEF ParseStage
<1>4. CASE Route \/ App \/ Encode
  BY <1>4, RouteStep, AppStep, EncodeStep
<1>5. CASE NetOutStage
  BY <1>5, NetOutSentStep, NetOutPartialStep, NetOutErrorStep DEF NetOutStage
<1>6. CASE Environment
  BY <1>6, EnvironmentStep
<1>7. CASE UNCHANGED vars
  BY <1>7, StutterStep
<1> QED BY <1>1, <1>2, <1>3, <1>4, <1>5, <1>6, <1>7 DEF Next, Server

-----------------------------------------------------------------------------
(* The theorems. *)

\* The slab, the queues, the hands, the clients and the connection count always
\* fit together as IInv says.
THEOREM Invariance == Spec => []IInv
<1> QED BY InitIInv, NextIInv, PTL DEF Spec

\* Type correctness of the pipeline: every id that a stage uses is a slot of the
\* slab, and every lifecycle state and response is one that the code can build.
THEOREM TypeCorrect == Spec => []TypeOK
<1>1. IInv => TypeOK
  BY DEF IInv
<1> QED BY Invariance, <1>1, PTL

\* The free list holds each vacant slot exactly once, however connections end.
THEOREM FreeListStaysExact == Spec => []FreeListExact
<1>1. IInv => FreeListExact
  BY DEF IInv
<1> QED BY Invariance, <1>1, PTL

\* A connection is in at most one queue position or one thread's hand.
THEOREM OneHolderAlways == Spec => []OneHolder
<1>1. IInv => OneHolder
  BY DEF IInv
<1> QED BY Invariance, <1>1, PTL

\* Every thread finds its connection in the state that its stage expects.
THEOREM HandoverAlwaysReady == Spec => []HandoverReady
<1>1. IInv => HandoverReady
  BY DEF IInv
<1> QED BY Invariance, <1>1, PTL

\* total_conns, logged as active_conns, is the number of occupied slots and never
\* goes below zero.
THEOREM ConnCountStaysExact == Spec => []ConnCountExact
<1>1. IInv => ConnCountExact
  BY ActiveCountFacts DEF IInv, TypeOK, CountOK, ConnCountExact
<1> QED BY Invariance, <1>1, PTL

-----------------------------------------------------------------------------
(* A connection is abandoned only where AbandonedOnlyWhere says. *)

\* A thread that pushes an id to a queue that is not full drops nobody.
LEMMA ForwardCarries ==
    ASSUME IInv, NEW s \in Passers, Holding(s), Forward(s),
           Len(queue[Output[s]]) < Room,
           NEW id \in SlotIds, Carried(id)
    PROVE  Carried(id)'
<1> DEFINE q == Output[s]
           n == Len(queue[q])
<1>1. q \in Stages /\ s \in Threads /\ hand[s] \in SlotIds /\ TypeOK
  BY OutputFacts, HeldConn DEF Passers, IInv
<1>2. n \in Nat /\ DOMAIN queue[q] = 1 .. n
  BY <1>1, QueueFacts
<1>3. n < Room /\ queue' = Pushed(q, hand[s])
  BY <1>1, <1>2 DEF Forward, Pushed
<1>4. queue'[q] = Append(queue[q], hand[s])
      /\ \A t \in Stages : t # q => queue'[t] = queue[t]
  BY <1>1, <1>3 DEF Pushed, TypeOK
<1>5. /\ DOMAIN queue'[q] = 1 .. n + 1
      /\ \A i \in 1 .. n : queue'[q][i] = queue[q][i]
      /\ queue'[q][n + 1] = hand[s]
  <2>1. queue[q] \in Seq(SlotIds)
    BY <1>1, QueueFacts
  <2> QED BY <1>1, <1>4, <2>1, AppendProperties, LenProperties
<1>6. CASE \E x \in Threads : hand[x] = id
  <2>1. PICK x \in Threads : hand[x] = id
    BY <1>6
  <2>2. CASE x = s
    <3>1. n + 1 \in DOMAIN queue'[q] /\ queue'[q][n + 1] = id
      BY <1>2, <1>5, <2>1, <2>2
    <3> QED BY <1>1, <3>1 DEF Carried
  <2>3. CASE x # s
    BY <1>1, <2>1, <2>3 DEF Forward, Carried, TypeOK
  <2> QED BY <2>2, <2>3
<1>7. CASE \E t \in Stages : \E i \in DOMAIN queue[t] : queue[t][i] = id
  <2>0. PICK t \in Stages : \E i \in DOMAIN queue[t] : queue[t][i] = id
    BY <1>7
  <2>1. PICK i \in DOMAIN queue[t] : queue[t][i] = id
    BY <2>0
  <2>2. i \in DOMAIN queue'[t] /\ queue'[t][i] = id
    BY <1>2, <1>4, <1>5, <2>1
  <2> QED BY <2>2 DEF Carried
<1> QED BY <1>6, <1>7 DEF Carried

LEMMA LetGoCarries ==
    ASSUME IInv, NEW s \in Threads, Holding(s), LetGo(s),
           NEW id \in SlotIds, id # hand[s], Carried(id)
    PROVE  Carried(id)'
<1>1. hand \in [Threads -> SlotIds \cup {NoId}] /\ queue' = queue
  BY DEF IInv, TypeOK, LetGo
<1>2. \A x \in Threads : hand[x] = id => hand'[x] = id
  BY <1>1 DEF LetGo
<1> QED BY <1>1, <1>2 DEF Carried

LEMMA PopCarries ==
    ASSUME IInv, NEW s \in Stages, Pop(s), NEW id \in SlotIds, Carried(id)
    PROVE  Carried(id)'
<1>1. /\ TypeOK /\ hand \in [Threads -> SlotIds \cup {NoId}] /\ s \in Threads
      /\ Len(queue[s]) \in Nat \ {0} /\ DOMAIN queue[s] = 1 .. Len(queue[s])
      /\ hand' = [hand EXCEPT ![s] = queue[s][1]] /\ hand[s] = NoId
  BY PopQueue, QueueFacts DEF IInv, TypeOK, Threads, Pop
<1>2. CASE \E x \in Threads : hand[x] = id
  <2>1. PICK x \in Threads : hand[x] = id
    BY <1>2
  <2>2. x # s
    BY <1>1, <2>1, ConnectionAssumption, PipelineAssumption
  <2> QED BY <1>1, <2>1, <2>2 DEF Carried
<1>3. CASE \E t \in Stages : \E i \in DOMAIN queue[t] : queue[t][i] = id
  <2>0. PICK t \in Stages : \E i \in DOMAIN queue[t] : queue[t][i] = id
    BY <1>3
  <2>1. PICK i \in DOMAIN queue[t] : queue[t][i] = id
    BY <2>0
  <2>2. CASE t # s
    <3>1. queue'[t] = queue[t]
      BY <1>1, <2>2, PopQueue
    <3> QED BY <2>1, <3>1 DEF Carried
  <2>3. CASE t = s /\ i = 1
    <3>1. hand'[s] = id
      BY <1>1, <2>1, <2>3
    <3> QED BY <1>1, <3>1 DEF Carried
  <2>4. CASE t = s /\ i # 1
    <3>1. i \in 1 .. Len(queue[s]) /\ i - 1 \in 1 .. Len(queue[s]) - 1
      BY <1>1, <2>1, <2>4
    <3>2. i - 1 \in DOMAIN queue'[s] /\ queue'[s][i - 1] = queue[s][i - 1 + 1]
      BY <1>1, <3>1, PopQueue
    <3>3. queue'[s][i - 1] = id
      BY <2>1, <2>4, <3>1, <3>2
    <3> QED BY <3>2, <3>3 DEF Carried
  <2> QED BY <2>2, <2>3, <2>4
<1> QED BY <1>2, <1>3 DEF Carried

\* A thread never drops an id that it does not hold, whether its queue is full or
\* not.
LEMMA ForwardSparesOthers ==
    ASSUME IInv, NEW s \in Passers, Holding(s), Forward(s),
           NEW id \in SlotIds, id # hand[s], Carried(id)
    PROVE  Carried(id)'
<1>1. CASE Len(queue[Output[s]]) < Room
  BY <1>1, ForwardCarries
<1>2. CASE ~(Len(queue[Output[s]]) < Room)
  <2>1. LetGo(s) /\ s \in Threads
    BY <1>2 DEF Forward, Pushed, LetGo, Passers
  <2> QED BY <2>1, LetGoCarries
<1> QED BY <1>1, <1>2

\* What a step may do to a connection: the body of AbandonedOnlyWhere.
Abandoned(id) == Carried(id) /\ ~Carried(id)' /\ slots'[id] # NoConn

GivenUp(id) ==
    \/ \E s \in DOMAIN Output : Dropping(s, id)
    \/ hand["parse"] = id /\ slots'[id].state \in {"WaitingForRequest", "Closed"}
    \/ hand["net_out"] = id /\ slots'[id].bytes_written > 0

\* A thread abandons nobody by pushing its id, unless the queue is full.
LEMMA ForwardAbandons ==
    ASSUME IInv, NEW s \in Passers, Holding(s), Forward(s),
           NEW id \in SlotIds, Abandoned(id)
    PROVE  GivenUp(id)
<1>1. hand[s] = id
  BY ForwardSparesOthers DEF Abandoned
<1>2. ~(Len(queue[Output[s]]) < Room)
  BY ForwardCarries DEF Abandoned
<1>3. s \in DOMAIN Output /\ Output[s] \in Stages
  <2>1. s \in {"main", "parse", "route", "app", "encode"}
    BY DEF Passers, Threads, Stages
  <2>2. DOMAIN Output = {"main", "parse", "route", "app", "encode"}
    BY DEF Output
  <2> QED BY <2>1, <2>2, OutputFacts
<1>4. Len(queue[Output[s]]) \in Nat /\ Room \in Int
  BY <1>3, QueueFacts, ConnectionAssumption, PipelineAssumption DEF IInv, TypeOK, Room
<1> QED BY <1>1, <1>2, <1>3, <1>4 DEF GivenUp, Dropping

\* A thread that lets its id go abandons no other.
LEMMA LetGoAbandons ==
    ASSUME IInv, NEW s \in Threads, Holding(s), LetGo(s),
           NEW id \in SlotIds, Abandoned(id)
    PROVE  hand[s] = id
BY LetGoCarries DEF Abandoned

LEMMA MainAbandons ==
    ASSUME IInv, Main, NEW id \in SlotIds, Abandoned(id)
    PROVE  GivenUp(id)
<1>1. CASE (\E n \in 1 .. Len(backlog) : AcceptAll(n)) \/ RefuseConn
  BY <1>1 DEF AcceptAll, RefuseConn, Abandoned, Carried
<1>2. CASE InsertConn
  <2>1. /\ queue' = queue /\ hand["main"] = NoId
        /\ hand' = [hand EXCEPT !["main"] = NextFree]
        /\ hand \in [Threads -> SlotIds \cup {NoId}]
    BY <1>2 DEF InsertConn, Holding, IInv, TypeOK
  <2>2. \A x \in Threads : hand[x] = id => hand'[x] = id
    BY <2>1, ConnectionAssumption, PipelineAssumption
  <2> QED BY <2>1, <2>2 DEF Abandoned, Carried
<1>3. CASE PushConn
  <2>1. "main" \in Passers
    BY DEF Passers, Threads, Stages
  <2> QED BY <1>3, <2>1, ForwardAbandons DEF PushConn
<1> QED BY <1>1, <1>2, <1>3 DEF Main

LEMMA StagesAbandon ==
    ASSUME IInv, ParseStage \/ Route \/ App \/ Encode,
           NEW id \in SlotIds, Abandoned(id)
    PROVE  GivenUp(id)
<1>0. /\ {"parse", "route", "app", "encode"} \subseteq Passers
      /\ {"parse", "route", "app", "encode"} \subseteq Threads
      /\ slots \in [SlotIds -> ConnType \cup {NoConn}]
  BY DEF Passers, Threads, Stages, IInv, TypeOK
<1>1. CASE ParseRequest
  BY <1>0, <1>1, ForwardAbandons DEF ParseRequest
<1>2. ASSUME NEW n \in 0 .. Segments, ParseIncomplete(n)
      PROVE  GivenUp(id)
  <2>1. hand["parse"] = id /\ ReadyFor("parse", Conn("parse"))
        /\ Conn("parse") \in ConnType
    BY <1>0, <1>2, HeldConn, LetGoAbandons DEF ParseIncomplete
  <2>2. slots'[id] = [Conn("parse") EXCEPT !.read_buf = n]
    BY <1>0, <1>2, <2>1 DEF ParseIncomplete, ReadyFor, Conn
  <2>3. slots'[id].state = "WaitingForRequest"
    BY <2>1, <2>2 DEF ReadyFor, StateAt, ConnType
  <2> QED BY <2>1, <2>3 DEF GivenUp
<1>3. ASSUME NEW n \in 0 .. Segments, ParseInvalid(n)
      PROVE  GivenUp(id)
  <2>1. hand["parse"] = id /\ Conn("parse") \in ConnType
    BY <1>0, <1>3, HeldConn, LetGoAbandons DEF ParseInvalid
  <2>2. slots'[id] = [Conn("parse") EXCEPT !.read_buf = n, !.state = "Closed"]
    BY <1>0, <1>3, <2>1 DEF ParseInvalid, Conn
  <2>3. slots'[id].state = "Closed"
    BY <2>1, <2>2 DEF ConnType
  <2> QED BY <2>1, <2>3 DEF GivenUp
<1>4. CASE Route
  <2>1. Conn("route") # NoConn
    BY <1>0, <1>4, HeldConn DEF Route, ReadyFor
  <2> QED BY <1>0, <1>4, <2>1, ForwardAbandons DEF Route
<1>5. CASE App
  <2>1. Conn("app") # NoConn
    BY <1>0, <1>5, HeldConn DEF App, ReadyFor
  <2> QED BY <1>0, <1>5, <2>1, ForwardAbandons DEF App
<1>6. CASE Encode
  BY <1>0, <1>6, ForwardAbandons DEF Encode
<1> QED BY <1>1, <1>2, <1>3, <1>4, <1>5, <1>6 DEF ParseStage

LEMMA NetOutAbandons ==
    ASSUME IInv, NetOutStage, NEW id \in SlotIds, Abandoned(id)
    PROVE  GivenUp(id)
<1>0. "net_out" \in Threads /\ Holding("net_out") /\ LetGo("net_out")
      /\ slots \in [SlotIds -> ConnType \cup {NoConn}]
  BY DEF Threads, Stages, IInv, TypeOK, NetOutStage, NetOutSent, NetOutError,
         NetOutPartial
<1>1. /\ hand["net_out"] = id /\ Conn("net_out") # NoConn
      /\ Conn("net_out") \in ConnType /\ Conn("net_out").bytes_written = 0
  BY <1>0, HeldConn, LetGoAbandons DEF ReadyFor
<1>2. CASE NetOutSent \/ NetOutError
  <2>1. slots' = [slots EXCEPT ![id] = NoConn]
    BY <1>1, <1>2 DEF NetOutSent, NetOutError, Remove
  <2> QED BY <1>0, <2>1 DEF Abandoned
<1>3. ASSUME NEW n \in 1 .. SendBuffer, NetOutPartial(n) PROVE GivenUp(id)
  <2> DEFINE conn == Conn("net_out")
             new == [conn EXCEPT !.bytes_written = conn.bytes_written + n]
  <2>1. slots' = [slots EXCEPT ![id] = new]
    <3>1. slots' = [slots EXCEPT ![hand["net_out"]] =
                     [@ EXCEPT !.bytes_written = conn.bytes_written + n]]
      BY <1>1, <1>3 DEF NetOutPartial
    <3> QED BY <1>1, <3>1 DEF Conn
  <2>2. slots'[id] = new
    BY <1>0, <2>1
  <2>3. new.bytes_written > 0
    BY <1>1, ConnectionAssumption, PipelineAssumption DEF ConnType
  <2> QED BY <1>1, <2>2, <2>3 DEF GivenUp
<1> QED BY <1>2, <1>3 DEF NetOutStage

\* Whatever the sizes of the slab and the queues: an open connection is abandoned
\* only by a push to a full queue, by Parse, which cannot make a request of what it
\* has read, or by NetOut, which has written a part of the response.
THEOREM AbandonedOnlyWhereSaid == Spec => AbandonedOnlyWhere
<1> DEFINE A == \A id \in SlotIds :
                  Carried(id) /\ ~Carried(id)' /\ slots'[id] # NoConn =>
                    \/ \E s \in DOMAIN Output : Dropping(s, id)
                    \/ hand["parse"] = id /\ slots'[id].state \in {"WaitingForRequest", "Closed"}
                    \/ hand["net_out"] = id /\ slots'[id].bytes_written > 0
<1>1. IInv /\ [Next]_vars => A
  <2> SUFFICES ASSUME IInv, [Next]_vars, NEW id \in SlotIds, Abandoned(id)
               PROVE  GivenUp(id)
    BY DEF Abandoned, GivenUp
  <2>1. CASE \E s \in Stages : Pop(s)
    BY <2>1, PopCarries DEF Abandoned
  <2>2. CASE Main \/ ParseStage \/ Route \/ App \/ Encode \/ NetOutStage
    BY <2>2, MainAbandons, StagesAbandon, NetOutAbandons
  <2>3. CASE Environment \/ UNCHANGED vars
    BY <2>3 DEF Environment, Connect, Send, Leave, vars, Abandoned, Carried
  <2> QED BY <2>1, <2>2, <2>3 DEF Next, Server
<1>2. A => [A]_vars
  OBVIOUS
<1> HIDE DEF A
<1>3. Spec => [][A]_vars
  BY Invariance, <1>1, <1>2, PTL DEF Spec
<1> QED BY <1>3 DEF AbandonedOnlyWhere, A

-----------------------------------------------------------------------------
(* The server is a chain of stages. *)

\* A thread's step ends by passing its id on or by dropping it.
LEMMA ForwardChain ==
    ASSUME IInv, NEW s \in Passers, Holding(s), Forward(s)
    PROVE  Chain!ChainNext
<1>1. s \in Chain!Holders /\ s \in DOMAIN Output /\ hand[s] # NoId
  BY DEF Passers, Threads, Stages, Output, Chain!Holders, Holding
<1>2. Output[s] \in Stages /\ queue \in [Stages -> Seq(SlotIds)]
  BY OutputFacts DEF IInv, TypeOK
<1>3. Len(queue[Output[s]]) \in Nat /\ Room \in Int
  BY <1>2, LenProperties, ConnectionAssumption, PipelineAssumption DEF Room
<1>4. CASE Len(queue[Output[s]]) < Room
  <2>1. Chain!Pass(s)
    BY <1>1, <1>4 DEF Forward, Pushed, Chain!Pass
  <2> QED BY <1>1, <2>1 DEF Chain!ChainNext
<1>5. CASE ~(Len(queue[Output[s]]) < Room)
  <2>1. Len(queue[Output[s]]) >= Room
    BY <1>3, <1>5
  <2>2. queue' = queue /\ hand' = [hand EXCEPT ![s] = NoId]
    BY <1>5 DEF Forward, Pushed
  <2>3. s = "main" => Len(queue[Output["main"]]) >= Room
    BY <2>1
  <2>4. Chain!Drop(s)
    BY <1>1, <2>2, <2>3 DEF Chain!Drop
  <2> QED BY <1>1, <2>4 DEF Chain!ChainNext
<1> QED BY <1>4, <1>5

LEMMA LetGoChain ==
    ASSUME NEW s \in Stages, Holding(s), LetGo(s)
    PROVE  Chain!ChainNext
<1>1. s \in Chain!Holders /\ s # "main"
  BY DEF Stages, Chain!Holders
<1>2. Chain!Drop(s)
  BY <1>1 DEF LetGo, Holding, Chain!Drop
<1> QED BY <1>1, <1>2 DEF Chain!ChainNext

\* The slot that main takes is vacant, and nobody has the id of a vacant slot.
LEMMA InsertChain ==
    ASSUME IInv, InsertConn
    PROVE  Chain!ChainNext
<1>1. TypeOK /\ HandoverReady /\ FreeListExact
  BY DEF IInv
<1>2. accepted \in Seq(Clients) /\ accepted # <<>> /\ Insert(NewConn(Head(accepted)))
  BY <1>1 DEF TypeOK, InsertConn
<1>3. NewConn(Head(accepted)) # NoConn
  BY <1>2, HeadTailProperties, NewConnFacts
<1>4. NextFree \in SlotIds /\ slots[NextFree] = NoConn
  BY <1>1, <1>2, <1>3, InsertFacts DEF TypeOK
<1>5. \A t \in Chain!Holders : hand[t] # NextFree
  BY <1>1, <1>4, ConnectionAssumption, PipelineAssumption
  DEF HandoverReady, ReadyFor, Chain!Holders, Threads
<1>6. \A t \in Stages : \A i \in DOMAIN queue[t] : queue[t][i] # NextFree
  BY <1>1, <1>4 DEF HandoverReady, ReadyFor
<1>7. Chain!Enter(NextFree)
  BY <1>5, <1>6 DEF InsertConn, Holding, Chain!Enter, Chain!Absent
<1> QED BY <1>4, <1>7 DEF Chain!ChainNext

\* With the connections left out, every behaviour of the server is one of a chain
\* of stages that each work in one step.
THEOREM RefinesChain == Spec => ChainRefinement
<1>1. Init => Chain!ChainInit
  BY DEF Init, Chain!ChainInit, Chain!Holders, Threads
<1>2. IInv /\ [Next]_vars => [Chain!ChainNext]_(Chain!chainVars)
  <2> SUFFICES ASSUME IInv, [Next]_vars
               PROVE  Chain!ChainNext \/ UNCHANGED <<queue, hand>>
    BY DEF Chain!chainVars
  <2> USE DEF Passers, Threads, Stages
  <2>1. CASE Main
    <3>1. CASE InsertConn
      BY <3>1, InsertChain
    <3>2. CASE PushConn
      BY <3>2, ForwardChain DEF PushConn
    <3>3. CASE RefuseConn \/ \E n \in 1 .. Len(backlog) : AcceptAll(n)
      BY <3>3 DEF RefuseConn, AcceptAll
    <3> QED BY <2>1, <3>1, <3>2, <3>3 DEF Main
  <2>2. ASSUME NEW s \in Stages, Pop(s) PROVE Chain!ChainNext
    <3>1. Chain!Take(s)
      BY <2>2 DEF Pop, Chain!Take
    <3> QED BY <3>1 DEF Chain!ChainNext
  <2>3. CASE ParseStage
    BY <2>3, ForwardChain, LetGoChain
    DEF ParseStage, ParseRequest, ParseIncomplete, ParseInvalid
  <2>4. CASE Route
    BY <2>4, ForwardChain, LetGoChain DEF Route
  <2>5. CASE App
    BY <2>5, ForwardChain, LetGoChain DEF App
  <2>6. CASE Encode
    BY <2>6, ForwardChain DEF Encode
  <2>7. CASE NetOutStage
    BY <2>7, LetGoChain DEF NetOutStage, NetOutSent, NetOutError, NetOutPartial
  <2>8. CASE Environment \/ UNCHANGED vars
    BY <2>8 DEF Environment, Connect, Send, Leave, vars
  <2> QED BY <2>1, <2>2, <2>3, <2>4, <2>5, <2>6, <2>7, <2>8 DEF Next, Server
<1> QED BY <1>1, <1>2, Invariance, PTL DEF Spec, ChainRefinement, Chain!ChainSpec

-----------------------------------------------------------------------------
(* What the clients receive. *)

\* What a connection has of the answer to its client, and the client of it.
Served(conn, peer) ==
    /\ peer.status \in {"open", "left"}
    /\ conn.state # "Sending" => conn.write_buf = <<>> /\ conn.bytes_written = 0
    /\ conn.state = "Routed" => conn.request_path = peer.ask
    /\ conn.state = "Processing" => conn.route_id = PromisedTo(peer.ask)
    /\ conn.state = "Sending" =>
         /\ conn.write_buf = ResponseOf(PromisedTo(peer.ask))
         /\ conn.bytes_written <= Len(conn.write_buf)
    /\ peer.status = "open" => peer.rcvd = SubSeq(conn.write_buf, 1, conn.bytes_written)

ConnsServed ==
    \A id \in SlotIds : slots[id] # NoConn => Served(slots[id], client[slots[id].client])

\* A client has one slot, or waits for one at one place, or neither.
OneSlot ==
    \A id, other \in SlotIds :
        slots[id] # NoConn /\ slots[other] # NoConn /\ slots[id].client = slots[other].client
            => id = other

WaitsOnce ==
    /\ \A i, j \in DOMAIN backlog : backlog[i] = backlog[j] => i = j
    /\ \A i, j \in DOMAIN accepted : accepted[i] = accepted[j] => i = j
    /\ \A i \in DOMAIN backlog, j \in DOMAIN accepted : backlog[i] # accepted[j]

\* c has connected, nothing was sent to it and no slot is its own.
Fresh(c) ==
    /\ client[c].status \in {"open", "left"} /\ client[c].rcvd = <<>>
    /\ \A id \in SlotIds : slots[id] # NoConn => slots[id].client # c

WaitersFresh ==
    /\ \A i \in DOMAIN backlog : Fresh(backlog[i])
    /\ \A i \in DOMAIN accepted : Fresh(accepted[i])

NewComers == \A c \in Clients : client[c].status = "new" => client[c].rcvd = <<>>

ClientsInv ==
    ConnsServed /\ OneSlot /\ WaitsOnce /\ WaitersFresh /\ NewComers /\ ResponseIntegrity

\* The route stage gives each request the page that it is promised.
LEMMA RouteFacts ==
    ASSUME NEW ask \in Asks \cup {None}
    PROVE  /\ RouteOf(ask) = PromisedTo(ask)
           /\ PromisedTo(ask) \in {"hello", "json", "not_found"}
           /\ ResponseOf(PromisedTo(ask)) \in Seq(Chunks)
<1>1. RouteOf(ask) = PromisedTo(ask) /\ PromisedTo(ask) \in {"hello", "json", "not_found"}
  BY DEF RouteOf, PromisedTo, Promised
<1> QED BY <1>1, ResponseFacts

\* The beginnings of a response.
LEMMA PrefixFacts ==
    ASSUME NEW mine \in Seq(Chunks), NEW n \in 0 .. Len(mine)
    PROVE  /\ IsPrefixOf(SubSeq(mine, 1, n), mine)
           /\ SubSeq(mine, 1, Len(mine)) = mine
           /\ SubSeq(mine, 1, 0) = <<>>
           /\ SubSeq(mine, 1, n) \in Seq(Chunks)
           /\ <<>> \o SubSeq(mine, 1, n) = SubSeq(mine, 1, n)
<1>1. Len(mine) \in Nat /\ \A i \in 1 .. Len(mine) : mine[i] \in Chunks
  BY LenProperties, ElementOfSeq
<1>2. SubSeq(mine, 1, n) \in Seq(Chunks) /\ Len(SubSeq(mine, 1, n)) = n
  BY <1>1, SubSeqProperties
<1>3. IsPrefixOf(SubSeq(mine, 1, n), mine)
  BY <1>1, <1>2 DEF IsPrefixOf
<1>4. SubSeq(mine, 1, Len(mine)) = mine /\ SubSeq(mine, 1, 0) = <<>>
  BY SubSeqFull, SubSeqEmpty
<1>5. <<>> \o SubSeq(mine, 1, n) = SubSeq(mine, 1, n)
  BY <1>2, ConcatEmptySeq
<1> QED BY <1>2, <1>3, <1>4, <1>5

\* The part of ResponseIntegrity that is about one client.
Answered(peer) ==
    /\ IsPrefixOf(peer.rcvd, ResponseOf(PromisedTo(peer.ask)))
    /\ peer.status = "closed" /\ peer.rcvd # <<>> => peer.rcvd = ResponseOf(PromisedTo(peer.ask))

LEMMA IntegrityIsAnswered == ResponseIntegrity <=> \A c \in Clients : Answered(client[c])
BY DEF ResponseIntegrity, Answered

LEMMA EmptyIsAnswered ==
    ASSUME NEW peer \in ClientType, peer.rcvd = <<>>
    PROVE  Answered(peer)
<1> DEFINE mine == ResponseOf(PromisedTo(peer.ask))
<1>1. mine \in Seq(Chunks)
  BY RouteFacts DEF ClientType
<1>2. Len(mine) \in Nat
  BY <1>1, LenProperties
<1>3. IsPrefixOf(SubSeq(mine, 1, 0), mine) /\ SubSeq(mine, 1, 0) = <<>>
  BY <1>1, <1>2, PrefixFacts
<1> QED BY <1>3 DEF Answered

\* The clients that wait are clients, and are known.
LEMMA Waiters ==
    ASSUME IInv, ClientsInv
    PROVE  /\ backlog \in Seq(Clients) /\ accepted \in Seq(Clients)
           /\ \A i \in DOMAIN backlog : backlog[i] \in Clients /\ Fresh(backlog[i])
           /\ \A i \in DOMAIN accepted : accepted[i] \in Clients /\ Fresh(accepted[i])
<1>1. backlog \in Seq(Clients) /\ accepted \in Seq(Clients)
  BY DEF IInv, TypeOK
<1>2. /\ \A i \in DOMAIN backlog : backlog[i] \in Clients
      /\ \A i \in DOMAIN accepted : accepted[i] \in Clients
  BY <1>1, LenProperties, ElementOfSeq
<1> QED BY <1>1, <1>2 DEF ClientsInv, WaitersFresh

-----------------------------------------------------------------------------
(* The steps that change a connection or a client. *)

\* A connection changes or goes, and its client with it: the others see nothing.
LEMMA ConnChange ==
    ASSUME IInv, ClientsInv, NEW id \in SlotIds, slots[id] # NoConn,
           NEW new \in ConnType \cup {NoConn}, NEW peer \in ClientType,
           new # NoConn => new.client = slots[id].client /\ Served(new, peer),
           peer.status # "new", Answered(peer),
           slots' = [slots EXCEPT ![id] = new],
           client' = [client EXCEPT ![slots[id].client] = peer],
           UNCHANGED <<backlog, accepted>>
    PROVE  ClientsInv'
<1> DEFINE c == slots[id].client
<1>1. slots \in [SlotIds -> ConnType \cup {NoConn}] /\ client \in [Clients -> ClientType]
  BY DEF IInv, TypeOK
<1>2. c \in Clients
  BY <1>1 DEF ConnType
<1>3. /\ \A other \in SlotIds : slots'[other] = IF other = id THEN new ELSE slots[other]
      /\ \A b \in Clients : client'[b] = IF b = c THEN peer ELSE client[b]
  BY <1>1
<1>4. \A other \in SlotIds : slots'[other] # NoConn =>
         slots[other] # NoConn /\ slots[other].client \in Clients
           /\ slots'[other].client = slots[other].client
  BY <1>1, <1>3 DEF ConnType
<1>5. OneSlot'
  BY <1>4 DEF ClientsInv, OneSlot
<1>6. ConnsServed'
  <2> SUFFICES ASSUME NEW other \in SlotIds, slots'[other] # NoConn
               PROVE  Served(slots'[other], client'[slots'[other].client])
    BY DEF ConnsServed
  <2>1. CASE other = id
    BY <1>2, <1>3, <2>1
  <2>2. CASE other # id
    <3>1. slots'[other] = slots[other] /\ slots[other] # NoConn /\ slots[other].client \in Clients
      BY <1>3, <1>4, <2>2
    <3>2. slots[other].client # c
      BY <2>2, <3>1 DEF ClientsInv, OneSlot
    <3>3. client'[slots[other].client] = client[slots[other].client]
      BY <1>3, <3>1, <3>2
    <3> QED BY <3>1, <3>3 DEF ClientsInv, ConnsServed
  <2> QED BY <2>1, <2>2
<1>7. WaitsOnce'
  BY DEF ClientsInv, WaitsOnce
<1>8. ASSUME NEW b \in Clients, Fresh(b)
      PROVE  Fresh(b)'
  <2>1. client'[b] = client[b]
    BY <1>3, <1>8 DEF Fresh
  <2> QED BY <1>4, <1>8, <2>1 DEF Fresh
<1>9. WaitersFresh'
  BY <1>8, Waiters DEF WaitersFresh
<1>10. NewComers'
  BY <1>3 DEF ClientsInv, NewComers
<1>11. ResponseIntegrity'
  BY <1>3 DEF ClientsInv, ResponseIntegrity, Answered
<1> QED BY <1>5, <1>6, <1>7, <1>9, <1>10, <1>11 DEF ClientsInv

\* A connection changes, its client does not.
LEMMA ConnOnly ==
    ASSUME IInv, ClientsInv, NEW id \in SlotIds, slots[id] # NoConn,
           NEW new \in ConnType, new.client = slots[id].client,
           Served(new, client[new.client]),
           slots' = [slots EXCEPT ![id] = new], UNCHANGED <<client, backlog, accepted>>
    PROVE  ClientsInv'
<1> DEFINE peer == client[new.client]
<1>1. client \in [Clients -> ClientType] /\ new.client \in Clients
  BY DEF IInv, TypeOK, ConnType
<1>2. /\ peer \in ClientType /\ Answered(peer) /\ peer.status # "new"
      /\ client' = [client EXCEPT ![new.client] = peer]
  BY <1>1, IntegrityIsAnswered DEF ClientsInv, Served
<1> QED BY <1>2, ConnChange

\* A client that the server knows sends or leaves.
LEMMA PeerStep ==
    ASSUME IInv, ClientsInv, NEW c \in Clients, client[c].status = "open",
           NEW peer \in ClientType, peer.status \in {"open", "left"},
           peer.ask = client[c].ask, peer.rcvd = client[c].rcvd,
           client' = [client EXCEPT ![c] = peer],
           UNCHANGED <<slabVars, backlog, accepted>>
    PROVE  ClientsInv'
<1>1. client \in [Clients -> ClientType] /\ slots \in [SlotIds -> ConnType \cup {NoConn}]
  BY DEF IInv, TypeOK
<1>2. slots' = slots /\ \A b \in Clients : client'[b] = IF b = c THEN peer ELSE client[b]
  BY <1>1 DEF slabVars
<1>3. OneSlot' /\ WaitsOnce'
  BY <1>2 DEF ClientsInv, OneSlot, WaitsOnce
<1>4. ConnsServed'
  <2> SUFFICES ASSUME NEW id \in SlotIds, slots[id] # NoConn
               PROVE  Served(slots[id], client'[slots[id].client])
    BY <1>2 DEF ConnsServed
  <2>1. Served(slots[id], client[slots[id].client]) /\ slots[id].client \in Clients
    BY <1>1 DEF ClientsInv, ConnsServed, ConnType
  <2>2. CASE slots[id].client = c
    BY <1>2, <2>1, <2>2 DEF Served
  <2>3. CASE slots[id].client # c
    BY <1>2, <2>1, <2>3
  <2> QED BY <2>2, <2>3
<1>5. \A b \in Clients : Fresh(b) => Fresh(b)'
  BY <1>2 DEF Fresh
<1>6. WaitersFresh'
  BY <1>5, Waiters DEF WaitersFresh
<1>7. NewComers'
  BY <1>2 DEF ClientsInv, NewComers
<1>8. ResponseIntegrity'
  <2>1. Answered(client[c])
    BY IntegrityIsAnswered DEF ClientsInv
  <2>2. Answered(peer)
    BY <2>1 DEF Answered
  <2> QED BY <1>2, <2>2 DEF ClientsInv, ResponseIntegrity, Answered
<1> QED BY <1>3, <1>4, <1>6, <1>7, <1>8 DEF ClientsInv

\* A client connects and waits.
LEMMA ConnectStep ==
    ASSUME IInv, ClientsInv, NEW c \in Clients, NEW ask \in Asks, Connect(c, ask)
    PROVE  ClientsInv'
<1> DEFINE peer == [client[c] EXCEPT !.status = "open", !.ask = ask]
           n == Len(backlog)
<1>1. client \in [Clients -> ClientType] /\ slots \in [SlotIds -> ConnType \cup {NoConn}]
  BY DEF IInv, TypeOK
<1>2. /\ client[c].status = "new" /\ slots' = slots /\ accepted' = accepted
      /\ backlog' = Append(backlog, c)
      /\ client' = [client EXCEPT ![c].status = "open", ![c].ask = ask]
  BY DEF Connect, slabVars
<1>3. client[c].rcvd = <<>>
  BY <1>2 DEF ClientsInv, NewComers
<1>4. peer \in ClientType /\ peer.status = "open" /\ peer.rcvd = <<>>
  BY <1>1, <1>3 DEF ClientType
<1>5. \A b \in Clients : client'[b] = IF b = c THEN peer ELSE client[b]
  BY <1>1, <1>2 DEF ClientType
<1> HIDE DEF peer
<1>6. /\ n \in Nat /\ DOMAIN backlog = 1 .. n /\ DOMAIN backlog' = 1 .. n + 1
      /\ \A i \in 1 .. n : backlog'[i] = backlog[i]
      /\ backlog'[n + 1] = c
  <2>1. /\ Append(backlog, c) \in Seq(Clients) /\ Len(Append(backlog, c)) = n + 1
        /\ \A i \in 1 .. n : Append(backlog, c)[i] = backlog[i]
        /\ Append(backlog, c)[n + 1] = c
    BY Waiters, AppendProperties
  <2>2. DOMAIN Append(backlog, c) = 1 .. n + 1 /\ n \in Nat /\ DOMAIN backlog = 1 .. n
    BY <2>1, Waiters, LenProperties
  <2> QED BY <1>2, <2>1, <2>2
<1>7. /\ \A i \in DOMAIN backlog : backlog[i] # c
      /\ \A i \in DOMAIN accepted : accepted[i] # c
      /\ \A id \in SlotIds : slots[id] # NoConn => slots[id].client # c
  BY <1>2 DEF ClientsInv, WaitersFresh, Fresh, ConnsServed, Served
<1>8. OneSlot'
  BY <1>2 DEF ClientsInv, OneSlot
<1>9. WaitsOnce'
  <2>1. WaitsOnce
    BY DEF ClientsInv
  <2>2. \A i, j \in DOMAIN backlog' : backlog'[i] = backlog'[j] => i = j
    BY <1>6, <1>7, <2>1 DEF WaitsOnce
  <2>3. \A i \in DOMAIN backlog', j \in DOMAIN accepted : backlog'[i] # accepted[j]
    BY <1>6, <1>7, <2>1 DEF WaitsOnce
  <2> QED BY <1>2, <2>1, <2>2, <2>3 DEF WaitsOnce
<1>10. \A b \in Clients : Fresh(b) \/ b = c => Fresh(b)'
  BY <1>2, <1>4, <1>5, <1>7 DEF Fresh
<1>11. WaitersFresh'
  <2>1. \A i \in DOMAIN backlog' : backlog'[i] \in Clients /\ (Fresh(backlog'[i]) \/ backlog'[i] = c)
    BY <1>6, Waiters
  <2>2. \A i \in DOMAIN accepted' : accepted'[i] \in Clients /\ Fresh(accepted'[i])
    BY <1>2, Waiters
  <2> QED BY <1>10, <2>1, <2>2 DEF WaitersFresh, Fresh
<1>12. ConnsServed'
  BY <1>1, <1>2, <1>5, <1>7 DEF ClientsInv, ConnsServed, ConnType
<1>13. NewComers'
  BY <1>4, <1>5 DEF ClientsInv, NewComers
<1>14. ResponseIntegrity'
  <2>1. Answered(peer)
    BY <1>4, EmptyIsAnswered
  <2> QED BY <1>5, <2>1 DEF ClientsInv, ResponseIntegrity, Answered
<1> QED BY <1>8, <1>9, <1>11, <1>12, <1>13, <1>14 DEF ClientsInv

-----------------------------------------------------------------------------
(* The streams that wait. *)

\* The first of a sequence and the rest of it.
LEMMA RestFacts ==
    ASSUME NEW S, NEW q \in Seq(S), q # <<>>
    PROVE  /\ Head(q) \in S /\ 1 \in DOMAIN q /\ q[1] = Head(q)
           /\ \A i \in DOMAIN Tail(q) :
                i \in Nat /\ i + 1 \in DOMAIN q /\ i + 1 # 1 /\ Tail(q)[i] = q[i + 1]
<1>1. /\ Tail(q) \in Seq(S) /\ Len(Tail(q)) = Len(q) - 1
      /\ \A i \in 1 .. Len(q) - 1 : Tail(q)[i] = q[i + 1]
      /\ Head(q) = q[1] /\ Head(q) \in S
      /\ Len(q) \in Nat \ {0}
  BY HeadTailProperties, EmptySeq
<1>2. DOMAIN Tail(q) = 1 .. Len(q) - 1 /\ DOMAIN q = 1 .. Len(q)
  BY <1>1, LenProperties
<1> QED BY <1>1, <1>2

\* accept_all moves the first n of the backlog to accepted, which was empty.
LEMMA AcceptKeepsClients ==
    ASSUME IInv, ClientsInv, NEW n \in 1 .. Len(backlog), AcceptAll(n)
    PROVE  ClientsInv'
<1> DEFINE m == Len(backlog)
<1>1. /\ m \in Nat /\ DOMAIN backlog = 1 .. m /\ n \in 1 .. m
      /\ \A i \in 1 .. m : backlog[i] \in Clients
  BY Waiters, LenProperties, ElementOfSeq
<1>2. /\ accepted' = SubSeq(backlog, 1, n) /\ backlog' = SubSeq(backlog, n + 1, m)
      /\ slots' = slots /\ client' = client
  BY DEF AcceptAll, slabVars
<1> HIDE DEF m
<1>3. DOMAIN accepted' = 1 .. n /\ \A i \in 1 .. n : accepted'[i] = backlog[i]
  <2>1. 1 \in Int /\ n \in Int /\ \A i \in 1 .. n : backlog[i] \in Clients
    BY <1>1
  <2>2. /\ SubSeq(backlog, 1, n) \in Seq(Clients) /\ Len(SubSeq(backlog, 1, n)) = n
        /\ \A i \in 1 .. n : SubSeq(backlog, 1, n)[i] = backlog[i]
    BY <1>1, <2>1, SubSeqProperties
  <2> QED BY <1>2, <2>2, LenProperties
<1>4. DOMAIN backlog' = 1 .. m - n /\ \A i \in 1 .. m - n : backlog'[i] = backlog[n + i]
  <2>1. n + 1 \in Int /\ m \in Int /\ \A i \in n + 1 .. m : backlog[i] \in Clients
    BY <1>1
  <2>2. /\ SubSeq(backlog, n + 1, m) \in Seq(Clients) /\ Len(SubSeq(backlog, n + 1, m)) = m - n
        /\ \A i \in 1 .. m - n : SubSeq(backlog, n + 1, m)[i] = backlog[n + i]
    BY <1>1, <2>1, SubSeqProperties
  <2> QED BY <1>2, <2>2, LenProperties
<1>5. /\ \A i \in DOMAIN accepted' : i \in DOMAIN backlog /\ accepted'[i] = backlog[i]
      /\ \A i \in DOMAIN backlog' : n + i \in DOMAIN backlog /\ backlog'[i] = backlog[n + i]
      /\ \A i \in DOMAIN accepted', j \in DOMAIN backlog' : i # n + j
      /\ \A i, j \in DOMAIN backlog' : n + i = n + j => i = j
  BY <1>1, <1>3, <1>4
<1>6. WaitsOnce'
  <2>1. \A i, j \in DOMAIN backlog : backlog[i] = backlog[j] => i = j
    BY DEF ClientsInv, WaitsOnce
  <2>2. \A i, j \in DOMAIN backlog' : backlog'[i] = backlog'[j] => i = j
    BY <1>5, <2>1
  <2>3. \A i, j \in DOMAIN accepted' : accepted'[i] = accepted'[j] => i = j
    BY <1>5, <2>1
  <2>4. \A i \in DOMAIN backlog', j \in DOMAIN accepted' : backlog'[i] # accepted'[j]
    BY <1>5, <2>1
  <2> QED BY <2>2, <2>3, <2>4 DEF WaitsOnce
<1>7. WaitersFresh'
  <2>1. \A i \in DOMAIN accepted' : Fresh(accepted'[i])
    BY <1>5, Waiters
  <2>2. \A i \in DOMAIN backlog' : Fresh(backlog'[i])
    BY <1>5, Waiters
  <2> QED BY <1>2, <2>1, <2>2 DEF WaitersFresh, Fresh
<1>8. ConnsServed' /\ OneSlot' /\ NewComers' /\ ResponseIntegrity'
  BY <1>2 DEF ClientsInv, ConnsServed, OneSlot, NewComers, ResponseIntegrity
<1> QED BY <1>6, <1>7, <1>8 DEF ClientsInv

\* The first of the accepted streams is taken, wherever it goes: it waits nowhere.
LEMMA TakenOnce ==
    ASSUME IInv, ClientsInv, accepted # <<>>, accepted' = Tail(accepted), backlog' = backlog
    PROVE  /\ Head(accepted) \in Clients /\ Fresh(Head(accepted))
           /\ WaitsOnce'
           /\ \A i \in DOMAIN backlog : backlog[i] \in Clients /\ Fresh(backlog[i])
                                          /\ backlog[i] # Head(accepted)
           /\ \A i \in DOMAIN accepted' : accepted'[i] \in Clients /\ Fresh(accepted'[i])
                                            /\ accepted'[i] # Head(accepted)
<1> DEFINE c == Head(accepted)
<1>1. /\ c \in Clients /\ 1 \in DOMAIN accepted /\ accepted[1] = c
      /\ \A i \in DOMAIN accepted' :
           i \in Nat /\ i + 1 \in DOMAIN accepted /\ i + 1 # 1 /\ accepted'[i] = accepted[i + 1]
  BY Waiters, RestFacts
<1>2. WaitsOnce
  BY DEF ClientsInv
<1>3. Fresh(c)
  BY <1>1, Waiters
<1>4. WaitsOnce'
  <2>1. \A i, j \in DOMAIN accepted' : accepted'[i] = accepted'[j] => i = j
    <3>1. \A i, j \in DOMAIN accepted' : accepted'[i] = accepted'[j] => i + 1 = j + 1
      BY <1>1, <1>2 DEF WaitsOnce
    <3> QED BY <1>1, <3>1
  <2>2. \A i \in DOMAIN backlog, j \in DOMAIN accepted' : backlog[i] # accepted'[j]
    BY <1>1, <1>2 DEF WaitsOnce
  <2> QED BY <1>2, <2>1, <2>2 DEF WaitsOnce
<1>5. \A i \in DOMAIN backlog : backlog[i] # c
  BY <1>1, <1>2 DEF WaitsOnce
<1>6. \A i \in DOMAIN accepted' : accepted'[i] # c
  BY <1>1, <1>2 DEF WaitsOnce
<1> HIDE DEF c
<1>7. \A i \in DOMAIN accepted' : accepted'[i] \in Clients /\ Fresh(accepted'[i])
  BY <1>1, Waiters
<1> QED BY <1>1, <1>3, <1>4, <1>5, <1>6, <1>7, Waiters DEF c

\* A stream without a slot is dropped: its client has received nothing.
LEMMA RefuseKeepsClients ==
    ASSUME IInv, ClientsInv, RefuseConn
    PROVE  ClientsInv'
<1> DEFINE c == Head(accepted)
           peer == [client[c] EXCEPT !.status = IF @ = "open" THEN "closed" ELSE @]
<1>1. /\ accepted # <<>> /\ accepted' = Tail(accepted) /\ backlog' = backlog
      /\ slots' = slots /\ client' = Hangup(c)
      /\ client \in [Clients -> ClientType] /\ slots \in [SlotIds -> ConnType \cup {NoConn}]
  BY DEF IInv, TypeOK, RefuseConn, slabVars
<1>2. /\ c \in Clients /\ Fresh(c) /\ WaitsOnce'
      /\ \A i \in DOMAIN backlog : backlog[i] \in Clients /\ Fresh(backlog[i]) /\ backlog[i] # c
      /\ \A i \in DOMAIN accepted' : accepted'[i] \in Clients /\ Fresh(accepted'[i])
                                       /\ accepted'[i] # c
  BY <1>1, TakenOnce
<1>3. peer \in ClientType /\ peer.status # "new" /\ peer.rcvd = <<>>
  BY <1>1, <1>2 DEF Fresh, ClientType
<1>4. \A b \in Clients : client'[b] = IF b = c THEN peer ELSE client[b]
  BY <1>1 DEF Hangup
<1> HIDE DEF peer, c
<1>5. \A b \in Clients : b # c /\ Fresh(b) => Fresh(b)'
  BY <1>1, <1>4 DEF Fresh
<1>6. WaitersFresh'
  BY <1>1, <1>2, <1>5 DEF WaitersFresh, Fresh
<1>7. ConnsServed'
  <2>1. \A id \in SlotIds : slots[id] # NoConn =>
           slots[id].client \in Clients /\ slots[id].client # c
    BY <1>1, <1>2 DEF ConnType, Fresh
  <2> QED BY <1>1, <1>4, <2>1 DEF ClientsInv, ConnsServed
<1>8. OneSlot' /\ NewComers'
  BY <1>1, <1>3, <1>4 DEF ClientsInv, OneSlot, NewComers
<1>9. ResponseIntegrity'
  <2>1. Answered(peer)
    BY <1>3, EmptyIsAnswered
  <2> QED BY <1>4, <2>1 DEF ClientsInv, ResponseIntegrity, Answered
<1> QED BY <1>2, <1>6, <1>7, <1>8, <1>9 DEF ClientsInv

\* The slab takes a stream in: its client has no other slot.
LEMMA InsertKeepsClients ==
    ASSUME IInv, ClientsInv, InsertConn
    PROVE  ClientsInv' /\ \A id \in SlotIds : slots[id] # NoConn => slots'[id] # NoConn
<1> DEFINE c == Head(accepted)
           new == NewConn(c)
<1>1. /\ accepted # <<>> /\ accepted' = Tail(accepted) /\ backlog' = backlog
      /\ client' = client /\ Insert(new)
      /\ slots \in [SlotIds -> ConnType \cup {NoConn}]
      /\ free_list \in Seq(SlotIds) /\ FreeListExact
  BY DEF IInv, TypeOK, InsertConn, clientVars
<1>2. /\ c \in Clients /\ Fresh(c) /\ WaitsOnce'
      /\ \A i \in DOMAIN backlog : backlog[i] \in Clients /\ Fresh(backlog[i]) /\ backlog[i] # c
      /\ \A i \in DOMAIN accepted' : accepted'[i] \in Clients /\ Fresh(accepted'[i])
                                       /\ accepted'[i] # c
  BY <1>1, TakenOnce
<1>3. new \in ConnType /\ new # NoConn
  BY <1>2, NewConnFacts
<1>4. /\ new.client = c /\ new.state = "WaitingForRequest"
      /\ new.write_buf = <<>> /\ new.bytes_written = 0
  BY DEF NewConn
<1>5. NextFree \in SlotIds /\ slots[NextFree] = NoConn
  BY <1>1, <1>3, InsertFacts
<1>6. slots' = [slots EXCEPT ![NextFree] = new]
  BY <1>1 DEF Insert
<1> HIDE DEF new, c
<1>7. \A id \in SlotIds : slots'[id] = IF id = NextFree THEN new ELSE slots[id]
  BY <1>1, <1>5, <1>6
<1>8. Served(new, client[c])
  <2>1. SubSeq(new.write_buf, 1, new.bytes_written) = <<>>
    <3>1. <<>> \in Seq(Chunks)
      BY EmptySeq
    <3> QED BY <1>4, <3>1, SubSeqEmpty
  <2> QED BY <1>2, <1>4, <2>1 DEF Served, Fresh
<1>9. ConnsServed'
  BY <1>1, <1>4, <1>7, <1>8 DEF ClientsInv, ConnsServed
<1>10. \A id \in SlotIds : slots[id] # NoConn => slots[id].client # c
  BY <1>2 DEF Fresh
<1>11. OneSlot'
  BY <1>4, <1>7, <1>10 DEF ClientsInv, OneSlot
<1>12. \A b \in Clients : b # c /\ Fresh(b) => Fresh(b)'
  BY <1>1, <1>4, <1>7 DEF Fresh
<1>13. WaitersFresh'
  BY <1>1, <1>2, <1>12 DEF WaitersFresh, Fresh
<1>14. NewComers' /\ ResponseIntegrity'
  BY <1>1 DEF ClientsInv, NewComers, ResponseIntegrity
<1> QED BY <1>2, <1>3, <1>7, <1>9, <1>11, <1>13, <1>14 DEF ClientsInv, new

-----------------------------------------------------------------------------
(* The stages. *)

\* The connection that a thread holds, and its client.
LEMMA HeldServed ==
    ASSUME IInv, ClientsInv, NEW s \in Threads, Holding(s)
    PROVE  /\ hand[s] \in SlotIds /\ Conn(s) = slots[hand[s]]
           /\ Conn(s) \in ConnType /\ Conn(s) # NoConn /\ ReadyFor(s, Conn(s))
           /\ Conn(s).client \in Clients /\ client[Conn(s).client] \in ClientType
           /\ Served(Conn(s), client[Conn(s).client])
<1>1. /\ hand[s] \in SlotIds /\ Conn(s) \in ConnType /\ ReadyFor(s, Conn(s))
      /\ Conn(s) = slots[hand[s]]
  BY HeldConn DEF Conn
<1>2. Conn(s).client \in Clients /\ Conn(s) # NoConn
  BY <1>1 DEF ConnType, ReadyFor
<1> QED BY <1>1, <1>2 DEF IInv, TypeOK, ClientsInv, ConnsServed

LEMMA ParseKeepsClients ==
    ASSUME IInv, ClientsInv, ParseStage
    PROVE  ClientsInv' /\ \A id \in SlotIds : slots[id] # NoConn => slots'[id] # NoConn
<1> DEFINE was == Conn("parse")
<1>1. /\ Holding("parse") /\ "parse" \in Threads
      /\ UNCHANGED <<client, backlog, accepted>>
  BY DEF ParseStage, ParseRequest, ParseIncomplete, ParseInvalid, clientVars, Threads, Stages
<1>2. /\ hand["parse"] \in SlotIds /\ was = slots[hand["parse"]]
      /\ was \in ConnType /\ was # NoConn /\ ReadyFor("parse", was)
      /\ was.client \in Clients /\ client[was.client] \in ClientType
      /\ Served(was, client[was.client])
  BY <1>1, HeldServed
<1>3. was.state = "WaitingForRequest"
  BY <1>2 DEF ReadyFor, StateAt
<1>4. PICK new : /\ slots' = [slots EXCEPT ![hand["parse"]] = new]
                 /\ new \in ConnType /\ new.client = was.client
                 /\ Served(new, client[was.client])
  <2>1. CASE ParseRequest
    <3> DEFINE new == [was EXCEPT !.request_path = Peer.ask, !.state = "Routed", !.read_buf = 0]
    <3>1. slots' = [slots EXCEPT ![hand["parse"]] = new] /\ Peer = client[was.client]
      BY <2>1, <1>2 DEF ParseRequest, Peer
    <3>2. new \in ConnType
      <4>1. Peer.ask \in Asks \cup {None} /\ 0 \in 0 .. Segments
        BY <3>1, <1>2, ConnectionAssumption DEF ClientType
      <4> QED BY <4>1, <1>2 DEF ConnType, Lifecycle
    <3>3. Served(new, client[was.client])
      BY <1>2, <1>3, <3>1 DEF Served, ConnType
    <3>4. new.client = was.client
      BY <1>2 DEF ConnType
    <3> QED BY <3>1, <3>2, <3>3, <3>4
  <2>2. ASSUME NEW n \in 0 .. Segments, ParseIncomplete(n)
        PROVE  \E new : /\ slots' = [slots EXCEPT ![hand["parse"]] = new]
                        /\ new \in ConnType /\ new.client = was.client
                        /\ Served(new, client[was.client])
    <3> DEFINE new == [was EXCEPT !.read_buf = n]
    <3>1. slots' = [slots EXCEPT ![hand["parse"]] = new]
      BY <2>2, <1>2 DEF ParseIncomplete
    <3>2. new \in ConnType /\ new.client = was.client /\ Served(new, client[was.client])
      BY <1>2, <1>3 DEF Served, ConnType
    <3> QED BY <3>1, <3>2
  <2>3. ASSUME NEW n \in 0 .. Segments, ParseInvalid(n)
        PROVE  \E new : /\ slots' = [slots EXCEPT ![hand["parse"]] = new]
                        /\ new \in ConnType /\ new.client = was.client
                        /\ Served(new, client[was.client])
    <3> DEFINE new == [was EXCEPT !.read_buf = n, !.state = "Closed"]
    <3>1. slots' = [slots EXCEPT ![hand["parse"]] = new]
      BY <2>3, <1>2 DEF ParseInvalid
    <3>2. new \in ConnType /\ new.client = was.client /\ Served(new, client[was.client])
      BY <1>2, <1>3 DEF Served, ConnType, Lifecycle
    <3> QED BY <3>1, <3>2
  <2> QED BY <2>1, <2>2, <2>3 DEF ParseStage
<1>5. ClientsInv'
  BY <1>1, <1>2, <1>4, ConnOnly
<1> QED BY <1>4, <1>5, NoConnAssumption DEF IInv, TypeOK

LEMMA RouteKeepsClients ==
    ASSUME IInv, ClientsInv, Route
    PROVE  ClientsInv' /\ \A id \in SlotIds : slots[id] # NoConn => slots'[id] # NoConn
<1> DEFINE was == Conn("route")
           new == [was EXCEPT !.route_id = RouteOf(was.request_path), !.state = "Processing"]
<1>1. /\ Holding("route") /\ "route" \in Threads
      /\ UNCHANGED <<client, backlog, accepted>>
  BY DEF Route, clientVars, Threads, Stages
<1>2. /\ hand["route"] \in SlotIds /\ was = slots[hand["route"]]
      /\ was \in ConnType /\ was # NoConn /\ ReadyFor("route", was)
      /\ was.client \in Clients /\ client[was.client] \in ClientType
      /\ Served(was, client[was.client])
  BY <1>1, HeldServed
<1>3. slots' = [slots EXCEPT ![hand["route"]] = new]
  BY <1>2 DEF Route
<1>4. was.state = "Routed" /\ was.request_path = client[was.client].ask
  BY <1>2 DEF ReadyFor, StateAt, Served
<1>5. /\ RouteOf(was.request_path) = PromisedTo(client[was.client].ask)
      /\ RouteOf(was.request_path) \in {"hello", "json", "not_found"}
  BY <1>2, <1>4, RouteFacts DEF ClientType
<1>6. new \in ConnType /\ new.client = was.client
  BY <1>2, <1>5 DEF ConnType, Lifecycle
<1>7. Served(new, client[was.client])
  BY <1>2, <1>4, <1>5 DEF Served, ConnType
<1> HIDE DEF new, was
<1>8. ClientsInv'
  BY <1>1, <1>2, <1>3, <1>6, <1>7, ConnOnly
<1> QED BY <1>3, <1>6, <1>8, NoConnAssumption DEF IInv, TypeOK

LEMMA AppKeepsClients ==
    ASSUME IInv, ClientsInv, App
    PROVE  ClientsInv' /\ \A id \in SlotIds : slots[id] # NoConn => slots'[id] # NoConn
<1> DEFINE was == Conn("app")
           page == ResponseOf(was.route_id)
           new == [was EXCEPT !.write_buf = page, !.state = "Sending"]
<1>1. /\ Holding("app") /\ "app" \in Threads
      /\ UNCHANGED <<client, backlog, accepted>>
  BY DEF App, clientVars, Threads, Stages
<1>2. /\ hand["app"] \in SlotIds /\ was = slots[hand["app"]]
      /\ was \in ConnType /\ was # NoConn /\ ReadyFor("app", was)
      /\ was.client \in Clients /\ client[was.client] \in ClientType
      /\ Served(was, client[was.client])
  BY <1>1, HeldServed
<1>3. /\ was.state = "Processing" /\ was.write_buf = <<>> /\ was.bytes_written = 0
      /\ was.route_id = PromisedTo(client[was.client].ask)
  BY <1>2 DEF ReadyFor, StateAt, Served
<1>4. page \in Seq(Chunks) /\ page = ResponseOf(PromisedTo(client[was.client].ask))
  BY <1>2, <1>3, RouteFacts DEF ClientType
<1>5. was.write_buf \o page = page /\ Len(page) \in Nat /\ SubSeq(page, 1, 0) = <<>>
      /\ SubSeq(was.write_buf, 1, 0) = <<>>
  <2>1. <<>> \in Seq(Chunks)
    BY EmptySeq
  <2>2. <<>> \o page = page
    BY <1>4, ConcatEmptySeq
  <2>3. Len(page) \in Nat
    BY <1>4, LenProperties
  <2>4. SubSeq(page, 1, 0) = <<>>
    BY <1>4, SubSeqEmpty
  <2>5. SubSeq(was.write_buf, 1, 0) = <<>>
    BY <1>3, <2>1, SubSeqEmpty
  <2> QED BY <1>3, <2>2, <2>3, <2>4, <2>5
<1>6. slots' = [slots EXCEPT ![hand["app"]] = new]
  <2>1. slots' = [slots EXCEPT ![hand["app"]] =
                    [@ EXCEPT !.write_buf = was.write_buf \o ResponseOf(was.route_id),
                              !.state = "Sending"]]
    BY <1>2 DEF App
  <2> QED BY <1>2, <1>5, <2>1
<1> HIDE DEF page
<1>7. new \in ConnType /\ new.client = was.client
  BY <1>2, <1>4 DEF ConnType, Lifecycle
<1>8. /\ new.state = "Sending" /\ new.write_buf = page /\ new.bytes_written = 0
  BY <1>2, <1>3 DEF ConnType
<1>9. Served(new, client[was.client])
  BY <1>2, <1>3, <1>4, <1>5, <1>8 DEF Served
<1> HIDE DEF new, was
<1>10. ClientsInv'
  BY <1>1, <1>2, <1>6, <1>7, <1>9, ConnOnly
<1> QED BY <1>6, <1>7, <1>10, NoConnAssumption DEF IInv, TypeOK

\* The client of a connection that NetOut writes to, after n chunks.
Reached(conn, n) ==
    [client[conn.client] EXCEPT
        !.rcvd = IF client[conn.client].status = "open"
                 THEN @ \o SubSeq(conn.write_buf, conn.bytes_written + 1,
                                  conn.bytes_written + n)
                 ELSE @]

LEMMA ReachedFacts ==
    ASSUME IInv, ClientsInv, Holding("net_out"),
           NEW n \in 0 .. Len(Conn("net_out").write_buf)
    PROVE  LET was == Conn("net_out")
               conn == [was EXCEPT !.bytes_written = was.bytes_written + n]
               peer == Reached(was, n)
           IN  /\ Deliver(was, n) = [client EXCEPT ![was.client] = peer]
               /\ peer \in ClientType /\ Answered(peer)
               /\ peer.status = client[was.client].status
               /\ peer.status \in {"open", "left"}
               /\ conn \in ConnType /\ conn.client = was.client /\ Served(conn, peer)
               /\ n = Len(was.write_buf) /\ peer.status = "open" =>
                    peer.rcvd = was.write_buf
               /\ was.write_buf = ResponseOf(PromisedTo(peer.ask))
<1> DEFINE was == Conn("net_out")
           conn == [was EXCEPT !.bytes_written = was.bytes_written + n]
           c == was.client
           peer == Reached(was, n)
           mine == was.write_buf
<1>1. "net_out" \in Threads
  BY DEF Threads, Stages
<1>2. /\ was \in ConnType /\ ReadyFor("net_out", was) /\ c \in Clients
      /\ client[c] \in ClientType /\ Served(was, client[c])
  BY <1>1, HeldServed
<1>3. client \in [Clients -> ClientType]
  BY DEF IInv, TypeOK
<1>4. was.state = "Sending" /\ was.bytes_written = 0 /\ mine \in Seq(Chunks)
  BY <1>2 DEF ReadyFor, StateAt, ConnType
<1>5. /\ mine = ResponseOf(PromisedTo(client[c].ask))
      /\ client[c].status \in {"open", "left"}
      /\ client[c].status = "open" => client[c].rcvd = SubSeq(mine, 1, 0)
  BY <1>2, <1>4 DEF Served
<1>6. Len(mine) \in Nat /\ n \in 0 .. Len(mine) /\ n \in Nat
  <2>1. Len(mine) \in Nat
    BY <1>4, LenProperties
  <2> QED BY <2>1
<1>7. /\ <<>> \o SubSeq(mine, 1, n) = SubSeq(mine, 1, n)
      /\ SubSeq(mine, 1, n) \in Seq(Chunks)
      /\ IsPrefixOf(SubSeq(mine, 1, n), mine)
      /\ SubSeq(mine, 1, Len(mine)) = mine /\ SubSeq(mine, 1, 0) = <<>>
  BY <1>4, <1>6, PrefixFacts
<1>8. was.bytes_written + 1 = 1 /\ was.bytes_written + n = n
  BY <1>4, <1>6
<1>9. /\ peer = [client[c] EXCEPT !.rcvd = IF client[c].status = "open"
                                            THEN @ \o SubSeq(mine, 1, n) ELSE @]
      /\ Deliver(was, n) = [client EXCEPT ![c] = peer]
  BY <1>2, <1>3, <1>8 DEF Reached, Deliver
<1>10. conn \in ConnType /\ conn.client = c /\ conn.state = "Sending"
       /\ conn.write_buf = mine /\ conn.bytes_written = n
  BY <1>2, <1>4, <1>6, <1>8 DEF ConnType
<1> HIDE DEF peer, mine, c, conn, was
<1>11. /\ peer.status = client[c].status /\ peer.ask = client[c].ask
       /\ client[c].status = "open" => peer.rcvd = SubSeq(mine, 1, n)
       /\ client[c].status # "open" => peer.rcvd = client[c].rcvd
       /\ peer \in ClientType
  BY <1>2, <1>5, <1>7, <1>9 DEF ClientType
<1>12. Answered(client[c])
  BY <1>2, IntegrityIsAnswered DEF ClientsInv
<1>13. Answered(peer)
  BY <1>5, <1>7, <1>11, <1>12 DEF Answered
<1>14. Served(conn, peer)
  BY <1>5, <1>6, <1>10, <1>11 DEF Served
<1> QED BY <1>5, <1>7, <1>9, <1>10, <1>11, <1>13, <1>14 DEF conn, peer, c, was, mine

LEMMA PartialKeepsClients ==
    ASSUME IInv, ClientsInv, NEW n \in 1 .. SendBuffer, NetOutPartial(n)
    PROVE  ClientsInv' /\ \A id \in SlotIds : slots[id] # NoConn => slots'[id] # NoConn
<1> DEFINE was == Conn("net_out")
           conn == [was EXCEPT !.bytes_written = was.bytes_written + n]
           peer == Reached(was, n)
<1>1. Holding("net_out") /\ "net_out" \in Threads /\ UNCHANGED <<backlog, accepted>>
  BY DEF NetOutPartial, Threads, Stages
<1>2. /\ hand["net_out"] \in SlotIds /\ was = slots[hand["net_out"]]
      /\ was \in ConnType /\ was # NoConn /\ ReadyFor("net_out", was)
  BY <1>1, HeldServed
<1>3. /\ n < Unsent(was) /\ client' = Deliver(was, n)
      /\ slots' = [slots EXCEPT ![hand["net_out"]] = conn]
  BY <1>2 DEF NetOutPartial
<1>4. n \in 0 .. Len(was.write_buf)
  <2>1. Len(was.write_buf) \in Nat /\ was.bytes_written = 0
    BY <1>2, LenProperties DEF ConnType, ReadyFor
  <2> QED BY <1>3, <2>1 DEF Unsent
<1>5. /\ Deliver(was, n) = [client EXCEPT ![was.client] = peer]
      /\ peer \in ClientType /\ Answered(peer) /\ peer.status \in {"open", "left"}
      /\ conn \in ConnType /\ conn.client = was.client /\ Served(conn, peer)
  BY <1>1, <1>4, ReachedFacts
<1> HIDE DEF conn, peer, was
<1>6. ClientsInv'
  BY <1>1, <1>2, <1>3, <1>5, ConnChange
<1> QED BY <1>3, <1>5, <1>6, NoConnAssumption DEF IInv, TypeOK

\* A slot that is emptied: its client has got everything, or has left.
Done(id) ==
    LET c == slots[id].client
    IN  /\ slots[id].state = "Sending"
        /\ client[c].status = "left" \/ client'[c].rcvd = slots[id].write_buf

LEMMA SentKeepsClients ==
    ASSUME IInv, ClientsInv, NetOutSent
    PROVE  ClientsInv' /\ \A id \in SlotIds :
                            slots[id] # NoConn /\ slots'[id] = NoConn => Done(id)
<1> DEFINE was == Conn("net_out")
           n == Len(was.write_buf)
           reached == Reached(was, n)
           peer == [reached EXCEPT !.status = IF @ = "open" THEN "closed" ELSE @]
<1>1. Holding("net_out") /\ "net_out" \in Threads /\ UNCHANGED <<backlog, accepted>>
      /\ slots' = [slots EXCEPT ![hand["net_out"]] = NoConn]
  BY DEF NetOutSent, Threads, Stages, Remove
<1>2. /\ hand["net_out"] \in SlotIds /\ was = slots[hand["net_out"]]
      /\ was \in ConnType /\ was # NoConn /\ ReadyFor("net_out", was)
      /\ was.client \in Clients
  BY <1>1, HeldServed
<1>3. n \in Nat /\ Unsent(was) = n /\ was.state = "Sending"
  <2>1. n \in Nat /\ was.bytes_written = 0 /\ was.state = "Sending"
    BY <1>2, LenProperties DEF ConnType, ReadyFor, StateAt
  <2> QED BY <2>1 DEF Unsent
<1>4. client' = [Deliver(was, n) EXCEPT ![was.client].status = IF @ = "open" THEN "closed" ELSE @]
  BY <1>3 DEF NetOutSent
<1>5. n \in 0 .. n
  BY <1>3
<1>6. /\ Deliver(was, n) = [client EXCEPT ![was.client] = reached]
      /\ reached \in ClientType /\ Answered(reached)
      /\ reached.status = client[was.client].status
      /\ reached.status \in {"open", "left"}
      /\ reached.status = "open" => reached.rcvd = was.write_buf
      /\ was.write_buf = ResponseOf(PromisedTo(reached.ask))
  BY <1>1, <1>5, ReachedFacts
<1>7. client \in [Clients -> ClientType] /\ slots \in [SlotIds -> ConnType \cup {NoConn}]
  BY DEF IInv, TypeOK
<1> HIDE DEF reached, n, was
<1>8. client' = [client EXCEPT ![was.client] = peer]
  BY <1>2, <1>4, <1>6, <1>7
<1>9. /\ peer \in ClientType /\ peer.status # "new"
      /\ peer.ask = reached.ask /\ peer.rcvd = reached.rcvd
      /\ peer.status = "closed" => reached.status = "open"
  BY <1>6 DEF ClientType
<1>10. Answered(peer)
  BY <1>6, <1>9 DEF Answered
<1> HIDE DEF peer
<1>11. ClientsInv'
  BY <1>1, <1>2, <1>8, <1>9, <1>10, ConnChange
<1>12. client'[was.client] = peer
  BY <1>2, <1>7, <1>8
<1>13. Done(hand["net_out"])
  BY <1>2, <1>3, <1>6, <1>9, <1>12 DEF Done
<1>14. \A id \in SlotIds : slots[id] # NoConn /\ slots'[id] = NoConn => id = hand["net_out"]
  BY <1>1, <1>7
<1> QED BY <1>11, <1>13, <1>14

LEMMA ErrorKeepsClients ==
    ASSUME IInv, ClientsInv, NetOutError
    PROVE  ClientsInv' /\ \A id \in SlotIds :
                            slots[id] # NoConn /\ slots'[id] = NoConn => Done(id)
<1> DEFINE was == Conn("net_out")
           peer == client[was.client]
<1>1. /\ Holding("net_out") /\ "net_out" \in Threads /\ UNCHANGED <<client, backlog, accepted>>
      /\ slots' = [slots EXCEPT ![hand["net_out"]] = NoConn] /\ peer.status = "left"
  BY DEF NetOutError, Threads, Stages, Remove, clientVars
<1>2. /\ hand["net_out"] \in SlotIds /\ was = slots[hand["net_out"]]
      /\ was # NoConn /\ ReadyFor("net_out", was)
      /\ was.client \in Clients /\ peer \in ClientType
  BY <1>1, HeldServed
<1>3. client \in [Clients -> ClientType] /\ slots \in [SlotIds -> ConnType \cup {NoConn}]
  BY DEF IInv, TypeOK
<1>4. Answered(peer) /\ client' = [client EXCEPT ![was.client] = peer]
  BY <1>1, <1>2, <1>3, IntegrityIsAnswered DEF ClientsInv
<1>5. ClientsInv'
  <2>1. peer.status # "new"
    BY <1>1
  <2> HIDE DEF peer, was
  <2> QED BY <1>1, <1>2, <1>4, <2>1, ConnChange
<1>6. Done(hand["net_out"])
  BY <1>1, <1>2 DEF Done, ReadyFor, StateAt
<1>7. \A id \in SlotIds : slots[id] # NoConn /\ slots'[id] = NoConn => id = hand["net_out"]
  BY <1>1, <1>3
<1> QED BY <1>5, <1>6, <1>7

-----------------------------------------------------------------------------
(* Every step. *)

LEMMA ClientsInit == Init => ClientsInv
<1> SUFFICES ASSUME Init PROVE ClientsInv
  OBVIOUS
<1>1. IInv /\ client \in [Clients -> ClientType]
  BY InitIInv DEF IInv, TypeOK
<1>2. \A c \in Clients : client[c].status = "new" /\ client[c].rcvd = <<>>
  BY DEF Init
<1>3. \A id \in SlotIds : slots[id] = NoConn
  BY DEF Init, SlabInit
<1>4. DOMAIN backlog = {} /\ DOMAIN accepted = {}
  BY DEF Init
<1>5. ResponseIntegrity
  BY <1>1, <1>2, EmptyIsAnswered, IntegrityIsAnswered
<1> QED BY <1>2, <1>3, <1>4, <1>5
        DEF ClientsInv, ConnsServed, OneSlot, WaitsOnce, WaitersFresh, NewComers

LEMMA ClientsStay ==
    ASSUME ClientsInv, UNCHANGED <<slabVars, client, backlog, accepted>>
    PROVE  ClientsInv' /\ \A id \in SlotIds : slots[id] # NoConn => slots'[id] # NoConn
BY DEF slabVars, ClientsInv, ConnsServed, OneSlot, WaitsOnce, WaitersFresh, Fresh,
       NewComers, ResponseIntegrity

LEMMA EnvironmentKeepsClients ==
    ASSUME IInv, ClientsInv, Environment
    PROVE  ClientsInv' /\ UNCHANGED slots
<1>1. UNCHANGED <<slabVars, accepted>> /\ client \in [Clients -> ClientType]
  BY DEF Environment, Connect, Send, Leave, IInv, TypeOK
<1>2. ASSUME NEW c \in Clients, Send(c) PROVE ClientsInv'
  <2> DEFINE peer == [client[c] EXCEPT !.sent = client[c].sent + 1]
  <2>1. client' = [client EXCEPT ![c] = peer] /\ client[c].status = "open" /\ backlog' = backlog
    BY <1>1, <1>2 DEF Send
  <2>2. client[c].sent + 1 \in 0 .. Segments
    BY <1>1, <1>2, ConnectionAssumption DEF Send, ClientType
  <2>3. /\ peer \in ClientType /\ peer.status = "open"
        /\ peer.ask = client[c].ask /\ peer.rcvd = client[c].rcvd
    BY <1>1, <2>1, <2>2 DEF ClientType
  <2> HIDE DEF peer
  <2> QED BY <1>1, <2>1, <2>3, PeerStep
<1>3. ASSUME NEW c \in Clients, Leave(c) PROVE ClientsInv'
  <2> DEFINE peer == [client[c] EXCEPT !.status = "left"]
  <2>1. client' = [client EXCEPT ![c] = peer] /\ client[c].status = "open" /\ backlog' = backlog
    BY <1>1, <1>3 DEF Leave
  <2>2. /\ peer \in ClientType /\ peer.status = "left"
        /\ peer.ask = client[c].ask /\ peer.rcvd = client[c].rcvd
    BY <1>1 DEF ClientType
  <2> HIDE DEF peer
  <2> QED BY <1>1, <2>1, <2>2, PeerStep
<1> QED BY <1>1, <1>2, <1>3, ConnectStep DEF Environment, slabVars

LEMMA NextClientsInv ==
    ASSUME IInv, ClientsInv, [Next]_vars
    PROVE  ClientsInv' /\ \A id \in SlotIds :
                            slots[id] # NoConn /\ slots'[id] = NoConn => Done(id)
<1>1. CASE Main
  <2>1. CASE PushConn
    BY <2>1, ClientsStay DEF PushConn, clientVars
  <2>2. CASE RefuseConn
    BY <2>2, RefuseKeepsClients DEF RefuseConn, slabVars
  <2>3. ASSUME NEW n \in 1 .. Len(backlog), AcceptAll(n)
        PROVE  ClientsInv' /\ slots' = slots
    BY <2>3, AcceptKeepsClients DEF AcceptAll, slabVars
  <2> QED BY <1>1, <2>1, <2>2, <2>3, InsertKeepsClients DEF Main
<1>2. CASE \E s \in Stages : Pop(s)
  BY <1>2, ClientsStay DEF Pop, clientVars
<1>3. CASE ParseStage
  BY <1>3, ParseKeepsClients
<1>4. CASE Route \/ App
  BY <1>4, RouteKeepsClients, AppKeepsClients
<1>5. CASE Encode
  BY <1>5, ClientsStay DEF Encode, clientVars
<1>6. CASE NetOutStage
  BY <1>6, SentKeepsClients, ErrorKeepsClients, PartialKeepsClients DEF NetOutStage
<1>7. CASE Environment
  BY <1>7, EnvironmentKeepsClients
<1>8. CASE UNCHANGED vars
  BY <1>8, ClientsStay DEF vars, clientVars
<1> QED BY <1>1, <1>2, <1>3, <1>4, <1>5, <1>6, <1>7, <1>8 DEF Next, Server

\* With the server's invariant, that of its clients holds of every behaviour: which
\* client a slot serves, and what that client has sent and received (stage.rs and
\* net.rs, from accept_all to the close of NetOut).
THEOREM ClientsInvariance == Spec => [](IInv /\ ClientsInv)
<1>1. IInv /\ ClientsInv /\ [Next]_vars => (IInv /\ ClientsInv)'
  BY NextIInv, NextClientsInv
<1> QED BY InitIInv, ClientsInit, <1>1, PTL DEF Spec

\* Whatever slots are reused and whoever leaves, a client receives the beginning of
\* the response to its own request, and all of it before the server closes the
\* socket of a client that it has sent something.
THEOREM ResponsesAreIntact == Spec => []ResponseIntegrity
<1>1. ClientsInv => ResponseIntegrity
  BY DEF ClientsInv
<1> QED BY ClientsInvariance, <1>1, PTL

\* A slot is emptied only when its client has the whole response or has left.
THEOREM SlotsFreedWhenDone == Spec => FreedOnlyWhenDone
<1> DEFINE A == \A id \in SlotIds :
                  slots[id] # NoConn /\ slots'[id] = NoConn =>
                    LET c == slots[id].client
                    IN  /\ slots[id].state = "Sending"
                        /\ \/ client[c].status = "left"
                           \/ client'[c].rcvd = slots[id].write_buf
<1>1. IInv /\ ClientsInv /\ [Next]_vars => A
  BY NextClientsInv DEF Done
<1>2. A => [A]_vars
  OBVIOUS
<1> HIDE DEF A
<1>3. Spec => [][A]_vars
  BY ClientsInvariance, <1>1, <1>2, PTL DEF Spec
<1> QED BY <1>3 DEF FreedOnlyWhenDone, A
=============================================================================
