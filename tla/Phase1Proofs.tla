---------------------------- MODULE Phase1Proofs -----------------------------
(***************************************************************************)
(* Phase1 with queues that have room for every slot, for every number of   *)
(* clients, slots, turns and pieces: no requeue loses or doubles an id,    *)
(* the counted lengths are those of the queues, and every client receives  *)
(* the beginning of the response to its own request.                       *)
(***************************************************************************)
EXTENDS Phase1, DataFacts

-----------------------------------------------------------------------------
(* The slab. *)

\* SlabInit lists every slot once.
LEMMA SlabInitFacts ==
    ASSUME SlabInit
    PROVE  /\ free_list \in Seq(SlotIds)
           /\ FreeListExact
BY SlabCapacityAssumption, VacantAtFirst DEF SlabInit, SlotIds, FreeListExact, ListsVacant

\* insert takes a vacant slot, fills it and keeps the free list exact.
LEMMA InsertFacts ==
    ASSUME NEW T, slots \in [SlotIds -> T],
           free_list \in Seq(SlotIds), FreeListExact,
           NEW conn, conn # NoConn, Insert(conn)
    PROVE  /\ NextFree \in SlotIds
           /\ slots[NextFree] = NoConn
           /\ free_list' \in Seq(SlotIds)
           /\ FreeListExact'
<1>1. ListsVacant(free_list, slots, SlotIds, NoConn) /\ free_list # <<>>
  BY DEF FreeListExact, ListsVacant, Insert
<1>2. PICK last : last = free_list[Len(free_list)]
  OBVIOUS
<1>3. NextFree = last /\ slots' = [slots EXCEPT ![last] = conn]
  BY <1>2 DEF NextFree, Insert
<1>4. slots'[last] # NoConn /\ \A id \in SlotIds : id # last => slots'[id] = slots[id]
  <2>1. last \in SlotIds
    BY <1>1, <1>2
  <2> QED BY <1>3, <2>1
<1>5. /\ last \in SlotIds /\ slots[last] = NoConn
      /\ SubSeq(free_list, 1, Len(free_list) - 1) \in Seq(SlotIds)
      /\ ListsVacant(SubSeq(free_list, 1, Len(free_list) - 1), slots', SlotIds, NoConn)
  BY <1>1, <1>2, <1>4, VacantTaken
<1>6. free_list' = SubSeq(free_list, 1, Len(free_list) - 1)
  BY DEF Insert
<1> QED BY <1>3, <1>5, <1>6 DEF FreeListExact, ListsVacant

\* remove of an occupied slot keeps the free list exact.
LEMMA RemoveFacts ==
    ASSUME NEW T, slots \in [SlotIds -> T],
           free_list \in Seq(SlotIds), FreeListExact,
           NEW id \in SlotIds, slots[id] # NoConn, Remove(id)
    PROVE  /\ free_list' \in Seq(SlotIds)
           /\ FreeListExact'
<1>1. ListsVacant(free_list, slots, SlotIds, NoConn)
  BY DEF FreeListExact, ListsVacant
<1>2. /\ Append(free_list, id) \in Seq(SlotIds)
      /\ ListsVacant(Append(free_list, id), [slots EXCEPT ![id] = NoConn], SlotIds, NoConn)
  BY <1>1, VacantReturned
<1>3. ListsVacant(free_list', slots', SlotIds, NoConn) /\ free_list' \in Seq(SlotIds)
  BY <1>2 DEF Remove
<1> QED BY <1>3 DEF FreeListExact, ListsVacant

\* A queue that can hold all slots is never full when somebody pushes to it.
EnoughRoom == QueueCapacity > SlabCapacity

-----------------------------------------------------------------------------
(* The inductive invariant. *)

QueuedOnce ==
    \A s, t \in Queues :
        \A i \in DOMAIN queue[s], j \in DOMAIN queue[t] :
            queue[s][i] = queue[t][j] => s = t /\ i = j

\* The lifecycle state of the connections in each queue.
StateAt == [parse |-> "WaitingForRequest", route |-> "Routed", app |-> "Processing",
            encode |-> "Sending", net_out |-> "Sending"]

QueuedInState ==
    \A s \in Queues : \A i \in DOMAIN queue[s] :
        slots[queue[s][i]] # NoConn /\ slots[queue[s][i]].state = StateAt[s]

Live(conn) == conn # NoConn /\ conn.state # "Closed"

InQueue(id, s) == \E i \in DOMAIN queue[s] : queue[s][i] = id

LiveQueued == \A id \in SlotIds : Live(slots[id]) => \E s \in Queues : InQueue(id, s)

\* What a connection has of the answer to its client, and the client of it.
Served(conn, peer) ==
    /\ peer.status \in {"open", "left"}
    /\ conn.state # "Sending" => conn.write_buf = <<>> /\ conn.bytes_written = 0
    /\ conn.state = "Routed" => conn.request_path = peer.ask
    /\ conn.state = "Processing" => conn.route_id = PromisedTo(peer.ask)
    /\ conn.state = "Sending" =>
         /\ conn.write_buf = ResponseOf(PromisedTo(peer.ask))
         /\ conn.bytes_written <= Len(conn.write_buf)
    /\ peer.status = "open" => peer.rcvd = SubSeq(conn.write_buf, 1, conn.bytes_written)

ConnsServed ==
    \A id \in SlotIds : slots[id] # NoConn => Served(slots[id], client[slots[id].client])

\* A client has one slot, or waits for one at one place, or neither.
OneSlot ==
    \A id, other \in SlotIds :
        slots[id] # NoConn /\ slots[other] # NoConn /\ slots[id].client = slots[other].client
            => id = other

WaitsOnce ==
    /\ \A i, j \in DOMAIN backlog : backlog[i] = backlog[j] => i = j
    /\ \A i, j \in DOMAIN accepted : accepted[i] = accepted[j] => i = j
    /\ \A i \in DOMAIN backlog, j \in DOMAIN accepted : backlog[i] # accepted[j]
    /\ active # "net_in" => accepted = <<>>

\* Nothing was sent to c and no slot is its own.
Fresh(c) ==
    /\ client[c].status \in {"open", "left"} /\ client[c].rcvd = <<>>
    /\ \A id \in SlotIds : slots[id] # NoConn => slots[id].client # c

WaitersFresh ==
    /\ \A i \in DOMAIN backlog : Fresh(backlog[i])
    /\ \A i \in DOMAIN accepted : Fresh(accepted[i])

NewComers == \A c \in Clients : client[c].status = "new" => client[c].rcvd = <<>>

IInv ==
    /\ TypeOK /\ FreeListExact
    /\ QueuedOnce /\ QueuedInState /\ LiveQueued /\ QueueLenExact
    /\ ConnsServed /\ OneSlot /\ WaitsOnce /\ WaitersFresh /\ NewComers
    /\ ResponseIntegrity

-----------------------------------------------------------------------------
(* Moving an id between queues. *)

LEMMA Sizes ==
    /\ SlabCapacity \in Nat /\ Room \in Nat
    /\ IsFiniteSet(SlotIds) /\ Cardinality(SlotIds) = SlabCapacity
    /\ "net_in" \notin Queues
BY SlabCapacityAssumption, Phase1Assumption, FS_Interval DEF SlotIds, Room, Queues

LEMMA QueueFacts ==
    ASSUME TypeOK, NEW s \in Queues
    PROVE  /\ queue \in [Queues -> Seq(SlotIds)]
           /\ queue[s] \in Seq(SlotIds)
           /\ Len(queue[s]) \in Nat
           /\ DOMAIN queue[s] = 1 .. Len(queue[s])
           /\ \A i \in 1 .. Len(queue[s]) : queue[s][i] \in SlotIds
<1>1. queue[s] \in Seq(SlotIds)
  BY DEF TypeOK
<1> QED BY <1>1, LenProperties, ElementOfSeq DEF TypeOK

\* What is left of the queue that a turn takes its id from.
LEMMA PoppedFacts ==
    ASSUME TypeOK, NEW s \in Queues, queue[s] # <<>>
    PROVE  /\ Id(s) \in SlotIds /\ Id(s) = queue[s][1] /\ 1 \in DOMAIN queue[s]
           /\ Popped(s) \in [Queues -> Seq(SlotIds)]
           /\ Len(Popped(s)[s]) = Len(queue[s]) - 1
           /\ DOMAIN Popped(s)[s] = 1 .. Len(queue[s]) - 1
           /\ \A i \in 1 .. Len(queue[s]) - 1 : Popped(s)[s][i] = queue[s][i + 1]
           /\ \A t \in Queues : t # s => Popped(s)[t] = queue[t]
<1>1. queue[s] \in Seq(SlotIds) /\ queue \in [Queues -> Seq(SlotIds)]
  BY QueueFacts
<1>2. /\ Tail(queue[s]) \in Seq(SlotIds) /\ Len(Tail(queue[s])) = Len(queue[s]) - 1
      /\ \A i \in 1 .. Len(queue[s]) - 1 : Tail(queue[s])[i] = queue[s][i + 1]
      /\ Head(queue[s]) = queue[s][1]
      /\ Len(queue[s]) \in Nat \ {0}
  BY <1>1, HeadTailProperties, EmptySeq
<1>3. Popped(s)[s] = Tail(queue[s]) /\ Popped(s) \in [Queues -> Seq(SlotIds)]
      /\ \A t \in Queues : t # s => Popped(s)[t] = queue[t]
  BY <1>1, <1>2 DEF Popped
<1>4. DOMAIN Popped(s)[s] = 1 .. Len(queue[s]) - 1
  BY <1>2, <1>3, LenProperties
<1> QED BY <1>1, <1>2, <1>3, <1>4, QueueFacts DEF Id

\* The ids left after a pop, wherever they are: they were queued before, at places
\* that differ, and the popped one is not among them.
LEMMA PoppedOnce ==
    ASSUME TypeOK, QueuedOnce, NEW s \in Queues, queue[s] # <<>>
    PROVE  /\ \A t \in Queues : \A i \in DOMAIN Popped(s)[t] :
                Popped(s)[t][i] # Id(s) /\ InQueue(Popped(s)[t][i], t)
           /\ \A t \in Queues, id \in SlotIds :
                InQueue(id, t) => id = Id(s) \/ \E i \in DOMAIN Popped(s)[t] : Popped(s)[t][i] = id
           /\ \A t, u \in Queues : \A i \in DOMAIN Popped(s)[t], j \in DOMAIN Popped(s)[u] :
                Popped(s)[t][i] = Popped(s)[u][j] => t = u /\ i = j
<1> DEFINE n == Len(queue[s])
           shift(t) == IF t = s THEN 1 ELSE 0
<1>1. n \in Nat /\ DOMAIN queue[s] = 1 .. n
  BY QueueFacts
<1>2. \A t \in Queues : DOMAIN queue[t] = 1 .. Len(queue[t]) /\ Len(queue[t]) \in Nat
  BY QueueFacts
<1>3. \A t \in Queues : \A i \in DOMAIN Popped(s)[t] :
         /\ i \in Nat /\ i + shift(t) \in DOMAIN queue[t]
         /\ Popped(s)[t][i] = queue[t][i + shift(t)]
         /\ t = s => i + shift(t) # 1
  BY <1>1, <1>2, PoppedFacts
<1>4. ASSUME NEW t \in Queues, NEW i \in DOMAIN Popped(s)[t]
      PROVE  Popped(s)[t][i] # Id(s) /\ InQueue(Popped(s)[t][i], t)
  <2>1. Popped(s)[t][i] = queue[t][i + shift(t)] /\ i + shift(t) \in DOMAIN queue[t]
    BY <1>3
  <2>2. Id(s) = queue[s][1] /\ 1 \in DOMAIN queue[s]
    BY PoppedFacts
  <2>3. ~(t = s /\ i + shift(t) = 1)
    BY <1>3
  <2> QED BY <2>1, <2>2, <2>3 DEF QueuedOnce, InQueue
<1>5. ASSUME NEW t \in Queues, NEW id \in SlotIds, InQueue(id, t)
      PROVE  id = Id(s) \/ \E i \in DOMAIN Popped(s)[t] : Popped(s)[t][i] = id
  <2>1. PICK k \in DOMAIN queue[t] : queue[t][k] = id
    BY <1>5 DEF InQueue
  <2>2. CASE t # s
    BY <2>1, <2>2, PoppedFacts
  <2>3. CASE t = s
    <3>1. CASE k = 1
      BY <2>1, <2>3, <3>1, PoppedFacts
    <3>2. CASE k # 1
      <4>1. k - 1 \in 1 .. n - 1 /\ (k - 1) + 1 = k
        BY <1>1, <2>1, <2>3, <3>2
      <4>2. k - 1 \in DOMAIN Popped(s)[t] /\ Popped(s)[t][k - 1] = id
        BY <2>1, <2>3, <4>1, PoppedFacts
      <4> QED BY <4>2
    <3> QED BY <3>1, <3>2
  <2> QED BY <2>2, <2>3
<1>6. ASSUME NEW t \in Queues, NEW u \in Queues, NEW i \in DOMAIN Popped(s)[t],
             NEW j \in DOMAIN Popped(s)[u], Popped(s)[t][i] = Popped(s)[u][j]
      PROVE  t = u /\ i = j
  <2>1. t = u /\ i + shift(t) = j + shift(u)
    BY <1>3, <1>6 DEF QueuedOnce
  <2> QED BY <1>3, <2>1
<1> QED BY <1>4, <1>5, <1>6

\* A queue of distinct slots that lacks one has room for it.
LEMMA RoomForOne ==
    ASSUME EnoughRoom, NEW q \in Seq(SlotIds), NEW id \in SlotIds,
           \A i \in DOMAIN q : q[i] # id,
           \A i, j \in DOMAIN q : q[i] = q[j] => i = j
    PROVE  Len(q) < Room
<1> DEFINE n == Len(q)
           f == [i \in 1 .. n + 1 |-> IF i <= n THEN q[i] ELSE id]
<1>1. n \in Nat /\ DOMAIN q = 1 .. n /\ \A i \in 1 .. n : q[i] \in SlotIds
  BY LenProperties, ElementOfSeq
<1>2. f \in [1 .. n + 1 -> SlotIds]
  BY <1>1
<1>3. \A i, j \in 1 .. n + 1 : f[i] = f[j] => i = j
  <2> HIDE DEF n
  <2> QED BY <1>1
<1>4. IsFiniteSet(1 .. n + 1) /\ Cardinality(1 .. n + 1) = n + 1
  BY <1>1, FS_Interval
<1>5. ~(SlabCapacity < n + 1)
  <2> SUFFICES ASSUME SlabCapacity < n + 1 PROVE FALSE
    OBVIOUS
  <2>1. \E i, j \in 1 .. n + 1 : i # j /\ f[i] = f[j]
    <3> HIDE DEF f
    <3> QED BY <1>2, <1>4, Sizes, FS_PigeonHole
  <2> QED BY <1>3, <2>1
<1> QED BY <1>1, <1>5, Sizes, Phase1Assumption DEF EnoughRoom, Room

\* There is room for the popped id in every queue, its own included.
LEMMA PushFits ==
    ASSUME TypeOK, QueuedOnce, EnoughRoom, NEW s \in Queues, queue[s] # <<>>, NEW to \in Queues
    PROVE  Fits(s, to)
<1>1. Popped(s)[to] \in Seq(SlotIds) /\ Id(s) \in SlotIds
  BY PoppedFacts
<1>2. /\ \A i \in DOMAIN Popped(s)[to] : Popped(s)[to][i] # Id(s)
      /\ \A i, j \in DOMAIN Popped(s)[to] : Popped(s)[to][i] = Popped(s)[to][j] => i = j
  BY PoppedOnce
<1> QED BY <1>1, <1>2, RoomForOne DEF Fits

\* A turn that passes its id on, to a queue that has room for it.
LEMMA MoveFacts ==
    ASSUME TypeOK, QueuedOnce, EnoughRoom, NEW s \in Queues, queue[s] # <<>>,
           NEW to \in Queues, Move(s, to)
    PROVE  /\ Fits(s, to)
           /\ queue' \in [Queues -> Seq(SlotIds)]
           /\ QueuedOnce'
           /\ \A t \in Queues : \A i \in DOMAIN queue'[t] :
                (queue'[t][i] = Id(s) /\ t = to)
                  \/ (queue'[t][i] # Id(s) /\ InQueue(queue'[t][i], t))
           /\ \A t \in Queues, id \in SlotIds : InQueue(id, t) /\ id # Id(s) => InQueue(id, t)'
           /\ \E i \in DOMAIN queue'[to] : queue'[to][i] = Id(s)
           /\ \A t \in Queues : Len(queue'[t]) =
                Len(queue[t]) - (IF t = s THEN 1 ELSE 0) + (IF t = to THEN 1 ELSE 0)
<1> DEFINE q == Popped(s)[to]
           n == Len(q)
<1>1. Fits(s, to)
  BY PushFits
<1>2. /\ Popped(s) \in [Queues -> Seq(SlotIds)] /\ q \in Seq(SlotIds)
      /\ Id(s) \in SlotIds
  BY PoppedFacts
<1>3. /\ queue'[to] = Append(q, Id(s))
      /\ \A t \in Queues : t # to => queue'[t] = Popped(s)[t]
      /\ queue' = [Popped(s) EXCEPT ![to] = Append(@, Id(s))]
  BY <1>1, <1>2 DEF Move
<1>4. /\ n \in Nat /\ DOMAIN q = 1 .. n
      /\ queue'[to] \in Seq(SlotIds) /\ Len(queue'[to]) = n + 1
      /\ DOMAIN queue'[to] = 1 .. n + 1
      /\ \A i \in 1 .. n : queue'[to][i] = q[i]
      /\ queue'[to][n + 1] = Id(s)
  <2>1. n \in Nat /\ DOMAIN q = 1 .. n
    BY <1>2, LenProperties
  <2>2. /\ Append(q, Id(s)) \in Seq(SlotIds) /\ Len(Append(q, Id(s))) = n + 1
        /\ \A i \in 1 .. n : Append(q, Id(s))[i] = q[i]
        /\ Append(q, Id(s))[n + 1] = Id(s)
    BY <1>2, AppendProperties
  <2>3. DOMAIN Append(q, Id(s)) = 1 .. n + 1
    BY <2>2, LenProperties
  <2> QED BY <1>3, <2>1, <2>2, <2>3
<1>5. queue' \in [Queues -> Seq(SlotIds)]
  BY <1>2, <1>3, <1>4
<1>6. \A t \in Queues : \A i \in DOMAIN queue'[t] :
         \/ t = to /\ i = n + 1 /\ queue'[t][i] = Id(s)
         \/ i \in DOMAIN Popped(s)[t] /\ queue'[t][i] = Popped(s)[t][i]
  BY <1>3, <1>4
<1>7. \A t \in Queues : \A i \in DOMAIN Popped(s)[t] :
         i \in DOMAIN queue'[t] /\ queue'[t][i] = Popped(s)[t][i]
  BY <1>3, <1>4
<1> HIDE DEF q, n
<1>a. \A t \in Queues : \A i \in DOMAIN Popped(s)[t] :
         Popped(s)[t][i] # Id(s) /\ InQueue(Popped(s)[t][i], t)
  BY PoppedOnce
<1>b. \A t, u \in Queues : \A i \in DOMAIN Popped(s)[t], j \in DOMAIN Popped(s)[u] :
         Popped(s)[t][i] = Popped(s)[u][j] => t = u /\ i = j
  BY PoppedOnce
<1>c. \A t \in Queues, id \in SlotIds :
         InQueue(id, t) => id = Id(s) \/ \E i \in DOMAIN Popped(s)[t] : Popped(s)[t][i] = id
  BY PoppedOnce
<1>8. QueuedOnce'
  <2> SUFFICES ASSUME NEW t \in Queues, NEW u \in Queues,
                      NEW i \in DOMAIN queue'[t], NEW j \in DOMAIN queue'[u],
                      queue'[t][i] = queue'[u][j]
               PROVE  t = u /\ i = j
    BY DEF QueuedOnce
  <2>1. CASE i \in DOMAIN Popped(s)[t] /\ queue'[t][i] = Popped(s)[t][i]
             /\ j \in DOMAIN Popped(s)[u] /\ queue'[u][j] = Popped(s)[u][j]
    <3>1. Popped(s)[t][i] = Popped(s)[u][j]
      BY <2>1
    <3>2. i \in DOMAIN Popped(s)[t] /\ j \in DOMAIN Popped(s)[u]
      BY <2>1
    <3> QED BY <1>b, <3>1, <3>2
  <2>2. CASE t = to /\ i = n + 1 /\ queue'[t][i] = Id(s)
    BY <1>6, <1>a, <2>2
  <2>3. CASE u = to /\ j = n + 1 /\ queue'[u][j] = Id(s)
    BY <1>6, <1>a, <2>3
  <2> QED BY <1>6, <2>1, <2>2, <2>3
<1>9. ASSUME NEW t \in Queues, NEW i \in DOMAIN queue'[t]
      PROVE  \/ queue'[t][i] = Id(s) /\ t = to
             \/ queue'[t][i] # Id(s) /\ InQueue(queue'[t][i], t)
  BY <1>6, <1>a
<1>10. ASSUME NEW t \in Queues, NEW id \in SlotIds, InQueue(id, t), id # Id(s)
       PROVE  InQueue(id, t)'
  <2>1. PICK i \in DOMAIN Popped(s)[t] : Popped(s)[t][i] = id
    BY <1>10, <1>c
  <2> QED BY <1>7, <2>1 DEF InQueue
<1>11. \E i \in DOMAIN queue'[to] : queue'[to][i] = Id(s)
  <2>1. n + 1 \in DOMAIN queue'[to]
    BY <1>4
  <2> QED BY <1>4, <2>1
<1>12. ASSUME NEW t \in Queues
       PROVE  Len(queue'[t]) =
                Len(queue[t]) - (IF t = s THEN 1 ELSE 0) + (IF t = to THEN 1 ELSE 0)
  <2>1. Len(queue[t]) \in Nat /\ Len(Popped(s)[t]) = Len(queue[t]) - (IF t = s THEN 1 ELSE 0)
    <3>1. CASE t = s
      BY <3>1, PoppedFacts, QueueFacts
    <3>2. CASE t # s
      BY <3>2, PoppedFacts, QueueFacts
    <3> QED BY <3>1, <3>2
  <2>2. Len(queue'[t]) = Len(Popped(s)[t]) + (IF t = to THEN 1 ELSE 0)
    <3>1. CASE t = to
      BY <1>4, <3>1 DEF q, n
    <3>2. CASE t # to
      <4>1. Len(Popped(s)[t]) \in Nat
        BY <1>2, LenProperties
      <4> QED BY <1>3, <3>2, <4>1
    <3> QED BY <3>1, <3>2
  <2> QED BY <2>1, <2>2
<1> QED BY <1>1, <1>5, <1>8, <1>9, <1>10, <1>11, <1>12

\* A turn that keeps its id to itself.
LEMMA DropFacts ==
    ASSUME TypeOK, QueuedOnce, NEW s \in Queues, queue[s] # <<>>, queue' = Popped(s)
    PROVE  /\ queue' \in [Queues -> Seq(SlotIds)]
           /\ QueuedOnce'
           /\ \A t \in Queues : \A i \in DOMAIN queue'[t] :
                queue'[t][i] # Id(s) /\ InQueue(queue'[t][i], t)
           /\ \A t \in Queues, id \in SlotIds : InQueue(id, t) /\ id # Id(s) => InQueue(id, t)'
           /\ \A t \in Queues : Len(queue'[t]) = Len(queue[t]) - (IF t = s THEN 1 ELSE 0)
<1>1. QueuedOnce'
  BY PoppedOnce DEF QueuedOnce
<1>2. \A t \in Queues, id \in SlotIds : InQueue(id, t) /\ id # Id(s) => InQueue(id, t)'
  BY PoppedOnce DEF InQueue
<1>3. ASSUME NEW t \in Queues
      PROVE  Len(queue'[t]) = Len(queue[t]) - (IF t = s THEN 1 ELSE 0)
  <2>1. CASE t = s
    BY <2>1, PoppedFacts, QueueFacts
  <2>2. CASE t # s
    BY <2>2, PoppedFacts, QueueFacts
  <2> QED BY <2>1, <2>2
<1>4. \A t \in Queues : \A i \in DOMAIN queue'[t] :
         queue'[t][i] # Id(s) /\ InQueue(queue'[t][i], t)
  BY PoppedOnce
<1>5. queue' \in [Queues -> Seq(SlotIds)]
  BY PoppedFacts
<1> QED BY <1>1, <1>2, <1>3, <1>4, <1>5

-----------------------------------------------------------------------------
(* A turn of a stage: its queue and its connection. *)

\* The connection that a turn is about.
LEMMA TurnFacts ==
    ASSUME IInv, NEW s \in Queues, Turn(s)
    PROVE  /\ queue[s] # <<>> /\ Id(s) \in SlotIds
           /\ Conn(s) = slots[Id(s)] /\ Conn(s) # NoConn /\ Conn(s) \in ConnType
           /\ Conn(s).state = StateAt[s]
           /\ Conn(s).client \in Clients
           /\ client[Conn(s).client] \in ClientType
           /\ Served(Conn(s), client[Conn(s).client])
           /\ slots' = [slots EXCEPT ![Id(s)] = Conn(s)] <=> slots' = slots
<1>1. queue[s] # <<>> /\ TypeOK
  BY DEF Turn, IInv
<1>2. Id(s) \in SlotIds /\ Id(s) = queue[s][1] /\ 1 \in DOMAIN queue[s]
  BY <1>1, PoppedFacts
<1>3. Conn(s) = slots[Id(s)] /\ Conn(s) # NoConn /\ Conn(s).state = StateAt[s]
  BY <1>2 DEF Conn, IInv, QueuedInState
<1>4. slots \in [SlotIds -> ConnType \cup {NoConn}] /\ client \in [Clients -> ClientType]
  BY <1>1 DEF TypeOK
<1>5. Conn(s) \in ConnType
  BY <1>2, <1>3, <1>4
<1>6. Conn(s).client \in Clients
  BY <1>5 DEF ConnType
<1>7. Served(Conn(s), client[Conn(s).client])
  BY <1>2, <1>3 DEF IInv, ConnsServed
<1> QED BY <1>1, <1>2, <1>3, <1>4, <1>5, <1>6, <1>7

LEMMA MoveKeepsQueues ==
    ASSUME IInv, EnoughRoom, NEW s \in Queues, Turn(s), NEW to \in Queues, Move(s, to),
           NEW conn, conn # NoConn, conn.state = StateAt[to],
           slots' = [slots EXCEPT ![Id(s)] = conn]
    PROVE  queue' \in [Queues -> Seq(SlotIds)] /\ QueuedOnce' /\ QueuedInState' /\ LiveQueued'
<1>1. TypeOK /\ QueuedOnce /\ QueuedInState /\ LiveQueued
  BY DEF IInv
<1>2. queue[s] # <<>> /\ Id(s) \in SlotIds
  BY TurnFacts
<1>3. queue' \in [Queues -> Seq(SlotIds)] /\ QueuedOnce'
  BY <1>1, <1>2, MoveFacts
<1>4. slots \in [SlotIds -> ConnType \cup {NoConn}]
  BY <1>1 DEF TypeOK
<1>5. ASSUME NEW t \in Queues, NEW i \in DOMAIN queue'[t]
      PROVE  slots'[queue'[t][i]] # NoConn /\ slots'[queue'[t][i]].state = StateAt[t]
  <2>1. \/ queue'[t][i] = Id(s) /\ t = to
        \/ queue'[t][i] # Id(s) /\ InQueue(queue'[t][i], t)
    BY <1>1, <1>2, MoveFacts
  <2>2. CASE queue'[t][i] = Id(s) /\ t = to
    BY <1>2, <1>4, <2>2
  <2>3. CASE queue'[t][i] # Id(s) /\ InQueue(queue'[t][i], t)
    <3>1. PICK j \in DOMAIN queue[t] : queue[t][j] = queue'[t][i]
      BY <2>3 DEF InQueue
    <3>2. queue[t][j] \in SlotIds
      BY <1>1, QueueFacts
    <3> QED BY <1>1, <1>4, <2>3, <3>1, <3>2 DEF QueuedInState
  <2> QED BY <2>1, <2>2, <2>3
<1>6. ASSUME NEW id \in SlotIds, Live(slots'[id])
      PROVE  \E t \in Queues : InQueue(id, t)'
  <2>1. CASE id = Id(s)
    <3>1. \E i \in DOMAIN queue'[to] : queue'[to][i] = id
      BY <1>1, <1>2, <2>1, MoveFacts
    <3> QED BY <3>1 DEF InQueue
  <2>2. CASE id # Id(s)
    <3>1. PICK t \in Queues : InQueue(id, t)
      BY <1>1, <1>4, <1>6, <2>2 DEF LiveQueued
    <3>2. InQueue(id, t)'
      BY <1>1, <1>2, <2>2, <3>1, MoveFacts
    <3> QED BY <3>2
  <2> QED BY <2>1, <2>2
<1> QED BY <1>3, <1>5, <1>6 DEF QueuedInState, LiveQueued, Live

LEMMA DropKeepsQueues ==
    ASSUME IInv, NEW s \in Queues, Turn(s), queue' = Popped(s),
           NEW conn, ~Live(conn), slots' = [slots EXCEPT ![Id(s)] = conn]
    PROVE  queue' \in [Queues -> Seq(SlotIds)] /\ QueuedOnce' /\ QueuedInState' /\ LiveQueued'
<1>1. TypeOK /\ QueuedOnce /\ QueuedInState /\ LiveQueued
  BY DEF IInv
<1>2. queue[s] # <<>> /\ Id(s) \in SlotIds
  BY TurnFacts
<1>3. queue' \in [Queues -> Seq(SlotIds)] /\ QueuedOnce'
  BY <1>1, <1>2, DropFacts
<1>4. slots \in [SlotIds -> ConnType \cup {NoConn}]
  BY <1>1 DEF TypeOK
<1>5. ASSUME NEW t \in Queues, NEW i \in DOMAIN queue'[t]
      PROVE  slots'[queue'[t][i]] # NoConn /\ slots'[queue'[t][i]].state = StateAt[t]
  <2>1. queue'[t][i] # Id(s) /\ InQueue(queue'[t][i], t)
    BY <1>1, <1>2, DropFacts
  <2>2. PICK j \in DOMAIN queue[t] : queue[t][j] = queue'[t][i]
    BY <2>1 DEF InQueue
  <2>3. queue[t][j] \in SlotIds
    BY <1>1, QueueFacts
  <2> QED BY <1>1, <1>4, <2>1, <2>2, <2>3 DEF QueuedInState
<1>6. ASSUME NEW id \in SlotIds, Live(slots'[id])
      PROVE  \E t \in Queues : InQueue(id, t)'
  <2>1. id # Id(s)
    BY <1>2, <1>4, <1>6
  <2>2. PICK t \in Queues : InQueue(id, t)
    BY <1>1, <1>4, <1>6, <2>1 DEF LiveQueued
  <2>3. InQueue(id, t)'
    BY <1>1, <1>2, <2>1, <2>2, DropFacts
  <2> QED BY <2>3
<1> QED BY <1>3, <1>5, <1>6 DEF QueuedInState, LiveQueued, Live

-----------------------------------------------------------------------------
(* Answers. *)

Routes == {"hello", "json", "not_found"}

\* The route stage gives each request the page that it is promised.
LEMMA RouteFacts ==
    ASSUME NEW ask \in Asks \cup {None}
    PROVE  /\ RouteOf(ask) = PromisedTo(ask)
           /\ PromisedTo(ask) \in Routes
BY DEF RouteOf, PromisedTo, Promised, Routes

LEMMA ResponseFacts ==
    ASSUME NEW route \in Routes
    PROVE  ResponseOf(route) \in Seq(Chunks)
<1>1. ChunksOf(route) \in Nat /\ ChunksOf(route) <= SendBuffer + 1 /\ SendBuffer \in Nat
  BY ConnectionAssumption DEF ChunksOf
<1>2. \A n \in 1 .. ChunksOf(route) : <<route, n>> \in Chunks
  BY <1>1 DEF Chunks, Routes
<1> QED BY <1>1, <1>2 DEF ResponseOf

\* What a client has before, after n more chunks, and of a whole response.
LEMMA PrefixFacts ==
    ASSUME NEW mine \in Seq(Chunks), NEW k \in 0 .. Len(mine)
    PROVE  /\ IsPrefixOf(SubSeq(mine, 1, k), mine)
           /\ SubSeq(mine, 1, Len(mine)) = mine
           /\ SubSeq(mine, 1, 0) = <<>>
           /\ SubSeq(mine, 1, k) \in Seq(Chunks)
           /\ \A n \in 0 .. Len(mine) - k :
                SubSeq(mine, 1, k) \o SubSeq(mine, k + 1, k + n) = SubSeq(mine, 1, k + n)
<1>1. Len(mine) \in Nat /\ \A i \in 1 .. Len(mine) : mine[i] \in Chunks
  BY LenProperties, ElementOfSeq
<1>2. SubSeq(mine, 1, k) \in Seq(Chunks) /\ Len(SubSeq(mine, 1, k)) = k
  BY <1>1, SubSeqProperties
<1>3. IsPrefixOf(SubSeq(mine, 1, k), mine)
  BY <1>1, <1>2 DEF IsPrefixOf
<1>4. SubSeq(mine, 1, Len(mine)) = mine
  BY SubSeqFull
<1>5. SubSeq(mine, 1, 0) = <<>>
  BY SubSeqEmpty
<1>6. ASSUME NEW n \in 0 .. Len(mine) - k
      PROVE  SubSeq(mine, 1, k) \o SubSeq(mine, k + 1, k + n) = SubSeq(mine, 1, k + n)
  <2>1. 1 \in 1 .. Len(mine) + 1 /\ k \in 1 - 1 .. Len(mine) /\ k + n \in k .. Len(mine)
    BY <1>1
  <2> QED BY <2>1, ConcatAdjacentSubSeq
<1> QED BY <1>2, <1>3, <1>4, <1>5, <1>6

\* The part of ResponseIntegrity that is about one client.
Answered(peer) ==
    /\ IsPrefixOf(peer.rcvd, ResponseOf(PromisedTo(peer.ask)))
    /\ peer.status = "closed" /\ peer.rcvd # <<>> => peer.rcvd = ResponseOf(PromisedTo(peer.ask))

LEMMA IntegrityIsAnswered == ResponseIntegrity <=> \A c \in Clients : Answered(client[c])
BY DEF ResponseIntegrity, Answered

LEMMA EmptyIsAnswered ==
    ASSUME NEW peer \in ClientType, peer.rcvd = <<>>
    PROVE  Answered(peer)
<1>1. peer.ask \in Asks \cup {None}
  BY DEF ClientType
<1> DEFINE mine == ResponseOf(PromisedTo(peer.ask))
<1>2. mine \in Seq(Chunks)
  BY <1>1, RouteFacts, ResponseFacts
<1>3. Len(mine) \in Nat
  BY <1>2, LenProperties
<1>4. IsPrefixOf(SubSeq(mine, 1, 0), mine) /\ SubSeq(mine, 1, 0) = <<>>
  BY <1>2, <1>3, PrefixFacts
<1> QED BY <1>4 DEF Answered

-----------------------------------------------------------------------------
(* Connections and clients. *)

ClientsInv ==
    ConnsServed /\ OneSlot /\ WaitsOnce /\ WaitersFresh /\ NewComers /\ ResponseIntegrity

\* A connection and its client change; the client stays.
LEMMA ConnStep ==
    ASSUME IInv, NEW id \in SlotIds, slots[id] # NoConn,
           NEW conn \in ConnType, conn.client = slots[id].client,
           NEW peer \in ClientType, Served(conn, peer), Answered(peer),
           slots' = [slots EXCEPT ![id] = conn],
           client' = [client EXCEPT ![conn.client] = peer],
           UNCHANGED <<free_list, backlog, accepted, active>>
    PROVE  /\ slots' \in [SlotIds -> ConnType \cup {NoConn}]
           /\ client' \in [Clients -> ClientType]
           /\ FreeListExact' /\ ClientsInv'
<1> DEFINE c == conn.client
<1>1. /\ slots \in [SlotIds -> ConnType \cup {NoConn}] /\ client \in [Clients -> ClientType]
      /\ c \in Clients /\ conn # NoConn
  BY NoConnAssumption DEF IInv, TypeOK, ConnType
<1>2. /\ \A other \in SlotIds : slots'[other] = IF other = id THEN conn ELSE slots[other]
      /\ \A b \in Clients : client'[b] = IF b = c THEN peer ELSE client[b]
  BY <1>1
<1>3. \A other \in SlotIds : slots'[other] = NoConn <=> slots[other] = NoConn
  BY <1>1, <1>2
<1>4. \A other \in SlotIds : slots[other] # NoConn =>
         slots[other].client \in Clients /\ slots'[other].client = slots[other].client
  BY <1>1, <1>2 DEF ConnType
<1>5. FreeListExact'
  BY <1>3 DEF IInv, FreeListExact
<1>6. OneSlot'
  BY <1>3, <1>4 DEF IInv, OneSlot
<1>7. ConnsServed'
  <2> SUFFICES ASSUME NEW other \in SlotIds, slots'[other] # NoConn
               PROVE  Served(slots'[other], client'[slots'[other].client])
    BY DEF ConnsServed
  <2>1. CASE other = id
    BY <1>1, <1>2, <2>1
  <2>2. CASE other # id
    <3>1. slots'[other] = slots[other] /\ slots[other] # NoConn /\ slots[other].client \in Clients
      BY <1>2, <1>3, <1>4, <2>2
    <3>2. slots[other].client # c
      BY <2>2, <3>1 DEF IInv, OneSlot
    <3>3. client'[slots[other].client] = client[slots[other].client]
      BY <1>2, <3>1, <3>2
    <3> QED BY <3>1, <3>3 DEF IInv, ConnsServed
  <2> QED BY <2>1, <2>2
<1>8. WaitsOnce'
  BY DEF IInv, WaitsOnce
<1>9. ASSUME NEW b \in Clients, Fresh(b)
      PROVE  Fresh(b)'
  <2>1. b # c
    BY <1>9 DEF Fresh
  <2>2. client'[b] = client[b]
    BY <1>2, <2>1
  <2> QED BY <1>3, <1>4, <1>9, <2>2 DEF Fresh
<1>10. WaitersFresh'
  <2>1. backlog \in Seq(Clients) /\ accepted \in Seq(Clients)
    BY DEF IInv, TypeOK
  <2>2. /\ \A i \in DOMAIN backlog : backlog[i] \in Clients /\ Fresh(backlog[i])
        /\ \A i \in DOMAIN accepted : accepted[i] \in Clients /\ Fresh(accepted[i])
    BY <2>1, LenProperties, ElementOfSeq DEF IInv, WaitersFresh
  <2> QED BY <1>9, <2>2 DEF WaitersFresh
<1>11. NewComers'
  BY <1>2 DEF IInv, NewComers, Served
<1>12. ResponseIntegrity'
  BY <1>2, IntegrityIsAnswered DEF IInv, ResponseIntegrity, Answered
<1>13. slots' \in [SlotIds -> ConnType \cup {NoConn}] /\ client' \in [Clients -> ClientType]
  BY <1>1
<1> QED BY <1>5, <1>6, <1>7, <1>8, <1>10, <1>11, <1>12, <1>13 DEF ClientsInv

\* A connection goes; what its client has is settled.
LEMMA ConnGone ==
    ASSUME IInv, NEW id \in SlotIds, slots[id] # NoConn,
           NEW peer \in ClientType, peer.status # "new", Answered(peer),
           Remove(id),
           client' = [client EXCEPT ![slots[id].client] = peer],
           UNCHANGED <<backlog, accepted, active>>
    PROVE  /\ slots' \in [SlotIds -> ConnType \cup {NoConn}]
           /\ free_list' \in Seq(SlotIds)
           /\ client' \in [Clients -> ClientType]
           /\ FreeListExact' /\ ClientsInv'
<1> DEFINE c == slots[id].client
<1>1. /\ slots \in [SlotIds -> ConnType \cup {NoConn}] /\ client \in [Clients -> ClientType]
      /\ free_list \in Seq(SlotIds) /\ FreeListExact
  BY DEF IInv, TypeOK
<1>2. /\ \A other \in SlotIds : slots'[other] = IF other = id THEN NoConn ELSE slots[other]
      /\ \A b \in Clients : client'[b] = IF b = c THEN peer ELSE client[b]
      /\ slots' \in [SlotIds -> ConnType \cup {NoConn}] /\ client' \in [Clients -> ClientType]
  BY <1>1 DEF Remove
<1>3. \A other \in SlotIds : slots[other] # NoConn => slots[other].client \in Clients
  BY <1>1 DEF ConnType
<1>4. free_list' \in Seq(SlotIds) /\ FreeListExact'
  BY <1>1, RemoveFacts
<1>5. OneSlot'
  BY <1>2 DEF IInv, OneSlot
<1>6. ConnsServed'
  <2> SUFFICES ASSUME NEW other \in SlotIds, slots'[other] # NoConn
               PROVE  Served(slots'[other], client'[slots'[other].client])
    BY DEF ConnsServed
  <2>1. other # id /\ slots'[other] = slots[other] /\ slots[other].client \in Clients
    BY <1>2, <1>3
  <2>2. slots[other].client # c
    BY <1>2, <2>1 DEF IInv, OneSlot
  <2>3. client'[slots[other].client] = client[slots[other].client]
    BY <1>2, <2>1, <2>2
  <2> QED BY <1>2, <2>1, <2>3 DEF IInv, ConnsServed
<1>7. WaitsOnce'
  BY DEF IInv, WaitsOnce
<1>8. ASSUME NEW b \in Clients, Fresh(b)
      PROVE  Fresh(b)'
  <2>1. b # c
    BY <1>8 DEF Fresh
  <2>2. client'[b] = client[b]
    BY <1>2, <2>1
  <2> QED BY <1>2, <1>8, <2>2 DEF Fresh
<1>9. WaitersFresh'
  <2>1. backlog \in Seq(Clients) /\ accepted \in Seq(Clients)
    BY DEF IInv, TypeOK
  <2>2. /\ \A i \in DOMAIN backlog : backlog[i] \in Clients /\ Fresh(backlog[i])
        /\ \A i \in DOMAIN accepted : accepted[i] \in Clients /\ Fresh(accepted[i])
    BY <2>1, LenProperties, ElementOfSeq DEF IInv, WaitersFresh
  <2> QED BY <1>8, <2>2 DEF WaitersFresh
<1>10. NewComers'
  BY <1>2 DEF IInv, NewComers
<1>11. ResponseIntegrity'
  BY <1>2 DEF IInv, ResponseIntegrity, Answered
<1> QED BY <1>2, <1>4, <1>5, <1>6, <1>7, <1>9, <1>10, <1>11 DEF ClientsInv

\* A client that the server knows sends, reads or leaves.
LEMMA PeerStep ==
    ASSUME IInv, NEW c \in Clients, client[c].status = "open",
           NEW peer \in ClientType, peer.status \in {"open", "left"},
           peer.ask = client[c].ask, peer.rcvd = client[c].rcvd,
           client' = [client EXCEPT ![c] = peer],
           UNCHANGED <<slabVars, backlog, accepted, active>>
    PROVE  client' \in [Clients -> ClientType] /\ ClientsInv'
<1>1. client \in [Clients -> ClientType] /\ slots \in [SlotIds -> ConnType \cup {NoConn}]
  BY DEF IInv, TypeOK
<1>2. /\ client' \in [Clients -> ClientType] /\ slots' = slots
      /\ \A b \in Clients : client'[b] = IF b = c THEN peer ELSE client[b]
  BY <1>1 DEF slabVars
<1>3. OneSlot' /\ WaitsOnce'
  BY <1>2 DEF IInv, OneSlot, WaitsOnce
<1>4. ConnsServed'
  <2> SUFFICES ASSUME NEW id \in SlotIds, slots[id] # NoConn
               PROVE  Served(slots[id], client'[slots[id].client])
    BY <1>2 DEF ConnsServed
  <2>1. Served(slots[id], client[slots[id].client]) /\ slots[id].client \in Clients
    BY <1>1 DEF IInv, ConnsServed, ConnType
  <2>2. CASE slots[id].client = c
    BY <1>2, <2>1, <2>2 DEF Served
  <2>3. CASE slots[id].client # c
    BY <1>2, <2>1, <2>3
  <2> QED BY <2>2, <2>3
<1>5. ASSUME NEW b \in Clients, Fresh(b)
      PROVE  Fresh(b)'
  BY <1>2, <1>5 DEF Fresh
<1>6. WaitersFresh'
  <2>1. backlog \in Seq(Clients) /\ accepted \in Seq(Clients)
    BY DEF IInv, TypeOK
  <2>2. /\ \A i \in DOMAIN backlog : backlog[i] \in Clients /\ Fresh(backlog[i])
        /\ \A i \in DOMAIN accepted : accepted[i] \in Clients /\ Fresh(accepted[i])
    BY <2>1, LenProperties, ElementOfSeq DEF IInv, WaitersFresh
  <2> QED BY <1>5, <2>2 DEF WaitersFresh
<1>7. NewComers'
  BY <1>2 DEF IInv, NewComers
<1>8. ResponseIntegrity'
  <2>1. Answered(client[c])
    BY IntegrityIsAnswered DEF IInv
  <2>2. Answered(peer)
    BY <2>1 DEF Answered
  <2> QED BY <1>2, <2>2 DEF IInv, ResponseIntegrity, Answered
<1> QED BY <1>2, <1>3, <1>4, <1>6, <1>7, <1>8 DEF ClientsInv

\* A client connects and waits.
LEMMA ConnectStep ==
    ASSUME IInv, NEW c \in Clients, NEW ask \in Asks, Connect(c, ask)
    PROVE  client' \in [Clients -> ClientType] /\ backlog' \in Seq(Clients) /\ ClientsInv'
<1> DEFINE peer == [client[c] EXCEPT !.status = "open", !.ask = ask]
           n == Len(backlog)
<1>1. /\ client \in [Clients -> ClientType] /\ slots \in [SlotIds -> ConnType \cup {NoConn}]
      /\ backlog \in Seq(Clients) /\ accepted \in Seq(Clients)
  BY DEF IInv, TypeOK
<1>2. /\ client[c].status = "new" /\ client' = [client EXCEPT ![c] = peer]
      /\ slots' = slots /\ accepted' = accepted /\ active' = active
      /\ backlog' = Append(backlog, c)
  BY DEF Connect, ClientStep, slabVars, loopVars
<1>3. client[c].rcvd = <<>>
  BY <1>2 DEF IInv, NewComers
<1>4. peer \in ClientType /\ peer.status = "open" /\ peer.rcvd = <<>>
  BY <1>1, <1>3 DEF ClientType
<1> HIDE DEF peer
<1>5. /\ client' \in [Clients -> ClientType]
      /\ \A b \in Clients : client'[b] = IF b = c THEN peer ELSE client[b]
  BY <1>1, <1>2, <1>4
<1>6. /\ n \in Nat /\ DOMAIN backlog = 1 .. n
      /\ backlog' \in Seq(Clients) /\ DOMAIN backlog' = 1 .. n + 1
      /\ \A i \in 1 .. n : backlog'[i] = backlog[i] /\ backlog[i] \in Clients
      /\ backlog'[n + 1] = c
  <2>1. /\ Append(backlog, c) \in Seq(Clients) /\ Len(Append(backlog, c)) = n + 1
        /\ \A i \in 1 .. n : Append(backlog, c)[i] = backlog[i]
        /\ Append(backlog, c)[n + 1] = c
    BY <1>1, AppendProperties
  <2>2. DOMAIN Append(backlog, c) = 1 .. n + 1
    BY <2>1, LenProperties
  <2>3. n \in Nat /\ DOMAIN backlog = 1 .. n /\ \A i \in 1 .. n : backlog[i] \in Clients
    BY <1>1, LenProperties, ElementOfSeq
  <2> QED BY <1>2, <2>1, <2>2, <2>3
<1>7. DOMAIN accepted = 1 .. Len(accepted) /\ \A i \in DOMAIN accepted : accepted[i] \in Clients
  BY <1>1, LenProperties, ElementOfSeq
<1>8. /\ \A i \in DOMAIN backlog : backlog[i] # c
      /\ \A i \in DOMAIN accepted : accepted[i] # c
      /\ \A id \in SlotIds : slots[id] # NoConn => slots[id].client # c
  BY <1>2 DEF IInv, WaitersFresh, Fresh, ConnsServed, Served
<1>9. OneSlot'
  BY <1>2 DEF IInv, OneSlot
<1>10. WaitsOnce'
  <2>1. WaitsOnce
    BY DEF IInv
  <2>2. \A i, j \in DOMAIN backlog' : backlog'[i] = backlog'[j] => i = j
    BY <1>6, <1>8, <2>1 DEF WaitsOnce
  <2>3. \A i \in DOMAIN backlog', j \in DOMAIN accepted : backlog'[i] # accepted[j]
    BY <1>6, <1>8, <2>1 DEF WaitsOnce
  <2> QED BY <1>2, <2>1, <2>2, <2>3 DEF WaitsOnce
<1>11. ASSUME NEW b \in Clients, Fresh(b)
       PROVE  Fresh(b)'
  BY <1>2, <1>5, <1>11 DEF Fresh
<1>12. Fresh(c)'
  BY <1>2, <1>4, <1>5, <1>8 DEF Fresh
<1>13. WaitersFresh'
  <2>1. ASSUME NEW i \in DOMAIN backlog' PROVE Fresh(backlog[i])'
    <3>1. CASE i = n + 1
      <4>1. backlog'[i] = c
        BY <1>6, <3>1
      <4> QED BY <1>12, <4>1 DEF Fresh
    <3>2. CASE i # n + 1
      <4>1. backlog'[i] = backlog[i] /\ backlog[i] \in Clients /\ i \in DOMAIN backlog
        BY <1>6, <3>2
      <4>2. Fresh(backlog[i])
        BY <4>1 DEF IInv, WaitersFresh
      <4> QED BY <1>11, <4>1, <4>2 DEF Fresh
    <3> QED BY <3>1, <3>2
  <2>2. \A i \in DOMAIN accepted' : Fresh(accepted[i])'
    BY <1>2, <1>7, <1>11 DEF IInv, WaitersFresh
  <2> QED BY <1>2, <2>1, <2>2 DEF WaitersFresh
<1>14. ConnsServed'
  BY <1>1, <1>2, <1>5, <1>8 DEF IInv, ConnsServed, ConnType
<1>15. NewComers'
  BY <1>4, <1>5 DEF IInv, NewComers
<1>16. ResponseIntegrity'
  <2>1. Answered(peer)
    BY <1>4, EmptyIsAnswered
  <2> QED BY <1>5, <2>1 DEF IInv, ResponseIntegrity, Answered
<1> QED BY <1>5, <1>6, <1>9, <1>10, <1>13, <1>14, <1>15, <1>16 DEF ClientsInv

-----------------------------------------------------------------------------
(* The streams that wait. *)

\* The first of a sequence and the rest of it.
LEMMA RestFacts ==
    ASSUME NEW S, NEW q \in Seq(S), q # <<>>
    PROVE  /\ Head(q) \in S /\ 1 \in DOMAIN q /\ q[1] = Head(q)
           /\ Tail(q) \in Seq(S)
           /\ \A i \in DOMAIN Tail(q) :
                i \in Nat /\ i + 1 \in DOMAIN q /\ i + 1 # 1 /\ Tail(q)[i] = q[i + 1]
<1>1. /\ Tail(q) \in Seq(S) /\ Len(Tail(q)) = Len(q) - 1
      /\ \A i \in 1 .. Len(q) - 1 : Tail(q)[i] = q[i + 1]
      /\ Head(q) = q[1] /\ Head(q) \in S
      /\ Len(q) \in Nat \ {0}
  BY HeadTailProperties, EmptySeq
<1>2. DOMAIN Tail(q) = 1 .. Len(q) - 1 /\ DOMAIN q = 1 .. Len(q)
  BY <1>1, LenProperties
<1> QED BY <1>1, <1>2

\* accept_all takes the first n of the backlog, while accepted is empty.
LEMMA AcceptStep ==
    ASSUME IInv, NEW n \in 0 .. Len(backlog), AcceptAll(n)
    PROVE  accepted' \in Seq(Clients) /\ backlog' \in Seq(Clients) /\ ClientsInv'
<1>1. /\ backlog \in Seq(Clients) /\ Len(backlog) \in Nat
      /\ DOMAIN backlog = 1 .. Len(backlog)
      /\ \A i \in 1 .. Len(backlog) : backlog[i] \in Clients
  BY LenProperties, ElementOfSeq DEF IInv, TypeOK
<1>2. /\ accepted' = SubSeq(backlog, 1, n) /\ backlog' = SubSeq(backlog, n + 1, Len(backlog))
      /\ slots' = slots /\ client' = client /\ active' = "net_in"
  BY DEF AcceptAll, slabVars
<1>3. /\ accepted' \in Seq(Clients) /\ DOMAIN accepted' = 1 .. n
      /\ \A i \in 1 .. n : accepted'[i] = backlog[i]
  <2>1. /\ SubSeq(backlog, 1, n) \in Seq(Clients)
        /\ Len(SubSeq(backlog, 1, n)) = IF 1 <= n THEN n - 1 + 1 ELSE 0
        /\ \A i \in 1 .. n - 1 + 1 : SubSeq(backlog, 1, n)[i] = backlog[1 + i - 1]
    <3>1. \A i \in 1 .. n : backlog[i] \in Clients
      BY <1>1
    <3> QED BY <3>1, SubSeqProperties
  <2> QED BY <1>2, <2>1, LenProperties
<1>4. /\ backlog' \in Seq(Clients) /\ DOMAIN backlog' = 1 .. Len(backlog) - n
      /\ \A i \in 1 .. Len(backlog) - n : backlog'[i] = backlog[n + i]
  <2> DEFINE m == Len(backlog)
  <2>1. /\ SubSeq(backlog, n + 1, m) \in Seq(Clients)
        /\ Len(SubSeq(backlog, n + 1, m)) = IF n + 1 <= m THEN m - (n + 1) + 1 ELSE 0
        /\ \A i \in 1 .. m - (n + 1) + 1 : SubSeq(backlog, n + 1, m)[i] = backlog[n + 1 + i - 1]
    <3>1. \A i \in n + 1 .. m : backlog[i] \in Clients
      BY <1>1
    <3>2. n + 1 \in Int /\ m \in Int
      BY <1>1
    <3> HIDE DEF m
    <3> QED BY <3>1, <3>2, SubSeqProperties
  <2> QED BY <1>1, <1>2, <2>1, LenProperties
<1>5. /\ \A i \in DOMAIN accepted' : i \in DOMAIN backlog /\ accepted'[i] = backlog[i]
      /\ \A i \in DOMAIN backlog' : n + i \in DOMAIN backlog /\ backlog'[i] = backlog[n + i]
      /\ \A i \in DOMAIN accepted', j \in DOMAIN backlog' : i # n + j
      /\ \A i, j \in DOMAIN backlog' : n + i = n + j => i = j
  BY <1>1, <1>3, <1>4
<1>6. WaitsOnce'
  <2>1. \A i, j \in DOMAIN backlog : backlog[i] = backlog[j] => i = j
    BY DEF IInv, WaitsOnce
  <2>2. \A i, j \in DOMAIN backlog' : backlog'[i] = backlog'[j] => i = j
    BY <1>5, <2>1
  <2>3. \A i, j \in DOMAIN accepted' : accepted'[i] = accepted'[j] => i = j
    BY <1>5, <2>1
  <2>4. \A i \in DOMAIN backlog', j \in DOMAIN accepted' : backlog'[i] # accepted'[j]
    BY <1>5, <2>1
  <2> QED BY <1>2, <2>2, <2>3, <2>4 DEF WaitsOnce
<1>7. \A i \in DOMAIN backlog : Fresh(backlog[i])
  BY DEF IInv, WaitersFresh
<1>8. WaitersFresh'
  <2>1. ASSUME NEW i \in DOMAIN accepted' PROVE Fresh(accepted[i])'
    <3>1. accepted'[i] = backlog[i] /\ Fresh(backlog[i])
      BY <1>5, <1>7
    <3> QED BY <1>2, <3>1 DEF Fresh
  <2>2. ASSUME NEW i \in DOMAIN backlog' PROVE Fresh(backlog[i])'
    <3>1. backlog'[i] = backlog[n + i] /\ Fresh(backlog[n + i])
      BY <1>5, <1>7
    <3> QED BY <1>2, <3>1 DEF Fresh
  <2> QED BY <2>1, <2>2 DEF WaitersFresh
<1>9. ConnsServed' /\ OneSlot' /\ NewComers' /\ ResponseIntegrity'
  BY <1>2 DEF IInv, ConnsServed, OneSlot, NewComers, ResponseIntegrity
<1> QED BY <1>3, <1>4, <1>6, <1>8, <1>9 DEF ClientsInv

\* A stream without a slot is dropped: its client has received nothing.
LEMMA RefuseStep ==
    ASSUME IInv, RefuseConn
    PROVE  /\ accepted' \in Seq(Clients)
           /\ client' \in [Clients -> ClientType]
           /\ ClientsInv'
<1> DEFINE c == Head(accepted)
           peer == [client[c] EXCEPT !.status = IF @ = "open" THEN "closed" ELSE @]
<1>1. /\ accepted \in Seq(Clients) /\ accepted # <<>> /\ accepted' = Tail(accepted)
      /\ slots' = slots /\ backlog' = backlog /\ active' = active
      /\ active = "net_in" /\ client' = Hangup(c)
      /\ client \in [Clients -> ClientType]
  BY DEF IInv, TypeOK, RefuseConn, slabVars
<1>2. /\ c \in Clients /\ 1 \in DOMAIN accepted /\ accepted[1] = c
      /\ Tail(accepted) \in Seq(Clients)
      /\ \A i \in DOMAIN Tail(accepted) :
           i \in Nat /\ i + 1 \in DOMAIN accepted /\ i + 1 # 1
             /\ Tail(accepted)[i] = accepted[i + 1]
  BY <1>1, RestFacts
<1>3. Fresh(c)
  BY <1>2 DEF IInv, WaitersFresh
<1>4. peer \in ClientType /\ peer.status # "new" /\ peer.rcvd = <<>>
  BY <1>1, <1>2, <1>3 DEF Fresh, ClientType
<1>5. client' = [client EXCEPT ![c] = peer]
  BY <1>1 DEF Hangup
<1> HIDE DEF peer
<1>6. /\ client' \in [Clients -> ClientType]
      /\ \A b \in Clients : client'[b] = IF b = c THEN peer ELSE client[b]
  BY <1>1, <1>4, <1>5
<1>7. WaitsOnce'
  <2>1. WaitsOnce
    BY DEF IInv
  <2>2. \A i, j \in DOMAIN accepted' : accepted'[i] = accepted'[j] => i = j
    <3>1. \A i, j \in DOMAIN accepted' : accepted'[i] = accepted'[j] => i + 1 = j + 1
      BY <1>1, <1>2, <2>1 DEF WaitsOnce
    <3> QED BY <1>1, <1>2, <3>1
  <2>3. \A i \in DOMAIN backlog, j \in DOMAIN accepted' : backlog[i] # accepted'[j]
    BY <1>1, <1>2, <2>1 DEF WaitsOnce
  <2> QED BY <1>1, <2>1, <2>2, <2>3 DEF WaitsOnce
<1>8. ASSUME NEW b \in Clients, b # c, Fresh(b)
      PROVE  Fresh(b)'
  BY <1>1, <1>6, <1>8 DEF Fresh
<1>9. WaitersFresh'
  <2>1. ASSUME NEW i \in DOMAIN backlog PROVE Fresh(backlog[i])'
    <3>1. backlog[i] # c /\ Fresh(backlog[i])
      BY <1>2 DEF IInv, WaitsOnce, WaitersFresh
    <3>2. backlog[i] \in Clients
      BY LenProperties, ElementOfSeq DEF IInv, TypeOK
    <3> QED BY <1>1, <1>8, <3>1, <3>2 DEF Fresh
  <2>2. ASSUME NEW i \in DOMAIN accepted' PROVE Fresh(accepted[i])'
    <3>1. accepted'[i] = accepted[i + 1] /\ i + 1 \in DOMAIN accepted /\ i + 1 # 1
      BY <1>1, <1>2
    <3>2. accepted[i + 1] # c /\ Fresh(accepted[i + 1])
      BY <1>2, <3>1 DEF IInv, WaitsOnce, WaitersFresh
    <3>3. accepted[i + 1] \in Clients
      BY <1>1, <3>1, LenProperties, ElementOfSeq
    <3> DEFINE b == accepted[i + 1]
    <3>4. /\ client'[b].status \in {"open", "left"} /\ client'[b].rcvd = <<>>
          /\ \A id \in SlotIds : slots'[id] # NoConn => slots'[id].client # b
      BY <1>1, <1>6, <3>2, <3>3 DEF Fresh
    <3> QED BY <3>1, <3>4 DEF Fresh
  <2> QED BY <1>1, <2>1, <2>2 DEF WaitersFresh
<1>10. ConnsServed'
  <2>1. \A id \in SlotIds : slots[id] # NoConn =>
           slots[id].client \in Clients /\ slots[id].client # c
    BY <1>3 DEF IInv, TypeOK, ConnType, Fresh
  <2> QED BY <1>1, <1>6, <2>1 DEF IInv, ConnsServed
<1>11. OneSlot' /\ NewComers'
  BY <1>1, <1>4, <1>6 DEF IInv, OneSlot, NewComers
<1>12. ResponseIntegrity'
  <2>1. Answered(peer)
    BY <1>4, EmptyIsAnswered
  <2> QED BY <1>6, <2>1 DEF IInv, ResponseIntegrity, Answered
<1> QED BY <1>1, <1>2, <1>6, <1>7, <1>9, <1>10, <1>11, <1>12 DEF ClientsInv

LEMMA NewConnFacts ==
    ASSUME NEW c \in Clients
    PROVE  NewConn(c) \in ConnType /\ NewConn(c) # NoConn
<1>1. NewConn(c) \in ConnType
  BY ConnectionAssumption, EmptySeq DEF NewConn, ConnType, Lifecycle, None
<1> QED BY <1>1, NoConnAssumption

\* The slab takes a stream in: its client has no other slot.
LEMMA InsertStep ==
    ASSUME IInv, InsertConn
    PROVE  /\ NextFree \in SlotIds /\ slots[NextFree] = NoConn
           /\ Head(accepted) \in Clients
           /\ slots' = [slots EXCEPT ![NextFree] = NewConn(Head(accepted))]
           /\ slots' \in [SlotIds -> ConnType \cup {NoConn}]
           /\ free_list' \in Seq(SlotIds)
           /\ accepted' \in Seq(Clients)
           /\ FreeListExact' /\ ClientsInv'
<1> DEFINE c == Head(accepted)
           new == NewConn(c)
<1>1. /\ accepted \in Seq(Clients) /\ accepted # <<>> /\ accepted' = Tail(accepted)
      /\ backlog' = backlog /\ active' = active /\ active = "net_in"
      /\ client' = client /\ Insert(new)
      /\ slots \in [SlotIds -> ConnType \cup {NoConn}]
      /\ free_list \in Seq(SlotIds) /\ FreeListExact
  BY DEF IInv, TypeOK, InsertConn, clientVars
<1>2. /\ c \in Clients /\ 1 \in DOMAIN accepted /\ accepted[1] = c
      /\ Tail(accepted) \in Seq(Clients)
      /\ \A i \in DOMAIN Tail(accepted) :
           i \in Nat /\ i + 1 \in DOMAIN accepted /\ i + 1 # 1
             /\ Tail(accepted)[i] = accepted[i + 1]
  BY <1>1, RestFacts
<1>3. Fresh(c)
  BY <1>2 DEF IInv, WaitersFresh
<1>4. new \in ConnType /\ new # NoConn
  BY <1>2, NewConnFacts
<1>5. /\ new.client = c /\ new.state = "WaitingForRequest"
      /\ new.write_buf = <<>> /\ new.bytes_written = 0
  BY DEF NewConn
<1>6. /\ NextFree \in SlotIds /\ slots[NextFree] = NoConn
      /\ free_list' \in Seq(SlotIds) /\ FreeListExact'
  BY <1>1, <1>4, InsertFacts
<1>7. slots' = [slots EXCEPT ![NextFree] = new]
  BY <1>1 DEF Insert
<1> HIDE DEF new
<1>8. /\ slots' \in [SlotIds -> ConnType \cup {NoConn}]
      /\ \A id \in SlotIds : slots'[id] = IF id = NextFree THEN new ELSE slots[id]
  BY <1>1, <1>4, <1>6, <1>7
<1>9. Served(new, client[c])
  <2>1. SubSeq(new.write_buf, 1, new.bytes_written) = <<>>
    <3>1. <<>> \in Seq(Chunks)
      BY EmptySeq
    <3> QED BY <1>5, <3>1, SubSeqEmpty
  <2> QED BY <1>3, <1>5, <2>1 DEF Served, Fresh
<1>10. ConnsServed'
  BY <1>1, <1>5, <1>8, <1>9 DEF IInv, ConnsServed
<1>11. \A id \in SlotIds : slots[id] # NoConn => slots[id].client # c
  BY <1>3 DEF Fresh
<1>12. OneSlot'
  BY <1>5, <1>8, <1>11 DEF IInv, OneSlot
<1>13. WaitsOnce'
  <2>1. WaitsOnce
    BY DEF IInv
  <2>2. \A i, j \in DOMAIN accepted' : accepted'[i] = accepted'[j] => i = j
    <3>1. \A i, j \in DOMAIN accepted' : accepted'[i] = accepted'[j] => i + 1 = j + 1
      BY <1>1, <1>2, <2>1 DEF WaitsOnce
    <3> QED BY <1>1, <1>2, <3>1
  <2>3. \A i \in DOMAIN backlog, j \in DOMAIN accepted' : backlog[i] # accepted'[j]
    BY <1>1, <1>2, <2>1 DEF WaitsOnce
  <2> QED BY <1>1, <2>1, <2>2, <2>3 DEF WaitsOnce
<1>14. ASSUME NEW b, b # c, Fresh(b)
       PROVE  /\ client'[b].status \in {"open", "left"} /\ client'[b].rcvd = <<>>
              /\ \A id \in SlotIds : slots'[id] # NoConn => slots'[id].client # b
  BY <1>1, <1>5, <1>8, <1>14 DEF Fresh
<1>15. WaitersFresh'
  <2>1. ASSUME NEW i \in DOMAIN backlog PROVE Fresh(backlog[i])'
    <3>1. backlog[i] # c /\ Fresh(backlog[i])
      BY <1>2 DEF IInv, WaitsOnce, WaitersFresh
    <3> DEFINE b == backlog[i]
    <3>2. /\ client'[b].status \in {"open", "left"} /\ client'[b].rcvd = <<>>
          /\ \A id \in SlotIds : slots'[id] # NoConn => slots'[id].client # b
      BY <1>14, <3>1
    <3> QED BY <1>1, <3>2 DEF Fresh
  <2>2. ASSUME NEW i \in DOMAIN accepted' PROVE Fresh(accepted[i])'
    <3>1. accepted'[i] = accepted[i + 1] /\ i + 1 \in DOMAIN accepted /\ i + 1 # 1
      BY <1>1, <1>2
    <3>2. accepted[i + 1] # c /\ Fresh(accepted[i + 1])
      BY <1>2, <3>1 DEF IInv, WaitsOnce, WaitersFresh
    <3> DEFINE b == accepted[i + 1]
    <3>3. /\ client'[b].status \in {"open", "left"} /\ client'[b].rcvd = <<>>
          /\ \A id \in SlotIds : slots'[id] # NoConn => slots'[id].client # b
      BY <1>14, <3>2
    <3> QED BY <3>1, <3>3 DEF Fresh
  <2> QED BY <1>1, <2>1, <2>2 DEF WaitersFresh
<1>16. NewComers' /\ ResponseIntegrity'
  BY <1>1 DEF IInv, NewComers, ResponseIntegrity
<1> QED BY <1>1, <1>2, <1>6, <1>7, <1>8, <1>10, <1>12, <1>13, <1>15, <1>16
        DEF ClientsInv, new

\* Its slot was in no queue, so Parse's queue has room for it.
LEMMA InsertQueues ==
    ASSUME IInv, EnoughRoom, InsertConn
    PROVE  /\ queue' \in [Queues -> Seq(SlotIds)]
           /\ QueuedOnce' /\ QueuedInState' /\ LiveQueued'
           /\ queue_len' \in [Queues \ {"encode"} -> Int] /\ QueueLenExact'
<1> DEFINE q == queue["parse"]
           n == Len(q)
           id == NextFree
           new == NewConn(Head(accepted))
<1>1. /\ TypeOK /\ QueuedOnce /\ QueuedInState /\ LiveQueued /\ QueueLenExact
      /\ slots \in [SlotIds -> ConnType \cup {NoConn}]
      /\ queue \in [Queues -> Seq(SlotIds)]
      /\ queue_len \in [Queues \ {"encode"} -> Int]
  BY DEF IInv, TypeOK
<1>2. /\ id \in SlotIds /\ slots[id] = NoConn
      /\ slots' = [slots EXCEPT ![id] = new] /\ Head(accepted) \in Clients
  BY InsertStep
<1>3. new # NoConn /\ new.state = StateAt["parse"]
  BY <1>2, NewConnFacts DEF NewConn, StateAt
<1>4. "parse" \in Queues /\ "parse" \in Queues \ {"encode"}
  BY DEF Queues
<1>5. \A t \in Queues : \A i \in DOMAIN queue[t] : queue[t][i] # id
  BY <1>1, <1>2 DEF QueuedInState
<1>6. /\ q \in Seq(SlotIds) /\ n \in Nat /\ DOMAIN q = 1 .. n
      /\ \A i, j \in DOMAIN q : q[i] = q[j] => i = j
  BY <1>1, <1>4, QueueFacts DEF QueuedOnce
<1>7. n < Room
  BY <1>2, <1>4, <1>5, <1>6, RoomForOne
<1>8. /\ queue' = [queue EXCEPT !["parse"] = Append(@, id)]
      /\ queue_len' = [queue_len EXCEPT !["parse"] = @ + 1]
  BY <1>7 DEF InsertConn
<1>9. /\ Append(q, id) \in Seq(SlotIds) /\ Len(Append(q, id)) = n + 1
      /\ DOMAIN Append(q, id) = 1 .. n + 1
      /\ \A i \in 1 .. n : Append(q, id)[i] = q[i]
      /\ Append(q, id)[n + 1] = id
  <2>1. /\ Append(q, id) \in Seq(SlotIds) /\ Len(Append(q, id)) = n + 1
        /\ \A i \in 1 .. n : Append(q, id)[i] = q[i]
        /\ Append(q, id)[n + 1] = id
    BY <1>2, <1>6, AppendProperties
  <2> QED BY <2>1, LenProperties
<1>10. /\ queue' \in [Queues -> Seq(SlotIds)]
       /\ queue'["parse"] = Append(q, id)
       /\ \A t \in Queues : t # "parse" => queue'[t] = queue[t]
  BY <1>1, <1>4, <1>8, <1>9
<1> HIDE DEF id, new
<1>11. ASSUME NEW t \in Queues, NEW i \in DOMAIN queue'[t]
       PROVE  \/ t = "parse" /\ i = n + 1 /\ queue'[t][i] = id
              \/ i \in DOMAIN queue[t] /\ queue'[t][i] = queue[t][i]
  <2>1. CASE t = "parse"
    <3>1. i \in 1 .. n + 1 /\ queue'[t][i] = Append(q, id)[i]
      BY <1>9, <1>10, <2>1
    <3>2. i = n + 1 \/ i \in 1 .. n
      BY <1>6, <3>1
    <3> QED BY <1>6, <1>9, <2>1, <3>1, <3>2
  <2>2. CASE t # "parse"
    BY <1>10, <2>2
  <2> QED BY <2>1, <2>2
<1>12. ASSUME NEW t \in Queues, NEW i \in DOMAIN queue[t]
       PROVE  i \in DOMAIN queue'[t] /\ queue'[t][i] = queue[t][i]
  <2>1. CASE t = "parse"
    <3>1. i \in 1 .. n /\ i \in 1 .. n + 1
      BY <1>6, <2>1
    <3> QED BY <1>9, <1>10, <2>1, <3>1
  <2>2. CASE t # "parse"
    BY <1>10, <2>2
  <2> QED BY <2>1, <2>2
<1> HIDE DEF q, n
<1>13. QueuedOnce'
  <2> SUFFICES ASSUME NEW t \in Queues, NEW u \in Queues,
                      NEW i \in DOMAIN queue'[t], NEW j \in DOMAIN queue'[u],
                      queue'[t][i] = queue'[u][j]
               PROVE  t = u /\ i = j
    BY DEF QueuedOnce
  <2>1. CASE i \in DOMAIN queue[t] /\ queue'[t][i] = queue[t][i]
             /\ j \in DOMAIN queue[u] /\ queue'[u][j] = queue[u][j]
    <3>1. i \in DOMAIN queue[t] /\ j \in DOMAIN queue[u] /\ queue[t][i] = queue[u][j]
      BY <2>1
    <3> QED BY <1>1, <3>1 DEF QueuedOnce
  <2>2. CASE t = "parse" /\ i = n + 1 /\ queue'[t][i] = id
    BY <1>5, <1>11, <2>2
  <2>3. CASE u = "parse" /\ j = n + 1 /\ queue'[u][j] = id
    BY <1>5, <1>11, <2>3
  <2> QED BY <1>11, <2>1, <2>2, <2>3
<1>14. QueuedInState'
  <2> SUFFICES ASSUME NEW t \in Queues, NEW i \in DOMAIN queue'[t]
               PROVE  slots'[queue'[t][i]] # NoConn /\ slots'[queue'[t][i]].state = StateAt[t]
    BY DEF QueuedInState
  <2>1. CASE t = "parse" /\ queue'[t][i] = id
    BY <1>1, <1>2, <1>3, <2>1
  <2>2. CASE i \in DOMAIN queue[t] /\ queue'[t][i] = queue[t][i]
    <3>1. queue[t][i] \in SlotIds /\ queue[t][i] # id
      BY <1>1, <1>5, <2>2, QueueFacts
    <3> QED BY <1>1, <1>2, <2>2, <3>1 DEF QueuedInState
  <2> QED BY <1>11, <2>1, <2>2
<1>15. LiveQueued'
  <2> SUFFICES ASSUME NEW k \in SlotIds, Live(slots'[k])
               PROVE  \E t \in Queues : \E i \in DOMAIN queue'[t] : queue'[t][i] = k
    BY DEF LiveQueued, InQueue, Live
  <2>1. CASE k = id
    <3>1. n + 1 \in DOMAIN queue'["parse"] /\ queue'["parse"][n + 1] = id
      BY <1>6, <1>9, <1>10
    <3> QED BY <1>4, <2>1, <3>1
  <2>2. CASE k # id
    <3>1. PICK t \in Queues : \E i \in DOMAIN queue[t] : queue[t][i] = k
      BY <1>1, <1>2, <2>2 DEF LiveQueued, Live, InQueue
    <3> QED BY <1>12, <3>1
  <2> QED BY <2>1, <2>2
<1>16. queue_len' \in [Queues \ {"encode"} -> Int]
  BY <1>1, <1>4, <1>8, SMTT(40)
<1>17. QueueLenExact'
  <2>1. queue_len["parse"] = Len(queue["parse"])
    BY <1>1 DEF QueueLenExact
  <2>2. queue_len'["parse"] = Len(queue'["parse"])
    BY <1>1, <1>4, <1>8, <1>9, <1>10, <2>1 DEF q, n
  <2>3. \A t \in Queues \ {"encode"} : t # "parse" => queue_len'[t] = queue_len[t]
    BY <1>1, <1>8
  <2> QED BY <1>1, <1>10, <2>2, <2>3 DEF QueueLenExact, Queues
<1> QED BY <1>10, <1>13, <1>14, <1>15, <1>16, <1>17

-----------------------------------------------------------------------------
(* The turns of the stages. *)

\* What the counted lengths become with a move or a drop.
LEMMA CountedMove ==
    ASSUME IInv, EnoughRoom, NEW s \in Queues \ {"encode"}, NEW to \in Queues,
           queue[s] # <<>>, Move(s, to), CountMove(s, to)
    PROVE  queue_len' \in [Queues \ {"encode"} -> Int] /\ QueueLenExact'
<1>1. /\ TypeOK /\ QueuedOnce /\ QueueLenExact
      /\ queue_len \in [Queues \ {"encode"} -> Int]
  BY DEF IInv, TypeOK
<1>2. Fits(s, to)
  BY <1>1, MoveFacts
<1>3. \A t \in Queues : /\ Len(queue[t]) \in Nat
                        /\ Len(queue'[t]) = Len(queue[t]) - (IF t = s THEN 1 ELSE 0)
                                              + (IF t = to THEN 1 ELSE 0)
  <2>1. \A t \in Queues : Len(queue[t]) \in Nat
    BY <1>1, QueueFacts
  <2>2. \A t \in Queues : Len(queue'[t]) =
           Len(queue[t]) - (IF t = s THEN 1 ELSE 0) + (IF t = to THEN 1 ELSE 0)
    <3>1. s \in Queues
      OBVIOUS
    <3> QED BY <1>1, <3>1, MoveFacts, ZenonT(40)
  <2> QED BY <2>1, <2>2
<1>4. Counter[to] \in Queues \ {"encode"}
      /\ Counter[to] = IF to = "encode" THEN "net_out" ELSE to
  BY DEF Counter, Queues
<1>5. queue_len' = [queue_len EXCEPT ![s] = @ - 1, ![Counter[to]] = @ + 1]
  BY <1>2 DEF CountMove
<1>6. queue_len' \in [Queues \ {"encode"} -> Int]
  BY <1>1, <1>4, <1>5
<1>7. \A t \in Queues \ {"encode"} :
         queue_len'[t] = queue_len[t] - (IF t = s THEN 1 ELSE 0)
                           + (IF t = Counter[to] THEN 1 ELSE 0)
  BY <1>1, <1>4, <1>5
<1>8. ASSUME NEW t \in {"parse", "route", "app"}
      PROVE  queue_len'[t] = Len(queue'[t])
  <2>1. t \in Queues \ {"encode"} /\ queue_len[t] = Len(queue[t])
        /\ (t = Counter[to] <=> t = to)
    BY <1>1, <1>4 DEF QueueLenExact, Queues
  <2> QED BY <1>3, <1>7, <2>1
<1>9. queue_len'["net_out"] = Len(queue'["encode"]) + Len(queue'["net_out"])
  <2>1. queue_len["net_out"] = Len(queue["encode"]) + Len(queue["net_out"])
    BY <1>1 DEF QueueLenExact
  <2>2. "net_out" \in Queues \ {"encode"} /\ "encode" \in Queues /\ s # "encode"
    BY DEF Queues
  <2>3. "net_out" = Counter[to] <=> to \in {"encode", "net_out"}
    BY <1>4
  <2>4. queue_len'["net_out"] = queue_len["net_out"] - (IF "net_out" = s THEN 1 ELSE 0)
                                  + (IF "net_out" = Counter[to] THEN 1 ELSE 0)
    BY <1>7, <2>2
  <2>5. /\ Len(queue["encode"]) \in Nat /\ Len(queue["net_out"]) \in Nat
        /\ Len(queue'["encode"]) = Len(queue["encode"]) + (IF "encode" = to THEN 1 ELSE 0)
    <3>1. Len(queue["encode"]) \in Nat /\ Len(queue["net_out"]) \in Nat
      BY <1>3, <2>2
    <3>2. Len(queue'["encode"]) = Len(queue["encode"]) - (IF "encode" = s THEN 1 ELSE 0)
                                    + (IF "encode" = to THEN 1 ELSE 0)
      BY <1>3, <2>2
    <3>3. ~("encode" = s)
      BY <2>2
    <3> DEFINE one == IF "encode" = to THEN 1 ELSE 0
    <3>4. Len(queue'["encode"]) = Len(queue["encode"]) - 0 + one
      BY <3>2, <3>3, Zenon
    <3>5. one \in Nat
      OBVIOUS
    <3> HIDE DEF one
    <3>6. Len(queue'["encode"]) = Len(queue["encode"]) + one
      BY <3>1, <3>4, <3>5
    <3> QED BY <3>1, <3>6 DEF one
  <2>6. Len(queue'["net_out"]) = Len(queue["net_out"]) - (IF "net_out" = s THEN 1 ELSE 0)
                                   + (IF "net_out" = to THEN 1 ELSE 0)
    BY <1>3, <2>2
  <2> DEFINE popped == IF "net_out" = s THEN 1 ELSE 0
             counted == IF "net_out" = Counter[to] THEN 1 ELSE 0
             encode == IF "encode" = to THEN 1 ELSE 0
             net_out == IF "net_out" = to THEN 1 ELSE 0
  <2>7. popped \in Nat /\ encode \in Nat /\ net_out \in Nat /\ counted = encode + net_out
    BY <2>3
  <2>8. /\ queue_len'["net_out"] = queue_len["net_out"] - popped + counted
        /\ Len(queue'["encode"]) = Len(queue["encode"]) + encode
        /\ Len(queue'["net_out"]) = Len(queue["net_out"]) - popped + net_out
        /\ Len(queue["encode"]) \in Nat /\ Len(queue["net_out"]) \in Nat
    BY <2>4, <2>5, <2>6
  <2> HIDE DEF popped, counted, encode, net_out
  <2>9. \A e, n \in Nat : (e + n) - popped + (encode + net_out)
                             = (e + encode) + (n - popped + net_out)
    BY <2>7
  <2>10. queue_len'["net_out"] = (Len(queue["encode"]) + Len(queue["net_out"])) - popped
                                    + (encode + net_out)
    BY <2>1, <2>7, <2>8, Zenon
  <2>11. (Len(queue["encode"]) + Len(queue["net_out"])) - popped + (encode + net_out)
           = (Len(queue["encode"]) + encode) + (Len(queue["net_out"]) - popped + net_out)
    BY <2>8, <2>9, Zenon
  <2> QED BY <2>8, <2>10, <2>11, Zenon
<1> QED BY <1>6, <1>8, <1>9 DEF QueueLenExact

LEMMA CountedDrop ==
    ASSUME IInv, NEW s \in Queues \ {"encode"}, queue[s] # <<>>, Drop(s)
    PROVE  queue_len' \in [Queues \ {"encode"} -> Int] /\ QueueLenExact'
<1>1. /\ TypeOK /\ QueuedOnce /\ QueueLenExact
      /\ queue_len \in [Queues \ {"encode"} -> Int]
  BY DEF IInv, TypeOK
<1>2. \A t \in Queues : /\ Len(queue[t]) \in Nat
                        /\ Len(queue'[t]) = Len(queue[t]) - (IF t = s THEN 1 ELSE 0)
  BY <1>1, DropFacts, QueueFacts DEF Drop
<1>3. queue_len' = [queue_len EXCEPT ![s] = @ - 1]
  BY DEF Drop
<1>4. queue_len' \in [Queues \ {"encode"} -> Int]
      /\ \A t \in Queues \ {"encode"} :
           queue_len'[t] = queue_len[t] - (IF t = s THEN 1 ELSE 0)
  BY <1>1, <1>3
<1>5. ASSUME NEW t \in {"parse", "route", "app"}
      PROVE  queue_len'[t] = Len(queue'[t])
  <2>1. t \in Queues \ {"encode"} /\ queue_len[t] = Len(queue[t])
    BY <1>1 DEF QueueLenExact, Queues
  <2> QED BY <1>2, <1>4, <2>1
<1>6. queue_len'["net_out"] = Len(queue'["encode"]) + Len(queue'["net_out"])
  <2>1. queue_len["net_out"] = Len(queue["encode"]) + Len(queue["net_out"])
    BY <1>1 DEF QueueLenExact
  <2>2. "net_out" \in Queues \ {"encode"} /\ "encode" \in Queues /\ s # "encode"
    BY DEF Queues
  <2>3. queue_len'["net_out"] = queue_len["net_out"] - (IF "net_out" = s THEN 1 ELSE 0)
    BY <1>4, <2>2
  <2>4. /\ Len(queue["encode"]) \in Nat /\ Len(queue["net_out"]) \in Nat
        /\ Len(queue'["encode"]) = Len(queue["encode"])
    <3>1. Len(queue["encode"]) \in Nat /\ Len(queue["net_out"]) \in Nat
      BY <1>2, <2>2
    <3>2. Len(queue'["encode"]) = Len(queue["encode"]) - (IF "encode" = s THEN 1 ELSE 0)
      BY <1>2, <2>2
    <3>3. ~("encode" = s)
      BY <2>2
    <3>4. Len(queue'["encode"]) = Len(queue["encode"]) - 0
      BY <3>2, <3>3, Zenon
    <3> QED BY <3>1, <3>4
  <2>5. Len(queue'["net_out"]) = Len(queue["net_out"]) - (IF "net_out" = s THEN 1 ELSE 0)
    BY <1>2, <2>2
  <2> QED BY <2>1, <2>3, <2>4, <2>5
<1> QED BY <1>4, <1>5, <1>6 DEF QueueLenExact

\* The loop of a stage in a turn.
LEMMA LoopFacts ==
    ASSUME TypeOK, NEW s \in Queues, Turn(s)
    PROVE  left' \in 0 .. Batch /\ active' = active /\ accepted' = accepted
BY Phase1Assumption DEF TypeOK, Turn

\* A stage that changes its connection only and passes it on.
LEMMA PassStep ==
    ASSUME IInv, EnoughRoom, NEW s \in Queues \ {"encode"}, NEW to \in Queues,
           Turn(s), Move(s, to), CountMove(s, to),
           NEW conn \in ConnType, conn.client = Conn(s).client,
           conn.state = StateAt[to],
           Served(conn, client[conn.client]),
           slots' = [slots EXCEPT ![Id(s)] = conn],
           total_conns' = total_conns, total_requests' \in Nat,
           UNCHANGED <<free_list, backlog, client, errors>>
    PROVE  IInv'
<1>1. TypeOK
  BY DEF IInv
<1>2. /\ queue[s] # <<>> /\ Id(s) \in SlotIds /\ slots[Id(s)] # NoConn
      /\ Conn(s) = slots[Id(s)]
      /\ conn.client \in Clients /\ client[conn.client] \in ClientType
  BY TurnFacts
<1>3. left' \in 0 .. Batch /\ active' = active /\ accepted' = accepted
  BY <1>1, LoopFacts
<1>4. Answered(client[conn.client])
  BY <1>2, IntegrityIsAnswered DEF IInv
<1>5. client' = [client EXCEPT ![conn.client] = client[conn.client]]
  BY <1>1, <1>2 DEF TypeOK
<1>6. /\ slots' \in [SlotIds -> ConnType \cup {NoConn}]
      /\ client' \in [Clients -> ClientType]
      /\ FreeListExact' /\ ClientsInv'
  BY <1>2, <1>3, <1>4, <1>5, ConnStep
<1>7. conn # NoConn
  BY NoConnAssumption
<1>8. queue' \in [Queues -> Seq(SlotIds)] /\ QueuedOnce' /\ QueuedInState' /\ LiveQueued'
  BY <1>7, MoveKeepsQueues
<1>9. queue_len' \in [Queues \ {"encode"} -> Int] /\ QueueLenExact'
  BY <1>2, CountedMove
<1>10. TypeOK'
  BY <1>1, <1>3, <1>6, <1>8, <1>9 DEF TypeOK
<1> QED BY <1>6, <1>8, <1>9, <1>10 DEF IInv, ClientsInv

LEMMA ParseRequestStep ==
    ASSUME IInv, EnoughRoom, ParseRequest
    PROVE  IInv'
<1> DEFINE conn == [Conn("parse") EXCEPT !.request_path = Peer.ask,
                                         !.state = "Routed", !.read_buf = 0]
<1>1. /\ Turn("parse") /\ Move("parse", "route") /\ CountMove("parse", "route")
      /\ slots' = [slots EXCEPT ![Id("parse")] = conn]
      /\ total_conns' = total_conns /\ total_requests' = total_requests
      /\ UNCHANGED <<free_list, backlog, client, errors>>
  BY DEF ParseRequest, Conn, clientVars
<1>2. "parse" \in Queues \ {"encode"} /\ "route" \in Queues
  BY DEF Queues
<1>3. /\ Conn("parse") \in ConnType /\ Conn("parse").state = "WaitingForRequest"
      /\ Peer = client[Conn("parse").client] /\ Peer \in ClientType
      /\ Served(Conn("parse"), Peer)
  BY <1>1, <1>2, TurnFacts DEF StateAt, Peer
<1>4. /\ conn \in ConnType /\ conn.client = Conn("parse").client /\ conn.state = "Routed"
      /\ conn.request_path = Peer.ask
      /\ conn.write_buf = Conn("parse").write_buf
      /\ conn.bytes_written = Conn("parse").bytes_written
  <2>1. Peer.ask \in Asks \cup {None} /\ 0 \in 0 .. Segments /\ "Routed" \in Lifecycle
    BY <1>3, ConnectionAssumption DEF ClientType, Lifecycle
  <2> DEFINE was == Conn("parse")
             ask == Peer.ask
  <2>2. was \in ConnType
    BY <1>3
  <2> HIDE DEF was, ask
  <2>3. [was EXCEPT !.request_path = ask, !.state = "Routed", !.read_buf = 0] \in ConnType
    BY <2>1, <2>2 DEF ConnType, ask
  <2> QED BY <2>2, <2>3 DEF was, ask, ConnType
<1> HIDE DEF conn
<1>5. Served(conn, Peer)
  BY <1>3, <1>4 DEF Served
<1>6. conn.state = StateAt["route"] /\ total_requests' \in Nat
  BY <1>1, <1>4 DEF StateAt, IInv, TypeOK
<1> QED BY <1>1, <1>2, <1>3, <1>4, <1>5, <1>6, PassStep

LEMMA ParseIncompleteStep ==
    ASSUME IInv, EnoughRoom, NEW n \in 0 .. Segments, ParseIncomplete(n)
    PROVE  IInv'
<1> DEFINE conn == [Conn("parse") EXCEPT !.read_buf = n]
<1>1. /\ Turn("parse") /\ Move("parse", "parse") /\ CountMove("parse", "parse")
      /\ slots' = [slots EXCEPT ![Id("parse")] = conn]
      /\ total_conns' = total_conns /\ total_requests' = total_requests
      /\ UNCHANGED <<free_list, backlog, client, errors>>
  BY DEF ParseIncomplete, Conn, clientVars
<1>2. "parse" \in Queues \ {"encode"} /\ "parse" \in Queues
  BY DEF Queues
<1>3. /\ Conn("parse") \in ConnType /\ Conn("parse").state = "WaitingForRequest"
      /\ Served(Conn("parse"), client[Conn("parse").client])
  BY <1>1, <1>2, TurnFacts DEF StateAt
<1>4. conn \in ConnType /\ conn.client = Conn("parse").client
      /\ conn.state = "WaitingForRequest"
  BY <1>3 DEF ConnType
<1>5. Served(conn, client[conn.client])
  BY <1>3, <1>4 DEF Served, ConnType
<1>6. conn.state = StateAt["parse"] /\ total_requests' \in Nat
  BY <1>1, <1>4 DEF StateAt, IInv, TypeOK
<1> HIDE DEF conn
<1> QED BY <1>1, <1>2, <1>3, <1>4, <1>5, <1>6, PassStep

LEMMA RouteStep ==
    ASSUME IInv, EnoughRoom, RouteStage
    PROVE  IInv'
<1> DEFINE conn == [Conn("route") EXCEPT !.route_id = RouteOf(Conn("route").request_path),
                                         !.state = "Processing"]
<1>1. /\ Turn("route") /\ Move("route", "app") /\ CountMove("route", "app")
      /\ slots' = [slots EXCEPT ![Id("route")] = conn]
      /\ total_conns' = total_conns /\ total_requests' = total_requests
      /\ UNCHANGED <<free_list, backlog, client, errors>>
  BY DEF RouteStage, Conn, clientVars
<1>2. "route" \in Queues \ {"encode"} /\ "app" \in Queues
  BY DEF Queues
<1>3. /\ Conn("route") \in ConnType /\ Conn("route").state = "Routed"
      /\ client[Conn("route").client] \in ClientType
      /\ Served(Conn("route"), client[Conn("route").client])
  BY <1>1, <1>2, TurnFacts DEF StateAt
<1>4. /\ Conn("route").request_path = client[Conn("route").client].ask
      /\ Conn("route").request_path \in Asks \cup {None}
  BY <1>3 DEF Served, ConnType
<1>5. /\ RouteOf(Conn("route").request_path) = PromisedTo(client[Conn("route").client].ask)
      /\ RouteOf(Conn("route").request_path) \in Routes
  BY <1>4, RouteFacts
<1>6. conn \in ConnType /\ conn.client = Conn("route").client /\ conn.state = "Processing"
      /\ conn.route_id = PromisedTo(client[conn.client].ask)
      /\ conn.write_buf = Conn("route").write_buf
      /\ conn.bytes_written = Conn("route").bytes_written
  BY <1>3, <1>5 DEF ConnType, Lifecycle, Routes
<1>7. Served(conn, client[conn.client])
  BY <1>3, <1>6 DEF Served
<1>8. conn.state = StateAt["app"] /\ total_requests' \in Nat
  BY <1>1, <1>6 DEF StateAt, IInv, TypeOK
<1> HIDE DEF conn
<1> QED BY <1>1, <1>2, <1>3, <1>6, <1>7, <1>8, PassStep

\* The handler appends the whole response to a buffer that was empty.
LEMMA AppStep ==
    ASSUME IInv, EnoughRoom, AppStage
    PROVE  IInv'
<1> DEFINE was == Conn("app")
           conn == [was EXCEPT !.write_buf = was.write_buf \o ResponseOf(was.route_id),
                               !.state = "Sending"]
<1>1. /\ Turn("app") /\ Move("app", "encode") /\ CountMove("app", "encode")
      /\ slots' = [slots EXCEPT ![Id("app")] = conn]
      /\ total_conns' = total_conns /\ total_requests' = total_requests + 1
      /\ UNCHANGED <<free_list, backlog, client, errors>>
  BY DEF AppStage, Conn, clientVars
<1>2. "app" \in Queues \ {"encode"} /\ "encode" \in Queues
  BY DEF Queues
<1>3. /\ was \in ConnType /\ was.state = "Processing"
      /\ client[was.client] \in ClientType
      /\ Served(was, client[was.client])
  BY <1>1, <1>2, TurnFacts DEF StateAt
<1> HIDE DEF was
<1>4. /\ was.route_id = PromisedTo(client[was.client].ask)
      /\ was.write_buf = <<>> /\ was.bytes_written = 0
      /\ client[was.client].status \in {"open", "left"}
      /\ client[was.client].status = "open" =>
           client[was.client].rcvd = SubSeq(was.write_buf, 1, was.bytes_written)
  BY <1>3 DEF Served
<1>5. was.route_id \in Routes
  BY <1>3, <1>4, RouteFacts DEF ClientType
<1> DEFINE mine == ResponseOf(was.route_id)
<1>6. mine \in Seq(Chunks) /\ Len(mine) \in Nat
  BY <1>5, ResponseFacts, LenProperties
<1>7. was.write_buf \o mine = mine
  BY <1>4, <1>6, ConcatEmptySeq
<1>8. SubSeq(<<>>, 1, 0) = <<>> /\ SubSeq(mine, 1, 0) = <<>>
  <2>1. <<>> \in Seq(Chunks)
    BY EmptySeq
  <2> QED BY <1>6, <2>1, SubSeqEmpty
<1> HIDE DEF mine
<1>9. conn \in ConnType /\ conn.client = was.client /\ conn.state = "Sending"
      /\ conn.write_buf = mine /\ conn.bytes_written = 0
  BY <1>3, <1>4, <1>6, <1>7 DEF ConnType, Lifecycle, mine
<1> HIDE DEF conn
<1>10. Served(conn, client[conn.client])
  <2>1. mine = ResponseOf(PromisedTo(client[conn.client].ask))
    BY <1>4, <1>9 DEF mine
  <2> QED BY <1>4, <1>6, <1>8, <1>9, <2>1 DEF Served
<1>11. conn.state = StateAt["encode"] /\ total_requests' \in Nat
  BY <1>1, <1>9 DEF StateAt, IInv, TypeOK
<1> QED BY <1>1, <1>2, <1>9, <1>10, <1>11, PassStep DEF was

LEMMA ParseInvalidStep ==
    ASSUME IInv, NEW n \in 0 .. Segments, ParseInvalid(n)
    PROVE  IInv'
<1> DEFINE was == Conn("parse")
           conn == [was EXCEPT !.read_buf = n, !.state = "Closed"]
<1>1. /\ Turn("parse") /\ Drop("parse")
      /\ slots' = [slots EXCEPT ![Id("parse")] = conn]
      /\ total_conns' = total_conns /\ total_requests' = total_requests
      /\ errors' = [errors EXCEPT !["parse"] = @ + 1]
      /\ UNCHANGED <<free_list, backlog, client>>
  BY DEF ParseInvalid, Conn, clientVars
<1>2. "parse" \in Queues \ {"encode"} /\ "parse" \in Queues
  BY DEF Queues
<1>3. /\ queue["parse"] # <<>> /\ Id("parse") \in SlotIds /\ slots[Id("parse")] # NoConn
      /\ was = slots[Id("parse")] /\ was \in ConnType /\ was.state = "WaitingForRequest"
      /\ client[was.client] \in ClientType /\ was.client \in Clients
      /\ Served(was, client[was.client])
  BY <1>1, <1>2, TurnFacts DEF StateAt
<1> HIDE DEF was
<1>4. /\ conn \in ConnType /\ conn.client = was.client /\ conn.state = "Closed"
      /\ conn.write_buf = was.write_buf /\ conn.bytes_written = was.bytes_written
  BY <1>3 DEF ConnType, Lifecycle
<1> HIDE DEF conn
<1>5. Served(conn, client[conn.client])
  BY <1>3, <1>4 DEF Served
<1>6. /\ TypeOK
      /\ left' \in 0 .. Batch /\ active' = active /\ accepted' = accepted
  BY <1>1, <1>2, LoopFacts DEF IInv
<1>7. client' = [client EXCEPT ![conn.client] = client[conn.client]]
      /\ Answered(client[conn.client])
  BY <1>1, <1>3, <1>4, <1>6, IntegrityIsAnswered DEF TypeOK, IInv
<1>8. /\ slots' \in [SlotIds -> ConnType \cup {NoConn}]
      /\ client' \in [Clients -> ClientType]
      /\ FreeListExact' /\ ClientsInv'
  BY <1>1, <1>3, <1>4, <1>5, <1>6, <1>7, ConnStep
<1>9. queue' \in [Queues -> Seq(SlotIds)] /\ QueuedOnce' /\ QueuedInState' /\ LiveQueued'
  BY <1>1, <1>2, <1>4, DropKeepsQueues DEF Drop, Live
<1>10. queue_len' \in [Queues \ {"encode"} -> Int] /\ QueueLenExact'
  BY <1>1, <1>2, <1>3, CountedDrop
<1>11. errors' \in [{"parse", "net_out"} -> Nat]
  BY <1>1, <1>6 DEF TypeOK
<1>12. TypeOK'
  BY <1>1, <1>6, <1>8, <1>9, <1>10, <1>11 DEF TypeOK
<1> QED BY <1>8, <1>9, <1>10, <1>12 DEF IInv, ClientsInv

LEMMA MovedLens ==
    ASSUME TypeOK, QueuedOnce, EnoughRoom, NEW s \in Queues, queue[s] # <<>>,
           NEW to \in Queues, s # to, Move(s, to)
    PROVE  /\ Len(queue'[s]) = Len(queue[s]) - 1
           /\ Len(queue'[to]) = Len(queue[to]) + 1
           /\ \A t \in Queues \ {s, to} : Len(queue'[t]) = Len(queue[t])
<1>1. \A t \in Queues : Len(queue[t]) \in Nat
  BY QueueFacts
<1>2. \A t \in Queues : Len(queue'[t]) =
         Len(queue[t]) - (IF t = s THEN 1 ELSE 0) + (IF t = to THEN 1 ELSE 0)
  BY MoveFacts, ZenonT(40)
<1>3. Len(queue'[s]) = Len(queue[s]) - 1 + 0
  BY <1>2, Zenon
<1>4. Len(queue'[to]) = Len(queue[to]) - 0 + 1
  BY <1>2, Zenon
<1>5. \A t \in Queues \ {s, to} : Len(queue'[t]) = Len(queue[t]) - 0 + 0
  <2> SUFFICES ASSUME NEW t \in Queues, t # s, t # to
               PROVE  Len(queue'[t]) = Len(queue[t]) - 0 + 0
    OBVIOUS
  <2> QED BY <1>2, Zenon
<1>6. \A n \in Nat : n - 1 + 0 = n - 1 /\ n - 0 + 1 = n + 1 /\ n - 0 + 0 = n
  OBVIOUS
<1>7. \A t \in Queues \ {s, to} : Len(queue'[t]) = Len(queue[t])
  BY <1>1, <1>5, <1>6
<1>8. Len(queue[s]) \in Nat /\ Len(queue[to]) \in Nat
  BY <1>1
<1> QED BY <1>3, <1>4, <1>6, <1>7, <1>8, Zenon

\* Encode passes the id on as it is, and both queues count for net_out.
LEMMA EncodeStep ==
    ASSUME IInv, EnoughRoom, EncodeStage
    PROVE  IInv'
<1> DEFINE conn == Conn("encode")
<1>1. /\ Turn("encode") /\ Move("encode", "net_out")
      /\ UNCHANGED <<slabVars, clientVars, total_conns, total_requests, queue_len, errors>>
  BY DEF EncodeStage
<1>2. "encode" \in Queues /\ "net_out" \in Queues
  BY DEF Queues
<1>3. /\ queue["encode"] # <<>> /\ Id("encode") \in SlotIds /\ slots[Id("encode")] # NoConn
      /\ conn = slots[Id("encode")] /\ conn \in ConnType /\ conn.state = "Sending"
      /\ client[conn.client] \in ClientType /\ conn.client \in Clients
      /\ Served(conn, client[conn.client])
      /\ slots' = [slots EXCEPT ![Id("encode")] = conn]
  BY <1>1, <1>2, TurnFacts DEF StateAt, slabVars
<1> HIDE DEF conn
<1>4. /\ TypeOK /\ QueuedOnce /\ QueueLenExact
      /\ left' \in 0 .. Batch /\ active' = active /\ accepted' = accepted
  BY <1>1, <1>2, LoopFacts DEF IInv
<1>5. client' = [client EXCEPT ![conn.client] = client[conn.client]]
      /\ Answered(client[conn.client])
  BY <1>1, <1>3, <1>4, IntegrityIsAnswered DEF TypeOK, IInv, clientVars
<1>6. /\ slots' \in [SlotIds -> ConnType \cup {NoConn}]
      /\ client' \in [Clients -> ClientType]
      /\ FreeListExact' /\ ClientsInv'
  BY <1>1, <1>3, <1>4, <1>5, ConnStep DEF slabVars, clientVars
<1>7. conn # NoConn /\ conn.state = StateAt["net_out"]
  BY <1>3, NoConnAssumption DEF StateAt
<1>8. queue' \in [Queues -> Seq(SlotIds)] /\ QueuedOnce' /\ QueuedInState' /\ LiveQueued'
  BY <1>1, <1>2, <1>3, <1>7, MoveKeepsQueues
<1>9. QueueLenExact'
  <2>1. Len(queue["encode"]) \in Nat /\ Len(queue["net_out"]) \in Nat
    BY <1>2, <1>4, QueueFacts
  <2>2. "encode" # "net_out"
    OBVIOUS
  <2>3. /\ Len(queue'["encode"]) = Len(queue["encode"]) - 1
        /\ Len(queue'["net_out"]) = Len(queue["net_out"]) + 1
        /\ \A t \in Queues \ {"encode", "net_out"} : Len(queue'[t]) = Len(queue[t])
    BY <1>1, <1>2, <1>3, <1>4, <2>2, MovedLens, Zenon
  <2>4. \A t \in {"parse", "route", "app"} : Len(queue'[t]) = Len(queue[t])
    BY <2>3 DEF Queues
  <2>5. queue_len' = queue_len
    BY <1>1
  <2>6. Len(queue["encode"]) + Len(queue["net_out"])
          = Len(queue'["encode"]) + Len(queue'["net_out"])
    <3>1. \A e, n \in Nat : e + n = (e - 1) + (n + 1)
      OBVIOUS
    <3>2. Len(queue["encode"]) + Len(queue["net_out"])
            = (Len(queue["encode"]) - 1) + (Len(queue["net_out"]) + 1)
      BY <2>1, <3>1, Zenon
    <3> QED BY <2>3, <3>2, Zenon
  <2> QED BY <1>4, <2>4, <2>5, <2>6 DEF QueueLenExact
<1>10. TypeOK'
  BY <1>1, <1>4, <1>6, <1>8 DEF TypeOK, slabVars, clientVars
<1> QED BY <1>6, <1>8, <1>9, <1>10 DEF IInv, ClientsInv

\* The client of a connection that NetOut writes to, after n more chunks.
Reached(conn, n) ==
    [client[conn.client] EXCEPT
        !.rcvd = IF client[conn.client].status = "open"
                 THEN @ \o SubSeq(conn.write_buf, conn.bytes_written + 1,
                                  conn.bytes_written + n)
                 ELSE @,
        !.unread = @ + n]

LEMMA DeliverFacts ==
    ASSUME IInv, Turn("net_out"),
           NEW n \in Nat, n <= Writable(Conn("net_out")), n <= Unsent(Conn("net_out"))
    PROVE  LET was == Conn("net_out")
               conn == [was EXCEPT !.bytes_written = @ + n]
               peer == Reached(was, n)
           IN  /\ Deliver(was, n) = [client EXCEPT ![was.client] = peer]
               /\ peer \in ClientType /\ Answered(peer)
               /\ peer.status = client[was.client].status
               /\ peer.status \in {"open", "left"}
               /\ conn \in ConnType /\ conn.client = was.client /\ conn.state = "Sending"
               /\ Served(conn, peer)
               /\ n = Unsent(was) /\ peer.status = "open" =>
                    peer.rcvd = ResponseOf(PromisedTo(peer.ask))
<1> DEFINE was == Conn("net_out")
           conn == [was EXCEPT !.bytes_written = @ + n]
           c == was.client
           peer == Reached(was, n)
           mine == was.write_buf
           k == was.bytes_written
<1>1. "net_out" \in Queues
  BY DEF Queues
<1>2. /\ was \in ConnType /\ was.state = "Sending" /\ c \in Clients
      /\ client[c] \in ClientType /\ Served(was, client[c])
  BY <1>1, TurnFacts DEF StateAt
<1>3. client \in [Clients -> ClientType] /\ ResponseIntegrity
  BY DEF IInv, TypeOK
<1>4. n <= was.bytes_written + n /\ Unsent(was) = Len(mine) - k
  BY <1>2 DEF Unsent, ConnType
<1>5. n <= SendBuffer - client[c].unread
  <2>1. Writable(was) = IF Unsent(was) <= SendBuffer - client[c].unread
                        THEN Unsent(was) ELSE SendBuffer - client[c].unread
    BY DEF Writable
  <2>2. n <= Writable(was) /\ n <= Unsent(was)
    OBVIOUS
  <2>3. client[c].unread \in Nat /\ SendBuffer \in Nat
    BY <1>2, ConnectionAssumption DEF ClientType
  <2>4. Unsent(was) \in Int
    <3>1. Len(mine) \in Nat /\ k \in Nat
      BY <1>2, LenProperties DEF ConnType
    <3> QED BY <3>1, <1>4
  <2> HIDE DEF was, c
  <2> QED BY <2>1, <2>2, <2>3, <2>4
<1> HIDE DEF was
<1>6. /\ mine = ResponseOf(PromisedTo(client[c].ask)) /\ k <= Len(mine)
      /\ client[c].status \in {"open", "left"}
      /\ client[c].status = "open" => client[c].rcvd = SubSeq(mine, 1, k)
  BY <1>2 DEF Served
<1>7. mine \in Seq(Chunks) /\ Len(mine) \in Nat /\ k \in 0 .. Len(mine)
      /\ k + n \in 0 .. Len(mine) /\ n \in 0 .. Len(mine) - k
  <2>1. mine \in Seq(Chunks) /\ k \in Nat
    BY <1>2 DEF ConnType
  <2>2. Len(mine) \in Nat
    BY <2>1, LenProperties
  <2>3. n <= Len(mine) - k
    BY <1>4 DEF was
  <2> QED BY <1>6, <2>1, <2>2, <2>3
<1>8. /\ SubSeq(mine, 1, k) \o SubSeq(mine, k + 1, k + n) = SubSeq(mine, 1, k + n)
      /\ SubSeq(mine, 1, k + n) \in Seq(Chunks)
      /\ IsPrefixOf(SubSeq(mine, 1, k + n), mine)
      /\ SubSeq(mine, 1, Len(mine)) = mine
  BY <1>7, PrefixFacts
<1>9. /\ peer = [client[c] EXCEPT !.rcvd = IF client[c].status = "open"
                                            THEN @ \o SubSeq(mine, k + 1, k + n) ELSE @,
                                  !.unread = @ + n]
      /\ Deliver(was, n) = [client EXCEPT ![c] = peer]
  BY <1>2, <1>3 DEF Reached, Deliver
<1> HIDE DEF peer, mine, k, c
<1>10. /\ peer.status = client[c].status /\ peer.ask = client[c].ask
       /\ peer.unread = client[c].unread + n
       /\ client[c].status = "open" => peer.rcvd = SubSeq(mine, 1, k + n)
       /\ client[c].status # "open" => peer.rcvd = client[c].rcvd
  BY <1>2, <1>6, <1>8, <1>9 DEF ClientType
<1>11. peer \in ClientType
  <2>1. peer.rcvd \in Seq(Chunks)
    BY <1>2, <1>8, <1>10 DEF ClientType
  <2>2. peer.unread \in 0 .. SendBuffer
    <3>1. client[c].unread \in 0 .. SendBuffer /\ SendBuffer \in Nat
      BY <1>2, ConnectionAssumption DEF ClientType
    <3> QED BY <1>5, <1>10, <3>1
  <2>3. \E rcvd \in Seq(Chunks), unread \in 0 .. SendBuffer :
          peer = [client[c] EXCEPT !.rcvd = rcvd, !.unread = unread]
    <3>1. peer = [client[c] EXCEPT !.rcvd = peer.rcvd, !.unread = peer.unread]
      BY <1>2, <1>9 DEF ClientType
    <3> QED BY <2>1, <2>2, <3>1
  <2> QED BY <1>2, <2>3 DEF ClientType
<1>12. Answered(client[c])
  BY <1>2, <1>3, IntegrityIsAnswered DEF c
<1>13. Answered(peer)
  BY <1>6, <1>8, <1>10, <1>12 DEF Answered
<1>14. /\ conn \in ConnType /\ conn.client = c /\ conn.state = "Sending"
       /\ conn.write_buf = mine /\ conn.bytes_written = k + n
  BY <1>2 DEF ConnType, c, mine, k
<1> HIDE DEF conn
<1>15. Served(conn, peer)
  BY <1>6, <1>7, <1>10, <1>14 DEF Served
<1>16. n = Unsent(was) /\ peer.status = "open" => peer.rcvd = ResponseOf(PromisedTo(peer.ask))
  <2>1. ASSUME n = Unsent(was) PROVE k + n = Len(mine)
    BY <1>4, <1>7, <2>1
  <2> QED BY <1>6, <1>8, <1>10, <2>1
<1> QED BY <1>6, <1>9, <1>10, <1>11, <1>13, <1>14, <1>15, <1>16 DEF conn, peer, c, was

LEMMA NetOutPartialStep ==
    ASSUME IInv, EnoughRoom, NetOutPartial
    PROVE  IInv'
<1> DEFINE was == Conn("net_out")
<1>1. /\ Turn("net_out") /\ Move("net_out", "net_out") /\ CountMove("net_out", "net_out")
      /\ total_conns' = total_conns /\ total_requests' = total_requests
      /\ UNCHANGED <<free_list, backlog, errors>>
  BY DEF NetOutPartial
<1>2. PICK n \in 0 .. SendBuffer : WritesPart(was, n)
  BY DEF NetOutPartial
<1>3. "net_out" \in Queues \ {"encode"} /\ "net_out" \in Queues
  BY DEF Queues
<1>4. /\ queue["net_out"] # <<>> /\ Id("net_out") \in SlotIds /\ slots[Id("net_out")] # NoConn
      /\ was = slots[Id("net_out")] /\ was \in ConnType
  BY <1>1, <1>3, TurnFacts
<1> DEFINE conn == [was EXCEPT !.bytes_written = @ + n]
           peer == Reached(was, n)
<1>5. n \in Nat /\ n <= Writable(was) /\ n <= Unsent(was)
  <2>1. n = Writable(was) /\ n < Unsent(was) /\ n \in Int
    BY <1>2 DEF WritesPart
  <2>2. n \in Nat /\ SendBuffer \in Nat
    BY <1>2, ConnectionAssumption
  <2>3. Unsent(was) \in Int
    <3>1. Len(was.write_buf) \in Nat /\ was.bytes_written \in Nat
      BY <1>4, LenProperties DEF ConnType
    <3> QED BY <3>1 DEF Unsent
  <2> HIDE DEF was
  <2> QED BY <2>1, <2>2, <2>3
<1>6. /\ Deliver(was, n) = [client EXCEPT ![was.client] = peer]
      /\ peer \in ClientType /\ Answered(peer)
      /\ conn \in ConnType /\ conn.client = was.client /\ conn.state = "Sending"
      /\ Served(conn, peer)
  BY <1>1, <1>5, DeliverFacts
<1>7. /\ client' = [client EXCEPT ![conn.client] = peer]
      /\ slots' = [slots EXCEPT ![Id("net_out")] = conn]
  BY <1>2, <1>4, <1>6 DEF WritesPart
<1> HIDE DEF conn, peer, was
<1>8. /\ TypeOK
      /\ left' \in 0 .. Batch /\ active' = active /\ accepted' = accepted
  BY <1>1, <1>3, LoopFacts DEF IInv
<1>9. /\ slots' \in [SlotIds -> ConnType \cup {NoConn}]
      /\ client' \in [Clients -> ClientType]
      /\ FreeListExact' /\ ClientsInv'
  BY <1>1, <1>4, <1>6, <1>7, <1>8, ConnStep
<1>10. conn # NoConn /\ conn.state = StateAt["net_out"]
  BY <1>6, NoConnAssumption DEF StateAt
<1>11. queue' \in [Queues -> Seq(SlotIds)] /\ QueuedOnce' /\ QueuedInState' /\ LiveQueued'
  BY <1>1, <1>3, <1>7, <1>10, MoveKeepsQueues
<1>12. queue_len' \in [Queues \ {"encode"} -> Int] /\ QueueLenExact'
  BY <1>1, <1>3, <1>4, CountedMove
<1>13. TypeOK'
  BY <1>1, <1>8, <1>9, <1>11, <1>12 DEF TypeOK
<1> QED BY <1>9, <1>11, <1>12, <1>13 DEF IInv, ClientsInv

\* NetOut frees a slot.
LEMMA GoneStep ==
    ASSUME IInv, Turn("net_out"), Drop("net_out"), Remove(Id("net_out")),
           NEW peer \in ClientType, peer.status # "new", Answered(peer),
           client' = [client EXCEPT ![Conn("net_out").client] = peer],
           total_conns' = total_conns - 1, total_requests' = total_requests,
           errors' \in [{"parse", "net_out"} -> Nat], backlog' = backlog
    PROVE  IInv'
<1>1. "net_out" \in Queues \ {"encode"} /\ "net_out" \in Queues
  BY DEF Queues
<1>2. /\ queue["net_out"] # <<>> /\ Id("net_out") \in SlotIds /\ slots[Id("net_out")] # NoConn
      /\ Conn("net_out") = slots[Id("net_out")]
  BY <1>1, TurnFacts
<1>3. /\ TypeOK
      /\ left' \in 0 .. Batch /\ active' = active /\ accepted' = accepted
  BY <1>1, LoopFacts DEF IInv
<1>4. /\ slots' \in [SlotIds -> ConnType \cup {NoConn}]
      /\ free_list' \in Seq(SlotIds)
      /\ client' \in [Clients -> ClientType]
      /\ FreeListExact' /\ ClientsInv'
  BY <1>2, <1>3, ConnGone
<1>5. ~Live(NoConn) /\ slots' = [slots EXCEPT ![Id("net_out")] = NoConn]
  BY DEF Live, Remove
<1>6. queue' \in [Queues -> Seq(SlotIds)] /\ QueuedOnce' /\ QueuedInState' /\ LiveQueued'
  BY <1>1, <1>5, DropKeepsQueues DEF Drop
<1>7. queue_len' \in [Queues \ {"encode"} -> Int] /\ QueueLenExact'
  BY <1>1, <1>2, CountedDrop
<1>8. TypeOK'
  BY <1>3, <1>4, <1>6, <1>7 DEF TypeOK
<1> QED BY <1>4, <1>6, <1>7, <1>8 DEF IInv, ClientsInv

\* The whole response is out when the socket is closed.
LEMMA NetOutSentStep ==
    ASSUME IInv, NetOutSent
    PROVE  IInv'
<1> DEFINE was == Conn("net_out")
           n == Unsent(was)
           reached == Reached(was, n)
           peer == [reached EXCEPT !.status = IF @ = "open" THEN "closed" ELSE @]
<1>1. /\ Turn("net_out") /\ Drop("net_out") /\ Remove(Id("net_out"))
      /\ Writable(was) = n
      /\ client' = [Deliver(was, n) EXCEPT
                      ![was.client].status = IF @ = "open" THEN "closed" ELSE @]
      /\ total_conns' = total_conns - 1 /\ total_requests' = total_requests
      /\ UNCHANGED <<backlog, errors>>
  BY DEF NetOutSent
<1>2. "net_out" \in Queues
  BY DEF Queues
<1>3. /\ was \in ConnType /\ was.state = "Sending" /\ was.client \in Clients
      /\ Served(was, client[was.client])
  BY <1>1, <1>2, TurnFacts DEF StateAt
<1>4. n \in Nat /\ n <= Writable(was) /\ n <= Unsent(was)
  <2>1. Len(was.write_buf) \in Nat /\ was.bytes_written \in Nat
    BY <1>3, LenProperties DEF ConnType
  <2>2. was.bytes_written <= Len(was.write_buf)
    BY <1>3 DEF Served
  <2>3. n \in Nat
    BY <2>1, <2>2 DEF Unsent
  <2> HIDE DEF n
  <2> QED BY <1>1, <2>3 DEF n
<1>5. /\ Deliver(was, n) = [client EXCEPT ![was.client] = reached]
      /\ reached \in ClientType /\ Answered(reached)
      /\ reached.status \in {"open", "left"}
      /\ reached.status = "open" => reached.rcvd = ResponseOf(PromisedTo(reached.ask))
  BY <1>1, <1>4, DeliverFacts
<1>6. /\ client \in [Clients -> ClientType] /\ errors \in [{"parse", "net_out"} -> Nat]
  BY DEF IInv, TypeOK
<1> HIDE DEF reached, n
<1>7. client' = [client EXCEPT ![was.client] = peer]
  BY <1>1, <1>3, <1>5, <1>6
<1>8. /\ peer \in ClientType /\ peer.status # "new"
      /\ peer.ask = reached.ask /\ peer.rcvd = reached.rcvd
      /\ peer.status = "closed" => reached.status = "open"
  BY <1>5 DEF ClientType
<1>9. Answered(peer)
  BY <1>5, <1>8 DEF Answered
<1> HIDE DEF peer
<1> QED BY <1>1, <1>6, <1>7, <1>8, <1>9, GoneStep

LEMMA NetOutErrorStep ==
    ASSUME IInv, NetOutError
    PROVE  IInv'
<1> DEFINE c == Conn("net_out").client
<1>1. /\ Turn("net_out") /\ Drop("net_out") /\ Remove(Id("net_out"))
      /\ client[c].status = "left" /\ client' = client
      /\ total_conns' = total_conns - 1 /\ total_requests' = total_requests
      /\ backlog' = backlog
      /\ errors' = [errors EXCEPT !["net_out"] = @ + 1]
  BY DEF NetOutError, clientVars
<1>2. "net_out" \in Queues
  BY DEF Queues
<1>3. c \in Clients /\ client[c] \in ClientType
  BY <1>1, <1>2, TurnFacts
<1>4. Answered(client[c]) /\ client' = [client EXCEPT ![c] = client[c]]
  BY <1>1, <1>3, IntegrityIsAnswered DEF IInv, TypeOK
<1>5. errors' \in [{"parse", "net_out"} -> Nat]
  BY <1>1 DEF IInv, TypeOK
<1> QED BY <1>1, <1>3, <1>4, <1>5, GoneStep

-----------------------------------------------------------------------------
(* The other steps. *)

\* A step that touches neither the slab nor the queues.
LEMMA QueuesStay ==
    ASSUME IInv, UNCHANGED <<slots, queue, queue_len>>
    PROVE  /\ QueuedOnce' /\ QueuedInState' /\ LiveQueued' /\ QueueLenExact'
<1>1. QueuedOnce'
  BY DEF IInv, QueuedOnce
<1>2. QueuedInState'
  BY DEF IInv, QueuedInState
<1>3. LiveQueued'
  BY DEF IInv, LiveQueued, Live, InQueue
<1>4. QueueLenExact'
  BY DEF IInv, QueueLenExact
<1> QED BY <1>1, <1>2, <1>3, <1>4

LEMMA NetInSteps ==
    ASSUME IInv, EnoughRoom,
           NetInStage \/ \E n \in 0 .. Len(backlog) : AcceptAll(n)
    PROVE  IInv'
<1>1. TypeOK
  BY DEF IInv
<1>2. CASE InsertConn
  <2>1. /\ slots' \in [SlotIds -> ConnType \cup {NoConn}]
        /\ free_list' \in Seq(SlotIds) /\ accepted' \in Seq(Clients)
        /\ FreeListExact' /\ ClientsInv'
    BY <1>2, InsertStep
  <2>2. /\ queue' \in [Queues -> Seq(SlotIds)]
        /\ QueuedOnce' /\ QueuedInState' /\ LiveQueued'
        /\ queue_len' \in [Queues \ {"encode"} -> Int] /\ QueueLenExact'
    BY <1>2, InsertQueues
  <2>3. TypeOK'
    BY <1>1, <1>2, <2>1, <2>2 DEF TypeOK, InsertConn, clientVars
  <2> QED BY <2>1, <2>2, <2>3 DEF IInv, ClientsInv
<1>3. CASE RefuseConn
  <2>1. /\ accepted' \in Seq(Clients) /\ client' \in [Clients -> ClientType] /\ ClientsInv'
    BY <1>3, RefuseStep
  <2>2. QueuedOnce' /\ QueuedInState' /\ LiveQueued' /\ QueueLenExact'
    BY <1>3, QueuesStay DEF RefuseConn, slabVars
  <2>3. FreeListExact' /\ TypeOK'
    BY <1>1, <1>3, <2>1 DEF IInv, FreeListExact, TypeOK, RefuseConn, slabVars
  <2> QED BY <2>1, <2>2, <2>3 DEF IInv, ClientsInv
<1>4. ASSUME NEW n \in 0 .. Len(backlog), AcceptAll(n)
      PROVE  IInv'
  <2>1. accepted' \in Seq(Clients) /\ backlog' \in Seq(Clients) /\ ClientsInv'
    BY <1>4, AcceptStep
  <2>2. QueuedOnce' /\ QueuedInState' /\ LiveQueued' /\ QueueLenExact'
    BY <1>4, QueuesStay DEF AcceptAll, slabVars
  <2>3. FreeListExact' /\ TypeOK'
    BY <1>1, <1>4, <2>1 DEF IInv, FreeListExact, TypeOK, AcceptAll, slabVars, Stages
  <2> QED BY <2>1, <2>2, <2>3 DEF IInv, ClientsInv
<1> QED BY <1>2, <1>3, <1>4 DEF NetInStage

LEMMA LoopSteps ==
    ASSUME IInv, Return \/ \E s \in Queues : Begin(s)
    PROVE  IInv'
<1>1. /\ UNCHANGED <<slots, free_list, queue, accepted, backlog, client,
                     total_conns, total_requests, queue_len, errors>>
      /\ active' \in Stages \cup {Idle} /\ left' \in 0 .. Batch
      /\ accepted' = <<>>
  <2>1. CASE Return
    <3>1. accepted = <<>>
      BY <2>1 DEF Return, IInv, WaitsOnce
    <3> QED BY <2>1, <3>1, Phase1Assumption DEF Return, slabVars, clientVars
  <2>2. CASE \E s \in Queues : Begin(s)
    <3>1. PICK s \in Queues : Begin(s)
      BY <2>2
    <3>2. accepted = <<>>
      BY <3>1, Phase1Assumption DEF Begin, IInv, WaitsOnce, Stages
    <3> QED BY <3>1, <3>2, Phase1Assumption DEF Begin, slabVars, clientVars, Stages
  <2> QED BY <2>1, <2>2
<1>2. TypeOK'
  BY <1>1 DEF IInv, TypeOK
<1>3. WaitsOnce'
  BY <1>1 DEF IInv, WaitsOnce
<1>4. QueuedOnce' /\ QueuedInState' /\ LiveQueued' /\ QueueLenExact'
  BY <1>1, QueuesStay
<1>5. FreeListExact' /\ ConnsServed' /\ OneSlot' /\ WaitersFresh' /\ NewComers'
      /\ ResponseIntegrity'
  BY <1>1 DEF IInv, FreeListExact, ConnsServed, OneSlot, WaitersFresh, Fresh, NewComers,
     ResponseIntegrity
<1> QED BY <1>2, <1>3, <1>4, <1>5 DEF IInv

LEMMA EnvironmentSteps ==
    ASSUME IInv, Environment
    PROVE  IInv'
<1>1. /\ TypeOK
      /\ UNCHANGED <<slots, free_list, queue, active, left, accepted,
                     total_conns, total_requests, queue_len, errors>>
  BY DEF IInv, Environment, Connect, Send, Read, Leave, ClientStep, slabVars, loopVars
<1>2. client' \in [Clients -> ClientType] /\ backlog' \in Seq(Clients) /\ ClientsInv'
  <2>1. PICK c \in Clients :
          (\E ask \in Asks : Connect(c, ask)) \/ Send(c) \/ Read(c) \/ Leave(c)
    BY DEF Environment
  <2>2. client[c] \in ClientType
    BY <1>1 DEF TypeOK
  <2>3. CASE \E ask \in Asks : Connect(c, ask)
    BY <2>3, ConnectStep
  <2>4. CASE Send(c)
    <3> DEFINE peer == [client[c] EXCEPT !.sent = @ + 1]
    <3>1. client[c].status = "open" /\ client' = [client EXCEPT ![c] = peer]
          /\ client[c].sent < Segments /\ backlog' = backlog
      BY <2>4 DEF Send, ClientStep
    <3>2. peer \in ClientType /\ peer.status = "open"
          /\ peer.ask = client[c].ask /\ peer.rcvd = client[c].rcvd
      BY <2>2, <3>1, ConnectionAssumption DEF ClientType
    <3> HIDE DEF peer
    <3> QED BY <1>1, <3>1, <3>2, PeerStep DEF slabVars, TypeOK
  <2>5. CASE Read(c)
    <3> DEFINE peer == [client[c] EXCEPT !.unread = 0]
    <3>1. client[c].status = "open" /\ client' = [client EXCEPT ![c] = peer]
          /\ backlog' = backlog
      BY <2>5 DEF Read, ClientStep
    <3>2. peer \in ClientType /\ peer.status = "open"
          /\ peer.ask = client[c].ask /\ peer.rcvd = client[c].rcvd
      BY <2>2, <3>1, ConnectionAssumption DEF ClientType
    <3> HIDE DEF peer
    <3> QED BY <1>1, <3>1, <3>2, PeerStep DEF slabVars, TypeOK
  <2>6. CASE Leave(c)
    <3> DEFINE peer == [client[c] EXCEPT !.status = "left"]
    <3>1. client[c].status = "open" /\ client' = [client EXCEPT ![c] = peer]
          /\ backlog' = backlog
      BY <2>6 DEF Leave, ClientStep
    <3>2. peer \in ClientType /\ peer.status = "left"
          /\ peer.ask = client[c].ask /\ peer.rcvd = client[c].rcvd
      BY <2>2, <3>1 DEF ClientType
    <3> HIDE DEF peer
    <3> QED BY <1>1, <3>1, <3>2, PeerStep DEF slabVars, TypeOK
  <2> QED BY <2>1, <2>3, <2>4, <2>5, <2>6
<1>3. QueuedOnce' /\ QueuedInState' /\ LiveQueued' /\ QueueLenExact'
  BY <1>1, QueuesStay
<1>4. FreeListExact' /\ TypeOK'
  BY <1>1, <1>2 DEF IInv, FreeListExact, TypeOK
<1> QED BY <1>2, <1>3, <1>4 DEF IInv, ClientsInv

-----------------------------------------------------------------------------
(* The theorems. *)

LEMMA InitIInv == Init => IInv
<1> SUFFICES ASSUME Init PROVE IInv
  OBVIOUS
<1>1. free_list \in Seq(SlotIds) /\ FreeListExact
  BY SlabInitFacts DEF Init
<1>2. /\ \A id \in SlotIds : slots[id] = NoConn
      /\ slots \in [SlotIds -> ConnType \cup {NoConn}]
  BY DEF Init, SlabInit
<1>3. /\ queue = [s \in Queues |-> <<>>] /\ accepted = <<>> /\ backlog = <<>>
      /\ active = Idle /\ left = 0 /\ total_conns = 0 /\ total_requests = 0
      /\ queue_len = [s \in Queues \ {"encode"} |-> 0]
      /\ errors = [s \in {"parse", "net_out"} |-> 0]
      /\ client = [c \in Clients |-> [status |-> "new", ask |-> None, sent |-> 0,
                                      rcvd |-> <<>>, unread |-> 0]]
  BY DEF Init
<1>4. \A c \in Clients : /\ client[c] \in ClientType /\ client[c].rcvd = <<>>
                         /\ client[c].status = "new"
  BY <1>3, ConnectionAssumption, EmptySeq DEF ClientType
<1>5. TypeOK
  <2>1. client \in [Clients -> ClientType]
    BY <1>3, <1>4
  <2>2. /\ queue \in [Queues -> Seq(SlotIds)] /\ accepted \in Seq(Clients)
        /\ backlog \in Seq(Clients)
    BY <1>3, EmptySeq
  <2>3. left \in 0 .. Batch
    BY <1>3, Phase1Assumption
  <2> QED BY <1>1, <1>2, <1>3, <2>1, <2>2, <2>3 DEF TypeOK
<1>6. QueuedOnce /\ QueuedInState /\ LiveQueued
  BY <1>2, <1>3 DEF QueuedOnce, QueuedInState, LiveQueued, Live
<1>7. QueueLenExact
  <2>1. \A s \in Queues : Len(queue[s]) = 0
    BY <1>3
  <2>2. \A s \in Queues \ {"encode"} : queue_len[s] = 0
    BY <1>3
  <2>3. /\ Len(queue["encode"]) = 0 /\ Len(queue["net_out"]) = 0
        /\ queue_len["net_out"] = 0
        /\ \A s \in {"parse", "route", "app"} : Len(queue[s]) = 0 /\ queue_len[s] = 0
    BY <2>1, <2>2 DEF Queues
  <2> QED BY <2>3 DEF QueueLenExact
<1>8. ConnsServed /\ OneSlot
  BY <1>2 DEF ConnsServed, OneSlot
<1>9. WaitsOnce /\ WaitersFresh /\ NewComers
  BY <1>3, <1>4 DEF WaitsOnce, WaitersFresh, NewComers
<1>10. ResponseIntegrity
  BY <1>4, IntegrityIsAnswered, EmptyIsAnswered
<1> QED BY <1>1, <1>5, <1>6, <1>7, <1>8, <1>9, <1>10 DEF IInv

LEMMA NextIInv ==
    ASSUME EnoughRoom, IInv, [Next]_vars
    PROVE  IInv'
<1>1. CASE NetInStage \/ \E n \in 0 .. Len(backlog) : AcceptAll(n)
  BY <1>1, NetInSteps
<1>2. CASE Return \/ \E s \in Queues : Begin(s)
  BY <1>2, LoopSteps
<1>3. CASE ParseStage
  BY <1>3, ParseRequestStep, ParseIncompleteStep, ParseInvalidStep DEF ParseStage
<1>4. CASE RouteStage
  BY <1>4, RouteStep
<1>5. CASE AppStage
  BY <1>5, AppStep
<1>6. CASE EncodeStage
  BY <1>6, EncodeStep
<1>7. CASE NetOutStage
  BY <1>7, NetOutSentStep, NetOutPartialStep, NetOutErrorStep DEF NetOutStage
<1>8. CASE Environment
  BY <1>8, EnvironmentSteps
<1>9. CASE UNCHANGED vars
  <2>1. UNCHANGED <<slots, free_list, queue, active, left, accepted, backlog, client,
                    total_conns, total_requests, queue_len, errors>>
    BY <1>9 DEF vars, slabVars, loopVars, clientVars
  <2>2. QueuedOnce' /\ QueuedInState' /\ LiveQueued' /\ QueueLenExact'
    BY <2>1, QueuesStay
  <2>3. TypeOK' /\ FreeListExact'
    BY <2>1 DEF IInv, TypeOK, FreeListExact
  <2>4. ConnsServed' /\ OneSlot' /\ WaitsOnce'
    BY <2>1 DEF IInv, ConnsServed, OneSlot, WaitsOnce
  <2>5. WaitersFresh' /\ NewComers' /\ ResponseIntegrity'
    BY <2>1 DEF IInv, WaitersFresh, Fresh, NewComers, ResponseIntegrity
  <2> QED BY <2>2, <2>3, <2>4, <2>5 DEF IInv
<1> QED BY <1>1, <1>2, <1>3, <1>4, <1>5, <1>6, <1>7, <1>8, <1>9 DEF Next, Server

\* While a queue has room for every slot, the inductive invariant holds: it ties
\* each queue to the lifecycle state of its connections, each connection to its
\* client, and each client to one slot or one place in a waiting line.
THEOREM Invariance == EnoughRoom => (Spec => []IInv)
<1> SUFFICES ASSUME EnoughRoom PROVE Spec => []IInv
  OBVIOUS
<1>1. IInv /\ [Next]_vars => IInv'
  BY NextIInv
<1> QED BY InitIInv, <1>1, PTL DEF Spec

\* Type correctness of the single-threaded stages.
THEOREM TypeCorrect == EnoughRoom => (Spec => []TypeOK)
<1>1. IInv => TypeOK
  BY DEF IInv
<1> QED BY Invariance, <1>1, PTL

\* The lengths that the stages count are those of their queues, for every number
\* of slots, turns and clients.
THEOREM LengthsStayExact == EnoughRoom => (Spec => []QueueLenExact)
<1>1. IInv => QueueLenExact
  BY DEF IInv
<1> QED BY Invariance, <1>1, PTL

\* Every client receives the beginning of the response to its own request, and
\* all of it before its socket is closed, however the stages are interleaved with
\* the clients and however often a write is cut short.
THEOREM ResponsesStayWhole == EnoughRoom => (Spec => []ResponseIntegrity)
<1>1. IInv => ResponseIntegrity
  BY DEF IInv
<1> QED BY Invariance, <1>1, PTL

\* The places of an id: one when its connection lives, none otherwise.
LEMMA PlacesFacts == IInv /\ EnoughRoom => QueuedExactlyOnce
<1> SUFFICES ASSUME IInv, EnoughRoom, NEW id \in SlotIds
             PROVE  Cardinality(Places(id)) =
                      IF slots[id] = NoConn THEN 0
                      ELSE IF slots[id].state = "Closed" THEN 0 ELSE 1
  BY DEF QueuedExactlyOnce
<1>1. TypeOK /\ QueuedOnce /\ QueuedInState /\ LiveQueued
  BY DEF IInv
<1>2. \A s \in Queues : /\ Len(queue[s]) \in Nat /\ DOMAIN queue[s] = 1 .. Len(queue[s])
                        /\ queue[s] \in Seq(SlotIds)
  BY <1>1, QueueFacts
<1>3. CASE ~Live(slots[id])
  <2>1. \A s \in Queues : StateAt[s] # "Closed"
    BY DEF Queues, StateAt
  <2>2. \A s \in Queues : \A i \in DOMAIN queue[s] : queue[s][i] # id
    BY <1>1, <1>3, <2>1 DEF QueuedInState, Live
  <2>3. Places(id) = {}
    BY <1>2, <2>2 DEF Places
  <2> QED BY <1>3, <2>3, FS_EmptySet DEF Live
<1>4. CASE Live(slots[id])
  <2>1. PICK s \in Queues : InQueue(id, s)
    BY <1>1, <1>4 DEF LiveQueued
  <2>2. PICK i \in DOMAIN queue[s] : queue[s][i] = id
    BY <2>1 DEF InQueue
  <2>3. \A j, k \in DOMAIN queue[s] : queue[s][j] = queue[s][k] => j = k
    BY <1>1 DEF QueuedOnce
  <2>4. Len(queue[s]) <= QueueCapacity
    <3>1. CASE Len(queue[s]) > SlabCapacity
      <4> DEFINE n == Len(queue[s])
                 f == queue[s]
      <4>1. f \in [1 .. n -> SlotIds]
        BY <1>2, LenProperties
      <4>2. IsFiniteSet(1 .. n) /\ Cardinality(1 .. n) = n
        BY <1>2, FS_Interval
      <4> HIDE DEF f
      <4>3. \E j, k \in 1 .. n : j # k /\ f[j] = f[k]
        BY <3>1, <4>1, <4>2, Sizes, FS_PigeonHole
      <4> QED BY <1>2, <2>3, <4>3 DEF f
    <3>2. CASE ~(Len(queue[s]) > SlabCapacity)
      BY <1>2, <3>2, Sizes, Phase1Assumption DEF EnoughRoom
    <3> QED BY <3>1, <3>2
  <2>5. i \in 1 .. QueueCapacity /\ i <= Len(queue[s])
    BY <1>2, <2>2, <2>4, Phase1Assumption
  <2>6. <<s, i>> \in Places(id)
    BY <2>2, <2>5 DEF Places
  <2>7. \A p \in Places(id) : p = <<s, i>>
    <3> SUFFICES ASSUME NEW t \in Queues, NEW j \in 1 .. QueueCapacity,
                        j <= Len(queue[t]), queue[t][j] = id
                 PROVE  t = s /\ j = i
      BY DEF Places
    <3>1. j \in DOMAIN queue[t]
      BY <1>2
    <3> QED BY <1>1, <2>2, <3>1 DEF QueuedOnce
  <2>8. Places(id) = {<<s, i>>}
    BY <2>6, <2>7
  <2>9. Cardinality(Places(id)) = 1
    BY <2>8, FS_Singleton
  <2> QED BY <1>4, <2>9 DEF Live
<1> QED BY <1>3, <1>4

\* No requeue of a half-read request or a half-sent response loses or doubles its
\* id: a live connection is in exactly one queue, once, whatever the clients do.
THEOREM NeverLostOrDoubled == EnoughRoom => (Spec => []QueuedExactlyOnce)
<1> SUFFICES ASSUME EnoughRoom PROVE Spec => []QueuedExactlyOnce
  OBVIOUS
<1>1. Spec => []IInv
  BY Invariance
<1>2. IInv => QueuedExactlyOnce
  BY PlacesFacts
<1> QED BY <1>1, <1>2, PTL
=============================================================================
