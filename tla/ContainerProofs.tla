--------------------------- MODULE ContainerProofs ---------------------------
(***************************************************************************)
(* RingQueue, for every capacity and every set of ids: its invariant is    *)
(* inductive, the two threads never meet in a slot, the ring implements    *)
(* BoundedFifo, and len errs on the safe side.  ShardedSlab, for every     *)
(* number of cores, slots and nodes: free lists, counters and contents are *)
(* exact, and balancing finds room.                                        *)
(***************************************************************************)
EXTENDS RingQueueLen, ShardedSlab, DataFacts

(* Arithmetic of the ring.  The modulus is taken of at most 2 * Capacity - 1, *)
(* where it is a comparison and a subtraction.                                *)
LEMMA SuccFacts ==
    ASSUME NEW i \in Slots
    PROVE  /\ Succ(i) \in Slots
           /\ Succ(i) = IF i + 1 = Capacity THEN 0 ELSE i + 1
BY CapacityAssumption DEF Slots, Succ

\* Distances along the ring, and how a step of one end changes them.
LEMMA LenFacts ==
    ASSUME NEW i \in Slots, NEW j \in Slots
    PROVE  /\ LenOf(i, j) \in 0 .. Capacity - 1
           /\ LenOf(i, j) = 0 <=> i = j
           /\ LenOf(i, j) = Capacity - 1 <=> Succ(j) = i
           /\ LenOf(i, j) < Capacity - 1 => LenOf(i, Succ(j)) = LenOf(i, j) + 1
           /\ i # j => LenOf(Succ(i), j) = LenOf(i, j) - 1
BY SuccFacts, CapacityAssumption DEF Slots, LenOf

\* The slot of the k-th published id lies in the ring, k - 1 slots after head.
LEMMA SlotOfFacts ==
    ASSUME head \in Slots, tail \in Slots,
           NEW k \in 1 .. LenOf(head, tail)
    PROVE  /\ SlotOf(k) = IF head + k - 1 < Capacity
                          THEN head + k - 1 ELSE head + k - 1 - Capacity
           /\ SlotOf(k) \in Slots
           /\ LenOf(head, SlotOf(k)) = k - 1
<1>1. LenOf(head, tail) \in 0 .. Capacity - 1
  BY CapacityAssumption DEF Slots, LenOf
<1>2. SlotOf(k) = IF head + k - 1 < Capacity
                  THEN head + k - 1 ELSE head + k - 1 - Capacity
  BY <1>1, CapacityAssumption DEF Slots, SlotOf
<1> QED
  BY <1>1, <1>2, CapacityAssumption DEF Slots, LenOf

\* What a thread may still load after it has loaded the k-th store.
LEMMA SinceFacts ==
    ASSUME NEW S, NEW s \in Seq(S), NEW k \in DOMAIN s
    PROVE  /\ Since(k, s) \in Seq(S) \ {<<>>}
           /\ \A j \in DOMAIN Since(k, s) :
                /\ j \in Nat
                /\ k + j - 1 \in DOMAIN s
                /\ Since(k, s)[j] = s[k + j - 1]
<1>1. k \in 1 .. Len(s) /\ Len(s) \in Nat
  BY LenProperties
<1>2. /\ Since(k, s) \in Seq(S)
      /\ Len(Since(k, s)) = Len(s) - k + 1
      /\ \A j \in 1 .. Len(s) - k + 1 : Since(k, s)[j] = s[k + j - 1]
  BY <1>1, SubSeqProperties DEF Since
<1>3. DOMAIN Since(k, s) = 1 .. Len(s) - k + 1 /\ DOMAIN s = 1 .. Len(s)
  BY <1>2, LenProperties
<1> QED BY <1>1, <1>2, <1>3

\* What a thread may load after one more store.
LEMMA AppendFacts ==
    ASSUME NEW S, NEW s \in Seq(S), NEW e \in S
    PROVE  /\ Append(s, e) \in Seq(S) \ {<<>>}
           /\ Append(s, e)[Len(s) + 1] = e
           /\ \A j \in DOMAIN Append(s, e) :
                /\ j \in Nat
                /\ IF j \in DOMAIN s THEN Append(s, e)[j] = s[j]
                                     ELSE Append(s, e)[j] = e
           /\ \A j, k \in DOMAIN Append(s, e) :
                j <= k /\ k \in DOMAIN s => j \in DOMAIN s
<1>1. /\ Append(s, e) \in Seq(S) /\ Len(Append(s, e)) = Len(s) + 1
      /\ \A j \in 1 .. Len(s) : Append(s, e)[j] = s[j]
      /\ Append(s, e)[Len(s) + 1] = e
  BY AppendProperties
<1>2. Len(s) \in Nat /\ DOMAIN s = 1 .. Len(s)
      /\ DOMAIN Append(s, e) = 1 .. Len(s) + 1
  BY <1>1, LenProperties
<1> QED BY <1>1, <1>2

\* The first element of either.
LEMMA SinceFirst ==
    ASSUME NEW S, NEW s \in Seq(S), NEW k \in DOMAIN s
    PROVE  Since(k, s)[1] = s[k]
<1>1. k \in Nat /\ 1 \in DOMAIN Since(k, s)
  <2>1. Since(k, s) \in Seq(S) /\ Since(k, s) # <<>>
    BY SinceFacts
  <2>2. Len(Since(k, s)) \in Nat \ {0} /\ DOMAIN Since(k, s) = 1 .. Len(Since(k, s))
    BY <2>1, LenProperties, EmptySeq
  <2> QED BY <2>2, LenProperties
<1> QED BY <1>1, SinceFacts

LEMMA AppendFirst ==
    ASSUME NEW S, NEW s \in Seq(S), NEW e \in S, 1 \in DOMAIN s
    PROVE  Append(s, e)[1] = s[1]
BY AppendProperties, LenProperties

-----------------------------------------------------------------------------
(* The invariant. *)

Store == [tail : Slots, buffer : Contents]

\* There is always something to load, and all of it is of its type.
LEMMA Histories ==
    ASSUME TypeOK
    PROVE  /\ heads \in Seq(Slots) /\ 1 \in DOMAIN heads
           /\ \A k \in DOMAIN heads : k \in Nat /\ k >= 1 /\ heads[k] \in Slots
           /\ stores \in Seq(Store) /\ 1 \in DOMAIN stores
           /\ \A k \in DOMAIN stores :
                /\ k \in Nat /\ k >= 1
                /\ stores[k].tail \in Slots /\ stores[k].buffer \in Contents
<1>1. /\ heads \in Seq(Slots) /\ heads # <<>>
      /\ stores \in Seq(Store) /\ stores # <<>>
  BY DEF TypeOK, Store
<1>2. /\ DOMAIN heads = 1 .. Len(heads) /\ Len(heads) \in Nat \ {0}
      /\ DOMAIN stores = 1 .. Len(stores) /\ Len(stores) \in Nat \ {0}
  BY <1>1, LenProperties, EmptySeq
<1>3. /\ \A k \in DOMAIN heads : heads[k] \in Slots
      /\ \A k \in DOMAIN stores : stores[k] \in Store
  BY <1>1, <1>2, ElementOfSeq
<1> QED BY <1>1, <1>2, <1>3 DEF Store

LEMMA InitIInv == Init => IInv
<1> SUFFICES ASSUME Init PROVE IInv
  OBVIOUS
<1>1. head \in Slots /\ LenOf(head, head) = 0
  BY CapacityAssumption DEF Init, Slots, LenOf
<1>2. /\ [tail |-> tail, buffer |-> buffer] \in Store
      /\ tail = head /\ buffer \in Contents
  BY <1>1 DEF Init, Contents, Store
<1>3. /\ DOMAIN stores = {1} /\ stores[1].tail = head /\ stores[1].buffer = buffer
      /\ DOMAIN heads = {1} /\ heads[1] = head
  BY <1>2 DEF Init
<1>4. TypeOK
  <2>1. stores \in Seq(Store) /\ stores # <<>>
    BY <1>2 DEF Init
  <2> QED BY <1>1, <1>2, <2>1 DEF Init, TypeOK, Answers, Store
<1>5. HeadsInv /\ StoresInv
  BY <1>1, <1>2, <1>3 DEF HeadsInv, StoresInv
<1>6. ProducerInv /\ ConsumerInv
  BY DEF Init, ProducerInv, ConsumerInv
<1>7. PublishedInv
  <2>1. ASSUME NEW i \in Slots PROVE ~(LenOf(head, i) < 0)
    BY <1>1, LenFacts, CapacityAssumption
  <2> QED BY <1>1, <1>2, <2>1 DEF PublishedInv
<1> QED BY <1>4, <1>5, <1>6, <1>7 DEF IInv

LEMMA TypeOKStep == IInv /\ [Next]_vars => TypeOK'
<1> SUFFICES ASSUME IInv, [Next]_vars PROVE TypeOK'
  OBVIOUS
<1> USE DEF IInv, TypeOK, Answers
<1>1. ASSUME NEW id \in Ids, PushLoadTail(id) PROVE TypeOK'
  BY <1>1 DEF PushLoadTail, memory, consumerVars
<1>2. ASSUME NEW k \in DOMAIN heads, PushFull(k) \/ PushRoom(k) PROVE TypeOK'
  <2>1. heads' \in Seq(Slots) \ {<<>>}
    BY <1>2, SinceFacts DEF PushFull, PushRoom, LoadHead
  <2>2. pid \in Ids
    BY <1>2 DEF PushFull, PushRoom, LoadHead, ProducerInv
  <2>3. put' \in Answers /\ ppc' \in {"idle", "slot"}
    <3>1. [id |-> pid, ok |-> FALSE] \in Answers
      BY <2>2
    <3>2. CASE PushFull(k)
      BY <3>1, <3>2 DEF PushFull
    <3>3. CASE PushRoom(k)
      BY <3>3 DEF PushRoom
    <3> QED BY <1>2, <3>2, <3>3
  <2>4. UNCHANGED <<buffer, head, tail, stores, pid, ptail, cpc, chead, cval, got>>
    BY <1>2 DEF PushFull, PushRoom, LoadHead, consumerVars
  <2> QED BY <2>1, <2>3, <2>4
<1>3. CASE PushStoreSlot
  <2>1. buffer' \in Contents
    BY <1>3 DEF PushStoreSlot, ProducerInv, Contents
  <2>2. stores' \in Seq(Store) \ {<<>>}
    BY <1>3, <2>1, AppendFacts DEF PushStoreSlot, Store
  <2> QED BY <1>3, <2>1, <2>2 DEF PushStoreSlot, consumerVars, Store
<1>4. CASE PushStoreTail
  <2>1. tail' \in Slots
    BY <1>4, SuccFacts DEF PushStoreTail
  <2>2. stores' \in Seq(Store) \ {<<>>}
    BY <1>4, <2>1, AppendFacts DEF PushStoreTail, Store
  <2> QED BY <1>4, <2>1, <2>2 DEF PushStoreTail, consumerVars, Store, ProducerInv
<1>5. CASE PopLoadHead
  BY <1>5 DEF PopLoadHead, memory, producerVars
<1>6. ASSUME NEW k \in DOMAIN stores, PopEmpty(k) \/ PopNonEmpty(k) PROVE TypeOK'
  <2>1. stores' \in Seq(Store) \ {<<>>}
    BY <1>6, SinceFacts DEF PopEmpty, PopNonEmpty, LoadStore, Store
  <2> QED BY <1>6, <2>1 DEF PopEmpty, PopNonEmpty, LoadStore, producerVars, Store
<1>7. ASSUME NEW k \in DOMAIN stores, PopLoadSlot(k) PROVE TypeOK'
  <2>1. stores' \in Seq(Store) \ {<<>>}
    BY <1>7, SinceFacts DEF PopLoadSlot, LoadStore, Store
  <2>2. stores[k].buffer \in Contents
    BY Histories
  <2>3. cval' \in Ids \cup {Empty}
    BY <1>7, <2>2 DEF PopLoadSlot, LoadStore, Contents
  <2> QED BY <1>7, <2>1, <2>3 DEF PopLoadSlot, LoadStore, producerVars, Store
<1>8. CASE PopStoreHead
  <2>1. cval \in Ids \cup {Empty}
    BY <1>8 DEF PopStoreHead, ConsumerInv, Contents
  <2>2. head' \in Slots /\ heads' \in Seq(Slots) \ {<<>>}
    BY <1>8, SuccFacts, AppendFacts DEF PopStoreHead
  <2> QED BY <1>8, <2>1, <2>2 DEF PopStoreHead, producerVars
<1>9. CASE UNCHANGED vars
  BY <1>9 DEF vars, memory
<1> QED
  BY <1>1, <1>2, <1>3, <1>4, <1>5, <1>6, <1>7, <1>8, <1>9 DEF Next, Producer, Consumer

\* Which steps leave the indices and the histories alone.
LEMMA QuietSteps ==
    ASSUME \/ \E id \in Ids : PushLoadTail(id)
           \/ PopLoadHead
           \/ UNCHANGED vars
    PROVE  UNCHANGED memory
BY DEF PushLoadTail, PopLoadHead, vars

\* The two steps that move an index, one slot along the ring.
LEMMA StoreTailFacts ==
    ASSUME IInv, PushStoreTail
    PROVE  /\ UNCHANGED <<buffer, head, heads>>
           /\ tail \in Slots /\ tail' \in Slots
           /\ \A k \in DOMAIN heads : LenOf(heads[k], tail') = LenOf(heads[k], tail) + 1
           /\ LenOf(head, tail') = LenOf(head, tail) + 1
           /\ stores' = Append(stores, [tail |-> tail', buffer |-> buffer])
           /\ ptail = tail /\ tail' = Succ(tail) /\ buffer[tail] = pid /\ pid \in Ids
<1> USE DEF IInv
<1>0. head \in Slots /\ tail \in Slots /\ 1 \in DOMAIN heads
      /\ \A k \in DOMAIN heads : heads[k] \in Slots
  BY Histories DEF TypeOK
<1>1. /\ tail' = Succ(tail) /\ UNCHANGED <<buffer, head, heads>>
      /\ \A k \in DOMAIN heads : LenOf(heads[k], tail) < Capacity - 1
  BY DEF PushStoreTail, ProducerInv
<1>2. \A k \in DOMAIN heads : LenOf(heads[k], tail') = LenOf(heads[k], tail) + 1
  BY <1>0, <1>1, LenFacts
<1>3. LenOf(head, tail) < Capacity - 1
  BY <1>0, <1>1, LenFacts, CapacityAssumption DEF HeadsInv
<1>4. LenOf(head, tail') = LenOf(head, tail) + 1
  BY <1>0, <1>1, <1>3, LenFacts
<1> QED BY <1>0, <1>1, <1>2, <1>4, SuccFacts DEF PushStoreTail, ProducerInv

LEMMA StoreHeadFacts ==
    ASSUME IInv, PopStoreHead
    PROVE  /\ UNCHANGED <<buffer, tail, stores>>
           /\ head \in Slots /\ head' \in Slots
           /\ \A k \in DOMAIN stores :
                stores[k].tail # head
                /\ LenOf(head', stores[k].tail) = LenOf(head, stores[k].tail) - 1
           /\ head # tail /\ LenOf(head', tail) = LenOf(head, tail) - 1
           /\ heads' = Append(heads, head')
           /\ head' = Succ(head) /\ cval = buffer[head]
<1> USE DEF IInv
<1>0. head \in Slots /\ tail \in Slots /\ 1 \in DOMAIN stores
      /\ \A k \in DOMAIN stores : stores[k].tail \in Slots
  BY Histories DEF TypeOK
<1>1. /\ head' = Succ(head) /\ UNCHANGED <<buffer, tail, stores>>
      /\ \A k \in DOMAIN stores : stores[k].tail # head
  BY DEF PopStoreHead, ConsumerInv
<1>2. \A k \in DOMAIN stores :
        LenOf(head', stores[k].tail) = LenOf(head, stores[k].tail) - 1
  BY <1>0, <1>1, LenFacts
<1>3. head # tail
  <2>1. LenOf(head, stores[1].tail) <= LenOf(head, tail)
    BY <1>0 DEF StoresInv
  <2> QED BY <1>0, <1>1, <2>1, LenFacts, CapacityAssumption
<1>4. LenOf(head', tail) = LenOf(head, tail) - 1
  BY <1>0, <1>1, <1>3, LenFacts
<1> QED BY <1>0, <1>1, <1>2, <1>3, <1>4, SuccFacts DEF PopStoreHead, ConsumerInv

\* A slot before t, seen from the slot after h, was before t seen from h.
LEMMA BeforeFacts ==
    ASSUME NEW h \in Slots, NEW t \in Slots, NEW i \in Slots, h # t,
           LenOf(Succ(h), i) < LenOf(Succ(h), t)
    PROVE  LenOf(h, i) < LenOf(h, t)
<1>1. /\ Succ(h) \in Slots /\ LenOf(Succ(h), t) = LenOf(h, t) - 1
      /\ LenOf(h, t) \in 0 .. Capacity - 1
  BY SuccFacts, LenFacts
<1>2. i # h
  BY <1>1, LenFacts, CapacityAssumption
<1>3. LenOf(Succ(h), i) = LenOf(h, i) - 1 /\ LenOf(h, i) \in 0 .. Capacity - 1
  BY <1>2, LenFacts
<1> QED BY <1>1, <1>3, CapacityAssumption

LEMMA HeadsInvStep == IInv /\ [Next]_vars => HeadsInv'
<1> SUFFICES ASSUME IInv, [Next]_vars PROVE HeadsInv'
  OBVIOUS
<1> USE DEF IInv
<1>0. /\ head \in Slots /\ tail \in Slots /\ heads \in Seq(Slots)
      /\ \A k \in DOMAIN heads : k \in Nat /\ heads[k] \in Slots
  BY Histories DEF TypeOK
<1>1. ASSUME UNCHANGED <<head, tail, heads>> PROVE HeadsInv'
  BY <1>1 DEF HeadsInv, LenOf
<1>2. ASSUME NEW k \in DOMAIN heads, PushFull(k) \/ PushRoom(k) PROVE HeadsInv'
  <2>1. UNCHANGED <<head, tail>> /\ heads' = Since(k, heads)
    BY <1>2 DEF PushFull, PushRoom, LoadHead
  <2>2. \A j \in DOMAIN heads' : /\ j \in Nat /\ k + j - 1 \in DOMAIN heads
                                /\ heads'[j] = heads[k + j - 1]
    BY <1>0, <2>1, SinceFacts
  <2> QED BY <1>0, <2>1, <2>2 DEF HeadsInv, LenOf
<1>3. CASE PushStoreTail
  \* Every distance to tail grows by one; none was the longest.
  <2>1. /\ \A k \in DOMAIN heads : LenOf(heads[k], tail) \in Nat
        /\ LenOf(head, tail) \in Nat
    BY <1>0, LenFacts
  <2> QED BY <1>3, <2>1, StoreTailFacts DEF HeadsInv
<1>4. CASE PopStoreHead
  <2>1. /\ tail' = tail /\ head' \in Slots /\ heads' = Append(heads, head')
        /\ LenOf(head', tail) = LenOf(head, tail) - 1
    BY <1>4, StoreHeadFacts
  <2>2. \A j \in DOMAIN heads' :
          IF j \in DOMAIN heads THEN heads'[j] = heads[j] ELSE heads'[j] = head'
    BY <1>0, <2>1, AppendFacts
  <2>3. \A j, k \in DOMAIN heads' : j <= k /\ k \in DOMAIN heads => j \in DOMAIN heads
    BY <1>0, <2>1, AppendFacts
  <2>4. /\ LenOf(head, tail) \in Nat /\ LenOf(head', tail) \in Nat
        /\ \A k \in DOMAIN heads : LenOf(heads[k], tail) \in Nat
    BY <1>0, <2>1, LenFacts
  <2>5. \A j \in DOMAIN heads' : LenOf(heads'[j], tail) >= LenOf(head', tail)
    BY <2>1, <2>2, <2>4 DEF HeadsInv
  <2>6. ASSUME NEW j \in DOMAIN heads', NEW k \in DOMAIN heads', j <= k
        PROVE  LenOf(heads'[j], tail) >= LenOf(heads'[k], tail)
    <3>1. CASE k \in DOMAIN heads
      BY <2>2, <2>3, <2>6, <3>1 DEF HeadsInv
    <3>2. CASE k \notin DOMAIN heads
      BY <2>2, <2>5, <3>2
    <3> QED BY <3>1, <3>2
  <2> QED BY <2>1, <2>5, <2>6 DEF HeadsInv
<1>5. CASE \/ PushStoreSlot
           \/ \E k \in DOMAIN stores : PopEmpty(k) \/ PopNonEmpty(k) \/ PopLoadSlot(k)
  BY <1>1, <1>5 DEF PushStoreSlot, PopEmpty, PopNonEmpty, PopLoadSlot, LoadStore
<1>6. ASSUME UNCHANGED memory PROVE HeadsInv'
  BY <1>1, <1>6 DEF memory
<1> QED
  BY <1>2, <1>3, <1>4, <1>5, <1>6, QuietSteps DEF Next, Producer, Consumer

LEMMA StoresInvStep == IInv /\ [Next]_vars => StoresInv'
<1> SUFFICES ASSUME IInv, [Next]_vars PROVE StoresInv'
  OBVIOUS
<1> USE DEF IInv
<1>0. /\ head \in Slots /\ tail \in Slots /\ stores \in Seq(Store)
      /\ buffer \in Contents
      /\ \A k \in DOMAIN stores : k \in Nat /\ stores[k].tail \in Slots
      /\ \A i \in Slots : LenOf(head, i) \in Nat
  <2>1. head \in Slots /\ tail \in Slots /\ buffer \in Contents
    BY DEF TypeOK
  <2>2. \A i \in Slots : LenOf(head, i) \in Nat
    BY <2>1, LenFacts, CapacityAssumption
  <2> QED BY <2>1, <2>2, Histories
<1>1. ASSUME UNCHANGED <<buffer, head, tail, stores>> PROVE StoresInv'
  BY <1>1 DEF StoresInv, LenOf
<1>2. ASSUME NEW k \in DOMAIN stores, LoadStore(k) PROVE StoresInv'
  <2>1. UNCHANGED <<buffer, head, tail>> /\ stores' = Since(k, stores)
    BY <1>2 DEF LoadStore
  <2>2. \A j \in DOMAIN stores' : /\ j \in Nat /\ k + j - 1 \in DOMAIN stores
                                 /\ stores'[j] = stores[k + j - 1]
    BY <1>0, <2>1, SinceFacts
  <2> QED BY <1>0, <2>1, <2>2 DEF StoresInv, LenOf
<1>3. ASSUME NEW e \in Store, stores' = Append(stores, e), head' = head,
             e.tail = tail', e.buffer = buffer', tail' \in Slots,
             LenOf(head, tail') >= LenOf(head, tail),
             \A i \in Slots : LenOf(head, i) < LenOf(head, tail)
                                => buffer'[i] = buffer[i]
      PROVE  StoresInv'
  <2>1. \A j \in DOMAIN stores' :
          IF j \in DOMAIN stores THEN stores'[j] = stores[j] ELSE stores'[j] = e
    BY <1>0, <1>3, AppendFacts
  <2>2. \A j, k \in DOMAIN stores' : j <= k /\ k \in DOMAIN stores => j \in DOMAIN stores
    BY <1>0, <1>3, AppendFacts
  <2>3. LenOf(head, tail') \in Nat
    BY <1>0, <1>3, LenFacts
  <2>4. ASSUME NEW k \in DOMAIN stores'
        PROVE  /\ LenOf(head, stores'[k].tail) <= LenOf(head, tail')
               /\ \A i \in Slots : LenOf(head, i) < LenOf(head, stores'[k].tail)
                                     => stores'[k].buffer[i] = buffer'[i]
    <3>1. CASE k \in DOMAIN stores
      <4>1. stores'[k] = stores[k] /\ LenOf(head, stores[k].tail) <= LenOf(head, tail)
        BY <2>1, <3>1 DEF StoresInv
      <4>2. \A i \in Slots : LenOf(head, i) < LenOf(head, stores[k].tail)
                               => stores[k].buffer[i] = buffer[i]
        BY <3>1 DEF StoresInv
      <4> QED BY <1>0, <1>3, <2>3, <3>1, <4>1, <4>2
    <3>2. CASE k \notin DOMAIN stores
      BY <1>3, <2>1, <2>3, <3>2
    <3> QED BY <3>1, <3>2
  <2>5. ASSUME NEW j \in DOMAIN stores', NEW k \in DOMAIN stores', j <= k
        PROVE  LenOf(head, stores'[j].tail) <= LenOf(head, stores'[k].tail)
    <3>1. CASE k \in DOMAIN stores
      BY <2>1, <2>2, <2>5, <3>1 DEF StoresInv
    <3>2. CASE k \notin DOMAIN stores
      BY <1>3, <2>1, <2>4, <3>2
    <3> QED BY <3>1, <3>2
  <2> QED BY <1>3, <2>4, <2>5 DEF StoresInv
<1>4. CASE PushStoreSlot
  <2>1. /\ UNCHANGED <<head, tail>> /\ buffer' = [buffer EXCEPT ![tail] = pid]
        /\ stores' = Append(stores, [tail |-> tail', buffer |-> buffer'])
        /\ pid \in Ids
    BY <1>4 DEF PushStoreSlot, ProducerInv
  <2>2. buffer' \in Contents
    BY <1>0, <2>1 DEF Contents
  <2>3. \A i \in Slots : LenOf(head, i) < LenOf(head, tail) => buffer'[i] = buffer[i]
    BY <1>0, <2>1 DEF Contents
  <2>4. [tail |-> tail', buffer |-> buffer'] \in Store
    BY <1>0, <2>1, <2>2 DEF Store
  <2>5. tail' \in Slots /\ LenOf(head, tail') >= LenOf(head, tail)
    BY <1>0, <2>1
  <2> QED BY <1>3, <2>1, <2>3, <2>4, <2>5
<1>5. CASE PushStoreTail
  <2>1. [tail |-> tail', buffer |-> buffer'] \in Store
    BY <1>0, <1>5, StoreTailFacts DEF Store
  <2> QED BY <1>0, <1>3, <1>5, <2>1, StoreTailFacts
<1>6. CASE PopStoreHead
  <2>1. \A k \in DOMAIN stores, i \in Slots :
          LenOf(head', i) < LenOf(head', stores[k].tail)
            => LenOf(head, i) < LenOf(head, stores[k].tail)
    BY <1>0, <1>6, StoreHeadFacts, BeforeFacts
  <2> QED BY <1>0, <1>6, <2>1, StoreHeadFacts DEF StoresInv
<1>7. CASE \E k \in DOMAIN stores : PopEmpty(k) \/ PopNonEmpty(k) \/ PopLoadSlot(k)
  BY <1>2, <1>7 DEF PopEmpty, PopNonEmpty, PopLoadSlot
<1>8. CASE \E k \in DOMAIN heads : PushFull(k) \/ PushRoom(k)
  BY <1>1, <1>8 DEF PushFull, PushRoom, LoadHead
<1>9. ASSUME UNCHANGED memory PROVE StoresInv'
  BY <1>1, <1>9 DEF memory
<1> QED
  BY <1>4, <1>5, <1>6, <1>7, <1>8, <1>9, QuietSteps DEF Next, Producer, Consumer

LEMMA ProducerInvStep == IInv /\ [Next]_vars => ProducerInv'
<1> SUFFICES ASSUME IInv, [Next]_vars PROVE ProducerInv'
  OBVIOUS
<1> USE DEF IInv
<1>0. /\ head \in Slots /\ tail \in Slots /\ heads \in Seq(Slots) /\ buffer \in Contents
      /\ \A k \in DOMAIN heads : k \in Nat /\ k >= 1 /\ heads[k] \in Slots
  BY Histories DEF TypeOK
<1>1. ASSUME NEW id \in Ids, PushLoadTail(id) PROVE ProducerInv'
  BY <1>1 DEF PushLoadTail, memory, ProducerInv
<1>2. ASSUME NEW k \in DOMAIN heads, PushFull(k) PROVE ProducerInv'
  BY <1>2 DEF PushFull, ProducerInv
<1>3. ASSUME NEW k \in DOMAIN heads, PushRoom(k) PROVE ProducerInv'
  <2>1. /\ ppc = "head" /\ ppc' = "slot" /\ heads' = Since(k, heads)
        /\ UNCHANGED <<tail, ptail, pid>> /\ Succ(ptail) # heads[k]
    BY <1>3 DEF PushRoom, LoadHead
  <2>2. ptail = tail /\ pid \in Ids
    BY <2>1 DEF ProducerInv
  \* The k-th value of head leaves room, so every later one does.
  <2>3. /\ LenOf(heads[k], tail) \in 0 .. Capacity - 1
        /\ LenOf(heads[k], tail) # Capacity - 1
    BY <1>0, <2>1, <2>2, LenFacts
  <2>4. ASSUME NEW j \in DOMAIN heads' PROVE LenOf(heads'[j], tail) < Capacity - 1
    <3>1. /\ k + j - 1 \in DOMAIN heads /\ heads'[j] = heads[k + j - 1]
          /\ k + j - 1 >= k
      <4>1. heads' \in Seq(Slots) /\ DOMAIN heads' = 1 .. Len(heads')
        BY <1>0, <2>1, SinceFacts, LenProperties
      <4>2. j >= 1 /\ j \in Nat
        BY <4>1
      <4> QED BY <1>0, <2>1, <4>2, SinceFacts
    <3>2. LenOf(heads[k], tail) >= LenOf(heads[k + j - 1], tail)
      BY <3>1 DEF HeadsInv
    <3>3. LenOf(heads[k + j - 1], tail) \in 0 .. Capacity - 1
      BY <1>0, <3>1, LenFacts
    <3> QED BY <2>3, <3>1, <3>2, <3>3, CapacityAssumption
  <2> QED BY <2>1, <2>2, <2>4 DEF ProducerInv
<1>4. CASE PushStoreSlot
  BY <1>0, <1>4 DEF PushStoreSlot, ProducerInv, Contents
<1>5. CASE PushStoreTail
  BY <1>5 DEF PushStoreTail, ProducerInv
<1>6. CASE PopStoreHead
  <2>1. \A j \in DOMAIN heads' :
          IF j \in DOMAIN heads THEN heads'[j] = heads[j] ELSE heads'[j] = head'
    BY <1>0, <1>6, StoreHeadFacts, AppendFacts
  <2>2. ppc \in {"slot", "tail"} => LenOf(head', tail) < Capacity - 1
    <3>1. LenOf(head, tail) \in 0 .. Capacity - 1
      BY <1>0, LenFacts
    <3> QED BY <1>6, <3>1, StoreHeadFacts, CapacityAssumption
  <2>3. UNCHANGED <<buffer, tail, ppc, pid, ptail>>
    BY <1>6 DEF PopStoreHead, producerVars
  <2> QED BY <2>1, <2>2, <2>3 DEF ProducerInv
<1>7. CASE PopLoadHead
  BY <1>7 DEF PopLoadHead, memory, producerVars, ProducerInv
<1>8. ASSUME NEW k \in DOMAIN stores, PopEmpty(k) \/ PopNonEmpty(k) \/ PopLoadSlot(k)
      PROVE  ProducerInv'
  <2>1. LoadStore(k)
    BY <1>8 DEF PopEmpty, PopNonEmpty, PopLoadSlot
  <2> QED BY <2>1 DEF LoadStore, producerVars, ProducerInv
<1>9. CASE UNCHANGED vars
  BY <1>9 DEF vars, memory, ProducerInv
<1> QED
  BY <1>1, <1>2, <1>3, <1>4, <1>5, <1>6, <1>7, <1>8, <1>9 DEF Next, Producer, Consumer

LEMMA ConsumerInvStep == IInv /\ [Next]_vars => ConsumerInv'
<1> SUFFICES ASSUME IInv, [Next]_vars PROVE ConsumerInv'
  OBVIOUS
<1> USE DEF IInv
<1>0. /\ head \in Slots /\ tail \in Slots /\ stores \in Seq(Store)
      /\ 1 \in DOMAIN stores /\ buffer \in Contents
      /\ \A k \in DOMAIN stores : k \in Nat /\ k >= 1 /\ stores[k].tail \in Slots
  BY Histories DEF TypeOK
<1>1. ASSUME UNCHANGED <<buffer, head, stores, cpc, chead, cval>> PROVE ConsumerInv'
  BY <1>1 DEF ConsumerInv
<1>2. CASE PopLoadHead
  BY <1>2 DEF PopLoadHead, memory, ConsumerInv
\* A load that finds the ring non-empty rules out the older tails that would not.
<1>3. ASSUME NEW k \in DOMAIN stores, LoadStore(k), stores[k].tail # head
      PROVE  /\ \A j \in DOMAIN stores' : stores'[j].tail # head
             /\ stores[k].buffer[head] = buffer[head]
  <2>1. LenOf(head, stores[k].tail) \in 0 .. Capacity - 1 /\ LenOf(head, stores[k].tail) # 0
    BY <1>0, <1>3, LenFacts
  <2>2. ASSUME NEW j \in DOMAIN stores' PROVE stores'[j].tail # head
    <3>1. /\ k + j - 1 \in DOMAIN stores /\ stores'[j] = stores[k + j - 1]
          /\ k + j - 1 >= k
      <4>1. stores' \in Seq(Store) /\ DOMAIN stores' = 1 .. Len(stores')
        BY <1>0, <1>3, SinceFacts, LenProperties DEF LoadStore
      <4>2. j >= 1 /\ j \in Nat
        BY <4>1
      <4> QED BY <1>0, <1>3, <4>2, SinceFacts DEF LoadStore
    <3>2. LenOf(head, stores[k].tail) <= LenOf(head, stores[k + j - 1].tail)
      BY <3>1 DEF StoresInv
    <3>3. LenOf(head, head) = 0
      BY <1>0, LenFacts
    <3> QED BY <2>1, <3>1, <3>2, <3>3, CapacityAssumption
  <2>3. LenOf(head, head) = 0
    BY <1>0, LenFacts
  <2>4. stores[k].buffer[head] = buffer[head]
    BY <1>0, <2>1, <2>3, CapacityAssumption DEF StoresInv
  <2> QED BY <2>2, <2>4
<1>4. ASSUME NEW k \in DOMAIN stores, PopNonEmpty(k) PROVE ConsumerInv'
  <2>1. LoadStore(k) /\ stores[k].tail # head /\ chead = head
    BY <1>4 DEF PopNonEmpty, ConsumerInv
  <2> QED BY <1>3, <1>4, <2>1 DEF PopNonEmpty, LoadStore, ConsumerInv
<1>5. ASSUME NEW k \in DOMAIN stores, PopLoadSlot(k) PROVE ConsumerInv'
  <2>1. LoadStore(k) /\ stores[k].tail # head /\ chead = head
    BY <1>5 DEF PopLoadSlot, ConsumerInv
  <2> QED BY <1>3, <1>5, <2>1 DEF PopLoadSlot, LoadStore, ConsumerInv
<1>6. ASSUME NEW k \in DOMAIN stores, PopEmpty(k) PROVE ConsumerInv'
  BY <1>6 DEF PopEmpty, ConsumerInv
<1>7. CASE PopStoreHead
  BY <1>7 DEF PopStoreHead, ConsumerInv
\* A store of push leaves the slot at head alone while pop is in it, and its tail
\* is not at head.
<1>8. ASSUME NEW e \in Store, stores' = Append(stores, e), head' = head,
             UNCHANGED <<cpc, chead, cval>>,
             cpc \in {"slot", "head"} => e.tail # head /\ buffer'[head] = buffer[head]
      PROVE  ConsumerInv'
  <2>1. \A j \in DOMAIN stores' :
          IF j \in DOMAIN stores THEN stores'[j] = stores[j] ELSE stores'[j] = e
    BY <1>0, <1>8, AppendFacts
  <2> QED BY <1>8, <2>1 DEF ConsumerInv
<1>9. cpc \in {"slot", "head"} => head # tail /\ LenOf(head, tail) \in Nat \ {0}
  <2>1. LenOf(head, stores[1].tail) <= LenOf(head, tail)
    BY <1>0 DEF StoresInv
  <2>2. LenOf(head, stores[1].tail) \in Nat /\ LenOf(head, tail) \in Nat
    BY <1>0, LenFacts, CapacityAssumption
  <2> QED BY <1>0, <2>1, <2>2, LenFacts DEF ConsumerInv
<1>10. CASE PushStoreSlot
  <2>1. /\ UNCHANGED <<head, tail>> /\ buffer' = [buffer EXCEPT ![tail] = pid]
        /\ stores' = Append(stores, [tail |-> tail, buffer |-> buffer'])
        /\ pid \in Ids /\ UNCHANGED <<cpc, chead, cval>>
    BY <1>10 DEF PushStoreSlot, ProducerInv, consumerVars
  <2>2. [tail |-> tail, buffer |-> buffer'] \in Store
    BY <1>0, <2>1 DEF Contents, Store
  <2>3. head # tail => buffer'[head] = buffer[head]
    BY <1>0, <2>1 DEF Contents
  <2> QED BY <1>8, <1>9, <2>1, <2>2, <2>3
<1>11. CASE PushStoreTail
  <2>1. UNCHANGED <<cpc, chead, cval>>
    BY <1>11 DEF PushStoreTail, consumerVars
  <2>2. [tail |-> tail', buffer |-> buffer] \in Store
    BY <1>0, <1>11, StoreTailFacts DEF Store
  <2>3. cpc \in {"slot", "head"} => tail' # head
    <3>1. LenOf(head, head) = 0
      BY <1>0, LenFacts
    <3> QED BY <1>9, <1>11, <3>1, StoreTailFacts
  <2> QED BY <1>8, <1>11, <2>1, <2>2, <2>3, StoreTailFacts
<1>12. ASSUME NEW id \in Ids, PushLoadTail(id) PROVE ConsumerInv'
  BY <1>1, <1>12 DEF PushLoadTail, memory, consumerVars
<1>13. ASSUME NEW k \in DOMAIN heads, PushFull(k) \/ PushRoom(k) PROVE ConsumerInv'
  BY <1>1, <1>13 DEF PushFull, PushRoom, LoadHead, consumerVars
<1>14. CASE UNCHANGED vars
  BY <1>1, <1>14 DEF vars, memory
<1> QED
  BY <1>2, <1>4, <1>5, <1>6, <1>7, <1>10, <1>11, <1>12, <1>13, <1>14
  DEF Next, Producer, Consumer

LEMMA PublishedInvStep == IInv /\ [Next]_vars => PublishedInv'
<1> SUFFICES ASSUME IInv, [Next]_vars PROVE PublishedInv'
  OBVIOUS
<1> USE DEF IInv
<1>0. head \in Slots /\ tail \in Slots /\ buffer \in Contents
      /\ \A i \in Slots : LenOf(head, i) \in Nat
  BY LenFacts, CapacityAssumption DEF TypeOK
<1>1. ASSUME UNCHANGED <<buffer, head, tail>> PROVE PublishedInv'
  BY <1>1 DEF PublishedInv, LenOf
<1>2. CASE PushStoreSlot
  <2>1. UNCHANGED <<head, tail>> /\ buffer' = [buffer EXCEPT ![tail] = pid] /\ pid \in Ids
    BY <1>2 DEF PushStoreSlot, ProducerInv
  <2>2. ASSUME NEW i \in Slots, LenOf(head, i) < LenOf(head, tail) PROVE buffer'[i] \in Ids
    BY <1>0, <2>1, <2>2 DEF Contents, PublishedInv
  <2> QED BY <2>1, <2>2 DEF PublishedInv, LenOf
<1>3. CASE PushStoreTail
  <2>1. ASSUME NEW i \in Slots, LenOf(head, i) < LenOf(head, tail')
        PROVE  buffer[i] \in Ids
    <3>1. CASE LenOf(head, i) < LenOf(head, tail)
      BY <3>1 DEF PublishedInv
    <3>2. CASE LenOf(head, i) = LenOf(head, tail)
      <4>1. i = tail
        BY <1>0, <3>2, CapacityAssumption DEF LenOf, Slots
      <4> QED BY <1>3, <4>1, StoreTailFacts
    <3> QED BY <1>0, <1>3, <2>1, <3>1, <3>2, StoreTailFacts
  <2> QED BY <1>3, <2>1, StoreTailFacts DEF PublishedInv
<1>4. CASE PopStoreHead
  <2>1. \A i \in Slots : LenOf(head', i) < LenOf(head', tail)
                           => LenOf(head, i) < LenOf(head, tail)
    BY <1>0, <1>4, StoreHeadFacts, BeforeFacts
  <2> QED BY <1>4, <2>1, StoreHeadFacts DEF PublishedInv
<1>5. CASE \E k \in DOMAIN stores : PopEmpty(k) \/ PopNonEmpty(k) \/ PopLoadSlot(k)
  BY <1>1, <1>5 DEF PopEmpty, PopNonEmpty, PopLoadSlot, LoadStore
<1>6. CASE \E k \in DOMAIN heads : PushFull(k) \/ PushRoom(k)
  BY <1>1, <1>6 DEF PushFull, PushRoom, LoadHead
<1>7. ASSUME UNCHANGED memory PROVE PublishedInv'
  BY <1>1, <1>7 DEF memory
<1> QED
  BY <1>2, <1>3, <1>4, <1>5, <1>6, <1>7, QuietSteps DEF Next, Producer, Consumer

LEMMA IInvStep == IInv /\ [Next]_vars => IInv'
BY TypeOKStep, HeadsInvStep, StoresInvStep, ProducerInvStep, ConsumerInvStep,
   PublishedInvStep
DEF IInv

\* The registers of push and pop, the indices and the published slots always fit
\* together as IInv says, whatever the capacity and the ids.
THEOREM Invariance == Spec => []IInv
BY InitIInv, IInvStep, PTL DEF Spec

\* Type correctness of the ring: in particular every index that push and pop use
\* is a slot of the ring, so queue.rs never indexes out of bounds.
THEOREM TypeCorrect == Spec => []TypeOK
<1>1. IInv => TypeOK
  BY DEF IInv
<1> QED BY Invariance, <1>1, PTL

\* push is never about to write the slot that pop is about to read.
THEOREM NeverSameSlot == Spec => []SlotsApart
<1>1. IInv => SlotsApart
  <2> SUFFICES ASSUME IInv, ppc = "slot", cpc = "slot" PROVE ptail # chead
    BY DEF SlotsApart
  <2>1. /\ head \in Slots /\ tail \in Slots /\ 1 \in DOMAIN stores
        /\ stores[1].tail \in Slots
    BY Histories DEF IInv, TypeOK
  <2>2. /\ ptail = tail /\ chead = head /\ stores[1].tail # head
        /\ LenOf(head, stores[1].tail) <= LenOf(head, tail)
    BY <2>1 DEF IInv, ProducerInv, ConsumerInv, StoresInv
  <2> QED BY <2>1, <2>2, LenFacts, CapacityAssumption
<1> QED BY Invariance, <1>1, PTL

-----------------------------------------------------------------------------
(* The refinement: only the store that publishes an id and the store that   *)
(* frees a slot change Items, the first appends and the second takes off.    *)

\* Items is a sequence of ids with one element per published slot.
ItemsOK ==
    /\ LenOf(head, tail) \in 0 .. Capacity - 1
    /\ Items \in Seq(Ids)
    /\ Len(Items) = LenOf(head, tail)
    /\ \A k \in 1 .. LenOf(head, tail) : Items[k] = buffer[SlotOf(k)]

LEMMA ItemsFacts == IInv => ItemsOK
<1> SUFFICES ASSUME IInv PROVE ItemsOK
  OBVIOUS
<1>1. LenOf(head, tail) \in 0 .. Capacity - 1
  BY LenFacts DEF IInv, TypeOK
<1>2. ASSUME NEW k \in 1 .. LenOf(head, tail) PROVE buffer[SlotOf(k)] \in Ids
  <2>1. SlotOf(k) \in Slots /\ LenOf(head, SlotOf(k)) = k - 1
    BY SlotOfFacts DEF IInv, TypeOK
  <2> QED BY <1>1, <2>1, CapacityAssumption DEF IInv, PublishedInv
<1>3. Items \in [1 .. LenOf(head, tail) -> Ids]
  BY <1>2 DEF Items
<1> QED BY <1>1, <1>3, LenProperties DEF Items, ItemsOK

\* Storing into the slot at tail leaves the published ids as they are.
LEMMA StoreSlotItems ==
    ASSUME IInv, PushStoreSlot
    PROVE  Items' = Items
<1>1. /\ head' = head /\ tail' = tail /\ ptail = tail
      /\ LenOf(head, tail) \in 0 .. Capacity - 1
  BY LenFacts DEF IInv, TypeOK, PushStoreSlot, ProducerInv
<1>2. ASSUME NEW k \in 1 .. LenOf(head, tail)
      PROVE  buffer'[SlotOf(k)] = buffer[SlotOf(k)]
  <2>1. SlotOf(k) \in Slots /\ LenOf(head, SlotOf(k)) = k - 1
    BY SlotOfFacts DEF IInv, TypeOK
  <2>2. SlotOf(k) # tail
    BY <1>1, <2>1, CapacityAssumption
  <2> QED BY <1>1, <2>1, <2>2 DEF PushStoreSlot, IInv, TypeOK, Contents
<1>3. LenOf(head, tail)' = LenOf(head, tail) /\ \A k : SlotOf(k)' = SlotOf(k)
  BY <1>1 DEF LenOf, SlotOf
<1> QED BY <1>2, <1>3 DEF Items

LEMMA StoreTailItems ==
    ASSUME IInv, IInv', PushStoreTail
    PROVE  Items' = Append(Items, pid)
<1> DEFINE n == LenOf(head, tail)
<1>1. /\ head' = head /\ buffer' = buffer /\ tail' = Succ(tail)
      /\ LenOf(head, tail') = n + 1 /\ buffer[tail] = pid /\ pid \in Ids
  BY StoreTailFacts
<1>2. head \in Slots /\ tail \in Slots /\ tail' \in Slots
  BY DEF IInv, TypeOK
<1>3. n \in 0 .. Capacity - 2 /\ LenOf(head, tail)' = n + 1
  <2>1. n \in 0 .. Capacity - 1 /\ LenOf(head, tail') \in 0 .. Capacity - 1
    BY <1>2, LenFacts
  <2>2. LenOf(head, tail)' = LenOf(head, tail')
    BY <1>1 DEF LenOf
  <2> QED BY <1>1, <2>1, <2>2, CapacityAssumption
<1>4. SlotOf(n + 1) = tail
  <2>1. head + n < Capacity => (head + n) % Capacity = head + n
    BY <1>2, <1>3, CapacityAssumption DEF Slots
  <2>2. head + n >= Capacity => (head + n) % Capacity = head + n - Capacity
    BY <1>2, <1>3, CapacityAssumption DEF Slots
  <2> QED BY <1>2, <1>3, <2>1, <2>2, CapacityAssumption
          DEF LenOf, SlotOf, Slots
<1>5. \A k : SlotOf(k)' = SlotOf(k)
  BY <1>1 DEF SlotOf
<1>6. /\ Items \in Seq(Ids) /\ Len(Items) = n
      /\ \A k \in 1 .. n : Items[k] = buffer[SlotOf(k)]
  BY ItemsFacts DEF ItemsOK
<1>7. /\ Items' \in Seq(Ids) /\ Len(Items') = n + 1
      /\ \A k \in 1 .. n + 1 : Items'[k] = buffer[SlotOf(k)]
  <2>1. ItemsOK'
    BY ItemsFacts, PTL
  <2> QED BY <1>1, <1>3, <1>5, <2>1 DEF ItemsOK
<1>8. /\ Append(Items, pid) \in Seq(Ids)
      /\ Len(Append(Items, pid)) = n + 1
      /\ \A k \in 1 .. n : Append(Items, pid)[k] = Items[k]
      /\ Append(Items, pid)[n + 1] = pid
  BY <1>1, <1>6, AppendProperties
<1>9. ASSUME NEW k \in 1 .. n + 1 PROVE Items'[k] = Append(Items, pid)[k]
  BY <1>1, <1>3, <1>4, <1>6, <1>7, <1>8
<1> QED BY <1>3, <1>7, <1>8, <1>9, SeqEqual

LEMMA StoreHeadItems ==
    ASSUME IInv, IInv', PopStoreHead
    PROVE  Items # <<>> /\ Head(Items) = cval /\ Items' = Tail(Items)
<1> DEFINE n == LenOf(head, tail)
<1>1. /\ tail' = tail /\ buffer' = buffer /\ head' = Succ(head)
      /\ head # tail /\ cval = buffer[head]
  BY StoreHeadFacts
<1>2. head \in Slots /\ tail \in Slots /\ head' \in Slots
  BY DEF IInv, TypeOK
<1>3. n \in 1 .. Capacity - 1 /\ LenOf(head, tail)' = n - 1
  BY <1>1, <1>2, SuccFacts, CapacityAssumption DEF LenOf, Slots
<1>4. SlotOf(1) = head
  BY <1>2, CapacityAssumption DEF SlotOf, Slots
<1>5. ASSUME NEW k \in 1 .. n - 1 PROVE SlotOf(k)' = SlotOf(k + 1)
  <2>1. SlotOf(k + 1) = IF head + k < Capacity
                        THEN head + k ELSE head + k - Capacity
    BY <1>2, <1>3, CapacityAssumption DEF SlotOf, Slots
  <2>2. SlotOf(k)' = (Succ(head) + (k - 1)) % Capacity
    BY <1>1 DEF SlotOf
  <2>3. Succ(head) = IF head + 1 = Capacity THEN 0 ELSE head + 1
    BY <1>2, SuccFacts
  <2>4. CASE head + 1 = Capacity
    <3>1. SlotOf(k)' = (k - 1) % Capacity /\ k - 1 \in 0 .. Capacity - 1
      BY <1>2, <1>3, <2>2, <2>3, <2>4, CapacityAssumption DEF Slots
    <3>2. SlotOf(k)' = k - 1
      BY <3>1, CapacityAssumption
    <3>3. SlotOf(k + 1) = k - 1
      BY <1>2, <2>1, <2>4, CapacityAssumption DEF Slots
    <3> QED BY <3>2, <3>3
  <2>5. CASE head + 1 # Capacity
    <3>1. SlotOf(k)' = (head + k) % Capacity
      BY <1>2, <2>2, <2>3, <2>5, CapacityAssumption DEF Slots
    <3>2. SlotOf(k + 1) = (head + k) % Capacity
      BY <1>2, CapacityAssumption DEF SlotOf, Slots
    <3> QED BY <3>1, <3>2
  <2> QED BY <2>4, <2>5
<1>6. /\ Items \in Seq(Ids) /\ Len(Items) = n
      /\ \A k \in 1 .. n : Items[k] = buffer[SlotOf(k)]
  BY ItemsFacts DEF ItemsOK
<1>7. /\ Items' \in Seq(Ids) /\ Len(Items') = n - 1
      /\ \A k \in 1 .. n - 1 : Items'[k] = buffer[SlotOf(k)']
  <2>1. ItemsOK'
    BY ItemsFacts, PTL
  <2> QED BY <1>1, <1>3, <2>1 DEF ItemsOK
<1>8. Items # <<>> /\ Head(Items) = Items[1]
  BY <1>3, <1>6
<1>9. /\ Tail(Items) \in Seq(Ids) /\ Len(Tail(Items)) = n - 1
      /\ \A k \in 1 .. n - 1 : Tail(Items)[k] = Items[k + 1]
  BY <1>3, <1>6, <1>8, HeadTailProperties
<1>10. ASSUME NEW k \in 1 .. n - 1 PROVE Items'[k] = Tail(Items)[k]
  BY <1>3, <1>5, <1>6, <1>7, <1>9
<1>11. Items' = Tail(Items)
  BY <1>3, <1>7, <1>9, <1>10, SeqEqual
<1> QED BY <1>1, <1>3, <1>4, <1>6, <1>8, <1>11

\* Seen and Owed are what BoundedFifo takes them for.
LEMMA LateFacts ==
    ASSUME IInv
    PROVE  /\ Seen \in 0 .. LenOf(head, tail)
           /\ Owed \in Nat
           /\ LenOf(head, tail) + Owed = LenOf(heads[1], tail)
           /\ LenOf(head, tail) \in Nat
<1>1. /\ head \in Slots /\ tail \in Slots /\ 1 \in DOMAIN heads /\ heads[1] \in Slots
      /\ 1 \in DOMAIN stores /\ stores[1].tail \in Slots
  BY Histories DEF IInv, TypeOK
<1>2. /\ LenOf(head, tail) \in Nat /\ LenOf(heads[1], tail) \in Nat
      /\ LenOf(head, stores[1].tail) \in Nat
  BY <1>1, LenFacts, CapacityAssumption
<1>3. /\ LenOf(head, stores[1].tail) <= LenOf(head, tail)
      /\ LenOf(heads[1], tail) >= LenOf(head, tail)
  BY <1>1 DEF IInv, StoresInv, HeadsInv
<1> QED BY <1>2, <1>3 DEF Seen, Owed

\* What the steps of the ring do to Seen and Owed.
LEMMA LoadHeadLate ==
    ASSUME IInv, NEW k \in DOMAIN heads, LoadHead(k)
    PROVE  /\ UNCHANGED <<Items, Seen>>
           /\ Owed' \in 0 .. Owed
           /\ LenOf(head, tail) + Owed' = LenOf(heads[k], tail)
<1>1. heads \in Seq(Slots) /\ 1 \in DOMAIN heads /\ k \in Nat /\ k >= 1
      /\ heads[k] \in Slots /\ head \in Slots /\ tail \in Slots
  BY Histories DEF IInv, TypeOK
<1>2. /\ UNCHANGED <<buffer, head, tail, stores>> /\ heads' = Since(k, heads)
  BY DEF LoadHead
<1>3. heads'[1] = heads[k]
  BY <1>1, <1>2, SinceFirst
<1>4. /\ LenOf(heads[1], tail) >= LenOf(heads[k], tail)
      /\ LenOf(heads[k], tail) >= LenOf(head, tail)
      /\ LenOf(heads[k], tail) \in Nat
  BY <1>1, LenFacts, CapacityAssumption DEF IInv, HeadsInv
<1>5. Items' = Items /\ Seen' = Seen /\ Owed' = LenOf(heads[k], tail) - LenOf(head, tail)
  BY <1>2, <1>3 DEF Items, Seen, Owed, LenOf, SlotOf
<1>6. LenOf(head, tail) \in Nat /\ LenOf(heads[1], tail) \in Nat
  BY <1>1, LenFacts, CapacityAssumption
<1> QED BY <1>4, <1>5, <1>6 DEF Owed

LEMMA LoadStoreLate ==
    ASSUME IInv, NEW k \in DOMAIN stores, LoadStore(k)
    PROVE  /\ UNCHANGED <<Items, Owed>>
           /\ Seen' \in Seen .. LenOf(head, tail)
           /\ Seen' = LenOf(head, stores[k].tail)
<1>1. stores \in Seq(Store) /\ 1 \in DOMAIN stores /\ k \in Nat /\ k >= 1
      /\ head \in Slots /\ stores[k].tail \in Slots /\ stores[1].tail \in Slots
      /\ tail \in Slots
  BY Histories DEF IInv, TypeOK
<1>2. UNCHANGED <<buffer, head, tail, heads>> /\ stores' = Since(k, stores)
  BY DEF LoadStore
<1>3. stores'[1] = stores[k]
  BY <1>1, <1>2, SinceFirst
<1>4. /\ LenOf(head, stores[1].tail) <= LenOf(head, stores[k].tail)
      /\ LenOf(head, stores[k].tail) <= LenOf(head, tail)
  BY <1>1 DEF IInv, StoresInv
<1>5. Items' = Items /\ Owed' = Owed /\ Seen' = LenOf(head, stores[k].tail)
  BY <1>2, <1>3 DEF Items, Seen, Owed, LenOf, SlotOf
<1>6. /\ LenOf(head, stores[1].tail) \in Nat /\ LenOf(head, stores[k].tail) \in Nat
      /\ LenOf(head, tail) \in Nat
  BY <1>1, LenFacts, CapacityAssumption, SMTT(40)
<1> QED BY <1>4, <1>5, <1>6 DEF Seen

LEMMA PushLate ==
    ASSUME IInv, PushStoreSlot \/ PushStoreTail
    PROVE  UNCHANGED <<Seen, Owed>>
<1>1. /\ heads \in Seq(Slots) /\ 1 \in DOMAIN heads
      /\ stores \in Seq(Store) /\ 1 \in DOMAIN stores
      /\ tail \in Slots /\ buffer \in Contents /\ head \in Slots
      /\ heads[1] \in Slots /\ stores[1].tail \in Slots
  BY Histories DEF IInv, TypeOK
<1>2. UNCHANGED <<head, heads>> /\ \E e \in Store : stores' = Append(stores, e)
  <2>1. CASE PushStoreSlot
    <3>1. buffer' \in Contents
      BY <1>1, <2>1 DEF PushStoreSlot, Contents, IInv, ProducerInv
    <3> QED BY <1>1, <2>1, <3>1 DEF PushStoreSlot, Store
  <2>2. CASE PushStoreTail
    <3>1. [tail |-> tail', buffer |-> buffer] \in Store
      BY <1>1, <2>2, StoreTailFacts DEF Store
    <3> QED BY <2>2, <3>1, StoreTailFacts
  <2> QED BY <2>1, <2>2
<1>3. stores'[1] = stores[1]
  BY <1>1, <1>2, AppendFirst
<1>4. LenOf(heads[1], tail') - LenOf(head, tail') = LenOf(heads[1], tail) - LenOf(head, tail)
  <2>1. CASE PushStoreSlot
    BY <2>1 DEF PushStoreSlot
  <2>2. CASE PushStoreTail
    <3>1. LenOf(heads[1], tail) \in Nat /\ LenOf(head, tail) \in Nat
      BY <1>1, LenFacts, CapacityAssumption
    <3> QED BY <1>1, <2>2, <3>1, StoreTailFacts
  <2> QED BY <2>1, <2>2
<1> QED BY <1>2, <1>3, <1>4 DEF Seen, Owed, LenOf

LEMMA PopLate ==
    ASSUME IInv, PopStoreHead
    PROVE  /\ Seen > 0 /\ Seen' = Seen - 1
           /\ Owed' = Owed + 1
<1>1. /\ heads \in Seq(Slots) /\ 1 \in DOMAIN heads /\ heads[1] \in Slots
      /\ 1 \in DOMAIN stores /\ stores[1].tail \in Slots /\ tail \in Slots
  BY Histories DEF IInv, TypeOK
<1>2. /\ UNCHANGED <<tail, stores>> /\ head \in Slots /\ head' \in Slots
      /\ stores[1].tail # head
      /\ LenOf(head', stores[1].tail) = LenOf(head, stores[1].tail) - 1
      /\ LenOf(head', tail) = LenOf(head, tail) - 1
      /\ heads' = Append(heads, head')
  BY <1>1, StoreHeadFacts
<1>3. heads'[1] = heads[1]
  BY <1>1, <1>2, AppendFirst
<1>4. LenOf(head, stores[1].tail) \in Nat \ {0} /\ LenOf(head, tail) \in Nat
      /\ LenOf(heads[1], tail) \in Nat
  <2>1. LenOf(head, stores[1].tail) \in 0 .. Capacity - 1
        /\ LenOf(head, stores[1].tail) # 0
    BY <1>1, <1>2, LenFacts
  <2>2. LenOf(head, tail) \in Nat /\ LenOf(heads[1], tail) \in Nat
    BY <1>1, <1>2, LenFacts, CapacityAssumption
  <2> QED BY <2>1, <2>2, CapacityAssumption
<1>5. Seen' = LenOf(head', stores[1].tail)
      /\ Owed' = LenOf(heads[1], tail) - LenOf(head', tail)
  BY <1>2, <1>3 DEF Seen, Owed, LenOf
<1> QED BY <1>2, <1>4, <1>5 DEF Seen, Owed

LEMMA RefinementStep ==
    ASSUME IInv, IInv', [Next]_vars
    PROVE  [Fifo!FifoNext]_Fifo!fifoVars
<1> USE DEF Fifo!FifoNext, Fifo!fifoVars
<1>0. /\ Len(Items) = LenOf(head, tail) /\ Items \in Seq(Ids)
      /\ LenOf(head, tail) \in 0 .. Capacity - 1
  BY ItemsFacts DEF ItemsOK
<1>1. ASSUME UNCHANGED memory PROVE UNCHANGED <<Items, Seen, Owed>>
  BY <1>1 DEF memory, Items, Seen, Owed, LenOf, SlotOf
<1>2. ASSUME NEW k \in DOMAIN heads, PushFull(k) PROVE Fifo!PushFull(pid) /\ pid \in Ids
  <2>1. /\ LoadHead(k) /\ Succ(tail) = heads[k] /\ pid \in Ids
        /\ heads[k] \in Slots /\ tail \in Slots
    BY <1>2, Histories DEF PushFull, LoadHead, IInv, ProducerInv, TypeOK
  <2>2. LenOf(heads[k], tail) = Capacity - 1
    BY <2>1, LenFacts
  <2>3. got' = got
    BY <2>1 DEF LoadHead, consumerVars
  <2> QED BY <1>0, <1>2, <2>1, <2>2, <2>3, LoadHeadLate DEF PushFull, Fifo!PushFull
<1>3. ASSUME NEW k \in DOMAIN heads, PushRoom(k) PROVE Fifo!Learn
  <2>1. LoadHead(k) /\ put' = put
    BY <1>3 DEF PushRoom
  <2>2. got' = got
    BY <2>1 DEF LoadHead, consumerVars
  <2>3. Seen \in Seen .. Len(Items)
    BY <1>0, LateFacts
  <2> QED BY <2>1, <2>2, <2>3, LoadHeadLate DEF Fifo!Learn
<1>4. CASE PushStoreSlot
  BY <1>4, StoreSlotItems, PushLate DEF PushStoreSlot, consumerVars
<1>5. CASE PushStoreTail
  <2>1. pid \in Ids /\ got' = got /\ put' = [id |-> pid, ok |-> TRUE]
    BY <1>5 DEF PushStoreTail, IInv, ProducerInv, consumerVars
  <2>2. Len(Items) + Owed < Capacity - 1
    <3>1. 1 \in DOMAIN heads
      BY Histories DEF IInv
    <3>2. LenOf(heads[1], tail) < Capacity - 1
      BY <1>5, <3>1 DEF PushStoreTail, IInv, ProducerInv
    <3> QED BY <1>0, <3>2, LateFacts
  <2>3. Fifo!PushOk(pid)
    BY <1>5, <2>1, <2>2, StoreTailItems, PushLate DEF Fifo!PushOk
  <2> QED BY <2>1, <2>3
<1>6. ASSUME NEW k \in DOMAIN stores, PopEmpty(k) PROVE Fifo!PopNone
  <2>1. /\ LoadStore(k) /\ stores[k].tail = head /\ head \in Slots /\ got' = None
    BY <1>6 DEF PopEmpty, IInv, ConsumerInv, TypeOK
  <2>2. Seen' = 0 /\ Seen = 0
    <3>1. LenOf(head, stores[k].tail) = 0
      BY <2>1, LenFacts
    <3> QED BY <2>1, <3>1, LoadStoreLate, LateFacts
  <2>3. put' = put
    BY <2>1 DEF LoadStore, producerVars
  <2> QED BY <2>1, <2>2, <2>3, LoadStoreLate DEF Fifo!PopNone
<1>7. ASSUME NEW k \in DOMAIN stores, PopNonEmpty(k) \/ PopLoadSlot(k) PROVE Fifo!Learn
  <2>1. LoadStore(k) /\ got' = got
    BY <1>7 DEF PopNonEmpty, PopLoadSlot
  <2>2. put' = put
    BY <2>1 DEF LoadStore, producerVars
  <2>3. Owed \in 0 .. Owed
    BY LateFacts
  <2> QED BY <1>0, <2>1, <2>2, <2>3, LoadStoreLate DEF Fifo!Learn
<1>8. CASE PopStoreHead
  <2>1. Items # <<>> /\ Head(Items) = cval /\ Items' = Tail(Items)
    BY <1>8, StoreHeadItems
  <2>2. cval \in Ids /\ cval # Empty
    BY <1>0, <2>1, IdsAssumption, HeadTailProperties
  <2>3. Fifo!PopSome
    BY <1>8, <2>1, <2>2, PopLate DEF PopStoreHead, producerVars, Fifo!PopSome
  <2> QED BY <2>3
<1>9. CASE (\E id \in Ids : PushLoadTail(id)) \/ PopLoadHead \/ UNCHANGED vars
  <2>1. UNCHANGED memory /\ UNCHANGED <<put, got>>
    BY <1>9, QuietSteps DEF PushLoadTail, PopLoadHead, vars, producerVars, consumerVars
  <2> QED BY <1>1, <2>1
<1> QED
  BY <1>2, <1>3, <1>4, <1>5, <1>6, <1>7, <1>8, <1>9 DEF Next, Producer, Consumer

\* For every capacity the ring is a bounded first-in first-out queue with room
\* for Capacity - 1 ids, answers of push and pop included, whatever the two threads
\* see late.
THEOREM RefinesFifo == Spec => FifoRefinement
<1>1. Init => Fifo!FifoInit
  <2> SUFFICES ASSUME Init PROVE Fifo!FifoInit
    OBVIOUS
  <2>1. IInv
    BY InitIInv
  <2>2. head = tail /\ stores[1].tail = head /\ heads[1] = head /\ head \in Slots
    BY <2>1 DEF Init, IInv, TypeOK
  <2>3. LenOf(head, head) = 0
    BY <2>2, LenFacts
  <2>4. Items \in Seq(Ids) /\ Len(Items) = 0
    BY <2>1, <2>2, <2>3, ItemsFacts DEF ItemsOK
  <2>5. Items = <<>> /\ Seen = 0 /\ Owed = 0
    BY <2>2, <2>3, <2>4 DEF Seen, Owed
  <2> QED BY <2>5 DEF Init, Fifo!FifoInit
<1>2. IInv /\ IInv' /\ [Next]_vars => [Fifo!FifoNext]_Fifo!fifoVars
  BY RefinementStep
<1> QED BY <1>1, <1>2, Invariance, PTL DEF Spec, FifoRefinement, Fifo!FifoSpec
-----------------------------------------------------------------------------
(* len, called by the owners of the queue while the other side goes on. *)

\* The distance that len is about to return, or has returned, for each caller.
LenInv ==
    /\ lby \in Callers \cup {None}
    /\ lhead # None =>
         /\ lhead \in Slots
         /\ \/ lby = "producer" /\ LenOf(lhead, tail) >= LenOf(head, tail)
            \/ lby = "consumer" /\ lhead = head
    /\ lres # None =>
         /\ lres.len \in Nat
         /\ \/ lres.by = "producer" /\ lres.len >= LenOf(head, tail)
            \/ lres.by = "consumer" /\ lres.len <= LenOf(head, tail)

\* Whoever is inside len, the other side moves only its own index, and in the
\* direction that keeps the answer on the safe side.
LEMMA OtherSideMoves ==
    ASSUME IInv
    PROVE  /\ Producer => /\ head' = head
                          /\ LenOf(head, tail') >= LenOf(head, tail)
           /\ Consumer => /\ tail' = tail
                          /\ LenOf(head', tail) <= LenOf(head, tail)
<1>1. LenOf(head, tail) \in Nat
  BY LenFacts, CapacityAssumption DEF IInv, TypeOK
<1>2. ASSUME Producer
      PROVE  head' = head /\ LenOf(head, tail') >= LenOf(head, tail)
  <2>1. CASE PushStoreTail
    BY <1>1, <2>1, StoreTailFacts
  <2>2. CASE ~PushStoreTail
    <3>1. head' = head /\ tail' = tail
      BY <1>2, <2>2 DEF Producer, PushLoadTail, memory, PushFull, PushRoom, LoadHead,
                        PushStoreSlot
    <3> QED BY <1>1, <3>1
  <2> QED BY <2>1, <2>2
<1>3. ASSUME Consumer
      PROVE  tail' = tail /\ LenOf(head', tail) <= LenOf(head, tail)
  <2>1. CASE PopStoreHead
    BY <1>1, <2>1, StoreHeadFacts
  <2>2. CASE ~PopStoreHead
    <3>1. head' = head /\ tail' = tail
      BY <1>3, <2>2 DEF Consumer, PopLoadHead, memory, PopEmpty, PopNonEmpty,
                        PopLoadSlot, LoadStore
    <3> QED BY <1>1, <3>1
  <2> QED BY <2>1, <2>2
<1> QED BY <1>2, <1>3

\* The ring does not notice len.
LEMMA StepOfRing == [LenNext]_allVars => [Next]_vars
BY DEF LenNext, allVars, LenCall, LenLoadHead, LenLoadTail, LenDone, QueueStep, Next

LEMMA LenInvStep == IInv /\ LenInv /\ [LenNext]_allVars => LenInv'
<1> SUFFICES ASSUME IInv, LenInv, [LenNext]_allVars PROVE LenInv'
  OBVIOUS
<1>0. /\ head \in Slots /\ tail \in Slots
      /\ \A i, j \in Slots : LenOf(i, j) \in Nat
      /\ LenOf(head, tail) \in Nat
      /\ lhead # None => LenOf(lhead, tail) \in Nat
  <2>1. head \in Slots /\ tail \in Slots
    BY DEF IInv, TypeOK
  <2>2. \A i, j \in Slots : LenOf(i, j) \in Nat
    BY LenFacts, CapacityAssumption
  <2> QED BY <2>1, <2>2 DEF LenInv
<1>7. head' \in Slots /\ tail' \in Slots
  BY StepOfRing, IInvStep DEF IInv, TypeOK
<1>1. ASSUME NEW caller \in Callers, LenCall(caller) PROVE LenInv'
  BY <1>1, CallersAssumption DEF LenCall, LenInv, Callers, vars, memory, LenOf
<1>2. CASE LenLoadHead
  <2>1. /\ lby \in Callers /\ UNCHANGED <<head, tail, lby, lres>>
        /\ lhead' \in IF lby = "consumer" THEN {head} ELSE {heads[k] : k \in DOMAIN heads}
    BY <1>2 DEF LenLoadHead, LenInv, vars, memory
  <2>2. \A k \in DOMAIN heads : heads[k] \in Slots /\ LenOf(heads[k], tail) >= LenOf(head, tail)
    BY Histories DEF IInv, HeadsInv
  <2>3. /\ lhead' \in Slots
        /\ \/ lby = "producer" /\ LenOf(lhead', tail) >= LenOf(head, tail)
           \/ lby = "consumer" /\ lhead' = head
    BY <1>0, <2>1, <2>2 DEF Callers
  <2> QED BY <2>1, <2>3 DEF LenInv, LenOf
<1>3. CASE LenLoadTail
  <2>1. PICK t \in Tails : lres' = [by |-> lby, len |-> LenOf(lhead, t)]
    BY <1>3 DEF LenLoadTail
  <2>2. /\ lhead # None /\ lby' = None /\ lhead' = None /\ UNCHANGED <<head, tail>>
    BY <1>3 DEF LenLoadTail, vars, memory
  <2>3. lres'.len \in Nat /\ \/ lres'.by = "producer" /\ lres'.len >= LenOf(head, tail)
                             \/ lres'.by = "consumer" /\ lres'.len <= LenOf(head, tail)
    <3>1. CASE lby = "producer"
      BY <1>0, <2>1, <2>2, <3>1 DEF Tails, LenInv
    <3>2. CASE lby = "consumer"
      <4>1. lhead = head /\ \E k \in DOMAIN stores : t = stores[k].tail
        BY <2>1, <2>2, <3>2 DEF Tails, LenInv
      <4>2. t \in Slots /\ LenOf(head, t) <= LenOf(head, tail)
        BY <4>1, Histories DEF IInv, StoresInv
      <4> QED BY <1>0, <2>1, <3>2, <4>1, <4>2
    <3> QED BY <2>2, <3>1, <3>2 DEF LenInv
  <2> QED BY <2>2, <2>3 DEF LenInv, LenOf
<1>4. CASE LenDone
  BY <1>4 DEF LenDone, LenInv, vars, memory, LenOf
<1>5. CASE QueueStep
  <2>1. UNCHANGED <<lby, lhead, lres>>
    BY <1>5 DEF QueueStep, lenVars
  <2>2. CASE Producer /\ Free("producer")
    <3>1. /\ head' = head /\ LenOf(head, tail') >= LenOf(head, tail)
          /\ lby \in Callers \cup {None}
          /\ lhead # None => lby = "consumer" /\ lhead = head
          /\ lres # None => lres.by = "consumer" /\ lres.len <= LenOf(head, tail)
      BY <2>2, OtherSideMoves DEF Free, LenInv
    <3>2. LenOf(head, tail') \in Nat
      BY <1>0, <1>7
    <3>3. lres # None => lres.len \in Nat /\ lres.len <= LenOf(head, tail')
      BY <1>0, <3>1, <3>2 DEF LenInv
    <3> QED BY <1>0, <2>1, <3>1, <3>3 DEF LenInv
  <2>3. CASE Consumer /\ Free("consumer")
    <3>1. /\ tail' = tail /\ LenOf(head', tail) <= LenOf(head, tail)
          /\ lby \in Callers \cup {None}
          /\ lhead # None => /\ lby = "producer" /\ lhead \in Slots
                             /\ LenOf(lhead, tail) >= LenOf(head, tail)
          /\ lres # None => /\ lres.by = "producer" /\ lres.len \in Nat
                            /\ lres.len >= LenOf(head, tail)
      BY <2>3, OtherSideMoves DEF Free, LenInv
    <3>2. LenOf(head', tail) \in Nat
      BY <1>0, <1>7
    <3>3. /\ lhead # None => LenOf(lhead, tail) >= LenOf(head', tail)
          /\ lres # None => lres.len >= LenOf(head', tail)
      BY <1>0, <3>1, <3>2
    <3> QED BY <1>0, <2>1, <3>1, <3>3 DEF LenInv
  <2> QED BY <1>5, <2>2, <2>3 DEF QueueStep
<1>6. CASE UNCHANGED allVars
  BY <1>6 DEF allVars, lenVars, LenInv, vars, memory, LenOf
<1> QED BY <1>1, <1>2, <1>3, <1>4, <1>5, <1>6 DEF LenNext

\* For every capacity: len never tells the producer that there is more room than
\* there is, nor the consumer of an id that is not there.
THEOREM LenIsSafe == LenSpec => []LenOnSafeSide
<1>1. LenInit => IInv /\ LenInv
  BY InitIInv DEF LenInit, LenInv
<1>2. IInv /\ LenInv /\ [LenNext]_allVars => (IInv /\ LenInv)'
  BY StepOfRing, IInvStep, LenInvStep
<1>3. LenInv => LenOnSafeSide
  BY DEF LenInv, LenOnSafeSide
<1> QED BY <1>1, <1>2, <1>3, PTL DEF LenSpec

-----------------------------------------------------------------------------
(* The sharded slab. *)

SlabShards ==
    [slots : [ShardSlots -> Conns \cup {NoConn}], free_list : Seq(ShardSlots), allocated : Nat]

ShardTypes ==
    /\ shards \in [Cores -> SlabShards]
    /\ DOMAIN held \subseteq Cores \X ShardSlots
    /\ \A h \in DOMAIN held : held[h] \in Conns \cup {NoConn}
    /\ held = [h \in DOMAIN held |-> held[h]]

\* The conjuncts of ShardsExact.
FreeExact(core) ==
    /\ IsInjective(shards[core].free_list)
    /\ ToSet(shards[core].free_list) = ShardSlots \ HeldOn(core)

CountExact(core) == shards[core].allocated = Cardinality(HeldOn(core))

GetExact(core) ==
    \A slot \in ShardSlots :
        shards[core].slots[slot] =
            IF slot \in HeldOn(core) THEN held[<<core, slot>>] ELSE NoConn

TotalExact == TotalAllocated = Cardinality(DOMAIN held)

ShardInv ==
    /\ ShardTypes
    /\ \A core \in Cores : FreeExact(core) /\ CountExact(core) /\ GetExact(core)
    /\ TotalExact

\* What pop and push do to a list without repetitions.
LEMMA FrontFacts ==
  ASSUME NEW T, NEW s \in Seq(T), s # <<>>, IsInjective(s)
  PROVE  /\ Last(s) \in ToSet(s) /\ Last(s) \in T
         /\ Front(s) \in Seq(T) /\ IsInjective(Front(s))
         /\ ToSet(Front(s)) = ToSet(s) \ {Last(s)}
<1> DEFINE n == Len(s)
<1>1. n \in Nat \ {0} /\ DOMAIN s = 1 .. n /\ \A i \in 1 .. n : s[i] \in T
  OBVIOUS
<1>2. /\ Front(s) \in Seq(T) /\ DOMAIN Front(s) = 1 .. n - 1
      /\ \A i \in 1 .. n - 1 : Front(s)[i] = s[i]
  <2>1. Front(s) = SubSeq(s, 1, n - 1)
    BY DEF Front
  <2>2. \A i \in 1 .. n - 1 : s[i] \in T
    BY <1>1
  <2>3. 1 \in Int /\ n - 1 \in Int
    BY <1>1
  <2>4. /\ SubSeq(s, 1, n - 1) \in Seq(T)
        /\ Len(SubSeq(s, 1, n - 1)) = IF 1 <= n - 1 THEN n - 1 - 1 + 1 ELSE 0
        /\ \A i \in 1 .. n - 1 - 1 + 1 : SubSeq(s, 1, n - 1)[i] = s[1 + i - 1]
    BY <2>2, <2>3, SubSeqProperties
  <2> QED BY <1>1, <2>1, <2>4
<1>3. Last(s) = s[n] /\ \A i \in 1 .. n - 1 : s[i] # s[n]
  BY <1>1 DEF Last, IsInjective
<1>4. IsInjective(Front(s))
  BY <1>1, <1>2 DEF IsInjective
<1>5. ToSet(Front(s)) = ToSet(s) \ {Last(s)}
  <2>1. \A i \in 1 .. n : i = n \/ i \in 1 .. n - 1
    <3> HIDE DEF n
    <3> QED BY <1>1
  <2>2. \A i \in 1 .. n - 1 : i \in 1 .. n
    BY <1>1
  <2> QED BY <1>1, <1>2, <1>3, <2>1, <2>2 DEF ToSet
<1> QED BY <1>1, <1>2, <1>3, <1>4, <1>5 DEF ToSet

LEMMA PushFacts ==
  ASSUME NEW T, NEW s \in Seq(T), IsInjective(s), NEW x \in T, x \notin ToSet(s)
  PROVE  /\ Append(s, x) \in Seq(T) /\ IsInjective(Append(s, x))
         /\ ToSet(Append(s, x)) = ToSet(s) \cup {x}
<1> DEFINE n == Len(s)
           t == Append(s, x)
<1>1. n \in Nat /\ DOMAIN s = 1 .. n /\ DOMAIN t = 1 .. n + 1
      /\ (\A i \in 1 .. n : t[i] = s[i]) /\ t[n + 1] = x /\ t \in Seq(T)
  OBVIOUS
<1> HIDE DEF t
<1>2. \A i \in 1 .. n + 1 : i = n + 1 \/ i \in 1 .. n
  BY <1>1
<1>3. \A i \in 1 .. n : s[i] # x
  BY <1>1 DEF ToSet
<1>4. IsInjective(t)
  BY <1>1, <1>2, <1>3 DEF IsInjective
<1>5. ToSet(t) = ToSet(s) \cup {x}
  <2>1. \A i \in 1 .. n : i \in 1 .. n + 1
    BY <1>1
  <2>2. n + 1 \in 1 .. n + 1
    BY <1>1
  <2> QED BY <1>1, <1>2, <2>1, <2>2 DEF ToSet
<1> QED BY <1>1, <1>4, <1>5 DEF t

\* Slots and cores are finitely many.
LEMMA Finite ==
  /\ IsFiniteSet(Cores) /\ IsFiniteSet(ShardSlots)
  /\ ShardTypes => IsFiniteSet(DOMAIN held)
<1>1. IsFiniteSet(0 .. NumShards - 1) /\ IsFiniteSet(0 .. ShardCapacity - 1)
  BY FS_Interval, ShardedSlabAssumption
<1>2. IsFiniteSet(Cores \X ShardSlots)
  BY <1>1, FS_Product DEF Cores, ShardSlots
<1> QED BY <1>1, <1>2, FS_Subset DEF ShardTypes, Cores, ShardSlots

LEMMA ShardInitInv == ShardInit => ShardInv
<1> SUFFICES ASSUME ShardInit PROVE ShardInv
  OBVIOUS
<1> DEFINE list == [i \in 1 .. ShardCapacity |-> ShardCapacity - i]
<1>1. list \in [1 .. ShardCapacity -> ShardSlots]
  BY ShardedSlabAssumption DEF ShardSlots
<1>2. list \in Seq(ShardSlots) /\ DOMAIN list = 1 .. ShardCapacity
  BY <1>1, ShardedSlabAssumption
<1>3. IsInjective(list)
  BY ShardedSlabAssumption DEF IsInjective
<1>4. ToSet(list) = ShardSlots
  <2>1. \A slot \in ShardSlots : ShardCapacity - slot \in 1 .. ShardCapacity
                                 /\ list[ShardCapacity - slot] = slot
    BY ShardedSlabAssumption DEF ShardSlots
  <2> QED BY <1>1, <1>2, <2>1 DEF ToSet
<1>5. held = [h \in {} |-> NoConn] /\ DOMAIN held = {}
  BY DEF ShardInit
<1>6. \A core \in Cores : HeldOn(core) = {}
  BY <1>5 DEF HeldOn
<1>7. \A core \in Cores : /\ shards[core].slots = [i \in ShardSlots |-> NoConn]
                          /\ shards[core].free_list = list /\ shards[core].allocated = 0
  BY DEF ShardInit
<1>8. ShardTypes
  <2>1. [slots |-> [i \in ShardSlots |-> NoConn], free_list |-> list, allocated |-> 0] \in SlabShards
    BY <1>2 DEF SlabShards
  <2> QED BY <1>5, <2>1 DEF ShardTypes, ShardInit
<1>9. \A core \in Cores : FreeExact(core) /\ CountExact(core) /\ GetExact(core)
  BY <1>3, <1>4, <1>6, <1>7, FS_EmptySet DEF FreeExact, CountExact, GetExact
<1>10. TotalExact
  <2> DEFINE f == [core \in Cores |-> shards[core].allocated]
  <2>1. DOMAIN f = Cores /\ \A core \in Cores : f[core] = 0
    BY <1>7
  <2>2. SumFunctionOnSet(f, Cores) = 0
    BY <2>1, Finite, SumOfZeros
  <2> QED BY <1>5, <2>1, <2>2, FS_EmptySet DEF TotalExact, TotalAllocated, SumFunction
<1> QED BY <1>8, <1>9, <1>10 DEF ShardInv

\* A slot is taken from the end of a shard's free list, with or without a connection.
LEMMA TakenInv ==
  ASSUME ShardInv, NEW core \in Cores, Has(core), NEW conn \in Conns \cup {NoConn},
         held' = Holding(core, NextSlot(core), conn),
         shards' = [shards EXCEPT ![core] =
                      Taken(core, [shards[core].slots EXCEPT ![NextSlot(core)] = conn])]
  PROVE  ShardInv'
<1> DEFINE slot == NextSlot(core)
           list == shards[core].free_list
<1>1. shards[core] \in SlabShards /\ list \in Seq(ShardSlots) /\ list # <<>>
      /\ IsInjective(list) /\ ToSet(list) = ShardSlots \ HeldOn(core)
      /\ shards[core].allocated \in Nat
  BY DEF ShardInv, ShardTypes, SlabShards, FreeExact, Has
<1>2. slot \in ToSet(list) /\ slot \in ShardSlots /\ Front(list) \in Seq(ShardSlots)
      /\ IsInjective(Front(list)) /\ ToSet(Front(list)) = ToSet(list) \ {slot}
  BY <1>1, FrontFacts DEF NextSlot
<1>3. <<core, slot>> \notin DOMAIN held
  BY <1>1, <1>2 DEF HeldOn
<1>4. /\ DOMAIN held' = DOMAIN held \cup {<<core, slot>>}
      /\ held'[<<core, slot>>] = conn
      /\ \A h \in DOMAIN held : held'[h] = held[h]
      /\ held' = [h \in DOMAIN held' |-> held'[h]]
  BY <1>3 DEF Holding
<1>5. /\ \A other \in Cores \ {core} : shards'[other] = shards[other]
      /\ shards'[core] = [slots |-> [shards[core].slots EXCEPT ![slot] = conn],
                          free_list |-> Front(list), allocated |-> shards[core].allocated + 1]
      /\ DOMAIN shards' = Cores /\ shards' = [other \in Cores |-> shards'[other]]
  BY DEF ShardInv, ShardTypes, Taken
<1>6. HeldOn(core)' = HeldOn(core) \cup {slot} /\ slot \notin HeldOn(core)
      /\ \A other \in Cores \ {core} : HeldOn(other)' = HeldOn(other)
  BY <1>2, <1>3, <1>4 DEF HeldOn
<1>7. ShardTypes'
  <2>1. shards'[core] \in SlabShards
    BY <1>1, <1>2, <1>5, SMTT(40) DEF SlabShards
  <2>2. shards' \in [Cores -> SlabShards]
    BY <1>5, <2>1 DEF ShardInv, ShardTypes
  <2>3. DOMAIN held' \subseteq Cores \X ShardSlots
        /\ \A h \in DOMAIN held' : held'[h] \in Conns \cup {NoConn}
    <3>1. DOMAIN held \subseteq Cores \X ShardSlots
          /\ \A h \in DOMAIN held : held[h] \in Conns \cup {NoConn}
      BY DEF ShardInv, ShardTypes
    <3>2. <<core, slot>> \in Cores \X ShardSlots
      BY <1>2
    <3> HIDE DEF slot
    <3> QED BY <1>4, <3>1, <3>2
  <2> QED BY <1>4, <2>2, <2>3 DEF ShardTypes
<1>8. FreeExact(core)'
  BY <1>1, <1>2, <1>5, <1>6 DEF FreeExact
<1>9. CountExact(core)'
  <2>1. IsFiniteSet(HeldOn(core))
    BY Finite, FS_Subset DEF HeldOn
  <2>2. Cardinality(HeldOn(core) \cup {slot}) = Cardinality(HeldOn(core)) + 1
    BY <1>6, <2>1, FS_AddElement
  <2> QED BY <1>5, <1>6, <2>2 DEF CountExact, ShardInv
<1>10. GetExact(core)'
  <2>1. \A other \in ShardSlots :
          /\ shards'[core].slots[other] = IF other = slot THEN conn ELSE shards[core].slots[other]
          /\ other # slot => <<core, other>> # <<core, slot>>
    BY <1>1, <1>2, <1>5 DEF SlabShards
  <2>2. \A other \in HeldOn(core) : held'[<<core, other>>] = held[<<core, other>>]
    BY <1>4 DEF HeldOn
  <2> QED BY <1>4, <1>6, <2>1, <2>2 DEF GetExact, ShardInv
<1>11. ASSUME NEW other \in Cores \ {core}
       PROVE  FreeExact(other)' /\ CountExact(other)' /\ GetExact(other)'
  <2>1. \A s \in HeldOn(other) : held'[<<other, s>>] = held[<<other, s>>]
    BY <1>4 DEF HeldOn
  <2> QED BY <1>5, <1>6, <2>1 DEF FreeExact, CountExact, GetExact, ShardInv
<1>12. TotalExact'
  <2> DEFINE f == [other \in Cores |-> shards[other].allocated]
             g == [other \in Cores |-> shards'[other].allocated]
  <2>1. f \in [Cores -> Int] /\ g = [f EXCEPT ![core] = f[core] + 1] /\ f[core] + 1 \in Int
    <3>1. \A other \in Cores : shards[other].allocated \in Nat
      BY DEF ShardInv, ShardTypes, SlabShards
    <3>2. shards'[core].allocated = shards[core].allocated + 1
      BY <1>5
    <3>3. \A other \in Cores : g[other] = IF other = core THEN f[core] + 1 ELSE f[other]
      BY <1>5, <3>2
    <3>4. f \in [Cores -> Int] /\ f[core] + 1 \in Int
      BY <3>1
    <3>5. g = [f EXCEPT ![core] = f[core] + 1]
      BY <3>3
    <3> QED BY <3>4, <3>5
  <2>2. SumFunction(g) = SumFunction(f) - f[core] + (f[core] + 1)
    BY <2>1, Finite, SumExcept
  <2>3. SumFunction(f) = Cardinality(DOMAIN held)
    BY DEF ShardInv, TotalExact, TotalAllocated
  <2>4. IsFiniteSet(DOMAIN held) /\ Cardinality(DOMAIN held) \in Nat
    BY Finite, FS_CardinalityType DEF ShardInv
  <2>5. Cardinality(DOMAIN held') = Cardinality(DOMAIN held) + 1
    BY <1>3, <1>4, <2>4, FS_AddElement
  <2>6. SumFunction(g) = Cardinality(DOMAIN held')
    <3> HIDE DEF f, g
    <3> QED BY <2>1, <2>2, <2>3, <2>4, <2>5
  <2> QED BY <2>6 DEF TotalExact, TotalAllocated
<1> QED BY <1>7, <1>8, <1>9, <1>10, <1>11, <1>12 DEF ShardInv

LEMMA TakeSlotInv == ASSUME ShardInv, NEW core \in Cores, TakeSlot(core) PROVE ShardInv'
<1> DEFINE slot == NextSlot(core)
<1>1. shards[core] \in SlabShards
  BY DEF ShardInv, ShardTypes
<1>2. Has(core) /\ slot \in ShardSlots /\ slot \notin HeldOn(core)
  <2>1. shards[core].free_list \in Seq(ShardSlots)
    BY <1>1 DEF SlabShards
  <2>2. slot \in ToSet(shards[core].free_list) /\ slot \in ShardSlots
    BY <2>1, FrontFacts DEF TakeSlot, Has, NextSlot, ShardInv, FreeExact
  <2> QED BY <2>2 DEF TakeSlot, ShardInv, FreeExact
<1>3. shards[core].slots[slot] = NoConn
  BY <1>2 DEF ShardInv, GetExact
<1>4. [shards[core].slots EXCEPT ![slot] = NoConn] = shards[core].slots
  BY <1>1, <1>2, <1>3 DEF SlabShards
<1> QED BY <1>2, <1>4, TakenInv DEF TakeSlot

LEMMA AllocateInv ==
  ASSUME ShardInv, NEW core \in Cores, NEW conn \in Conns, Allocate(core, conn) PROVE ShardInv'
BY TakenInv DEF Allocate

\* What the holder of a slot puts into it is what get finds.
LEMMA InsertConnAtInv ==
  ASSUME ShardInv, NEW core \in Cores, NEW slot \in ShardSlots, NEW conn \in Conns,
         InsertConnAt(core, slot, conn)
  PROVE  ShardInv'
<1>1. shards[core] \in SlabShards
  BY DEF ShardInv, ShardTypes
<1>2. /\ <<core, slot>> \in DOMAIN held /\ DOMAIN held' = DOMAIN held
      /\ held'[<<core, slot>>] = conn
      /\ \A h \in DOMAIN held : h # <<core, slot>> => held'[h] = held[h]
      /\ held' = [h \in DOMAIN held' |-> held'[h]]
  BY DEF InsertConnAt
<1>3. /\ \A other \in Cores \ {core} : shards'[other] = shards[other]
      /\ shards'[core] = [shards[core] EXCEPT !.slots[slot] = conn]
      /\ DOMAIN shards' = Cores /\ shards' = [other \in Cores |-> shards'[other]]
  BY DEF ShardInv, ShardTypes, InsertConnAt
<1>4. /\ shards'[core] \in SlabShards
      /\ shards'[core].free_list = shards[core].free_list
      /\ shards'[core].allocated = shards[core].allocated
      /\ \A s \in ShardSlots :
           shards'[core].slots[s] = IF s = slot THEN conn ELSE shards[core].slots[s]
  BY <1>1, <1>3 DEF SlabShards
<1>5. \A other \in Cores : HeldOn(other)' = HeldOn(other)
  BY <1>2 DEF HeldOn
<1>6. ShardTypes'
  BY <1>2, <1>3, <1>4 DEF ShardInv, ShardTypes
<1>7. \A other \in Cores : /\ shards'[other].free_list = shards[other].free_list
                           /\ shards'[other].allocated = shards[other].allocated
  BY <1>3, <1>4
<1>8. \A other \in Cores : FreeExact(other)' /\ CountExact(other)'
  BY <1>5, <1>7 DEF ShardInv, FreeExact, CountExact
<1>9. ASSUME NEW other \in Cores PROVE GetExact(other)'
  <2>1. ASSUME NEW s \in ShardSlots
        PROVE  shards'[other].slots[s] =
                 IF s \in HeldOn(other) THEN held'[<<other, s>>] ELSE NoConn
    <3>1. CASE other = core /\ s = slot
      BY <1>2, <1>4, <3>1 DEF HeldOn
    <3>2. CASE ~(other = core /\ s = slot)
      <4>1. <<other, s>> # <<core, slot>>
        BY <3>2
      <4>2. shards'[other].slots[s] = shards[other].slots[s]
        BY <1>3, <1>4, <3>2
      <4>3. s \in HeldOn(other) => held'[<<other, s>>] = held[<<other, s>>]
        BY <1>2, <4>1 DEF HeldOn
      <4> QED BY <4>2, <4>3 DEF ShardInv, GetExact
    <3> QED BY <3>1, <3>2
  <2> QED BY <1>5, <2>1 DEF GetExact
<1>10. TotalExact'
  <2>1. [other \in Cores |-> shards'[other].allocated] =
          [other \in Cores |-> shards[other].allocated]
    BY <1>7
  <2> QED BY <1>2, <2>1 DEF ShardInv, TotalExact, TotalAllocated
<1> QED BY <1>6, <1>8, <1>9, <1>10 DEF ShardInv

\* A slot is given back by its holder.
LEMMA DeallocateInv ==
  ASSUME ShardInv, NEW core \in Cores, NEW slot \in ShardSlots, Deallocate(core, slot)
  PROVE  ShardInv'
<1> DEFINE list == shards[core].free_list
           n == shards[core].allocated
<1>1. shards[core] \in SlabShards /\ list \in Seq(ShardSlots) /\ n \in Nat
      /\ IsInjective(list) /\ ToSet(list) = ShardSlots \ HeldOn(core)
      /\ shards[core].slots \in [ShardSlots -> Conns \cup {NoConn}]
  BY DEF ShardInv, ShardTypes, SlabShards, FreeExact
<1>2. /\ <<core, slot>> \in DOMAIN held
      /\ DOMAIN held' = DOMAIN held \ {<<core, slot>>}
      /\ \A h \in DOMAIN held' : held'[h] = held[h]
      /\ held' = [h \in DOMAIN held' |-> held'[h]]
  BY DEF Deallocate
<1>3. slot \in HeldOn(core) /\ slot \notin ToSet(list)
  BY <1>1, <1>2 DEF HeldOn
<1>4. /\ \A other \in Cores \ {core} : shards'[other] = shards[other]
      /\ shards'[core] = [slots |-> [shards[core].slots EXCEPT ![slot] = NoConn],
                          free_list |-> Append(list, slot), allocated |-> n - 1]
      /\ DOMAIN shards' = Cores /\ shards' = [other \in Cores |-> shards'[other]]
  BY DEF ShardInv, ShardTypes, Deallocate, Freed
<1>5. /\ HeldOn(core)' = HeldOn(core) \ {slot}
      /\ \A other \in Cores \ {core} : HeldOn(other)' = HeldOn(other)
  BY <1>2 DEF HeldOn
<1>6. Cardinality(HeldOn(core)) = n /\ IsFiniteSet(HeldOn(core)) /\ n # 0
      /\ Cardinality(HeldOn(core) \ {slot}) = n - 1
  <2>1. IsFiniteSet(HeldOn(core)) /\ Cardinality(HeldOn(core)) = n
    BY Finite, FS_Subset DEF HeldOn, ShardInv, CountExact
  <2>2. Cardinality(HeldOn(core) \ {slot}) = n - 1 /\ n # 0
    BY <1>3, <2>1, FS_RemoveElement, FS_EmptySet
  <2> QED BY <2>1, <2>2
<1>7. Append(list, slot) \in Seq(ShardSlots) /\ IsInjective(Append(list, slot))
      /\ ToSet(Append(list, slot)) = ToSet(list) \cup {slot}
  BY <1>1, <1>3, PushFacts
<1>8. ShardTypes'
  <2>1. shards'[core] \in SlabShards
    BY <1>1, <1>4, <1>6, <1>7 DEF SlabShards
  <2>2. shards' \in [Cores -> SlabShards]
    BY <1>4, <2>1 DEF ShardInv, ShardTypes
  <2>3. DOMAIN held' \subseteq Cores \X ShardSlots
        /\ \A h \in DOMAIN held' : held'[h] \in Conns \cup {NoConn}
    BY <1>2 DEF ShardInv, ShardTypes
  <2> QED BY <1>2, <2>2, <2>3 DEF ShardTypes
<1>9. FreeExact(core)' /\ CountExact(core)'
  BY <1>1, <1>3, <1>4, <1>5, <1>6, <1>7 DEF FreeExact, CountExact
<1>10. GetExact(core)'
  <2>1. \A other \in ShardSlots :
          shards'[core].slots[other] = IF other = slot THEN NoConn ELSE shards[core].slots[other]
    BY <1>1, <1>4
  <2>2. \A other \in HeldOn(core)' : held'[<<core, other>>] = held[<<core, other>>]
    BY <1>2 DEF HeldOn
  <2> QED BY <1>5, <2>1, <2>2 DEF GetExact, ShardInv
<1>11. ASSUME NEW other \in Cores \ {core}
       PROVE  FreeExact(other)' /\ CountExact(other)' /\ GetExact(other)'
  <2>1. \A s \in HeldOn(other)' : held'[<<other, s>>] = held[<<other, s>>]
    BY <1>2 DEF HeldOn
  <2> QED BY <1>4, <1>5, <2>1 DEF FreeExact, CountExact, GetExact, ShardInv
<1>12. TotalExact'
  <2> DEFINE f == [other \in Cores |-> shards[other].allocated]
             g == [other \in Cores |-> shards'[other].allocated]
  <2>1. f \in [Cores -> Int] /\ g = [f EXCEPT ![core] = n - 1] /\ n - 1 \in Int /\ f[core] = n
    <3>1. \A other \in Cores : shards[other].allocated \in Nat
      BY DEF ShardInv, ShardTypes, SlabShards
    <3>2. shards'[core].allocated = n - 1
      BY <1>4
    <3>3. \A other \in Cores : g[other] = IF other = core THEN n - 1 ELSE f[other]
      BY <1>4, <3>2
    <3>4. f \in [Cores -> Int] /\ n - 1 \in Int
      BY <3>1
    <3>5. g = [f EXCEPT ![core] = n - 1]
      BY <3>3
    <3> QED BY <3>4, <3>5
  <2>2. SumFunction(g) = SumFunction(f) - f[core] + (n - 1)
    BY <2>1, Finite, SumExcept
  <2>3. SumFunction(f) = Cardinality(DOMAIN held)
    BY DEF ShardInv, TotalExact, TotalAllocated
  <2>4. IsFiniteSet(DOMAIN held) /\ Cardinality(DOMAIN held) \in Nat
    BY Finite, FS_CardinalityType DEF ShardInv
  <2>5. Cardinality(DOMAIN held') = Cardinality(DOMAIN held) - 1
    BY <1>2, <2>4, FS_RemoveElement
  <2>6. SumFunction(g) = Cardinality(DOMAIN held')
    <3>1. n \in Int
      BY <1>1
    <3> HIDE DEF f, g, n
    <3> QED BY <2>1, <2>2, <2>3, <2>4, <2>5, <3>1
  <2> QED BY <2>6 DEF TotalExact, TotalAllocated
<1> QED BY <1>8, <1>9, <1>10, <1>11, <1>12 DEF ShardInv

-----------------------------------------------------------------------------
(* Balancing. *)

\* Among some cores there is a least loaded one, the first of those.
LEMMA LeastLoadedFacts ==
  ASSUME ShardTypes, NEW cores \in SUBSET Cores, cores # {}
  PROVE  /\ LeastLoadedOf(cores) \in cores
         /\ \A other \in cores : Load(LeastLoadedOf(cores)) <= Load(other)
<1> DEFINE First(core) == \A other \in cores : /\ Load(core) <= Load(other)
                                               /\ Load(core) = Load(other) => core <= other
<1>1. \A core \in cores : core \in Nat /\ Load(core) \in Nat
  BY DEF ShardTypes, SlabShards, Load, Cores
<1>2. PICK core \in cores : \A other \in cores : Load(core) <= Load(other)
  <2> DEFINE loads == {Load(core) : core \in cores}
  <2>1. loads \in SUBSET Nat /\ loads # {}
    BY <1>1
  <2>2. PICK load \in loads : \A other \in loads : load <= other
    <3> HIDE DEF loads
    <3> QED BY <2>1, LeastOf
  <2> QED BY <2>2
<1> DEFINE least == {other \in cores : Load(other) = Load(core)}
<1>3. PICK first \in least : \A other \in least : first <= other
  <2>1. least \in SUBSET Nat /\ least # {}
    BY <1>1
  <2> HIDE DEF least
  <2> QED BY <2>1, LeastOf
<1>4. First(first)
  BY <1>1, <1>2, <1>3
<1>5. LeastLoadedOf(cores) \in cores /\ First(LeastLoadedOf(cores))
  BY <1>3, <1>4 DEF LeastLoadedOf
<1> QED BY <1>5

\* A shard has room unless every slot of it is held.
LEMMA RoomFacts ==
  ASSUME ShardInv, NEW core \in Cores
  PROVE  Has(core) <=> Load(core) < ShardCapacity
<1> DEFINE list == shards[core].free_list
<1>1. list \in Seq(ShardSlots) /\ ToSet(list) = ShardSlots \ HeldOn(core)
      /\ Load(core) = Cardinality(HeldOn(core))
  BY DEF ShardInv, ShardTypes, SlabShards, FreeExact, CountExact, Load
<1>2. Has(core) <=> ToSet(list) # {}
  <2>1. list # <<>> => list[1] \in ToSet(list)
    BY <1>1 DEF ToSet
  <2>2. list = <<>> => ToSet(list) = {}
    BY DEF ToSet
  <2> QED BY <2>1, <2>2 DEF Has
<1>3. HeldOn(core) \subseteq ShardSlots /\ IsFiniteSet(ShardSlots)
      /\ Cardinality(ShardSlots) = ShardCapacity
  BY Finite, FS_Interval, ShardedSlabAssumption DEF ShardSlots, HeldOn
<1>4. /\ Cardinality(HeldOn(core)) \in Nat /\ Cardinality(HeldOn(core)) <= ShardCapacity
      /\ Cardinality(HeldOn(core)) = ShardCapacity => HeldOn(core) = ShardSlots
      /\ HeldOn(core) = ShardSlots => Cardinality(HeldOn(core)) = ShardCapacity
  BY <1>3, FS_Subset, FS_CardinalityType
<1>5. ShardSlots \ HeldOn(core) # {} <=> HeldOn(core) # ShardSlots
  BY <1>3
<1> QED BY <1>1, <1>2, <1>4, <1>5, ShardedSlabAssumption

\* Balancing turns no connection away while one of the cores has room.
LEMMA BalancingFindsRoom ==
  ASSUME ShardInv, NEW cores \in SUBSET Cores, cores # {}
  PROVE  Has(LeastLoadedOf(cores)) <=> \E core \in cores : Has(core)
<1> DEFINE least == LeastLoadedOf(cores)
<1>1. least \in cores /\ \A other \in cores : Load(least) <= Load(other)
  BY LeastLoadedFacts DEF ShardInv
<1>2. \A core \in cores : /\ Has(core) <=> Load(core) < ShardCapacity
                          /\ Load(core) \in Nat
  BY RoomFacts DEF ShardInv, ShardTypes, SlabShards, Load
<1> HIDE DEF least
<1>3. ASSUME NEW core \in cores, Has(core) PROVE Has(least)
  BY <1>1, <1>2, <1>3, ShardedSlabAssumption
<1> QED BY <1>1, <1>3 DEF least

LEMMA ShardNextInv == ShardInv /\ [ShardNext]_shardVars => ShardInv'
<1> SUFFICES ASSUME ShardInv, [ShardNext]_shardVars PROVE ShardInv'
  OBVIOUS
<1>1. CASE UNCHANGED shardVars
  <2>1. shards' = shards /\ held' = held
    BY <1>1 DEF shardVars
  <2> QED BY <2>1 DEF ShardInv, ShardTypes, FreeExact, CountExact, GetExact, TotalExact,
             HeldOn, TotalAllocated
<1>2. ASSUME NEW core \in Cores, TakeSlot(core) PROVE ShardInv'
  BY <1>2, TakeSlotInv
<1>3. ASSUME NEW core \in Cores, NEW conn \in Conns, Allocate(core, conn) PROVE ShardInv'
  BY <1>3, AllocateInv
<1>4. ASSUME NEW core \in Cores, NEW slot \in ShardSlots, Deallocate(core, slot) PROVE ShardInv'
  BY <1>4, DeallocateInv
<1>5. ASSUME NEW core \in Cores, NEW slot \in ShardSlots, NEW conn \in Conns,
             InsertConnAt(core, slot, conn)
      PROVE  ShardInv'
  BY <1>5, InsertConnAtInv
<1>6. ASSUME NEW cores \in SUBSET Cores, cores # {}, NEW conn \in Conns,
             AllocateBalanced(cores, conn)
      PROVE  ShardInv'
  <2>1. LeastLoadedOf(cores) \in Cores
    BY <1>6, LeastLoadedFacts DEF ShardInv
  <2> QED BY <1>3, <1>6, <2>1 DEF AllocateBalanced
<1>7. Cores # {} /\ \A node : OnNode(node) \in SUBSET Cores
  BY ShardedSlabAssumption DEF Cores, OnNode
<1> QED BY <1>1, <1>2, <1>3, <1>4, <1>5, <1>6, <1>7 DEF ShardNext

\* The invariant of the sharded slab is that of its shards, and that the total of
\* their counters is the number of slots that are held (sharded.rs lines 40-69).
THEOREM ShardInvariance == ShardSpec => []ShardInv
<1> QED BY ShardInitInv, ShardNextInv, PTL DEF ShardSpec

\* Free lists, counters and contents are exact on every number of cores, and
\* balancing finds room wherever there is any (sharded.rs lines 40-69 and 133-190).
THEOREM ShardsAlwaysExact == ShardSpec => []ShardsExact
<1>1. ShardInv => ShardsExact
  <2> SUFFICES ASSUME ShardInv PROVE ShardsExact
    OBVIOUS
  <2>1. \A node : OnNode(node) \in SUBSET Cores
    BY DEF OnNode
  <2>2. \A cores \in ({Cores} \cup {OnNode(node) : node \in 0 .. NumNodes}) \ {{}} :
          cores \in SUBSET Cores /\ cores # {}
    BY <2>1
  <2>3. \A cores \in ({Cores} \cup {OnNode(node) : node \in 0 .. NumNodes}) \ {{}} :
          Has(LeastLoadedOf(cores)) <=> \E core \in cores : Has(core)
    BY <2>2, BalancingFindsRoom
  <2>4. TotalAllocated = Cardinality(DOMAIN held)
    BY DEF ShardInv, TotalExact
  <2> QED BY <2>3, <2>4 DEF ShardsExact, ShardInv, FreeExact, CountExact, GetExact
<1> QED BY ShardInvariance, <1>1, PTL
=============================================================================
