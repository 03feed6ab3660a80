------------------------------ MODULE RingQueue ------------------------------
(***************************************************************************)
(* RingQueue (ners-core/src/queue.rs): the bounded single-producer single- *)
(* consumer ring between two stages.  push and pop run on two threads and  *)
(* take no lock; each of their loads and stores of an atomic is one step   *)
(* here, so every interleaving of the two calls is explored.               *)
(*                                                                         *)
(* A store becomes visible to the other thread late.  A thread loads its   *)
(* own index as it last stored it; of the other thread's stores it may     *)
(* load any that is not older than one it has already synchronised with.   *)
(* The stores of push are Release and the loads of pop Acquire, so that    *)
(* seeing one store of push means seeing all the stores before it; the     *)
(* same holds for head in the other direction.                             *)
(***************************************************************************)
EXTENDS Naturals, Sequences

CONSTANTS
    Capacity,  \* slots of the ring; one of them is always left free
    Ids,       \* the connection ids
    Empty,     \* usize::MAX, the mark of a slot never written
    None       \* None of Option<ConnId>, and a register not in use

ASSUME CapacityAssumption == Capacity \in Nat \ {0}
ASSUME IdsAssumption == Empty \notin Ids /\ None \notin Ids

VARIABLES
    buffer,    \* the slots, as the producer has stored them
    head,      \* next slot to pop, as the consumer has stored it
    tail,      \* next slot to push, as the producer has stored it
    stores,    \* [tail, buffer] after each store of push that pop may still load
    heads,     \* the values of head that push may still load
    ppc,       \* producer: the next access of push
    pid,       \* producer: the argument of push
    ptail,     \* producer: the local copy of tail
    cpc,       \* consumer: the next access of pop
    chead,     \* consumer: the local copy of head
    cval,      \* consumer: the value loaded from the slot
    put,       \* answer of the last push
    got        \* answer of the last pop

memory == <<buffer, head, tail, stores, heads>>
producerVars == <<ppc, pid, ptail, put>>
consumerVars == <<cpc, chead, cval, got>>
vars == <<memory, ppc, pid, ptail, cpc, chead, cval, put, got>>

Slots == 0 .. Capacity - 1

\* The slot after i.
Succ(i) == (i + 1) % Capacity

Init ==
    /\ buffer = [i \in Slots |-> Empty]
    /\ head = 0
    /\ tail = 0
    /\ stores = <<[tail |-> tail, buffer |-> buffer]>>
    /\ heads = <<head>>
    /\ ppc = "idle" /\ pid = None /\ ptail = 0 /\ put = None
    /\ cpc = "idle" /\ chead = 0 /\ cval = None /\ got = None

-----------------------------------------------------------------------------
(* A thread that loads the k-th of the stores it may see, with Acquire, can *)
(* no longer load an older one.                                            *)
Since(k, history) == SubSeq(history, k, Len(history))

-----------------------------------------------------------------------------
(* push: load tail, load head, store the slot, store tail. *)

\* push(id) is called and loads tail.
PushLoadTail(id) ==
    /\ ppc = "idle"
    /\ pid' = id
    /\ ptail' = tail
    /\ ppc' = "head"
    /\ UNCHANGED <<memory, put, consumerVars>>

\* push has loaded the k-th value of head.
LoadHead(k) ==
    /\ ppc = "head"
    /\ heads' = Since(k, heads)
    /\ UNCHANGED <<buffer, head, tail, stores, pid, ptail, consumerVars>>

\* Mutant of PushFull: the id is dropped and the caller told that it is in.
PushFullSaysOk(k) ==
    /\ LoadHead(k)
    /\ Succ(ptail) = heads[k]
    /\ put' = [id |-> pid, ok |-> TRUE]
    /\ ppc' = "idle"

\* It finds the ring full: the id is handed back.
PushFull(k) ==
    /\ LoadHead(k)
    /\ Succ(ptail) = heads[k]
    /\ put' = [id |-> pid, ok |-> FALSE]
    /\ ppc' = "idle"

\* Mutant of PushRoom: push does not look whether the ring is full.
PushRoomUnchecked(k) ==
    /\ LoadHead(k)
    /\ ppc' = "slot"
    /\ UNCHANGED put

\* It finds room.
PushRoom(k) ==
    /\ LoadHead(k)
    /\ Succ(ptail) # heads[k]
    /\ ppc' = "slot"
    /\ UNCHANGED put

\* Mutant of PushStoreSlot: the id goes into the slot after.
PushStoreNextSlot ==
    /\ ppc = "slot"
    /\ buffer' = [buffer EXCEPT ![Succ(ptail)] = pid]
    /\ stores' = Append(stores, [tail |-> tail, buffer |-> buffer'])
    /\ ppc' = "tail"
    /\ UNCHANGED <<head, tail, heads, pid, ptail, put, consumerVars>>

PushStoreSlot ==
    /\ ppc = "slot"
    /\ buffer' = [buffer EXCEPT ![ptail] = pid]
    /\ stores' = Append(stores, [tail |-> tail, buffer |-> buffer'])
    /\ ppc' = "tail"
    /\ UNCHANGED <<head, tail, heads, pid, ptail, put, consumerVars>>

\* push publishes the slot and returns.
PushStoreTail ==
    /\ ppc = "tail"
    /\ tail' = Succ(ptail)
    /\ stores' = Append(stores, [tail |-> tail', buffer |-> buffer])
    /\ put' = [id |-> pid, ok |-> TRUE]
    /\ ppc' = "idle"
    /\ UNCHANGED <<buffer, head, heads, pid, ptail, consumerVars>>

-----------------------------------------------------------------------------
(* pop: load head, load tail, load the slot, store head. *)

\* pop is called and loads head.
PopLoadHead ==
    /\ cpc = "idle"
    /\ chead' = head
    /\ cpc' = "tail"
    /\ UNCHANGED <<memory, cval, got, producerVars>>

\* pop has loaded tail or a slot from the k-th store.
LoadStore(k) ==
    /\ stores' = Since(k, stores)
    /\ UNCHANGED <<buffer, head, tail, heads, chead, producerVars>>

\* pop finds the ring empty.
PopEmpty(k) ==
    /\ cpc = "tail"
    /\ LoadStore(k)
    /\ chead = stores[k].tail
    /\ got' = None
    /\ cpc' = "idle"
    /\ UNCHANGED cval

\* Mutant of PopNonEmpty: tail is loaded with Relaxed, so that the stores before
\* the one that was loaded need not be visible.
PopNonEmptyRelaxed(k) ==
    /\ cpc = "tail"
    /\ chead # stores[k].tail
    /\ cpc' = "slot"
    /\ UNCHANGED <<memory, chead, cval, got, producerVars>>

\* pop finds something.
PopNonEmpty(k) ==
    /\ cpc = "tail"
    /\ LoadStore(k)
    /\ chead # stores[k].tail
    /\ cpc' = "slot"
    /\ UNCHANGED <<cval, got>>

PopLoadSlot(k) ==
    /\ cpc = "slot"
    /\ LoadStore(k)
    /\ cval' = stores[k].buffer[chead]
    /\ cpc' = "head"
    /\ UNCHANGED got

\* pop frees the slot and returns; a slot that holds the mark is answered None.
PopStoreHead ==
    /\ cpc = "head"
    /\ head' = Succ(chead)
    /\ heads' = Append(heads, head')
    /\ got' = IF cval = Empty THEN None ELSE cval
    /\ cpc' = "idle"
    /\ UNCHANGED <<buffer, tail, stores, chead, cval, producerVars>>

-----------------------------------------------------------------------------
Producer ==
    \/ \E id \in Ids : PushLoadTail(id)
    \/ \E k \in DOMAIN heads : PushFull(k) \/ PushRoom(k)
    \/ PushStoreSlot
    \/ PushStoreTail

Consumer ==
    \/ PopLoadHead
    \/ \E k \in DOMAIN stores : PopEmpty(k) \/ PopNonEmpty(k) \/ PopLoadSlot(k)
    \/ PopStoreHead

Next == Producer \/ Consumer

Spec == Init /\ [][Next]_vars

-----------------------------------------------------------------------------
\* len(), of one value of head and one of tail.
LenOf(h, t) == IF t >= h THEN t - h ELSE Capacity - h + t

\* The slot of the k-th published id, counted from 1.
SlotOf(k) == (head + (k - 1)) % Capacity

\* The published ids, oldest first: what the ring stands for as a queue.
Items == [k \in 1 .. LenOf(head, tail) |-> buffer[SlotOf(k)]]

\* How many of them pop is sure to find, and how many places vacated by pop are
\* still taken to push.
Seen == LenOf(head, stores[1].tail)
Owed == LenOf(heads[1], tail) - LenOf(head, tail)

Fifo == INSTANCE BoundedFifo
            WITH Room <- Capacity - 1, items <- Items, seen <- Seen, owed <- Owed

-----------------------------------------------------------------------------
Answers == [id : Ids, ok : BOOLEAN] \cup {None}
Contents == [Slots -> Ids \cup {Empty}]

TypeOK ==
    /\ buffer \in Contents
    /\ head \in Slots
    /\ tail \in Slots
    /\ stores \in Seq([tail : Slots, buffer : Contents]) \ {<<>>}
    /\ heads \in Seq(Slots) \ {<<>>}
    /\ ppc \in {"idle", "head", "slot", "tail"}
    /\ pid \in Ids \cup {None}
    /\ ptail \in Slots
    /\ cpc \in {"idle", "tail", "slot", "head"}
    /\ chead \in Slots
    /\ cval \in Ids \cup {Empty, None}
    /\ put \in Answers
    /\ got \in Ids \cup {None}

\* While push is about to write a slot and pop is about to read one, they are
\* different slots: the two threads never meet in a slot (push lines 42-46
\* against pop lines 57-61).
SlotsApart == (ppc = "slot" /\ cpc = "slot") => ptail # chead

\* The ring implements the bounded queue with room for Capacity - 1 ids, whatever
\* the threads see late: a push loses nothing and answers Err only when the ring
\* is full as far as it can know, a pop answers None only when it cannot know of
\* an id (never for the usize::MAX mark or an old id in a slot whose store it does
\* not see) and returns the ids in the order they were pushed, each once.
FifoRefinement == Fifo!FifoSpec

-----------------------------------------------------------------------------
(* The inductive invariant, one conjunct per thing the threads rely on. *)

\* A value of head that push may load is never ahead of head, and the older it is
\* the fuller it makes the ring look.
HeadsInv ==
    /\ \A k \in DOMAIN heads : LenOf(heads[k], tail) >= LenOf(head, tail)
    /\ \A j, k \in DOMAIN heads :
         j <= k => LenOf(heads[j], tail) >= LenOf(heads[k], tail)

\* A tail that pop may load is never ahead of tail nor behind head, the older it is
\* the emptier it makes the ring look, and every slot before it holds what was
\* pushed.
StoresInv ==
    /\ \A k \in DOMAIN stores :
         /\ LenOf(head, stores[k].tail) <= LenOf(head, tail)
         /\ \A i \in Slots : LenOf(head, i) < LenOf(head, stores[k].tail)
                                => stores[k].buffer[i] = buffer[i]
    /\ \A j, k \in DOMAIN stores :
         j <= k => LenOf(head, stores[j].tail) <= LenOf(head, stores[k].tail)

\* What the producer's registers tell it about the ring.
ProducerInv ==
    /\ ppc # "idle" => ptail = tail /\ pid \in Ids
    /\ ppc \in {"slot", "tail"} =>
         \A k \in DOMAIN heads : LenOf(heads[k], tail) < Capacity - 1
    /\ ppc = "tail" => buffer[tail] = pid

\* What the consumer's registers tell it about the ring.
ConsumerInv ==
    /\ cpc # "idle" => chead = head
    /\ cpc \in {"slot", "head"} => \A k \in DOMAIN stores : stores[k].tail # head
    /\ cpc = "head" => cval = buffer[head]

\* Every published slot holds an id that was pushed.
PublishedInv == \A i \in Slots : LenOf(head, i) < LenOf(head, tail) => buffer[i] \in Ids

IInv == TypeOK /\ HeadsInv /\ StoresInv /\ ProducerInv /\ ConsumerInv /\ PublishedInv
=============================================================================
