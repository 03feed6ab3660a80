------------------------------ MODULE ConnSlab -------------------------------
(***************************************************************************)
(* ConnSlab (ners-core/src/conn.rs): the fixed set of connection slots and *)
(* the list of the free ones.  insert and remove are whole calls: the slab *)
(* is only touched with its mutex held.  The operations are actions on the *)
(* slab's two variables; Pipeline makes them steps of its threads.         *)
(***************************************************************************)
EXTENDS Integers, Sequences, FiniteSets

CONSTANTS
    SlabCapacity,   \* number of slots
    NoConn          \* None in slots: a vacant slot

ASSUME SlabCapacityAssumption == SlabCapacity \in Nat

VARIABLES
    slots,          \* slot -> connection or NoConn
    free_list       \* the free slots; the last one is taken first

slabVars == <<slots, free_list>>

SlotIds == 0 .. SlabCapacity - 1

\* ConnSlab::new pushes the slots from the last to the first, so that the first
\* insert takes slot 0.
SlabInit ==
    /\ slots = [id \in SlotIds |-> NoConn]
    /\ free_list = [i \in 1 .. SlabCapacity |-> SlabCapacity - i]

\* The slot that the next insert takes.
NextFree == free_list[Len(free_list)]

\* insert finds a free slot and puts conn into it.
Insert(conn) ==
    /\ free_list # <<>>
    /\ slots' = [slots EXCEPT ![NextFree] = conn]
    /\ free_list' = SubSeq(free_list, 1, Len(free_list) - 1)

\* Mutant of Remove: the slot is emptied but not given back.
RemoveKeepsSlot(id) ==
    /\ slots' = [slots EXCEPT ![id] = NoConn]
    /\ UNCHANGED free_list

\* remove empties the slot and gives it back.  The code does not ask whether the
\* slot was occupied: only its callers keep a slot from being given back twice.
Remove(id) ==
    /\ slots' = [slots EXCEPT ![id] = NoConn]
    /\ free_list' = Append(free_list, id)

Occupied == {id \in SlotIds : slots[id] # NoConn}

active_count == SlabCapacity - Len(free_list)

-----------------------------------------------------------------------------
\* The free list holds each vacant slot exactly once and no occupied one: a slot
\* is never handed to two connections (remove pushes without checking, conn.rs
\* lines 138-146) and never lost.
FreeListExact ==
    /\ \A i, j \in DOMAIN free_list : free_list[i] = free_list[j] => i = j
    /\ \A id \in SlotIds :
         slots[id] = NoConn <=> \E i \in DOMAIN free_list : free_list[i] = id
=============================================================================
