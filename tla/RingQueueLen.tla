---------------------------- MODULE RingQueueLen -----------------------------
(***************************************************************************)
(* RingQueue::len and is_empty (queue.rs lines 72-87), called by the       *)
(* producer's or the consumer's thread between its pushes or pops, while   *)
(* the other side goes on.  len loads head, then tail, both Relaxed: the   *)
(* caller sees its own index as it is, and of the other index any value    *)
(* that it may still load.                                                 *)
(***************************************************************************)
EXTENDS RingQueue

VARIABLES
    lby,     \* who is inside len, or None
    lhead,   \* the local copy of head, or None before it is loaded
    lres     \* [by |-> caller, len |-> answer] when len has just returned, or None

lenVars == <<lby, lhead, lres>>
allVars == <<vars, lenVars>>

Callers == {"producer", "consumer"}

ASSUME CallersAssumption == None \notin Callers

LenInit ==
    /\ Init
    /\ lby = None /\ lhead = None /\ lres = None

\* A thread is inside one call at a time.
MayCall(caller) ==
    /\ caller = "producer" => ppc = "idle"
    /\ caller = "consumer" => cpc = "idle"

LenCall(caller) ==
    /\ lby = None /\ lres = None
    /\ MayCall(caller)
    /\ lby' = caller
    /\ UNCHANGED <<vars, lhead, lres>>

LenLoadHead ==
    /\ lby # None /\ lhead = None
    /\ lhead' \in IF lby = "consumer" THEN {head} ELSE {heads[k] : k \in DOMAIN heads}
    /\ UNCHANGED <<vars, lby, lres>>

\* The values that the caller may load from tail.
Tails == IF lby = "producer" THEN {tail} ELSE {stores[k].tail : k \in DOMAIN stores}

\* Mutant of LenLoadTail: the distance is not taken round the end of the ring.
LenLoadTailNoWrap ==
    /\ lhead # None
    /\ \E t \in Tails :
         lres' = [by |-> lby, len |-> IF t >= lhead THEN t - lhead ELSE lhead - t]
    /\ lby' = None /\ lhead' = None
    /\ UNCHANGED vars

LenLoadTail ==
    /\ lhead # None
    /\ \E t \in Tails : lres' = [by |-> lby, len |-> LenOf(lhead, t)]
    /\ lby' = None /\ lhead' = None
    /\ UNCHANGED vars

\* The caller uses the answer and goes on.
LenDone ==
    /\ lres # None
    /\ lres' = None
    /\ UNCHANGED <<vars, lby, lhead>>

\* A thread that is inside len, or still acting on its answer, does not push or
\* pop; the other one goes on.
Free(thread) == lby # thread /\ (lres # None => lres.by # thread)

QueueStep ==
    /\ \/ Producer /\ Free("producer")
       \/ Consumer /\ Free("consumer")
    /\ UNCHANGED lenVars

LenNext ==
    \/ \E caller \in Callers : LenCall(caller)
    \/ LenLoadHead
    \/ LenLoadTail
    \/ LenDone
    \/ QueueStep

LenSpec == LenInit /\ [][LenNext]_allVars

-----------------------------------------------------------------------------
\* len errs on the safe side for the two threads that own the queue.  To the
\* producer it never understates, from the call until it pushes again: "len() <
\* room" does mean that a push fits (the consumer may have popped some since head
\* was loaded).  To the consumer it never overstates, until it pops again:
\* is_empty() = false (lines 85-87) means that its next pop returns an id.
LenOnSafeSide ==
    lres # None =>
        /\ lres.by = "producer" => lres.len >= LenOf(head, tail)
        /\ lres.by = "consumer" => lres.len <= LenOf(head, tail)
=============================================================================
