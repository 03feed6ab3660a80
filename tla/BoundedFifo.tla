----------------------------- MODULE BoundedFifo -----------------------------
(***************************************************************************)
(* What a queue between two stages promises: a first-in first-out queue    *)
(* that holds at most Room connection ids.  The two sides are threads that *)
(* learn of each other late: of the ids in the queue, the consumer is sure *)
(* to find the first `seen` ones, and `owed` places that it has vacated    *)
(* are still taken to the producer.  push hands the id back when the queue *)
(* is full as far as the producer knows; pop answers None when the         *)
(* consumer knows of no id.  RingQueue implements this module.  Pipeline   *)
(* uses its queues with seen = Len(items) and owed = 0.                    *)
(***************************************************************************)
EXTENDS Naturals, Sequences

CONSTANTS
    Ids,     \* the connection ids that may be pushed
    Room,    \* how many ids fit
    None     \* the answer of a pop that finds nothing

VARIABLES
    items,   \* the ids in the queue, oldest first
    seen,    \* how many of them the consumer knows of
    owed,    \* how many vacated places the producer does not know of
    put,     \* the answer of the last push: [id |-> id, ok |-> BOOLEAN], or None
    got      \* the answer of the last pop: an id or None

fifoVars == <<items, seen, owed, put, got>>

FifoInit ==
    /\ items = <<>>
    /\ seen = 0 /\ owed = 0
    /\ put = None
    /\ got = None

\* The consumer learns of ids, the producer of vacated places.
Learn ==
    /\ seen' \in seen .. Len(items)
    /\ owed' \in 0 .. owed
    /\ UNCHANGED <<items, put, got>>

PushOk(id) ==
    /\ Len(items) + owed < Room
    /\ items' = Append(items, id)
    /\ put' = [id |-> id, ok |-> TRUE]
    /\ UNCHANGED <<seen, owed, got>>

PushFull(id) ==
    /\ owed' \in 0 .. owed
    /\ Len(items) + owed' = Room
    /\ put' = [id |-> id, ok |-> FALSE]
    /\ UNCHANGED <<items, seen, got>>

PopSome ==
    /\ seen > 0
    /\ got' = Head(items)
    /\ items' = Tail(items)
    /\ seen' = seen - 1
    /\ owed' = owed + 1
    /\ UNCHANGED put

PopNone ==
    /\ seen = 0
    /\ got' = None
    /\ UNCHANGED <<items, seen, owed, put>>

FifoNext ==
    \/ Learn
    \/ \E id \in Ids : PushOk(id) \/ PushFull(id)
    \/ PopSome
    \/ PopNone

FifoSpec == FifoInit /\ [][FifoNext]_fifoVars
=============================================================================
