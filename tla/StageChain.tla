----------------------------- MODULE StageChain ------------------------------
(***************************************************************************)
(* What a chain of stages promises: an id enters at the source, is handed  *)
(* from stage to stage, each stage working on it in one step, and leaves   *)
(* the chain when a stage keeps it or the next queue is full.  An id is in *)
(* the chain at most once.                                                 *)
(*                                                                         *)
(* Executors implements it with threads, a mutex and batches; Pipeline is  *)
(* the same chain with the stages' work on the connections added.          *)
(***************************************************************************)
EXTENDS Naturals, Sequences

CONSTANTS
    Stages,    \* the stages, each with an input queue
    Source,    \* where ids enter
    Output,    \* source or stage -> the stage it pushes to; undefined for the last
    Ids,
    Room,      \* ids that a queue holds
    NoId       \* an empty hand

VARIABLES queue, hand

chainVars == <<queue, hand>>

Holders == Stages \cup {Source}

\* Nobody has id.
Absent(id) ==
    /\ \A s \in Holders : hand[s] # id
    /\ \A s \in Stages : \A i \in DOMAIN queue[s] : queue[s][i] # id

ChainInit ==
    /\ queue = [s \in Stages |-> <<>>]
    /\ hand = [s \in Holders |-> NoId]

Enter(id) ==
    /\ hand[Source] = NoId
    /\ Absent(id)
    /\ hand' = [hand EXCEPT ![Source] = id]
    /\ UNCHANGED queue

Take(s) ==
    /\ hand[s] = NoId
    /\ queue[s] # <<>>
    /\ hand' = [hand EXCEPT ![s] = Head(queue[s])]
    /\ queue' = [queue EXCEPT ![s] = Tail(@)]

\* s hands its id on, if there is room; s is not the last stage.
Pass(s) ==
    /\ hand[s] # NoId
    /\ s \in DOMAIN Output
    /\ Len(queue[Output[s]]) < Room
    /\ queue' = [queue EXCEPT ![Output[s]] = Append(@, hand[s])]
    /\ hand' = [hand EXCEPT ![s] = NoId]

\* The id leaves the chain.  A stage may drop it, the source only for want of room.
Drop(s) ==
    /\ hand[s] # NoId
    /\ s = Source => Len(queue[Output[s]]) >= Room
    /\ hand' = [hand EXCEPT ![s] = NoId]
    /\ UNCHANGED queue

ChainNext ==
    \/ \E id \in Ids : Enter(id)
    \/ \E s \in Stages : Take(s)
    \/ \E s \in Holders : Pass(s) \/ Drop(s)

ChainSpec == ChainInit /\ [][ChainNext]_chainVars
=============================================================================
