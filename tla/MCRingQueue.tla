---------------------------- MODULE MCRingQueue ------------------------------
(***************************************************************************)
(* The containers: RingQueue on a small ring, with len called between the  *)
(* pushes and pops, and ShardedSlab with three cores on two nodes, one of  *)
(* which is not there (the nodes do not divide the cores).  They share no  *)
(* state; a behaviour is one of one of them, chosen at the start.          *)
(***************************************************************************)
EXTENDS RingQueueLen, ShardedSlab

VARIABLE part    \* the module whose behaviour this is

MCInit == part \in {"ring", "shards"} /\ LenInit /\ ShardInit

MCNext ==
    /\ UNCHANGED part
    /\ \/ part = "ring" /\ LenNext /\ UNCHANGED shardVars
       \/ part = "shards" /\ ShardNext /\ UNCHANGED allVars

MCSpec == MCInit /\ [][MCNext]_<<allVars, shardVars, part>>
=============================================================================
