------------------------------ MODULE MCPhase1 -------------------------------
(***************************************************************************)
(* Phase1 with queues that have room for every slot and a response that    *)
(* needs two writes.  Two clients do what they like; the late one connects *)
(* when both have, sends nothing, and takes a slot that is free or none.   *)
(***************************************************************************)
EXTENDS Phase1

CONSTANT Late    \* a client

Others == Clients \ {Late}

MCNext ==
    /\ Next
    /\ client'[Late].ask \in {None, "root"} /\ client'[Late].sent = 0
    /\ client'[Late].status # "left"
    /\ client'[Late].status # "new" =>
         client[Late].status # "new" \/ \A c \in Others : client[c].status # "new"

MCSpec == Init /\ [][MCNext]_vars /\ Fairness
=============================================================================
