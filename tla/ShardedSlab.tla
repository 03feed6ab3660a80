----------------------------- MODULE ShardedSlab -----------------------------
(***************************************************************************)
(* The slab with a shard per core (ners-core/src/slab/sharded.rs), and the *)
(* map of cores to NUMA nodes that it is laid out by (numa.rs).  Callers    *)
(* give back only slots that they hold.                                    *)
(***************************************************************************)
EXTENDS Integers, SequencesExt

CONSTANTS
    NumShards,       \* shards, one per core from 0
    ShardCapacity,   \* slots of a shard
    TotalCores,      \* cores of the machine, which need not be NumShards
    NumNodes,        \* its NUMA nodes
    Conns,           \* the states of connections
    NoConn           \* None of Option<ConnState>

\* With more nodes than cores detect_linux divides by zero (numa.rs line 60).
ASSUME ShardedSlabAssumption ==
    /\ NumShards \in Nat \ {0} /\ ShardCapacity \in Nat
    /\ NumNodes \in Nat \ {0} /\ TotalCores \in Nat /\ TotalCores >= NumNodes
    /\ NoConn \notin Conns

VARIABLES
    shards,          \* core -> [slots, free_list, allocated]
    held             \* what the callers hold: [core, slot] -> what they put there

shardVars == <<shards, held>>

Cores == 0 .. NumShards - 1
ShardSlots == 0 .. ShardCapacity - 1

\* The node of a core.  When the nodes do not divide the cores, the last cores get
\* a node that does not exist.
NodeOf(core) ==
    IF core < TotalCores THEN core \div (TotalCores \div NumNodes) ELSE 0

\* free_list is popped from its end.
ShardInit ==
    /\ shards = [core \in Cores |->
                   [slots |-> [i \in ShardSlots |-> NoConn],
                    free_list |-> [i \in 1 .. ShardCapacity |-> ShardCapacity - i],
                    allocated |-> 0]]
    /\ held = [h \in {} |-> NoConn]

Has(core) == shards[core].free_list # <<>>
NextSlot(core) == Last(shards[core].free_list)

\* SlabShard::allocate: a slot is taken, still without a connection.
Taken(core, slots) ==
    [slots |-> slots,
     free_list |-> Front(shards[core].free_list),
     allocated |-> shards[core].allocated + 1]

\* What the callers hold when one more of them has a slot.
Holding(core, slot, conn) ==
    [h \in DOMAIN held \cup {<<core, slot>>} |-> IF h = <<core, slot>> THEN conn ELSE held[h]]

TakeSlot(core) ==
    /\ Has(core)
    /\ shards' = [shards EXCEPT ![core] = Taken(core, shards[core].slots)]
    /\ held' = Holding(core, NextSlot(core), NoConn)

\* SlabShard::insert, by a caller that holds the slot.
InsertConnAt(core, slot, conn) ==
    /\ <<core, slot>> \in DOMAIN held
    /\ shards' = [shards EXCEPT ![core].slots[slot] = conn]
    /\ held' = [held EXCEPT ![<<core, slot>>] = conn]

\* ShardedSlabManager::allocate; it answers None on a full shard.
Allocate(core, conn) ==
    /\ Has(core)
    /\ shards' = [shards EXCEPT ![core] =
                    Taken(core, [shards[core].slots EXCEPT ![NextSlot(core)] = conn])]
    /\ held' = Holding(core, NextSlot(core), conn)

\* SlabShard::deallocate: a slot is put at the end of the free list.
Freed(core, slot, slots) ==
    [slots |-> slots,
     free_list |-> Append(shards[core].free_list, slot),
     allocated |-> shards[core].allocated - 1]

\* Mutant of Deallocate: the slot keeps its connection.
DeallocateKeeping(core, slot) ==
    /\ <<core, slot>> \in DOMAIN held
    /\ shards' = [shards EXCEPT ![core] = Freed(core, slot, shards[core].slots)]
    /\ held' = [h \in DOMAIN held \ {<<core, slot>>} |-> held[h]]

Deallocate(core, slot) ==
    /\ <<core, slot>> \in DOMAIN held
    /\ shards' = [shards EXCEPT ![core] =
                    Freed(core, slot, [shards[core].slots EXCEPT ![slot] = NoConn])]
    /\ held' = [h \in DOMAIN held \ {<<core, slot>>} |-> held[h]]

-----------------------------------------------------------------------------
Load(core) == shards[core].allocated

\* Mutant of LeastLoadedOf: the most loaded core is taken.
MostLoadedOf(cores) == CHOOSE core \in cores : \A other \in cores : Load(core) >= Load(other)

\* The first of the least loaded cores among some.
LeastLoadedOf(cores) ==
    CHOOSE core \in cores :
        \A other \in cores : /\ Load(core) <= Load(other)
                             /\ Load(core) = Load(other) => core <= other

OnNode(node) == {core \in Cores : NodeOf(core) = node}

\* A connection is put on the least loaded core, of all or of a node.
AllocateBalanced(cores, conn) == Allocate(LeastLoadedOf(cores), conn)

ShardNext ==
    \/ \E core \in Cores :
         \/ TakeSlot(core)
         \/ \E conn \in Conns : Allocate(core, conn)
         \/ \E slot \in ShardSlots :
              Deallocate(core, slot) \/ \E conn \in Conns : InsertConnAt(core, slot, conn)
    \/ \E node \in 0 .. NumNodes, conn \in Conns :
         OnNode(node) # {} /\ AllocateBalanced(OnNode(node), conn)
    \/ \E conn \in Conns : AllocateBalanced(Cores, conn)

ShardSpec == ShardInit /\ [][ShardNext]_shardVars

-----------------------------------------------------------------------------
HeldOn(core) == {slot \in ShardSlots : <<core, slot>> \in DOMAIN held}

TotalAllocated == SumFunction([core \in Cores |-> shards[core].allocated])

\* Over any sequence of calls a shard's free list has each slot that nobody holds,
\* once; its counter and total_allocated are exact; get finds what the holder put
\* into its slot and nothing in a free one (sharded.rs lines 40-69, 133-158); and
\* the least loaded core, of all or of a node, has room if any of them has, so that
\* balancing never turns a connection away while there is room (lines 170-190).
ShardsExact ==
    /\ \A core \in Cores :
         /\ IsInjective(shards[core].free_list)
         /\ ToSet(shards[core].free_list) = ShardSlots \ HeldOn(core)
         /\ shards[core].allocated = Cardinality(HeldOn(core))
         /\ \A slot \in ShardSlots :
              shards[core].slots[slot] =
                IF slot \in HeldOn(core) THEN held[<<core, slot>>] ELSE NoConn
    /\ TotalAllocated = Cardinality(DOMAIN held)
    /\ \A cores \in ({Cores} \cup {OnNode(node) : node \in 0 .. NumNodes}) \ {{}} :
         Has(LeastLoadedOf(cores)) <=> \E core \in cores : Has(core)
=============================================================================
