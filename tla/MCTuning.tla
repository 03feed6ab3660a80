------------------------------ MODULE MCTuning -------------------------------
(***************************************************************************)
(* What watches the server and advises it: Tuning, Metrics and MlBridge.   *)
(* The three share no state; a behaviour is one of one of them, chosen at  *)
(* the start.                                                              *)
(*                                                                         *)
(* Tuning has two parts, with snapshots and constraints of their own.  One *)
(* has a queue below the floor and one that overflows and brings the       *)
(* memory pressure, and a maximum that some increases exceed.  The other   *)
(* has the constraints that the engine has by default, and queues near the *)
(* floor, near the ceiling and above it.  The samples of MlBridge are one   *)
(* for each of four rules.                                                 *)
(***************************************************************************)
EXTENDS Tuning, Metrics, MlBridge

CONSTANT Instances    \* part -> [lats, lens, constraints]

ASSUME InstancesAssumption ==
    \A p \in DOMAIN Instances :
        /\ Instances[p].lats \subseteq Latencies /\ Instances[p].lens \subseteq QueueLens
        /\ Instances[p].constraints \in Constraints

Between(min, max) == [min_queue_size |-> min, max_queue_size |-> max]
MCInstances ==
    [tuning |-> [lats |-> {0, 10}, lens |-> {20, 6985}, constraints |-> Between(100, 7500)],
     clamps |-> [lats |-> {10}, lens |-> {105, 9500, 10500},
                 constraints |-> Between(100, 10000)]]
MCLatencies == {0, 10}
MCQueueLens == {20, 105, 6985, 9500, 10500}
MCConstraints == {Between(100, 7500), Between(100, 10000)}

Sample(p99, queue, rate, memory, errors) ==
    [p99_latency |-> p99, queue_len |-> queue, requests_per_sec |-> rate,
     memory_used |-> memory, error_count |-> errors, total_requests |-> errors]

MCSamples == {Sample(120, 90, 100, 1, 0), Sample(80, 50, 20, 7, 0),
              Sample(40, 50, 100, 1, 5), Sample(40, 50, 100, 1, 0)}

VARIABLE part    \* the part whose behaviour this is

allVars == <<vars, metricsVars, bridgeVars, part>>

MCInit ==
    /\ part \in DOMAIN Instances \cup {"metrics", "bridge"}
    /\ Init /\ MetricsInit /\ BridgeInit
    /\ IF part \in DOMAIN Instances
       THEN constraints = Instances[part].constraints
       ELSE policy = "conservative" /\ constraints = CHOOSE c \in Constraints : TRUE

TuningNext ==
    /\ part \in DOMAIN Instances
    /\ \/ \E lat \in [Stages -> Instances[part].lats], len \in [Stages -> Instances[part].lens] :
            Process(lat, len)
       \/ \E on \in BOOLEAN : SetEnabled(on)
       \/ Tick
    /\ UNCHANGED <<metricsVars, bridgeVars>>

MCNext ==
    /\ UNCHANGED part
    /\ \/ TuningNext
       \/ part = "metrics" /\ MetricsNext /\ UNCHANGED <<vars, bridgeVars>>
       \/ part = "bridge" /\ BridgeNext /\ UNCHANGED <<vars, metricsVars>>

MCSpec == MCInit /\ [][MCNext]_allVars

StageSymmetry == Permutations(Stages)

\* The variables of the three modules have their types.
TypesOK == TypeOK /\ MetricsTypeOK /\ BridgeTypeOK
=============================================================================
