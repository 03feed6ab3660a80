-------------------------------- MODULE Tuning -------------------------------
(***************************************************************************)
(* The tuning engine (tuner.rs) with its analyzer (analyzer.rs) and its two *)
(* policies (policy.rs).  The caller passes a snapshot of the metrics to    *)
(* process now and then; process derives actions from it, checks them       *)
(* against the constraints, logs them, and marks the last one as rolled     *)
(* back when the latency has grown by more than a half.  Applying an action *)
(* is a log message in this version.                                       *)
(*                                                                         *)
(* A snapshot has an average latency and a queue length for every stage.   *)
(* The latency and throughput trends, which no policy reads, and           *)
(* AdjustBackpressure, which no policy suggests, are left out.             *)
(***************************************************************************)
EXTENDS Integers, SequencesExt, Selection

CONSTANTS
    Stages,
    Latencies,       \* average latencies that are reported
    QueueLens,       \* queue lengths that are reported
    Target,          \* p99_target_ns
    Threshold,       \* queue_threshold
    TrendWindow,     \* trend_window
    MaxHistory,      \* snapshots that the analyzer keeps (60)
    MaxLog,          \* max_log_entries (1000)
    Constraints      \* what the engine may be given: [min_queue_size, max_queue_size]

ASSUME TuningAssumption ==
    /\ IsFiniteSet(Stages) /\ Stages # {}
    /\ Latencies \subseteq Nat /\ QueueLens \subseteq Nat
    /\ Target \in Nat /\ Threshold \in Nat
    /\ TrendWindow \in Nat \ {0} /\ MaxLog \in Nat \ {0}
    /\ MaxHistory \in Nat /\ MaxHistory > TrendWindow
    /\ Constraints \subseteq [min_queue_size : Nat, max_queue_size : Nat]

\* What tells the policies apart: the step and the memory pressure in tenths, the
\* most actions of one call, and the cooldown in units of 5 seconds.  The
\* conservative one checks that an increase is one, and suggests batching.
Policies ==
    [conservative |-> [step |-> 1, pressure |-> 8, limit |-> 3, cooldown |-> 2],
     aggressive   |-> [step |-> 2, pressure |-> 7, limit |-> 5, cooldown |-> 1]]
LongAgo == 2         \* at least every cooldown

Capacity == 10000    \* the total queue capacity that the analyzer assumes
Ceiling == 10000     \* no policy raises a queue further
Floor == 100         \* or lowers it below

VARIABLES
    policy,          \* the policy in use
    constraints,     \* and the constraints that actions are checked against
    since_action,    \* 5-second units since the policy's last_action
    history,         \* the queue lengths of the last snapshots
    latency,         \* the latencies of the latest one
    trends,          \* stage -> its queue_trend
    action_history,  \* the log: actions with their results
    last_baseline,   \* moving average of the latency
    enabled,
    returned         \* what process returned, if the last step was a call of it

vars == <<policy, constraints, since_action, history, latency, trends, action_history,
          last_baseline, enabled, returned>>

Smaller(a, b) == IF a < b THEN a ELSE b
Larger(a, b) == IF a > b THEN a ELSE b

-----------------------------------------------------------------------------
(* The analyzer. *)

Direction(past, current) ==
    LET avg == SumFunction(past) \div Len(past)
    IN  CASE current > avg + avg \div 10 -> "Increasing"
          [] current + avg \div 10 < avg -> "Decreasing"
          [] OTHER -> "Stable"

\* Room is made for a new snapshot before the trends are computed.
Kept == IF Len(history) >= MaxHistory THEN Tail(history) ELSE history

Lens(snapshots, s) == [i \in DOMAIN snapshots |-> snapshots[i][s]]

Window == SubSeq(Kept, Len(Kept) - TrendWindow + 1, Len(Kept))

\* Mutant of TrendsWith: a full history is not looked at again.
TrendsWithUntilFull(len) ==
    IF Len(Kept) < TrendWindow \/ Len(history) = MaxHistory THEN trends
    ELSE [s \in Stages |-> Direction(Lens(Window, s), len[s])]

TrendsWith(len) ==
    IF Len(Kept) < TrendWindow THEN trends
    ELSE [s \in Stages |-> Direction(Lens(Window, s), len[s])]

\* The stages that identify_bottleneck may name.
Bottlenecks(lat) ==
    {s \in Stages : lat[s] > Target /\ \A other \in Stages : lat[s] >= lat[other]}

\* Memory pressure above p tenths.
PressureAbove(p, len) == 10 * SumFunction(len) > p * Capacity

-----------------------------------------------------------------------------
(* The policies.  order is the iteration order of the map of stages. *)

Increase(s, size) == [kind |-> "IncreaseQueueSize", stage |-> s, new_size |-> size]
Decrease(s, size) == [kind |-> "DecreaseQueueSize", stage |-> s, new_size |-> size]
Batching(s) == [kind |-> "EnableBatching", stage |-> s]

Actions ==
    [kind : {"IncreaseQueueSize", "DecreaseQueueSize"}, stage : Stages, new_size : Nat]
        \cup [kind : {"EnableBatching"}, stage : Stages]

Orders == SetToSeqs(Stages)

P == Policies[policy]

\* The products in f64, truncated, are these quotients (for lengths that a queue
\* can have).
Raised(n) == Smaller((n * (10 + P.step)) \div 10, Ceiling)
Lowered(n) == Larger((n * (10 - P.step)) \div 10, Floor)

\* Mutant of Increases: the capped size is not compared with the queue's.
IncreasesUnchecked(lat, len, order) ==
    LET slowest == Members(order, Bottlenecks(lat))
    IN  IF slowest = <<>> THEN <<>>
        ELSE <<Increase(Head(slowest), Raised(len[Head(slowest)]))>>

Increases(lat, len, order) ==
    LET slowest == Members(order, Bottlenecks(lat))
    IN  IF slowest = <<>> THEN <<>>
        ELSE LET s == Head(slowest)
             IN  IF policy = "aggressive" \/ Raised(len[s]) > len[s]
                 THEN <<Increase(s, Raised(len[s]))>> ELSE <<>>

Decreases(len, order) ==
    LET large == Members(order, {s \in Stages : len[s] > Floor})
    IN  IF PressureAbove(P.pressure, len)
        THEN [i \in DOMAIN large |-> Decrease(large[i], Lowered(len[large[i]]))]
        ELSE <<>>

Batchings(len, trend, order) ==
    LET growing == Members(order, {s \in Stages : /\ len[s] > Threshold
                                                  /\ trend[s] = "Increasing"})
    IN  IF policy = "conservative"
        THEN [i \in DOMAIN growing |-> Batching(growing[i])]
        ELSE <<>>

Truncated(seq, n) == SubSeq(seq, 1, Smaller(Len(seq), n))

\* The actions that the policy suggests.
Analyze(lat, len, trend, order) ==
    IF since_action < P.cooldown THEN <<>>
    ELSE Truncated(Increases(lat, len, order) \o Decreases(len, order)
                     \o Batchings(len, trend, order),
                   P.limit)

-----------------------------------------------------------------------------
(* The engine. *)

\* validate_action: an increase is checked against the maximum only, a decrease against
\* the minimum only.
Valid(action) ==
    CASE action.kind = "IncreaseQueueSize" -> action.new_size <= constraints.max_queue_size
      [] action.kind = "DecreaseQueueSize" -> action.new_size >= constraints.min_queue_size
      [] action.kind = "EnableBatching" -> TRUE

ValidActions == {action \in Actions : Valid(action)}

\* The entry of the log for an action.
Entry(action) ==
    [action |-> action, result |-> IF Valid(action) THEN "Applied" ELSE "Rejected"]

Entries == [action : Actions, result : {"Applied", "Rejected", "RolledBack"}]

\* Mutant of Logged: the log is full one entry late.
LoggedLate(log, entries) ==
    LET all == log \o entries
    IN  SubSeq(all, Larger(1, Len(all) - MaxLog), Len(all))

\* The log with the entries added one by one, the oldest ones making room.
Logged(log, entries) ==
    LET all == log \o entries
    IN  SubSeq(all, Larger(1, Len(all) - MaxLog + 1), Len(all))

AvgLatency(lat) == SumFunction(lat) \div Cardinality(Stages)

ShouldRollback(avg) == last_baseline # 0 /\ avg > (last_baseline * 3) \div 2

\* Mutant of RolledBack: the last entry is marked whatever its result.
RolledBackAny(log) ==
    IF log # <<>> THEN [log EXCEPT ![Len(log)].result = "RolledBack"] ELSE log

\* The log after rollback_last_action.
RolledBack(log) ==
    IF log # <<>> /\ Last(log).result = "Applied"
    THEN [log EXCEPT ![Len(log)].result = "RolledBack"]
    ELSE log

\* Mutant of Baseline: a snapshot without latency counts.
BaselineWithZero(avg) ==
    IF last_baseline = 0 THEN avg ELSE (last_baseline * 9 + avg) \div 10

Baseline(avg) ==
    IF avg = 0 THEN last_baseline
    ELSE IF last_baseline = 0 THEN avg
    ELSE (last_baseline * 9 + avg) \div 10

\* A call while the engine is disabled returns nothing and changes nothing: a
\* stuttering step.
Process(lat, len) ==
    /\ enabled
    /\ history' = Append(Kept, len)
    /\ latency' = lat
    /\ trends' = TrendsWith(len)
    /\ \E order \in Orders :
         LET actions == Analyze(lat, len, trends', order)
             entries == [i \in DOMAIN actions |-> Entry(actions[i])]
             log == Logged(action_history, entries)
         IN  /\ returned' = Members(actions, ValidActions)
             /\ since_action' = IF actions = <<>> THEN since_action ELSE 0
             /\ action_history' = IF ShouldRollback(AvgLatency(lat))
                                  THEN RolledBack(log) ELSE log
    /\ last_baseline' = Baseline(AvgLatency(lat))
    /\ UNCHANGED <<policy, constraints, enabled>>

SetEnabled(on) ==
    /\ enabled' = on
    /\ returned' = <<>>
    /\ UNCHANGED <<policy, constraints, since_action, history, latency, trends,
                   action_history, last_baseline>>

\* Five seconds pass.
Tick ==
    /\ since_action < LongAgo
    /\ since_action' = since_action + 1
    /\ returned' = <<>>
    /\ UNCHANGED <<policy, constraints, history, latency, trends, action_history,
                   last_baseline, enabled>>

-----------------------------------------------------------------------------
Init ==
    /\ policy \in DOMAIN Policies /\ constraints \in Constraints
    /\ since_action = LongAgo
    /\ history = <<>>
    /\ latency = [s \in Stages |-> 0]
    /\ trends = [s \in Stages |-> "none"]
    /\ action_history = <<>>
    /\ last_baseline = 0
    /\ enabled = TRUE
    /\ returned = <<>>

Next ==
    \/ \E lat \in [Stages -> Latencies], len \in [Stages -> QueueLens] :
         Process(lat, len)
    \/ \E on \in BOOLEAN : SetEnabled(on)
    \/ Tick

Spec == Init /\ [][Next]_vars

-----------------------------------------------------------------------------
TypeOK ==
    /\ policy \in DOMAIN Policies /\ constraints \in Constraints
    /\ since_action \in 0 .. LongAgo
    /\ history \in Seq([Stages -> QueueLens]) /\ Len(history) <= MaxHistory
    /\ latency \in [Stages -> Latencies \cup {0}]
    /\ trends \in [Stages -> {"none", "Increasing", "Decreasing", "Stable"}]
    /\ action_history \in Seq(Entries) /\ Len(action_history) <= MaxLog
    /\ last_baseline \in Nat
    /\ enabled \in BOOLEAN
    /\ returned \in Seq(Actions)

ReturnedActions == {returned[i] : i \in DOMAIN returned}

\* In spite of the clamps at both ends a decrease asks for less than the queue holds,
\* and not for less than the floor; an increase asks for more with the conservative
\* policy, and with the aggressive one for less only where the queue is longer than
\* the ceiling (policy.rs lines 91-119 and 189-215).
ResizesGoTheirWay ==
    \A a \in ReturnedActions :
        LET len == Last(history)
        IN  /\ a.kind = "DecreaseQueueSize" =>
                 Floor <= a.new_size /\ a.new_size < len[a.stage]
            /\ a.kind = "IncreaseQueueSize" =>
                 /\ a.new_size <= Ceiling
                 /\ policy = "conservative" => a.new_size > len[a.stage]
                 /\ a.new_size < len[a.stage] => len[a.stage] > Ceiling

\* Batching is enabled only for a queue that overflows in the latest snapshot and
\* has grown over the snapshots just before it, also when the history is full and
\* shifts with every snapshot (analyzer.rs lines 76-83 and 139-181).  The comment at
\* policy.rs line 125 says "consistently overflowing"; only the latest snapshot is
\* looked at.
BatchingIsWarranted ==
    \A a \in ReturnedActions :
        a.kind = "EnableBatching" =>
            LET n == Len(history)
                before == SubSeq(history, n - TrendWindow, n - 1)
            IN  /\ n > TrendWindow
                /\ Last(history)[a.stage] > Threshold
                /\ \E i \in DOMAIN before :
                     before[i][a.stage] < Last(history)[a.stage]

Rejected == [action : Actions, result : {"Rejected"}]

ActionsOf(entries) == [i \in DOMAIN entries |-> entries[i].action]

\* The log keeps its record.  A step leaves the entries that it finds, but for the
\* oldest ones where the log is full, and adds one for each action of the call, of
\* which the ones not rejected are those that process returns.  A rollback marks the
\* newest entry alone, one that was applied, and only when the latency has grown: an
\* old entry, or one of this very call (tuner.rs lines 105-120 and 151-189).
LogKeepsRecord ==
    [][\E k \in 0 .. Len(action_history) :
         LET old == SubSeq(action_history, k + 1, Len(action_history))
             now == action_history'
             new == SubSeq(now, Len(old) + 1, Len(now))
             done == ActionsOf(Members(new, Entries \ Rejected))
             RollsBack(i) == /\ i = Len(now) /\ now[i].result = "RolledBack"
                             /\ 0 < last_baseline
                             /\ last_baseline < AvgLatency(latency')
         IN  /\ Len(old) <= Len(now)
             /\ k > 0 => Len(now) = MaxLog
             /\ \A i \in DOMAIN old :
                  \/ now[i] = old[i]
                  \/ /\ RollsBack(i)
                     /\ old[i] = [action |-> now[i].action, result |-> "Applied"]
             /\ \A i \in DOMAIN now :
                  i > Len(old) /\ now[i].result = "RolledBack" => RollsBack(i)
             /\ IF Len(new) < MaxLog THEN done = returned'
                                     ELSE IsSuffix(done, returned')]_vars

\* The baseline moves towards the latencies that are reported and never past them;
\* once set it never falls back to 0, which would disable the rollback (tuner.rs
\* lines 165 and 192-201).
BaselineFollows ==
    [][LET avg == AvgLatency(latency')
       IN  last_baseline' # last_baseline =>
             \/ last_baseline = 0 /\ last_baseline' = avg
             \/ last_baseline < last_baseline' /\ last_baseline' <= avg
             \/ 0 < avg /\ avg <= last_baseline' /\ last_baseline' < last_baseline]_vars
=============================================================================
