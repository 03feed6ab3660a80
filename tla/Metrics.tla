------------------------------- MODULE Metrics -------------------------------
(***************************************************************************)
(* The counters of one stage (ners-metrics/src/lib.rs): the threads of the *)
(* stage record the requests they finish (record_stage_end) while one      *)
(* thread sets the counters back (reset).  Every access is Relaxed.        *)
(*                                                                         *)
(* A read-modify-write meets the latest value; a load returns any value    *)
(* that is not older than one the thread has seen.  Gauges and error       *)
(* counts are single fetch_adds and are left out.                          *)
(***************************************************************************)
EXTENDS Integers, SequencesExt

CONSTANTS
    Workers,         \* the threads that record
    Nanoseconds,     \* the latencies that they record
    MaxRecords,      \* bound: requests recorded between two resets
    MaxResets        \* bound: calls of reset

ASSUME MetricsAssumption ==
    /\ IsFiniteSet(Workers)
    /\ Nanoseconds \subseteq Nat
    /\ MaxRecords \in Nat /\ MaxResets \in Nat

VARIABLES
    processed_count,
    latency_sum_ns,
    maxima,          \* the values of latency_max_ns, the latest one last
    fresh,           \* worker -> the oldest of them that it may still load
    worker,          \* worker -> what it is doing
    resetting,       \* the counter that reset stores next, or "done"
    resets,          \* calls of reset so far
    counted,         \* latencies that must be in the counters, and
    countable        \* those that may be: see AddLatency

metricsVars == <<processed_count, latency_sum_ns, maxima, fresh, worker, resetting,
                 resets, counted, countable>>

MetricsInit ==
    /\ processed_count = 0
    /\ latency_sum_ns = 0
    /\ maxima = <<0>>
    /\ fresh = [w \in Workers |-> 1]
    /\ worker = [w \in Workers |-> [pc |-> "idle", latency_ns |-> 0, current_max |-> 0]]
    /\ resetting = "done"
    /\ resets = 0
    /\ counted = <<>> /\ countable = <<>>

latency_max_ns == Last(maxima)

\* The values that w may load from latency_max_ns, by their place.
Loadable(w) == fresh[w] .. Len(maxima)

-----------------------------------------------------------------------------
\* A worker hears of everything that has been done so far.
Hear(w) ==
    /\ worker[w].pc = "idle"
    /\ fresh' = [fresh EXCEPT ![w] = Len(maxima)]
    /\ UNCHANGED <<processed_count, latency_sum_ns, maxima, worker, resetting, resets,
                   counted, countable>>

\* A request has been processed and is being recorded.  When the worker has heard of
\* the last reset, and none is under way, the counters must have it until the next
\* one; in any case they may.
AddLatency(w, ns) ==
    /\ worker[w].pc = "idle"
    /\ Len(countable) < MaxRecords
    /\ latency_sum_ns' = latency_sum_ns + ns
    /\ worker' = [worker EXCEPT ![w].pc = "load", ![w].latency_ns = ns]
    /\ countable' = Append(countable, ns)
    /\ counted' = IF resetting = "done" /\ fresh[w] = Len(maxima)
                  THEN Append(counted, ns) ELSE counted
    /\ UNCHANGED <<processed_count, maxima, fresh, resetting, resets>>

\* The worker has the k-th value of the maximum at hand and compares.
Compare(w, k) ==
    /\ k \in Loadable(w)
    /\ fresh' = [fresh EXCEPT ![w] = k]
    /\ worker' = [worker EXCEPT ![w].current_max = maxima[k],
                                ![w].pc = IF worker[w].latency_ns > maxima[k]
                                          THEN "cas" ELSE "count"]
    /\ UNCHANGED <<processed_count, latency_sum_ns, maxima, resetting, resets,
                   counted, countable>>

LoadMax(w, k) == worker[w].pc = "load" /\ Compare(w, k)

\* Mutant of RaiseMax: a plain store in place of the compare-exchange.
RaiseMaxBlindly(w) ==
    /\ worker[w].pc = "cas"
    /\ maxima' = Append(maxima, worker[w].latency_ns)
    /\ fresh' = [fresh EXCEPT ![w] = Len(maxima')]
    /\ worker' = [worker EXCEPT ![w].pc = "count"]
    /\ UNCHANGED <<processed_count, latency_sum_ns, resetting, resets, counted, countable>>

\* compare_exchange_weak succeeds: the maximum still is what was loaded.
RaiseMax(w) ==
    /\ worker[w].pc = "cas"
    /\ latency_max_ns = worker[w].current_max
    /\ maxima' = Append(maxima, worker[w].latency_ns)
    /\ fresh' = [fresh EXCEPT ![w] = Len(maxima')]
    /\ worker' = [worker EXCEPT ![w].pc = "count"]
    /\ UNCHANGED <<processed_count, latency_sum_ns, resetting, resets, counted, countable>>

\* It fails, also without a reason, and brings a value to compare with.
RaiseFails(w, k) == worker[w].pc = "cas" /\ Compare(w, k)

IncProcessed(w) ==
    /\ worker[w].pc = "count"
    /\ processed_count' = processed_count + 1
    /\ worker' = [worker EXCEPT ![w].pc = "idle"]
    /\ UNCHANGED <<latency_sum_ns, maxima, fresh, resetting, resets, counted, countable>>

-----------------------------------------------------------------------------
\* The latencies that workers have begun to record and not finished.
UnderWay ==
    LET busy == SetToSeq({w \in Workers : worker[w].pc # "idle"})
    IN  [i \in DOMAIN busy |-> worker[busy[i]].latency_ns]

\* reset stores 0 in one counter after the other; what was recorded before it was
\* called is not to come back.
ResetProcessed ==
    /\ resetting = "done" /\ resets < MaxResets
    /\ processed_count' = 0
    /\ resetting' = "sum"
    /\ resets' = resets + 1
    /\ counted' = <<>> /\ countable' = UnderWay
    /\ UNCHANGED <<latency_sum_ns, maxima, fresh, worker>>

ResetSum ==
    /\ resetting = "sum"
    /\ latency_sum_ns' = 0
    /\ resetting' = "max"
    /\ UNCHANGED <<processed_count, maxima, fresh, worker, resets, counted, countable>>

\* Mutant of ResetMax: the maximum is forgotten.
ResetMaxNot ==
    /\ resetting = "max"
    /\ resetting' = "done"
    /\ UNCHANGED <<processed_count, latency_sum_ns, maxima, fresh, worker, resets,
                   counted, countable>>

ResetMax ==
    /\ resetting = "max"
    /\ maxima' = Append(maxima, 0)
    /\ resetting' = "done"
    /\ UNCHANGED <<processed_count, latency_sum_ns, fresh, worker, resets, counted,
                   countable>>

MetricsNext ==
    \/ \E w \in Workers :
         \/ Hear(w)
         \/ \E ns \in Nanoseconds : AddLatency(w, ns)
         \/ \E k \in DOMAIN maxima : LoadMax(w, k) \/ RaiseFails(w, k)
         \/ RaiseMax(w)
         \/ IncProcessed(w)
    \/ ResetProcessed \/ ResetSum \/ ResetMax

MetricsSpec == MetricsInit /\ [][MetricsNext]_metricsVars

-----------------------------------------------------------------------------
\* When nobody is inside a call, the count, the sum and the maximum account for
\* every request whose recording began after the last reset was done, and for none
\* whose recording ended before it was called: no update is lost to another thread
\* (the maximum is raised by a load and a compare-exchange that may meet one, lines
\* 56-72) and nothing from before a reset survives it (lines 214-224).
LatenciesCounted ==
    resetting = "done" /\ UnderWay = <<>> =>
        /\ Len(counted) <= processed_count /\ processed_count <= Len(countable)
        /\ SumFunction(counted) <= latency_sum_ns /\ latency_sum_ns <= SumFunction(countable)
        /\ \A i \in DOMAIN counted : counted[i] <= latency_max_ns
        /\ latency_max_ns \in {0} \cup ToSet(countable)

MetricsTypeOK ==
    /\ processed_count \in Nat /\ latency_sum_ns \in Nat
    /\ maxima \in Seq(Nanoseconds \cup {0}) /\ maxima # <<>>
    /\ fresh \in [Workers -> DOMAIN maxima]
    /\ worker \in [Workers -> [pc : {"idle", "load", "cas", "count"},
                               latency_ns : Nanoseconds \cup {0},
                               current_max : Nanoseconds \cup {0}]]
    /\ resetting \in {"done", "sum", "max"}
    /\ resets \in 0 .. MaxResets
    /\ counted \in Seq(Nanoseconds) /\ countable \in Seq(Nanoseconds)
=============================================================================
