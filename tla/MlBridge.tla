------------------------------- MODULE MlBridge ------------------------------
(***************************************************************************)
(* The policy bridge of ners-ml (bridge.rs, features.rs): metrics are      *)
(* normalized into features, the latest of a window of them is what the    *)
(* embedded heuristic predicts an action from, and a prediction is kept    *)
(* and handed out again for a while.                                       *)
(*                                                                         *)
(* Fractions are in hundredths.  A sample has the metrics that the         *)
(* heuristic looks at, in the units of the maxima below.                   *)
(***************************************************************************)
EXTENDS Integers, SequencesExt

CONSTANTS
    Samples,         \* the metrics that are reported
    WindowSize,      \* window_size (60)
    CacheDuration,   \* cache_duration, in ticks of the clock
    MaxPredictions   \* bound: predictions made or refused

ASSUME MlBridgeAssumption ==
    /\ WindowSize \in Nat \ {0} /\ CacheDuration \in Nat \ {0}
    /\ MaxPredictions \in Nat

MinConfidence == 70
MaxLatency == 100    \* tenths of a millisecond
MaxQueue == 100      \* thousands of ids
MaxThroughput == 200 \* thousands of requests per second
MaxMemory == 8       \* gigabytes

VARIABLES
    window,          \* the features, the latest last
    cache,           \* [prediction, age in ticks], or Nothing
    prediction_count, fallback_count,
    bridge_enabled,
    handed,          \* the prediction that the last step returned, or Nothing
    reported,        \* the features that were added last
    current          \* features that were the last ones less than CacheDuration
                     \* ticks ago -> how many

bridgeVars == <<window, cache, prediction_count, fallback_count, bridge_enabled,
                handed, reported, current>>

Nothing == [action |-> "none"]

-----------------------------------------------------------------------------
Normalize(raw, max) == IF raw >= max THEN 100 ELSE (100 * raw) \div max

Extract(sample) ==
    [p99_latency     |-> Normalize(sample.p99_latency, MaxLatency),
     queue_depth     |-> Normalize(sample.queue_len, MaxQueue),
     throughput      |-> Normalize(sample.requests_per_sec, MaxThroughput),
     memory_pressure |-> Normalize(sample.memory_used, MaxMemory),
     error_rate      |-> Normalize(sample.error_count,
                                   IF sample.total_requests = 0 THEN 1
                                                                ELSE sample.total_requests)]

Features == {Extract(sample) : sample \in Samples}

Stable(f) == f.p99_latency < 20 /\ f.queue_depth < 50

\* The action of the first rule that applies, with its confidence.
Rule(f) ==
    IF f.p99_latency > 50 /\ f.queue_depth < 30
    THEN [action |-> "EnableBatching", confidence |-> 80]
    ELSE IF f.p99_latency > 50 /\ f.queue_depth > 70
    THEN [action |-> "IncreaseQueue", delta |-> f.queue_depth, confidence |-> 85]
    ELSE IF f.memory_pressure > 80 /\ f.throughput < 30
    THEN [action |-> "DecreaseQueue", delta |-> 50, confidence |-> 75]
    ELSE IF f.error_rate > 10
    THEN [action |-> "AdjustBackpressure", confidence |-> 90]
    ELSE [action |-> "NoOp", confidence |-> IF Stable(f) THEN 95 ELSE 50]

\* The prediction, with the latency expected after the action: four fifths of the
\* present one.
HeuristicPredict(f) ==
    LET rule == Rule(f)
    IN  rule @@ [predicted_p99 |-> IF rule.action = "NoOp" THEN f.p99_latency
                                   ELSE (f.p99_latency * 4) \div 5]

-----------------------------------------------------------------------------
BridgeInit ==
    /\ window = <<>>
    /\ cache = Nothing
    /\ prediction_count = 0 /\ fallback_count = 0
    /\ bridge_enabled = TRUE
    /\ handed = Nothing
    /\ reported = <<>> /\ current = <<>>

\* Mutant of Pushed: a full window keeps its features and drops the new ones.
PushedIfRoom(f) == IF Len(window) >= WindowSize THEN window ELSE Append(window, f)

\* The window with new features, the oldest making room.
Pushed(f) == Append(IF Len(window) >= WindowSize THEN Tail(window) ELSE window, f)

AddFeatures(sample) ==
    LET f == Extract(sample)
    IN  /\ window' = Pushed(f)
        /\ reported' = f
        /\ current' = [g \in DOMAIN current \cup {f} |-> IF g = f THEN 0 ELSE current[g]]
        /\ handed' = Nothing
        /\ UNCHANGED <<cache, prediction_count, fallback_count, bridge_enabled>>

\* Mutant of Cached: a prediction is kept for ever.
CachedForEver == cache # Nothing

Cached == cache # Nothing /\ cache.age < CacheDuration

\* What predict answers, and what it leaves behind.
PredictCached(prediction) ==
    /\ bridge_enabled /\ Cached
    /\ prediction = cache.prediction
    /\ UNCHANGED <<cache, prediction_count>>

PredictFresh(prediction) ==
    /\ bridge_enabled /\ ~Cached /\ window # <<>>
    /\ prediction = HeuristicPredict(Last(window))
    /\ cache' = [prediction |-> prediction, age |-> 0]
    /\ prediction_count' = prediction_count + 1

PredictFails(prediction) ==
    /\ ~bridge_enabled \/ (~Cached /\ window = <<>>)
    /\ prediction = Nothing
    /\ UNCHANGED <<cache, prediction_count>>

Predictions == {HeuristicPredict(f) : f \in Features} \cup {Nothing}

Predict ==
    /\ prediction_count + fallback_count < MaxPredictions
    /\ \E prediction \in Predictions :
         /\ PredictCached(prediction) \/ PredictFresh(prediction) \/ PredictFails(prediction)
         /\ handed' = prediction
    /\ UNCHANGED <<window, fallback_count, bridge_enabled, reported, current>>

PredictIfConfident ==
    /\ prediction_count + fallback_count < MaxPredictions
    /\ \E prediction \in Predictions :
         /\ PredictCached(prediction) \/ PredictFresh(prediction) \/ PredictFails(prediction)
         /\ IF prediction # Nothing /\ prediction.confidence >= MinConfidence
            THEN handed' = prediction /\ UNCHANGED fallback_count
            ELSE handed' = Nothing /\ fallback_count' = fallback_count + 1
    /\ UNCHANGED <<window, bridge_enabled, reported, current>>

SetBridgeEnabled(on) ==
    /\ bridge_enabled' = on
    /\ handed' = Nothing
    /\ UNCHANGED <<window, cache, prediction_count, fallback_count, reported, current>>

\* Time passes; the features that were added last stay current.
BridgeTick ==
    /\ cache' = IF Cached THEN [cache EXCEPT !.age = @ + 1] ELSE cache
    /\ current' = [f \in {f \in DOMAIN current : f = reported
                                               \/ current[f] + 1 < CacheDuration} |->
                     IF f = reported THEN 0 ELSE current[f] + 1]
    /\ handed' = Nothing
    /\ UNCHANGED <<window, prediction_count, fallback_count, bridge_enabled, reported>>

BridgeNext ==
    \/ \E sample \in Samples : AddFeatures(sample)
    \/ Predict
    \/ PredictIfConfident
    \/ \E on \in BOOLEAN : SetBridgeEnabled(on)
    \/ BridgeTick

BridgeSpec == BridgeInit /\ [][BridgeNext]_bridgeVars

-----------------------------------------------------------------------------
\* A prediction that is handed out, by either call and whether it comes from the
\* cache or not, is what the heuristic says of features that were the latest less
\* than cache_duration ago, also when the bridge was disabled in between (bridge.rs
\* lines 137-175 and 233-251).
PredictionsFresh ==
    handed # Nothing =>
        \E f \in DOMAIN current : handed = HeuristicPredict(f)

BridgeTypeOK ==
    /\ window \in Seq(Features) /\ Len(window) <= WindowSize
    /\ cache \in {Nothing} \cup [prediction : Predictions, age : 0 .. CacheDuration]
    /\ prediction_count \in Nat /\ fallback_count \in Nat
    /\ bridge_enabled \in BOOLEAN
    /\ handed \in Predictions
    /\ DOMAIN current \subseteq Features
=============================================================================
