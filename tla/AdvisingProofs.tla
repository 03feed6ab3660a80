---------------------------- MODULE AdvisingProofs ---------------------------
(***************************************************************************)
(* What the advisers of the server promise, proved: the bridge hands out   *)
(* fresh predictions, the counters of a stage lose no update, and the      *)
(* tuning engine suggests, returns and logs what it says.  Each part has   *)
(* an inductive invariant of its own; at the end they are put together.    *)
(***************************************************************************)
EXTENDS MCTuning, DataFacts, TLAPS

-----------------------------------------------------------------------------
(* The bridge: what is predicted, kept and handed out again. *)

\* The features that were reported last are the latest of the window, and current.
LatestReported ==
    window # <<>> => Last(window) = reported /\ reported \in DOMAIN current

\* A prediction in the cache is about features that ceased to be the latest no
\* longer ago than it was made, if they did at all.
CacheFresh ==
    Cached =>
        \E f \in DOMAIN current :
            /\ cache.prediction = HeuristicPredict(f)
            /\ f = reported \/ current[f] <= cache.age

BridgeInv ==
    /\ BridgeTypeOK
    /\ current \in [DOMAIN current -> Nat]
    /\ reported \in DOMAIN current => current[reported] = 0
    /\ LatestReported
    /\ CacheFresh
    /\ PredictionsFresh

LEMMA BridgeInitInv == BridgeInit => BridgeInv
<1> SUFFICES ASSUME BridgeInit PROVE BridgeInv
  OBVIOUS
<1>1. window = <<>> /\ cache = Nothing /\ handed = Nothing /\ current = <<>>
  BY DEF BridgeInit
<1>2. window \in Seq(Features) /\ Len(window) = 0 /\ DOMAIN current = {}
  BY <1>1
<1>3. 0 <= WindowSize
  BY MlBridgeAssumption
<1>4. BridgeTypeOK
  BY <1>1, <1>2, <1>3 DEF BridgeInit, BridgeTypeOK, Predictions
<1>5. current \in [DOMAIN current -> Nat]
  BY <1>1, <1>2
<1>6. LatestReported /\ CacheFresh /\ PredictionsFresh
  BY <1>1 DEF LatestReported, CacheFresh, Cached, PredictionsFresh
<1> QED BY <1>2, <1>4, <1>5, <1>6 DEF BridgeInv

\* New features become the latest ones.
LEMMA AddFeaturesInv ==
  ASSUME BridgeInv, NEW sample \in Samples, AddFeatures(sample) PROVE BridgeInv'
<1> DEFINE f == Extract(sample)
           kept == IF Len(window) >= WindowSize THEN Tail(window) ELSE window
<1>1. f \in Features
  BY DEF Features
<1>2. /\ window' = Append(kept, f) /\ reported' = f /\ handed' = Nothing
      /\ UNCHANGED <<cache, prediction_count, fallback_count, bridge_enabled>>
  BY DEF AddFeatures, Pushed
<1>3. /\ DOMAIN current' = DOMAIN current \cup {f} /\ current'[f] = 0
      /\ \A g \in DOMAIN current \ {f} : current'[g] = current[g]
      /\ current' \in [DOMAIN current' -> Nat]
  <2> HIDE DEF f
  <2>1. current' = [g \in DOMAIN current \cup {f} |-> IF g = f THEN 0 ELSE current[g]]
    BY DEF AddFeatures, f
  <2>2. current \in [DOMAIN current -> Nat]
    BY DEF BridgeInv
  <2> QED BY <2>1, <2>2
<1> HIDE DEF f
<1>4. /\ window' \in Seq(Features) /\ Len(window') <= WindowSize
      /\ window' # <<>> /\ Last(window') = f
  <2>1. window \in Seq(Features) /\ Len(window) <= WindowSize /\ WindowSize \in Nat \ {0}
    BY MlBridgeAssumption DEF BridgeInv, BridgeTypeOK
  <2>2. kept \in Seq(Features) /\ Len(kept) < WindowSize
    BY <2>1
  <2> HIDE DEF kept
  <2>3. Append(kept, f) \in Seq(Features) /\ Len(Append(kept, f)) = Len(kept) + 1
    BY <1>1, <2>2
  <2>4. Append(kept, f)[Len(kept) + 1] = f /\ Append(kept, f) # <<>> /\ Len(kept) \in Nat
    BY <1>1, <2>2, AppendProperties
  <2> QED BY <1>2, <2>1, <2>2, <2>3, <2>4 DEF Last
<1>5. BridgeTypeOK'
  <2>1. Nothing \in Predictions
    BY DEF Predictions
  <2> QED BY <1>1, <1>2, <1>3, <1>4, <2>1 DEF BridgeInv, BridgeTypeOK, Predictions
<1>6. CacheFresh'
  <2> SUFFICES ASSUME Cached
               PROVE  \E g \in DOMAIN current' :
                        /\ cache.prediction = HeuristicPredict(g)
                        /\ g = reported' \/ current'[g] <= cache.age
    BY <1>2 DEF CacheFresh, Cached
  <2>1. PICK g \in DOMAIN current : /\ cache.prediction = HeuristicPredict(g)
                                    /\ g = reported \/ current[g] <= cache.age
    BY DEF BridgeInv, CacheFresh
  <2>2. cache.age \in Nat
    BY MlBridgeAssumption DEF BridgeInv, BridgeTypeOK, Cached
  <2>3. g = f \/ current'[g] = current[g]
    BY <1>3, <2>1
  <2>4. g # f => current'[g] <= cache.age
    BY <2>1, <2>2, <2>3 DEF BridgeInv
  <2> QED BY <1>2, <1>3, <2>1, <2>4
<1>7. LatestReported' /\ PredictionsFresh'
  BY <1>2, <1>3, <1>4 DEF LatestReported, PredictionsFresh
<1> QED BY <1>2, <1>3, <1>5, <1>6, <1>7 DEF BridgeInv

\* What predict answers is about current features, and it keeps what it answers.
LEMMA PredictInv ==
  ASSUME BridgeInv, NEW prediction \in Predictions,
         PredictCached(prediction) \/ PredictFresh(prediction) \/ PredictFails(prediction),
         handed' = prediction \/ handed' = Nothing,
         fallback_count' \in Nat, UNCHANGED <<window, bridge_enabled, reported, current>>
  PROVE  BridgeInv'
<1>1. Nothing \in Predictions
  BY DEF Predictions
<1>2. CASE PredictFresh(prediction)
  <2>1. reported \in DOMAIN current /\ prediction = HeuristicPredict(reported)
    BY <1>2 DEF BridgeInv, LatestReported, PredictFresh
  <2>2. cache' = [prediction |-> prediction, age |-> 0] /\ prediction_count' = prediction_count + 1
    BY <1>2 DEF PredictFresh
  <2>3. cache'.prediction = prediction /\ cache'.age = 0
    BY <2>2
  <2>4. BridgeTypeOK'
    BY <1>1, <2>2, <2>3, MlBridgeAssumption DEF BridgeInv, BridgeTypeOK
  <2>5. CacheFresh' /\ PredictionsFresh'
    BY <2>1, <2>3 DEF CacheFresh, Cached, PredictionsFresh
  <2> QED BY <2>4, <2>5 DEF BridgeInv, LatestReported
<1>3. CASE PredictCached(prediction)
  <2>1. UNCHANGED <<cache, prediction_count>> /\ Cached /\ prediction = cache.prediction
    BY <1>3 DEF PredictCached
  <2>2. BridgeTypeOK'
    BY <1>1, <2>1 DEF BridgeInv, BridgeTypeOK
  <2>3. CacheFresh' /\ PredictionsFresh'
    BY <2>1 DEF BridgeInv, CacheFresh, Cached, PredictionsFresh
  <2> QED BY <2>2, <2>3 DEF BridgeInv, LatestReported
<1>4. CASE PredictFails(prediction)
  <2>1. UNCHANGED <<cache, prediction_count>> /\ prediction = Nothing
    BY <1>4 DEF PredictFails
  <2>2. BridgeTypeOK'
    BY <1>1, <2>1 DEF BridgeInv, BridgeTypeOK
  <2>3. CacheFresh' /\ PredictionsFresh'
    BY <2>1 DEF BridgeInv, CacheFresh, Cached, PredictionsFresh
  <2> QED BY <2>2, <2>3 DEF BridgeInv, LatestReported
<1> QED BY <1>2, <1>3, <1>4

\* A tick ages the cache and the features that are not the latest alike.
LEMMA BridgeTickInv == ASSUME BridgeInv, BridgeTick PROVE BridgeInv'
<1> DEFINE left == {f \in DOMAIN current : f = reported \/ current[f] + 1 < CacheDuration}
<1>1. /\ cache' = IF Cached THEN [cache EXCEPT !.age = @ + 1] ELSE cache
      /\ current' = [f \in left |-> IF f = reported THEN 0 ELSE current[f] + 1]
      /\ handed' = Nothing
      /\ UNCHANGED <<window, prediction_count, fallback_count, bridge_enabled, reported>>
  BY DEF BridgeTick
<1>2. /\ DOMAIN current' = left /\ left \subseteq DOMAIN current
      /\ current' \in [DOMAIN current' -> Nat]
      /\ reported \in DOMAIN current => reported \in DOMAIN current' /\ current'[reported] = 0
  BY <1>1 DEF BridgeInv
<1>3. ASSUME Cached
      PROVE  /\ cache.age \in 0 .. CacheDuration - 1
             /\ cache' \in [prediction : Predictions, age : 0 .. CacheDuration]
             /\ cache'.prediction = cache.prediction /\ cache'.age = cache.age + 1
  <2>1. cache # Nothing /\ cache.age < CacheDuration /\ CacheDuration \in Nat
    BY <1>3, MlBridgeAssumption DEF Cached
  <2>2. PICK p \in Predictions, a \in 0 .. CacheDuration :
          cache = [prediction |-> p, age |-> a]
    BY <2>1 DEF BridgeInv, BridgeTypeOK
  <2>3. cache' = [prediction |-> p, age |-> a + 1]
    BY <1>1, <1>3, <2>2
  <2> QED BY <2>1, <2>2, <2>3
<1> HIDE DEF left
<1>4. BridgeTypeOK'
  <2>1. Nothing \in Predictions
    BY DEF Predictions
  <2>2. cache' \in {Nothing} \cup [prediction : Predictions, age : 0 .. CacheDuration]
    BY <1>1, <1>3 DEF BridgeInv, BridgeTypeOK
  <2> QED BY <1>1, <1>2, <2>1, <2>2 DEF BridgeInv, BridgeTypeOK
<1>5. CacheFresh'
  <2> SUFFICES ASSUME Cached'
               PROVE  \E g \in DOMAIN current' :
                        /\ cache'.prediction = HeuristicPredict(g)
                        /\ g = reported' \/ current'[g] <= cache'.age
    BY DEF CacheFresh
  <2>1. Cached /\ cache'.age < CacheDuration
    BY <1>1 DEF Cached
  <2>2. PICK g \in DOMAIN current : /\ cache.prediction = HeuristicPredict(g)
                                    /\ g = reported \/ current[g] <= cache.age
    BY <2>1 DEF BridgeInv, CacheFresh
  <2>3. current[g] \in Nat /\ CacheDuration \in Nat
    BY MlBridgeAssumption DEF BridgeInv
  <2>4. g # reported => current[g] + 1 <= cache'.age /\ current[g] + 1 < CacheDuration
    BY <1>3, <2>1, <2>2, <2>3
  <2>5. g \in left
    BY <2>2, <2>4 DEF left
  <2>6. g # reported => current'[g] = current[g] + 1
    BY <1>1, <2>5
  <2> QED BY <1>1, <1>2, <1>3, <2>1, <2>2, <2>4, <2>5, <2>6
<1>6. LatestReported' /\ PredictionsFresh'
  BY <1>1, <1>2 DEF BridgeInv, LatestReported, PredictionsFresh
<1> QED BY <1>1, <1>2, <1>4, <1>5, <1>6 DEF BridgeInv

LEMMA BridgeNextInv == BridgeInv /\ [BridgeNext]_bridgeVars => BridgeInv'
<1> SUFFICES ASSUME BridgeInv, [BridgeNext]_bridgeVars PROVE BridgeInv'
  OBVIOUS
<1>1. CASE UNCHANGED bridgeVars
  BY <1>1 DEF BridgeInv, BridgeTypeOK, LatestReported, CacheFresh, Cached, PredictionsFresh,
     bridgeVars
<1>2. CASE \E sample \in Samples : AddFeatures(sample)
  BY <1>2, AddFeaturesInv
<1>3. fallback_count \in Nat /\ fallback_count + 1 \in Nat
  BY DEF BridgeInv, BridgeTypeOK
<1>4. CASE Predict
  BY <1>3, <1>4, PredictInv DEF Predict
<1>5. CASE PredictIfConfident
  <2>1. PICK prediction \in Predictions :
          /\ PredictCached(prediction) \/ PredictFresh(prediction) \/ PredictFails(prediction)
          /\ \/ handed' = prediction /\ fallback_count' = fallback_count
             \/ handed' = Nothing /\ fallback_count' = fallback_count + 1
    BY <1>5 DEF PredictIfConfident
  <2>2. UNCHANGED <<window, bridge_enabled, reported, current>>
    BY <1>5 DEF PredictIfConfident
  <2>3. fallback_count' \in Nat /\ (handed' = prediction \/ handed' = Nothing)
    BY <1>3, <2>1
  <2> HIDE DEF PredictIfConfident
  <2> QED BY <2>1, <2>2, <2>3, PredictInv
<1>6. CASE \E on \in BOOLEAN : SetBridgeEnabled(on)
  <2>1. /\ bridge_enabled' \in BOOLEAN /\ handed' = Nothing
        /\ UNCHANGED <<window, cache, prediction_count, fallback_count, reported, current>>
    BY <1>6 DEF SetBridgeEnabled
  <2>2. Nothing \in Predictions
    BY DEF Predictions
  <2> QED BY <2>1, <2>2 DEF BridgeInv, BridgeTypeOK, LatestReported, CacheFresh, Cached,
             PredictionsFresh
<1>7. CASE BridgeTick
  BY <1>7, BridgeTickInv
<1> QED BY <1>1, <1>2, <1>4, <1>5, <1>6, <1>7 DEF BridgeNext

\* The bridge's invariant holds of every behaviour of it (bridge.rs lines 137-251).
THEOREM BridgeInvariance == BridgeSpec => []BridgeInv
<1> QED BY BridgeInitInv, BridgeNextInv, PTL DEF BridgeSpec

\* Whatever is predicted, cached, toggled and reported in whatever order, a
\* prediction that is handed out was made of features that were the latest less than
\* cache_duration ago (bridge.rs lines 137-175 and 233-251).
THEOREM PredictionsStayFresh == BridgeSpec => []PredictionsFresh
<1>1. BridgeInv => PredictionsFresh
  BY DEF BridgeInv
<1> QED BY <1>1, BridgeInvariance, PTL
-----------------------------------------------------------------------------
(* The counters of a stage: what they account for. *)

\* The workers inside a call.
Busy == {w \in Workers : worker[w].pc # "idle"}

\* Every latency that may be in the counters has been counted, or is about to be.
AllProcessed == processed_count + Cardinality(Busy) = Len(countable)

\* Once reset has stored 0 in it, the sum has what it must have, and no more than
\* it may have.
SumWithin ==
    resetting # "sum" => /\ SumFunction(counted) <= latency_sum_ns
                         /\ latency_sum_ns <= SumFunction(countable)

\* Nothing must be in the counters while they are set back.
NothingYet == resetting # "done" => counted = <<>>

\* Worker w will have compared the maximum with its latency before it is idle, and
\* whatever it loads is not above the latest maximum.
WillRaise(w) ==
    /\ worker[w].pc \in {"load", "cas"}
    /\ \A k \in fresh[w] .. Len(maxima) : maxima[k] <= latency_max_ns

\* A latency that must be in the maximum is, or will be.
MaxCovers ==
    \A i \in DOMAIN counted :
        \/ counted[i] <= latency_max_ns
        \/ \E w \in Workers : WillRaise(w) /\ worker[w].latency_ns = counted[i]

RaisesOnly == \A w \in Workers : worker[w].pc = "cas" => worker[w].latency_ns > worker[w].current_max

\* What a worker is recording may be in the counters, and the maximum has nothing
\* else once it has been set back.
BusyCountable == \A w \in Busy : worker[w].latency_ns \in ToSet(countable)

MaxWithin == resetting = "done" => latency_max_ns \in {0} \cup ToSet(countable)

MetricsInv ==
    /\ MetricsTypeOK
    /\ AllProcessed /\ Len(counted) <= Len(countable)
    /\ SumWithin /\ NothingYet
    /\ MaxCovers /\ RaisesOnly /\ BusyCountable /\ MaxWithin

\* The sequence of a finite set has each of its elements at one place.
LEMMA SetToSeqFacts ==
  ASSUME NEW S, IsFiniteSet(S)
  PROVE  /\ SetToSeq(S) \in Seq(S) /\ Len(SetToSeq(S)) = Cardinality(S)
         /\ \A x \in S : \E i \in DOMAIN SetToSeq(S) : SetToSeq(S)[i] = x
<1> DEFINE n == Cardinality(S)
           f == SetToSeq(S)
<1>1. n \in Nat /\ ExistsBijection(1 .. n, S)
  BY FS_CardinalityType
<1>2. \E g \in [1 .. n -> S] : IsInjective(g)
  BY <1>1 DEF ExistsBijection, Bijection, Injection, IsInjective
<1>3. f \in [1 .. n -> S] /\ IsInjective(f)
  BY <1>2 DEF SetToSeq
<1> HIDE DEF f
<1>4. f \in Surjection(1 .. n, S)
  <2>1. f \in Injection(1 .. n, S)
    BY <1>3 DEF Injection
  <2>2. Cardinality(1 .. n) = n
    BY <1>1, FS_Interval
  <2> QED BY <2>1, <2>2, FS_Injection
<1>5. f \in Seq(S) /\ Len(f) = n /\ DOMAIN f = 1 .. n
  BY <1>1, <1>3
<1> QED BY <1>4, <1>5 DEF f, Surjection

\* A sequence at the end of which something is appended keeps what it has.
LEMMA ToSetAppend ==
  ASSUME NEW X, NEW seq \in Seq(X), NEW e \in X
  PROVE  ToSet(Append(seq, e)) = ToSet(seq) \cup {e} /\ ToSet(seq) \subseteq X
<1>1. /\ DOMAIN Append(seq, e) = 1 .. Len(seq) + 1 /\ DOMAIN seq = 1 .. Len(seq)
      /\ Len(seq) \in Nat /\ Append(seq, e)[Len(seq) + 1] = e
      /\ \A i \in 1 .. Len(seq) : Append(seq, e)[i] = seq[i] /\ seq[i] \in X
  BY AppendProperties
<1>2. 1 .. Len(seq) + 1 = 1 .. Len(seq) \cup {Len(seq) + 1}
  BY <1>1
<1> QED BY <1>1, <1>2 DEF ToSet

LEMMA BusyFinite == IsFiniteSet(Busy) /\ Cardinality(Busy) \in Nat
<1>1. Busy \in SUBSET Workers
  BY DEF Busy
<1> QED BY <1>1, MetricsAssumption, FS_Subset, FS_CardinalityType

\* The latencies under way are those of the busy workers.
LEMMA UnderWayFacts ==
  ASSUME MetricsInv
  PROVE  /\ UnderWay \in Seq(Nanoseconds) /\ Len(UnderWay) = Cardinality(Busy)
         /\ \A w \in Busy : worker[w].latency_ns \in ToSet(UnderWay)
         /\ UnderWay = <<>> => Busy = {}
<1> DEFINE busy == SetToSeq(Busy)
<1>1. /\ busy \in Seq(Busy) /\ Len(busy) = Cardinality(Busy)
      /\ \A w \in Busy : \E i \in DOMAIN busy : busy[i] = w
  BY BusyFinite, SetToSeqFacts
<1> HIDE DEF busy
<1>2. UnderWay = [i \in DOMAIN busy |-> worker[busy[i]].latency_ns]
  BY DEF UnderWay, Busy, busy
<1>3. \A w \in Busy : worker[w].latency_ns \in Nanoseconds
  <2>1. ToSet(countable) \subseteq Nanoseconds
    BY DEF MetricsInv, MetricsTypeOK, ToSet
  <2> QED BY <2>1 DEF MetricsInv, BusyCountable
<1>4. DOMAIN busy = 1 .. Len(busy) /\ Len(busy) \in Nat /\ \A i \in DOMAIN busy : busy[i] \in Busy
  BY <1>1
<1>5. UnderWay \in Seq(Nanoseconds) /\ Len(UnderWay) = Len(busy) /\ DOMAIN UnderWay = DOMAIN busy
  BY <1>2, <1>3, <1>4
<1>6. UnderWay = <<>> => DOMAIN busy = {}
  BY <1>5
<1> QED BY <1>1, <1>2, <1>4, <1>5, <1>6 DEF ToSet

LEMMA MetricsInitInv == MetricsInit => MetricsInv
<1> SUFFICES ASSUME MetricsInit PROVE MetricsInv
  OBVIOUS
<1>1. /\ processed_count = 0 /\ latency_sum_ns = 0 /\ maxima = <<0>> /\ resets = 0
      /\ resetting = "done" /\ counted = <<>> /\ countable = <<>>
      /\ fresh = [w \in Workers |-> 1]
      /\ worker = [w \in Workers |-> [pc |-> "idle", latency_ns |-> 0, current_max |-> 0]]
  BY DEF MetricsInit
<1>2. Busy = {} /\ Cardinality(Busy) = 0
  BY <1>1, FS_EmptySet DEF Busy
<1>3. Len(maxima) = 1 /\ maxima # <<>> /\ DOMAIN maxima = {1} /\ latency_max_ns = 0
  BY <1>1 DEF latency_max_ns, Last
<1>4. MetricsTypeOK
  <2>1. maxima \in Seq(Nanoseconds \cup {0}) /\ resets \in 0 .. MaxResets
    BY <1>1, MetricsAssumption
  <2>2. worker \in [Workers -> [pc : {"idle", "load", "cas", "count"},
                                latency_ns : Nanoseconds \cup {0},
                                current_max : Nanoseconds \cup {0}]]
    BY <1>1
  <2> QED BY <1>1, <1>3, <2>1, <2>2 DEF MetricsTypeOK
<1>5. SumFunction(<<>>) = 0
  <2>1. <<>> \in Seq(Int)
    OBVIOUS
  <2> QED BY <2>1, SumOfSeq
<1>6. Len(<<>>) = 0 /\ DOMAIN <<>> = {}
  OBVIOUS
<1>7. AllProcessed /\ SumWithin /\ NothingYet /\ MaxCovers
  BY <1>1, <1>2, <1>5, <1>6 DEF AllProcessed, SumWithin, NothingYet, MaxCovers
<1>8. RaisesOnly /\ BusyCountable /\ MaxWithin
  BY <1>1, <1>2, <1>3 DEF RaisesOnly, BusyCountable, MaxWithin
<1> QED BY <1>1, <1>4, <1>6, <1>7, <1>8 DEF MetricsInv

WorkerStates == [pc : {"idle", "load", "cas", "count"}, latency_ns : Nanoseconds \cup {0},
                 current_max : Nanoseconds \cup {0}]

\* What the invariant says of the latest maximum and of the numbers.
LEMMA MetricsNumbers ==
  ASSUME MetricsInv
  PROVE  /\ Nanoseconds \subseteq Nat /\ Nanoseconds \cup {0} \subseteq Nat
         /\ Len(maxima) \in Nat \ {0} /\ DOMAIN maxima = 1 .. Len(maxima)
         /\ \A k \in DOMAIN maxima : maxima[k] \in Nanoseconds \cup {0}
         /\ latency_max_ns \in Nanoseconds \cup {0}
         /\ \A w \in Workers : /\ fresh[w] \in 1 .. Len(maxima)
                               /\ worker[w] \in WorkerStates
         /\ counted \in Seq(Int) /\ countable \in Seq(Int)
         /\ \A i \in DOMAIN counted : counted[i] \in Nanoseconds
<1>1. Nanoseconds \subseteq Nat /\ Nanoseconds \cup {0} \subseteq Nat
  BY MetricsAssumption
<1>2. /\ maxima \in Seq(Nanoseconds \cup {0}) /\ maxima # <<>>
      /\ fresh \in [Workers -> DOMAIN maxima] /\ worker \in [Workers -> WorkerStates]
      /\ counted \in Seq(Nanoseconds) /\ countable \in Seq(Nanoseconds)
  BY DEF MetricsInv, MetricsTypeOK, WorkerStates
<1>3. /\ Len(maxima) \in Nat \ {0} /\ DOMAIN maxima = 1 .. Len(maxima)
      /\ \A k \in DOMAIN maxima : maxima[k] \in Nanoseconds \cup {0}
  BY <1>2
<1>4. counted \in Seq(Int) /\ countable \in Seq(Int)
  <2>1. Nanoseconds \subseteq Int
    BY <1>1
  <2> QED BY <1>2, <2>1, SeqMonotonic
<1>5. \A i \in DOMAIN counted : counted[i] \in Nanoseconds
  BY <1>2
<1> QED BY <1>1, <1>2, <1>3, <1>4, <1>5 DEF latency_max_ns, Last

LEMMA HearInv == ASSUME MetricsInv, NEW w \in Workers, Hear(w) PROVE MetricsInv'
<1>1. /\ worker[w].pc = "idle" /\ fresh' = [fresh EXCEPT ![w] = Len(maxima)]
      /\ UNCHANGED <<processed_count, latency_sum_ns, maxima, worker, resetting, resets,
                     counted, countable>>
  BY DEF Hear
<1>2. fresh' \in [Workers -> DOMAIN maxima]
  BY <1>1, MetricsNumbers DEF MetricsInv, MetricsTypeOK
<1>3. MetricsTypeOK'
  BY <1>1, <1>2 DEF MetricsInv, MetricsTypeOK
<1>4. latency_max_ns' = latency_max_ns /\ Busy' = Busy
  BY <1>1 DEF latency_max_ns, Busy
<1>5. MaxCovers'
  <2>1. \A v \in Workers : WillRaise(v) => v # w
    BY <1>1 DEF WillRaise
  <2>2. \A v \in Workers : v # w => fresh'[v] = fresh[v]
    BY <1>1
  <2>3. \A v \in Workers : WillRaise(v) => WillRaise(v)'
    BY <1>1, <1>4, <2>1, <2>2 DEF WillRaise
  <2> QED BY <1>1, <1>4, <2>3 DEF MetricsInv, MaxCovers
<1>6. AllProcessed' /\ SumWithin' /\ NothingYet' /\ RaisesOnly' /\ BusyCountable' /\ MaxWithin'
  BY <1>1, <1>4 DEF MetricsInv, AllProcessed, SumWithin, NothingYet, RaisesOnly,
     BusyCountable, MaxWithin
<1> QED BY <1>1, <1>3, <1>5, <1>6 DEF MetricsInv

LEMMA AddLatencyInv ==
  ASSUME MetricsInv, NEW w \in Workers, NEW ns \in Nanoseconds, AddLatency(w, ns)
  PROVE  MetricsInv'
<1>1. /\ worker[w].pc = "idle" /\ latency_sum_ns' = latency_sum_ns + ns
      /\ worker' = [worker EXCEPT ![w].pc = "load", ![w].latency_ns = ns]
      /\ countable' = Append(countable, ns)
      /\ \/ counted' = counted
         \/ resetting = "done" /\ fresh[w] = Len(maxima) /\ counted' = Append(counted, ns)
      /\ UNCHANGED <<processed_count, maxima, fresh, resetting, resets>>
  BY DEF AddLatency
<1>2. /\ worker' \in [Workers -> WorkerStates]
      /\ worker'[w].pc = "load" /\ worker'[w].latency_ns = ns
      /\ \A v \in Workers : v # w => worker'[v] = worker[v]
  <2>1. worker \in [Workers -> WorkerStates]
    BY DEF MetricsInv, MetricsTypeOK, WorkerStates
  <2>2. worker[w] \in WorkerStates
    BY <2>1
  <2> QED BY <1>1, <2>1, <2>2 DEF WorkerStates
<1>3. /\ counted \in Seq(Nanoseconds) /\ countable \in Seq(Nanoseconds)
      /\ counted' \in Seq(Nanoseconds) /\ countable' \in Seq(Nanoseconds)
  <2>1. counted \in Seq(Nanoseconds) /\ countable \in Seq(Nanoseconds)
    BY DEF MetricsInv, MetricsTypeOK
  <2>2. Append(counted, ns) \in Seq(Nanoseconds) /\ Append(countable, ns) \in Seq(Nanoseconds)
    BY <2>1
  <2> QED BY <1>1, <2>1, <2>2
<1>4. ns \in Nat /\ ns \in Int
  BY MetricsNumbers
<1>5. MetricsTypeOK'
  BY <1>1, <1>2, <1>3, <1>4 DEF MetricsInv, MetricsTypeOK, WorkerStates
<1>6. /\ Busy' = Busy \cup {w} /\ w \notin Busy
      /\ Cardinality(Busy') = Cardinality(Busy) + 1
  <2>1. Busy' = Busy \cup {w} /\ w \notin Busy
    BY <1>1, <1>2 DEF Busy
  <2> QED BY <2>1, BusyFinite, FS_AddElement
<1>7. latency_max_ns' = latency_max_ns
  BY <1>1 DEF latency_max_ns
<1>8. ToSet(countable') = ToSet(countable) \cup {ns}
  BY <1>1, <1>3, ToSetAppend
<1>9. AllProcessed' /\ Len(counted') <= Len(countable')
  <2>1. /\ Len(countable') = Len(countable) + 1 /\ Len(counted') <= Len(counted) + 1
        /\ Len(counted) \in Nat /\ Len(countable) \in Nat
    BY <1>1, <1>3
  <2>2. processed_count \in Nat
    BY DEF MetricsInv, MetricsTypeOK
  <2>3. processed_count + Cardinality(Busy) = Len(countable) /\ Cardinality(Busy) \in Nat
    BY BusyFinite DEF MetricsInv, AllProcessed
  <2>4. processed_count' + Cardinality(Busy') = Len(countable')
    BY <1>1, <1>6, <2>1, <2>2, <2>3
  <2>5. Len(counted') \in Nat /\ Len(counted) <= Len(countable)
    BY <1>3 DEF MetricsInv
  <2> QED BY <2>1, <2>4, <2>5 DEF AllProcessed
<1>10. SumWithin'
  <2>1. counted \in Seq(Int) /\ countable \in Seq(Int)
    BY MetricsNumbers
  <2>2. /\ SumFunction(countable') = SumFunction(countable) + ns
        /\ SumFunction(counted') \in {SumFunction(counted), SumFunction(counted) + ns}
    BY <1>1, <1>4, <2>1, SumAppend
  <2>3. SumFunction(counted) \in Int /\ SumFunction(countable) \in Int /\ latency_sum_ns \in Int
    BY <2>1, SumOfSeq DEF MetricsInv, MetricsTypeOK
  <2> QED BY <1>1, <1>4, <2>2, <2>3 DEF MetricsInv, SumWithin
<1>11. NothingYet' /\ RaisesOnly' /\ BusyCountable' /\ MaxWithin'
  <2>1. NothingYet'
    BY <1>1 DEF MetricsInv, NothingYet
  <2>2. RaisesOnly'
    BY <1>2 DEF MetricsInv, RaisesOnly
  <2>3. BusyCountable'
    BY <1>2, <1>6, <1>8 DEF MetricsInv, BusyCountable, Busy
  <2>4. MaxWithin'
    BY <1>1, <1>7, <1>8 DEF MetricsInv, MaxWithin
  <2> QED BY <2>1, <2>2, <2>3, <2>4
<1>12. MaxCovers'
  <2>1. ASSUME NEW v \in Workers, WillRaise(v)
        PROVE  WillRaise(v)' /\ worker'[v].latency_ns = worker[v].latency_ns
    <3>1. v # w
      BY <1>1, <2>1 DEF WillRaise
    <3> QED BY <1>1, <1>2, <1>7, <2>1, <3>1 DEF WillRaise
  <2>2. \A i \in DOMAIN counted : \/ counted[i] <= latency_max_ns'
                                  \/ \E v \in Workers : WillRaise(v)' /\ worker'[v].latency_ns = counted[i]
    BY <1>7, <2>1 DEF MetricsInv, MaxCovers
  <2>3. CASE counted' = counted
    BY <2>2, <2>3 DEF MaxCovers
  <2>4. CASE fresh[w] = Len(maxima) /\ counted' = Append(counted, ns)
    <3>1. WillRaise(w)'
      <4>1. \A k \in fresh[w] .. Len(maxima) : maxima[k] <= latency_max_ns
        BY <2>4, MetricsNumbers DEF latency_max_ns, Last
      <4> QED BY <1>1, <1>2, <1>7, <4>1 DEF WillRaise
    <3>2. /\ DOMAIN counted' = 1 .. Len(counted) + 1 /\ DOMAIN counted = 1 .. Len(counted)
          /\ counted'[Len(counted) + 1] = ns /\ Len(counted) \in Nat
          /\ \A i \in 1 .. Len(counted) : counted'[i] = counted[i]
      BY <1>3, <2>4, AppendProperties
    <3> SUFFICES ASSUME NEW i \in DOMAIN counted'
                 PROVE  \/ counted'[i] <= latency_max_ns'
                        \/ \E v \in Workers : WillRaise(v)' /\ worker'[v].latency_ns = counted'[i]
      BY DEF MaxCovers
    <3>3. CASE i = Len(counted) + 1
      BY <1>2, <3>1, <3>2, <3>3
    <3>4. CASE i \in 1 .. Len(counted)
      BY <2>2, <3>2, <3>4
    <3> QED BY <3>2, <3>3, <3>4
  <2> QED BY <1>1, <2>3, <2>4
<1> QED BY <1>5, <1>9, <1>10, <1>11, <1>12 DEF MetricsInv

\* A comparison sends the worker to raise the maximum, or finds that it is covered.
LEMMA CompareInv ==
  ASSUME MetricsInv, NEW w \in Workers, NEW k, worker[w].pc \in {"load", "cas"}, Compare(w, k)
  PROVE  MetricsInv'
<1> DEFINE next == IF worker[w].latency_ns > maxima[k] THEN "cas" ELSE "count"
<1>1. /\ k \in fresh[w] .. Len(maxima) /\ fresh' = [fresh EXCEPT ![w] = k]
      /\ worker' = [worker EXCEPT ![w].current_max = maxima[k], ![w].pc = next]
      /\ UNCHANGED <<processed_count, latency_sum_ns, maxima, resetting, resets,
                     counted, countable>>
  BY DEF Compare, Loadable
<1>2. k \in DOMAIN maxima /\ maxima[k] \in Nanoseconds \cup {0}
  BY <1>1, MetricsNumbers
<1>3. /\ worker' \in [Workers -> WorkerStates]
      /\ worker'[w].pc = next /\ worker'[w].latency_ns = worker[w].latency_ns
      /\ worker'[w].current_max = maxima[k]
      /\ \A v \in Workers : v # w => worker'[v] = worker[v]
  <2>1. worker \in [Workers -> WorkerStates]
    BY DEF MetricsInv, MetricsTypeOK, WorkerStates
  <2>2. worker[w] \in WorkerStates /\ next \in {"idle", "load", "cas", "count"}
    BY <2>1
  <2> HIDE DEF next
  <2> QED BY <1>1, <1>2, <2>1, <2>2 DEF WorkerStates
<1>4. /\ fresh' \in [Workers -> DOMAIN maxima] /\ fresh'[w] = k
      /\ \A v \in Workers : v # w => fresh'[v] = fresh[v]
  BY <1>1, <1>2 DEF MetricsInv, MetricsTypeOK
<1>5. MetricsTypeOK'
  BY <1>1, <1>3, <1>4 DEF MetricsInv, MetricsTypeOK, WorkerStates
<1>6. latency_max_ns' = latency_max_ns
  BY <1>1 DEF latency_max_ns
<1>7. Busy' = Busy
  BY <1>3 DEF Busy
<1>8. MaxCovers'
  <2> SUFFICES ASSUME NEW i \in DOMAIN counted
               PROVE  \/ counted[i] <= latency_max_ns
                      \/ \E v \in Workers : WillRaise(v)' /\ worker'[v].latency_ns = counted[i]
    BY <1>1, <1>6 DEF MaxCovers
  <2>1. CASE counted[i] <= latency_max_ns
    BY <2>1
  <2>2. ASSUME NEW v \in Workers, WillRaise(v), worker[v].latency_ns = counted[i]
        PROVE  \/ counted[i] <= latency_max_ns
               \/ WillRaise(v)' /\ worker'[v].latency_ns = counted[i]
    <3>1. CASE v # w
      BY <1>1, <1>3, <1>4, <1>6, <2>2, <3>1 DEF WillRaise
    <3>2. CASE v = w /\ next = "cas"
      <4>1. k .. Len(maxima) \subseteq fresh[w] .. Len(maxima)
        BY <1>1, MetricsNumbers
      <4>2. \A j \in k .. Len(maxima) : maxima[j] <= latency_max_ns
        BY <2>2, <3>2, <4>1 DEF WillRaise
      <4> QED BY <1>1, <1>3, <1>4, <1>6, <2>2, <3>2, <4>2 DEF WillRaise
    <3>3. CASE v = w /\ next # "cas"
      <4>1. counted[i] <= maxima[k] /\ maxima[k] <= latency_max_ns
        <5>1. maxima[k] <= latency_max_ns
          BY <1>1, <2>2, <3>3 DEF WillRaise
        <5>2. ~(worker[w].latency_ns > maxima[k])
          BY <3>3
        <5>3. worker[w].latency_ns \in Nat /\ maxima[k] \in Nat
          <6>1. worker[w] \in WorkerStates /\ Nanoseconds \cup {0} \subseteq Nat
            BY MetricsNumbers
          <6> QED BY <1>2, <6>1 DEF WorkerStates
        <5> QED BY <2>2, <3>3, <5>1, <5>2, <5>3
      <4>2. counted[i] \in Nat /\ maxima[k] \in Nat /\ latency_max_ns \in Nat
        BY <1>2, MetricsNumbers
      <4> QED BY <4>1, <4>2
    <3> QED BY <3>1, <3>2, <3>3
  <2> QED BY <2>1, <2>2 DEF MetricsInv, MaxCovers
<1>9. AllProcessed' /\ SumWithin' /\ NothingYet' /\ MaxWithin'
  BY <1>1, <1>6, <1>7 DEF MetricsInv, AllProcessed, SumWithin, NothingYet, MaxWithin
<1>10. RaisesOnly' /\ BusyCountable'
  <2>1. \A v \in Workers : worker'[v].latency_ns = worker[v].latency_ns
    BY <1>3
  <2>2. BusyCountable'
    BY <1>1, <1>7, <2>1 DEF MetricsInv, BusyCountable, Busy
  <2>3. RaisesOnly'
    BY <1>3 DEF MetricsInv, RaisesOnly
  <2> QED BY <2>2, <2>3
<1> QED BY <1>1, <1>5, <1>8, <1>9, <1>10 DEF MetricsInv

\* Raising the maximum never lowers it.
LEMMA RaiseMaxInv == ASSUME MetricsInv, NEW w \in Workers, RaiseMax(w) PROVE MetricsInv'
<1> DEFINE n == Len(maxima)
           ns == worker[w].latency_ns
<1>1. /\ worker[w].pc = "cas" /\ latency_max_ns = worker[w].current_max
      /\ maxima' = Append(maxima, ns) /\ fresh' = [fresh EXCEPT ![w] = Len(maxima')]
      /\ worker' = [worker EXCEPT ![w].pc = "count"]
      /\ UNCHANGED <<processed_count, latency_sum_ns, resetting, resets, counted, countable>>
  BY DEF RaiseMax
<1>2. /\ worker' \in [Workers -> WorkerStates] /\ worker'[w].pc = "count"
      /\ \A v \in Workers : worker'[v].latency_ns = worker[v].latency_ns
      /\ \A v \in Workers : v # w => worker'[v] = worker[v]
      /\ ns \in Nanoseconds \cup {0}
  <2>1. worker \in [Workers -> WorkerStates]
    BY DEF MetricsInv, MetricsTypeOK, WorkerStates
  <2>2. worker[w] \in WorkerStates
    BY <2>1
  <2> QED BY <1>1, <2>1, <2>2 DEF WorkerStates
<1>3. ns > latency_max_ns /\ ns \in ToSet(countable)
  BY <1>1 DEF MetricsInv, RaisesOnly, BusyCountable, Busy
<1> HIDE DEF ns
<1>4. /\ maxima' \in Seq(Nanoseconds \cup {0}) /\ maxima' # <<>>
      /\ Len(maxima') = n + 1 /\ n \in Nat \ {0} /\ DOMAIN maxima' = 1 .. n + 1
      /\ \A k \in 1 .. n : maxima'[k] = maxima[k]
      /\ maxima'[n + 1] = ns /\ latency_max_ns' = ns
  <2>1. maxima \in Seq(Nanoseconds \cup {0}) /\ n \in Nat \ {0}
    BY MetricsNumbers DEF MetricsInv, MetricsTypeOK
  <2>2. /\ Append(maxima, ns) \in Seq(Nanoseconds \cup {0}) /\ Append(maxima, ns) # <<>>
        /\ Len(Append(maxima, ns)) = n + 1 /\ Append(maxima, ns)[n + 1] = ns
        /\ \A k \in 1 .. n : Append(maxima, ns)[k] = maxima[k]
    BY <1>2, <2>1, AppendProperties
  <2>3. DOMAIN maxima' = 1 .. n + 1
    BY <1>1, <2>1, <2>2
  <2> QED BY <1>1, <2>1, <2>2, <2>3 DEF latency_max_ns, Last
<1>5. fresh' \in [Workers -> DOMAIN maxima'] /\ \A v \in Workers : v # w => fresh'[v] = fresh[v]
  <2>1. fresh \in [Workers -> 1 .. n] /\ 1 .. n \subseteq 1 .. n + 1 /\ n + 1 \in 1 .. n + 1
    BY MetricsNumbers DEF MetricsInv, MetricsTypeOK
  <2> QED BY <1>1, <1>4, <2>1
<1>6. MetricsTypeOK'
  BY <1>1, <1>2, <1>4, <1>5 DEF MetricsInv, MetricsTypeOK, WorkerStates
<1>7. Busy' = Busy
  BY <1>1, <1>2 DEF Busy
<1>8. MaxCovers'
  <2>1. \A i \in DOMAIN counted : counted[i] \in Nat
    BY MetricsNumbers
  <2>2. ns \in Nat /\ latency_max_ns \in Nat
    BY <1>2, MetricsNumbers
  <2>3. ASSUME NEW v \in Workers, v # w, WillRaise(v) PROVE WillRaise(v)'
    <3>1. worker'[v].pc \in {"load", "cas"}
      BY <1>2, <2>3 DEF WillRaise
    <3>2. ASSUME NEW k \in fresh'[v] .. n + 1 PROVE maxima'[k] <= ns
      <4>1. fresh[v] \in 1 .. n /\ fresh'[v] = fresh[v]
        BY <1>5, <2>3, MetricsNumbers
      <4>2. CASE k = n + 1
        BY <1>4, <2>2, <4>2
      <4>3. CASE k # n + 1
        <5>1. k \in fresh[v] .. n /\ k \in 1 .. n
          BY <1>4, <4>1, <4>3
        <5>2. maxima[k] <= latency_max_ns /\ maxima[k] \in Nat
          BY <2>3, <5>1, MetricsNumbers DEF WillRaise
        <5> QED BY <1>3, <1>4, <2>2, <5>1, <5>2
      <4> QED BY <4>2, <4>3
    <3> QED BY <1>4, <3>1, <3>2 DEF WillRaise
  <2> SUFFICES ASSUME NEW i \in DOMAIN counted
               PROVE  \/ counted[i] <= latency_max_ns'
                      \/ \E v \in Workers : WillRaise(v)' /\ worker'[v].latency_ns = counted[i]
    BY <1>1 DEF MaxCovers
  <2>4. CASE counted[i] <= latency_max_ns
    BY <1>3, <1>4, <2>1, <2>2, <2>4
  <2>5. ASSUME NEW v \in Workers, WillRaise(v), worker[v].latency_ns = counted[i]
        PROVE  \/ counted[i] <= latency_max_ns'
               \/ WillRaise(v)' /\ worker'[v].latency_ns = counted[i]
    <3>1. CASE v = w
      BY <1>4, <2>2, <2>5, <3>1 DEF ns
    <3>2. CASE v # w
      BY <1>2, <2>3, <2>5, <3>2
    <3> QED BY <3>1, <3>2
  <2> QED BY <2>4, <2>5 DEF MetricsInv, MaxCovers
<1>9. AllProcessed' /\ SumWithin' /\ NothingYet'
  BY <1>1, <1>7 DEF MetricsInv, AllProcessed, SumWithin, NothingYet
<1>10. RaisesOnly' /\ BusyCountable' /\ MaxWithin'
  <2>1. BusyCountable'
    BY <1>1, <1>2, <1>7 DEF MetricsInv, BusyCountable, Busy
  <2>2. RaisesOnly'
    BY <1>2 DEF MetricsInv, RaisesOnly
  <2>3. MaxWithin'
    BY <1>1, <1>3, <1>4 DEF MaxWithin
  <2> QED BY <2>1, <2>2, <2>3
<1> QED BY <1>1, <1>6, <1>8, <1>9, <1>10 DEF MetricsInv

LEMMA IncProcessedInv == ASSUME MetricsInv, NEW w \in Workers, IncProcessed(w) PROVE MetricsInv'
<1>1. /\ worker[w].pc = "count" /\ processed_count' = processed_count + 1
      /\ worker' = [worker EXCEPT ![w].pc = "idle"]
      /\ UNCHANGED <<latency_sum_ns, maxima, fresh, resetting, resets, counted, countable>>
  BY DEF IncProcessed
<1>2. /\ worker' \in [Workers -> WorkerStates] /\ worker'[w].pc = "idle"
      /\ \A v \in Workers : v # w => worker'[v] = worker[v]
  <2>1. worker \in [Workers -> WorkerStates]
    BY DEF MetricsInv, MetricsTypeOK, WorkerStates
  <2>2. worker[w] \in WorkerStates
    BY <2>1
  <2> QED BY <1>1, <2>1, <2>2 DEF WorkerStates
<1>3. processed_count \in Nat /\ processed_count' \in Nat
  BY <1>1 DEF MetricsInv, MetricsTypeOK
<1>4. MetricsTypeOK'
  BY <1>1, <1>2, <1>3 DEF MetricsInv, MetricsTypeOK, WorkerStates
<1>5. Busy' = Busy \ {w} /\ Cardinality(Busy') = Cardinality(Busy) - 1
  <2>1. Busy' = Busy \ {w} /\ w \in Busy
    BY <1>1, <1>2 DEF Busy
  <2> QED BY <2>1, BusyFinite, FS_RemoveElement
<1>6. latency_max_ns' = latency_max_ns
  BY <1>1 DEF latency_max_ns
<1>7. AllProcessed'
  <2>1. processed_count + Cardinality(Busy) = Len(countable) /\ Cardinality(Busy) \in Nat
    BY BusyFinite DEF MetricsInv, AllProcessed
  <2>2. processed_count' + Cardinality(Busy') = Len(countable')
    BY <1>1, <1>3, <1>5, <2>1
  <2> QED BY <2>2 DEF AllProcessed
<1>8. MaxCovers'
  <2>1. ASSUME NEW v \in Workers, WillRaise(v)
        PROVE  WillRaise(v)' /\ worker'[v].latency_ns = worker[v].latency_ns
    <3>1. v # w
      BY <1>1, <2>1 DEF WillRaise
    <3> QED BY <1>1, <1>2, <1>6, <2>1, <3>1 DEF WillRaise
  <2> QED BY <1>1, <1>6, <2>1 DEF MetricsInv, MaxCovers
<1>9. SumWithin' /\ NothingYet' /\ MaxWithin'
  BY <1>1, <1>6 DEF MetricsInv, SumWithin, NothingYet, MaxWithin
<1>10. RaisesOnly' /\ BusyCountable'
  <2>1. BusyCountable'
    BY <1>1, <1>2, <1>5 DEF MetricsInv, BusyCountable, Busy
  <2>2. RaisesOnly'
    BY <1>2 DEF MetricsInv, RaisesOnly
  <2> QED BY <2>1, <2>2
<1> QED BY <1>1, <1>4, <1>7, <1>8, <1>9, <1>10 DEF MetricsInv

\* What is recorded while reset is called may be in the counters after it, and
\* nothing must.
LEMMA ResetProcessedInv == ASSUME MetricsInv, ResetProcessed PROVE MetricsInv'
<1>1. /\ resetting = "done" /\ resets < MaxResets /\ processed_count' = 0
      /\ resetting' = "sum" /\ resets' = resets + 1 /\ counted' = <<>>
      /\ countable' = UnderWay /\ UNCHANGED <<latency_sum_ns, maxima, fresh, worker>>
  BY DEF ResetProcessed
<1>2. /\ countable' \in Seq(Nanoseconds) /\ Len(countable') = Cardinality(Busy)
      /\ \A w \in Busy : worker[w].latency_ns \in ToSet(countable')
  BY <1>1, UnderWayFacts
<1>3. counted' \in Seq(Nanoseconds) /\ Len(counted') = 0 /\ DOMAIN counted' = {}
  BY <1>1
<1>4. resets' \in 0 .. MaxResets
  BY <1>1, MetricsAssumption DEF MetricsInv, MetricsTypeOK
<1>5. MetricsTypeOK'
  BY <1>1, <1>2, <1>3, <1>4 DEF MetricsInv, MetricsTypeOK
<1>6. Busy' = Busy /\ Cardinality(Busy) \in Nat
  BY <1>1, BusyFinite DEF Busy
<1>7. AllProcessed' /\ Len(counted') <= Len(countable')
  BY <1>1, <1>2, <1>3, <1>6 DEF AllProcessed
<1>8. SumWithin' /\ NothingYet' /\ MaxCovers' /\ MaxWithin'
  BY <1>1, <1>3 DEF SumWithin, NothingYet, MaxCovers, MaxWithin
<1>9. RaisesOnly' /\ BusyCountable'
  BY <1>1, <1>2, <1>6 DEF MetricsInv, RaisesOnly, BusyCountable
<1> QED BY <1>5, <1>7, <1>8, <1>9 DEF MetricsInv

LEMMA ResetSumInv == ASSUME MetricsInv, ResetSum PROVE MetricsInv'
<1>1. /\ resetting = "sum" /\ latency_sum_ns' = 0 /\ resetting' = "max"
      /\ UNCHANGED <<processed_count, maxima, fresh, worker, resets, counted, countable>>
  BY DEF ResetSum
<1>2. MetricsTypeOK'
  BY <1>1 DEF MetricsInv, MetricsTypeOK
<1>3. Busy' = Busy /\ latency_max_ns' = latency_max_ns
  BY <1>1 DEF Busy, latency_max_ns
<1>4. SumWithin'
  <2>1. counted = <<>> /\ counted \in Seq(Int)
    BY <1>1, MetricsNumbers DEF MetricsInv, NothingYet
  <2>2. SumFunction(counted) = 0
    BY <2>1, SumOfSeq
  <2>3. countable \in Seq(Nat)
    BY MetricsAssumption, SeqMonotonic DEF MetricsInv, MetricsTypeOK
  <2>4. SumFunction(countable) \in Nat
    BY <2>3, SumOfNatSeq
  <2> QED BY <1>1, <2>2, <2>4 DEF SumWithin
<1>5. AllProcessed' /\ NothingYet' /\ MaxWithin' /\ RaisesOnly' /\ BusyCountable'
  BY <1>1, <1>3 DEF MetricsInv, AllProcessed, NothingYet, MaxWithin, RaisesOnly, BusyCountable
<1>6. MaxCovers'
  BY <1>1, <1>3 DEF MetricsInv, MaxCovers, WillRaise
<1> QED BY <1>1, <1>2, <1>4, <1>5, <1>6 DEF MetricsInv

LEMMA ResetMaxInv == ASSUME MetricsInv, ResetMax PROVE MetricsInv'
<1>1. /\ resetting = "max" /\ maxima' = Append(maxima, 0) /\ resetting' = "done"
      /\ UNCHANGED <<processed_count, latency_sum_ns, fresh, worker, resets, counted,
                     countable>>
  BY DEF ResetMax
<1>2. /\ maxima' \in Seq(Nanoseconds \cup {0}) /\ maxima' # <<>>
      /\ Len(maxima') = Len(maxima) + 1 /\ DOMAIN maxima' = 1 .. Len(maxima) + 1
      /\ latency_max_ns' = 0
  <2>1. maxima \in Seq(Nanoseconds \cup {0}) /\ Len(maxima) \in Nat
    BY DEF MetricsInv, MetricsTypeOK
  <2>2. /\ Append(maxima, 0) \in Seq(Nanoseconds \cup {0}) /\ Append(maxima, 0) # <<>>
        /\ Len(Append(maxima, 0)) = Len(maxima) + 1
        /\ Append(maxima, 0)[Len(maxima) + 1] = 0
    BY <2>1, AppendProperties
  <2>3. DOMAIN maxima' = 1 .. Len(maxima) + 1
    BY <1>1, <2>1, <2>2
  <2> QED BY <1>1, <2>2, <2>3 DEF latency_max_ns, Last
<1>3. fresh' \in [Workers -> DOMAIN maxima']
  BY <1>1, <1>2, MetricsNumbers DEF MetricsInv, MetricsTypeOK
<1>4. MetricsTypeOK'
  BY <1>1, <1>2, <1>3 DEF MetricsInv, MetricsTypeOK
<1>5. counted' = <<>> /\ Busy' = Busy
  BY <1>1 DEF MetricsInv, NothingYet, Busy
<1>6. AllProcessed' /\ SumWithin' /\ NothingYet' /\ RaisesOnly' /\ BusyCountable'
  BY <1>1, <1>5 DEF MetricsInv, AllProcessed, SumWithin, NothingYet, RaisesOnly, BusyCountable
<1>7. MaxCovers' /\ MaxWithin'
  BY <1>2, <1>5 DEF MaxCovers, MaxWithin
<1> QED BY <1>1, <1>4, <1>6, <1>7 DEF MetricsInv

LEMMA MetricsNextInv == MetricsInv /\ [MetricsNext]_metricsVars => MetricsInv'
<1> SUFFICES ASSUME MetricsInv, [MetricsNext]_metricsVars PROVE MetricsInv'
  OBVIOUS
<1>1. CASE UNCHANGED metricsVars
  BY <1>1 DEF metricsVars, MetricsInv, MetricsTypeOK, AllProcessed, Busy, SumWithin, NothingYet,
     MaxCovers, WillRaise, RaisesOnly, BusyCountable, MaxWithin, latency_max_ns
<1>2. ASSUME NEW w \in Workers, Hear(w) PROVE MetricsInv'
  BY <1>2, HearInv
<1>3. ASSUME NEW w \in Workers, NEW ns \in Nanoseconds, AddLatency(w, ns) PROVE MetricsInv'
  BY <1>3, AddLatencyInv
<1>4. ASSUME NEW w \in Workers, NEW k, LoadMax(w, k) \/ RaiseFails(w, k) PROVE MetricsInv'
  <2>1. worker[w].pc \in {"load", "cas"} /\ Compare(w, k)
    BY <1>4 DEF LoadMax, RaiseFails
  <2> QED BY <2>1, CompareInv
<1>5. ASSUME NEW w \in Workers, RaiseMax(w) PROVE MetricsInv'
  BY <1>5, RaiseMaxInv
<1>6. ASSUME NEW w \in Workers, IncProcessed(w) PROVE MetricsInv'
  BY <1>6, IncProcessedInv
<1>7. CASE ResetProcessed \/ ResetSum \/ ResetMax
  BY <1>7, ResetProcessedInv, ResetSumInv, ResetMaxInv
<1> QED BY <1>1, <1>2, <1>3, <1>4, <1>5, <1>6, <1>7 DEF MetricsNext

\* The counters' invariant holds however many threads record and reset (lib.rs lines
\* 41-72 and 212-224).
THEOREM MetricsInvariance == MetricsSpec => []MetricsInv
<1> QED BY MetricsInitInv, MetricsNextInv, PTL DEF MetricsSpec

\* No update of the counters is lost to another thread, and nothing from before a
\* reset survives it, for every number of threads and every latency (lib.rs lines
\* 56-72 and 214-224).
THEOREM LatenciesAreCounted == MetricsSpec => []LatenciesCounted
<1>1. MetricsInv => LatenciesCounted
  <2> SUFFICES ASSUME MetricsInv, resetting = "done", UnderWay = <<>>
               PROVE  /\ Len(counted) <= processed_count /\ processed_count <= Len(countable)
                      /\ SumFunction(counted) <= latency_sum_ns
                      /\ latency_sum_ns <= SumFunction(countable)
                      /\ \A i \in DOMAIN counted : counted[i] <= latency_max_ns
                      /\ latency_max_ns \in {0} \cup ToSet(countable)
    BY DEF LatenciesCounted
  <2>1. Busy = {} /\ Cardinality(Busy) = 0
    BY UnderWayFacts, FS_EmptySet
  <2>2. processed_count = Len(countable) /\ Len(countable) \in Nat
    BY <2>1 DEF MetricsInv, AllProcessed, MetricsTypeOK
  <2>3. \A w \in Workers : ~WillRaise(w)
    BY <2>1 DEF Busy, WillRaise
  <2>4. \A i \in DOMAIN counted : counted[i] <= latency_max_ns
    BY <2>3 DEF MetricsInv, MaxCovers
  <2> QED BY <2>2, <2>4 DEF MetricsInv, SumWithin, MaxWithin
<1> QED BY <1>1, MetricsInvariance, PTL
-----------------------------------------------------------------------------
(* The tuning engine: what it suggests, returns and logs. *)

\* The end of a sequence is a suffix of it.
LEMMA SuffixOfConcat ==
  ASSUME NEW X, NEW a \in Seq(X), NEW b \in Seq(X)
  PROVE  IsSuffix(b, a \o b)
<1> DEFINE all == a \o b
<1>1. /\ Len(a) \in Nat /\ Len(b) \in Nat /\ all \in Seq(X) /\ Len(all) = Len(a) + Len(b)
      /\ \A i \in 1 .. Len(a) + Len(b) : all[i] = IF i <= Len(a) THEN a[i] ELSE b[i - Len(a)]
  BY ConcatProperties
<1> HIDE DEF all
<1> DEFINE r == Reverse(b)
           q == Reverse(all)
<1>2. /\ r \in Seq(X) /\ Len(r) = Len(b) /\ \A i \in 1 .. Len(b) : r[i] = b[(Len(b) - i) + 1]
      /\ q \in Seq(X) /\ Len(q) = Len(all)
      /\ \A i \in 1 .. Len(all) : q[i] = all[(Len(all) - i) + 1]
  BY <1>1 DEF Reverse
<1> HIDE DEF r, q
<1>3. ASSUME NEW i \in 1 .. Len(b) PROVE r[i] = q[i]
  <2> DEFINE j == Len(all) - i + 1
  <2>1. j \in 1 .. Len(a) + Len(b) /\ ~(j <= Len(a)) /\ j - Len(a) = Len(b) - i + 1
    BY <1>1
  <2>2. all[j] = b[j - Len(a)]
    <3> HIDE DEF j
    <3> QED BY <1>1, <2>1
  <2>3. i \in 1 .. Len(all)
    BY <1>1
  <2> QED BY <1>2, <2>1, <2>2, <2>3
<1>4. SubSeq(r, 1, Len(b)) = SubSeq(q, 1, Len(b)) /\ Len(b) <= Len(all)
  BY <1>1, <1>2, <1>3
<1> QED BY <1>2, <1>4 DEF IsSuffix, IsPrefix, r, q, all

\* The average of numbers that are at least c is at least c.
LEMMA AverageAtLeast ==
  ASSUME NEW past \in Seq(Nat), past # <<>>, NEW c \in Nat, \A i \in DOMAIN past : c <= past[i]
  PROVE  c <= SumFunction(past) \div Len(past)
<1> DEFINE Good == {s \in Seq(Nat) : (\A i \in DOMAIN s : c <= s[i]) => c * Len(s) <= SumFunction(s)}
<1>1. <<>> \in Good
  <2>1. SumFunction(<<>>) = 0 /\ Len(<<>>) = 0 /\ <<>> \in Seq(Nat) /\ c * 0 = 0
    <3>1. <<>> \in Seq(Int) /\ Len(<<>>) = 0 /\ <<>> \in Seq(Nat) /\ c * 0 = 0
      OBVIOUS
    <3> QED BY <3>1, SumOfSeq
  <2> QED BY <2>1
<1>2. ASSUME NEW s \in Seq(Nat), NEW e \in Nat, s \in Good PROVE Append(s, e) \in Good
  <2> DEFINE t == Append(s, e)
  <2>1. /\ t \in Seq(Nat) /\ Len(t) = Len(s) + 1 /\ t[Len(s) + 1] = e /\ Len(s) \in Nat
        /\ DOMAIN t = 1 .. Len(s) + 1 /\ DOMAIN s = 1 .. Len(s)
        /\ \A i \in 1 .. Len(s) : t[i] = s[i]
    BY AppendProperties
  <2>2. SumFunction(t) = SumFunction(s) + e /\ SumFunction(s) \in Nat
    <3>1. s \in Seq(Int) /\ e \in Int
      BY SeqMonotonic
    <3> QED BY <3>1, SumAppend, SumOfNatSeq
  <2> HIDE DEF t
  <2>3. ASSUME \A i \in DOMAIN t : c <= t[i] PROVE c * Len(t) <= SumFunction(t)
    <3>1. c <= t[Len(s) + 1] /\ \A i \in DOMAIN s : c <= t[i]
      BY <2>1, <2>3, SMTT(40)
    <3>2. c <= e /\ \A i \in DOMAIN s : c <= s[i]
      BY <2>1, <3>1
    <3>3. c * Len(s) <= SumFunction(s)
      BY <1>2, <3>2
    <3>4. c * (Len(s) + 1) = c * Len(s) + c /\ c * Len(s) \in Nat
      BY <2>1
    <3> QED BY <2>1, <2>2, <3>2, <3>3, <3>4
  <2> QED BY <2>1, <2>3 DEF t
<1>3. past \in Good
  <2> HIDE DEF Good
  <2> QED BY <1>1, <1>2, SeqInduction
<1>4. c * Len(past) <= SumFunction(past) /\ SumFunction(past) \in Nat /\ Len(past) \in Nat \ {0}
  BY <1>3, SumOfNatSeq
<1> DEFINE q == SumFunction(past) \div Len(past)
           n == Len(past)
           sum == SumFunction(past)
<1> HIDE DEF n, sum
<1>5. q \in Nat /\ sum < n * q + n /\ sum \in Nat /\ n \in Nat \ {0} /\ c * n <= sum
  BY <1>4 DEF n, sum
<1> HIDE DEF q
<1>6. ASSUME q < c PROVE FALSE
  <2>1. PICK k \in Nat : c = q + 1 + k
    <3>1. c = q + 1 + (c - q - 1) /\ c - q - 1 \in Nat
      BY <1>5, <1>6
    <3> QED BY <3>1
  <2>2. c * n = n * q + n + k * n /\ k * n \in Nat /\ n * q \in Nat
    BY <1>5, <2>1
  <2> QED BY <1>5, <2>2
<1>7. c <= q
  BY <1>5, <1>6
<1> QED BY <1>7 DEF q, n, sum

Trends == {"none", "Increasing", "Decreasing", "Stable"}

\* What a policy may suggest for a snapshot: of an increase, with the conservative
\* policy, that it is one; of a decrease, that there is something to take; of
\* batching, that the queue overflows and grows.
Suggested(len, trend) ==
    {Increase(s, Raised(len[s])) :
       s \in {s \in Stages : policy = "conservative" => Raised(len[s]) > len[s]}}
    \cup {Decrease(s, Lowered(len[s])) : s \in {s \in Stages : len[s] > Floor}}
    \cup {Batching(s) : s \in {s \in Stages : /\ len[s] > Threshold
                                             /\ trend[s] = "Increasing"}}

LEMMA PolicyFacts ==
  ASSUME policy \in DOMAIN Policies
  PROVE  /\ policy \in {"conservative", "aggressive"}
         /\ P.step \in {1, 2} /\ P.limit \in Nat \ {0} /\ P.cooldown \in Nat
<1>1. policy \in {"conservative", "aggressive"}
  BY DEF Policies
<1>2. CASE policy = "conservative"
  BY <1>2 DEF Policies, P
<1>3. CASE policy = "aggressive"
  BY <1>3 DEF Policies, P
<1> QED BY <1>1, <1>2, <1>3

\* The average latency of the stages is a number.
LEMMA AverageType ==
  ASSUME NEW lat \in [Stages -> Nat] PROVE AvgLatency(lat) \in Nat
<1>1. IsFiniteSet(Stages) /\ Stages # {}
  BY TuningAssumption
<1>2. Cardinality(Stages) \in Nat \ {0}
  BY <1>1, FS_CardinalityType, FS_EmptySet
<1>3. SumFunction(lat) \in Nat
  <2>1. DOMAIN lat = Stages /\ \A s \in Stages : lat[s] \in Nat
    OBVIOUS
  <2>2. SumFunctionOnSet(lat, Stages) \in Nat
    BY <1>1, <2>1, SumOfNaturals
  <2> QED BY <2>1, <2>2 DEF SumFunction
<1> QED BY <1>2, <1>3 DEF AvgLatency

\* A trend upwards means that one of the past values was lower.
LEMMA DirectionFacts ==
  ASSUME NEW past \in Seq(Nat), past # <<>>, NEW now \in Nat
  PROVE  /\ Direction(past, now) \in Trends
         /\ Direction(past, now) = "Increasing" => \E i \in DOMAIN past : past[i] < now
<1> DEFINE avg == SumFunction(past) \div Len(past)
<1>1. Len(past) \in Nat \ {0} /\ SumFunction(past) \in Nat
  BY SumOfNatSeq
<1>2. avg \in Nat
  BY <1>1
<1>3. Direction(past, now) = IF now > avg + avg \div 10 THEN "Increasing"
                             ELSE IF now + avg \div 10 < avg THEN "Decreasing"
                             ELSE "Stable"
  <2>1. ~(now > avg + avg \div 10 /\ now + avg \div 10 < avg)
    <3> HIDE DEF avg
    <3> QED BY <1>2
  <2> HIDE DEF avg
  <2> QED BY <2>1 DEF Direction, avg
<1>4. Direction(past, now) = "Increasing" => now > avg
  <2> HIDE DEF avg
  <2> QED BY <1>2, <1>3
<1>5. ASSUME now > avg PROVE \E i \in DOMAIN past : past[i] < now
  <2>1. SUFFICES ASSUME \A i \in DOMAIN past : ~(past[i] < now) PROVE FALSE
    OBVIOUS
  <2>2. \A i \in DOMAIN past : now <= past[i]
    <3>1. \A i \in DOMAIN past : past[i] \in Nat
      OBVIOUS
    <3> QED BY <2>1, <3>1
  <2>3. now <= avg
    BY <2>2, AverageAtLeast
  <2> HIDE DEF avg
  <2> QED BY <1>2, <1>5, <2>3
<1>6. Direction(past, now) \in Trends
  BY <1>3 DEF Trends
<1> QED BY <1>4, <1>5, <1>6

\* The actions that a policy suggests.
LEMMA AnalyzeFacts ==
  ASSUME policy \in DOMAIN Policies, NEW lat, NEW len \in [Stages -> QueueLens], NEW trend,
         NEW order \in Orders
  PROVE  Analyze(lat, len, trend, order) \in Seq(Suggested(len, trend))
<1> DEFINE X == Suggested(len, trend)
<1>1. order \in Seq(Stages)
  <2>1. Cardinality(Stages) \in Nat
    BY TuningAssumption, FS_CardinalityType
  <2>2. order \in [1 .. Cardinality(Stages) -> Stages]
    BY DEF Orders, SetToSeqs
  <2> QED BY <2>1, <2>2
<1>2. policy \in {"conservative", "aggressive"} /\ P.limit \in Nat
  BY PolicyFacts
<1>3. <<>> \in Seq(X)
  BY EmptySeq
<1>4. Increases(lat, len, order) \in Seq(X)
  <2> DEFINE slowest == Members(order, Bottlenecks(lat))
             s == Head(slowest)
  <2>1. slowest \in Seq(Stages \cap Bottlenecks(lat))
    BY <1>1, MembersSeq
  <2>2. Increases(lat, len, order) =
          IF slowest = <<>> THEN <<>>
          ELSE IF policy = "aggressive" \/ Raised(len[s]) > len[s]
               THEN <<Increase(s, Raised(len[s]))>> ELSE <<>>
    BY DEF Increases
  <2>3. slowest # <<>> => s \in Stages
    <3> HIDE DEF slowest
    <3> QED BY <2>1, HeadTailProperties
  <2>4. ASSUME slowest # <<>>, policy = "aggressive" \/ Raised(len[s]) > len[s]
        PROVE  <<Increase(s, Raised(len[s]))>> \in Seq(X)
    <3>1. Increase(s, Raised(len[s])) \in X
      <4> HIDE DEF s
      <4> QED BY <1>2, <2>3, <2>4 DEF Suggested
    <3> HIDE DEF s, X
    <3> QED BY <3>1
  <2> HIDE DEF slowest, s, X
  <2> QED BY <1>3, <2>2, <2>4
<1>5. Decreases(len, order) \in Seq(X)
  <2> DEFINE large == Members(order, {s \in Stages : len[s] > Floor})
             down == [i \in DOMAIN large |-> Decrease(large[i], Lowered(len[large[i]]))]
  <2>1. large \in Seq(Stages \cap {s \in Stages : len[s] > Floor})
    BY <1>1, MembersSeq
  <2>2. Decreases(len, order) = IF PressureAbove(P.pressure, len) THEN down ELSE <<>>
    BY DEF Decreases
  <2>3. DOMAIN large = 1 .. Len(large) /\ Len(large) \in Nat
    <3> HIDE DEF large
    <3> QED BY <2>1
  <2>4. \A i \in DOMAIN large : Decrease(large[i], Lowered(len[large[i]])) \in X
    <3>1. \A i \in DOMAIN large : large[i] \in {s \in Stages : len[s] > Floor}
      <4> HIDE DEF large
      <4> QED BY <2>1
    <3> HIDE DEF large
    <3> QED BY <3>1 DEF Suggested
  <2>5. down \in Seq(X)
    <3> HIDE DEF large, X
    <3> QED BY <2>3, <2>4
  <2> HIDE DEF down, X
  <2> QED BY <1>3, <2>2, <2>5
<1>6. Batchings(len, trend, order) \in Seq(X)
  <2> DEFINE set == {s \in Stages : len[s] > Threshold /\ trend[s] = "Increasing"}
             growing == Members(order, set)
             batch == [i \in DOMAIN growing |-> Batching(growing[i])]
  <2>1. growing \in Seq(Stages \cap set)
    BY <1>1, MembersSeq
  <2>2. Batchings(len, trend, order) = IF policy = "conservative" THEN batch ELSE <<>>
    BY DEF Batchings
  <2>3. DOMAIN growing = 1 .. Len(growing) /\ Len(growing) \in Nat
    <3> HIDE DEF growing
    <3> QED BY <2>1
  <2>4. \A i \in DOMAIN growing : Batching(growing[i]) \in X
    <3>1. \A i \in DOMAIN growing : growing[i] \in set
      <4> HIDE DEF growing, set
      <4> QED BY <2>1
    <3> HIDE DEF growing
    <3> QED BY <3>1 DEF Suggested
  <2>5. batch \in Seq(X)
    <3> HIDE DEF growing, X
    <3> QED BY <2>3, <2>4
  <2> HIDE DEF batch, X
  <2> QED BY <1>3, <2>2, <2>5
<1> DEFINE all == Increases(lat, len, order) \o Decreases(len, order)
                    \o Batchings(len, trend, order)
<1>7. all \in Seq(X)
  <2> HIDE DEF X
  <2> QED BY <1>4, <1>5, <1>6, ConcatProperties
<1>8. Truncated(all, P.limit) \in Seq(X)
  <2> HIDE DEF all, X
  <2>1. Len(all) \in Nat /\ \A i \in 1 .. Len(all) : all[i] \in X
    BY <1>7
  <2>2. Smaller(Len(all), P.limit) \in Int /\ Smaller(Len(all), P.limit) <= Len(all)
    BY <1>2, <2>1 DEF Smaller
  <2>3. \A i \in 1 .. Smaller(Len(all), P.limit) : all[i] \in X
    BY <2>1, <2>2
  <2> QED BY <2>2, <2>3, SubSeqProperties DEF Truncated
<1> QED BY <1>3, <1>8 DEF Analyze

\* What a suggestion asks for, in every snapshot.
LEMMA SuggestedFacts ==
  ASSUME policy \in DOMAIN Policies, NEW len \in [Stages -> QueueLens], NEW trend,
         NEW a \in Suggested(len, trend)
  PROVE  /\ a \in Actions
         /\ a.kind = "DecreaseQueueSize" =>
              Floor <= a.new_size /\ a.new_size < len[a.stage]
         /\ a.kind = "IncreaseQueueSize" =>
              /\ a.new_size <= Ceiling
              /\ policy = "conservative" => a.new_size > len[a.stage]
              /\ a.new_size < len[a.stage] => len[a.stage] > Ceiling
         /\ a.kind = "EnableBatching" =>
              a.stage \in Stages /\ len[a.stage] > Threshold /\ trend[a.stage] = "Increasing"
<1>1. P.step \in {1, 2} /\ \A s \in Stages : len[s] \in Nat
  BY PolicyFacts, TuningAssumption
<1>2. CASE \E s \in Stages : /\ a = Increase(s, Raised(len[s]))
                             /\ policy = "conservative" => Raised(len[s]) > len[s]
  <2>1. PICK s \in Stages : /\ a = Increase(s, Raised(len[s]))
                            /\ policy = "conservative" => Raised(len[s]) > len[s]
    BY <1>2
  <2>2. /\ Raised(len[s]) \in Nat /\ Raised(len[s]) <= Ceiling
        /\ Raised(len[s]) < len[s] => len[s] > Ceiling
    <3> DEFINE n == len[s]
               q == (n * (10 + P.step)) \div 10
    <3>1. n \in Nat
      BY <1>1
    <3>2. q \in Nat /\ q >= n
      <4> HIDE DEF n
      <4>1. CASE P.step = 1
        BY <3>1, <4>1
      <4>2. CASE P.step = 2
        BY <3>1, <4>2
      <4> QED BY <1>1, <4>1, <4>2
    <3>3. Raised(n) = IF q < Ceiling THEN q ELSE Ceiling
      BY DEF Raised, Smaller
    <3> HIDE DEF n, q
    <3>4. /\ Raised(n) \in Nat /\ Raised(n) <= Ceiling
          /\ Raised(n) < n => n > Ceiling
      BY <3>1, <3>2, <3>3 DEF Ceiling
    <3> QED BY <3>4 DEF n
  <2>3. a.kind = "IncreaseQueueSize" /\ a.stage = s /\ a.new_size = Raised(len[s])
    BY <2>1 DEF Increase
  <2>4. a \in Actions
    BY <2>1, <2>2 DEF Increase, Actions
  <2> QED BY <2>1, <2>2, <2>3, <2>4
<1>3. CASE \E s \in Stages : a = Decrease(s, Lowered(len[s])) /\ len[s] > Floor
  <2>1. PICK s \in Stages : a = Decrease(s, Lowered(len[s])) /\ len[s] > Floor
    BY <1>3
  <2>2. Lowered(len[s]) \in Nat /\ Floor <= Lowered(len[s]) /\ Lowered(len[s]) < len[s]
    <3> DEFINE n == len[s]
               q == (n * (10 - P.step)) \div 10
    <3>1. n \in Nat /\ n > 100
      BY <1>1, <2>1 DEF Floor
    <3>2. q \in Nat /\ q < n
      <4> HIDE DEF n
      <4>1. CASE P.step = 1
        BY <3>1, <4>1
      <4>2. CASE P.step = 2
        BY <3>1, <4>2
      <4> QED BY <1>1, <4>1, <4>2
    <3>3. Lowered(n) = IF q > 100 THEN q ELSE 100
      BY DEF Lowered, Larger, Floor
    <3> HIDE DEF n, q
    <3>4. Lowered(n) \in Nat /\ 100 <= Lowered(n) /\ Lowered(n) < n
      BY <3>1, <3>2, <3>3
    <3> QED BY <3>4 DEF Floor, n
  <2>3. a.kind = "DecreaseQueueSize" /\ a.stage = s /\ a.new_size = Lowered(len[s])
    BY <2>1 DEF Decrease
  <2>4. a \in Actions
    BY <2>1, <2>2 DEF Decrease, Actions
  <2> QED BY <2>2, <2>3, <2>4
<1>4. CASE \E s \in Stages : /\ a = Batching(s)
                             /\ len[s] > Threshold /\ trend[s] = "Increasing"
  <2>1. PICK s \in Stages : /\ a = Batching(s)
                            /\ len[s] > Threshold /\ trend[s] = "Increasing"
    BY <1>4
  <2>2. a.kind = "EnableBatching" /\ a.stage = s
    BY <2>1 DEF Batching
  <2>3. a \in Actions
    BY <2>1 DEF Batching, Actions
  <2> QED BY <2>1, <2>2, <2>3
<1> QED BY <1>2, <1>3, <1>4 DEF Suggested

Snapshots == [Stages -> QueueLens]

\* Room is made in the history, and there is always some for the trends' window.
LEMMA KeptFacts ==
  ASSUME TypeOK
  PROVE  /\ Kept \in Seq(Snapshots) /\ Len(Kept) \in Nat /\ Len(Kept) < MaxHistory
         /\ Len(Kept) < TrendWindow => Kept = history
<1>1. /\ history \in Seq(Snapshots) /\ Len(history) <= MaxHistory
      /\ MaxHistory \in Nat /\ TrendWindow \in Nat \ {0} /\ MaxHistory > TrendWindow
  BY TuningAssumption DEF TypeOK, Snapshots
<1>2. CASE Len(history) >= MaxHistory
  <2>1. Len(history) = MaxHistory /\ history # <<>>
    BY <1>1, <1>2
  <2>2. Kept = Tail(history)
    BY <1>2 DEF Kept
  <2>3. Kept \in Seq(Snapshots) /\ Len(Kept) = MaxHistory - 1
    BY <1>1, <2>1, <2>2, HeadTailProperties
  <2> QED BY <1>1, <2>3
<1>3. CASE ~(Len(history) >= MaxHistory)
  BY <1>1, <1>3 DEF Kept
<1> QED BY <1>2, <1>3

\* A new snapshot comes last.
LEMMA HistoryFacts ==
  ASSUME TypeOK, NEW len \in Snapshots, history' = Append(Kept, len)
  PROVE  /\ history' \in Seq(Snapshots) /\ Len(history') = Len(Kept) + 1
         /\ Len(history') <= MaxHistory /\ Last(history') = len
         /\ \A i \in 1 .. Len(Kept) : history'[i] = Kept[i]
<1>1. Kept \in Seq(Snapshots) /\ Len(Kept) \in Nat /\ Len(Kept) < MaxHistory
  BY KeptFacts
<1>2. /\ Append(Kept, len) \in Seq(Snapshots) /\ Len(Append(Kept, len)) = Len(Kept) + 1
      /\ Append(Kept, len)[Len(Kept) + 1] = len
      /\ \A i \in 1 .. Len(Kept) : Append(Kept, len)[i] = Kept[i]
  BY <1>1, AppendProperties
<1> QED BY <1>1, <1>2, TuningAssumption DEF Last

\* The window that the trends are computed from.
LEMMA WindowFacts ==
  ASSUME TypeOK, Len(Kept) >= TrendWindow, NEW s \in Stages
  PROVE  /\ Window \in Seq(Snapshots) /\ Len(Window) = TrendWindow
         /\ \A i \in 1 .. TrendWindow : Window[i] = Kept[Len(Kept) - TrendWindow + i]
         /\ Lens(Window, s) \in Seq(Nat) /\ Lens(Window, s) # <<>>
         /\ DOMAIN Lens(Window, s) = 1 .. TrendWindow
         /\ \A i \in 1 .. TrendWindow : Lens(Window, s)[i] = Window[i][s]
<1> DEFINE k == Len(Kept)
           m == k - TrendWindow + 1
<1>1. Kept \in Seq(Snapshots) /\ k \in Nat /\ TrendWindow \in Nat \ {0} /\ TrendWindow <= k
  BY KeptFacts, TuningAssumption
<1>2. \A i \in 1 .. k : Kept[i] \in Snapshots
  BY <1>1
<1> HIDE DEF k
<1>3. m \in Int /\ \A i \in m .. k : i \in 1 .. k
  BY <1>1
<1>4. /\ SubSeq(Kept, m, k) \in Seq(Snapshots)
      /\ Len(SubSeq(Kept, m, k)) = IF m <= k THEN k - m + 1 ELSE 0
      /\ \A i \in 1 .. k - m + 1 : SubSeq(Kept, m, k)[i] = Kept[m + i - 1]
  <2>1. \A i \in m .. k : Kept[i] \in Snapshots
    BY <1>2, <1>3
  <2> HIDE DEF m
  <2> QED BY <1>1, <1>3, <2>1, SubSeqProperties
<1>5. k - m + 1 = TrendWindow /\ m <= k /\ \A i \in Int : m + i - 1 = k - TrendWindow + i
  BY <1>1
<1>6. Window = SubSeq(Kept, m, k)
  BY DEF Window, k
<1>7. /\ Window \in Seq(Snapshots) /\ Len(Window) = TrendWindow
      /\ \A i \in 1 .. TrendWindow : Window[i] = Kept[k - TrendWindow + i]
  <2> HIDE DEF m
  <2>1. Window \in Seq(Snapshots) /\ Len(Window) = TrendWindow
    BY <1>4, <1>5, <1>6
  <2>2. ASSUME NEW i \in 1 .. TrendWindow PROVE Window[i] = Kept[k - TrendWindow + i]
    <3>1. i \in 1 .. k - m + 1 /\ m + i - 1 = k - TrendWindow + i
      BY <1>5
    <3> QED BY <1>4, <1>6, <3>1
  <2> QED BY <2>1, <2>2
<1>8. DOMAIN Window = 1 .. TrendWindow /\ \A i \in 1 .. TrendWindow : Window[i] \in Snapshots
  BY <1>1, <1>7
<1>9. \A i \in 1 .. TrendWindow : Window[i][s] \in Nat
  BY <1>8, TuningAssumption DEF Snapshots
<1>10. Lens(Window, s) = [i \in 1 .. TrendWindow |-> Window[i][s]]
  BY <1>8 DEF Lens
<1>11. Lens(Window, s) \in Seq(Nat) /\ Len(Lens(Window, s)) = TrendWindow
  BY <1>1, <1>9, <1>10
<1>12. Lens(Window, s) # <<>>
  <2>1. Len(<<>>) = 0
    OBVIOUS
  <2> QED BY <1>1, <1>11, <2>1
<1> QED BY <1>7, <1>10, <1>11, <1>12 DEF k

\* The trends of a stage are computed as soon as there are enough snapshots.
LEMMA TrendsFacts ==
  ASSUME TypeOK, NEW len \in Snapshots
  PROVE  /\ TrendsWith(len) \in [Stages -> Trends]
         /\ Len(Kept) < TrendWindow => TrendsWith(len) = trends
         /\ Len(Kept) >= TrendWindow =>
              \A s \in Stages : TrendsWith(len)[s] = "Increasing" =>
                \E i \in 1 .. TrendWindow : Window[i][s] < len[s]
<1>1. Len(Kept) \in Nat /\ TrendWindow \in Nat /\ \A s \in Stages : len[s] \in Nat
  BY KeptFacts, TuningAssumption DEF Snapshots
<1>2. CASE Len(Kept) < TrendWindow
  <2>1. ~(Len(Kept) >= TrendWindow) /\ TrendsWith(len) = trends
    BY <1>1, <1>2 DEF TrendsWith
  <2> QED BY <1>2, <2>1 DEF TypeOK, Trends
<1>3. CASE Len(Kept) >= TrendWindow
  <2>1. ~(Len(Kept) < TrendWindow)
    BY <1>1, <1>3
  <2>2. TrendsWith(len) = [s \in Stages |-> Direction(Lens(Window, s), len[s])]
    BY <2>1 DEF TrendsWith
  <2>3. ASSUME NEW s \in Stages
        PROVE  /\ Direction(Lens(Window, s), len[s]) \in Trends
               /\ Direction(Lens(Window, s), len[s]) = "Increasing" =>
                    \E i \in 1 .. TrendWindow : Window[i][s] < len[s]
    <3>1. /\ Lens(Window, s) \in Seq(Nat) /\ Lens(Window, s) # <<>>
          /\ DOMAIN Lens(Window, s) = 1 .. TrendWindow
          /\ \A i \in 1 .. TrendWindow : Lens(Window, s)[i] = Window[i][s]
      BY <1>3, WindowFacts
    <3>2. /\ Direction(Lens(Window, s), len[s]) \in Trends
          /\ Direction(Lens(Window, s), len[s]) = "Increasing" =>
               \E i \in DOMAIN Lens(Window, s) : Lens(Window, s)[i] < len[s]
      BY <1>1, <3>1, DirectionFacts
    <3> QED BY <3>1, <3>2
  <2> QED BY <2>1, <2>2, <2>3
<1> QED BY <1>1, <1>2, <1>3

\* What the window holds is what the history has just before the new snapshot.
LEMMA BeforeIsWindow ==
  ASSUME TypeOK, NEW len \in Snapshots, history' = Append(Kept, len), Len(Kept) >= TrendWindow,
         NEW i \in 1 .. TrendWindow
  PROVE  LET n == Len(history')
             before == SubSeq(history', n - TrendWindow, n - 1)
         IN  i \in DOMAIN before /\ before[i] = Window[i]
<1> DEFINE k == Len(Kept)
           h == history'
           m == k + 1 - TrendWindow
           before == SubSeq(h, m, k)
<1>1. /\ k \in Nat /\ TrendWindow \in Nat \ {0} /\ TrendWindow <= k
      /\ h \in Seq(Snapshots) /\ Len(h) = k + 1 /\ \A j \in 1 .. k : h[j] = Kept[j]
  BY KeptFacts, HistoryFacts, TuningAssumption
<1>2. \A j \in 1 .. TrendWindow : Window[j] = Kept[k - TrendWindow + j]
  <2>1. PICK s \in Stages : TRUE
    BY TuningAssumption
  <2> QED BY WindowFacts
<1> HIDE DEF k, h
<1>3. \A j \in 1 .. k + 1 : h[j] \in Snapshots
  BY <1>1
<1>4. m \in Int /\ k \in Int /\ \A j \in m .. k : j \in 1 .. k + 1
  BY <1>1
<1>5. /\ before \in Seq(Snapshots) /\ Len(before) = IF m <= k THEN k - m + 1 ELSE 0
      /\ \A j \in 1 .. k - m + 1 : before[j] = h[m + j - 1]
  <2>1. \A j \in m .. k : h[j] \in Snapshots
    BY <1>3, <1>4
  <2> HIDE DEF m
  <2> QED BY <1>4, <2>1, SubSeqProperties
<1>6. m <= k /\ k - m + 1 = TrendWindow /\ m + i - 1 = k - TrendWindow + i
  BY <1>1
<1>7. m + i - 1 \in 1 .. k
  BY <1>1
<1>8. i \in DOMAIN before /\ before[i] = h[m + i - 1]
  <2>1. DOMAIN before = 1 .. TrendWindow
    <3> HIDE DEF before, m
    <3> QED BY <1>5, <1>6
  <2> QED BY <1>5, <1>6, <2>1
<1>9. before[i] = Window[i]
  <2> HIDE DEF before, m
  <2> QED BY <1>1, <1>2, <1>6, <1>7, <1>8
<1>10. Len(h) - TrendWindow = m /\ Len(h) - 1 = k
  BY <1>1
<1> QED BY <1>8, <1>9, <1>10 DEF h

\* The log's entries for the actions of a call.
EntriesOf(actions) == [i \in DOMAIN actions |-> Entry(actions[i])]

Done == Entries \ Rejected

\* An entry is of its action, and is not rejected if and only if that is valid.
LEMMA EntryFacts ==
  ASSUME NEW action \in Actions
  PROVE  /\ Entry(action) \in Entries /\ Entry(action).action = action
         /\ Entry(action).result \in {"Applied", "Rejected"}
         /\ Entry(action) \in Done <=> action \in ValidActions
<1>1. Valid(action) => Entry(action) = [action |-> action, result |-> "Applied"]
  BY DEF Entry
<1>2. ~Valid(action) => Entry(action) = [action |-> action, result |-> "Rejected"]
  BY DEF Entry
<1>3. action \in ValidActions <=> Valid(action)
  BY DEF ValidActions
<1>4. /\ [action |-> action, result |-> "Applied"] \in Entries \ Rejected
      /\ [action |-> action, result |-> "Rejected"] \in Entries \cap Rejected
  BY DEF Entries, Rejected
<1> QED BY <1>1, <1>2, <1>3, <1>4 DEF Done

\* The actions of a log, and of what is appended to it.
LEMMA ActionsOfFacts ==
  ASSUME NEW a \in Seq(Entries), NEW b \in Seq(Entries)
  PROVE  /\ ActionsOf(a) \in Seq(Actions) /\ Len(ActionsOf(a)) = Len(a)
         /\ ActionsOf(a \o b) = ActionsOf(a) \o ActionsOf(b)
<1>1. \A e \in Entries : e.action \in Actions
  BY DEF Entries
<1>2. /\ Len(a) \in Nat /\ Len(b) \in Nat /\ DOMAIN a = 1 .. Len(a) /\ DOMAIN b = 1 .. Len(b)
      /\ \A i \in 1 .. Len(a) : a[i].action \in Actions
      /\ \A i \in 1 .. Len(b) : b[i].action \in Actions
  BY <1>1
<1>3. /\ ActionsOf(a) = [i \in 1 .. Len(a) |-> a[i].action]
      /\ ActionsOf(b) = [i \in 1 .. Len(b) |-> b[i].action]
  BY <1>2 DEF ActionsOf
<1>4. /\ ActionsOf(a) \in Seq(Actions) /\ Len(ActionsOf(a)) = Len(a)
      /\ ActionsOf(b) \in Seq(Actions) /\ Len(ActionsOf(b)) = Len(b)
  BY <1>2, <1>3
<1>5. /\ a \o b \in Seq(Entries) /\ Len(a \o b) = Len(a) + Len(b)
      /\ \A i \in 1 .. Len(a) + Len(b) : (a \o b)[i] = IF i <= Len(a) THEN a[i] ELSE b[i - Len(a)]
  BY ConcatProperties
<1> DEFINE all == a \o b
           x == ActionsOf(a)
           y == ActionsOf(b)
<1>6. ActionsOf(all) = [i \in 1 .. Len(a) + Len(b) |-> all[i].action]
  <2>1. DOMAIN all = 1 .. Len(a) + Len(b)
    <3> HIDE DEF all
    <3> QED BY <1>5 DEF all
  <2> HIDE DEF all
  <2> QED BY <2>1 DEF ActionsOf
<1>7. ActionsOf(all) \in Seq(Actions) /\ Len(ActionsOf(all)) = Len(a) + Len(b)
  <2>1. \A i \in 1 .. Len(a) + Len(b) : all[i].action \in Actions
    <3>1. \A i \in 1 .. Len(a) + Len(b) : all[i] \in Entries
      <4> HIDE DEF all
      <4> QED BY <1>5 DEF all
    <3> HIDE DEF all
    <3> QED BY <1>1, <3>1
  <2> HIDE DEF all
  <2> QED BY <1>2, <1>6, <2>1
<1>8. /\ x \o y \in Seq(Actions) /\ Len(x \o y) = Len(a) + Len(b)
      /\ \A i \in 1 .. Len(a) + Len(b) : (x \o y)[i] = IF i <= Len(a) THEN x[i] ELSE y[i - Len(a)]
  <2> HIDE DEF x, y
  <2>1. x \in Seq(Actions) /\ y \in Seq(Actions) /\ Len(x) = Len(a) /\ Len(y) = Len(b)
    BY <1>4 DEF x, y
  <2>2. /\ x \o y \in Seq(Actions) /\ Len(x \o y) = Len(x) + Len(y)
        /\ \A i \in 1 .. Len(x) + Len(y) : (x \o y)[i] = IF i <= Len(x) THEN x[i]
                                                       ELSE y[i - Len(x)]
    BY <2>1, ConcatProperties
  <2> QED BY <2>1, <2>2
<1>9. ASSUME NEW i \in 1 .. Len(a) + Len(b) PROVE ActionsOf(all)[i] = (x \o y)[i]
  <2>1. CASE i <= Len(a)
    <3>1. i \in 1 .. Len(a) /\ all[i] = a[i] /\ (x \o y)[i] = x[i]
      BY <1>2, <1>5, <1>8, <2>1
    <3>2. x[i] = a[i].action
      BY <1>3, <3>1
    <3> QED BY <1>6, <3>1, <3>2
  <2>2. CASE ~(i <= Len(a))
    <3>1. i - Len(a) \in 1 .. Len(b) /\ all[i] = b[i - Len(a)] /\ (x \o y)[i] = y[i - Len(a)]
      BY <1>2, <1>5, <1>8, <2>2
    <3>2. y[i - Len(a)] = b[i - Len(a)].action
      BY <1>3, <3>1
    <3> QED BY <1>6, <3>1, <3>2
  <2> QED BY <2>1, <2>2
<1>10. ActionsOf(all) = x \o y
  <2> HIDE DEF all, x, y
  <2> QED BY <1>7, <1>8, <1>9, SeqEqual
<1> QED BY <1>4, <1>10

\* The entries of a call that are not rejected are of the actions it returns.
LEMMA DoneActions ==
  ASSUME NEW actions \in Seq(Actions)
  PROVE  /\ EntriesOf(actions) \in Seq(Entries)
         /\ \A i \in 1 .. Len(EntriesOf(actions)) :
              EntriesOf(actions)[i].result \in {"Applied", "Rejected"}
         /\ ActionsOf(Members(EntriesOf(actions), Done)) = Members(actions, ValidActions)
<1> DEFINE Same(s) == ActionsOf(Members(EntriesOf(s), Done)) = Members(s, ValidActions)
           Good == {s \in Seq(Actions) : Same(s)}
<1>1. ASSUME NEW s \in Seq(Actions)
      PROVE  /\ EntriesOf(s) \in Seq(Entries) /\ Len(EntriesOf(s)) = Len(s)
             /\ \A i \in 1 .. Len(s) : EntriesOf(s)[i] = Entry(s[i])
  <2>1. DOMAIN s = 1 .. Len(s) /\ Len(s) \in Nat /\ \A i \in 1 .. Len(s) : Entry(s[i]) \in Entries
    BY EntryFacts
  <2>2. EntriesOf(s) = [i \in 1 .. Len(s) |-> Entry(s[i])]
    BY <2>1 DEF EntriesOf
  <2> QED BY <2>1, <2>2
<1>2. <<>> \in Good
  <2>1. EntriesOf(<<>>) = <<>> /\ ActionsOf(<<>>) = <<>> /\ <<>> \in Seq(Actions)
    BY DEF EntriesOf, ActionsOf
  <2> QED BY <2>1, MembersEmpty
<1>3. ASSUME NEW s \in Seq(Actions), NEW e \in Actions, s \in Good PROVE Append(s, e) \in Good
  <2> DEFINE t == Append(s, e)
             es == EntriesOf(s)
             m == Members(es, Done)
  <2>1. /\ t \in Seq(Actions) /\ Len(t) = Len(s) + 1 /\ t[Len(s) + 1] = e /\ Len(s) \in Nat
        /\ \A i \in 1 .. Len(s) : t[i] = s[i]
    BY AppendProperties
  <2>2. es \in Seq(Entries) /\ Len(es) = Len(s) /\ Entry(e) \in Entries
    BY <1>1, EntryFacts
  <2>3. EntriesOf(t) = Append(es, Entry(e))
    <3>1. /\ EntriesOf(t) \in Seq(Entries) /\ Len(EntriesOf(t)) = Len(s) + 1
          /\ \A i \in 1 .. Len(s) + 1 : EntriesOf(t)[i] = Entry(t[i])
      <4> HIDE DEF t
      <4> QED BY <1>1, <2>1
    <3>2. /\ Append(es, Entry(e)) \in Seq(Entries) /\ Len(Append(es, Entry(e))) = Len(s) + 1
          /\ Append(es, Entry(e))[Len(s) + 1] = Entry(e)
          /\ \A i \in 1 .. Len(s) : Append(es, Entry(e))[i] = es[i]
      <4> HIDE DEF es
      <4> QED BY <2>2, AppendProperties
    <3>3. \A i \in 1 .. Len(s) : es[i] = Entry(s[i])
      BY <1>1
    <3>4. ASSUME NEW i \in 1 .. Len(s) + 1
          PROVE  EntriesOf(t)[i] = Append(es, Entry(e))[i]
      <4>1. CASE i = Len(s) + 1
        BY <2>1, <3>1, <3>2, <4>1
      <4>2. CASE i \in 1 .. Len(s)
        BY <2>1, <3>1, <3>2, <3>3, <4>2
      <4>3. i = Len(s) + 1 \/ i \in 1 .. Len(s)
        OBVIOUS
      <4> QED BY <4>1, <4>2, <4>3
    <3> HIDE DEF t, es
    <3> QED BY <3>1, <3>2, <3>4, SeqEqual
  <2>4. Members(Append(es, Entry(e)), Done) = IF Entry(e) \in Done THEN Append(m, Entry(e)) ELSE m
    <3> HIDE DEF es
    <3> QED BY <2>2, MembersAppend DEF es
  <2>5. Members(t, ValidActions) = IF e \in ValidActions THEN Append(Members(s, ValidActions), e)
                                   ELSE Members(s, ValidActions)
    BY MembersAppend
  <2>6. m \in Seq(Entries)
    <3>1. m \in Seq(Entries \cap Done) /\ Entries \cap Done \subseteq Entries
      <4> HIDE DEF es
      <4> QED BY <2>2, MembersSeq DEF es
    <3> HIDE DEF m
    <3> QED BY <3>1, SeqMonotonic
  <2>7. ActionsOf(Append(m, Entry(e))) = Append(ActionsOf(m), e)
    <3>1. Append(m, Entry(e)) = m \o <<Entry(e)>> /\ <<Entry(e)>> \in Seq(Entries)
      <4> HIDE DEF m
      <4> QED BY <2>2, <2>6, AppendIsConcat
    <3>2. ActionsOf(<<Entry(e)>>) = <<e>>
      <4>1. DOMAIN <<Entry(e)>> = {1} /\ <<Entry(e)>>[1].action = e
        BY EntryFacts
      <4>2. ActionsOf(<<Entry(e)>>) = [i \in {1} |-> e]
        BY <4>1 DEF ActionsOf
      <4> QED BY <4>2
    <3>3. ActionsOf(m \o <<Entry(e)>>) = ActionsOf(m) \o <<e>> /\ ActionsOf(m) \in Seq(Actions)
      <4> HIDE DEF m
      <4> QED BY <2>6, <3>1, <3>2, ActionsOfFacts
    <3>4. ActionsOf(m) \o <<e>> = Append(ActionsOf(m), e)
      <4> HIDE DEF m
      <4> QED BY <3>3, AppendIsConcat
    <3> QED BY <3>1, <3>3, <3>4
  <2>8. Entry(e) \in Done <=> e \in ValidActions
    BY EntryFacts
  <2>9. ActionsOf(m) = Members(s, ValidActions)
    BY <1>3
  <2>10. Same(t)
    <3> HIDE DEF t, m, es
    <3> QED BY <2>3, <2>4, <2>5, <2>7, <2>8, <2>9
  <2> HIDE DEF Same, t
  <2> QED BY <2>1, <2>10 DEF t
<1>4. Seq(Actions) \subseteq Good
  <2> HIDE DEF Good
  <2> QED BY <1>2, <1>3, SeqInduction
<1>5. ASSUME NEW i \in 1 .. Len(EntriesOf(actions))
      PROVE  EntriesOf(actions)[i].result \in {"Applied", "Rejected"}
  <2>1. EntriesOf(actions)[i] = Entry(actions[i]) /\ actions[i] \in Actions
    BY <1>1
  <2> QED BY <2>1, EntryFacts
<1> QED BY <1>1, <1>4, <1>5

\* The actions that were not rejected, in a log.
DoneOf(log) == ActionsOf(Members(log, Done))

\* The log after a call has the old entries from the one after k on, and then those
\* of the call from the one after j on.
Split(log, entries, all, k, j) ==
    /\ Len(all) = (Len(log) - k) + (Len(entries) - j)
    /\ k > 0 => Len(all) = MaxLog
    /\ j > 0 => Len(all) = MaxLog /\ k = Len(log)
    /\ \A i \in 1 .. Len(log) - k : all[i] = log[k + i]
    /\ \A i \in 1 .. Len(entries) - j : all[(Len(log) - k) + i] = entries[j + i]

LEMMA LoggedFacts ==
  ASSUME NEW log \in Seq(Entries), NEW entries \in Seq(Entries)
  PROVE  /\ Logged(log, entries) \in Seq(Entries) /\ Len(Logged(log, entries)) <= MaxLog
         /\ \E k \in 0 .. Len(log), j \in 0 .. Len(entries) :
              Split(log, entries, Logged(log, entries), k, j)
<1> DEFINE all == log \o entries
           n == Len(all)
           m == Larger(1, n - MaxLog + 1)
           new == SubSeq(all, m, n)
<1>1. MaxLog \in Nat \ {0}
  BY TuningAssumption
<1>2. /\ all \in Seq(Entries) /\ n \in Nat /\ n = Len(log) + Len(entries)
      /\ Len(log) \in Nat /\ Len(entries) \in Nat
      /\ \A i \in 1 .. Len(log) + Len(entries) :
           all[i] = IF i <= Len(log) THEN log[i] ELSE entries[i - Len(log)]
  BY ConcatProperties
<1>3. \A i \in 1 .. n : all[i] \in Entries
  BY <1>2
<1>4. Logged(log, entries) = new
  BY DEF Logged
<1> HIDE DEF all, n
<1>5. /\ m \in Int /\ m >= 1 /\ m - 1 <= n /\ n - m + 1 \in Nat /\ n - m + 1 <= MaxLog
      /\ m > 1 => n - m + 1 = MaxLog
  BY <1>1, <1>2 DEF Larger
<1> HIDE DEF m
<1>6. /\ new \in Seq(Entries) /\ Len(new) = n - m + 1
      /\ \A i \in 1 .. n - m + 1 : new[i] = all[m + i - 1]
  <2>1. \A i \in m .. n : all[i] \in Entries
    BY <1>2, <1>3, <1>5
  <2> QED BY <1>2, <1>5, <2>1, SubSeqProperties
<1> HIDE DEF new
<1>7. CASE m - 1 <= Len(log)
  <2> DEFINE k == m - 1
  <2>1. k \in 0 .. Len(log) /\ 0 \in 0 .. Len(entries)
    BY <1>2, <1>5, <1>7
  <2>2. Len(new) = (Len(log) - k) + (Len(entries) - 0) /\ (k > 0 => Len(new) = MaxLog)
    BY <1>2, <1>5, <1>6
  <2>3. ASSUME NEW i \in 1 .. Len(log) - k PROVE new[i] = log[k + i]
    <3>1. i \in 1 .. n - m + 1 /\ m + i - 1 = k + i /\ k + i \in 1 .. Len(log) + Len(entries)
          /\ k + i <= Len(log)
      BY <1>2, <1>5, <2>1
    <3> QED BY <1>2, <1>6, <3>1
  <2>4. ASSUME NEW i \in 1 .. Len(entries) - 0 PROVE new[(Len(log) - k) + i] = entries[0 + i]
    <3> DEFINE p == (Len(log) - k) + i
    <3>1. p \in 1 .. n - m + 1 /\ m + p - 1 = Len(log) + i
          /\ Len(log) + i \in 1 .. Len(log) + Len(entries) /\ ~(Len(log) + i <= Len(log))
          /\ (Len(log) + i) - Len(log) = 0 + i
      BY <1>2, <1>5, <2>1
    <3> HIDE DEF p
    <3>2. new[p] = entries[0 + i]
      BY <1>2, <1>6, <3>1
    <3> QED BY <3>2 DEF p
  <2>5. Split(log, entries, new, k, 0)
    <3> HIDE DEF k
    <3> QED BY <2>2, <2>3, <2>4 DEF Split
  <2> HIDE DEF k
  <2> QED BY <1>4, <1>5, <1>6, <2>1, <2>5
<1>8. CASE ~(m - 1 <= Len(log))
  <2> DEFINE k == Len(log)
             j == (m - 1) - Len(log)
  <2>1. k \in 0 .. Len(log) /\ j \in 0 .. Len(entries)
    BY <1>2, <1>5, <1>8
  <2>2. /\ Len(new) = (Len(log) - k) + (Len(entries) - j)
        /\ Len(new) = MaxLog
    BY <1>2, <1>5, <1>6, <1>8
  <2>3. \A i \in 1 .. Len(log) - k : new[i] = log[k + i]
    BY <1>2
  <2>4. ASSUME NEW i \in 1 .. Len(entries) - j PROVE new[(Len(log) - k) + i] = entries[j + i]
    <3> DEFINE p == (Len(log) - k) + i
    <3>1. p \in 1 .. n - m + 1 /\ m + p - 1 = Len(log) + (j + i)
          /\ Len(log) + (j + i) \in 1 .. Len(log) + Len(entries)
          /\ ~(Len(log) + (j + i) <= Len(log))
          /\ (Len(log) + (j + i)) - Len(log) = j + i
      BY <1>2, <1>5, <2>1
    <3> HIDE DEF p, j
    <3>2. new[p] = entries[j + i]
      BY <1>2, <1>6, <3>1
    <3> QED BY <3>2 DEF p
  <2>5. Split(log, entries, new, k, j)
    <3> HIDE DEF j
    <3> QED BY <2>2, <2>3, <2>4 DEF Split
  <2> HIDE DEF j
  <2> QED BY <1>4, <1>5, <1>6, <2>1, <2>5
<1> QED BY <1>7, <1>8

\* now is log, or log with its last entry, one that was applied, rolled back.
MarksLast(log, now) ==
    /\ Len(now) = Len(log)
    /\ \A i \in 1 .. Len(log) :
         \/ now[i] = log[i]
         \/ /\ i = Len(log) /\ now[i].result = "RolledBack"
            /\ log[i] = [action |-> now[i].action, result |-> "Applied"]

\* A rollback changes the result of one entry that was not rejected.
LEMMA RolledBackFacts ==
  ASSUME NEW log \in Seq(Entries)
  PROVE  /\ RolledBack(log) \in Seq(Entries)
         /\ MarksLast(log, RolledBack(log))
         /\ DoneOf(RolledBack(log)) = DoneOf(log)
<1>1. CASE ~(log # <<>> /\ Last(log).result = "Applied")
  BY <1>1 DEF RolledBack, MarksLast
<1>2. CASE log # <<>> /\ Last(log).result = "Applied"
  <2>1. PICK f \in Seq(Entries), e \in Entries : log = Append(f, e)
    BY <1>2, SequenceEmptyOrAppend
  <2> DEFINE n == Len(f) + 1
             e2 == [e EXCEPT !.result = "RolledBack"]
             log2 == Append(f, e2)
  <2>2. /\ Len(log) = n /\ Len(f) \in Nat /\ log[n] = e
        /\ \A i \in 1 .. Len(f) : log[i] = f[i] /\ f[i] \in Entries
    BY <2>1, AppendProperties
  <2>3. e.result = "Applied"
    BY <1>2, <2>2 DEF Last
  <2>4. /\ e2 \in Entries /\ e2.action = e.action /\ e2.result = "RolledBack"
        /\ e = [action |-> e2.action, result |-> "Applied"]
        /\ e \in Done /\ e2 \in Done
    <3>1. PICK a \in Actions, r \in {"Applied", "Rejected", "RolledBack"} :
            e = [action |-> a, result |-> r]
      BY DEF Entries
    <3>2. e = [action |-> a, result |-> "Applied"] /\ e2 = [action |-> a, result |-> "RolledBack"]
      BY <2>3, <3>1
    <3> QED BY <3>2 DEF Entries, Rejected, Done
  <2> HIDE DEF e2
  <2>5. /\ log2 \in Seq(Entries) /\ Len(log2) = n /\ log2[n] = e2
        /\ \A i \in 1 .. Len(f) : log2[i] = f[i]
    BY <2>4, AppendProperties
  <2>6. RolledBack(log) = log2
    <3>1. RolledBack(log) = [log EXCEPT ![n] = e2]
      BY <1>2, <2>2 DEF RolledBack, e2
    <3>2. n \in 1 .. Len(log)
      BY <2>2
    <3>3. /\ [log EXCEPT ![n] = e2] \in Seq(Entries) /\ Len([log EXCEPT ![n] = e2]) = Len(log)
          /\ \A i \in 1 .. Len(log) : [log EXCEPT ![n] = e2][i] = IF i = n THEN e2 ELSE log[i]
      <4> HIDE DEF n
      <4> QED BY <2>4, <3>2, ExceptSeq
    <3> DEFINE new == [log EXCEPT ![n] = e2]
    <3>4. ASSUME NEW i \in 1 .. n PROVE new[i] = log2[i]
      <4>1. i = n \/ (i # n /\ i \in 1 .. Len(f))
        BY <2>2
      <4>2. new[i] = IF i = n THEN e2 ELSE log[i]
        BY <2>2, <3>3
      <4> HIDE DEF new, log2
      <4> QED BY <2>2, <2>5, <4>1, <4>2
    <3> HIDE DEF new, log2, n
    <3>5. new = log2
      BY <2>2, <2>5, <3>3, <3>4, SeqEqual DEF new
    <3> QED BY <3>1, <3>5 DEF new
  <2>7. DoneOf(log2) = DoneOf(log)
    <3> DEFINE m == Members(f, Done)
    <3>1. Members(log, Done) = Append(m, e) /\ Members(log2, Done) = Append(m, e2)
      BY <2>1, <2>4, MembersAppend
    <3>2. m \in Seq(Entries)
      <4>1. m \in Seq(Entries \cap Done) /\ Entries \cap Done \subseteq Entries
        BY MembersSeq
      <4> HIDE DEF m
      <4> QED BY <4>1, SeqMonotonic
    <3>3. ASSUME NEW x \in Entries
          PROVE  ActionsOf(Append(m, x)) = ActionsOf(m) \o <<x.action>>
      <4>1. Append(m, x) = m \o <<x>> /\ <<x>> \in Seq(Entries)
        <5> HIDE DEF m
        <5> QED BY <3>2, AppendIsConcat
      <4>2. ActionsOf(<<x>>) = <<x.action>>
        <5>1. DOMAIN <<x>> = {1} /\ <<x>>[1] = x
          OBVIOUS
        <5>2. ActionsOf(<<x>>) = [i \in {1} |-> x.action]
          BY <5>1 DEF ActionsOf
        <5> QED BY <5>2
      <4> HIDE DEF m
      <4> QED BY <3>2, <4>1, <4>2, ActionsOfFacts
    <3> HIDE DEF m, log2
    <3> QED BY <2>4, <3>1, <3>3 DEF DoneOf
  <2>8. MarksLast(log, log2)
    <3>1. ASSUME NEW i \in 1 .. Len(log)
          PROVE  \/ log2[i] = log[i]
                 \/ /\ i = Len(log) /\ log2[i].result = "RolledBack"
                    /\ log[i] = [action |-> log2[i].action, result |-> "Applied"]
      <4>1. i = n \/ i \in 1 .. Len(f)
        BY <2>2
      <4> HIDE DEF log2
      <4> QED BY <2>2, <2>4, <2>5, <4>1
    <3> HIDE DEF log2
    <3> QED BY <2>2, <2>5, <3>1 DEF MarksLast
  <2> HIDE DEF log2
  <2> QED BY <2>5, <2>6, <2>7, <2>8
<1> QED BY <1>1, <1>2

\* The body of LogKeepsRecord, for a log that becomes now while process returns back
\* and the latency has grown or not; k is the number of entries that make room.
Record(log, now, back, grown, k) ==
    LET old == SubSeq(log, k + 1, Len(log))
        new == SubSeq(now, Len(old) + 1, Len(now))
        RollsBack(i) == i = Len(now) /\ now[i].result = "RolledBack" /\ grown
    IN  /\ Len(old) <= Len(now)
        /\ k > 0 => Len(now) = MaxLog
        /\ \A i \in DOMAIN old :
             \/ now[i] = old[i]
             \/ RollsBack(i) /\ old[i] = [action |-> now[i].action, result |-> "Applied"]
        /\ \A i \in DOMAIN now : i > Len(old) /\ now[i].result = "RolledBack" => RollsBack(i)
        /\ IF Len(new) < MaxLog THEN DoneOf(new) = back ELSE IsSuffix(DoneOf(new), back)

\* The actions not rejected in a log that is put together of two.
LEMMA DoneOfConcat ==
  ASSUME NEW a \in Seq(Entries), NEW b \in Seq(Entries)
  PROVE  /\ DoneOf(a \o b) = DoneOf(a) \o DoneOf(b)
         /\ DoneOf(a) \in Seq(Actions) /\ DoneOf(b) \in Seq(Actions)
<1>1. Members(a \o b, Done) = Members(a, Done) \o Members(b, Done)
  BY MembersConcat
<1>2. Members(a, Done) \in Seq(Entries) /\ Members(b, Done) \in Seq(Entries)
  <2>1. /\ Members(a, Done) \in Seq(Entries \cap Done)
        /\ Members(b, Done) \in Seq(Entries \cap Done)
        /\ Entries \cap Done \subseteq Entries
    BY MembersSeq
  <2> QED BY <2>1, SeqMonotonic
<1> QED BY <1>1, <1>2, ActionsOfFacts DEF DoneOf

\* The part of a sequence from the place after k on.
LEMMA FromFacts ==
  ASSUME NEW X, NEW s \in Seq(X), NEW k \in 0 .. Len(s)
  PROVE  /\ SubSeq(s, k + 1, Len(s)) \in Seq(X)
         /\ Len(SubSeq(s, k + 1, Len(s))) = Len(s) - k
         /\ \A i \in 1 .. Len(s) - k : SubSeq(s, k + 1, Len(s))[i] = s[k + i]
<1> DEFINE n == Len(s)
           m == k + 1
           new == SubSeq(s, m, n)
<1>1. n \in Nat /\ \A i \in 1 .. n : s[i] \in X
  OBVIOUS
<1> HIDE DEF n
<1>2. m \in Int /\ n \in Int /\ (\A i \in m .. n : s[i] \in X)
      /\ n - m + 1 = n - k /\ (m <= n \/ n - k = 0)
  BY <1>1 DEF n
<1> HIDE DEF m
<1>3. /\ new \in Seq(X) /\ Len(new) = (IF m <= n THEN n - m + 1 ELSE 0)
      /\ \A i \in 1 .. n - m + 1 : new[i] = s[m + i - 1]
  BY <1>2, SubSeqProperties
<1>4. Len(new) = n - k
  <2>1. CASE m <= n
    BY <1>2, <1>3, <2>1
  <2>2. CASE ~(m <= n)
    BY <1>2, <1>3, <2>2
  <2> QED BY <2>1, <2>2
<1>5. ASSUME NEW i \in 1 .. n - k PROVE new[i] = s[k + i]
  <2>1. m + i - 1 = k + i /\ i \in 1 .. n - m + 1
    BY <1>2 DEF m
  <2> QED BY <1>3, <2>1
<1> HIDE DEF new
<1> QED BY <1>3, <1>4, <1>5 DEF new, m, n

\* Of the entries of a call the log keeps the last ones, or all.
LEMMA LastEntries ==
  ASSUME NEW entries \in Seq(Entries), NEW j \in 0 .. Len(entries)
  PROVE  /\ j = 0 => SubSeq(entries, j + 1, Len(entries)) = entries
         /\ IsSuffix(DoneOf(SubSeq(entries, j + 1, Len(entries))), DoneOf(entries))
<1> DEFINE latest == SubSeq(entries, j + 1, Len(entries))
           u == SubSeq(entries, 1, j)
           n == Len(entries)
<1>1. n \in Nat /\ \A i \in 1 .. n : entries[i] \in Entries
  OBVIOUS
<1>2. latest \in Seq(Entries)
  BY FromFacts
<1>3. u \in Seq(Entries)
  <2>1. \A i \in 1 .. j : entries[i] \in Entries
    BY <1>1
  <2> QED BY <2>1, SubSeqProperties
<1>4. SubSeq(entries, 1, n) = entries
  BY SubSeqFull
<1>5. u \o latest = entries
  <2>1. j \in 1 - 1 .. n /\ n \in j .. n /\ 1 \in 1 .. n + 1
    BY <1>1
  <2>2. SubSeq(entries, 1, j) \o SubSeq(entries, j + 1, n) = SubSeq(entries, 1, n)
    BY <1>1, <2>1, ConcatAdjacentSubSeq
  <2> QED BY <1>4, <2>2
<1>6. DoneOf(entries) = DoneOf(u) \o DoneOf(latest)
      /\ DoneOf(u) \in Seq(Actions) /\ DoneOf(latest) \in Seq(Actions)
  <2> HIDE DEF u, latest
  <2> QED BY <1>2, <1>3, <1>5, DoneOfConcat
<1>7. IsSuffix(DoneOf(latest), DoneOf(entries))
  <2> HIDE DEF u, latest
  <2> QED BY <1>6, SuffixOfConcat
<1>8. j = 0 => latest = entries
  BY <1>4
<1> QED BY <1>7, <1>8

\* What a rollback leaves of the end of a log is what it makes of that end.
LEMMA RolledBackEnd ==
  ASSUME NEW log \in Seq(Entries), NEW k \in 0 .. Len(log), k < Len(log)
  PROVE  SubSeq(RolledBack(log), k + 1, Len(log)) = RolledBack(SubSeq(log, k + 1, Len(log)))
<1> DEFINE n == Len(log)
           new == SubSeq(log, k + 1, n)
           l == Len(new)
           back == [log EXCEPT ![n].result = "RolledBack"]
<1>1. /\ new \in Seq(Entries) /\ l = n - k /\ l \in Nat \ {0} /\ n \in Nat
      /\ \A i \in 1 .. n - k : new[i] = log[k + i]
  BY FromFacts
<1>2. /\ log # <<>> /\ new # <<>> /\ Last(log) = log[n] /\ Last(new) = new[l]
      /\ new[l] = log[n]
  <2>1. l \in 1 .. n - k /\ k + l = n
    BY <1>1
  <2>2. new[l] = log[n]
    <3> HIDE DEF new, l, n
    <3> QED BY <1>1, <2>1
  <2>3. new # <<>>
    <3> HIDE DEF new
    <3> QED BY <1>1 DEF l
  <2>4. log # <<>>
    BY <1>1, <2>1
  <2>5. Last(log) = log[n] /\ Last(new) = new[l]
    BY DEF Last
  <2> QED BY <2>2, <2>3, <2>4, <2>5
<1>3. CASE log[n].result # "Applied"
  BY <1>2, <1>3 DEF RolledBack
<1>4. CASE log[n].result = "Applied"
  <2>1. RolledBack(log) = back /\ RolledBack(new) = [new EXCEPT ![l].result = "RolledBack"]
    BY <1>2, <1>4 DEF RolledBack
  <2>2. back \in Seq(Entries) /\ Len(back) = n
        /\ \A i \in 1 .. n : back[i] = IF i = n THEN [log[n] EXCEPT !.result = "RolledBack"]
                                       ELSE log[i]
    <3>1. RolledBack(log) \in Seq(Entries) /\ Len(RolledBack(log)) = n
      BY RolledBackFacts DEF MarksLast
    <3>2. \A i \in 1 .. n : back[i] = IF i = n THEN [log[n] EXCEPT !.result = "RolledBack"]
                                       ELSE log[i]
      OBVIOUS
    <3> QED BY <2>1, <3>1, <3>2
  <2>3. RolledBack(new) \in Seq(Entries) /\ Len(RolledBack(new)) = l
        /\ \A i \in 1 .. l : RolledBack(new)[i] =
             IF i = l THEN [new[l] EXCEPT !.result = "RolledBack"] ELSE new[i]
    <3>1. RolledBack(new) \in Seq(Entries) /\ Len(RolledBack(new)) = l
      <4> HIDE DEF new
      <4> QED BY <1>1, RolledBackFacts DEF MarksLast, l
    <3>2. \A i \in 1 .. l : [new EXCEPT ![l].result = "RolledBack"][i] =
             IF i = l THEN [new[l] EXCEPT !.result = "RolledBack"] ELSE new[i]
      <4>1. DOMAIN new = 1 .. l
        <5> HIDE DEF new
        <5> QED BY <1>1 DEF l
      <4> HIDE DEF new, l
      <4> QED BY <4>1
    <3> QED BY <2>1, <3>1, <3>2
  <2> DEFINE tail == SubSeq(back, k + 1, n)
             mark == RolledBack(new)
  <2>4. tail \in Seq(Entries) /\ Len(tail) = n - k /\ \A i \in 1 .. n - k : tail[i] = back[k + i]
    <3> HIDE DEF back
    <3>1. k \in 0 .. Len(back) /\ Len(back) = n /\ back \in Seq(Entries)
      BY <2>2
    <3> QED BY <3>1, FromFacts
  <2> HIDE DEF back, mark, new, l, tail
  <2>5. ASSUME NEW i \in 1 .. n - k PROVE tail[i] = mark[i]
    <3>1. tail[i] = back[k + i] /\ k + i \in 1 .. n /\ i \in 1 .. l /\ (k + i = n <=> i = l)
          /\ new[i] = log[k + i]
      BY <1>1, <2>4
    <3> HIDE DEF n
    <3>2. back[k + i] = IF i = l THEN [new[l] EXCEPT !.result = "RolledBack"] ELSE new[i]
      BY <1>2, <2>2, <3>1
    <3>3. mark[i] = IF i = l THEN [new[l] EXCEPT !.result = "RolledBack"] ELSE new[i]
      BY <2>3, <3>1 DEF mark
    <3> QED BY <3>1, <3>2, <3>3
  <2>6. tail = mark
    <3>1. mark \in Seq(Entries) /\ Len(mark) = n - k
      BY <1>1, <2>3 DEF mark
    <3> HIDE DEF n
    <3> QED BY <2>4, <2>5, <3>1, SeqEqual
  <2> QED BY <2>1, <2>6 DEF tail, mark, new
<1> QED BY <1>3, <1>4

\* A call keeps the record, whatever it adds and whether it rolls back or not.
LEMMA CallKeepsRecord ==
  ASSUME NEW log \in Seq(Entries), NEW actions \in Seq(Actions), NEW grown \in BOOLEAN,
         NEW now,
         \/ now = Logged(log, EntriesOf(actions))
         \/ grown /\ now = RolledBack(Logged(log, EntriesOf(actions)))
  PROVE  \E k \in 0 .. Len(log) : Record(log, now, Members(actions, ValidActions), grown, k)
<1> DEFINE entries == EntriesOf(actions)
           all == Logged(log, entries)
           back == Members(actions, ValidActions)
<1>1. /\ entries \in Seq(Entries) /\ DoneOf(entries) = back
      /\ \A i \in 1 .. Len(entries) : entries[i].result \in {"Applied", "Rejected"}
  BY DoneActions DEF DoneOf
<1>0. now = all \/ (grown /\ now = RolledBack(all))
  OBVIOUS
<1> HIDE DEF entries
<1>2. /\ all \in Seq(Entries) /\ Len(all) <= MaxLog
      /\ \E k \in 0 .. Len(log), j \in 0 .. Len(entries) : Split(log, entries, all, k, j)
  BY <1>1, LoggedFacts
<1>3. PICK k \in 0 .. Len(log), j \in 0 .. Len(entries) : Split(log, entries, all, k, j)
  BY <1>2
<1>4. /\ now = all \/ (grown /\ now = RolledBack(all))
      /\ now \in Seq(Entries) /\ MarksLast(all, now) /\ (~grown => now = all)
  <2>1. now = all \/ (grown /\ now = RolledBack(all))
    BY <1>0
  <2>2. RolledBack(all) \in Seq(Entries) /\ MarksLast(all, RolledBack(all))
    <3> HIDE DEF all
    <3> QED BY <1>2, RolledBackFacts
  <2>3. MarksLast(all, all)
    BY DEF MarksLast
  <2> QED BY <1>2, <2>1, <2>2, <2>3
<1> HIDE DEF all
<1> DEFINE kept == Len(log) - k
           added == Len(entries) - j
           old == SubSeq(log, k + 1, Len(log))
           latest == SubSeq(entries, j + 1, Len(entries))
           new == SubSeq(now, kept + 1, Len(now))
<1>5. /\ Len(log) \in Nat /\ Len(entries) \in Nat /\ kept \in Nat /\ added \in Nat
      /\ Len(now) = kept + added /\ Len(all) = kept + added /\ kept \in 0 .. Len(now)
  BY <1>1, <1>3, <1>4 DEF Split, MarksLast
<1>6. /\ \A i \in 1 .. kept : all[i] = log[k + i]
      /\ \A i \in 1 .. added : all[kept + i] = entries[j + i]
      /\ k > 0 => Len(all) = MaxLog
      /\ j > 0 => Len(all) = MaxLog /\ k = Len(log)
  BY <1>3 DEF Split
<1>7. /\ old \in Seq(Entries) /\ Len(old) = kept /\ \A i \in 1 .. kept : old[i] = log[k + i]
  BY FromFacts
<1>8. /\ latest \in Seq(Entries) /\ Len(latest) = added
      /\ \A i \in 1 .. added : latest[i] = entries[j + i]
  BY <1>1, FromFacts
<1> HIDE DEF kept, added, old, latest
<1>9. ASSUME NEW s \in Seq(Entries), Len(s) = kept + added
      PROVE  /\ SubSeq(s, kept + 1, Len(s)) \in Seq(Entries)
             /\ Len(SubSeq(s, kept + 1, Len(s))) = added
             /\ \A i \in 1 .. added : SubSeq(s, kept + 1, Len(s))[i] = s[kept + i]
  <2>1. kept \in 0 .. Len(s) /\ Len(s) - kept = added
    BY <1>5, <1>9
  <2> QED BY <2>1, FromFacts
<1>10. SubSeq(all, kept + 1, Len(all)) = latest
  <2> DEFINE t == SubSeq(all, kept + 1, Len(all))
  <2>1. t \in Seq(Entries) /\ Len(t) = added /\ \A i \in 1 .. added : t[i] = all[kept + i]
    BY <1>2, <1>5, <1>9
  <2> HIDE DEF t
  <2>2. \A i \in 1 .. Len(t) : t[i] = latest[i]
    BY <1>6, <1>8, <2>1
  <2>3. t = latest
    BY <1>8, <2>1, <2>2, SeqEqual
  <2> QED BY <2>3 DEF t
<1>11. new \in Seq(Entries) /\ Len(new) = added
  BY <1>4, <1>5, <1>9
<1>12. DoneOf(new) = DoneOf(latest)
  <2>1. CASE added = 0
    <3>1. new = <<>> /\ latest = <<>>
      <4> HIDE DEF new
      <4> QED BY <1>8, <1>11, <2>1
    <3> QED BY <3>1
  <2>2. CASE now = all
    BY <1>10, <2>2
  <2>3. CASE added # 0 /\ now = RolledBack(all)
    <3>1. kept \in 0 .. Len(all) /\ kept < Len(all) /\ Len(now) = Len(all)
      BY <1>5, <2>3
    <3>2. SubSeq(RolledBack(all), kept + 1, Len(all)) = RolledBack(SubSeq(all, kept + 1, Len(all)))
      BY <1>2, <3>1, RolledBackEnd
    <3>3. new = RolledBack(latest)
      BY <1>10, <2>3, <3>1, <3>2
    <3> HIDE DEF new
    <3> QED BY <1>8, <3>3, RolledBackFacts
  <2> QED BY <1>4, <2>1, <2>2, <2>3
<1>13. /\ j = 0 => DoneOf(new) = back
       /\ IsSuffix(DoneOf(new), back)
  <2>1. /\ j = 0 => latest = entries
        /\ IsSuffix(DoneOf(latest), DoneOf(entries))
    BY <1>1, LastEntries DEF latest
  <2> HIDE DEF new, back
  <2> QED BY <1>1, <1>12, <2>1
<1>14. IF Len(new) < MaxLog THEN DoneOf(new) = back ELSE IsSuffix(DoneOf(new), back)
  <2>1. j > 0 => ~(Len(new) < MaxLog)
    <3> SUFFICES ASSUME j > 0 PROVE ~(Len(new) < MaxLog)
      OBVIOUS
    <3>1. kept = 0 /\ Len(all) = MaxLog
      BY <1>5, <1>6 DEF kept
    <3> HIDE DEF new
    <3> QED BY <1>5, <1>11, <3>1, TuningAssumption
  <2>2. j = 0 \/ j > 0
    OBVIOUS
  <2> HIDE DEF new, back
  <2> QED BY <1>13, <2>1, <2>2
<1>15. ASSUME NEW i \in 1 .. Len(now), now[i] # all[i]
       PROVE  /\ i = Len(now) /\ now[i].result = "RolledBack" /\ grown
              /\ all[i] = [action |-> now[i].action, result |-> "Applied"]
  BY <1>4, <1>15 DEF MarksLast
<1>16. ASSUME NEW i \in 1 .. kept
       PROVE  \/ now[i] = old[i]
              \/ /\ i = Len(now) /\ now[i].result = "RolledBack" /\ grown
                 /\ old[i] = [action |-> now[i].action, result |-> "Applied"]
  <2>1. i \in 1 .. Len(now) /\ old[i] = all[i]
    BY <1>5, <1>6, <1>7
  <2> QED BY <1>15, <2>1
<1>17. ASSUME NEW i \in 1 .. Len(now), i > kept, now[i].result = "RolledBack"
       PROVE  i = Len(now) /\ grown
  <2>1. i - kept \in 1 .. added /\ kept + (i - kept) = i /\ j + (i - kept) \in 1 .. Len(entries)
    BY <1>5, <1>17 DEF added
  <2>2. all[i] = entries[j + (i - kept)]
    BY <1>6, <2>1
  <2>3. now[i] # all[i]
    BY <1>1, <1>17, <2>1, <2>2
  <2> QED BY <1>15, <2>3
<1>18. DOMAIN old = 1 .. kept /\ DOMAIN now = 1 .. Len(now) /\ kept <= Len(now)
  BY <1>4, <1>5, <1>7
<1>19. Record(log, now, back, grown, k)
  <2>1. k > 0 => Len(now) = MaxLog
    BY <1>5, <1>6
  <2>2. new = SubSeq(now, Len(old) + 1, Len(now))
    BY <1>7
  <2> HIDE DEF new, back
  <2> QED BY <1>7, <1>14, <1>16, <1>17, <1>18, <2>1, <2>2 DEF Record, old
<1> QED BY <1>19

\* Until the first trends are computed, no stage has one.
NoEarlyTrend == Len(history) <= TrendWindow => \A s \in Stages : trends[s] = "none"

TuningInv ==
    /\ TypeOK /\ NoEarlyTrend
    /\ ResizesGoTheirWay /\ BatchingIsWarranted

LEMMA TuningInitInv == Init => TuningInv
<1> SUFFICES ASSUME Init PROVE TuningInv
  OBVIOUS
<1>1. /\ policy \in DOMAIN Policies /\ constraints \in Constraints
      /\ since_action = LongAgo /\ history = <<>>
      /\ latency = [s \in Stages |-> 0] /\ trends = [s \in Stages |-> "none"]
      /\ action_history = <<>> /\ last_baseline = 0 /\ enabled = TRUE /\ returned = <<>>
  BY DEF Init
<1>2. /\ action_history \in Seq(Entries) /\ returned \in Seq(Actions)
      /\ history \in Seq([Stages -> QueueLens]) /\ Len(<<>>) = 0 /\ DOMAIN <<>> = {}
  BY <1>1, EmptySeq
<1>3. TypeOK
  <2>1. since_action \in 0 .. LongAgo
    BY <1>1 DEF LongAgo
  <2>2. trends \in [Stages -> {"none", "Increasing", "Decreasing", "Stable"}]
    BY <1>1
  <2>3. Len(history) <= MaxHistory /\ Len(action_history) <= MaxLog
    BY <1>1, <1>2, TuningAssumption
  <2> QED BY <1>1, <1>2, <2>1, <2>2, <2>3 DEF TypeOK
<1>4. NoEarlyTrend
  BY <1>1 DEF NoEarlyTrend
<1>5. ReturnedActions = {}
  BY <1>1, <1>2 DEF ReturnedActions
<1> QED BY <1>3, <1>4, <1>5 DEF TuningInv, ResizesGoTheirWay, BatchingIsWarranted

\* A step that returns nothing and leaves the rest of the state in its types.
LEMMA ReturnsNothing ==
  ASSUME TuningInv, TypeOK', returned' = <<>>, UNCHANGED <<history, trends, action_history>>
  PROVE  TuningInv'
<1>1. NoEarlyTrend'
  BY DEF TuningInv, NoEarlyTrend
<1>2. ReturnedActions' = {}
  <2>1. DOMAIN <<>> = {}
    OBVIOUS
  <2> QED BY <2>1 DEF ReturnedActions
<1> QED BY <1>1, <1>2 DEF TuningInv, ResizesGoTheirWay, BatchingIsWarranted

\* A call of process: every part of what it does.
LEMMA ProcessInv ==
  ASSUME TuningInv, NEW lat \in [Stages -> Latencies], NEW len \in [Stages -> QueueLens],
         Process(lat, len)
  PROVE  TuningInv'
<1>1. /\ history' = Append(Kept, len) /\ latency' = lat /\ trends' = TrendsWith(len)
      /\ last_baseline' = Baseline(AvgLatency(lat))
      /\ UNCHANGED <<policy, constraints, enabled>>
  BY DEF Process
<1>2. PICK order \in Orders :
        LET actions == Analyze(lat, len, trends', order)
            log == Logged(action_history, EntriesOf(actions))
        IN  /\ returned' = Members(actions, ValidActions)
            /\ since_action' = IF actions = <<>> THEN since_action ELSE 0
            /\ action_history' = IF ShouldRollback(AvgLatency(lat)) THEN RolledBack(log) ELSE log
  BY DEF Process, EntriesOf
<1> DEFINE actions == Analyze(lat, len, trends', order)
           log == Logged(action_history, EntriesOf(actions))
<1>3. /\ returned' = Members(actions, ValidActions)
      /\ since_action' = IF actions = <<>> THEN since_action ELSE 0
      /\ action_history' = log \/ action_history' = RolledBack(log)
  BY <1>2
<1>4. TypeOK /\ policy \in DOMAIN Policies /\ len \in Snapshots
  BY DEF TuningInv, TypeOK, Snapshots
<1>5. actions \in Seq(Suggested(len, trends'))
  BY <1>4, AnalyzeFacts
<1> HIDE DEF actions
<1>6. actions \in Seq(Actions)
  <2>1. Suggested(len, trends') \subseteq Actions
    BY <1>4, SuggestedFacts
  <2> QED BY <1>5, <2>1, SeqMonotonic
<1>7. /\ returned' \in Seq(Actions)
      /\ \A a \in ReturnedActions' : a \in Suggested(len, trends')
  <2>1. Members(actions, ValidActions) \in Seq(Suggested(len, trends') \cap ValidActions)
    BY <1>5, MembersSeq
  <2>2. Suggested(len, trends') \cap ValidActions \subseteq Actions
    BY DEF ValidActions
  <2>3. returned' \in Seq(Suggested(len, trends') \cap ValidActions)
    BY <1>3, <2>1
  <2>4. returned' \in Seq(Actions)
    BY <2>2, <2>3, SeqMonotonic
  <2>5. \A i \in DOMAIN returned' : returned'[i] \in Suggested(len, trends')
    BY <2>3
  <2> QED BY <2>4, <2>5 DEF ReturnedActions
<1>8. EntriesOf(actions) \in Seq(Entries)
  BY <1>6, DoneActions
<1>9. action_history \in Seq(Entries)
  BY <1>4 DEF TypeOK
<1>10. log \in Seq(Entries) /\ Len(log) <= MaxLog
  BY <1>8, <1>9, LoggedFacts
<1> HIDE DEF log
<1>12. action_history' \in Seq(Entries) /\ Len(action_history') <= MaxLog
  <2>1. RolledBack(log) \in Seq(Entries) /\ Len(RolledBack(log)) = Len(log)
    BY <1>10, RolledBackFacts DEF MarksLast
  <2> QED BY <1>3, <1>10, <2>1
<1>14. /\ history' \in Seq(Snapshots) /\ Len(history') = Len(Kept) + 1
       /\ Len(history') <= MaxHistory /\ Last(history') = len
  BY <1>1, <1>4, HistoryFacts
<1>15. /\ Kept \in Seq(Snapshots) /\ Len(Kept) \in Nat
       /\ Len(Kept) < TrendWindow => Kept = history
  BY <1>4, KeptFacts
<1>16. /\ trends' \in [Stages -> Trends]
       /\ Len(Kept) < TrendWindow => trends' = trends
       /\ Len(Kept) >= TrendWindow =>
            \A s \in Stages : trends'[s] = "Increasing" =>
              \E i \in 1 .. TrendWindow : Window[i][s] < len[s]
  BY <1>1, <1>4, TrendsFacts
<1>17. TrendWindow \in Nat \ {0}
  BY TuningAssumption
<1>18. NoEarlyTrend'
  <2> SUFFICES ASSUME Len(history') <= TrendWindow PROVE \A s \in Stages : trends'[s] = "none"
    BY DEF NoEarlyTrend
  <2>1. Len(Kept) < TrendWindow
    BY <1>14, <1>15, <1>17
  <2>2. Len(history) <= TrendWindow
    BY <1>15, <1>17, <2>1
  <2> QED BY <1>16, <2>1, <2>2 DEF TuningInv, NoEarlyTrend
<1>19. ResizesGoTheirWay'
  <2>1. \A a \in ReturnedActions' :
          /\ a.kind = "DecreaseQueueSize" => Floor <= a.new_size /\ a.new_size < len[a.stage]
          /\ a.kind = "IncreaseQueueSize" =>
               /\ a.new_size <= Ceiling
               /\ policy = "conservative" => a.new_size > len[a.stage]
               /\ a.new_size < len[a.stage] => len[a.stage] > Ceiling
    BY <1>4, <1>7, SuggestedFacts
  <2> QED BY <1>1, <1>14, <2>1 DEF ResizesGoTheirWay
<1>20. BatchingIsWarranted'
  <2> DEFINE n == Len(history')
             before == SubSeq(history', n - TrendWindow, n - 1)
  <2> SUFFICES ASSUME NEW a \in ReturnedActions', a.kind = "EnableBatching"
               PROVE  /\ n > TrendWindow
                      /\ Last(history')[a.stage] > Threshold
                      /\ \E i \in DOMAIN before : before[i][a.stage] < Last(history')[a.stage]
    BY DEF BatchingIsWarranted
  <2>1. a.stage \in Stages /\ len[a.stage] > Threshold /\ trends'[a.stage] = "Increasing"
    BY <1>4, <1>7, SuggestedFacts
  <2>2. Len(Kept) >= TrendWindow
    <3>1. SUFFICES ASSUME Len(Kept) < TrendWindow PROVE FALSE
      BY <1>15, <1>17
    <3>2. Len(history) <= TrendWindow /\ trends' = trends
      BY <1>15, <1>16, <1>17, <3>1
    <3>3. trends[a.stage] = "none"
      BY <2>1, <3>2 DEF TuningInv, NoEarlyTrend
    <3> QED BY <2>1, <3>2, <3>3
  <2>3. PICK i \in 1 .. TrendWindow : Window[i][a.stage] < len[a.stage]
    BY <1>16, <2>1, <2>2
  <2>4. i \in DOMAIN before /\ before[i] = Window[i]
    BY <1>1, <1>4, <2>2, BeforeIsWindow
  <2>5. n > TrendWindow
    BY <1>14, <1>15, <1>17, <2>2
  <2> HIDE DEF before, n
  <2> QED BY <1>14, <2>1, <2>3, <2>4, <2>5
<1>21. TypeOK'
  <2>1. since_action' \in 0 .. LongAgo
    BY <1>3, <1>4 DEF TypeOK, LongAgo
  <2>2. latency' \in [Stages -> Latencies \cup {0}]
    BY <1>1
  <2>3. last_baseline' \in Nat
    <3>1. lat \in [Stages -> Nat]
      BY TuningAssumption
    <3>2. AvgLatency(lat) \in Nat /\ last_baseline \in Nat
      BY <1>4, <3>1, AverageType DEF TypeOK
    <3> QED BY <1>1, <3>2 DEF Baseline
  <2>4. trends' \in [Stages -> {"none", "Increasing", "Decreasing", "Stable"}]
    BY <1>16 DEF Trends
  <2>5. /\ policy' \in DOMAIN Policies /\ constraints' \in Constraints
        /\ enabled' \in BOOLEAN
    BY <1>1, <1>4 DEF TypeOK
  <2> QED BY <1>7, <1>12, <1>14, <2>1, <2>2, <2>3, <2>4, <2>5 DEF TypeOK, Snapshots
<1> QED BY <1>18, <1>19, <1>20, <1>21 DEF TuningInv

LEMMA TuningNextInv == TuningInv /\ [Next]_vars => TuningInv'
<1> SUFFICES ASSUME TuningInv, [Next]_vars PROVE TuningInv'
  OBVIOUS
<1>1. CASE UNCHANGED vars
  BY <1>1, ZenonT(40) DEF vars, TuningInv, TypeOK, NoEarlyTrend, ResizesGoTheirWay, BatchingIsWarranted,
     ReturnedActions
<1>2. CASE \E lat \in [Stages -> Latencies], len \in [Stages -> QueueLens] : Process(lat, len)
  BY <1>2, ProcessInv
<1>3. CASE \E on \in BOOLEAN : SetEnabled(on)
  <2>1. /\ enabled' \in BOOLEAN /\ returned' = <<>>
        /\ UNCHANGED <<policy, constraints, since_action, history, latency, trends,
                       action_history, last_baseline>>
    BY <1>3 DEF SetEnabled
  <2>2. <<>> \in Seq(Actions)
    BY EmptySeq
  <2>3. TypeOK'
    BY <2>1, <2>2 DEF TuningInv, TypeOK
  <2> QED BY <2>1, <2>3, ReturnsNothing
<1>4. CASE Tick
  <2>1. /\ since_action < LongAgo /\ since_action' = since_action + 1 /\ returned' = <<>>
        /\ UNCHANGED <<policy, constraints, history, latency, trends, action_history,
                       last_baseline, enabled>>
    BY <1>4 DEF Tick
  <2>2. <<>> \in Seq(Actions) /\ since_action' \in 0 .. LongAgo
    BY <2>1, EmptySeq DEF TuningInv, TypeOK, LongAgo
  <2>3. TypeOK'
    BY <2>1, <2>2 DEF TuningInv, TypeOK
  <2> QED BY <2>1, <2>3, ReturnsNothing
<1> QED BY <1>1, <1>2, <1>3, <1>4 DEF Next

\* The engine's invariant holds for every set of stages, every snapshot and every
\* bound of the history and the log (tuner.rs lines 94-126, analyzer.rs lines 76-181).
THEOREM TuningInvariance == Spec => []TuningInv
<1> QED BY TuningInitInv, TuningNextInv, PTL DEF Spec

\* A decrease takes from a queue and an increase adds to it, or caps a queue beyond the
\* ceiling with the aggressive policy, for every queue length (policy.rs lines 91-119
\* and 189-215).
THEOREM ResizesAlwaysGoTheirWay == Spec => []ResizesGoTheirWay
<1>1. TuningInv => ResizesGoTheirWay
  BY DEF TuningInv
<1> QED BY <1>1, TuningInvariance, PTL

\* Batching is enabled for a queue that overflows and has grown over the snapshots
\* just before, for every window and history (analyzer.rs lines 76-83 and 139-181).
THEOREM BatchingIsAlwaysWarranted == Spec => []BatchingIsWarranted
<1>1. TuningInv => BatchingIsWarranted
  BY DEF TuningInv
<1> QED BY <1>1, TuningInvariance, PTL

\* The log keeps its record, however the log and the actions of a call compare in
\* length (tuner.rs lines 105-120 and 151-189).
THEOREM LogAlwaysKeepsRecord == Spec => LogKeepsRecord
<1> DEFINE Grown == 0 < last_baseline /\ last_baseline < AvgLatency(latency')
           A == \E k \in 0 .. Len(action_history) :
                  Record(action_history, action_history', returned', Grown, k)
<1>1. TuningInv /\ [Next]_vars => [A]_vars
  <2> SUFFICES ASSUME TuningInv, Next PROVE A
    OBVIOUS
  <2>1. /\ action_history \in Seq(Entries) /\ policy \in DOMAIN Policies /\ TypeOK
        /\ last_baseline \in Nat
    BY DEF TuningInv, TypeOK
  <2>2. ASSUME NEW lat \in [Stages -> Latencies], NEW len \in [Stages -> QueueLens],
               Process(lat, len)
        PROVE  A
    <3>1. PICK order \in Orders :
            LET actions == Analyze(lat, len, trends', order)
                log == Logged(action_history, EntriesOf(actions))
            IN  /\ returned' = Members(actions, ValidActions)
                /\ action_history' = IF ShouldRollback(AvgLatency(lat))
                                     THEN RolledBack(log) ELSE log
      BY <2>2 DEF Process, EntriesOf
    <3> DEFINE actions == Analyze(lat, len, trends', order)
               log == Logged(action_history, EntriesOf(actions))
    <3>2. returned' = Members(actions, ValidActions)
          /\ (action_history' = log
              \/ (ShouldRollback(AvgLatency(lat)) /\ action_history' = RolledBack(log)))
      <4> HIDE DEF actions, log
      <4>1. /\ returned' = Members(actions, ValidActions)
            /\ action_history' = IF ShouldRollback(AvgLatency(lat)) THEN RolledBack(log) ELSE log
        BY <3>1 DEF actions, log
      <4> QED BY <4>1
    <3>3. actions \in Seq(Actions)
      <4>1. actions \in Seq(Suggested(len, trends'))
        BY <2>1, AnalyzeFacts
      <4>2. Suggested(len, trends') \subseteq Actions
        BY <2>1, SuggestedFacts
      <4> HIDE DEF actions
      <4> QED BY <4>1, <4>2, SeqMonotonic
    <3>4. ShouldRollback(AvgLatency(lat)) => Grown
      <4>1. latency' = lat
        BY <2>2 DEF Process
      <4>2. lat \in [Stages -> Nat]
        BY TuningAssumption
      <4>3. AvgLatency(lat) \in Nat
        BY <4>2, AverageType
      <4> DEFINE avg == AvgLatency(lat)
      <4> HIDE DEF avg
      <4>4. ShouldRollback(avg) => 0 < last_baseline /\ last_baseline < avg
        BY <2>1, <4>3 DEF ShouldRollback, avg
      <4> QED BY <4>1, <4>4 DEF avg
    <3>5. Grown \in BOOLEAN
      OBVIOUS
    <3> HIDE DEF actions, Grown
    <3>6. \/ action_history' = Logged(action_history, EntriesOf(actions))
          \/ Grown /\ action_history' = RolledBack(Logged(action_history, EntriesOf(actions)))
      BY <3>2, <3>4
    <3>7. \E k \in 0 .. Len(action_history) :
            Record(action_history, action_history', Members(actions, ValidActions), Grown, k)
      BY <2>1, <3>3, <3>5, <3>6, CallKeepsRecord
    <3> QED BY <3>2, <3>7
  <2>3. CASE Tick \/ \E on \in BOOLEAN : SetEnabled(on)
    <3>1. action_history' = action_history /\ returned' = <<>>
      BY <2>3 DEF Tick, SetEnabled
    <3> DEFINE none == SubSeq(action_history, Len(action_history) + 1, Len(action_history))
    <3>2. /\ SubSeq(action_history, 0 + 1, Len(action_history)) = action_history
          /\ Len(action_history) \in Nat /\ none = <<>>
      BY <2>1, SubSeqFull, SubSeqEmpty
    <3>3. DoneOf(<<>>) = <<>>
      <4>1. Members(<<>>, Done) = <<>>
        BY MembersEmpty
      <4> QED BY <4>1 DEF DoneOf, ActionsOf
    <3>4. DOMAIN action_history = 1 .. Len(action_history) /\ Len(<<>>) = 0 /\ 0 < MaxLog
      BY <2>1, TuningAssumption
    <3> HIDE DEF Grown
    <3>5. Record(action_history, action_history, <<>>, Grown, 0)
      <4> DEFINE h == action_history
      <4>1. /\ Len(h) <= Len(h) /\ ~(0 > 0)
            /\ \A i \in DOMAIN h : ~(i > Len(h))
        BY <3>2, <3>4
      <4>2. /\ SubSeq(h, 0 + 1, Len(h)) = h
            /\ SubSeq(h, Len(h) + 1, Len(h)) = <<>> /\ Len(<<>>) < MaxLog
        BY <3>2, <3>4
      <4> HIDE DEF h
      <4>3. Record(h, h, <<>>, Grown, 0)
        BY <3>3, <4>1, <4>2 DEF Record
      <4> QED BY <4>3 DEF h
    <3> QED BY <3>1, <3>2, <3>5
  <2> QED BY <2>2, <2>3 DEF Next
<1>2. [][A]_vars => LogKeepsRecord
  <2>1. A <=> \E k \in 0 .. Len(action_history) :
         LET old == SubSeq(action_history, k + 1, Len(action_history))
             now == action_history'
             new == SubSeq(now, Len(old) + 1, Len(now))
             done == ActionsOf(Members(new, Entries \ Rejected))
             RollsBack(i) == /\ i = Len(now) /\ now[i].result = "RolledBack"
                             /\ 0 < last_baseline
                             /\ last_baseline < AvgLatency(latency')
         IN  /\ Len(old) <= Len(now)
             /\ k > 0 => Len(now) = MaxLog
             /\ \A i \in DOMAIN old :
                  \/ now[i] = old[i]
                  \/ /\ RollsBack(i)
                     /\ old[i] = [action |-> now[i].action, result |-> "Applied"]
             /\ \A i \in DOMAIN now :
                  i > Len(old) /\ now[i].result = "RolledBack" => RollsBack(i)
             /\ IF Len(new) < MaxLog THEN done = returned'
                                     ELSE IsSuffix(done, returned')
    BY DEF Record, DoneOf, Done
  <2> HIDE DEF A
  <2> QED BY <2>1, PTL DEF LogKeepsRecord
<1> HIDE DEF A
<1> QED BY <1>1, <1>2, TuningInvariance, PTL DEF Spec

\* The moving average of the latency goes towards what is reported, never past it,
\* and never back to 0 (tuner.rs lines 165 and 192-201).
THEOREM BaselineAlwaysFollows == Spec => BaselineFollows
<1> DEFINE Follows ==
             LET avg == AvgLatency(latency')
             IN  last_baseline' # last_baseline =>
                   \/ last_baseline = 0 /\ last_baseline' = avg
                   \/ last_baseline < last_baseline' /\ last_baseline' <= avg
                   \/ 0 < avg /\ avg <= last_baseline' /\ last_baseline' < last_baseline
<1>1. TuningInv /\ [Next]_vars => [Follows]_vars
  <2> SUFFICES ASSUME TuningInv, Next PROVE Follows
    OBVIOUS
  <2>1. CASE \E lat \in [Stages -> Latencies], len \in [Stages -> QueueLens] : Process(lat, len)
    <3>1. PICK lat \in [Stages -> Latencies] : \E len \in [Stages -> QueueLens] : Process(lat, len)
      BY <2>1
    <3>2. latency' = lat /\ last_baseline' = Baseline(AvgLatency(lat))
      BY <3>1 DEF Process
    <3> DEFINE avg == AvgLatency(latency')
               b == last_baseline
               new == last_baseline'
    <3>3. avg \in Nat /\ b \in Nat
      <4>1. lat \in [Stages -> Nat]
        BY TuningAssumption
      <4> QED BY <3>2, <4>1, AverageType DEF TuningInv, TypeOK
    <3>4. new = IF avg = 0 THEN b ELSE IF b = 0 THEN avg ELSE (b * 9 + avg) \div 10
      BY <3>2 DEF Baseline
    <3> HIDE DEF avg, b, new
    <3>5. new # b => \/ b = 0 /\ new = avg
                     \/ b < new /\ new <= avg
                     \/ 0 < avg /\ avg <= new /\ new < b
      BY <3>3, <3>4
    <3> QED BY <3>5 DEF avg, b, new
  <2>2. CASE ~\E lat \in [Stages -> Latencies], len \in [Stages -> QueueLens] : Process(lat, len)
    <3>1. last_baseline' = last_baseline
      BY <2>2 DEF Next, SetEnabled, Tick
    <3> QED BY <3>1
  <2> QED BY <2>1, <2>2
<1>2. BaselineFollows <=> [][Follows]_vars
  BY DEF BaselineFollows
<1> QED BY <1>1, <1>2, TuningInvariance, PTL DEF Spec

-----------------------------------------------------------------------------
(* The three side by side. *)

\* In the run that checks the three modules, each of them behaves as specified, and
\* the variables of all three keep their types.
THEOREM TypesAreOK == MCSpec => []TypesOK
<1>1. MCSpec => Spec /\ MetricsSpec /\ BridgeSpec
  <2>1. MCInit => Init /\ MetricsInit /\ BridgeInit
    BY DEF MCInit
  <2>2. [MCNext]_allVars => [Next]_vars /\ [MetricsNext]_metricsVars /\ [BridgeNext]_bridgeVars
    <3>1. TuningNext => Next /\ UNCHANGED <<metricsVars, bridgeVars>>
      <4>1. ASSUME part \in DOMAIN Instances,
                   NEW lat \in [Stages -> Instances[part].lats],
                   NEW len \in [Stages -> Instances[part].lens], Process(lat, len)
            PROVE  Next
        <5>1. lat \in [Stages -> Latencies] /\ len \in [Stages -> QueueLens]
          BY <4>1, InstancesAssumption
        <5> QED BY <4>1, <5>1 DEF Next
      <4> QED BY <4>1 DEF TuningNext, Next
    <3> QED BY <3>1 DEF MCNext, allVars, vars, metricsVars, bridgeVars
  <2> QED BY <2>1, <2>2, PTL DEF MCSpec, Spec, MetricsSpec, BridgeSpec
<1>2. TuningInv /\ MetricsInv /\ BridgeInv => TypesOK
  BY DEF TuningInv, MetricsInv, BridgeInv, TypesOK
<1> QED BY <1>1, <1>2, TuningInvariance, MetricsInvariance, BridgeInvariance, PTL
=============================================================================
