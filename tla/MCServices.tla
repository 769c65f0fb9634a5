------------------------------ MODULE MCServices ------------------------------
(* The services around the loader. A behaviour exercises one of them; only a    *)
(* breaker and its callers share anything. The metrics collector has two        *)
(* threads, each free to call anything of a menu, and two operations recorded   *)
(* twice in all; a stream carries seven messages of two topics through a buffer *)
(* of five, in batches of two; a circuit breaker of two failures and two        *)
(* successes answers seven calls and resets, alone or between two callers, each *)
(* in one of two slots and with two retries, the second back-off at the cap;    *)
(* three files of one or two parts come by two downloads at a time; batch sizes *)
(* go from 6 to 24; two models make up to three predictions, with a Bayesian    *)
(* floor of 1/100 for exp(-10); two nodes have a quorum of two, and a third,    *)
(* never registered, votes, camps 0.30 apart among them; five calls reach the   *)
(* feedback loop with a history of three, of which two errors are averaged;     *)
(* three decisions are taken; four frames follow the clearing of a detector; a  *)
(* dataset is assessed six times; nine samples pass a window of four, fitted    *)
(* every two; seven accesses to three frames pass a history of four.            *)
EXTENDS Integers, Sequences, FiniteSets, TLC

CONSTANTS Services,
          Threads, Names, Menus, MaxRecords,
          max_size, batch_size, Topic,
          failure_threshold, success_threshold, MaxLog,
          Files, parallel_downloads, PartsTotal, MaxParts,
          min_batch_size, max_batch_size,
          Models, Types, Predictions, Outcomes, Floor, MaxPredictions, MaxOutcomes,
          Nodes, Regions, Profiles, Ballots, quorum_size, MaxConsensus,
          MetricNames, Values, ModelIds, Feedbacks, Thresholds, Ages, max_history, Recent,
          MaxCalls, MaxClock,
          BatchInputs, CacheInputs, PrefetchInputs, QualityInputs, MaxDecisions,
          FrameIds, Contents, Gaps, Listings, Jitter, MaxFrames,
          Datasets, Measures, MaxAssessments,
          Samples, max_training_samples, RetrainEvery, LeastSamples, MaxSamples,
          Frames, window_size, HistoryWindows, MaxAccesses,
          Callers, max_retries, initial_backoff_ms, max_backoff_ms, jitter_percent,
          fault_threshold, max_concurrent

VARIABLES service,
          calls, operations, latencies, writer, readers, pc, name, todo, seen, records,
          buffer, seq, messages, last_seq, generator, delivered, gap,
          state, failure_count, success_count, log,
          active_downloads, active, misused,
          current_batch_size,
          models, predictions, performance,
          nodes, node_metrics, consensus_history,
          decision_outcomes, prediction_feedback, performance_metrics, retraining_triggers,
          now, calls_made, added, fed, aged, asked,
          decisions_made, decisions_executed,
          baseline_stats, temporal_history, detection_history, received,
          assessment_history, recommendation_cache,
          training_data, coefficients, stream,
          access_history, forecast, accessed,
          consecutive_failures, recovery_attempts, current_concurrent, caller, runs, delays,
          outcomes, overreleased

Metrics == INSTANCE Metrics
Stream == INSTANCE StreamBatches
Breaker == INSTANCE CircuitBreaker
Cloud == INSTANCE CloudDownloads
Sizer == INSTANCE BatchSizer
Ensemble == INSTANCE Ensemble
Coordinator == INSTANCE Coordinator
Feedback == INSTANCE Feedback
Decisions == INSTANCE Decisions
Anomaly == INSTANCE Anomaly
Quality == INSTANCE Quality
Model == INSTANCE PerformanceModel
Predictive == INSTANCE PredictiveCache
Load == INSTANCE ResilientLoad WITH misused <- overreleased

ASSUME /\ Metrics!MetricsAssumption /\ Stream!StreamAssumption
       /\ Breaker!BreakerAssumption /\ Cloud!CloudAssumption /\ Sizer!SizerAssumption
       /\ Ensemble!EnsembleAssumption /\ Coordinator!CoordinatorAssumption
       /\ Feedback!FeedbackAssumption /\ Decisions!DecisionsAssumption
       /\ Anomaly!AnomalyAssumption /\ Quality!QualityAssumption
       /\ Model!ModelAssumption /\ Predictive!CacheAssumption /\ Load!ResilienceAssumption

AllOrReset == {{"record", "get", "get_all"}, {"record", "get", "reset"}}
RecordAndAll == {{"record", "get_all"}}
Seven == [i \in 0 .. 6 |-> IF i \in {0, 3, 4} THEN "joint" ELSE "image"]

ModelVotes == {[model |-> "m1", type |-> "latency", value |-> 10, confidence |-> 0]}
    \cup {[model |-> "m2", type |-> "latency", value |-> v[1], confidence |-> v[2]] :
             v \in {<<10, 5>>, <<40, 5>>, <<40, 10>>}}
ModelOutcomes == [predicted : {10}, actual : {10, 13}]
NodeProfiles == {[region |-> "eu", latency |-> 1, availability |-> 99],
                 [region |-> "eu", latency |-> 5, availability |-> 90],
                 [region |-> "us", latency |-> 2, availability |-> 100]}
NodeVotes ==
    {<<>>, <<[node |-> "n1", value |-> 50], [node |-> "n1", value |-> 80]>>}
    \cup {<<[node |-> "n1", value |-> 50], [node |-> "n2", value |-> x]>> : x \in {79, 81}}
    \cup {<<[node |-> "n1", value |-> 50], [node |-> "n2", value |-> 50], [node |-> "n3", value |-> x]>> :
            x \in {81, 82}}
FedBack == {[predicted |-> 10, actual |-> 13, sure |-> TRUE, age |-> -1],
            [predicted |-> 10, actual |-> 6, sure |-> FALSE, age |-> 0],
            [predicted |-> 3, actual |-> 3, sure |-> FALSE, age |-> 1]}
SizeChanges == {[current |-> 32, recommended |-> 64, confidence |-> 90, pressure |-> p] :
                  p \in {50, 80, 95}}
HitRates == {[hit_rate |-> 5, anomalies |-> 0], [hit_rate |-> 90, anomalies |-> 0],
             [hit_rate |-> 50, anomalies |-> 600]}
Localities == {[patterns |-> s, pressure |-> 50] : s \in {<<>>, <<70, 70>>, <<90, 98>>}}
Ratios == {[score |-> q, anomalies |-> 20, missing |-> 0] : q \in {40, 55, 90}}
FrameContents == {{"edge", "colour"}, {"outlier"}}
FrameGaps == {-20, 30, 35, 60}
Numbers == {<<0, 2>>}
DatasetMeasures ==
    {[total |-> 100, anomalous |-> 0, missing |-> 0, consistency |-> 90, sync |-> 90],
     [total |-> 100, anomalous |-> 20, missing |-> 20, consistency |-> 80, sync |-> 80],
     [total |-> 2000, anomalous |-> 800, missing |-> 400, consistency |-> 70, sync |-> 70],
     [total |-> 100, anomalous |-> 0, missing |-> 101, consistency |-> 0, sync |-> 0]}

TwoSamples ==
    {[batch_size |-> 8, memory |-> 20, cpu |-> 30, gpu |-> 40, throughput |-> 50, latency |-> 6],
     [batch_size |-> 16, memory |-> 30, cpu |-> 30, gpu |-> 50, throughput |-> 90, latency |-> 9]}

metricsVars == <<calls, operations, latencies, writer, readers, pc, name, todo, seen, records>>
streamVars == <<buffer, seq, messages, last_seq, generator, delivered, gap>>
breakerVars == <<state, failure_count, success_count, log>>
cloudVars == <<active_downloads, active, misused>>
sizerVars == <<current_batch_size>>
ensembleVars == <<models, predictions, performance>>
coordinatorVars == <<nodes, node_metrics, consensus_history>>
feedbackVars == <<decision_outcomes, prediction_feedback, performance_metrics,
                  retraining_triggers, now, calls_made, added, fed, aged, asked>>
decisionsVars == <<decisions_made, decisions_executed>>
anomalyVars == <<baseline_stats, temporal_history, detection_history, received>>
qualityVars == <<assessment_history, recommendation_cache>>
modelVars == <<training_data, coefficients, stream>>
predictiveVars == <<access_history, forecast, accessed>>
loadVars == <<consecutive_failures, recovery_attempts, current_concurrent, caller, runs, delays,
              outcomes, overreleased>>
vars == <<service, metricsVars, streamVars, breakerVars, cloudVars, sizerVars, ensembleVars,
          coordinatorVars, feedbackVars, decisionsVars, anomalyVars, qualityVars, modelVars,
          predictiveVars, loadVars>>

Init ==
    /\ service \in Services
    /\ Metrics!Init /\ Stream!Init /\ Breaker!Init /\ Cloud!Init /\ Sizer!Init
    /\ Ensemble!Init /\ Coordinator!Init /\ Feedback!Init /\ Decisions!Init /\ Anomaly!Init
    /\ Quality!Init /\ Model!Init /\ Predictive!Init /\ Load!Init

Others(mine) ==
    /\ service = mine /\ UNCHANGED service
    /\ mine # "metrics" => UNCHANGED metricsVars
    /\ mine # "stream" => UNCHANGED streamVars
    /\ mine \notin {"breaker", "load"} => UNCHANGED breakerVars
    /\ mine # "cloud" => UNCHANGED cloudVars
    /\ mine # "sizer" => UNCHANGED sizerVars
    /\ mine # "ensemble" => UNCHANGED ensembleVars
    /\ mine # "coordinator" => UNCHANGED coordinatorVars
    /\ mine # "feedback" => UNCHANGED feedbackVars
    /\ mine # "decisions" => UNCHANGED decisionsVars
    /\ mine # "anomaly" => UNCHANGED anomalyVars
    /\ mine # "quality" => UNCHANGED qualityVars
    /\ mine # "model" => UNCHANGED modelVars
    /\ mine # "predictive" => UNCHANGED predictiveVars
    /\ mine # "load" => UNCHANGED loadVars

Next ==
    \/ Others("metrics") /\ Metrics!Next
    \/ Others("stream") /\ Stream!Next
    \/ Others("breaker") /\ Breaker!Next
    \/ Others("cloud") /\ Cloud!Next
    \/ Others("sizer") /\ Sizer!Next
    \/ Others("ensemble") /\ Ensemble!Next
    \/ Others("coordinator") /\ Coordinator!Next
    \/ Others("feedback") /\ Feedback!Next
    \/ Others("decisions") /\ Decisions!Next
    \/ Others("anomaly") /\ Anomaly!Next
    \/ Others("quality") /\ Quality!Next
    \/ Others("model") /\ Model!Next
    \/ Others("predictive") /\ Predictive!Next
    \/ Others("load") /\ Load!Next

Spec == Init /\ [][Next]_vars

(* A thread in a call goes on when it can.  The locks are task-fair: a thread
   that waits is served in its turn. *)
FairSpec ==
    /\ Spec
    /\ \A t \in Threads : SF_vars(Others("metrics") /\ Metrics!Step(t))

(* What the metrics keep (Metrics.tla). *)
ReportsConsistent == Metrics!ReportsConsistent
CallsReturn == Metrics!CallsReturn
CallsReturnWithoutAll == Metrics!CallsReturnWithoutAll

(* What a stream keeps (StreamBatches.tla). *)
StreamInOrder == Stream!StreamInOrder

(* What the breaker keeps, alone and among its callers, and what they keep
   (CircuitBreaker.tla, ResilientLoad.tla). *)
TripsAndRecovers == Breaker!TripsAndRecovers
RetriesBounded == Load!RetriesBounded
FaultsContained == TripsAndRecovers /\ RetriesBounded

(* What the table of downloads keeps (CloudDownloads.tla). *)
ActiveCounted == Cloud!ActiveCounted

(* What the batch sizer keeps (BatchSizer.tla). *)
SizeWithinBounds == Sizer!SizeWithinBounds

(* What the votes of models and of nodes come to (Ensemble.tla, Coordinator.tla). *)
ConsensusSound == Ensemble!ConsensusSound /\ Coordinator!ConsensusSound

(* What is learned from: feedback, samples, accesses (Feedback.tla,
   PerformanceModel.tla, PredictiveCache.tla). *)
LearnsFromNewest ==
    Feedback!TriggersFromRecent /\ Model!FitFresh /\ Predictive!RecentWorthPrefetching

(* What the decision engine keeps (Decisions.tla). *)
UrgentFirst == Decisions!UrgentFirst

(* What the detector and the assessor raise (Anomaly.tla, Quality.tla). *)
AlarmsJustified == Anomaly!JitterRecovers /\ Quality!DeclineDetected
=============================================================================
