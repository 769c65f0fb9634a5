--------------------------------- MODULE Quality ---------------------------------
(***************************************************************************)
(* Scores of a dataset over time, what to do about them and when to         *)
(* reprocess: QualityAssessor of crates/pyroboframes-core/src/quality.rs.   *)
(*                                                                         *)
(* Shares are whole hundredths, the composite score is in ten-thousandths.  *)
(***************************************************************************)
EXTENDS Integers, Sequences, FiniteSets, Functions

CONSTANTS
    Datasets,
    Measures,       \* [total, anomalous, missing, consistency, sync]
    MaxAssessments  \* bound on the history of a dataset

QualityAssumption ==
    \A m \in Measures :
        /\ {m.total, m.anomalous, m.missing} \subseteq Nat
        /\ {m.consistency, m.sync} \subseteq 0 .. 100
        /\ \A part \in {m.anomalous, m.missing} :
              m.total > 0 => (100 * (m.total - part)) % m.total = 0

VARIABLES
    assessment_history,   \* dataset -> [measure, overall], in order
    recommendation_cache  \* dataset -> the last recommendations

qualityVars == <<assessment_history, recommendation_cache>>

Init ==
    /\ assessment_history = [d \in Datasets |-> <<>>]
    /\ recommendation_cache = [d \in Datasets |-> <<>>]

(* (total - part) / total, at least 0: of no frames it is NaN.max(0), which is
   0; of a part beyond the total the unsigned difference wraps around in a
   release build, to more than any score. *)
Share(total, part) ==
    IF total = 0 THEN IF part = 0 THEN 0 ELSE 1000000
    ELSE IF part > total THEN 1000000
    ELSE (100 * (total - part)) \div total

Clamp(x) == IF x > 10000 THEN 10000 ELSE x

Weighted(completeness, validity, consistency, timeliness) ==
    25 * completeness + 35 * validity + 25 * consistency + 15 * timeliness

Score(m) ==
    LET completeness == Share(m.total, m.missing)
        validity == Share(m.total, m.anomalous)
    IN  [measure |-> m, completeness |-> completeness, validity |-> validity,
         consistency |-> m.consistency, timeliness |-> m.sync,
         overall |-> Clamp(Weighted(completeness, validity, m.consistency, m.sync))]

Assessed(d, m) ==
    /\ Len(assessment_history[d]) < MaxAssessments
    /\ assessment_history' = [assessment_history EXCEPT ![d] = Append(@, Score(m))]

assess_dataset_quality(d, m) == Assessed(d, m) /\ UNCHANGED recommendation_cache

Severity(n, critical, high) ==
    IF n > critical THEN "Critical" ELSE IF n > high THEN "High" ELSE "Medium"

When(condition, category, severity) ==
    IF condition THEN <<[category |-> category, severity |-> severity]>> ELSE <<>>

generated(score, anomalies, missing) ==
    When(score.completeness < 90 /\ missing > 0, "MissingData", Severity(missing, 100, 10))
    \o When(score.validity < 95 /\ anomalies > 0, "AnomalousFrames", Severity(anomalies, 1000, 100))
    \o When(score.timeliness < 80, "TemporalAlignment", "High")
    \o When(score.consistency < 85, "DataQuality", "Medium")
    \o When(score.overall >= 8500 /\ anomalies < 10, "PerformanceOptimization", "Low")

generate_recommendations(d, score, anomalies, missing) ==
    /\ recommendation_cache' = [recommendation_cache EXCEPT ![d] = generated(score, anomalies, missing)]
    /\ UNCHANGED assessment_history

(* create_quality_report assesses, then recommends about what it assessed; its
   three lists are the recommendations by severity. *)
create_quality_report(d, m) ==
    /\ Assessed(d, m)
    /\ recommendation_cache' =
         [recommendation_cache EXCEPT ![d] = generated(Score(m), m.anomalous, m.missing)]

Issues(d, severities) == SelectSeq(recommendation_cache[d], LAMBDA r : r.severity \in severities)

(* Mutant: the five are taken oldest first. *)
RecentOldest(d) == SubSeq(assessment_history[d], 1,
                          IF Len(assessment_history[d]) < 5 THEN Len(assessment_history[d]) ELSE 5)

(* The newest five assessments, newest first. *)
RecentScores(d) ==
    LET h == assessment_history[d]
    IN  [k \in 1 .. (IF Len(h) < 5 THEN Len(h) ELSE 5) |-> h[Len(h) + 1 - k]]

(* get_quality_trend: the changes' total and how many there are; none of fewer
   than two assessments. *)
get_quality_trend(d) ==
    LET recent == RecentScores(d)
        comparisons == Len(recent) - 1
        change_total[k \in 0 .. comparisons] ==
            IF k = 0 THEN 0
            ELSE change_total[k - 1] + recent[k].overall - recent[k + 1].overall
    IN  IF Len(assessment_history[d]) < 2 THEN [total |-> 0, comparisons |-> 0]
        ELSE [total |-> change_total[comparisons], comparisons |-> comparisons]

(* A score below 0.7, or a change below -0.1 on the average. *)
should_trigger_reprocessing(d, score) ==
    LET trend == get_quality_trend(d)
    IN  score.overall < 7000 \/ trend.total < -1000 * trend.comparisons

Next ==
    \E d \in Datasets :
        \/ \E m \in Measures : assess_dataset_quality(d, m)
        \/ \E m \in Measures : create_quality_report(d, m)
        \/ \E k \in DOMAIN assessment_history[d] :
              LET s == assessment_history[d][k]
              IN  generate_recommendations(d, s, s.measure.anomalous, s.measure.missing)

Spec == Init /\ [][Next]_qualityVars
-----------------------------------------------------------------------------
Sane(s) == s.measure.missing <= s.measure.total /\ s.measure.anomalous <= s.measure.total

BoundedScores(h) ==
    \A s \in Range(h) :
        Sane(s) => 0 <= s.overall /\ s.overall <= 10000 /\ s.completeness <= 100 /\ s.validity <= 100

OrderedScores(h) ==
    \A r, s \in Range(h) :
        /\ Sane(r) /\ Sane(s) /\ r.measure.total = s.measure.total
        /\ r.measure.missing >= s.measure.missing /\ r.measure.anomalous >= s.measure.anomalous
        /\ r.consistency <= s.consistency /\ r.timeliness <= s.timeliness
        => r.overall <= s.overall

LastChanges(n) == {k \in 2 .. n : k > n - 4}

FallIsSent(d, h, n) ==
    n >= 2 /\ (\A k \in LastChanges(n) : h[k - 1].overall - h[k].overall > 1000)
    => should_trigger_reprocessing(d, h[n])

SteadyIsNot(d, h, n) ==
    n >= 1 /\ h[n].overall >= 7000 /\ (\A k \in LastChanges(n) : h[k].overall >= h[k - 1].overall)
    => ~should_trigger_reprocessing(d, h[n])

(* Of any assessments, in any order: one with more missing or anomalous frames
   (of no more frames than there are) and less consistency and synchronisation
   never has the better score, and its score lies between 0 and 1.  A dataset
   whose last four changes (or all, of fewer) each lost more than 0.1 is sent
   to reprocessing, and one whose score is 0.7 or more and did not fall since
   is not. *)
DeclineDetected ==
    \A d \in Datasets :
        LET h == assessment_history[d]
        IN  /\ BoundedScores(h) /\ OrderedScores(h)
            /\ FallIsSent(d, h, Len(h)) /\ SteadyIsNot(d, h, Len(h))
=============================================================================
