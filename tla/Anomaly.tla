--------------------------------- MODULE Anomaly ---------------------------------
(***************************************************************************)
(* Frames flagged by their timing and their content: AnomalyDetector of     *)
(* crates/pyroboframes-core/src/anomaly.rs.                                 *)
(*                                                                         *)
(* Of a frame's statistics only the checks it would fail are kept.  Times   *)
(* are in milliseconds, unsigned: a difference below 0 wraps around, as in  *)
(* a release build, and as a double it is 2^64 (WRAPPED), for differences   *)
(* of less than a second.                                                   *)
(***************************************************************************)
EXTENDS Integers, Sequences, FiniteSets

CONSTANTS
    FrameIds, Contents,  \* what a frame may be called, and which checks it may fail
    Gaps,                \* the milliseconds between a frame and the one before
    Listings,            \* the frame ids a caller may look for gaps in
    Jitter,              \* temporal_jitter_threshold_ms
    MaxFrames

Checks == {"std", "edge", "entropy", "colour", "outlier"}

AnomalyAssumption ==
    /\ FrameIds \subseteq Nat /\ Contents \subseteq SUBSET Checks
    /\ Jitter \in Nat /\ Gaps \subseteq -999 .. 999
    /\ \A s \in Listings : s \in Seq(Nat)
    /\ \A s \in Listings : \A k \in 1 .. Len(s) - 1 : s[k] < s[k + 1]

VARIABLES
    baseline_stats,     \* whether there are any
    temporal_history,   \* the timestamps
    detection_history,  \* frame id -> the last anomaly found
    received            \* history: [time, fails, verdict] of every frame checked

anomalyVars == <<baseline_stats, temporal_history, detection_history, received>>

Clean == "clean"
WRAPPED == 10 ^ 9

Init ==
    /\ baseline_stats = FALSE
    /\ temporal_history = <<>> /\ detection_history = <<>> /\ received = <<>>

set_baseline_statistics ==
    /\ baseline_stats' = TRUE
    /\ UNCHANGED <<temporal_history, detection_history, received>>

Interval(from, to) == IF to < from THEN WRAPPED ELSE to - from
Abs(n) == IF n < 0 THEN -n ELSE n

(* Mutant: the timestamp of a flagged frame is not recorded. *)
RecordedClean(t, verdict) == IF verdict = Clean THEN Append(temporal_history, t) ELSE temporal_history

(* The timestamp is recorded whatever is found. *)
Recorded(t, verdict) == Append(temporal_history, t)

Jittery(t) ==
    LET n == Len(temporal_history)
        expected == IF n >= 2 THEN Interval(temporal_history[n - 1], temporal_history[n]) ELSE 30
    IN  n > 0 /\ Abs(Interval(temporal_history[n], t) - expected) > Jitter

(* The first check that fails decides. *)
Verdict(t, fails) ==
    CASE Jittery(t) -> "TemporalJitter"
      [] ~Jittery(t) /\ "std" \in fails -> "LowContrast"
      [] ~Jittery(t) /\ "std" \notin fails /\ "edge" \in fails -> "BlurredContent"
      [] ~Jittery(t) /\ {"std", "edge"} \cap fails = {} /\ "entropy" \in fails -> "LowContrast"
      [] ~Jittery(t) /\ {"std", "edge", "entropy"} \cap fails = {} /\ "colour" \in fails -> "ColorAberration"
      [] ~Jittery(t) /\ fails = {"outlier"} /\ baseline_stats -> "StatisticalOutlier"
      [] OTHER -> Clean

(* What was found stays when the frame is found clean later. *)
detect_anomalies(id, fails, t) ==
    LET verdict == Verdict(t, fails)
    IN  /\ Len(received) < MaxFrames
        /\ temporal_history' = Recorded(t, verdict)
        /\ detection_history' = IF verdict = Clean THEN detection_history
             ELSE [k \in DOMAIN detection_history \cup {id} |->
                     IF k = id THEN verdict ELSE detection_history[k]]
        /\ received' = Append(received, [time |-> t, fails |-> fails, verdict |-> verdict])
        /\ UNCHANGED baseline_stats

(* The ids between two that follow each other. *)
Missing(ids) ==
    UNION {ids[k] + 1 .. ids[k + 1] - 1 : k \in 1 .. Len(ids) - 1}

detect_missing_frames(ids) ==
    /\ detection_history' = [k \in DOMAIN detection_history \cup Missing(ids) |->
                               IF k \in Missing(ids) THEN "MissingFrames" ELSE detection_history[k]]
    /\ UNCHANGED <<baseline_stats, temporal_history, received>>

get_anomalies_by_type(type) == {id \in DOMAIN detection_history : detection_history[id] = type}

clear_history ==
    /\ temporal_history' = <<>> /\ detection_history' = <<>>
    /\ received' = <<>>
    /\ UNCHANGED baseline_stats

Latest == IF received = <<>> THEN 1000 ELSE received[Len(received)].time

Next ==
    \/ set_baseline_statistics
    \/ \E id \in FrameIds, fails \in Contents, gap \in Gaps : detect_anomalies(id, fails, Latest + gap)
    \/ \E ids \in Listings : detect_missing_frames(ids)
    \/ clear_history

Spec == Init /\ [][Next]_anomalyVars
-----------------------------------------------------------------------------
(* Whatever was found in the frames before, of late, unsteady or bad ones: a
   frame that keeps the rhythm of the two before it is never flagged for
   jitter, a frame that breaks it by more than the threshold is flagged, and a
   frame in rhythm whose content fails is flagged for its content.  So an
   anomaly of one frame disturbs the verdicts of at most the next two. *)
JitterRecovers ==
    \A k \in 3 .. Len(received) :
        LET before == received[k - 1].time - received[k - 2].time
            last == received[k].time - received[k - 1].time
        IN  before >= 0 /\ last >= 0 =>
              /\ received[k].verdict = "TemporalJitter" <=> (last - before) \notin -Jitter .. Jitter
              /\ (last - before) \in -Jitter .. Jitter /\ received[k].fails \notin {{}, {"outlier"}}
                    => received[k].verdict \notin {Clean, "StatisticalOutlier"}
=============================================================================
