-------------------------------- MODULE Decisions --------------------------------
(***************************************************************************)
(* The decisions proposed from measurements, their ranking and execution:   *)
(* DecisionEngine of crates/pyroboframes-core/src/decisions.rs.             *)
(*                                                                         *)
(* Ratios and confidences are in hundredths.  The change of a batch size is *)
(* a fraction of the current one; rationales are left out, and of the       *)
(* expected improvement only whether there is any.                          *)
(***************************************************************************)
EXTENDS Integers, Sequences, FiniteSets, Functions

CONSTANTS
    BatchInputs,     \* [current, recommended, confidence, pressure]
    CacheInputs,     \* [hit_rate, anomalies]
    PrefetchInputs,  \* [patterns, pressure], patterns a sequence
    QualityInputs,   \* [score, anomalies, missing]
    MaxDecisions

DecisionsAssumption ==
    /\ \A i \in BatchInputs : /\ i.current \in Nat \ {0} /\ i.recommended \in Nat
                              /\ i.confidence \in Int
    /\ \A i \in CacheInputs : i.hit_rate \in Int
    /\ \A i \in PrefetchInputs : i.patterns \in Seq(0 .. 100)
    /\ \A i \in QualityInputs : i.anomalies \in Int /\ i.missing \in Int
    /\ MaxDecisions \in Nat

VARIABLES
    decisions_made,
    decisions_executed

decisionsVars == <<decisions_made, decisions_executed>>

Init == decisions_made = <<>> /\ decisions_executed = <<>>

(* Mutant: the order derived from the declaration, Critical first. *)
severity_rank_derived(p) ==
    CASE p = "Critical" -> 0 [] p = "High" -> 1 [] p = "Medium" -> 2 [] p = "Low" -> 3

severity_rank(p) ==
    CASE p = "Low" -> 0 [] p = "Medium" -> 1 [] p = "High" -> 2 [] p = "Critical" -> 3

(* A decision's id is its kind and the number of decisions before it. *)
Make(kind, recommendation, priority, confidence, improves) ==
    /\ Len(decisions_made) < MaxDecisions
    /\ decisions_made' = Append(decisions_made,
         [decision_id |-> <<kind, Len(decisions_made)>>, recommendation |-> recommendation,
          priority |-> priority, confidence |-> confidence, improves |-> improves])
    /\ UNCHANGED decisions_executed

make_batch_size_decision(i) ==
    LET change == IF i.recommended > i.current THEN i.recommended - i.current
                  ELSE i.current - i.recommended
    IN  Make("batch-size", "AdjustBatchSize",
             CASE i.pressure > 90 -> "Critical"
               [] i.pressure > 70 /\ i.pressure <= 90 -> "High"
               [] i.pressure <= 70 /\ 10 * change > 3 * i.current /\ i.confidence > 80 -> "Medium"
               [] OTHER -> "Low",
             i.confidence, change * i.confidence > 0)

(* Without anomalies, a hit rate over 0.8 with memory to spare and one of 0.2 to
   0.8 both ask for more cache: the memory decides nothing. *)
make_cache_decision(i) ==
    LET flush == i.anomalies > 100 \/ i.hit_rate < 20
    IN  Make("cache", IF flush THEN "FlushCache" ELSE "CacheAggressively",
             CASE i.anomalies > 500 -> "Critical"
               [] i.anomalies <= 500 /\ i.hit_rate < 10 -> "High"
               [] OTHER -> "Medium",
             IF i.hit_rate + 20 > 100 THEN 100 ELSE i.hit_rate + 20,
             flush \/ i.hit_rate > 0)

(* The mean locality as a whole percentage; no patterns count as one of 0. *)
make_prefetch_decision(i) ==
    LET n == Len(i.patterns)
        sum[k \in 0 .. n] == IF k = 0 THEN 0 ELSE sum[k - 1] + i.patterns[k]
        locality == IF n = 0 THEN 0 ELSE sum[n] \div n
        should_prefetch == locality > 60 /\ i.pressure < 80
    IN  Make("prefetch", IF should_prefetch THEN "EnablePrefetch" ELSE "ReduceParallelism",
             CASE locality > 90 -> "High"
               [] locality <= 90 /\ should_prefetch -> "Medium"
               [] OTHER -> "Low",
             locality, should_prefetch)

make_quality_decision(i) ==
    Make("quality",
         CASE i.score < 60 -> "TriggerReprocessing"
           [] i.score >= 60 /\ i.anomalies > 10 -> "SkipAnomalousFrames"
           [] OTHER -> "RequestManualReview",
         CASE i.score < 50 -> "Critical"
           [] i.score >= 50 /\ (i.anomalies > 15 \/ i.missing > 5) -> "High"
           [] OTHER -> "Medium",
         100 - (i.anomalies + i.missing) \div 2, i.score < 70)

(* Whether a is ranked before b; a stable sort keeps equals as they were. *)
Before(a, b) ==
    \/ severity_rank(a.priority) > severity_rank(b.priority)
    \/ severity_rank(a.priority) = severity_rank(b.priority) /\ a.confidence > b.confidence

rank_decisions_by_priority ==
    LET place(k) == Cardinality({j \in DOMAIN decisions_made :
                        \/ Before(decisions_made[j], decisions_made[k])
                        \/ j <= k /\ ~Before(decisions_made[k], decisions_made[j])})
    IN  [n \in DOMAIN decisions_made |->
            decisions_made[CHOOSE k \in DOMAIN decisions_made : place(k) = n]]

(* The id is not looked up: one that names no decision is executed too. *)
execute_decision(id) ==
    /\ Len(decisions_executed) < MaxDecisions
    /\ decisions_executed' = IF id \in Range(decisions_executed) THEN decisions_executed
                             ELSE Append(decisions_executed, id)
    /\ UNCHANGED decisions_made

get_critical_decisions ==
    LET critical[k \in 0 .. Len(decisions_made)] ==
            IF k = 0 THEN <<>>
            ELSE IF decisions_made[k].priority = "Critical"
                 THEN Append(critical[k - 1], decisions_made[k]) ELSE critical[k - 1]
    IN  critical[Len(decisions_made)]

(* The decision of an id, in a set of at most one: the first of its name. *)
get_decision_by_id(id) ==
    LET named == {k \in DOMAIN decisions_made : decisions_made[k].decision_id = id}
    IN  {decisions_made[k] : k \in {j \in named : \A i \in named : j <= i}}
get_execution_status(id) == id \in Range(decisions_executed)

Next ==
    \/ \E i \in BatchInputs : make_batch_size_decision(i)
    \/ \E i \in CacheInputs : make_cache_decision(i)
    \/ \E i \in PrefetchInputs : make_prefetch_decision(i)
    \/ \E i \in QualityInputs : make_quality_decision(i)
    \/ \E k \in DOMAIN decisions_made : execute_decision(decisions_made[k].decision_id)

Spec == Init /\ [][Next]_decisionsVars
-----------------------------------------------------------------------------
(* Whatever was proposed, executed and in whichever order: the ranking holds
   every decision, each under its own id, the critical ones at its head, and
   never a calm one before one that is more urgent by name; what was executed
   was executed once, and is found under its id. *)
UrgentFirst ==
    LET ranked == rank_decisions_by_priority
        urgency == <<"Low", "Medium", "High", "Critical">>
        critical == get_critical_decisions
    IN  /\ Range(ranked) = Range(decisions_made)
        /\ \A j, k \in DOMAIN decisions_made :
             decisions_made[j].decision_id = decisions_made[k].decision_id => j = k
        /\ Range(SubSeq(ranked, 1, Len(critical))) = Range(critical)
        /\ \A k \in 2 .. Len(ranked) : \A m, n \in DOMAIN urgency :
             /\ ranked[k - 1].priority = urgency[m]
             /\ ranked[k].priority = urgency[n]
             => m >= n
        /\ \A j, k \in DOMAIN decisions_executed :
             decisions_executed[j] = decisions_executed[k] => j = k
        /\ \A k \in DOMAIN decisions_executed :
             Cardinality(get_decision_by_id(decisions_executed[k])) = 1
=============================================================================
