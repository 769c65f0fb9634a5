-------------------------------- MODULE Feedback --------------------------------
(***************************************************************************)
(* What became of decisions and predictions, and the models to retrain:     *)
(* FeedbackLoop of crates/pyroboframes-core/src/feedback.rs.                *)
(*                                                                         *)
(* Values are whole numbers; a confidence is over 0.7 or not, an impact is   *)
(* left out.  A clock that is behind the stamps makes the unsigned age of a  *)
(* record wrap around, as in a release build.                               *)
(***************************************************************************)
EXTENDS Integers, Sequences, FiniteSets, Functions

CONSTANTS
    MetricNames, Values, ModelIds,
    Feedbacks,    \* what may be fed back: [predicted, actual, sure, age]
    Thresholds, Ages,
    max_history,
    Recent,       \* how many errors are averaged: 100
    MaxCalls, MaxClock  \* bounds

FeedbackAssumption ==
    /\ max_history \in Nat /\ Recent \in Nat \ {0}
    /\ Thresholds \subseteq Nat /\ Ages \subseteq Nat
    /\ \A f \in Feedbacks : f.predicted \in Int /\ f.actual \in Int /\ f.age \in Int

VARIABLES
    decision_outcomes,    \* [success, timestamp]
    prediction_feedback,  \* [predicted, actual, sure, error, timestamp, id]
    performance_metrics,  \* name -> [current, previous, samples]
    retraining_triggers,  \* [model, priority]
    now,
    calls_made,
    added,                \* history: the triggers a caller added by hand
    fed,                  \* history: every feedback that came in
    aged,                 \* history: those of it found too old by some clearing
    asked                 \* history: the calls that may trigger, for which model,
                          \* on what grounds, and what they raised

feedbackVars == <<decision_outcomes, prediction_feedback, performance_metrics,
                  retraining_triggers, now, calls_made, added, fed, aged, asked>>

TriggerPriority == {"Low", "Medium", "High", "Critical"}

Init ==
    /\ decision_outcomes = <<>> /\ prediction_feedback = <<>>
    /\ performance_metrics = <<>> /\ retraining_triggers = <<>>
    /\ now = 1 /\ calls_made = 0
    /\ added = {} /\ fed = <<>> /\ aged = {} /\ asked = <<>>

Abs(n) == IF n < 0 THEN -n ELSE n

(* push_back, then pop_front when there are too many. *)
Pushed(q, x) ==
    LET longer == Append(q, x)
    IN  IF Len(longer) > max_history THEN Tail(longer) ELSE longer

Count == calls_made < MaxCalls /\ calls_made' = calls_made + 1

record_decision_outcome(success) ==
    /\ Count
    /\ decision_outcomes' = Pushed(decision_outcomes, [success |-> success, timestamp |-> now])
    /\ UNCHANGED <<prediction_feedback, performance_metrics, retraining_triggers, now,
                   added, fed, aged, asked>>

record_prediction_feedback(f) ==
    LET record == [predicted |-> f.predicted, actual |-> f.actual, sure |-> f.sure,
                   error |-> Abs(f.predicted - f.actual), timestamp |-> now - f.age,
                   id |-> Len(fed) + 1]
    IN  /\ Count
        /\ prediction_feedback' = Pushed(prediction_feedback, record)
        /\ fed' = Append(fed, [error |-> Abs(f.predicted - f.actual), timestamp |-> now - f.age])
        /\ UNCHANGED <<decision_outcomes, performance_metrics, retraining_triggers, now,
                       added, aged, asked>>

update_metric(n, value) ==
    LET known == n \in DOMAIN performance_metrics
    IN  /\ Count
        /\ performance_metrics' = [k \in DOMAIN performance_metrics \cup {n} |->
             IF k # n THEN performance_metrics[k]
             ELSE [current |-> value,
                   previous |-> IF known THEN performance_metrics[n].current ELSE value,
                   samples |-> IF known THEN performance_metrics[n].samples + 1 ELSE 1]]
        /\ UNCHANGED <<decision_outcomes, prediction_feedback, retraining_triggers, now,
                       added, fed, aged, asked>>

(* detect_performance_trends: the direction of a change of more than 2 percent
   of the previous value. *)
Direction(n) ==
    LET m == performance_metrics[n]
        change == 100 * (m.current - m.previous)
        slack == 2 * Abs(m.previous)
    IN  IF m.previous = 0 \/ Abs(change) <= slack THEN "Stable"
        ELSE IF change > 0 THEN "Improving" ELSE "Degrading"

Sum(numbers) ==
    LET sum[k \in 0 .. Len(numbers)] == IF k = 0 THEN 0 ELSE sum[k - 1] + numbers[k]
    IN  sum[Len(numbers)]
Newest(s, n) == IF Len(s) <= n THEN s ELSE SubSeq(s, Len(s) - n + 1, Len(s))

(* The urgency of a mean error over the threshold; none without errors. *)
Urgency(errors, threshold) ==
    LET total == Sum(errors)
        bar == threshold * Len(errors)
    IN  IF total <= bar THEN <<>>
        ELSE IF total > 2 * bar THEN <<"Critical">>
        ELSE IF 2 * total > 3 * bar THEN <<"High">>
        ELSE <<"Medium">>

(* Mutant: the records are taken from the front, the oldest. *)
RecentErrorsOldest ==
    LET n == Len(Newest(prediction_feedback, Recent))
    IN  [k \in 1 .. n |-> prediction_feedback[k].error]

(* The errors of the newest Recent records held; and the errors these records
   were fed with. *)
RecentErrors == [k \in DOMAIN Newest(prediction_feedback, Recent) |->
                   Newest(prediction_feedback, Recent)[k].error]
Grounds == [k \in DOMAIN Newest(prediction_feedback, Recent) |->
              fed[Newest(prediction_feedback, Recent)[k].id].error]

Triggers(model, urgency) == [k \in DOMAIN urgency |-> [model |-> model, priority |-> urgency[k]]]

trigger_retraining_if_needed(model, threshold) ==
    LET raised == Urgency(RecentErrors, threshold)
    IN  /\ Count
        /\ retraining_triggers' = retraining_triggers \o Triggers(model, raised)
        /\ asked' = Append(asked, [model |-> model, threshold |-> threshold,
                                    grounds |-> Grounds, raised |-> raised])
        /\ UNCHANGED <<decision_outcomes, prediction_feedback, performance_metrics, now,
                       added, fed, aged>>

(* One computed elsewhere, of any priority: no errors held need call for it. *)
add_retraining_trigger(model, priority) ==
    LET trigger == [model |-> model, priority |-> priority]
    IN  /\ Count
        /\ retraining_triggers' = Append(retraining_triggers, trigger)
        /\ added' = added \cup {trigger}
        /\ UNCHANGED <<decision_outcomes, prediction_feedback, performance_metrics, now,
                       fed, aged, asked>>

(* now - timestamp < max_age, unsigned: a stamp of the future is the oldest. *)
Young(r, max_age) == r.timestamp <= now /\ now - r.timestamp < max_age

(* The elements of s at the positions `at`, by the loop of retain and filter. *)
Retained(s, at) ==
    LET kept[k \in 0 .. Len(s)] ==
            IF k = 0 THEN <<>> ELSE IF k \in at THEN Append(kept[k - 1], s[k]) ELSE kept[k - 1]
    IN  kept[Len(s)]

clear_old_data(max_age) ==
    LET young(s) == {k \in DOMAIN s : Young(s[k], max_age)}
    IN  /\ Count
        /\ decision_outcomes' = Retained(decision_outcomes, young(decision_outcomes))
        /\ prediction_feedback' = Retained(prediction_feedback, young(prediction_feedback))
        /\ aged' = aged \cup {k \in DOMAIN fed : ~(fed[k].timestamp \in now - max_age + 1 .. now)}
        /\ UNCHANGED <<performance_metrics, retraining_triggers, now, added, fed, asked>>

Tick ==
    /\ now < MaxClock
    /\ now' = now + 1
    /\ UNCHANGED <<decision_outcomes, prediction_feedback, performance_metrics,
                   retraining_triggers, calls_made, added, fed, aged, asked>>

severity_rank(p) ==
    CASE p = "Low" -> 0 [] p = "Medium" -> 1 [] p = "High" -> 2 [] p = "Critical" -> 3

(* get_learning_report: how many decisions and successes, whom to retrain. *)
get_learning_report ==
    [total |-> Len(decision_outcomes),
     successful |-> Cardinality({k \in DOMAIN decision_outcomes : decision_outcomes[k].success}),
     error |-> Sum([k \in DOMAIN prediction_feedback |-> prediction_feedback[k].error]),
     models_to_retrain |-> {t.model : t \in
        {u \in Range(retraining_triggers) : severity_rank(u.priority) >= severity_rank("High")}},
     trends |-> [n \in DOMAIN performance_metrics |-> Direction(n)]]

get_critical_triggers ==
    Retained(retraining_triggers,
             {k \in DOMAIN retraining_triggers : retraining_triggers[k].priority = "Critical"})

(* analyze_prediction_confidence, [correct, of] on each side of 0.7. *)
Accuracy(sure) ==
    LET side == {k \in DOMAIN prediction_feedback : prediction_feedback[k].sure = sure}
    IN  [correct |-> Cardinality({k \in side : prediction_feedback[k].error = 0}),
         of |-> Cardinality(side)]

Next ==
    \/ \E success \in BOOLEAN : record_decision_outcome(success)
    \/ \E f \in Feedbacks : record_prediction_feedback(f)
    \/ \E n \in MetricNames, v \in Values : update_metric(n, v)
    \/ \E m \in ModelIds, t \in Thresholds : trigger_retraining_if_needed(m, t)
    \/ \E m \in ModelIds, p \in TriggerPriority : add_retraining_trigger(m, p)
    \/ \E a \in Ages : clear_old_data(a)
    \/ Tick

Spec == Init /\ [][Next]_feedbackVars
-----------------------------------------------------------------------------
(* The triggers that were added by hand or raised by a call. *)
CalledFor ==
    added \cup {[model |-> asked[k].model, priority |-> asked[k].raised[1]] :
                 k \in {j \in DOMAIN asked : asked[j].raised # <<>>}}

(* Whatever was fed back, evicted and cleared: what is held is in the order it
   came, never more than max_history, without what a clearing found too old and
   with all the rest of the last max_history.  A call triggers a retraining
   exactly when the newest of these errors are over the threshold on the average,
   an urgent one when over 1.5 times and a critical one when over twice it; the
   triggers are those raised so and those added by hand, of any priority, and the
   report asks for just the models of the urgent ones. *)
TriggersFromRecent ==
    /\ Len(prediction_feedback) <= max_history /\ Len(decision_outcomes) <= max_history
    /\ \A j, k \in DOMAIN prediction_feedback :
          j < k => prediction_feedback[j].id < prediction_feedback[k].id
    /\ LET held == {prediction_feedback[k].id : k \in DOMAIN prediction_feedback}
       IN  /\ held \cap aged = {}
           /\ {k \in DOMAIN fed \ aged : k > Len(fed) - max_history} \subseteq held
    /\ \A k \in DOMAIN asked :
         LET errors == asked[k].grounds
             over(num, den) == den * Sum(errors) > num * asked[k].threshold * Len(errors)
         IN  /\ asked[k].raised # <<>> <=> over(1, 1)
             /\ asked[k].raised = <<"Critical">> <=> over(2, 1)
             /\ asked[k].raised = <<"Medium">> <=> over(1, 1) /\ ~over(3, 2)
    /\ Range(retraining_triggers) = CalledFor
    /\ get_learning_report.models_to_retrain =
          {t.model : t \in {u \in CalledFor : u.priority \in {"High", "Critical"}}}
    /\ get_critical_triggers # <<>> => get_learning_report.models_to_retrain # {}
=============================================================================
