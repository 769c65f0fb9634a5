-------------------------------- MODULE Ensemble --------------------------------
(***************************************************************************)
(* Votes of several models on a prediction: EnsembleOrchestrator of         *)
(* crates/pyroboframes-core/src/ensemble.rs.                                *)
(*                                                                         *)
(* Values and confidences are in tenths, results exact fractions            *)
(* [num, den], den > 0: the rounding of doubles is left out, and exp(-10) is *)
(* 1 / Floor.                                                               *)
(***************************************************************************)
EXTENDS Integers, Sequences, FiniteSets, Functions

CONSTANTS
    Models, Types,
    Predictions,     \* what may be submitted: [model, type, value, confidence]
    Outcomes,        \* what may be recorded: [predicted, actual], whole numbers
    Floor,           \* what exp(-10) divides one by
    MaxPredictions, MaxOutcomes  \* bounds on what is held

EnsembleAssumption ==
    /\ \A p \in Predictions : p.confidence \in 0 .. 10 /\ p.value \in Int
    /\ \A r \in Outcomes : r.predicted \in Int /\ r.actual \in Int
    /\ Floor \in Nat \ {0}

VARIABLES
    models,      \* the registered ones: id -> [weight, enabled]
    predictions,
    performance  \* [model, type] -> the outcomes recorded, in order

ensembleVars == <<models, predictions, performance>>

Strategies == {"UnweightedMajority", "WeightedMajority", "ConfidenceWeighted", "BayesianEnsemble"}

Init ==
    /\ models = <<>>
    /\ predictions = <<>>
    /\ performance = [k \in Models \X Types |-> <<>>]

(* Registering a model again resets it. *)
register_model(m) ==
    /\ models' = [k \in DOMAIN models \cup {m} |->
                    IF k = m THEN [weight |-> 10, enabled |-> TRUE] ELSE models[k]]
    /\ UNCHANGED <<predictions, performance>>

(* A prediction of an unknown model is dropped. *)
submit_prediction(p) ==
    /\ Len(predictions) < MaxPredictions
    /\ predictions' = IF p.model \in DOMAIN models THEN Append(predictions, p) ELSE predictions
    /\ UNCHANGED <<models, performance>>

set_model_weight(m, w) ==
    /\ m \in DOMAIN models
    /\ models' = [models EXCEPT ![m].weight = IF w < 0 THEN 0 ELSE IF w > 10 THEN 10 ELSE w]
    /\ UNCHANGED <<predictions, performance>>

enable_model(m, enabled) ==
    /\ m \in DOMAIN models
    /\ models' = [models EXCEPT ![m].enabled = enabled]
    /\ UNCHANGED <<predictions, performance>>

clear_predictions == predictions' = <<>> /\ UNCHANGED <<models, performance>>

record_performance(m, t, r) ==
    /\ Len(performance[<<m, t>>]) < MaxOutcomes
    /\ performance' = [performance EXCEPT ![<<m, t>>] = Append(@, r)]
    /\ UNCHANGED <<models, predictions>>

-----------------------------------------------------------------------------
Fraction(n, d) == [num |-> n, den |-> d]
Leq(a, b) == a.num * b.den <= b.num * a.den
Total(numbers) ==
    LET sum[k \in 0 .. Len(numbers)] == IF k = 0 THEN 0 ELSE sum[k - 1] + numbers[k]
    IN  sum[Len(numbers)]
Abs(n) == IF n < 0 THEN -n ELSE n

(* A mean by weight; without weight the floor 0.0001 of the total makes it 0. *)
WeightedMean(s, weights) ==
    IF Total(weights) = 0 THEN Fraction(0, 1)
    ELSE Fraction(Total([k \in DOMAIN s |-> s[k].value * weights[k]]), Total(weights))

Ones(s) == [k \in DOMAIN s |-> 1]
Confidences(s) == [k \in DOMAIN s |-> s[k].confidence]

(* Mutant: the weights are not normalised by their sum but by the votes. *)
ConsensusUnnormalized(strategy, s) ==
    CASE strategy = "WeightedMajority" ->
             Fraction(Total([k \in DOMAIN s |-> s[k].value * s[k].confidence]), Len(s))
      [] OTHER -> WeightedMean(s, Ones(s))

(* The value of the four strategies.  The weights (c / max c)^2 of
   ConfidenceWeighted are c^2 up to a factor that cancels. *)
Consensus(strategy, s) ==
    CASE strategy = "WeightedMajority" -> WeightedMean(s, Confidences(s))
      [] strategy = "ConfidenceWeighted" ->
             WeightedMean(s, [k \in DOMAIN s |-> s[k].confidence * s[k].confidence])
      [] OTHER -> WeightedMean(s, Ones(s))

(* ln(c).max(-10): a confidence counts as exp(-10) at least. *)
Likelihood(c) == IF c * Floor < 10 THEN Fraction(1, Floor) ELSE Fraction(c, 10)

(* Bayesian: the product, which is never over 1. *)
Product(s) ==
    LET product[k \in 0 .. Len(s)] ==
            IF k = 0 THEN Fraction(1, 1)
            ELSE Fraction(product[k - 1].num * Likelihood(s[k].confidence).num,
                          product[k - 1].den * Likelihood(s[k].confidence).den)
    IN  product[Len(s)]

Confidence(strategy, s) ==
    IF strategy = "BayesianEnsemble" THEN Product(s)
      ELSE Fraction(Total(Confidences(s)), 10 * Len(s))

(* calculate_std_dev, squared, with n - 1; the agreement 1 / (1 + std / ...)
   is full when it is 0. *)
Variance(s, mean) ==
    LET off(p) == p.value * mean.den - mean.num
    IN  IF Len(s) < 2 THEN Fraction(0, 1)
        ELSE Fraction(Total([k \in DOMAIN s |-> off(s[k]) * off(s[k])]),
                      (Len(s) - 1) * mean.den * mean.den)

(* filter, as the loop it is. *)
Matching(t) ==
    LET at == {k \in DOMAIN predictions : predictions[k].type = t}
        kept[k \in 0 .. Len(predictions)] ==
            IF k = 0 THEN <<>>
            ELSE IF k \in at THEN Append(kept[k - 1], predictions[k]) ELSE kept[k - 1]
    IN  kept[Len(predictions)]

(* aggregate_predictions, a sequence of at most one vote; it takes what was
   held, the predictions of disabled models too, and keeps it. *)
aggregate_predictions(strategy, t) ==
    LET s == Matching(t)
        v == Consensus(strategy, s)
    IN  IF s = <<>> THEN <<>>
        ELSE <<[value |-> v, confidence |-> Confidence(strategy, s),
                variance |-> Variance(s, v), participating |-> Len(s)]>>

(* get_model_performance: the mean accuracy, of 1 / (1 + |error|) each, in
   twelfths. *)
Accuracy(m, t) ==
    LET past == performance[<<m, t>>]
    IN  Fraction(Total([k \in DOMAIN past |-> 12 \div (1 + Abs(past[k].predicted - past[k].actual))]),
                 Len(past))

(* get_best_model: any of the best, the order of a HashMap decides. *)
get_best_model(t) ==
    LET known == {m \in Models : performance[<<m, t>>] # <<>> /\ Accuracy(m, t).num > 0}
    IN  {m \in known : \A n \in known : Leq(Accuracy(n, t), Accuracy(m, t))}

Next ==
    \/ \E m \in Models :
          \/ register_model(m)
          \/ \E w \in {-1, 11} : set_model_weight(m, w)
          \/ \E enabled \in BOOLEAN : enable_model(m, enabled)
          \/ \E t \in Types, r \in Outcomes : record_performance(m, t, r)
    \/ \E p \in Predictions : submit_prediction(p)
    \/ clear_predictions

Spec == Init /\ [][Next]_ensembleVars
-----------------------------------------------------------------------------
(* Whatever was submitted and in whatever order, every strategy answers, up to
   the rounding of doubles, a value within the votes (unless no vote carries any
   confidence), with no more confidence than its surest vote has (the Bayesian
   one takes exp(-10) for less), in full agreement exactly when the votes are
   equal; and the strategies answer the same when the votes are equally sure. *)
ConsensusSound ==
    \A t \in Types : LET s == Matching(t)
                         confidences == {s[k].confidence : k \in DOMAIN s}
                         values == {s[k].value : k \in DOMAIN s}
                     IN
    \A strategy \in Strategies : \A v \in Range(aggregate_predictions(strategy, t)) :
        /\ confidences # {0} =>
             /\ \E x \in values : Leq(Fraction(x, 1), v.value)
             /\ \E x \in values : Leq(v.value, Fraction(x, 1))
        /\ \E c \in confidences :
             Leq(v.confidence, IF strategy = "BayesianEnsemble" THEN Likelihood(c)
                               ELSE Fraction(c, 10))
        /\ confidences # {0} => (v.variance.num = 0 <=> Cardinality(values) = 1 \/ Len(s) = 1)
        /\ Cardinality(confidences) = 1 /\ confidences # {0} =>
             LET u == aggregate_predictions("UnweightedMajority", t)[1]
             IN  Leq(u.value, v.value) /\ Leq(v.value, u.value)
        /\ \A k \in DOMAIN s : s[k].model \in DOMAIN models
=============================================================================
