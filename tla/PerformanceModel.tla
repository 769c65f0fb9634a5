---------------------------- MODULE PerformanceModel ----------------------------
(***************************************************************************)
(* PerformanceModel of crates/pyroboframes-core/src/models.rs: a window of  *)
(* samples and the linear model fitted to it from time to time.  Factors    *)
(* are whole numbers, coefficients are fractions.                           *)
(***************************************************************************)
EXTENDS Integers, Sequences, FiniteSets

CONSTANTS
    Samples,                \* records [batch_size, memory, cpu, gpu, throughput, latency]
    max_training_samples,   \* 10000 in new
    RetrainEvery,           \* 100 in add_training_sample
    LeastSamples,           \* 10 in retrain
    MaxSamples              \* bounds the samples added

ModelAssumption ==
    /\ RetrainEvery \in Nat \ {0} /\ max_training_samples \in Nat /\ LeastSamples \in Nat
    /\ max_training_samples >= RetrainEvery /\ max_training_samples % RetrainEvery = 0

VARIABLES
    training_data,
    coefficients,   \* of the throughput and of the latency, or NoFit: the prior
    stream          \* history: all samples ever added

modelVars == <<training_data, coefficients, stream>>

NoFit == [prior |-> TRUE]

Init == training_data = <<>> /\ coefficients = NoFit /\ stream = <<>>

(* The five factors; the last is the batch size times the idle shares. *)
Factors(s) ==
    <<s.batch_size, s.memory, s.cpu, s.gpu,
      (s.batch_size * (100 - s.cpu) * (100 - s.gpu)) \div 10000>>

Total(numbers) ==
    LET sum[k \in 0 .. Len(numbers)] == IF k = 0 THEN 0 ELSE sum[k - 1] + numbers[k]
    IN  sum[Len(numbers)]
Abs(x) == IF x < 0 THEN -x ELSE x

(* Each factor by itself, over the whole window; a factor that does not vary
   has slope 0.  The intercept is the mean error that leaves. *)
Regression(data, results) ==
    LET n == Len(data)
        x(k) == [j \in 1 .. n |-> Factors(data[j])[k]]
        Slope(k) ==
            LET denominator == Abs(n * Total([j \in 1 .. n |-> x(k)[j] * x(k)[j]])
                                     - Total(x(k)) * Total(x(k)))
            IN  IF denominator = 0 THEN <<0, 1>>
                ELSE <<n * Total([j \in 1 .. n |-> x(k)[j] * results[j]])
                         - Total(x(k)) * Total(results), denominator>>
    IN  [slopes |-> [k \in 1 .. 5 |-> Slope(k)],
         mean_error_of |-> <<Total(results), [k \in 1 .. 5 |-> Total(x(k))], n>>]

Fit(data) ==
    [throughput |-> Regression(data, [j \in DOMAIN data |-> data[j].throughput]),
     latency |-> Regression(data, [j \in DOMAIN data |-> data[j].latency])]

retrain(data) == IF Len(data) < LeastSamples THEN coefficients ELSE Fit(data)

(* Mutant: the count is looked at before the oldest sample is let go. *)
RetrainsEarly(data) == (Len(training_data) + 1) % RetrainEvery = 0

Retrains(data) == Len(data) % RetrainEvery = 0 /\ Len(data) >= RetrainEvery

(* A full window has the same length after every sample: from then on the
   model is fitted anew for each. *)
add_training_sample ==
    /\ Len(stream) < MaxSamples
    /\ \E s \in Samples :
          LET more == Append(training_data, s)
              data == IF Len(more) > max_training_samples THEN Tail(more) ELSE more
          IN  /\ training_data' = data
              /\ coefficients' = IF Retrains(data) THEN retrain(data) ELSE coefficients
              /\ stream' = Append(stream, s)

Next == add_training_sample
-----------------------------------------------------------------------------
Newest(s, n) == SubSeq(s, Len(s) - (IF n < Len(s) THEN n ELSE Len(s)) + 1, Len(s))

(* "Auto-retrain when sufficient samples accumulated": from the first fit on,
   the model is one fitted to the newest window as it was fewer than
   RetrainEvery samples ago, also when the window no longer grows. *)
FitFresh ==
    Len(stream) >= RetrainEvery /\ RetrainEvery >= LeastSamples =>
        \E age \in 0 .. RetrainEvery - 1 :
            coefficients =
                Fit(Newest(SubSeq(stream, 1, Len(stream) - age), max_training_samples))
=============================================================================
