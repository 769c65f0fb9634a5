----------------------------- MODULE ResilientLoad -----------------------------
(***************************************************************************)
(* RetryPolicy, FaultDetector and BulkheadPattern of                        *)
(* crates/pyroboframes-core/src/resilience.rs around one CircuitBreaker.    *)
(* The callers are external: the loop of test_resilient_dataset_loading_    *)
(* workflow (tests/cross_project_integration_test.rs), with the back-off of *)
(* docs/CROSS_PROJECT_INTEGRATION.md, in a slot of the bulkhead.            *)
(***************************************************************************)
EXTENDS Integers, Sequences, FiniteSets

CONSTANTS
    Callers, max_retries, initial_backoff_ms, max_backoff_ms, jitter_percent,
    fault_threshold, max_concurrent,
    failure_threshold, success_threshold, MaxLog \* the breaker's

VARIABLES
    state, failure_count, success_count, log,    \* the breaker
    consecutive_failures, recovery_attempts,
    current_concurrent,
    caller,     \* caller[c]: [pc, attempt, holds], of the loop
    runs,       \* history: runs[c]: how often c ran its operation
    delays,     \* history: delays[c]: its back-offs
    outcomes,   \* history: what the detector was told since the last recovery
    misused     \* history: a slot was released by a caller without one

Breaker == INSTANCE CircuitBreaker

ResilienceAssumption ==
    /\ max_retries \in Nat /\ fault_threshold \in Nat \ {0} /\ max_concurrent \in Nat \ {0}
    /\ initial_backoff_ms \in Nat /\ max_backoff_ms \in Nat /\ jitter_percent \in 0 .. 99

Init ==
    /\ consecutive_failures = 0 /\ recovery_attempts = 0
    /\ current_concurrent = 0
    /\ caller = [c \in Callers |-> [pc |-> "idle", attempt |-> 0, holds |-> FALSE]]
    /\ runs = [c \in Callers |-> 0] /\ delays = [c \in Callers |-> <<>>]
    /\ outcomes = <<>> /\ misused = FALSE

At(c, pc) == caller[c].pc = pc
Go(c, pc) == caller' = [caller EXCEPT ![c].pc = pc]
unBreaker == UNCHANGED <<state, failure_count, success_count, log>>
unDetector == UNCHANGED <<consecutive_failures, recovery_attempts, outcomes>>

-----------------------------------------------------------------------------
(* BulkheadPattern::acquire, or its error at the limit. *)
acquire(c) ==
    /\ At(c, "idle")
    /\ IF current_concurrent < max_concurrent
       THEN /\ current_concurrent' = current_concurrent + 1
            /\ caller' = [caller EXCEPT ![c].pc = "running", ![c].holds = TRUE]
       ELSE /\ Go(c, "refused")
            /\ UNCHANGED current_concurrent
    /\ unBreaker /\ unDetector /\ UNCHANGED <<runs, delays, misused>>

(* release does not know who calls: one without a slot frees another's. *)
release(c) ==
    /\ caller[c].pc \in {"loaded", "gave_up", "refused"}
    /\ current_concurrent' = IF current_concurrent > 0 THEN current_concurrent - 1 ELSE 0
    /\ misused' = (misused \/ ~caller[c].holds)
    /\ caller' = [caller EXCEPT ![c].pc = "over", ![c].holds = FALSE]
    /\ unBreaker /\ unDetector /\ UNCHANGED <<runs, delays>>

-----------------------------------------------------------------------------
(* Mutant: the limit is one retry more. *)
should_retry_at_limit(attempt) == attempt <= max_retries

should_retry(attempt) == attempt < max_retries

(* FaultDetector::record_success and record_failure, within the breaker. *)
CallSucceeds(c) ==
    /\ At(c, "running") /\ Breaker!CallOk
    /\ consecutive_failures' = 0
    /\ outcomes' = Append(outcomes, "ok")
    /\ runs' = [runs EXCEPT ![c] = @ + 1]
    /\ Go(c, "loaded")
    /\ UNCHANGED <<recovery_attempts, current_concurrent, delays, misused>>

CallFails(c) ==
    /\ At(c, "running") /\ Breaker!CallErr
    /\ consecutive_failures' = consecutive_failures + 1
    /\ outcomes' = Append(outcomes, "err")
    /\ runs' = [runs EXCEPT ![c] = @ + 1]
    /\ Go(c, IF should_retry(caller[c].attempt) THEN "backing_off" ELSE "gave_up")
    /\ UNCHANGED <<recovery_attempts, current_concurrent, delays, misused>>

(* An open breaker fails fast; the loop resets it and goes round again. *)
CallRefused(c) ==
    /\ At(c, "running") /\ state = "Open"
    /\ Go(c, "resetting")
    /\ unBreaker /\ unDetector /\ UNCHANGED <<current_concurrent, runs, delays, misused>>

Resets(c) ==
    /\ At(c, "resetting")
    /\ Breaker!try_reset \/ (state # "Open" /\ unBreaker)
    /\ Go(c, "running")
    /\ unDetector /\ UNCHANGED <<current_concurrent, runs, delays, misused>>

(* Doubled with every attempt up to the cap; the jitter comes on top. *)
Base(attempt) ==
    LET backoff == initial_backoff_ms * 2 ^ attempt
    IN  IF backoff < max_backoff_ms THEN backoff ELSE max_backoff_ms

calculate_backoff(attempt) ==
    {Base(attempt), Base(attempt) + (Base(attempt) * jitter_percent) \div 100}

BacksOff(c) ==
    /\ At(c, "backing_off")
    /\ \E delay \in calculate_backoff(caller[c].attempt) :
          delays' = [delays EXCEPT ![c] = Append(@, delay)]
    /\ caller' = [caller EXCEPT ![c].pc = "running", ![c].attempt = @ + 1]
    /\ unBreaker /\ unDetector /\ UNCHANGED <<current_concurrent, runs, misused>>

is_faulty == consecutive_failures >= fault_threshold

(* Someone repairs what is found faulty. *)
attempt_recovery ==
    /\ is_faulty
    /\ recovery_attempts' = recovery_attempts + 1
    /\ consecutive_failures' = 0
    /\ outcomes' = <<>>
    /\ unBreaker /\ UNCHANGED <<current_concurrent, caller, runs, delays, misused>>

Next ==
    \/ attempt_recovery
    \/ \E c \in Callers :
          \/ acquire(c) \/ release(c)
          \/ CallSucceeds(c) \/ CallFails(c) \/ CallRefused(c) \/ Resets(c) \/ BacksOff(c)
-----------------------------------------------------------------------------
(* Slots: as long as only holders release, the count is the callers in the
   bulkhead, and never beyond the limit.  Retries: an operation runs at most
   max_retries + 1 times, whoever opens and resets the breaker meanwhile, and
   is given up only then; each back-off, if there is any, is longer than the one
   before or at the cap.  Faults: the detector is faulty just when the last operations of
   all callers failed, fault_threshold of them since the last recovery. *)
RetriesBounded ==
    /\ current_concurrent <= max_concurrent
    /\ ~misused => current_concurrent = Cardinality({c \in Callers : caller[c].holds})
    /\ \A c \in Callers :
          /\ runs[c] <= max_retries + 1
          /\ At(c, "gave_up") => runs[c] = max_retries + 1
          /\ \A k \in 2 .. Len(delays[c]) :
                \/ delays[c][k] > delays[c][k - 1] \/ delays[c][k] >= max_backoff_ms
                \/ initial_backoff_ms = 0
    /\ is_faulty <=>
          /\ Len(outcomes) >= fault_threshold
          /\ \A k \in Len(outcomes) - fault_threshold + 1 .. Len(outcomes) : outcomes[k] = "err"
=============================================================================
