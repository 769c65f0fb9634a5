----------------------------- MODULE CircuitBreaker -----------------------------
(***************************************************************************)
(* CircuitBreaker of crates/pyroboframes-core/src/resilience.rs.            *)
(***************************************************************************)
EXTENDS Integers, Sequences

CONSTANTS failure_threshold, success_threshold, MaxLog \* bounds the history

BreakerAssumption ==
    /\ failure_threshold \in Nat \ {0} /\ success_threshold \in Nat \ {0}
    /\ MaxLog \in Nat

VARIABLES
    state, failure_count, success_count,
    log   \* history: "ok" and "err" of calls that ran, "reset" of an open breaker

breakerVars == <<state, failure_count, success_count, log>>

Init == state = "Closed" /\ failure_count = 0 /\ success_count = 0 /\ log = <<>>

Note(e) == Len(log) < MaxLog /\ log' = Append(log, e)

on_success ==
    /\ failure_count' = 0
    /\ IF state = "HalfOpen" /\ success_count + 1 >= success_threshold
       THEN state' = "Closed" /\ success_count' = 0
       ELSE /\ success_count' = IF state = "HalfOpen" THEN success_count + 1
                                                      ELSE success_count
            /\ UNCHANGED state

on_failure ==
    /\ failure_count' = failure_count + 1
    /\ success_count' = 0
    /\ state' = IF failure_count + 1 >= failure_threshold THEN "Open" ELSE state

(* call: an open breaker fails fast, without running f. *)
CallOk == state # "Open" /\ on_success /\ Note("ok")
CallErr == state # "Open" /\ on_failure /\ Note("err")

(* Mutant: the failures so far are kept. *)
try_reset_keeps ==
    /\ state = "Open"
    /\ state' = "HalfOpen"
    /\ Note("reset")
    /\ UNCHANGED <<failure_count, success_count>>

try_reset ==
    /\ state = "Open"
    /\ state' = "HalfOpen" /\ failure_count' = 0
    /\ Note("reset")
    /\ UNCHANGED success_count

Next == CallOk \/ CallErr \/ try_reset

Spec == Init /\ [][Next]_breakerVars
-----------------------------------------------------------------------------
(* The log ends with n times e. *)
EndsWith(e, n) ==
    /\ Len(log) >= n
    /\ \A k \in Len(log) - n + 1 .. Len(log) : log[k] = e

(* "Open: fail fast", "HalfOpen: test if recovered": the breaker is open just
   when the calls since it was last reset end in failure_threshold failures, a
   trial tolerating as many as the closed breaker does; and once open it does
   not close before success_threshold successes in a row since the last reset,
   none of them from an earlier trial. *)
TripsAndRecovers ==
    /\ state = "Open" <=> EndsWith("err", failure_threshold)
    /\ state = "Closed" /\ (\E k \in DOMAIN log : log[k] = "reset") =>
        \E k \in DOMAIN log :
            /\ k + success_threshold - 1 <= Len(log)
            /\ \A j \in k .. Len(log) : log[j] # "reset"
            /\ \A j \in k .. k + success_threshold - 1 : log[j] = "ok"
=============================================================================
