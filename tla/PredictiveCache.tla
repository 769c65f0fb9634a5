---------------------------- MODULE PredictiveCache ----------------------------
(***************************************************************************)
(* PredictiveCache of crates/pyroboframes-core/src/intelligence.rs.  The    *)
(* probability 1 / sqrt(i + 1) is the place i in the window it stands for.  *)
(***************************************************************************)
EXTENDS Integers, Sequences, FiniteSets

CONSTANTS
    Frames, window_size,
    HistoryWindows,   \* 10 in record_access
    MaxAccesses       \* bounds the accesses

CacheAssumption == window_size \in Nat \ {0} /\ HistoryWindows \in Nat \ {0}

VARIABLES
    access_history,
    forecast,   \* the map predictions: frame to place in the window
    accessed    \* history: all accesses

predictiveVars == <<access_history, forecast, accessed>>

Init == access_history = <<>> /\ forecast = <<>> /\ accessed = <<>>

(* From the newest access to the oldest of the window: of the places of one
   frame the last one written, the oldest, stays. *)
update_predictions(history) ==
    LET n == IF Len(history) < window_size THEN Len(history) ELSE window_size
        window == [i \in 0 .. n - 1 |-> history[Len(history) - i]]
    IN  [f \in {window[i] : i \in DOMAIN window} |->
            CHOOSE i \in DOMAIN window :
                window[i] = f /\ \A k \in DOMAIN window : window[k] = f => k <= i]

(* Mutant: the newest access is let go when the history is full. *)
TrimmedNewest(history) ==
    IF Len(history) > window_size * HistoryWindows THEN SubSeq(history, 1, Len(history) - 1) ELSE history

Trimmed(history) ==
    IF Len(history) > window_size * HistoryWindows THEN Tail(history) ELSE history

record_access ==
    /\ Len(accessed) < MaxAccesses
    /\ \E f \in Frames :
          /\ access_history' = Trimmed(Append(access_history, f))
          /\ forecast' = update_predictions(access_history')
          /\ accessed' = Append(accessed, f)

(* The places whose probability exceeds 0.7, 0.5 and 0.3. *)
Priority(i) ==
    IF i <= 1 THEN "Critical" ELSE IF i <= 2 THEN "High" ELSE IF i <= 10 THEN "Medium" ELSE "Low"

get_critical_frames == {f \in DOMAIN forecast : Priority(forecast[f]) = "Critical"}

(* The confidence is 0.7 at least, so the priority decides. *)
should_prefetch(f) == f \in DOMAIN forecast /\ Priority(forecast[f]) \in {"Critical", "High"}

Next == record_access
-----------------------------------------------------------------------------
Ago(k) == accessed[Len(accessed) - k]
InWindow == {k \in 0 .. window_size - 1 : k < Len(accessed)}

(* "Predict next frames based on patterns": prefetching is advised for frames
   among the three last accesses only, whatever became of the history, and for
   each of those that was accessed once in the window. *)
RecentWorthPrefetching ==
    \A f \in Frames :
        LET places == {k \in InWindow : Ago(k) = f}
        IN  /\ should_prefetch(f) => \E k \in places : k <= 2
            /\ Cardinality(places) = 1 /\ (\E k \in places : k <= 2) => should_prefetch(f)
            /\ f \in get_critical_frames => should_prefetch(f)
=============================================================================
