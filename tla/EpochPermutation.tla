--------------------------- MODULE EpochPermutation ---------------------------
(***************************************************************************)
(* What an epoch order promises (module doc of sampler.rs): every position  *)
(* of the population comes out exactly once, and none comes out more than   *)
(* `ahead` places before its sequential turn, which is the decode locality  *)
(* a bounded shuffle buffer buys.                                           *)
(***************************************************************************)
EXTENDS Integers, Sequences

CONSTANTS
    total, \* the size of the population
    ahead  \* how far ahead of its turn a position may come out

VARIABLE out \* the order built so far

Emitted == {out[i] : i \in DOMAIN out}

Init == out = <<>>

(* The next position is any that is left and near enough. *)
Emit ==
    \E p \in 0 .. total - 1 :
        /\ p \notin Emitted
        /\ p <= Len(out) + ahead
        /\ out' = Append(out, p)

Spec == Init /\ [][Emit]_out
=============================================================================
