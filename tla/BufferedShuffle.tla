--------------------------- MODULE BufferedShuffle ----------------------------
(***************************************************************************)
(* Sampler::order, crates/pyroboframes-core/src/sampler.rs: the sequential  *)
(* stream 0 .. total-1 is read through a bounded buffer and a random        *)
(* element of the buffer is emitted at each step.                           *)
(*                                                                         *)
(* The generator (SplitMix64) is a free choice of rng.below(n): whatever    *)
(* holds here holds for every seed and epoch.  Vectors are sequences, so    *)
(* index i of the code is index i + 1 here; positions keep their value.     *)
(***************************************************************************)
EXTENDS Integers, Sequences

CONSTANTS
    total,          \* the size of the population
    shuffle_buffer  \* the buffer's capacity

ShuffleAssumption == total \in Nat /\ shuffle_buffer \in Nat

VARIABLES
    shuffle, \* the user's flag
    out,   \* the order built so far
    buf,   \* the shuffle buffer
    next,  \* the next element of the sequential stream
    phase  \* "start", "sequential", "prime", "emit"

vars == <<shuffle, out, buf, next, phase>>

Sequential == ~shuffle \/ shuffle_buffer <= 1 \/ total <= 1

Init ==
    /\ shuffle \in BOOLEAN
    /\ out = <<>>
    /\ buf = <<>>
    /\ next = 0
    /\ phase = "start"

Begin ==
    /\ phase = "start"
    /\ phase' = IF Sequential THEN "sequential" ELSE "prime"
    /\ UNCHANGED <<shuffle, out, buf, next>>

(* (0..total).collect() *)
Collect ==
    /\ phase = "sequential"
    /\ next < total
    /\ out' = Append(out, next)
    /\ next' = next + 1
    /\ UNCHANGED <<shuffle, buf, phase>>

(* Mutant: the buffer takes one element too many. *)
PrimeOneMore ==
    /\ phase = "prime"
    /\ IF Len(buf) <= shuffle_buffer /\ next < total
         THEN buf' = Append(buf, next) /\ next' = next + 1 /\ phase' = "prime"
         ELSE phase' = "emit" /\ UNCHANGED <<buf, next>>
    /\ UNCHANGED <<shuffle, out>>

Prime ==
    /\ phase = "prime"
    /\ IF Len(buf) < shuffle_buffer /\ next < total
         THEN buf' = Append(buf, next) /\ next' = next + 1 /\ phase' = "prime"
         ELSE phase' = "emit" /\ UNCHANGED <<buf, next>>
    /\ UNCHANGED <<shuffle, out>>

(* Vec::swap_remove: the last element takes the place of the removed one. *)
SwapRemove(s, i) == SubSeq([s EXCEPT ![i] = s[Len(s)]], 1, Len(s) - 1)

Emit ==
    /\ phase = "emit"
    /\ \E pick \in DOMAIN buf :
         /\ out' = Append(out, buf[pick])
         /\ IF next < total
              THEN buf' = [buf EXCEPT ![pick] = next] /\ next' = next + 1
              ELSE buf' = SwapRemove(buf, pick) /\ UNCHANGED next
    /\ UNCHANGED <<shuffle, phase>>

(* The order is complete and is returned. *)
Returned ==
    \/ phase = "sequential" /\ next >= total
    \/ phase = "emit" /\ buf = <<>>

Next ==
    \/ Begin \/ Collect \/ Prime \/ Emit
    \/ Returned /\ UNCHANGED vars

Spec == Init /\ [][Next]_vars
-----------------------------------------------------------------------------
(* How far ahead of its turn the buffer lets a position come out. *)
Ahead == IF shuffle_buffer <= 1 THEN 0 ELSE shuffle_buffer - 1
=============================================================================
