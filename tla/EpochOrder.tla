------------------------------ MODULE EpochOrder ------------------------------
(***************************************************************************)
(* The order of an epoch, as RoboFrameDataset::loader builds it             *)
(* (crates/pyroboframes-py/src/lib.rs): the arguments choose between        *)
(* weighted draws, shuffled chunks (ChunkOrder), a curriculum, and the      *)
(* buffered shuffle (BufferedShuffle), in this order of precedence.         *)
(*                                                                         *)
(* Positions are those of `base`, the frames of the selected episodes.      *)
(***************************************************************************)
EXTENDS Integers, Sequences, FiniteSets, Functions

CONSTANTS
    Runs,           \* the selected episodes' runs of positions
    chunk_size,     \* the argument, when it is at least 1
    shuffle_buffer,
    WeightUnit,     \* a common multiple of the episode lengths
    MaxDraws        \* bound on the weighted draws; each is independent

VARIABLES
    args,                   \* the arguments that select the strategy
    shuffle, out, phase,    \* of either shuffle
    buf, next,              \* of BufferedShuffle
    run, off, chunks, i     \* of ChunkOrder

Total == IF Runs = <<>> THEN 0 ELSE Runs[Len(Runs)].start + Runs[Len(Runs)].len
Positions == 0 .. Total - 1

Sampler == INSTANCE BufferedShuffle WITH total <- Total
Chunked == INSTANCE ChunkOrder

OrderAssumption ==
    /\ Sampler!ShuffleAssumption /\ Chunked!ChunkAssumption
    /\ chunk_size >= 1 /\ WeightUnit \in Nat /\ MaxDraws \in Nat
    /\ \A r \in DOMAIN Runs : Runs[r].len > 0 => WeightUnit % Runs[r].len = 0

orderVars == <<args, shuffle, out, phase, buf, next, run, off, chunks, i>>

Strategy ==
    IF args.balanced THEN "weighted"
    ELSE IF args.chunked THEN "chunked"
    ELSE IF args.curriculum THEN "curriculum"
    ELSE "sampler"

FirstPhase == [weighted |-> "draw", chunked |-> "cut", curriculum |-> "sort", sampler |-> "start"]

Init ==
    /\ args \in [balanced : BOOLEAN, chunked : BOOLEAN, curriculum : BOOLEAN]
    /\ shuffle \in BOOLEAN
    /\ out = <<>>
    /\ phase = FirstPhase[Strategy]
    /\ buf = <<>> /\ next = 0
    /\ run = 1 /\ off = 0 /\ chunks = <<>> /\ i = 0

Covers(r, p) == Runs[r].start <= p /\ p < Runs[r].start + Runs[r].len
EpisodeOf(p) == CHOOSE r \in DOMAIN Runs : Covers(r, p)
LenOf(p) == Runs[EpisodeOf(p)].len

-----------------------------------------------------------------------------
(* balanced: every position weighs 1 / episode_len, here in units. *)

Weight(p) == WeightUnit \div LenOf(p)

(* The inclusive prefix sums of the weights. *)
cumulative[p \in Positions] == Weight(p) + (IF p = 0 THEN 0 ELSE cumulative[p - 1])

(* Mutant: partition_point stops at the first sum that reaches the draw. *)
PickInclusive(r) ==
    LET point == Cardinality({p \in Positions : cumulative[p] < r})
    IN  IF point <= Total - 1 THEN point ELSE Total - 1

(* partition_point(|c| c <= r).min(m - 1) *)
Pick(r) ==
    LET point == Cardinality({p \in Positions : cumulative[p] <= r})
    IN  IF point <= Total - 1 THEN point ELSE Total - 1

(* One draw.  The scaled u64 may round up to the total of the weights. *)
Draw ==
    /\ phase = "draw"
    /\ Len(out) < Total /\ Len(out) < MaxDraws
    /\ \E r \in 0 .. cumulative[Total - 1] : out' = Append(out, Pick(r))
    /\ UNCHANGED <<args, shuffle, phase, buf, next, run, off, chunks, i>>

-----------------------------------------------------------------------------
(* Mutant: the episode index is left out of the key. *)
EasierByLength(p, q) ==
    \/ LenOf(p) < LenOf(q)
    \/ LenOf(p) = LenOf(q) /\ p - Runs[EpisodeOf(p)].start < q - Runs[EpisodeOf(q)].start

(* The sort key: (episode_len, episode_index), then the position. *)
Easier(p, q) ==
    \/ LenOf(p) < LenOf(q)
    \/ LenOf(p) = LenOf(q) /\ EpisodeOf(p) < EpisodeOf(q)
    \/ EpisodeOf(p) = EpisodeOf(q) /\ p < q

(* curriculum: sort the positions; the easiest of those left comes next. *)
Sort ==
    LET left == Positions \ Range(out) IN
    /\ phase = "sort"
    /\ IF left = {}
       THEN phase' = "sorted" /\ UNCHANGED out
       ELSE /\ \E p \in left : (\A q \in left : ~Easier(q, p)) /\ out' = Append(out, p)
            /\ UNCHANGED phase
    /\ UNCHANGED <<args, shuffle, buf, next, run, off, chunks, i>>

-----------------------------------------------------------------------------
Chunk == /\ Strategy = "chunked" /\ Chunked!Next
         /\ UNCHANGED <<args, buf, next>>

Sample == /\ Strategy = "sampler" /\ Sampler!Next
          /\ UNCHANGED <<args, run, off, chunks, i>>

(* The order is complete. *)
Returned ==
    \/ phase = "draw" /\ (Len(out) = Total \/ Len(out) = MaxDraws)
    \/ phase = "sorted"
    \/ Strategy = "chunked" /\ Chunked!Returned
    \/ Strategy = "sampler" /\ Sampler!Returned

Next ==
    \/ Draw \/ Sort \/ Chunk \/ Sample
    \/ Returned /\ UNCHANGED orderVars

Spec == Init /\ [][Next]_orderVars
-----------------------------------------------------------------------------
(* The shuffled order is an epoch that runs at most the buffer ahead. *)
Epoch == INSTANCE EpochPermutation WITH
            total <- Total, ahead <- Sampler!Ahead,
            out <- IF Strategy = "sampler" THEN out ELSE <<>>
ImplementsEpoch == Epoch!Spec

(* Without weighted draws an epoch has every frame exactly once; and while it
   is put together from chunks, "never crossing a boundary", those partition
   what is cut, each within one episode. *)
EveryFrameOnce ==
    /\ Strategy = "chunked" => Chunked!ChunksPartition
    /\ Returned /\ Strategy # "weighted" =>
        /\ Len(out) = Total
        /\ Range(out) = Positions
        /\ ~shuffle /\ Strategy # "curriculum" => out = [k \in 1 .. Total |-> k - 1]

(* "easy->hard (shorter episodes first)": and the frames of an episode stay
   together and in order, also among episodes of one length. *)
EasyToHard ==
    phase = "sorted" => \A j \in 1 .. Len(out) - 1 :
        /\ LenOf(out[j]) <= LenOf(out[j + 1])
        /\ \/ out[j + 1] = out[j] + 1 /\ EpisodeOf(out[j]) = EpisodeOf(out[j + 1])
           \/ /\ out[j] = Runs[EpisodeOf(out[j])].start + LenOf(out[j]) - 1
              /\ out[j + 1] = Runs[EpisodeOf(out[j + 1])].start

(* "every episode is sampled equally regardless of its length": as many draws
   below the total fall to one episode as to another, and as many to one
   frame of it as to the next; so whatever was drawn was as likely as that. *)
BalancedEqually ==
    \A j \in DOMAIN out : Strategy = "weighted" =>
        Cardinality({r \in 0 .. cumulative[Total - 1] - 1 : Pick(r) = out[j]})
            * LenOf(out[j]) = WeightUnit

(* What a strategy other than a permutation promises for its order. *)
HonoursStrategy == EasyToHard /\ BalancedEqually
=============================================================================
