------------------------------ MODULE FrameIndex ------------------------------
(***************************************************************************)
(* From a global frame number to an episode, a row of a data shard and a    *)
(* temporal window: episodes.rs, loader.rs and window.rs of                 *)
(* crates/pyroboframes-core/src.                                            *)
(*                                                                         *)
(* A dataset is what its writer left on disk (external): episodes laid out  *)
(* one after the other, each in one data shard, a shard holding the frames  *)
(* of consecutive episodes; their index records sit in parquet files whose  *)
(* order need not be the episodes' order.                                   *)
(***************************************************************************)
EXTENDS Integers, Sequences, FiniteSets, SequencesExt

CONSTANTS
    Datasets,  \* the datasets: sequences of [episode_index, from, to, shard]
    Windows,   \* the features' delta_timestamps times fps, in ticks
    Ticks,     \* ticks per frame
    Tolerance  \* tolerance_s times fps, in ticks

Record == [episode_index : Nat, from : Nat, to : Nat, shard : Nat]

(* What the code takes for granted of a dataset: episodes do not overlap; a
   shard has the frames from its first episode on without a gap; and where
   records start alike all but the last are of empty episodes, for the order
   of those is the order of the files. *)
WrittenInRow(d) ==
    /\ d \in Seq(Record)
    /\ \A j \in DOMAIN d : d[j].from <= d[j].to
    /\ \A j, k \in DOMAIN d :
          /\ j # k => d[j].to <= d[k].from \/ d[k].to <= d[j].from
          /\ j < k /\ d[j].from = d[k].from => d[j].to = d[j].from
          /\ d[j].shard = d[k].shard => \A g \in d[j].from .. d[k].to - 1 :
                \E e \in DOMAIN d : d[e].shard = d[k].shard /\ d[e].from <= g /\ g < d[e].to

IndexAssumption ==
    /\ Ticks \in Nat \ {0} /\ Tolerance \in Nat
    /\ \A w \in Windows : w \in Seq(Int)
    /\ \A d \in Datasets : WrittenInRow(d)

VARIABLES
    records,  \* the index records in the order of the sorted files
    episodes, \* EpisodeIndex.episodes
    phase,    \* "load", "ready", "search", "answered", "selected"
    frame,    \* the global index asked for
    deltas,   \* the feature's window
    base,     \* binary search: the answer is at base or after it ...
    size,     \* ... and before base + size
    answer,   \* what the query returned
    subset    \* the episodes selected for a split, their frames and their runs

vars == <<records, episodes, phase, frame, deltas, base, size, answer, subset>>

None == [found |-> FALSE]
NoSubset == [wanted |-> {}, frames |-> <<>>, runs |-> <<>>]

Init ==
    /\ records \in Datasets
    /\ episodes = <<>>
    /\ phase = "load"
    /\ frame = 0 /\ deltas = <<>> /\ base = 1 /\ size = 0
    /\ answer = None
    /\ subset = NoSubset

(* Mutant: the records are used in file order. *)
LoadUnsorted ==
    /\ phase = "load"
    /\ episodes' = records
    /\ phase' = "ready"
    /\ UNCHANGED <<records, frame, deltas, base, size, answer, subset>>

Before(j, k) ==
    \/ records[j].from < records[k].from
    \/ records[j].from = records[k].from /\ j < k

(* episodes.sort_by_key(from_index), a stable sort. *)
Load ==
    /\ phase = "load"
    /\ \E place \in [DOMAIN records -> DOMAIN records] :
          /\ \A a, b \in DOMAIN records : a < b => Before(place[a], place[b])
          /\ episodes' = [k \in DOMAIN records |-> records[place[k]]]
    /\ phase' = "ready"
    /\ UNCHANGED <<records, frame, deltas, base, size, answer, subset>>

total_frames == IF episodes = <<>> THEN 0 ELSE episodes[Len(episodes)].to

-----------------------------------------------------------------------------
(* EpisodeIndex::locate.  The search is the standard library's: halve until
   one candidate is left, then compare it. *)

Compare(e) ==
    IF frame < e.from THEN "Greater" ELSE IF frame >= e.to THEN "Less" ELSE "Equal"

Ask ==
    /\ phase = "ready"
    /\ \E g \in 0 .. total_frames : frame' = g
    /\ \E w \in Windows : deltas' = w
    /\ base' = 1
    /\ size' = Len(episodes)
    /\ phase' = "search"
    /\ UNCHANGED <<records, episodes, answer, subset>>

Probe ==
    /\ phase = "search" /\ size > 1
    /\ LET half == size \div 2
       IN  /\ base' = IF Compare(episodes[base + half]) = "Greater"
                        THEN base ELSE base + half
           /\ size' = size - half
    /\ UNCHANGED <<records, episodes, phase, frame, deltas, answer, subset>>

(* TabularLoader::with_features: the smallest from_index of the shard. *)
shard_start(key) ==
    LET starts == {e.from : e \in {x \in Range(episodes) : x.shard = key}}
    IN  CHOOSE s \in starts : \A t \in starts : s <= t

(* f64::round: to the nearest frame, halves away from zero. *)
RoundFrames(t) ==
    IF t >= 0 THEN (2 * t + Ticks) \div (2 * Ticks)
              ELSE -((2 * (-t) + Ticks) \div (2 * Ticks))

Abs(n) == IF n < 0 THEN -n ELSE n
Misaligned(t) == Abs(t - Ticks * RoundFrames(t)) > Tolerance

(* Mutant: a window may run over the end of the episode by one frame. *)
ClampLoose(n, len) == IF n < 0 THEN 0 ELSE IF n > len THEN len ELSE n

Clamp(n, len) == IF n < 0 THEN 0 ELSE IF n > len - 1 THEN len - 1 ELSE n

(* resolve_offsets for a frame at offset f of an episode of len frames. *)
Offsets(f, len) ==
    [d \in DOMAIN deltas |-> Clamp(RoundFrames(f * Ticks + deltas[d]), len)]

(* What sample, windowed_sample and goal_index return for the located frame;
   the window is an error when a delta falls between two frames. *)
Resolved(e) ==
    LET f == frame - e.from
        start == shard_start(e.shard)
    IN  [found |-> TRUE,
         episode |-> e.episode_index,
         row |-> frame - start,
         goal |-> frame - f + (e.to - e.from) - 1,
         window |-> IF \E d \in DOMAIN deltas : Misaligned(f * Ticks + deltas[d])
                      THEN <<>>
                      ELSE [d \in DOMAIN deltas |->
                               (frame - f + Offsets(f, e.to - e.from)[d]) - start]]

Answer ==
    /\ phase = "search" /\ size <= 1
    /\ answer' = IF size = 1 /\ Compare(episodes[base]) = "Equal"
                   THEN Resolved(episodes[base]) ELSE None
    /\ phase' = "answered"
    /\ UNCHANGED <<records, episodes, frame, deltas, base, size, subset>>

Again ==
    /\ phase \in {"answered", "selected"}
    /\ phase' = "ready"
    /\ frame' = 0 /\ deltas' = <<>> /\ base' = 1 /\ size' = 0
    /\ answer' = None
    /\ subset' = NoSubset
    /\ UNCHANGED <<records, episodes>>

-----------------------------------------------------------------------------
(* A split or a user's choice of episodes. *)

Frames(e) == [k \in 1 .. e.to - e.from |-> e.from + k - 1]

(* sort_unstable: each number at the place of how many are not behind it. *)
Sorted(s) ==
    LET place(k) == Cardinality({j \in DOMAIN s : s[j] < s[k] \/ (s[j] = s[k] /\ j <= k)})
    IN  [n \in DOMAIN s |-> s[CHOOSE k \in DOMAIN s : place(k) = n]]

(* frame_indices_for_episodes; unknown episodes are ignored. *)
Gathered(wanted) ==
    FlattenSeq([k \in DOMAIN episodes |->
                   IF episodes[k].episode_index \in wanted THEN Frames(episodes[k]) ELSE <<>>])

FramesFor(wanted) == Sorted(Gathered(wanted))

(* Mutant: a run starts where the episode starts in the dataset. *)
RunsGlobal(wanted) ==
    LET kept == SelectSeq(episodes, LAMBDA e : e.episode_index \in wanted)
    IN  [k \in DOMAIN kept |-> [start |-> kept[k].from, len |-> kept[k].to - kept[k].from]]

(* episode_runs: pos counts the kept frames before the episode. *)
RunsFor(wanted) ==
    LET at == {k \in DOMAIN episodes : episodes[k].episode_index \in wanted}
        len == [k \in DOMAIN episodes |->
                  IF k \in at THEN episodes[k].to - episodes[k].from ELSE 0]
        pos[k \in 0 .. Len(episodes)] == IF k = 0 THEN 0 ELSE pos[k - 1] + len[k]
        run == [k \in DOMAIN episodes |-> [start |-> pos[k - 1], len |-> len[k]]]
        runs[k \in 0 .. Len(episodes)] ==
            IF k = 0 THEN <<>>
            ELSE IF k \in at THEN Append(runs[k - 1], run[k]) ELSE runs[k - 1]
    IN  runs[Len(episodes)]

Select ==
    /\ phase = "ready"
    /\ \E wanted \in SUBSET (0 .. Len(episodes)) :
          subset' = [wanted |-> wanted, frames |-> FramesFor(wanted), runs |-> RunsFor(wanted)]
    /\ phase' = "selected"
    /\ UNCHANGED <<records, episodes, frame, deltas, base, size, answer>>

Next == Load \/ Ask \/ Probe \/ Answer \/ Again \/ Select

Spec == Init /\ [][Next]_vars
-----------------------------------------------------------------------------
(* Where the writer put frame g: the ground truth the index must find back. *)
Written(g) == {e \in Range(records) : e.from <= g /\ g < e.to}
ShardFrames(key) == UNION {e.from .. e.to - 1 : e \in {x \in Range(records) : x.shard = key}}
WrittenRow(e, g) == Cardinality({h \in ShardFrames(e.shard) : h < g})

(* Every frame of the dataset is found, in the episode and at the shard row
   its writer put it, whatever the order of the index files, and a number out
   of range is refused. *)
FrameFound ==
    phase = "answered" =>
        IF Written(frame) = {} THEN ~answer.found
        ELSE /\ answer.found
             /\ \E e \in Written(frame) :
                  /\ answer.episode = e.episode_index
                  /\ answer.row = WrittenRow(e, frame)
                  /\ answer.goal = e.to - 1

(* A window never leaves its episode (no leak from a neighbour in the same
   shard).  Each step is the frame nearest to the requested time, within the
   tolerance; only beyond the episode is the edge frame repeated instead. *)
WindowHonest ==
    phase = "answered" /\ answer.found =>
        \E e \in Written(frame) : \A d \in DOMAIN answer.window :
            \E g \in e.from .. e.to - 1 :
                /\ answer.window[d] = WrittenRow(e, g)
                /\ LET t == (frame - e.from) * Ticks + deltas[d]
                       gap(h) == Abs(Ticks * (h - e.from) - t)
                   IN  /\ \A h \in e.from .. e.to - 1 : gap(g) <= gap(h)
                       /\ t \in 0 .. Ticks * (e.to - 1 - e.from) => gap(g) <= Tolerance

(* The runs that chunked_order cuts are the episodes: run k of the selected
   population is exactly the frames of one wanted episode, in order. *)
RunsAreEpisodes ==
    phase = "selected" =>
        /\ \A g \in Range(subset.frames) : \E e \in Written(g) : e.episode_index \in subset.wanted
        /\ Cardinality(Range(subset.frames)) = Len(subset.frames)
        /\ \A k \in DOMAIN subset.runs : \E e \in Range(records) :
              /\ e.episode_index \in subset.wanted
              /\ subset.runs[k].start + subset.runs[k].len <= Len(subset.frames)
              /\ SubSeq(subset.frames, subset.runs[k].start + 1,
                        subset.runs[k].start + subset.runs[k].len) = Frames(e)
=============================================================================
