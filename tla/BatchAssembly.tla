----------------------------- MODULE BatchAssembly -----------------------------
(***************************************************************************)
(* What RoboFrameDataset::loader accepts and what a batch contains, on the  *)
(* two paths that build one: Loader.__next__ (num_workers = 0;              *)
(* crates/pyroboframes-py/src/lib.rs) and BatchAssembler::assemble, which   *)
(* the workers behind PrefetchLoader run (crates/pyroboframes-core/src/     *)
(* pipeline.rs).  The indices of a batch are given here: EpochLoader cuts   *)
(* the epoch, Prefetch brings the workers' batches into order.              *)
(*                                                                         *)
(* Frames are numbered through the dataset.  A picture is the camera and    *)
(* the frame it shows; its pixels are one datum.  Windows are in frames:    *)
(* FrameIndex has the rounding.                                            *)
(***************************************************************************)
EXTENDS Integers, Sequences, FiniteSets, SequencesExt, FiniteSetsExt

CONSTANTS
    Episodes,   \* sequence of [from, to]
    FeatureData, \* FeatureData[f][g]: the vector of feature f at frame g
    Stats,      \* meta/stats.json: [feature -> [mean, std]], or NoStats
    NoStats,
    PictureSize, \* PictureSize[c][g]: <<width, height>> of camera c's picture
    Jobs,       \* the batches' frames, a sequence of sequences
    Arguments,  \* the arguments tried, see Init
    Installed   \* the frameworks that can be imported

Within(e) == e.from .. e.to - 1

(* What the code takes for granted: every frame of an episode has a vector of
   each feature, and the frames of a batch are frames of episodes. *)
AssemblyAssumption ==
    /\ Episodes \in Seq([from : Nat, to : Nat])
    /\ \A k \in DOMAIN Episodes : Episodes[k].from <= Episodes[k].to
    /\ \A f \in DOMAIN FeatureData : \A k \in DOMAIN Episodes :
          \A g \in Within(Episodes[k]) : FeatureData[f][g] \in Seq(Int)
    /\ Jobs \in Seq(Seq(Nat))
    /\ \A j \in DOMAIN Jobs :
          /\ Jobs[j] # <<>>
          /\ \A g \in Range(Jobs[j]) : \E k \in DOMAIN Episodes : g \in Within(Episodes[k])
    /\ \A a \in Arguments : \A name \in DOMAIN a.window : a.window[name] \in Seq(Int)

VARIABLES
    args,   \* batch_size, window, cameras, output, goal, normalize; buffer:
            \* what the build's decoder returns, "none" without a decoder
    made,   \* made[p]: "no", "yes" or "refused", for p in Paths
    built   \* built[p]: the answers to the calls of __next__ so far

assemblyVars == <<args, made, built>>

Paths == {"sync", "workers"}
Features == DOMAIN FeatureData
NoWindow == [none |-> <<>>]

Init ==
    /\ args \in Arguments
    /\ made = [p \in Paths |-> "no"]
    /\ built = [p \in Paths |-> <<>>]

-----------------------------------------------------------------------------
(* enable_normalization *)
Normalizable ==
    args.normalize # {} =>
        /\ Stats # NoStats
        /\ \A f \in args.normalize :
              /\ f \in DOMAIN Stats /\ Stats[f].mean # <<>>
              /\ Len(Stats[f].mean) = Len(Stats[f].std)

Refused(p) ==
    \/ args.batch_size = 0
    \/ args.output \notin {"numpy", "mlx", "torch", "jax", "numpy_zerocopy"}
    \/ args.goal /\ (args.window # NoWindow \/ p = "workers")
    \/ ~Normalizable
    \/ p = "workers" /\ args.output = "numpy_zerocopy"
    \/ p = "sync" /\ args.cameras # {} /\ args.buffer = "none"

(* dataset.loader(...): the same arguments, with and without workers. *)
Create(p) ==
    /\ made[p] = "no"
    /\ made' = [made EXCEPT ![p] = IF Refused(p) THEN "refused" ELSE "yes"]
    /\ UNCHANGED <<args, built>>

-----------------------------------------------------------------------------
(* apply_norm: a component without statistics keeps its value, a zero std
   counts as one. *)
Std(s, i) == IF i \in DOMAIN s /\ s[i] # 0 THEN s[i] ELSE 1
Normalized(f, v) ==
    IF f \notin args.normalize THEN v
    ELSE [i \in DOMAIN v |->
            (v[i] - (IF i \in DOMAIN Stats[f].mean THEN Stats[f].mean[i] ELSE 0))
            \div Std(Stats[f].std, i)]

EpisodeOfFrame(g) ==
    CHOOSE k \in DOMAIN Episodes : Episodes[k].from <= g /\ g < Episodes[k].to

deltas_for(name) ==
    IF name \in DOMAIN args.window /\ args.window[name] # <<>> THEN args.window[name] ELSE <<0>>

(* The frames that a window of `name` at frame g shows; without one, g. *)
StepsAt(name, g) ==
    LET e == Episodes[EpisodeOfFrame(g)]
        d == deltas_for(name)
    IN  [s \in DOMAIN d |-> IF g + d[s] < e.from THEN e.from
                            ELSE IF g + d[s] > e.to - 1 THEN e.to - 1 ELSE g + d[s]]

(* sample, windowed_sample: a vector for each step. *)
Vectors(f, g) == [s \in DOMAIN deltas_for(f) |-> Normalized(f, FeatureData[f][StepsAt(f, g)[s]])]

AllVectors(f, job) == FlattenSeq([k \in DOMAIN job |-> Vectors(f, job[k])])
Dim(f, job) == Len(AllVectors(f, job)[1])
ShapeOf(f, job) ==
    IF args.window = NoWindow THEN <<Len(job), Dim(f, job)>>
    ELSE <<Len(job), Len(deltas_for(f)), Dim(f, job)>>

Block(f, job) == [shape |-> ShapeOf(f, job), data |-> FlattenSeq(AllVectors(f, job))]

(* episode_index, one entry for each row. *)
EpisodeColumn(job) == [k \in DOMAIN job |-> EpisodeOfFrame(job[k])]

GoalOf(g) == Episodes[EpisodeOfFrame(g)].to - 1
GoalJob(job) == [k \in DOMAIN job |-> GoalOf(job[k])]

Recorded(c, g) == g \in DOMAIN PictureSize[c]
Missing(g) == \E c \in args.cameras : ~Recorded(c, g)
Picture(c, g) == <<c, g>>
Inconsistent(c, frames) == \E g \in Range(frames) : PictureSize[c][g] # PictureSize[c][frames[1]]
Convertible == args.output \in Installed \cup {"numpy", "numpy_zerocopy"}

Error == [kind |-> "error"]
Panic == [kind |-> "panic"]
Batch(features, goals, job, frames) ==
    [kind |-> "batch", features |-> features, goals |-> goals, frames |-> frames,
     episode_index |-> EpisodeColumn(job), output |-> args.output]

-----------------------------------------------------------------------------
(* Loader.__next__ *)

(* batch_to_dict, windowed_batch_to_dict: vectors of different lengths are an
   error. *)
Ragged(f, job) == \E v \in Range(AllVectors(f, job)) : Len(v) # Dim(f, job)

(* frames_for or, with a window, windowed_frames_for of every row. *)
Shown(c, job) ==
    IF args.window = NoWindow THEN job
    ELSE FlattenSeq([k \in DOMAIN job |-> StepsAt(c, job[k])])

(* One array of the batch, or with numpy_zerocopy a list of arrays, whose
   sizes may differ. *)
Stack(c, job) ==
    [shape |-> IF args.output = "numpy_zerocopy" THEN <<"list">>
               ELSE (IF args.window = NoWindow THEN <<Len(job)>>
                     ELSE <<Len(job), Len(deltas_for(c))>>) \o PictureSize[c][Shown(c, job)[1]],
     data |-> [k \in DOMAIN Shown(c, job) |-> Picture(c, Shown(c, job)[k])]]

SyncBatch(job) ==
    LET goals == IF args.goal THEN GoalJob(job) ELSE <<>>
    IN  IF \/ \E f \in Features : Ragged(f, job) \/ (args.goal /\ Ragged(f, goals))
           \/ \E c \in args.cameras : \E g \in Range(Shown(c, job)) : ~Recorded(c, g)
           \/ args.output # "numpy_zerocopy"
              /\ \E c \in args.cameras : Inconsistent(c, Shown(c, job))
           \/ ~Convertible
          THEN Error
          ELSE Batch([f \in Features |-> Block(f, job)],
                     IF args.goal THEN [f \in Features |-> Block(f, goals)] ELSE <<>>,
                     job, [c \in args.cameras |-> Stack(c, job)])

-----------------------------------------------------------------------------
(* BatchAssembler::assemble, then PrefetchLoader.__next__.  The vectors are
   concatenated whatever their length; ndarray checks their total. *)

(* Mutant: a window's steps are laid out step by step, not row by row. *)
WorkerBlockByStep(f, job) ==
    LET steps == DOMAIN deltas_for(f)
    IN  [shape |-> ShapeOf(f, job),
         data |-> FlattenSeq([s \in steps |->
                      FlattenSeq([k \in DOMAIN job |-> Vectors(f, job[k])[s]])])]

WorkerBlock(f, job) ==
    LET row(k) == FlattenSeq([s \in DOMAIN deltas_for(f) |-> Vectors(f, job[k])[s]])
    IN  [shape |-> ShapeOf(f, job), data |-> FlattenSeq([k \in DOMAIN job |-> row(k)])]

Fits(block) ==
    LET n == block.shape
    IN  Len(block.data) = IF args.window = NoWindow THEN n[1] * n[2] ELSE n[1] * n[2] * n[3]

(* The frames of the rows themselves, with a window too.  as_bytes panics on a
   hardware buffer: at the first row, unless that row is an error. *)
WorkerStack(c, job) ==
    [shape |-> <<Len(job)>> \o PictureSize[c][job[1]],
     data |-> [k \in DOMAIN job |-> Picture(c, job[k])]]

WorkerBatch(job) ==
    IF args.cameras # {} /\ args.buffer = "none" THEN Error
    ELSE IF args.cameras # {} /\ args.buffer = "iosurface" /\ ~Missing(job[1]) THEN Panic
    ELSE IF \/ \E g \in Range(job) : Missing(g)
            \/ \E c \in args.cameras : Inconsistent(c, job)
            \/ \E f \in Features : ~Fits(WorkerBlock(f, job))
            \/ ~Convertible
           THEN Error
           ELSE Batch([f \in Features |-> WorkerBlock(f, job)], <<>>, job,
                      [c \in args.cameras |-> WorkerStack(c, job)])

Build(p) ==
    /\ made[p] = "yes"
    /\ Len(built[p]) < Len(Jobs)
    /\ LET job == Jobs[Len(built[p]) + 1]
       IN  built' = [built EXCEPT ![p] =
                        Append(@, IF p = "sync" THEN SyncBatch(job) ELSE WorkerBatch(job))]
    /\ UNCHANGED <<args, made>>

(* Nothing is left to ask for. *)
Exhausted == \A p \in Paths : made[p] = "refused" \/ Len(built[p]) = Len(Jobs)

Next ==
    \/ \E p \in Paths : Create(p) \/ Build(p)
    \/ Exhausted /\ UNCHANGED assemblyVars

Spec == Init /\ [][Next]_assemblyVars
-----------------------------------------------------------------------------
(* The numbers of the calls that both paths answered. *)
Both == IF made["sync"] = "yes" /\ made["workers"] = "yes"
          THEN DOMAIN built["sync"] \cap DOMAIN built["workers"] ELSE {}

(* The doc of PrefetchLoader (lib.rs:917): it yields the same batch dicts as
   Loader. *)
SameBatches == \A k \in Both : built["sync"][k] = built["workers"][k]

(* Where they are known to differ: pictures with a window, pictures in
   hardware buffers, columns whose vectors differ in length. *)
KnownDifference(k) ==
    \/ args.cameras # {} /\ (args.window # NoWindow \/ args.buffer # "owned")
    \/ \E f \in Features : Ragged(f, Jobs[k])

(* Everywhere else the two implementations build the same batch, value by
   value and row by row, or both fail: normalisation, windows that reach over
   the ends of an episode, goals, pictures of several cameras, cameras that did
   not record an episode, pictures of two sizes in a batch. *)
BatchesAgree == \A k \in Both : KnownDifference(k) \/ built["sync"][k] = built["workers"][k]
=============================================================================
