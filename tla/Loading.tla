-------------------------------- MODULE Loading --------------------------------
(***************************************************************************)
(* The parts that find frames and go through an epoch of them, one per      *)
(* behaviour: they share no state, and `part` says which one it is about.   *)
(***************************************************************************)
EXTENDS Integers, Sequences

CONSTANTS Parts, Datasets, Windows, Ticks, Tolerance, rows, batch_size, Setups,
          Runs, chunk_size, shuffle_buffer, WeightUnit, MaxDraws,
          Episodes, FeatureData, Stats, NoStats, PictureSize, Jobs, Arguments, Installed,
          Plans, Downloads, Lists, InBucket, MetaFiles, MaxCrashes, Tags, MaxAppends

VARIABLES part, records, episodes, phase, frame, deltas, base, size, answer, subset,
          drop_last, bad, loader, cursor, jobs, consumed_rows,
          trained, saved,
          strategy, shuffle, out, stage, buf, next, run, off, chunks, i,
          args, made, built,
          plan, order, left, shares,
          local, opened, queue, fetching, writing, asked, broken, crashes,
          memory, root, dirs, pc, tag, appends, restarts, again

Index == INSTANCE FrameIndex
Epoch == INSTANCE EpochLoader
Order == INSTANCE EpochOrder WITH phase <- stage, args <- strategy
Assembly == INSTANCE BatchAssembly
Shares == INSTANCE EpisodeShares
Remote == INSTANCE RemoteShards WITH Requests <- Lists, todo <- queue
Versions == INSTANCE DatasetVersions WITH crashes <- restarts

indexVars == <<records, episodes, phase, frame, deltas, base, size, answer, subset>>
epochVars == <<drop_last, bad, loader, cursor, jobs, consumed_rows, trained, saved>>
orderVars == <<strategy, shuffle, out, stage, buf, next, run, off, chunks, i>>
assemblyVars == <<args, made, built>>
sharesVars == <<plan, order, left, shares>>
remoteVars == <<local, opened, queue, fetching, writing, asked, broken, crashes>>
versionsVars == <<memory, root, dirs, pc, tag, appends, restarts, again>>
vars == <<part, indexVars, epochVars, orderVars, assemblyVars, sharesVars, remoteVars,
          versionsVars>>

(* What the other parts start with does not matter: it is fixed. *)
Init ==
    /\ part \in Parts
    /\ IF part = "index" THEN TRUE ELSE records = CHOOSE d \in Datasets : TRUE
    /\ IF part = "epoch" THEN TRUE
       ELSE drop_last = FALSE /\ loader = "sync" /\ bad = {}
    /\ IF part = "order" THEN TRUE
       ELSE /\ shuffle = FALSE
            /\ strategy = [balanced |-> FALSE, chunked |-> FALSE, curriculum |-> FALSE]
    /\ IF part = "batch" THEN TRUE ELSE args = CHOOSE a \in Arguments : TRUE
    /\ IF part = "shares" THEN TRUE ELSE plan = CHOOSE p \in Plans : TRUE
    /\ Index!Init /\ Epoch!Init /\ Order!Init /\ Assembly!Init
    /\ Shares!Init /\ Remote!Init /\ Versions!Init

Others(mine) ==
    /\ part = mine /\ UNCHANGED part
    /\ mine # "index" => UNCHANGED indexVars
    /\ mine # "epoch" => UNCHANGED epochVars
    /\ mine # "order" => UNCHANGED orderVars
    /\ mine # "batch" => UNCHANGED assemblyVars
    /\ mine # "shares" => UNCHANGED sharesVars
    /\ mine # "remote" => UNCHANGED remoteVars
    /\ mine # "versions" => UNCHANGED versionsVars

Next ==
    \/ Others("index") /\ Index!Next
    \/ Others("epoch") /\ Epoch!Next
    \/ Others("order") /\ Order!Next
    \/ Others("batch") /\ Assembly!Next
    \/ Others("shares") /\ Shares!Next
    \/ Others("remote") /\ Remote!Next
    \/ Others("versions") /\ Versions!Next

Spec == Init /\ [][Next]_vars

(* What the frame index answers (FrameIndex.tla). *)
FrameFound == Index!FrameFound
WindowHonest == Index!WindowHonest
RunsAreEpisodes == Index!RunsAreEpisodes

(* What the iterators keep (EpochLoader.tla). *)
TrainedExactlyOnce == Epoch!TrainedExactlyOnce

(* What an order is (EpochOrder.tla). *)
ImplementsEpoch == Order!ImplementsEpoch
EveryFrameOnce == Order!EveryFrameOnce
HonoursStrategy == Order!HonoursStrategy

(* What a batch contains (BatchAssembly.tla). *)
BatchesAgree == Assembly!BatchesAgree
SameBatches == Assembly!SameBatches

(* What the ranks get (EpisodeShares.tla). *)
SharesCover == Shares!SharesCover

(* What downloads and versions leave on the disk (RemoteShards.tla,
   DatasetVersions.tla). *)
ShardsComplete == Remote!ShardsComplete
VersionsListed == Versions!VersionsListed
DiskConsistent == ShardsComplete /\ VersionsListed
=============================================================================
