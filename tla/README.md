# PyRoboFrames in TLA+

A model of PyRoboFrames, the dataloader for robot recordings (Rust core, PyO3
bindings, Python package), as TLA+ modules that TLC checks on small instances
and, for the core of the system, TLAPS proves for all of them.
`PROJECT.json` lists the components, the runs, the mutants that show each
property can fail, the source lines behind every definition, the hazards and
the theorems. This file says what is there, what it shows, and what is left.

Paths below are relative to the repository; `core/` stands for
`crates/pyroboframes-core/src/`, `py/` for `crates/pyroboframes-py/src/`, and
`python/` for `python/pyroboframes/`.

## 1. The system

A dataset is a directory: a schema (`meta/info.json`), an index of episodes,
tables of frames, and one video per camera and shard. A trainer opens it, asks
for a loader, and iterates over batches.

    info / episodes ---> FrameIndex ---> order of an epoch ---> Loader  ---------> trainer
      (files on disk)    (locate,        (sampler strategies)   PrefetchLoader        |
                          windows)                                  |                 | position, seek
                                                              Prefetcher: feeder,      v
                                                              workers, reorder     checkpoint
                                                                    |
                                                              decode (VideoToolbox, ffmpeg)
                                                                    |
                                                              frame / episode caches

Around that path sit services that share no state with it: metrics, live
streams, fault tolerance, cloud downloads, batch sizing, a coordinator of
nodes, feedback and decisions. Most are plain objects their caller drives.

### Inventory

| component | code | state | operations | what is hard | what makes it correct |
|---|---|---|---|---|---|
| prefetch pipeline | `core/pipeline.rs` | permits, jobs, results, reorder buffer, `next_seq` | `start`, `next_batch`, drop; feeder and worker threads | three bounded channels between N+2 threads, errors and panics of workers, drop in mid-epoch | every batch once, in order; bounded memory; no thread stuck |
| epoch order | `core/sampler.rs`, `core/loader.rs`, `py/lib.rs` | the order under construction | sequential, shuffle buffer, chunks, curriculum, weighted draws | off-by-ones at buffer and episode ends, ties, rounding of the draw | a permutation; chunks inside an episode; locality |
| frame index | `core/episodes.rs`, `core/loader.rs`, `core/window.rs` | sorted episode records, shard starts | open, `locate`, window, goal, split | files in any order, empty episodes, rounding and clamping | the right row of the right shard; no leak between episodes |
| loaders | `py/lib.rs` | cursor, consumed rows | `__next__`, `__len__`, `position`, `seek` | failing batches, crash and resume | each row trained on once per epoch |
| L1, L2 cache | `core/cache.rs` | frames, order, byte count; files and their list | get, put, clear | one lock per field; files outside any lock, those of failed writes and removals and of earlier processes | bounded, and everything cached can be evicted |
| episode cache | `python/episode_cache.py` | decoded episodes in LRU order, a thread | get, prefetch | decode outside the lock, overlapping prefetches | LRU; one copy per episode; one thread |
| native decoding | `core/videotoolbox_native.rs` | open file, session, frames by callback | `decode_at`, `decode_batch` | callbacks late or missing, frame reordering, corrupt samples and those that refer to them | the frame of the timestamp; no double decoding |
| ffmpeg decoding | `core/decode.rs` | probed index, cache of frames | `decode`, `decode_batch` | keys and index arithmetic | cache and batch invisible in the result |
| metrics | `core/metrics.rs` | two maps under two locks | record, get, get all, reset | lock order and re-entry | consistent reports; every call returns |
| live streams | `python/streaming.py` | ring of messages, place of the consumer | append, clear, `get_batches` | ring wraps while it is sliced | in order, no repeats |
| fault tolerance | `core/resilience.rs` | breaker state and counters, faults, slots | breaker `call`, reset; retry, fault detector, bulkhead | counters that outlive a state, callers around one breaker | opens and closes on runs of calls; retries bounded; slots counted |
| cloud downloads | `core/streaming.rs` | table of tasks, counters | start, part, pause, resume | calls in any order | counters agree with the table |
| batch sizing | `core/adaptive.rs` | the size | `adjust_batch_size` | one-sided clamps, priorities | stays in bounds, yields to pressure |
| distributed training | `python/distributed.py` | epoch, share of a rank, shards on disk | sampler, sharding, remote shards | padding, interrupted downloads, unwaited threads | ranks cover the episodes; shards whole |
| coordinator | `core/distributed.rs` | nodes, consensus history | register, on/offline, metrics, vote, elect | quorum and ties, what counts as a vote | consensus within the votes; a leader when one is active |
| feedback, decisions, ensemble, models, intelligence | `core/` | bounded histories, triggers, votes | record, trigger, aggregate, rank, execute, fit, predict | ends of windows, orders that run both ways, unsigned ages | the newest data decide; urgent first |
| split, random numbers | `core/split.rs`, `core/rng.rs` | none | split | rounding | disjoint, complete |
| versioning | `python/versioning.py` | two metadata files, directories | append, rollback | failure or crash between copies | a listed version is complete |
| anomaly, quality | `core/`, `python/quality.py` | times and scores of the past | detect, clear; assess, recommend | flags of one frame leaking into the next; trend read backwards | alarms when due, and only then |
| conversion of recordings | `core/mcap.rs`, `ros2.rs`, `rosbag.rs` | decoders, rows per topic, files | convert | decoders chosen once, types of columns, cursor arithmetic | tables hold what was sent |
| video files and routes | `core/videotoolbox_native.rs`, `core/decode.rs` | table of open files | open; decode by codec | box offsets; probes that fail | parameter sets found; one decoder per codec |
| synchronisation and alignment | `python/video_sync.py`, `sensor_fusion.py`, `dataframe.py` | none | match | gaps, ties | nearest within the window |
| readers and writers | `python/*` formats | none | read, write | byte formats | round trip |
| calibration, depth, transforms, adapters, MCP, messages | both | none | compute, format | numerics | - |

## 2. The modules

| module | models | kind |
|---|---|---|
| `EpochDelivery` | what the consumer of an epoch is promised | abstract specification |
| `Prefetch` | `core/pipeline.rs` | implements `EpochDelivery` |
| `PrefetchProofs` | theorems about `Prefetch` | proofs |
| `EpochPermutation` | what an epoch order is promised to be | abstract specification |
| `BufferedShuffle`, `ChunkOrder` | the two algorithms of `core/sampler.rs` with loops of their own | `BufferedShuffle` implements `EpochPermutation` |
| `EpochOrder` | `compute_order` with all strategies | implements `EpochPermutation` |
| `FrameIndex` | `core/episodes.rs`, `core/loader.rs`, `core/window.rs` | |
| `EpochLoader` | `Loader`, `PrefetchLoader` and a trainer that checkpoints | |
| `BatchAssembly` | what a batch contains, on the two paths that build one (`py/lib.rs`, `core/pipeline.rs`) | |
| `McapConvert` | `core/mcap.rs` and `core/rosbag.rs`, over `core/ros2.rs` | component |
| `EpisodeShares` | `core/split.rs`, `DistributedSampler` and `shard_episodes` | |
| `RemoteShards` | `RemoteDataset` of `python/distributed.py` | |
| `DatasetVersions` | `python/versioning.py` | |
| `L1Cache`, `L2Cache`, `EpisodeCache` | the caches | |
| `NativeDecode`, `FfmpegDecode` | the two decoders | |
| `VideoFile`, `VideoRoute` | opening a video; which decoder answers | |
| `Metrics`, `StreamBatches`, `CloudDownloads`, `BatchSizer` | services | |
| `CircuitBreaker`, `ResilientLoad` | `core/resilience.rs`; the second puts retry, detector and bulkhead around the first | |
| `Ensemble`, `Coordinator` | votes of models, votes of nodes | |
| `Feedback`, `Decisions`, `PerformanceModel`, `PredictiveCache` | what is learned, proposed, fitted, predicted | |
| `Anomaly`, `Quality` | `core/anomaly.rs`, `core/quality.rs` | |
| `Loading` | the parts that find frames and go through an epoch, side by side | composition |
| `LoadingProofs`, `OrderProofs`, `CachesProofs`, `DecodingProofs`, `ServicesProofs` | theorems about the components of `Loading` (two), `MCCaches`, `MCDecoding`, `MCServices` | proofs |
| `SequenceLemmas` | what these five need of least elements, remainders, filters, sums and sorts | lemmas |
| `MCLoading`, `MCCaches`, `MCDecoding`, `MCServices` | instances for TLC (`Prefetch` is small enough to be its own); `MCLoading` also adds the conversion of recordings to `Loading`, whose trees are recursive and would keep it out of the proofs | |

`Loading`, `MCCaches`, `MCDecoding` and `MCServices` put components that
share nothing side by side: a variable chosen at the start says which of them a
behaviour exercises, the others stand still. So they are one run each and no
product of state spaces.

### State and actions

**Prefetch.** `tokens`, `job_q` and `result_q` are the three channels; a
permit is taken by the feeder (`FeederTakesToken`), spent on a job
(`FeederSends`) and given back when the consumer takes a batch in its turn
(`ReturnBatch`). A worker builds its assembler (or fails to), claims a job,
assembles it and sends the outcome, or panics in between. `next_batch` is split
where it blocks: `CallNext`, then `ReturnBatch` from the reorder buffer, or
`ReceiveResult`, or `SendersGone`. Drop takes two steps, the result receiver
before the permit sender, in the order of the fields. Channels close when the last of their
senders or receivers is gone (`AllGone`, `ResultsOpen`, `TokensOpen`). A batch
is its number and a verdict: assembled, failed, or a panic.

**EpochOrder** is `compute_order`, which branches on the arguments and hands
over to `BufferedShuffle` (prime the buffer, emit and refill or swap-remove)
or `ChunkOrder` (cut, Fisher-Yates, flatten), sorts by episode length
(curriculum; ties stay as they were) or draws by weight. Every random number is any number.

**FrameIndex** loads the records and sorts them as a stable sort does, answers `locate` by the binary
search step by step, computes the row in the shard from the shard's smallest
start, and the window with its rounding, tolerance and clamp in ticks of a
frame. Selection of episodes yields the population and the runs `ChunkOrder` cuts.

**EpochLoader** has one action per kind of answer of `__next__` in both
classes, and the trainer that saves, crashes, and resumes with `seek`.

**L1Cache** and **L2Cache** take a step per critical section: `put` of L1 holds
its locks together, `clear` takes them one after the other; L2 writes the file
first and lists it later. A write of L2 may fail, in part or whole, and `put`
then returns before listing (`PutFails`); a removal may fail, and its error is
dropped (`Removes`); a cache opened over the directory of an earlier one lists
nothing of it (`Init`, `Reopen`). **EpisodeCache** separates lookup, decode outside the
lock, and insert, for callers and the background thread alike.

**NativeDecode** maps timestamps to samples, walks back to the keyframe or
resumes the batch's range, feeds sample by sample while callbacks push frames
at any moment, waits for as many as it fed, and picks. `Refers` says which
samples a sample is decoded from: it gives its whole picture if it and all of
these are sound and the run it is fed in has no gap; otherwise the decoder
reports an error or shows something damaged, either being possible. A call that
fails leaves its frames in flight. **FfmpegDecode** is the probe, the cache with its key in
microseconds, the seek of `decode` and the span and index arithmetic of
`decode_batch`.

**BatchAssembly** runs one list of jobs through both implementations: what
`loader` refuses, what `Loader` puts together (normalised columns, windows that
repeat the ends of an episode, goals, pictures per camera), what a worker does,
and where each of them raises. A picture is the camera and the frame it shows.

**VideoFile** walks the boxes of a file by their byte positions: chooses the
track, descends to the sample entry, reads the arrays of NAL units, then the
sample table. Headers declare any size: 0 and a 64-bit size below 16 are refused,
with 2 to 7 the content ends before it starts, on which a build with overflow
checks panics while another walks on inside the header (`Refused`, `Panics`). **VideoRoute** is the choice by probed codec, where any probe,
ffmpeg run or open may fail.

**McapConvert** reads a recording message by message: a decoder per topic,
chosen when the topic is first seen; a row per decoded payload; then a table per
topic with a type per column, and a manifest; a failure at any point, and a
second attempt over what is left. `decode_cdr` is the cursor that reads a payload
against a definition, and `Recorded` (external) the writer of a recorder.

**EpisodeShares** splits, samples and shards episodes for every rank.
**RemoteShards** is the local directory of a remote dataset with a thread per
`prefetch_episodes`: look, create, fill or die, and the end of the process
anywhere. **DatasetVersions** has an action per step of `append`, each of which
may raise, and a crash anywhere, which may cut a table short.

**Metrics** spells out every lock of every call; the lock itself is
`parking_lot::RwLock` (external): a waiting writer shuts out new readers,
re-entrant ones included. **StreamBatches** is the ring, the copy and the
slice. **CircuitBreaker**, **CloudDownloads** and **BatchSizer** have one
action per method; a reading of the resources is the set of those above their
limits. Sizes stay below 5000, where the doubles of the code round as integers do.
**ResilientLoad** puts `RetryPolicy`, `FaultDetector` and `BulkheadPattern`
around one breaker as the tests and the guide do: several callers, each with an
operation that may fail, in a slot.

**Ensemble** aggregates by each strategy in exact fractions, with the floor of a
likelihood, `exp(-10)`, as 1 / `Floor`; **Coordinator**
registers nodes, counts votes towards the quorum, arbitrates by variance and
elects by score. Votes that deviate by 0.15 exactly may go to arbitration or not: the
code compares doubles, and that of 0.50 and 0.80 is larger. **Feedback** keeps
the bounded histories and decides on retraining, next to the triggers of any
priority that are added by hand; **Decisions** proposes, ranks and executes; **PerformanceModel**
keeps the window of samples and fits it; **PredictiveCache** keeps the accesses
and ranks what to prefetch. **Anomaly** runs its checks in the order of the
code over times that may go backwards; **Quality** scores, recommends and reads
the trend. They have one action per method that changes state, and operators
for those that answer.

## 3. The runs

| run | question | instance | expected |
|---|---|---|---|
| `prefetch` | does the pipeline keep the promise of an epoch, liveness included? | 2 workers, 6 batches, prefetch 0 (raised to 2), batch 1 fails, builds may fail, drop at any time | pass |
| `prefetch_panic` | what remains true when workers panic? | 2 workers, 5 batches, prefetch 3, batches 1 and 3 panic | pass |
| `prefetch_panic_hang` | does `next_batch` return after a panic? | 4 batches, batch 1 panics | **violation** |
| `loading` | is the way from the files to the trainer sound? | eight parts, below | pass |
| `epoch_loader_prefetch_resume` | does `PrefetchLoader.position` survive an error? | 17 rows, row 3 bad | **violation** |
| `loader_same_batches` | are the batches with workers those without? | 3 episodes, 4 jobs | **violation** |
| `caches` | are the caches bounded, evictable, shared? | 2 threads, 3 frames of 1-2 bytes in 3 bytes, 5 puts; 3 files in a list of 2, writes and removals that fail, directories with files; 4 episodes, 2 in RAM, 2 prefetches | pass |
| `l1_clear_race` | is the L1 bound kept while `clear` runs? | the same, 4 puts | **violation** |
| `decoding` | is it the right picture, from the right decoder, cached or in a batch? | four parts, below | pass |
| `native_late_frame` | also after a call that timed out? | the same | **violation** |
| `services` | do the services keep their books? | fourteen services, below | pass |
| `metrics_deadlock` | does every metrics call return? | 2 threads, 1 name, `record` and `get_all` | **violation** |

The parts of `loading`, each with its properties:

| part | instance | properties |
|---|---|---|
| index | 3 episodes in 1-3 shards, all orders of records, 4 windows | `FrameFound`, `WindowHonest`, `RunsAreEpisodes` |
| epoch | 17 rows in batches of 2, checkpoints and crashes anywhere, row 3 bad or none | `TrainedExactlyOnce` |
| order | 4 episodes (lengths 3, 0, 1, 3), chunks of 2, buffer of 3, 3 draws | `ImplementsEpoch`, `EveryFrameOnce`, `HonoursStrategy` |
| batch | 3 episodes, 6 frames, ragged columns, two cameras of which one changes its size and one stops recording | `BatchesAgree` |
| convert | up to 3 messages of a pool in either format: damaged, unreadable, nested, untyped, of clashing names or channels | `TablesFaithful` |
| shares | up to 4 episodes, up to 5 ranks, all flags | `SharesCover` |
| remote | 2 download threads over overlapping lists, 1 restart, downloads that die | `DiskConsistent` |
| versions | 3 appends of 2 tags, rollbacks, 2 restarts, any step raising | `DiskConsistent` |

The parts of `decoding`: native (4 samples in 2 GOPs, reordered, those of the
first referring to each other, 1 corrupt, batches up to 3: `PictureOfTarget`, `NoRedecode`), ffmpeg (5 frames, cache of
2: `CacheTransparent`, `BatchMatchesDecode`), file (tracks of sound, H.264 and
HEVC in two layouts, cut at five places, or with a box of size 0, 2 or 7 or of a
64-bit size of 0 or 15 at one of nine places: `ParameterSetsFound`), route (a file
per codec, batches up to 2: `AnsweredByItsCodec`).

The services: metrics (`ReportsConsistent`, `CallsReturnWithoutAll`), stream (7
messages in a ring of 5: `StreamInOrder`), breaker (7 calls) and load (2
callers, 2 retries, 2 slots) (`FaultsContained`), cloud (3 files, 2 at a time:
`ActiveCounted`), sizer (6 to 24: `SizeWithinBounds`), ensemble and coordinator
(2 models, 3 predictions, a floor of 1/100; 2 nodes, a third unregistered voter,
quorum 2, ballots 0.30 apart among others: `ConsensusSound`), feedback (history of 3, 5 calls, triggers by hand), model (window of 4, fit
every 2) and predictive (history of 4) (`LearnsFromNewest`), decisions (3:
`UrgentFirst`), anomaly (4 frames) and quality (6 assessments)
(`AlarmsJustified`).

A property that joins two components (`DiskConsistent`, `HonoursStrategy`,
`EveryFrameOnce`, `ConsensusSound`, `LearnsFromNewest`, `AlarmsJustified`,
`FaultsContained`) has a mutant for each of them.

**Why these bounds are enough for the cases that matter.** Two workers reorder
results, three batches in flight make the buffer hold more than one, and six
batches turn over the permits three times; the proofs lift the safety part to
any number. Chunk and buffer sizes divide neither the episodes nor the
population, and an empty episode sits in the middle. Cache capacities force an
eviction of none, one and several entries by one put. Two GOPs with frames
shown out of decode order give every relation between two requests: same
sample, same GOP before and behind, another GOP. The ring is smaller than the
stream, so it wraps under the consumer. A history of three with five calls evicts;
two downloads share a file, and one restart falls into either; a directory of L2
starts with any of the files, so a put meets its own left behind; three appends of
two tags repeat one. A fifth rank over four episodes makes the padding wrap. `Floor` is 100 in the run,
for the products to stay within TLC's integers; the theorem holds for any. The
rounding of doubles is left out but where an answer hangs on it, at a deviation
of 0.15 itself.

**Named bounds.** `MaxPuts`, `MaxPrefetches`, `MaxFailures`, `MaxRecords`,
`MaxLog`, `MaxParts`, `MaxDraws`, `MaxAttempts`, `MaxCrashes`, `MaxAppends`,
`MaxBatch`, `MaxPredictions`, `MaxOutcomes`, `MaxConsensus`, `MaxCalls`,
`MaxClock`, `MaxDecisions`, `MaxFrames`, `MaxAssessments`, `MaxSamples` and
`MaxAccesses` end runs the code would let go on; each stands in the guard of the
action it bounds.

**Deadlock** is checked, except in `prefetch_panic` and `prefetch_panic_hang`
(a dead pipeline stands still, which is what those runs are about) and in the
two runs of `MCServices`, where calls, messages and the log are bounded and
threads of the metrics may block for good. In `MCLoading` the parts that come to
an end (conversion, shares, downloads, versions) stutter there (`Ended`).

### Fairness

- `Prefetch`: weak fairness of the feeder, of each worker, of a consumer inside
  `next_batch` and of the drop under way. These are threads of the operating
  system which block only on channels, and a channel with one reader or one
  writer waiting serves it. Calling `next_batch` and starting to drop are up to
  the caller and not fair. A worker's panic is part of its fair step: an
  assembly ends one way or another.
- `Metrics`: strong fairness of each thread inside a call. `parking_lot` locks
  are task-fair: whoever waits is served in its turn, though the lock be taken
  and freed over and over. The deadlock found does not depend on it: the
  threads are blocked for good.

No other run claims liveness.

### What the violations show

- **`prefetch_panic_hang`** The comment in `next_batch` (`core/pipeline.rs:304`)
  says a worker panic ends the epoch. It does only when every worker is gone. The
  permit of the lost batch is never returned and its number never arrives: the
  consumer, the feeder and the live workers wait for each other.
- **`epoch_loader_prefetch_resume`** `PrefetchLoader` counts rows of batches
  handed out; a batch whose error was raised is not counted, so `position` falls
  behind the place in the epoch, and a resume trains again on rows already seen.
- **`loader_same_batches`** With a temporal window `Loader` stacks the pictures of
  the window, the workers decode the row's own picture only
  (`core/pipeline.rs:150`), although "the same batch dicts" are documented
  (`py/lib.rs:917`). They also accept ragged columns whose total fits and panic on
  hardware buffers. `BatchesAgree` says that there is no other difference.
- **`l1_clear_race`** `L1Cache::clear` frees map, order and counter one after
  the other; a `put` in between leaves a frame without a slot or bytes that are
  not counted, and the cache holds more than its capacity.
- **`native_late_frame`** A frame that arrives after its call timed out is
  counted among the next call's frames, which may then return before its own
  frame has come, with a neighbour's picture.
- **`metrics_deadlock`** `get_all_metrics` keeps its read guard while
  `get_operation_metrics` takes another; a `record_operation` that waits in
  between makes both wait forever.

### Seen while modelling, not a run of its own

- All workers panicked: `next_batch` returns `Ok(None)`, as at the end of the
  epoch, while finished batches may still be in its reorder buffer.
- `L1Cache` is documented as LRU (`core/cache.rs:24`) but `get` does not move a
  frame (`:48`): it evicts in order of insertion. Replacing a frame counts its
  new bytes without subtracting the old (`:78`), so it evicts early.
- `L2Cache`: putting a frame again lists it twice, and the eviction of the
  older entry removes the file of the newer (`core/cache.rs:139`). No property
  covers it: `NoOrphanFiles` is about the other direction. Files of an earlier
  process and of a write that failed are never evicted nor cleared (`:111`, `:131`).
- `EpisodeCache.prefetch`: overlapping calls start two threads although one at
  a time is documented (`python/episode_cache.py:94-97`); `OnePrefetchThread`
  therefore excludes overlaps, and no property covers them.
- ffmpeg: `decode` takes the first frame at or after the timestamp, the batch
  and the documentation the nearest (`core/decode.rs:704`, `:159`);
  `BatchMatchesDecode` compares them at frame times.
- Native: a corrupt sample, or one that refers to it, silently gives a neighbour's
  frame or a damaged one in `decode_at`; a batch that resumes may fail there instead. A sparse batch may feed more
  samples than separate calls would, as it resumes across GOPs.
- `get_batches` compares positions in the ring with a count of all messages:
  once the ring is full, no batch comes any more (`python/streaming.py:276`).
- `CloudStreamer` removes no task, so `parallel_downloads` limits the files
  ever started (`core/streaming.rs:111`).
- Loaders: `PrefetchLoader` counts the rows of a batch before it converts it, so a
  conversion that raises has counted them (`py/lib.rs:941`).
- Video files: a last box of size 0, which ISO/IEC 14496-12 lets extend to the end
  of the file, is refused, so an intact file with one does not open (`core/videotoolbox_native.rs:196`);
  a size from 2 to 7 panics where overflow is checked (`core/videotoolbox_native.rs:201`).
- ffmpeg: times within a microsecond share a key of the cache (`core/decode.rs:243`);
  the model's times are whole microseconds.
- AV1: a probe runs for every frame although a comment says its answer is kept
  (`core/decode.rs:363-366`).
- Distributed training: with padding, or episodes of unequal length, neither "no
  overlap" nor lockstep of the ranks holds; `SharesCover` says what does. A shard
  cut short by a download that died is never fetched again.
- Versions: `append` copies from the root, so a version lacks the episodes of the
  version before it; a second append of a tag takes its directory apart; a table
  cut short makes the constructor raise for ever.
- Recordings: topics whose names sanitize alike overwrite one file; keys with a dot
  collide with nested ones; a topic keeps the decoder of its first channel; bounded
  arrays, documented (`core/ros2.rs:6`), are read as constants and skipped, which
  misplaces what follows; alignment counts from the 4-byte header. `Unambiguous`
  excludes these.
- Services: `aggregate_predictions` keeps what it took, although a comment says
  otherwise (`core/ensemble.rs:374`); the weight and the enabled flag of a model
  play no part in the vote; a quorum counts votes of nodes never registered;
  `execute_decision` takes any id; a release without a slot frees another's; a
  back-off may exceed its cap by the jitter; a full window of the performance
  model refits on every sample; `PredictiveCache` keeps a frame's oldest place in the
  window, not its newest (`core/intelligence.rs:179-200`); unsigned differences in
  `core/quality.rs:95`, `core/anomaly.rs:117-123` and `core/feedback.rs:367` wrap
  when a clock or a count runs backwards.
- A half-open breaker tolerates as many failures as a closed one; batch sizes of 9
  and below never grow again, `floor(9 * 1.1)` being 9.

## 4. The proofs

`PrefetchProofs` proves for any finite, non-empty set of workers, any number of
batches, any prefetch argument and any failing or panicking batches (`PrefetchAssumption`):

| theorem | statement | argument |
|---|---|---|
| `TypeCorrect` | `[]TypeOK` | `TypeInv`: the types, a feeder about to send has a batch left, and a worker at work holds a batch |
| `PermitsCorrect` | `[]PermitsConserved` | inductive with `TypeInv`: a permit is in the channel, in the feeder's hand, or is a batch dispatched and not returned |
| `NothingLostCorrect` | `[]NothingLost` | inductive with `TypeInv`; lemmas on what appending to and taking from a queue does to its contents |
| `DeliveredInOrderCorrect` | `[]DeliveredInOrder` | needs that every result in the queue and the buffer carries the outcome of its own batch |
| `BackpressureCorrect` | `[]Backpressure` | `FlightInv`: what is queued, assembled and buffered never outnumbers the batches dispatched and not returned, and those are at most the permits |
| `EndCorrect` | without panics, `None` only after the whole epoch | needs that a worker that exits leaves nothing behind: jobs closed and empty |
| `PrefetchImplementsDelivery` | without panics, `Spec => EpochDelivery!Spec` | initial states and steps map to those of the abstract specification or stutter, by the invariants above |

None of these invariants but `PermitsConserved` and `NothingLost` is inductive by
itself, and those need the types: a receive moves the head of a queue, and only its type says which batch
that is. `Backpressure` is a bound on a sum of cardinalities, and follows only
with the number of batches dispatched as the middle term. Each invariant has a lemma per group
of actions (feeder, worker, consumer), and a temporal step that puts them together.

The other five proof modules extend the composition their properties are defined
in, so each theorem is about its `Spec`. A lemma on top (`Steps`, `…Steps`) turns
a step of the composition into a step of one component or a stutter; below it
the component has its invariant, a lemma per action, and the theorem. The
assumptions are those of the component's module; `MCCaches`, `MCDecoding`,
`MCLoading` and `MCServices` check them for the instances.

**`LoadingProofs`**

| theorem | for | argument |
|---|---|---|
| `FramesFound`: `[]FrameFound` | any datasets (`IndexAssumption`), any order of their records | `InOrder`: the stable sort lists the records, all of them, each ending before the next starts, empty ones in front of the one they share a start with. `Bisected`: the number searched is neither before `base` nor from `base + size` on. A shard without a gap makes the row the distance from its smallest start |
| `WindowsStay`: `[]WindowHonest` | any windows, rate, tolerance | `RoundsNear`: rounding half away from zero is off by half a frame at most; `NearestKept`: clamping into the episode keeps the nearest of its frames the nearest |
| `RunsStayEpisodes`: `[]RunsAreEpisodes` | any datasets, any wanted episodes in any order (`IndexAssumption`) | the frames of the wanted records, joined in the order of the index, are increasing already, so the sort changes nothing (`SortedIncreasing`), and a frame is among them just when its episode is wanted. `pos` has the ends of the parts (`JoinsPlaces`): each run is the part of one episode, and the last ends where the population does |
| `LoadersAgree`: `[]BatchesAgree` | any episodes, features, statistics, windows, frames of a batch (`AssemblyAssumption`) | rows flattened one by one and joined are the rows joined and then flattened (`FlattenTwice`); when no vector is ragged the workers' total fits its shape; so block by block both paths have the same values, shape and errors (`SameBlock`, `PathsAgree`), and the answers given so far are those of the jobs so far (`AssemblyInv`) |
| `ResumesExactly`: `[]TrainedExactlyOnce` | any rows, size of a batch, failing rows, crashes and resumes (`LoaderAssumption`), `PrefetchNeverFails` | a place is always a boundary of a batch or the end, and the rows trained are those before it that are not in a failing batch (`Seen`). The jobs left are those from the place on (`JobsFrom`); that there are such jobs is shown from the end backwards |
| `DiskStaysConsistent`: `[]DiskConsistent` | any bucket, lists, threads, restarts (`ShardsAssumption`); any tags, appends, rollbacks, failures | downloads: a torn file is being written or its download died; what a thread has left is the end of its list (`PassedOnDisk`), and all before it is on the disk, from where no step takes it. Versions: the table in memory keeps the property too, for it is what will be on the disk; a tag appended for the first time is in no table when its directory is emptied |

`PrefetchNeverFails` is a hypothesis because the code needs it: a `PrefetchLoader`
that raises an error loses its place, which `epoch_loader_prefetch_resume` shows. `WrittenInRow`,
the part of `IndexAssumption` about a dataset, is what a writer of LeRobot datasets
leaves; without it two episodes could claim a frame, or two records with one start
be sorted either way. `AssemblyAssumption` is what the iterators pass on: a batch has
at least one frame, all of them of episodes, and a frame has a vector of each feature.

**`OrderProofs`**

| theorem | for | argument |
|---|---|---|
| `FramesOnce`: `[]EveryFrameOnce` | any runs of frames, sizes of chunks and buffer, draws (`OrderAssumption`) | shuffle: what was read is in the order or the buffer, once (`ReadOnce`), and the buffer is full while there is something to read (`BufferFull`). Chunks: those cut so far are pieces of one run each and lie in a row up to the place of the cut; a swap permutes them; flattened, a row of intervals has every position once. Curriculum: a sorted permutation of episodes that do not overlap |
| `StrategiesHonoured`: `[]HonoursStrategy` | the same (`OrderAssumption`) | the sort selects, so neighbours are never easier than the one before; of the prefix sums of the weights, which exist and grow, each draw falls between just one pair, and the numbers between a pair are as many for every episode |
| `ShuffleImplementsEpoch`: `Spec => ImplementsEpoch` | the same | each step appends a position not yet in the order and less than a buffer ahead, or stutters |
| `SharesCoverAll`: `[]SharesCover` | any plans: episodes, ranks, fraction, shuffles (`SharesAssumption`) | the order is all episodes, each once, whatever the exchanges. An episode's times are its spots in the shares: slices of one length, or strides, have each position once (`SliceOnce`, `SliceTaken`), sorting moves each element to a place of its own (`SortedIs`), and going around the order no episode comes twice more often than another (`TurnsAreEven`) |

**`CachesProofs`**

| theorem | for | argument |
|---|---|---|
| `L1StaysBounded`: `[](WithinCapacityUnraced /\ Evictable)` | any frames, sizes, capacity, threads (`L1Assumption`) | the bytes held are the cardinality of a set of (frame, byte) pairs; they never exceed what is counted, a frame in the map has a slot, and while a `clear` is under way the map is empty. Evicting down the slots stops before the map is empty or with nothing in it |
| `L2ListsItsFiles`: `[]NoOrphanFiles` | any frames, threads, limit, failing writes and removals (`L2Assumption`) | a file without an entry belongs to a put between its two steps, or was left by an earlier cache, a failed write or a failed removal since which no put has listed its frame; a removal that succeeds takes the file with its entry |
| `EpisodesInOrderOfUse`: `[](LeastRecentFirst /\ SharedCopy)` | any episodes, callers, lists (`EpisodeAssumption`) | the history variable `recency` relates every two cached episodes one way only, so none is cached twice, and a decode that lost the race takes the copy it finds |
| `PrefetchThreadAlone`: `[]OnePrefetchThread` | the same | while calls do not overlap, who is inside `prefetch` has seen the last thread dead |

**`DecodingProofs`**

| theorem | for | argument |
|---|---|---|
| `RequestsGetTheirPicture`: `[]PictureOfTarget` | any samples, references within a GOP, corrupt samples, requests, callbacks (`NativeAssumption`) | `UnbrokenRun`: the samples since a keyframe were fed without a gap, also where a batch resumes; `OwnFrames`: every frame that is not late is of the range being fed, one per sample, and whole when the sample and all it refers to are sound; `AllArrived`: as many frames as samples fed, none twice, are all of them |
| `SamplesFedOnce`: `[]NoRedecode` | the same | `FedBehind`: the requests left are sorted and ask for samples behind all that were fed |
| `CachedFramesAreFresh`, `BatchesMatchDecode`: `[]CacheTransparent`, `[]BatchMatchesDecode` | any video, capacity, requests (`FfmpegAssumption`) | a cached frame is that of its key, and at the times of frames the key tells them apart; the span of a batch covers the nearest picture of each request, whose index in the span is that of the picture |
| `CallsAnsweredByCodec`: `[]AnsweredByItsCodec` | any files, batches, failures (`RouteAssumption`) | what is decoded and what is left make up what was asked, and only an AV1 file is ever half done, so the native decoder, which takes all that is left, starts from nothing |

**`ServicesProofs`**

| theorem | for | argument |
|---|---|---|
| `FaultsAreContained`: `[]FaultsContained` | any callers, slots, retries, thresholds (`ResilienceAssumption`, `BreakerAssumption`) | the counters of the breaker are read off its log: the run of failures it ends with, and the successes of this trial, none left from an earlier one. A caller's runs, attempts and delays go together (`Attempted`, `BackedOff`); the slots taken are those of the callers inside; the doubling back-off is a power of two up to its cap |
| `BreakerTripsAndRecovers`: `[]TripsAndRecovers` | any thresholds | the first part of it |
| `ReportsAreConsistent`: `[]ReportsConsistent` | any threads and names (`MetricsAssumption`) | a thread's place says which guards it has; a writer is alone with the operations until it has written the latencies too, so what a reader has seen of one still holds when it reads the other |
| `AlarmsAreJustified`: `[]AlarmsJustified` | any frames, times, measures (`AnomalyAssumption`, `QualityAssumption`) | the detector remembers the time of every frame, flagged or not. Every term of a score falls as its measure gets worse, and none leaves 0 to 100; the trend is a sum of changes that telescopes to newest less oldest |
| `StreamsComeInOrder`: `[]StreamInOrder` | any topics, buffer, batches (`StreamAssumption`) | the buffer is the newest messages without a gap, the copy that is cut is too, and what was handed out lies before the consumer's place in that copy, wherever the ring has moved since; what `_align_messages` keeps of a batch is named by its positions (`Picks`) |
| `MostUrgentFirst`: `[]UrgentFirst` | any measurements (`DecisionsAssumption`) | the number of a decision is its place, so ids differ; in a total order the number of elements not behind one is its place, every place is taken, and a set ahead of the rest has the first ones (`PlacesOfAnOrder`) |
| `LearnsFromTheNewest`: `[]LearnsFromNewest` | any feedback, triggers by hand, ages, samples, accesses, sizes of histories (`FeedbackAssumption`, `ModelAssumption`, `CacheAssumption`) | feedback: the records held are numbered upwards (`Holds`), so the one pushed out is max_history behind the newest, and a cleared one is among the aged; a call's grounds are what its records were fed with, and a trigger no call raised was added by hand, whatever its priority. Model: after each fit the window is the end of all samples. Cache: the history is the end of all accesses, never shorter than the window (`EndOfAll`) |
| `ConsensusIsSound`: `[]ConsensusSound` | any models, predictions, floor, nodes, ballots, quorum (`EnsembleAssumption`, `CoordinatorAssumption`) | what holds of each vote, linearly, holds of the sums (`SumsCompare`), so a mean by weight is within the votes, and a product of likelihoods no more than one of them, which is the confidence or the floor. Squares add to nothing when each is nothing. Of votes less than 0.30 apart the deviation is under 0.15, where rounding does not matter: the variance is at most a quarter of the square of the width (Popoviciu), and of two equal camps it is exactly that |
| `ActiveIsCounted`: `[]ActiveCounted` | any finite set of files, limit, parts (`CloudAssumption`) | the counter moves just when a file enters or leaves the unfinished ones |
| `SizeStaysWithinBounds`: `[]SizeWithinBounds` | any bounds from 1 to 4999 (`SizerAssumption`) | a reduction never raises a size and an increase never lowers one, so the bound the code does not look at is kept too |

Induction over numbers, where an argument needs it (the jobs of an epoch, the
sums, the products, the powers of two, the sort, what a filter keeps), goes through
`LeastElement` of `SequenceLemmas`: a set of naturals with an element has a least
one, by the well-foundedness of `<`. A recursive function is then any function
that satisfies its equation, which the same induction shows to exist: `Kept` is
the loop of a filter and `Picks` what it computes, for `SelectSeq` itself and
the folds are beyond the provers. Likewise `Sums` are those of a row of numbers and
`Joins` the sequences of a row joined, which is what `FlattenSeq` computes; `SortSeq`, which has
no definition the provers can expand, is `Sorted` of `FrameIndex`. The models are written with such loops where a proof needs them.

Attempts that failed corrected the models: the first back-off may be zero, a
caller must not be the model value that stands for no thread (`Nobody`), and
`Load` of `FrameIndex` has to say how it orders records with one start; a
ballot of no votes, which a quorum of none admits, has no mean to be within it.

**Model-checked only.** `TablesFaithful` and `ParameterSetsFound` are about
recursive operators (trees of fields, boxes in boxes), which is induction over
data. The liveness of the pipeline (`ImplementsLiveDelivery`,
`WindsDown`) and of the metrics (`CallsReturnWithoutAll`) is out of the prover's reach.

## 5. What is not modelled

`PROJECT.json` names every component with the reason. In short: third-party
readers and byte formats other than MP4 boxes and CDR (conversions and I/O),
image arithmetic and geometry (floating point), framework adapters and text (no
state). Within modelled components: pixels and tensors, file contents, the
parsing of mp4 sample tables beyond the parameter sets, protobuf and the text of
a definition, the retry and byte counters of downloads, peaks of resources,
statistics of pixels, evaluation of a fitted model, broker connections, and the
file of `DatasetManifest`.

## 6. Plan

The project keeps to a dozen runs and about forty properties: a new component
joins the composite instance it is closest to, and a shallow property gives
way to a deeper one.

1. **Proofs.** `ParameterSetsFound`, with the walk through the boxes written as a
   loop over their bytes instead of a recursion over their contents.
2. **What is left of the services**: MQTT and Kafka connections around
   `StreamBatches`, `DatasetSelector`, `ResourceMonitor`, the counters of
   `CloudStreamer` and its regions.
3. **Decoding**: `FramePool` and the pipes of ffmpeg, with the end of a process
   between two reads.
4. **Algorithms as operators**: nearest-frame and as-of alignment, delta and
   run-length coding, lazy row groups.
