----------------------------- MODULE FfmpegDecode -----------------------------
(***************************************************************************)
(* Decode by ffmpeg subprocesses behind the cache of decoded frames:        *)
(* FrameCache and FfmpegDecoder of crates/pyroboframes-core/src/decode.rs.  *)
(* The macOS fallback decoder is the same code with an -hwaccel flag.       *)
(*                                                                         *)
(* Frames are numbered in display order, the order ffmpeg writes them in.   *)
(* One video file; times are microseconds, those of the cache's key.        *)
(***************************************************************************)
EXTENDS Integers, Sequences, FiniteSets, SequencesExt

CONSTANTS
    Times,           \* Times[i]: when frame i is shown, in increasing order
    Keyframes,
    Cameras,
    Asked,           \* the timestamps callers ask for
    Batches,         \* the batches of them: functions from 1 .. n
    capacity_frames

Pictures == DOMAIN Times

FfmpegAssumption ==
    /\ IsFiniteSet(Pictures) /\ Pictures = 0 .. Cardinality(Pictures) - 1
    /\ \A i \in Pictures : Times[i] \in Int
    /\ \A i, j \in Pictures : i < j => Times[i] < Times[j]
    /\ 0 \in Keyframes /\ Keyframes \subseteq Pictures
    /\ Asked \subseteq Int /\ Batches \subseteq Seq(Asked)
    /\ capacity_frames \in Nat

VARIABLES
    dims,    \* width and height were probed
    index,   \* the frame index was probed
    lru,     \* the cache, [key, frame], most recent first
    answer,  \* what the last call returned, a sequence of frames or None
    asked    \* history: the timestamps it was for

ffmpegVars == <<dims, index, lru, answer, asked>>

None == <<>>
OutOfOutput == <<None>>
Far(n) == IF n < 0 THEN -n ELSE n
Least(S) == CHOOSE i \in S : \A j \in S : i <= j
Greatest(S) == CHOOSE i \in S : \A j \in S : j <= i

Init == dims = FALSE /\ index = FALSE /\ lru = <<>> /\ answer = None /\ asked = None

(* `ffmpeg -i file -ss t`: the first frame at or after t; past the last one
   it writes nothing, which decode_rgb24 reports as a short frame. *)
Seek(t) == {i \in Pictures : Times[i] >= t}
Decoded(camera, t) == [camera |-> camera, time |-> t, picture |-> Least(Seek(t))]

Capacity == IF capacity_frames >= 1 THEN capacity_frames ELSE 1

(* Mutant: the camera is left out of the key. *)
KeyOfFile(camera, t) == <<"", t>>

Key(camera, t) == <<camera, t>>

Hits(camera, t) == {i \in DOMAIN lru : lru[i].key = Key(camera, t)}

(* A hit moves to the front. *)
Hit(camera, t) ==
    \E i \in Hits(camera, t) :
        /\ lru' = <<lru[i]>> \o RemoveAt(lru, i)
        /\ answer' = <<lru[i].frame>>
        /\ asked' = <<[camera |-> camera, time |-> t]>>
        /\ UNCHANGED <<dims, index>>

(* The frame is decoded and cached, the least recent one evicted. *)
Miss(camera, t) ==
    /\ Hits(camera, t) = {} /\ Seek(t) # {}
    /\ dims' = TRUE
    /\ LET frame == Decoded(camera, t)
           all == <<[key |-> Key(camera, t), frame |-> frame]>> \o lru
       IN /\ lru' = SubSeq(all, 1, IF Len(all) > Capacity THEN Capacity ELSE Len(all))
          /\ answer' = <<frame>>
    /\ asked' = <<[camera |-> camera, time |-> t]>>
    /\ UNCHANGED index

(* ffprobe or ffmpeg fails, or writes a short frame: nothing is cached but
   what had been probed. *)
MissFails(camera, t) ==
    /\ Hits(camera, t) = {}
    /\ dims' \in {dims, TRUE}
    /\ answer' = None /\ asked' = None
    /\ UNCHANGED <<index, lru>>

get_or_decode(camera, t) == Hit(camera, t) \/ Miss(camera, t) \/ MissFails(camera, t)

-----------------------------------------------------------------------------
(* decode_batch: one ffmpeg run from the keyframe of the earliest target
   through the latest, the targets picked out by position. *)

Off(i, t) == Far(Times[i] - t)

(* The first of the nearest frames: Iterator::min_by. *)
nearest_sample_index(t) ==
    Least({i \in Pictures : \A j \in Pictures : Off(i, t) <= Off(j, t)})

keyframe_walkback(i) == Greatest({k \in Keyframes : k <= i})

(* Mutant: the span starts at the keyframe of the latest target. *)
SpanOfLatest(targets) ==
    LET start == keyframe_walkback(Greatest(targets)) IN
    [start |-> start, count |-> Greatest(targets) - start + 1]

Span(targets) ==
    LET start == keyframe_walkback(Least(targets)) IN
    [start |-> start, count |-> Greatest(targets) - start + 1]

(* `ffmpeg -ss start -i file -frames:v count` writes count frames, the
   keyframe first. *)
InOutput(span, i) == i - span.start \in 0 .. span.count - 1

decode_batch(camera, ts) ==
    LET target(t) == nearest_sample_index(t)
        span == Span({target(ts[r]) : r \in DOMAIN ts})
    IN  /\ ts # <<>>
        /\ dims' = TRUE /\ index' = TRUE
        /\ IF \A r \in DOMAIN ts : InOutput(span, target(ts[r]))
           THEN /\ answer' = [r \in DOMAIN ts |->
                      [camera |-> camera, time |-> ts[r], picture |-> target(ts[r])]]
                /\ asked' = [r \in DOMAIN ts |-> [camera |-> camera, time |-> ts[r]]]
           ELSE answer' = OutOfOutput /\ asked' = None
        /\ UNCHANGED lru

BatchFails == dims' \in {dims, TRUE} /\ index' \in {index, index \/ dims'}
              /\ answer' = None /\ asked' = None /\ UNCHANGED lru

Next ==
    \/ \E camera \in Cameras, t \in Asked : get_or_decode(camera, t)
    \/ \E camera \in Cameras, ts \in Batches :
          decode_batch(camera, ts)
    \/ BatchFails
-----------------------------------------------------------------------------
(* A cached frame is the one its decoder gives for that camera and time, so
   that a hit and a fresh decode cannot be told apart. *)
CacheTransparent ==
    \A c \in Cameras, t \in Asked : \A i \in Hits(c, t) : lru[i].frame = Decoded(c, t)

OnFrame(t) == \E i \in Pictures : Times[i] = t

(* "Verified pixel-identical to decode() in a loop": the one ffmpeg run writes
   every frame the batch needs, and a batch of timestamps that are frame times
   answers, request by request, what decode answers. *)
BatchMatchesDecode ==
    /\ answer # OutOfOutput
    /\ answer # None /\ (\A r \in DOMAIN asked : OnFrame(asked[r].time)) =>
         \A r \in DOMAIN asked : answer[r] = Decoded(asked[r].camera, asked[r].time)
=============================================================================
