------------------------------ MODULE MCDecoding ------------------------------
(* The decoders and what is around them, one per behaviour.                    *)
(*                                                                             *)
(* Native: four samples in two GOPs - a keyframe, a picture predicted from it  *)
(* and one between the two, another keyframe - shown in another order than     *)
(* decoded and from time 1 on, at most one of them corrupt; batches of one to  *)
(* three requests, out of order and with repetitions, of which one may fail.   *)
(*                                                                             *)
(* ffmpeg: five frames in two GOPs, asked for at frame times and between them, *)
(* with room for two in the cache.                                             *)
(*                                                                             *)
(* Files: tracks of sound, H.264 and HEVC in the two kinds of times and sizes, *)
(* with parameter sets in split arrays among others, short or missing; whole   *)
(* files, files cut at five places, and files with a box of size 0, 2 or 7 or  *)
(* of a 64-bit size of 0 or 15 at one of nine places.                          *)
(*                                                                             *)
(* Route: a file of each codec, batches of up to two frames.                   *)
EXTENDS Integers, Sequences, FiniteSets, SequencesExt, TLC

CONSTANTS MaxFailures, Pts, Sync, Refers, NativeBatches, Cameras, Times, Keyframes, Asked, FfmpegBatches,
          capacity_frames, Parts, Videos, Codec, Timestamps, MaxBatch, Builds

VARIABLES decoder, corrupt, opened, chain, flying, collector, pc, targets, todo,
          request, from, at, next_undecoded_idx, results, fed, refed, stale,
          failures, dims, index, lru, answer, asked,
          video, track, place, trak, box, cursor, sets, sample_index,
          has_ffmpeg, files, av1_dims, call, frames

Shown == <<1, 3, 2, 4>>
ShownAt == [i \in 0 .. 3 |-> Shown[i + 1]]
References == [i \in 0 .. 3 |-> CASE i = 1 -> {0} [] i = 2 -> {0, 1} [] OTHER -> {}]
Requests == {<<0>>, <<2>>, <<0, 1>>, <<3, 2>>, <<3, 1, 3>>, <<2, 0, 1>>}

FrameTimes == [i \in 0 .. 4 |-> 3 * i]
Queries == {<<0>>, <<6, 1>>, <<9, 12, 9>>, <<12, 0, 6>>}

Native == INSTANCE NativeDecode WITH Batches <- NativeBatches
Ffmpeg == INSTANCE FfmpegDecode WITH Batches <- FfmpegBatches
File == INSTANCE VideoFile WITH at <- place
Route == INSTANCE VideoRoute

ASSUME Native!NativeAssumption /\ Ffmpeg!FfmpegAssumption /\ Route!RouteAssumption

(* The muxer, ISO/IEC 14496-12.  A piece of a file is its length and, by
   position, the headers and the fields that are read in it. *)
Shift(f, n) == [p \in {q + n : q \in DOMAIN f} |-> f[p - n]]

Empty == [len |-> 0, heads |-> <<>>, fields |-> <<>>]
Then(a, b) == [len |-> a.len + b.len,
               heads |-> a.heads @@ Shift(b.heads, a.len),
               fields |-> a.fields @@ Shift(b.fields, a.len)]
Header(fourcc, size, largesize) == [fourcc |-> fourcc, size |-> size, largesize |-> largesize]
Box(fourcc, wide, content) ==
    LET h == IF wide THEN 16 ELSE 8
        head == IF wide THEN Header(fourcc, 1, h + content.len)
                        ELSE Header(fourcc, h + content.len, 0)
    IN  Then([len |-> h, fields |-> <<>>, heads |-> 0 :> head], content)

(* A box with a size that is none.  Below 8, the walk goes on inside the header
   (8 bytes, the last four letters): what it reads there as a size is 2^17 at
   least, more than any file here has. *)
Odd(fourcc, size, largesize) ==
    [len |-> 32, fields |-> <<>>,
     heads |-> (0 :> Header(fourcc, size, largesize))
               @@ (IF size > 1 THEN size :> Header("none", 2^17, 0) ELSE <<>>)]
Bytes(n, fields) == [len |-> n, heads |-> <<>>, fields |-> fields]
All(pieces) == FoldLeft(Then, Empty, pieces)

(* hvcC, ISO/IEC 14496-15: arrays of NAL units, each with its length; a short
   record ends before its last byte. *)
NalBytes(n) == Bytes(2 + n.len, (0 :> n.len) @@ (2 :> n))
Record(t) ==
    LET r == All(<<Bytes(23, (21 :> t.nal_length - 1) @@ (22 :> Len(t.arrays)))>>
        \o [a \in DOMAIN t.arrays |->
              All(<<Bytes(3, (0 :> t.arrays[a].type) @@ (1 :> Len(t.arrays[a].nals)))>>
                  \o [n \in DOMAIN t.arrays[a].nals |-> NalBytes(t.arrays[a].nals[n])])])
    IN  IF t.short THEN [r EXCEPT !.len = @ - 1] ELSE r
Tkhd(t) == Bytes(32, (0 :> t.version) @@ ((IF t.version = 1 THEN 20 ELSE 12) :> t.id))
Hvcc(t) == IF t.codec \in {"hev1", "hvc1"} THEN Box("hvcC", FALSE, Record(t)) ELSE Empty
Entry(t) == Box(t.codec, FALSE, All(<<Bytes(78, <<>>), t.at.entry, Hvcc(t)>>))
TrakBox(t) ==
    Box("trak", FALSE, All(<<Box("tkhd", FALSE, Tkhd(t)), t.at.trak,
        Box("mdia", FALSE, All(<<Box("hdlr", FALSE, Bytes(4, <<>>)), t.at.mdia, Box("minf", t.wide,
            Box("stbl", FALSE, Box("stsd", FALSE, Then(Bytes(8, <<>>), Entry(t)))))>>)),
        t.at.behind>>))
Written(tracks, wide, before, within, behind) ==
    All(<<Box("ftyp", FALSE, Bytes(4, <<>>)), before, Box("mdat", wide, Bytes(10, <<>>)),
          Box("moov", FALSE, All(<<Box("mvhd", FALSE, Bytes(4, <<>>)), within>>
                                 \o [t \in DOMAIN tracks |-> TrakBox(tracks[t])])), behind>>)

Nal(n, len) == [name |-> n, len |-> len]
Sample(present, pts) == [present |-> present, pts |-> pts]
Track(id, codec, version, wide, arrays) ==
    [id |-> id, type |-> IF codec = "mp4a" THEN "audio" ELSE "video", codec |-> codec,
     version |-> version, wide |-> wide, nal_length |-> 4, arrays |-> arrays, short |-> FALSE,
     at |-> [entry |-> Empty, trak |-> Empty, mdia |-> Empty, behind |-> Empty],
     samples |-> <<Sample(TRUE, 2), Sample(FALSE, 0), Sample(TRUE, 1)>>]
Arrays == <<[type |-> 160, nals |-> <<Nal("v", 1)>>], [type |-> 39, nals |-> <<Nal("sei", 3)>>],
            [type |-> 33, nals |-> <<Nal("s1", 2), Nal("s2", 2)>>],
            [type |-> 34, nals |-> <<Nal("p", 1)>>], [type |-> 33, nals |-> <<Nal("s3", 1)>>]>>
Sound == Track(1, "mp4a", 0, FALSE, <<>>)
Picture == Track(2, "hev1", 0, FALSE, Arrays)
TrackLists ==
    {<<Sound, Track(2, "hev1", v, w, Arrays)>> : v \in {0, 1}, w \in BOOLEAN}
    \cup {<<Track(2, "hvc1", 0, FALSE, Arrays), Track(3, "hev1", 0, TRUE, Arrays), Sound>>,
          <<Track(2, "hev1", 0, FALSE, SubSeq(Arrays, 1, 1)),
            Track(7, "hev1", 1, TRUE, SubSeq(Arrays, 2, 4))>>,
          <<[Picture EXCEPT !.nal_length = 1]>>, <<[Picture EXCEPT !.short = TRUE]>>,
          <<[Picture EXCEPT !.samples = <<>>]>>, <<[Picture EXCEPT !.arrays = <<Arrays[2]>>]>>,
          <<[Picture EXCEPT !.arrays = <<>>]>>, <<Track(1, "avc1", 0, FALSE, <<>>)>>,
          <<Track(1, "hvc1", 0, FALSE, Arrays)>>, <<Sound>>}
AsFile(tracks, b) == [tracks |-> tracks, boxes |-> b, length |-> b.len]
WholeFiles == {AsFile(tracks, Written(tracks, wide, Empty, Empty, Empty)) :
                  tracks \in TrackLists, wide \in BOOLEAN}
OddBoxes == {Odd(f, s, 0) : f \in {"free", "hvcC"}, s \in {0, 2, 7}}
            \cup {Odd("free", 1, l) : l \in {0, 15}}
OddPlaces(o) ==
    LET tracks == <<Sound, Picture, [Picture EXCEPT !.id = 3]>>
    IN  {AsFile(tracks, Written(tracks, FALSE, o, Empty, Empty)),
         AsFile(tracks, Written(tracks, FALSE, Empty, o, Empty)),
         AsFile(tracks, Written(tracks, FALSE, Empty, Empty, o))}
        \cup {LET odd == [tracks EXCEPT ![2].at[p] = o]
              IN  AsFile(odd, Written(odd, FALSE, Empty, Empty, Empty)) :
                  p \in {"entry", "trak", "mdia", "behind"}}
        \cup {LET odd == [tracks EXCEPT ![n].at.trak = o]
              IN  AsFile(odd, Written(odd, FALSE, Empty, Empty, Empty)) : n \in {1, 3}}
SomeFiles == {[v EXCEPT !.length = @ - cut] : v \in WholeFiles, cut \in {0, 1, 20, 60, 130, 200}}
             \cup UNION {OddPlaces(o) : o \in OddBoxes}
OneFile == {CHOOSE v \in WholeFiles : TRUE}
Codecs == [a |-> "h264", b |-> "hevc", c |-> "av1"]

nativeVars == <<corrupt, opened, chain, flying, collector, pc, targets, todo, request,
                from, at, next_undecoded_idx, results, fed, refed, stale, failures>>
ffmpegVars == <<dims, index, lru, answer, asked>>
fileVars == <<video, track, place, trak, box, cursor, sets, sample_index>>
routeVars == <<has_ffmpeg, files, av1_dims, call, frames>>
vars == <<decoder, nativeVars, ffmpegVars, fileVars, routeVars>>

(* What the other parts start with does not matter: it is fixed. *)
Init ==
    /\ decoder \in Parts
    /\ IF decoder = "file" THEN TRUE ELSE video = CHOOSE v \in Videos : TRUE
    /\ IF decoder = "route" THEN TRUE ELSE has_ffmpeg = FALSE
    /\ Native!Init /\ Ffmpeg!Init /\ File!Init /\ Route!Init

Others(mine) ==
    /\ decoder = mine /\ UNCHANGED decoder
    /\ mine # "native" => UNCHANGED nativeVars
    /\ mine # "ffmpeg" => UNCHANGED ffmpegVars
    /\ mine # "file" => UNCHANGED fileVars
    /\ mine # "route" => UNCHANGED routeVars

Next ==
    \/ Others("native") /\ Native!Next
    \/ Others("ffmpeg") /\ Ffmpeg!Next
    \/ Others("file") /\ File!Next
    \/ Others("route") /\ Route!Next

Spec == Init /\ [][Next]_vars

(* What the native decoder keeps (NativeDecode.tla). *)
PictureOfTarget == Native!PictureOfTarget
PictureOfTargetAlways == Native!PictureOfTargetAlways
NoRedecode == Native!NoRedecode

(* What the ffmpeg decoder and the frame cache keep (FfmpegDecode.tla). *)
CacheTransparent == Ffmpeg!CacheTransparent
BatchMatchesDecode == Ffmpeg!BatchMatchesDecode

(* What opening a file finds (VideoFile.tla). *)
ParameterSetsFound == File!ParameterSetsFound

(* Which decoder answers (VideoRoute.tla). *)
AnsweredByItsCodec == Route!AnsweredByItsCodec
=============================================================================
