------------------------------- MODULE VideoFile -------------------------------
(***************************************************************************)
(* Opening a video for the hardware decoder: NativeVideoToolboxFile::open   *)
(* and the reader of HEVC parameter sets, hevc_hvcc, of                     *)
(* crates/pyroboframes-core/src/videotoolbox_native.rs.                     *)
(*                                                                         *)
(* A file is a nest of boxes, each a header (8 bytes, 16 when its size is a *)
(* 64-bit one) and a content.  The model has, by position in bytes, the     *)
(* headers and the fields that are read, with the sizes the headers declare *)
(* whatever they are; a read elsewhere gives 0.  Who writes the file is     *)
(* left open (MCDecoding has a muxer), but positions fit in 64 bits.        *)
(***************************************************************************)
EXTENDS Integers, Sequences, SequencesExt

CONSTANT Videos \* the files: [tracks, boxes, length], the boxes
                \* themselves [len, heads, fields]

VARIABLES
    video,  \* the file
    track,  \* the track that was chosen
    at,     \* what open does next
    trak,   \* how many of the moov's traks are done with
    box,    \* the box the walk is in
    cursor, \* parse_hvcc_record: pos, arrays and NAL units left, array type
    sets,   \* vps, sps and pps
    sample_index

fileVars == <<video, track, at, trak, box, cursor, sets, sample_index>>

-----------------------------------------------------------------------------
NoTrack == [id |-> 0, codec |-> "none"]
NoBox == [start |-> 0, end |-> 0]
NoSets == [vps |-> <<>>, sps |-> <<>>, pps |-> <<>>]
Start == [pos |-> 0, arrays |-> 0, nalus |-> 0, type |-> 0]

Init ==
    /\ video \in Videos
    /\ track = NoTrack /\ at = "header" /\ trak = 0 /\ box = NoBox
    /\ cursor = Start /\ sets = NoSets /\ sample_index = <<>>

(* read_exact of n bytes at position p. *)
Readable(p, n) == p + n <= video.length
Field(p) == IF p \in DOMAIN video.boxes.fields THEN video.boxes.fields[p] ELSE 0

BoxHead(p) == video.boxes.heads[p]
HeaderLen(p) == IF BoxHead(p).size = 1 THEN 16 ELSE 8
Size(p) == IF BoxHead(p).size = 1 THEN BoxHead(p).largesize ELSE BoxHead(p).size

(* read_box_header: an error for a header out of reach, a box that extends to
   the end of the file and a 64-bit size below its header. *)
Refused(p) ==
    \/ p \notin DOMAIN video.boxes.heads \/ ~Readable(p, HeaderLen(p))
    \/ Size(p) = 0
    \/ BoxHead(p).size = 1 /\ Size(p) < 16

(* Mutant: the 64-bit size is taken for one of a short header. *)
content_start_short(p) == p + 8

content_start(p) == p + HeaderLen(p)

(* list_children: the last entry has no bounds when a header is refused.  With
   a size of 2 to 7 the content ends before it starts, and the walk goes on
   inside the header. *)
Unreadable == [fourcc |-> "none", start |-> 0, end |-> 0]
list_children(start, end) ==
    LET from[p \in Nat] ==
          IF p + 8 > end THEN <<>>
          ELSE IF Refused(p) THEN <<Unreadable>>
          ELSE <<[fourcc |-> BoxHead(p).fourcc, start |-> content_start(p), end |-> p + Size(p)]>>
               \o from[p + Size(p)]
    IN  from[start]

Failed(children) == Unreadable \in ToSet(children)
Named(children, fourcc) == SelectSeq(children, LAMBDA c : c.fourcc = fourcc)
find_child(children, fourcc) == Head(Named(children, fourcc))
Has(children, fourcc) == Named(children, fourcc) # <<>>
Underflows(children) == \E c \in ToSet(children) : c.end < c.start

GoTo(step) == at' = step /\ UNCHANGED <<video, track, trak, box, cursor, sets, sample_index>>
Fails == GoTo("error")

(* A build with overflow checks panics on a content that ends before it starts. *)
Panics(children) == Underflows(children) /\ GoTo("panicked")

(* The mp4 crate reads the header (external) and open takes a video track it
   knows the codec of, any of them: tracks() is a HashMap. *)
Suitable(t) == t.type = "video" /\ t.codec \in {"avc1", "hev1"}

ChooseTrack ==
    /\ at = "header"
    /\ \E t \in {x \in ToSet(video.tracks) : Suitable(x)} :
          /\ track' = t
          /\ at' = IF t.codec = "avc1" THEN "format" ELSE "top"
    /\ UNCHANGED <<video, trak, box, cursor, sets, sample_index>>

(* No such file, a header the crate does not take, no suitable track, an H.264
   track without its sets. *)
ChooseFails == at = "header" /\ Fails

(* extract_parameter_sets: the file's boxes, then the moov's. *)
Top ==
    /\ at = "top"
    /\ LET boxes == list_children(0, video.length)
       IN  \/ Panics(boxes)
           \/ IF Failed(boxes) \/ ~Has(boxes, "moov") THEN Fails
              ELSE /\ box' = find_child(boxes, "moov") /\ at' = "moov"
                   /\ UNCHANGED <<video, track, trak, cursor, sets, sample_index>>

Moov ==
    /\ at = "moov"
    /\ LET children == list_children(box.start, box.end)
       IN  Panics(children) \/ GoTo(IF Failed(children) THEN "error" ELSE "trak")

(* read_tkhd_track_id: past the version, the flags and two times. *)
TrackIdAt(tkhd) == tkhd.start + 1 + (IF Field(tkhd.start) = 1 THEN 3 + 16 ELSE 3 + 8)

Traks == Named(list_children(box.start, box.end), "trak")

(* The next trak, skipped when it is not the target's; an error after the last. *)
NextTrak ==
    /\ at = "trak"
    /\ LET children == list_children(Traks[trak + 1].start, Traks[trak + 1].end)
           tkhd == find_child(children, "tkhd")
       IN  \/ trak < Len(Traks) /\ Panics(children)
           \/ IF \/ trak = Len(Traks) \/ Failed(children)
                 \/ Has(children, "tkhd") /\ ~Readable(TrackIdAt(tkhd), 4)
              THEN Fails
              ELSE /\ at' = IF Has(children, "tkhd") /\ Field(TrackIdAt(tkhd)) = track.id
                              THEN "entry" ELSE at
                   /\ trak' = trak + 1
                   /\ UNCHANGED <<video, track, box, cursor, sets, sample_index>>

(* Where the children of a box begin: stsd has 8 bytes before them, a visual
   sample entry 78. *)
Inside(name, b) ==
    [start |-> b.start + (CASE name = "stsd" -> 8 [] name \in {"hev1", "hvc1"} -> 78
                            [] OTHER -> 0),
     end |-> b.end]

(* The boxes on the way to the record; a trak that lacks one is skipped, but
   an entry without hvcC is an error. *)
Path == <<{"mdia"}, {"minf"}, {"stbl"}, {"stsd"}, {"hev1", "hvc1"}>>
Along[n \in 0 .. Len(Path)] ==
    IF n = 0 THEN [ok |-> "yes", box |-> Traks[trak], seen |-> <<>>]
    ELSE LET up == Along[n - 1]
             children == list_children(up.box.start, up.box.end)
             names == {c \in Path[n] : Has(children, c)}
             name == IF "hev1" \in names THEN "hev1" ELSE CHOOSE c \in names : TRUE
             seen == up.seen \o children
         IN  IF up.ok # "yes" THEN up
             ELSE IF Failed(children) THEN [up EXCEPT !.ok = "error", !.seen = seen]
             ELSE IF names = {} THEN [up EXCEPT !.ok = "skip", !.seen = seen]
             ELSE [ok |-> "yes", box |-> Inside(name, find_child(children, name)), seen |-> seen]

Descend ==
    /\ at = "entry"
    /\ LET entry == Along[Len(Path)]
           children == IF entry.ok = "yes" THEN list_children(entry.box.start, entry.box.end)
                                           ELSE <<>>
           hvcc == find_child(children, "hvcC")
       IN  \/ Panics(entry.seen \o children)
           \/ entry.ok = "skip" /\ GoTo("trak")
           \/ entry.ok # "skip" /\
              IF entry.ok = "error" \/ Failed(children) \/ ~Has(children, "hvcC") THEN Fails
              ELSE IF Underflows(<<hvcc>>) THEN GoTo("panicked") \* vec![0; a length that wrapped]
              ELSE IF \/ ~Readable(hvcc.start, hvcc.end - hvcc.start)
                      \/ hvcc.end - hvcc.start < 23
              THEN Fails
              ELSE /\ box' = hvcc /\ at' = "array"
                   /\ cursor' = [Start EXCEPT !.pos = 23, !.arrays = Field(hvcc.start + 22)]
                   /\ UNCHANGED <<video, track, trak, sets, sample_index>>

-----------------------------------------------------------------------------
(* parse_hvcc_record; get(pos..pos + n) is within the record. *)
Within(n) == cursor.pos + n <= box.end - box.start
Here(n) == Field(box.start + cursor.pos + n)

ArrayHeader ==
    /\ at = "array" /\ cursor.arrays > 0
    /\ IF ~Within(3) THEN Fails
       ELSE /\ cursor' = [pos |-> cursor.pos + 3, arrays |-> cursor.arrays - 1,
                          nalus |-> Here(1), type |-> Here(0) % 64]
            /\ at' = "nal"
            /\ UNCHANGED <<video, track, trak, box, sets, sample_index>>

NalUnit ==
    /\ at = "nal" /\ cursor.nalus > 0
    /\ IF ~Within(2) \/ ~Within(2 + Here(0)) THEN Fails
       ELSE /\ sets' = CASE cursor.type = 32 -> [sets EXCEPT !.vps = Append(@, Here(2))]
                         [] cursor.type = 33 -> [sets EXCEPT !.sps = Append(@, Here(2))]
                         [] cursor.type = 34 -> [sets EXCEPT !.pps = Append(@, Here(2))]
                         [] OTHER -> sets
            /\ cursor' = [cursor EXCEPT !.pos = @ + 2 + Here(0), !.nalus = @ - 1]
            /\ UNCHANGED <<video, track, at, trak, box, sample_index>>

ArrayEnds ==
    /\ at = "nal" /\ cursor.nalus = 0
    /\ GoTo("array")

(* Only four-byte lengths, and at least one set, make a format description. *)
RecordEnds ==
    /\ at = "array" /\ cursor.arrays = 0
    /\ IF \/ (Field(box.start + 21) % 4) + 1 # 4
          \/ sets.vps \o sets.sps \o sets.pps = <<>>
         THEN Fails
         ELSE GoTo("format")

(* The session is made and every sample read: the crate may have none under a
   number, which leaves no entry. *)
Index ==
    /\ at = "format"
    /\ LET read == SelectSeq(track.samples, LAMBDA s : s.present)
       IN  /\ sample_index' = read
           /\ at' = IF read = <<>> THEN "refused" ELSE "opened"
           /\ UNCHANGED <<video, track, trak, box, cursor, sets>>

(* VideoToolbox refuses the format or the session, or a read fails. *)
IndexFails ==
    /\ at = "format"
    /\ GoTo("refused")

Done == at \in {"opened", "refused", "error", "panicked"} /\ UNCHANGED fileVars

Next ==
    \/ ChooseTrack \/ ChooseFails \/ Top \/ Moov \/ NextTrak \/ Descend
    \/ ArrayHeader \/ NalUnit \/ ArrayEnds \/ RecordEnds \/ Index \/ IndexFails \/ Done
-----------------------------------------------------------------------------
(* The NAL units of one type, in the order the encoder wrote them. *)
WrittenNals(type) ==
    FlattenSeq([a \in DOMAIN track.arrays |->
        IF track.arrays[a].type % 64 = type THEN track.arrays[a].nals ELSE <<>>])

Intact == video.length = video.boxes.len
IsHevc == track.codec \in {"hev1", "hvc1"}

Unusable ==
    \/ track.nal_length # 4 \/ track.short
    \/ WrittenNals(32) \o WrittenNals(33) \o WrittenNals(34) = <<>>
OddSize == \E p \in DOMAIN video.boxes.heads : Size(p) < HeaderLen(p)

(* The walk finds the record of the chosen track past other tracks, other times
   and 64-bit sizes, and reads every parameter set of it and nothing else: no
   file, whole, cut short or with a size no box can have, goes on with some of
   them or another track's.  And a whole file with a usable record gets past the
   walk unless a box in it declares a size the walk cannot take: to the end of
   the file (0), or less than its own header. *)
ParameterSetsFound ==
    /\ at \in {"format", "opened"} /\ IsHevc =>
         /\ sets = [vps |-> WrittenNals(32), sps |-> WrittenNals(33), pps |-> WrittenNals(34)]
         /\ track.nal_length = 4
    /\ at \in {"error", "panicked"} /\ IsHevc /\ Intact => Unusable \/ OddSize
=============================================================================
