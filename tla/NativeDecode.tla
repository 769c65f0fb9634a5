----------------------------- MODULE NativeDecode -----------------------------
(***************************************************************************)
(* Hardware decode of one file: NativeVideoToolboxFile of                  *)
(* crates/pyroboframes-core/src/videotoolbox_native.rs.                     *)
(*                                                                         *)
(* A call maps each timestamp to the sample shown nearest to it, feeds the  *)
(* samples a decoder needs to reach it, and waits for as many frames as it  *)
(* fed.  The frames come from VideoToolbox's callback, on a thread of its   *)
(* own; one that is late is pushed into whatever call is running then.      *)
(*                                                                         *)
(* Samples are numbered in decode order, times are units of the timescale.  *)
(***************************************************************************)
EXTENDS Integers, FiniteSets

CONSTANTS
    Pts,          \* Pts[i]: when sample i is shown
    Sync,         \* the keyframes
    Refers,       \* Refers[i]: the samples sample i is decoded from, of its own GOP
    Batches,      \* the calls: functions from 1 .. n to timestamps
    MaxFailures   \* bounds the calls that fail by a read, a timeout or an open

Samples == DOMAIN Pts

NativeAssumption ==
    /\ IsFiniteSet(Samples) /\ Samples = 0 .. Cardinality(Samples) - 1
    /\ 0 \in Sync /\ Sync \subseteq Samples
    /\ \A i \in Samples : Pts[i] \in Int
    /\ \A i, j \in Samples : Pts[i] = Pts[j] => i = j
    /\ \A i \in Samples : \A j \in Refers[i] :
          j \in 0 .. i - 1 /\ Refers[j] \subseteq Refers[i] /\ \A k \in Sync : k <= i => k <= j
    /\ \A ts \in Batches : \A r \in DOMAIN ts : ts[r] \in Int

VARIABLES
    corrupt,   \* the samples that are damaged in the file
    opened,    \* the file is open, and in the cache of open files
    chain,     \* the last sample of the unbroken run the session was fed
    flying,    \* frames whose callback has not fired yet
    collector, \* frames pushed by the callback
    pc,        \* "idle", "next" request, "feed" or wait
    targets,   \* targets[r]: the sample request r asks for
    todo,      \* the requests not answered yet
    request,   \* the request at work
    from,      \* where its range starts
    at,        \* the sample to feed next
    next_undecoded_idx,
    results,   \* results[r]: the frame picked for request r
    fed,       \* history: the samples fed by this call
    refed,     \* history: it fed a sample twice
    stale,     \* history: it collected a frame of an earlier call
    failures

sessionVars == <<corrupt, opened, chain, flying>>
callVars == <<targets, todo, request, from, next_undecoded_idx, results, failures>>
history == <<fed, refed, stale>>
vars == <<sessionVars, collector, pc, at, callVars, history>>

None == -1
Abs(n) == IF n < 0 THEN -n ELSE n

pts_offset == Pts[CHOOSE i \in Samples : \A j \in Samples : Pts[i] <= Pts[j]]

(* Off[i], or the first of the nearest: Iterator::min_by_key. *)
nearest_sample_index(t) ==
    LET Off(i) == Abs(Pts[i] - (t + pts_offset)) IN
    CHOOSE i \in Samples : \A j \in Samples :
        Off(i) < Off(j) \/ (Off(i) = Off(j) /\ i <= j)

keyframe_walkback(i) == CHOOSE s \in Sync : s <= i /\ \A k \in Sync : k <= i => k <= s

Init ==
    /\ corrupt \in {{}} \cup {{i} : i \in Samples}
    /\ opened = FALSE
    /\ chain = None
    /\ flying = {} /\ collector = {}
    /\ pc = "idle"
    /\ targets = <<>> /\ todo = {} /\ request = None
    /\ from = 0 /\ at = 0
    /\ next_undecoded_idx = None
    /\ results = <<>>
    /\ fed = {} /\ refed = FALSE /\ stale = FALSE
    /\ failures = 0

-----------------------------------------------------------------------------
(* decode_at is the batch of one timestamp.  A file that cannot be opened
   is not cached and answers with the error. *)
Call(timestamps) ==
    /\ pc = "idle"
    /\ opened' = TRUE
    /\ targets' = [r \in DOMAIN timestamps |-> nearest_sample_index(timestamps[r])]
    /\ todo' = DOMAIN timestamps
    /\ results' = [r \in DOMAIN timestamps |-> None]
    /\ next_undecoded_idx' = None
    /\ fed' = {} /\ refed' = FALSE /\ stale' = FALSE
    /\ pc' = "next"
    /\ UNCHANGED <<corrupt, chain, flying, collector, request, from, at, failures>>

OpenFails ==
    /\ pc = "idle" /\ ~opened
    /\ failures < MaxFailures /\ failures' = failures + 1
    /\ UNCHANGED <<sessionVars, collector, pc, at, targets, todo, request, from,
                   next_undecoded_idx, results, history>>

(* Requests go in the order of their samples (a stable sort). *)
First(r) == \A q \in todo : targets[r] < targets[q] \/ (targets[r] = targets[q] /\ r <= q)

(* Mutant: every range starts at the keyframe. *)
StartWalksBack(i) == keyframe_walkback(i)

Start(i) ==
    IF next_undecoded_idx # None /\ next_undecoded_idx <= i
    THEN next_undecoded_idx ELSE keyframe_walkback(i)

(* Mutant: the collector is not drained before the range. *)
BeginRangeKeepsFrames ==
    /\ pc = "next"
    /\ \E r \in todo :
        /\ First(r)
        /\ request' = r
        /\ from' = Start(targets[r])
        /\ at' = Start(targets[r])
    /\ pc' = "feed"
    /\ UNCHANGED <<sessionVars, collector, targets, todo, next_undecoded_idx, results,
                   failures, history>>

(* decode_range first drains what earlier calls left. *)
BeginRange ==
    /\ pc = "next"
    /\ \E r \in todo :
        /\ First(r)
        /\ request' = r
        /\ from' = Start(targets[r])
        /\ at' = Start(targets[r])
    /\ collector' = {}
    /\ pc' = "feed"
    /\ UNCHANGED <<sessionVars, targets, todo, next_undecoded_idx, results, failures, history>>

(* A sample decodes to its whole picture when it and all it refers to are
   sound and were fed: it is a keyframe, or continues the run.  Any other is
   reported as an error or shown damaged (VideoToolbox leaves both open). *)
Sound(i) == i \notin corrupt /\ Refers[i] \cap corrupt = {}
Intact(i) == i \in Sync \/ chain = i - 1
Decodes(i) == IF Sound(i) /\ Intact(i) THEN {"whole"} ELSE {"damaged", "error"}

Feed ==
    /\ pc = "feed" /\ at <= targets[request]
    /\ \E picture \in Decodes(at) :
          flying' = flying \cup {[idx |-> at, picture |-> picture, late |-> FALSE]}
    /\ chain' = IF Intact(at) THEN at ELSE None
    /\ fed' = fed \cup {at}
    /\ refed' = (refed \/ at \in fed)
    /\ at' = at + 1
    /\ UNCHANGED <<corrupt, opened, collector, pc, callVars, stale>>

(* The callback: FrameCollector::push. *)
Push ==
    /\ \E f \in flying :
        /\ flying' = flying \ {f}
        /\ collector' = collector \cup {f}
    /\ UNCHANGED <<corrupt, opened, chain, pc, at, callVars, history>>

(* Frames that come after the range that fed them; two late frames alike count
   as one. *)
Late(frames) == {[f EXCEPT !.late = TRUE] : f \in frames}

(* The call returns an error; its frames are still to come. *)
Fail ==
    /\ pc' = "idle"
    /\ results' = <<>> /\ targets' = <<>> /\ todo' = {}
    /\ fed' = {} /\ refed' = FALSE /\ stale' = FALSE
    /\ flying' = Late(flying)
    /\ UNCHANGED <<corrupt, opened, chain, at, request, from, next_undecoded_idx>>

Bounded == failures < MaxFailures /\ failures' = failures + 1

(* A sample cannot be read back, or the session refuses it. *)
FeedFails == pc = "feed" /\ at <= targets[request] /\ Bounded /\ Fail /\ UNCHANGED collector

Waiting == pc = "feed" /\ at > targets[request]
Arrived == Cardinality(collector) >= at - from

(* Five seconds pass; what has come is drained. *)
TimesOut == Waiting /\ ~Arrived /\ Bounded /\ Fail /\ collector' = {}

(* Status 0 and a picture, which may be damaged. *)
Usable == {f \in collector : f.picture # "error"}
Nearest(f) == \A g \in Usable :
    Abs(Pts[f.idx] - Pts[targets[request]]) <= Abs(Pts[g.idx] - Pts[targets[request]])

(* The frames are drained and the one shown nearest is picked. *)
Pick ==
    /\ Waiting /\ Arrived
    /\ \E f \in Usable :
        /\ Nearest(f)
        /\ results' = [results EXCEPT ![request] = IF f.picture = "whole" THEN f.idx ELSE None]
    /\ stale' = (stale \/ \E f \in collector : f.late)
    /\ todo' = todo \ {request}
    /\ next_undecoded_idx' = targets[request] + 1
    /\ collector' = {}
    /\ flying' = Late(flying)
    /\ pc' = "next"
    /\ UNCHANGED <<corrupt, opened, chain, at, targets, request, from, failures, fed, refed>>

NoUsableFrame == Waiting /\ Arrived /\ Usable = {} /\ Fail /\ collector' = {} /\ UNCHANGED failures

Return ==
    /\ pc = "next" /\ todo = {}
    /\ pc' = "idle"
    /\ UNCHANGED <<sessionVars, collector, at, callVars, history>>

Next ==
    \/ \E ts \in Batches : Call(ts)
    \/ OpenFails
    \/ BeginRange \/ Feed \/ FeedFails \/ TimesOut \/ Pick \/ NoUsableFrame \/ Return
    \/ Push

Spec == Init /\ [][Next]_vars
-----------------------------------------------------------------------------
Frames == [idx : Samples, picture : {"whole", "damaged", "error"}, late : BOOLEAN]

Answered(r) == pc = "idle" \/ r \notin todo

(* The tests of the batch (decode_batch_reuses_gop_state_and_matches_per_frame_
   decode, ..._out_of_order_and_duplicate_timestamps): a request whose sample is
   sound, as is all it refers to, is answered with that sample's picture,
   decoded from all it refers to, whatever the order of requests and callbacks
   and whatever other samples of its range give no picture or a damaged one - as
   long as no frame of an earlier, failed call arrived late. *)
PictureOfTarget ==
    ~stale => \A r \in DOMAIN results :
        Answered(r) /\ Sound(targets[r]) => results[r] = targets[r]

(* The same without the excuse: "Decodes the frame nearest timestamp_s". *)
PictureOfTargetAlways ==
    \A r \in DOMAIN results :
        Answered(r) /\ Sound(targets[r]) => results[r] = targets[r]

Distinct == \A q, r \in DOMAIN targets : targets[q] = targets[r] => q = r

(* A batch avoids "redundant re-decode of already-decoded GOP prefixes": no
   sample is fed twice unless a timestamp is asked for twice. *)
NoRedecode == Distinct => ~refed
=============================================================================
