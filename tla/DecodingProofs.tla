----------------------------- MODULE DecodingProofs -----------------------------
(* Proofs about the decoders, for any samples, keyframes, files, timestamps,    *)
(* batches and capacity of the cache, and whatever fails.                      *)
EXTENDS MCDecoding, SequenceLemmas, TLAPS, FiniteSetTheorems, SequenceTheorems, WellFoundedInduction

(* One decoder makes the step, and the others keep what they have. *)
LEMMA Steps ==
    ASSUME [Next]_vars
    PROVE  /\ Native!Next \/ UNCHANGED nativeVars
           /\ Ffmpeg!Next \/ UNCHANGED ffmpegVars
           /\ Route!Next \/ UNCHANGED routeVars
<1>1. CASE UNCHANGED vars
  BY <1>1 DEF vars
<1>2. CASE Next
  BY <1>2 DEF Next, Others
<1>3. QED
  BY <1>1, <1>2

(* Iterator::min_by_key on the samples: the first of the smallest. *)
LEMMA FirstSmallest ==
    ASSUME NEW last \in Nat, NEW f, \A i \in 0 .. last : f[i] \in Int
    PROVE  \E i \in 0 .. last :
              \A j \in 0 .. last : f[i] < f[j] \/ (f[i] = f[j] /\ i <= j)
<1> DEFINE least(i, n) ==
        i \in 0 .. n /\ \A j \in 0 .. n : f[i] < f[j] \/ (f[i] = f[j] /\ i <= j)
           Bad == {n \in 0 .. last : ~\E i \in 0 .. n : least(i, n)}
<1>1. SUFFICES Bad = {}
  <2>1. last \notin Bad
    BY <1>1
  <2>2. \E i \in 0 .. last : least(i, last)
    BY <2>1
  <2>3. QED
    BY <2>2
<1>2. SUFFICES ASSUME Bad # {} PROVE FALSE
  OBVIOUS
<1>3. PICK n \in Bad : \A m \in Bad : n <= m
  <2>1. Bad \in SUBSET Nat
    OBVIOUS
  <2> HIDE DEF Bad
  <2> QED BY <1>2, <2>1, LeastElement
<1>4. n \in 0 .. last /\ ~\E i \in 0 .. n : least(i, n)
  BY <1>3
<1>5. n # 0
  <2>1. ASSUME n = 0 PROVE least(0, n)
    BY <1>4, <2>1
  <2>2. QED
    BY <1>4, <2>1
<1>6. n - 1 \in 0 .. last /\ n - 1 \notin Bad
  <2>1. n - 1 \in 0 .. last /\ ~(n <= n - 1)
    BY <1>4, <1>5
  <2> HIDE DEF Bad
  <2>2. QED
    BY <1>3, <2>1
<1>7. PICK i \in 0 .. n - 1 : least(i, n - 1)
  BY <1>6
<1>8. CASE f[n] < f[i]
  <2>1. ASSUME NEW j \in 0 .. n PROVE f[n] < f[j] \/ (f[n] = f[j] /\ n <= j)
    <3>1. j = n \/ j \in 0 .. n - 1
      BY <1>4
    <3>2. f[n] \in Int /\ f[i] \in Int /\ f[j] \in Int
      BY <1>4
    <3>3. QED
      BY <1>7, <1>8, <3>1, <3>2
  <2>2. QED
    BY <1>4, <2>1
<1>9. CASE ~(f[n] < f[i])
  <2>1. ASSUME NEW j \in 0 .. n PROVE f[i] < f[j] \/ (f[i] = f[j] /\ i <= j)
    <3>1. j = n \/ j \in 0 .. n - 1
      BY <1>4
    <3>2. f[n] \in Int /\ f[i] \in Int /\ f[j] \in Int /\ i <= n
      BY <1>4
    <3>3. QED
      BY <1>7, <1>9, <3>1, <3>2
  <2>2. i \in 0 .. n
    BY <1>4
  <2>3. QED
    BY <1>4, <2>1, <2>2
<1>10. QED
  BY <1>8, <1>9

-----------------------------------------------------------------------------
(* The native decoder.                                                         *)
LEMMA NativeCounts ==
    \A S : /\ Native!Cardinality(S) = Cardinality(S)
           /\ Native!IsFiniteSet(S) <=> IsFiniteSet(S)
BY DEF Native!Cardinality, Cardinality, Native!IsFiniteSet, IsFiniteSet

LEMMA SamplesCount ==
    ASSUME Native!NativeAssumption
    PROVE  \E last \in Nat : Native!Samples = 0 .. last
<1>1. /\ IsFiniteSet(Native!Samples) /\ 0 \in Native!Samples
      /\ Native!Samples = 0 .. Cardinality(Native!Samples) - 1
  BY NativeCounts DEF Native!NativeAssumption
<1>2. Cardinality(Native!Samples) \in Nat
  BY <1>1, FS_CardinalityType
<1> DEFINE n == Cardinality(Native!Samples)
<1>3. n \in Nat /\ 0 \in 0 .. n - 1 /\ Native!Samples = 0 .. n - 1
  BY <1>1, <1>2, Zenon
<1> HIDE DEF n
<1>4. n - 1 \in Nat
  BY <1>3
<1>5. QED
  BY <1>3, <1>4

LEMMA SampleOfTime ==
    ASSUME Native!NativeAssumption, NEW t \in Int
    PROVE  Native!nearest_sample_index(t) \in Native!Samples
<1>1. PICK last \in Nat : Native!Samples = 0 .. last
  BY SamplesCount
<1>2. \A i \in 0 .. last : Pts[i] \in Int
  BY <1>1 DEF Native!NativeAssumption
<1>3. Native!pts_offset \in Int
  <2>1. \E i \in Native!Samples : \A j \in Native!Samples : Pts[i] <= Pts[j]
    <3>1. PICK i \in 0 .. last :
             \A j \in 0 .. last : Pts[i] < Pts[j] \/ (Pts[i] = Pts[j] /\ i <= j)
      BY <1>2, FirstSmallest
    <3>2. \A j \in 0 .. last : Pts[i] <= Pts[j]
      BY <1>2, <3>1
    <3>3. QED
      BY <1>1, <3>2
  <2>2. QED
    BY <1>1, <1>2, <2>1 DEF Native!pts_offset
<1> DEFINE Off == [i \in 0 .. last |-> Native!Abs(Pts[i] - (t + Native!pts_offset))]
<1>4. \A i \in 0 .. last : Off[i] \in Int
  BY <1>2, <1>3 DEF Native!Abs
<1>5. \E i \in 0 .. last :
         \A j \in 0 .. last : Off[i] < Off[j] \/ (Off[i] = Off[j] /\ i <= j)
  <2> HIDE DEF Off
  <2> QED BY <1>4, FirstSmallest
<1>6. \E i \in Native!Samples : \A j \in Native!Samples :
         \/ Native!Abs(Pts[i] - (t + Native!pts_offset))
              < Native!Abs(Pts[j] - (t + Native!pts_offset))
         \/ /\ Native!Abs(Pts[i] - (t + Native!pts_offset))
                 = Native!Abs(Pts[j] - (t + Native!pts_offset))
            /\ i <= j
  BY <1>1, <1>5
<1>7. QED
  BY <1>6, Zenon DEF Native!nearest_sample_index

LEMMA KeyframeBefore ==
    ASSUME Native!NativeAssumption, NEW i \in Native!Samples
    PROVE  Native!keyframe_walkback(i) \in Sync /\ Native!keyframe_walkback(i) \in 0 .. i
<1>1. PICK last \in Nat : Native!Samples = 0 .. last
  BY SamplesCount
<1> DEFINE before == {s \in Sync : s <= i}
<1>2. Sync \subseteq 0 .. last /\ 0 \in Sync
  BY <1>1 DEF Native!NativeAssumption
<1>3. before \in SUBSET (0 .. last) /\ 0 \in before
  <2>1. i \in Nat
    BY <1>1
  <2>2. 0 \in before
    BY <1>2, <2>1
  <2>3. QED
    BY <1>2, <2>2
<1>4. PICK s \in before : \A k \in before : k <= s
  <2> HIDE DEF before
  <2> QED BY <1>3, GreatestElement
<1>5. \E j \in Sync : j <= i /\ \A k \in Sync : k <= i => k <= j
  BY <1>4
<1>6. Native!keyframe_walkback(i) \in Sync /\ Native!keyframe_walkback(i) <= i
  BY <1>5, Zenon DEF Native!keyframe_walkback
<1>7. QED
  <2>1. i \in Nat
    BY <1>1
  <2> DEFINE k == Native!keyframe_walkback(i)
  <2>2. k <= i /\ k \in Sync
    BY <1>6
  <2> HIDE DEF k
  <2>3. k \in 0 .. last
    BY <1>2, <2>2
  <2>4. k \in 0 .. i
    BY <2>1, <2>2, <2>3
  <2>5. QED
    BY <2>2, <2>4 DEF k

(* Where a range starts, and that it continues the run or starts at a keyframe. *)
LEMMA StartOfRange ==
    ASSUME Native!NativeAssumption, NEW i \in Native!Samples,
           next_undecoded_idx \in Nat \cup {Native!None}
    PROVE  /\ Native!Start(i) \in 0 .. i
           /\ \/ Native!Start(i) \in Sync
              \/ next_undecoded_idx # Native!None /\ Native!Start(i) = next_undecoded_idx
           /\ next_undecoded_idx # Native!None /\ next_undecoded_idx <= i
                => Native!Start(i) = next_undecoded_idx
<1>1. PICK last \in Nat : Native!Samples = 0 .. last
  BY SamplesCount
<1>2. QED
  BY <1>1, KeyframeBefore DEF Native!Start, Native!None

(* Frames of one range, each of another sample: as many as there are samples
   are all of them. *)
LEMMA AllArrived ==
    ASSUME NEW a \in Nat, NEW b \in Nat, a <= b, NEW C,
           \A f \in C : f.idx \in a .. b - 1,
           \A f, g \in C : f.idx = g.idx => f = g, Cardinality(C) >= b - a
    PROVE  \A i \in a .. b - 1 : \E f \in C : f.idx = i
<1> DEFINE S == a .. b - 1
           idx == [f \in C |-> f.idx]
<1>1. IsFiniteSet(S) /\ Cardinality(S) = b - a
  <2>1. b - 1 \in Int
    OBVIOUS
  <2>2. IsFiniteSet(a .. b - 1) /\ Cardinality(a .. b - 1) = IF a > b - 1 THEN 0 ELSE (b - 1) - a + 1
    BY <2>1, FS_Interval
  <2>3. QED
    BY <2>2
<1>2. idx \in Injection(C, S)
  <2>1. idx \in [C -> S]
    OBVIOUS
  <2>2. QED
    BY <2>1 DEF Injection, IsInjective
<1> HIDE DEF S
<1>3. IsFiniteSet(C) /\ Cardinality(C) <= Cardinality(S)
      /\ (Cardinality(C) = Cardinality(S) => idx \in Surjection(C, S))
  <2> HIDE DEF idx
  <2> QED BY <1>1, <1>2, FS_Injection
<1>4. Cardinality(C) \in Nat
  BY <1>3, FS_CardinalityType
<1>5. idx \in Surjection(C, S)
  BY <1>1, <1>3, <1>4
<1>6. QED
  BY <1>5 DEF S, Surjection

NativeTypes ==
    /\ pc \in {"idle", "next", "feed"}
    /\ flying \subseteq Native!Frames /\ collector \subseteq Native!Frames
    /\ \A r \in DOMAIN targets : targets[r] \in Native!Samples
    /\ results = [r \in DOMAIN targets |-> results[r]]
    /\ todo \subseteq DOMAIN targets
    /\ next_undecoded_idx \in Nat \cup {Native!None}

(* The run is unbroken up to the sample fed last, and a range continues it or
   starts at a keyframe. *)
UnbrokenRun ==
    /\ pc = "idle" => todo = {}
    /\ pc = "next" /\ next_undecoded_idx # Native!None => chain = next_undecoded_idx - 1
    /\ pc = "feed" =>
         /\ request \in todo
         /\ from \in 0 .. targets[request] /\ at \in from .. targets[request] + 1
         /\ IF at = from THEN from \in Sync \/ chain = from - 1 ELSE chain = at - 1

(* Frames that are not late are those of the range, one of each sample, and
   whole when the sample is sound. *)
OwnFrames ==
    /\ pc # "feed" => \A f \in flying : f.late
    /\ pc = "feed" =>
         /\ \A f \in flying \cup collector :
              f.late \/ (f.idx \in from .. at - 1 /\ (Native!Sound(f.idx) => f.picture = "whole"))
         /\ \A f, g \in flying \cup collector : ~f.late /\ ~g.late /\ f.idx = g.idx => f = g

(* The requests left ask for samples behind those that were fed. *)
FedBehind ==
    /\ fed \subseteq Nat
    /\ Native!Distinct =>
         /\ ~refed
         /\ pc = "next" => \A i \in fed, q \in todo :
              /\ next_undecoded_idx # Native!None
              /\ i < next_undecoded_idx /\ next_undecoded_idx <= targets[q]
         /\ pc = "feed" =>
              /\ \A i \in fed : i < at
              /\ \A q \in todo \ {request} : targets[request] < targets[q]

NativeInv == NativeTypes /\ UnbrokenRun /\ OwnFrames /\ FedBehind /\ Native!PictureOfTarget

LEMMA NativeInit == ASSUME Native!Init PROVE NativeInv
<1>1. /\ pc = "idle" /\ flying = {} /\ collector = {} /\ targets = <<>> /\ results = <<>>
      /\ todo = {} /\ next_undecoded_idx = Native!None /\ fed = {} /\ refed = FALSE
  BY DEF Native!Init
<1>2. DOMAIN targets = {} /\ results = [r \in DOMAIN targets |-> results[r]]
  BY <1>1
<1>3. NativeTypes /\ UnbrokenRun
  BY <1>1, <1>2 DEF NativeTypes, UnbrokenRun
<1>4. OwnFrames /\ FedBehind
  BY <1>1 DEF OwnFrames, FedBehind
<1>5. Native!PictureOfTarget
  BY <1>1, <1>2 DEF Native!PictureOfTarget
<1>6. QED
  BY <1>3, <1>4, <1>5 DEF NativeInv

(* Frames on their way are late as soon as the range is left. *)
LEMMA LateFrames ==
    ASSUME NEW F \in SUBSET Native!Frames
    PROVE  Native!Late(F) \subseteq Native!Frames /\ \A f \in Native!Late(F) : f.late
<1>1. ASSUME NEW f \in F
      PROVE  [f EXCEPT !.late = TRUE] \in Native!Frames /\ [f EXCEPT !.late = TRUE].late
  <2>1. f \in Native!Frames
    OBVIOUS
  <2>2. QED
    BY <2>1 DEF Native!Frames
<1>2. QED
  BY <1>1 DEF Native!Late

LEMMA NativeFails ==
    ASSUME NativeInv, Native!Fail, collector' \in {collector, {}}
    PROVE  NativeInv'
<1>1. /\ pc' = "idle" /\ flying' = Native!Late(flying) /\ targets' = <<>> /\ results' = <<>>
      /\ todo' = {} /\ next_undecoded_idx' = next_undecoded_idx /\ fed' = {} /\ refed' = FALSE
  BY DEF Native!Fail
<1>2. DOMAIN targets' = {} /\ results' = [r \in DOMAIN targets' |-> results'[r]]
  BY <1>1
<1>3. flying \in SUBSET Native!Frames /\ collector' \subseteq Native!Frames
      /\ next_undecoded_idx \in Nat \cup {Native!None}
  BY DEF NativeInv, NativeTypes
<1>4. flying' \subseteq Native!Frames /\ \A f \in flying' : f.late
  BY <1>1, <1>3, LateFrames
<1>5. NativeTypes' /\ UnbrokenRun'
  BY <1>1, <1>2, <1>3, <1>4 DEF NativeTypes, UnbrokenRun
<1>6. OwnFrames' /\ FedBehind'
  BY <1>1, <1>4 DEF OwnFrames, FedBehind
<1>7. Native!PictureOfTarget'
  BY <1>1, <1>2 DEF Native!PictureOfTarget
<1>8. QED
  BY <1>5, <1>6, <1>7 DEF NativeInv

LEMMA NativeCall ==
    ASSUME Native!NativeAssumption, NativeInv, NEW ts \in NativeBatches, Native!Call(ts)
    PROVE  NativeInv'
<1>1. /\ pc = "idle" /\ pc' = "next" /\ UNCHANGED <<flying, collector, chain>>
      /\ targets' = [r \in DOMAIN ts |-> Native!nearest_sample_index(ts[r])]
      /\ todo' = DOMAIN ts /\ results' = [r \in DOMAIN ts |-> Native!None]
      /\ next_undecoded_idx' = Native!None /\ fed' = {} /\ refed' = FALSE
  BY DEF Native!Call
<1>2. /\ flying \subseteq Native!Frames /\ collector \subseteq Native!Frames
      /\ \A f \in flying : f.late
  BY <1>1 DEF NativeInv, NativeTypes, OwnFrames
<1>3. \A r \in DOMAIN ts : Native!nearest_sample_index(ts[r]) \in Native!Samples
  <2>1. \A r \in DOMAIN ts : ts[r] \in Int
    BY DEF Native!NativeAssumption
  <2>2. QED
    BY <2>1, SampleOfTime
<1>4. DOMAIN targets' = DOMAIN ts /\ \A r \in DOMAIN targets' : targets'[r] \in Native!Samples
  BY <1>1, <1>3, Zenon
<1>5. results' = [r \in DOMAIN targets' |-> results'[r]]
  BY <1>1, <1>4
<1>6. NativeTypes' /\ UnbrokenRun'
  BY <1>1, <1>2, <1>4, <1>5 DEF NativeTypes, UnbrokenRun
<1>7. OwnFrames' /\ FedBehind'
  BY <1>1, <1>2 DEF OwnFrames, FedBehind
<1>8. Native!PictureOfTarget'
  BY <1>1 DEF Native!PictureOfTarget, Native!Answered
<1>9. QED
  BY <1>6, <1>7, <1>8 DEF NativeInv

LEMMA NativeBegins ==
    ASSUME Native!NativeAssumption, NativeInv, Native!BeginRange
    PROVE  NativeInv'
<1>1. PICK r \in todo :
        /\ Native!First(r) /\ request' = r
        /\ from' = Native!Start(targets[r]) /\ at' = Native!Start(targets[r])
  BY DEF Native!BeginRange
<1>2. /\ pc = "next" /\ pc' = "feed" /\ collector' = {}
      /\ UNCHANGED <<corrupt, chain, flying, targets, todo, next_undecoded_idx, results,
                     fed, refed, stale>>
  BY DEF Native!BeginRange, Native!sessionVars, Native!history
<1>3. /\ r \in DOMAIN targets /\ targets[r] \in Native!Samples
      /\ next_undecoded_idx \in Nat \cup {Native!None}
  BY DEF NativeInv, NativeTypes
<1> DEFINE s == Native!Start(targets[r])
<1>4. /\ s \in 0 .. targets[r]
      /\ s \in Sync \/ (next_undecoded_idx # Native!None /\ s = next_undecoded_idx)
      /\ next_undecoded_idx # Native!None /\ next_undecoded_idx <= targets[r]
           => s = next_undecoded_idx
  BY <1>3, StartOfRange
<1>5. from' = s /\ at' = s
  BY <1>1
<1> HIDE DEF s
<1>6. targets[r] \in Nat
  <2>1. PICK last \in Nat : Native!Samples = 0 .. last
    BY SamplesCount
  <2>2. QED
    BY <1>3, <2>1
<1>7. NativeTypes'
  BY <1>2 DEF NativeInv, NativeTypes
<1>8. UnbrokenRun'
  <2>1. s \in Sync \/ chain = s - 1
    BY <1>2, <1>4 DEF NativeInv, UnbrokenRun
  <2>2. s \in 0 .. targets[r] /\ s \in s .. targets[r] + 1
    BY <1>4, <1>6
  <2>3. QED
    BY <1>1, <1>2, <1>5, <2>1, <2>2 DEF UnbrokenRun
<1>9. OwnFrames'
  BY <1>2 DEF NativeInv, OwnFrames
<1>10. FedBehind'
  <2>1. fed' \subseteq Nat /\ (Native!Distinct' <=> Native!Distinct)
    BY <1>2 DEF NativeInv, FedBehind, Native!Distinct
  <2>2. ASSUME Native!Distinct
        PROVE  /\ ~refed'
               /\ \A i \in fed : i < s
               /\ \A q \in todo \ {r} : targets[r] < targets[q]
    <3>1. ~refed /\ \A i \in fed, q \in todo :
              /\ next_undecoded_idx # Native!None
              /\ i < next_undecoded_idx /\ next_undecoded_idx <= targets[q]
      BY <1>2, <2>2 DEF NativeInv, FedBehind
    <3>2. \A q \in todo \ {r} : targets[r] # targets[q]
      BY <2>2, <1>3 DEF NativeInv, NativeTypes, Native!Distinct
    <3>3. QED
      BY <1>1, <1>2, <1>4, <3>1, <3>2 DEF Native!First
  <2>3. QED
    BY <1>1, <1>2, <1>5, <2>1, <2>2 DEF FedBehind
<1>11. Native!PictureOfTarget'
  BY <1>2 DEF NativeInv, Native!PictureOfTarget, Native!Answered, Native!Sound
<1>12. QED
  BY <1>7, <1>8, <1>9, <1>10, <1>11 DEF NativeInv

LEMMA NativeFeeds == ASSUME Native!NativeAssumption, NativeInv, Native!Feed PROVE NativeInv'
<1> DEFINE fresh(picture) == [idx |-> at, picture |-> picture, late |-> FALSE]
<1>1. /\ pc = "feed" /\ at <= targets[request] /\ at' = at + 1
      /\ \E picture \in Native!Decodes(at) : flying' = flying \cup {fresh(picture)}
      /\ chain' = IF Native!Intact(at) THEN at ELSE Native!None
      /\ fed' = fed \cup {at} /\ refed' = (refed \/ at \in fed)
      /\ UNCHANGED <<corrupt, opened, collector, pc, targets, todo, request, from,
                     next_undecoded_idx, results, stale>>
  BY DEF Native!Feed, Native!callVars
<1>2. /\ request \in todo /\ from \in 0 .. targets[request]
      /\ at \in from .. targets[request] + 1
      /\ IF at = from THEN from \in Sync \/ chain = from - 1 ELSE chain = at - 1
  BY <1>1 DEF NativeInv, UnbrokenRun
<1>3. PICK last \in Nat : Native!Samples = 0 .. last
  BY SamplesCount
<1>4. targets[request] \in 0 .. last
  BY <1>2, <1>3 DEF NativeInv, NativeTypes
<1>5. Native!Intact(at)
  BY <1>2 DEF Native!Intact
<1>6. at \in 0 .. last /\ from \in Nat /\ from <= at
  BY <1>1, <1>2, <1>4
<1>7. PICK frame \in Native!Frames :
         /\ flying' = flying \cup {frame} /\ frame.idx = at
         /\ Native!Sound(at) => frame.picture = "whole"
  <2>1. PICK picture \in Native!Decodes(at) : flying' = flying \cup {fresh(picture)}
    BY <1>1
  <2>2. /\ picture \in {"whole", "damaged", "error"}
        /\ Native!Sound(at) => picture = "whole"
    BY <1>5 DEF Native!Decodes
  <2>3. fresh(picture) \in Native!Frames /\ fresh(picture).idx = at
        /\ fresh(picture).picture = picture
    BY <1>3, <1>6, <2>2 DEF Native!Frames
  <2>4. QED
    BY <2>1, <2>2, <2>3
<1> HIDE DEF fresh
<1>8. NativeTypes'
  BY <1>1, <1>7 DEF NativeInv, NativeTypes
<1>9. UnbrokenRun'
  <2>1. at + 1 \in from .. targets[request] + 1 /\ at + 1 # from /\ chain' = (at + 1) - 1
    BY <1>1, <1>2, <1>4, <1>5, <1>6
  <2>2. QED
    BY <1>1, <1>2, <2>1 DEF UnbrokenRun
<1>10. OwnFrames'
  <2>1. /\ \A f \in flying \cup collector :
             f.late \/ (f.idx \in from .. at - 1 /\ (Native!Sound(f.idx) => f.picture = "whole"))
        /\ \A f, g \in flying \cup collector : ~f.late /\ ~g.late /\ f.idx = g.idx => f = g
    BY <1>1 DEF NativeInv, OwnFrames
  <2>2. /\ from .. at - 1 \subseteq from .. (at + 1) - 1 /\ at \in from .. (at + 1) - 1
        /\ at \notin from .. at - 1
    BY <1>6
  <2>3. \A i : Native!Sound(i)' <=> Native!Sound(i)
    BY <1>1 DEF Native!Sound
  <2>4. \A f \in flying' \cup collector' :
           f.late \/ (f.idx \in from .. (at + 1) - 1 /\ (Native!Sound(f.idx)' => f.picture = "whole"))
    BY <1>1, <1>7, <2>1, <2>2, <2>3
  <2>5. \A f, g \in flying' \cup collector' : ~f.late /\ ~g.late /\ f.idx = g.idx => f = g
    BY <1>1, <1>7, <2>1, <2>2
  <2>6. QED
    BY <1>1, <2>4, <2>5 DEF OwnFrames
<1>11. FedBehind'
  <2>1. fed' \subseteq Nat
    BY <1>1, <1>6 DEF NativeInv, FedBehind
  <2>2. Native!Distinct' <=> Native!Distinct
    BY <1>1 DEF Native!Distinct
  <2>3. ASSUME Native!Distinct
        PROVE  /\ ~refed' /\ \A i \in fed' : i < at + 1
               /\ \A q \in todo \ {request} : targets[request] < targets[q]
    <3>1. /\ ~refed /\ fed \subseteq Nat /\ \A i \in fed : i < at
          /\ \A q \in todo \ {request} : targets[request] < targets[q]
      BY <1>1, <2>3 DEF NativeInv, FedBehind
    <3>2. ~(at < at) /\ at < at + 1 /\ \A i \in Nat : i < at => i < at + 1
      BY <1>6
    <3>3. ~refed'
      BY <1>1, <3>1, <3>2
    <3>4. \A i \in fed' : i < at + 1
      BY <1>1, <3>1, <3>2
    <3>5. QED
      BY <3>1, <3>3, <3>4
  <2>4. QED
    BY <1>1, <2>1, <2>2, <2>3 DEF FedBehind
<1>12. Native!PictureOfTarget'
  BY <1>1 DEF NativeInv, Native!PictureOfTarget, Native!Answered, Native!Sound
<1>13. QED
  BY <1>8, <1>9, <1>10, <1>11, <1>12 DEF NativeInv

LEMMA NativePushes == ASSUME NativeInv, Native!Push PROVE NativeInv'
<1>1. PICK f \in flying : flying' = flying \ {f} /\ collector' = collector \cup {f}
  BY DEF Native!Push
<1>2. UNCHANGED <<corrupt, opened, chain, pc, at, targets, todo, request, from,
                  next_undecoded_idx, results, fed, refed, stale>>
  BY DEF Native!Push, Native!callVars, Native!history
<1>3. NativeTypes' /\ OwnFrames'
  BY <1>1, <1>2 DEF NativeInv, NativeTypes, OwnFrames, Native!Sound
<1>4. UnbrokenRun' /\ FedBehind' /\ Native!PictureOfTarget'
  BY <1>2 DEF NativeInv, UnbrokenRun, FedBehind, Native!Distinct,
              Native!PictureOfTarget, Native!Answered, Native!Sound
<1>5. QED
  BY <1>3, <1>4 DEF NativeInv

(* Nothing but frames of the range was collected: it is the target's. *)
LEMMA PickedIsTarget ==
    ASSUME Native!NativeAssumption, NativeInv, Native!Waiting, Native!Arrived,
           Native!Sound(targets[request]), \A f \in collector : ~f.late,
           NEW f \in Native!Usable, Native!Nearest(f)
    PROVE  f.picture = "whole" /\ f.idx = targets[request]
<1>1. /\ pc = "feed" /\ at > targets[request]
      /\ request \in todo /\ from \in 0 .. targets[request]
      /\ at \in from .. targets[request] + 1
  BY DEF Native!Waiting, NativeInv, UnbrokenRun
<1>2. PICK last \in Nat : Native!Samples = 0 .. last
  BY SamplesCount
<1>3. targets[request] \in Native!Samples /\ targets[request] \in 0 .. last
  BY <1>1, <1>2 DEF NativeInv, NativeTypes
<1>4. from \in Nat /\ at \in Nat /\ from <= at /\ targets[request] \in from .. at - 1
  BY <1>1, <1>3
<1>5. /\ collector \in SUBSET Native!Frames
      /\ \A g \in collector :
           g.idx \in from .. at - 1 /\ (Native!Sound(g.idx) => g.picture = "whole")
      /\ \A g, h \in collector : g.idx = h.idx => g = h
  BY <1>1 DEF NativeInv, NativeTypes, OwnFrames
<1>6. Cardinality(collector) >= at - from
  BY NativeCounts DEF Native!Arrived
<1>7. PICK best \in collector : best.idx = targets[request]
  BY <1>4, <1>5, <1>6, AllArrived
<1>8. best \in Native!Usable /\ best.idx = targets[request]
  BY <1>5, <1>7 DEF Native!Usable
<1>9. f \in collector /\ f.idx \in Native!Samples
  BY <1>5 DEF Native!Usable, Native!Frames
<1>10. Native!Abs(Pts[f.idx] - Pts[targets[request]])
         <= Native!Abs(Pts[targets[request]] - Pts[targets[request]])
  BY <1>8 DEF Native!Nearest
<1>11. Pts[f.idx] \in Int /\ Pts[targets[request]] \in Int
  BY <1>3, <1>9 DEF Native!NativeAssumption
<1>12. Pts[f.idx] = Pts[targets[request]]
  BY <1>10, <1>11 DEF Native!Abs
<1>13. f.idx = targets[request]
  BY <1>3, <1>9, <1>12 DEF Native!NativeAssumption
<1>14. QED
  BY <1>5, <1>9, <1>13

LEMMA NativePicks == ASSUME Native!NativeAssumption, NativeInv, Native!Pick PROVE NativeInv'
<1>1. /\ Native!Waiting /\ Native!Arrived
      /\ stale' = (stale \/ \E f \in collector : f.late)
      /\ todo' = todo \ {request} /\ next_undecoded_idx' = targets[request] + 1
      /\ collector' = {} /\ flying' = Native!Late(flying) /\ pc' = "next"
      /\ UNCHANGED <<corrupt, opened, chain, at, targets, request, from, fed, refed>>
  BY DEF Native!Pick
<1>2. PICK f \in Native!Usable :
         /\ Native!Nearest(f)
         /\ results' = [results EXCEPT ![request] = IF f.picture = "whole" THEN f.idx ELSE Native!None]
  BY DEF Native!Pick
<1>3. /\ pc = "feed" /\ at > targets[request]
      /\ request \in todo /\ from \in 0 .. targets[request]
      /\ at \in from .. targets[request] + 1
      /\ IF at = from THEN from \in Sync \/ chain = from - 1 ELSE chain = at - 1
  BY <1>1 DEF Native!Waiting, NativeInv, UnbrokenRun
<1>4. PICK last \in Nat : Native!Samples = 0 .. last
  BY SamplesCount
<1>5. request \in DOMAIN targets /\ targets[request] \in 0 .. last
  BY <1>3, <1>4 DEF NativeInv, NativeTypes
<1>6. at = targets[request] + 1 /\ chain = at - 1 /\ at \in Nat
  BY <1>3, <1>5
<1>7. results = [r \in DOMAIN targets |-> results[r]] /\ flying \in SUBSET Native!Frames
  BY DEF NativeInv, NativeTypes
<1>8. flying' \subseteq Native!Frames /\ \A g \in flying' : g.late
  BY <1>1, <1>7, LateFrames
<1>9. /\ results' = [r \in DOMAIN targets |-> results'[r]]
      /\ results'[request] = IF f.picture = "whole" THEN f.idx ELSE Native!None
      /\ \A r \in DOMAIN targets : r # request => results'[r] = results[r]
      /\ DOMAIN results' = DOMAIN targets
  BY <1>2, <1>5, <1>7
<1>10. NativeTypes'
  BY <1>1, <1>6, <1>8, <1>9 DEF NativeInv, NativeTypes
<1>11. UnbrokenRun'
  BY <1>1, <1>6 DEF UnbrokenRun
<1>12. OwnFrames'
  BY <1>1, <1>8 DEF OwnFrames
<1>13. FedBehind'
  <2>1. fed' \subseteq Nat /\ (Native!Distinct' <=> Native!Distinct)
    BY <1>1 DEF NativeInv, FedBehind, Native!Distinct
  <2>2. ASSUME Native!Distinct
        PROVE  /\ ~refed
               /\ \A i \in fed, q \in todo \ {request} :
                    /\ at # Native!None /\ i < at /\ at <= targets[q]
    <3>1. /\ ~refed /\ \A i \in fed : i < at
          /\ \A q \in todo \ {request} : targets[request] < targets[q]
      BY <1>3, <2>2 DEF NativeInv, FedBehind
    <3>2. \A q \in todo : targets[q] \in 0 .. last
      BY <1>4 DEF NativeInv, NativeTypes
    <3>3. QED
      BY <1>5, <1>6, <3>1, <3>2 DEF Native!None
  <2>3. QED
    BY <1>1, <1>6, <2>1, <2>2 DEF FedBehind
<1>14. Native!PictureOfTarget'
  <2>1. SUFFICES ASSUME ~stale', NEW r \in DOMAIN results', r \notin todo',
                        Native!Sound(targets[r])
                 PROVE  results'[r] = targets[r]
    BY <1>1 DEF Native!PictureOfTarget, Native!Answered, Native!Sound
  <2>2. ~stale /\ \A g \in collector : ~g.late
    BY <1>1, <2>1
  <2>3. CASE r = request
    <3>1. f.picture = "whole" /\ f.idx = targets[request]
      BY <1>1, <1>2, <2>1, <2>2, <2>3, PickedIsTarget
    <3>2. QED
      BY <1>9, <2>3, <3>1
  <2>4. CASE r # request
    <3>1. r \in DOMAIN results /\ r \notin todo
      BY <1>1, <1>7, <1>9, <2>1, <2>4
    <3>2. results[r] = targets[r]
      BY <2>1, <2>2, <3>1 DEF NativeInv, Native!PictureOfTarget, Native!Answered, Native!Sound
    <3>3. QED
      BY <1>9, <2>1, <2>4, <3>2
  <2>5. QED
    BY <2>3, <2>4
<1>15. QED
  BY <1>10, <1>11, <1>12, <1>13, <1>14 DEF NativeInv

LEMMA NativeReturns == ASSUME NativeInv, Native!Return PROVE NativeInv'
<1>1. /\ pc = "next" /\ todo = {} /\ pc' = "idle"
      /\ UNCHANGED <<corrupt, chain, flying, collector, at, targets, todo, request, from,
                     next_undecoded_idx, results, fed, refed, stale>>
  BY DEF Native!Return, Native!sessionVars, Native!callVars, Native!history
<1>2. NativeTypes' /\ UnbrokenRun' /\ OwnFrames'
  BY <1>1 DEF NativeInv, NativeTypes, UnbrokenRun, OwnFrames, Native!Sound
<1>3. FedBehind' /\ Native!PictureOfTarget'
  BY <1>1 DEF NativeInv, FedBehind, Native!Distinct, Native!PictureOfTarget, Native!Answered, Native!Sound
<1>4. QED
  BY <1>2, <1>3 DEF NativeInv

LEMMA NativeStutters ==
    ASSUME NativeInv,
           UNCHANGED <<corrupt, chain, flying, collector, pc, targets, todo, request, from, at,
                       next_undecoded_idx, results, fed, refed, stale>>
    PROVE  NativeInv'
<1>1. NativeTypes' /\ UnbrokenRun' /\ OwnFrames'
  BY DEF NativeInv, NativeTypes, UnbrokenRun, OwnFrames, Native!Sound
<1>2. FedBehind' /\ Native!PictureOfTarget'
  BY DEF NativeInv, FedBehind, Native!Distinct, Native!PictureOfTarget, Native!Answered, Native!Sound
<1>3. QED
  BY <1>1, <1>2 DEF NativeInv

LEMMA NativeNext ==
    ASSUME Native!NativeAssumption, NativeInv, Native!Next \/ UNCHANGED nativeVars
    PROVE  NativeInv'
<1>1. CASE UNCHANGED nativeVars
  BY <1>1, NativeStutters DEF nativeVars
<1>2. CASE Native!OpenFails
  BY <1>2, NativeStutters DEF Native!OpenFails, Native!sessionVars, Native!history
<1>3. CASE \E ts \in NativeBatches : Native!Call(ts)
  BY <1>3, NativeCall
<1>4. CASE Native!FeedFails \/ Native!TimesOut \/ Native!NoUsableFrame
  BY <1>4, NativeFails DEF Native!FeedFails, Native!TimesOut, Native!NoUsableFrame
<1>5. QED
  BY <1>1, <1>2, <1>3, <1>4, NativeBegins, NativeFeeds, NativePushes, NativePicks, NativeReturns
     DEF Native!Next

LEMMA NativeKept == ASSUME Native!NativeAssumption PROVE Spec => []NativeInv
<1>1. Init => NativeInv
  BY NativeInit DEF Init
<1>2. NativeInv /\ [Next]_vars => NativeInv'
  BY Steps, NativeNext
<1>3. QED
  BY <1>1, <1>2, PTL DEF Spec

(* "Decodes the frame nearest timestamp_s" (videotoolbox_native.rs): whatever
   the order of the requests and of the callbacks and whatever other samples give
   no picture or a damaged one, a request for a sample that is sound, as is all it
   refers to, is answered with that sample's picture decoded from all it refers
   to, as long as no frame of a call that failed was collected. *)
THEOREM RequestsGetTheirPicture ==
    ASSUME Native!NativeAssumption PROVE Spec => []PictureOfTarget
<1>1. NativeInv => PictureOfTarget
  BY DEF NativeInv, PictureOfTarget
<1>2. QED
  BY <1>1, NativeKept, PTL

(* decode_batch_at avoids "redundant re-decode of already-decoded GOP
   prefixes": with a sample asked for once, no sample is fed twice. *)
THEOREM SamplesFedOnce == ASSUME Native!NativeAssumption PROVE Spec => []NoRedecode
<1>1. NativeInv => NoRedecode
  BY DEF NativeInv, FedBehind, NoRedecode, Native!NoRedecode
<1>2. QED
  BY <1>1, NativeKept, PTL

-----------------------------------------------------------------------------
(* ffmpeg and the cache of decoded frames.                                     *)
LEMMA FfmpegCounts ==
    \A S : /\ Ffmpeg!Cardinality(S) = Cardinality(S)
           /\ Ffmpeg!IsFiniteSet(S) <=> IsFiniteSet(S)
BY DEF Ffmpeg!Cardinality, Cardinality, Ffmpeg!IsFiniteSet, IsFiniteSet

LEMMA PicturesCount ==
    ASSUME Ffmpeg!FfmpegAssumption
    PROVE  \E last \in Nat : Ffmpeg!Pictures = 0 .. last
<1>1. /\ IsFiniteSet(Ffmpeg!Pictures) /\ 0 \in Ffmpeg!Pictures
      /\ Ffmpeg!Pictures = 0 .. Cardinality(Ffmpeg!Pictures) - 1
  BY FfmpegCounts DEF Ffmpeg!FfmpegAssumption
<1>2. Cardinality(Ffmpeg!Pictures) \in Nat
  BY <1>1, FS_CardinalityType
<1> DEFINE n == Cardinality(Ffmpeg!Pictures)
<1>3. n \in Nat /\ 0 \in 0 .. n - 1 /\ Ffmpeg!Pictures = 0 .. n - 1
  BY <1>1, <1>2, Zenon
<1> HIDE DEF n
<1>4. n - 1 \in Nat
  BY <1>3
<1>5. QED
  BY <1>3, <1>4

LEMMA LeastIs ==
    ASSUME NEW S \in SUBSET Nat, NEW n \in S, \A m \in S : n <= m
    PROVE  Ffmpeg!Least(S) = n
<1>1. \E i \in S : \A j \in S : i <= j
  OBVIOUS
<1>2. Ffmpeg!Least(S) \in S /\ \A j \in S : Ffmpeg!Least(S) <= j
  BY <1>1, Zenon DEF Ffmpeg!Least
<1> DEFINE k == Ffmpeg!Least(S)
<1>3. k \in S /\ k <= n /\ n <= k
  BY <1>2
<1> HIDE DEF k
<1>4. k = n
  BY <1>3
<1>5. QED
  BY <1>4 DEF k

LEMMA LeastOf ==
    ASSUME NEW S \in SUBSET Nat, S # {}
    PROVE  Ffmpeg!Least(S) \in S /\ \A m \in S : Ffmpeg!Least(S) <= m
<1>1. \E i \in S : \A j \in S : i <= j
  BY LeastElement
<1>2. QED
  BY <1>1, Zenon DEF Ffmpeg!Least

LEMMA GreatestOf ==
    ASSUME NEW last \in Nat, NEW S \in SUBSET (0 .. last), S # {}
    PROVE  Ffmpeg!Greatest(S) \in S /\ \A m \in S : m <= Ffmpeg!Greatest(S)
<1>1. \E i \in S : \A j \in S : j <= i
  BY GreatestElement
<1>2. QED
  BY <1>1, Zenon DEF Ffmpeg!Greatest

LEMMA NearestPicture ==
    ASSUME Ffmpeg!FfmpegAssumption, NEW t \in Asked
    PROVE  /\ Ffmpeg!nearest_sample_index(t) \in Ffmpeg!Pictures
           /\ Ffmpeg!OnFrame(t) =>
                Ffmpeg!nearest_sample_index(t) = Ffmpeg!Least(Ffmpeg!Seek(t))
<1>1. PICK last \in Nat : Ffmpeg!Pictures = 0 .. last
  BY PicturesCount
<1>2. t \in Int /\ (\A i \in 0 .. last : Times[i] \in Int)
      /\ \A i, j \in 0 .. last : i < j => Times[i] < Times[j]
  BY <1>1 DEF Ffmpeg!FfmpegAssumption
<1> DEFINE Off == [i \in 0 .. last |-> Ffmpeg!Off(i, t)]
           Near == {i \in 0 .. last : \A j \in 0 .. last : Off[i] <= Off[j]}
<1>3. \A i \in 0 .. last : Off[i] \in Nat /\ (Off[i] = 0 <=> Times[i] = t)
  BY <1>2 DEF Ffmpeg!Off, Ffmpeg!Far
<1>4. Ffmpeg!nearest_sample_index(t) = Ffmpeg!Least(Near)
  BY <1>1 DEF Ffmpeg!nearest_sample_index
<1> HIDE DEF Off
<1>5. Near \in SUBSET Nat
  OBVIOUS
<1>6. Near # {}
  <2>1. \A i \in 0 .. last : Off[i] \in Int
    BY <1>3
  <2>2. PICK i \in 0 .. last :
           \A j \in 0 .. last : Off[i] < Off[j] \/ (Off[i] = Off[j] /\ i <= j)
    BY <2>1, FirstSmallest
  <2>3. i \in Near
    BY <2>1, <2>2
  <2>4. QED
    BY <2>3
<1>7. Ffmpeg!Least(Near) \in Near
  <2> HIDE DEF Near
  <2> QED BY <1>5, <1>6, LeastOf
<1>8. ASSUME Ffmpeg!OnFrame(t) PROVE Ffmpeg!Least(Near) = Ffmpeg!Least(Ffmpeg!Seek(t))
  <2>1. PICK i \in 0 .. last : Times[i] = t
    BY <1>1, <1>8 DEF Ffmpeg!OnFrame
  <2>2. Off[i] = 0
    BY <1>3, <2>1
  <2>3. \A j \in Near : Off[j] = 0
    BY <1>3, <2>2
  <2>4. \A j \in Near : j = i
    <3>1. ASSUME NEW j \in Near PROVE j = i
      <4>1. j \in 0 .. last /\ Times[j] = t
        BY <1>3, <2>3
      <4>2. ~(j < i) /\ ~(i < j)
        BY <1>2, <2>1, <4>1
      <4>3. QED
        BY <4>1, <4>2
    <3>2. QED
      BY <3>1
  <2>5. Ffmpeg!Least(Near) = i
    BY <1>7, <2>4
  <2>6. /\ Ffmpeg!Seek(t) \in SUBSET Nat /\ i \in Ffmpeg!Seek(t)
        /\ \A j \in Ffmpeg!Seek(t) : i <= j
    <3>1. Ffmpeg!Seek(t) = {j \in 0 .. last : Times[j] >= t}
      BY <1>1 DEF Ffmpeg!Seek
    <3>2. i \in Ffmpeg!Seek(t)
      BY <1>2, <2>1, <3>1
    <3>3. ASSUME NEW j \in Ffmpeg!Seek(t) PROVE i <= j
      <4>1. j \in 0 .. last /\ Times[j] >= t
        BY <3>1
      <4>2. ~(j < i)
        BY <1>2, <2>1, <4>1
      <4>3. QED
        BY <4>1, <4>2
    <3>4. Ffmpeg!Seek(t) \in SUBSET Nat
      BY <3>1
    <3>5. QED
      BY <3>2, <3>3, <3>4
  <2>7. Ffmpeg!Least(Ffmpeg!Seek(t)) = i
    BY <2>6, LeastIs
  <2>8. QED
    BY <2>5, <2>7
<1>9. QED
  BY <1>1, <1>4, <1>7, <1>8

(* The one run writes every frame the batch needs: it starts at the keyframe of
   the earliest target and ends with the latest. *)
LEMMA SpanCovers ==
    ASSUME Ffmpeg!FfmpegAssumption, NEW S \in SUBSET Ffmpeg!Pictures, NEW i \in S
    PROVE  Ffmpeg!InOutput(Ffmpeg!Span(S), i)
<1>1. PICK last \in Nat : Ffmpeg!Pictures = 0 .. last
  BY PicturesCount
<1>2. S \in SUBSET (0 .. last) /\ S \in SUBSET Nat /\ S # {}
  BY <1>1
<1> DEFINE low == Ffmpeg!Least(S)
           high == Ffmpeg!Greatest(S)
           before == {k \in Keyframes : k <= low}
           start == Ffmpeg!keyframe_walkback(low)
<1>3. low \in S /\ low <= i
  BY <1>2, LeastOf
<1>4. high \in S /\ i <= high
  BY <1>2, GreatestOf
<1>5. start \in before
  <2>1. Keyframes \subseteq 0 .. last /\ 0 \in Keyframes
    BY <1>1 DEF Ffmpeg!FfmpegAssumption
  <2>2. low \in Nat
    BY <1>2, <1>3
  <2> HIDE DEF low
  <2>3. 0 \in before
    BY <2>1, <2>2
  <2>4. before \in SUBSET (0 .. last) /\ before # {}
    BY <2>1, <2>3
  <2>5. Ffmpeg!Greatest(before) \in before
    <3> HIDE DEF before
    <3> QED BY <2>4, GreatestOf
  <2>6. QED
    BY <2>5 DEF Ffmpeg!keyframe_walkback
<1>6. /\ Ffmpeg!Span(S).start = start
      /\ Ffmpeg!Span(S).count = high - start + 1
  BY DEF Ffmpeg!Span
<1>7. start \in 0 .. last /\ start <= low
  BY <1>1, <1>5 DEF Ffmpeg!FfmpegAssumption
<1> HIDE DEF low, high, start
<1>8. i - start \in 0 .. (high - start + 1) - 1
  <2>1. i \in 0 .. last /\ low \in 0 .. last /\ high \in 0 .. last
    BY <1>2, <1>3, <1>4
  <2>2. QED
    BY <1>3, <1>4, <1>7, <2>1
<1>9. QED
  BY <1>6, <1>8 DEF Ffmpeg!InOutput

Cached == {[key |-> Ffmpeg!Key(c, t), frame |-> Ffmpeg!Decoded(c, t)] : c \in Cameras, t \in Asked}

(* Every cached frame is what its key decodes to. *)
FfmpegInv == lru \in Seq(Cached) /\ Ffmpeg!BatchMatchesDecode

LEMMA CachedIs ==
    ASSUME NEW e \in Cached, NEW c \in Cameras, NEW t \in Asked, e.key = Ffmpeg!Key(c, t)
    PROVE  e.frame = Ffmpeg!Decoded(c, t)
<1>1. PICK d \in Cameras, u \in Asked :
         e = [key |-> Ffmpeg!Key(d, u), frame |-> Ffmpeg!Decoded(d, u)]
  BY DEF Cached
<1>2. <<d, u>> = <<c, t>>
  BY <1>1 DEF Ffmpeg!Key
<1>3. d = c /\ u = t
  BY <1>2
<1>4. QED
  BY <1>1, <1>3

LEMMA HitIs ==
    ASSUME lru \in Seq(Cached), NEW c \in Cameras, NEW t \in Asked, NEW i \in Ffmpeg!Hits(c, t)
    PROVE  i \in 1 .. Len(lru) /\ lru[i] \in Cached /\ lru[i].frame = Ffmpeg!Decoded(c, t)
<1>1. i \in 1 .. Len(lru) /\ lru[i] \in Cached /\ lru[i].key = Ffmpeg!Key(c, t)
  BY DEF Ffmpeg!Hits
<1>2. QED
  BY <1>1, CachedIs

(* One frame is not the error of a batch, nor what a failed call leaves. *)
LEMMA NoFrameIsNone ==
    \A c, t, i : [camera |-> c, time |-> t, picture |-> i] # Ffmpeg!None
<1>1. ASSUME NEW c, NEW t, NEW i PROVE [camera |-> c, time |-> t, picture |-> i] # <<>>
  <2>1. "camera" \in DOMAIN [camera |-> c, time |-> t, picture |-> i] /\ DOMAIN <<>> = {}
    OBVIOUS
  <2>2. QED
    BY <2>1
<1>2. QED
  BY <1>1 DEF Ffmpeg!None

LEMMA AnswerOfOne ==
    ASSUME NEW c, NEW t, answer' = <<Ffmpeg!Decoded(c, t)>>,
           asked' = <<[camera |-> c, time |-> t]>>
    PROVE  Ffmpeg!BatchMatchesDecode'
<1>1. answer' # Ffmpeg!OutOfOutput
  <2>1. Ffmpeg!Decoded(c, t) # Ffmpeg!None
    BY NoFrameIsNone DEF Ffmpeg!Decoded
  <2>2. QED
    BY <2>1 DEF Ffmpeg!OutOfOutput
<1>2. DOMAIN asked' = {1} /\ asked'[1].camera = c /\ asked'[1].time = t
      /\ answer'[1] = Ffmpeg!Decoded(c, t)
  OBVIOUS
<1>3. \A r \in DOMAIN asked' : answer'[r] = Ffmpeg!Decoded(asked'[r].camera, asked'[r].time)
  BY <1>2
<1>4. QED
  BY <1>1, <1>3 DEF Ffmpeg!BatchMatchesDecode

LEMMA AnswerNone == ASSUME answer' = Ffmpeg!None PROVE Ffmpeg!BatchMatchesDecode'
BY DEF Ffmpeg!BatchMatchesDecode, Ffmpeg!OutOfOutput, Ffmpeg!None

LEMMA FfmpegHit ==
    ASSUME FfmpegInv, NEW c \in Cameras, NEW t \in Asked, Ffmpeg!Hit(c, t) PROVE FfmpegInv'
<1>1. PICK i \in Ffmpeg!Hits(c, t) :
        /\ lru' = <<lru[i]>> \o Ffmpeg!RemoveAt(lru, i)
        /\ answer' = <<lru[i].frame>>
        /\ asked' = <<[camera |-> c, time |-> t]>>
  BY DEF Ffmpeg!Hit
<1>2. i \in 1 .. Len(lru) /\ lru[i] \in Cached /\ lru[i].frame = Ffmpeg!Decoded(c, t)
      /\ lru \in Seq(Cached)
  BY HitIs DEF FfmpegInv
<1>3. Ffmpeg!RemoveAt(lru, i) = SubSeq(lru, 1, i - 1) \o SubSeq(lru, i + 1, Len(lru))
  BY DEF Ffmpeg!RemoveAt
<1>4. /\ SubSeq(lru, 1, i - 1) \in Seq(Cached)
      /\ SubSeq(lru, i + 1, Len(lru)) \in Seq(Cached)
  BY <1>2, SubSeqProperties
<1>5. Ffmpeg!RemoveAt(lru, i) \in Seq(Cached)
  BY <1>3, <1>4, ConcatProperties
<1>6. <<lru[i]>> \in Seq(Cached)
  BY <1>2
<1>7. lru' \in Seq(Cached)
  BY <1>1, <1>5, <1>6, ConcatProperties
<1>8. Ffmpeg!BatchMatchesDecode'
  BY <1>1, <1>2, AnswerOfOne
<1>9. QED
  BY <1>7, <1>8 DEF FfmpegInv

LEMMA FfmpegMiss ==
    ASSUME Ffmpeg!FfmpegAssumption, FfmpegInv, NEW c \in Cameras, NEW t \in Asked,
           Ffmpeg!Miss(c, t)
    PROVE  FfmpegInv'
<1> DEFINE fresh == [key |-> Ffmpeg!Key(c, t), frame |-> Ffmpeg!Decoded(c, t)]
           all == <<fresh>> \o lru
           kept == IF Len(all) > Ffmpeg!Capacity THEN Ffmpeg!Capacity ELSE Len(all)
<1>1. /\ lru' = SubSeq(all, 1, kept) /\ answer' = <<Ffmpeg!Decoded(c, t)>>
      /\ asked' = <<[camera |-> c, time |-> t]>>
  BY DEF Ffmpeg!Miss
<1>2. <<fresh>> \in Seq(Cached) /\ lru \in Seq(Cached)
  <2>1. fresh \in Cached
    BY DEF Cached
  <2> HIDE DEF fresh
  <2>2. QED
    BY <2>1 DEF FfmpegInv
<1> HIDE DEF fresh
<1>3. all \in Seq(Cached)
  BY <1>2, ConcatProperties
<1>4. kept \in Nat /\ kept <= Len(all)
  BY <1>3 DEF Ffmpeg!Capacity, Ffmpeg!FfmpegAssumption
<1> HIDE DEF all, kept
<1>5. SubSeq(all, 1, kept) \in Seq(Cached)
  <2>1. \A k \in 1 .. kept : all[k] \in Cached
    BY <1>3, <1>4
  <2>2. QED
    BY <1>4, <2>1, SubSeqProperties
<1>6. Ffmpeg!BatchMatchesDecode'
  BY <1>1, AnswerOfOne
<1>7. QED
  BY <1>1, <1>5, <1>6 DEF FfmpegInv

LEMMA FfmpegBatch ==
    ASSUME Ffmpeg!FfmpegAssumption, FfmpegInv, NEW c \in Cameras, NEW ts \in FfmpegBatches,
           Ffmpeg!decode_batch(c, ts)
    PROVE  FfmpegInv'
<1> DEFINE target(t) == Ffmpeg!nearest_sample_index(t)
           all == {target(ts[r]) : r \in DOMAIN ts}
<1>1. ts \in Seq(Asked) /\ ts # <<>> /\ \A r \in DOMAIN ts : ts[r] \in Asked
  BY DEF Ffmpeg!decode_batch, Ffmpeg!FfmpegAssumption
<1>2. \A r \in DOMAIN ts : target(ts[r]) \in Ffmpeg!Pictures
  BY <1>1, NearestPicture
<1>3. \A r \in DOMAIN ts : Ffmpeg!InOutput(Ffmpeg!Span(all), target(ts[r]))
  <2>1. all \in SUBSET Ffmpeg!Pictures /\ \A r \in DOMAIN ts : target(ts[r]) \in all
    BY <1>2
  <2> HIDE DEF all, target
  <2>2. QED
    BY <2>1, SpanCovers
<1>4. /\ answer' = [r \in DOMAIN ts |->
                      [camera |-> c, time |-> ts[r], picture |-> target(ts[r])]]
      /\ asked' = [r \in DOMAIN ts |-> [camera |-> c, time |-> ts[r]]]
      /\ lru' = lru
  BY <1>3 DEF Ffmpeg!decode_batch
<1> HIDE DEF target
<1>5. answer' # Ffmpeg!OutOfOutput
  <2>1. 1 \in DOMAIN ts
    BY <1>1
  <2>2. answer'[1] # Ffmpeg!None
    BY <1>4, <2>1, NoFrameIsNone
  <2>3. QED
    BY <2>2 DEF Ffmpeg!OutOfOutput
<1>6. ASSUME NEW r \in DOMAIN asked', Ffmpeg!OnFrame(asked'[r].time)
      PROVE  answer'[r] = Ffmpeg!Decoded(asked'[r].camera, asked'[r].time)
  <2>1. r \in DOMAIN ts /\ asked'[r].camera = c /\ asked'[r].time = ts[r]
    BY <1>4, <1>6
  <2>2. target(ts[r]) = Ffmpeg!Least(Ffmpeg!Seek(ts[r]))
    BY <1>1, <1>6, <2>1, NearestPicture DEF target
  <2>3. QED
    BY <1>4, <2>1, <2>2 DEF Ffmpeg!Decoded
<1>7. Ffmpeg!BatchMatchesDecode'
  BY <1>5, <1>6 DEF Ffmpeg!BatchMatchesDecode, Ffmpeg!OnFrame, Ffmpeg!Pictures
<1>8. QED
  BY <1>4, <1>7 DEF FfmpegInv

LEMMA FfmpegNext ==
    ASSUME Ffmpeg!FfmpegAssumption, FfmpegInv, Ffmpeg!Next \/ UNCHANGED ffmpegVars
    PROVE  FfmpegInv'
<1>1. CASE UNCHANGED ffmpegVars
  BY <1>1 DEF ffmpegVars, FfmpegInv, Ffmpeg!BatchMatchesDecode
<1>2. ASSUME NEW c \in Cameras, NEW t \in Asked, Ffmpeg!MissFails(c, t) PROVE FfmpegInv'
  BY <1>2, AnswerNone DEF Ffmpeg!MissFails, FfmpegInv
<1>3. CASE Ffmpeg!BatchFails
  BY <1>3, AnswerNone DEF Ffmpeg!BatchFails, FfmpegInv
<1>4. QED
  BY <1>1, <1>2, <1>3, FfmpegHit, FfmpegMiss, FfmpegBatch DEF Ffmpeg!Next, Ffmpeg!get_or_decode

LEMMA FfmpegKept == ASSUME Ffmpeg!FfmpegAssumption PROVE Spec => []FfmpegInv
<1>1. Init => FfmpegInv
  <2>1. SUFFICES ASSUME Ffmpeg!Init PROVE FfmpegInv
    BY DEF Init
  <2>2. lru \in Seq(Cached)
    BY <2>1 DEF Ffmpeg!Init
  <2>3. Ffmpeg!BatchMatchesDecode
    BY <2>1 DEF Ffmpeg!Init, Ffmpeg!BatchMatchesDecode, Ffmpeg!OutOfOutput, Ffmpeg!None
  <2>4. QED
    BY <2>2, <2>3 DEF FfmpegInv
<1>2. FfmpegInv /\ [Next]_vars => FfmpegInv'
  BY Steps, FfmpegNext
<1>3. QED
  BY <1>1, <1>2, PTL DEF Spec

(* FrameCache (decode.rs): a hit is what its decoder would give for that camera
   and that time, whatever was evicted and whichever runs failed. *)
THEOREM CachedFramesAreFresh ==
    ASSUME Ffmpeg!FfmpegAssumption PROVE Spec => []CacheTransparent
<1>1. FfmpegInv => CacheTransparent
  BY HitIs DEF FfmpegInv, CacheTransparent, Ffmpeg!CacheTransparent
<1>2. QED
  BY <1>1, FfmpegKept, PTL

(* decode_batch, "verified pixel-identical to decode() in a loop" (decode.rs):
   the one run of ffmpeg writes every frame the batch needs, and a batch of
   frame times answers what decode answers, request by request. *)
THEOREM BatchesMatchDecode ==
    ASSUME Ffmpeg!FfmpegAssumption PROVE Spec => []BatchMatchesDecode
<1>1. FfmpegInv => BatchMatchesDecode
  BY DEF FfmpegInv, BatchMatchesDecode
<1>2. QED
  BY <1>1, FfmpegKept, PTL

-----------------------------------------------------------------------------
(* Which decoder answers.                                                      *)
RoutePictures == [file : DOMAIN Codec, time : Timestamps, pixels : {"Owned", "IOSurface"}]
RouteCalls == [file : DOMAIN Codec \cup {"none"}, asked : Seq(Timestamps), left : Seq(Timestamps)]

RouteTypes ==
    /\ call \in RouteCalls
    /\ frames \in Seq(RoutePictures) \cup {Route!Failed}
    /\ call.left # <<>> => call.file \in DOMAIN Codec

(* What is decoded and what is left make up what was asked; only a file of AV1
   is ever half done, for the native decoder takes all that is left. *)
CallUnderway ==
    call.left # <<>> =>
        /\ frames \in Seq(RoutePictures)
        /\ Len(call.asked) = Len(frames) + Len(call.left)
        /\ \A k \in 1 .. Len(frames) : frames[k] = Route!Frame(call.file, call.asked[k], "Owned")
        /\ \A k \in 1 .. Len(call.left) : call.left[k] = call.asked[Len(frames) + k]
        /\ frames # <<>> => Codec[call.file] = "av1"

(* What open takes is no AV1. *)
NativeTakes == \A f \in files : Codec[f] \in {"h264", "hevc"}

(* The frames of a whole call. *)
AnswerOf(pixels) == [k \in DOMAIN call.asked |-> Route!Frame(call.file, call.asked[k], pixels)]

AnsweredInOrder ==
    call.left = <<>> /\ frames # Route!Failed =>
        frames = AnswerOf(IF Codec[call.file] = "av1" THEN "Owned" ELSE "IOSurface")

RouteInv == RouteTypes /\ CallUnderway /\ NativeTakes /\ AnsweredInOrder

LEMMA CallShortened ==
    ASSUME NEW c \in RouteCalls, NEW l \in Seq(Timestamps)
    PROVE  LET d == [c EXCEPT !.left = l]
           IN  d \in RouteCalls /\ d.file = c.file /\ d.asked = c.asked /\ d.left = l
BY DEF RouteCalls

(* A call that fails leaves its answer, whatever it had decoded. *)
LEMMA RouteFails ==
    ASSUME RouteInv, call.left # <<>>, NEW open, NEW probed,
           open \subseteq files \cup {f \in {call.file} : Route!Opens}, Route!CallFails(open, probed)
    PROVE  RouteInv'
<1>1. /\ call' = [call EXCEPT !.left = <<>>] /\ frames' = Route!Failed /\ files' = open
  BY DEF Route!CallFails
<1>2. call' \in RouteCalls /\ call'.left = <<>>
  <2>1. call \in RouteCalls /\ <<>> \in Seq(Timestamps)
    BY DEF RouteInv, RouteTypes
  <2>2. QED
    BY <1>1, <2>1, CallShortened
<1>3. NativeTakes'
  BY <1>1 DEF RouteInv, NativeTakes, Route!Opens
<1>4. QED
  BY <1>1, <1>2, <1>3 DEF RouteInv, RouteTypes, CallUnderway, AnsweredInOrder

LEMMA RouteBegins ==
    ASSUME RouteInv, NEW file \in DOMAIN Codec, NEW ts \in Route!BoundedSeq(Timestamps, MaxBatch),
           MaxBatch \in Nat, Route!Begin(file, ts)
    PROVE  RouteInv'
<1>1. ts \in Seq(Timestamps)
  BY DEF Route!BoundedSeq, Route!SeqOf
<1>2. /\ call' = [file |-> file, asked |-> ts, left |-> ts]
      /\ frames' = <<>> /\ files' = files
  BY DEF Route!Begin
<1>3. call' \in RouteCalls /\ call'.file = file /\ call'.asked = ts /\ call'.left = ts
  BY <1>1, <1>2 DEF RouteCalls
<1>4. frames' \in Seq(RoutePictures) /\ Len(frames') = 0
  BY <1>2
<1>5. RouteTypes' /\ NativeTakes'
  BY <1>2, <1>3, <1>4 DEF RouteInv, RouteTypes, NativeTakes
<1>6. CallUnderway'
  BY <1>1, <1>2, <1>3, <1>4 DEF CallUnderway
<1>7. AnsweredInOrder'
  <2>1. SUFFICES ASSUME ts = <<>>
                 PROVE  \A pixels : <<>> = [k \in DOMAIN ts |-> Route!Frame(file, ts[k], pixels)]
    BY <1>2, <1>3 DEF AnsweredInOrder, AnswerOf
  <2>2. QED
    BY <2>1
<1>8. QED
  BY <1>5, <1>6, <1>7 DEF RouteInv

LEMMA RouteDecodesAv1 == ASSUME RouteInv, Route!DecodeAv1 PROVE RouteInv'
<1>1. call.left # <<>> /\ Codec[call.file] = "av1"
  BY DEF Route!DecodeAv1, Route!is_av1
<1>2. ASSUME /\ frames' = Append(frames, Route!Frame(call.file, Head(call.left), "Owned"))
             /\ call' = [call EXCEPT !.left = Tail(@)] /\ files' = files
      PROVE  RouteInv'
  <2>1. /\ call \in RouteCalls /\ call.asked \in Seq(Timestamps) /\ call.left \in Seq(Timestamps)
        /\ call.file \in DOMAIN Codec
    BY <1>1 DEF RouteInv, RouteTypes, RouteCalls
  <2>2. /\ frames \in Seq(RoutePictures) /\ Len(call.asked) = Len(frames) + Len(call.left)
        /\ \A k \in 1 .. Len(frames) : frames[k] = Route!Frame(call.file, call.asked[k], "Owned")
        /\ \A k \in 1 .. Len(call.left) : call.left[k] = call.asked[Len(frames) + k]
    BY <1>1 DEF RouteInv, CallUnderway
  <2>3. /\ call' \in RouteCalls /\ call'.file = call.file /\ call'.asked = call.asked
        /\ call'.left = Tail(call.left)
    <3>1. Tail(call.left) \in Seq(Timestamps)
      BY <1>1, <2>1
    <3>2. call' = [call EXCEPT !.left = Tail(call.left)]
      BY <1>2
    <3>3. QED
      BY <2>1, <3>1, <3>2, CallShortened
  <2>4. /\ Len(call.left) \in Nat \ {0} /\ Len(Tail(call.left)) = Len(call.left) - 1
        /\ \A k \in 1 .. Len(call.left) - 1 : Tail(call.left)[k] = call.left[k + 1]
        /\ Head(call.left) = call.left[1] /\ Head(call.left) \in Timestamps
    BY <1>1, <2>1
  <2>5. Route!Frame(call.file, Head(call.left), "Owned") \in RoutePictures
    BY <2>1, <2>4 DEF Route!Frame, RoutePictures
  <2>6. /\ frames' \in Seq(RoutePictures) /\ Len(frames') = Len(frames) + 1 /\ Len(frames) \in Nat
        /\ \A k \in 1 .. Len(frames) : frames'[k] = frames[k]
        /\ frames'[Len(frames) + 1] = Route!Frame(call.file, Head(call.left), "Owned")
    BY <1>2, <2>2, <2>5
  <2>7. Head(call.left) = call.asked[Len(frames) + 1]
    BY <2>2, <2>4
  <2>8. \A k \in 1 .. Len(frames') : frames'[k] = Route!Frame(call.file, call.asked[k], "Owned")
    BY <2>2, <2>6, <2>7
  <2>9. RouteTypes' /\ NativeTakes'
    BY <1>2, <2>1, <2>3, <2>6 DEF RouteInv, RouteTypes, NativeTakes
  <2>10. CallUnderway'
    <3>1. \A k \in 1 .. Len(Tail(call.left)) : Tail(call.left)[k] = call.asked[Len(frames') + k]
      BY <2>2, <2>4, <2>6
    <3>2. Len(call.asked) = Len(frames') + Len(Tail(call.left))
      <4> DEFINE n == Len(Tail(call.left)) + 0
      <4>1. n \in Nat /\ Len(call.left) = n + 1 /\ Len(Tail(call.left)) = n
        BY <2>4
      <4>2. /\ Len(frames) \in Nat /\ Len(frames') = Len(frames) + 1
            /\ Len(call.asked) = Len(frames) + Len(call.left)
        BY <2>2, <2>6
      <4> HIDE DEF n
      <4>3. Len(call.asked) = Len(frames') + n
        BY <4>1, <4>2
      <4>4. QED
        BY <4>1, <4>3, Zenon
    <3>3. QED
      BY <1>1, <2>3, <2>6, <2>8, <3>1, <3>2 DEF CallUnderway
  <2>11. AnsweredInOrder'
    <3>1. SUFFICES ASSUME Tail(call.left) = <<>>
                   PROVE  frames' = [k \in DOMAIN call.asked |->
                                        Route!Frame(call.file, call.asked[k], "Owned")]
      BY <1>1, <2>3 DEF AnsweredInOrder, AnswerOf
    <3>2. Len(call.asked) = Len(frames') /\ DOMAIN call.asked = 1 .. Len(call.asked)
      <4>1. Len(Tail(call.left)) = 0
        <5>1. Len(<<>>) = 0
          OBVIOUS
        <5>2. QED
          BY <3>1, <5>1, Zenon
      <4>2. Len(call.left) = 1 /\ Len(call.asked) \in Nat
        BY <2>1, <2>4, <4>1
      <4>3. Len(call.asked) = Len(frames')
        BY <2>2, <2>6, <4>2
      <4>4. QED
        BY <2>1, <4>3
    <3>3. frames' = [k \in 1 .. Len(frames') |-> frames'[k]]
      BY <2>6
    <3>4. QED
      BY <2>8, <3>2, <3>3
  <2>12. QED
    BY <2>9, <2>10, <2>11 DEF RouteInv
<1>3. ASSUME NEW probed, Route!CallFails(files, probed) PROVE RouteInv'
  BY <1>1, <1>3, RouteFails
<1>4. QED
  BY <1>2, <1>3 DEF Route!DecodeAv1

LEMMA RouteDecodesNative == ASSUME RouteInv, Route!DecodeNative PROVE RouteInv'
<1>1. call.left # <<>>
  BY DEF Route!DecodeNative
<1>2. ASSUME /\ call.file \in files \/ Route!Opens
             /\ files' = files \cup {call.file}
             /\ frames' = frames \o [k \in DOMAIN call.left |->
                                       Route!Frame(call.file, call.left[k], "IOSurface")]
             /\ call' = [call EXCEPT !.left = <<>>]
      PROVE  RouteInv'
  <2>1. Codec[call.file] \in {"h264", "hevc"}
    BY <1>2 DEF RouteInv, NativeTakes, Route!Opens
  <2>2. /\ call \in RouteCalls /\ call.asked \in Seq(Timestamps) /\ call.left \in Seq(Timestamps)
        /\ call.file \in DOMAIN Codec
    BY <1>1 DEF RouteInv, RouteTypes, RouteCalls
  <2>3. frames = <<>> /\ Len(frames) = 0
    BY <1>1, <2>1 DEF RouteInv, CallUnderway
  <2>4. Len(call.asked) = Len(call.left)
        /\ \A k \in 1 .. Len(call.left) : call.left[k] = call.asked[k]
    BY <1>1, <2>2, <2>3 DEF RouteInv, CallUnderway
  <2>5. /\ DOMAIN call.asked = 1 .. Len(call.asked) /\ DOMAIN call.left = 1 .. Len(call.left)
        /\ Len(call.left) \in Nat
    BY <2>2
  <2> DEFINE Rest == [k \in DOMAIN call.left |-> Route!Frame(call.file, call.left[k], "IOSurface")]
  <2>6. Rest \in Seq(RoutePictures)
    <3>1. \A k \in DOMAIN call.left : Route!Frame(call.file, call.left[k], "IOSurface") \in RoutePictures
      BY <2>2, <2>5 DEF Route!Frame, RoutePictures
    <3>2. QED
      BY <2>5, <3>1
  <2>7. frames' = Rest
    BY <1>2, <2>3, <2>6
  <2>8. /\ call' \in RouteCalls /\ call'.file = call.file /\ call'.asked = call.asked
        /\ call'.left = <<>>
    <3>1. <<>> \in Seq(Timestamps)
      OBVIOUS
    <3>2. QED
      BY <1>2, <2>2, <3>1, CallShortened
  <2>9. RouteTypes' /\ CallUnderway' /\ NativeTakes'
    BY <1>2, <2>1, <2>6, <2>7, <2>8 DEF RouteInv, RouteTypes, CallUnderway, NativeTakes
  <2>10. Rest = [k \in DOMAIN call.asked |-> Route!Frame(call.file, call.asked[k], "IOSurface")]
    BY <2>4, <2>5
  <2>11. AnsweredInOrder'
    BY <2>1, <2>7, <2>8, <2>10 DEF AnsweredInOrder, AnswerOf
  <2>12. QED
    BY <2>9, <2>11 DEF RouteInv
<1>3. ASSUME NEW open \in {files, files \cup {f \in {call.file} : Route!Opens}},
             Route!CallFails(open, av1_dims)
      PROVE  RouteInv'
  BY <1>1, <1>3, RouteFails
<1>4. QED
  BY <1>2, <1>3 DEF Route!DecodeNative

LEMMA RouteInit == Route!Init => RouteInv
<1>1. SUFFICES ASSUME Route!Init PROVE RouteInv
  OBVIOUS
<1>2. /\ call = [file |-> "none", asked |-> <<>>, left |-> <<>>] /\ frames = <<>> /\ files = {}
  BY <1>1 DEF Route!Init, Route!Idle
<1>3. RouteTypes
  BY <1>2 DEF RouteTypes, RouteCalls
<1>4. \A pixels : AnswerOf(pixels) = <<>>
  BY <1>2 DEF AnswerOf
<1>5. QED
  BY <1>2, <1>3, <1>4 DEF RouteInv, CallUnderway, NativeTakes, AnsweredInOrder

LEMMA RouteNext == ASSUME Route!RouteAssumption, RouteInv, (Route!Next \/ UNCHANGED routeVars) PROVE RouteInv'
<1>1. ASSUME NEW file \in DOMAIN Codec, NEW ts \in Route!BoundedSeq(Timestamps, MaxBatch),
             Route!Begin(file, ts)
      PROVE  RouteInv'
  BY <1>1, RouteBegins DEF Route!RouteAssumption
<1>2. CASE UNCHANGED routeVars
  BY <1>2 DEF routeVars, RouteInv, RouteTypes, CallUnderway, NativeTakes, AnsweredInOrder, AnswerOf
<1>3. QED
  BY <1>1, <1>2, RouteDecodesAv1, RouteDecodesNative DEF Route!Next

(* VideoToolboxDecoder's "fast, zero-copy native path" (decode.rs): whichever
   probes, runs and opens fail, a call that does not fail answers what it was
   asked in order by the decoder of its codec, and no AV1 file is ever held by
   the native one. *)
THEOREM CallsAnsweredByCodec ==
    ASSUME Route!RouteAssumption PROVE Spec => []AnsweredByItsCodec
<1>1. Init => RouteInv
  BY RouteInit DEF Init
<1>2. RouteInv /\ [Next]_vars => RouteInv'
  BY Steps, RouteNext
<1>3. RouteInv => AnsweredByItsCodec
  BY DEF RouteInv, NativeTakes, AnsweredInOrder, AnswerOf, AnsweredByItsCodec,
         Route!AnsweredByItsCodec
<1>4. QED
  BY <1>1, <1>2, <1>3, PTL DEF Spec
=============================================================================
