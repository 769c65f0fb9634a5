------------------------------- MODULE VideoRoute -------------------------------
(***************************************************************************)
(* Which decoder answers on macOS: VideoToolboxDecoder of                   *)
(* crates/pyroboframes-core/src/decode.rs, which asks ffprobe for the codec *)
(* and sends AV1 to ffmpeg, everything else to NativeVideoToolboxDecoder    *)
(* and its table of open files (videotoolbox_native.rs; VideoFile has the   *)
(* opening, NativeDecode the decoding).                                    *)
(*                                                                         *)
(* ffprobe, ffmpeg and the native decoder may fail in any call.             *)
(***************************************************************************)
EXTENDS Integers, Sequences, SequencesExt

CONSTANTS
    Codec,       \* the file's codec, by file: "h264", "hevc" or "av1"
    Timestamps,  \* the timestamps callers ask for
    MaxBatch,    \* the longest batch
    Builds       \* whether the build has the ffmpeg feature, a set of BOOLEAN

RouteAssumption == Builds \subseteq BOOLEAN /\ MaxBatch \in Nat

VARIABLES
    has_ffmpeg,
    files,     \* the files NativeVideoToolboxDecoder has open
    av1_dims,  \* the files whose dimensions were probed
    call,      \* the file and the timestamps of the call, those left to do
    frames     \* what it has decoded; after the call its answer, or Failed

routeVars == <<has_ffmpeg, files, av1_dims, call, frames>>

Idle == [file |-> "none", asked |-> <<>>, left |-> <<>>]
Frame(file, t, pixels) == [file |-> file, time |-> t, pixels |-> pixels]
Failed == <<Frame("none", 0, "none")>>

Init ==
    /\ has_ffmpeg \in Builds
    /\ files = {} /\ av1_dims = {}
    /\ call = Idle /\ frames = <<>>

Begin(file, ts) ==
    /\ call.left = <<>>
    /\ call' = [file |-> file, asked |-> ts, left |-> ts]
    /\ frames' = <<>>
    /\ UNCHANGED <<has_ffmpeg, files, av1_dims>>

(* Mutant: a probe that fails counts as AV1. *)
is_av1_unless(probed) == has_ffmpeg /\ (~probed \/ Codec[call.file] = "av1")

(* ffprobe, in every call of decode and once more in decode_batch; a probe that
   fails counts as another codec. *)
is_av1(probed) == has_ffmpeg /\ probed /\ Codec[call.file] = "av1"

CallFails(opened, dims) ==
    /\ files' = opened /\ av1_dims' = dims
    /\ call' = [call EXCEPT !.left = <<>>]
    /\ frames' = Failed
    /\ UNCHANGED has_ffmpeg

(* decode, alone or in a batch of an AV1 file: one frame by ffmpeg, whose
   dimensions are probed once. *)
DecodeAv1 ==
    /\ call.left # <<>>
    /\ \E probed \in BOOLEAN : is_av1(probed)
    /\ \/ /\ av1_dims' = av1_dims \cup {call.file}
          /\ frames' = Append(frames, Frame(call.file, Head(call.left), "Owned"))
          /\ call' = [call EXCEPT !.left = Tail(@)]
          /\ UNCHANGED <<has_ffmpeg, files>>
       \/ \E dims \in {av1_dims, av1_dims \cup {call.file}} : CallFails(files, dims)

(* NativeVideoToolboxFile::open takes H.264 and HEVC only. *)
Opens == Codec[call.file] \in {"h264", "hevc"}

(* decode_at, or decode_batch_at for all the timestamps at once.  Inside a
   batch of an AV1 file decode gets here when its own probe fails. *)
DecodeNative ==
    /\ call.left # <<>>
    /\ \E probed \in BOOLEAN : ~is_av1(probed)
    /\ \/ /\ call.file \in files \/ Opens
          /\ files' = files \cup {call.file}
          /\ frames' = frames \o [k \in DOMAIN call.left |->
                                    Frame(call.file, call.left[k], "IOSurface")]
          /\ call' = [call EXCEPT !.left = <<>>]
          /\ UNCHANGED <<has_ffmpeg, av1_dims>>
       \/ \E opened \in {files, files \cup {f \in {call.file} : Opens}} :
             CallFails(opened, av1_dims)

Next ==
    \/ \E file \in DOMAIN Codec, ts \in BoundedSeq(Timestamps, MaxBatch) : Begin(file, ts)
    \/ DecodeAv1 \/ DecodeNative

Spec == Init /\ [][Next]_routeVars
-----------------------------------------------------------------------------
(* "H.264/HEVC files are completely unaffected and keep the fast, zero-copy
   native path": whichever probes fail between and within calls, a call that
   does not fail answers its timestamps in order, with frames of one kind, the
   one of the file's codec, and the native decoder never holds an AV1 file. *)
AnsweredByItsCodec ==
    /\ \A f \in files : Codec[f] # "av1"
    /\ call.left = <<>> /\ frames # Failed =>
         frames = [k \in DOMAIN call.asked |->
             Frame(call.file, call.asked[k],
                   IF Codec[call.file] = "av1" THEN "Owned" ELSE "IOSurface")]
=============================================================================
