------------------------------ MODULE ChunkOrder ------------------------------
(***************************************************************************)
(* chunked_order, crates/pyroboframes-core/src/sampler.rs: every episode's  *)
(* run of positions is cut into chunks, the chunks are shuffled as whole    *)
(* units (Fisher-Yates) and flattened.                                      *)
(*                                                                         *)
(* A run and a chunk are records [start, len].  rng.below is a free choice. *)
(***************************************************************************)
EXTENDS Integers, Sequences, Functions, FiniteSets

CONSTANTS
    Runs,      \* the episodes' runs, as episode_runs returns them
    chunk_size \* the argument

ChunkAssumption ==
    /\ chunk_size \in Nat
    /\ Runs \in Seq([start : Nat, len : Nat])
    /\ \A i \in DOMAIN Runs : \* a partition of the population, in its order
          Runs[i].start = IF i = 1 THEN 0 ELSE Runs[i - 1].start + Runs[i - 1].len

VARIABLES
    shuffle, \* the user's flag
    run,     \* the run being cut
    off,     \* how much of it is cut
    chunks,
    i,       \* the Fisher-Yates cursor: chunks after i are in place
    out,
    phase    \* "cut", "shuffle", "flatten"

vars == <<shuffle, run, off, chunks, i, out, phase>>

Size == IF chunk_size >= 1 THEN chunk_size ELSE 1

Init ==
    /\ shuffle \in BOOLEAN
    /\ run = 1
    /\ off = 0
    /\ chunks = <<>>
    /\ i = 0
    /\ out = <<>>
    /\ phase = "cut"

Cut ==
    /\ phase = "cut" /\ run <= Len(Runs)
    /\ off < Runs[run].len
    /\ LET clen == IF Size <= Runs[run].len - off THEN Size ELSE Runs[run].len - off
       IN  /\ chunks' = Append(chunks, [start |-> Runs[run].start + off, len |-> clen])
           /\ off' = off + clen
    /\ UNCHANGED <<shuffle, run, i, out, phase>>

(* Mutant: the offset is carried over into the next run. *)
NextRunKeepsOffset ==
    /\ phase = "cut" /\ run <= Len(Runs)
    /\ off >= Runs[run].len
    /\ run' = run + 1
    /\ UNCHANGED <<shuffle, off, chunks, i, out, phase>>

NextRun ==
    /\ phase = "cut" /\ run <= Len(Runs)
    /\ off >= Runs[run].len
    /\ run' = run + 1
    /\ off' = 0
    /\ UNCHANGED <<shuffle, chunks, i, out, phase>>

AllCut ==
    /\ phase = "cut" /\ run > Len(Runs)
    /\ IF shuffle /\ Len(chunks) > 1
         THEN phase' = "shuffle" /\ i' = Len(chunks)
         ELSE phase' = "flatten" /\ i' = 1
    /\ UNCHANGED <<shuffle, run, off, chunks, out>>

(* Mutant: a chunk is copied over another. *)
SwapCopies ==
    /\ phase = "shuffle" /\ i > 1
    /\ \E j \in 1 .. i : chunks' = [chunks EXCEPT ![i] = chunks[j]]
    /\ i' = i - 1
    /\ UNCHANGED <<shuffle, run, off, out, phase>>

(* chunks.swap(i, rng.below(i + 1)), i downwards to the second chunk. *)
Swap ==
    /\ phase = "shuffle" /\ i > 1
    /\ \E j \in 1 .. i :
          chunks' = [chunks EXCEPT ![i] = chunks[j], ![j] = chunks[i]]
    /\ i' = i - 1
    /\ UNCHANGED <<shuffle, run, off, out, phase>>

Shuffled ==
    /\ phase = "shuffle" /\ i <= 1
    /\ phase' = "flatten"
    /\ i' = 1
    /\ UNCHANGED <<shuffle, run, off, chunks, out>>

Positions(chunk) == [k \in 1 .. chunk.len |-> chunk.start + k - 1]

(* out.extend(start..start + clen) *)
Flatten ==
    /\ phase = "flatten" /\ i <= Len(chunks)
    /\ out' = out \o Positions(chunks[i])
    /\ i' = i + 1
    /\ UNCHANGED <<shuffle, run, off, chunks, phase>>

Returned == phase = "flatten" /\ i > Len(chunks)

Next ==
    \/ Cut \/ NextRun \/ AllCut \/ Swap \/ Shuffled \/ Flatten
    \/ Returned /\ UNCHANGED vars

Spec == Init /\ [][Next]_vars
-----------------------------------------------------------------------------
Population ==
    IF Runs = <<>> THEN 0 ELSE Runs[Len(Runs)].start + Runs[Len(Runs)].len

Covers(chunk) == chunk.start .. chunk.start + chunk.len - 1

(* Cutting and swapping keep the chunks a partition of what is cut, and no
   chunk crosses an episode: "sequence-friendly" batches come from one
   episode, whatever the chunk size and the order of the chunks. *)
ChunksPartition ==
    /\ \A c \in DOMAIN chunks : \E r \in DOMAIN Runs :
          /\ chunks[c].start >= Runs[r].start
          /\ chunks[c].start + chunks[c].len <= Runs[r].start + Runs[r].len
    /\ \A c, d \in DOMAIN chunks : c # d => Covers(chunks[c]) \cap Covers(chunks[d]) = {}
    /\ run > Len(Runs) =>
          UNION {Covers(chunks[c]) : c \in DOMAIN chunks} = 0 .. Population - 1
=============================================================================
