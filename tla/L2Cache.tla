-------------------------------- MODULE L2Cache --------------------------------
(***************************************************************************)
(* The disk-backed frame cache, L2Cache of                                  *)
(* crates/pyroboframes-core/src/cache.rs.                                   *)
(*                                                                         *)
(* put writes the file before it takes the lock of the entry list.  What the *)
(* file system refuses is ignored or returned: a write that fails leaves    *)
(* what it created, a removal that fails leaves the file, and a cache       *)
(* opened over the directory of an earlier one lists none of its files.     *)
(* get, a create_dir_all that fails and a put whose file cannot be opened   *)
(* change nothing.  The content of the files is not modelled.               *)
(***************************************************************************)
EXTENDS Integers, Sequences, FiniteSets, Functions

CONSTANTS
    Threads,
    Frames,
    max_entries,
    MaxPuts       \* bound on the calls of put

L2Assumption == max_entries \in Nat /\ MaxPuts \in Nat

VARIABLES
    files,   \* the frames that have a file
    entries, \* the entry list, oldest first
    putting, \* putting[t]: {f} while t is in a put that has opened the file of f
    left,    \* history: the frames whose file an earlier cache, a failed write
             \* or a failed removal left behind, and no put has listed since
    puts     \* history: calls of put

vars == <<files, entries, putting, left, puts>>

(* The directory may hold the files of an earlier process. *)
Init ==
    /\ files \in SUBSET Frames
    /\ entries = <<>>
    /\ putting = [t \in Threads |-> {}]
    /\ left = files
    /\ puts = 0

(* std::fs::write creates or truncates the file. *)
PutOpens(t, f) ==
    /\ putting[t] = {} /\ puts < MaxPuts
    /\ puts' = puts + 1
    /\ files' = files \cup {f}
    /\ putting' = [putting EXCEPT ![t] = {f}]
    /\ UNCHANGED <<entries, left>>

(* The write fails, with the file short or empty: put returns before it lists
   the frame. *)
PutFails(t) ==
    /\ putting[t] # {}
    /\ left' = left \cup (putting[t] \cap files)
    /\ putting' = [putting EXCEPT ![t] = {}]
    /\ UNCHANGED <<files, entries, puts>>

Surplus(list) == IF Len(list) > max_entries THEN Len(list) - max_entries ELSE 0

(* The files of gone are removed, but for some the file system keeps: the error
   of remove_file is dropped. *)
Removes(gone, known) ==
    \E stuck \in SUBSET (gone \cap files) :
        /\ files' = files \ (gone \ stuck)
        /\ left' = (known \ gone) \cup stuck

(* Mutant: the entry's file is left behind. *)
PutListsKeepsFile(t) ==
    /\ putting[t] # {}
    /\ \E f \in putting[t] :
        LET list == Append(entries, f)
            n == Surplus(list)
        IN  entries' = SubSeq(list, n + 1, Len(list)) /\ left' = left \ {f}
    /\ putting' = [putting EXCEPT ![t] = {}]
    /\ UNCHANGED <<files, puts>>

(* The file is written; the rest of put, under the lock: list the frame, evict
   the oldest entries and remove their files. *)
PutLists(t) ==
    /\ putting[t] # {}
    /\ \E f \in putting[t] :
        LET list == Append(entries, f)
            n == Surplus(list)
        IN  /\ entries' = SubSeq(list, n + 1, Len(list))
            /\ Removes({list[i] : i \in 1 .. n}, left \ {f})
    /\ putting' = [putting EXCEPT ![t] = {}]
    /\ UNCHANGED puts

(* drain removes the listed files under the lock. *)
Clear(t) ==
    /\ putting[t] = {}
    /\ entries' = <<>>
    /\ Removes(Range(entries), left)
    /\ UNCHANGED <<putting, puts>>

(* The process ends, in the middle of a put or not, and L2Cache::new opens the
   directory again, with an empty list. *)
Reopen ==
    /\ entries' = <<>>
    /\ left' = files
    /\ putting' = [t \in Threads |-> {}]
    /\ UNCHANGED <<files, puts>>

Next ==
    \/ \E t \in Threads :
        \/ \E f \in Frames : PutOpens(t, f)
        \/ PutFails(t) \/ PutLists(t) \/ Clear(t)
    \/ Reopen

Spec == Init /\ [][Next]_vars
-----------------------------------------------------------------------------
(* A file on the disk is listed, or its put is under way, or the file system or
   an earlier cache left it behind: puts, evictions and clears of several
   threads lose no file of their own in any interleaving, and a file left behind
   is the cache's again once its frame is put. *)
NoOrphanFiles ==
    \A f \in files :
        \/ f \in Range(entries)
        \/ \E t \in Threads : f \in putting[t]
        \/ f \in left
=============================================================================
