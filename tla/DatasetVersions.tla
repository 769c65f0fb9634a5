---------------------------- MODULE DatasetVersions ----------------------------
(***************************************************************************)
(* DatasetVersion of python/pyroboframes/versioning.py: append and rollback *)
(* over the dataset's directory, one directory per version, and the table   *)
(* of versions, which is kept in memory and in a file of either directory.  *)
(* What a directory holds is the set of the additions in it.                *)
(***************************************************************************)
EXTENDS Integers, Sequences, FiniteSets, Functions

CONSTANTS Tags, MaxAppends, MaxCrashes \* bounds the calls of append and the restarts

VARIABLES
    memory,     \* _metadata: [versions, current], or NoObject before the constructor
    root,       \* .versions.json of the root: a table, Torn, or NoTable
    dirs,       \* dirs[t]: [exists, copied, episodes, table]
    pc, tag,    \* the append under way
    appends, crashes,
    again       \* history: tags that were appended a second time

versionsVars == <<memory, root, dirs, pc, tag, appends, crashes, again>>

NoObject == [none |-> "object"]
NoTable == [none |-> "table"]
Torn == [none |-> "torn"]
Empty == [versions |-> <<>>, current |-> "none"]
NoDir == [exists |-> FALSE, copied |-> FALSE, episodes |-> FALSE, table |-> NoTable]

Init ==
    /\ memory = NoObject /\ root = NoTable
    /\ dirs = [t \in Tags |-> NoDir]
    /\ pc = "idle" /\ tag = "none"
    /\ appends = 0 /\ crashes = 0 /\ again = {}

(* __init__ with _load_metadata: a table cut short raises. *)
DatasetVersion ==
    /\ memory = NoObject /\ root # Torn
    /\ memory' = IF root = NoTable THEN Empty ELSE root
    /\ UNCHANGED <<root, dirs, pc, tag, appends, crashes, again>>

(* append: the directory is made, and emptied of what an earlier append left. *)
append(t) ==
    /\ memory # NoObject /\ pc = "idle" /\ appends < MaxAppends
    /\ appends' = appends + 1
    /\ again' = IF dirs[t].exists THEN again \cup {t} ELSE again
    /\ dirs' = [dirs EXCEPT ![t] = [@ EXCEPT !.exists = TRUE, !.copied = FALSE, !.episodes = FALSE]]
    /\ pc' = "copy" /\ tag' = t
    /\ UNCHANGED <<memory, root, crashes>>

(* copytree of meta, data and videos, always from the root. *)
Copy ==
    /\ pc = "copy"
    /\ dirs' = [dirs EXCEPT ![tag].copied = TRUE]
    /\ pc' = "episodes"
    /\ UNCHANGED <<memory, root, tag, appends, crashes, again>>

(* Mutant: the version is entered without its episodes in its directory. *)
_append_episodes_later ==
    /\ pc = "episodes"
    /\ memory' = [versions |-> Append(memory.versions, tag), current |-> tag]
    /\ pc' = "version_table"
    /\ UNCHANGED <<root, dirs, tag, appends, crashes, again>>

(* _append_episodes, then the new entry in memory. *)
_append_episodes ==
    /\ pc = "episodes"
    /\ dirs' = [dirs EXCEPT ![tag].episodes = TRUE]
    /\ memory' = [versions |-> Append(memory.versions, tag), current |-> tag]
    /\ pc' = "version_table"
    /\ UNCHANGED <<root, tag, appends, crashes, again>>

SaveInVersion ==
    /\ pc = "version_table"
    /\ dirs' = [dirs EXCEPT ![tag].table = memory]
    /\ pc' = "root_table"
    /\ UNCHANGED <<memory, root, tag, appends, crashes, again>>

(* _save_metadata *)
SaveInRoot ==
    /\ pc = "root_table"
    /\ root' = memory
    /\ pc' = "idle" /\ tag' = "none"
    /\ UNCHANGED <<memory, dirs, appends, crashes, again>>

(* A step that raises ends append; the object lives on, with its entry if that
   was made.  A table being written may stay cut short. *)
Raise ==
    /\ pc # "idle"
    /\ dirs' \in {dirs} \cup IF pc = "version_table" THEN {[dirs EXCEPT ![tag].table = Torn]} ELSE {}
    /\ root' \in {root} \cup IF pc = "root_table" THEN {Torn} ELSE {}
    /\ pc' = "idle" /\ tag' = "none"
    /\ UNCHANGED <<memory, appends, crashes, again>>

(* rollback moves current, in memory and in the root. *)
rollback(t) ==
    /\ memory # NoObject /\ pc = "idle"
    /\ t \in Range(memory.versions)
    /\ memory' = [memory EXCEPT !.current = t]
    /\ root' \in {memory', Torn, root}
    /\ UNCHANGED <<dirs, pc, tag, appends, crashes, again>>

Crash ==
    /\ memory # NoObject /\ crashes < MaxCrashes
    /\ crashes' = crashes + 1
    /\ memory' = NoObject
    /\ dirs' \in {dirs} \cup IF pc = "version_table" THEN {[dirs EXCEPT ![tag].table = Torn]} ELSE {}
    /\ root' \in {root} \cup IF pc = "root_table" THEN {Torn} ELSE {}
    /\ pc' = "idle" /\ tag' = "none"
    /\ UNCHANGED <<appends, again>>

Next ==
    \/ DatasetVersion \/ Copy \/ _append_episodes \/ SaveInVersion \/ SaveInRoot
    \/ Raise \/ Crash
    \/ \E t \in Tags : append(t) \/ rollback(t)

Spec == Init /\ [][Next]_versionsVars
-----------------------------------------------------------------------------
Table == IF root \in {NoTable, Torn} THEN Empty ELSE root

(* "Maintains metadata versions": a version the root lists, and the current
   one, has a directory with the whole of its data, whatever failed or crashed
   and wherever - unless its tag was appended twice, for the second append
   takes the directory apart under the entry of the first. *)
VersionsListed ==
    /\ \A t \in Range(Table.versions) \ again : dirs[t].copied /\ dirs[t].episodes
    /\ Table.current # "none" => Table.current \in Range(Table.versions)
=============================================================================
