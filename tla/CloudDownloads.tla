---------------------------- MODULE CloudDownloads ----------------------------
(***************************************************************************)
(* The downloads of CloudStreamer, crates/pyroboframes-core/src/            *)
(* streaming.rs: a table of tasks the caller drives part by part.           *)
(***************************************************************************)
EXTENDS Integers, FiniteSets

CONSTANTS
    Files, parallel_downloads,
    PartsTotal,   \* the numbers of parts a file may be cut into, at least 1
    MaxParts      \* bounds the parts reported for a task

CloudAssumption ==
    /\ parallel_downloads \in Nat /\ PartsTotal \subseteq Nat \ {0} /\ MaxParts \in Nat

VARIABLES
    active_downloads, \* active_downloads[f]: its task, or NoTask
    active,           \* stats.active_downloads
    misused           \* history: a task was started again, or driven when completed

cloudVars == <<active_downloads, active, misused>>

NoTask == [parts_completed |-> 0, parts_total |-> 0, status |-> "None"]

Init ==
    /\ active_downloads = [f \in Files |-> NoTask]
    /\ active = 0
    /\ misused = FALSE

Known == {f \in Files : active_downloads[f] # NoTask}
SetTask(f, task) == active_downloads' = [active_downloads EXCEPT ![f] = task]

(* Tasks are never removed: the limit is on all files ever started.  Starting
   a file again replaces its task and counts it again. *)
start_download(f, total) ==
    /\ Cardinality(Known) < parallel_downloads
    /\ active < 2 * parallel_downloads \* bounds the restarts
    /\ SetTask(f, [parts_completed |-> 0, parts_total |-> total, status |-> "InProgress"])
    /\ active' = active + 1
    /\ misused' = (misused \/ f \in Known)

(* Mutant: a paused task does not count as active when it completes. *)
PartOfRunning(f) ==
    LET task == active_downloads[f]
        done == task.parts_completed + 1
    IN  /\ f \in Known /\ done <= MaxParts
        /\ SetTask(f, [task EXCEPT !.parts_completed = done,
                          !.status = IF done >= task.parts_total THEN "Completed" ELSE @])
        /\ active' = IF done >= task.parts_total /\ task.status = "InProgress" /\ active > 0
                     THEN active - 1 ELSE active
        /\ misused' = (misused \/ task.status = "Completed")

(* A part completes the task when it is the last, whatever its status; a part
   too many completes it again. *)
report_part_downloaded(f) ==
    LET task == active_downloads[f]
        done == task.parts_completed + 1
    IN  /\ f \in Known /\ done <= MaxParts
        /\ SetTask(f, [task EXCEPT !.parts_completed = done,
                          !.status = IF done >= task.parts_total THEN "Completed" ELSE @])
        /\ active' = IF done >= task.parts_total /\ active > 0 THEN active - 1 ELSE active
        /\ misused' = (misused \/ task.status = "Completed")

SetStatus(f, status) ==
    /\ f \in Known
    /\ SetTask(f, [active_downloads[f] EXCEPT !.status = status])
    /\ misused' = (misused \/ active_downloads[f].status = "Completed")
    /\ UNCHANGED active

pause_download(f) == SetStatus(f, "Paused")
resume_download(f) == SetStatus(f, "InProgress")

Next == \E f \in Files :
    \/ \E total \in PartsTotal : start_download(f, total)
    \/ report_part_downloaded(f) \/ pause_download(f) \/ resume_download(f)

Spec == Init /\ [][Next]_cloudVars
-----------------------------------------------------------------------------
Unfinished == {f \in Known : active_downloads[f].status # "Completed"}

(* stats.active_downloads counts the downloads not completed, paused ones
   included, through any order of parts, pauses and resumes - as long as the
   caller starts each file once and leaves completed ones alone. *)
ActiveCounted == ~misused => active = Cardinality(Unfinished)
=============================================================================
