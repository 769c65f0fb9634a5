------------------------------ MODULE RemoteShards ------------------------------
(***************************************************************************)
(* RemoteDataset of python/pyroboframes/distributed.py: the files of a      *)
(* dataset in a bucket, brought to a local directory by threads nobody      *)
(* waits for.  The store (fsspec) is external: a download creates the local *)
(* file, fills it, and may die in between, alone or with the process.       *)
(***************************************************************************)
EXTENDS Integers, Sequences, FiniteSets

CONSTANTS
    Downloads,    \* threads: one per call of prefetch_episodes
    Requests,     \* what is asked for: sequences of files
    InBucket,     \* the files the store has
    MetaFiles,    \* those under meta/, which open brings every time
    MaxCrashes    \* bounds the restarts of the process

Files == InBucket \cup UNION {{q[k] : k \in DOMAIN q} : q \in Requests}
Idle == "none"

ShardsAssumption ==
    /\ MetaFiles \subseteq InBucket /\ MaxCrashes \in Nat
    /\ Idle \notin Files /\ \A q \in Requests : q \in Seq(Files)

VARIABLES
    local,      \* local[f]: "absent", "torn" or "whole"
    opened,     \* the process has its dataset
    todo,       \* todo[d]: files the thread has still to look at
    fetching,   \* fetching[d]: the file it downloads, if any
    writing,    \* writing[d]: it has opened the local file
    asked,      \* history: what the thread was called with, <<>> before
    broken,     \* history: files a download of which died
    crashes

shardsVars == <<local, opened, todo, fetching, writing, asked, broken, crashes>>

Init ==
    /\ local = [f \in Files |-> "absent"]
    /\ opened = FALSE
    /\ todo = [d \in Downloads |-> <<>>]
    /\ fetching = [d \in Downloads |-> Idle]
    /\ writing = [d \in Downloads |-> FALSE]
    /\ asked = [d \in Downloads |-> <<>>]
    /\ broken = {} /\ crashes = 0

(* open, with _sync: the metadata is fetched again, over what is there; when
   that fails, open raises. *)
open ==
    /\ ~opened
    /\ \/ /\ local' = [f \in Files |-> IF f \in MetaFiles THEN "whole" ELSE local[f]]
          /\ opened' = TRUE
          /\ UNCHANGED broken
       \/ \E f \in MetaFiles :
             /\ local' = [local EXCEPT ![f] = "torn"]
             /\ broken' = broken \cup {f}
             /\ UNCHANGED opened
    /\ UNCHANGED <<todo, fetching, writing, asked, crashes>>

(* prefetch_episodes starts a thread and returns. *)
prefetch_episodes(d) ==
    /\ opened /\ asked[d] = <<>>
    /\ \E q \in Requests :
          /\ todo' = [todo EXCEPT ![d] = q]
          /\ asked' = [asked EXCEPT ![d] = q]
    /\ UNCHANGED <<local, opened, fetching, writing, broken, crashes>>

(* Mutant: a file that is there ends the thread. *)
Stops(d) ==
    LET f == Head(todo[d]) IN
    /\ todo[d] # <<>> /\ fetching[d] = Idle
    /\ IF local[f] = "absent" /\ f \in InBucket
       THEN /\ fetching' = [fetching EXCEPT ![d] = f]
            /\ UNCHANGED todo
       ELSE todo' = [todo EXCEPT ![d] = <<>>] /\ UNCHANGED fetching
    /\ UNCHANGED <<local, opened, writing, asked, broken, crashes>>

(* A file that exists is taken for whole; one the bucket lacks is skipped. *)
Looks(d) ==
    LET f == Head(todo[d]) IN
    /\ todo[d] # <<>> /\ fetching[d] = Idle
    /\ IF local[f] = "absent" /\ f \in InBucket
       THEN /\ fetching' = [fetching EXCEPT ![d] = f]
            /\ UNCHANGED todo
       ELSE todo' = [todo EXCEPT ![d] = Tail(@)] /\ UNCHANGED fetching
    /\ UNCHANGED <<local, opened, writing, asked, broken, crashes>>

(* fs.get opens the local file anew, even one another thread fills or filled. *)
Creates(d) ==
    /\ fetching[d] # Idle /\ ~writing[d]
    /\ writing' = [writing EXCEPT ![d] = TRUE]
    /\ local' = [local EXCEPT ![fetching[d]] = "torn"]
    /\ UNCHANGED <<opened, todo, fetching, asked, broken, crashes>>

(* With another thread at the same file, it may have cut what this one wrote. *)
Fills(d) ==
    LET f == fetching[d]
        shared == \E e \in Downloads \ {d} : fetching[e] = f /\ writing[e]
    IN  /\ f # Idle /\ writing[d]
        /\ local' \in {[local EXCEPT ![f] = s] : s \in {"whole"} \cup IF shared THEN {"torn"} ELSE {}}
        /\ fetching' = [fetching EXCEPT ![d] = Idle]
        /\ writing' = [writing EXCEPT ![d] = FALSE]
        /\ todo' = [todo EXCEPT ![d] = Tail(@)]
        /\ UNCHANGED <<opened, asked, broken, crashes>>

(* An error of the store ends the thread, and with it what it had left. *)
Dies(d) ==
    /\ fetching[d] # Idle
    /\ broken' = broken \cup (IF writing[d] THEN {fetching[d]} ELSE {})
    /\ fetching' = [fetching EXCEPT ![d] = Idle]
    /\ writing' = [writing EXCEPT ![d] = FALSE]
    /\ todo' = [todo EXCEPT ![d] = <<>>]
    /\ asked' = [asked EXCEPT ![d] = <<>>]
    /\ UNCHANGED <<local, opened, crashes>>

(* The process ends: its threads are daemons.  The next one opens again. *)
Crash ==
    /\ opened /\ crashes < MaxCrashes
    /\ crashes' = crashes + 1
    /\ opened' = FALSE
    /\ broken' = broken \cup {fetching[d] : d \in {d \in Downloads : writing[d]}}
    /\ writing' = [d \in Downloads |-> FALSE]
    /\ todo' = [d \in Downloads |-> <<>>]
    /\ fetching' = [d \in Downloads |-> Idle]
    /\ asked' = [d \in Downloads |-> <<>>]
    /\ UNCHANGED local

Next ==
    \/ open \/ Crash
    \/ \E d \in Downloads :
          prefetch_episodes(d) \/ Looks(d) \/ Creates(d) \/ Fills(d) \/ Dies(d)

Spec == Init /\ [][Next]_shardsVars
-----------------------------------------------------------------------------
Dirty(f) == \E d \in Downloads : fetching[d] = f /\ writing[d]

(* A file cut short is being written or its download died: what no error and
   no crash has touched is whole.  And a thread that came to the end of its
   list has left every file of it that the bucket has on the disk: whole, or
   being written by another thread, or cut short by a download that died. *)
ShardsComplete ==
    /\ \A f \in Files : local[f] = "torn" => Dirty(f) \/ f \in broken
    /\ \A d \in Downloads : todo[d] = <<>> =>
         \A k \in DOMAIN asked[d] :
            LET f == asked[d][k]
            IN  f \in InBucket => local[f] = "whole" \/ Dirty(f) \/ f \in broken
=============================================================================
