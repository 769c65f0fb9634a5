------------------------------- MODULE MCCaches -------------------------------
(* The caches of frames and episodes.  They share nothing, so a behaviour      *)
(* exercises one of them: L1 of three bytes with frames of one and two, so     *)
(* that a put evicts none, one or several; L2 of two files for three frames,   *)
(* over a directory that may already hold files of an earlier process; two     *)
(* episodes of four in RAM, one of which cannot be decoded, and up to two      *)
(* prefetch threads.  Threads are interchangeable.                             *)
EXTENDS Integers, Sequences, FiniteSets, TLC

CONSTANTS Threads, Frames, Sizes, capacity_bytes, max_entries, MaxPuts,
          Episodes, Broken, max_episodes, MaxPrefetches

VARIABLES tier, cache, access, memory_bytes, clearing, raced, puts,
          files, entries, putting, left, pc, cached, ep, list, worker, started, current,
          recency, got, overlap

Requests == {<<0, 1>>, <<3, 2>>}

L1 == INSTANCE L1Cache
L2 == INSTANCE L2Cache
RAM == INSTANCE EpisodeCache WITH Callers <- Threads

ASSUME L1!L1Assumption /\ L2!L2Assumption /\ RAM!EpisodeAssumption

Init ==
    /\ tier \in {"L1", "L2", "RAM"}
    /\ L1!Init /\ L2!Init /\ RAM!Init
    /\ tier # "L2" => files = {}

l1Vars == <<cache, access, memory_bytes, clearing, raced>>
l2Vars == <<files, entries, putting, left>>
ramVars == <<cached, ep, list, worker, started, current, recency, got, overlap>>
vars == <<tier, puts, pc, l1Vars, l2Vars, ramVars>>

Next ==
    \/ tier = "L1" /\ L1!Next /\ UNCHANGED <<tier, pc, l2Vars, ramVars>>
    \/ tier = "L2" /\ L2!Next /\ UNCHANGED <<tier, pc, l1Vars, ramVars>>
    \/ tier = "RAM" /\ RAM!Next /\ UNCHANGED <<tier, puts, l1Vars, l2Vars>>

Spec == Init /\ [][Next]_vars

Symmetry == Permutations(Threads)

(* What the L1 cache keeps (L1Cache.tla). *)
WithinCapacity == L1!WithinCapacity
WithinCapacityUnraced == L1!WithinCapacityUnraced
Evictable == L1!Evictable

(* What the L2 cache keeps (L2Cache.tla). *)
NoOrphanFiles == tier = "L2" => L2!NoOrphanFiles

(* What the cache of episodes keeps (EpisodeCache.tla). *)
LeastRecentFirst == RAM!LeastRecentFirst
SharedCopy == RAM!SharedCopy
OnePrefetchThread == RAM!OnePrefetchThread
=============================================================================
