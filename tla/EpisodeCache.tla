----------------------------- MODULE EpisodeCache -----------------------------
(***************************************************************************)
(* The cache of decoded episodes, python/pyroboframes/episode_cache.py.     *)
(*                                                                         *)
(* get_episode and the prefetch thread look an episode up under the lock,   *)
(* decode it without, and take the lock again to insert it; prefetch reads  *)
(* the thread and the cache without the lock.  A decoded episode is known   *)
(* by the thread that decoded it.                                           *)
(***************************************************************************)
EXTENDS Integers, Sequences, FiniteSets, SequencesExt

CONSTANTS
    Callers,       \* threads that call the cache
    Episodes,
    Broken,        \* the episodes whose decoding raises
    Requests,      \* the lists prefetch may be called with
    max_episodes,
    MaxPrefetches  \* bound on the prefetch threads started

EpisodeAssumption ==
    /\ max_episodes \in Nat \ {0} /\ MaxPrefetches \in Nat
    /\ Broken \subseteq Episodes /\ Requests \subseteq Seq(Episodes)

VARIABLES
    cached,  \* the OrderedDict: a sequence of [ep, copy], least recent first
    pc, ep,  \* a caller's place in a call, and the episode it gets
    list,    \* the episodes a caller of prefetch is about to fetch
    worker,  \* worker[w]: a prefetch thread's place, and what it has left
    started, \* the number of prefetch threads started
    current, \* self._prefetch_thread, or 0
    recency, \* history: of the episodes cached, <<a, b>> when b was got or
             \* inserted after a last was
    got,     \* history: the copies handed to a caller and cached ever since
    overlap  \* history: two calls of prefetch were under way at once

history == <<recency, got, overlap>>
vars == <<cached, pc, ep, list, worker, started, current, history>>

Workers == 1 .. MaxPrefetches

Init ==
    /\ cached = <<>>
    /\ pc = [t \in Callers |-> "idle"]
    /\ ep \in [Callers -> {CHOOSE e \in Episodes : TRUE}]
    /\ list = [t \in Callers |-> <<>>]
    /\ worker = [w \in Workers |-> [at |-> "new", todo |-> <<>>]]
    /\ started = 0
    /\ current = 0
    /\ recency = {}
    /\ got = [t \in Callers |-> {}]
    /\ overlap = FALSE

Keys == {cached[k].ep : k \in DOMAIN cached}
Entry(e) == CHOOSE k \in DOMAIN cached : cached[k].ep = e
Goto(t, at) == pc' = [pc EXCEPT ![t] = at]
Touch(e) ==
    LET others == Keys \ {e}
    IN  recency' = (recency \cap (others \X others)) \cup {<<x, e>> : x \in others}

(* Mutant: a hit does not move its episode to the end. *)
MovedNowhere(e) == cached

(* move_to_end *)
Moved(e) == Append(RemoveAt(cached, Entry(e)), cached[Entry(e)])

(* popitem(last=False) when full, then the new entry. *)
WithInserted(e, by) ==
    LET kept == IF Len(cached) >= max_episodes THEN Tail(cached) ELSE cached
    IN  Append(kept, [ep |-> e, copy |-> by])

(* The copies handed out that are still cached, and the one t gets now. *)
StillHeld(u) == {g \in got[u] : \E x \in Range(cached') : x.ep = g.ep}
Handed(t, e) ==
    got' = [u \in Callers |->
        StillHeld(u) \cup IF u = t THEN {x \in Range(cached') : x.ep = e} ELSE {}]
Forgotten == got' = [u \in Callers |-> StillHeld(u)]

-----------------------------------------------------------------------------
(* get_episode *)

GetHits(t) ==
    /\ pc[t] = "idle"
    /\ \E e \in Keys : cached' = Moved(e) /\ Touch(e) /\ Handed(t, e)
    /\ UNCHANGED <<pc, ep, list, worker, started, current, overlap>>

GetMisses(t) ==
    /\ pc[t] = "idle"
    /\ \E e \in Episodes \ Keys : ep' = [ep EXCEPT ![t] = e]
    /\ Goto(t, "decode")
    /\ UNCHANGED <<cached, list, worker, started, current, history>>

GetRaises(t) ==
    /\ pc[t] = "decode" /\ ep[t] \in Broken
    /\ Goto(t, "idle")
    /\ UNCHANGED <<cached, ep, list, worker, started, current, history>>

(* Mutant: the caller's own copy replaces the cached one. *)
GetReplaces(t) ==
    /\ pc[t] = "decode" /\ ep[t] \notin Broken
    /\ cached' = IF ep[t] \in Keys
                   THEN Append(SelectSeq(cached, LAMBDA x : x.ep # ep[t]),
                               [ep |-> ep[t], copy |-> t])
                   ELSE WithInserted(ep[t], t)
    /\ Touch(ep[t]) /\ Handed(t, ep[t])
    /\ Goto(t, "idle")
    /\ UNCHANGED <<ep, list, worker, started, current, overlap>>

(* The second critical section: a copy that got there first is preferred. *)
GetInserts(t) ==
    /\ pc[t] = "decode" /\ ep[t] \notin Broken
    /\ cached' = IF ep[t] \in Keys THEN Moved(ep[t]) ELSE WithInserted(ep[t], t)
    /\ Touch(ep[t]) /\ Handed(t, ep[t])
    /\ Goto(t, "idle")
    /\ UNCHANGED <<ep, list, worker, started, current, overlap>>

-----------------------------------------------------------------------------
(* prefetch and its thread *)

Alive(w) == worker[w].at \in {"next", "decode"}
InPrefetch(t) == pc[t] \in {"select", "start"}

(* Mutant: is_alive is not asked. *)
PrefetchNeverLooks(t) ==
    /\ pc[t] = "idle" /\ started < MaxPrefetches
    /\ \E request \in Requests : list' = [list EXCEPT ![t] = request]
    /\ overlap' = (overlap \/ \E u \in Callers : InPrefetch(u))
    /\ Goto(t, "select")
    /\ UNCHANGED <<cached, ep, worker, started, current, recency, got>>

PrefetchLooks(t) ==
    /\ pc[t] = "idle" /\ started < MaxPrefetches
    /\ ~(current \in Workers /\ Alive(current))
    /\ \E request \in Requests : list' = [list EXCEPT ![t] = request]
    /\ overlap' = (overlap \/ \E u \in Callers : InPrefetch(u))
    /\ Goto(t, "select")
    /\ UNCHANGED <<cached, ep, worker, started, current, recency, got>>

(* to_fetch, read without the lock. *)
PrefetchSelects(t) ==
    /\ pc[t] = "select"
    /\ LET to_fetch == SelectSeq(list[t], LAMBDA e : e \notin Keys)
       IN  /\ list' = [list EXCEPT ![t] = to_fetch]
           /\ Goto(t, IF to_fetch = <<>> THEN "idle" ELSE "start")
    /\ UNCHANGED <<cached, ep, worker, started, current, history>>

PrefetchStarts(t) ==
    /\ pc[t] = "start" /\ started < MaxPrefetches
    /\ started' = started + 1
    /\ current' = started + 1
    /\ worker' = [worker EXCEPT ![started + 1] = [at |-> "next", todo |-> list[t]]]
    /\ list' = [list EXCEPT ![t] = <<>>]
    /\ Goto(t, "idle")
    /\ UNCHANGED <<cached, ep, history>>

WorkerLooks(w) ==
    /\ worker[w].at = "next"
    /\ LET todo == worker[w].todo
       IN  worker' = [worker EXCEPT ![w] =
               IF todo = <<>> THEN [at |-> "done", todo |-> <<>>]
               ELSE IF Head(todo) \in Keys THEN [at |-> "next", todo |-> Tail(todo)]
               ELSE [at |-> "decode", todo |-> todo]]
    /\ UNCHANGED <<cached, pc, ep, list, started, current, history>>

(* Decoding raises: the thread ends, the rest of its list is not fetched. *)
WorkerDies(w) ==
    /\ worker[w].at = "decode" /\ Head(worker[w].todo) \in Broken
    /\ worker' = [worker EXCEPT ![w] = [at |-> "done", todo |-> <<>>]]
    /\ UNCHANGED <<cached, pc, ep, list, started, current, history>>

WorkerInserts(w) ==
    /\ worker[w].at = "decode"
    /\ LET e == Head(worker[w].todo)
       IN  /\ e \notin Broken
           /\ IF e \in Keys THEN UNCHANGED <<cached, recency, got>>
                            ELSE cached' = WithInserted(e, w) /\ Touch(e) /\ Forgotten
    /\ worker' = [worker EXCEPT ![w] = [at |-> "next", todo |-> Tail(@.todo)]]
    /\ UNCHANGED <<pc, ep, list, started, current, overlap>>

clear(t) ==
    /\ pc[t] = "idle"
    /\ cached' = <<>>
    /\ got' = [u \in Callers |-> {}]
    /\ UNCHANGED <<pc, ep, list, worker, started, current, recency, overlap>>

Next ==
    \/ \E t \in Callers :
         \/ GetHits(t) \/ GetMisses(t) \/ GetRaises(t) \/ GetInserts(t)
         \/ PrefetchLooks(t) \/ PrefetchSelects(t) \/ PrefetchStarts(t)
         \/ clear(t)
    \/ \E w \in Workers : WorkerLooks(w) \/ WorkerDies(w) \/ WorkerInserts(w)

Spec == Init /\ [][Next]_vars
-----------------------------------------------------------------------------
(* "When the cache is full the least-recently-used episode is evicted": the
   entries are in the order of their last use, however lookups, decodes and
   the prefetch thread's inserts interleave. *)
LeastRecentFirst ==
    \A j, k \in DOMAIN cached : j < k <=> <<cached[j].ep, cached[k].ep>> \in recency

(* "prefer the cached copy": all that an episode's callers hold since it was
   cached is one copy, the cached one. *)
SharedCopy == \A t \in Callers : got[t] \subseteq Range(cached)

(* "Only one prefetch thread runs at a time": so it is while no two calls of
   prefetch overlap. *)
OnePrefetchThread == ~overlap => \A v, w \in Workers : Alive(v) /\ Alive(w) => v = w
=============================================================================
