-------------------------------- MODULE L1Cache --------------------------------
(***************************************************************************)
(* The in-memory frame cache, L1Cache of                                    *)
(* crates/pyroboframes-core/src/cache.rs, shared by several threads.        *)
(*                                                                         *)
(* put holds all three locks from its first statement to its last, and get  *)
(* holds the cache's, so each is one step; clear takes and releases one     *)
(* lock per statement, so it is three.  A frame is its size.                *)
(***************************************************************************)
EXTENDS Integers, Sequences, FiniteSets, Functions

CONSTANTS
    Threads,
    Frames,         \* frame ids
    Sizes,          \* sizes of the data that is put
    capacity_bytes,
    MaxPuts         \* bound on the calls of put

L1Assumption ==
    Sizes \subseteq Nat /\ capacity_bytes \in Nat /\ MaxPuts \in Nat

VARIABLES
    cache,        \* cache[f]: the size of the cached frame f, for f in the map
    access,       \* access_order
    memory_bytes, \* stats.memory_bytes
    clearing,     \* clearing[t]: statements of clear that t has executed, or 3
    puts,         \* history: calls of put
    raced         \* history: a put fell between the statements of a clear

vars == <<cache, access, memory_bytes, clearing, puts, raced>>

Init ==
    /\ cache = <<>>
    /\ access = <<>>
    /\ memory_bytes = 0
    /\ clearing = [t \in Threads |-> 3]
    /\ puts = 0
    /\ raced = FALSE

Idle(t) == clearing[t] = 3

(* A hit clones the data and a miss does nothing: access_order is not touched. *)
Get(t, f) == Idle(t) /\ UNCHANGED vars

(* The bytes of the frames in S that are cached, each frame's numbered from 1. *)
ByteSet(c, S) == UNION {{f} \X (1 .. c[f]) : f \in S \cap DOMAIN c}
Bytes(c, S) == Cardinality(ByteSet(c, S))

(* The frames that popping the first n slots of an access order evicts. *)
Popped(order, n) == {order[i] : i \in 1 .. n}

(* Mutant: the capacity is compared off by one. *)
SlotsToPopLoose(c, order, bytes) ==
    LET enough(n) == bytes - Bytes(c, Popped(order, n)) <= capacity_bytes + 1
    IN  CHOOSE n \in 0 .. Len(order) :
            /\ enough(n) \/ n = Len(order)
            /\ \A m \in 0 .. n - 1 : ~enough(m)

(* The eviction loop: the fewest slots to pop until the bytes fit, or all. *)
SlotsToPop(c, order, bytes) ==
    LET enough(n) == bytes - Bytes(c, Popped(order, n)) <= capacity_bytes
    IN  CHOOSE n \in 0 .. Len(order) :
            /\ enough(n) \/ n = Len(order)
            /\ \A m \in 0 .. n - 1 : ~enough(m)

Inserted(f, size) ==
    [x \in DOMAIN cache \cup {f} |-> IF x = f THEN size ELSE cache[x]]

(* Mutant: a frame that is already cached gets no new slot, and neither are
   its bytes counted. *)
PutUncounted(t, f, size) ==
    /\ Idle(t) /\ puts < MaxPuts
    /\ LET c == Inserted(f, size)
           known == f \in DOMAIN cache
           order == IF known THEN access ELSE Append(access, f)
           bytes == IF known THEN memory_bytes ELSE memory_bytes + size
           n == SlotsToPop(c, order, bytes)
           gone == Popped(order, n) \cap DOMAIN c
       IN  /\ cache' = [x \in DOMAIN c \ gone |-> c[x]]
           /\ access' = SubSeq(order, n + 1, Len(order))
           /\ memory_bytes' = bytes - Bytes(c, gone)
    /\ raced' = (raced \/ \E u \in Threads : ~Idle(u))
    /\ puts' = puts + 1
    /\ UNCHANGED clearing

(* The new data always gets a slot and is always counted; what it replaces
   is not taken off the count, nor its slot out of the order. *)
Put(t, f, size) ==
    /\ Idle(t) /\ puts < MaxPuts
    /\ LET c == Inserted(f, size)
           order == Append(access, f)
           bytes == memory_bytes + size
           n == SlotsToPop(c, order, bytes)
           gone == Popped(order, n) \cap DOMAIN c
       IN  /\ cache' = [x \in DOMAIN c \ gone |-> c[x]]
           /\ access' = SubSeq(order, n + 1, Len(order))
           /\ memory_bytes' = bytes - Bytes(c, gone)
    /\ raced' = (raced \/ \E u \in Threads : ~Idle(u))
    /\ puts' = puts + 1
    /\ UNCHANGED clearing

ClearCache(t) ==
    /\ Idle(t)
    /\ cache' = <<>>
    /\ clearing' = [clearing EXCEPT ![t] = 1]
    /\ UNCHANGED <<access, memory_bytes, puts, raced>>

ClearAccess(t) ==
    /\ clearing[t] = 1
    /\ access' = <<>>
    /\ clearing' = [clearing EXCEPT ![t] = 2]
    /\ UNCHANGED <<cache, memory_bytes, puts, raced>>

ClearStats(t) ==
    /\ clearing[t] = 2
    /\ memory_bytes' = 0
    /\ clearing' = [clearing EXCEPT ![t] = 3]
    /\ UNCHANGED <<cache, access, puts, raced>>

Next ==
    \E t \in Threads :
        \/ \E f \in Frames : Get(t, f) \/ \E size \in Sizes : Put(t, f, size)
        \/ ClearCache(t) \/ ClearAccess(t) \/ ClearStats(t)

Spec == Init /\ [][Next]_vars
-----------------------------------------------------------------------------
Held == Bytes(cache, DOMAIN cache)

(* The cache never holds more than its capacity. *)
WithinCapacity == Held <= capacity_bytes

(* As long as no put fell between the statements of a clear, it does not. *)
WithinCapacityUnraced == ~raced => WithinCapacity

(* Then, too, between two calls every cached frame has a slot from which it
   can be evicted, and is counted: replacing frames over and over leaves no
   frame behind that nothing will ever evict. *)
Evictable ==
    ~raced /\ (\A t \in Threads : Idle(t)) =>
        /\ DOMAIN cache \subseteq Range(access)
        /\ Held <= memory_bytes
=============================================================================
