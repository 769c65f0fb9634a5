------------------------------ MODULE CachesProofs ------------------------------
(* Proofs of what the caches keep (MCCaches.tla), for any threads, frames,     *)
(* capacities and episodes, and any number of calls.                           *)
EXTENDS MCCaches, SequenceLemmas, TLAPS, FiniteSetTheorems, SequenceTheorems, WellFoundedInduction

-----------------------------------------------------------------------------
(* Bytes of sets of frames. *)

(* The component's Cardinality is the library's. *)
LEMMA L1Cardinality == \A S : L1!Cardinality(S) = Cardinality(S)
  BY DEF L1!Cardinality, Cardinality

Sized(c) == IsFiniteSet(DOMAIN c) /\ \A f \in DOMAIN c : c[f] \in Nat

LEMMA BytesOfOne ==
    ASSUME NEW f, NEW size \in Nat
    PROVE  IsFiniteSet({f} \X (1 .. size)) /\ Cardinality({f} \X (1 .. size)) = size
<1>1. IsFiniteSet({f}) /\ Cardinality({f}) = 1
  BY FS_Singleton
<1>2. IsFiniteSet(1 .. size) /\ Cardinality(1 .. size) = size
  BY FS_Interval
<1>3. /\ IsFiniteSet({f} \X (1 .. size))
      /\ Cardinality({f} \X (1 .. size)) = Cardinality({f}) * Cardinality(1 .. size)
  <2> DEFINE A == {f}
             B == 1 .. size
  <2>1. IsFiniteSet(A) /\ IsFiniteSet(B)
    BY <1>1, <1>2
  <2> HIDE DEF A, B
  <2>2. IsFiniteSet(A \X B) /\ Cardinality(A \X B) = Cardinality(A) * Cardinality(B)
    BY <2>1, FS_Product
  <2>3. QED
    BY <2>2 DEF A, B
<1>4. QED
  BY <1>1, <1>2, <1>3

LEMMA ByteSetFinite ==
    ASSUME NEW c, Sized(c), NEW S
    PROVE  IsFiniteSet(L1!ByteSet(c, S)) /\ L1!Bytes(c, S) \in Nat
<1> DEFINE D == S \cap DOMAIN c
           U == {{f} \X (1 .. c[f]) : f \in D}
<1>1. IsFiniteSet(D)
  BY FS_Intersection DEF Sized
<1>2. IsFiniteSet(U)
  <2> DEFINE g == [f \in D |-> {f} \X (1 .. c[f])]
  <2>1. g \in Surjection(D, U)
    BY DEF Surjection
  <2>2. QED
    BY <1>1, <2>1, FS_Surjection
<1>3. \A T \in U : IsFiniteSet(T)
  <2>1. ASSUME NEW f \in D PROVE IsFiniteSet({f} \X (1 .. c[f]))
    <3>1. c[f] \in Nat
      BY DEF Sized
    <3>2. QED
      BY <3>1, BytesOfOne
  <2>2. QED
    BY <2>1
<1>4. IsFiniteSet(UNION U)
  BY <1>2, <1>3, FS_UNION
<1>5. L1!ByteSet(c, S) = UNION U
  BY DEF L1!ByteSet
<1>6. QED
  BY <1>4, <1>5, L1Cardinality, FS_CardinalityType DEF L1!Bytes

(* Dropping frames takes their bytes off. *)
LEMMA BytesDropped ==
    ASSUME NEW c, Sized(c), NEW gone \in SUBSET DOMAIN c
    PROVE  LET kept == [x \in DOMAIN c \ gone |-> c[x]]
           IN  /\ Sized(kept)
               /\ L1!Bytes(kept, DOMAIN kept) = L1!Bytes(c, DOMAIN c) - L1!Bytes(c, gone)
<1> DEFINE kept == [x \in DOMAIN c \ gone |-> c[x]]
           all == L1!ByteSet(c, DOMAIN c)
           off == L1!ByteSet(c, gone)
<1>1. Sized(kept)
  BY FS_Difference DEF Sized
<1>2. L1!ByteSet(kept, DOMAIN kept) = all \ off
  BY DEF L1!ByteSet
<1>3. all \cap off = off
  BY DEF L1!ByteSet
<1>4. IsFiniteSet(all)
  BY ByteSetFinite
<1>5. Cardinality(all \ off) = Cardinality(all) - Cardinality(all \cap off)
  BY <1>4, FS_Difference
<1> HIDE DEF kept, all, off
<1>6. L1!Bytes(kept, DOMAIN kept) = L1!Bytes(c, DOMAIN c) - L1!Bytes(c, gone)
  BY <1>2, <1>3, <1>5, L1Cardinality DEF L1!Bytes, all, off
<1>7. QED
  BY <1>1, <1>6 DEF kept

(* Inserting a frame adds at most its own. *)
LEMMA BytesInserted ==
    ASSUME Sized(cache), NEW f, NEW size \in Nat
    PROVE  LET c == L1!Inserted(f, size)
           IN  /\ DOMAIN c = DOMAIN cache \cup {f}
               /\ Sized(c)
               /\ L1!Bytes(c, DOMAIN c) <= L1!Bytes(cache, DOMAIN cache) + size
<1> DEFINE c == L1!Inserted(f, size)
           new == L1!ByteSet(c, DOMAIN c)
           old == L1!ByteSet(cache, DOMAIN cache)
           own == {f} \X (1 .. size)
<1>1. DOMAIN c = DOMAIN cache \cup {f}
  BY DEF L1!Inserted
<1>2. Sized(c)
  BY <1>1, FS_AddElement DEF Sized, L1!Inserted
<1>3. new \subseteq old \cup own
  BY <1>1 DEF L1!ByteSet, L1!Inserted
<1>4. IsFiniteSet(old) /\ IsFiniteSet(own) /\ Cardinality(own) = size
  BY ByteSetFinite, BytesOfOne
<1>5. /\ IsFiniteSet(old \cup own)
      /\ Cardinality(old \cup own) = Cardinality(old) + Cardinality(own) - Cardinality(old \cap own)
  BY <1>4, FS_Union
<1>6. Cardinality(old \cap own) \in Nat
  BY <1>4, FS_Intersection, FS_CardinalityType
<1>7. Cardinality(new) <= Cardinality(old \cup own) /\ Cardinality(new) \in Nat /\ Cardinality(old) \in Nat
  BY <1>3, <1>4, <1>5, FS_Subset, FS_CardinalityType
<1>8. Cardinality(new) <= Cardinality(old) + size
  BY <1>4, <1>5, <1>6, <1>7
<1>9. L1!Bytes(c, DOMAIN c) <= L1!Bytes(cache, DOMAIN cache) + size
  BY <1>8, L1Cardinality DEF L1!Bytes
<1> HIDE DEF c
<1>10. QED
  BY <1>1, <1>2, <1>9 DEF c

(* The eviction loop ends: it pops enough slots or all of them. *)
LEMMA SlotsPopped ==
    ASSUME NEW order \in Seq(Frames), NEW c, Sized(c), NEW bytes \in Int, capacity_bytes \in Nat,
           NEW n, n = L1!SlotsToPop(c, order, bytes)
    PROVE  /\ n \in 0 .. Len(order)
           /\ bytes - L1!Bytes(c, L1!Popped(order, n)) <= capacity_bytes \/ n = Len(order)
<1> DEFINE enough(m) == bytes - L1!Bytes(c, L1!Popped(order, m)) <= capacity_bytes
           S == {m \in 0 .. Len(order) : enough(m) \/ m = Len(order)}
<1>1. Len(order) \in Nat /\ S \in SUBSET Nat /\ Len(order) \in S
  OBVIOUS
<1>2. PICK m \in S : \A k \in S : m <= k
  <2> HIDE DEF S
  <2> QED BY <1>1, LeastElement
<1>3. /\ m \in 0 .. Len(order)
      /\ enough(m) \/ m = Len(order)
      /\ \A k \in 0 .. m - 1 : ~enough(k)
  BY <1>1, <1>2
<1>4. n = CHOOSE k \in 0 .. Len(order) :
              /\ enough(k) \/ k = Len(order)
              /\ \A j \in 0 .. k - 1 : ~enough(j)
  BY DEF L1!SlotsToPop
<1> HIDE DEF enough
<1>5. n \in 0 .. Len(order) /\ (enough(n) \/ n = Len(order))
  BY <1>3, <1>4
<1>6. QED
  BY <1>5 DEF enough

-----------------------------------------------------------------------------
(* The L1 cache.  As long as no put fell between the statements of a clear, the
   count is at least the bytes held, a clear under way finds the map empty, and
   outside one every cached frame has a slot. *)
L1Inv ==
    /\ Sized(cache) /\ access \in Seq(Frames) /\ memory_bytes \in Int
    /\ clearing \in [Threads -> 1 .. 3] /\ raced \in BOOLEAN
    /\ ~raced =>
         /\ L1!Held <= capacity_bytes
         /\ L1!Held <= memory_bytes
         /\ (\A t \in Threads : L1!Idle(t)) => DOMAIN cache \subseteq L1!Range(access)
         /\ (\E t \in Threads : ~L1!Idle(t)) => DOMAIN cache = {}

LEMMA EmptyCache ==
    ASSUME NEW c, DOMAIN c = {}
    PROVE  Sized(c) /\ L1!Bytes(c, DOMAIN c) = 0
<1>1. Sized(c)
  BY FS_EmptySet DEF Sized
<1>2. L1!ByteSet(c, DOMAIN c) = {}
  BY DEF L1!ByteSet
<1>3. L1!Bytes(c, DOMAIN c) = 0
  BY <1>2, FS_EmptySet, L1Cardinality DEF L1!Bytes
<1>4. QED
  BY <1>1, <1>3

LEMMA PutKeepsL1 ==
    ASSUME L1!L1Assumption, L1Inv,
           NEW t \in Threads, NEW f \in Frames, NEW size \in Sizes, L1!Put(t, f, size)
    PROVE  L1Inv'
<1> DEFINE c == L1!Inserted(f, size)
           order == Append(access, f)
           bytes == memory_bytes + size
           n == L1!SlotsToPop(c, order, bytes)
           gone == L1!Popped(order, n) \cap DOMAIN c
           kept == [x \in DOMAIN c \ gone |-> c[x]]
<1>1. /\ cache' = kept /\ access' = SubSeq(order, n + 1, Len(order))
      /\ memory_bytes' = bytes - L1!Bytes(c, gone)
      /\ clearing' = clearing /\ raced' = (raced \/ \E u \in Threads : ~L1!Idle(u))
  BY DEF L1!Put
<1>2. size \in Nat /\ capacity_bytes \in Nat
  BY DEF L1!L1Assumption
<1>3. /\ DOMAIN c = DOMAIN cache \cup {f} /\ Sized(c)
      /\ L1!Bytes(c, DOMAIN c) <= L1!Held + size
  BY <1>2, BytesInserted DEF L1Inv, L1!Held
<1>4. order \in Seq(Frames) /\ Len(order) \in Nat /\ bytes \in Int
  BY <1>2 DEF L1Inv
<1> HIDE DEF c
<1>5. /\ n \in 0 .. Len(order)
      /\ bytes - L1!Bytes(c, L1!Popped(order, n)) <= capacity_bytes \/ n = Len(order)
  <2> HIDE DEF order, bytes
  <2>1. PICK k : k = n
    OBVIOUS
  <2>2. QED
    BY <1>2, <1>3, <1>4, <2>1, SlotsPopped
<1> HIDE DEF n
<1>6. gone \in SUBSET DOMAIN c /\ L1!Bytes(c, L1!Popped(order, n)) = L1!Bytes(c, gone)
  BY DEF L1!Bytes, L1!ByteSet
<1>7. /\ L1!Bytes(c, gone) \in Nat /\ L1!Bytes(c, DOMAIN c) \in Nat /\ L1!Held \in Nat
  BY <1>3, ByteSetFinite DEF L1!Held, L1Inv
<1> HIDE DEF gone
<1>8. /\ Sized(kept) /\ DOMAIN kept = DOMAIN c \ gone
      /\ L1!Bytes(kept, DOMAIN kept) = L1!Bytes(c, DOMAIN c) - L1!Bytes(c, gone)
  BY <1>3, <1>6, BytesDropped
<1> HIDE DEF kept
<1>9. Sized(cache)' /\ L1!Held' = L1!Bytes(c, DOMAIN c) - L1!Bytes(c, gone)
  BY <1>1, <1>8 DEF L1!Held, Sized, L1!Bytes, L1!ByteSet
<1>10. access' \in Seq(Frames) /\ memory_bytes' \in Int
  BY <1>1, <1>4, <1>5, <1>7
<1>11. clearing' \in [Threads -> 1 .. 3] /\ raced' \in BOOLEAN
  BY <1>1 DEF L1Inv
<1>12. ASSUME ~raced'
       PROVE  /\ L1!Held' <= capacity_bytes
              /\ L1!Held' <= memory_bytes'
              /\ DOMAIN cache' \subseteq L1!Range(access')
              /\ \A u \in Threads : L1!Idle(u)'
  <2>1. ~raced /\ \A u \in Threads : L1!Idle(u)
    BY <1>1, <1>12
  <2>2. L1!Held <= memory_bytes /\ DOMAIN cache \subseteq L1!Range(access)
    BY <2>1 DEF L1Inv
  <2>3. DOMAIN c \subseteq {order[i] : i \in 1 .. Len(order)}
    <3>1. access \in Seq(Frames) /\ f \in Frames
      BY DEF L1Inv
    <3>2. \A i \in 1 .. Len(access) : order[i] = access[i] /\ i \in 1 .. Len(order)
      BY <3>1
    <3>3. order[Len(order)] = f /\ Len(order) \in 1 .. Len(order)
      BY <3>1
    <3>4. QED
      BY <1>3, <2>2, <3>1, <3>2, <3>3 DEF L1!Range
  <2>4. L1!Held' <= memory_bytes'
    BY <1>1, <1>2, <1>3, <1>7, <1>9, <2>2 DEF L1Inv
  <2>5. L1!Held' <= capacity_bytes
    <3>1. CASE bytes - L1!Bytes(c, gone) <= capacity_bytes
      BY <1>1, <1>2, <1>3, <1>7, <1>9, <1>10, <2>4, <3>1
    <3>2. CASE n = Len(order)
      <4>1. gone = DOMAIN c
        BY <2>3, <3>2 DEF gone, L1!Popped
      <4>2. QED
        BY <1>2, <1>7, <1>9, <4>1
    <3>3. QED
      BY <1>5, <1>6, <3>1, <3>2
  <2>6. DOMAIN cache' \subseteq L1!Range(access')
    <3> SUFFICES ASSUME NEW x \in DOMAIN c \ gone PROVE x \in L1!Range(access')
      BY <1>1, <1>8
    <3>1. PICK i \in 1 .. Len(order) : order[i] = x
      BY <2>3
    <3>2. i > n
      BY <1>5, <3>1 DEF gone, L1!Popped
    <3>3. i - n \in DOMAIN access' /\ access'[i - n] = x
      <4> HIDE DEF order
      <4> QED BY <1>1, <1>4, <1>5, <3>1, <3>2
    <3>4. QED
      BY <3>3 DEF L1!Range
  <2>7. \A u \in Threads : L1!Idle(u)'
    BY <1>1, <2>1 DEF L1!Idle
  <2>8. QED
    BY <2>4, <2>5, <2>6, <2>7
<1>13. QED
  BY <1>9, <1>10, <1>11, <1>12 DEF L1Inv

(* While a clear is under way and no put fell into it, there is nothing to hold. *)
LEMMA ClearKeepsL1 ==
    ASSUME L1!L1Assumption, L1Inv, NEW t \in Threads,
           L1!ClearCache(t) \/ L1!ClearAccess(t) \/ L1!ClearStats(t)
    PROVE  L1Inv'
<1>1. capacity_bytes \in Nat /\ raced' = raced
  BY DEF L1!L1Assumption, L1!ClearCache, L1!ClearAccess, L1!ClearStats
<1>2. /\ access' \in Seq(Frames) /\ memory_bytes' \in Int
      /\ clearing' \in [Threads -> 1 .. 3] /\ raced' \in BOOLEAN
  <2>1. access' \in {access, <<>>} /\ memory_bytes' \in {memory_bytes, 0}
    BY DEF L1!ClearCache, L1!ClearAccess, L1!ClearStats
  <2>2. clearing' \in [Threads -> 1 .. 3]
    BY DEF L1Inv, L1!ClearCache, L1!ClearAccess, L1!ClearStats
  <2>3. access' \in Seq(Frames) /\ memory_bytes' \in Int
    <3>1. <<>> \in Seq(Frames) /\ 0 \in Int
      OBVIOUS
    <3>2. QED
      BY <2>1, <3>1 DEF L1Inv
  <2>4. raced' \in BOOLEAN
    BY <1>1 DEF L1Inv
  <2>5. QED
    BY <2>2, <2>3, <2>4
<1>3. ASSUME DOMAIN cache' = {}
      PROVE  Sized(cache') /\ L1!Held' = 0
  BY <1>3, EmptyCache DEF L1!Held, L1!Bytes, L1!ByteSet
<1>4. L1!Held \in Nat
  BY ByteSetFinite DEF L1Inv, L1!Held
<1>5. CASE L1!ClearCache(t)
  <2>1. DOMAIN cache' = {} /\ memory_bytes' = memory_bytes
    BY <1>5 DEF L1!ClearCache
  <2>2. QED
    BY <1>1, <1>2, <1>3, <1>4, <2>1 DEF L1Inv, Sized
<1>6. CASE L1!ClearAccess(t) \/ L1!ClearStats(t)
  <2>1. cache' = cache /\ ~L1!Idle(t) /\ memory_bytes' \in {memory_bytes, 0}
    BY <1>6 DEF L1!ClearAccess, L1!ClearStats, L1!Idle, L1Inv
  <2>2. Sized(cache)'
    BY <2>1 DEF L1Inv, Sized
  <2>3. CASE raced
    BY <1>1, <1>2, <2>2, <2>3 DEF L1Inv
  <2>4. CASE ~raced
    <3>1. DOMAIN cache' = {}
      BY <2>1, <2>4 DEF L1Inv
    <3>2. memory_bytes >= 0
      BY <1>4, <2>4 DEF L1Inv
    <3>3. QED
      BY <1>1, <1>2, <1>3, <2>1, <2>2, <3>1, <3>2 DEF L1Inv
  <2>5. QED
    BY <2>3, <2>4 DEF L1Inv
<1>7. QED
  BY <1>5, <1>6

LEMMA L1Step == L1!L1Assumption /\ L1Inv /\ [Next]_vars => L1Inv'
<1> SUFFICES ASSUME L1!L1Assumption, L1Inv, [Next]_vars PROVE L1Inv'
  OBVIOUS
<1>1. ASSUME UNCHANGED l1Vars PROVE L1Inv'
  BY <1>1 DEF L1Inv, l1Vars, Sized, L1!Held, L1!Bytes, L1!ByteSet, L1!Idle, L1!Range
<1>2. CASE L1!Next
  <2>1. PICK t \in Threads :
          \/ \E f \in Frames : L1!Get(t, f) \/ \E size \in Sizes : L1!Put(t, f, size)
          \/ L1!ClearCache(t) \/ L1!ClearAccess(t) \/ L1!ClearStats(t)
    BY <1>2 DEF L1!Next
  <2>2. CASE \E f \in Frames : L1!Get(t, f)
    BY <1>1, <2>2 DEF L1!Get, L1!vars, l1Vars
  <2>3. QED
    BY <2>1, <2>2, PutKeepsL1, ClearKeepsL1
<1>3. CASE UNCHANGED l1Vars
  BY <1>1, <1>3
<1>4. QED
  BY <1>2, <1>3 DEF Next, vars

(* The L1 cache never holds more than its capacity, and every frame it holds
   has a slot from which it can be evicted and is counted, as long as no put
   falls between the statements of a clear: L1Cache::put and clear (cache.rs). *)
THEOREM L1StaysBounded ==
    ASSUME L1!L1Assumption
    PROVE  Spec => [](WithinCapacityUnraced /\ Evictable)
<1>1. Init => L1Inv
  <2> SUFFICES ASSUME Init PROVE L1Inv
    OBVIOUS
  <2>1. /\ cache = <<>> /\ access = <<>> /\ memory_bytes = 0
        /\ clearing = [t \in Threads |-> 3] /\ raced = FALSE
    BY DEF Init, L1!Init
  <2>2. DOMAIN cache = {}
    BY <2>1
  <2>3. Sized(cache) /\ L1!Held = 0
    BY <2>2, EmptyCache DEF L1!Held
  <2>4. \A t \in Threads : L1!Idle(t)
    BY <2>1 DEF L1!Idle
  <2>5. access \in Seq(Frames) /\ memory_bytes \in Int /\ clearing \in [Threads -> 1 .. 3]
    BY <2>1
  <2>6. L1!Held <= capacity_bytes /\ L1!Held <= memory_bytes
    BY <2>1, <2>3 DEF L1!L1Assumption
  <2>7. QED
    BY <2>1, <2>2, <2>3, <2>4, <2>5, <2>6 DEF L1Inv
<1>2. L1Inv /\ [Next]_vars => L1Inv'
  BY L1Step
<1>3. L1Inv => WithinCapacityUnraced /\ Evictable
  BY DEF L1Inv, WithinCapacityUnraced, Evictable, L1!WithinCapacityUnraced, L1!WithinCapacity,
         L1!Evictable
<1>4. QED
  BY <1>1, <1>2, <1>3, PTL DEF Spec

(* In particular every frame put into the L1 cache can be evicted and counts:
   L1Cache::put (cache.rs). *)
COROLLARY L1FramesAreEvictable == ASSUME L1!L1Assumption PROVE Spec => []Evictable
<1>1. WithinCapacityUnraced /\ Evictable => Evictable
  OBVIOUS
<1>2. QED
  BY <1>1, L1StaysBounded, PTL

-----------------------------------------------------------------------------
(* The L2 cache.  What a listed file and a put under way need besides. *)
Puttings == {{}} \cup {{f} : f \in Frames}

L2Inv ==
    /\ entries \in Seq(Frames)
    /\ tier = "L2" => putting \in [Threads -> Puttings] /\ L2!NoOrphanFiles

(* A file that goes from the list, or from what was left behind, is removed or
   kept by the file system: what put and clear share. *)
LEMMA L2Removes ==
    ASSUME NEW gone, NEW known, NEW f \in files', L2!Removes(gone, known)
    PROVE  f \in files /\ (f \in gone \/ f \in known => f \in left')
  BY DEF L2!Removes

LEMMA L2Put ==
    ASSUME L2Inv, tier = "L2", L2!L2Assumption, NEW t \in Threads, L2!PutLists(t)
    PROVE  L2Inv'
<1>1. PICK g \in putting[t] :
        /\ entries' = SubSeq(Append(entries, g), L2!Surplus(Append(entries, g)) + 1,
                             Len(Append(entries, g)))
        /\ L2!Removes({Append(entries, g)[i] : i \in 1 .. L2!Surplus(Append(entries, g))},
                      left \ {g})
        /\ putting' = [putting EXCEPT ![t] = {}]
  BY DEF L2!PutLists
<1> DEFINE all == Append(entries, g)
           n == L2!Surplus(all)
           gone == {all[i] : i \in 1 .. n}
<1>2. g \in Frames /\ putting[t] = {g}
  BY DEF L2Inv, Puttings
<1>3. all \in Seq(Frames) /\ Len(all) \in Nat /\ n \in 0 .. Len(all)
  BY <1>2 DEF L2Inv, L2!L2Assumption, L2!Surplus
<1>4. /\ \A i \in 1 .. Len(entries) : i \in 1 .. Len(all) /\ all[i] = entries[i]
      /\ Len(all) \in 1 .. Len(all) /\ all[Len(all)] = g
  BY DEF L2Inv
<1>5. /\ entries' = SubSeq(all, n + 1, Len(all)) /\ L2!Removes(gone, left \ {g})
  BY <1>1
<1> HIDE DEF all, n, gone
<1>6. entries' \in Seq(Frames)
  BY <1>3, <1>5
<1>7. putting' \in [Threads -> Puttings]
  BY <1>1 DEF L2Inv, Puttings
<1>8. \A i \in 1 .. Len(all) : all[i] \in gone \/ all[i] \in L2!Range(entries')
  <2> SUFFICES ASSUME NEW i \in 1 .. Len(all), ~(i \in 1 .. n)
               PROVE  all[i] \in L2!Range(entries')
    BY DEF gone
  <2>1. i - n \in DOMAIN entries' /\ entries'[i - n] = all[i]
    BY <1>3, <1>5
  <2>2. QED
    BY <2>1 DEF L2!Range
<1>9. ASSUME NEW f \in files'
      PROVE  \/ f \in L2!Range(entries')
             \/ \E u \in Threads : f \in putting'[u]
             \/ f \in left'
  <2>1. f \in files /\ (f \in gone \/ f \in left \ {g} => f \in left')
    BY <1>5, L2Removes
  <2>2. CASE f = g \/ f \in L2!Range(entries)
    <3>1. \E i \in 1 .. Len(all) : all[i] = f
      BY <1>4, <2>2 DEF L2!Range, L2Inv
    <3>2. QED
      BY <1>8, <2>1, <3>1
  <2>3. CASE f # g /\ \E u \in Threads : f \in putting[u]
    <3>1. PICK u \in Threads : f \in putting[u]
      BY <2>3
    <3>2. CASE u = t
      BY <1>2, <2>3, <3>1, <3>2
    <3>3. CASE u # t
      BY <1>1, <3>1, <3>3 DEF L2Inv
    <3>4. QED
      BY <3>2, <3>3
  <2>4. CASE f # g /\ f \in left
    BY <2>1, <2>4
  <2>5. QED
    BY <2>1, <2>2, <2>3, <2>4 DEF L2Inv, L2!NoOrphanFiles
<1>10. QED
  BY <1>6, <1>9, <1>7 DEF L2Inv, L2!NoOrphanFiles

LEMMA L2Step == L2!L2Assumption /\ L2Inv /\ [Next]_vars => L2Inv'
<1> SUFFICES ASSUME L2!L2Assumption, L2Inv, [Next]_vars PROVE L2Inv'
  OBVIOUS
<1>1. CASE tier = "L2" /\ L2!Next /\ UNCHANGED <<tier, pc, l1Vars, ramVars>>
  <2>1. CASE \E t \in Threads, f \in Frames : L2!PutOpens(t, f)
    <3>1. PICK t \in Threads, f \in Frames : L2!PutOpens(t, f)
      BY <2>1
    <3>2. putting' \in [Threads -> Puttings] /\ entries' = entries
      BY <1>1, <3>1 DEF L2Inv, L2!PutOpens, Puttings
    <3>3. \A u \in Threads : putting[u] \subseteq putting'[u]
      BY <1>1, <3>1 DEF L2Inv, L2!PutOpens
    <3>4. f \in putting'[t] /\ files' = files \cup {f} /\ left' = left
      BY <1>1, <3>1 DEF L2Inv, L2!PutOpens
    <3>5. QED
      BY <1>1, <3>2, <3>3, <3>4 DEF L2Inv, L2!NoOrphanFiles, L2!Range
  <2>2. CASE \E t \in Threads : L2!PutFails(t)
    <3>1. PICK t \in Threads : L2!PutFails(t)
      BY <2>2
    <3>2. putting' \in [Threads -> Puttings] /\ entries' = entries
      BY <1>1, <3>1 DEF L2Inv, L2!PutFails, Puttings
    <3>3. \A u \in Threads : u # t => putting'[u] = putting[u]
      BY <1>1, <3>1 DEF L2Inv, L2!PutFails
    <3>4. files' = files /\ left' = left \cup (putting[t] \cap files)
      BY <3>1 DEF L2!PutFails
    <3>5. QED
      BY <1>1, <3>2, <3>3, <3>4 DEF L2Inv, L2!NoOrphanFiles, L2!Range
  <2>3. CASE \E t \in Threads : L2!Clear(t)
    <3>1. entries' = <<>> /\ putting' = putting /\ L2!Removes(L2!Range(entries), left)
      BY <2>3 DEF L2!Clear
    <3>2. \A f \in files' : f \in files /\ (f \in L2!Range(entries) \/ f \in left => f \in left')
      BY <3>1, L2Removes
    <3>3. entries' \in Seq(Frames)
      BY <3>1
    <3>4. QED
      BY <1>1, <3>1, <3>2, <3>3 DEF L2Inv, L2!NoOrphanFiles
  <2>4. CASE L2!Reopen
    BY <1>1, <2>4 DEF L2Inv, L2!Reopen, L2!NoOrphanFiles, Puttings
  <2>5. QED
    BY <1>1, <2>1, <2>2, <2>3, <2>4, L2Put DEF L2!Next
<1>2. CASE tier # "L2" /\ UNCHANGED <<tier, l2Vars>>
  BY <1>2 DEF L2Inv, l2Vars
<1>3. CASE UNCHANGED vars
  BY <1>3 DEF L2Inv, vars, l2Vars, L2!NoOrphanFiles, L2!Range
<1>4. QED
  BY <1>1, <1>2, <1>3 DEF Next

(* Puts, evictions and clears lose no file of the L2 cache, however the calls of
   several threads interleave and wherever a write or a removal fails or the
   process ends: a file is listed, being put, or was left behind by a failure or
   by an earlier cache (L2Cache::put, clear and new, cache.rs). *)
THEOREM L2ListsItsFiles == ASSUME L2!L2Assumption PROVE Spec => []NoOrphanFiles
<1>1. Init => L2Inv
  BY DEF Init, L2!Init, L2Inv, L2!NoOrphanFiles, Puttings
<1>2. L2Inv /\ [Next]_vars => L2Inv'
  BY L2Step
<1>3. L2Inv => NoOrphanFiles
  BY DEF L2Inv, NoOrphanFiles
<1>4. QED
  BY <1>1, <1>2, <1>3, PTL DEF Spec

-----------------------------------------------------------------------------
(* The cache of episodes: what it holds.  An episode is cached once, for
   recency has no pair of an episode with itself. *)
RAMInv ==
    /\ \E S : cached \in Seq(S)
    /\ \A p \in recency : p[1] # p[2]
    /\ LeastRecentFirst
    /\ SharedCopy

LEMMA CachedOnce ==
    ASSUME RAMInv, NEW j \in DOMAIN cached, NEW k \in DOMAIN cached, cached[j].ep = cached[k].ep
    PROVE  j = k
<1> DEFINE p == <<cached[j].ep, cached[k].ep>>
<1>1. p \notin recency /\ <<cached[k].ep, cached[j].ep>> \notin recency
  BY DEF RAMInv
<1>2. ~(j < k) /\ ~(k < j)
  BY <1>1 DEF RAMInv, LeastRecentFirst, RAM!LeastRecentFirst
<1>3. j \in Int /\ k \in Int
  BY DEF RAMInv
<1>4. QED
  BY <1>2, <1>3

(* move_to_end: the positions of what is cached. *)
LEMMA MovedToEnd ==
    ASSUME NEW S, cached \in Seq(S), NEW e \in RAM!Keys
    PROVE  LET at == RAM!Entry(e)
           IN  /\ at \in 1 .. Len(cached) /\ cached[at].ep = e
               /\ RAM!Moved(e) \in Seq(S) /\ Len(RAM!Moved(e)) = Len(cached)
               /\ \A j \in 1 .. Len(cached) :
                    RAM!Moved(e)[j] = IF j < at THEN cached[j]
                                      ELSE IF j < Len(cached) THEN cached[j + 1] ELSE cached[at]
<1> DEFINE at == RAM!Entry(e)
<1>1. at \in 1 .. Len(cached) /\ cached[at].ep = e
  BY DEF RAM!Keys, RAM!Entry
<1> HIDE DEF at
<1>2. RAM!Moved(e) = Append(SubSeq(cached, 1, at - 1) \o SubSeq(cached, at + 1, Len(cached)), cached[at])
  BY DEF RAM!Moved, RAM!RemoveAt, at
<1> DEFINE before == SubSeq(cached, 1, at - 1)
           after == SubSeq(cached, at + 1, Len(cached))
<1>3. /\ before \in Seq(S) /\ Len(before) = at - 1
      /\ \A j \in 1 .. at - 1 : before[j] = cached[j]
  BY <1>1
<1>4. /\ after \in Seq(S) /\ Len(after) = Len(cached) - at
      /\ \A j \in 1 .. Len(cached) - at : after[j] = cached[at + j]
  BY <1>1
<1> HIDE DEF before, after
<1>5. /\ before \o after \in Seq(S) /\ Len(before \o after) = Len(cached) - 1
      /\ \A j \in 1 .. Len(cached) - 1 :
           (before \o after)[j] = IF j < at THEN cached[j] ELSE cached[j + 1]
  <2>1. /\ before \o after \in Seq(S) /\ Len(before \o after) = Len(before) + Len(after)
        /\ \A j \in 1 .. Len(before) + Len(after) :
             (before \o after)[j] = IF j <= Len(before) THEN before[j] ELSE after[j - Len(before)]
    BY <1>3, <1>4, ConcatProperties
  <2>2. Len(cached) \in Nat /\ at \in Nat
    BY <1>1
  <2> DEFINE both == before \o after
  <2> HIDE DEF both
  <2>3. /\ both \in Seq(S) /\ Len(both) = Len(cached) - 1
        /\ \A j \in 1 .. Len(cached) - 1 :
             both[j] = IF j <= at - 1 THEN before[j] ELSE after[j - (at - 1)]
    BY <1>3, <1>4, <2>1, <2>2 DEF both
  <2>4. \A j \in 1 .. Len(cached) - 1 : both[j] = IF j < at THEN cached[j] ELSE cached[j + 1]
    BY <1>1, <1>3, <1>4, <2>2, <2>3
  <2>5. QED
    BY <2>3, <2>4 DEF both
<1> DEFINE rest == before \o after
<1>6. RAM!Moved(e) = Append(rest, cached[at]) /\ cached[at] \in S
  BY <1>1, <1>2 DEF before, after
<1> HIDE DEF rest
<1>7. /\ rest \in Seq(S) /\ Len(rest) = Len(cached) - 1
      /\ \A j \in 1 .. Len(cached) - 1 : rest[j] = IF j < at THEN cached[j] ELSE cached[j + 1]
  BY <1>5 DEF rest
<1>8. QED
  BY <1>1, <1>6, <1>7 DEF at

(* popitem and the insertion: the positions of what is cached. *)
LEMMA InsertedAtEnd ==
    ASSUME NEW S, cached \in Seq(S), NEW e, NEW by, max_episodes \in Nat \ {0}
    PROVE  LET d == IF Len(cached) >= max_episodes THEN 1 ELSE 0
               new == [ep |-> e, copy |-> by]
           IN  /\ RAM!WithInserted(e, by) \in Seq(S \cup {new})
               /\ Len(RAM!WithInserted(e, by)) = Len(cached) + 1 - d
               /\ d <= Len(cached)
               /\ \A j \in 1 .. Len(cached) + 1 - d :
                    RAM!WithInserted(e, by)[j] = IF j + d <= Len(cached) THEN cached[j + d] ELSE new
<1> DEFINE new == [ep |-> e, copy |-> by]
<1>1. CASE Len(cached) >= max_episodes
  <2>1. cached # <<>> /\ Len(cached) \in Nat
    BY <1>1
  <2>2. RAM!WithInserted(e, by) = Append(Tail(cached), new)
    BY <1>1 DEF RAM!WithInserted
  <2> HIDE DEF new
  <2>3. QED
    BY <1>1, <2>1, <2>2 DEF new
<1>2. CASE ~(Len(cached) >= max_episodes)
  <2>1. RAM!WithInserted(e, by) = Append(cached, new)
    BY <1>2 DEF RAM!WithInserted
  <2> HIDE DEF new
  <2>2. QED
    BY <1>2, <2>1 DEF new
<1>3. QED
  BY <1>1, <1>2

(* A hit keeps the order of use, and every copy. *)
LEMMA MovedKeepsOrder ==
    ASSUME RAMInv, NEW e \in RAM!Keys, cached' = RAM!Moved(e), RAM!Touch(e)
    PROVE  /\ \E S : cached' \in Seq(S)
           /\ \A p \in recency' : p[1] # p[2]
           /\ LeastRecentFirst'
           /\ RAM!Range(cached') = RAM!Range(cached)
<1>1. PICK S : cached \in Seq(S)
  BY DEF RAMInv
<1> DEFINE at == RAM!Entry(e)
           n == Len(cached)
<1>2. /\ at \in 1 .. n /\ cached[at].ep = e /\ n \in Nat
      /\ cached' \in Seq(S) /\ Len(cached') = n
      /\ \A j \in 1 .. n : cached'[j] = IF j < at THEN cached[j]
                                        ELSE IF j < n THEN cached[j + 1] ELSE cached[at]
  BY <1>1, MovedToEnd
<1> HIDE DEF at
<1>3. (\A x \in RAM!Keys \ {e} : <<x, e>> \in recency') /\ <<e, e>> \notin recency'
  BY DEF RAM!Touch, RAMInv
<1>4. /\ \A x, y \in RAM!Keys \ {e} : <<x, y>> \in recency' <=> <<x, y>> \in recency
      /\ \A y : <<e, y>> \notin recency'
  BY DEF RAM!Touch
<1>5. \A p \in recency' : p[1] # p[2]
  BY DEF RAM!Touch, RAMInv
<1>6. \A j \in 1 .. n - 1 :
         LET i == IF j < at THEN j ELSE j + 1
         IN  i \in 1 .. n /\ i # at /\ cached'[j] = cached[i] /\ cached[i].ep # e
                /\ cached[i].ep \in RAM!Keys
  <2> SUFFICES ASSUME NEW j \in 1 .. n - 1, NEW i, i = IF j < at THEN j ELSE j + 1
               PROVE  i \in 1 .. n /\ i # at /\ cached'[j] = cached[i] /\ cached[i].ep # e
                        /\ cached[i].ep \in RAM!Keys
    OBVIOUS
  <2>1. i \in 1 .. n /\ i # at /\ cached'[j] = cached[i]
    BY <1>2
  <2>2. cached[i].ep # e
    BY <1>1, <1>2, <2>1, CachedOnce
  <2>3. cached[i].ep \in RAM!Keys
    BY <1>1, <2>1 DEF RAM!Keys
  <2>4. QED
    BY <2>1, <2>2, <2>3
<1>7. n \in 1 .. n /\ cached'[n].ep = e /\ cached'[n] = cached[at]
  BY <1>2
<1>8. ASSUME NEW j \in 1 .. n, NEW k \in 1 .. n
      PROVE  j < k <=> <<cached'[j].ep, cached'[k].ep>> \in recency'
  <2>1. CASE k = n /\ j # n
    <3>1. cached'[j].ep \in RAM!Keys \ {e}
      BY <1>6, <2>1
    <3>2. QED
      BY <1>2, <1>3, <1>7, <2>1, <3>1
  <2>2. CASE k = n /\ j = n
    BY <1>3, <1>7, <2>2
  <2>3. CASE k # n /\ j = n
    BY <1>2, <1>4, <1>7, <2>3
  <2>4. CASE k # n /\ j # n
    <3> DEFINE a == IF j < at THEN j ELSE j + 1
               b == IF k < at THEN k ELSE k + 1
    <3>1. /\ a \in 1 .. n /\ cached'[j] = cached[a] /\ cached[a].ep \in RAM!Keys \ {e}
          /\ b \in 1 .. n /\ cached'[k] = cached[b] /\ cached[b].ep \in RAM!Keys \ {e}
      BY <1>6, <2>4
    <3>2. a < b <=> j < k
      BY <1>2
    <3> HIDE DEF a, b
    <3>3. a < b <=> <<cached[a].ep, cached[b].ep>> \in recency
      <4>1. a \in DOMAIN cached /\ b \in DOMAIN cached
        BY <1>1, <3>1
      <4>2. QED
        BY <4>1 DEF RAMInv, LeastRecentFirst, RAM!LeastRecentFirst
    <3>4. QED
      BY <1>4, <3>1, <3>2, <3>3
  <2>5. QED
    BY <2>1, <2>2, <2>3, <2>4
<1>9. LeastRecentFirst'
  BY <1>2, <1>8 DEF LeastRecentFirst, RAM!LeastRecentFirst
<1>10. RAM!Range(cached') = RAM!Range(cached)
  <2>1. ASSUME NEW i \in 1 .. n PROVE \E j \in 1 .. n : cached'[j] = cached[i]
    <3>1. CASE i < at
      BY <1>2, <3>1
    <3>2. CASE i = at
      BY <1>7, <3>2
    <3>3. CASE i > at
      BY <1>2, <3>3, i - 1 \in 1 .. n
    <3>4. QED
      BY <1>2, <3>1, <3>2, <3>3
  <2>2. ASSUME NEW j \in 1 .. n PROVE \E i \in 1 .. n : cached[i] = cached'[j]
    BY <1>2, <1>6, <1>7
  <2>3. DOMAIN cached = 1 .. n /\ DOMAIN cached' = 1 .. n
    BY <1>1, <1>2
  <2>4. /\ RAM!Range(cached) = {cached[i] : i \in 1 .. n}
        /\ RAM!Range(cached') = {cached'[j] : j \in 1 .. n}
    BY <2>3 DEF RAM!Range
  <2> HIDE DEF n
  <2>5. {cached[i] : i \in 1 .. n} = {cached'[j] : j \in 1 .. n}
    BY <2>1, <2>2
  <2>6. QED
    BY <2>4, <2>5
<1>11. QED
  BY <1>2, <1>5, <1>9, <1>10

(* An insertion, with or without an eviction, keeps the order of use; of what
   was cached it keeps all that has its episode cached still. *)
LEMMA InsertedKeepsOrder ==
    ASSUME RAMInv, NEW e, e \notin RAM!Keys, NEW by, max_episodes \in Nat \ {0},
           cached' = RAM!WithInserted(e, by), RAM!Touch(e)
    PROVE  /\ \E S : cached' \in Seq(S)
           /\ \A p \in recency' : p[1] # p[2]
           /\ LeastRecentFirst'
           /\ \A g \in RAM!Range(cached) :
                (\E x \in RAM!Range(cached') : x.ep = g.ep) => g \in RAM!Range(cached')
<1>1. PICK S : cached \in Seq(S)
  BY DEF RAMInv
<1> DEFINE n == Len(cached)
           d == IF Len(cached) >= max_episodes THEN 1 ELSE 0
           new == [ep |-> e, copy |-> by]
           m == n + 1 - d
<1>2. /\ n \in Nat /\ d \in {0, 1} /\ d <= n
      /\ cached' \in Seq(S \cup {new}) /\ Len(cached') = m
      /\ \A j \in 1 .. m : cached'[j] = IF j + d <= n THEN cached[j + d] ELSE new
  <2>1. /\ cached' \in Seq(S \cup {new}) /\ Len(cached') = m /\ d <= n
        /\ \A j \in 1 .. m : cached'[j] = IF j + d <= n THEN cached[j + d] ELSE new
    BY <1>1, InsertedAtEnd
  <2>2. n \in Nat /\ d \in {0, 1}
    BY <1>1
  <2>3. QED
    BY <2>1, <2>2
<1> HIDE DEF d
<1>3. DOMAIN cached = 1 .. n /\ DOMAIN cached' = 1 .. m /\ m \in 1 .. n + 1
  BY <1>1, <1>2
<1>4. \A k \in 1 .. n : cached[k].ep \in RAM!Keys /\ cached[k].ep # e
  BY <1>3 DEF RAM!Keys
<1>5. (\A x \in RAM!Keys \ {e} : <<x, e>> \in recency') /\ <<e, e>> \notin recency'
  BY DEF RAM!Touch, RAMInv
<1>6. /\ \A x, y \in RAM!Keys : <<x, y>> \in recency' <=> <<x, y>> \in recency
      /\ \A y : <<e, y>> \notin recency'
  BY DEF RAM!Touch
<1>7. \A p \in recency' : p[1] # p[2]
  BY DEF RAM!Touch, RAMInv
<1>8. \A j \in 1 .. m - 1 : j + d \in 1 .. n /\ cached'[j] = cached[j + d]
  <2> SUFFICES ASSUME NEW j \in 1 .. m - 1 PROVE j + d \in 1 .. n /\ cached'[j] = cached[j + d]
    OBVIOUS
  <2>1. n \in Nat /\ d \in {0, 1} /\ j \in Int /\ 1 <= j /\ j <= n - d /\ j \in 1 .. m
    BY <1>2
  <2>2. j + d \in 1 .. n
    BY <2>1
  <2>3. QED
    BY <1>2, <2>1, <2>2
<1>9. m \in 1 .. m /\ cached'[m] = new /\ new.ep = e
  BY <1>2, <1>3
<1>10. ASSUME NEW j \in 1 .. m, NEW k \in 1 .. m
       PROVE  j < k <=> <<cached'[j].ep, cached'[k].ep>> \in recency'
  <2>1. CASE k = m /\ j # m
    <3>1. cached'[j].ep \in RAM!Keys \ {e}
      BY <1>3, <1>4, <1>8, <2>1
    <3>2. QED
      BY <1>3, <1>5, <1>9, <2>1, <3>1
  <2>2. CASE k = m /\ j = m
    BY <1>3, <1>5, <1>9, <2>2
  <2>3. CASE k # m /\ j = m
    BY <1>3, <1>6, <1>9, <2>3
  <2>4. CASE k # m /\ j # m
    <3> DEFINE a == j + d
               b == k + d
    <3>1. a \in 1 .. n /\ cached'[j] = cached[a] /\ b \in 1 .. n /\ cached'[k] = cached[b]
      BY <1>3, <1>8, <2>4
    <3>2. a < b <=> j < k
      BY <1>2, <1>3
    <3> HIDE DEF a, b
    <3>3. a < b <=> <<cached[a].ep, cached[b].ep>> \in recency
      BY <1>3, <3>1 DEF RAMInv, LeastRecentFirst, RAM!LeastRecentFirst
    <3>4. QED
      BY <1>4, <1>6, <3>1, <3>2, <3>3
  <2>5. QED
    BY <2>1, <2>2, <2>3, <2>4
<1>11. LeastRecentFirst'
  BY <1>3, <1>10 DEF LeastRecentFirst, RAM!LeastRecentFirst
<1>12. ASSUME NEW g \in RAM!Range(cached), NEW x \in RAM!Range(cached'), x.ep = g.ep
       PROVE  g \in RAM!Range(cached')
  <2>1. PICK k \in 1 .. n : cached[k] = g
    BY <1>3 DEF RAM!Range
  <2>2. PICK j \in 1 .. m : cached'[j] = x
    BY <1>3 DEF RAM!Range
  <2>3. j # m
    BY <1>4, <1>9, <1>12, <2>1, <2>2
  <2>4. j + d \in 1 .. n /\ x = cached[j + d]
    BY <1>3, <1>8, <2>2, <2>3
  <2>5. k = j + d
    BY <1>3, <1>12, <2>1, <2>4, CachedOnce
  <2>6. QED
    BY <1>12, <2>1, <2>4, <2>5
<1>13. QED
  BY <1>2, <1>7, <1>11, <1>12

(* The copies handed out are cached, provided that what keeps its episode in
   the cache stays as it is. *)
LEMMA HeldStayCached ==
    ASSUME SharedCopy, NEW t, NEW e,
           \A g \in RAM!Range(cached) :
             (\E x \in RAM!Range(cached') : x.ep = g.ep) => g \in RAM!Range(cached'),
           RAM!Handed(t, e) \/ RAM!Forgotten
    PROVE  SharedCopy'
<1> SUFFICES ASSUME NEW u \in Threads, NEW g \in got'[u] PROVE g \in RAM!Range(cached')
  BY DEF SharedCopy, RAM!SharedCopy
<1>1. \/ g \in RAM!StillHeld(u)
      \/ g \in RAM!Range(cached')
  BY DEF RAM!Handed, RAM!Forgotten
<1>2. ASSUME g \in RAM!StillHeld(u) PROVE g \in RAM!Range(cached')
  BY <1>2 DEF RAM!StillHeld, SharedCopy, RAM!SharedCopy
<1>3. QED
  BY <1>1, <1>2

LEMMA RAMStep == RAM!EpisodeAssumption /\ RAMInv /\ [Next]_vars => RAMInv'
<1> SUFFICES ASSUME max_episodes \in Nat \ {0}, RAMInv, [Next]_vars PROVE RAMInv'
  BY DEF RAM!EpisodeAssumption
<1>1. ASSUME UNCHANGED <<cached, recency, got>> PROVE RAMInv'
  BY <1>1 DEF RAMInv, LeastRecentFirst, RAM!LeastRecentFirst, SharedCopy, RAM!SharedCopy, RAM!Range
<1>2. ASSUME NEW e \in RAM!Keys, cached' = RAM!Moved(e), RAM!Touch(e), NEW t, RAM!Handed(t, e)
      PROVE  RAMInv'
  <2>1. /\ (\E S : cached' \in Seq(S)) /\ \A p \in recency' : p[1] # p[2]
        /\ LeastRecentFirst'
        /\ RAM!Range(cached') = RAM!Range(cached)
    BY <1>2, MovedKeepsOrder
  <2>2. SharedCopy'
    BY <1>2, <2>1, HeldStayCached DEF RAMInv
  <2>3. QED
    BY <2>1, <2>2 DEF RAMInv
<1>3. ASSUME NEW e, e \notin RAM!Keys, NEW by, cached' = RAM!WithInserted(e, by), RAM!Touch(e),
             NEW t, RAM!Handed(t, e) \/ RAM!Forgotten
      PROVE  RAMInv'
  <2>1. /\ (\E S : cached' \in Seq(S)) /\ \A p \in recency' : p[1] # p[2]
        /\ LeastRecentFirst'
        /\ \A g \in RAM!Range(cached) :
             (\E x \in RAM!Range(cached') : x.ep = g.ep) => g \in RAM!Range(cached')
    BY <1>3, InsertedKeepsOrder
  <2>2. SharedCopy'
    BY <1>3, <2>1, HeldStayCached DEF RAMInv
  <2>3. QED
    BY <2>1, <2>2 DEF RAMInv
<1>4. ASSUME NEW t \in Threads, RAM!GetHits(t) PROVE RAMInv'
  BY <1>2, <1>4 DEF RAM!GetHits
<1>5. ASSUME NEW t \in Threads, RAM!GetInserts(t) PROVE RAMInv'
  <2>1. /\ RAM!Touch(ep[t]) /\ RAM!Handed(t, ep[t])
        /\ cached' = IF ep[t] \in RAM!Keys THEN RAM!Moved(ep[t]) ELSE RAM!WithInserted(ep[t], t)
    BY <1>5 DEF RAM!GetInserts
  <2>2. CASE ep[t] \in RAM!Keys
    BY <1>2, <2>1, <2>2
  <2>3. CASE ep[t] \notin RAM!Keys
    BY <1>3, <2>1, <2>3
  <2>4. QED
    BY <2>2, <2>3
<1>6. ASSUME NEW w \in RAM!Workers, RAM!WorkerInserts(w) PROVE RAMInv'
  <2> DEFINE e == Head(worker[w].todo)
  <2>1. CASE e \in RAM!Keys
    BY <1>1, <1>6, <2>1 DEF RAM!WorkerInserts
  <2>2. CASE e \notin RAM!Keys
    <3>1. cached' = RAM!WithInserted(e, w) /\ RAM!Touch(e) /\ RAM!Forgotten
      BY <1>6, <2>2 DEF RAM!WorkerInserts
    <3> HIDE DEF e
    <3>2. QED
      BY <1>3, <2>2, <3>1
  <2>3. QED
    BY <2>1, <2>2
<1>7. ASSUME NEW t \in Threads, RAM!clear(t) PROVE RAMInv'
  <2>1. cached' = <<>> /\ got' = [u \in Threads |-> {}] /\ recency' = recency
    BY <1>7 DEF RAM!clear
  <2>2. \E S : cached' \in Seq(S)
    BY <2>1, <<>> \in Seq({})
  <2>3. LeastRecentFirst'
    BY <2>1 DEF LeastRecentFirst, RAM!LeastRecentFirst
  <2>4. SharedCopy'
    BY <2>1 DEF SharedCopy, RAM!SharedCopy
  <2>5. QED
    BY <2>1, <2>2, <2>3, <2>4 DEF RAMInv
<1>8. CASE RAM!Next
  <2>1. ASSUME NEW t \in Threads,
               \/ RAM!GetMisses(t) \/ RAM!GetRaises(t)
               \/ RAM!PrefetchLooks(t) \/ RAM!PrefetchSelects(t) \/ RAM!PrefetchStarts(t)
        PROVE  RAMInv'
    BY <1>1, <2>1 DEF RAM!GetMisses, RAM!GetRaises, RAM!PrefetchLooks, RAM!PrefetchSelects,
                      RAM!PrefetchStarts, RAM!history
  <2>2. ASSUME NEW w \in RAM!Workers, RAM!WorkerLooks(w) \/ RAM!WorkerDies(w)
        PROVE  RAMInv'
    BY <1>1, <2>2 DEF RAM!WorkerLooks, RAM!WorkerDies, RAM!history
  <2>3. QED
    BY <1>4, <1>5, <1>6, <1>7, <1>8, <2>1, <2>2 DEF RAM!Next
<1>9. CASE UNCHANGED ramVars
  BY <1>1, <1>9 DEF ramVars
<1>10. QED
  BY <1>8, <1>9 DEF Next, vars

(* The cache of episodes evicts the least recently used one, and all an
   episode's callers hold is the cached copy, however lookups, decodes and the
   prefetch threads' inserts interleave: EpisodeCache.get_episode and prefetch
   (episode_cache.py). *)
THEOREM EpisodesInOrderOfUse ==
    ASSUME RAM!EpisodeAssumption
    PROVE  Spec => [](LeastRecentFirst /\ SharedCopy)
<1>1. Init => RAMInv
  <2> SUFFICES ASSUME Init PROVE RAMInv
    OBVIOUS
  <2>1. cached = <<>> /\ recency = {} /\ got = [t \in Threads |-> {}]
    BY DEF Init, RAM!Init
  <2>2. \E S : cached \in Seq(S)
    BY <2>1, <<>> \in Seq({})
  <2>3. LeastRecentFirst
    BY <2>1 DEF LeastRecentFirst, RAM!LeastRecentFirst
  <2>4. SharedCopy
    BY <2>1 DEF SharedCopy, RAM!SharedCopy
  <2>5. QED
    BY <2>1, <2>2, <2>3, <2>4 DEF RAMInv
<1>2. RAMInv /\ [Next]_vars => RAMInv'
  BY RAMStep
<1>3. RAMInv => LeastRecentFirst /\ SharedCopy
  BY DEF RAMInv
<1>4. QED
  BY <1>1, <1>2, <1>3, PTL DEF Spec

(* In particular nobody holds another copy of an episode than the cache's:
   EpisodeCache.get_episode (episode_cache.py). *)
COROLLARY EpisodesAreShared == ASSUME RAM!EpisodeAssumption PROVE Spec => []SharedCopy
<1>1. LeastRecentFirst /\ SharedCopy => SharedCopy
  OBVIOUS
<1>2. QED
  BY <1>1, EpisodesInOrderOfUse, PTL

-----------------------------------------------------------------------------
(* The cache of episodes: its prefetch threads.  As long as no two calls of
   prefetch overlapped, a call under way has seen that no thread is alive, and
   the one alive is the last one started. *)
Places == {"idle", "decode", "select", "start"}
Stages == {"new", "next", "decode", "done"}

PrefetchInv ==
    /\ started \in Nat /\ overlap \in BOOLEAN
    /\ \A w \in RAM!Workers : w > started => ~RAM!Alive(w)
    /\ ~overlap =>
         /\ \A v \in RAM!Workers : RAM!Alive(v) => v = current
         /\ tier = "RAM" => \A t, u \in Threads : RAM!InPrefetch(t) /\ RAM!InPrefetch(u) => t = u
         /\ tier = "RAM" => \A t \in Threads, v \in RAM!Workers : ~(RAM!InPrefetch(t) /\ RAM!Alive(v))
    /\ tier = "RAM" => pc \in [Threads -> Places]
    /\ DOMAIN worker = RAM!Workers

LEMMA PrefetchStep == MaxPrefetches \in Nat /\ PrefetchInv /\ [Next]_vars => PrefetchInv'
<1> SUFFICES ASSUME MaxPrefetches \in Nat, PrefetchInv, [Next]_vars PROVE PrefetchInv'
  OBVIOUS
<1>1. CASE tier # "RAM" /\ UNCHANGED <<tier, ramVars>>
  BY <1>1 DEF PrefetchInv, ramVars, RAM!Alive
<1>2. CASE UNCHANGED vars
  BY <1>2 DEF PrefetchInv, vars, ramVars, RAM!Alive, RAM!InPrefetch
(* A caller moves outside prefetch: no thread changes. *)
<1>3. ASSUME tier = "RAM", tier' = tier, NEW t \in Threads, NEW at \in {"idle", "decode"},
             RAM!Goto(t, at), UNCHANGED <<worker, started, current, overlap>>
      PROVE  PrefetchInv'
  BY <1>3 DEF PrefetchInv, RAM!Goto, RAM!Alive, RAM!InPrefetch, Places
<1>4. ASSUME tier = "RAM", tier' = tier,
             UNCHANGED <<pc, worker, started, current, overlap>>
      PROVE  PrefetchInv'
  BY <1>4 DEF PrefetchInv, RAM!Alive, RAM!InPrefetch
(* A thread goes on or ends: nobody comes alive. *)
<1>5. ASSUME tier = "RAM", tier' = tier, NEW w \in RAM!Workers, NEW x,
             RAM!Alive(w), worker' = [worker EXCEPT ![w] = x],
             UNCHANGED <<pc, started, current, overlap>>
      PROVE  PrefetchInv'
  BY <1>5 DEF PrefetchInv, RAM!Alive, RAM!InPrefetch
<1>6. CASE tier = "RAM" /\ RAM!Next /\ tier' = tier
  <2>1. ASSUME NEW t \in Threads, RAM!GetHits(t) \/ RAM!clear(t) PROVE PrefetchInv'
    BY <1>4, <1>6, <2>1 DEF RAM!GetHits, RAM!clear
  <2>2. ASSUME NEW t \in Threads, RAM!GetMisses(t) \/ RAM!GetRaises(t) \/ RAM!GetInserts(t)
        PROVE  PrefetchInv'
    BY <1>3, <1>6, <2>2 DEF RAM!GetMisses, RAM!GetRaises, RAM!GetInserts, RAM!history
  <2>3. ASSUME NEW t \in Threads, RAM!PrefetchLooks(t) PROVE PrefetchInv'
    <3>1. /\ ~(current \in RAM!Workers /\ RAM!Alive(current))
          /\ overlap' = (overlap \/ \E u \in Threads : RAM!InPrefetch(u))
          /\ pc' = [pc EXCEPT ![t] = "select"]
          /\ UNCHANGED <<worker, started, current>>
      BY <2>3 DEF RAM!PrefetchLooks, RAM!Goto
    <3>2. pc' \in [Threads -> Places]
      BY <1>6, <3>1 DEF PrefetchInv, Places
    <3>3. CASE overlap'
      BY <1>6, <3>1, <3>2, <3>3 DEF PrefetchInv, RAM!Alive
    <3>4. CASE ~overlap'
      <4>1. ~overlap /\ \A u \in Threads : ~RAM!InPrefetch(u)
        BY <3>1, <3>4
      <4>2. \A v \in RAM!Workers : ~RAM!Alive(v)
        BY <3>1, <4>1 DEF PrefetchInv
      <4>3. \A v \in RAM!Workers : ~RAM!Alive(v)'
        BY <3>1, <4>2 DEF RAM!Alive
      <4>4. \A u \in Threads : RAM!InPrefetch(u)' => u = t
        BY <1>6, <3>1, <4>1 DEF RAM!InPrefetch, PrefetchInv
      <4>5. QED
        BY <1>6, <3>1, <3>2, <4>3, <4>4 DEF PrefetchInv
    <3>5. QED
      BY <3>3, <3>4
  <2>4. ASSUME NEW t \in Threads, RAM!PrefetchSelects(t) PROVE PrefetchInv'
    <3>1. /\ pc[t] = "select" /\ \E at \in {"idle", "start"} : pc' = [pc EXCEPT ![t] = at]
          /\ UNCHANGED <<worker, started, current, overlap>>
      BY <2>4 DEF RAM!PrefetchSelects, RAM!Goto, RAM!history
    <3>2. \A u \in Threads : RAM!InPrefetch(u)' => RAM!InPrefetch(u)
      BY <1>6, <3>1 DEF RAM!InPrefetch, PrefetchInv
    <3>3. \A v : RAM!Alive(v)' <=> RAM!Alive(v)
      BY <3>1 DEF RAM!Alive
    <3>4. pc' \in [Threads -> Places]
      BY <1>6, <3>1 DEF PrefetchInv, Places
    <3>5. QED
      BY <1>6, <3>1, <3>2, <3>3, <3>4 DEF PrefetchInv
  <2>5. ASSUME NEW t \in Threads, RAM!PrefetchStarts(t) PROVE PrefetchInv'
    <3>1. /\ pc[t] = "start" /\ started < MaxPrefetches
          /\ started' = started + 1 /\ current' = started + 1 /\ overlap' = overlap
          /\ worker' = [worker EXCEPT ![started + 1] = [at |-> "next", todo |-> list[t]]]
          /\ pc' = [pc EXCEPT ![t] = "idle"]
      BY <2>5 DEF RAM!PrefetchStarts, RAM!Goto, RAM!history
    <3>2. pc' \in [Threads -> Places] /\ started' \in Nat /\ DOMAIN worker' = RAM!Workers
      BY <1>6, <3>1 DEF PrefetchInv, Places
    <3>3. \A v \in RAM!Workers : v # started + 1 => (RAM!Alive(v)' <=> RAM!Alive(v))
      BY <3>1 DEF RAM!Alive, PrefetchInv
    <3>4. \A w \in RAM!Workers : w > started' => ~RAM!Alive(w)'
      BY <3>1, <3>3 DEF PrefetchInv, RAM!Workers
    <3>5. ASSUME ~overlap
          PROVE  /\ \A v \in RAM!Workers : RAM!Alive(v)' => v = current'
                 /\ \A u \in Threads : ~RAM!InPrefetch(u)'
      <4>1. RAM!InPrefetch(t)
        BY <3>1 DEF RAM!InPrefetch
      <4>2. \A v \in RAM!Workers : ~RAM!Alive(v)
        BY <1>6, <3>5, <4>1 DEF PrefetchInv
      <4>3. \A u \in Threads : RAM!InPrefetch(u) => u = t
        BY <1>6, <3>5, <4>1 DEF PrefetchInv
      <4>4. QED
        BY <1>6, <3>1, <3>3, <4>2, <4>3 DEF RAM!InPrefetch, PrefetchInv
    <3>6. QED
      BY <1>6, <3>1, <3>2, <3>4, <3>5 DEF PrefetchInv
  <2>6. ASSUME NEW w \in RAM!Workers,
               RAM!WorkerLooks(w) \/ RAM!WorkerDies(w) \/ RAM!WorkerInserts(w)
        PROVE  PrefetchInv'
    <3>1. /\ RAM!Alive(w) /\ \E x : worker' = [worker EXCEPT ![w] = x]
          /\ UNCHANGED <<pc, started, current, overlap>>
      BY <2>6 DEF RAM!WorkerLooks, RAM!WorkerDies, RAM!WorkerInserts, RAM!Alive, RAM!history
    <3>2. QED
      BY <1>5, <1>6, <3>1
  <2>7. QED
    BY <1>6, <2>1, <2>2, <2>3, <2>4, <2>5, <2>6 DEF RAM!Next
<1>7. QED
  BY <1>1, <1>2, <1>6 DEF Next

(* No two prefetch threads run at once while no two calls of prefetch overlap,
   although the calls look at the thread without the lock: EpisodeCache.prefetch
   (episode_cache.py). *)
THEOREM PrefetchThreadAlone == ASSUME RAM!EpisodeAssumption PROVE Spec => []OnePrefetchThread
<1> USE DEF RAM!EpisodeAssumption
<1>1. Init => PrefetchInv
  <2> SUFFICES ASSUME Init PROVE PrefetchInv
    OBVIOUS
  <2>1. /\ worker = [w \in RAM!Workers |-> [at |-> "new", todo |-> <<>>]]
        /\ started = 0 /\ current = 0 /\ overlap = FALSE /\ pc = [t \in Threads |-> "idle"]
    BY DEF Init, RAM!Init
  <2>2. \A w \in RAM!Workers : ~RAM!Alive(w)
    BY <2>1 DEF RAM!Alive
  <2>3. \A t \in Threads : ~RAM!InPrefetch(t)
    BY <2>1 DEF RAM!InPrefetch
  <2>4. QED
    BY <2>1, <2>2, <2>3 DEF PrefetchInv, Places
<1>2. PrefetchInv /\ [Next]_vars => PrefetchInv'
  BY PrefetchStep
<1>3. PrefetchInv => OnePrefetchThread
  BY DEF PrefetchInv, OnePrefetchThread, RAM!OnePrefetchThread
<1>4. QED
  BY <1>1, <1>2, <1>3, PTL DEF Spec
=============================================================================
