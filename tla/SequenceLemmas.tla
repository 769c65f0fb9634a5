----------------------------- MODULE SequenceLemmas -----------------------------
(***************************************************************************)
(* What the proofs about the components keep needing of numbers, sequences, *)
(* sums and orders.  Induction over numbers goes through LeastElement: of   *)
(* the numbers for which a claim fails there would be a least one.         *)
(***************************************************************************)
EXTENDS Integers, Sequences, FiniteSets, TLAPS, FiniteSetTheorems, SequenceTheorems, WellFoundedInduction

(* A set of naturals that has an element has a least one. *)
LEMMA LeastElement ==
    ASSUME NEW S \in SUBSET Nat, S # {}
    PROVE  \E n \in S : \A m \in S : n <= m
<1>1. PICK n \in S : \A m \in S : ~(<<m, n>> \in OpToRel(<, Nat))
  <2>1. IsWellFoundedOn(OpToRel(<, Nat), Nat)
    BY NatLessThanWellFounded
  <2> DEFINE R == OpToRel(<, Nat)
  <2> HIDE DEF R
  <2>2. IsWellFoundedOn(R, Nat)
    BY <2>1 DEF R
  <2>3. \E n \in S : \A m \in S : ~(<<m, n>> \in R)
    BY <2>2, WFMin
  <2>4. QED
    BY <2>3 DEF R
<1>2. ASSUME NEW m \in S, ~(n <= m) PROVE FALSE
  <2>1. n \in Nat /\ m \in Nat /\ m < n
    BY <1>2
  <2>2. <<m, n>> \in OpToRel(<, Nat)
    BY <2>1 DEF OpToRel
  <2>3. QED
    BY <1>1, <2>2
<1>3. QED
  BY <1>2

(* A set of numbers up to a last one that has an element has a greatest one. *)
LEMMA GreatestElement ==
    ASSUME NEW last \in Nat, NEW S \in SUBSET (0 .. last), S # {}
    PROVE  \E n \in S : \A m \in S : m <= n
<1> DEFINE T == {last - n : n \in S}
<1>1. T \in SUBSET Nat /\ T # {}
  <2>1. \A n \in S : last - n \in Nat
    OBVIOUS
  <2>2. QED
    BY <2>1
<1>2. PICK k \in T : \A m \in T : k <= m
  <2> HIDE DEF T
  <2> QED BY <1>1, LeastElement
<1>3. PICK n \in S : k = last - n
  BY <1>2
<1>4. ASSUME NEW m \in S PROVE m <= n
  <2>1. last - m \in T
    BY <1>4
  <2>2. QED
    BY <1>2, <1>3, <2>1
<1>5. QED
  BY <1>4

-----------------------------------------------------------------------------
(* Remainders. *)
(* Multiples of n that are less than n apart are in the order of their factors. *)
LEMMA MultipleApart ==
    ASSUME NEW n \in Nat \ {0}, NEW q \in Nat, NEW m \in Nat, n * q < n * m + n
    PROVE  q <= m
<1>1. SUFFICES ASSUME ~(q <= m) PROVE FALSE
  OBVIOUS
<1> DEFINE d == q - (m + 1)
<1>2. d \in Nat /\ q = (m + 1) + d
  BY <1>1
<1> HIDE DEF d
<1>3. n * q = n * (m + 1) + n * d
  BY <1>2
<1>4. n * d \in Nat /\ n * (m + 1) = n * m + n /\ n * m \in Nat /\ n * q \in Nat
  BY <1>2
<1>5. QED
  BY <1>3, <1>4

(* Between a multiple and the next one the remainder is the distance. *)
LEMMA BatchStart ==
    ASSUME NEW n \in Nat \ {0}, NEW c \in Nat, c % n = 0,
           NEW r \in Nat, c <= r, r < c + n
    PROVE  r % n = r - c
<1> DEFINE q == r \div n
           m == c \div n
           k == r % n
<1>1. q \in Nat /\ k \in Nat /\ k < n /\ r = n * q + k
  OBVIOUS
<1>2. m \in Nat /\ c = n * m
  OBVIOUS
<1> HIDE DEF q, m, k
<1>3. n * q \in Nat /\ n * m \in Nat
  BY <1>1, <1>2
<1>4. n * q < n * m + n /\ n * m < n * q + n
  BY <1>1, <1>2, <1>3
<1>5. q <= m /\ m <= q
  BY <1>1, <1>2, <1>4, MultipleApart
<1>6. q = m
  BY <1>1, <1>2, <1>5
<1>7. n * q = n * m
  BY <1>6
<1>8. k = r - c
  <2> DEFINE x == n * q
  <2>1. r = x + k /\ c = x /\ x \in Nat
    BY <1>1, <1>2, <1>3, <1>7
  <2> HIDE DEF x
  <2>2. QED
    BY <1>1, <2>1
<1>9. QED
  BY <1>8 DEF k

(* The next multiple is one. *)
LEMMA NextMultiple ==
    ASSUME NEW n \in Nat \ {0}, NEW c \in Nat, c % n = 0
    PROVE  (c + n) % n = 0
<1> DEFINE m == c \div n
<1>1. m \in Nat /\ c = n * m
  OBVIOUS
<1> HIDE DEF m
<1>2. c + n = n * (m + 1)
  BY <1>1
<1> DEFINE r == c + n
           q == r \div n
           k == r % n
<1>3. r \in Nat /\ q \in Nat /\ k \in Nat /\ k < n /\ r = n * q + k
  OBVIOUS
<1> HIDE DEF q, k
<1>4. n * q \in Nat /\ n * (m + 1) \in Nat /\ m + 1 \in Nat
  BY <1>1, <1>3
<1>5. n * q < n * (m + 1) + n /\ n * (m + 1) < n * q + n
  BY <1>2, <1>3, <1>4
<1>6. q <= m + 1 /\ m + 1 <= q
  BY <1>3, <1>4, <1>5, MultipleApart
<1>7. q = m + 1
  BY <1>3, <1>4, <1>6
<1>8. k = 0
  BY <1>2, <1>3, <1>4, <1>7
<1>9. QED
  BY <1>8 DEF k, r

LEMMA MultipleRemainder ==
    ASSUME NEW n \in Nat \ {0}, NEW m \in Nat
    PROVE  (n * m) % n = 0
<1> DEFINE r == n * m
           q == r \div n
           k == r % n
<1>1. r \in Nat
  OBVIOUS
<1> HIDE DEF r
<1>2. q \in Nat /\ k \in Nat /\ k < n /\ r = n * q + k
  BY <1>1
<1> HIDE DEF q, k
<1>3. n * q \in Nat /\ n * m \in Nat /\ r = n * m
  BY <1>2 DEF r
<1>4. n * q < n * m + n /\ n * m < n * q + n
  BY <1>2, <1>3
<1>5. q = m
  <2>1. q <= m /\ m <= q
    BY <1>2, <1>4, MultipleApart
  <2>2. QED
    BY <1>2, <2>1
<1>6. k = 0
  BY <1>2, <1>3, <1>5
<1>7. QED
  BY <1>6 DEF k, r

(* Counting on, the remainder goes up by one, or starts again at 0. *)
LEMMA NextRemainder ==
    ASSUME NEW n \in Nat \ {0}, NEW r \in Nat
    PROVE  (r + 1) % n = IF r % n = n - 1 THEN 0 ELSE (r % n) + 1
<1> DEFINE q == r \div n
           k == r % n
           c == n * q
<1>1. q \in Nat /\ k \in Nat /\ k < n /\ r = n * q + k
  OBVIOUS
<1>2. c \in Nat /\ c % n = 0
  BY <1>1, MultipleRemainder
<1> HIDE DEF q
<1>3. r = c + k
  BY <1>1
<1> HIDE DEF k, c
<1>4. CASE k = n - 1
  <2>1. r + 1 = c + n
    BY <1>1, <1>2, <1>3, <1>4
  <2>2. (c + n) % n = 0
    BY <1>2, NextMultiple
  <2>3. QED
    BY <1>4, <2>1, <2>2 DEF k
<1>5. CASE k # n - 1
  <2>1. c <= r + 1 /\ r + 1 < c + n /\ (r + 1) - c = k + 1 /\ r + 1 \in Nat
    BY <1>1, <1>2, <1>3, <1>5
  <2>2. (r + 1) % n = (r + 1) - c
    BY <1>2, <2>1, BatchStart
  <2>3. QED
    BY <1>5, <2>1, <2>2 DEF k
<1>6. QED
  BY <1>4, <1>5

-----------------------------------------------------------------------------
(* What is in a sequence, and that nothing is in it twice. *)
Elements(s) == {s[k] : k \in DOMAIN s}
Distinct(s) == \A j, k \in DOMAIN s : s[j] = s[k] => j = k

(* One element more. *)
LEMMA AppendElements ==
    ASSUME NEW s \in Seq(Nat), NEW x \in Nat
    PROVE  /\ Append(s, x) \in Seq(Nat) /\ Len(Append(s, x)) = Len(s) + 1
           /\ Elements(Append(s, x)) = Elements(s) \cup {x}
           /\ Distinct(s) /\ x \notin Elements(s) => Distinct(Append(s, x))
<1>1. /\ Append(s, x) \in Seq(Nat) /\ Len(Append(s, x)) = Len(s) + 1
      /\ DOMAIN Append(s, x) = 1 .. Len(s) + 1 /\ DOMAIN s = 1 .. Len(s)
      /\ \A k \in 1 .. Len(s) : Append(s, x)[k] = s[k]
      /\ Append(s, x)[Len(s) + 1] = x /\ Len(s) \in Nat
  OBVIOUS
<1>2. QED
  BY <1>1 DEF Elements, Distinct

(* The element of a slot is replaced. *)
LEMMA ReplaceElements ==
    ASSUME NEW s \in Seq(Nat), NEW at \in DOMAIN s, NEW x \in Nat,
           Distinct(s), x \notin Elements(s)
    PROVE  LET t == [s EXCEPT ![at] = x]
           IN  /\ t \in Seq(Nat) /\ Len(t) = Len(s)
               /\ Elements(t) = (Elements(s) \ {s[at]}) \cup {x} /\ Distinct(t)
<1> DEFINE t == [s EXCEPT ![at] = x]
<1>1. /\ t \in Seq(Nat) /\ Len(t) = Len(s) /\ DOMAIN t = DOMAIN s
      /\ t[at] = x /\ \A k \in DOMAIN s \ {at} : t[k] = s[k]
  OBVIOUS
<1>2. Distinct(t)
  BY <1>1 DEF Elements, Distinct
<1>3. Elements(t) = (Elements(s) \ {s[at]}) \cup {x}
  BY <1>1 DEF Elements, Distinct
<1>4. QED
  BY <1>1, <1>2, <1>3

(* A sequence of the first n numbers, each once, has n of them. *)
LEMMA DistinctLength ==
    ASSUME NEW s \in Seq(Nat), Distinct(s), NEW n \in Nat, Elements(s) = 0 .. n - 1
    PROVE  Len(s) = n
<1>1. Len(s) \in Nat /\ DOMAIN s = 1 .. Len(s) /\ s \in [1 .. Len(s) -> 0 .. n - 1]
  BY DEF Elements
<1>2. s \in Bijection(1 .. Len(s), 0 .. n - 1)
  BY <1>1 DEF Bijection, Injection, Surjection, IsInjective, Distinct, Elements
<1>3. ExistsBijection(1 .. Len(s), 0 .. n - 1)
  BY <1>2 DEF ExistsBijection
<1>4. IsFiniteSet(1 .. Len(s)) /\ Cardinality(1 .. Len(s)) = Len(s)
  <2>1. /\ IsFiniteSet(1 .. Len(s))
        /\ Cardinality(1 .. Len(s)) = IF 1 > Len(s) THEN 0 ELSE Len(s) - 1 + 1
    BY <1>1, FS_Interval
  <2>2. QED
    BY <1>1, <2>1
<1>5. Cardinality(0 .. n - 1) = n
  BY FS_Interval
<1>6. QED
  BY <1>3, <1>4, <1>5, FS_Bijection

-----------------------------------------------------------------------------
(* What a loop keeps of a sequence: the elements at the positions `at`. *)
Kept(f, s, at, n) ==
    f = [k \in 0 .. n |-> IF k = 0 THEN <<>>
                          ELSE IF k \in at THEN Append(f[k - 1], s[k]) ELSE f[k - 1]]

(* p is where the elements of r were. *)
Picks(p, r, s, at, n) ==
    /\ p \in [1 .. Len(r) -> 1 .. n]
    /\ \A j \in 1 .. Len(r) : p[j] \in at /\ r[j] = s[p[j]]
    /\ \A j, k \in 1 .. Len(r) : j < k => p[j] < p[k]
    /\ \A k \in 1 .. n : k \in at => \E j \in 1 .. Len(r) : p[j] = k

(* The loop runs to the end of its sequence. *)
LEMMA KeptExists ==
    ASSUME NEW s, NEW at, NEW last \in Nat
    PROVE  \E f : Kept(f, s, at, last)
<1> DEFINE Bad == {n \in 0 .. last : ~\E f : Kept(f, s, at, n)}
<1>1. Bad = {}
  <2>1. SUFFICES ASSUME Bad # {} PROVE FALSE
    OBVIOUS
  <2>2. PICK n \in Bad : \A m \in Bad : n <= m
    <3>1. Bad \in SUBSET Nat
      OBVIOUS
    <3> HIDE DEF Bad
    <3> QED BY <2>1, <3>1, LeastElement
  <2>3. n \in 0 .. last /\ ~\E f : Kept(f, s, at, n)
    BY <2>2
  <2>4. CASE n = 0
    <3> DEFINE f == [k \in 0 .. 0 |-> <<>>]
    <3>1. Kept(f, s, at, 0)
      BY DEF Kept
    <3>2. QED
      BY <2>3, <2>4, <3>1
  <2>5. CASE n # 0
    <3>1. n - 1 \in 0 .. last /\ ~(n <= n - 1) /\ n \in Nat
      BY <2>3, <2>5
    <3>2. PICK f : Kept(f, s, at, n - 1)
      BY <2>2, <3>1
    <3> DEFINE g == [k \in 0 .. n |-> IF k = n THEN (IF n \in at THEN Append(f[n - 1], s[n]) ELSE f[n - 1])
                                      ELSE f[k]]
               Body(k) == IF k = 0 THEN <<>>
                          ELSE IF k \in at THEN Append(g[k - 1], s[k]) ELSE g[k - 1]
    <3>3. ASSUME NEW k \in 0 .. n PROVE g[k] = Body(k)
      <4>1. CASE k = n
        <5>1. g[n - 1] = f[n - 1] /\ k # 0
          BY <2>3, <2>5, <3>1, <4>1
        <5>2. QED
          BY <4>1, <5>1
      <4>2. CASE k # n
        <5>1. k \in 0 .. n - 1 /\ (k # 0 => k - 1 \in 0 .. n /\ k - 1 # n)
          BY <3>1, <4>2
        <5>2. f[k] = IF k = 0 THEN <<>>
                     ELSE IF k \in at THEN Append(f[k - 1], s[k]) ELSE f[k - 1]
          BY <3>2, <5>1 DEF Kept
        <5>3. QED
          BY <4>2, <5>1, <5>2
      <4>3. QED
        BY <4>1, <4>2
    <3>4. g = [k \in 0 .. n |-> Body(k)]
      <4>1. g = [k \in 0 .. n |-> g[k]]
        OBVIOUS
      <4> HIDE DEF g
      <4>2. QED
        BY <3>3, <4>1
    <3>5. Kept(g, s, at, n)
      BY <3>4 DEF Kept
    <3>6. QED
      BY <2>3, <3>5
  <2>6. QED
    BY <2>4, <2>5
<1>2. last \in 0 .. last
  OBVIOUS
<1>3. QED
  BY <1>1, <1>2

(* The picks so far, and one more. *)
LEMMA PicksGrow ==
    ASSUME NEW S, NEW s \in Seq(S), NEW at, NEW n \in Nat, n + 1 \in 1 .. Len(s),
           NEW r \in Seq(S), NEW p, Picks(p, r, s, at, n),
           NEW t, t = IF n + 1 \in at THEN Append(r, s[n + 1]) ELSE r
    PROVE  t \in Seq(S) /\ \E q : Picks(q, t, s, at, n + 1)
<1>1. CASE n + 1 \notin at
  <2>1. Picks(p, r, s, at, n + 1)
    BY <1>1 DEF Picks
  <2>2. QED
    BY <1>1, <2>1
<1>2. CASE n + 1 \in at
  <2> DEFINE m == Len(r)
             q == [j \in 1 .. m + 1 |-> IF j = m + 1 THEN n + 1 ELSE p[j]]
  <2>1. /\ t \in Seq(S) /\ Len(t) = m + 1 /\ m \in Nat /\ t[m + 1] = s[n + 1]
        /\ \A j \in 1 .. m : t[j] = r[j]
    <3>1. s[n + 1] \in S
      OBVIOUS
    <3>2. QED
      BY <1>2, <3>1
  <2> HIDE DEF m
  <2>2. /\ p \in [1 .. m -> 1 .. n]
        /\ \A j \in 1 .. m : p[j] \in at /\ r[j] = s[p[j]]
        /\ \A j, k \in 1 .. m : j < k => p[j] < p[k]
        /\ \A k \in 1 .. n : k \in at => \E j \in 1 .. m : p[j] = k
    BY DEF Picks, m
  <2>3. \A j \in 1 .. m : p[j] \in 1 .. n
    BY <2>2
  <2>4. /\ q[m + 1] = n + 1 /\ \A j \in 1 .. m : q[j] = p[j]
        /\ DOMAIN q = 1 .. m + 1
    BY <2>1
  <2>5. q \in [1 .. m + 1 -> 1 .. n + 1]
    BY <2>1, <2>3
  <2> HIDE DEF q
  <2>6. \A j \in 1 .. m + 1 : q[j] \in at /\ t[j] = s[q[j]]
    <3> TAKE j \in 1 .. m + 1
    <3>1. CASE j = m + 1
      BY <1>2, <2>1, <2>4, <3>1
    <3>2. CASE j # m + 1
      <4>1. j \in 1 .. m
        BY <2>1, <3>2
      <4>2. QED
        BY <2>1, <2>2, <2>4, <4>1
    <3>3. QED
      BY <3>1, <3>2
  <2>7. \A j, k \in 1 .. m + 1 : j < k => q[j] < q[k]
    <3> SUFFICES ASSUME NEW j \in 1 .. m + 1, NEW k \in 1 .. m + 1, j < k PROVE q[j] < q[k]
      OBVIOUS
    <3>1. j \in 1 .. m
      BY <2>1
    <3>2. CASE k = m + 1
      BY <2>3, <2>4, <3>1, <3>2
    <3>3. CASE k # m + 1
      <4>1. k \in 1 .. m
        BY <2>1, <3>3
      <4>2. QED
        BY <2>2, <2>4, <3>1, <4>1
    <3>4. QED
      BY <3>2, <3>3
  <2>8. \A k \in 1 .. n + 1 : k \in at => \E j \in 1 .. m + 1 : q[j] = k
    <3> SUFFICES ASSUME NEW k \in 1 .. n + 1, k \in at PROVE \E j \in 1 .. m + 1 : q[j] = k
      OBVIOUS
    <3>1. CASE k = n + 1
      <4>1. m + 1 \in 1 .. m + 1
        BY <2>1
      <4>2. QED
        BY <2>4, <3>1, <4>1
    <3>2. CASE k # n + 1
      <4>1. k \in 1 .. n
        BY <3>2
      <4>2. PICK j \in 1 .. m : p[j] = k
        BY <2>2, <4>1
      <4>3. j \in 1 .. m + 1
        BY <2>1
      <4>4. QED
        BY <2>4, <4>2, <4>3
    <3>3. QED
      BY <3>1, <3>2
  <2>9. Picks(q, t, s, at, n + 1)
    BY <2>1, <2>5, <2>6, <2>7, <2>8 DEF Picks
  <2>10. QED
    BY <2>1, <2>9
<1>3. QED
  BY <1>1, <1>2

(* What the loop has at the end was in the sequence, in that order, and is all
   that stood at the positions. *)
LEMMA KeptPicks ==
    ASSUME NEW S, NEW s \in Seq(S), NEW at, NEW f, Kept(f, s, at, Len(s))
    PROVE  LET r == f[Len(s)] IN r \in Seq(S) /\ \E p : Picks(p, r, s, at, Len(s))
<1> DEFINE last == Len(s)
           Good(n) == f[n] \in Seq(S) /\ \E p : Picks(p, f[n], s, at, n)
           Bad == {n \in 0 .. last : ~Good(n)}
<1>1. last \in Nat
  OBVIOUS
<1>2. Bad = {}
  <2>1. SUFFICES ASSUME Bad # {} PROVE FALSE
    OBVIOUS
  <2>2. PICK n \in Bad : \A m \in Bad : n <= m
    <3>1. Bad \in SUBSET Nat
      BY <1>1
    <3> HIDE DEF Bad
    <3> QED BY <2>1, <3>1, LeastElement
  <2>3. n \in 0 .. last /\ ~Good(n) /\ n \in Nat
    BY <1>1, <2>2
  <2>4. CASE n = 0
    <3>1. f[0] = <<>>
      BY <1>1 DEF Kept
    <3> DEFINE p == [j \in 1 .. 0 |-> 1]
    <3>2. Picks(p, <<>>, s, at, 0)
      BY DEF Picks
    <3>3. <<>> \in Seq(S)
      OBVIOUS
    <3>4. QED
      BY <2>3, <2>4, <3>1, <3>2, <3>3
  <2>5. CASE n # 0
    <3>1. n - 1 \in 0 .. last /\ ~(n <= n - 1) /\ n - 1 \in Nat /\ n - 1 + 1 = n /\ n \in 1 .. last
      BY <1>1, <2>3, <2>5
    <3>2. Good(n - 1)
      BY <2>2, <3>1
    <3>3. f[n] = IF n - 1 + 1 \in at THEN Append(f[n - 1], s[n - 1 + 1]) ELSE f[n - 1]
      <4>1. f[n] = IF n = 0 THEN <<>>
                   ELSE IF n \in at THEN Append(f[n - 1], s[n]) ELSE f[n - 1]
        BY <2>3 DEF Kept
      <4>2. QED
        BY <2>5, <3>1, <4>1
    <3>4. PICK p : f[n - 1] \in Seq(S) /\ Picks(p, f[n - 1], s, at, n - 1)
      BY <3>2
    <3> DEFINE k == n - 1
               r == f[n - 1]
               t == f[n]
    <3>5. /\ k \in Nat /\ k + 1 \in 1 .. Len(s) /\ r \in Seq(S) /\ Picks(p, r, s, at, k)
          /\ t = IF k + 1 \in at THEN Append(r, s[k + 1]) ELSE r
      BY <3>1, <3>3, <3>4
    <3> HIDE DEF k, r, t
    <3>6. t \in Seq(S) /\ \E q : Picks(q, t, s, at, k + 1)
      BY <3>5, PicksGrow
    <3>7. Good(n)
      BY <3>1, <3>6 DEF k, t
    <3>8. QED
      BY <2>3, <3>7
  <2>6. QED
    BY <2>4, <2>5
<1>3. last \in 0 .. last
  BY <1>1
<1>4. Good(last)
  BY <1>2, <1>3
<1>5. QED
  BY <1>4

(* It kept as many as there are positions. *)
LEMMA CountOfPicks ==
    ASSUME NEW p, NEW r, NEW s, NEW n \in Nat, NEW at \in SUBSET (1 .. n),
           Len(r) \in Nat, Picks(p, r, s, at, n)
    PROVE  Cardinality(at) = Len(r)
<1> DEFINE b == Len(r)
<1>1. /\ b \in Nat /\ p \in [1 .. b -> 1 .. n]
      /\ \A j \in 1 .. b : p[j] \in at
      /\ \A j, k \in 1 .. b : j < k => p[j] < p[k]
      /\ \A k \in at : \E j \in 1 .. b : p[j] = k
  BY DEF Picks
<1> HIDE DEF b
<1>2. p \in [1 .. b -> at]
  BY <1>1
<1>3. ASSUME NEW j \in 1 .. b, NEW k \in 1 .. b, p[j] = p[k] PROVE j = k
  <2>1. ~(j < k) /\ ~(k < j)
    <3>1. p[j] \in 1 .. n
      BY <1>1
    <3>2. ~(p[j] < p[k]) /\ ~(p[k] < p[j])
      BY <1>3, <3>1
    <3>3. QED
      BY <1>1, <3>2
  <2>2. QED
    BY <1>1, <2>1
<1>4. p \in Bijection(1 .. b, at)
  BY <1>1, <1>2, <1>3 DEF Bijection, Injection, IsInjective, Surjection
<1>5. IsFiniteSet(1 .. b) /\ Cardinality(1 .. b) = b
  BY <1>1, FS_Interval
<1>6. ExistsBijection(1 .. b, at)
  BY <1>4 DEF ExistsBijection
<1>7. QED
  BY <1>5, <1>6, FS_Bijection DEF b

-----------------------------------------------------------------------------
(* Sums of rows of numbers, and what they keep of the numbers. *)
(* Induction over the numbers up to n. *)
LEMMA InductionTo ==
    ASSUME NEW n \in Nat, NEW P, 0 \in P, \A k \in 0 .. n - 1 : k \in P => k + 1 \in P
    PROVE  \A k \in 0 .. n : k \in P
<1> DEFINE Bad == {k \in 0 .. n : k \notin P}
<1>1. SUFFICES ASSUME Bad # {} PROVE FALSE
  OBVIOUS
<1>2. PICK k \in Bad : \A j \in Bad : k <= j
  <2>1. Bad \in SUBSET Nat
    OBVIOUS
  <2> HIDE DEF Bad
  <2>2. QED
    BY <1>1, <2>1, LeastElement
<1>3. k \in 0 .. n /\ k # 0 /\ k \notin P
  BY <1>2
<1>4. k - 1 \in 0 .. n - 1 /\ (k - 1) + 1 = k /\ ~(k <= k - 1) /\ k - 1 \in 0 .. n
  BY <1>3
<1>5. k - 1 \in P
  BY <1>2, <1>4
<1>6. QED
  BY <1>3, <1>4, <1>5

(* The sums of the first elements of s. *)
Sums(f, s, n) == f = [k \in 0 .. n |-> IF k = 0 THEN 0 ELSE f[k - 1] + s[k]]

LEMMA SumsExist == ASSUME NEW s, NEW n \in Nat PROVE \E f : Sums(f, s, n)
<1> DEFINE P == {m \in 0 .. n : \E f : Sums(f, s, m)}
<1>1. 0 \in P
  <2> DEFINE f == [k \in 0 .. 0 |-> 0]
  <2>1. f = [k \in 0 .. 0 |-> IF k = 0 THEN 0 ELSE f[k - 1] + s[k]]
    OBVIOUS
  <2>2. Sums(f, s, 0)
    BY <2>1 DEF Sums
  <2>3. 0 \in 0 .. n
    OBVIOUS
  <2> HIDE DEF f
  <2>4. QED
    BY <2>2, <2>3
<1>2. ASSUME NEW m \in 0 .. n - 1, m \in P PROVE m + 1 \in P
  <2>1. PICK f : Sums(f, s, m)
    BY <1>2
  <2> DEFINE g == [k \in 0 .. m + 1 |-> IF k = m + 1 THEN f[m] + s[m + 1] ELSE f[k]]
             Next(k) == IF k = 0 THEN 0 ELSE g[k - 1] + s[k]
  <2>2. ASSUME NEW k \in 0 .. m + 1 PROVE g[k] = Next(k)
    <3>1. CASE k = m + 1
      <4>1. k - 1 = m /\ k # 0 /\ m \in 0 .. m + 1 /\ m # m + 1
        BY <3>1
      <4>2. g[m] = f[m]
        BY <4>1
      <4>3. QED
        BY <3>1, <4>1, <4>2
    <3>2. CASE k # m + 1
      <4>1. k \in 0 .. m /\ (k # 0 => k - 1 \in 0 .. m + 1 /\ k - 1 # m + 1)
        BY <3>2
      <4>2. f[k] = IF k = 0 THEN 0 ELSE f[k - 1] + s[k]
        BY <2>1, <4>1 DEF Sums
      <4>3. QED
        BY <3>2, <4>1, <4>2
    <3>3. QED
      BY <3>1, <3>2
  <2>3. g = [k \in 0 .. m + 1 |-> Next(k)]
    <3>1. g = [k \in 0 .. m + 1 |-> g[k]]
      OBVIOUS
    <3> HIDE DEF g
    <3>2. QED
      BY <2>2, <3>1
  <2>4. Sums(g, s, m + 1)
    BY <2>3 DEF Sums
  <2>5. m + 1 \in 0 .. n
    OBVIOUS
  <2> HIDE DEF g
  <2>6. QED
    BY <2>4, <2>5
<1>3. n \in 0 .. n
  OBVIOUS
<1> HIDE DEF P
<1>4. n \in P
  BY <1>1, <1>2, <1>3, InductionTo
<1>5. QED
  BY <1>4 DEF P

(* The first sum and the next. *)
LEMMA SumsStep ==
    ASSUME NEW f, NEW s, NEW n \in Nat, Sums(f, s, n)
    PROVE  /\ f[0] = 0
           /\ \A k \in 0 .. n - 1 : f[k + 1] = f[k] + s[k + 1] /\ k + 1 \in 1 .. n
<1>1. f[0] = 0
  <2>1. 0 \in 0 .. n
    OBVIOUS
  <2>2. QED
    BY <2>1 DEF Sums
<1>2. ASSUME NEW k \in 0 .. n - 1 PROVE f[k + 1] = f[k] + s[k + 1] /\ k + 1 \in 1 .. n
  <2>1. k + 1 \in 0 .. n /\ k + 1 # 0 /\ (k + 1) - 1 = k /\ k + 1 \in 1 .. n
    OBVIOUS
  <2>2. f[k + 1] = f[(k + 1) - 1] + s[k + 1]
    BY <2>1 DEF Sums
  <2>3. QED
    BY <2>1, <2>2
<1>3. QED
  BY <1>1, <1>2

(* The sums of a row of numbers are what they are. *)
LEMMA SumsUnique ==
    ASSUME NEW f, NEW g, NEW s, NEW n \in Nat, Sums(f, s, n), Sums(g, s, n)
    PROVE  f = g
<1> DEFINE P == {k \in 0 .. n : f[k] = g[k]}
<1>1. /\ f[0] = 0 /\ g[0] = 0
      /\ \A k \in 0 .. n - 1 : f[k + 1] = f[k] + s[k + 1] /\ g[k + 1] = g[k] + s[k + 1]
  BY SumsStep
<1>2. 0 \in P
  BY <1>1
<1>3. ASSUME NEW k \in 0 .. n - 1, k \in P PROVE k + 1 \in P
  BY <1>1, <1>3
<1> HIDE DEF P
<1>4. \A k \in 0 .. n : k \in P
  BY <1>2, <1>3, InductionTo
<1>5. DOMAIN f = 0 .. n /\ DOMAIN g = 0 .. n
  BY DEF Sums
<1>6. f = [k \in 0 .. n |-> f[k]] /\ g = [k \in 0 .. n |-> g[k]]
  <2>1. \A t : Sums(t, s, n) => t = [k \in 0 .. n |-> t[k]]
    <3> SUFFICES ASSUME NEW t, Sums(t, s, n) PROVE t = [k \in 0 .. n |-> t[k]]
      OBVIOUS
    <3> DEFINE B(k) == IF k = 0 THEN 0 ELSE t[k - 1] + s[k]
    <3>1. t = [k \in 0 .. n |-> B(k)]
      BY DEF Sums
    <3> HIDE DEF B
    <3>2. \A k \in 0 .. n : t[k] = B(k)
      BY <3>1
    <3>3. [k \in 0 .. n |-> B(k)] = [k \in 0 .. n |-> t[k]]
      BY <3>2
    <3>4. QED
      BY <3>1, <3>3
  <2>2. QED
    BY <2>1
<1>7. \A k \in 0 .. n : f[k] = g[k]
  BY <1>4 DEF P
<1>8. QED
  BY <1>6, <1>7

LEMMA SumsWhole ==
    ASSUME NEW f, NEW s, NEW n \in Nat, Sums(f, s, n), \A k \in 1 .. n : s[k] \in Int
    PROVE  \A k \in 0 .. n : f[k] \in Int
<1> DEFINE P == {k \in 0 .. n : f[k] \in Int}
<1>1. 0 \in P
  BY SumsStep
<1>2. ASSUME NEW k \in 0 .. n - 1, k \in P PROVE k + 1 \in P
  <2>1. f[k + 1] = f[k] + s[k + 1] /\ k + 1 \in 1 .. n
    BY SumsStep
  <2>2. QED
    BY <1>2, <2>1
<1> HIDE DEF P
<1>3. \A k \in 0 .. n : k \in P
  BY <1>1, <1>2, InductionTo
<1>4. QED
  BY <1>3 DEF P

(* What holds of each element, linearly, holds of the sums. *)
LEMMA SumsCompare ==
    ASSUME NEW n \in Nat, NEW f, NEW s, Sums(f, s, n), NEW g, NEW t, Sums(g, t, n),
           \A k \in 1 .. n : s[k] \in Int /\ t[k] \in Int,
           NEW d \in Int, NEW a \in Int, NEW c \in Int,
           \A k \in 1 .. n : d * s[k] <= a * t[k] + c
    PROVE  d * f[n] <= a * g[n] + c * n
<1> DEFINE P == {k \in 0 .. n : d * f[k] <= a * g[k] + c * k}
<1>1. \A k \in 0 .. n : f[k] \in Int /\ g[k] \in Int
  BY SumsWhole
<1>2. 0 \in P
  <2>1. f[0] = 0 /\ g[0] = 0
    BY SumsStep
  <2>2. d * 0 <= a * 0 + c * 0
    OBVIOUS
  <2>3. QED
    BY <2>1, <2>2
<1>3. ASSUME NEW k \in 0 .. n - 1, k \in P PROVE k + 1 \in P
  <2>1. f[k + 1] = f[k] + s[k + 1] /\ g[k + 1] = g[k] + t[k + 1] /\ k + 1 \in 1 .. n
    BY SumsStep
  <2>2. k \in 0 .. n /\ k + 1 \in 0 .. n
    OBVIOUS
  <2> DEFINE x == f[k]
             y == g[k]
             u == s[k + 1]
             v == t[k + 1]
  <2>3. x \in Int /\ y \in Int /\ u \in Int /\ v \in Int
    BY <1>1, <2>1, <2>2
  <2>4. d * x <= a * y + c * k /\ d * u <= a * v + c
    BY <1>3, <2>1
  <2> HIDE DEF x, y, u, v
  <2>5. d * (x + u) = d * x + d * u /\ a * (y + v) = a * y + a * v /\ c * (k + 1) = c * k + c
    BY <2>3
  <2>6. d * x \in Int /\ d * u \in Int /\ a * y \in Int /\ a * v \in Int /\ c * k \in Int
    BY <2>3
  <2>7. d * (x + u) <= a * (y + v) + c * (k + 1)
    BY <2>4, <2>5, <2>6
  <2>8. QED
    BY <2>1, <2>2, <2>7 DEF x, y, u, v
<1> HIDE DEF P
<1>4. \A k \in 0 .. n : k \in P
  BY <1>2, <1>3, InductionTo
<1>5. n \in 0 .. n
  OBVIOUS
<1>6. QED
  BY <1>4, <1>5 DEF P

Linear(s, t, n, a, c) == \A k \in 1 .. n : s[k] = a * t[k] + c

LEMMA SumsEqual ==
    ASSUME NEW n \in Nat, NEW f, NEW s, Sums(f, s, n), NEW g, NEW t, Sums(g, t, n),
           \A k \in 1 .. n : s[k] \in Int /\ t[k] \in Int,
           NEW a \in Int, NEW c \in Int,
           Linear(s, t, n, a, c)
    PROVE  f[n] = a * g[n] + c * n
<1>1. n \in 0 .. n
  OBVIOUS
<1>2. f[n] \in Int /\ g[n] \in Int
  BY <1>1, SumsWhole
<1>3. \A k \in 1 .. n : 1 * s[k] <= a * t[k] + c /\ (-1) * s[k] <= (-a) * t[k] + (-c)
  <2> TAKE k \in 1 .. n
  <2> DEFINE y == t[k]
  <2>1. y \in Int /\ s[k] = a * y + c
    BY DEF Linear
  <2> HIDE DEF y
  <2>2. 1 * (a * y + c) <= a * y + c /\ (-1) * (a * y + c) <= (-a) * y + (-c)
    BY <2>1
  <2>3. QED
    BY <2>1, <2>2 DEF y
<1>4. 1 * f[n] <= a * g[n] + c * n
  <2>1. 1 \in Int /\ \A k \in 1 .. n : 1 * s[k] <= a * t[k] + c
    BY <1>3
  <2>2. QED
    BY <2>1, SumsCompare
<1>5. (-1) * f[n] <= (-a) * g[n] + (-c) * n
  <2>1. -1 \in Int /\ -a \in Int /\ -c \in Int /\ \A k \in 1 .. n : (-1) * s[k] <= (-a) * t[k] + (-c)
    BY <1>3
  <2>2. QED
    BY <2>1, SumsCompare
<1> DEFINE x == f[n]
           y == g[n]
<1>6. x \in Int /\ y \in Int /\ 1 * x <= a * y + c * n /\ (-1) * x <= (-a) * y + (-c) * n
  BY <1>2, <1>4, <1>5
<1> HIDE DEF x, y
<1>7. x = a * y + c * n
  <2>1. a * y \in Int /\ (-a) * y = -(a * y) /\ c * n \in Int /\ (-c) * n = -(c * n)
    BY <1>6
  <2>2. QED
    BY <1>6, <2>1
<1>8. QED
  BY <1>7 DEF x, y

(* A sum of what is not negative is none of its elements less, and not negative. *)
LEMMA SumsAbove ==
    ASSUME NEW f, NEW s, NEW n \in Nat, Sums(f, s, n), \A k \in 1 .. n : s[k] \in Nat
    PROVE  f[n] \in Nat /\ \A j \in 1 .. n : s[j] <= f[n]
<1> DEFINE P == {k \in 0 .. n : f[k] \in Nat /\ \A j \in 1 .. k : s[j] <= f[k]}
<1>1. 0 \in P
  BY SumsStep
<1>2. ASSUME NEW k \in 0 .. n - 1, k \in P PROVE k + 1 \in P
  <2>1. f[k + 1] = f[k] + s[k + 1] /\ k + 1 \in 1 .. n
    BY SumsStep
  <2>2. f[k] \in Nat /\ s[k + 1] \in Nat /\ \A j \in 1 .. k : s[j] <= f[k]
    BY <1>2, <2>1
  <2>3. f[k + 1] \in Nat /\ f[k] <= f[k + 1] /\ s[k + 1] <= f[k + 1]
    BY <2>1, <2>2
  <2>4. ASSUME NEW j \in 1 .. k + 1 PROVE s[j] <= f[k + 1]
    <3>1. CASE j = k + 1
      BY <2>3, <3>1
    <3>2. CASE j # k + 1
      <4>1. j \in 1 .. k /\ j \in 1 .. n
        BY <3>2
      <4>2. s[j] <= f[k] /\ s[j] \in Nat
        BY <2>2, <4>1
      <4>3. QED
        BY <2>2, <2>3, <4>2
    <3>3. QED
      BY <3>1, <3>2
  <2>5. k + 1 \in 0 .. n
    OBVIOUS
  <2>6. QED
    BY <2>3, <2>4, <2>5
<1> HIDE DEF P
<1>3. \A k \in 0 .. n : k \in P
  BY <1>1, <1>2, InductionTo
<1>4. n \in 0 .. n
  OBVIOUS
<1>5. QED
  BY <1>3, <1>4 DEF P

(* Ones counted. *)
LEMMA SumsCount ==
    ASSUME NEW f, NEW s, NEW n \in Nat, Sums(f, s, n), NEW A \in SUBSET (1 .. n),
           \A k \in 1 .. n : s[k] = IF k \in A THEN 1 ELSE 0
    PROVE  f[n] = Cardinality(A)
<1> DEFINE Upto(k) == A \cap (1 .. k)
           P == {k \in 0 .. n : IsFiniteSet(Upto(k)) /\ f[k] = Cardinality(Upto(k))}
<1>1. 0 \in P
  <2>1. Upto(0) = {}
    OBVIOUS
  <2>2. f[0] = 0
    BY SumsStep
  <2> HIDE DEF Upto
  <2>3. QED
    BY <2>1, <2>2, FS_EmptySet
<1>2. ASSUME NEW k \in 0 .. n - 1, k \in P PROVE k + 1 \in P
  <2>1. f[k + 1] = f[k] + s[k + 1] /\ k + 1 \in 1 .. n /\ k + 1 \in 0 .. n
    BY SumsStep
  <2>2. IsFiniteSet(Upto(k)) /\ f[k] = Cardinality(Upto(k))
    BY <1>2
  <2>3. Cardinality(Upto(k)) \in Nat
    BY <2>2, FS_CardinalityType
  <2>4. CASE k + 1 \in A
    <3>1. Upto(k + 1) = Upto(k) \cup {k + 1} /\ k + 1 \notin Upto(k) /\ s[k + 1] = 1
      BY <2>1, <2>4
    <3> HIDE DEF Upto
    <3>2. /\ IsFiniteSet(Upto(k) \cup {k + 1})
          /\ Cardinality(Upto(k) \cup {k + 1}) = Cardinality(Upto(k)) + 1
      BY <2>2, <3>1, FS_AddElement
    <3>3. f[k + 1] = f[k] + 1
      BY <2>1, <3>1
    <3>4. QED
      BY <2>1, <2>2, <3>1, <3>2, <3>3
  <2>5. CASE k + 1 \notin A
    <3>1. Upto(k + 1) = Upto(k) /\ s[k + 1] = 0
      BY <2>1, <2>5
    <3> HIDE DEF Upto
    <3>2. f[k + 1] = f[k]
      BY <2>1, <2>2, <2>3, <3>1
    <3>3. QED
      BY <2>1, <2>2, <3>1, <3>2
  <2>6. QED
    BY <2>4, <2>5
<1> HIDE DEF P
<1>3. \A k \in 0 .. n : k \in P
  BY <1>1, <1>2, InductionTo
<1>4. n \in 0 .. n /\ Upto(n) = A
  <2>1. n \in 0 .. n /\ \A k \in A : k \in 1 .. n
    OBVIOUS
  <2>2. QED
    BY <2>1
<1> HIDE DEF Upto
<1>5. n \in P
  BY <1>3, <1>4
<1>6. f[n] = Cardinality(Upto(n))
  BY <1>5 DEF P
<1>7. QED
  BY <1>4, <1>6

(* The last sum, and that of whole numbers. *)
TotalOf(s) ==
    LET sum[k \in 0 .. Len(s)] == IF k = 0 THEN 0 ELSE sum[k - 1] + s[k]
    IN  sum[Len(s)]

LEMMA TotalIs ==
    ASSUME NEW s, Len(s) \in Nat
    PROVE  \E f : Sums(f, s, Len(s)) /\ TotalOf(s) = f[Len(s)]
<1> DEFINE n == Len(s)
           sum == CHOOSE f : f = [k \in 0 .. n |-> IF k = 0 THEN 0 ELSE f[k - 1] + s[k]]
<1>1. \E f : Sums(f, s, n)
  BY SumsExist
<1>2. sum = [k \in 0 .. n |-> IF k = 0 THEN 0 ELSE sum[k - 1] + s[k]]
  BY <1>1 DEF Sums
<1>3. Sums(sum, s, n)
  <2> HIDE DEF sum
  <2>1. QED
    BY <1>2 DEF Sums
<1>4. TotalOf(s) = sum[n]
  BY DEF TotalOf
<1> HIDE DEF sum
<1>5. QED
  BY <1>3, <1>4

LEMMA SumsOfNaturals ==
    ASSUME NEW s \in Seq(Nat)
    PROVE  LET sum[k \in 0 .. Len(s)] == IF k = 0 THEN 0 ELSE sum[k - 1] + s[k]
           IN  sum[Len(s)] \in Nat
<1>1. Len(s) \in Nat /\ \A k \in 1 .. Len(s) : s[k] \in Nat
  OBVIOUS
<1>2. PICK f : Sums(f, s, Len(s)) /\ TotalOf(s) = f[Len(s)]
  BY <1>1, TotalIs
<1>3. TotalOf(s) \in Nat
  BY <1>1, <1>2, SumsAbove
<1>4. QED
  BY <1>3 DEF TotalOf

(* Of numbers in a row one is the least and one the greatest. *)
LEMMA LeastAndGreatest ==
    ASSUME NEW n \in Nat \ {0}, NEW x, \A k \in 1 .. n : x[k] \in Int
    PROVE  /\ \E k \in 1 .. n : \A j \in 1 .. n : x[k] <= x[j]
           /\ \E k \in 1 .. n : \A j \in 1 .. n : x[j] <= x[k]
<1> DEFINE Low(m) == \E k \in 1 .. m : \A j \in 1 .. m : x[k] <= x[j]
           High(m) == \E k \in 1 .. m : \A j \in 1 .. m : x[j] <= x[k]
           P == {m \in 0 .. n : m # 0 => Low(m) /\ High(m)}
<1>1. 0 \in P
  OBVIOUS
<1>2. ASSUME NEW m \in 0 .. n - 1, m \in P PROVE m + 1 \in P
  <2>1. m + 1 \in 1 .. m + 1 /\ m + 1 \in 0 .. n /\ x[m + 1] \in Int
    OBVIOUS
  <2>2. \A j \in 1 .. m + 1 : (j \in 1 .. m \/ j = m + 1) /\ x[j] \in Int
    OBVIOUS
  <2>3. CASE m = 0
    <3>1. \A j \in 1 .. m + 1 : j = m + 1
      BY <2>3
    <3>2. Low(m + 1) /\ High(m + 1)
      BY <2>1, <3>1
    <3>3. QED
      BY <2>1, <3>2
  <2>4. CASE m # 0
    <3>1. PICK k \in 1 .. m : \A j \in 1 .. m : x[k] <= x[j]
      BY <1>2, <2>4
    <3>2. PICK h \in 1 .. m : \A j \in 1 .. m : x[j] <= x[h]
      BY <1>2, <2>4
    <3>3. k \in 1 .. m + 1 /\ h \in 1 .. m + 1
      OBVIOUS
    <3>4. Low(m + 1)
      <4>1. CASE x[k] <= x[m + 1]
        BY <2>2, <3>1, <3>3, <4>1
      <4>2. CASE ~(x[k] <= x[m + 1])
        <5>1. \A j \in 1 .. m : x[m + 1] <= x[j]
          BY <2>1, <2>2, <3>1, <3>3, <4>2
        <5>2. \A j \in 1 .. m + 1 : x[m + 1] <= x[j]
          BY <2>1, <2>2, <5>1
        <5>3. QED
          BY <2>1, <5>2
      <4>3. QED
        BY <4>1, <4>2
    <3>5. High(m + 1)
      <4>1. CASE x[m + 1] <= x[h]
        BY <2>2, <3>2, <3>3, <4>1
      <4>2. CASE ~(x[m + 1] <= x[h])
        <5>1. \A j \in 1 .. m : x[j] <= x[m + 1]
          BY <2>1, <2>2, <3>2, <3>3, <4>2
        <5>2. \A j \in 1 .. m + 1 : x[j] <= x[m + 1]
          BY <2>1, <2>2, <5>1
        <5>3. QED
          BY <2>1, <5>2
      <4>3. QED
        BY <4>1, <4>2
    <3>6. QED
      BY <2>1, <3>4, <3>5
  <2>5. QED
    BY <2>3, <2>4
<1> HIDE DEF P
<1>3. \A m \in 0 .. n : m \in P
  BY <1>1, <1>2, InductionTo
<1>4. n \in 0 .. n /\ n # 0
  OBVIOUS
<1>5. n \in P
  BY <1>3, <1>4
<1>6. QED
  BY <1>4, <1>5 DEF P

-----------------------------------------------------------------------------
(* Slices of sequences, and sequences joined. *)
(* A slice of n elements after the first a. *)
LEMMA SliceIs ==
    ASSUME NEW s \in Seq(Nat), NEW a \in Nat, NEW n \in Nat, a + n <= Len(s)
    PROVE  LET t == SubSeq(s, a + 1, a + n)
           IN  t \in Seq(Nat) /\ Len(t) = n /\ \A k \in 1 .. n : t[k] = s[a + k]
<1> DEFINE t == SubSeq(s, a + 1, a + n)
           m == Len(s)
<1>1. m \in Nat /\ \A k \in 1 .. m : s[k] \in Nat
  OBVIOUS
<1>2. t = [k \in 1 .. (a + n) - (a + 1) + 1 |-> s[(a + 1 + k) - 1]]
  OBVIOUS
<1> HIDE DEF t, m
<1>3. (a + n) - (a + 1) + 1 = n /\ \A k \in 1 .. n : (a + 1 + k) - 1 = a + k /\ a + k \in 1 .. m
  BY <1>1 DEF m
<1>4. t = [k \in 1 .. n |-> s[a + k]]
  BY <1>2, <1>3
<1>5. t \in [1 .. n -> Nat]
  BY <1>1, <1>3, <1>4
<1>6. t \in Seq(Nat) /\ Len(t) = n
  BY <1>4, <1>5
<1>7. QED
  BY <1>4, <1>6 DEF t

(* The sequences s joined, one after the other. *)
Joins(f, s, n) == f = [k \in 0 .. n |-> IF k = 0 THEN <<>> ELSE f[k - 1] \o s[k]]

LEMMA JoinsExist == ASSUME NEW s, NEW n \in Nat PROVE \E f : Joins(f, s, n)
<1> DEFINE P == {m \in 0 .. n : \E f : Joins(f, s, m)}
<1>1. 0 \in P
  <2> DEFINE f == [k \in 0 .. 0 |-> <<>>]
  <2>1. f = [k \in 0 .. 0 |-> IF k = 0 THEN <<>> ELSE f[k - 1] \o s[k]]
    OBVIOUS
  <2>2. Joins(f, s, 0)
    BY <2>1 DEF Joins
  <2>3. 0 \in 0 .. n
    OBVIOUS
  <2> HIDE DEF f
  <2>4. QED
    BY <2>2, <2>3
<1>2. ASSUME NEW m \in 0 .. n - 1, m \in P PROVE m + 1 \in P
  <2>1. PICK f : Joins(f, s, m)
    BY <1>2
  <2> DEFINE g == [k \in 0 .. m + 1 |-> IF k = m + 1 THEN f[m] \o s[m + 1] ELSE f[k]]
             After(k) == IF k = 0 THEN <<>> ELSE g[k - 1] \o s[k]
  <2>2. ASSUME NEW k \in 0 .. m + 1 PROVE g[k] = After(k)
    <3>1. CASE k = m + 1
      <4>1. k - 1 = m /\ k # 0 /\ m \in 0 .. m + 1 /\ m # m + 1
        BY <3>1
      <4>2. g[m] = f[m]
        BY <4>1
      <4>3. QED
        BY <3>1, <4>1, <4>2
    <3>2. CASE k # m + 1
      <4>1. k \in 0 .. m /\ (k # 0 => k - 1 \in 0 .. m + 1 /\ k - 1 # m + 1)
        BY <3>2
      <4>2. f[k] = IF k = 0 THEN <<>> ELSE f[k - 1] \o s[k]
        BY <2>1, <4>1 DEF Joins
      <4>3. QED
        BY <3>2, <4>1, <4>2
    <3>3. QED
      BY <3>1, <3>2
  <2>3. g = [k \in 0 .. m + 1 |-> After(k)]
    <3>1. g = [k \in 0 .. m + 1 |-> g[k]]
      OBVIOUS
    <3> HIDE DEF g
    <3>2. QED
      BY <2>2, <3>1
  <2>4. Joins(g, s, m + 1)
    BY <2>3 DEF Joins
  <2>5. m + 1 \in 0 .. n
    OBVIOUS
  <2> HIDE DEF g
  <2>6. QED
    BY <2>4, <2>5
<1>3. n \in 0 .. n
  OBVIOUS
<1> HIDE DEF P
<1>4. n \in P
  BY <1>1, <1>2, <1>3, InductionTo
<1>5. QED
  BY <1>4 DEF P

JoinsOn(f, s, n) ==
    /\ f[0] = <<>>
    /\ \A k \in 0 .. n - 1 : f[k + 1] = f[k] \o s[k + 1] /\ k + 1 \in 1 .. n

LEMMA JoinsStep == ASSUME NEW f, NEW s, NEW n \in Nat, Joins(f, s, n) PROVE JoinsOn(f, s, n)
<1>1. f[0] = <<>>
  <2>1. 0 \in 0 .. n
    OBVIOUS
  <2>2. QED
    BY <2>1 DEF Joins
<1>2. ASSUME NEW k \in 0 .. n - 1 PROVE f[k + 1] = f[k] \o s[k + 1] /\ k + 1 \in 1 .. n
  <2>1. k + 1 \in 0 .. n /\ k + 1 # 0 /\ (k + 1) - 1 = k /\ k + 1 \in 1 .. n
    OBVIOUS
  <2>2. f[k + 1] = f[(k + 1) - 1] \o s[k + 1]
    BY <2>1 DEF Joins
  <2>3. QED
    BY <2>1, <2>2
<1>3. QED
  BY <1>1, <1>2 DEF JoinsOn

(* t after r: the elements of either are found at their places. *)
LEMMA ConcatPlaces ==
    ASSUME NEW S, NEW r \in Seq(S), NEW t \in Seq(S)
    PROVE  /\ r \o t \in Seq(S) /\ Len(r \o t) = Len(r) + Len(t)
           /\ \A x \in 1 .. Len(r) : (r \o t)[x] = r[x]
           /\ \A i \in 1 .. Len(t) : (r \o t)[Len(r) + i] = t[i]
<1>1. r \o t \in Seq(S) /\ Len(r \o t) = Len(r) + Len(t)
      /\ \A x \in 1 .. Len(r) + Len(t) : (r \o t)[x] = IF x <= Len(r) THEN r[x] ELSE t[x - Len(r)]
  BY ConcatProperties
<1>2. Len(r) \in Nat /\ Len(t) \in Nat
  OBVIOUS
<1> DEFINE q == r \o t
           a == Len(r)
           b == Len(t)
<1> HIDE DEF q, a, b
<1>3. a \in Nat /\ b \in Nat /\ \A x \in 1 .. a + b : q[x] = IF x <= a THEN r[x] ELSE t[x - a]
  BY <1>1, <1>2 DEF q, a, b
<1>4. \A x \in 1 .. a : q[x] = r[x]
  BY <1>3
<1>5. ASSUME NEW i \in 1 .. b PROVE q[a + i] = t[i]
  <2>1. a + i \in 1 .. a + b /\ ~(a + i <= a) /\ (a + i) - a = i
    BY <1>3
  <2>2. QED
    BY <1>3, <2>1
<1>6. QED
  BY <1>1, <1>4, <1>5 DEF q, a, b

(* g has the ends of the parts: each part is found between its ends, and nothing
   else is found. *)
JoinedAt(f, s, g, k) ==
    /\ g[k] \in Nat /\ Len(f[k]) = g[k]
    /\ \A j \in 1 .. k :
          /\ g[j - 1] \in Nat /\ g[j] = g[j - 1] + Len(s[j]) /\ g[j] <= g[k]
          /\ \A i \in 1 .. Len(s[j]) : f[k][g[j - 1] + i] = s[j][i]
    /\ \A x \in 1 .. g[k] : \E j \in 1 .. k : g[j - 1] < x /\ x <= g[j]

LEMMA JoinsPlaces ==
    ASSUME NEW S, NEW n \in Nat, NEW f, NEW s, Joins(f, s, n),
           \A k \in 1 .. n : s[k] \in Seq(S),
           NEW w, \A k \in 1 .. n : w[k] = Len(s[k]),
           NEW g, Sums(g, w, n)
    PROVE  \A k \in 0 .. n : f[k] \in Seq(S) /\ JoinedAt(f, s, g, k)
<1> DEFINE P == {k \in 0 .. n : f[k] \in Seq(S) /\ JoinedAt(f, s, g, k)}
<1>1. /\ f[0] = <<>> /\ g[0] = 0
      /\ \A k \in 0 .. n - 1 : /\ f[k + 1] = f[k] \o s[k + 1] /\ g[k + 1] = g[k] + w[k + 1]
                               /\ k + 1 \in 1 .. n
  <2> HIDE DEF P
  <2>1. f[0] = <<>> /\ \A k \in 0 .. n - 1 : f[k + 1] = f[k] \o s[k + 1] /\ k + 1 \in 1 .. n
    <3>1. JoinsOn(f, s, n)
      BY JoinsStep
    <3>2. QED
      BY <3>1 DEF JoinsOn
  <2>2. g[0] = 0 /\ \A k \in 0 .. n - 1 : g[k + 1] = g[k] + w[k + 1]
    BY SumsStep
  <2>3. QED
    BY <2>1, <2>2
<1>2. 0 \in P
  <2>1. 0 \in 0 .. n /\ 1 .. 0 = {}
    OBVIOUS
  <2>2. f[0] \in Seq(S) /\ Len(f[0]) = 0 /\ g[0] = 0
    BY <1>1
  <2>3. JoinedAt(f, s, g, 0)
    BY <2>1, <2>2 DEF JoinedAt
  <2>4. QED
    BY <2>1, <2>2, <2>3
<1>3. ASSUME NEW k \in 0 .. n - 1, k \in P PROVE k + 1 \in P
  <2> DEFINE r == f[k]
             t == s[k + 1]
             q == r \o t
             a == g[k]
             b == Len(t)
  <2>1. r \in Seq(S) /\ JoinedAt(f, s, g, k) /\ k + 1 \in 1 .. n /\ k + 1 \in 0 .. n
    BY <1>1, <1>3
  <2>2. t \in Seq(S) /\ b \in Nat /\ f[k + 1] = q /\ g[k + 1] = a + b
    <3>1. t \in Seq(S) /\ w[k + 1] = b
      BY <2>1
    <3>2. f[k + 1] = q /\ g[k + 1] = a + w[k + 1]
      BY <1>1
    <3> HIDE DEF a, q, t
    <3>3. QED
      BY <3>1, <3>2
  <2>3. a \in Nat /\ Len(r) = a
    BY <2>1 DEF JoinedAt
  <2>4. /\ q \in Seq(S) /\ Len(q) = a + b
        /\ \A x \in 1 .. a : q[x] = r[x]
        /\ \A i \in 1 .. b : q[a + i] = t[i]
    <3>1. r \in Seq(S) /\ t \in Seq(S)
      BY <2>1, <2>2
    <3> HIDE DEF r, t, a
    <3>2. /\ r \o t \in Seq(S) /\ Len(r \o t) = Len(r) + Len(t)
          /\ \A x \in 1 .. Len(r) : (r \o t)[x] = r[x]
          /\ \A i \in 1 .. Len(t) : (r \o t)[Len(r) + i] = t[i]
      BY <3>1, ConcatPlaces
    <3>3. QED
      BY <2>3, <3>2
  <2>5. \A j \in 1 .. k + 1 : j \in 1 .. k \/ j = k + 1
    OBVIOUS
  <2>6. /\ \A j \in 1 .. k :
             /\ g[j - 1] \in Nat /\ g[j] = g[j - 1] + Len(s[j]) /\ g[j] <= a
             /\ \A i \in 1 .. Len(s[j]) : r[g[j - 1] + i] = s[j][i]
        /\ \A x \in 1 .. a : \E j \in 1 .. k : g[j - 1] < x /\ x <= g[j]
    BY <2>1 DEF JoinedAt
  <2>7. (k + 1) - 1 = k /\ k + 1 \in 1 .. k + 1 /\ \A j \in 1 .. k : j \in 1 .. k + 1 /\ j \in 1 .. n
    OBVIOUS
  <2> HIDE DEF q, a, b, t, r
  <2>8. ASSUME NEW j \in 1 .. k + 1
        PROVE  /\ g[j - 1] \in Nat /\ g[j] = g[j - 1] + Len(s[j]) /\ g[j] <= a + b
               /\ \A i \in 1 .. Len(s[j]) : q[g[j - 1] + i] = s[j][i]
    <3>1. CASE j \in 1 .. k
      <4>1. Len(s[j]) \in Nat
        BY <2>7, <3>1
      <4>2. g[j - 1] \in Nat /\ g[j] = g[j - 1] + Len(s[j]) /\ g[j] <= a
        BY <2>6, <3>1
      <4>3. g[j] <= a + b
        BY <2>2, <2>3, <4>1, <4>2
      <4>4. ASSUME NEW i \in 1 .. Len(s[j]) PROVE q[g[j - 1] + i] = s[j][i]
        <5>1. g[j - 1] + i \in 1 .. a
          BY <2>3, <4>1, <4>2
        <5>2. q[g[j - 1] + i] = r[g[j - 1] + i]
          BY <2>4, <5>1
        <5>3. QED
          BY <2>6, <3>1, <5>2
      <4>5. QED
        BY <4>2, <4>3, <4>4
    <3>2. CASE j = k + 1
      <4>1. g[j - 1] = a /\ s[j] = t /\ g[j] = a + b
        BY <2>2, <2>7, <3>2 DEF a, t
      <4>2. QED
        BY <2>2, <2>3, <2>4, <4>1 DEF b
    <3>3. QED
      BY <2>5, <3>1, <3>2
  <2>9. ASSUME NEW x \in 1 .. a + b
        PROVE  \E j \in 1 .. k + 1 : g[j - 1] < x /\ x <= g[j]
    <3>1. CASE x <= a
      <4>1. x \in 1 .. a
        BY <2>2, <2>3, <3>1
      <4>2. PICK j \in 1 .. k : g[j - 1] < x /\ x <= g[j]
        BY <2>6, <4>1
      <4>3. QED
        BY <2>7, <4>2
    <3>2. CASE a < x
      <4>1. g[(k + 1) - 1] < x /\ x <= g[k + 1]
        BY <2>2, <2>7, <3>2 DEF a
      <4>2. QED
        BY <2>7, <4>1
    <3>3. QED
      BY <2>2, <2>3, <3>1, <3>2
  <2>10. JoinedAt(f, s, g, k + 1)
    BY <2>2, <2>3, <2>4, <2>8, <2>9 DEF JoinedAt
  <2>11. QED
    BY <2>1, <2>2, <2>4, <2>10
<1> HIDE DEF P
<1>4. \A k \in 0 .. n : k \in P
  BY <1>2, <1>3, InductionTo
<1>5. QED
  BY <1>4 DEF P

(* A loop that begins with the first of them joins the same. *)
JoinsFromFirst(h, s, n) == h = [k \in 1 .. n |-> IF k = 1 THEN s[k] ELSE h[k - 1] \o s[k]]

LEMMA JoinedFromFirst ==
    ASSUME NEW S, NEW n \in Nat, n # 0, NEW s, \A k \in 1 .. n : s[k] \in Seq(S)
    PROVE  /\ \E h : JoinsFromFirst(h, s, n)
           /\ \A f, h : Joins(f, s, n) /\ JoinsFromFirst(h, s, n) => h[n] = f[n]
<1>1. 1 \in 1 .. n /\ n \in 1 .. n /\ s[1] \in Seq(S)
  OBVIOUS
<1>2. \A f : Joins(f, s, n) => f[0] = <<>> /\ f[1] = s[1]
  <2> SUFFICES ASSUME NEW f, Joins(f, s, n) PROVE f[0] = <<>> /\ f[1] = s[1]
    OBVIOUS
  <2>1. f[0] = <<>> /\ f[0 + 1] = f[0] \o s[0 + 1]
    <3>1. 0 \in 0 .. n - 1
      BY <1>1
    <3>2. JoinsOn(f, s, n)
      BY JoinsStep
    <3>3. QED
      BY <3>1, <3>2 DEF JoinsOn
  <2>2. <<>> \o s[1] = s[1]
    BY <1>1
  <2>3. QED
    BY <2>1, <2>2
<1>3. \E h : JoinsFromFirst(h, s, n)
  <2>1. PICK f : Joins(f, s, n)
    BY JoinsExist
  <2> DEFINE h == [k \in 1 .. n |-> f[k]]
             After(k) == IF k = 1 THEN s[k] ELSE h[k - 1] \o s[k]
  <2>2. ASSUME NEW k \in 1 .. n PROVE h[k] = After(k)
    <3>1. CASE k = 1
      BY <1>2, <2>1, <3>1
    <3>2. CASE k # 1
      <4>1. k - 1 \in 0 .. n - 1 /\ k - 1 \in 1 .. n /\ (k - 1) + 1 = k
        BY <3>2
      <4>2. f[(k - 1) + 1] = f[k - 1] \o s[(k - 1) + 1]
        <5>1. JoinsOn(f, s, n)
          BY <2>1, JoinsStep
        <5>2. QED
          BY <4>1, <5>1 DEF JoinsOn
      <4>3. QED
        BY <3>2, <4>1, <4>2
    <3>3. QED
      BY <3>1, <3>2
  <2>3. h = [k \in 1 .. n |-> After(k)]
    <3>1. h = [k \in 1 .. n |-> h[k]]
      OBVIOUS
    <3> HIDE DEF h
    <3>2. QED
      BY <2>2, <3>1
  <2>4. JoinsFromFirst(h, s, n)
    BY <2>3 DEF JoinsFromFirst
  <2> HIDE DEF h
  <2>5. QED
    BY <2>4
<1>4. ASSUME NEW f, NEW h, Joins(f, s, n), JoinsFromFirst(h, s, n) PROVE h[n] = f[n]
  <2> DEFINE P == {m \in 0 .. n : m = 0 \/ h[m] = f[m]}
  <2>1. 0 \in P
    OBVIOUS
  <2>2. ASSUME NEW k \in 0 .. n - 1, k \in P PROVE k + 1 \in P
    <3>1. k + 1 \in 1 .. n /\ k + 1 \in 0 .. n /\ (k + 1) - 1 = k
      OBVIOUS
    <3>2. h[k + 1] = IF k + 1 = 1 THEN s[k + 1] ELSE h[k] \o s[k + 1]
      BY <1>4, <3>1 DEF JoinsFromFirst
    <3>3. f[k + 1] = f[k] \o s[k + 1]
      <4>1. JoinsOn(f, s, n)
        BY <1>4, JoinsStep
      <4>2. QED
        BY <4>1 DEF JoinsOn
    <3>4. CASE k = 0
      <4>1. k + 1 = 1
        BY <3>4
      <4>2. h[k + 1] = s[1] /\ f[k + 1] = s[1]
        BY <1>2, <1>4, <3>2, <4>1
      <4>3. QED
        BY <3>1, <4>2
    <3>5. CASE k # 0
      <4>1. k + 1 # 1 /\ h[k] = f[k]
        BY <2>2, <3>5
      <4>2. h[k + 1] = f[k + 1]
        BY <3>2, <3>3, <4>1
      <4>3. QED
        BY <3>1, <4>2
    <3>6. QED
      BY <3>4, <3>5
  <2> HIDE DEF P
  <2>3. \A m \in 0 .. n : m \in P
    BY <2>1, <2>2, InductionTo
  <2>4. n \in 0 .. n
    OBVIOUS
  <2>5. QED
    BY <2>3, <2>4 DEF P
<1>5. QED
  BY <1>3, <1>4

(* t is what s has after its first a elements. *)
Follows(t, s, a, b) == \A k \in 1 .. b : t[k] = s[a + k]
RowsIn(s, n, S) == \A k \in 1 .. n : s[k] \in Seq(S)

(* What is joined so far depends on what was joined so far. *)
LEMMA JoinsBegin ==
    ASSUME NEW f, NEW s, NEW n \in Nat, Joins(f, s, n),
           NEW h, NEW t, NEW m \in Nat, Joins(h, t, m), m <= n,
           Follows(t, s, 0, m)
    PROVE  \A k \in 0 .. m : f[k] = h[k]
<1>1. \A k \in 1 .. m : s[k] = t[k]
  BY DEF Follows
<1> DEFINE P == {k \in 0 .. m : f[k] = h[k]}
<1>2. /\ f[0] = <<>> /\ h[0] = <<>>
      /\ \A k \in 0 .. n - 1 : f[k + 1] = f[k] \o s[k + 1]
      /\ \A k \in 0 .. m - 1 : h[k + 1] = h[k] \o t[k + 1]
  <2>1. JoinsOn(f, s, n)
    BY JoinsStep
  <2>2. JoinsOn(h, t, m)
    BY JoinsStep
  <2>3. QED
    BY <2>1, <2>2 DEF JoinsOn
<1>3. 0 \in P
  BY <1>2
<1>4. ASSUME NEW k \in 0 .. m - 1, k \in P PROVE k + 1 \in P
  <2>1. k \in 0 .. n - 1 /\ k + 1 \in 1 .. m /\ k + 1 \in 0 .. m
    OBVIOUS
  <2>2. f[k + 1] = h[k + 1]
    BY <1>2, <1>4, <1>1, <2>1
  <2>3. QED
    BY <2>1, <2>2
<1> HIDE DEF P
<1>5. \A k \in 0 .. m : k \in P
  BY <1>3, <1>4, InductionTo
<1>6. QED
  BY <1>5 DEF P

LEMMA JoinsTyped ==
    ASSUME NEW S, NEW f, NEW s, NEW n \in Nat, Joins(f, s, n), \A k \in 1 .. n : s[k] \in Seq(S)
    PROVE  \A k \in 0 .. n : f[k] \in Seq(S)
<1> DEFINE P == {k \in 0 .. n : f[k] \in Seq(S)}
<1>1. /\ f[0] = <<>>
      /\ \A k \in 0 .. n - 1 : f[k + 1] = f[k] \o s[k + 1] /\ k + 1 \in 1 .. n
  <2>1. JoinsOn(f, s, n)
    BY JoinsStep
  <2>2. QED
    BY <2>1 DEF JoinsOn
<1>2. 0 \in P
  <2>1. <<>> \in Seq(S) /\ 0 \in 0 .. n
    OBVIOUS
  <2>2. QED
    BY <1>1, <2>1
<1>3. ASSUME NEW k \in 0 .. n - 1, k \in P PROVE k + 1 \in P
  <2>1. k + 1 \in 1 .. n /\ k + 1 \in 0 .. n
    OBVIOUS
  <2>2. f[k] \in Seq(S) /\ s[k + 1] \in Seq(S)
    BY <1>3, <2>1
  <2>3. f[k] \o s[k + 1] \in Seq(S)
    BY <2>2
  <2>4. f[k + 1] \in Seq(S)
    BY <1>1, <2>3
  <2>5. QED
    BY <2>1, <2>4
<1> HIDE DEF P
<1>4. \A k \in 0 .. n : k \in P
  BY <1>2, <1>3, InductionTo
<1>5. QED
  BY <1>4 DEF P

(* All as long as another, the sequences have that length together. *)
LEMMA JoinsLength ==
    ASSUME NEW S, NEW f, NEW s, NEW n \in Nat, Joins(f, s, n), NEW l \in Nat,
           \A k \in 1 .. n : s[k] \in Seq(S) /\ Len(s[k]) = l
    PROVE  Len(f[n]) = n * l
<1> DEFINE P == {k \in 0 .. n : Len(f[k]) = k * l}
<1>1. /\ f[0] = <<>>
      /\ \A k \in 0 .. n - 1 : f[k + 1] = f[k] \o s[k + 1] /\ k + 1 \in 1 .. n
  <2>1. JoinsOn(f, s, n)
    BY JoinsStep
  <2>2. QED
    BY <2>1 DEF JoinsOn
<1>2. \A k \in 0 .. n : f[k] \in Seq(S)
  BY JoinsTyped
<1>3. 0 \in P
  <2>1. Len(f[0]) = 0 /\ 0 * l = 0
    BY <1>1
  <2>2. QED
    BY <2>1
<1>4. ASSUME NEW k \in 0 .. n - 1, k \in P PROVE k + 1 \in P
  <2>1. k + 1 \in 1 .. n /\ k + 1 \in 0 .. n /\ k \in 0 .. n
    OBVIOUS
  <2>2. /\ f[k] \in Seq(S) /\ s[k + 1] \in Seq(S)
        /\ Len(s[k + 1]) = l /\ Len(f[k]) = k * l
    BY <1>2, <1>4, <2>1
  <2>3. Len(f[k] \o s[k + 1]) = Len(f[k]) + Len(s[k + 1])
    <3> DEFINE x == f[k]
               y == s[k + 1]
    <3>1. x \in Seq(S) /\ y \in Seq(S)
      BY <2>2
    <3> HIDE DEF x, y
    <3>2. Len(x \o y) = Len(x) + Len(y)
      BY <3>1, ConcatPlaces
    <3>3. QED
      BY <3>2 DEF x, y
  <2>4. Len(f[k + 1]) = k * l + l
    BY <1>1, <2>2, <2>3
  <2>5. (k + 1) * l = k * l + l
    OBVIOUS
  <2>6. QED
    BY <2>1, <2>4, <2>5
<1> HIDE DEF P
<1>5. \A k \in 0 .. n : k \in P
  BY <1>3, <1>4, InductionTo
<1>6. n \in 0 .. n
  OBVIOUS
<1>7. QED
  BY <1>5, <1>6 DEF P

(* Joining goes on after a beginning a. *)
GoesOn(f, n, a, h, b) == f[n] = f[a] \o h[b]

LEMMA JoinsAfter ==
    ASSUME NEW S, NEW a \in Nat, NEW b \in Nat, NEW s, NEW t,
           RowsIn(s, a + b, S), Follows(t, s, a, b),
           NEW f, Joins(f, s, a + b), NEW h, Joins(h, t, b)
    PROVE  GoesOn(f, a + b, a, h, b)
<1> DEFINE n == a + b
<1>1. /\ n = a + b /\ \A k \in 1 .. a + b : s[k] \in Seq(S)
      /\ \A k \in 1 .. b : t[k] = s[a + k]
      /\ Joins(f, s, a + b)
  BY DEF RowsIn, Follows
<1> DEFINE P == {k \in 0 .. b : f[a + k] = f[a] \o h[k]}
<1>2. /\ \A k \in 0 .. (a + b) - 1 : f[k + 1] = f[k] \o s[k + 1] /\ k + 1 \in 1 .. a + b
      /\ h[0] = <<>>
      /\ \A k \in 0 .. b - 1 : h[k + 1] = h[k] \o t[k + 1] /\ k + 1 \in 1 .. b
  <2>1. n \in Nat
    BY <1>1
  <2>2. JoinsOn(f, s, n)
    BY <2>1, JoinsStep
  <2>3. JoinsOn(h, t, b)
    BY JoinsStep
  <2>4. n = a + b
    BY <1>1
  <2>5. QED
    BY <2>2, <2>3, <2>4 DEF JoinsOn
<1>3. /\ \A k \in 0 .. a + b : f[k] \in Seq(S)
      /\ \A k \in 1 .. b : t[k] \in Seq(S)
      /\ \A k \in 0 .. b : h[k] \in Seq(S)
  <2>1. a + b \in Nat /\ \A k \in 1 .. b : a + k \in 1 .. a + b
    OBVIOUS
  <2>2. \A k \in 1 .. b : t[k] \in Seq(S)
    BY <1>1, <2>1
  <2>3. \A k \in 0 .. a + b : f[k] \in Seq(S)
    BY <1>1, <2>1, JoinsTyped
  <2>4. \A k \in 0 .. b : h[k] \in Seq(S)
    BY <2>2, JoinsTyped
  <2>5. QED
    BY <2>2, <2>3, <2>4
<1>4. a \in 0 .. a + b /\ f[a] \in Seq(S)
  <2>1. a \in 0 .. a + b
    OBVIOUS
  <2>2. QED
    BY <1>3, <2>1
<1>5. 0 \in P
  <2>1. f[a] \o <<>> = f[a] /\ a + 0 = a /\ 0 \in 0 .. b
    BY <1>4
  <2>2. QED
    BY <1>2, <2>1
<1>6. ASSUME NEW k \in 0 .. b - 1, k \in P PROVE k + 1 \in P
  <2>1. /\ a + k \in 0 .. (a + b) - 1 /\ a + (k + 1) = (a + k) + 1 /\ k + 1 \in 1 .. b
        /\ k + 1 \in 0 .. b /\ k \in 0 .. b
    OBVIOUS
  <2>2. f[a + (k + 1)] = f[a + k] \o s[a + (k + 1)] /\ s[a + (k + 1)] = t[k + 1]
    BY <1>2, <1>1, <2>1
  <2>3. f[a + k] = f[a] \o h[k]
    BY <1>6
  <2>4. h[k] \in Seq(S) /\ t[k + 1] \in Seq(S)
    BY <1>3, <2>1
  <2>5. (f[a] \o h[k]) \o t[k + 1] = f[a] \o (h[k] \o t[k + 1])
    <3> DEFINE x == f[a]
               y == h[k]
               z == t[k + 1]
    <3>1. x \in Seq(S) /\ y \in Seq(S) /\ z \in Seq(S)
      BY <1>4, <2>4
    <3> HIDE DEF x, y, z
    <3>2. (x \o y) \o z = x \o (y \o z)
      BY ONLY <3>1, ConcatAssociative
    <3>3. QED
      BY <3>2 DEF x, y, z
  <2>6. h[k + 1] = h[k] \o t[k + 1]
    BY <1>2
  <2>7. f[a + (k + 1)] = f[a] \o h[k + 1]
    BY <2>2, <2>3, <2>5, <2>6
  <2>8. QED
    BY <2>1, <2>7
<1> HIDE DEF P
<1>7. \A k \in 0 .. b : k \in P
  BY <1>5, <1>6, InductionTo
<1>8. b \in 0 .. b
  OBVIOUS
<1>9. QED
  BY <1>7, <1>8, <1>1 DEF P, GoesOn

-----------------------------------------------------------------------------
(* A total order of 1 .. n, a set that is before the rest, and the number of
   elements not behind each. *)
Orders(R, n) ==
    /\ \A j, k \in 1 .. n : <<j, k>> \in R \/ <<k, j>> \in R
    /\ \A j, k \in 1 .. n : <<j, k>> \in R /\ <<k, j>> \in R => j = k
    /\ \A i, j, k \in 1 .. n : <<i, j>> \in R /\ <<j, k>> \in R => <<i, k>> \in R

Foremost(C, R, n) == C \in SUBSET (1 .. n) /\ \A j \in C : \A k \in (1 .. n) \ C : <<j, k>> \in R

StandsAt(place, R, n) ==
    place = [k \in 1 .. n |-> Cardinality({j \in 1 .. n : <<j, k>> \in R})]

(* In a total order, how many elements are not behind an element is its place:
   every place is taken, and a set that is before the rest has the first ones. *)
LEMMA PlacesOfAnOrder ==
    ASSUME NEW n \in Nat, NEW R, NEW C, NEW place,
           Orders(R, n), Foremost(C, R, n), StandsAt(place, R, n)
    PROVE  /\ place \in [1 .. n -> 1 .. n]
           /\ \A p \in 1 .. n : \E k \in 1 .. n : place[k] = p
           /\ \A j, k \in 1 .. n : j # k /\ <<j, k>> \in R => place[j] < place[k]
           /\ \A k \in 1 .. n : k \in C <=> place[k] <= Cardinality(C)
<1> DEFINE Ahead(k) == {j \in 1 .. n : <<j, k>> \in R}
<1>1. IsFiniteSet(1 .. n) /\ Cardinality(1 .. n) = n
  BY FS_Interval
<1>2. ASSUME NEW S \in SUBSET (1 .. n)
      PROVE  IsFiniteSet(S) /\ Cardinality(S) \in 0 .. n
  <2>1. IsFiniteSet(S) /\ Cardinality(S) <= Cardinality(1 .. n)
    BY <1>1, FS_Subset
  <2>2. Cardinality(S) \in Nat
    BY <2>1, FS_CardinalityType
  <2>3. QED
    BY <1>1, <2>1, <2>2
<1>3. ASSUME NEW S \in SUBSET (1 .. n), NEW T \in SUBSET S, NEW x \in S, x \notin T
      PROVE  Cardinality(T) < Cardinality(S)
  <2>1. IsFiniteSet(S) /\ Cardinality(S) \in 0 .. n /\ Cardinality(T) \in 0 .. n
    BY <1>2
  <2>2. Cardinality(T) <= Cardinality(S) /\ (Cardinality(S) = Cardinality(T) => S = T)
    BY <2>1, FS_Subset
  <2>3. Cardinality(S) # Cardinality(T)
    BY <1>3, <2>2
  <2>4. QED
    BY <2>1, <2>2, <2>3
<1>4. ASSUME NEW k \in 1 .. n PROVE place[k] = Cardinality(Ahead(k)) /\ k \in Ahead(k)
  BY DEF Orders, StandsAt
<1>5. C \in SUBSET (1 .. n) /\ \A k \in 1 .. n : Ahead(k) \in SUBSET (1 .. n)
  BY DEF Foremost
<1>6. place \in [1 .. n -> 1 .. n]
  <2> SUFFICES ASSUME NEW k \in 1 .. n PROVE Cardinality(Ahead(k)) \in 1 .. n
    BY DEF StandsAt
  <2>1. Cardinality(Ahead(k)) \in 0 .. n
    BY <1>2, <1>5
  <2>2. k \in Ahead(k)
    BY <1>4
  <2> HIDE DEF Ahead
  <2>3. Cardinality({}) = 0
    BY FS_EmptySet
  <2>4. Cardinality({}) < Cardinality(Ahead(k))
    BY <1>3, <1>5, <2>2
  <2>5. QED
    BY <2>1, <2>3, <2>4
<1>7. ASSUME NEW j \in 1 .. n, NEW k \in 1 .. n, j # k, <<j, k>> \in R
      PROVE  place[j] < place[k]
  <2>1. Ahead(j) \in SUBSET Ahead(k)
    BY <1>7 DEF Orders
  <2>2. k \in Ahead(k) /\ k \notin Ahead(j)
    BY <1>7 DEF Orders
  <2>3. place[j] = Cardinality(Ahead(j)) /\ place[k] = Cardinality(Ahead(k))
    BY <1>4
  <2> HIDE DEF Ahead
  <2>4. Cardinality(Ahead(j)) < Cardinality(Ahead(k))
    BY <1>3, <1>5, <2>1, <2>2
  <2>5. QED
    BY <2>3, <2>4
<1>8. ASSUME NEW j \in 1 .. n, NEW k \in 1 .. n, place[j] = place[k] PROVE j = k
  <2>1. place[j] \in 1 .. n
    BY <1>6
  <2>2. ~(place[j] < place[k]) /\ ~(place[k] < place[j])
    BY <1>8, <2>1
  <2>3. <<j, k>> \in R \/ <<k, j>> \in R
    BY DEF Orders
  <2>4. QED
    BY <1>7, <2>2, <2>3
<1>9. ASSUME NEW p \in 1 .. n PROVE \E k \in 1 .. n : place[k] = p
  <2>1. place \in Injection(1 .. n, 1 .. n)
    BY <1>6, <1>8 DEF Injection, IsInjective
  <2>2. place \in Surjection(1 .. n, 1 .. n)
    BY <1>1, <2>1, FS_Injection
  <2>3. QED
    BY <2>2 DEF Surjection
<1>10. ASSUME NEW k \in 1 .. n PROVE k \in C <=> place[k] <= Cardinality(C)
  <2>1. CASE k \in C
    <3>1. Ahead(k) \in SUBSET C
      BY <2>1 DEF Orders, Foremost
    <3> HIDE DEF Ahead
    <3>2. Cardinality(Ahead(k)) <= Cardinality(C)
      BY <1>2, <1>5, <3>1, FS_Subset
    <3>3. QED
      BY <1>4, <2>1, <3>2
  <2>2. CASE k \notin C
    <3>1. C \in SUBSET Ahead(k) /\ k \in Ahead(k)
      BY <2>2 DEF Orders, Foremost
    <3> HIDE DEF Ahead
    <3>2. Cardinality(C) < Cardinality(Ahead(k))
      BY <1>3, <1>5, <2>2, <3>1
    <3>3. Cardinality(C) \in Nat /\ Cardinality(Ahead(k)) \in Nat
      BY <1>2, <1>5
    <3>4. QED
      BY <1>4, <2>2, <3>2, <3>3
  <2>3. QED
    BY <2>1, <2>2
<1>11. QED
  BY <1>6, <1>7, <1>9, <1>10
=============================================================================
