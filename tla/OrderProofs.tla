------------------------------- MODULE OrderProofs -------------------------------
(* Proofs about the order of an epoch and the shares of the ranks, for any runs  *)
(* of frames, sizes of chunks and buffers, draws and numbers of ranks.           *)
EXTENDS Loading, SequenceLemmas, TLAPS, FiniteSetTheorems, SequenceTheorems, WellFoundedInduction

(* One part makes the step, and the others keep what they have. *)
LEMMA Steps ==
    ASSUME [Next]_vars
    PROVE  /\ Order!Next \/ UNCHANGED orderVars
           /\ Shares!Next \/ UNCHANGED sharesVars
<1>1. CASE UNCHANGED vars
  BY <1>1 DEF vars
<1>2. CASE Next
  BY <1>2 DEF Next, Others
<1>3. QED
  BY <1>1, <1>2

-----------------------------------------------------------------------------
(***************************************************************************)
(* The order.                                                               *)
(***************************************************************************)
LEMMA SwapRemoveElements ==
    ASSUME NEW s \in Seq(Nat), NEW at \in DOMAIN s, Distinct(s)
    PROVE  LET t == Order!Sampler!SwapRemove(s, at)
           IN  /\ t \in Seq(Nat) /\ Len(t) = Len(s) - 1
               /\ Elements(t) = Elements(s) \ {s[at]} /\ Distinct(t)
<1> DEFINE n == Len(s)
           u == [s EXCEPT ![at] = s[n]]
           t == Order!Sampler!SwapRemove(s, at)
<1>1. n \in Nat \ {0} /\ at \in 1 .. n /\ DOMAIN s = 1 .. n /\ s[n] \in Nat
  OBVIOUS
<1>2. u \in Seq(Nat) /\ Len(u) = n /\ u[at] = s[n] /\ \A k \in (1 .. n) \ {at} : u[k] = s[k]
  BY <1>1
<1>3. /\ t \in Seq(Nat) /\ Len(t) = n - 1 /\ DOMAIN t = 1 .. n - 1
      /\ \A k \in 1 .. n - 1 : t[k] = u[k]
  BY <1>1, <1>2 DEF Order!Sampler!SwapRemove
<1>4. \A k \in 1 .. n - 1 : t[k] = IF k = at THEN s[n] ELSE s[k]
  BY <1>2, <1>3
<1> HIDE DEF n, u, t
<1>5. Distinct(t)
  <2>1. ASSUME NEW j \in 1 .. n - 1, NEW k \in 1 .. n - 1, t[j] = t[k] PROVE j = k
    <3>1. /\ j \in 1 .. n /\ k \in 1 .. n /\ j # n /\ k # n /\ n \in 1 .. n
          /\ t[j] = (IF j = at THEN s[n] ELSE s[j]) /\ t[k] = (IF k = at THEN s[n] ELSE s[k])
      BY <1>1, <1>4
    <3>2. \A a, b \in 1 .. n : s[a] = s[b] => a = b
      BY <1>1 DEF Distinct
    <3>3. QED
      BY <2>1, <3>1, <3>2
  <2>2. QED
    BY <1>3, <2>1 DEF Distinct
<1>6. Elements(t) = Elements(s) \ {s[at]}
  <2>1. ASSUME NEW k \in 1 .. n - 1 PROVE t[k] \in Elements(s) /\ t[k] # s[at]
    BY <1>1, <1>4 DEF Elements, Distinct
  <2>2. ASSUME NEW k \in 1 .. n, s[k] # s[at] PROVE s[k] \in Elements(t)
    <3>1. CASE k = n
      <4>1. at \in 1 .. n - 1 /\ at \in DOMAIN t /\ t[at] = s[k]
        BY <1>1, <1>3, <1>4, <2>2, <3>1
      <4>2. QED
        BY <4>1 DEF Elements
    <3>2. CASE k # n
      <4>1. k \in 1 .. n - 1 /\ k \in DOMAIN t /\ t[k] = s[k]
        BY <1>1, <1>3, <1>4, <2>2, <3>2
      <4>2. QED
        BY <4>1 DEF Elements
    <3>3. QED
      BY <3>1, <3>2
  <2>3. QED
    BY <1>1, <1>3, <2>1, <2>2 DEF Elements
<1>7. QED
  BY <1>3, <1>5, <1>6 DEF n, t

(***************************************************************************)
(* What was read of the stream is in the order or in the buffer, once; and  *)
(* the buffer is full as long as there is something to read.                *)
(***************************************************************************)
SamplerTypes ==
    /\ shuffle \in BOOLEAN
    /\ out \in Seq(Nat) /\ buf \in Seq(Nat) /\ next \in 0 .. Order!Total
    /\ stage \in {"start", "sequential", "prime", "emit"}

ReadOnce ==
    /\ Distinct(out) /\ Distinct(buf)
    /\ Elements(out) \cap Elements(buf) = {}
    /\ Elements(out) \cup Elements(buf) = 0 .. next - 1
    /\ Len(out) + Len(buf) = next

BufferFull ==
    /\ stage \in {"start", "sequential"} => buf = <<>>
    /\ stage = "start" => next = 0
    /\ stage \in {"prime", "emit"} => ~Order!Sampler!Sequential /\ Len(buf) <= shuffle_buffer
    /\ stage = "emit" /\ next < Order!Total => Len(buf) = shuffle_buffer

(* Read without a buffer, the stream is the order. *)
InTurn == stage \in {"start", "sequential"} => \A k \in DOMAIN out : out[k] = k - 1

SamplerInv == SamplerTypes /\ ReadOnce /\ BufferFull /\ InTurn

LEMMA SamplerInvInit == ASSUME Order!Sampler!ShuffleAssumption, Order!Sampler!Init PROVE SamplerInv
<1>1. <<>> \in Seq(Nat) /\ Len(<<>>) = 0 /\ DOMAIN <<>> = {}
  OBVIOUS
<1>2. QED
  BY <1>1 DEF Order!Sampler!ShuffleAssumption, Order!Sampler!Init, SamplerInv, SamplerTypes, ReadOnce,
              BufferFull, InTurn, Elements, Distinct

LEMMA SamplerInvCollect == ASSUME Order!Sampler!ShuffleAssumption, SamplerInv, Order!Sampler!Collect PROVE SamplerInv'
<1> USE DEF Order!Sampler!ShuffleAssumption, SamplerInv, SamplerTypes, ReadOnce, BufferFull, Order!Sampler!Collect
<1>1. next \in Nat /\ next \notin Elements(out) /\ 0 .. next = (0 .. next - 1) \cup {next}
  OBVIOUS
<1>2. /\ out' \in Seq(Nat) /\ Len(out') = Len(out) + 1
      /\ Elements(out') = Elements(out) \cup {next} /\ Distinct(out')
  BY <1>1, AppendElements
<1>3. Elements(buf) = {}
  BY DEF Elements
<1>4. ReadOnce'
  BY <1>1, <1>2, <1>3 DEF Elements, Distinct
<1>5. InTurn'
  BY <1>2, <1>3 DEF InTurn
<1>6. QED
  BY <1>2, <1>4, <1>5

LEMMA SamplerInvPrime == ASSUME Order!Sampler!ShuffleAssumption, SamplerInv, Order!Sampler!Prime PROVE SamplerInv'
<1>1. /\ Order!Total \in Nat /\ shuffle_buffer \in Nat /\ next \in 0 .. Order!Total
      /\ out \in Seq(Nat) /\ buf \in Seq(Nat) /\ Len(out) \in Nat /\ Len(buf) \in Nat
  BY DEF Order!Sampler!ShuffleAssumption, SamplerInv, SamplerTypes
<1>2. stage = "prime" /\ ~Order!Sampler!Sequential /\ Len(buf) <= shuffle_buffer
  BY DEF Order!Sampler!Prime, SamplerInv, BufferFull
<1>3. shuffle' = shuffle /\ out' = out /\ (Order!Sampler!Sequential' <=> Order!Sampler!Sequential)
  BY DEF Order!Sampler!Prime, Order!Sampler!Sequential
<1>4. CASE Len(buf) < shuffle_buffer /\ next < Order!Total
  <2>1. buf' = Append(buf, next) /\ next' = next + 1 /\ stage' = "prime"
    BY <1>4 DEF Order!Sampler!Prime
  <2>2. next \in Nat /\ next \notin Elements(out) \cup Elements(buf)
    BY <1>1 DEF SamplerInv, ReadOnce
  <2>3. /\ buf' \in Seq(Nat) /\ Len(buf') = Len(buf) + 1
        /\ Elements(buf') = Elements(buf) \cup {next} /\ Distinct(buf')
    BY <1>1, <2>1, <2>2, AppendElements DEF SamplerInv, ReadOnce
  <2>4. ReadOnce'
    <3>1. Elements(out') = Elements(out) /\ (Distinct(out') <=> Distinct(out))
      BY <1>3
    <3>2. 0 .. next' - 1 = (0 .. next - 1) \cup {next}
      BY <1>1, <2>1
    <3>3. Len(out') + Len(buf') = next'
      <4>1. Len(out) + Len(buf) = next /\ Len(out') = Len(out)
        BY <1>3 DEF SamplerInv, ReadOnce
      <4>2. next' = next + 1 /\ next \in Int /\ Len(buf) \in Nat /\ Len(out) \in Nat
            /\ Len(buf') = Len(buf) + 1
        BY <1>1, <2>1, <2>3
      <4>3. QED
        BY <4>1, <4>2
    <3>4. Elements(out) \cap Elements(buf') = {} /\ Elements(out) \cup Elements(buf') = 0 .. next' - 1
      BY <2>2, <2>3, <3>2 DEF SamplerInv, ReadOnce
    <3>5. QED
      BY <1>3, <2>3, <3>1, <3>3, <3>4 DEF SamplerInv, ReadOnce
  <2>5. SamplerTypes'
    BY <1>1, <1>3, <1>4, <2>1, <2>3 DEF SamplerInv, SamplerTypes
  <2>6. BufferFull'
    BY <1>1, <1>2, <1>3, <1>4, <2>1, <2>3 DEF BufferFull
  <2>7. QED
    BY <2>1, <2>4, <2>5, <2>6 DEF SamplerInv, InTurn
<1>5. CASE ~(Len(buf) < shuffle_buffer /\ next < Order!Total)
  <2>1. buf' = buf /\ next' = next /\ stage' = "emit"
    BY <1>5 DEF Order!Sampler!Prime
  <2>2. ReadOnce'
    BY <1>3, <2>1 DEF SamplerInv, ReadOnce, Elements, Distinct
  <2>3. SamplerTypes' /\ BufferFull'
    BY <1>1, <1>2, <1>3, <1>5, <2>1 DEF SamplerInv, SamplerTypes, BufferFull
  <2>4. QED
    BY <2>1, <2>2, <2>3 DEF SamplerInv, InTurn
<1>6. QED
  BY <1>4, <1>5

(* What is emitted was in the buffer, and no place more than Ahead early. *)
LEMMA EmittedIsNear ==
    ASSUME Order!Sampler!ShuffleAssumption, SamplerInv, stage = "emit", NEW pick \in DOMAIN buf
    PROVE  /\ buf[pick] \in Elements(buf) /\ buf[pick] \in 0 .. Order!Total - 1
           /\ buf[pick] \notin Elements(out) /\ buf[pick] <= Len(out) + Order!Sampler!Ahead
<1> USE DEF Order!Sampler!ShuffleAssumption, SamplerInv, SamplerTypes, ReadOnce, BufferFull
<1>1. buf[pick] \in Elements(buf)
  BY DEF Elements
<1>2. buf[pick] \in 0 .. next - 1 /\ buf[pick] \notin Elements(out)
  BY <1>1
<1>3. Order!Sampler!Ahead = shuffle_buffer - 1
  BY DEF Order!Sampler!Ahead, Order!Sampler!Sequential
<1>4. Len(out) \in Nat /\ Len(buf) \in Nat
  OBVIOUS
<1>5. QED
  BY <1>1, <1>2, <1>3, <1>4

LEMMA SamplerInvEmit == ASSUME Order!Sampler!ShuffleAssumption, SamplerInv, Order!Sampler!Emit PROVE SamplerInv'
<1>1. PICK pick \in DOMAIN buf :
         /\ out' = Append(out, buf[pick])
         /\ IF next < Order!Total
              THEN buf' = [buf EXCEPT ![pick] = next] /\ next' = next + 1
              ELSE buf' = Order!Sampler!SwapRemove(buf, pick) /\ UNCHANGED next
  BY DEF Order!Sampler!Emit
<1>2. /\ stage = "emit" /\ stage' = stage /\ shuffle' = shuffle
      /\ ~Order!Sampler!Sequential /\ (Order!Sampler!Sequential' <=> Order!Sampler!Sequential)
  BY DEF Order!Sampler!Emit, SamplerInv, BufferFull, Order!Sampler!Sequential
<1>3. /\ Order!Total \in Nat /\ shuffle_buffer \in Nat /\ next \in 0 .. Order!Total
      /\ out \in Seq(Nat) /\ buf \in Seq(Nat) /\ Len(out) \in Nat /\ Len(buf) \in Nat
      /\ Len(buf) <= shuffle_buffer
  BY <1>2 DEF Order!Sampler!ShuffleAssumption, SamplerInv, SamplerTypes, BufferFull
<1>4. /\ Distinct(out) /\ Distinct(buf) /\ Len(out) + Len(buf) = next
      /\ Elements(out) \cap Elements(buf) = {}
      /\ Elements(out) \cup Elements(buf) = 0 .. next - 1
  BY DEF SamplerInv, ReadOnce
<1>5. /\ buf[pick] \in Elements(buf) /\ buf[pick] \in Nat
      /\ buf[pick] \notin Elements(out)
  BY <1>2, <1>3, EmittedIsNear
<1>6. /\ out' \in Seq(Nat) /\ Len(out') = Len(out) + 1
      /\ Elements(out') = Elements(out) \cup {buf[pick]} /\ Distinct(out')
  BY <1>1, <1>3, <1>4, <1>5, AppendElements
<1>7. CASE next < Order!Total
  <2>1. buf' = [buf EXCEPT ![pick] = next] /\ next' = next + 1
    BY <1>1, <1>7
  <2>2. next \in Nat /\ next \notin Elements(out) \cup Elements(buf) /\ Len(buf) = shuffle_buffer
    BY <1>2, <1>3, <1>4, <1>7 DEF SamplerInv, BufferFull
  <2>3. /\ buf' \in Seq(Nat) /\ Len(buf') = Len(buf)
        /\ Elements(buf') = (Elements(buf) \ {buf[pick]}) \cup {next} /\ Distinct(buf')
    BY <1>3, <1>4, <2>1, <2>2, ReplaceElements
  <2>4. 0 .. next' - 1 = (0 .. next - 1) \cup {next}
    BY <1>3, <2>1
  <2>5. Elements(out') \cap Elements(buf') = {}
    BY <1>4, <1>5, <1>6, <2>2, <2>3
  <2>6. Elements(out') \cup Elements(buf') = 0 .. next' - 1
    BY <1>4, <1>5, <1>6, <2>3, <2>4
  <2>7. Len(out') + Len(buf') = next'
    BY <1>3, <1>4, <1>6, <2>1, <2>3
  <2>8. SamplerTypes'
    BY <1>2, <1>3, <1>6, <1>7, <2>1, <2>3 DEF SamplerInv, SamplerTypes
  <2>9. BufferFull'
    BY <1>2, <1>3, <2>2, <2>3 DEF BufferFull
  <2>10. QED
    BY <1>2, <1>6, <2>3, <2>5, <2>6, <2>7, <2>8, <2>9 DEF SamplerInv, ReadOnce, InTurn
<1>8. CASE ~(next < Order!Total)
  <2>1. buf' = Order!Sampler!SwapRemove(buf, pick) /\ next' = next
    BY <1>1, <1>8
  <2>2. /\ buf' \in Seq(Nat) /\ Len(buf') = Len(buf) - 1
        /\ Elements(buf') = Elements(buf) \ {buf[pick]} /\ Distinct(buf')
    BY <1>3, <1>4, <2>1, SwapRemoveElements
  <2>3. Elements(out') \cap Elements(buf') = {} /\ Elements(out') \cup Elements(buf') = 0 .. next' - 1
    BY <1>4, <1>5, <1>6, <2>1, <2>2
  <2>4. Len(out') + Len(buf') = next'
    <3>1. Len(out') = Len(out) + 1 /\ Len(buf') = Len(buf) - 1 /\ next' = next
      BY <1>6, <2>1, <2>2
    <3>2. Len(out) + Len(buf) = next /\ Len(out) \in Nat /\ Len(buf) \in Nat
      BY <1>3, <1>4
    <3>3. QED
      BY <3>1, <3>2
  <2>5. SamplerTypes' /\ BufferFull'
    BY <1>2, <1>3, <1>6, <1>8, <2>1, <2>2 DEF SamplerInv, SamplerTypes, BufferFull
  <2>6. QED
    BY <1>2, <1>6, <2>2, <2>3, <2>4, <2>5 DEF SamplerInv, ReadOnce, InTurn
<1>9. QED
  BY <1>7, <1>8

LEMMA SamplerInvNext ==
    ASSUME Order!Sampler!ShuffleAssumption, SamplerInv,
           Order!Sampler!Next \/ UNCHANGED orderVars
    PROVE  SamplerInv'
<1>0. UNCHANGED <<out, buf, next>> => ReadOnce'
  BY DEF SamplerInv, ReadOnce, Elements, Distinct
<1>1. CASE Order!Sampler!Begin
  <2>1. /\ UNCHANGED <<shuffle, out, buf, next>>
        /\ stage' = IF Order!Sampler!Sequential THEN "sequential" ELSE "prime"
        /\ buf = <<>> /\ next = 0 /\ Len(buf) = 0
    BY <1>1 DEF Order!Sampler!Begin, SamplerInv, BufferFull
  <2>2. SamplerTypes'
    BY <2>1 DEF SamplerInv, SamplerTypes
  <2>3. BufferFull'
    BY <2>1 DEF BufferFull, Order!Sampler!Sequential, Order!Sampler!ShuffleAssumption
  <2>4. InTurn'
    BY <1>1, <2>1 DEF Order!Sampler!Begin, SamplerInv, InTurn
  <2>5. QED
    BY <1>0, <2>1, <2>2, <2>3, <2>4 DEF SamplerInv
<1>2. CASE UNCHANGED <<shuffle, out, stage, buf, next>>
  <2>1. SamplerTypes' /\ InTurn'
    BY <1>2 DEF SamplerInv, SamplerTypes, InTurn
  <2>2. BufferFull'
    BY <1>2 DEF SamplerInv, BufferFull, Order!Sampler!Sequential
  <2>3. QED
    BY <1>0, <1>2, <2>1, <2>2 DEF SamplerInv
<1>3. QED
  BY <1>1, <1>2, SamplerInvCollect, SamplerInvPrime, SamplerInvEmit
     DEF Order!Sampler!Next, Order!Sampler!vars, orderVars

LEMMA SamplerImplements ==
    ASSUME Order!Sampler!ShuffleAssumption, SamplerInv,
           Order!Sampler!Next \/ UNCHANGED orderVars
    PROVE  \/ UNCHANGED out
           \/ \E p \in 0 .. Order!Total - 1 :
                 /\ p \notin Elements(out) /\ p <= Len(out) + Order!Sampler!Ahead
                 /\ out' = Append(out, p)
<1>1. CASE Order!Sampler!Collect
  BY <1>1 DEF Order!Sampler!Collect, SamplerInv, SamplerTypes, ReadOnce, BufferFull,
              Order!Sampler!Ahead, Order!Sampler!ShuffleAssumption
<1>2. CASE Order!Sampler!Emit
  <2>1. PICK pick \in DOMAIN buf : out' = Append(out, buf[pick])
    BY <1>2 DEF Order!Sampler!Emit
  <2>2. QED
    BY <1>2, <2>1, EmittedIsNear DEF Order!Sampler!Emit
<1>3. CASE UNCHANGED out
  BY <1>3
<1>4. QED
  BY <1>1, <1>2, <1>3
     DEF Order!Sampler!Next, Order!Sampler!Begin, Order!Sampler!Prime, orderVars,
         Order!Sampler!vars

LEMMA SamplerInvGives ==
    ASSUME Order!Sampler!ShuffleAssumption, SamplerInv, Order!Sampler!Returned
    PROVE  /\ Len(out) = Order!Total /\ Elements(out) = 0 .. Order!Total - 1
           /\ ~shuffle => \A k \in DOMAIN out : out[k] = k - 1
<1>1. buf = <<>> /\ next = Order!Total
  BY DEF Order!Sampler!Returned, SamplerInv, SamplerTypes, BufferFull,
         Order!Sampler!ShuffleAssumption, Order!Sampler!Sequential
<1>2. Elements(buf) = {} /\ Len(buf) = 0
  BY <1>1 DEF Elements
<1>3. /\ Len(out) + Len(buf) = next /\ Len(out) \in Nat
      /\ Elements(out) \cup Elements(buf) = 0 .. next - 1
  BY DEF SamplerInv, ReadOnce, SamplerTypes
<1>4. Len(out) = Order!Total /\ Elements(out) = 0 .. Order!Total - 1
  <2>1. Len(out) = next
    BY <1>2, <1>3
  <2>2. Elements(out) = 0 .. next - 1
    BY <1>2, <1>3
  <2>3. next = Order!Total
    BY <1>1
  <2>4. QED
    BY <2>1, <2>2, <2>3
<1>5. ~shuffle => stage = "sequential"
  BY DEF Order!Sampler!Returned, SamplerInv, BufferFull, Order!Sampler!Sequential
<1>6. QED
  BY <1>4, <1>5 DEF SamplerInv, InTurn

(***************************************************************************)
(* Chunked orders: what is cut is covered by chunks that do not overlap and *)
(* cross no episode, wherever they are put; and flattened one by one.       *)
(***************************************************************************)
Chunk == [start : Nat, len : Nat]
Cover(c) == Order!Chunked!Covers(c)
Covered(s, n) == UNION {Cover(s[c]) : c \in 1 .. n}

ChunkTypes ==
    /\ shuffle \in BOOLEAN /\ stage \in {"cut", "shuffle", "flatten"}
    /\ run \in 1 .. Len(Runs) + 1 /\ off \in Nat
    /\ run <= Len(Runs) => off <= Runs[run].len
    /\ chunks \in Seq(Chunk) /\ out \in Seq(Nat) /\ i \in Nat
    /\ stage # "cut" => run = Len(Runs) + 1
    /\ stage = "shuffle" => shuffle /\ i \in 1 .. Len(chunks)
    /\ stage = "flatten" => i \in 1 .. Len(chunks) + 1

CutTo == IF run <= Len(Runs) THEN Runs[run].start + off ELSE Order!Total

(* c is a piece of one episode. *)
InOneRun(c) ==
    \E r \in DOMAIN Runs : /\ c.start >= Runs[r].start
                           /\ c.start + c.len <= Runs[r].start + Runs[r].len

Pieces(s, total) ==
    /\ \A c \in DOMAIN s : InOneRun(s[c])
    /\ \A c, d \in DOMAIN s : c # d => Cover(s[c]) \cap Cover(s[d]) = {}
    /\ Covered(s, Len(s)) = 0 .. total - 1

(* One after the other, the chunks reach up to total. *)
InRow(s, total) ==
    /\ s = <<>> => total = 0
    /\ s # <<>> => s[1].start = 0
    /\ \A c \in DOMAIN s :
          s[c].start + s[c].len = IF c < Len(s) THEN s[c + 1].start ELSE total

Flattened ==
    /\ stage # "flatten" => out = <<>>
    /\ stage = "flatten" =>
         /\ Distinct(out) /\ Elements(out) = Covered(chunks, i - 1)
         /\ ~shuffle => /\ \A k \in DOMAIN out : out[k] = k - 1
                        /\ Len(out) = IF i <= Len(chunks) THEN chunks[i].start ELSE CutTo

ChunksInv ==
    /\ ChunkTypes /\ Pieces(chunks, CutTo) /\ Flattened
    /\ stage = "cut" \/ ~shuffle => InRow(chunks, CutTo)

LEMMA RunsInRow ==
    ASSUME Order!OrderAssumption
    PROVE  /\ Runs \in Seq(Chunk) /\ Len(Runs) \in Nat /\ DOMAIN Runs = 1 .. Len(Runs)
           /\ Runs # <<>> => Runs[1].start = 0
           /\ \A r \in 1 .. Len(Runs) :
                 Runs[r].start + Runs[r].len =
                     IF r < Len(Runs) THEN Runs[r + 1].start ELSE Order!Total
           /\ Order!Total \in Nat /\ shuffle_buffer \in Nat
           /\ Order!Chunked!Population = Order!Total
           /\ Order!Chunked!Size \in Nat \ {0}
<1>1. /\ Runs \in Seq(Chunk) /\ Len(Runs) \in Nat /\ DOMAIN Runs = 1 .. Len(Runs)
      /\ \A r \in DOMAIN Runs :
            Runs[r].start = IF r = 1 THEN 0 ELSE Runs[r - 1].start + Runs[r - 1].len
      /\ Order!Total \in Nat /\ shuffle_buffer \in Nat /\ chunk_size \in Nat
  <2>1. Order!Chunked!ChunkAssumption /\ Order!Sampler!ShuffleAssumption
    BY DEF Order!OrderAssumption
  <2>2. /\ Runs \in Seq(Chunk) /\ chunk_size \in Nat
        /\ \A r \in DOMAIN Runs :
              Runs[r].start = IF r = 1 THEN 0 ELSE Runs[r - 1].start + Runs[r - 1].len
    BY <2>1 DEF Order!Chunked!ChunkAssumption, Chunk
  <2>3. Order!Total \in Nat /\ shuffle_buffer \in Nat
    BY <2>1 DEF Order!Sampler!ShuffleAssumption
  <2>4. QED
    BY <2>2, <2>3
<1>2. Runs # <<>> => Runs[1].start = 0
  <2>1. Runs # <<>> => 1 \in DOMAIN Runs
    BY <1>1
  <2>2. QED
    BY <1>1, <2>1
<1>3. ASSUME NEW r \in 1 .. Len(Runs)
      PROVE  Runs[r].start + Runs[r].len =
                 IF r < Len(Runs) THEN Runs[r + 1].start ELSE Order!Total
  <2>1. CASE r < Len(Runs)
    <3> DEFINE q == r + 1
    <3>1. q \in DOMAIN Runs /\ q # 1 /\ q - 1 = r
      BY <1>1, <2>1
    <3> HIDE DEF q
    <3>2. Runs[q].start = Runs[q - 1].start + Runs[q - 1].len
      BY <1>1, <3>1
    <3>3. Runs[q].start = Runs[r].start + Runs[r].len
      BY <3>1, <3>2
    <3>4. QED
      BY <2>1, <3>3 DEF q
  <2>2. CASE r = Len(Runs)
    BY <1>1, <2>2 DEF Order!Total
  <2>3. QED
    BY <1>1, <2>1, <2>2
<1>4. Order!Chunked!Population = Order!Total
  BY DEF Order!Chunked!Population, Order!Total
<1>5. Order!Chunked!Size \in Nat \ {0}
  BY <1>1 DEF Order!Chunked!Size
<1>6. QED
  BY <1>1, <1>2, <1>3, <1>4, <1>5

LEMMA IntervalParts ==
    ASSUME NEW a \in Nat, NEW b \in Nat, a <= b
    PROVE  /\ (0 .. a - 1) \cap (a .. b - 1) = {}
           /\ (0 .. a - 1) \cup (a .. b - 1) = 0 .. b - 1
OBVIOUS

LEMMA CoveredGrows ==
    ASSUME NEW s, NEW n \in Nat
    PROVE  /\ Covered(s, 0) = {}
           /\ Covered(s, n + 1) = Covered(s, n) \cup Cover(s[n + 1])
<1>1. 1 .. 0 = {} /\ 1 .. n + 1 = (1 .. n) \cup {n + 1}
  OBVIOUS
<1>2. QED
  BY <1>1 DEF Covered

LEMMA ChunksInvInit ==
    ASSUME Order!OrderAssumption, Order!Init, Order!Strategy = "chunked"
    PROVE  ChunksInv
<1>1. /\ shuffle \in BOOLEAN /\ out = <<>> /\ stage = "cut" /\ run = 1 /\ off = 0
      /\ chunks = <<>> /\ i = 0
  BY DEF Order!Init, Order!FirstPhase
<1>2. CutTo = 0
  BY <1>1, RunsInRow DEF CutTo, Order!Total
<1>3. Pieces(chunks, CutTo)
  <2>1. Len(chunks) = 0 /\ DOMAIN chunks = {} /\ 0 .. 0 - 1 = {}
    BY <1>1
  <2>2. Covered(chunks, Len(chunks)) = {}
    BY <2>1, CoveredGrows
  <2>3. QED
    BY <1>2, <2>1, <2>2 DEF Pieces
<1>4. ChunkTypes
  <2>1. /\ Runs \in Seq(Chunk) /\ Len(Runs) \in Nat
        /\ 1 <= Len(Runs) => Runs[1] \in Chunk
    BY RunsInRow
  <2>2. <<>> \in Seq(Chunk) /\ <<>> \in Seq(Nat)
    OBVIOUS
  <2>3. 1 <= Len(Runs) => 0 <= Runs[1].len
    BY <2>1 DEF Chunk
  <2>4. QED
    BY <1>1, <2>1, <2>2, <2>3 DEF ChunkTypes
<1>5. QED
  BY <1>1, <1>2, <1>3, <1>4 DEF ChunksInv, InRow, Flattened

(* A piece of the run being cut goes at the end of the row. *)
LEMMA ChunksInvCut ==
    ASSUME Order!OrderAssumption, ChunksInv, Order!Chunked!Cut
    PROVE  ChunksInv'
<1> DEFINE clen == IF Order!Chunked!Size <= Runs[run].len - off
                     THEN Order!Chunked!Size ELSE Runs[run].len - off
           c == [start |-> Runs[run].start + off, len |-> clen]
<1>1. /\ stage = "cut" /\ run <= Len(Runs) /\ off < Runs[run].len
      /\ chunks' = Append(chunks, c) /\ off' = off + clen
      /\ UNCHANGED <<shuffle, run, i, out, stage>>
  BY DEF Order!Chunked!Cut
<1>2. /\ ChunkTypes /\ Pieces(chunks, CutTo) /\ InRow(chunks, CutTo) /\ out = <<>>
  BY <1>1 DEF ChunksInv, Flattened
<1>3. /\ run \in 1 .. Len(Runs) /\ run \in DOMAIN Runs
      /\ Runs[run] \in Chunk /\ off \in Nat
      /\ Runs[run].start \in Nat /\ Runs[run].len \in Nat
  <2>1. run \in 1 .. Len(Runs) + 1 /\ off \in Nat
    BY <1>2 DEF ChunkTypes
  <2>2. Runs \in Seq(Chunk) /\ Len(Runs) \in Nat /\ DOMAIN Runs = 1 .. Len(Runs)
    BY RunsInRow
  <2>3. run \in 1 .. Len(Runs)
    BY <1>1, <2>1, <2>2
  <2>4. Runs[run] \in Chunk
    BY <2>2, <2>3
  <2>5. QED
    BY <2>1, <2>2, <2>3, <2>4 DEF Chunk
<1>4. clen \in Nat \ {0} /\ off + clen <= Runs[run].len
  <2>1. Order!Chunked!Size \in Nat \ {0}
    BY RunsInRow
  <2>2. off < Runs[run].len /\ off \in Nat /\ Runs[run].len \in Nat
    BY <1>1, <1>3
  <2>3. QED
    BY <2>1, <2>2
<1>5. c \in Chunk /\ c.start = CutTo /\ c.start + c.len = CutTo' /\ c.len \in Nat
  BY <1>1, <1>3, <1>4 DEF Chunk, CutTo
<1> HIDE DEF clen, c
<1> DEFINE n == Len(chunks)
<1>6. /\ n \in Nat /\ DOMAIN chunks = 1 .. n /\ chunks \in Seq(Chunk)
      /\ chunks' \in Seq(Chunk) /\ Len(chunks') = n + 1 /\ DOMAIN chunks' = 1 .. n + 1
      /\ \A d \in 1 .. n : chunks'[d] = chunks[d]
      /\ chunks'[n + 1] = c
  BY <1>1, <1>2, <1>5 DEF ChunkTypes
<1> HIDE DEF n
<1>7. /\ CutTo \in Nat /\ CutTo' \in Nat /\ CutTo <= CutTo'
      /\ c.start \in Nat /\ c.len \in Nat
  <2>1. c.start \in Nat /\ c.len \in Nat
    BY <1>5 DEF Chunk
  <2>2. c.start + c.len \in Nat /\ c.start <= c.start + c.len
    BY <2>1
  <2>3. QED
    BY <1>5, <2>1, <2>2
<1>8. Covered(chunks', n) = 0 .. CutTo - 1
  BY <1>2, <1>6 DEF Covered, Pieces, n
<1>9. Cover(c) = CutTo .. CutTo' - 1
  <2>1. Cover(c) = c.start .. c.start + c.len - 1
    BY DEF Cover, Order!Chunked!Covers
  <2>2. c.start = CutTo /\ c.start + c.len = CutTo'
    BY <1>5
  <2>3. c.start + c.len - 1 = CutTo' - 1
    BY <1>7, <2>2
  <2>4. QED
    BY <2>1, <2>2, <2>3
<1>10. Pieces(chunks', CutTo')
  <2>1. InOneRun(c)
    BY <1>3, <1>4, <1>5 DEF InOneRun, c
  <2>2. \A d \in 1 .. n : InOneRun(chunks'[d])
    BY <1>2, <1>6 DEF Pieces
  <2>3. \A d \in DOMAIN chunks' : InOneRun(chunks'[d])
    BY <1>6, <2>1, <2>2
  <2>4. ASSUME NEW d \in 1 .. n PROVE Cover(chunks[d]) \subseteq 0 .. CutTo - 1
    BY <1>2, <1>6 DEF Pieces, Covered, n
  <2>5. (0 .. CutTo - 1) \cap (CutTo .. CutTo' - 1) = {}
    BY <1>7, IntervalParts
  <2>6. ASSUME NEW d \in 1 .. n + 1, NEW e \in 1 .. n + 1, d # e
        PROVE  Cover(chunks'[d]) \cap Cover(chunks'[e]) = {}
    <3>1. CASE d \in 1 .. n /\ e \in 1 .. n
      BY <1>2, <1>6, <2>6, <3>1 DEF Pieces
    <3>2. CASE d \in 1 .. n /\ e = n + 1
      BY <1>6, <1>9, <2>4, <2>5, <3>2
    <3>3. CASE d = n + 1 /\ e \in 1 .. n
      BY <1>6, <1>9, <2>4, <2>5, <3>3
    <3>4. QED
      BY <1>6, <2>6, <3>1, <3>2, <3>3
  <2>7. Covered(chunks', n + 1) = 0 .. CutTo' - 1
    <3>1. Covered(chunks', n + 1) = (0 .. CutTo - 1) \cup (CutTo .. CutTo' - 1)
      BY <1>6, <1>8, <1>9, CoveredGrows
    <3>2. QED
      BY <1>7, <3>1, IntervalParts
  <2>8. QED
    BY <1>6, <2>3, <2>6, <2>7 DEF Pieces
<1>11. InRow(chunks', CutTo')
  <2>1. chunks' # <<>>
    BY <1>6
  <2>2. chunks'[1].start = 0
    <3>1. CASE n = 0
      BY <1>2, <1>5, <1>6, <3>1 DEF InRow, n
    <3>2. CASE n # 0
      <4>1. 1 \in 1 .. n /\ chunks # <<>>
        BY <1>6, <3>2 DEF n
      <4>2. QED
        BY <1>2, <1>6, <4>1 DEF InRow
    <3>3. QED
      BY <3>1, <3>2
  <2>3. ASSUME NEW d \in 1 .. n + 1
        PROVE  chunks'[d].start + chunks'[d].len =
                   IF d < n + 1 THEN chunks'[d + 1].start ELSE CutTo'
    <3>1. CASE d = n + 1
      BY <1>5, <1>6, <3>1
    <3>2. CASE d = n
      <4>1. n \in 1 .. n /\ ~(n < n)
        BY <1>6, <2>3, <3>2
      <4>2. chunks[n].start + chunks[n].len = CutTo
        BY <1>2, <1>6, <4>1 DEF InRow, n
      <4>3. QED
        BY <1>5, <1>6, <3>2, <4>1, <4>2
    <3>3. CASE d < n
      <4>1. d \in 1 .. n /\ d + 1 \in 1 .. n
        BY <1>6, <2>3, <3>3
      <4>2. chunks[d].start + chunks[d].len = chunks[d + 1].start
        BY <1>2, <1>6, <3>3, <4>1 DEF InRow, n
      <4>3. QED
        BY <1>6, <3>3, <4>1, <4>2
    <3>4. QED
      BY <1>6, <3>1, <3>2, <3>3
  <2>4. QED
    BY <1>6, <2>1, <2>2, <2>3 DEF InRow
<1>12. ChunkTypes'
  BY <1>1, <1>2, <1>3, <1>4, <1>6 DEF ChunkTypes
<1>13. QED
  BY <1>1, <1>2, <1>10, <1>11, <1>12 DEF ChunksInv, Flattened

LEMMA ChunksInvNextRun ==
    ASSUME Order!OrderAssumption, ChunksInv, Order!Chunked!NextRun
    PROVE  ChunksInv'
<1>1. /\ stage = "cut" /\ run <= Len(Runs) /\ off >= Runs[run].len
      /\ run' = run + 1 /\ off' = 0 /\ UNCHANGED <<shuffle, chunks, i, out, stage>>
  BY DEF Order!Chunked!NextRun
<1>2. /\ Runs \in Seq(Chunk) /\ Len(Runs) \in Nat /\ run \in 1 .. Len(Runs)
      /\ Runs[run] \in Chunk /\ off \in Nat /\ off = Runs[run].len
      /\ \A r \in 1 .. Len(Runs) :
            /\ Runs[r].start \in Nat /\ Runs[r].len \in Nat
            /\ Runs[r].start + Runs[r].len =
                  IF r < Len(Runs) THEN Runs[r + 1].start ELSE Order!Total
  <2>1. /\ Runs \in Seq(Chunk) /\ Len(Runs) \in Nat /\ run \in 1 .. Len(Runs) + 1
        /\ off \in Nat /\ off <= Runs[run].len
    BY <1>1, RunsInRow DEF ChunksInv, ChunkTypes
  <2>2. run \in 1 .. Len(Runs) /\ \A r \in 1 .. Len(Runs) : Runs[r] \in Chunk
    BY <1>1, <2>1
  <2>3. \A r \in 1 .. Len(Runs) : Runs[r].start \in Nat /\ Runs[r].len \in Nat
    BY <2>2 DEF Chunk
  <2>4. off = Runs[run].len
    BY <1>1, <2>1, <2>2, <2>3
  <2>5. QED
    BY <2>1, <2>2, <2>3, <2>4, RunsInRow
<1>3. CutTo' = CutTo
  <2>1. CASE run < Len(Runs)
    <3>1. run + 1 <= Len(Runs) /\ run <= Len(Runs)
      BY <1>2, <2>1
    <3>2. Runs[run].start + off = Runs[run + 1].start
      BY <1>2, <2>1
    <3>3. Runs[run + 1].start \in Nat
      BY <1>2, <3>1
    <3>4. Runs[run + 1].start + 0 = Runs[run + 1].start
      BY <3>3
    <3>5. QED
      BY <1>1, <3>1, <3>2, <3>4 DEF CutTo
  <2>2. CASE run = Len(Runs)
    <3>1. ~(run + 1 <= Len(Runs)) /\ run <= Len(Runs) /\ ~(run < Len(Runs))
      BY <1>2, <2>2
    <3>2. Runs[run].start + off = Order!Total
      BY <1>2, <3>1
    <3>3. QED
      BY <1>1, <3>1, <3>2 DEF CutTo
  <2>3. QED
    BY <1>2, <2>1, <2>2
<1>4. ChunkTypes'
  <2>1. /\ shuffle' \in BOOLEAN /\ stage' = "cut" /\ chunks' \in Seq(Chunk)
        /\ out' \in Seq(Nat) /\ i' \in Nat
    BY <1>1 DEF ChunksInv, ChunkTypes
  <2>2. run' \in 1 .. Len(Runs) + 1 /\ off' \in Nat
    BY <1>1, <1>2
  <2>3. run' <= Len(Runs) => off' <= Runs[run'].len
    BY <1>1, <1>2, <2>2
  <2>4. QED
    BY <2>1, <2>2, <2>3 DEF ChunkTypes
<1>5. QED
  BY <1>1, <1>3, <1>4 DEF ChunksInv, Pieces, InRow, Flattened

(* All is cut, and the swaps or the flattening begin. *)
LEMMA ChunksInvTurns ==
    ASSUME Order!OrderAssumption, ChunksInv, Order!Chunked!AllCut \/ Order!Chunked!Shuffled
    PROVE  ChunksInv'
<1>1. /\ UNCHANGED <<shuffle, run, off, chunks, out>>
      /\ stage \in {"cut", "shuffle"} /\ stage' \in {"shuffle", "flatten"}
      /\ stage' = "shuffle" => shuffle /\ i' = Len(chunks) /\ Len(chunks) > 1
      /\ stage' = "flatten" => i' = 1
      /\ stage = "cut" => run > Len(Runs)
  BY DEF Order!Chunked!AllCut, Order!Chunked!Shuffled
<1>2. ChunkTypes /\ Pieces(chunks, CutTo) /\ out = <<>>
  BY <1>1 DEF ChunksInv, Flattened
<1>3. Len(chunks) \in Nat /\ Len(Runs) \in Nat
  BY <1>2, RunsInRow DEF ChunkTypes
<1>4. run = Len(Runs) + 1
  BY <1>1, <1>2, <1>3 DEF ChunkTypes
<1>5. ChunkTypes'
  BY <1>1, <1>2, <1>3, <1>4 DEF ChunkTypes
<1>6. CutTo' = CutTo
  BY <1>1 DEF CutTo
<1>7. Pieces(chunks', CutTo') /\ (~shuffle' => InRow(chunks', CutTo'))
  BY <1>1, <1>2, <1>6 DEF ChunksInv
<1>8. Flattened'
  <2>1. out' = <<>> /\ DOMAIN out' = {} /\ Elements(out') = {} /\ Distinct(out') /\ Len(out') = 0
    BY <1>1, <1>2 DEF Elements, Distinct
  <2>2. stage' = "flatten" => i' - 1 = 0
    BY <1>1
  <2>3. Covered(chunks', 0) = {}
    BY CoveredGrows
  <2>4. ASSUME stage' = "flatten", ~shuffle'
        PROVE  Len(out') = IF i' <= Len(chunks') THEN chunks'[i'].start ELSE CutTo'
    <3>1. InRow(chunks', CutTo') /\ i' = 1 /\ Len(chunks') \in Nat
      BY <1>1, <1>3, <1>7, <2>4
    <3>2. CASE 1 <= Len(chunks')
      <4>1. chunks' # <<>>
        BY <3>2
      <4>2. QED
        BY <2>1, <3>1, <3>2, <4>1 DEF InRow
    <3>3. CASE ~(1 <= Len(chunks'))
      <4>1. chunks' = <<>>
        BY <1>5, <3>1, <3>3 DEF ChunkTypes
      <4>2. QED
        BY <2>1, <3>1, <3>3, <4>1 DEF InRow
    <3>4. QED
      BY <3>2, <3>3
  <2>5. QED
    BY <2>1, <2>2, <2>3, <2>4 DEF Flattened
<1>9. QED
  BY <1>1, <1>5, <1>7, <1>8 DEF ChunksInv

(* Two chunks change places. *)
LEMMA ChunksInvSwap ==
    ASSUME Order!OrderAssumption, ChunksInv, Order!Chunked!Swap
    PROVE  ChunksInv'
<1>1. PICK j \in 1 .. i : chunks' = [chunks EXCEPT ![i] = chunks[j], ![j] = chunks[i]]
  BY DEF Order!Chunked!Swap
<1>2. /\ stage = "shuffle" /\ i > 1 /\ i' = i - 1
      /\ UNCHANGED <<shuffle, run, off, out, stage>>
  BY DEF Order!Chunked!Swap
<1>3. /\ ChunkTypes /\ Pieces(chunks, CutTo) /\ Flattened
      /\ chunks \in Seq(Chunk) /\ Len(chunks) \in Nat /\ DOMAIN chunks = 1 .. Len(chunks)
      /\ i \in 1 .. Len(chunks) /\ j \in 1 .. Len(chunks) /\ shuffle
  BY <1>2 DEF ChunksInv, ChunkTypes
<1> DEFINE n == Len(chunks)
           was == [c \in 1 .. n |-> IF c = i THEN j ELSE IF c = j THEN i ELSE c]
<1>4. /\ \A c \in 1 .. n : was[c] \in 1 .. n
      /\ \A c, d \in 1 .. n : was[c] = was[d] => c = d
      /\ \A c \in 1 .. n : \E d \in 1 .. n : was[d] = c
  <2>1. \A c \in 1 .. n : was[was[c]] = c /\ was[c] \in 1 .. n
    BY <1>3
  <2>2. QED
    BY <2>1
<1>5. /\ chunks' \in Seq(Chunk) /\ Len(chunks') = n /\ DOMAIN chunks' = 1 .. n
      /\ \A c \in 1 .. n : chunks'[c] = chunks[was[c]]
  BY <1>1, <1>3
<1> HIDE DEF n, was
<1>6. DOMAIN chunks = 1 .. n /\ n = Len(chunks')
  BY <1>3, <1>5 DEF n
<1>7. CutTo' = CutTo
  BY <1>2 DEF CutTo
<1>8. Pieces(chunks', CutTo)
  <2>1. \A c \in 1 .. n : InOneRun(chunks'[c])
    BY <1>3, <1>4, <1>5, <1>6 DEF Pieces
  <2>2. ASSUME NEW c \in 1 .. n, NEW d \in 1 .. n, c # d
        PROVE  Cover(chunks'[c]) \cap Cover(chunks'[d]) = {}
    <3>1. was[c] \in 1 .. n /\ was[d] \in 1 .. n /\ was[c] # was[d]
      BY <1>4, <2>2
    <3>2. Cover(chunks[was[c]]) \cap Cover(chunks[was[d]]) = {}
      BY <1>3, <1>6, <3>1 DEF Pieces
    <3>3. chunks'[c] = chunks[was[c]] /\ chunks'[d] = chunks[was[d]]
      BY <1>5
    <3>4. QED
      BY <3>2, <3>3
  <2>3. Covered(chunks', n) = Covered(chunks, n)
    <3>1. \A c \in 1 .. n : Cover(chunks'[c]) = Cover(chunks[was[c]])
      BY <1>5
    <3>2. {Cover(chunks'[c]) : c \in 1 .. n} = {Cover(chunks[c]) : c \in 1 .. n}
      BY <1>4, <3>1
    <3>3. QED
      BY <3>2 DEF Covered
  <2>4. Covered(chunks, n) = 0 .. CutTo - 1
    BY <1>3 DEF Pieces, n
  <2>5. QED
    BY <1>5, <1>6, <2>1, <2>2, <2>3, <2>4 DEF Pieces
<1>9. ChunkTypes'
  <2>1. i' \in 1 .. Len(chunks') /\ i' \in Nat
    BY <1>2, <1>3, <1>5 DEF n
  <2>2. QED
    BY <1>2, <1>3, <1>5, <2>1 DEF ChunkTypes
<1>10. QED
  BY <1>2, <1>3, <1>7, <1>8, <1>9 DEF ChunksInv, Flattened

(* A chunk's positions, one after the other, are what it covers. *)
LEMMA PositionsOfChunk ==
    ASSUME NEW c \in Chunk
    PROVE  LET s == Order!Chunked!Positions(c)
           IN  /\ s \in Seq(Nat) /\ Len(s) = c.len /\ c.start \in Nat /\ c.len \in Nat
               /\ \A k \in 1 .. c.len : s[k] = c.start + k - 1
               /\ Elements(s) = Cover(c) /\ Distinct(s)
<1> DEFINE s == Order!Chunked!Positions(c)
<1>1. c.start \in Nat /\ c.len \in Nat
  BY DEF Chunk
<1>2. s = [k \in 1 .. c.len |-> c.start + k - 1]
  BY DEF Order!Chunked!Positions
<1>3. \A k \in 1 .. c.len : c.start + k - 1 \in Nat
  BY <1>1
<1>4. /\ s \in Seq(Nat) /\ Len(s) = c.len /\ DOMAIN s = 1 .. c.len
      /\ \A k \in 1 .. c.len : s[k] = c.start + k - 1
  BY <1>1, <1>2, <1>3
<1> HIDE DEF s
<1>5. Distinct(s)
  BY <1>1, <1>4 DEF Distinct
<1>6. Cover(c) = c.start .. c.start + c.len - 1
  BY DEF Cover, Order!Chunked!Covers
<1>7. ASSUME NEW p \in Cover(c) PROVE p \in Elements(s)
  <2>1. p - c.start + 1 \in 1 .. c.len /\ c.start + (p - c.start + 1) - 1 = p
    BY <1>1, <1>6, <1>7
  <2>2. QED
    BY <1>4, <2>1 DEF Elements
<1>8. ASSUME NEW k \in 1 .. c.len PROVE s[k] \in Cover(c)
  BY <1>1, <1>4, <1>6
<1>9. Elements(s) = Cover(c)
  BY <1>4, <1>7, <1>8 DEF Elements
<1>10. QED
  BY <1>1, <1>4, <1>5, <1>9 DEF s

LEMMA ConcatElements ==
    ASSUME NEW s \in Seq(Nat), NEW t \in Seq(Nat)
    PROVE  /\ s \o t \in Seq(Nat) /\ Len(s \o t) = Len(s) + Len(t)
           /\ Elements(s \o t) = Elements(s) \cup Elements(t)
           /\ Distinct(s) /\ Distinct(t) /\ Elements(s) \cap Elements(t) = {} => Distinct(s \o t)
<1> DEFINE u == s \o t
           m == Len(s)
           n == Len(t)
<1>1. /\ m \in Nat /\ n \in Nat /\ DOMAIN s = 1 .. m /\ DOMAIN t = 1 .. n
      /\ u \in Seq(Nat) /\ Len(u) = m + n /\ DOMAIN u = 1 .. m + n
      /\ \A k \in 1 .. m : u[k] = s[k]
      /\ \A k \in m + 1 .. m + n : u[k] = t[k - m]
  OBVIOUS
<1> HIDE DEF u, m, n
<1>2. ASSUME NEW k \in 1 .. n PROVE u[m + k] = t[k] /\ m + k \in 1 .. m + n
  <2>1. m + k \in m + 1 .. m + n /\ (m + k) - m = k
    BY <1>1
  <2>2. QED
    BY <1>1, <2>1
<1>3. ASSUME NEW k \in 1 .. m + n
      PROVE  \/ k \in 1 .. m /\ u[k] = s[k]
             \/ k - m \in 1 .. n /\ u[k] = t[k - m]
  <2>1. CASE k <= m
    BY <1>1, <2>1
  <2>2. CASE k > m
    <3>1. k \in m + 1 .. m + n /\ k - m \in 1 .. n
      BY <1>1, <2>2
    <3>2. QED
      BY <1>1, <3>1
  <2>3. QED
    BY <1>1, <2>1, <2>2
<1>4. Elements(u) = Elements(s) \cup Elements(t)
  <2>1. ASSUME NEW k \in 1 .. m + n PROVE u[k] \in Elements(s) \cup Elements(t)
    BY <1>1, <1>3 DEF Elements
  <2>2. ASSUME NEW k \in 1 .. m PROVE s[k] \in Elements(u)
    <3>1. k \in DOMAIN u /\ u[k] = s[k]
      BY <1>1
    <3>2. QED
      BY <3>1 DEF Elements
  <2>3. ASSUME NEW k \in 1 .. n PROVE t[k] \in Elements(u)
    BY <1>1, <1>2 DEF Elements
  <2>4. QED
    BY <1>1, <2>1, <2>2, <2>3 DEF Elements
<1>5. ASSUME Distinct(s), Distinct(t), Elements(s) \cap Elements(t) = {} PROVE Distinct(u)
  <2>1. ASSUME NEW j \in 1 .. m, NEW k \in 1 .. n PROVE s[j] # t[k]
    BY <1>1, <1>5 DEF Elements
  <2>2. ASSUME NEW j \in 1 .. m + n, NEW k \in 1 .. m + n, u[j] = u[k] PROVE j = k
    <3>1. CASE j \in 1 .. m /\ k \in 1 .. m
      BY <1>1, <1>5, <2>2, <3>1 DEF Distinct
    <3>2. CASE j - m \in 1 .. n /\ k - m \in 1 .. n /\ u[j] = t[j - m] /\ u[k] = t[k - m]
      <4>1. j - m = k - m
        BY <1>1, <1>5, <2>2, <3>2 DEF Distinct
      <4>2. QED
        BY <1>1, <4>1
    <3>3. QED
      BY <1>3, <2>1, <2>2, <3>1, <3>2
  <2>3. QED
    BY <1>1, <2>2 DEF Distinct
<1>6. QED
  BY <1>1, <1>4, <1>5 DEF u, m, n

LEMMA ChunksInvFlatten ==
    ASSUME Order!OrderAssumption, ChunksInv, Order!Chunked!Flatten
    PROVE  ChunksInv'
<1> DEFINE c == chunks[i]
           s == Order!Chunked!Positions(c)
<1>1. /\ stage = "flatten" /\ i <= Len(chunks) /\ out' = out \o s /\ i' = i + 1
      /\ UNCHANGED <<shuffle, run, off, chunks, stage>>
  BY DEF Order!Chunked!Flatten
<1>2. /\ ChunkTypes /\ Pieces(chunks, CutTo)
      /\ Distinct(out) /\ Elements(out) = Covered(chunks, i - 1)
      /\ ~shuffle => /\ \A k \in DOMAIN out : out[k] = k - 1
                     /\ Len(out) = c.start
                     /\ InRow(chunks, CutTo)
  BY <1>1 DEF ChunksInv, Flattened
<1>3. /\ chunks \in Seq(Chunk) /\ Len(chunks) \in Nat /\ DOMAIN chunks = 1 .. Len(chunks)
      /\ i \in 1 .. Len(chunks) /\ c \in Chunk /\ out \in Seq(Nat)
  BY <1>1, <1>2 DEF ChunkTypes
<1>4. /\ s \in Seq(Nat) /\ Len(s) = c.len /\ c.start \in Nat /\ c.len \in Nat
      /\ \A k \in 1 .. c.len : s[k] = c.start + k - 1
      /\ Elements(s) = Cover(c) /\ Distinct(s)
  BY <1>3, PositionsOfChunk
<1> HIDE DEF s
<1>5. CutTo' = CutTo
  BY <1>1 DEF CutTo
<1>6. Elements(out) \cap Elements(s) = {}
  <2>1. ASSUME NEW d \in 1 .. i - 1 PROVE Cover(chunks[d]) \cap Cover(c) = {}
    <3>1. d \in DOMAIN chunks /\ i \in DOMAIN chunks /\ d # i
      BY <1>3
    <3>2. QED
      BY <1>2, <3>1 DEF Pieces
  <2>2. QED
    BY <1>2, <1>4, <2>1 DEF Covered
<1>7. /\ out' \in Seq(Nat) /\ Len(out') = Len(out) + c.len
      /\ Elements(out') = Elements(out) \cup Cover(c) /\ Distinct(out')
  BY <1>1, <1>2, <1>3, <1>4, <1>6, ConcatElements
<1>8. Elements(out') = Covered(chunks', i' - 1)
  <2>1. i - 1 \in Nat /\ (i - 1) + 1 = i /\ i' - 1 = i
    BY <1>1, <1>3
  <2>2. Covered(chunks, (i - 1) + 1) = Covered(chunks, i - 1) \cup Cover(chunks[(i - 1) + 1])
    BY <2>1, CoveredGrows
  <2>3. QED
    BY <1>1, <1>2, <1>7, <2>1, <2>2
<1>9. ASSUME ~shuffle
      PROVE  /\ \A k \in DOMAIN out' : out'[k] = k - 1
             /\ Len(out') = IF i' <= Len(chunks') THEN chunks'[i'].start ELSE CutTo'
  <2>1. ASSUME NEW k \in DOMAIN out' PROVE out'[k] = k - 1
    <3>1. k \in 1 .. c.start + c.len /\ Len(out) = c.start
      <4>1. Len(out) = c.start
        BY <1>2, <1>9
      <4>2. DOMAIN out' = 1 .. Len(out')
        BY <1>7
      <4>3. Len(out') = c.start + c.len
        BY <1>7, <4>1
      <4>4. QED
        BY <4>1, <4>2, <4>3
    <3>2. CASE k \in 1 .. c.start
      BY <1>1, <1>2, <1>3, <1>4, <1>9, <3>1, <3>2
    <3>3. CASE k \in c.start + 1 .. c.start + c.len
      <4>1. k - c.start \in 1 .. c.len
        BY <1>4, <3>3
      <4>2. out'[k] = s[k - c.start]
        BY <1>1, <1>3, <1>4, <3>1, <3>3
      <4>3. s[k - c.start] = c.start + (k - c.start) - 1
        BY <1>4, <4>1
      <4>4. c.start + (k - c.start) - 1 = k - 1
        BY <1>4, <3>3
      <4>5. QED
        BY <4>2, <4>3, <4>4
    <3>4. QED
      BY <1>4, <3>1, <3>2, <3>3
  <2>2. c.start + c.len = IF i < Len(chunks) THEN chunks[i + 1].start ELSE CutTo
    BY <1>2, <1>3, <1>9 DEF InRow
  <2>3. (i + 1 <= Len(chunks)) <=> (i < Len(chunks))
    BY <1>3
  <2>4. Len(out') = c.start + c.len
    BY <1>2, <1>7, <1>9
  <2>5. QED
    BY <1>1, <1>5, <2>1, <2>2, <2>3, <2>4
<1>10. ChunkTypes'
  BY <1>1, <1>2, <1>3, <1>7 DEF ChunkTypes
<1>11. Flattened'
  BY <1>1, <1>7, <1>8, <1>9 DEF Flattened
<1>12. QED
  BY <1>1, <1>2, <1>5, <1>10, <1>11 DEF ChunksInv

LEMMA ChunksInvNext ==
    ASSUME Order!OrderAssumption, ChunksInv, Order!Chunked!Next \/ UNCHANGED orderVars
    PROVE  ChunksInv'
<1>2. CASE UNCHANGED <<shuffle, run, off, chunks, i, out, stage>>
  <2>1. CutTo' = CutTo
    BY <1>2 DEF CutTo
  <2>2. ChunkTypes' /\ Flattened'
    BY <1>2, <2>1 DEF ChunksInv, ChunkTypes, Flattened
  <2>3. QED
    BY <1>2, <2>1, <2>2 DEF ChunksInv
<1>3. QED
  BY <1>2, ChunksInvCut, ChunksInvNextRun, ChunksInvTurns, ChunksInvSwap, ChunksInvFlatten
     DEF Order!Chunked!Next, Order!Chunked!vars, orderVars

LEMMA ChunksInvGives ==
    ASSUME Order!OrderAssumption, ChunksInv
    PROVE  /\ Order!Chunked!ChunksPartition
           /\ Order!Chunked!Returned =>
                /\ out \in Seq(Nat) /\ Distinct(out) /\ Elements(out) = 0 .. Order!Total - 1
                /\ ~shuffle => /\ \A k \in DOMAIN out : out[k] = k - 1
                               /\ Len(out) = Order!Total
<1>1. /\ ChunkTypes /\ Pieces(chunks, CutTo) /\ Len(chunks) \in Nat /\ Len(Runs) \in Nat
      /\ DOMAIN chunks = 1 .. Len(chunks)
  BY RunsInRow DEF ChunksInv, ChunkTypes
<1>2. run > Len(Runs) => CutTo = Order!Total
  BY <1>1 DEF CutTo, ChunkTypes
<1>3. Order!Chunked!ChunksPartition
  BY <1>1, <1>2, RunsInRow
     DEF Order!Chunked!ChunksPartition, Pieces, InOneRun, Covered, Cover
<1>4. ASSUME Order!Chunked!Returned
      PROVE  /\ out \in Seq(Nat) /\ Distinct(out) /\ Elements(out) = 0 .. Order!Total - 1
             /\ ~shuffle => /\ \A k \in DOMAIN out : out[k] = k - 1
                            /\ Len(out) = Order!Total
  <2>1. stage = "flatten" /\ i = Len(chunks) + 1 /\ run > Len(Runs) /\ i - 1 = Len(chunks)
    BY <1>1, <1>4 DEF Order!Chunked!Returned, ChunkTypes
  <2>2. ~(i <= Len(chunks))
    BY <1>1, <2>1
  <2>3. QED
    BY <1>1, <1>2, <2>1, <2>2 DEF ChunksInv, ChunkTypes, Flattened, Pieces
<1>5. QED
  BY <1>3, <1>4

-----------------------------------------------------------------------------
(* Every position is in one episode, the only one that covers it. *)
LEMMA RunsApart ==
    ASSUME Order!OrderAssumption
    PROVE  /\ \A r \in 1 .. Len(Runs) : Runs[r].start \in Nat /\ Runs[r].len \in Nat
           /\ \A q, r \in 1 .. Len(Runs) : q < r => Runs[q].start + Runs[q].len <= Runs[r].start
<1>1. \A r \in 1 .. Len(Runs) : Runs[r].start \in Nat /\ Runs[r].len \in Nat
  <2>1. Runs \in Seq(Chunk)
    BY RunsInRow
  <2>2. \A r \in 1 .. Len(Runs) : Runs[r] \in Chunk
    BY <2>1
  <2>3. QED
    BY <2>2 DEF Chunk
<1>2. ASSUME NEW q \in 1 .. Len(Runs), NEW r \in 1 .. Len(Runs), q < r,
             ~(Runs[q].start + Runs[q].len <= Runs[r].start)
      PROVE  FALSE
  <2> DEFINE S == {k \in q + 1 .. Len(Runs) : ~(Runs[q].start + Runs[q].len <= Runs[k].start)}
  <2>1. Len(Runs) \in Nat /\ q \in Nat
    BY RunsInRow
  <2>2. S \in SUBSET Nat /\ r \in S
    BY <1>2, <2>1
  <2>3. PICK k \in S : \A j \in S : k <= j
    <3> HIDE DEF S
    <3> QED BY <2>2, LeastElement
  <2>4. k \in q + 1 .. Len(Runs) /\ ~(Runs[q].start + Runs[q].len <= Runs[k].start)
    BY <2>3
  <2> DEFINE j == k - 1
  <2>5. /\ j \in 1 .. Len(Runs) /\ j < Len(Runs) /\ j + 1 = k /\ q <= j
    BY <2>1, <2>4
  <2>6. Runs[j].start + Runs[j].len = Runs[k].start
    BY <2>5, RunsInRow
  <2>7. j # q => j \in q + 1 .. Len(Runs) /\ ~(k <= j)
    BY <2>1, <2>4, <2>5
  <2>8. j # q => Runs[q].start + Runs[q].len <= Runs[j].start
    BY <2>3, <2>7
  <2> HIDE DEF j
  <2>9. Runs[j].start \in Nat /\ Runs[j].len \in Nat /\ Runs[q].start \in Nat /\ Runs[q].len \in Nat
    BY <1>1, <2>5
  <2>10. CASE j = q
    BY <2>4, <2>6, <2>9, <2>10
  <2>11. CASE j # q
    <3> DEFINE x == Runs[j].start
               y == Runs[j].len
               z == Runs[q].start + Runs[q].len
    <3>1. z <= x /\ x \in Nat /\ y \in Nat /\ z \in Nat
      BY <2>8, <2>9, <2>11
    <3>2. ~(z <= x + y)
      BY <2>4, <2>6
    <3> HIDE DEF x, y, z
    <3>3. QED
      BY <3>1, <3>2
  <2>12. QED
    BY <2>10, <2>11
<1>3. QED
  BY <1>1, <1>2

LEMMA EpisodeCovers ==
    ASSUME Order!OrderAssumption, NEW p \in Order!Positions
    PROVE  /\ Order!EpisodeOf(p) \in 1 .. Len(Runs) /\ Order!Covers(Order!EpisodeOf(p), p)
           /\ Order!LenOf(p) \in Nat \ {0} /\ Order!LenOf(p) = Runs[Order!EpisodeOf(p)].len
<1>1. /\ Len(Runs) \in Nat /\ DOMAIN Runs = 1 .. Len(Runs)
      /\ \A r \in 1 .. Len(Runs) : Runs[r].start \in Nat /\ Runs[r].len \in Nat
      /\ Order!Total \in Nat /\ p \in Nat /\ p < Order!Total
  BY RunsInRow, RunsApart DEF Order!Positions
<1> DEFINE S == {r \in 1 .. Len(Runs) : p < Runs[r].start + Runs[r].len}
<1>2. Len(Runs) \in S
  <2>1. Runs # <<>>
    BY <1>1 DEF Order!Total
  <2>2. Len(Runs) \in 1 .. Len(Runs)
    BY <1>1, <2>1, RunsInRow
  <2>3. Runs[Len(Runs)].start + Runs[Len(Runs)].len = Order!Total
    BY <2>2, <1>1, RunsInRow
  <2>4. QED
    BY <1>1, <2>2, <2>3
<1>3. PICK r \in S : \A j \in S : r <= j
  <2>1. S \in SUBSET Nat /\ S # {}
    BY <1>2
  <2> HIDE DEF S
  <2> QED BY <2>1, LeastElement
<1>4. r \in 1 .. Len(Runs) /\ p < Runs[r].start + Runs[r].len
  BY <1>3
<1>5. Runs[r].start <= p
  <2>1. CASE r = 1
    <3>1. Runs # <<>>
      BY <1>1, <1>4
    <3>2. QED
      BY <1>1, <2>1, <3>1, RunsInRow
  <2>2. CASE r # 1
    <3> DEFINE j == r - 1
    <3>1. j \in 1 .. Len(Runs) /\ j < Len(Runs) /\ j + 1 = r /\ ~(r <= j)
      BY <1>1, <1>4, <2>2
    <3>2. ~(p < Runs[j].start + Runs[j].len)
      BY <1>3, <3>1
    <3> HIDE DEF j
    <3>3. Runs[j].start + Runs[j].len = Runs[r].start
      BY <3>1, RunsInRow
    <3>4. QED
      BY <1>1, <1>4, <3>1, <3>2, <3>3
  <2>3. QED
    BY <2>1, <2>2
<1>6. Order!Covers(r, p) /\ r \in DOMAIN Runs
  BY <1>1, <1>4, <1>5 DEF Order!Covers
<1>7. Order!EpisodeOf(p) \in 1 .. Len(Runs) /\ Order!Covers(Order!EpisodeOf(p), p)
  BY <1>1, <1>6 DEF Order!EpisodeOf
<1>8. Order!LenOf(p) \in Nat \ {0} /\ Order!LenOf(p) = Runs[Order!EpisodeOf(p)].len
  BY <1>1, <1>7 DEF Order!LenOf, Order!Covers
<1>9. QED
  BY <1>7, <1>8

LEMMA EpisodeUnique ==
    ASSUME Order!OrderAssumption, NEW p \in Order!Positions, NEW r \in 1 .. Len(Runs),
           Order!Covers(r, p)
    PROVE  Order!EpisodeOf(p) = r
<1> DEFINE q == Order!EpisodeOf(p)
<1>1. q \in 1 .. Len(Runs) /\ Order!Covers(q, p)
  BY EpisodeCovers
<1>2. /\ Runs[q].start \in Nat /\ Runs[q].len \in Nat
      /\ Runs[r].start \in Nat /\ Runs[r].len \in Nat
      /\ q < r => Runs[q].start + Runs[q].len <= Runs[r].start
      /\ r < q => Runs[r].start + Runs[r].len <= Runs[q].start
      /\ p \in Int
  BY <1>1, RunsApart, RunsInRow DEF Order!Positions
<1> HIDE DEF q
<1>3. ~(q < r) /\ ~(r < q)
  BY <1>1, <1>2 DEF Order!Covers
<1>4. q \in Int /\ r \in Int
  BY <1>1
<1>5. QED
  BY <1>3, <1>4 DEF q

(***************************************************************************)
(* Curriculum: the frames of an episode come together, for nothing is       *)
(* between two of them in the order of the keys.                            *)
(***************************************************************************)
Sorted(s) ==
    /\ s \in Seq(Nat) /\ Distinct(s) /\ Elements(s) \subseteq Order!Positions
    /\ \A j, k \in DOMAIN s : j < k => ~Order!Easier(s[k], s[j])
    /\ \A p \in Order!Positions \ Elements(s) : \A k \in DOMAIN s : ~Order!Easier(p, s[k])

CurriculumInv ==
    /\ stage \in {"sort", "sorted"} /\ Sorted(out)
    /\ stage = "sorted" => Order!Positions \subseteq Elements(out)

LEMMA NotEasierThanItself ==
    ASSUME Order!OrderAssumption, NEW p \in Order!Positions
    PROVE  ~Order!Easier(p, p)
<1>1. /\ p \in Int /\ Order!LenOf(p) \in Nat /\ Order!EpisodeOf(p) \in Int
  BY EpisodeCovers, RunsInRow DEF Order!Positions
<1>2. QED
  BY <1>1 DEF Order!Easier

LEMMA CurriculumSorts ==
    ASSUME Order!OrderAssumption, CurriculumInv, Order!Sort
    PROVE  CurriculumInv'
<1> DEFINE rest == Order!Positions \ Order!Range(out)
<1>1. rest = Order!Positions \ Elements(out)
  BY DEF Order!Range, Elements
<1>2. /\ out \in Seq(Nat) /\ Distinct(out) /\ Elements(out) \subseteq Order!Positions
      /\ \A j, k \in DOMAIN out : j < k => ~Order!Easier(out[k], out[j])
      /\ \A p \in rest : \A k \in DOMAIN out : ~Order!Easier(p, out[k])
  BY <1>1 DEF CurriculumInv, Sorted
<1>3. CASE rest = {} /\ stage' = "sorted" /\ out' = out
  BY <1>1, <1>3 DEF CurriculumInv, Sorted, Distinct, Elements
<1>4. ASSUME NEW p \in rest, \A q \in rest : ~Order!Easier(q, p),
             out' = Append(out, p), stage' = "sort"
      PROVE  CurriculumInv'
  <2>1. p \in Order!Positions /\ p \notin Elements(out) /\ p \in Nat
    BY <1>1, RunsInRow DEF Order!Positions
  <2>2. /\ out' \in Seq(Nat) /\ Elements(out') = Elements(out) \cup {p} /\ Distinct(out')
    BY <1>2, <1>4, <2>1, AppendElements
  <2>3. /\ Len(out) \in Nat /\ DOMAIN out = 1 .. Len(out) /\ DOMAIN out' = 1 .. Len(out) + 1
        /\ \A k \in 1 .. Len(out) : out'[k] = out[k]
        /\ out'[Len(out) + 1] = p
    BY <1>2, <1>4, <2>1
  <2>4. ASSUME NEW j \in DOMAIN out', NEW k \in DOMAIN out', j < k
        PROVE  ~Order!Easier(out'[k], out'[j])
    <3>1. j \in 1 .. Len(out) /\ out'[j] = out[j]
      BY <2>3, <2>4
    <3>2. CASE k = Len(out) + 1
      BY <1>2, <2>3, <3>1, <3>2
    <3>3. CASE k \in 1 .. Len(out)
      BY <1>2, <2>3, <2>4, <3>1, <3>3
    <3>4. QED
      BY <2>3, <3>2, <3>3
  <2>5. ASSUME NEW q \in Order!Positions \ Elements(out'), NEW k \in DOMAIN out'
        PROVE  ~Order!Easier(q, out'[k])
    <3>1. q \in rest
      BY <1>1, <2>2
    <3>2. CASE k = Len(out) + 1
      BY <1>4, <2>3, <3>1, <3>2
    <3>3. CASE k \in 1 .. Len(out)
      BY <1>2, <2>3, <3>1, <3>3
    <3>4. QED
      BY <2>3, <3>2, <3>3
  <2>6. Sorted(out')
    BY <1>2, <2>1, <2>2, <2>4, <2>5 DEF Sorted
  <2>7. Order!Positions' = Order!Positions
    BY DEF Order!Positions, Order!Total
  <2>8. QED
    BY <1>4, <2>6 DEF CurriculumInv, Sorted
<1>5. QED
  BY <1>3, <1>4 DEF Order!Sort, CurriculumInv

LEMMA SortedOnce ==
    ASSUME Order!OrderAssumption, NEW s, Sorted(s), Order!Positions \subseteq Elements(s)
    PROVE  /\ DOMAIN s = 1 .. Order!Total /\ Len(s) = Order!Total
           /\ \A k \in 1 .. Order!Total : s[k] \in Order!Positions
           /\ \A p \in Order!Positions : \E k \in 1 .. Order!Total : s[k] = p
           /\ \A j, k \in 1 .. Order!Total : Order!Easier(s[j], s[k]) => j < k
<1>1. /\ s \in Seq(Nat) /\ Distinct(s) /\ Elements(s) = 0 .. Order!Total - 1
      /\ Elements(s) = Order!Positions
      /\ \A j, k \in DOMAIN s : j < k => ~Order!Easier(s[k], s[j])
  BY DEF Sorted, Order!Positions
<1>2. Len(s) = Order!Total
  BY <1>1, DistinctLength, RunsInRow
<1>3. DOMAIN s = 1 .. Order!Total
  BY <1>1, <1>2
<1>4. ASSUME NEW j \in 1 .. Order!Total, NEW k \in 1 .. Order!Total, Order!Easier(s[j], s[k])
      PROVE  j < k
  <2>1. s[j] \in Order!Positions
    BY <1>1, <1>3 DEF Elements
  <2>2. j # k
    BY <1>4, <2>1, NotEasierThanItself
  <2>3. ~(k < j)
    BY <1>1, <1>3, <1>4
  <2>4. QED
    BY <2>2, <2>3, RunsInRow
<1>5. QED
  BY <1>1, <1>2, <1>3, <1>4 DEF Elements

LEMMA SortedHonours ==
    ASSUME Order!OrderAssumption, NEW s, Sorted(s), Order!Positions \subseteq Elements(s),
           NEW j \in 1 .. Len(s) - 1
    PROVE  /\ Order!LenOf(s[j]) <= Order!LenOf(s[j + 1])
           /\ \/ /\ s[j + 1] = s[j] + 1
                 /\ Order!EpisodeOf(s[j]) = Order!EpisodeOf(s[j + 1])
              \/ /\ s[j] = Runs[Order!EpisodeOf(s[j])].start + Order!LenOf(s[j]) - 1
                 /\ s[j + 1] = Runs[Order!EpisodeOf(s[j + 1])].start
<1> DEFINE a == s[j]
           b == s[j + 1]
           q == Order!EpisodeOf(a)
           r == Order!EpisodeOf(b)
<1>1. /\ Order!Total \in Nat /\ Len(s) = Order!Total
      /\ j \in 1 .. Order!Total /\ j + 1 \in 1 .. Order!Total
      /\ j \in Nat /\ Order!Positions = 0 .. Order!Total - 1
  BY SortedOnce, RunsInRow DEF Order!Positions
<1>2. a \in Order!Positions /\ b \in Order!Positions /\ a \in Nat /\ b \in Nat
  BY <1>1, SortedOnce
<1>3. /\ q \in 1 .. Len(Runs) /\ Order!Covers(q, a)
      /\ r \in 1 .. Len(Runs) /\ Order!Covers(r, b)
      /\ Order!LenOf(a) = Runs[q].len /\ Order!LenOf(b) = Runs[r].len
      /\ Order!LenOf(a) \in Nat /\ Order!LenOf(b) \in Nat
  BY <1>2, EpisodeCovers
<1>4. /\ Runs[q].start \in Nat /\ Runs[q].len \in Nat
      /\ Runs[r].start \in Nat /\ Runs[r].len \in Nat
      /\ Runs[q].start + Runs[q].len <= Order!Total
      /\ Runs[r].start + Runs[r].len <= Order!Total
  <2>1. ASSUME NEW e \in 1 .. Len(Runs) PROVE Runs[e].start + Runs[e].len <= Order!Total
    <3>1. /\ Len(Runs) \in 1 .. Len(Runs) /\ e <= Len(Runs) /\ Len(Runs) \in Nat
          /\ ~(Len(Runs) < Len(Runs))
      BY RunsInRow
    <3>2. Runs[Len(Runs)].start + Runs[Len(Runs)].len = Order!Total
      BY <3>1, RunsInRow
    <3>3. e # Len(Runs) => Runs[e].start + Runs[e].len <= Runs[Len(Runs)].start
      BY <3>1, RunsApart
    <3>4. /\ Runs[e].start \in Nat /\ Runs[e].len \in Nat
          /\ Runs[Len(Runs)].start \in Nat /\ Runs[Len(Runs)].len \in Nat
      BY <3>1, RunsApart
    <3>5. CASE e = Len(Runs)
      BY <1>1, <3>2, <3>5
    <3>6. CASE e # Len(Runs)
      <4> DEFINE x == Runs[Len(Runs)].start
                 y == Runs[Len(Runs)].len
                 z == Runs[e].start + Runs[e].len
      <4>1. z <= x /\ x \in Nat /\ y \in Nat /\ z \in Nat /\ x + y = Order!Total
        BY <3>2, <3>3, <3>4, <3>6
      <4> HIDE DEF x, y, z
      <4>2. z <= Order!Total
        BY <1>1, <4>1
      <4>3. QED
        BY <4>2 DEF z
    <3>7. QED
      BY <3>5, <3>6
  <2>2. QED
    BY <1>3, <2>1, RunsApart
(* Nothing is between two neighbours. *)
<1>5. ASSUME NEW p \in Order!Positions, Order!Easier(a, p), Order!Easier(p, b) PROVE FALSE
  <2>1. PICK k \in 1 .. Order!Total : s[k] = p
    BY SortedOnce
  <2>2. j < k /\ k < j + 1
    BY <1>1, <1>5, <2>1, SortedOnce
  <2>3. QED
    BY <1>1, <2>2
<1>6. ~Order!Easier(b, a)
  <2>1. Order!Easier(b, a) => j + 1 < j
    BY <1>1, SortedOnce
  <2>2. QED
    BY <1>1, <2>1
<1>7. a # b
  <2>1. DOMAIN s = 1 .. Order!Total
    BY SortedOnce
  <2>2. Distinct(s)
    BY DEF Sorted
  <2>3. j # j + 1
    BY <1>1
  <2>4. QED
    BY <1>1, <2>1, <2>2, <2>3 DEF Distinct
<1> HIDE DEF a, b, q, r
<1>8. Order!EpisodeOf(a) = q /\ Order!EpisodeOf(b) = r /\ q \in Int /\ r \in Int
  BY <1>3 DEF q, r
<1>9. Order!LenOf(a) <= Order!LenOf(b)
  BY <1>3, <1>6 DEF Order!Easier
<1>10. CASE q = r
  <2>1. a < b
    BY <1>2, <1>6, <1>7, <1>8, <1>10 DEF Order!Easier
  <2>2. CASE b = a + 1
    BY <1>8, <1>9, <1>10, <2>2 DEF a, b
  <2>3. CASE b # a + 1
    <3> DEFINE p == a + 1
    <3>1. a < p /\ p < b /\ p \in Order!Positions
      BY <1>1, <1>2, <2>1, <2>3
    <3>2. Order!Covers(q, p)
      <4> DEFINE x == Runs[q].start
                 y == Runs[q].start + Runs[q].len
      <4>1. x \in Int /\ y \in Int /\ a \in Int /\ b \in Int /\ x <= a /\ b < y
        BY <1>2, <1>3, <1>4, <1>10 DEF Order!Covers
      <4> HIDE DEF x, y
      <4>2. x <= p /\ p < y
        BY <3>1, <4>1
      <4>3. QED
        BY <4>2 DEF x, y, Order!Covers
    <3> HIDE DEF p
    <3>3. Order!EpisodeOf(p) = q
      BY <1>3, <3>1, <3>2, EpisodeUnique
    <3>4. Order!Easier(a, p) /\ Order!Easier(p, b)
      BY <1>8, <1>10, <3>1, <3>3 DEF Order!Easier
    <3>5. QED
      BY <1>5, <3>1, <3>4
  <2>4. QED
    BY <2>2, <2>3
<1>11. CASE q # r
  <2>1. \/ Order!LenOf(a) < Order!LenOf(b)
        \/ Order!LenOf(a) = Order!LenOf(b) /\ q < r
    BY <1>3, <1>6, <1>8, <1>9, <1>11 DEF Order!Easier
  <2>2. ASSUME NEW p \in Order!Positions, Order!EpisodeOf(p) = q PROVE Order!Easier(p, b)
    <3>1. Order!LenOf(p) = Order!LenOf(a)
      BY <1>3, <2>2 DEF Order!LenOf
    <3>2. QED
      BY <1>8, <2>1, <2>2, <3>1 DEF Order!Easier
  <2>3. ASSUME NEW p \in Order!Positions, Order!EpisodeOf(p) = r PROVE Order!Easier(a, p)
    <3>1. Order!LenOf(p) = Order!LenOf(b)
      BY <1>3, <2>3 DEF Order!LenOf
    <3>2. QED
      BY <1>8, <2>1, <2>3, <3>1 DEF Order!Easier
  <2>4. a = Runs[q].start + Runs[q].len - 1
    <3>1. SUFFICES ASSUME a # Runs[q].start + Runs[q].len - 1 PROVE FALSE
      OBVIOUS
    <3> DEFINE p == a + 1
    <3>2. Runs[q].start <= a /\ a < Runs[q].start + Runs[q].len
      BY <1>3 DEF Order!Covers
    <3> DEFINE end == Runs[q].start + Runs[q].len
    <3>8. end \in Int /\ end <= Order!Total /\ a # end - 1 /\ a < end /\ a \in Int
      <4>1. a # end - 1
        BY <1>2, <1>4, <3>1
      <4>2. a < end /\ end <= Order!Total
        BY <1>4, <3>2
      <4>3. end \in Int /\ a \in Int
        BY <1>2, <1>4
      <4>4. QED
        BY <4>1, <4>2, <4>3
    <3>9. p < end
      <4> HIDE DEF end
      <4> QED BY <3>8
    <3>3. /\ a < p /\ p <= Order!Total - 1 /\ p \in Nat
          /\ Runs[q].start <= p /\ p < Runs[q].start + Runs[q].len
      <4>1. a < p /\ p \in Nat /\ Runs[q].start <= p
        BY <1>2, <1>4, <3>2
      <4>2. p <= Order!Total - 1
        <5> HIDE DEF end
        <5> QED BY <1>1, <3>8, <3>9
      <4>3. QED
        BY <3>9, <4>1, <4>2
    <3>4. p \in Order!Positions /\ Order!Covers(q, p)
      BY <1>1, <3>3 DEF Order!Covers
    <3> HIDE DEF p
    <3>5. Order!EpisodeOf(p) = q
      BY <1>3, <3>4, EpisodeUnique
    <3>6. Order!Easier(a, p)
      BY <1>8, <3>3, <3>5 DEF Order!Easier
    <3>7. QED
      BY <1>5, <2>2, <3>4, <3>5, <3>6
  <2>5. b = Runs[r].start
    <3>1. SUFFICES ASSUME b # Runs[r].start PROVE FALSE
      OBVIOUS
    <3> DEFINE p == b - 1
    <3>2. Runs[r].start <= b /\ b < Runs[r].start + Runs[r].len
      BY <1>3 DEF Order!Covers
    <3>3. /\ p < b /\ p <= Order!Total - 1 /\ p \in Nat
          /\ Runs[r].start <= p /\ p < Runs[r].start + Runs[r].len
      BY <1>1, <1>2, <1>4, <3>1, <3>2
    <3>4. p \in Order!Positions /\ Order!Covers(r, p)
      BY <1>1, <3>3 DEF Order!Covers
    <3> HIDE DEF p
    <3>5. Order!EpisodeOf(p) = r
      BY <1>3, <3>4, EpisodeUnique
    <3>6. Order!Easier(p, b)
      BY <1>8, <3>3, <3>5 DEF Order!Easier
    <3>7. QED
      BY <1>5, <2>3, <3>4, <3>5, <3>6
  <2>6. QED
    BY <1>3, <1>8, <1>9, <2>4, <2>5 DEF a, b
<1>12. QED
  BY <1>10, <1>11

(***************************************************************************)
(* Weighted draws: the numbers a position gets are those between two sums,  *)
(* its weight of them.                                                      *)
(***************************************************************************)
LEMMA PrefixSums ==
    ASSUME NEW last \in Nat, NEW w \in [0 .. last -> Nat]
    PROVE  \E f \in [0 .. last -> Nat] :
              \A p \in 0 .. last : f[p] = w[p] + (IF p = 0 THEN 0 ELSE f[p - 1])
<1> DEFINE Adds(f, n) == \A p \in 0 .. n : f[p] = w[p] + (IF p = 0 THEN 0 ELSE f[p - 1])
           S == {n \in 0 .. last : ~\E f \in [0 .. n -> Nat] : Adds(f, n)}
<1>1. S = {}
  <2>1. SUFFICES ASSUME S # {} PROVE FALSE
    OBVIOUS
  <2>2. PICK n \in S : \A m \in S : n <= m
    <3>1. S \in SUBSET Nat
      OBVIOUS
    <3> HIDE DEF S
    <3> QED BY <2>1, <3>1, LeastElement
  <2>3. n \in 0 .. last /\ ~\E f \in [0 .. n -> Nat] : Adds(f, n)
    BY <2>2
  <2>4. CASE n = 0
    <3>1. [p \in 0 .. 0 |-> w[p]] \in [0 .. 0 -> Nat]
      OBVIOUS
    <3>2. Adds([p \in 0 .. 0 |-> w[p]], 0)
      OBVIOUS
    <3>3. QED
      BY <2>3, <2>4, <3>1, <3>2
  <2>5. CASE n # 0
    <3>1. n - 1 \in 0 .. last /\ ~(n <= n - 1)
      BY <2>3, <2>5
    <3>2. PICK f \in [0 .. n - 1 -> Nat] : Adds(f, n - 1)
      BY <2>2, <3>1
    <3> DEFINE g == [p \in 0 .. n |-> IF p = n THEN w[n] + f[n - 1] ELSE f[p]]
    <3>3. g \in [0 .. n -> Nat]
      BY <2>3, <2>5, <3>2
    <3>4. ASSUME NEW p \in 0 .. n
          PROVE  g[p] = w[p] + (IF p = 0 THEN 0 ELSE g[p - 1])
      <4>1. CASE p = n
        BY <2>3, <2>5, <4>1
      <4>2. CASE p # n
        <5>1. p \in 0 .. n - 1 /\ (p # 0 => p - 1 \in 0 .. n /\ p - 1 # n)
          BY <2>3, <4>2
        <5>2. f[p] = w[p] + (IF p = 0 THEN 0 ELSE f[p - 1])
          BY <3>2, <5>1
        <5>3. QED
          BY <4>2, <5>1, <5>2
      <4>3. QED
        BY <4>1, <4>2
    <3>5. QED
      <4> HIDE DEF g
      <4>1. Adds(g, n)
        BY <3>4
      <4> QED BY <2>3, <3>3, <4>1
  <2>6. QED
    BY <2>4, <2>5
<1>2. last \in 0 .. last
  OBVIOUS
<1>3. \E f \in [0 .. last -> Nat] : Adds(f, last)
  BY <1>1, <1>2
<1>4. QED
  BY <1>3

LEMMA WeightsDivide ==
    ASSUME Order!OrderAssumption, NEW p \in Order!Positions
    PROVE  Order!Weight(p) \in Nat /\ Order!Weight(p) * Order!LenOf(p) = WeightUnit
<1> DEFINE n == Order!LenOf(p)
<1>1. n \in Nat \ {0} /\ WeightUnit \in Nat /\ WeightUnit % n = 0
  <2>1. /\ Order!EpisodeOf(p) \in DOMAIN Runs /\ n = Runs[Order!EpisodeOf(p)].len
        /\ n \in Nat \ {0}
    BY EpisodeCovers, RunsInRow
  <2>2. \A r \in DOMAIN Runs : Runs[r].len > 0 => WeightUnit % Runs[r].len = 0
    BY DEF Order!OrderAssumption
  <2>3. WeightUnit \in Nat
    BY DEF Order!OrderAssumption
  <2>4. QED
    BY <2>1, <2>2, <2>3
<1>2. Order!Weight(p) = WeightUnit \div n
  BY DEF Order!Weight
<1> HIDE DEF n
<1>3. /\ WeightUnit \div n \in Nat
      /\ WeightUnit = n * (WeightUnit \div n) + (WeightUnit % n)
  BY <1>1
<1>4. (WeightUnit \div n) * n = WeightUnit
  BY <1>1, <1>3
<1>5. QED
  BY <1>2, <1>3, <1>4 DEF n

LEMMA CumulativeSums ==
    ASSUME Order!OrderAssumption, Order!Total > 0
    PROVE  /\ Order!Total - 1 \in Nat
           /\ \A p \in Order!Positions :
                 /\ Order!cumulative[p] \in Nat
                 /\ Order!cumulative[p] =
                        Order!Weight(p) + (IF p = 0 THEN 0 ELSE Order!cumulative[p - 1])
<1> DEFINE last == Order!Total - 1
           w == [p \in 0 .. last |-> Order!Weight(p)]
<1>1. last \in Nat /\ Order!Positions = 0 .. last /\ w \in [0 .. last -> Nat]
  BY RunsInRow, WeightsDivide DEF Order!Positions
<1>2. PICK f \in [0 .. last -> Nat] :
         \A p \in 0 .. last : f[p] = w[p] + (IF p = 0 THEN 0 ELSE f[p - 1])
  <2> HIDE DEF w, last
  <2> QED BY <1>1, PrefixSums
<1> DEFINE Step(g) == [p \in Order!Positions |->
                          Order!Weight(p) + (IF p = 0 THEN 0 ELSE g[p - 1])]
<1>3. f = Step(f)
  BY <1>1, <1>2
<1>4. Order!cumulative = CHOOSE g : g = Step(g)
  BY DEF Order!cumulative
<1> DEFINE c == Order!cumulative
<1>5. c = Step(c)
  <2> HIDE DEF Step, c
  <2>1. c = CHOOSE g : g = Step(g)
    BY <1>4 DEF c
  <2> QED BY <1>3, <2>1, Zenon
<1>6. \A p \in 0 .. last : c[p] = w[p] + (IF p = 0 THEN 0 ELSE c[p - 1])
  <2>1. ASSUME NEW p \in 0 .. last PROVE c[p] = w[p] + (IF p = 0 THEN 0 ELSE c[p - 1])
    <3>1. Step(c)[p] = Order!Weight(p) + (IF p = 0 THEN 0 ELSE c[p - 1])
      BY <1>1, <2>1
    <3> HIDE DEF Step, c
    <3>2. c[p] = Step(c)[p]
      BY <1>5, Zenon
    <3>3. QED
      BY <3>1, <3>2
  <2>2. QED
    BY <2>1
<1> HIDE DEF c, last
<1>7. \A p \in 0 .. last : c[p] \in Nat
  <2> DEFINE S == {p \in 0 .. last : c[p] \notin Nat}
  <2>1. SUFFICES ASSUME S # {} PROVE FALSE
    OBVIOUS
  <2>2. PICK p \in S : \A q \in S : p <= q
    <3>1. S \in SUBSET Nat
      BY <1>1
    <3> HIDE DEF S
    <3> QED BY <2>1, <3>1, LeastElement
  <2>3. p \in 0 .. last /\ c[p] \notin Nat /\ w[p] \in Nat /\ p \in Nat
    BY <1>1, <2>2
  <2>4. c[p] = w[p] + (IF p = 0 THEN 0 ELSE c[p - 1])
    BY <1>6, <2>3
  <2>5. p # 0 => p - 1 \in 0 .. last /\ ~(p <= p - 1)
    BY <1>1, <2>3
  <2>6. p # 0 => c[p - 1] \in Nat
    BY <2>2, <2>5
  <2> HIDE DEF w
  <2>7. QED
    BY <2>3, <2>4, <2>6
<1>8. QED
  BY <1>1, <1>6, <1>7 DEF c, last

LEMMA CumulativeGrows ==
    ASSUME Order!OrderAssumption, Order!Total > 0,
           NEW p \in Order!Positions, NEW q \in Order!Positions, p <= q
    PROVE  Order!cumulative[p] <= Order!cumulative[q]
<1> DEFINE c == Order!cumulative
           last == Order!Total - 1
<1>1. /\ last \in Nat /\ Order!Positions = 0 .. last
      /\ \A k \in 0 .. last : /\ c[k] \in Nat /\ Order!Weight(k) \in Nat
                              /\ c[k] = Order!Weight(k) + (IF k = 0 THEN 0 ELSE c[k - 1])
  BY CumulativeSums, WeightsDivide DEF Order!Positions
<1> HIDE DEF c, last
<1> DEFINE S == {k \in p .. q : ~(c[p] <= c[k])}
<1>2. SUFFICES ASSUME q \in S PROVE FALSE
  BY <1>1 DEF c
<1>3. PICK k \in S : \A j \in S : k <= j
  <2>1. p \in Nat /\ q \in Nat
    BY <1>1
  <2>2. S \in SUBSET Nat /\ S # {}
    BY <1>2, <2>1
  <2> HIDE DEF S
  <2> QED BY <2>2, LeastElement
<1>4. /\ k \in p .. q /\ ~(c[p] <= c[k]) /\ k \in 0 .. last /\ p \in 0 .. last /\ k # p
      /\ c[p] \in Nat
  BY <1>1, <1>3
<1>5. k - 1 \in p .. q /\ ~(k <= k - 1) /\ k # 0 /\ k - 1 \in 0 .. last
  BY <1>1, <1>4
<1>6. c[p] <= c[k - 1]
  BY <1>3, <1>5
<1>7. c[k] = Order!Weight(k) + c[k - 1] /\ c[k - 1] \in Nat /\ Order!Weight(k) \in Nat
  BY <1>1, <1>4, <1>5
<1>8. QED
  BY <1>4, <1>6, <1>7

(* An instance counts as its environment does. *)
LEMMA OrderCounts == \A S : Order!Cardinality(S) = Cardinality(S)
BY DEF Order!Cardinality, Cardinality

(* The draw r falls to position p. *)
LEMMA PickBetweenSums ==
    ASSUME Order!OrderAssumption, Order!Total > 0,
           NEW r \in 0 .. Order!cumulative[Order!Total - 1] - 1, NEW p \in Order!Positions
    PROVE  Order!Pick(r) = p <=>
              /\ r < Order!cumulative[p]
              /\ p = 0 \/ Order!cumulative[p - 1] <= r
<1> DEFINE c == Order!cumulative
           last == Order!Total - 1
           low == {q \in Order!Positions : c[q] <= r}
<1>1. /\ last \in Nat /\ Order!Positions = 0 .. last
      /\ \A k \in 0 .. last : c[k] \in Nat
      /\ \A j, k \in 0 .. last : j <= k => c[j] <= c[k]
      /\ last \in 0 .. last /\ r \in Nat /\ r < c[last] /\ p \in 0 .. last
  <2>1. last \in Nat /\ Order!Positions = 0 .. last
    BY CumulativeSums DEF Order!Positions
  <2>2. \A k \in 0 .. last : c[k] \in Nat
    BY <2>1, CumulativeSums
  <2>3. \A j, k \in 0 .. last : j <= k => c[j] <= c[k]
    BY <2>1, CumulativeGrows
  <2>4. last \in 0 .. last
    BY <2>1
  <2>5. c[last] \in Nat
    BY <2>2, <2>4
  <2>6. r \in Nat /\ r < c[last]
    BY <2>5
  <2>7. QED
    BY <2>1, <2>2, <2>3, <2>4, <2>6
<1>2. Order!Pick(r) = IF Cardinality(low) <= last THEN Cardinality(low) ELSE last
  BY OrderCounts DEF Order!Pick
<1> HIDE DEF c, last
<1>3. PICK m \in 0 .. last : r < c[m] /\ \A k \in 0 .. last : r < c[k] => m <= k
  <2> DEFINE S == {k \in 0 .. last : r < c[k]}
  <2>1. S \in SUBSET Nat /\ S # {}
    BY <1>1
  <2>2. \E k \in S : \A j \in S : k <= j
    <3> HIDE DEF S
    <3> QED BY <2>1, LeastElement
  <2>3. QED
    BY <2>2
<1>4. low = 0 .. m - 1
  <2>1. ASSUME NEW k \in 0 .. last PROVE c[k] <= r <=> k < m
    <3>1. c[k] \in Nat /\ m \in 0 .. last /\ c[m] \in Nat /\ k \in Int /\ m \in Int
      BY <1>1
    <3>2. CASE k < m
      BY <1>1, <1>3, <3>1, <3>2
    <3>3. CASE m <= k
      <4>1. c[m] <= c[k]
        BY <1>1, <3>1, <3>3
      <4>2. QED
        BY <1>1, <1>3, <3>1, <3>3, <4>1
    <3>4. QED
      BY <3>1, <3>2, <3>3
  <2>2. m - 1 < last /\ m \in Int
    BY <1>1
  <2>3. \A k : k \in low <=> k \in 0 .. m - 1
    BY <1>1, <2>1, <2>2
  <2>4. QED
    BY <2>3
<1>5. Cardinality(low) = m
  <2>1. m \in Nat /\ m - 1 \in Int
    BY <1>1
  <2>2. Cardinality(0 .. m - 1) = IF 0 > m - 1 THEN 0 ELSE m - 1 - 0 + 1
    BY <2>1, FS_Interval
  <2>3. CASE m = 0
    BY <1>4, <2>2, <2>3
  <2>4. CASE m # 0
    <3>1. ~(0 > m - 1) /\ m - 1 - 0 + 1 = m
      BY <2>1, <2>4
    <3>2. QED
      BY <1>4, <2>2, <3>1
  <2>5. QED
    BY <2>3, <2>4
<1>6. Order!Pick(r) = m
  BY <1>1, <1>2, <1>5
<1>7. ASSUME m = p PROVE r < c[p] /\ (p = 0 \/ c[p - 1] <= r)
  <2>1. p # 0 => p - 1 \in 0 .. last /\ ~(p <= p - 1)
    BY <1>1
  <2>2. p # 0 => ~(r < c[p - 1]) /\ c[p - 1] \in Nat
    BY <1>1, <1>3, <1>7, <2>1
  <2>3. QED
    BY <1>1, <1>3, <1>7, <2>2
<1>8. ASSUME r < c[p], p = 0 \/ c[p - 1] <= r PROVE m = p
  <2>1. m <= p /\ m \in Nat /\ p \in Nat
    BY <1>1, <1>3, <1>8
  <2>2. ASSUME m < p PROVE FALSE
    <3>1. p # 0 /\ p - 1 \in 0 .. last /\ m <= p - 1
      BY <1>1, <2>1, <2>2
    <3>2. c[m] <= c[p - 1] /\ c[m] \in Nat /\ c[p - 1] \in Nat
      BY <1>1, <3>1
    <3>3. QED
      BY <1>1, <1>3, <1>8, <3>1, <3>2
  <2>3. QED
    BY <2>1, <2>2
<1>9. QED
  BY <1>6, <1>7, <1>8 DEF c

LEMMA DrawsPerPosition ==
    ASSUME Order!OrderAssumption, Order!Total > 0, NEW p \in Order!Positions
    PROVE  Cardinality({r \in 0 .. Order!cumulative[Order!Total - 1] - 1 : Order!Pick(r) = p})
               = Order!Weight(p)
<1> DEFINE c == Order!cumulative
           last == Order!Total - 1
           from == IF p = 0 THEN 0 ELSE c[p - 1]
<1>1. /\ last \in Nat /\ Order!Positions = 0 .. last /\ p \in 0 .. last
      /\ \A k \in 0 .. last : c[k] \in Nat
      /\ Order!Weight(p) \in Nat /\ c[p] = Order!Weight(p) + from
      /\ c[p] <= c[last]
  <2>1. last \in Nat /\ Order!Positions = 0 .. last /\ p \in 0 .. last
    BY CumulativeSums DEF Order!Positions
  <2>2. last \in Order!Positions /\ p <= last
    BY <2>1
  <2>3. QED
    BY <2>1, <2>2, CumulativeSums, CumulativeGrows, WeightsDivide
<1>2. from \in Nat /\ c[last] \in Nat /\ c[p] \in Nat
  <2>1. p # 0 => p - 1 \in 0 .. last
    BY <1>1
  <2>2. last \in 0 .. last
    BY <1>1
  <2>3. QED
    BY <1>1, <2>1, <2>2
<1>3. \A r \in 0 .. c[last] - 1 : Order!Pick(r) = p <=> r < c[p] /\ from <= r
  <2>1. ASSUME NEW r \in 0 .. c[last] - 1
        PROVE  Order!Pick(r) = p <=> r < c[p] /\ (p = 0 \/ c[p - 1] <= r)
    BY PickBetweenSums
  <2>2. \A r \in 0 .. c[last] - 1 : 0 <= r
    BY <1>2
  <2>3. QED
    BY <2>1, <2>2
<1> DEFINE D == {r \in 0 .. c[last] - 1 : Order!Pick(r) = p}
<1> SUFFICES Cardinality(D) = Order!Weight(p)
  OBVIOUS
<1> HIDE DEF c, last, from
<1>4. D = from .. c[p] - 1
  <2>1. \A r : r \in D <=> r \in from .. c[p] - 1
    BY <1>1, <1>2, <1>3
  <2> HIDE DEF D
  <2>2. QED
    BY <2>1
<1>5. Cardinality(from .. c[p] - 1) =
          IF from > c[p] - 1 THEN 0 ELSE (c[p] - 1) - from + 1
  <2>1. from \in Int /\ c[p] - 1 \in Int
    BY <1>2
  <2> QED BY <2>1, FS_Interval
<1>6. CASE from > c[p] - 1
  <2>1. Order!Weight(p) = 0
    BY <1>1, <1>2, <1>6
  <2>2. QED
    BY <1>4, <1>5, <1>6, <2>1
<1>7. CASE ~(from > c[p] - 1)
  <2>1. (c[p] - 1) - from + 1 = Order!Weight(p)
    BY <1>1, <1>2
  <2>2. QED
    BY <1>4, <1>5, <1>7, <2>1
<1>8. QED
  BY <1>6, <1>7

WeightedInv ==
    /\ stage = "draw" /\ out \in Seq(Nat) /\ Elements(out) \subseteq Order!Positions

LEMMA WeightedDraws ==
    ASSUME Order!OrderAssumption, WeightedInv, Order!Draw
    PROVE  WeightedInv'
<1>1. Order!Total \in Nat /\ Len(out) \in Nat /\ Len(out) < Order!Total /\ stage' = stage
  BY RunsInRow DEF Order!Draw, WeightedInv
<1> DEFINE last == Order!Total - 1
<1>2. PICK r \in 0 .. Order!cumulative[last] : out' = Append(out, Order!Pick(r))
  BY DEF Order!Draw
<1>3. last \in Nat /\ Order!Positions = 0 .. last
  BY <1>1 DEF Order!Positions
<1> DEFINE low == {p \in Order!Positions : Order!cumulative[p] <= r}
<1>4. Order!Pick(r) = IF Cardinality(low) <= last THEN Cardinality(low) ELSE last
  BY OrderCounts DEF Order!Pick
<1>5. Cardinality(low) \in Nat
  <2>1. IsFiniteSet(0 .. last) /\ low \subseteq 0 .. last
    BY <1>3, FS_Interval
  <2>2. IsFiniteSet(low)
    BY <2>1, FS_Subset
  <2>3. QED
    BY <2>2, FS_CardinalityType
<1> HIDE DEF low, last
<1>6. Order!Pick(r) \in 0 .. last
  BY <1>3, <1>4, <1>5
<1>7. /\ out' \in Seq(Nat) /\ Elements(out') = Elements(out) \cup {Order!Pick(r)}
  BY <1>2, <1>3, <1>6, AppendElements DEF WeightedInv
<1>8. Order!Positions' = Order!Positions
  BY DEF Order!Positions, Order!Total
<1>9. QED
  BY <1>1, <1>3, <1>6, <1>7 DEF WeightedInv


(* The run states it of each of them. *)
LEMMA CurriculumEasyToHard ==
    ASSUME Order!OrderAssumption, CurriculumInv
    PROVE  Order!EasyToHard
<1>1. ASSUME stage = "sorted", NEW j \in 1 .. Len(out) - 1
      PROVE  /\ Order!LenOf(out[j]) <= Order!LenOf(out[j + 1])
             /\ \/ /\ out[j + 1] = out[j] + 1
                   /\ Order!EpisodeOf(out[j]) = Order!EpisodeOf(out[j + 1])
                \/ /\ out[j] = Runs[Order!EpisodeOf(out[j])].start + Order!LenOf(out[j]) - 1
                   /\ out[j + 1] = Runs[Order!EpisodeOf(out[j + 1])].start
  <2>1. Sorted(out) /\ Order!Positions \subseteq Elements(out)
    BY <1>1 DEF CurriculumInv
  <2>2. QED
    BY <2>1, SortedHonours
<1>2. QED
  BY <1>1 DEF Order!EasyToHard

LEMMA WeightedEqually ==
    ASSUME Order!OrderAssumption, WeightedInv
    PROVE  Order!BalancedEqually
<1>1. ASSUME NEW j \in DOMAIN out
      PROVE  Order!Cardinality({r \in 0 .. Order!cumulative[Order!Total - 1] - 1 :
                                   Order!Pick(r) = out[j]}) * Order!LenOf(out[j]) = WeightUnit
  <2>1. out[j] \in Order!Positions
    BY DEF WeightedInv, Elements
  <2>2. Order!Total > 0
    BY <2>1, RunsInRow DEF Order!Positions
  <2>3. Cardinality({r \in 0 .. Order!cumulative[Order!Total - 1] - 1 : Order!Pick(r) = out[j]})
            = Order!Weight(out[j])
    BY <2>1, <2>2, DrawsPerPosition
  <2>4. Order!Weight(out[j]) * Order!LenOf(out[j]) = WeightUnit
    BY <2>1, WeightsDivide
  <2>5. QED
    BY <2>3, <2>4, OrderCounts
<1>2. QED
  BY <1>1 DEF Order!BalancedEqually

(***************************************************************************)
(* Every strategy keeps its own invariant.                                  *)
(***************************************************************************)
OrderInv ==
    /\ strategy \in [balanced : BOOLEAN, chunked : BOOLEAN, curriculum : BOOLEAN]
    /\ shuffle \in BOOLEAN
    /\ Order!Strategy = "weighted" => WeightedInv
    /\ Order!Strategy = "chunked" => ChunksInv
    /\ Order!Strategy = "curriculum" => CurriculumInv
    /\ Order!Strategy = "sampler" => SamplerInv

LEMMA OrderInvInit ==
    ASSUME Order!OrderAssumption, Order!Init
    PROVE  OrderInv
<1>1. /\ strategy \in [balanced : BOOLEAN, chunked : BOOLEAN, curriculum : BOOLEAN]
      /\ shuffle \in BOOLEAN /\ out = <<>> /\ stage = Order!FirstPhase[Order!Strategy]
      /\ buf = <<>> /\ next = 0
  BY DEF Order!Init
<1>2. Elements(<<>>) = {} /\ <<>> \in Seq(Nat) /\ Distinct(<<>>) /\ DOMAIN <<>> = {}
  BY DEF Elements, Distinct
<1>3. ASSUME Order!Strategy = "weighted" PROVE WeightedInv
  BY <1>1, <1>2, <1>3 DEF WeightedInv, Order!FirstPhase
<1>4. ASSUME Order!Strategy = "chunked" PROVE ChunksInv
  BY <1>4, ChunksInvInit
<1>5. ASSUME Order!Strategy = "curriculum" PROVE CurriculumInv
  BY <1>1, <1>2, <1>5 DEF CurriculumInv, Sorted, Order!FirstPhase
<1>6. ASSUME Order!Strategy = "sampler" PROVE SamplerInv
  <2>1. Order!Sampler!Init
    BY <1>1, <1>6 DEF Order!Sampler!Init, Order!FirstPhase
  <2>2. QED
    BY <2>1, SamplerInvInit DEF Order!OrderAssumption
<1>7. QED
  BY <1>1, <1>3, <1>4, <1>5, <1>6 DEF OrderInv

(* A step of the order is one of its strategy. *)
LEMMA StepOfStrategy ==
    ASSUME Order!OrderAssumption, OrderInv, Order!Next
    PROVE  \/ Order!Strategy = "weighted" /\ Order!Draw
           \/ Order!Strategy = "curriculum" /\ Order!Sort
           \/ Order!Strategy = "chunked" /\ Order!Chunked!Next /\ UNCHANGED <<strategy, buf, next>>
           \/ /\ Order!Strategy = "sampler" /\ Order!Sampler!Next
              /\ UNCHANGED <<strategy, run, off, chunks, i>>
           \/ UNCHANGED orderVars
<1>1. Order!Strategy \in {"weighted", "chunked", "curriculum", "sampler"}
  BY DEF Order!Strategy
<1>2. stage = "draw" => Order!Strategy = "weighted"
  BY <1>1 DEF OrderInv, WeightedInv, CurriculumInv, ChunksInv, ChunkTypes,
              SamplerInv, SamplerTypes
<1>3. stage = "sort" => Order!Strategy = "curriculum"
  BY <1>1 DEF OrderInv, WeightedInv, CurriculumInv, ChunksInv, ChunkTypes,
              SamplerInv, SamplerTypes
<1>4. QED
  BY <1>2, <1>3 DEF Order!Next, Order!Draw, Order!Sort, Order!Chunk, Order!Sample,
                    Order!orderVars, orderVars

LEMMA OrderInvNext ==
    ASSUME Order!OrderAssumption, OrderInv, Order!Next \/ UNCHANGED orderVars
    PROVE  OrderInv' /\ Order!Strategy' = Order!Strategy
<1>1. CASE Order!Strategy = "weighted" /\ Order!Draw
  <2>1. strategy' = strategy /\ shuffle' = shuffle
    BY <1>1 DEF Order!Draw
  <2>2. Order!Strategy' = Order!Strategy
    BY <2>1 DEF Order!Strategy
  <2>3. WeightedInv'
    BY <1>1, WeightedDraws DEF OrderInv
  <2>4. QED
    BY <1>1, <2>1, <2>2, <2>3 DEF OrderInv
<1>2. CASE Order!Strategy = "curriculum" /\ Order!Sort
  <2>1. strategy' = strategy /\ shuffle' = shuffle
    BY <1>2 DEF Order!Sort
  <2>2. Order!Strategy' = Order!Strategy
    BY <2>1 DEF Order!Strategy
  <2>3. CurriculumInv'
    BY <1>2, CurriculumSorts DEF OrderInv
  <2>4. QED
    BY <1>2, <2>1, <2>2, <2>3 DEF OrderInv
<1>3. CASE Order!Strategy = "chunked" /\ Order!Chunked!Next /\ UNCHANGED <<strategy, buf, next>>
  <2>1. strategy' = strategy
    BY <1>3
  <2>2. Order!Strategy' = Order!Strategy
    BY <2>1 DEF Order!Strategy
  <2>3. ChunksInv' /\ shuffle' \in BOOLEAN
    BY <1>3, ChunksInvNext DEF OrderInv, ChunksInv, ChunkTypes
  <2>4. QED
    BY <1>3, <2>1, <2>2, <2>3 DEF OrderInv
<1>4. CASE /\ Order!Strategy = "sampler" /\ Order!Sampler!Next
           /\ UNCHANGED <<strategy, run, off, chunks, i>>
  <2>1. strategy' = strategy
    BY <1>4
  <2>2. Order!Strategy' = Order!Strategy
    BY <2>1 DEF Order!Strategy
  <2>3. SamplerInv' /\ shuffle' \in BOOLEAN
    BY <1>4, SamplerInvNext DEF OrderInv, SamplerInv, SamplerTypes, Order!OrderAssumption
  <2>4. QED
    BY <1>4, <2>1, <2>2, <2>3 DEF OrderInv
<1>5. CASE UNCHANGED orderVars
  <2>1. strategy' = strategy /\ shuffle' = shuffle /\ out' = out /\ stage' = stage
    BY <1>5 DEF orderVars
  <2>2. Order!Strategy' = Order!Strategy
    BY <2>1 DEF Order!Strategy
  <2>3. Order!Strategy = "weighted" => WeightedInv'
    BY <2>1 DEF OrderInv, WeightedInv, Elements, Order!Positions, Order!Total
  <2>4. Order!Strategy = "curriculum" => CurriculumInv'
    BY <2>1 DEF OrderInv, CurriculumInv, Sorted, Distinct, Elements,
                Order!Positions, Order!Total
  <2>5. Order!Strategy = "chunked" => ChunksInv'
    BY <1>5, ChunksInvNext DEF OrderInv
  <2>6. Order!Strategy = "sampler" => SamplerInv'
    BY <1>5, SamplerInvNext DEF OrderInv, Order!OrderAssumption
  <2>7. QED
    BY <2>1, <2>2, <2>3, <2>4, <2>5, <2>6 DEF OrderInv
<1>6. QED
  BY <1>1, <1>2, <1>3, <1>4, <1>5, StepOfStrategy


LEMMA OrderInvGivesOnce ==
    ASSUME Order!OrderAssumption, OrderInv
    PROVE  EveryFrameOnce
<1>1. ASSUME NEW n \in Nat, out \in Seq(Nat), Len(out) = n, \A k \in DOMAIN out : out[k] = k - 1
      PROVE  out = [k \in 1 .. n |-> k - 1]
  <2>1. DOMAIN out = 1 .. n /\ out = [k \in 1 .. n |-> out[k]]
    BY <1>1
  <2>2. QED
    BY <1>1, <2>1
<1>2. Order!Range(out) = Elements(out) /\ Order!Positions = 0 .. Order!Total - 1 /\ Order!Total \in Nat
  BY RunsInRow DEF Order!Range, Elements, Order!Positions
<1>3. Order!Strategy \in {"weighted", "chunked", "curriculum", "sampler"}
  BY DEF Order!Strategy
<1> DEFINE Complete ==
              /\ Len(out) = Order!Total
              /\ Order!Range(out) = Order!Positions
              /\ ~shuffle /\ Order!Strategy # "curriculum" =>
                     out = [k \in 1 .. Order!Total |-> k - 1]
<1>4. ASSUME Order!Strategy = "chunked" PROVE Order!Chunked!ChunksPartition
  BY <1>4, ChunksInvGives DEF OrderInv
<1>5. ASSUME Order!Strategy = "chunked", Order!Chunked!Returned PROVE Complete
  <2>1. /\ out \in Seq(Nat) /\ Distinct(out) /\ Elements(out) = 0 .. Order!Total - 1
        /\ ~shuffle => \A k \in DOMAIN out : out[k] = k - 1
    BY <1>5, ChunksInvGives DEF OrderInv
  <2>2. Len(out) = Order!Total
    BY <1>2, <2>1, DistinctLength
  <2>3. QED
    BY <1>1, <1>2, <2>1, <2>2
<1>6. ASSUME Order!Strategy = "sampler", Order!Sampler!Returned PROVE Complete
  <2>1. Order!Sampler!ShuffleAssumption
    BY DEF Order!OrderAssumption
  <2>2. out \in Seq(Nat)
    BY <1>6 DEF OrderInv, SamplerInv, SamplerTypes
  <2>3. /\ Len(out) = Order!Total /\ Elements(out) = 0 .. Order!Total - 1
        /\ ~shuffle => \A k \in DOMAIN out : out[k] = k - 1
    BY <1>6, <2>1, SamplerInvGives DEF OrderInv
  <2>4. QED
    BY <1>1, <1>2, <2>2, <2>3
<1>7. ASSUME Order!Strategy = "curriculum", stage = "sorted" PROVE Complete
  <2>1. Sorted(out) /\ Order!Positions \subseteq Elements(out)
    BY <1>7 DEF OrderInv, CurriculumInv
  <2>2. Len(out) = Order!Total
    BY <2>1, SortedOnce
  <2>3. QED
    BY <1>2, <1>7, <2>1, <2>2 DEF Sorted
<1>8. /\ stage = "draw" => Order!Strategy = "weighted"
      /\ stage = "sorted" => Order!Strategy = "curriculum"
  BY <1>3 DEF OrderInv, WeightedInv, CurriculumInv, ChunksInv, ChunkTypes,
              SamplerInv, SamplerTypes
<1>9. Order!Returned /\ Order!Strategy # "weighted" => Complete
  <2> HIDE DEF Complete
  <2> QED BY <1>5, <1>6, <1>7, <1>8 DEF Order!Returned
<1>10. QED
  BY <1>4, <1>9 DEF EveryFrameOnce, Order!EveryFrameOnce

LEMMA OrderInvGivesHonour ==
    ASSUME Order!OrderAssumption, OrderInv
    PROVE  HonoursStrategy
<1>1. Order!Strategy \in {"weighted", "chunked", "curriculum", "sampler"}
  BY DEF Order!Strategy
<1>2. stage = "sorted" => Order!Strategy = "curriculum"
  BY <1>1 DEF OrderInv, WeightedInv, CurriculumInv, ChunksInv, ChunkTypes,
              SamplerInv, SamplerTypes
<1>3. Order!EasyToHard
  <2>1. stage = "sorted" => Order!EasyToHard
    BY <1>2, CurriculumEasyToHard DEF OrderInv
  <2>2. QED
    BY <2>1 DEF Order!EasyToHard
<1>4. Order!BalancedEqually
  <2>1. Order!Strategy = "weighted" => Order!BalancedEqually
    BY WeightedEqually DEF OrderInv
  <2>2. QED
    BY <2>1 DEF Order!BalancedEqually
<1>5. QED
  BY <1>3, <1>4 DEF HonoursStrategy, Order!HonoursStrategy

LEMMA OrderInvSafe == ASSUME Order!OrderAssumption PROVE Spec => []OrderInv
<1>1. Init => OrderInv
  BY OrderInvInit DEF Init
<1>2. OrderInv /\ [Next]_vars => OrderInv'
  BY Steps, OrderInvNext
<1>3. QED
  BY <1>1, <1>2, PTL DEF Spec

(* Whatever strategy the arguments choose, but for weighted draws, an epoch has
   every frame of the selected episodes exactly once, in their order when it is
   neither shuffled nor sorted, and the chunks of a chunked epoch partition what
   is cut, each within one episode (the choices of `loader`, lib.rs, and both
   shuffles of sampler.rs). *)
THEOREM FramesOnce == ASSUME Order!OrderAssumption PROVE Spec => []EveryFrameOnce
<1>1. OrderInv => EveryFrameOnce
  BY OrderInvGivesOnce
<1>2. QED
  BY <1>1, OrderInvSafe, PTL

(* A curriculum goes from short episodes to long ones and keeps the frames of
   each together; and of the numbers below the total of the weights, each
   position of the balanced order gets as many as its weight, so each episode
   gets as many as any other (the sort and the cumulative weights of `loader`,
   lib.rs). *)
THEOREM StrategiesHonoured == ASSUME Order!OrderAssumption PROVE Spec => []HonoursStrategy
<1>1. OrderInv => HonoursStrategy
  BY OrderInvGivesHonour
<1>2. QED
  BY <1>1, OrderInvSafe, PTL

LEMMA EpochStep ==
    ASSUME Order!OrderAssumption, OrderInv, [Next]_vars
    PROVE  Order!Epoch!Emit
           \/ (IF Order!Strategy = "sampler" THEN out ELSE <<>>)'
                = (IF Order!Strategy = "sampler" THEN out ELSE <<>>)
<1>1. Order!Next \/ UNCHANGED orderVars
  BY Steps
<1>2. Order!Strategy' = Order!Strategy
  BY <1>1, OrderInvNext
<1>3. CASE Order!Strategy # "sampler"
  BY <1>2, <1>3
<1>4. CASE Order!Strategy = "sampler"
  <2>1. Order!Sampler!Next \/ UNCHANGED orderVars
    BY <1>1, <1>4, StepOfStrategy
  <2>2. \/ UNCHANGED out
        \/ \E p \in 0 .. Order!Total - 1 :
              /\ p \notin Elements(out) /\ p <= Len(out) + Order!Sampler!Ahead
              /\ out' = Append(out, p)
    BY <1>4, <2>1, SamplerImplements DEF OrderInv, Order!OrderAssumption
  <2>3. Order!Epoch!Emitted = Elements(out)
    BY <1>4 DEF Order!Epoch!Emitted, Elements
  <2>4. QED
    BY <1>2, <1>4, <2>2, <2>3 DEF Order!Epoch!Emit
<1>5. QED
  BY <1>3, <1>4

(* The shuffled order is built as EpochPermutation promises: every frame of the
   population once, and none further ahead of its turn than the buffer reaches
   (ShuffleSampler::new, sampler.rs). *)
THEOREM ShuffleImplementsEpoch == ASSUME Order!OrderAssumption PROVE Spec => ImplementsEpoch
<1>1. Init => Order!Epoch!Init
  <2>1. Init => out = <<>>
    BY DEF Init, Order!Init
  <2>2. QED
    BY <2>1 DEF Order!Epoch!Init
<1>2. OrderInv /\ [Next]_vars =>
          [Order!Epoch!Emit]_(IF Order!Strategy = "sampler" THEN out ELSE <<>>)
  BY EpochStep
<1>3. QED
  BY <1>1, <1>2, OrderInvSafe, PTL DEF Spec, ImplementsEpoch, Order!ImplementsEpoch,
     Order!Epoch!Spec

-----------------------------------------------------------------------------
(***************************************************************************)
(* The shares of the ranks: slices of one order of all episodes.            *)
(***************************************************************************)
LEMMA SharesCount == \A S : Shares!Cardinality(S) = Cardinality(S)
BY DEF Shares!Cardinality, Cardinality

(* Rounding up. *)
LEMMA CeilDivIs ==
    ASSUME NEW a \in Int, NEW b \in Nat \ {0}
    PROVE  LET q == Shares!CeilDiv(a, b)
           IN  q \in Int /\ a <= b * q /\ b * q < a + b
<1> DEFINE c == -a
           d == c \div b
<1>1. c \in Int /\ d \in Int /\ b * d <= c /\ c < b * d + b
  <2>1. c \in Int
    OBVIOUS
  <2> HIDE DEF c
  <2>2. QED
    BY <2>1
<1>2. Shares!CeilDiv(a, b) = -d
  BY DEF Shares!CeilDiv
<1> HIDE DEF d
<1>3. b * (-d) = -(b * d) /\ b * d \in Int
  BY <1>1
<1>4. c = -a
  OBVIOUS
<1> HIDE DEF c
<1> DEFINE p == b * d
<1>5. p \in Int /\ p <= c /\ c < p + b
  BY <1>1, <1>3
<1>6. b * (-d) = -p
  BY <1>3
<1> HIDE DEF p
<1>7. a <= -p /\ -p < a + b
  BY <1>4, <1>5
<1>8. QED
  BY <1>1, <1>2, <1>6, <1>7

(* A product grows with its factor, and is positive with it only. *)
LEMMA ProductOrder ==
    ASSUME NEW n \in Nat, NEW x \in Int, NEW y \in Int, x <= y
    PROVE  n * x <= n * y /\ n * x \in Int /\ n * y \in Int
<1> DEFINE d == y - x
<1>1. d \in Nat /\ y = x + d
  OBVIOUS
<1> HIDE DEF d
<1>2. n * d \in Nat /\ n * y = n * x + n * d
  BY <1>1
<1>3. QED
  BY <1>2

(* A row of slices of length n has each position once. *)
LEMMA SliceOnce ==
    ASSUME NEW n \in Nat \ {0}, NEW r \in Nat, NEW s \in Nat, NEW j \in 1 .. n, NEW k \in 1 .. n,
           n * r + j = n * s + k
    PROVE  r = s /\ j = k
<1>1. n * r < n * s + n /\ n * s < n * r + n
  <2> DEFINE x == n * r
             y == n * s
  <2>1. x \in Int /\ y \in Int /\ x + j = y + k
    OBVIOUS
  <2> HIDE DEF x, y
  <2>2. x < y + n /\ y < x + n
    BY <2>1
  <2>3. QED
    BY <2>2 DEF x, y
<1>2. r <= s /\ s <= r
  BY <1>1, MultipleApart
<1>3. r = s
  BY <1>2
<1>4. QED
  BY <1>3

LEMMA SliceTaken ==
    ASSUME NEW n \in Nat \ {0}, NEW R \in Nat, NEW k \in 1 .. n * R
    PROVE  \E r \in 0 .. R - 1, j \in 1 .. n : k = n * r + j
<1> DEFINE c == k - 1
           r == c \div n
           j == (c % n) + 1
<1>1. c \in Nat /\ n * R \in Int /\ c < n * R
  OBVIOUS
<1> HIDE DEF c
<1>2. r \in Nat /\ c = n * r + (c % n) /\ c % n \in 0 .. n - 1
  BY <1>1
<1> HIDE DEF r
<1>3. j \in 1 .. n /\ k = n * r + j
  <2>1. k = c + 1
    BY DEF c
  <2>2. QED
    BY <1>1, <1>2, <2>1
<1>4. r < R
  <2>1. SUFFICES ASSUME R <= r PROVE FALSE
    BY <1>2
  <2>2. n * R <= n * r
    BY <1>2, <2>1, ProductOrder
  <2>3. n * r <= c
    <3> DEFINE x == n * r
               y == c % n
    <3>1. x \in Int /\ y \in Nat /\ c = x + y
      BY <1>2
    <3> HIDE DEF x, y
    <3>2. x <= c
      BY <3>1
    <3>3. QED
      BY <3>2 DEF x
  <2>4. QED
    BY <1>1, <1>2, <2>2, <2>3
<1>5. r \in 0 .. R - 1
  BY <1>2, <1>4
<1>6. QED
  BY <1>3, <1>5

(* A remainder. *)
LEMMA RemainderOf ==
    ASSUME NEW n \in Nat \ {0}, NEW q \in Nat, NEW c \in 0 .. n - 1
    PROVE  (n * q + c) % n = c
<1> DEFINE p == n * q
<1>1. p \in Nat /\ p % n = 0
  BY MultipleRemainder
<1> HIDE DEF p
<1>2. (p + c) % n = (p + c) - p
  BY <1>1, BatchStart
<1>3. QED
  BY <1>1, <1>2 DEF p

(* Sorting moves each number to a place of its own. *)
LEMMA SortedIs ==
    ASSUME NEW s \in Seq(Nat)
    PROVE  LET n == Len(s)
               t == Shares!Sorted(s)
           IN  /\ t \in Seq(Nat) /\ Len(t) = n
               /\ \E at \in [1 .. n -> 1 .. n] :
                     /\ \A k \in 1 .. n : t[k] = s[at[k]]
                     /\ \A j, k \in 1 .. n : at[j] = at[k] => j = k
                     /\ \A k \in 1 .. n : \E j \in 1 .. n : at[j] = k
<1> DEFINE n == Len(s)
           t == Shares!Sorted(s)
           R == {e \in (1 .. n) \X (1 .. n) : \/ s[e[1]] < s[e[2]]
                                             \/ (s[e[1]] = s[e[2]] /\ e[1] <= e[2])}
           place == [k \in 1 .. n |-> Cardinality({j \in 1 .. n : <<j, k>> \in R})]
           at == [p \in 1 .. n |-> CHOOSE k \in 1 .. n : place[k] = p]
<1>1. n \in Nat /\ DOMAIN s = 1 .. n /\ \A k \in 1 .. n : s[k] \in Nat
  OBVIOUS
<1>2. \A j, k \in 1 .. n : <<j, k>> \in R <=> (s[j] < s[k] \/ (s[j] = s[k] /\ j <= k))
  OBVIOUS
<1>3. Orders(R, n)
  <2> HIDE DEF R, n
  <2>1. \A j, k \in 1 .. n : <<j, k>> \in R \/ <<k, j>> \in R
    <3> SUFFICES ASSUME NEW j \in 1 .. n, NEW k \in 1 .. n PROVE <<j, k>> \in R \/ <<k, j>> \in R
      OBVIOUS
    <3>1. s[j] \in Nat /\ s[k] \in Nat /\ j \in Nat /\ k \in Nat
      BY <1>1
    <3>2. QED
      BY <1>2, <3>1
  <2>2. \A j, k \in 1 .. n : <<j, k>> \in R /\ <<k, j>> \in R => j = k
    BY <1>1, <1>2
  <2>3. \A h, j, k \in 1 .. n : <<h, j>> \in R /\ <<j, k>> \in R => <<h, k>> \in R
    BY <1>1, <1>2
  <2>4. QED
    BY <2>1, <2>2, <2>3 DEF Orders
<1> DEFINE none == {}
<1>4. Foremost(none, R, n) /\ StandsAt(place, R, n)
  BY DEF Foremost, StandsAt
<1>5. t = [p \in 1 .. n |-> s[at[p]]]
  <2> DEFINE Behind(k) == {j \in 1 .. n : s[j] < s[k] \/ (s[j] = s[k] /\ j <= k)}
             chosen(p) == CHOOSE k \in 1 .. n : Shares!Cardinality(Behind(k)) = p
  <2>1. \A k \in 1 .. n : Shares!Cardinality(Behind(k)) = place[k]
    <3> SUFFICES ASSUME NEW k \in 1 .. n PROVE Shares!Cardinality(Behind(k)) = place[k]
      OBVIOUS
    <3>1. {j \in 1 .. n : <<j, k>> \in R} = Behind(k)
      BY <1>2
    <3> HIDE DEF Behind, R
    <3>2. QED
      BY <3>1, SharesCount
  <2>2. t = [p \in 1 .. n |-> s[chosen(p)]]
    BY <1>1 DEF Shares!Sorted
  <2> HIDE DEF place, Behind
  <2>3. \A p \in 1 .. n : at[p] = chosen(p)
    BY <2>1
  <2> HIDE DEF chosen, at, t, n
  <2>4. QED
    BY <2>2, <2>3
<1> HIDE DEF R, n, place, none
<1>6. /\ place \in [1 .. n -> 1 .. n]
      /\ \A p \in 1 .. n : \E k \in 1 .. n : place[k] = p
      /\ \A j, k \in 1 .. n : j # k /\ <<j, k>> \in R => place[j] < place[k]
  <2>1. n \in Nat
    BY <1>1
  <2>2. /\ place \in [1 .. n -> 1 .. n]
        /\ \A p \in 1 .. n : \E k \in 1 .. n : place[k] = p
        /\ \A j, k \in 1 .. n : j # k /\ <<j, k>> \in R => place[j] < place[k]
        /\ \A k \in 1 .. n : k \in none <=> place[k] <= Cardinality(none)
    BY <1>3, <1>4, <2>1, PlacesOfAnOrder
  <2>3. QED
    BY <2>2
<1>7. \A p \in 1 .. n : at[p] \in 1 .. n /\ place[at[p]] = p
  BY <1>6
<1>8. DOMAIN t = 1 .. n /\ \A p \in 1 .. n : t[p] = s[at[p]]
  <2> HIDE DEF t, at
  <2> QED BY <1>5
<1> HIDE DEF at
<1>9. at \in [1 .. n -> 1 .. n]
  <2>1. at = [p \in 1 .. n |-> at[p]]
    BY DEF at
  <2>2. QED
    BY <1>7, <2>1
<1>10. \A j, k \in 1 .. n : at[j] = at[k] => j = k
  BY <1>7
<1>11. ASSUME NEW k \in 1 .. n PROVE \E j \in 1 .. n : at[j] = k
  <2>1. place[k] \in 1 .. n /\ place[at[place[k]]] = place[k] /\ at[place[k]] \in 1 .. n
    BY <1>6, <1>7
  <2>2. at[place[k]] = k
    <3>1. \A j \in 1 .. n : <<j, k>> \in R \/ <<k, j>> \in R
      BY <1>3 DEF Orders
    <3> DEFINE j == at[place[k]]
    <3>2. SUFFICES ASSUME j # k PROVE FALSE
      OBVIOUS
    <3>3. place[j] < place[k] \/ place[k] < place[j]
      BY <1>6, <2>1, <3>1, <3>2
    <3>4. QED
      BY <2>1, <3>3
  <2>3. QED
    BY <2>1, <2>2
<1>12. t \in Seq(Nat) /\ Len(t) = n
  <2>1. \A p \in 1 .. n : t[p] \in Nat
    BY <1>1, <1>7, <1>8
  <2> HIDE DEF t
  <2>2. t = [p \in 1 .. n |-> t[p]]
    BY <1>5, <1>8
  <2>3. t \in [1 .. n -> Nat]
    BY <2>1, <2>2
  <2>4. t \in Seq(Nat)
    BY <1>1, <2>3
  <2>5. QED
    BY <1>1, <1>8, <2>4
<1>13. QED
  BY <1>8, <1>9, <1>10, <1>11, <1>12 DEF n

(* All episodes, each once. *)
AllEpisodes(s, n) ==
    /\ s \in Seq(Nat) /\ Len(s) = n
    /\ \A k \in 1 .. n : s[k] \in 0 .. n - 1
    /\ \A j, k \in 1 .. n : s[j] = s[k] => j = k

(* What rank r gets of the order. *)
ShareOf(r) ==
    IF plan.kind = "split"
    THEN Shares!Sorted(IF r = 0 THEN SubSeq(order, Shares!ValCount + 1, plan.episodes)
                       ELSE SubSeq(order, 1, Shares!ValCount))
    ELSE IF plan.kind = "sampler"
    THEN SubSeq(Shares!Padded, r * Shares!num_samples + 1, (r + 1) * Shares!num_samples)
    ELSE Shares!Stride(r, plan.episodes, plan.ranks)

SharesInv ==
    /\ plan \in Plans
    /\ AllEpisodes(order, plan.episodes)
    /\ left \in Int /\ left <= plan.episodes - 1
    /\ shares # <<>> => Shares!Ready
    /\ \A r \in DOMAIN shares : shares[r] = ShareOf(r)
    /\ plan.kind = "split" => shares = <<>> \/ DOMAIN shares = {0, 1}
    /\ plan.kind # "split" => DOMAIN shares \subseteq 0 .. plan.ranks - 1

LEMMA SharesInit == ASSUME Shares!SharesAssumption, Shares!Init PROVE SharesInv
<1> DEFINE n == plan.episodes
           s == Shares!Identity(n)
<1>1. plan \in Plans /\ order = s /\ left = n - 1 /\ shares = <<>>
  BY DEF Shares!Init
<1>2. n \in Nat
  BY <1>1 DEF Shares!SharesAssumption
<1> HIDE DEF n
<1>3. s = [k \in 1 .. n |-> k - 1]
  BY DEF Shares!Identity
<1>4. \A k \in 1 .. n : k - 1 \in Nat /\ k - 1 \in 0 .. n - 1
  BY <1>2
<1> HIDE DEF s
<1>5. s \in [1 .. n -> Nat]
  BY <1>3, <1>4
<1>6. AllEpisodes(s, n)
  BY <1>2, <1>3, <1>4, <1>5 DEF AllEpisodes
<1>7. DOMAIN shares = {}
  BY <1>1
<1>8. QED
  BY <1>1, <1>2, <1>6, <1>7 DEF SharesInv, n

(* An exchange of two places leaves all episodes there, each once. *)
LEMMA ExchangeKeepsAll ==
    ASSUME NEW n \in Nat, NEW s, AllEpisodes(s, n), NEW a \in 1 .. n, NEW b \in 1 .. n
    PROVE  AllEpisodes([s EXCEPT ![a] = s[b], ![b] = s[a]], n)
<1> DEFINE t == [s EXCEPT ![a] = s[b], ![b] = s[a]]
<1>1. /\ s \in Seq(Nat) /\ Len(s) = n /\ DOMAIN s = 1 .. n
      /\ \A k \in 1 .. n : s[k] \in 0 .. n - 1
      /\ \A j, k \in 1 .. n : s[j] = s[k] => j = k
  BY DEF AllEpisodes
<1>2. /\ t \in Seq(Nat) /\ Len(t) = n
      /\ t[b] = s[a] /\ (a # b => t[a] = s[b])
      /\ \A k \in 1 .. n : k # a /\ k # b => t[k] = s[k]
  BY <1>1
<1> HIDE DEF t
<1>3. \A k \in 1 .. n : t[k] = s[IF k = b THEN a ELSE IF k = a THEN b ELSE k]
  BY <1>2
<1>4. \A k \in 1 .. n : t[k] \in 0 .. n - 1
  BY <1>1, <1>3
<1>5. ASSUME NEW j \in 1 .. n, NEW k \in 1 .. n, t[j] = t[k] PROVE j = k
  <2> DEFINE From(m) == IF m = b THEN a ELSE IF m = a THEN b ELSE m
  <2>1. From(j) \in 1 .. n /\ From(k) \in 1 .. n /\ s[From(j)] = s[From(k)]
    BY <1>3, <1>5
  <2>2. From(j) = From(k) => j = k
    OBVIOUS
  <2> HIDE DEF From
  <2>3. QED
    BY <1>1, <2>1, <2>2
<1>6. QED
  BY <1>2, <1>4, <1>5 DEF AllEpisodes, t

(* The shares are as they are while plan and order are. *)
LEMMA ShareStays ==
    ASSUME UNCHANGED <<plan, order>> PROVE \A r : ShareOf(r)' = ShareOf(r)
<1>1. plan' = plan /\ order' = order
  OBVIOUS
<1>2. Shares!ValCount' = Shares!ValCount
  BY <1>1 DEF Shares!ValCount
<1>3. Shares!num_samples' = Shares!num_samples
  BY <1>1 DEF Shares!num_samples
<1>4. Shares!Padded' = Shares!Padded
  BY <1>1, <1>3 DEF Shares!Padded, Shares!total_size
<1>5. QED
  BY <1>1, <1>2, <1>3, <1>4 DEF ShareOf

(* One more rank has its share. *)
LEMMA GivenKeeps ==
    ASSUME SharesInv, UNCHANGED <<plan, order, left>>, Shares!Ready, plan.kind # "split",
           NEW r \in 0 .. plan.ranks - 1, shares' = Shares!Given(r, ShareOf(r))
    PROVE  SharesInv'
<1>1. shares' = [q \in DOMAIN shares \cup {r} |-> IF q = r THEN ShareOf(r) ELSE shares[q]]
  BY DEF Shares!Given
<1>2. DOMAIN shares \subseteq 0 .. plan.ranks - 1 /\ \A q \in DOMAIN shares : shares[q] = ShareOf(q)
  BY DEF SharesInv
<1>3. DOMAIN shares' = DOMAIN shares \cup {r} /\ \A q \in DOMAIN shares' : shares'[q] = ShareOf(q)
  BY <1>1, <1>2
<1>4. \A q : ShareOf(q)' = ShareOf(q)
  BY ShareStays
<1>5. \A q \in DOMAIN shares' : shares'[q] = ShareOf(q)'
  BY <1>3, <1>4
<1>6. Shares!Ready'
  BY DEF Shares!Ready, Shares!Shuffled
<1>7. (/\ plan \in Plans /\ AllEpisodes(order, plan.episodes)
       /\ left \in Int /\ left <= plan.episodes - 1)'
  BY DEF SharesInv, AllEpisodes
<1>8. DOMAIN shares' \subseteq 0 .. plan'.ranks - 1 /\ plan'.kind # "split"
  BY <1>2, <1>3
<1>9. QED
  BY <1>5, <1>6, <1>7, <1>8 DEF SharesInv

LEMMA SharesNext ==
    ASSUME Shares!SharesAssumption, SharesInv, Shares!Next \/ UNCHANGED sharesVars
    PROVE  SharesInv'
<1>1. /\ plan \in Plans /\ plan.episodes \in Nat /\ plan.ranks \in Nat \ {0}
      /\ plan.kind \in {"split", "sampler", "round_robin"}
      /\ AllEpisodes(order, plan.episodes) /\ left \in Int /\ left <= plan.episodes - 1
  BY DEF SharesInv, Shares!SharesAssumption
<1>2. CASE UNCHANGED sharesVars
  <2>1. UNCHANGED <<plan, order, left, shares>>
    BY <1>2 DEF sharesVars, Shares!sharesVars
  <2>2. \A r : ShareOf(r)' = ShareOf(r)
    BY <2>1, ShareStays
  <2>3. \A r \in DOMAIN shares' : shares'[r] = ShareOf(r)'
    BY <2>1, <2>2 DEF SharesInv
  <2>4. QED
    BY <2>1, <2>3 DEF SharesInv, AllEpisodes, Shares!Ready, Shares!Shuffled
<1>3. CASE Shares!Shuffle
  <2>1. PICK j \in 0 .. left :
          order' = [order EXCEPT ![left + 1] = order[j + 1], ![j + 1] = order[left + 1]]
    BY <1>3 DEF Shares!Shuffle
  <2>2. Shares!Shuffled /\ left >= 1 /\ left' = left - 1 /\ UNCHANGED <<plan, shares>>
    BY <1>3 DEF Shares!Shuffle
  <2>3. left + 1 \in 1 .. plan.episodes /\ j + 1 \in 1 .. plan.episodes
    BY <1>1, <2>1, <2>2
  <2>4. AllEpisodes(order', plan.episodes)
    BY <1>1, <2>1, <2>3, ExchangeKeepsAll
  <2>5. shares = <<>>
    BY <1>1, <2>2 DEF SharesInv, Shares!Ready
  <2>6. DOMAIN shares' = {} /\ shares' = <<>>
    BY <2>2, <2>5
  <2>7. left' \in Int /\ left' <= plan.episodes - 1
    BY <1>1, <2>2
  <2>8. QED
    BY <1>1, <2>2, <2>4, <2>6, <2>7 DEF SharesInv
<1>4. CASE Shares!split_episodes
  <2>1. /\ plan.kind = "split" /\ Shares!Ready /\ UNCHANGED <<plan, order, left>>
        /\ shares' = [r \in {0, 1} |-> ShareOf(r)]
    BY <1>4 DEF Shares!split_episodes, ShareOf
  <2>2. \A r : ShareOf(r)' = ShareOf(r)
    BY <2>1, ShareStays
  <2>3. DOMAIN shares' = {0, 1} /\ \A r \in DOMAIN shares' : shares'[r] = ShareOf(r)'
    BY <2>1, <2>2
  <2>4. Shares!Ready' /\ plan'.kind = "split"
    BY <2>1 DEF Shares!Ready, Shares!Shuffled
  <2>5. (/\ plan \in Plans /\ AllEpisodes(order, plan.episodes)
         /\ left \in Int /\ left <= plan.episodes - 1)'
    BY <1>1, <2>1 DEF AllEpisodes
  <2>6. QED
    BY <2>3, <2>4, <2>5 DEF SharesInv
<1>5. ASSUME NEW r \in 0 .. plan.ranks - 1, Shares!SampleRank(r) PROVE SharesInv'
  <2>1. /\ plan.kind = "sampler" /\ Shares!Ready /\ UNCHANGED <<plan, order, left>>
        /\ shares' = Shares!Given(r, ShareOf(r))
    BY <1>5 DEF Shares!SampleRank, ShareOf
  <2>2. QED
    BY <2>1, GivenKeeps
<1>6. ASSUME NEW r \in 0 .. plan.ranks - 1, Shares!shard_episodes(r) PROVE SharesInv'
  <2>1. /\ plan.kind = "round_robin" /\ UNCHANGED <<plan, order, left>>
        /\ shares' = Shares!Given(r, ShareOf(r))
    BY <1>6 DEF Shares!shard_episodes, ShareOf
  <2>2. Shares!Ready
    BY <2>1 DEF Shares!Ready, Shares!Shuffled
  <2>3. QED
    BY <2>1, <2>2, GivenKeeps
<1>7. QED
  BY <1>2, <1>3, <1>4, <1>5, <1>6 DEF Shares!Next

(* Where e is in the shares. *)
Spots(e) == {at \in (DOMAIN shares) \X (1 .. 2 * plan.episodes) :
                at[2] <= Len(shares[at[1]]) /\ shares[at[1]][at[2]] = e}

LEMMA SpotsCounted ==
    ASSUME Shares!SharesAssumption, SharesInv, NEW e
    PROVE  /\ IsFiniteSet(Spots(e)) /\ Shares!Times(e) = Cardinality(Spots(e))
           /\ Shares!Times(e) \in Nat /\ (Shares!Times(e) = 0 <=> Spots(e) = {})
<1>1. plan \in Plans /\ plan.episodes \in Nat /\ plan.ranks \in Nat \ {0}
  BY DEF SharesInv, Shares!SharesAssumption
<1>2. IsFiniteSet(DOMAIN shares)
  <2>1. CASE plan.kind = "split"
    <3>1. DOMAIN shares = {} \/ DOMAIN shares = {0, 1}
      BY <2>1 DEF SharesInv
    <3>2. IsFiniteSet({0, 1})
      <4>1. IsFiniteSet({0})
        BY FS_Singleton
      <4>2. IsFiniteSet({0} \cup {1})
        BY <4>1, FS_AddElement
      <4>3. {0} \cup {1} = {0, 1}
        OBVIOUS
      <4>4. QED
        BY <4>2, <4>3
    <3>3. QED
      BY <3>1, <3>2, FS_EmptySet
  <2>2. CASE plan.kind # "split"
    <3>1. DOMAIN shares \subseteq 0 .. plan.ranks - 1 /\ 0 \in Int /\ plan.ranks - 1 \in Int
      BY <1>1, <2>2 DEF SharesInv
    <3>2. IsFiniteSet(0 .. plan.ranks - 1)
      BY <3>1, FS_Interval
    <3>3. QED
      BY <3>1, <3>2, FS_Subset
  <2>3. QED
    BY <2>1, <2>2
<1>3. IsFiniteSet(1 .. 2 * plan.episodes)
  <2>1. 1 \in Int /\ 2 * plan.episodes \in Int
    BY <1>1
  <2>2. QED
    BY <2>1, FS_Interval
<1> DEFINE D == DOMAIN shares
           P == 1 .. 2 * plan.episodes
<1>4. Spots(e) \in SUBSET (D \X P)
  BY DEF Spots
<1> HIDE DEF D, P
<1>5. IsFiniteSet(D \X P)
  BY <1>2, <1>3, FS_Product DEF D, P
<1>6. IsFiniteSet(Spots(e))
  BY <1>4, <1>5, FS_Subset
<1>7. Shares!Times(e) = Cardinality(Spots(e))
  BY SharesCount DEF Shares!Times, Spots
<1>8. QED
  BY <1>6, <1>7, FS_CardinalityType, FS_EmptySet

LEMMA OneSpot ==
    ASSUME Shares!SharesAssumption, SharesInv, NEW e, \A a, b \in Spots(e) : a = b
    PROVE  Shares!Times(e) <= 1
<1>1. CASE Spots(e) = {}
  BY <1>1, SpotsCounted
<1>2. CASE Spots(e) # {}
  <2>1. PICK a : a \in Spots(e)
    BY <1>2
  <2>2. Spots(e) = {a}
    BY <2>1
  <2>3. QED
    BY <2>2, SpotsCounted, FS_Singleton
<1>3. QED
  BY <1>1, <1>2

(* Every episode has a place in the order. *)
LEMMA PlaceOfEpisode ==
    ASSUME NEW n \in Nat, NEW s, AllEpisodes(s, n), NEW e \in 0 .. n - 1
    PROVE  \E k \in 1 .. n : s[k] = e
<1>1. s \in [1 .. n -> 0 .. n - 1] /\ \A j, k \in 1 .. n : s[j] = s[k] => j = k
  <2>1. /\ s \in Seq(Nat) /\ Len(s) = n
        /\ \A k \in 1 .. n : s[k] \in 0 .. n - 1
    BY DEF AllEpisodes
  <2>2. s = [k \in 1 .. n |-> s[k]]
    BY <2>1
  <2>3. s \in [1 .. n -> 0 .. n - 1]
    BY <2>1, <2>2
  <2>4. QED
    BY <2>3 DEF AllEpisodes
<1>2. s \in Injection(1 .. n, 0 .. n - 1)
  BY <1>1 DEF Injection, IsInjective
<1>3. IsFiniteSet(0 .. n - 1) /\ Cardinality(0 .. n - 1) = n /\ Cardinality(1 .. n) = n
  <2>1. 0 \in Int /\ 1 \in Int /\ n \in Int /\ n - 1 \in Int
    OBVIOUS
  <2>2. /\ IsFiniteSet(0 .. n - 1)
        /\ Cardinality(0 .. n - 1) = IF 0 > n - 1 THEN 0 ELSE (n - 1) - 0 + 1
        /\ Cardinality(1 .. n) = IF 1 > n THEN 0 ELSE n - 1 + 1
    BY <2>1, FS_Interval
  <2>3. QED
    BY <2>2
<1>4. s \in Surjection(1 .. n, 0 .. n - 1)
  BY <1>2, <1>3, FS_Injection
<1>5. QED
  BY <1>4 DEF Surjection

(* t has the elements of s in other places. *)
Moves(at, s, t, n) ==
    /\ at \in [1 .. n -> 1 .. n]
    /\ \A k \in 1 .. n : t[k] = s[at[k]]
    /\ \A j, k \in 1 .. n : at[j] = at[k] => j = k
    /\ \A k \in 1 .. n : \E j \in 1 .. n : at[j] = k

LEMMA SortedAs ==
    ASSUME NEW n, NEW t, NEW s \in Seq(Nat), Len(s) = n, t = Shares!Sorted(s)
    PROVE  \E at : Moves(at, s, t, n)
<1>1. PICK at \in [1 .. Len(s) -> 1 .. Len(s)] :
        /\ \A k \in 1 .. Len(s) : Shares!Sorted(s)[k] = s[at[k]]
        /\ \A j, k \in 1 .. Len(s) : at[j] = at[k] => j = k
        /\ \A k \in 1 .. Len(s) : \E j \in 1 .. Len(s) : at[j] = k
  BY SortedIs
<1>2. Moves(at, s, Shares!Sorted(s), Len(s))
  BY <1>1 DEF Moves
<1>3. QED
  BY <1>2

(* A split: the two shares are the beginning and the end of the order, sorted,
   the beginning being the part asked for. *)
LEMMA SplitCovers ==
    ASSUME Shares!SharesAssumption, SharesInv, plan.kind = "split", shares # <<>>
    PROVE  /\ \A e \in 0 .. plan.episodes - 1 : Spots(e) # {} /\ \A a, b \in Spots(e) : a = b
           /\ plan.val_percent \in 0 .. 100 =>
                200 * Len(shares[1]) - 2 * plan.val_percent * plan.episodes \in -100 .. 100
<1> DEFINE n == plan.episodes
           v == Shares!ValCount
           c == Shares!Clamp(plan.val_percent, 0, 100)
           front == SubSeq(order, 1, v)
           back == SubSeq(order, v + 1, n)
<1>1. n \in Nat /\ plan.val_percent \in Int /\ AllEpisodes(order, n)
  BY DEF SharesInv, Shares!SharesAssumption
<1>2. v \in 0 .. n /\ (plan.val_percent \in 0 .. 100 =>
                         200 * v - 2 * plan.val_percent * n \in -100 .. 100)
  <2>1. c \in 0 .. 100 /\ (plan.val_percent \in 0 .. 100 => c = plan.val_percent)
    <3> DEFINE x == plan.val_percent
    <3>1. x \in Int
      BY <1>1
    <3>2. c = IF x < 0 THEN 0 ELSE IF x > 100 THEN 100 ELSE x
      BY DEF Shares!Clamp
    <3> HIDE DEF x, c, v
    <3>3. c \in 0 .. 100 /\ (x \in 0 .. 100 => c = x)
      BY <3>1, <3>2
    <3>4. QED
      BY <3>3 DEF x
  <2> DEFINE p == n * c
  <2>2. v = (p * 2 + 100) \div 200
    BY DEF Shares!ValCount
  <2> HIDE DEF v, c, n
  <2>3. p \in Nat /\ p <= n * 100
    <3>1. c \in Int /\ 100 \in Int /\ 0 \in Int /\ 0 <= c /\ c <= 100
      BY <2>1
    <3>2. n * 0 <= n * c /\ n * c <= n * 100 /\ n * c \in Int
      BY <1>1, <3>1, ProductOrder
    <3>3. n * 0 = 0
      BY <1>1
    <3>4. QED
      BY <3>2, <3>3
  <2> HIDE DEF p
  <2>4. v \in Nat /\ v <= n /\ 200 * v <= p * 2 + 100 /\ p * 2 + 100 < 200 * v + 200
    BY <1>1, <2>2, <2>3
  <2>5. ASSUME plan.val_percent \in 0 .. 100
        PROVE  200 * v - 2 * plan.val_percent * n \in -100 .. 100
    <3>1. 2 * plan.val_percent * n = 2 * p
      <4>1. c = plan.val_percent
        BY <2>1, <2>5
      <4>2. QED
        BY <1>1, <2>1, <4>1 DEF p
    <3>2. 200 * v - 2 * p \in -100 .. 100
      BY <2>3, <2>4
    <3>3. QED
      BY <3>1, <3>2
  <2>6. QED
    BY <1>1, <2>4, <2>5
<1>3. DOMAIN shares = {0, 1} /\ shares[0] = Shares!Sorted(back) /\ shares[1] = Shares!Sorted(front)
  BY DEF SharesInv, ShareOf
<1> HIDE DEF n, v, c
<1>4. v \in Nat /\ n - v \in Nat /\ v <= n
  BY <1>1, <1>2
<1>5. order \in Seq(Nat) /\ Len(order) = n /\ \A j, k \in 1 .. n : order[j] = order[k] => j = k
  BY <1>1 DEF AllEpisodes
<1>6. front \in Seq(Nat) /\ Len(front) = v /\ \A k \in 1 .. v : front[k] = order[k]
  <2>1. 0 + v <= Len(order) /\ 0 \in Nat
    BY <1>4, <1>5
  <2> DEFINE t == SubSeq(order, 0 + 1, 0 + v)
  <2>2. t \in Seq(Nat) /\ Len(t) = v /\ \A k \in 1 .. v : t[k] = order[0 + k]
    BY <1>4, <1>5, <2>1, SliceIs
  <2>3. front = t
    BY <1>4
  <2>4. \A k \in 1 .. v : 0 + k = k
    BY <1>4
  <2> HIDE DEF t, front
  <2>5. QED
    BY <2>2, <2>3, <2>4
<1>7. back \in Seq(Nat) /\ Len(back) = n - v /\ \A k \in 1 .. n - v : back[k] = order[v + k]
  <2> DEFINE d == n - v
             t == SubSeq(order, v + 1, v + d)
  <2>1. /\ order \in Seq(Nat) /\ v \in Nat /\ d \in Nat /\ v + d <= Len(order)
        /\ v + d = n
    BY <1>1, <1>4, <1>5
  <2>2. back = t
    BY <2>1
  <2> HIDE DEF d, back
  <2>3. t \in Seq(Nat) /\ Len(t) = d /\ \A k \in 1 .. d : t[k] = order[v + k]
    BY <2>1, SliceIs
  <2> HIDE DEF t
  <2>4. QED
    BY <2>2, <2>3 DEF d
<1> HIDE DEF front, back
<1>8. PICK f : Moves(f, front, shares[1], v)
  BY <1>3, <1>6, SortedAs
<1>9. PICK g : Moves(g, back, shares[0], n - v)
  BY <1>3, <1>7, SortedAs
<1>10. Len(shares[1]) = v /\ Len(shares[0]) = n - v
  BY <1>3, <1>6, <1>7, SortedIs
<1> DEFINE Place(r, k) == IF r = 1 THEN f[k] ELSE v + g[k]
           Size(r) == IF r = 1 THEN v ELSE n - v
<1>11. ASSUME NEW r \in {0, 1}, NEW k \in 1 .. Size(r)
       PROVE  Place(r, k) \in 1 .. n /\ shares[r][k] = order[Place(r, k)]
                 /\ (r = 1 <=> Place(r, k) <= v)
  <2>1. CASE r = 1
    <3>1. f[k] \in 1 .. v
      BY <1>8, <2>1 DEF Moves
    <3>2. shares[r][k] = order[f[k]]
      BY <1>6, <1>8, <2>1, <3>1 DEF Moves
    <3>3. QED
      BY <1>1, <1>4, <2>1, <3>1, <3>2
  <2>2. CASE r = 0
    <3>1. Size(r) = n - v /\ Place(r, k) = v + g[k]
      BY <2>2
    <3> HIDE DEF Place, Size
    <3>2. k \in 1 .. n - v
      BY <3>1
    <3>3. g[k] \in 1 .. n - v
      BY <1>9, <3>2 DEF Moves
    <3>4. shares[0][k] = back[g[k]]
      BY <1>9, <3>2 DEF Moves
    <3>5. back[g[k]] = order[v + g[k]]
      BY <1>7, <3>3
    <3> DEFINE h == g[k]
    <3>6. h \in 1 .. n - v
      BY <3>3
    <3> HIDE DEF h
    <3>7. v + h \in 1 .. n /\ ~(v + h <= v)
      BY <1>1, <1>4, <3>6
    <3>8. QED
      BY <2>2, <3>1, <3>4, <3>5, <3>7 DEF h
  <2>3. QED
    BY <2>1, <2>2
<1>12. ASSUME NEW r \in {0, 1}, NEW k \in 1 .. Size(r), NEW q \in {0, 1}, NEW j \in 1 .. Size(q),
              Place(r, k) = Place(q, j)
       PROVE  r = q /\ k = j
  <2>1. r = q
    BY <1>11, <1>12
  <2>2. CASE r = 1
    BY <1>8, <1>12, <2>1, <2>2 DEF Moves
  <2>3. CASE r = 0
    <3>1. /\ Size(r) = n - v /\ Size(q) = n - v
          /\ Place(r, k) = v + g[k] /\ Place(q, j) = v + g[j]
      BY <2>1, <2>3
    <3> HIDE DEF Place, Size
    <3>2. k \in 1 .. n - v /\ j \in 1 .. n - v /\ v + g[k] = v + g[j]
      BY <1>12, <3>1
    <3>3. g[k] \in 1 .. n - v /\ g[j] \in 1 .. n - v
      BY <1>9, <3>2 DEF Moves
    <3> DEFINE h == g[k]
               m == g[j]
    <3>4. h \in Int /\ m \in Int /\ v + h = v + m
      BY <3>2, <3>3
    <3> HIDE DEF h, m
    <3>5. h = m
      BY <1>4, <3>4
    <3>6. QED
      BY <1>9, <2>1, <3>2, <3>5 DEF h, m, Moves
  <2>4. QED
    BY <2>1, <2>2, <2>3
<1>13. \A r \in {0, 1} : Len(shares[r]) = Size(r) /\ Size(r) \in Nat /\ Size(r) <= n
  BY <1>1, <1>4, <1>10
<1>14. ASSUME NEW e \in 0 .. n - 1
       PROVE  Spots(e) = {at \in {0, 1} \X (1 .. 2 * n) :
                            at[2] <= Size(at[1]) /\ shares[at[1]][at[2]] = e}
  BY <1>3, <1>13 DEF Spots, n
<1> HIDE DEF Place, Size
<1>15. ASSUME NEW e \in 0 .. n - 1, NEW a \in Spots(e), NEW b \in Spots(e) PROVE a = b
  <2>1. /\ a[1] \in {0, 1} /\ a[2] \in 1 .. Size(a[1]) /\ shares[a[1]][a[2]] = e
        /\ b[1] \in {0, 1} /\ b[2] \in 1 .. Size(b[1]) /\ shares[b[1]][b[2]] = e
        /\ a = <<a[1], a[2]>> /\ b = <<b[1], b[2]>>
    BY <1>13, <1>14, <1>15
  <2>2. order[Place(a[1], a[2])] = e /\ order[Place(b[1], b[2])] = e
        /\ Place(a[1], a[2]) \in 1 .. n /\ Place(b[1], b[2]) \in 1 .. n
    BY <1>11, <2>1
  <2>3. Place(a[1], a[2]) = Place(b[1], b[2])
    BY <1>5, <2>2
  <2>4. a[1] = b[1] /\ a[2] = b[2]
    BY <1>12, <2>1, <2>3
  <2>5. QED
    BY <2>1, <2>4
<1>16. ASSUME NEW e \in 0 .. n - 1 PROVE Spots(e) # {}
  <2>1. PICK p \in 1 .. n : order[p] = e
    BY <1>1, PlaceOfEpisode
  <2>2. \E r \in {0, 1} : \E k \in 1 .. Size(r) : Place(r, k) = p
    <3>1. CASE p <= v
      <4>1. p \in 1 .. v
        BY <1>4, <3>1
      <4>2. PICK k \in 1 .. v : f[k] = p
        BY <1>8, <4>1 DEF Moves
      <4>3. QED
        BY <4>2 DEF Place, Size
    <3>2. CASE ~(p <= v)
      <4>1. p - v \in 1 .. n - v /\ v + (p - v) = p
        BY <1>1, <1>4, <3>2
      <4>2. PICK k \in 1 .. n - v : g[k] = p - v
        BY <1>9, <4>1 DEF Moves
      <4>3. QED
        BY <4>1, <4>2 DEF Place, Size
    <3>3. QED
      BY <3>1, <3>2
  <2>3. PICK r \in {0, 1} : \E k \in 1 .. Size(r) : Place(r, k) = p
    BY <2>2
  <2>4. PICK k \in 1 .. Size(r) : Place(r, k) = p
    BY <2>3
  <2>5. shares[r][k] = e
    BY <1>11, <2>1, <2>4
  <2>6. k \in 1 .. 2 * n /\ k <= Size(r)
    BY <1>1, <1>13, <2>4
  <2>7. <<r, k>> \in Spots(e)
    BY <1>14, <2>5, <2>6
  <2>8. QED
    BY <2>7
<1>17. QED
  BY <1>2, <1>10, <1>15, <1>16 DEF n

(* The sampler has one number of episodes for every rank: with drop_last the
   largest that there are episodes for, without it the smallest that takes them all. *)
LEMMA SamplerSizes ==
    ASSUME Shares!SharesAssumption, SharesInv
    PROVE  LET E == plan.episodes
               R == plan.ranks
               n == Shares!num_samples
               T == Shares!total_size
           IN  /\ n \in Nat /\ n <= E /\ T = n * R /\ T \in Nat
               /\ plan.drop_last => T <= E /\ E < T + R
               /\ ~plan.drop_last => E <= T
<1> DEFINE E == plan.episodes
           R == plan.ranks
           n == Shares!num_samples
           T == Shares!total_size
           D == plan.drop_last
<1>1. E \in Nat /\ R \in Nat \ {0}
  BY DEF SharesInv, Shares!SharesAssumption
<1>2. T = n * R
  BY DEF Shares!total_size
<1>3. n = IF D /\ E % R # 0 THEN Shares!CeilDiv(E - R, R) ELSE Shares!CeilDiv(E, R)
  BY DEF Shares!num_samples
<1> HIDE DEF E, R, n, T, D
<1>4. ASSUME n \in Int, -R < R * n PROVE n \in Nat
  <2>1. CASE n <= -1
    <3>1. R * n <= R * (-1) /\ R * (-1) = -R
      BY <1>1, <1>4, <2>1, ProductOrder
    <3>2. QED
      BY <1>1, <1>4, <3>1
  <2>2. QED
    BY <1>4, <2>1
<1>5. ASSUME n \in Nat PROVE n * R = R * n /\ n * R \in Nat /\ n <= R * n
  <2>1. 1 \in Int /\ R \in Int /\ 1 <= R
    BY <1>1
  <2>2. n * 1 <= n * R /\ n * R \in Int
    BY <1>5, <2>1, ProductOrder
  <2>3. n * R = R * n /\ n * 1 = n
    BY <1>1, <1>5
  <2>4. QED
    BY <1>5, <2>2, <2>3
<1>6. n \in Nat /\ n <= E /\ (D => R * n <= E /\ E < R * n + R) /\ (~D => E <= R * n)
  <2>1. CASE D /\ E % R # 0
    <3>1. n \in Int /\ E - R <= R * n /\ R * n < (E - R) + R
      <4>1. E - R \in Int
        BY <1>1
      <4> DEFINE q == Shares!CeilDiv(E - R, R)
      <4>2. q \in Int /\ E - R <= R * q /\ R * q < (E - R) + R
        BY <1>1, <4>1, CeilDivIs
      <4> HIDE DEF q
      <4>3. n = q
        BY <1>3, <2>1 DEF q
      <4>4. QED
        BY <4>2, <4>3
    <3>2. E # 0
      <4>1. 0 % R = 0
        BY <1>1
      <4>2. QED
        BY <2>1, <4>1
    <3> DEFINE p == R * n
    <3>3. p \in Int
      BY <1>1, <3>1
    <3> HIDE DEF p
    <3>4. -R < p /\ p < E /\ E <= p + R
      BY <1>1, <3>1, <3>2, <3>3 DEF p
    <3>5. n \in Nat /\ n <= p
      BY <1>4, <1>5, <3>1, <3>4 DEF p
    <3>6. E # p + R
      <4>1. SUFFICES ASSUME E = p + R PROVE FALSE
        OBVIOUS
      <4>2. R * (n + 1) + 0 = R * n + R /\ n + 1 \in Nat /\ 0 \in 0 .. R - 1
        BY <1>1, <3>5
      <4>3. (R * (n + 1) + 0) % R = 0
        BY <1>1, <4>2, RemainderOf
      <4>4. QED
        BY <2>1, <4>1, <4>2, <4>3 DEF p
    <3>7. QED
      BY <1>1, <2>1, <3>3, <3>4, <3>5, <3>6 DEF p
  <2>2. CASE ~(D /\ E % R # 0)
    <3>1. n \in Int /\ E <= R * n /\ R * n < E + R
      <4> DEFINE q == Shares!CeilDiv(E, R)
      <4>1. q \in Int /\ E <= R * q /\ R * q < E + R
        BY <1>1, CeilDivIs
      <4> HIDE DEF q
      <4>2. n = q
        BY <1>3, <2>2 DEF q
      <4>3. QED
        BY <4>1, <4>2
    <3>2. n \in Nat
      <4>1. -R < R * n
        BY <1>1, <3>1
      <4>2. QED
        BY <1>4, <3>1, <4>1
    <3>3. n <= E
      <4>1. SUFFICES ASSUME E + 1 <= n PROVE FALSE
        BY <1>1, <3>2
      <4>2. R * (E + 1) <= R * n
        BY <1>1, <3>2, <4>1, ProductOrder
      <4>3. R * (E + 1) = E * R + R
        BY <1>1
      <4>4. E * 1 <= E * R /\ E * 1 = E
        <5>1. 1 \in Int /\ R \in Int /\ 1 <= R
          BY <1>1
        <5>2. QED
          BY <1>1, <5>1, ProductOrder
      <4>5. QED
        BY <1>1, <3>1, <3>2, <4>2, <4>3, <4>4
    <3>4. ASSUME D PROVE R * n = E
      <4>1. E % R = 0
        BY <2>2, <3>4
      <4> DEFINE d == E \div R
      <4>2. d \in Int /\ E = R * d
        BY <1>1, <4>1
      <4> HIDE DEF d
      <4>3. n <= d
        <5>1. SUFFICES ASSUME d + 1 <= n PROVE FALSE
          BY <3>2, <4>2
        <5>2. R * (d + 1) <= R * n /\ R * (d + 1) = R * d + R
          BY <1>1, <3>2, <4>2, <5>1, ProductOrder
        <5>3. QED
          BY <1>1, <3>1, <3>2, <4>2, <5>2
      <4>4. R * n <= R * d
        BY <1>1, <3>2, <4>2, <4>3, ProductOrder
      <4>5. QED
        BY <1>1, <3>1, <3>2, <4>2, <4>4
    <3>5. QED
      BY <1>1, <3>1, <3>2, <3>3, <3>4
  <2>3. QED
    BY <2>1, <2>2
<1>7. QED
  BY <1>2, <1>5, <1>6 DEF E, R, n, T, D

(* The padding goes around the order. *)
Turn(k, n) == ((k - 1) % n) + 1

LEMMA TurnIs ==
    ASSUME NEW n \in Nat \ {0}, NEW k \in Nat \ {0}
    PROVE  /\ Turn(k, n) \in 1 .. n
           /\ \E q \in Nat : k = n * q + Turn(k, n)
           /\ k <= n => Turn(k, n) = k
           /\ k > n => Turn(k, n) = Turn(k - n, n)
<1>1. k - 1 \in Nat /\ Turn(k, n) = ((k - 1) % n) + 1
  BY DEF Turn
<1> DEFINE r == (k - 1) % n
           d == (k - 1) \div n
<1>2. r \in 0 .. n - 1 /\ d \in Int /\ k - 1 = n * d + r
  BY <1>1
<1> HIDE DEF r, d
<1>3. d \in Nat
  <2>1. SUFFICES ASSUME d <= -1 PROVE FALSE
    BY <1>2
  <2>2. n * d <= n * (-1) /\ n * (-1) = -n /\ n * d \in Int
    BY <1>2, <2>1, ProductOrder
  <2>3. QED
    BY <1>1, <1>2, <2>2
<1>4. k = n * d + (r + 1) /\ n * d \in Int
  BY <1>2, <1>3
<1>5. ASSUME k <= n PROVE Turn(k, n) = k
  <2>1. n * 0 + (k - 1) = k - 1 /\ k - 1 \in 0 .. n - 1 /\ 0 \in Nat
    BY <1>1, <1>5
  <2>2. (k - 1) % n = k - 1
    BY <2>1, RemainderOf
  <2>3. QED
    BY <1>1, <2>2
<1>6. ASSUME k > n PROVE Turn(k, n) = Turn(k - n, n)
  <2>1. d # 0
    <3>1. d = 0 => n * d = 0
      OBVIOUS
    <3>2. QED
      BY <1>2, <1>4, <1>6, <3>1
  <2>2. d - 1 \in Nat /\ n * (d - 1) = n * d - n
    BY <1>3, <2>1
  <2>3. (n * (d - 1) + r) % n = r
    BY <1>2, <2>2, RemainderOf
  <2>4. n * (d - 1) + r = (k - n) - 1
    BY <1>2, <1>4, <2>2
  <2>5. QED
    BY <1>1, <2>3, <2>4 DEF Turn, r
<1>7. Turn(k, n) = r + 1
  BY <1>1 DEF r
<1>8. Turn(k, n) \in 1 .. n
  BY <1>2, <1>7
<1>9. \E q \in Nat : k = n * q + Turn(k, n)
  BY <1>3, <1>4, <1>7
<1>10. QED
  BY <1>5, <1>6, <1>8, <1>9

LEMMA TurnOf ==
    ASSUME NEW n \in Nat \ {0}, NEW q \in Nat, NEW c \in 1 .. n
    PROVE  Turn(n * q + c, n) = c
<1>1. c - 1 \in 0 .. n - 1
  OBVIOUS
<1>2. (n * q + (c - 1)) % n = c - 1
  BY <1>1, RemainderOf
<1> DEFINE p == n * q
<1>3. p \in Int
  OBVIOUS
<1> HIDE DEF p
<1>4. (p + c) - 1 = p + (c - 1)
  BY <1>3
<1>5. QED
  BY <1>2, <1>4 DEF Turn, p

(* Going around, no place is reached twice more often than another. *)
LEMMA TurnsAreEven ==
    ASSUME NEW T \in Nat, NEW n \in Nat \ {0}, NEW a \in 1 .. n, NEW b \in 1 .. n
    PROVE  LET A == {k \in 1 .. T : Turn(k, n) = a}
               B == {k \in 1 .. T : Turn(k, n) = b}
           IN  /\ IsFiniteSet(A) /\ IsFiniteSet(B)
               /\ Cardinality(A) <= Cardinality(B) + 1
<1> DEFINE A == {k \in 1 .. T : Turn(k, n) = a}
           B == {k \in 1 .. T : Turn(k, n) = b}
           d == IF b <= a THEN a - b ELSE n + a - b
           f == [k \in A \ {a} |-> k - d]
<1>1. IsFiniteSet(A) /\ IsFiniteSet(B)
  <2>1. 1 \in Int /\ T \in Int
    OBVIOUS
  <2>2. IsFiniteSet(1 .. T)
    BY <2>1, FS_Interval
  <2>3. A \in SUBSET (1 .. T) /\ B \in SUBSET (1 .. T)
    OBVIOUS
  <2>4. QED
    BY <2>2, <2>3, FS_Subset
<1>2. d \in 0 .. n - 1 /\ (d = a - b \/ d = (n + a) - b)
  OBVIOUS
<1>3. ASSUME NEW k \in A \ {a} PROVE k - d \in B
  <2>1. k \in 1 .. T /\ Turn(k, n) = a /\ k # a
    OBVIOUS
  <2> HIDE DEF A, d
  <2>2. PICK q \in Nat : k = n * q + a
    <3>1. k \in Nat \ {0}
      BY <2>1
    <3>2. QED
      BY <2>1, <3>1, TurnIs
  <2>3. q # 0
    <3>1. q = 0 => n * q = 0
      OBVIOUS
    <3>2. QED
      BY <2>1, <2>2, <3>1
  <2>4. q - 1 \in Nat /\ n * (q - 1) = n * q - n /\ n * q \in Nat
    BY <2>3
  <2>5. n * (q - 1) \in Nat
    BY <2>4
  <2>6. k - d = n * q + b \/ k - d = n * (q - 1) + b
    <3> DEFINE p == n * q
               o == n * (q - 1)
    <3>1. p \in Int /\ o = p - n /\ k = p + a
      BY <2>2, <2>4
    <3> HIDE DEF p, o
    <3>2. k - d = p + b \/ k - d = o + b
      BY <1>2, <3>1
    <3>3. QED
      BY <3>2 DEF p, o
  <2>7. Turn(k - d, n) = b
    BY <2>4, <2>6, TurnOf
  <2>8. k - d \in 1 .. T
    <3> DEFINE p == n * q
               o == n * (q - 1)
    <3>1. p \in Nat /\ o \in Nat /\ (k - d = p + b \/ k - d = o + b)
      BY <2>4, <2>5, <2>6
    <3> HIDE DEF p, o
    <3>2. QED
      BY <1>2, <2>1, <3>1
  <2>9. QED
    BY <2>7, <2>8
<1>4. f \in Injection(A \ {a}, B)
  <2>1. f \in [A \ {a} -> B]
    BY <1>3
  <2>2. ASSUME NEW j \in A \ {a}, NEW k \in A \ {a}, f[j] = f[k] PROVE j = k
    <3>1. f[j] = j - d /\ f[k] = k - d /\ j \in Int /\ k \in Int
      OBVIOUS
    <3> HIDE DEF d, f, A
    <3>2. j - d = k - d
      BY <2>2, <3>1
    <3>3. QED
      BY <1>2, <3>1, <3>2
  <2> HIDE DEF f, A, B
  <2>3. QED
    BY <2>1, <2>2 DEF Injection, IsInjective
<1> HIDE DEF A, B, f
<1>5. IsFiniteSet(A \ {a}) /\ Cardinality(A \ {a}) <= Cardinality(B)
  BY <1>1, <1>4, FS_Injection
<1>6. Cardinality(A \ {a}) = IF a \in A THEN Cardinality(A) - 1 ELSE Cardinality(A)
  BY <1>1, FS_RemoveElement
<1>7. Cardinality(A) \in Nat /\ Cardinality(B) \in Nat
  BY <1>1, FS_CardinalityType
<1>8. QED
  BY <1>1, <1>5, <1>6, <1>7 DEF A, B

LEMMA PaddedIs ==
    ASSUME Shares!SharesAssumption, SharesInv
    PROVE  /\ Shares!Padded \in Seq(Nat) /\ Len(Shares!Padded) = Shares!total_size
           /\ Shares!total_size # 0 => plan.episodes \in Nat \ {0}
           /\ \A k \in 1 .. Shares!total_size :
                 Shares!Padded[k] = order[Turn(k, plan.episodes)]
<1> DEFINE E == plan.episodes
           T == Shares!total_size
           s == Shares!Padded
<1>1. E \in Nat /\ AllEpisodes(order, E) /\ T \in Nat
  BY SamplerSizes DEF SharesInv, Shares!SharesAssumption
<1>2. T # 0 => E \in Nat \ {0}
  <2> DEFINE n == Shares!num_samples
             R == plan.ranks
  <2>1. n \in Nat /\ n <= E /\ T = n * R /\ R \in Nat
    BY SamplerSizes DEF SharesInv, Shares!SharesAssumption
  <2> HIDE DEF n, R, E, T
  <2>2. n = 0 => n * R = 0
    BY <2>1
  <2>3. QED
    BY <1>1, <2>1, <2>2
<1>3. s = [k \in 1 .. T |-> IF k <= E THEN order[k] ELSE order[((k - E - 1) % E) + 1]]
  BY DEF Shares!Padded
<1> HIDE DEF E, T, s
<1>4. ASSUME NEW k \in 1 .. T PROVE s[k] = order[Turn(k, E)] /\ s[k] \in Nat
  <2>1. E \in Nat \ {0} /\ k \in Nat \ {0}
    BY <1>1, <1>2
  <2>2. s[k] = IF k <= E THEN order[k] ELSE order[((k - E - 1) % E) + 1]
    BY <1>3
  <2>3. s[k] = order[Turn(k, E)]
    <3>1. CASE k <= E
      BY <2>1, <2>2, <3>1, TurnIs
    <3>2. CASE ~(k <= E)
      <4>1. k > E
        BY <2>1, <3>2
      <4>2. Turn(k, E) = Turn(k - E, E)
        BY <2>1, <4>1, TurnIs
      <4>3. QED
        BY <2>2, <3>2, <4>2 DEF Turn
    <3>3. QED
      BY <3>1, <3>2
  <2>4. order[Turn(k, E)] \in 0 .. E - 1
    <3>1. Turn(k, E) \in 1 .. E
      BY <2>1, TurnIs
    <3>2. QED
      BY <1>1, <3>1 DEF AllEpisodes
  <2>5. QED
    BY <2>1, <2>3, <2>4
<1>5. s \in Seq(Nat) /\ Len(s) = T
  <2>1. s = [k \in 1 .. T |-> s[k]]
    BY <1>3
  <2>2. s \in [1 .. T -> Nat]
    BY <1>4, <2>1
  <2>3. QED
    BY <1>1, <2>2
<1>6. QED
  BY <1>2, <1>4, <1>5 DEF E, T, s

(* Rank r has the r-th slice of the order gone around. *)
LEMMA SampleShare ==
    ASSUME Shares!SharesAssumption, SharesInv, plan.kind = "sampler", NEW r \in DOMAIN shares
    PROVE  LET n == Shares!num_samples
           IN  /\ r \in Nat /\ Len(shares[r]) = n
               /\ \A j \in 1 .. n :
                     /\ n * r + j \in 1 .. Shares!total_size
                     /\ shares[r][j] = order[Turn(n * r + j, plan.episodes)]
<1> DEFINE n == Shares!num_samples
           R == plan.ranks
           T == Shares!total_size
           s == Shares!Padded
           a == n * r
           t == SubSeq(s, a + 1, a + n)
<1>1. r \in 0 .. R - 1 /\ shares[r] = SubSeq(s, r * n + 1, (r + 1) * n) /\ R \in Nat
  BY DEF SharesInv, ShareOf, Shares!SharesAssumption
<1>2. n \in Nat /\ T = n * R
  BY SamplerSizes
<1>3. s \in Seq(Nat) /\ Len(s) = T /\ \A k \in 1 .. T : s[k] = order[Turn(k, plan.episodes)]
  BY PaddedIs
<1> HIDE DEF n, T, s, R
<1>4. a \in Nat /\ r * n = a /\ (r + 1) * n = a + n
  BY <1>1, <1>2
<1>5. a + n <= T
  <2>1. n * (r + 1) <= n * R
    <3>1. r + 1 \in Int /\ R \in Int /\ r + 1 <= R
      BY <1>1
    <3>2. QED
      BY <1>2, <3>1, ProductOrder
  <2>2. n * (r + 1) = a + n
    BY <1>1, <1>2
  <2>3. QED
    BY <1>2, <2>1, <2>2
<1>6. shares[r] = t
  BY <1>1, <1>4
<1> HIDE DEF a
<1>7. Len(t) = n /\ \A j \in 1 .. n : t[j] = s[a + j]
  BY <1>2, <1>3, <1>4, <1>5, SliceIs
<1> HIDE DEF t
<1>8. \A j \in 1 .. n : a + j \in 1 .. T
  <2>1. T \in Int
    BY <1>1, <1>2
  <2>2. QED
    BY <1>2, <1>4, <1>5, <2>1
<1>9. \A j \in 1 .. n : t[j] = order[Turn(a + j, plan.episodes)]
  BY <1>3, <1>7, <1>8
<1>10. r \in Nat
  BY <1>1
<1>11. QED
  BY <1>6, <1>7, <1>8, <1>9, <1>10 DEF n, T, a

(* Where the sampler gives e, in all the slices. *)
Turns(e) == {k \in 1 .. Shares!total_size : order[Turn(k, plan.episodes)] = e}

LEMMA SpotsAreTurns ==
    ASSUME Shares!SharesAssumption, SharesInv, plan.kind = "sampler",
           DOMAIN shares = 0 .. plan.ranks - 1, NEW e
    PROVE  IsFiniteSet(Turns(e)) /\ Shares!Times(e) = Cardinality(Turns(e))
<1> DEFINE n == Shares!num_samples
           R == plan.ranks
           E == plan.episodes
           T == Shares!total_size
           f == [at \in Spots(e) |-> n * at[1] + at[2]]
<1>1. E \in Nat /\ R \in Nat \ {0} /\ n \in Nat /\ n <= E /\ T = n * R
  BY SamplerSizes DEF SharesInv, Shares!SharesAssumption
<1>2. \A r \in 0 .. R - 1 :
        r \in Nat /\ Len(shares[r]) = n
        /\ \A j \in 1 .. n : n * r + j \in 1 .. T /\ shares[r][j] = order[Turn(n * r + j, E)]
  BY SampleShare
<1>3. Spots(e) = {at \in (0 .. R - 1) \X (1 .. 2 * E) :
                    at[2] <= Len(shares[at[1]]) /\ shares[at[1]][at[2]] = e}
  BY DEF Spots
<1>4. Turns(e) = {k \in 1 .. T : order[Turn(k, E)] = e}
  BY DEF Turns
<1> HIDE DEF n, R, E, T
<1>5. ASSUME NEW at \in Spots(e)
      PROVE  /\ at = <<at[1], at[2]>> /\ at[1] \in 0 .. R - 1 /\ at[2] \in 1 .. n
             /\ shares[at[1]][at[2]] = e
  <2>1. /\ at = <<at[1], at[2]>> /\ at[1] \in 0 .. R - 1 /\ at[2] \in 1 .. 2 * E
        /\ at[2] <= Len(shares[at[1]]) /\ shares[at[1]][at[2]] = e
    BY <1>3
  <2>2. Len(shares[at[1]]) = n
    BY <1>2, <2>1
  <2>3. at[2] \in 1 .. n
    BY <1>1, <2>1, <2>2
  <2>4. QED
    BY <2>1, <2>3
<1>6. f \in [Spots(e) -> Turns(e)]
  <2>1. ASSUME NEW at \in Spots(e) PROVE n * at[1] + at[2] \in Turns(e)
    BY <1>2, <1>4, <1>5
  <2>2. QED
    BY <2>1
<1>7. ASSUME NEW at \in Spots(e), NEW to \in Spots(e), f[at] = f[to] PROVE at = to
  <2>1. n * at[1] + at[2] = n * to[1] + to[2]
    BY <1>7
  <2>2. /\ at[1] \in Nat /\ to[1] \in Nat /\ n \in Nat \ {0}
        /\ at[2] \in 1 .. n /\ to[2] \in 1 .. n
    BY <1>1, <1>5
  <2>3. at[1] = to[1] /\ at[2] = to[2]
    <3> DEFINE r == at[1]
               s == to[1]
               j == at[2]
               k == to[2]
    <3>1. /\ n * r + j = n * s + k
          /\ r \in Nat /\ s \in Nat /\ n \in Nat \ {0} /\ j \in 1 .. n /\ k \in 1 .. n
      BY <2>1, <2>2
    <3> HIDE DEF r, s, j, k
    <3>2. r = s /\ j = k
      BY <3>1, SliceOnce
    <3>3. QED
      BY <3>2 DEF r, s, j, k
  <2>4. QED
    BY <1>5, <2>3
<1>8. ASSUME NEW k \in Turns(e) PROVE \E at \in Spots(e) : f[at] = k
  <2>1. k \in 1 .. n * R /\ order[Turn(k, E)] = e
    BY <1>1, <1>4
  <2>2. n \in Nat \ {0}
    <3>1. n = 0 => n * R = 0
      BY <1>1
    <3>2. QED
      BY <1>1, <2>1, <3>1
  <2>3. PICK r \in 0 .. R - 1, j \in 1 .. n : k = n * r + j
    BY <1>1, <2>1, <2>2, SliceTaken
  <2>4. shares[r][j] = e /\ Len(shares[r]) = n
    BY <1>2, <2>1, <2>3
  <2>5. j \in 1 .. 2 * E /\ j <= n
    BY <1>1, <2>3
  <2>6. <<r, j>> \in Spots(e)
    BY <1>3, <2>4, <2>5
  <2>7. f[<<r, j>>] = n * r + j
    BY <2>6
  <2>8. QED
    BY <2>3, <2>6, <2>7
<1> HIDE DEF f
<1>9. f \in Bijection(Spots(e), Turns(e))
  BY <1>6, <1>7, <1>8 DEF Bijection, Injection, Surjection, IsInjective
<1>10. IsFiniteSet(Spots(e)) /\ Shares!Times(e) = Cardinality(Spots(e))
  BY SpotsCounted
<1>11. ExistsBijection(Spots(e), Turns(e))
  BY <1>9 DEF ExistsBijection
<1>12. QED
  BY <1>10, <1>11, FS_Bijection

(* Padded: every episode, and none twice more often than another. *)
LEMMA PaddedCovers ==
    ASSUME Shares!SharesAssumption, SharesInv, plan.kind = "sampler", ~plan.drop_last,
           DOMAIN shares = 0 .. plan.ranks - 1, NEW e \in 0 .. plan.episodes - 1
    PROVE  /\ Shares!Times(e) # 0
           /\ \A h \in 0 .. plan.episodes - 1 : Shares!Times(e) <= Shares!Times(h) + 1
<1> DEFINE E == plan.episodes
           T == Shares!total_size
<1>1. E \in Nat \ {0} /\ T \in Nat /\ E <= T /\ AllEpisodes(order, E)
  <2>1. E \in Nat /\ T \in Nat /\ E <= T /\ AllEpisodes(order, E)
    BY SamplerSizes DEF SharesInv, Shares!SharesAssumption
  <2> HIDE DEF T
  <2>2. QED
    BY <2>1
<1> HIDE DEF T
<1>2. ASSUME NEW h \in 0 .. E - 1, NEW p \in 1 .. E, order[p] = h
      PROVE  Turns(h) = {k \in 1 .. T : Turn(k, E) = p}
  <2>1. ASSUME NEW k \in 1 .. T PROVE order[Turn(k, E)] = h <=> Turn(k, E) = p
    <3>1. k \in Nat \ {0}
      BY <1>1
    <3>2. Turn(k, E) \in 1 .. E
      BY <1>1, <3>1, TurnIs
    <3>3. QED
      BY <1>1, <1>2, <3>2 DEF AllEpisodes
  <2>2. QED
    BY <2>1 DEF Turns, T
<1> HIDE DEF E
<1>3. PICK p \in 1 .. E : order[p] = e
  BY <1>1, PlaceOfEpisode DEF E
<1>4. e \in 0 .. E - 1
  BY DEF E
<1>5. Shares!Times(e) # 0
  <2>1. p \in 1 .. T /\ p \in Nat \ {0} /\ p <= E
    BY <1>1
  <2>2. Turn(p, E) = p
    BY <1>1, <2>1, TurnIs
  <2>3. p \in Turns(e)
    BY <1>2, <1>3, <1>4, <2>1, <2>2
  <2>4. QED
    BY <2>3, SpotsAreTurns, FS_EmptySet
<1>6. ASSUME NEW h \in 0 .. E - 1 PROVE Shares!Times(e) <= Shares!Times(h) + 1
  <2>1. PICK q \in 1 .. E : order[q] = h
    BY <1>1, PlaceOfEpisode
  <2>2. Turns(e) = {k \in 1 .. T : Turn(k, E) = p}
    BY <1>2, <1>3, <1>4
  <2>3. Turns(h) = {k \in 1 .. T : Turn(k, E) = q}
    BY <1>2, <2>1
  <2>4. Cardinality(Turns(e)) <= Cardinality(Turns(h)) + 1
    <3>1. Cardinality({k \in 1 .. T : Turn(k, E) = p})
            <= Cardinality({k \in 1 .. T : Turn(k, E) = q}) + 1
      BY <1>1, TurnsAreEven
    <3>2. QED
      BY <2>2, <2>3, <3>1
  <2>5. QED
    BY <2>4, SpotsAreTurns
<1>7. QED
  BY <1>5, <1>6 DEF E

(* Cut: no episode twice, and fewer missing than there are ranks. *)
LEMMA CutCovers ==
    ASSUME Shares!SharesAssumption, SharesInv, plan.kind = "sampler", plan.drop_last,
           DOMAIN shares = 0 .. plan.ranks - 1
    PROVE  /\ \A e \in 0 .. plan.episodes - 1 : Shares!Times(e) <= 1
           /\ LET missing == {e \in 0 .. plan.episodes - 1 : Shares!Times(e) = 0}
              IN  IsFiniteSet(missing) /\ Cardinality(missing) < plan.ranks
<1> DEFINE E == plan.episodes
           T == Shares!total_size
           R == plan.ranks
           missing == {e \in 0 .. E - 1 : Shares!Times(e) = 0}
<1>1. E \in Nat /\ T \in Nat /\ R \in Nat \ {0} /\ T <= E /\ E < T + R /\ AllEpisodes(order, E)
  BY SamplerSizes DEF SharesInv, Shares!SharesAssumption
<1> HIDE DEF T, R, E
<1>2. \A k \in 1 .. T : Turn(k, E) = k /\ k \in 1 .. E
  <2>1. ASSUME NEW k \in 1 .. T PROVE k \in 1 .. E /\ k \in Nat \ {0} /\ E \in Nat \ {0} /\ k <= E
    BY <1>1
  <2>2. QED
    BY <2>1, TurnIs
<1>3. \A e : Turns(e) = {k \in 1 .. T : order[k] = e}
  BY <1>2 DEF Turns, T, E
<1>4. \A e : IsFiniteSet(Turns(e)) /\ Shares!Times(e) = Cardinality(Turns(e))
  BY SpotsAreTurns
<1>5. ASSUME NEW e \in 0 .. E - 1 PROVE Shares!Times(e) <= 1
  <2>1. CASE Turns(e) = {}
    BY <1>4, <2>1, FS_EmptySet
  <2>2. CASE Turns(e) # {}
    <3>1. PICK k : k \in Turns(e)
      BY <2>2
    <3>2. \A j \in Turns(e) : j = k
      BY <1>1, <1>2, <1>3, <3>1 DEF AllEpisodes
    <3>3. Turns(e) = {k}
      BY <3>1, <3>2
    <3>4. Cardinality({k}) = 1
      BY FS_Singleton
    <3>5. Shares!Times(e) = 1
      BY <1>4, <3>3, <3>4
    <3>6. QED
      BY <3>5
  <2>3. QED
    BY <2>1, <2>2
<1> DEFINE Rest == (T + 1) .. E
           Gone == {e \in 0 .. E - 1 : \E k \in Rest : order[k] = e}
           f == [k \in Rest |-> order[k]]
<1>6. IsFiniteSet(Rest) /\ Cardinality(Rest) < R
  <2>1. T + 1 \in Int /\ E \in Int
    BY <1>1
  <2>2. /\ IsFiniteSet((T + 1) .. E)
        /\ Cardinality((T + 1) .. E) = IF T + 1 > E THEN 0 ELSE E - (T + 1) + 1
    BY <2>1, FS_Interval
  <2>3. QED
    BY <1>1, <2>2
<1>7. f \in Surjection(Rest, Gone)
  <2>1. \A k \in Rest : k \in 1 .. E
    BY <1>1
  <2>2. \A k \in Rest : f[k] = order[k] /\ order[k] \in 0 .. E - 1
    BY <1>1, <2>1 DEF AllEpisodes
  <2>3. f \in [Rest -> Gone]
    BY <2>2
  <2>4. \A e \in Gone : \E k \in Rest : f[k] = e
    OBVIOUS
  <2> HIDE DEF f, Gone, Rest
  <2>5. QED
    BY <2>3, <2>4 DEF Surjection
<1>8. missing \in SUBSET Gone
  <2>1. ASSUME NEW e \in missing PROVE e \in Gone
    <3>1. e \in 0 .. E - 1 /\ Turns(e) = {}
      BY <1>4, FS_EmptySet
    <3>2. PICK k \in 1 .. E : order[k] = e
      BY <1>1, <3>1, PlaceOfEpisode
    <3>3. k \notin 1 .. T
      BY <1>3, <3>1, <3>2
    <3>4. k \in Rest
      BY <1>1, <3>3
    <3>5. QED
      BY <3>1, <3>2, <3>4
  <2>2. QED
    BY <2>1
<1> HIDE DEF f, Gone, Rest, missing
<1>9. IsFiniteSet(Gone) /\ Cardinality(Gone) <= Cardinality(Rest)
  BY <1>6, <1>7, FS_Surjection
<1>10. IsFiniteSet(missing) /\ Cardinality(missing) <= Cardinality(Gone)
  BY <1>8, <1>9, FS_Subset
<1>11. Cardinality(missing) \in Nat /\ Cardinality(Gone) \in Nat /\ Cardinality(Rest) \in Nat
  BY <1>6, <1>9, <1>10, FS_CardinalityType
<1>12. Cardinality(missing) < R
  BY <1>1, <1>6, <1>9, <1>10, <1>11
<1>13. QED
  BY <1>5, <1>10, <1>12 DEF missing, E, R

(* Round robin: rank r has the episodes e with e % R = r. *)
LEMMA StrideIs ==
    ASSUME Shares!SharesAssumption, SharesInv, plan.kind = "round_robin", NEW r \in DOMAIN shares
    PROVE  /\ r \in 0 .. plan.ranks - 1
           /\ Len(shares[r]) \in Nat /\ Len(shares[r]) <= plan.episodes
           /\ plan.episodes - r <= plan.ranks * Len(shares[r])
           /\ \A k \in 1 .. Len(shares[r]) : shares[r][k] = r + (k - 1) * plan.ranks
<1> DEFINE E == plan.episodes
           R == plan.ranks
           c == Shares!CeilDiv(E - r, R)
           t == [k \in 1 .. c |-> r + (k - 1) * R]
<1>1. E \in Nat /\ R \in Nat \ {0} /\ r \in 0 .. R - 1
  BY DEF SharesInv, Shares!SharesAssumption
<1>2. shares[r] = t
  BY DEF SharesInv, ShareOf, Shares!Stride
<1>3. c \in Int /\ E - r <= R * c /\ R * c < (E - r) + R
  <2>1. E - r \in Int
    BY <1>1
  <2>2. QED
    BY <1>1, <2>1, CeilDivIs
<1> HIDE DEF E, R, c
<1>4. c \in Nat
  <2>1. SUFFICES ASSUME c <= -1 PROVE FALSE
    BY <1>3
  <2>2. R * c <= R * (-1) /\ R * (-1) = -R /\ R * c \in Int
    BY <1>1, <1>3, <2>1, ProductOrder
  <2>3. QED
    BY <1>1, <1>3, <2>2
<1>5. Len(t) = c /\ \A k \in 1 .. c : t[k] = r + (k - 1) * R
  <2>1. \A k \in 1 .. c : r + (k - 1) * R \in Int
    BY <1>1, <1>4
  <2>2. t \in [1 .. c -> Int]
    BY <2>1
  <2>3. t \in Seq(Int) /\ Len(t) = c
    BY <1>4, <2>2
  <2>4. QED
    BY <2>3
<1>6. c <= E
  <2>1. SUFFICES ASSUME E + 1 <= c PROVE FALSE
    BY <1>1, <1>4
  <2>2. R * (E + 1) <= R * c /\ R * (E + 1) = E * R + R
    BY <1>1, <1>4, <2>1, ProductOrder
  <2>3. E * 1 <= E * R /\ E * 1 = E /\ E * R \in Int
    <3>1. 1 \in Int /\ R \in Int /\ 1 <= R
      BY <1>1
    <3>2. QED
      BY <1>1, <3>1, ProductOrder
  <2>4. R * c \in Int
    BY <1>1, <1>4
  <2>5. QED
    BY <1>1, <1>3, <2>2, <2>3, <2>4
<1> HIDE DEF t
<1>7. QED
  BY <1>1, <1>2, <1>3, <1>4, <1>5, <1>6 DEF E, R

LEMMA StrideCovers ==
    ASSUME Shares!SharesAssumption, SharesInv, plan.kind = "round_robin",
           DOMAIN shares = 0 .. plan.ranks - 1, NEW e \in 0 .. plan.episodes - 1
    PROVE  Shares!Times(e) # 0 /\ Shares!Times(e) <= 1
<1> DEFINE E == plan.episodes
           R == plan.ranks
<1>1. E \in Nat /\ R \in Nat \ {0}
  BY DEF SharesInv, Shares!SharesAssumption
<1>2. \A r \in 0 .. R - 1 :
        /\ Len(shares[r]) \in Nat /\ Len(shares[r]) <= E /\ E - r <= R * Len(shares[r])
        /\ \A k \in 1 .. Len(shares[r]) : shares[r][k] = r + (k - 1) * R
  BY StrideIs
<1>3. Spots(e) = {at \in (0 .. R - 1) \X (1 .. 2 * E) :
                    at[2] <= Len(shares[at[1]]) /\ shares[at[1]][at[2]] = e}
  BY DEF Spots
<1>4. e \in 0 .. E - 1
  OBVIOUS
<1> HIDE DEF E, R
<1>5. ASSUME NEW at \in Spots(e)
      PROVE  /\ at = <<at[1], at[2]>> /\ at[1] \in 0 .. R - 1 /\ at[2] \in Nat \ {0}
             /\ at[1] + (at[2] - 1) * R = e
  <2>1. /\ at = <<at[1], at[2]>> /\ at[1] \in 0 .. R - 1 /\ at[2] \in 1 .. 2 * E
        /\ at[2] <= Len(shares[at[1]]) /\ shares[at[1]][at[2]] = e
    BY <1>3
  <2>2. at[2] \in 1 .. Len(shares[at[1]])
    BY <1>2, <2>1
  <2>3. QED
    BY <1>2, <2>1, <2>2
<1>6. ASSUME NEW a \in Spots(e), NEW b \in Spots(e) PROVE a = b
  <2> DEFINE r == a[1]
             s == b[1]
             j == a[2] - 1
             k == b[2] - 1
  <2>1. /\ r \in 0 .. R - 1 /\ s \in 0 .. R - 1 /\ j \in Nat /\ k \in Nat
        /\ r + j * R = e /\ s + k * R = e
    BY <1>5
  <2>2. a = <<r, j + 1>> /\ b = <<s, k + 1>>
    BY <1>5
  <2> HIDE DEF r, s, j, k
  <2>3. r + 1 \in 1 .. R /\ s + 1 \in 1 .. R /\ R * j + (r + 1) = R * k + (s + 1)
    <3>1. j * R = R * j /\ k * R = R * k /\ R * j \in Int /\ R * k \in Int
      BY <1>1, <2>1
    <3>2. QED
      BY <1>1, <2>1, <3>1
  <2>4. j = k /\ r + 1 = s + 1
    <3> DEFINE x == r + 1
               y == s + 1
    <3>1. x \in 1 .. R /\ y \in 1 .. R /\ R * j + x = R * k + y
      BY <2>3
    <3> HIDE DEF x, y
    <3>2. j = k /\ x = y
      BY <1>1, <2>1, <3>1, SliceOnce
    <3>3. QED
      BY <3>2 DEF x, y
  <2>5. r = s
    BY <2>1, <2>4
  <2>6. QED
    BY <2>2, <2>4, <2>5
<1>7. Spots(e) # {}
  <2> DEFINE r == e % R
             d == e \div R
  <2>1. r \in 0 .. R - 1 /\ d \in Int /\ e = R * d + r
    BY <1>1, <1>4
  <2> HIDE DEF r, d
  <2>2. d \in Nat
    <3>1. SUFFICES ASSUME d <= -1 PROVE FALSE
      BY <2>1
    <3>2. R * d <= R * (-1) /\ R * (-1) = -R /\ R * d \in Int
      BY <1>1, <2>1, <3>1, ProductOrder
    <3>3. QED
      BY <1>1, <1>4, <2>1, <3>2
  <2> DEFINE c == Len(shares[r])
  <2>3. c \in Nat /\ c <= E /\ E - r <= R * c
    BY <1>2, <2>1
  <2> HIDE DEF c
  <2>4. d + 1 <= c
    <3>1. SUFFICES ASSUME c <= d PROVE FALSE
      BY <2>2, <2>3
    <3>2. R * c <= R * d /\ R * c \in Int /\ R * d \in Int
      BY <1>1, <2>2, <2>3, <3>1, ProductOrder
    <3>3. QED
      BY <1>1, <1>4, <2>1, <2>3, <3>2
  <2>5. d + 1 \in 1 .. c /\ d + 1 \in 1 .. 2 * E /\ (d + 1) - 1 = d
    BY <1>1, <2>2, <2>3, <2>4
  <2>6. shares[r][d + 1] = r + ((d + 1) - 1) * R
    BY <1>2, <2>1, <2>5 DEF c
  <2>7. r + ((d + 1) - 1) * R = e
    <3>1. d * R = R * d /\ R * d \in Int
      BY <1>1, <2>2
    <3>2. QED
      BY <2>1, <2>5, <3>1
  <2>8. <<r, d + 1>> \in Spots(e)
    BY <1>3, <2>1, <2>4, <2>5, <2>6, <2>7 DEF c
  <2>9. QED
    BY <2>8
<1>8. Shares!Times(e) <= 1
  BY <1>6, OneSpot
<1>9. QED
  BY <1>7, <1>8, SpotsCounted

(* Complete: every rank has its share. *)
LEMMA AllRanks ==
    ASSUME Shares!SharesAssumption, SharesInv, Shares!Complete, plan.kind # "split"
    PROVE  DOMAIN shares = 0 .. plan.ranks - 1
<1> DEFINE R == plan.ranks
           D == DOMAIN shares
<1>1. R \in Nat \ {0} /\ D \in SUBSET (0 .. R - 1) /\ Cardinality(D) = R
  BY SharesCount DEF SharesInv, Shares!SharesAssumption, Shares!Complete
<1> HIDE DEF R, D
<1>2. 0 \in Int /\ R - 1 \in Int
  BY <1>1
<1>3. /\ IsFiniteSet(0 .. R - 1)
      /\ Cardinality(0 .. R - 1) = IF 0 > R - 1 THEN 0 ELSE (R - 1) - 0 + 1
  BY <1>2, FS_Interval
<1>4. Cardinality(0 .. R - 1) = R
  BY <1>1, <1>3
<1>5. QED
  BY <1>1, <1>3, <1>4, FS_Subset DEF R, D

LEMMA SharesOfInv == ASSUME Shares!SharesAssumption, SharesInv PROVE Shares!SharesCover
<1> DEFINE E == 0 .. plan.episodes - 1
           padded == plan.kind = "sampler" /\ ~plan.drop_last
           missing == {e \in E : Shares!Times(e) = 0}
<1>1. SUFFICES ASSUME Shares!Complete
               PROVE  /\ ~padded => \A e \in E : Shares!Times(e) <= 1
                      /\ padded => \A e, f \in E : Shares!Times(e) <= Shares!Times(f) + 1
                      /\ IF plan.kind = "sampler" /\ plan.drop_last
                         THEN Cardinality(missing) < plan.ranks ELSE missing = {}
                      /\ plan.kind = "sampler" =>
                           \A r, s \in DOMAIN shares : Len(shares[r]) = Len(shares[s])
                      /\ plan.kind = "split" /\ plan.val_percent \in 0 .. 100 =>
                           200 * Len(shares[1]) - 2 * plan.val_percent * plan.episodes
                             \in -100 .. 100
  BY SharesCount DEF Shares!SharesCover
<1>2. plan.kind \in {"split", "sampler", "round_robin"}
  BY DEF SharesInv, Shares!SharesAssumption
<1>3. CASE plan.kind = "split"
  <2>1. shares # <<>>
    BY <1>1, <1>3 DEF Shares!Complete
  <2>2. \A e \in E : Spots(e) # {} /\ \A a, b \in Spots(e) : a = b
    BY <1>3, <2>1, SplitCovers
  <2>3. plan.val_percent \in 0 .. 100 =>
          200 * Len(shares[1]) - 2 * plan.val_percent * plan.episodes \in -100 .. 100
    BY <1>3, <2>1, SplitCovers
  <2>4. \A e \in E : Shares!Times(e) # 0 /\ Shares!Times(e) <= 1
    BY <2>2, SpotsCounted, OneSpot
  <2> HIDE DEF E
  <2>5. QED
    BY <1>3, <2>3, <2>4
<1>4. CASE plan.kind = "round_robin"
  <2>1. \A e \in E : Shares!Times(e) # 0 /\ Shares!Times(e) <= 1
    BY <1>1, <1>4, AllRanks, StrideCovers
  <2> HIDE DEF E
  <2>2. QED
    BY <1>4, <2>1
<1>5. CASE plan.kind = "sampler"
  <2>1. \A r, s \in DOMAIN shares : Len(shares[r]) = Len(shares[s])
    BY <1>5, SampleShare
  <2>2. DOMAIN shares = 0 .. plan.ranks - 1
    BY <1>1, <1>5, AllRanks
  <2>3. CASE plan.drop_last
    <3>1. \A e \in E : Shares!Times(e) <= 1
      BY <1>5, <2>2, <2>3, CutCovers
    <3>2. Cardinality(missing) < plan.ranks
      BY <1>5, <2>2, <2>3, CutCovers
    <3> HIDE DEF E, missing
    <3>3. QED
      BY <1>5, <2>1, <2>3, <3>1, <3>2
  <2>4. CASE ~plan.drop_last
    <3>1. \A e \in E : /\ Shares!Times(e) # 0
                       /\ \A h \in E : Shares!Times(e) <= Shares!Times(h) + 1
      BY <1>5, <2>2, <2>4, PaddedCovers
    <3> HIDE DEF E
    <3>2. missing = {}
      BY <3>1
    <3>3. QED
      BY <1>5, <2>1, <2>4, <3>1, <3>2
  <2>5. QED
    BY <2>3, <2>4
<1>6. QED
  BY <1>2, <1>3, <1>4, <1>5

(* When every rank has its share, no episode is in two and none is missing, but
   for what drop_last drops - fewer episodes than ranks - and for the padding,
   which repeats none before all have been repeated; the sampler's shares have one
   length, and a split has the fraction asked for, to half an episode
   (DistributedSampler and shard_episodes, distributed.py, and split_episodes,
   split.rs). *)
THEOREM SharesCoverAll == ASSUME Shares!SharesAssumption PROVE Spec => []SharesCover
<1>1. Init => SharesInv
  BY SharesInit DEF Init
<1>2. SharesInv /\ [Next]_vars => SharesInv'
  BY Steps, SharesNext
<1>3. SharesInv => SharesCover
  BY SharesOfInv DEF SharesCover
<1>4. QED
  BY <1>1, <1>2, <1>3, PTL DEF Spec

=============================================================================
