---------------------------- MODULE PrefetchProofs ----------------------------
(* Proofs about the prefetch pipeline, for any workers, epoch, prefetch       *)
(* argument and outcomes of assembly.                                         *)
EXTENDS Prefetch, TLAPS, FiniteSetTheorems, SequenceTheorems

LEMMA PermitsPositive == Permits \in Nat /\ Permits > 0
<1>1. Cardinality(Workers) \in Nat /\ Cardinality(Workers) # 0
  BY PrefetchAssumption, FS_CardinalityType, FS_EmptySet
<1>2. QED
  BY <1>1, PrefetchAssumption DEF Permits

(***************************************************************************)
(* Types.  The feeder holds a permit only for a job that exists, and an     *)
(* assembling worker has a job.                                             *)
(***************************************************************************)
TypeInv ==
    /\ TypeOK
    /\ feeder = "send" => fed < num_batches
    /\ \A w \in Held : job[w] \in Batches

LEMMA TypeInvInit == Init => TypeInv
<1> SUFFICES ASSUME Init PROVE TypeInv
  OBVIOUS
<1>1. tokens \in 0 .. Permits /\ fed \in 0 .. num_batches /\ next_seq \in 0 .. num_batches
  BY PermitsPositive, PrefetchAssumption DEF Init
<1>2. job_q \in Seq(Batches) /\ result_q \in Seq(Results) /\ delivered \in Seq(Results)
  BY DEF Init
<1>3. QED
  BY <1>1, <1>2 DEF Init, TypeInv, TypeOK, Held

LEMMA TypeInvFeeder == TypeInv /\ Feeder => TypeInv'
<1> SUFFICES ASSUME TypeInv, Feeder PROVE TypeInv'
  OBVIOUS
<1> USE PermitsPositive, PrefetchAssumption
<1>1. CASE FeederTakesToken
  BY <1>1 DEF FeederTakesToken, TypeInv, TypeOK, Held, workerVars, consumerVars
<1>2. CASE FeederSends
  <2>1. fed \in Batches
    BY <1>2 DEF FeederSends, TypeInv, TypeOK, Batches
  <2>2. QED
    BY <1>2, <2>1 DEF FeederSends, TypeInv, TypeOK, Held, workerVars, consumerVars
<1>3. CASE FeederExits
  BY <1>3 DEF FeederExits, TypeInv, TypeOK, Held, workerVars, consumerVars
<1>4. QED
  BY <1>1, <1>2, <1>3 DEF Feeder

LEMMA OutcomeType ==
    ASSUME TypeInv, NEW w \in Held
    PROVE  Outcome(w) \in {"ok", "err", "panic"}
BY PrefetchAssumption DEF TypeInv, Outcome, Held

LEMMA TypeInvWorker == ASSUME TypeInv, NEW w \in Workers, Worker(w) PROVE TypeInv'
<1> USE DEF TypeInv, TypeOK, Held, feederVars, consumerVars
<1>1. CASE WorkerBuilds(w)
  BY <1>1 DEF WorkerBuilds
<1>2. CASE WorkerClaims(w)
  <2>1. Head(job_q) \in Batches /\ Tail(job_q) \in Seq(Batches)
    BY <1>2 DEF WorkerClaims
  <2>2. QED
    BY <1>2, <2>1 DEF WorkerClaims
<1>3. CASE WorkerSeesClosed(w)
  BY <1>3 DEF WorkerSeesClosed
<1>4. CASE WorkerSends(w)
  <2>1. [seq |-> job[w], res |-> Outcome(w)] \in Results
    BY <1>4, OutcomeType DEF WorkerSends, Results
  <2>2. QED
    BY <1>4, <2>1 DEF WorkerSends
<1>5. CASE WorkerSendFails(w)
  BY <1>5 DEF WorkerSendFails
<1>6. CASE WorkerPanics(w)
  BY <1>6 DEF WorkerPanics
<1>7. QED
  BY <1>1, <1>2, <1>3, <1>4, <1>5, <1>6 DEF Worker

LEMMA TypeInvConsumer ==
    ASSUME TypeInv, CallNext \/ NextBatch \/ DropResults \/ DropTokens
    PROVE  TypeInv'
<1> USE DEF TypeInv, TypeOK, Held, feederVars, workerVars
<1>1. CASE CallNext
  BY <1>1 DEF CallNext
<1>2. CASE EpochExhausted
  BY <1>2 DEF EpochExhausted
<1>3. CASE ReturnBatch
  <2>1. PICK r \in Ready : buffer' = buffer \ {r} /\ delivered' = Append(delivered, r)
    BY <1>3 DEF ReturnBatch
  <2>2. r \in Results
    BY DEF Ready
  <2>3. tokens' \in 0 .. Permits /\ next_seq' \in 0 .. num_batches
    BY <1>3, PermitsPositive, PrefetchAssumption DEF ReturnBatch
  <2>4. QED
    BY <1>3, <2>1, <2>2, <2>3 DEF ReturnBatch
<1>4. CASE ReceiveResult
  <2>1. Head(result_q) \in Results /\ Tail(result_q) \in Seq(Results)
    BY <1>4 DEF ReceiveResult
  <2>2. QED
    BY <1>4, <2>1 DEF ReceiveResult
<1>5. CASE SendersGone
  BY <1>5 DEF SendersGone
<1>6. CASE DropResults
  BY <1>6 DEF DropResults
<1>7. CASE DropTokens
  BY <1>7 DEF DropTokens
<1>8. QED
  BY <1>1, <1>2, <1>3, <1>4, <1>5, <1>6, <1>7 DEF NextBatch

LEMMA TypeInvNext == TypeInv /\ [Next]_vars => TypeInv'
<1> SUFFICES ASSUME TypeInv, [Next]_vars PROVE TypeInv'
  OBVIOUS
<1>1. CASE Feeder
  BY <1>1, TypeInvFeeder
<1>2. CASE \E w \in Workers : Worker(w)
  BY <1>2, TypeInvWorker
<1>3. CASE CallNext \/ NextBatch \/ DropResults \/ DropTokens
  BY <1>3, TypeInvConsumer
<1>4. CASE UNCHANGED vars
  BY <1>4 DEF vars, feederVars, workerVars, consumerVars, TypeInv, TypeOK, Held
<1>5. QED
  BY <1>1, <1>2, <1>3, <1>4 DEF Next, Terminated

LEMMA TypeInvAlways == Spec => []TypeInv
BY TypeInvInit, TypeInvNext, PTL DEF Spec

(* Every variable of the pipeline keeps its type, whatever the threads do. *)
THEOREM TypeCorrect == Spec => []TypeOK
<1>1. TypeInv => TypeOK
  BY DEF TypeInv
<1>2. QED
  BY <1>1, TypeInvAlways, PTL

(***************************************************************************)
(* Permits.                                                                *)
(***************************************************************************)
LEMMA PermitsConservedNext ==
    TypeInv /\ PermitsConserved /\ [Next]_vars => PermitsConserved'
<1> SUFFICES ASSUME TypeInv, PermitsConserved, [Next]_vars PROVE PermitsConserved'
  OBVIOUS
<1> USE PermitsPositive, PrefetchAssumption
        DEF TypeInv, TypeOK, PermitsConserved, feederVars, workerVars, consumerVars
<1>1. CASE FeederTakesToken
  BY <1>1 DEF FeederTakesToken
<1>2. CASE FeederSends
  BY <1>2 DEF FeederSends
<1>3. CASE FeederExits
  BY <1>3 DEF FeederExits
<1>4. ASSUME NEW w \in Workers, Worker(w)
      PROVE  PermitsConserved'
  BY <1>4 DEF Worker, WorkerBuilds, WorkerClaims, WorkerSeesClosed, WorkerSends,
              WorkerSendFails, WorkerPanics
<1>5. CASE ReturnBatch
  BY <1>5 DEF ReturnBatch
<1>6. CASE \/ CallNext \/ EpochExhausted \/ ReceiveResult \/ SendersGone
           \/ DropResults \/ DropTokens
  BY <1>6 DEF CallNext, EpochExhausted, ReceiveResult, SendersGone, DropResults, DropTokens
<1>7. CASE UNCHANGED vars
  BY <1>7 DEF vars
<1>8. QED
  BY <1>1, <1>2, <1>3, <1>4, <1>5, <1>6, <1>7 DEF Next, Feeder, NextBatch, Terminated

(* No interleaving creates or loses a permit: token_tx.send in next_batch
   always finds room, and the feeder is never more than Permits batches ahead
   of the consumer. *)
THEOREM PermitsCorrect == Spec => []PermitsConserved
<1>1. Init => PermitsConserved
  BY PermitsPositive DEF Init, PermitsConserved
<1>2. QED
  BY <1>1, TypeInvAlways, PermitsConservedNext, PTL DEF Spec

(***************************************************************************)
(* Channels: what appending and taking the head do to a channel's contents. *)
(***************************************************************************)
LEMMA ContentsAppend ==
    ASSUME NEW S, NEW q \in Seq(S), NEW e \in S
    PROVE  Contents(Append(q, e)) = Contents(q) \cup {e}
<1>1. Contents(Append(q, e)) \subseteq Contents(q) \cup {e}
  BY DEF Contents
<1>2. e \in Contents(Append(q, e))
  <2>1. Len(q) + 1 \in DOMAIN Append(q, e) /\ Append(q, e)[Len(q) + 1] = e
    OBVIOUS
  <2>2. QED
    BY <2>1 DEF Contents
<1>3. Contents(q) \subseteq Contents(Append(q, e))
  <2>1. ASSUME NEW i \in DOMAIN q
        PROVE  i \in DOMAIN Append(q, e) /\ Append(q, e)[i] = q[i]
    OBVIOUS
  <2>2. QED
    BY <2>1 DEF Contents
<1>4. QED
  BY <1>1, <1>2, <1>3

LEMMA ContentsTail ==
    ASSUME NEW S, NEW q \in Seq(S), q # <<>>
    PROVE  Contents(q) = {Head(q)} \cup Contents(Tail(q))
<1>1. Head(q) \in Contents(q)
  <2>1. 1 \in DOMAIN q /\ Head(q) = q[1]
    OBVIOUS
  <2>2. QED
    BY <2>1 DEF Contents
<1>2. Contents(Tail(q)) \subseteq Contents(q)
  <2>1. ASSUME NEW i \in DOMAIN Tail(q)
        PROVE  i + 1 \in DOMAIN q /\ Tail(q)[i] = q[i + 1]
    OBVIOUS
  <2>2. QED
    BY <2>1 DEF Contents
<1>3. Contents(q) \subseteq {Head(q)} \cup Contents(Tail(q))
  <2>1. ASSUME NEW i \in DOMAIN q, i # 1
        PROVE  i - 1 \in DOMAIN Tail(q) /\ Tail(q)[i - 1] = q[i]
    <3>1. Len(Tail(q)) = Len(q) - 1 /\ Tail(q) \in Seq(S)
      BY HeadTailProperties
    <3>2. \A j \in 1 .. Len(q) - 1 : Tail(q)[j] = q[j + 1]
      BY <3>1, HeadTailProperties
    <3>3. i - 1 \in 1 .. Len(q) - 1 /\ (i - 1) + 1 = i
      <4>1. Len(q) \in Nat /\ i \in 1 .. Len(q)
        BY LenProperties
      <4>2. QED
        BY <4>1, i # 1
    <3>4. QED
      BY <3>1, <3>2, <3>3
  <2>2. q[1] = Head(q)
    OBVIOUS
  <2>3. QED
    BY <2>1, <2>2 DEF Contents
<1>4. QED
  BY <1>1, <1>2, <1>3

(***************************************************************************)
(* Nothing is lost.  NothingLost is inductive: a dispatched batch changes    *)
(* place, and the only step that takes it out of the pipeline while others   *)
(* wait for it is its own return.                                           *)
(***************************************************************************)
Accounted(seq) ==
    Located(seq) \/ \E w \in Workers : worker[w] = "panicked" /\ job[w] = seq

LEMMA NothingLostFeeder == TypeInv /\ NothingLost /\ Feeder => NothingLost'
<1> SUFFICES ASSUME TypeInv, NothingLost, Feeder, ResultsOpen',
                    NEW seq \in next_seq' .. fed' - 1
             PROVE  Accounted(seq)'
  BY DEF NothingLost, Accounted
<1> USE DEF workerVars, consumerVars
<1>0. ResultsOpen
  BY DEF Feeder, FeederTakesToken, FeederSends, FeederExits, ResultsOpen
<1>1. CASE FeederTakesToken \/ FeederExits
  BY <1>0, <1>1 DEF FeederTakesToken, FeederExits, NothingLost, Accounted, Located, Held
<1>2. CASE FeederSends
  <2>1. Contents(job_q') = Contents(job_q) \cup {fed}
    <3>1. fed \in Batches /\ job_q \in Seq(Batches)
      BY <1>2, PrefetchAssumption DEF FeederSends, TypeInv, TypeOK, Batches
    <3>2. QED
      BY <3>1, ContentsAppend, <1>2 DEF FeederSends
  <2>2. CASE seq = fed
    BY <2>1, <2>2 DEF Accounted, Located
  <2>3. CASE seq # fed
    <3>1. seq \in next_seq .. fed - 1
      BY <2>3, <1>2 DEF FeederSends, TypeInv, TypeOK
    <3>2. Accounted(seq)
      BY <3>1, <1>0 DEF NothingLost, Accounted
    <3>3. QED
      BY <3>2, <2>1, <1>2 DEF FeederSends, Accounted, Located, Held
  <2>4. QED
    BY <2>2, <2>3
<1>3. QED
  BY <1>1, <1>2 DEF Feeder

LEMMA NothingLostWorker ==
    ASSUME TypeInv, NothingLost, NEW w \in Workers, Worker(w)
    PROVE  NothingLost'
<1> SUFFICES ASSUME ResultsOpen', NEW seq \in next_seq' .. fed' - 1
             PROVE  Accounted(seq)'
  BY DEF NothingLost, Accounted
<1> USE DEF feederVars, consumerVars
<1>0. ResultsOpen /\ Accounted(seq)
  BY DEF Worker, WorkerBuilds, WorkerClaims, WorkerSeesClosed, WorkerSends,
         WorkerSendFails, WorkerPanics, ResultsOpen, NothingLost, Accounted
<1>1. CASE WorkerBuilds(w) \/ WorkerSeesClosed(w) \/ WorkerPanics(w)
  BY <1>0, <1>1 DEF WorkerBuilds, WorkerSeesClosed, WorkerPanics, TypeInv, TypeOK,
                    Accounted, Located, Held
<1>2. CASE WorkerClaims(w)
  <2>1. Contents(job_q) = {job'[w]} \cup Contents(job_q')
    BY <1>2, ContentsTail DEF WorkerClaims, TypeInv, TypeOK
  <2>2. worker'[w] = "assemble"
    BY <1>2 DEF WorkerClaims, TypeInv, TypeOK
  <2>3. \A v \in Workers \ {w} : worker'[v] = worker[v] /\ job'[v] = job[v]
    BY <1>2 DEF WorkerClaims, TypeInv, TypeOK
  <2>4. worker[w] = "claim" /\ UNCHANGED <<result_q, buffer>>
    BY <1>2 DEF WorkerClaims
  <2>5. QED
    BY <1>0, <2>1, <2>2, <2>3, <2>4 DEF Accounted, Located, Held
<1>3. CASE WorkerSends(w)
  <2>1. Contents(result_q') = Contents(result_q) \cup {[seq |-> job[w], res |-> Outcome(w)]}
    <3>1. [seq |-> job[w], res |-> Outcome(w)] \in Results
      BY <1>3, OutcomeType DEF WorkerSends, Results, TypeInv, Held
    <3>2. QED
      BY <3>1, <1>3, ContentsAppend DEF WorkerSends, TypeInv, TypeOK
  <2>2. \A v \in Workers \ {w} : worker'[v] = worker[v] /\ job'[v] = job[v]
    BY <1>3 DEF WorkerSends, TypeInv, TypeOK
  <2>3. worker[w] = "assemble" /\ UNCHANGED <<job_q, buffer>>
    BY <1>3 DEF WorkerSends
  <2>4. \E r \in Contents(result_q') : r.seq = job[w]
    <3> DEFINE r == [seq |-> job[w], res |-> Outcome(w)]
    <3>1. r \in Contents(result_q') /\ r.seq = job[w]
      BY <2>1
    <3>2. QED
      BY <3>1
  <2>5. CASE seq = job[w]
    BY <2>4, <2>5 DEF Accounted, Located
  <2>6. CASE seq # job[w]
    <3>1. CASE seq \in Contents(job_q)
      BY <3>1, <2>3 DEF Accounted, Located, Contents
    <3>2. CASE \E v \in Workers \ {w} : worker[v] \in {"assemble", "panicked"} /\ job[v] = seq
      BY <3>2, <2>2 DEF Accounted, Located, Held
    <3>3. CASE \E r \in Contents(result_q) \cup buffer : r.seq = seq
      BY <3>3, <2>1, <2>3 DEF Accounted, Located
    <3>4. QED
      BY <1>0, <2>6, <3>1, <3>2, <3>3 DEF Accounted, Located, Held
  <2>7. QED
    BY <2>5, <2>6
<1>4. CASE WorkerSendFails(w)
  BY <1>0, <1>4 DEF WorkerSendFails
<1>5. QED
  BY <1>1, <1>2, <1>3, <1>4 DEF Worker

LEMMA NothingLostConsumer ==
    ASSUME TypeInv, NothingLost, CallNext \/ NextBatch \/ DropResults \/ DropTokens
    PROVE  NothingLost'
<1> SUFFICES ASSUME ResultsOpen', NEW seq \in next_seq' .. fed' - 1
             PROVE  Accounted(seq)'
  BY DEF NothingLost, Accounted
<1> USE DEF feederVars, workerVars
<1>0. ResultsOpen
  BY DEF CallNext, NextBatch, EpochExhausted, ReturnBatch, ReceiveResult, SendersGone,
         DropResults, DropTokens, ResultsOpen
<1>1. CASE CallNext \/ EpochExhausted \/ SendersGone
  BY <1>0, <1>1 DEF CallNext, EpochExhausted, SendersGone, NothingLost, Accounted, Located, Held
<1>2. CASE ReturnBatch
  <2>1. PICK r \in Ready : buffer' = buffer \ {r}
    BY <1>2 DEF ReturnBatch
  <2>2. seq \in next_seq .. fed - 1 /\ seq # next_seq
    BY <1>2 DEF ReturnBatch, TypeInv, TypeOK
  <2>3. Accounted(seq)
    BY <1>0, <2>2 DEF NothingLost, Accounted
  <2>4. r.seq # seq
    BY <2>2 DEF Ready
  <2>5. QED
    BY <1>2, <2>1, <2>3, <2>4 DEF ReturnBatch, Accounted, Located, Held
<1>3. CASE ReceiveResult
  <2>1. Contents(result_q) = {Head(result_q)} \cup Contents(result_q')
    BY <1>3, ContentsTail DEF ReceiveResult, TypeInv, TypeOK
  <2>2. Accounted(seq)
    BY <1>0, <1>3 DEF ReceiveResult, NothingLost, Accounted
  <2>3. buffer' = {r \in buffer : r.seq # Head(result_q).seq} \cup {Head(result_q)}
    BY <1>3 DEF ReceiveResult
  <2>4. UNCHANGED <<job_q, worker, job>>
    BY <1>3 DEF ReceiveResult
  <2>5. ASSUME NEW r \in Contents(result_q) \cup buffer, r.seq = seq
        PROVE  \E t \in Contents(result_q') \cup buffer' : t.seq = seq
    BY <2>1, <2>3, <2>5
  <2>6. CASE seq \in Contents(job_q)
    BY <2>4, <2>6 DEF Accounted, Located, Contents
  <2>7. CASE \E w \in Workers : worker[w] \in {"assemble", "panicked"} /\ job[w] = seq
    BY <2>4, <2>7 DEF Accounted, Located, Held
  <2>8. QED
    BY <2>2, <2>5, <2>6, <2>7 DEF Accounted, Located, Held
<1>4. CASE DropResults \/ DropTokens
  BY <1>4 DEF DropResults, DropTokens, ResultsOpen
<1>5. QED
  BY <1>1, <1>2, <1>3, <1>4 DEF NextBatch

(* A batch that was dispatched is somewhere in the pipeline until it is
   returned, or with the worker that panicked on it. *)
THEOREM NothingLostCorrect == Spec => []NothingLost
<1>1. Init => NothingLost
  BY DEF Init, NothingLost
<1>2. TypeInv /\ NothingLost /\ [Next]_vars => NothingLost'
  <2> SUFFICES ASSUME TypeInv, NothingLost, [Next]_vars PROVE NothingLost'
    OBVIOUS
  <2>1. CASE UNCHANGED vars
    BY <2>1 DEF vars, feederVars, workerVars, consumerVars, NothingLost, Located, Held,
                ResultsOpen, Contents
  <2>2. QED
    BY <2>1, NothingLostFeeder, NothingLostWorker, NothingLostConsumer DEF Next, Terminated
<1>3. QED
  BY <1>1, <1>2, TypeInvAlways, PTL DEF Spec

(***************************************************************************)
(* Order and outcome of what is delivered.                                 *)
(***************************************************************************)
ResultsHonest ==
    \A r \in Contents(result_q) \cup buffer : r \in Delivery!Answers(r.seq)

OrderInv == ResultsHonest /\ DeliveredInOrder

LEMMA OrderInvFeeder == OrderInv /\ Feeder => OrderInv'
BY DEF OrderInv, ResultsHonest, DeliveredInOrder, Contents, Feeder, FeederTakesToken,
       FeederSends, FeederExits, consumerVars

LEMMA OrderInvWorker ==
    ASSUME TypeInv, OrderInv, NEW w \in Workers, Worker(w)
    PROVE  OrderInv'
<1> USE DEF consumerVars
<1>1. CASE WorkerSends(w)
  <2> DEFINE r == [seq |-> job[w], res |-> Outcome(w)]
  <2>1. job[w] \in Batches /\ Outcome(w) \in {"ok", "err"}
    BY <1>1, OutcomeType DEF WorkerSends, TypeInv, Held
  <2>2. Contents(result_q') = Contents(result_q) \cup {r}
    <3>1. r \in Results
      BY <2>1 DEF Results
    <3>2. QED
      BY <3>1, <1>1, ContentsAppend DEF WorkerSends, TypeInv, TypeOK
  <2>3. r \in Delivery!Answers(job[w])
    BY <2>1 DEF Delivery!Answers, Outcome
  <2>4. QED
    BY <2>2, <2>3, <1>1 DEF WorkerSends, OrderInv, ResultsHonest, DeliveredInOrder
<1>2. CASE WorkerClaims(w)
  BY <1>2 DEF WorkerClaims, OrderInv, ResultsHonest, DeliveredInOrder, Contents
<1>3. CASE \/ WorkerBuilds(w) \/ WorkerSeesClosed(w)
           \/ WorkerSendFails(w) \/ WorkerPanics(w)
  BY <1>3 DEF WorkerBuilds, WorkerSeesClosed, WorkerSendFails, WorkerPanics,
              OrderInv, ResultsHonest, DeliveredInOrder, Contents
<1>4. QED
  BY <1>1, <1>2, <1>3 DEF Worker

LEMMA OrderInvReturn == TypeInv /\ OrderInv /\ ReturnBatch => OrderInv'
<1> SUFFICES ASSUME TypeInv, OrderInv, ReturnBatch PROVE OrderInv'
  OBVIOUS
<1>1. PICK r \in Ready : buffer' = buffer \ {r} /\ delivered' = Append(delivered, r)
  BY DEF ReturnBatch
<1>2. r \in Delivery!Answers(next_seq)
  BY DEF Ready, OrderInv, ResultsHonest
<1>3. next_seq' = next_seq + 1 /\ result_q' = result_q
  BY DEF ReturnBatch
<1>4. Len(delivered) = next_seq /\ next_seq \in Nat /\ delivered \in Seq(Results)
  BY PrefetchAssumption DEF OrderInv, DeliveredInOrder, TypeInv, TypeOK
<1>5. r \in Results
  BY DEF Ready, TypeInv, TypeOK
<1>6. Len(delivered') = next_seq'
  BY <1>1, <1>3, <1>4, <1>5
<1>7. ASSUME NEW i \in DOMAIN delivered'
      PROVE  delivered'[i] \in Delivery!Answers(i - 1)
  <2>1. CASE i = Len(delivered) + 1
    BY <2>1, <1>1, <1>2, <1>4, <1>5
  <2>2. CASE i \in DOMAIN delivered
    <3>1. delivered'[i] = delivered[i]
      BY <2>2, <1>1, <1>4, <1>5
    <3>2. QED
      BY <3>1, <2>2 DEF OrderInv, DeliveredInOrder
  <2>3. QED
    BY <2>1, <2>2, <1>1, <1>4, <1>5, <1>7
<1>8. QED
  BY <1>1, <1>3, <1>6, <1>7 DEF OrderInv, ResultsHonest, DeliveredInOrder, Contents

LEMMA OrderInvConsumer ==
    TypeInv /\ OrderInv /\ (CallNext \/ NextBatch \/ DropResults \/ DropTokens) => OrderInv'
<1> SUFFICES ASSUME TypeInv, OrderInv, CallNext \/ NextBatch \/ DropResults \/ DropTokens
             PROVE  OrderInv'
  OBVIOUS
<1>1. CASE CallNext \/ EpochExhausted \/ SendersGone \/ DropTokens
  BY <1>1 DEF CallNext, EpochExhausted, SendersGone, DropTokens,
              OrderInv, ResultsHonest, DeliveredInOrder, Contents
<1>2. CASE DropResults
  <2>1. Contents(result_q') = {}
    BY <1>2 DEF DropResults, Contents
  <2>2. QED
    BY <1>2, <2>1 DEF DropResults, OrderInv, ResultsHonest, DeliveredInOrder
<1>3. CASE ReceiveResult
  <2>1. Contents(result_q) = {Head(result_q)} \cup Contents(result_q')
    BY <1>3, ContentsTail DEF ReceiveResult, TypeInv, TypeOK
  <2>2. QED
    BY <1>3, <2>1 DEF ReceiveResult, OrderInv, ResultsHonest, DeliveredInOrder
<1>4. QED
  BY <1>1, <1>2, <1>3, OrderInvReturn DEF NextBatch

LEMMA OrderInvNext == TypeInv /\ OrderInv /\ [Next]_vars => OrderInv'
<1> SUFFICES ASSUME TypeInv, OrderInv, [Next]_vars PROVE OrderInv'
  OBVIOUS
<1>1. CASE UNCHANGED vars
  BY <1>1 DEF vars, feederVars, workerVars, consumerVars, OrderInv, ResultsHonest,
              DeliveredInOrder, Contents
<1>2. QED
  BY <1>1, OrderInvFeeder, OrderInvWorker, OrderInvConsumer DEF Next, Terminated

LEMMA OrderInvAlways == Spec => []OrderInv
<1>1. Init => OrderInv
  BY DEF Init, OrderInv, ResultsHonest, DeliveredInOrder, Contents
<1>2. QED
  BY <1>1, OrderInvNext, TypeInvAlways, PTL DEF Spec

(* Whatever order the workers finish in and whoever panics, next_batch returns
   batch 0, 1, 2, ... each once, and never the contents of a batch whose
   assembly failed. *)
THEOREM DeliveredInOrderCorrect == Spec => []DeliveredInOrder
<1>1. OrderInv => DeliveredInOrder
  BY DEF OrderInv
<1>2. QED
  BY <1>1, OrderInvAlways, PTL

(***************************************************************************)
(* The end of the epoch, when no assembly panics.  A worker leaves only when *)
(* the job channel is closed and empty, and the feeder closes it only after  *)
(* the last job: so there is always somebody to wait for.                   *)
(***************************************************************************)
NoPanic == Panicking = {}

EndInv ==
    /\ EndMeansExhausted
    /\ \A w \in Workers : worker[w] # "panicked"
    /\ ResultsOpen => /\ \A w \in Workers : worker[w] = "exited" =>
                                feeder = "exited" /\ job_q = <<>>
                      /\ feeder = "exited" => fed = num_batches

LEMMA SendersNeverGone ==
    ASSUME TypeInv, NothingLost, EndInv
    PROVE  ~SendersGone
<1> SUFFICES ASSUME SendersGone PROVE FALSE
  OBVIOUS
<1>1. ResultsOpen /\ next_seq < num_batches /\ Ready = {} /\ result_q = <<>>
  BY DEF SendersGone, ResultsOpen
<1>2. \A w \in Workers : worker[w] = "exited"
  BY DEF SendersGone, AllGone, Gone, EndInv
<1>3. job_q = <<>> /\ fed = num_batches
  BY <1>1, <1>2, PrefetchAssumption DEF EndInv
<1>4. next_seq \in next_seq .. fed - 1
  BY <1>1, <1>3, PrefetchAssumption DEF TypeInv, TypeOK
<1>5. Located(next_seq)
  BY <1>1, <1>2, <1>4 DEF NothingLost
<1>6. ~Located(next_seq)
  BY <1>1, <1>2, <1>3 DEF Located, Contents, Held, Ready
<1>7. QED
  BY <1>5, <1>6

LEMMA EndInvNext ==
    ASSUME NoPanic, TypeInv, NothingLost, EndInv, [Next]_vars
    PROVE  EndInv'
<1> USE PrefetchAssumption DEF TypeInv, TypeOK, EndInv, EndMeansExhausted, ResultsOpen,
        feederVars, workerVars, consumerVars
<1>1. CASE FeederTakesToken \/ FeederSends
  BY <1>1 DEF FeederTakesToken, FeederSends, AllGone, Gone
<1>2. CASE FeederExits
  <2>1. ResultsOpen => fed = num_batches
    BY <1>2 DEF FeederExits, AllGone, Gone, TokensOpen
  <2>2. QED
    BY <1>2, <2>1 DEF FeederExits
<1>3. ASSUME NEW w \in Workers, Worker(w)
      PROVE  EndInv'
  <2>1. ~WorkerPanics(w)
    BY OutcomeType, <1>3 DEF WorkerPanics, Outcome, NoPanic, Held
  <2>2. CASE WorkerBuilds(w)
    BY <2>2 DEF WorkerBuilds
  <2>3. CASE WorkerClaims(w)
    BY <2>3 DEF WorkerClaims
  <2>4. CASE WorkerSeesClosed(w)
    BY <2>4 DEF WorkerSeesClosed
  <2>5. CASE WorkerSends(w)
    BY <2>5 DEF WorkerSends
  <2>6. CASE WorkerSendFails(w)
    BY <2>6 DEF WorkerSendFails
  <2>7. QED
    BY <1>3, <2>1, <2>2, <2>3, <2>4, <2>5, <2>6 DEF Worker
<1>4. CASE CallNext \/ DropResults \/ DropTokens
  BY <1>4 DEF CallNext, DropResults, DropTokens
<1>5. CASE EpochExhausted
  BY <1>5 DEF EpochExhausted
<1>6. CASE ReturnBatch
  <2>1. ~ended
    BY <1>6 DEF ReturnBatch
  <2>2. QED
    BY <1>6, <2>1 DEF ReturnBatch
<1>7. CASE ReceiveResult
  BY <1>7 DEF ReceiveResult
<1>8. CASE UNCHANGED vars
  BY <1>8 DEF vars
<1>9. QED
  BY <1>1, <1>2, <1>3, <1>4, <1>5, <1>6, <1>7, <1>8, SendersNeverGone
  DEF Next, Feeder, NextBatch, Terminated

LEMMA EndInvAlways == ASSUME NoPanic PROVE Spec => []EndInv
<1>1. Init => EndInv
  BY DEF Init, EndInv, EndMeansExhausted
<1>2. QED
  BY <1>1, EndInvNext, TypeInvAlways, NothingLostCorrect, PTL DEF Spec

(* If no assembly panics, next_batch returns None only after every batch. *)
THEOREM EndCorrect == ASSUME NoPanic PROVE Spec => []EndMeansExhausted
<1>1. EndInv => EndMeansExhausted
  BY DEF EndInv
<1>2. QED
  BY <1>1, EndInvAlways, PTL

(***************************************************************************)
(* The pipeline implements the abstract epoch.                             *)
(***************************************************************************)
LEMMA DeliveryStep ==
    ASSUME NoPanic, TypeInv, NothingLost, OrderInv, EndInv, [Next]_vars
    PROVE  [Delivery!Next]_(Delivery!vars)
<1> USE DEF Delivery!Next, Delivery!vars, feederVars, workerVars, consumerVars
<1>1. CASE CallNext
  BY <1>1 DEF CallNext, Delivery!Ask
<1>2. CASE EpochExhausted
  <2>1. Len(delivered) = num_batches
    BY <1>2, PrefetchAssumption
    DEF EpochExhausted, OrderInv, DeliveredInOrder, TypeInv, TypeOK
  <2>2. QED
    BY <1>2, <2>1 DEF EpochExhausted, Delivery!End
<1>3. CASE ReturnBatch
  <2>1. PICK r \in Ready : delivered' = Append(delivered, r)
    BY <1>3 DEF ReturnBatch
  <2>2. Len(delivered) = next_seq /\ next_seq < num_batches
    BY <1>3 DEF ReturnBatch, OrderInv, DeliveredInOrder
  <2>3. r \in Delivery!Answers(Len(delivered))
    BY <2>2 DEF Ready, OrderInv, ResultsHonest
  <2>4. consumer = "waiting" /\ consumer' = "idle" /\ ended' = ended
    BY <1>3 DEF ReturnBatch
  <2>5. ended' = FALSE
    BY <2>2, <2>4, PrefetchAssumption DEF EndInv, EndMeansExhausted, TypeInv, TypeOK
  <2>6. QED
    BY <2>1, <2>2, <2>3, <2>4, <2>5 DEF Delivery!Deliver
<1>4. CASE Feeder
  BY <1>4 DEF Feeder, FeederTakesToken, FeederSends, FeederExits
<1>5. ASSUME NEW w \in Workers, Worker(w)
      PROVE  UNCHANGED Delivery!vars
  BY <1>5 DEF Worker, WorkerBuilds, WorkerClaims, WorkerSeesClosed, WorkerSends,
              WorkerSendFails, WorkerPanics
<1>6. CASE ReceiveResult \/ DropResults \/ DropTokens
  BY <1>6 DEF ReceiveResult, DropResults, DropTokens
<1>7. CASE UNCHANGED vars
  BY <1>7 DEF vars
<1>8. QED
  BY <1>1, <1>2, <1>3, <1>4, <1>5, <1>6, <1>7, SendersNeverGone
  DEF Next, NextBatch, Terminated

(* Feeder, workers, channels, permits and the reorder buffer together are, to
   the caller of next_batch, one sequence of batches handed out in order. *)
THEOREM PrefetchImplementsDelivery == ASSUME NoPanic PROVE Spec => ImplementsDelivery
<1>1. Init => Delivery!Init
  BY DEF Init, Delivery!Init
<1>2. QED
  BY <1>1, DeliveryStep, TypeInvAlways, NothingLostCorrect, OrderInvAlways, EndInvAlways, PTL
  DEF Spec, ImplementsDelivery, Delivery!Spec

(***************************************************************************)
(* Memory backpressure.  The number of batches in the pipeline is at most    *)
(* the number dispatched and not returned, which the permits bound.         *)
(***************************************************************************)
InFlight == Len(job_q) + Cardinality(Held) + Len(result_q) + Cardinality(buffer)
Dispatched == fed + (IF feeder = "send" THEN 1 ELSE 0)

FlightInv ==
    /\ IsFiniteSet(buffer)
    /\ InFlight <= fed - next_seq
    /\ Dispatched - next_seq <= Permits

LEMMA HeldFinite ==
    /\ IsFiniteSet(Held) /\ Cardinality(Held) \in Nat
    /\ \A w \in Held : Cardinality(Held \ {w}) = Cardinality(Held) - 1
    /\ \A w : w \notin Held => Cardinality(Held \cup {w}) = Cardinality(Held) + 1
<1>1. IsFiniteSet(Held)
  BY FS_Subset, PrefetchAssumption DEF Held
<1>2. QED
  BY <1>1, FS_CardinalityType, FS_RemoveElement, FS_AddElement

LEMMA OneMore ==
    ASSUME NEW S, IsFiniteSet(S), NEW x
    PROVE  /\ IsFiniteSet(S \cup {x}) /\ Cardinality(S \cup {x}) \in Nat
           /\ Cardinality(S \cup {x}) <= Cardinality(S) + 1
<1>1. Cardinality(S) \in Nat
  BY FS_CardinalityType
<1>2. /\ IsFiniteSet(S \cup {x})
      /\ Cardinality(S \cup {x}) = IF x \in S THEN Cardinality(S) ELSE Cardinality(S) + 1
  BY FS_AddElement
<1>3. QED
  BY <1>1, <1>2

LEMMA FlightWorker ==
    ASSUME TypeInv, FlightInv, NEW w \in Workers, Worker(w)
    PROVE  FlightInv'
<1> USE DEF feederVars, consumerVars
<1>0. /\ Cardinality(Held) \in Nat /\ Cardinality(buffer) \in Nat
      /\ Len(job_q) \in Nat /\ Len(result_q) \in Nat
      /\ fed \in Int /\ next_seq \in Int
  BY HeldFinite, FS_CardinalityType DEF FlightInv, TypeInv, TypeOK
<1>1. UNCHANGED <<fed, feeder, next_seq, buffer>>
  BY DEF Worker, WorkerBuilds, WorkerClaims, WorkerSeesClosed, WorkerSends,
         WorkerSendFails, WorkerPanics
<1>2. SUFFICES Len(job_q') + Cardinality(Held') + Len(result_q')
               <= Len(job_q) + Cardinality(Held) + Len(result_q)
               /\ Len(job_q') \in Nat /\ Len(result_q') \in Nat /\ Cardinality(Held') \in Nat
  BY <1>0, <1>1, <1>2 DEF FlightInv, InFlight, Dispatched, Permits
<1>3. CASE WorkerClaims(w)
  <2>1. Held' = Held \cup {w} /\ w \notin Held
    BY <1>3 DEF WorkerClaims, Held, TypeInv, TypeOK
  <2>2. Len(job_q') = Len(job_q) - 1 /\ Len(job_q) # 0
    BY <1>3, HeadTailProperties, EmptySeq DEF WorkerClaims, TypeInv, TypeOK
  <2>3. QED
    BY <1>0, <1>3, <2>1, <2>2, HeldFinite DEF WorkerClaims
<1>4. CASE WorkerSends(w)
  <2>1. Held' = Held \ {w} /\ w \in Held
    BY <1>4 DEF WorkerSends, Held, TypeInv, TypeOK
  <2>2. Len(result_q') = Len(result_q) + 1
    BY <1>4 DEF WorkerSends, TypeInv, TypeOK
  <2>3. Cardinality(Held') = Cardinality(Held) - 1 /\ Cardinality(Held') \in Nat
    BY <2>1, HeldFinite, FS_RemoveElement, FS_CardinalityType
  <2>4. QED
    BY <1>0, <1>4, <2>2, <2>3 DEF WorkerSends
<1>5. CASE WorkerSendFails(w) \/ WorkerPanics(w)
  <2>1. Held' = Held \ {w} /\ w \in Held
    BY <1>5 DEF WorkerSendFails, WorkerPanics, Held, TypeInv, TypeOK
  <2>2. Cardinality(Held') = Cardinality(Held) - 1 /\ Cardinality(Held') \in Nat
    BY <2>1, HeldFinite, FS_RemoveElement, FS_CardinalityType
  <2>3. QED
    BY <1>0, <1>5, <2>2 DEF WorkerSendFails, WorkerPanics
<1>6. CASE WorkerBuilds(w) \/ WorkerSeesClosed(w)
  <2>1. Held' = Held
    BY <1>6 DEF WorkerBuilds, WorkerSeesClosed, Held, TypeInv, TypeOK
  <2>2. QED
    BY <1>0, <1>6, <2>1 DEF WorkerBuilds, WorkerSeesClosed
<1>7. QED
  BY <1>3, <1>4, <1>5, <1>6 DEF Worker

LEMMA FlightFeeder == TypeInv /\ PermitsConserved /\ FlightInv /\ Feeder => FlightInv'
<1> SUFFICES ASSUME TypeInv, PermitsConserved, FlightInv, Feeder PROVE FlightInv'
  OBVIOUS
<1> USE DEF workerVars, consumerVars
<1>0. /\ Cardinality(Held) \in Nat /\ Cardinality(buffer) \in Nat
      /\ Len(job_q) \in Nat /\ Len(result_q) \in Nat
      /\ fed \in Nat /\ next_seq \in Nat /\ tokens \in Nat
  BY HeldFinite, FS_CardinalityType, PermitsPositive, PrefetchAssumption
  DEF FlightInv, TypeInv, TypeOK
<1>1. Held' = Held /\ UNCHANGED <<buffer, result_q, next_seq>>
  BY DEF Feeder, FeederTakesToken, FeederSends, FeederExits, Held
<1>2. CASE FeederTakesToken
  BY <1>0, <1>1, <1>2, PermitsPositive
  DEF FeederTakesToken, PermitsConserved, FlightInv, InFlight, Dispatched
<1>3. CASE FeederSends
  <2>1. Len(job_q') = Len(job_q) + 1
    BY <1>3 DEF FeederSends, TypeInv, TypeOK
  <2>2. QED
    BY <1>0, <1>1, <1>3, <2>1, PermitsPositive
    DEF FeederSends, FlightInv, InFlight, Dispatched
<1>4. CASE FeederExits
  BY <1>0, <1>1, <1>4, PermitsPositive DEF FeederExits, FlightInv, InFlight, Dispatched
<1>5. QED
  BY <1>2, <1>3, <1>4 DEF Feeder

LEMMA FlightConsumer ==
    ASSUME TypeInv, FlightInv, CallNext \/ NextBatch \/ DropResults \/ DropTokens
    PROVE  FlightInv'
<1> USE DEF feederVars, workerVars
<1>0. /\ Cardinality(Held) \in Nat /\ Cardinality(buffer) \in Nat
      /\ Len(job_q) \in Nat /\ Len(result_q) \in Nat
      /\ fed \in Nat /\ next_seq \in Nat /\ Permits \in Nat
  BY HeldFinite, FS_CardinalityType, PermitsPositive DEF FlightInv, TypeInv, TypeOK
<1>1. Held' = Held /\ UNCHANGED <<fed, feeder, job_q>>
  BY DEF CallNext, NextBatch, EpochExhausted, ReturnBatch, ReceiveResult, SendersGone,
         DropResults, DropTokens, Held
<1>2. CASE ReturnBatch
  <2>1. PICK r \in Ready : buffer' = buffer \ {r}
    BY <1>2 DEF ReturnBatch
  <2>2. IsFiniteSet(buffer') /\ Cardinality(buffer') = Cardinality(buffer) - 1
    BY <2>1, FS_RemoveElement DEF Ready, FlightInv
  <2>3. next_seq' = next_seq + 1 /\ result_q' = result_q
    BY <1>2 DEF ReturnBatch
  <2>4. QED
    BY <1>0, <1>1, <2>2, <2>3 DEF FlightInv, InFlight, Dispatched, Permits
<1>3. CASE ReceiveResult
  <2> DEFINE kept == {r \in buffer : r.seq # Head(result_q).seq}
  <2>1. Len(result_q') = Len(result_q) - 1
    BY <1>3, HeadTailProperties DEF ReceiveResult, TypeInv, TypeOK
  <2>2. IsFiniteSet(kept) /\ Cardinality(kept) <= Cardinality(buffer) /\ Cardinality(kept) \in Nat
    BY FS_Subset, FS_CardinalityType DEF FlightInv
  <2>3. /\ IsFiniteSet(kept \cup {Head(result_q)})
        /\ Cardinality(kept \cup {Head(result_q)}) \in Nat
        /\ Cardinality(kept \cup {Head(result_q)}) <= Cardinality(kept) + 1
    BY <2>2, OneMore
  <2>4. buffer' = kept \cup {Head(result_q)} /\ next_seq' = next_seq
    BY <1>3 DEF ReceiveResult
  <2> HIDE DEF kept
  <2>5. QED
    BY <1>0, <1>1, <2>1, <2>2, <2>3, <2>4 DEF FlightInv, InFlight, Dispatched, Permits
<1>4. CASE DropResults
  BY <1>0, <1>1, <1>4 DEF DropResults, FlightInv, InFlight, Dispatched, Permits
<1>5. CASE CallNext \/ EpochExhausted \/ SendersGone \/ DropTokens
  BY <1>0, <1>1, <1>5 DEF CallNext, EpochExhausted, SendersGone, DropTokens,
                         FlightInv, InFlight, Dispatched, Permits
<1>6. QED
  BY <1>2, <1>3, <1>4, <1>5 DEF NextBatch

(* "At most `prefetch` batches are kept in flight", counting every place a
   batch can be in, at every moment of every interleaving. *)
THEOREM BackpressureCorrect == Spec => []Backpressure
<1>1. Init => FlightInv
  <2> SUFFICES ASSUME Init PROVE FlightInv
    OBVIOUS
  <2>1. Held = {}
    BY DEF Init, Held
  <2>2. QED
    BY <2>1, FS_EmptySet, PermitsPositive DEF Init, FlightInv, InFlight, Dispatched
<1>2. TypeInv /\ PermitsConserved /\ FlightInv /\ [Next]_vars => FlightInv'
  <2> SUFFICES ASSUME TypeInv, PermitsConserved, FlightInv, [Next]_vars PROVE FlightInv'
    OBVIOUS
  <2>1. CASE UNCHANGED vars
    BY <2>1 DEF vars, feederVars, workerVars, consumerVars, FlightInv, InFlight,
                Dispatched, Held, Permits
  <2>2. QED
    BY <2>1, FlightFeeder, FlightWorker, FlightConsumer DEF Next, Terminated
<1>3. TypeInv /\ FlightInv => Backpressure
  <2> SUFFICES ASSUME TypeInv, FlightInv PROVE Backpressure
    OBVIOUS
  <2>1. InFlight \in Nat /\ fed \in Nat /\ next_seq \in Nat
    BY HeldFinite, FS_CardinalityType DEF InFlight, FlightInv, TypeInv, TypeOK
  <2>2. QED
    BY <2>1, PermitsPositive DEF FlightInv, InFlight, Dispatched, Backpressure
<1>4. QED
  BY <1>1, <1>2, <1>3, TypeInvAlways, PermitsCorrect, PTL DEF Spec
=============================================================================
