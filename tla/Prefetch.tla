------------------------------- MODULE Prefetch -------------------------------
(***************************************************************************)
(* The off-GIL prefetch pipeline, crates/pyroboframes-core/src/pipeline.rs. *)
(*                                                                         *)
(* A feeder thread takes a permit per batch and queues the batch as a job;  *)
(* workers claim jobs in any interleaving, assemble them and queue results; *)
(* next_batch reorders the results and returns one permit per batch handed  *)
(* out.  The channels are crossbeam's: linearizable FIFOs which a receiver  *)
(* drains before it sees that every sender is gone, and on which a send     *)
(* fails once every receiver is gone.                                       *)
(*                                                                         *)
(* Batches are their sequence numbers; their rows live in EpochOrder.       *)
(***************************************************************************)
EXTENDS Integers, Sequences, FiniteSets

CONSTANTS
    Workers,      \* the worker threads, num_workers.max(1) of them
    num_batches,  \* the number of jobs make_jobs produced
    prefetch_arg, \* the `prefetch` argument of start
    Failing,      \* the batches that fail to assemble
    Panicking     \* those that panic whoever assembles them

Batches == 0 .. num_batches - 1

ASSUME PrefetchAssumption ==
    /\ Workers # {} /\ IsFiniteSet(Workers)
    /\ num_batches \in Nat
    /\ prefetch_arg \in Nat
    /\ Failing \subseteq Batches /\ Panicking \subseteq Batches

VARIABLES
    tokens,     \* permits waiting in the token channel
    feeder,     \* "token": wants a permit, "send": holds one, "exited"
    fed,        \* jobs sent so far; job fed is the next one
    job_q,      \* the job channel
    worker,     \* worker[w]: "building", "claim", "assemble", "exited", "panicked"
    built,      \* built[w]: its BatchAssembler was built
    job,        \* job[w]: the job it claimed last
    result_q,   \* the result channel, of [seq, res]
    buffer,     \* results that arrived ahead of their turn
    next_seq,   \* the batch next_batch will return next
    consumer,   \* "idle", "waiting" in next_batch, "dropping", "dropped"
    ended,      \* the last call of next_batch returned Ok(None)
    delivered   \* history: what next_batch returned, in order

feederVars   == <<feeder, fed>>
workerVars   == <<worker, built, job>>
consumerVars == <<buffer, next_seq, consumer, ended, delivered>>
vars == <<tokens, feederVars, job_q, workerVars, result_q, consumerVars>>

NoJob == -1
Results == [seq : Batches, res : {"ok", "err"}]

(* Mutant: the argument is taken as it is. *)
PermitsUnraised == prefetch_arg

(* prefetch.max(num_workers): "never starve the workers". *)
Permits ==
    IF prefetch_arg >= Cardinality(Workers) THEN prefetch_arg
                                            ELSE Cardinality(Workers)

Gone(w) == worker[w] \in {"exited", "panicked"}
AllGone == \A w \in Workers : Gone(w)

(* result_rx is dropped first, token_tx after it: field order of Prefetcher. *)
ResultsOpen == consumer \in {"idle", "waiting"}
TokensOpen  == consumer # "dropped"

Init ==
    /\ tokens = Permits
    /\ feeder = "token"
    /\ fed = 0
    /\ job_q = <<>>
    /\ worker = [w \in Workers |-> "building"]
    /\ built = [w \in Workers |-> FALSE]
    /\ job = [w \in Workers |-> NoJob]
    /\ result_q = <<>>
    /\ buffer = {}
    /\ next_seq = 0
    /\ consumer = "idle"
    /\ ended = FALSE
    /\ delivered = <<>>

-----------------------------------------------------------------------------
(* The feeder thread. *)

(* Mutant: a permit is taken without waiting for one. *)
FeederNeverWaits ==
    /\ feeder = "token" /\ fed < num_batches
    /\ tokens' = tokens - 1
    /\ feeder' = "send"
    /\ UNCHANGED <<fed, job_q, workerVars, result_q, consumerVars>>

FeederTakesToken ==
    /\ feeder = "token" /\ fed < num_batches
    /\ tokens > 0
    /\ tokens' = tokens - 1
    /\ feeder' = "send"
    /\ UNCHANGED <<fed, job_q, workerVars, result_q, consumerVars>>

FeederSends ==
    /\ feeder = "send"
    /\ ~AllGone
    /\ job_q' = Append(job_q, fed)
    /\ fed' = fed + 1
    /\ feeder' = "token"
    /\ UNCHANGED <<tokens, workerVars, result_q, consumerVars>>

(* Mutant: the closed token channel is not noticed. *)
FeederIgnoresDrop ==
    /\ \/ feeder = "token" /\ fed = num_batches
       \/ feeder = "send" /\ AllGone
    /\ feeder' = "exited"
    /\ UNCHANGED <<tokens, fed, job_q, workerVars, result_q, consumerVars>>

(* No job left, no permit will ever come, or nobody will take the job. *)
FeederExits ==
    /\ \/ feeder = "token" /\ fed = num_batches
       \/ feeder = "token" /\ tokens = 0 /\ ~TokensOpen
       \/ feeder = "send" /\ AllGone
    /\ feeder' = "exited"
    /\ UNCHANGED <<tokens, fed, job_q, workerVars, result_q, consumerVars>>

Feeder == FeederTakesToken \/ FeederSends \/ FeederExits

-----------------------------------------------------------------------------
(* A worker thread. *)

(* A worker whose assembler cannot be built stays, and answers the jobs it
   claims with the build error. *)
WorkerBuilds(w) ==
    /\ worker[w] = "building"
    /\ \E b \in BOOLEAN : built' = [built EXCEPT ![w] = b]
    /\ worker' = [worker EXCEPT ![w] = "claim"]
    /\ UNCHANGED <<tokens, feederVars, job_q, job, result_q, consumerVars>>

WorkerClaims(w) ==
    /\ worker[w] = "claim"
    /\ job_q # <<>>
    /\ job' = [job EXCEPT ![w] = Head(job_q)]
    /\ job_q' = Tail(job_q)
    /\ worker' = [worker EXCEPT ![w] = "assemble"]
    /\ UNCHANGED <<tokens, feederVars, built, result_q, consumerVars>>

WorkerSeesClosed(w) ==
    /\ worker[w] = "claim"
    /\ job_q = <<>> /\ feeder = "exited"
    /\ worker' = [worker EXCEPT ![w] = "exited"]
    /\ UNCHANGED <<tokens, feederVars, job_q, built, job, result_q, consumerVars>>

(* What assemble returns for the claimed job. *)
Outcome(w) ==
    IF ~built[w] THEN "err"
    ELSE IF job[w] \in Panicking THEN "panic"
    ELSE IF job[w] \in Failing THEN "err" ELSE "ok"

WorkerSends(w) ==
    /\ worker[w] = "assemble"
    /\ Outcome(w) # "panic"
    /\ ResultsOpen
    /\ result_q' = Append(result_q, [seq |-> job[w], res |-> Outcome(w)])
    /\ job' = [job EXCEPT ![w] = NoJob]
    /\ worker' = [worker EXCEPT ![w] = "claim"]
    /\ UNCHANGED <<tokens, feederVars, job_q, built, consumerVars>>

WorkerSendFails(w) ==
    /\ worker[w] = "assemble"
    /\ Outcome(w) # "panic"
    /\ ~ResultsOpen
    /\ worker' = [worker EXCEPT ![w] = "exited"]
    /\ UNCHANGED <<tokens, feederVars, job_q, built, job, result_q, consumerVars>>

(* A panic unwinds the thread: its job is neither answered nor requeued. *)
WorkerPanics(w) ==
    /\ worker[w] = "assemble"
    /\ Outcome(w) = "panic"
    /\ worker' = [worker EXCEPT ![w] = "panicked"]
    /\ UNCHANGED <<tokens, feederVars, job_q, built, job, result_q, consumerVars>>

Worker(w) ==
    \/ WorkerBuilds(w) \/ WorkerClaims(w) \/ WorkerSeesClosed(w)
    \/ WorkerSends(w) \/ WorkerSendFails(w) \/ WorkerPanics(w)

-----------------------------------------------------------------------------
(* The consumer: next_batch and the drop of the Prefetcher. *)

(* Mutant: whatever has arrived is taken for the next batch. *)
ReadyOutOfOrder == buffer

Ready == {r \in buffer : r.seq = next_seq}

CallNext ==
    /\ consumer = "idle"
    /\ consumer' = "waiting"
    /\ ended' = FALSE
    /\ UNCHANGED <<tokens, feederVars, job_q, workerVars, result_q,
                   buffer, next_seq, delivered>>

EpochExhausted ==
    /\ consumer = "waiting"
    /\ next_seq >= num_batches
    /\ consumer' = "idle"
    /\ ended' = TRUE
    /\ UNCHANGED <<tokens, feederVars, job_q, workerVars, result_q,
                   buffer, next_seq, delivered>>

(* Mutant: the permit is not returned with the batch. *)
ReturnBatchKeepsPermit ==
    /\ consumer = "waiting"
    /\ next_seq < num_batches
    /\ \E r \in Ready :
         /\ buffer' = buffer \ {r}
         /\ delivered' = Append(delivered, r)
    /\ next_seq' = next_seq + 1
    /\ consumer' = "idle"
    /\ UNCHANGED <<tokens, feederVars, job_q, workerVars, result_q, ended>>

(* The permit goes back before the batch is returned.  The token channel is
   bounded by Permits: a send into a full one would block. *)
ReturnBatch ==
    /\ consumer = "waiting"
    /\ next_seq < num_batches
    /\ \E r \in Ready :
         /\ buffer' = buffer \ {r}
         /\ delivered' = Append(delivered, r)
    /\ next_seq' = next_seq + 1
    /\ IF feeder = "exited" THEN tokens' = tokens
                            ELSE tokens < Permits /\ tokens' = tokens + 1
    /\ consumer' = "idle"
    /\ UNCHANGED <<feederVars, job_q, workerVars, result_q, ended>>

(* Mutant: the permit is released when the result arrives. *)
ReceiveReleasesPermit ==
    /\ consumer = "waiting"
    /\ next_seq < num_batches /\ Ready = {}
    /\ result_q # <<>>
    /\ buffer' = {r \in buffer : r.seq # Head(result_q).seq} \cup {Head(result_q)}
    /\ result_q' = Tail(result_q)
    /\ tokens' = tokens + 1
    /\ UNCHANGED <<feederVars, job_q, workerVars, next_seq, consumer, ended, delivered>>

(* Mutant: only the latest early result is kept. *)
ReceiveOverwrites ==
    /\ consumer = "waiting"
    /\ next_seq < num_batches /\ Ready = {}
    /\ result_q # <<>>
    /\ buffer' = {Head(result_q)}
    /\ result_q' = Tail(result_q)
    /\ UNCHANGED <<tokens, feederVars, job_q, workerVars,
                   next_seq, consumer, ended, delivered>>

(* BTreeMap::insert replaces an entry of the same key. *)
ReceiveResult ==
    /\ consumer = "waiting"
    /\ next_seq < num_batches /\ Ready = {}
    /\ result_q # <<>>
    /\ buffer' = {r \in buffer : r.seq # Head(result_q).seq} \cup {Head(result_q)}
    /\ result_q' = Tail(result_q)
    /\ UNCHANGED <<tokens, feederVars, job_q, workerVars,
                   next_seq, consumer, ended, delivered>>

SendersGone ==
    /\ consumer = "waiting"
    /\ next_seq < num_batches /\ Ready = {}
    /\ result_q = <<>> /\ AllGone
    /\ consumer' = "idle"
    /\ ended' = TRUE
    /\ UNCHANGED <<tokens, feederVars, job_q, workerVars, result_q,
                   buffer, next_seq, delivered>>

DropResults ==
    /\ consumer = "idle"
    /\ consumer' = "dropping"
    /\ result_q' = <<>>
    /\ UNCHANGED <<tokens, feederVars, job_q, workerVars,
                   buffer, next_seq, ended, delivered>>

DropTokens ==
    /\ consumer = "dropping"
    /\ consumer' = "dropped"
    /\ UNCHANGED <<tokens, feederVars, job_q, workerVars, result_q,
                   buffer, next_seq, ended, delivered>>

NextBatch == EpochExhausted \/ ReturnBatch \/ ReceiveResult \/ SendersGone

(* Everything has stopped: the epoch was dropped and the threads wound down. *)
Terminated ==
    /\ consumer = "dropped" /\ feeder = "exited" /\ AllGone
    /\ UNCHANGED vars

Next ==
    \/ Feeder
    \/ \E w \in Workers : Worker(w)
    \/ CallNext \/ NextBatch \/ DropResults \/ DropTokens
    \/ Terminated

Spec == Init /\ [][Next]_vars

(* The scheduler runs every thread that can run; the user owes nobody a call
   of next_batch or a drop, but a drop once begun finishes. *)
Fairness ==
    /\ WF_vars(Feeder)
    /\ \A w \in Workers : WF_vars(Worker(w))
    /\ WF_vars(NextBatch)
    /\ WF_vars(DropTokens)

FairSpec == Spec /\ Fairness
-----------------------------------------------------------------------------
(* Properties. *)

(* Types of the channels, the thread states and the consumer's fields. *)
TypeOK ==
    /\ tokens \in 0 .. Permits
    /\ feeder \in {"token", "send", "exited"}
    /\ fed \in 0 .. num_batches
    /\ job_q \in Seq(Batches)
    /\ worker \in [Workers -> {"building", "claim", "assemble", "exited", "panicked"}]
    /\ built \in [Workers -> BOOLEAN]
    /\ job \in [Workers -> Batches \cup {NoJob}]
    /\ result_q \in Seq(Results)
    /\ buffer \subseteq Results
    /\ next_seq \in 0 .. num_batches
    /\ consumer \in {"idle", "waiting", "dropping", "dropped"}
    /\ ended \in BOOLEAN
    /\ delivered \in Seq(Results)

(* A permit is in the channel, in the feeder's hand, or stands for a batch
   that was dispatched and not returned.  So a returned permit always finds
   room, and token_tx.send in next_batch never blocks its caller. *)
PermitsConserved ==
    feeder # "exited" =>
        tokens + (IF feeder = "send" THEN 1 ELSE 0) + (fed - next_seq) = Permits

Contents(q) == {q[i] : i \in DOMAIN q}
Held == {w \in Workers : worker[w] = "assemble"}

(* "At most `prefetch` batches are kept in flight (memory backpressure)":
   queued, being assembled, queued as results and buffered, all together. *)
Backpressure ==
    Len(job_q) + Cardinality(Held) + Len(result_q) + Cardinality(buffer) <= Permits

(* Where batch seq may be once it was dispatched and before it is returned. *)
Located(seq) ==
    \/ seq \in Contents(job_q)
    \/ \E w \in Held : job[w] = seq
    \/ \E r \in Contents(result_q) \cup buffer : r.seq = seq

(* A dispatched batch leaves the pipeline only by being returned in its turn,
   or with the worker that panicked on it: no claim, send or reordering of
   any interleaving loses one. *)
NothingLost ==
    ResultsOpen => \A seq \in next_seq .. fed - 1 :
        Located(seq) \/ \E w \in Workers : worker[w] = "panicked" /\ job[w] = seq

(* next_batch says "epoch exhausted" only after the whole epoch. *)
EndMeansExhausted == ended => next_seq = num_batches

(* Without panics the epoch's promise is kept: in order, once each, complete. *)
Delivery == INSTANCE EpochDelivery WITH
                Assembles <- Batches \ (Failing \cup Panicking),
                asking <- consumer = "waiting"
ImplementsDelivery == Delivery!Spec
ImplementsLiveDelivery == Delivery!LiveSpec

(* Whatever panics, batches come out in epoch order and carry the outcome of
   their own assembly. *)
DeliveredInOrder ==
    /\ Len(delivered) = next_seq
    /\ \A i \in DOMAIN delivered :
          delivered[i] \in Delivery!Answers(i - 1)

(* A call of next_batch returns. *)
NextReturns == consumer = "waiting" ~> consumer = "idle"

(* Dropping the prefetcher in the middle of an epoch ends every thread, also
   after a panic: nothing stays blocked on a channel. *)
WindsDown == consumer = "dropping" ~> feeder = "exited" /\ AllGone
=============================================================================
