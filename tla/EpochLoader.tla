------------------------------ MODULE EpochLoader ------------------------------
(***************************************************************************)
(* The iterators Python sees and how a run is checkpointed with them:       *)
(* Loader (synchronous) and PrefetchLoader (num_workers >= 1) of            *)
(* crates/pyroboframes-py/src/lib.rs.                                       *)
(*                                                                         *)
(* The trainer saves its model together with loader.position.  After a      *)
(* crash it restores the model, rebuilds the loader with the same seed and  *)
(* seeks; only Loader has seek.  The order is a function of the seed        *)
(* (BufferedShuffle, ChunkOrder), so row r is the r-th of the epoch.        *)
(***************************************************************************)
EXTENDS Integers, Sequences

CONSTANTS
    rows,       \* order.len()
    batch_size, \* rejected by `loader` when it is 0
    Setups      \* the iterators the trainer may start with, and the rows whose
                \* sample cannot be assembled: a set of [loader, bad]

LoaderAssumption ==
    /\ rows \in Nat /\ batch_size \in Nat \ {0}
    /\ \A s \in Setups : s.loader \in {"sync", "prefetch"} /\ s.bad \subseteq 0 .. rows - 1

VARIABLES
    drop_last,
    bad,       \* the rows whose sample cannot be assembled
    loader,    \* "sync", "prefetch", or "down": the process is gone
    cursor,    \* Loader: rows taken from the order
    jobs,      \* PrefetchLoader: the jobs not answered yet
    consumed_rows, \* PrefetchLoader: rows of the batches handed out
    trained,   \* trained[r]: how often the model was trained on row r
    saved      \* the checkpoint: the model (trained) and the position

vars == <<drop_last, bad, loader, cursor, jobs, consumed_rows, trained, saved>>

Rows == 0 .. rows - 1
End(c) == IF c + batch_size <= rows THEN c + batch_size ELSE rows

NoBatch(c) == c >= rows \/ (drop_last /\ End(c) - c < batch_size)

(* The order cut into jobs from row c on. *)
make_jobs[c \in 0 .. rows] ==
    IF NoBatch(c) THEN <<>>
    ELSE <<[first |-> c, last |-> End(c) - 1]>> \o make_jobs[End(c)]

Init ==
    /\ drop_last \in BOOLEAN
    /\ \E s \in Setups : loader = s.loader /\ bad = s.bad
    /\ cursor = 0
    /\ jobs = IF loader = "prefetch" THEN make_jobs[0] ELSE <<>>
    /\ consumed_rows = 0
    /\ trained = [r \in Rows |-> 0]
    /\ saved = [position |-> 0, trained |-> trained]

Fails(first, last) == \E r \in bad : first <= r /\ r <= last

Train(first, last) ==
    trained' = [r \in Rows |-> IF first <= r /\ r <= last THEN trained[r] + 1
                                                         ELSE trained[r]]

(* Loader.__next__, which at the end of the epoch only says so: the cursor moves before the samples are assembled, so a
   batch that fails is not tried again. *)
NextSync ==
    /\ loader = "sync"
    /\ ~NoBatch(cursor)
    /\ cursor' = End(cursor)
    /\ IF Fails(cursor, End(cursor) - 1) THEN UNCHANGED trained
                                         ELSE Train(cursor, End(cursor) - 1)
    /\ UNCHANGED <<drop_last, bad, loader, jobs, consumed_rows, saved>>

(* PrefetchLoader.__next__: the pipeline answers the jobs in order (module
   Prefetch).  An error is raised before the rows are counted. *)
NextPrefetched ==
    /\ loader = "prefetch"
    /\ jobs # <<>>
    /\ LET j == Head(jobs)
       IN  IF Fails(j.first, j.last)
             THEN UNCHANGED <<consumed_rows, trained>>
             ELSE /\ consumed_rows' = consumed_rows + (j.last - j.first + 1)
                  /\ Train(j.first, j.last)
    /\ jobs' = Tail(jobs)
    /\ UNCHANGED <<drop_last, bad, loader, cursor, saved>>

(* The getter of either class. *)
position == IF loader = "sync" THEN cursor ELSE consumed_rows

Save ==
    /\ loader # "down"
    /\ saved' = [position |-> position, trained |-> trained]
    /\ UNCHANGED <<drop_last, bad, loader, cursor, jobs, consumed_rows, trained>>

(* The process dies; what the model learnt since the checkpoint is lost. *)
Crash ==
    /\ loader # "down"
    /\ loader' = "down"
    /\ trained' = saved.trained
    /\ cursor' = 0 /\ jobs' = <<>> /\ consumed_rows' = 0
    /\ UNCHANGED <<drop_last, bad, saved>>

(* Mutant: the position is taken for a batch number. *)
ResumeInBatches ==
    /\ loader = "down"
    /\ loader' = "sync"
    /\ cursor' = IF saved.position * batch_size <= rows
                   THEN saved.position * batch_size ELSE rows
    /\ UNCHANGED <<drop_last, bad, jobs, consumed_rows, trained, saved>>

(* dataset.loader(same arguments, num_workers=0), then seek(position). *)
Resume ==
    /\ loader = "down"
    /\ loader' = "sync"
    /\ cursor' = IF saved.position <= rows THEN saved.position ELSE rows
    /\ UNCHANGED <<drop_last, bad, jobs, consumed_rows, trained, saved>>

Next ==
    \/ NextSync \/ NextPrefetched
    \/ Save \/ Crash \/ Resume

Spec == Init /\ [][Next]_vars
-----------------------------------------------------------------------------
(* Types; the position never leaves the epoch. *)
TypeOK ==
    /\ drop_last \in BOOLEAN /\ bad \subseteq Rows
    /\ loader \in {"sync", "prefetch", "down"}
    /\ cursor \in 0 .. rows
    /\ jobs \in Seq([first : Rows, last : Rows])
    /\ consumed_rows \in 0 .. rows
    /\ trained \in [Rows -> Nat]
    /\ saved \in [position : 0 .. rows, trained : [Rows -> Nat]]

(* The first row that was not given to the trainer yet. *)
Place ==
    CASE loader = "sync" -> cursor
      [] loader = "down" -> saved.position
      [] loader = "prefetch" /\ jobs # <<>> -> Head(jobs).first
      [] OTHER -> IF drop_last THEN rows - (rows % batch_size) ELSE rows

InFailedBatch(r) == Fails(r - (r % batch_size), End(r - (r % batch_size)) - 1)

(* Through any sequence of saves, crashes and resumes the model sees each row
   of the epoch before the loader's place exactly once, except the rows of a
   batch that failed, and no other row: seek skips neither too little nor too
   much. *)
TrainedExactlyOnce ==
    trained = [r \in Rows |-> IF r < Place /\ ~InFailedBatch(r) THEN 1 ELSE 0]
=============================================================================
