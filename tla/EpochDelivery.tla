---------------------------- MODULE EpochDelivery ----------------------------
(***************************************************************************)
(* What a consumer of one epoch is promised, with no threads and no queues: *)
(* each request is answered, batches come in epoch order, each exactly once, *)
(* and "end of epoch" is said only when every batch has been handed out.    *)
(* Prefetch (pipeline.rs) implements it.                                   *)
(***************************************************************************)
EXTENDS Naturals, Sequences

CONSTANTS
    num_batches,  \* the number of batches of the epoch
    Assembles     \* the batches whose assembly succeeds

VARIABLES
    delivered,  \* the answers given so far: a sequence of [seq, res]
    asking,     \* a request is pending
    ended       \* the last answer was "end of epoch"

vars == <<delivered, asking, ended>>

(* A batch may be answered by its contents or by an error; a batch whose
   assembly does not succeed can never be answered by contents. *)
Answers(seq) ==
    {[seq |-> seq, res |-> "err"]} \cup
    {[seq |-> s, res |-> "ok"] : s \in {seq} \cap Assembles}

Init ==
    /\ delivered = <<>>
    /\ asking = FALSE
    /\ ended = FALSE

Ask ==
    /\ ~asking
    /\ asking' = TRUE
    /\ ended' = FALSE
    /\ UNCHANGED delivered

Deliver ==
    /\ asking
    /\ Len(delivered) < num_batches
    /\ \E a \in Answers(Len(delivered)) : delivered' = Append(delivered, a)
    /\ asking' = FALSE
    /\ ended' = FALSE

End ==
    /\ asking
    /\ Len(delivered) = num_batches
    /\ asking' = FALSE
    /\ ended' = TRUE
    /\ UNCHANGED delivered

Next == Ask \/ Deliver \/ End

Spec == Init /\ [][Next]_vars

(* The promise in full: no request stays unanswered. *)
LiveSpec == Spec /\ WF_vars(Deliver \/ End)
=============================================================================
