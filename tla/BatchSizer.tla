------------------------------ MODULE BatchSizer ------------------------------
(***************************************************************************)
(* AdaptiveBatchSizer of crates/pyroboframes-core/src/adaptive.rs.  A       *)
(* reading of the resources is the set of those over their limits.  The     *)
(* sizes are far below 5000, up to where n * 1.1 in doubles and 11n / 10    *)
(* in integers round to the same size, and so do the other factors.         *)
(***************************************************************************)
EXTENDS Integers

CONSTANTS min_batch_size, max_batch_size

SizerAssumption ==
    /\ min_batch_size \in Nat \ {0} /\ max_batch_size \in min_batch_size .. 4999

Resources == {"memory", "gpu_memory", "cpu", "gpu", "disk"}

VARIABLE current_batch_size

Init == current_batch_size = (min_batch_size + max_batch_size) \div 2

detect_constraint(readings) ==
    IF "memory" \in readings THEN "MemoryPressure"
    ELSE IF "gpu_memory" \in readings THEN "GPUMemoryFull"
    ELSE IF "cpu" \in readings THEN "CPUBound"
    ELSE IF "gpu" \in readings THEN "GPUBound"
    ELSE IF "disk" \in readings THEN "DiskIOBound" ELSE "NoConstraint"

(* Mutant: the size may fall below the least. *)
reduce_unbounded(percent) == (current_batch_size * percent + 99) \div 100

(* Rounded up, and clamped from below only. *)
reduce_batch_size(percent) ==
    LET size == (current_batch_size * percent + 99) \div 100
    IN  IF size < min_batch_size THEN min_batch_size ELSE size

(* Rounded down, and clamped from above only. *)
increase_batch_size(percent) ==
    LET size == (current_batch_size * percent) \div 100
    IN  IF size > max_batch_size THEN max_batch_size ELSE size

(* A bound processor is asked whether it keeps up: the throughput against the
   target, the efficiency of the GPU against that of the memory. *)
Sizes(constraint) ==
    CASE constraint = "MemoryPressure" -> {reduce_batch_size(90)}
      [] constraint = "GPUMemoryFull" -> {reduce_batch_size(80)}
      [] constraint = "CPUBound" -> {reduce_batch_size(95), increase_batch_size(105)}
      [] constraint = "GPUBound" -> {reduce_batch_size(90), increase_batch_size(108)}
      [] constraint = "DiskIOBound" -> {reduce_batch_size(85)}
      [] constraint = "NoConstraint" -> {increase_batch_size(110)}

adjust_batch_size ==
    \E readings \in SUBSET Resources :
        current_batch_size' \in Sizes(detect_constraint(readings))

Next == adjust_batch_size

Spec == Init /\ [][Next]_current_batch_size
-----------------------------------------------------------------------------
(* The size stays between its bounds along any run of readings, although a
   reduction looks at one of them only and an increase at the other. *)
SizeWithinBounds == current_batch_size \in min_batch_size .. max_batch_size
=============================================================================
