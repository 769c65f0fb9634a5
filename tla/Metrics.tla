-------------------------------- MODULE Metrics --------------------------------
(***************************************************************************)
(* MetricsCollector of crates/pyroboframes-core/src/metrics.rs: two maps,   *)
(* each behind a parking_lot::RwLock, and calls that take both locks.       *)
(*                                                                         *)
(* The lock (external): a writer first claims the writer bit, which shuts   *)
(* out new readers, a thread that already reads included, and then waits    *)
(* until the readers there are have left.  An operation's metrics are its   *)
(* total, its latencies are their number.                                   *)
(***************************************************************************)
EXTENDS Integers, FiniteSets

CONSTANTS
    Threads,
    Names,      \* operation names
    Menus,      \* the sets of calls the threads may be left to
    MaxRecords  \* bound on the calls of record_operation

Nobody == "nobody"

MetricsAssumption ==
    /\ Nobody \notin Threads
    /\ \A menu \in Menus : menu \subseteq {"record", "get", "get_all", "reset"}
    /\ MaxRecords \in Nat

VARIABLES
    calls,      \* the calls the threads make
    operations, \* operations[n]: total_operations of n, 0 when n is not there
    latencies,  \* latencies[n]: how many latencies are recorded for n
    writer,     \* writer[l]: the thread that owns the writer bit of lock l
    readers,    \* readers[l][t]: the read guards t holds on l
    pc,         \* where each thread is
    name,       \* the operation it works on
    todo,       \* get_all_metrics: the names still to report
    seen,       \* history: the last report a thread got
    records     \* history: calls of record_operation

data == <<calls, operations, latencies, records>>
metricsVars == <<data, writer, readers, pc, name, todo, seen>>

Locks == {"operations", "latencies"}
NoName == "none"
NoReport == [total |-> 0, samples |-> 0]

Init ==
    /\ calls \in Menus
    /\ operations = [n \in Names |-> 0]
    /\ latencies = [n \in Names |-> 0]
    /\ writer = [l \in Locks |-> Nobody]
    /\ readers = [l \in Locks |-> [t \in Threads |-> 0]]
    /\ pc = [t \in Threads |-> "idle"]
    /\ name = [t \in Threads |-> NoName]
    /\ todo = [t \in Threads |-> {}]
    /\ seen = [t \in Threads |-> NoReport]
    /\ records = 0

Open(l) == writer[l] = Nobody
Unread(l) == \A t \in Threads : readers[l][t] = 0
Goto(t, l) == pc' = [pc EXCEPT ![t] = l]
Guards(l, t, k) == readers' = [readers EXCEPT ![l][t] = @ + k]

-----------------------------------------------------------------------------
Call(t) ==
    /\ pc[t] = "idle"
    /\ \E c \in calls, n \in Names :
         /\ c = "record" => records < MaxRecords
         /\ records' = IF c = "record" THEN records + 1 ELSE records
         /\ name' = [name EXCEPT ![t] = n]
         /\ Goto(t, c)
    /\ UNCHANGED <<calls, operations, latencies, writer, readers, todo, seen>>

(* record_operation: operations.write(), latencies.write(), both held. *)

RecordClaims(t) ==
    /\ pc[t] = "record"
    /\ Open("operations")
    /\ writer' = [writer EXCEPT !["operations"] = t]
    /\ Goto(t, "record_operation")
    /\ UNCHANGED <<data, readers, name, todo, seen>>

(* Mutant: the readers that are still there are not waited for. *)
RecordIgnoresReaders(t) ==
    /\ pc[t] = "record_operation"
    /\ Open("latencies")
    /\ writer' = [writer EXCEPT !["latencies"] = t]
    /\ Goto(t, "record_latency")
    /\ UNCHANGED <<data, readers, name, todo, seen>>

RecordLocksLatencies(t) ==
    /\ pc[t] = "record_operation"
    /\ Unread("operations") /\ Open("latencies")
    /\ writer' = [writer EXCEPT !["latencies"] = t]
    /\ Goto(t, "record_latency")
    /\ UNCHANGED <<data, readers, name, todo, seen>>

RecordUpdates(t) ==
    /\ pc[t] = "record_latency"
    /\ Unread("latencies")
    /\ operations' = [operations EXCEPT ![name[t]] = @ + 1]
    /\ latencies' = [latencies EXCEPT ![name[t]] = @ + 1]
    /\ writer' = [l \in Locks |-> Nobody]
    /\ Goto(t, "idle")
    /\ UNCHANGED <<calls, records, readers, name, todo, seen>>

-----------------------------------------------------------------------------
(* get_operation_metrics: the operations' guard is held while
   calculate_percentiles reads the latencies, and until the clone. *)

GetReads(t) ==
    /\ pc[t] = "get"
    /\ Open("operations")
    /\ IF operations[name[t]] = 0
         THEN Goto(t, "idle") /\ UNCHANGED readers
         ELSE Goto(t, "get_percentiles") /\ Guards("operations", t, 1)
    /\ UNCHANGED <<data, writer, name, todo, seen>>

Percentiles(t, next) ==
    /\ Open("latencies")
    /\ seen' = [seen EXCEPT ![t].samples = latencies[name[t]]]
    /\ Goto(t, next)
    /\ UNCHANGED <<data, writer, readers, name, todo>>

Clones(t, next) ==
    /\ seen' = [seen EXCEPT ![t].total = operations[name[t]]]
    /\ Guards("operations", t, -1)
    /\ Goto(t, next)
    /\ UNCHANGED <<data, writer, name, todo>>

GetPercentiles(t) == pc[t] = "get_percentiles" /\ Percentiles(t, "get_clone")
GetClones(t) == pc[t] = "get_clone" /\ Clones(t, "idle")

-----------------------------------------------------------------------------
(* get_all_metrics: the guard of .read().keys() lives until the end of the
   chain, and every name takes another read guard of the same lock. *)

AllReads(t) ==
    /\ pc[t] = "get_all"
    /\ Open("operations")
    /\ Guards("operations", t, 1)
    /\ todo' = [todo EXCEPT ![t] = {n \in Names : operations[n] > 0}]
    /\ Goto(t, "all")
    /\ UNCHANGED <<data, writer, name, seen>>

AllReadsAgain(t) ==
    /\ pc[t] = "all"
    /\ Open("operations")
    /\ \E n \in todo[t] :
         /\ name' = [name EXCEPT ![t] = n]
         /\ todo' = [todo EXCEPT ![t] = @ \ {n}]
    /\ Guards("operations", t, 1)
    /\ Goto(t, "all_percentiles")
    /\ UNCHANGED <<data, writer, seen>>

AllPercentiles(t) == pc[t] = "all_percentiles" /\ Percentiles(t, "all_clone")
AllClones(t) == pc[t] = "all_clone" /\ Clones(t, "all")

AllReturns(t) ==
    /\ pc[t] = "all" /\ todo[t] = {}
    /\ Guards("operations", t, -1)
    /\ Goto(t, "idle")
    /\ UNCHANGED <<data, writer, name, todo, seen>>

-----------------------------------------------------------------------------
(* reset: one lock after the other. *)

ResetClaims(t) ==
    /\ pc[t] = "reset"
    /\ Open("operations")
    /\ writer' = [writer EXCEPT !["operations"] = t]
    /\ Goto(t, "reset_operations")
    /\ UNCHANGED <<data, readers, name, todo, seen>>

(* Mutant: the guard of the first statement is kept. *)
ResetKeepsGuard(t) ==
    /\ pc[t] = "reset_operations"
    /\ Unread("operations")
    /\ operations' = [n \in Names |-> 0]
    /\ Goto(t, "reset_between")
    /\ UNCHANGED <<calls, latencies, records, writer, readers, name, todo, seen>>

ResetOperations(t) ==
    /\ pc[t] = "reset_operations"
    /\ Unread("operations")
    /\ operations' = [n \in Names |-> 0]
    /\ writer' = [writer EXCEPT !["operations"] = Nobody]
    /\ Goto(t, "reset_between")
    /\ UNCHANGED <<calls, latencies, records, readers, name, todo, seen>>

ResetClaimsLatencies(t) ==
    /\ pc[t] = "reset_between"
    /\ Open("latencies")
    /\ writer' = [writer EXCEPT !["latencies"] = t]
    /\ Goto(t, "reset_latencies")
    /\ UNCHANGED <<data, readers, name, todo, seen>>

ResetLatencies(t) ==
    /\ pc[t] = "reset_latencies"
    /\ Unread("latencies")
    /\ latencies' = [n \in Names |-> 0]
    /\ writer' = [writer EXCEPT !["latencies"] = Nobody]
    /\ Goto(t, "idle")
    /\ UNCHANGED <<calls, operations, records, readers, name, todo, seen>>

(* A thread in a call. *)
Step(t) ==
    \/ RecordClaims(t) \/ RecordLocksLatencies(t) \/ RecordUpdates(t)
    \/ GetReads(t) \/ GetPercentiles(t) \/ GetClones(t)
    \/ AllReads(t) \/ AllReadsAgain(t) \/ AllPercentiles(t) \/ AllClones(t) \/ AllReturns(t)
    \/ ResetClaims(t) \/ ResetOperations(t) \/ ResetClaimsLatencies(t) \/ ResetLatencies(t)

Next == \E t \in Threads : Call(t) \/ Step(t)
-----------------------------------------------------------------------------
(* A report is of one moment: its total counts the operations its percentiles
   are of, whatever is recorded while it is put together.  (reset clears one
   map after the other, and a report may then be of a moment in between.) *)
ReportsConsistent ==
    "reset" \notin calls => \A t \in Threads :
        pc[t] \notin {"get_clone", "all_clone"} => seen[t].total = seen[t].samples

(* Every call returns. *)
CallsReturn == \A t \in Threads : pc[t] # "idle" ~> pc[t] = "idle"

(* Every call returns as long as nobody calls get_all_metrics. *)
CallsReturnWithoutAll ==
    \A t \in Threads : pc[t] # "idle" /\ "get_all" \notin calls ~> pc[t] = "idle"
=============================================================================
