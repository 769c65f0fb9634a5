----------------------------- MODULE ServicesProofs -----------------------------
(***************************************************************************)
(* Proofs about the services around the loading path, for any values of     *)
(* their constants.  MCServices runs them side by side: a lemma says what a *)
(* step of the whole is to each, and the rest is about one at a time.       *)
(***************************************************************************)
EXTENDS MCServices, SequenceLemmas, TLAPS, FiniteSetTheorems, SequenceTheorems, WellFoundedInduction

LEMMA CloudCounts == \A S : Cloud!Cardinality(S) = Cardinality(S) /\ (Cloud!IsFiniteSet(S) <=> IsFiniteSet(S))
BY DEF Cloud!Cardinality, Cardinality, Cloud!IsFiniteSet, IsFiniteSet

(* A step of the services is a step of one of them, or leaves it as it was. *)
LEMMA SizerSteps == [Next]_vars => [Sizer!Next]_sizerVars
BY DEF Next, Others, sizerVars, vars

LEMMA MetricsSteps == [Next]_vars => Metrics!Next \/ UNCHANGED metricsVars
BY DEF Next, Others, metricsVars, vars

LEMMA CloudSteps == [Next]_vars => [Cloud!Next]_cloudVars
BY DEF Next, Others, cloudVars, vars

LEMMA LoadSteps == [Next]_vars => [Load!Next]_<<loadVars, breakerVars>> \/ (UNCHANGED loadVars /\ Breaker!Next)
BY DEF Next, Others, loadVars, breakerVars, vars

LEMMA LoadKeepsBreaker == Load!Next => [Breaker!Next]_breakerVars
BY DEF Load!Next, breakerVars, Load!attempt_recovery, Load!acquire, Load!release, Load!CallSucceeds, Load!CallFails, Load!CallRefused,
  Load!Resets, Load!BacksOff, Load!unBreaker, Load!Breaker!CallOk, Load!Breaker!CallErr, Load!Breaker!try_reset, Load!Breaker!Note,
  Load!Breaker!on_success, Load!Breaker!on_failure,
  Breaker!Next, Breaker!CallOk, Breaker!CallErr, Breaker!try_reset, Breaker!Note,
  Breaker!on_success, Breaker!on_failure

LEMMA AnomalySteps == [Next]_vars => Anomaly!Next \/ UNCHANGED anomalyVars
BY DEF Next, Others, anomalyVars, vars

LEMMA QualitySteps == [Next]_vars => Quality!Next \/ UNCHANGED qualityVars
BY DEF Next, Others, qualityVars, vars

-----------------------------------------------------------------------------
(* The batch size. *)

(* A reduction never raises a size, so the upper bound is kept although the
   code looks at the lower one only; and an increase never lowers one. *)
LEMMA ReduceInBounds ==
    ASSUME Sizer!SizerAssumption, Sizer!SizeWithinBounds, NEW percent \in {80, 85, 90, 95}
    PROVE  Sizer!reduce_batch_size(percent) \in min_batch_size .. max_batch_size
<1> DEFINE size == (current_batch_size * percent + 99) \div 100
<1> USE DEF Sizer!SizerAssumption, Sizer!SizeWithinBounds
<1>1. size \in Int /\ size <= current_batch_size
  <2>1. CASE percent = 80
    BY <2>1
  <2>2. CASE percent = 85
    BY <2>2
  <2>3. CASE percent = 90
    BY <2>3
  <2>4. CASE percent = 95
    BY <2>4
  <2>5. QED
    BY <2>1, <2>2, <2>3, <2>4
<1>2. QED
  BY <1>1 DEF Sizer!reduce_batch_size

LEMMA IncreaseInBounds ==
    ASSUME Sizer!SizerAssumption, Sizer!SizeWithinBounds, NEW percent \in {105, 108, 110}
    PROVE  Sizer!increase_batch_size(percent) \in min_batch_size .. max_batch_size
<1> DEFINE size == (current_batch_size * percent) \div 100
<1> USE DEF Sizer!SizerAssumption, Sizer!SizeWithinBounds
<1>1. size \in Int /\ size >= current_batch_size
  <2>1. CASE percent = 105
    BY <2>1
  <2>2. CASE percent = 108
    BY <2>2
  <2>3. CASE percent = 110
    BY <2>3
  <2>4. QED
    BY <2>1, <2>2, <2>3
<1>2. QED
  BY <1>1 DEF Sizer!increase_batch_size

LEMMA AdjustInBounds == Sizer!SizerAssumption /\ Sizer!SizeWithinBounds /\ Sizer!Next => Sizer!SizeWithinBounds'
<1> SUFFICES ASSUME Sizer!SizerAssumption, Sizer!SizeWithinBounds,
                    NEW readings \in SUBSET Sizer!Resources,
                    current_batch_size' \in Sizer!Sizes(Sizer!detect_constraint(readings))
             PROVE  Sizer!SizeWithinBounds'
  BY DEF Sizer!Next, Sizer!adjust_batch_size
<1>1. Sizer!detect_constraint(readings) \in
        {"MemoryPressure", "GPUMemoryFull", "CPUBound", "GPUBound", "DiskIOBound", "NoConstraint"}
  BY DEF Sizer!detect_constraint
<1>2. Sizer!Sizes(Sizer!detect_constraint(readings)) \subseteq
        {Sizer!reduce_batch_size(p) : p \in {80, 85, 90, 95}}
          \cup {Sizer!increase_batch_size(p) : p \in {105, 108, 110}}
  BY <1>1 DEF Sizer!Sizes
<1>3. QED
  BY <1>2, ReduceInBounds, IncreaseInBounds DEF Sizer!SizeWithinBounds

(* From a start in the middle, no run of readings takes the size out of its
   bounds: AdaptiveBatchSizer::adjust_batch_size (adaptive.rs). *)
THEOREM SizeStaysWithinBounds == ASSUME Sizer!SizerAssumption PROVE Spec => []SizeWithinBounds
<1>1. Init => SizeWithinBounds
  BY DEF Sizer!SizerAssumption, Init, Sizer!Init, SizeWithinBounds, Sizer!SizeWithinBounds
<1>2. SizeWithinBounds /\ [Next]_vars => SizeWithinBounds'
  BY AdjustInBounds, SizerSteps DEF SizeWithinBounds, Sizer!SizeWithinBounds, sizerVars
<1>3. QED
  BY <1>1, <1>2, PTL DEF Spec

Statuses == {"InProgress", "Paused", "Completed"}
Tasks == [parts_completed : Nat, parts_total : Nat \ {0}, status : Statuses]

CloudTypes ==
    /\ active_downloads \in [Files -> Tasks \cup {Cloud!NoTask}]
    /\ active \in Nat
    /\ misused \in BOOLEAN

Counted == ~misused => active = Cardinality(Cloud!Unfinished)

(* Counted is inductive with the types: while the caller keeps the rules,
   the counter moves just when a file enters or leaves Cloud!Unfinished. *)
CloudInv == CloudTypes /\ Counted

LEMMA NoTaskIsNone == Cloud!NoTask \notin Tasks
BY DEF Cloud!NoTask, Tasks, Statuses

LEMMA UnfinishedFinite ==
    ASSUME IsFiniteSet(Files) PROVE IsFiniteSet(Cloud!Unfinished)
BY FS_Subset DEF Cloud!Unfinished, Cloud!Known

LEMMA PartOfTask ==
    ASSUME NEW t \in Tasks
    PROVE  LET done == t.parts_completed + 1
               next == [t EXCEPT !.parts_completed = done,
                           !.status = IF done >= t.parts_total THEN "Completed" ELSE @]
           IN  /\ next \in Tasks
               /\ next.status = IF done >= t.parts_total THEN "Completed" ELSE t.status
<1> DEFINE done == t.parts_completed + 1
           status == IF done >= t.parts_total THEN "Completed" ELSE t.status
           next == [t EXCEPT !.parts_completed = done,
                       !.status = IF done >= t.parts_total THEN "Completed" ELSE @]
<1>1. done \in Nat /\ status \in Statuses
  BY DEF Tasks, Statuses
<1> DEFINE half == [t EXCEPT !.parts_completed = done]
<1>2. half = [parts_completed |-> done, parts_total |-> t.parts_total, status |-> t.status]
  BY DEF Tasks
<1>3. half \in Tasks /\ half.status = t.status
  BY <1>1, <1>2 DEF Tasks
<1>4. [half EXCEPT !.status = status] \in Tasks /\ [half EXCEPT !.status = status].status = status
  BY <1>1, <1>3 DEF Tasks
<1>5. next = [half EXCEPT !.status = status]
  OBVIOUS
<1>6. QED
  BY <1>4, <1>5

LEMMA StartKeepsCount ==
    ASSUME Cloud!CloudAssumption, IsFiniteSet(Files), CloudInv,
           NEW f \in Files, NEW total \in PartsTotal, Cloud!start_download(f, total)
    PROVE  CloudInv'
<1> USE DEF CloudInv, Cloud!CloudAssumption
<1> DEFINE task == [parts_completed |-> 0, parts_total |-> total, status |-> "InProgress"]
<1>1. task \in Tasks /\ active_downloads' = [active_downloads EXCEPT ![f] = task]
  BY DEF Cloud!start_download, Cloud!SetTask, Tasks, Statuses
<1>2. CloudTypes'
  BY <1>1 DEF CloudTypes, Cloud!start_download
<1>3. ASSUME ~misused' PROVE active' = Cardinality(Cloud!Unfinished)'
  <2>1. f \notin Cloud!Known /\ ~misused
    BY <1>3 DEF Cloud!start_download, CloudTypes
  <2>2. Cloud!Unfinished' = Cloud!Unfinished \cup {f} /\ f \notin Cloud!Unfinished
    BY <1>1, <2>1, NoTaskIsNone DEF Cloud!Unfinished, Cloud!Known, CloudTypes
  <2>3. Cardinality(Cloud!Unfinished \cup {f}) = Cardinality(Cloud!Unfinished) + 1
    BY <2>2, UnfinishedFinite, FS_AddElement
  <2>4. QED
    BY <2>1, <2>2, <2>3 DEF Cloud!start_download, Counted
<1>4. QED
  BY <1>2, <1>3 DEF Counted

LEMMA PartKeepsCount ==
    ASSUME Cloud!CloudAssumption, IsFiniteSet(Files), CloudInv,
           NEW f \in Files, Cloud!report_part_downloaded(f)
    PROVE  CloudInv'
<1> USE DEF CloudInv
<1> DEFINE task == active_downloads[f]
           done == task.parts_completed + 1
           next == [task EXCEPT !.parts_completed = done,
                       !.status = IF done >= task.parts_total THEN "Completed" ELSE @]
<1>1. task \in Tasks
  BY DEF Cloud!report_part_downloaded, Cloud!Known, CloudTypes
<1>2. next \in Tasks /\ next.status = IF done >= task.parts_total THEN "Completed" ELSE task.status
  BY <1>1, PartOfTask
<1>3. active_downloads' = [active_downloads EXCEPT ![f] = next]
  BY DEF Cloud!report_part_downloaded, Cloud!SetTask
<1>4. CloudTypes'
  BY <1>2, <1>3 DEF CloudTypes, Cloud!report_part_downloaded
<1>5. ASSUME ~misused' PROVE active' = Cardinality(Cloud!Unfinished)'
  <2>1. ~misused /\ f \in Cloud!Unfinished /\ active = Cardinality(Cloud!Unfinished)
    BY <1>1, <1>5, NoTaskIsNone
    DEF Cloud!report_part_downloaded, CloudTypes, Cloud!Unfinished, Counted
  <2>2. CASE done >= task.parts_total
    <3>1. Cloud!Unfinished' = Cloud!Unfinished \ {f}
      BY <1>2, <1>3, <2>2, NoTaskIsNone DEF Cloud!Unfinished, Cloud!Known, CloudTypes
    <3>2. Cardinality(Cloud!Unfinished \ {f}) = Cardinality(Cloud!Unfinished) - 1
      BY <2>1, UnfinishedFinite, FS_RemoveElement
    <3>3. active > 0
      BY <2>1, UnfinishedFinite, FS_EmptySet DEF CloudTypes
    <3>4. QED
      BY <2>1, <2>2, <3>1, <3>2, <3>3 DEF Cloud!report_part_downloaded
  <2>3. CASE ~(done >= task.parts_total)
    <3>1. Cloud!Unfinished' = Cloud!Unfinished
      BY <1>1, <1>2, <1>3, <2>1, <2>3, NoTaskIsNone DEF Cloud!Unfinished, Cloud!Known, CloudTypes
    <3>2. QED
      BY <2>1, <2>3, <3>1 DEF Cloud!report_part_downloaded
  <2>4. QED
    BY <2>2, <2>3
<1>6. QED
  BY <1>4, <1>5 DEF Counted

LEMMA StatusKeepsCount ==
    ASSUME Cloud!CloudAssumption, IsFiniteSet(Files), CloudInv,
           NEW f \in Files, NEW status \in {"InProgress", "Paused"}, Cloud!SetStatus(f, status)
    PROVE  CloudInv'
<1> USE DEF CloudInv
<1> DEFINE next == [active_downloads[f] EXCEPT !.status = status]
<1>1. active_downloads[f] \in Tasks
  BY DEF Cloud!SetStatus, Cloud!Known, CloudTypes
<1>2. next \in Tasks /\ next.status = status
  BY <1>1 DEF Tasks, Statuses
<1>3. active_downloads' = [active_downloads EXCEPT ![f] = next] /\ active' = active
  BY DEF Cloud!SetStatus, Cloud!SetTask
<1>4. CloudTypes'
  BY <1>2, <1>3 DEF CloudTypes, Cloud!SetStatus
<1>5. ASSUME ~misused' PROVE Cloud!Unfinished' = Cloud!Unfinished /\ ~misused
  BY <1>1, <1>2, <1>3, <1>5, NoTaskIsNone DEF Cloud!SetStatus, CloudTypes, Cloud!Unfinished, Cloud!Known
<1>6. QED
  BY <1>3, <1>4, <1>5 DEF Counted

LEMMA CloudInit == ASSUME IsFiniteSet(Files), Cloud!Init PROVE CloudInv
<1>1. Cloud!Unfinished = {}
  BY DEF Cloud!Init, Cloud!Unfinished, Cloud!Known
<1>2. QED
  BY <1>1, FS_EmptySet DEF Cloud!Init, CloudInv, CloudTypes, Counted

LEMMA CloudNext == Cloud!CloudAssumption /\ IsFiniteSet(Files) /\ CloudInv /\ [Cloud!Next]_cloudVars => CloudInv'
<1> SUFFICES ASSUME Cloud!CloudAssumption, IsFiniteSet(Files), CloudInv, [Cloud!Next]_cloudVars PROVE CloudInv'
  OBVIOUS
<1>1. CASE Cloud!Next
  BY <1>1, StartKeepsCount, PartKeepsCount, StatusKeepsCount DEF Cloud!Next, Cloud!pause_download, Cloud!resume_download
<1>2. CASE UNCHANGED cloudVars
  BY <1>2 DEF cloudVars, CloudInv, CloudTypes, Counted, Cloud!Unfinished, Cloud!Known
<1>3. QED
  BY <1>1, <1>2

(* Whatever order parts, pauses and resumes come in, stats.active_downloads is
   the number of downloads not completed, for a caller that starts each file
   once and leaves completed ones alone: CloudStreamer (streaming.rs). *)
THEOREM ActiveIsCounted ==
    ASSUME Cloud!CloudAssumption, IsFiniteSet(Files) PROVE Spec => []ActiveCounted
<1>1. Init => CloudInv
  BY CloudInit DEF Init
<1>2. CloudInv /\ [Next]_vars => CloudInv'
  BY CloudNext, CloudSteps
<1>3. CloudInv => ActiveCounted
  BY CloudCounts DEF CloudInv, Counted, ActiveCounted, Cloud!ActiveCounted
<1>4. QED
  BY <1>1, <1>2, <1>3, PTL DEF Spec

-----------------------------------------------------------------------------
(* The circuit breaker. *)

Events == {"ok", "err", "reset"}

BreakerTypes ==
    /\ state \in {"Closed", "Open", "HalfOpen"}
    /\ failure_count \in Nat /\ success_count \in Nat
    /\ log \in Seq(Events)

(* failure_count is the length of the run of failures the log ends with. *)
CountsFailures ==
    /\ Breaker!EndsWith("err", failure_count)
    /\ Len(log) > failure_count => log[Len(log) - failure_count] # "err"
    /\ failure_count <= failure_threshold
    /\ state = "Open" <=> failure_count = failure_threshold

(* success_count is the number of successes of the trial so far; no trial, no
   count, so the next one starts from nothing. *)
CountsSuccesses ==
    /\ state # "HalfOpen" => success_count = 0
    /\ Breaker!EndsWith("ok", success_count)
    /\ success_count < success_threshold

WasReset == \E k \in DOMAIN log : log[k] = "reset"

(* There were enough successes in a row after the last reset. *)
Recovered ==
    \E k \in DOMAIN log :
        /\ k + success_threshold - 1 <= Len(log)
        /\ \A j \in k .. Len(log) : log[j] # "reset"
        /\ \A j \in k .. k + success_threshold - 1 : log[j] = "ok"

BreakerInv ==
    /\ BreakerTypes /\ CountsFailures /\ CountsSuccesses
    /\ state = "Closed" /\ WasReset => Recovered

(* Breaker!EndsWith of any log: s ends with n times e. *)
Run(s, e, n) == Len(s) >= n /\ \A k \in Len(s) - n + 1 .. Len(s) : s[k] = e

(* What an event does to the runs the log ends with. *)
LEMMA NotedRuns ==
    ASSUME BreakerTypes, NEW e \in Events, NEW n \in Nat, log' = Append(log, e)
    PROVE  /\ log' \in Seq(Events) /\ Len(log') = Len(log) + 1 /\ log'[Len(log')] = e
           /\ \A k \in 1 .. Len(log) : log'[k] = log[k]
           /\ Run(log, e, n) => Run(log', e, n + 1)
<1>1. Len(log) \in Nat /\ log \in Seq(Events)
  BY DEF BreakerTypes
<1>2. /\ log' \in Seq(Events) /\ Len(log') = Len(log) + 1 /\ log'[Len(log')] = e
      /\ \A k \in 1 .. Len(log) : log'[k] = log[k]
  BY <1>1
<1>3. ASSUME Run(log, e, n) PROVE Run(log', e, n + 1)
  <2>1. Len(log) >= n /\ \A k \in Len(log) - n + 1 .. Len(log) : log[k] = e
    BY <1>3 DEF Run
  <2>2. \A k \in Len(log) - n + 1 .. Len(log) + 1 : log'[k] = e
    BY <1>1, <1>2, <2>1
  <2>3. QED
    BY <1>1, <1>2, <2>1, <2>2 DEF Run
<1>4. QED
  BY <1>2, <1>3

LEMMA NoRun == BreakerTypes => Breaker!EndsWith("ok", 0) /\ Breaker!EndsWith("err", 0)
BY DEF BreakerTypes, Breaker!EndsWith

(* A breaker that has recovered has done so after the last reset until the
   next one. *)
LEMMA RecoveredStays ==
    ASSUME BreakerTypes, Breaker!BreakerAssumption, NEW e \in {"ok", "err"}, log' = Append(log, e)
    PROVE  (WasReset => Recovered) => (WasReset' => Recovered')
<1> USE DEF BreakerTypes
<1>1. /\ log' \in Seq(Events) /\ Len(log') = Len(log) + 1 /\ log'[Len(log')] = e
      /\ \A k \in 1 .. Len(log) : log'[k] = log[k]
  BY NotedRuns DEF Events
<1>2. WasReset' => WasReset
  BY <1>1 DEF WasReset
<1>3. ASSUME Recovered PROVE Recovered'
  <2>1. PICK k \in 1 .. Len(log) :
            /\ k + success_threshold - 1 <= Len(log)
            /\ \A j \in k .. Len(log) : log[j] # "reset"
            /\ \A j \in k .. k + success_threshold - 1 : log[j] = "ok"
    BY <1>3 DEF Recovered
  <2>2. \A j \in k .. Len(log') : log'[j] # "reset"
    BY <1>1, <2>1
  <2>3. \A j \in k .. k + success_threshold - 1 : log'[j] = "ok"
    BY <1>1, <2>1 DEF Breaker!BreakerAssumption
  <2>4. k \in DOMAIN log' /\ k + success_threshold - 1 <= Len(log')
    BY <1>1, <2>1 DEF Breaker!BreakerAssumption
  <2>5. QED
    BY <2>2, <2>3, <2>4 DEF Recovered
<1>4. QED
  BY <1>2, <1>3

LEMMA BreakerAfterOk == ASSUME Breaker!BreakerAssumption, BreakerInv, Breaker!CallOk PROVE BreakerInv'
<1>1. /\ state \in {"Closed", "HalfOpen"} /\ log' = Append(log, "ok") /\ failure_count' = 0
      /\ failure_threshold \in Nat \ {0} /\ success_threshold \in Nat \ {0}
  BY DEF Breaker!BreakerAssumption, Breaker!CallOk, Breaker!on_success, Breaker!Note, BreakerInv, BreakerTypes
<1>2. /\ log' \in Seq(Events) /\ Len(log') = Len(log) + 1 /\ log'[Len(log')] = "ok"
      /\ \A k \in 1 .. Len(log) : log'[k] = log[k]
      /\ Run(log', "ok", success_count + 1) /\ Len(log) \in Nat
  <2>1. BreakerTypes /\ success_count \in Nat /\ Run(log, "ok", success_count) /\ "ok" \in Events
    BY DEF BreakerInv, BreakerTypes, CountsSuccesses, Breaker!EndsWith, Run, Events
  <2>2. QED
    BY <1>1, <2>1, NotedRuns DEF BreakerTypes
<1>3. BreakerTypes'
  BY <1>1, <1>2 DEF Breaker!CallOk, Breaker!on_success, BreakerInv, BreakerTypes
<1>4. Breaker!EndsWith("ok", 0)' /\ Breaker!EndsWith("err", 0)'
  BY <1>3 DEF BreakerTypes, Breaker!EndsWith
<1>5. CASE state = "HalfOpen" /\ success_count + 1 >= success_threshold
  <2>1. state' = "Closed" /\ success_count' = 0 /\ success_count + 1 = success_threshold
    BY <1>1, <1>5 DEF Breaker!CallOk, Breaker!on_success, BreakerInv, BreakerTypes, CountsSuccesses
  <2>2. Recovered'
    <3> DEFINE k == Len(log') - success_threshold + 1
    <3>1. /\ Len(log') >= success_threshold
          /\ \A j \in k .. Len(log') : log'[j] = "ok"
      BY <1>2, <2>1 DEF Run
    <3>2. k \in DOMAIN log' /\ k + success_threshold - 1 = Len(log')
      BY <1>1, <1>2, <3>1
    <3>3. QED
      BY <3>1, <3>2 DEF Recovered
  <2>3. CountsFailures' /\ CountsSuccesses'
    BY <1>1, <1>2, <1>4, <2>1 DEF CountsFailures, CountsSuccesses
  <2>4. QED
    BY <1>3, <2>2, <2>3 DEF BreakerInv
<1>6. CASE ~(state = "HalfOpen" /\ success_count + 1 >= success_threshold)
  <2>1. /\ state' = state
        /\ success_count' = IF state = "HalfOpen" THEN success_count + 1 ELSE success_count
    BY <1>6 DEF Breaker!CallOk, Breaker!on_success
  <2>2. CountsFailures'
    BY <1>1, <1>2, <1>4, <2>1 DEF CountsFailures
  <2>3. CountsSuccesses'
    <3>1. CASE state = "HalfOpen"
      <4>1. success_count' = success_count + 1 /\ success_count' < success_threshold
        BY <1>1, <1>6, <2>1, <3>1 DEF BreakerInv, BreakerTypes
      <4>2. Breaker!EndsWith("ok", success_count)'
        BY <1>2, <4>1 DEF Breaker!EndsWith, Run
      <4>3. QED
        BY <2>1, <3>1, <4>1, <4>2 DEF CountsSuccesses
    <3>2. CASE state # "HalfOpen"
      BY <1>1, <1>4, <2>1, <3>2 DEF BreakerInv, CountsSuccesses
    <3>3. QED
      BY <3>1, <3>2
  <2>4. state' = "Closed" /\ WasReset' => Recovered'
    BY <1>1, <2>1, RecoveredStays DEF BreakerInv
  <2>5. QED
    BY <1>3, <2>2, <2>3, <2>4 DEF BreakerInv
<1>7. QED
  BY <1>5, <1>6

LEMMA BreakerAfterErr == ASSUME Breaker!BreakerAssumption, BreakerInv, Breaker!CallErr PROVE BreakerInv'
<1>1. /\ state \in {"Closed", "HalfOpen"} /\ log' = Append(log, "err")
      /\ failure_count' = failure_count + 1 /\ success_count' = 0
      /\ state' = IF failure_count + 1 >= failure_threshold THEN "Open" ELSE state
      /\ failure_threshold \in Nat \ {0} /\ success_threshold \in Nat \ {0}
      /\ failure_count \in Nat
  BY DEF Breaker!BreakerAssumption, Breaker!CallErr, Breaker!on_failure, Breaker!Note, BreakerInv, BreakerTypes
<1>2. /\ log' \in Seq(Events) /\ Len(log') = Len(log) + 1 /\ Len(log) \in Nat
      /\ \A k \in 1 .. Len(log) : log'[k] = log[k]
      /\ Run(log', "err", failure_count + 1)
  <2>1. BreakerTypes /\ Run(log, "err", failure_count) /\ "err" \in Events
    BY DEF BreakerInv, CountsFailures, Breaker!EndsWith, Run, Events
  <2>2. QED
    BY <1>1, <2>1, NotedRuns DEF BreakerTypes
<1>3. BreakerTypes'
  BY <1>1, <1>2 DEF BreakerInv, BreakerTypes
<1>4. failure_count < failure_threshold
  BY <1>1 DEF BreakerInv, CountsFailures
<1>5. CountsFailures'
  <2>1. ASSUME Len(log') > failure_count'
        PROVE  log'[Len(log') - failure_count'] # "err"
    <3>1. /\ Len(log') - failure_count' = Len(log) - failure_count
          /\ Len(log) > failure_count /\ Len(log) - failure_count \in 1 .. Len(log)
      BY <1>1, <1>2, <2>1
    <3>2. QED
      BY <1>2, <3>1 DEF BreakerInv, CountsFailures
  <2>2. Breaker!EndsWith("err", failure_count)'
    BY <1>1, <1>2 DEF Breaker!EndsWith, Run
  <2>3. failure_count' <= failure_threshold
        /\ (state' = "Open" <=> failure_count' = failure_threshold)
    BY <1>1, <1>4
  <2>4. QED
    BY <2>1, <2>2, <2>3 DEF CountsFailures
<1>6. CountsSuccesses'
  BY <1>1, <1>3 DEF BreakerTypes, Breaker!EndsWith, CountsSuccesses
<1>7. state' = "Closed" /\ WasReset' => Recovered'
  BY <1>1, RecoveredStays DEF BreakerInv
<1>8. QED
  BY <1>3, <1>5, <1>6, <1>7 DEF BreakerInv

LEMMA BreakerAfterReset == ASSUME Breaker!BreakerAssumption, BreakerInv, Breaker!try_reset PROVE BreakerInv'
<1>1. /\ state = "Open" /\ state' = "HalfOpen" /\ log' = Append(log, "reset")
      /\ failure_count' = 0 /\ success_count' = success_count /\ success_count = 0
      /\ failure_threshold \in Nat \ {0} /\ success_threshold \in Nat \ {0}
  BY DEF Breaker!BreakerAssumption, Breaker!try_reset, Breaker!Note, BreakerInv, CountsSuccesses
<1>2. /\ log' \in Seq(Events) /\ Len(log') = Len(log) + 1 /\ log'[Len(log')] = "reset"
  BY NotedRuns, <1>1 DEF BreakerInv, Events
<1>3. BreakerTypes'
  BY <1>1, <1>2 DEF BreakerTypes
<1>4. Breaker!EndsWith("ok", 0)' /\ Breaker!EndsWith("err", 0)' /\ Len(log') \in Nat
  BY <1>3 DEF BreakerTypes, Breaker!EndsWith
<1>5. CountsFailures' /\ CountsSuccesses'
  BY <1>1, <1>2, <1>4 DEF CountsFailures, CountsSuccesses
<1>6. QED
  BY <1>1, <1>3, <1>5 DEF BreakerInv

LEMMA BreakerInit == ASSUME Breaker!BreakerAssumption, Breaker!Init PROVE BreakerInv
<1>1. <<>> \in Seq(Events) /\ Len(<<>>) = 0 /\ DOMAIN <<>> = {}
  OBVIOUS
<1>2. BreakerTypes /\ ~WasReset
  BY <1>1 DEF Breaker!Init, BreakerTypes, WasReset
<1>3. CountsFailures /\ CountsSuccesses
  BY <1>1, <1>2, NoRun DEF Breaker!Init, Breaker!BreakerAssumption, CountsFailures, CountsSuccesses
<1>4. QED
  BY <1>2, <1>3 DEF BreakerInv

LEMMA BreakerNext == ASSUME Breaker!BreakerAssumption, BreakerInv, [Breaker!Next]_breakerVars PROVE BreakerInv'
<1>1. CASE Breaker!Next
  BY <1>1, BreakerAfterOk, BreakerAfterErr, BreakerAfterReset DEF Breaker!Next
<1>2. CASE UNCHANGED breakerVars
  BY <1>2 DEF breakerVars, BreakerInv, BreakerTypes, CountsFailures, CountsSuccesses, WasReset,
              Recovered, Breaker!EndsWith
<1>3. QED
  BY <1>1, <1>2

LEMMA BreakerTrips == ASSUME Breaker!BreakerAssumption, BreakerInv PROVE Breaker!TripsAndRecovers
<1>1. /\ failure_count \in Nat /\ failure_threshold \in Nat \ {0} /\ Len(log) \in Nat
      /\ Breaker!EndsWith("err", failure_count) /\ failure_count <= failure_threshold
      /\ state = "Open" <=> failure_count = failure_threshold
  BY DEF Breaker!BreakerAssumption, BreakerInv, BreakerTypes, CountsFailures
<1>2. ASSUME failure_count < failure_threshold PROVE ~Breaker!EndsWith("err", failure_threshold)
  <2>1. SUFFICES ASSUME Breaker!EndsWith("err", failure_threshold) PROVE FALSE
    OBVIOUS
  <2>2. Len(log) > failure_count
        /\ Len(log) - failure_count \in Len(log) - failure_threshold + 1 .. Len(log)
    BY <1>1, <1>2, <2>1 DEF Breaker!EndsWith
  <2>3. QED
    BY <2>1, <2>2 DEF Breaker!EndsWith, BreakerInv, CountsFailures
<1>3. state = "Open" <=> Breaker!EndsWith("err", failure_threshold)
  BY <1>1, <1>2
<1>4. QED
  BY <1>3 DEF Breaker!TripsAndRecovers, BreakerInv, WasReset, Recovered

(* CircuitBreaker::call and try_reset (resilience.rs), for all thresholds,
   called by one or by the loops of many: it is open just when the calls since
   the last reset end in failure_threshold failures, and does not close before
   its trial succeeded. *)
THEOREM BreakerTripsAndRecovers ==
    ASSUME Breaker!BreakerAssumption PROVE Spec => []TripsAndRecovers
<1>1. Init => BreakerInv
  BY BreakerInit DEF Init
<1>2. BreakerInv /\ [Next]_vars => BreakerInv'
  BY BreakerNext, LoadSteps, LoadKeepsBreaker DEF breakerVars
<1>3. BreakerInv => TripsAndRecovers
  BY BreakerTrips DEF TripsAndRecovers
<1>4. QED
  BY <1>1, <1>2, <1>3, PTL DEF Spec

-----------------------------------------------------------------------------
(* Powers of two, which the back-offs are made of. *)

(* A power of two is positive, and doubles with its exponent: the subsets of a
   set double when it gains an element. *)
LEMMA PowersOfTwo ==
    ASSUME NEW n \in Nat PROVE 2 ^ n \in Nat \ {0} /\ 2 ^ (n + 1) = 2 * 2 ^ n
<1> DEFINE S == 1 .. n
           x == n + 1
           A == SUBSET S
           B == {T \cup {x} : T \in A}
           f == [T \in A |-> T \cup {x}]
<1>1. IsFiniteSet(S) /\ Cardinality(S) = n /\ x \notin S
  BY FS_Interval
<1>2. IsFiniteSet(A) /\ Cardinality(A) = 2 ^ n /\ Cardinality(A) \in Nat
  BY <1>1, FS_SUBSET, FS_CardinalityType
<1>3. 2 ^ n # 0
  BY <1>2, FS_EmptySet
<1>4. f \in Bijection(A, B)
  <2>1. f \in [A -> B] /\ \A T \in B : \E U \in A : f[U] = T
    OBVIOUS
  <2>2. ASSUME NEW T \in A, NEW U \in A, f[T] = f[U] PROVE T = U
    <3>1. T \cup {x} = U \cup {x} /\ x \notin T /\ x \notin U
      BY <1>1, <2>2
    <3>2. QED
      BY <3>1
  <2>3. QED
    BY <2>1, <2>2, Zenon DEF Bijection, Injection, Surjection, IsInjective
<1>5. IsFiniteSet(B) /\ Cardinality(B) = 2 ^ n
  <2> HIDE DEF A, B, f
  <2>1. ExistsBijection(A, B)
    BY <1>4 DEF ExistsBijection
  <2>2. QED
    BY <1>2, <2>1, FS_Bijection
<1>6. SUBSET (S \cup {x}) = A \cup B /\ A \cap B = {}
  <2>1. ASSUME NEW T \in SUBSET (S \cup {x}), T \notin A PROVE T \in B
    <3>1. x \in T /\ T \ {x} \in A
      BY <1>1, <2>1
    <3>2. T = (T \ {x}) \cup {x}
      BY <3>1
    <3>3. QED
      BY <3>1, <3>2
  <2>2. A \cup B \subseteq SUBSET (S \cup {x})
    OBVIOUS
  <2>3. \A T \in B : x \in T
    OBVIOUS
  <2>4. QED
    BY <1>1, <2>1, <2>2, <2>3
<1>7. IsFiniteSet(S \cup {x}) /\ Cardinality(S \cup {x}) = n + 1
  BY <1>1, FS_AddElement
<1>8. Cardinality(SUBSET (S \cup {x})) = 2 ^ (n + 1)
  BY <1>7, FS_SUBSET
<1> HIDE DEF A, B, S, x, f
<1>9. Cardinality(A \cap B) = 0
  BY <1>6, FS_EmptySet
<1>10. Cardinality(A \cup B) = Cardinality(A) + Cardinality(B) - Cardinality(A \cap B)
  BY <1>2, <1>5, FS_Union
<1>11. Cardinality(A \cup B) = 2 ^ (n + 1)
  BY <1>6, <1>8
<1>12. QED
  BY <1>2, <1>3, <1>5, <1>9, <1>10, <1>11

-----------------------------------------------------------------------------
(* The loops around the breaker. *)

Places == {"idle", "refused", "running", "resetting", "backing_off", "loaded", "gave_up", "over"}
Loops == [pc : Places, attempt : Nat, holds : BOOLEAN]

LoadTypes ==
    /\ caller \in [Callers -> Loops]
    /\ runs \in [Callers -> Nat] /\ delays \in [Callers -> Seq(Nat)]
    /\ current_concurrent \in Nat /\ overreleased \in BOOLEAN
    /\ consecutive_failures \in Nat /\ outcomes \in Seq({"ok", "err"})

Holders == {c \in Callers : caller[c].holds}

SlotsCounted ==
    /\ current_concurrent <= max_concurrent
    /\ ~overreleased => current_concurrent = Cardinality(Holders)

(* An operation ran once for every attempt before this one, and once more when
   this one has run too. *)
Attempted(c) ==
    LET at == caller[c].pc
        attempt == caller[c].attempt
    IN  /\ attempt <= max_retries /\ runs[c] <= max_retries + 1
        /\ at = "idle" => runs[c] = 0 /\ attempt = 0 /\ ~caller[c].holds
        /\ at \in {"running", "resetting"} => runs[c] = attempt
        /\ at = "backing_off" => runs[c] = attempt + 1 /\ attempt < max_retries
        /\ at = "gave_up" => runs[c] = attempt + 1 /\ attempt = max_retries

(* There is a back-off for every attempt but the first. *)
BackedOff(c) ==
    /\ Len(delays[c]) = caller[c].attempt
    /\ \A k \in 1 .. Len(delays[c]) : delays[c][k] \in Load!calculate_backoff(k - 1)

(* consecutive_failures is the length of the run of failures at the end. *)
FailuresCounted ==
    /\ Run(outcomes, "err", consecutive_failures)
    /\ Len(outcomes) > consecutive_failures => outcomes[Len(outcomes) - consecutive_failures] # "err"

LoopsKeep == \A c \in Callers : Attempted(c) /\ BackedOff(c)

LoadInv == LoadTypes /\ SlotsCounted /\ LoopsKeep /\ FailuresCounted

LEMMA LoadCounts == \A S : Load!Cardinality(S) = Cardinality(S)
BY DEF Load!Cardinality, Cardinality

LEMMA BackoffGrows ==
    ASSUME Load!ResilienceAssumption, initial_backoff_ms # 0, NEW n \in Nat,
           NEW d \in Load!calculate_backoff(n), NEW e \in Load!calculate_backoff(n + 1)
    PROVE  e > d \/ e >= max_backoff_ms
<1> DEFINE b == initial_backoff_ms * 2 ^ n
           b2 == initial_backoff_ms * 2 ^ (n + 1)
<1>1. /\ initial_backoff_ms \in Nat \ {0} /\ max_backoff_ms \in Nat
      /\ jitter_percent \in Nat /\ jitter_percent <= 99
  BY DEF Load!ResilienceAssumption
<1>2. b \in Nat \ {0} /\ b2 = 2 * b
  <2>1. 2 ^ n \in Nat \ {0} /\ 2 ^ (n + 1) = 2 * 2 ^ n
    BY PowersOfTwo
  <2> DEFINE p == 2 ^ n
  <2>2. p \in Nat \ {0} /\ b = initial_backoff_ms * p /\ b2 = initial_backoff_ms * (2 * p)
    BY <2>1
  <2> HIDE DEF p, b, b2
  <2>3. QED
    BY <1>1, <2>2
<1>3. /\ Load!Base(n) = IF b < max_backoff_ms THEN b ELSE max_backoff_ms
      /\ Load!Base(n + 1) = IF b2 < max_backoff_ms THEN b2 ELSE max_backoff_ms
  BY DEF Load!Base
<1> HIDE DEF b, b2
<1>4. ASSUME NEW x \in Nat, x # 0
      PROVE  /\ (x * jitter_percent) \div 100 \in Nat
             /\ (x * jitter_percent) \div 100 < x
  <2>1. x * jitter_percent \in Nat /\ x * jitter_percent <= x * 99
    BY <1>1, <1>4
  <2> DEFINE y == x * jitter_percent
  <2>2. y \in Nat /\ y <= x * 99
    BY <2>1
  <2> HIDE DEF y
  <2>3. y \div 100 \in Nat /\ y \div 100 < x
    BY <2>2, <1>4
  <2>4. QED
    BY <2>3 DEF y
<1>5. CASE b2 < max_backoff_ms
  <2>1. Load!Base(n) = b /\ Load!Base(n + 1) = 2 * b
    BY <1>1, <1>2, <1>3, <1>5
  <2>2. d < 2 * b
    BY <1>2, <1>4, <2>1 DEF Load!calculate_backoff
  <2>3. e >= 2 * b
    BY <1>2, <1>4, <2>1 DEF Load!calculate_backoff
  <2>4. d \in Int /\ e \in Int
    BY <1>2, <1>4, <2>1 DEF Load!calculate_backoff
  <2>5. QED
    BY <1>2, <2>2, <2>3, <2>4
<1>6. CASE ~(b2 < max_backoff_ms)
  <2>1. Load!Base(n + 1) = max_backoff_ms
    BY <1>1, <1>2, <1>3, <1>6
  <2>2. CASE max_backoff_ms # 0
    BY <1>1, <1>4, <2>1, <2>2 DEF Load!calculate_backoff
  <2>3. CASE max_backoff_ms = 0
    <3>1. (0 * jitter_percent) \div 100 = 0
      BY <1>1
    <3>2. QED
      BY <2>1, <2>3, <3>1 DEF Load!calculate_backoff
  <2>4. QED
    BY <2>2, <2>3
<1>7. QED
  BY <1>5, <1>6

LEMMA BackoffIsNat ==
    ASSUME Load!ResilienceAssumption, NEW n \in Nat, NEW d \in Load!calculate_backoff(n)
    PROVE  d \in Nat
<1>1. /\ initial_backoff_ms \in Nat /\ max_backoff_ms \in Nat /\ jitter_percent \in Nat
      /\ 2 ^ n \in Nat
  BY PowersOfTwo DEF Load!ResilienceAssumption
<1> DEFINE p == 2 ^ n
<1>2. initial_backoff_ms * p \in Nat
  <2> HIDE DEF p
  <2>1. p \in Nat
    BY <1>1 DEF p
  <2>2. QED
    BY <1>1, <2>1
<1>3. Load!Base(n) \in Nat
  BY <1>1, <1>2 DEF Load!Base
<1>4. \A b \in Nat : (b * jitter_percent) \div 100 \in Nat
  BY <1>1
<1>5. QED
  BY <1>3, <1>4 DEF Load!calculate_backoff


LEMMA LoadInit == ASSUME Load!ResilienceAssumption, IsFiniteSet(Callers), Load!Init PROVE LoadInv
<1>1. LoadTypes
  <2>1. [pc |-> "idle", attempt |-> 0, holds |-> FALSE] \in Loops
    BY DEF Loops, Places
  <2>2. <<>> \in Seq(Nat) /\ <<>> \in Seq({"ok", "err"})
    OBVIOUS
  <2>3. QED
    BY <2>1, <2>2 DEF Load!Init, LoadTypes
<1>2. Holders = {}
  BY DEF Load!Init, Holders
<1>3. SlotsCounted
  BY <1>2, FS_EmptySet DEF Load!Init, Load!ResilienceAssumption, SlotsCounted
<1>4. LoopsKeep
  BY DEF Load!Init, Load!ResilienceAssumption, LoopsKeep, Attempted, BackedOff
<1>5. FailuresCounted
  BY DEF Load!Init, FailuresCounted, Run
<1>6. QED
  BY <1>1, <1>3, <1>4, <1>5 DEF LoadInv

(* A caller at another place. *)
LEMMA CallerMoves ==
    ASSUME LoadTypes, NEW c \in Callers, NEW to \in Places, NEW attempt \in Nat, NEW holds \in BOOLEAN,
           caller' = [caller EXCEPT ![c] = [pc |-> to, attempt |-> attempt, holds |-> holds]]
    PROVE  /\ caller' \in [Callers -> Loops]
           /\ caller'[c] = [pc |-> to, attempt |-> attempt, holds |-> holds]
           /\ \A d \in Callers : d # c => caller'[d] = caller[d]
BY DEF LoadTypes, Loops

LEMMA CallerGoes ==
    ASSUME LoadTypes, NEW c \in Callers, NEW to \in Places, Load!Go(c, to)
    PROVE  caller' = [caller EXCEPT ![c] = [pc |-> to, attempt |-> caller[c].attempt,
                                            holds |-> caller[c].holds]]
<1>1. caller[c] \in Loops
  BY DEF LoadTypes
<1>2. [caller[c] EXCEPT !.pc = to] = [pc |-> to, attempt |-> caller[c].attempt, holds |-> caller[c].holds]
  BY <1>1 DEF Loops
<1>3. QED
  BY <1>2 DEF Load!Go

LEMMA TwoFields ==
    ASSUME NEW r \in Loops, NEW to, NEW h
    PROVE  [r EXCEPT !.pc = to, !.holds = h] = [pc |-> to, attempt |-> r.attempt, holds |-> h]
<1> DEFINE half == [r EXCEPT !.pc = to]
<1>1. half = [pc |-> to, attempt |-> r.attempt, holds |-> r.holds]
  BY DEF Loops
<1>2. [half EXCEPT !.holds = h] = [pc |-> to, attempt |-> r.attempt, holds |-> h]
  <2> HIDE DEF half
  <2>1. QED
    BY <1>1
<1>3. QED
  BY <1>2

(* The others are as they were. *)
LEMMA OnlyCaller ==
    ASSUME LoadInv, NEW c \in Callers,
           \A d \in Callers : d # c =>
              caller'[d] = caller[d] /\ runs'[d] = runs[d] /\ delays'[d] = delays[d],
           Attempted(c)', BackedOff(c)'
    PROVE  LoopsKeep'
BY DEF LoadInv, LoopsKeep, Attempted, BackedOff, Load!calculate_backoff, Load!Base

(* The slots, when nobody takes or frees one. *)
LEMMA SlotsStay ==
    ASSUME SlotsCounted, UNCHANGED <<current_concurrent, overreleased>>,
           \A c \in Callers : caller'[c].holds = caller[c].holds
    PROVE  SlotsCounted'
<1>1. Holders' = Holders
  BY DEF Holders
<1>2. QED
  BY <1>1 DEF SlotsCounted

LEMMA AcquireKeeps ==
    ASSUME Load!ResilienceAssumption, IsFiniteSet(Callers), LoadInv,
           NEW c \in Callers, Load!acquire(c)
    PROVE  LoadInv'
<1> USE DEF LoadInv
<1> DEFINE full == ~(current_concurrent < max_concurrent)
           to == IF full THEN "refused" ELSE "running"
           at == [pc |-> to, attempt |-> caller[c].attempt, holds |-> ~full]
<1>1. /\ caller[c] \in Loops /\ caller[c].pc = "idle" /\ caller[c].holds = FALSE
      /\ max_concurrent \in Nat /\ max_retries \in Nat
      /\ UNCHANGED <<runs, delays, overreleased, consecutive_failures, outcomes>>
      /\ c \notin Holders /\ caller[c].attempt \in Nat
  BY DEF Load!acquire, Load!At, Load!unDetector, LoadTypes, Loops, Load!ResilienceAssumption, LoopsKeep, Attempted,
         Holders
<1>2. caller' = [caller EXCEPT ![c] = at]
  <2>1. CASE full
    BY <1>1, <2>1, CallerGoes DEF Load!acquire, Places
  <2>2. CASE ~full
    <3>1. caller' = [caller EXCEPT ![c] = [caller[c] EXCEPT !.pc = "running", !.holds = TRUE]]
      BY <2>2 DEF Load!acquire
    <3>2. QED
      BY <1>1, <2>2, <3>1, TwoFields
  <2>3. QED
    BY <2>1, <2>2
<1>3. /\ caller' \in [Callers -> Loops] /\ caller'[c] = at
      /\ \A d \in Callers : d # c => caller'[d] = caller[d]
  <2>1. to \in Places
    BY DEF Places
  <2>2. (~full) \in BOOLEAN
    OBVIOUS
  <2> HIDE DEF full, to
  <2>3. QED
    BY <1>1, <1>2, <2>1, <2>2, CallerMoves
<1>4. LoadTypes'
  BY <1>1, <1>3 DEF LoadTypes, Load!acquire
<1>5. LoopsKeep'
  <2>1. Attempted(c)' /\ BackedOff(c)'
    BY <1>1, <1>3 DEF LoopsKeep, Attempted, BackedOff, Load!calculate_backoff, Load!Base
  <2>2. QED
    BY <1>1, <1>3, <2>1, OnlyCaller
<1>6. FailuresCounted'
  BY <1>1 DEF FailuresCounted
<1>7. SlotsCounted'
  <2>1. CASE ~full
    <3>1. current_concurrent' = current_concurrent + 1 /\ current_concurrent' <= max_concurrent
      BY <1>1, <2>1 DEF Load!acquire, LoadTypes
    <3>2. Holders' = Holders \cup {c}
      <4>1. caller'[c].holds = (~full)
        BY <1>3
      <4>2. (~full) = TRUE
        BY <2>1
      <4>3. QED
        BY <1>3, <4>1, <4>2 DEF Holders
    <3>3. ASSUME ~overreleased' PROVE current_concurrent' = Cardinality(Holders')
      <4>1. current_concurrent = Cardinality(Holders)
        BY <1>1, <3>3 DEF SlotsCounted
      <4>2. IsFiniteSet(Holders)
        BY FS_Subset DEF Holders
      <4>3. Cardinality(Holders \cup {c}) = Cardinality(Holders) + 1
        BY <1>1, <4>2, FS_AddElement
      <4>4. QED
        BY <3>1, <3>2, <4>1, <4>3
    <3>4. QED
      BY <3>1, <3>3 DEF SlotsCounted
  <2>2. CASE full
    <3>1. \A d \in Callers : caller'[d].holds = caller[d].holds
      <4>1. caller'[c].holds = (~full)
        BY <1>3
      <4>2. (~full) = FALSE
        BY <2>2
      <4>3. QED
        BY <1>1, <1>3, <4>1, <4>2
    <3>2. QED
      BY <1>1, <2>2, <3>1, SlotsStay DEF Load!acquire
  <2>3. QED
    BY <2>1, <2>2
<1>8. QED
  BY <1>4, <1>5, <1>6, <1>7

LEMMA ReleaseKeeps ==
    ASSUME Load!ResilienceAssumption, IsFiniteSet(Callers), LoadInv,
           NEW c \in Callers, Load!release(c)
    PROVE  LoadInv'
<1> USE DEF LoadInv
<1> DEFINE at == [pc |-> "over", attempt |-> caller[c].attempt, holds |-> FALSE]
<1>1. /\ caller[c] \in Loops /\ caller[c].attempt \in Nat /\ current_concurrent \in Nat
      /\ UNCHANGED <<runs, delays, consecutive_failures, outcomes>>
      /\ overreleased' = (overreleased \/ ~caller[c].holds)
      /\ current_concurrent' = IF current_concurrent > 0 THEN current_concurrent - 1 ELSE 0
  BY DEF Load!release, Load!unDetector, LoadTypes, Loops
<1>2. caller' = [caller EXCEPT ![c] = at]
  <2>1. caller' = [caller EXCEPT ![c] = [caller[c] EXCEPT !.pc = "over", !.holds = FALSE]]
    BY DEF Load!release
  <2>2. QED
    BY <1>1, <2>1, TwoFields
<1>3. /\ caller' \in [Callers -> Loops] /\ caller'[c] = at
      /\ \A d \in Callers : d # c => caller'[d] = caller[d]
  BY <1>1, <1>2, CallerMoves DEF Places
<1>4. LoadTypes'
  <2>1. current_concurrent' \in Nat /\ overreleased' \in BOOLEAN
    BY <1>1
  <2>2. QED
    BY <1>1, <1>3, <2>1 DEF LoadTypes
<1>5. LoopsKeep'
  <2>1. Attempted(c)' /\ BackedOff(c)'
    BY <1>1, <1>3 DEF LoopsKeep, Attempted, BackedOff, Load!calculate_backoff, Load!Base
  <2>2. QED
    BY <1>1, <1>3, <2>1, OnlyCaller
<1>6. FailuresCounted'
  BY <1>1 DEF FailuresCounted
<1>7. SlotsCounted'
  <2>1. ASSUME ~overreleased' PROVE current_concurrent' = Cardinality(Holders')
    <3>1. c \in Holders /\ current_concurrent = Cardinality(Holders)
      BY <1>1, <2>1 DEF SlotsCounted, Holders
    <3>2. Holders' = Holders \ {c}
      BY <1>3 DEF Holders
    <3>3. IsFiniteSet(Holders)
      BY FS_Subset DEF Holders
    <3>4. Cardinality(Holders \ {c}) = Cardinality(Holders) - 1 /\ Cardinality(Holders) # 0
      BY <3>1, <3>3, FS_RemoveElement, FS_EmptySet
    <3>5. QED
      BY <1>1, <3>1, <3>2, <3>4
  <2>2. current_concurrent' <= max_concurrent
    BY <1>1 DEF SlotsCounted, Load!ResilienceAssumption
  <2>3. QED
    BY <2>1, <2>2 DEF SlotsCounted
<1>8. QED
  BY <1>4, <1>5, <1>6, <1>7


(* What an outcome does to the run of failures. *)
LEMMA OutcomeCounted ==
    ASSUME LoadTypes, FailuresCounted, NEW e \in {"ok", "err"},
           outcomes' = Append(outcomes, e),
           consecutive_failures' = IF e = "err" THEN consecutive_failures + 1 ELSE 0
    PROVE  /\ outcomes' \in Seq({"ok", "err"}) /\ consecutive_failures' \in Nat
           /\ FailuresCounted'
<1>1. /\ Len(outcomes) \in Nat /\ consecutive_failures \in Nat
      /\ Len(outcomes') = Len(outcomes) + 1 /\ outcomes'[Len(outcomes')] = e
      /\ \A k \in 1 .. Len(outcomes) : outcomes'[k] = outcomes[k]
      /\ outcomes' \in Seq({"ok", "err"})
  BY DEF LoadTypes
<1>2. CASE e = "err"
  <2>1. consecutive_failures' = consecutive_failures + 1
    BY <1>2
  <2>2. Run(outcomes', "err", consecutive_failures + 1)
    BY <1>1, <1>2 DEF FailuresCounted, Run
  <2>3. ASSUME Len(outcomes') > consecutive_failures'
        PROVE  outcomes'[Len(outcomes') - consecutive_failures'] # "err"
    <3>1. /\ Len(outcomes) > consecutive_failures
          /\ Len(outcomes') - consecutive_failures' = Len(outcomes) - consecutive_failures
          /\ Len(outcomes) - consecutive_failures \in 1 .. Len(outcomes)
      BY <1>1, <2>1, <2>3 DEF FailuresCounted, Run
    <3>2. QED
      BY <1>1, <3>1 DEF FailuresCounted
  <2>4. QED
    BY <1>1, <2>1, <2>2, <2>3 DEF FailuresCounted
<1>3. CASE e = "ok"
  BY <1>1, <1>3 DEF FailuresCounted, Run
<1>4. QED
  BY <1>2, <1>3

LEMMA CallKeeps ==
    ASSUME Load!ResilienceAssumption, LoadInv, NEW c \in Callers,
           Load!CallSucceeds(c) \/ Load!CallFails(c)
    PROVE  LoadInv'
<1> USE DEF LoadInv
<1> DEFINE retries == Load!should_retry(caller[c].attempt)
           to == IF Load!CallSucceeds(c) THEN "loaded" ELSE IF retries THEN "backing_off" ELSE "gave_up"
           at == [pc |-> to, attempt |-> caller[c].attempt, holds |-> caller[c].holds]
<1>1. /\ caller[c] \in Loops /\ caller[c].attempt \in Nat /\ caller[c].holds \in BOOLEAN
      /\ caller[c].pc = "running" /\ runs[c] = caller[c].attempt /\ runs[c] \in Nat
      /\ caller[c].attempt <= max_retries /\ max_retries \in Nat
      /\ UNCHANGED <<delays, current_concurrent, overreleased>>
      /\ runs' = [runs EXCEPT ![c] = @ + 1]
      /\ Load!Go(c, to)
  BY DEF Load!CallSucceeds, Load!CallFails, Load!At, LoadTypes, Loops, LoopsKeep, Attempted, Load!ResilienceAssumption
<1>2. to \in Places
  BY DEF Places
<1>3. retries <=> caller[c].attempt < max_retries
  BY DEF Load!should_retry
<1> HIDE DEF retries
<1>4. to \in {"loaded", "backing_off", "gave_up"} /\ (to = "backing_off" => retries) /\ (to = "gave_up" => ~retries)
  OBVIOUS
<1> HIDE DEF to
<1>5. caller' = [caller EXCEPT ![c] = at]
  BY <1>1, <1>2, CallerGoes
<1>6. /\ caller' \in [Callers -> Loops] /\ caller'[c] = at
      /\ \A d \in Callers : d # c => caller'[d] = caller[d]
  BY <1>1, <1>2, <1>5, CallerMoves
<1>7. /\ outcomes' \in Seq({"ok", "err"}) /\ consecutive_failures' \in Nat
      /\ FailuresCounted'
  <2>1. \E e \in {"ok", "err"} :
           /\ outcomes' = Append(outcomes, e)
           /\ consecutive_failures' = IF e = "err" THEN consecutive_failures + 1 ELSE 0
    BY DEF Load!CallSucceeds, Load!CallFails
  <2>2. QED
    BY <2>1, OutcomeCounted
<1>8. LoadTypes'
  <2>1. runs' \in [Callers -> Nat]
    BY <1>1 DEF LoadTypes
  <2>2. QED
    BY <1>1, <1>6, <1>7, <2>1 DEF LoadTypes
<1>9. LoopsKeep'
  <2>1. Attempted(c)' /\ BackedOff(c)'
    <3>1. runs'[c] = caller[c].attempt + 1 /\ delays'[c] = delays[c]
      BY <1>1 DEF LoadTypes
    <3>2. Attempted(c)'
      BY <1>1, <1>3, <1>4, <1>6, <3>1 DEF Attempted
    <3>3. BackedOff(c)'
      BY <1>6, <3>1 DEF LoopsKeep, BackedOff, Load!calculate_backoff, Load!Base
    <3>4. QED
      BY <3>2, <3>3
  <2>2. \A d \in Callers : d # c =>
           caller'[d] = caller[d] /\ runs'[d] = runs[d] /\ delays'[d] = delays[d]
    BY <1>1, <1>6 DEF LoadTypes
  <2>3. QED
    BY <2>1, <2>2, OnlyCaller
<1>10. SlotsCounted'
  <2>1. \A d \in Callers : caller'[d].holds = caller[d].holds
    BY <1>6
  <2>2. QED
    BY <1>1, <2>1, SlotsStay
<1>11. QED
  BY <1>7, <1>8, <1>9, <1>10

(* CallRefused and Resets. *)
LEMMA WaitKeeps ==
    ASSUME Load!ResilienceAssumption, LoadInv, NEW c \in Callers,
           Load!CallRefused(c) \/ Load!Resets(c)
    PROVE  LoadInv'
<1> USE DEF LoadInv
<1> DEFINE to == IF Load!CallRefused(c) THEN "resetting" ELSE "running"
           at == [pc |-> to, attempt |-> caller[c].attempt, holds |-> caller[c].holds]
<1>1. /\ caller[c] \in Loops /\ caller[c].attempt \in Nat /\ caller[c].holds \in BOOLEAN
      /\ caller[c].pc \in {"running", "resetting"}
      /\ UNCHANGED <<delays, runs, current_concurrent, overreleased, consecutive_failures, outcomes>>
      /\ Load!Go(c, to)
  BY DEF Load!CallRefused, Load!Resets, Load!At, Load!unDetector, LoadTypes, Loops
<1>2. to \in {"running", "resetting"} /\ to \in Places
  BY DEF Places
<1> HIDE DEF to
<1>3. caller' = [caller EXCEPT ![c] = at]
  BY <1>1, <1>2, CallerGoes
<1>4. /\ caller' \in [Callers -> Loops] /\ caller'[c] = at
      /\ \A d \in Callers : d # c => caller'[d] = caller[d]
  BY <1>1, <1>2, <1>3, CallerMoves
<1>5. LoadTypes'
  BY <1>1, <1>4 DEF LoadTypes
<1>6. LoopsKeep'
  <2>1. Attempted(c)' /\ BackedOff(c)'
    BY <1>1, <1>2, <1>4 DEF LoopsKeep, Attempted, BackedOff, Load!calculate_backoff, Load!Base
  <2>2. QED
    BY <1>1, <1>4, <2>1, OnlyCaller
<1>7. SlotsCounted'
  <2>1. \A d \in Callers : caller'[d].holds = caller[d].holds
    BY <1>4
  <2>2. QED
    BY <1>1, <2>1, SlotsStay
<1>8. FailuresCounted'
  BY <1>1 DEF FailuresCounted
<1>9. QED
  BY <1>5, <1>6, <1>7, <1>8

LEMMA BackOffKeeps ==
    ASSUME Load!ResilienceAssumption, LoadInv, NEW c \in Callers, Load!BacksOff(c)
    PROVE  LoadInv'
<1> USE DEF LoadInv
<1> DEFINE n == caller[c].attempt
           at == [pc |-> "running", attempt |-> n + 1, holds |-> caller[c].holds]
<1>1. /\ caller[c] \in Loops /\ n \in Nat /\ caller[c].holds \in BOOLEAN
      /\ caller[c].pc = "backing_off" /\ runs[c] = n + 1 /\ n < max_retries /\ max_retries \in Nat
      /\ UNCHANGED <<runs, current_concurrent, overreleased, consecutive_failures, outcomes>>
  BY DEF Load!BacksOff, Load!At, Load!unDetector, LoadTypes, Loops, LoopsKeep, Attempted, Load!ResilienceAssumption
<1>2. PICK delay \in Load!calculate_backoff(n) : delays' = [delays EXCEPT ![c] = Append(@, delay)]
  BY DEF Load!BacksOff
<1>3. caller' = [caller EXCEPT ![c] = at]
  <2>1. [caller[c] EXCEPT !.pc = "running", !.attempt = n + 1] = at
    <3> DEFINE half == [caller[c] EXCEPT !.pc = "running"]
    <3>1. half = [pc |-> "running", attempt |-> n, holds |-> caller[c].holds]
      BY <1>1 DEF Loops
    <3>2. [half EXCEPT !.attempt = n + 1] = at
      <4> HIDE DEF half
      <4>1. QED
        BY <3>1
    <3>3. QED
      BY <3>2
  <2>2. caller' = [caller EXCEPT ![c] = [caller[c] EXCEPT !.pc = "running", !.attempt = n + 1]]
    BY DEF Load!BacksOff
  <2>3. QED
    BY <2>1, <2>2
<1>4. /\ caller' \in [Callers -> Loops] /\ caller'[c] = at
      /\ \A d \in Callers : d # c => caller'[d] = caller[d]
  <2>1. n + 1 \in Nat /\ "running" \in Places
    BY <1>1 DEF Places
  <2> HIDE DEF n
  <2>2. QED
    BY <1>1, <1>3, <2>1, CallerMoves
<1>5. delay \in Nat
  BY <1>1, BackoffIsNat
<1>6. /\ delays' \in [Callers -> Seq(Nat)]
      /\ delays'[c] = Append(delays[c], delay) /\ delays[c] \in Seq(Nat)
      /\ \A d \in Callers : d # c => delays'[d] = delays[d]
  BY <1>2, <1>5 DEF LoadTypes
<1>7. LoadTypes'
  BY <1>1, <1>4, <1>6 DEF LoadTypes
<1>8. LoopsKeep'
  <2>1. Attempted(c)'
    BY <1>1, <1>4 DEF Attempted
  <2>2. BackedOff(c)'
    <3>1. Len(delays[c]) = n /\ \A k \in 1 .. n : delays[c][k] \in Load!calculate_backoff(k - 1)
      BY DEF LoopsKeep, BackedOff
    <3>2. /\ Len(delays'[c]) = n + 1 /\ delays'[c][n + 1] = delay
          /\ \A k \in 1 .. n : delays'[c][k] = delays[c][k]
      BY <1>6, <3>1
    <3>3. \A k \in 1 .. n + 1 : delays'[c][k] \in Load!calculate_backoff(k - 1)
      <4> SUFFICES ASSUME NEW k \in 1 .. n + 1 PROVE delays'[c][k] \in Load!calculate_backoff(k - 1)
        OBVIOUS
      <4>1. CASE k = n + 1
        <5>1. k - 1 = n
          BY <1>1, <4>1
        <5>2. QED
          BY <3>2, <4>1, <5>1
      <4>2. CASE k # n + 1
        BY <1>1, <3>1, <3>2, <4>2
      <4>3. QED
        BY <4>1, <4>2
    <3>4. Len(delays'[c]) = caller'[c].attempt
      BY <1>4, <3>2
    <3>5. QED
      BY <3>2, <3>3, <3>4 DEF BackedOff, Load!calculate_backoff, Load!Base
  <2>3. QED
    BY <1>1, <1>4, <1>6, <2>1, <2>2, OnlyCaller
<1>9. SlotsCounted'
  <2>1. \A d \in Callers : caller'[d].holds = caller[d].holds
    BY <1>4
  <2>2. QED
    BY <1>1, <2>1, SlotsStay
<1>10. FailuresCounted'
  BY <1>1 DEF FailuresCounted
<1>11. QED
  BY <1>7, <1>8, <1>9, <1>10

LEMMA RecoveryKeeps ==
    ASSUME LoadInv, Load!attempt_recovery PROVE LoadInv'
<1> USE DEF LoadInv
<1>1. /\ UNCHANGED <<caller, delays, runs, current_concurrent, overreleased>>
      /\ consecutive_failures' = 0 /\ outcomes' = <<>>
  BY DEF Load!attempt_recovery
<1>2. LoadTypes'
  BY <1>1 DEF LoadTypes
<1>3. FailuresCounted'
  BY <1>1 DEF FailuresCounted, Run
<1>4. LoopsKeep' /\ SlotsCounted'
  BY <1>1 DEF LoopsKeep, Attempted, BackedOff, Load!calculate_backoff, Load!Base, SlotsCounted, Holders
<1>5. QED
  BY <1>2, <1>3, <1>4

LEMMA LoadNext ==
    ASSUME Load!ResilienceAssumption, IsFiniteSet(Callers), LoadInv,
           Load!Next \/ UNCHANGED loadVars
    PROVE  LoadInv'
<1>1. CASE Load!Next
  BY <1>1, AcquireKeeps, ReleaseKeeps, CallKeeps, WaitKeeps, BackOffKeeps, RecoveryKeeps DEF Load!Next
<1>2. CASE UNCHANGED loadVars
  BY <1>2 DEF loadVars, LoadInv, LoadTypes, SlotsCounted, Holders, LoopsKeep, Attempted, BackedOff,
              Load!calculate_backoff, Load!Base, FailuresCounted
<1>3. QED
  BY <1>1, <1>2

LEMMA LoadBounded ==
    ASSUME Load!ResilienceAssumption, LoadInv PROVE RetriesBounded
<1> USE DEF LoadInv
<1>1. current_concurrent <= max_concurrent
      /\ (~overreleased => current_concurrent = Load!Cardinality({c \in Callers : caller[c].holds}))
  BY LoadCounts DEF SlotsCounted, Holders
<1>2. ASSUME NEW c \in Callers
      PROVE  runs[c] <= max_retries + 1 /\ (Load!At(c, "gave_up") => runs[c] = max_retries + 1)
  BY DEF LoopsKeep, Attempted, Load!At
<1>3. ASSUME NEW c \in Callers, NEW k \in 2 .. Len(delays[c]), initial_backoff_ms # 0
      PROVE  delays[c][k] > delays[c][k - 1] \/ delays[c][k] >= max_backoff_ms
  <2>1. delays[c] \in Seq(Nat) /\ k - 2 \in Nat /\ k - 1 = (k - 2) + 1 /\ k \in 1 .. Len(delays[c]) /\ k - 1 \in 1 .. Len(delays[c])
    BY DEF LoadTypes
  <2>2. delays[c][k] \in Load!calculate_backoff(k - 1)
        /\ delays[c][k - 1] \in Load!calculate_backoff((k - 1) - 1)
    BY <2>1 DEF LoopsKeep, BackedOff
  <2>3. (k - 1) - 1 = k - 2
    OBVIOUS
  <2>4. QED
    BY <1>3, <2>1, <2>2, <2>3, BackoffGrows
<1>4. Load!is_faulty <=>
          /\ Len(outcomes) >= fault_threshold
          /\ \A k \in Len(outcomes) - fault_threshold + 1 .. Len(outcomes) : outcomes[k] = "err"
  <2>1. /\ Len(outcomes) \in Nat /\ consecutive_failures \in Nat /\ fault_threshold \in Nat \ {0}
        /\ consecutive_failures <= Len(outcomes)
        /\ \A k \in Len(outcomes) - consecutive_failures + 1 .. Len(outcomes) : outcomes[k] = "err"
    BY DEF LoadTypes, Load!ResilienceAssumption, FailuresCounted, Run
  <2>2. CASE consecutive_failures >= fault_threshold
    BY <2>1, <2>2 DEF Load!is_faulty
  <2>3. CASE ~(consecutive_failures >= fault_threshold)
    <3>1. Len(outcomes) >= fault_threshold =>
            /\ Len(outcomes) > consecutive_failures
            /\ Len(outcomes) - consecutive_failures \in Len(outcomes) - fault_threshold + 1 .. Len(outcomes)
      BY <2>1, <2>3
    <3>2. QED
      BY <2>3, <3>1 DEF Load!is_faulty, FailuresCounted
  <2>4. QED
    BY <2>2, <2>3
<1>5. QED
  BY <1>1, <1>2, <1>3, <1>4 DEF RetriesBounded, Load!RetriesBounded

(* BulkheadPattern, RetryPolicy and FaultDetector (resilience.rs) around one
   breaker, for any callers, limits and delays: slots are counted and bounded,
   an operation runs max_retries + 1 times at most, back-offs grow up to the
   cap, and the detector is faulty just after fault_threshold failures in a
   row; and the breaker trips and recovers as it does alone. *)
THEOREM FaultsAreContained ==
    ASSUME Load!ResilienceAssumption, Breaker!BreakerAssumption, IsFiniteSet(Callers)
    PROVE  Spec => []FaultsContained
<1>1. Init => LoadInv
  BY LoadInit DEF Init
<1>2. LoadInv /\ [Next]_vars => LoadInv'
  BY LoadNext, LoadSteps
<1>3. LoadInv => RetriesBounded
  BY LoadBounded
<1>4. Spec => []RetriesBounded
  BY <1>1, <1>2, <1>3, PTL DEF Spec
<1>5. Spec => []TripsAndRecovers
  BY BreakerTripsAndRecovers
<1>6. TripsAndRecovers /\ RetriesBounded <=> FaultsContained
  BY DEF FaultsContained
<1>7. QED
  BY <1>4, <1>5, <1>6, PTL

-----------------------------------------------------------------------------
(* The metrics collector, when nobody resets it. *)

ReadPlaces == {"get_percentiles", "get_clone", "all", "all_percentiles", "all_clone"}
MetricsPlaces == {"idle", "record", "get", "get_all", "record_operation", "record_latency"} \cup ReadPlaces

MetricsTypes ==
    /\ pc \in [Threads -> MetricsPlaces]
    /\ operations \in [Names -> Nat] /\ latencies \in [Names -> Nat]
    /\ name \in [Threads -> Names \cup {Metrics!NoName}]
    /\ todo \in [Threads -> SUBSET Names]
    /\ seen \in [Threads -> [total : Nat, samples : Nat]]
    /\ writer \in [Metrics!Locks -> Threads \cup {Metrics!Nobody}]
    /\ readers \in [Metrics!Locks -> [Threads -> Int]]

(* The guards of the operations a thread holds: get_all_metrics takes one for
   the names and one for each of them. *)
GuardsHeld(t) ==
    readers["operations"][t] =
        CASE pc[t] \in {"get_percentiles", "get_clone", "all"} -> 1
          [] pc[t] \in {"all_percentiles", "all_clone"} -> 2
          [] OTHER -> 0

(* A writer that has the operations for itself keeps them until it is done. *)
WritesAlone(t) ==
    /\ pc[t] \in {"record_operation", "record_latency"} => writer["operations"] = t
    /\ pc[t] = "record_latency" => Metrics!Unread("operations")

(* What a reader has seen of the latencies still holds when it sees the total. *)
SeesNow(t) ==
    /\ pc[t] \in {"get_clone", "all_clone"} => seen[t].samples = latencies[name[t]]
    /\ pc[t] \notin {"get_clone", "all_clone"} => seen[t].total = seen[t].samples

MetricsInv ==
    /\ MetricsTypes
    /\ operations = latencies
    /\ \A t \in Threads :
          /\ pc[t] # "idle" => name[t] \in Names
          /\ GuardsHeld(t) /\ WritesAlone(t) /\ SeesNow(t)

MetricsKeep == calls \in Menus /\ ("reset" \notin calls => MetricsInv)

LEMMA MetricsInit == ASSUME Metrics!Init PROVE MetricsInv
BY DEF Metrics!Init, MetricsInv, MetricsTypes, MetricsPlaces, ReadPlaces, GuardsHeld, WritesAlone,
       SeesNow, Metrics!NoReport, Metrics!Unread, Metrics!Locks

LEMMA CallKeepsMetrics ==
    ASSUME Metrics!MetricsAssumption, MetricsInv, "reset" \notin calls, calls \subseteq {"record", "get", "get_all", "reset"},
           NEW t \in Threads, Metrics!Call(t)
    PROVE  MetricsInv'
<1>1. PICK c \in calls, n \in Names :
          /\ name' = [name EXCEPT ![t] = n] /\ pc' = [pc EXCEPT ![t] = c]
          /\ pc[t] = "idle" /\ c \in {"record", "get", "get_all"}
          /\ UNCHANGED <<operations, latencies, writer, readers, todo, seen>>
  BY DEF Metrics!Call, Metrics!Goto
<1>2. QED
  BY <1>1 DEF MetricsInv, MetricsTypes, MetricsPlaces, ReadPlaces, GuardsHeld, WritesAlone, SeesNow, Metrics!Unread

(* record_operation *)
LEMMA RecordKeepsMetrics ==
    ASSUME Metrics!MetricsAssumption, MetricsInv, NEW t \in Threads,
           Metrics!RecordClaims(t) \/ Metrics!RecordLocksLatencies(t) \/ Metrics!RecordUpdates(t)
    PROVE  MetricsInv'
<1> USE DEF MetricsInv, MetricsTypes, MetricsPlaces, ReadPlaces, GuardsHeld, WritesAlone, SeesNow,
            Metrics!Unread, Metrics!Locks, Metrics!data, Metrics!Goto, Metrics!Open, Metrics!MetricsAssumption
<1>1. CASE Metrics!RecordClaims(t)
  BY <1>1 DEF Metrics!RecordClaims
<1>2. CASE Metrics!RecordLocksLatencies(t)
  BY <1>2 DEF Metrics!RecordLocksLatencies
<1>3. CASE Metrics!RecordUpdates(t)
  BY <1>3 DEF Metrics!RecordUpdates
<1>4. QED
  BY <1>1, <1>2, <1>3

(* get_operation_metrics *)
LEMMA GetKeepsMetrics ==
    ASSUME Metrics!MetricsAssumption, MetricsInv, NEW t \in Threads,
           Metrics!GetReads(t) \/ Metrics!GetPercentiles(t) \/ Metrics!GetClones(t)
    PROVE  MetricsInv'
<1> USE DEF MetricsInv, MetricsTypes, MetricsPlaces, ReadPlaces, GuardsHeld, WritesAlone, SeesNow,
            Metrics!Unread, Metrics!Locks, Metrics!data, Metrics!Goto, Metrics!Open, Metrics!MetricsAssumption,
            Metrics!Guards
<1>1. CASE Metrics!GetReads(t)
  BY <1>1 DEF Metrics!GetReads
<1>2. CASE Metrics!GetPercentiles(t)
  BY <1>2 DEF Metrics!GetPercentiles, Metrics!Percentiles
<1>3. CASE Metrics!GetClones(t)
  BY <1>3 DEF Metrics!GetClones, Metrics!Clones
<1>4. QED
  BY <1>1, <1>2, <1>3

(* get_all_metrics *)
LEMMA AllKeepsMetrics ==
    ASSUME Metrics!MetricsAssumption, MetricsInv, NEW t \in Threads,
           \/ Metrics!AllReads(t) \/ Metrics!AllReadsAgain(t) \/ Metrics!AllPercentiles(t)
           \/ Metrics!AllClones(t) \/ Metrics!AllReturns(t)
    PROVE  MetricsInv'
<1> USE DEF MetricsInv, MetricsTypes, MetricsPlaces, ReadPlaces, GuardsHeld, WritesAlone, SeesNow,
            Metrics!Unread, Metrics!Locks, Metrics!data, Metrics!Goto, Metrics!Open, Metrics!MetricsAssumption,
            Metrics!Guards
<1>1. CASE Metrics!AllReads(t)
  BY <1>1 DEF Metrics!AllReads
<1>2. CASE Metrics!AllReadsAgain(t)
  BY <1>2 DEF Metrics!AllReadsAgain
<1>3. CASE Metrics!AllPercentiles(t)
  BY <1>3 DEF Metrics!AllPercentiles, Metrics!Percentiles
<1>4. CASE Metrics!AllClones(t)
  BY <1>4 DEF Metrics!AllClones, Metrics!Clones
<1>5. CASE Metrics!AllReturns(t)
  BY <1>5 DEF Metrics!AllReturns
<1>6. QED
  BY <1>1, <1>2, <1>3, <1>4, <1>5


LEMMA MetricsNext ==
    ASSUME Metrics!MetricsAssumption, MetricsKeep, Metrics!Next \/ UNCHANGED metricsVars
    PROVE  MetricsKeep'
<1>1. CASE UNCHANGED metricsVars
  BY <1>1 DEF metricsVars, MetricsKeep, MetricsInv, MetricsTypes, GuardsHeld, WritesAlone, SeesNow, Metrics!Unread
<1>2. CASE Metrics!Next
  <2>1. PICK t \in Threads : Metrics!Call(t) \/ Metrics!Step(t)
    BY <1>2 DEF Metrics!Next
  <2>2. calls' = calls
    BY <2>1 DEF Metrics!Call, Metrics!Step, Metrics!data, Metrics!RecordClaims, Metrics!RecordLocksLatencies,
       Metrics!RecordUpdates, Metrics!GetReads, Metrics!GetPercentiles, Metrics!GetClones,
       Metrics!AllReads, Metrics!AllReadsAgain, Metrics!AllPercentiles, Metrics!AllClones,
       Metrics!AllReturns, Metrics!ResetClaims, Metrics!ResetOperations,
       Metrics!ResetClaimsLatencies, Metrics!ResetLatencies, Metrics!Percentiles, Metrics!Clones
  <2>3. ASSUME "reset" \notin calls PROVE MetricsInv'
    <3>1. MetricsInv /\ calls \subseteq {"record", "get", "get_all", "reset"}
      BY <2>3 DEF MetricsKeep, Metrics!MetricsAssumption
    <3>2. pc[t] \notin {"reset", "reset_operations", "reset_between", "reset_latencies"}
      BY <3>1 DEF MetricsInv, MetricsTypes, MetricsPlaces, ReadPlaces
    <3>3. ~(Metrics!ResetClaims(t) \/ Metrics!ResetOperations(t)
            \/ Metrics!ResetClaimsLatencies(t) \/ Metrics!ResetLatencies(t))
      BY <3>2 DEF Metrics!ResetClaims, Metrics!ResetOperations, Metrics!ResetClaimsLatencies,
                  Metrics!ResetLatencies
    <3>4. QED
      BY <2>1, <2>3, <3>1, <3>3, CallKeepsMetrics, RecordKeepsMetrics, GetKeepsMetrics, AllKeepsMetrics
      DEF Metrics!Step
  <2>4. QED
    BY <2>2, <2>3 DEF MetricsKeep
<1>3. QED
  BY <1>1, <1>2

(* MetricsCollector (metrics.rs), for any threads and operations: the total and
   the percentiles of a report are of one moment unless somebody resets, for a
   reader keeps the guard of the operations until it has both. *)
THEOREM ReportsAreConsistent ==
    ASSUME Metrics!MetricsAssumption PROVE Spec => []ReportsConsistent
<1>1. Init => MetricsKeep
  BY MetricsInit DEF Init, MetricsKeep, Metrics!Init
<1>2. MetricsKeep /\ [Next]_vars => MetricsKeep'
  BY MetricsNext, MetricsSteps
<1>3. MetricsKeep => ReportsConsistent
  BY DEF MetricsKeep, MetricsInv, SeesNow, ReportsConsistent, Metrics!ReportsConsistent
<1>4. QED
  BY <1>1, <1>2, <1>3, PTL DEF Spec

-----------------------------------------------------------------------------
(* The anomaly detector. *)

FrameChecked(r) == r.time \in Int /\ r.fails \subseteq Anomaly!Checks

(* What JitterRecovers says of one frame. *)
Judged(k) ==
    LET before == received[k - 1].time - received[k - 2].time
        last == received[k].time - received[k - 1].time
    IN  before >= 0 /\ last >= 0 =>
          /\ received[k].verdict = "TemporalJitter" <=> (last - before) \notin -Jitter .. Jitter
          /\ (last - before) \in -Jitter .. Jitter /\ received[k].fails \notin {{}, {"outlier"}}
                => received[k].verdict \notin {Anomaly!Clean, "StatisticalOutlier"}

(* The detector remembers the time of every frame, flagged or not. *)
AnomalyInv ==
    /\ \E S : received \in Seq(S)
    /\ \E S : temporal_history \in Seq(S)
    /\ Len(temporal_history) = Len(received)
    /\ \A k \in 1 .. Len(received) :
          FrameChecked(received[k]) /\ temporal_history[k] = received[k].time
    /\ \A k \in 3 .. Len(received) : Judged(k)

LEMMA AnomalyInit == ASSUME Anomaly!Init PROVE AnomalyInv
<1>1. <<>> \in Seq({})
  OBVIOUS
<1>2. QED
  BY <1>1 DEF Anomaly!Init, AnomalyInv

LEMMA LatestIsTime == AnomalyInv => Anomaly!Latest \in Int
BY DEF AnomalyInv, Anomaly!Latest, FrameChecked

LEMMA DetectKeeps ==
    ASSUME Anomaly!AnomalyAssumption, AnomalyInv, NEW id, NEW fails \in Contents, NEW t \in Int,
           Anomaly!detect_anomalies(id, fails, t)
    PROVE  AnomalyInv'
<1> DEFINE v == Anomaly!Verdict(t, fails)
           new == [time |-> t, fails |-> fails, verdict |-> v]
<1>1. /\ received' = Append(received, new) /\ temporal_history' = Append(temporal_history, t)
      /\ fails \subseteq Anomaly!Checks /\ Jitter \in Nat
  BY DEF Anomaly!detect_anomalies, Anomaly!Recorded, Anomaly!AnomalyAssumption
<1>2. PICK n, S, T :
          /\ n \in Nat /\ n = Len(received) /\ n = Len(temporal_history)
          /\ received \in Seq(S) /\ temporal_history \in Seq(T)
  <2>1. PICK S, T : received \in Seq(S) /\ temporal_history \in Seq(T)
    BY DEF AnomalyInv
  <2>2. Len(received) \in Nat /\ Len(temporal_history) = Len(received)
    BY <2>1 DEF AnomalyInv
  <2>3. QED
    BY <2>1, <2>2
<1>3. /\ received \in Seq(S \cup {new}) /\ temporal_history \in Seq(T \cup {t})
      /\ Len(received) = n /\ Len(temporal_history) = n
  BY <1>2
<1> HIDE DEF new, v
<1>4. /\ received' \in Seq(S \cup {new}) /\ temporal_history' \in Seq(T \cup {t})
      /\ Len(received') = n + 1 /\ Len(temporal_history') = n + 1
      /\ received'[n + 1] = new /\ temporal_history'[n + 1] = t
      /\ \A k \in 1 .. n : received'[k] = received[k] /\ temporal_history'[k] = temporal_history[k]
  BY <1>1, <1>3
<1>5. new.time = t /\ new.fails = fails /\ new.verdict = v
  BY DEF new
<1>6. \A k \in 1 .. n + 1 : FrameChecked(received'[k]) /\ temporal_history'[k] = received'[k].time
  <2>1. FrameChecked(new)
    BY <1>1, <1>5 DEF FrameChecked
  <2>2. \A k \in 1 .. n : FrameChecked(received'[k]) /\ temporal_history'[k] = received'[k].time
    BY <1>2, <1>4 DEF AnomalyInv
  <2>3. QED
    BY <1>2, <1>4, <1>5, <2>1, <2>2
<1>7. ASSUME NEW k \in 3 .. n PROVE Judged(k)'
  <2>1. /\ received'[k] = received[k] /\ received'[k - 1] = received[k - 1]
        /\ received'[k - 2] = received[k - 2]
    <3>1. k \in 1 .. n /\ k - 1 \in 1 .. n /\ k - 2 \in 1 .. n
      BY <1>2
    <3>2. QED
      BY <1>4, <3>1
  <2>2. Judged(k)
    BY <1>2 DEF AnomalyInv
  <2>3. QED
    BY <2>1, <2>2 DEF Judged
<1>8. ASSUME n >= 2 PROVE Judged(n + 1)'
  <2> DEFINE a == received[n - 1].time
             b == received[n].time
  <2>1. /\ a \in Int /\ b \in Int /\ temporal_history[n - 1] = a /\ temporal_history[n] = b
        /\ received'[n - 1].time = a /\ received'[n].time = b
    <3>1. n - 1 \in 1 .. n /\ n \in 1 .. n
      BY <1>2, <1>8
    <3>2. QED
      BY <1>2, <1>4, <3>1 DEF AnomalyInv, FrameChecked
  <2> HIDE DEF a, b
  <2>2. ASSUME b - a >= 0, t - b >= 0
        PROVE  Anomaly!Jittery(t) <=> ((t - b) - (b - a)) \notin -Jitter .. Jitter
    <3>1. Anomaly!Interval(a, b) = b - a /\ Anomaly!Interval(b, t) = t - b
      BY <2>1, <2>2 DEF Anomaly!Interval
    <3>2. Anomaly!Jittery(t) <=> Anomaly!Abs((t - b) - (b - a)) > Jitter
      BY <1>2, <1>8, <2>1, <3>1 DEF Anomaly!Jittery
    <3>3. QED
      BY <1>1, <2>1, <3>2 DEF Anomaly!Abs
  <2>3. v = "TemporalJitter" <=> Anomaly!Jittery(t)
    BY DEF v, Anomaly!Verdict, Anomaly!Clean
  <2>4. ~Anomaly!Jittery(t) /\ fails \notin {{}, {"outlier"}} => v \notin {Anomaly!Clean, "StatisticalOutlier"}
    BY <1>1 DEF v, Anomaly!Verdict, Anomaly!Clean, Anomaly!Checks
  <2>5. /\ received'[n + 1].time = t /\ received'[(n + 1) - 1].time = b
        /\ received'[(n + 1) - 2].time = a /\ received'[n + 1].fails = fails
        /\ received'[n + 1].verdict = v
    <3>1. (n + 1) - 1 = n /\ (n + 1) - 2 = n - 1
      BY <1>2
    <3>2. QED
      BY <1>4, <1>5, <2>1, <3>1
  <2>6. QED
    BY <2>2, <2>3, <2>4, <2>5 DEF Judged
<1>9. \A k \in 3 .. n + 1 : Judged(k)'
  <2> SUFFICES ASSUME NEW k \in 3 .. n + 1 PROVE Judged(k)'
    OBVIOUS
  <2>1. CASE k \in 3 .. n
    BY <1>7, <2>1
  <2>2. CASE k = n + 1
    <3>1. n >= 2
      BY <1>2, <2>2
    <3>2. Judged(n + 1)'
      BY <1>8, <3>1
    <3>3. QED
      BY <2>2, <3>2
  <2>3. QED
    BY <1>2, <2>1, <2>2
<1>10. QED
  BY <1>4, <1>6, <1>9 DEF AnomalyInv

LEMMA AnomalyNext ==
    ASSUME Anomaly!AnomalyAssumption, AnomalyInv, Anomaly!Next \/ UNCHANGED anomalyVars
    PROVE  AnomalyInv'
<1>1. ASSUME NEW id \in FrameIds, NEW fails \in Contents, NEW after \in Gaps,
             Anomaly!detect_anomalies(id, fails, Anomaly!Latest + after)
      PROVE  AnomalyInv'
  <2>1. Anomaly!Latest + after \in Int
    <3>1. after \in -999 .. 999
      BY DEF Anomaly!AnomalyAssumption
    <3>2. QED
      BY <3>1, LatestIsTime
  <2>2. QED
    BY <1>1, <2>1, DetectKeeps
<1>2. ASSUME UNCHANGED <<temporal_history, received>> PROVE AnomalyInv'
  BY <1>2 DEF AnomalyInv, FrameChecked, Judged
<1>3. ASSUME temporal_history' = <<>>, received' = <<>> PROVE AnomalyInv'
  <2>1. <<>> \in Seq({})
    OBVIOUS
  <2>2. QED
    BY <1>3, <2>1 DEF AnomalyInv
<1>4. QED
  BY <1>1, <1>2, <1>3 DEF Anomaly!Next, Anomaly!set_baseline_statistics,
     Anomaly!detect_missing_frames, Anomaly!clear_history, anomalyVars

LEMMA JitterOfInv == AnomalyInv => Anomaly!JitterRecovers
BY DEF AnomalyInv, Judged, Anomaly!JitterRecovers

-----------------------------------------------------------------------------
(* The quality assessor. *)

ScoresOf(h) ==
    /\ \E S : h \in Seq(S)
    /\ \A k \in 1 .. Len(h) : \E m \in Measures : h[k] = Quality!Score(m)

QualityInv ==
    /\ assessment_history = [d \in Datasets |-> assessment_history[d]]
    /\ \A d \in Datasets : ScoresOf(assessment_history[d])

LEMMA QualityInit == ASSUME Quality!Init PROVE QualityInv
<1>1. <<>> \in Seq({})
  OBVIOUS
<1>2. ScoresOf(<<>>)
  BY <1>1 DEF ScoresOf
<1>3. QED
  BY <1>2 DEF Quality!Init, QualityInv

LEMMA ScoresGrow ==
    ASSUME NEW h, ScoresOf(h), NEW m \in Measures PROVE ScoresOf(Append(h, Quality!Score(m)))
<1> DEFINE new == Quality!Score(m)
           more == Append(h, new)
<1>1. PICK S : h \in Seq(S)
  BY DEF ScoresOf
<1>2. h \in Seq(S \cup {new})
  BY <1>1
<1> HIDE DEF new
<1>3. /\ more \in Seq(S \cup {new}) /\ Len(more) = Len(h) + 1 /\ Len(h) \in Nat
      /\ more[Len(h) + 1] = new /\ \A k \in 1 .. Len(h) : more[k] = h[k]
  BY <1>2
<1> HIDE DEF more
<1>4. \A k \in 1 .. Len(h) : \E n \in Measures : h[k] = Quality!Score(n)
  BY DEF ScoresOf
<1>5. \E n \in Measures : new = Quality!Score(n)
  BY DEF new
<1>6. \A k \in 1 .. Len(more) : k \in 1 .. Len(h) \/ k = Len(h) + 1
  BY <1>3
<1>7. \A k \in 1 .. Len(more) : \E n \in Measures : more[k] = Quality!Score(n)
  BY <1>3, <1>4, <1>5, <1>6
<1>8. ScoresOf(more)
  BY <1>3, <1>7 DEF ScoresOf
<1>9. QED
  BY <1>8 DEF more, new

LEMMA QualityNext ==
    ASSUME QualityInv, Quality!Next \/ UNCHANGED qualityVars
    PROVE  QualityInv'
<1>1. CASE UNCHANGED assessment_history
  BY <1>1 DEF QualityInv
<1>2. CASE \E d \in Datasets, m \in Measures : Quality!Assessed(d, m)
  <2>1. PICK d \in Datasets, m \in Measures :
            assessment_history' = [assessment_history EXCEPT ![d] = Append(@, Quality!Score(m))]
    BY <1>2 DEF Quality!Assessed
  <2>2. ScoresOf(Append(assessment_history[d], Quality!Score(m)))
    BY ScoresGrow DEF QualityInv
  <2>3. QED
    BY <2>1, <2>2 DEF QualityInv
<1>3. QED
  BY <1>1, <1>2 DEF Quality!Next, Quality!assess_dataset_quality, Quality!create_quality_report,
     Quality!generate_recommendations, qualityVars

(* A score has the shares it is made of, and is made of nothing else. *)
LEMMA ShareOfSane ==
    ASSUME NEW total \in Nat, NEW part \in Nat, part <= total
    PROVE  Quality!Share(total, part) \in 0 .. 100
<1>1. CASE total = 0
  BY <1>1 DEF Quality!Share
<1>2. CASE total # 0
  <2>1. total - part \in Nat /\ total - part <= total
    OBVIOUS
  <2>2. (100 * (total - part)) \div total \in Nat /\ (100 * (total - part)) \div total <= 100
    BY <1>2, <2>1
  <2>3. QED
    BY <1>2, <2>2 DEF Quality!Share
<1>3. QED
  BY <1>1, <1>2

LEMMA ShareFalls ==
    ASSUME NEW total \in Nat, NEW p \in Nat, NEW q \in Nat, q <= p, p <= total
    PROVE  Quality!Share(total, p) <= Quality!Share(total, q)
<1>1. CASE total = 0
  BY <1>1 DEF Quality!Share
<1>2. CASE total # 0
  <2>1. 100 * (total - p) \in Nat /\ 100 * (total - q) \in Nat /\ 100 * (total - p) <= 100 * (total - q)
    OBVIOUS
  <2> DEFINE x == 100 * (total - p)
             y == 100 * (total - q)
  <2>2. x \in Nat /\ y \in Nat /\ x <= y
    BY <2>1
  <2>3. Quality!Share(total, p) = x \div total /\ Quality!Share(total, q) = y \div total
    BY <1>2 DEF Quality!Share
  <2> HIDE DEF x, y
  <2>4. x \div total <= y \div total
    BY <1>2, <2>2
  <2>5. QED
    BY <2>3, <2>4
<1>3. QED
  BY <1>1, <1>2

LEMMA WeightsAddUp ==
    ASSUME NEW c \in Int, NEW v \in Int, NEW a \in Int, NEW b \in Int,
           0 <= c, c <= 100, 0 <= v, v <= 100, 0 <= a, a <= 100, 0 <= b, b <= 100
    PROVE  /\ Quality!Weighted(c, v, a, b) \in Int
           /\ 0 <= Quality!Weighted(c, v, a, b)
           /\ Quality!Weighted(c, v, a, b) <= 10000
BY SMT DEF Quality!Weighted

LEMMA WeightsGrow ==
    ASSUME NEW c \in Int, NEW v \in Int, NEW a \in Int, NEW b \in Int,
           NEW c2 \in Int, NEW v2 \in Int, NEW a2 \in Int, NEW b2 \in Int,
           c <= c2, v <= v2, a <= a2, b <= b2
    PROVE  Quality!Weighted(c, v, a, b) <= Quality!Weighted(c2, v2, a2, b2)
BY SMT DEF Quality!Weighted

ScoreIs(m, c, v, a, b) ==
    /\ c \in Int /\ 0 <= c /\ c <= 100 /\ c = Quality!Share(m.total, m.missing)
    /\ v \in Int /\ 0 <= v /\ v <= 100 /\ v = Quality!Share(m.total, m.anomalous)
    /\ a \in Int /\ 0 <= a /\ a <= 100 /\ a = m.consistency
    /\ b \in Int /\ 0 <= b /\ b <= 100 /\ b = m.sync

(* The parts of an assessment with no more bad frames than frames ... *)
LEMMA PartsOfSane ==
    ASSUME Quality!QualityAssumption, NEW m \in Measures,
           m.missing <= m.total, m.anomalous <= m.total
    PROVE  \E c, v, a, b : ScoreIs(m, c, v, a, b)
<1>1. /\ m.total \in Nat /\ m.missing \in Nat /\ m.anomalous \in Nat
      /\ m.consistency \in 0 .. 100 /\ m.sync \in 0 .. 100
  BY DEF Quality!QualityAssumption
<1>2. Quality!Share(m.total, m.missing) \in 0 .. 100 /\ Quality!Share(m.total, m.anomalous) \in 0 .. 100
  BY <1>1, ShareOfSane
<1>3. ScoreIs(m, Quality!Share(m.total, m.missing), Quality!Share(m.total, m.anomalous), m.consistency, m.sync)
  BY <1>1, <1>2 DEF ScoreIs
<1>4. QED
  BY <1>3

(* ... and its score. *)
LEMMA ScoreOfParts ==
    ASSUME NEW m, NEW c, NEW v, NEW a, NEW b, ScoreIs(m, c, v, a, b)
    PROVE  /\ Quality!Score(m).measure = m
           /\ Quality!Score(m).completeness = c /\ Quality!Score(m).validity = v
           /\ Quality!Score(m).consistency = a /\ Quality!Score(m).timeliness = b
           /\ Quality!Score(m).overall = Quality!Weighted(c, v, a, b)
           /\ Quality!Score(m).overall \in Int
           /\ 0 <= Quality!Score(m).overall /\ Quality!Score(m).overall <= 10000
<1>1. /\ Quality!Score(m).measure = m
      /\ Quality!Score(m).completeness = c /\ Quality!Score(m).validity = v
      /\ Quality!Score(m).consistency = a /\ Quality!Score(m).timeliness = b
      /\ Quality!Score(m).overall = Quality!Clamp(Quality!Weighted(c, v, a, b))
  BY DEF ScoreIs, Quality!Score
<1>2. PICK x : x = Quality!Weighted(c, v, a, b)
  OBVIOUS
<1>3. /\ c \in Int /\ v \in Int /\ a \in Int /\ b \in Int
      /\ 0 <= c /\ c <= 100 /\ 0 <= v /\ v <= 100 /\ 0 <= a /\ a <= 100 /\ 0 <= b /\ b <= 100
  BY DEF ScoreIs
<1>4. x \in Int /\ 0 <= x /\ x <= 10000
  BY <1>2, <1>3, WeightsAddUp
<1>5. Quality!Clamp(x) = x
  BY <1>4 DEF Quality!Clamp
<1>6. Quality!Score(m).overall = x
  BY <1>1, <1>2, <1>5
<1>7. /\ Quality!Score(m).overall \in Int
      /\ 0 <= Quality!Score(m).overall /\ Quality!Score(m).overall <= 10000
  BY <1>4, <1>6
<1>8. Quality!Score(m).overall = Quality!Weighted(c, v, a, b)
  BY <1>2, <1>6
<1>9. QED
  BY <1>1, <1>8, <1>7

(* An assessment that is no better in anything has no better score. *)
LEMMA ScoreFalls ==
    ASSUME Quality!QualityAssumption, NEW m \in Measures, NEW n \in Measures,
           m.missing <= m.total, m.anomalous <= m.total,
           n.missing <= n.total, n.anomalous <= n.total, m.total = n.total,
           m.missing >= n.missing, m.anomalous >= n.anomalous,
           m.consistency <= n.consistency, m.sync <= n.sync
    PROVE  Quality!Score(m).overall <= Quality!Score(n).overall
<1>1. /\ m.total \in Nat /\ m.missing \in Nat /\ m.anomalous \in Nat
      /\ n.missing \in Nat /\ n.anomalous \in Nat
  BY DEF Quality!QualityAssumption
<1>2. PICK c, v, a, b : ScoreIs(m, c, v, a, b)
  BY PartsOfSane
<1>3. PICK c2, v2, a2, b2 : ScoreIs(n, c2, v2, a2, b2)
  BY PartsOfSane
<1>4. c <= c2 /\ v <= v2
  BY <1>1, <1>2, <1>3, ShareFalls DEF ScoreIs
<1>5. a <= a2 /\ b <= b2
  BY <1>2, <1>3 DEF ScoreIs
<1>6. Quality!Weighted(c, v, a, b) <= Quality!Weighted(c2, v2, a2, b2)
  BY <1>2, <1>3, <1>4, <1>5, WeightsGrow DEF ScoreIs
<1>7. QED
  BY <1>2, <1>3, <1>6, ScoreOfParts

(* Any score, of any measure, is a number. *)
LEMMA ScoreIsNumber ==
    ASSUME Quality!QualityAssumption, NEW m \in Measures
    PROVE  Quality!Score(m).overall \in Int
<1>1. /\ m.total \in Nat /\ m.missing \in Nat /\ m.anomalous \in Nat
      /\ m.consistency \in Int /\ m.sync \in Int
  BY DEF Quality!QualityAssumption
<1>2. \A total, part \in Nat : Quality!Share(total, part) \in Int
  BY DEF Quality!Share
<1>3. Quality!Share(m.total, m.missing) \in Int /\ Quality!Share(m.total, m.anomalous) \in Int
  BY <1>1, <1>2
<1>4. \A c, v, a, b \in Int : Quality!Clamp(Quality!Weighted(c, v, a, b)) \in Int
  BY DEF Quality!Clamp, Quality!Weighted
<1>5. Quality!Score(m).overall =
          Quality!Clamp(Quality!Weighted(Quality!Share(m.total, m.missing), Quality!Share(m.total, m.anomalous),
                                         m.consistency, m.sync))
  BY DEF Quality!Score
<1> DEFINE x == Quality!Share(m.total, m.missing)
           y == Quality!Share(m.total, m.anomalous)
           a == m.consistency
           b == m.sync
<1>6. x \in Int /\ y \in Int /\ a \in Int /\ b \in Int
  BY <1>1, <1>3
<1>7. Quality!Score(m).overall = Quality!Clamp(Quality!Weighted(x, y, a, b))
  BY <1>5
<1> HIDE DEF x, y, a, b
<1>8. QED
  BY <1>4, <1>6, <1>7

Newest(h) == IF Len(h) < 5 THEN Len(h) ELSE 5

(* The newest at most five assessments, the newest first. *)
LEMMA RecentAre ==
    ASSUME NEW d, ScoresOf(assessment_history[d])
    PROVE  LET h == assessment_history[d]
           IN  /\ Len(Quality!RecentScores(d)) = Newest(h)
               /\ \A k \in 1 .. Newest(h) : Quality!RecentScores(d)[k] = h[Len(h) + 1 - k]
<1> DEFINE h == assessment_history[d]
           r == Quality!RecentScores(d)
<1>1. PICK S : h \in Seq(S)
  BY DEF ScoresOf
<1>2. Newest(h) \in Nat
  BY <1>1 DEF Newest
<1>3. r = [k \in 1 .. Newest(h) |-> h[Len(h) + 1 - k]]
  BY DEF Quality!RecentScores, Newest
<1>4. Len(r) = Newest(h)
  <2> HIDE DEF h, r
  <2>1. QED
    BY <1>2, <1>3
<1>5. \A k \in 1 .. Newest(h) : r[k] = h[Len(h) + 1 - k]
  <2> HIDE DEF h, r
  <2>1. QED
    BY <1>3, Zenon
<1>6. QED
  BY <1>4, <1>5, Zenon

(* The changes between them add up to the difference of the ends. *)
LEMMA ChangesAddUp ==
    ASSUME NEW n \in 0 .. 4, NEW r, \A k \in 1 .. n + 1 : r[k].overall \in Int
    PROVE  LET change_total[k \in 0 .. n] ==
                   IF k = 0 THEN 0 ELSE change_total[k - 1] + r[k].overall - r[k + 1].overall
           IN  change_total[n] = r[1].overall - r[n + 1].overall
<1> DEFINE Step(f, k) == IF k = 0 THEN 0 ELSE f[k - 1] + r[k].overall - r[k + 1].overall
           g == [k \in 0 .. n |-> r[1].overall - r[k + 1].overall]
           f == CHOOSE fn : fn = [k \in 0 .. n |-> Step(fn, k)]
<1>1. \A k \in 0 .. n : g[k] = Step(g, k)
  <2> SUFFICES ASSUME NEW k \in 0 .. n PROVE g[k] = Step(g, k)
    OBVIOUS
  <2>1. r[1].overall \in Int /\ r[k + 1].overall \in Int
    OBVIOUS
  <2>2. CASE k = 0
    BY <2>1, <2>2
  <2>3. CASE k # 0
    <3>1. k - 1 \in 0 .. n /\ (k - 1) + 1 = k /\ r[k].overall \in Int
      BY <2>3
    <3>2. g[k - 1] = r[1].overall - r[k].overall /\ g[k] = r[1].overall - r[k + 1].overall
      BY <3>1
    <3>3. Step(g, k) = g[k - 1] + r[k].overall - r[k + 1].overall
      BY <2>3
    <3>4. QED
      BY <2>1, <3>1, <3>2, <3>3
  <2>4. QED
    BY <2>2, <2>3
<1>2. g = [k \in 0 .. n |-> Step(g, k)]
  BY <1>1, Zenon
<1>3. f = [k \in 0 .. n |-> Step(f, k)]
  BY <1>2, Zenon
<1> HIDE DEF f
<1>4. f[0] = 0 /\ \A k \in 1 .. n : f[k] = f[k - 1] + r[k].overall - r[k + 1].overall
  <2>1. \A k \in 0 .. n : f[k] = Step(f, k)
    <3> HIDE DEF Step
    <3>1. QED
      BY <1>3, Zenon
  <2>2. f[0] = 0
    BY <2>1
  <2>3. \A k \in 1 .. n : k \in 0 .. n /\ k # 0
    OBVIOUS
  <2>4. QED
    BY <2>1, <2>2, <2>3, Zenon
<1>5. f[n] = r[1].overall - r[n + 1].overall
  <2>1. CASE n = 0
    BY <2>1, <1>4
  <2>2. CASE n = 1
    BY <2>2, <1>4
  <2>3. CASE n = 2
    BY <2>3, <1>4
  <2>4. CASE n = 3
    BY <2>4, <1>4
  <2>5. CASE n = 4
    BY <2>5, <1>4
  <2>6. QED
    BY <2>1, <2>2, <2>3, <2>4, <2>5
<1>6. QED
  BY <1>5 DEF f


(* What get_quality_trend adds up of two assessments or more. *)
LEMMA TrendIs ==
    ASSUME Quality!QualityAssumption, NEW d, ScoresOf(assessment_history[d]),
           Len(assessment_history[d]) >= 2
    PROVE  LET h == assessment_history[d]
           IN  /\ Quality!get_quality_trend(d).comparisons = Newest(h) - 1
               /\ Quality!get_quality_trend(d).total
                    = h[Len(h)].overall - h[Len(h) + 1 - Newest(h)].overall
<1> DEFINE h == assessment_history[d]
           r == Quality!RecentScores(d)
<1>1. PICK n \in Nat : n = Len(h)
  BY DEF ScoresOf
<1>2. n >= 2 /\ Newest(h) = IF n < 5 THEN n ELSE 5
  BY <1>1 DEF Newest
<1>3. PICK c \in 0 .. 4 : c = (IF n < 5 THEN n ELSE 5) - 1
  BY <1>2
<1>4. Newest(h) = c + 1 /\ c + 1 <= n
  BY <1>3, <1>2
<1>5. Len(r) = c + 1 /\ \A k \in 1 .. c + 1 : r[k] = h[n + 1 - k]
  BY <1>1, <1>4, RecentAre
<1>6. \A k \in 1 .. n : h[k].overall \in Int
  BY <1>1, ScoreIsNumber DEF ScoresOf
<1>7. \A k \in 1 .. c + 1 : r[k].overall \in Int
  BY <1>4, <1>5, <1>6
<1>8. LET change_total[k \in 0 .. c] ==
              IF k = 0 THEN 0 ELSE change_total[k - 1] + r[k].overall - r[k + 1].overall
      IN  change_total[c] = r[1].overall - r[c + 1].overall
  BY <1>7, ChangesAddUp
<1>9. Len(r) - 1 = c
  BY <1>5
<1>10. Quality!get_quality_trend(d) =
          LET change_total[k \in 0 .. Len(r) - 1] ==
                  IF k = 0 THEN 0 ELSE change_total[k - 1] + r[k].overall - r[k + 1].overall
          IN  [total |-> change_total[Len(r) - 1], comparisons |-> Len(r) - 1]
  BY <1>1 DEF Quality!get_quality_trend
<1> HIDE DEF r
<1>11. Quality!get_quality_trend(d) = [total |-> r[1].overall - r[c + 1].overall, comparisons |-> c]
  BY <1>8, <1>9, <1>10, Zenon
<1>12. r[1] = h[n] /\ r[c + 1] = h[n + 1 - (c + 1)]
  BY <1>5
<1>13. Newest(h) - 1 = c /\ Len(h) + 1 - Newest(h) = n + 1 - (c + 1)
  BY <1>1, <1>4
<1>14. /\ Quality!get_quality_trend(d).comparisons = c
       /\ Quality!get_quality_trend(d).total = h[n].overall - h[n + 1 - (c + 1)].overall
  BY <1>11, <1>12
<1> HIDE DEF h
<1>15. /\ Quality!get_quality_trend(d).comparisons = Newest(h) - 1
       /\ Quality!get_quality_trend(d).total = h[Len(h)].overall - h[Len(h) + 1 - Newest(h)].overall
  BY <1>1, <1>13, <1>14, Zenon
<1>16. QED
  BY <1>15 DEF h

LEMMA DeclineOfInv ==
    ASSUME Quality!QualityAssumption, QualityInv PROVE Quality!DeclineDetected
<1> SUFFICES ASSUME NEW d \in Datasets
             PROVE  /\ Quality!BoundedScores(assessment_history[d]) /\ Quality!OrderedScores(assessment_history[d])
                    /\ Quality!FallIsSent(d, assessment_history[d], Len(assessment_history[d]))
                    /\ Quality!SteadyIsNot(d, assessment_history[d], Len(assessment_history[d]))
  BY DEF Quality!DeclineDetected
<1> DEFINE h == assessment_history[d]
<1>1. ScoresOf(h)
  BY DEF QualityInv
<1>2. PICK n \in Nat : n = Len(h)
  BY <1>1 DEF ScoresOf
<1>3. \A s \in Quality!Range(h) : \E m \in Measures : s = Quality!Score(m)
  BY <1>1 DEF ScoresOf, Quality!Range
<1>4. ASSUME NEW s \in Quality!Range(h), Quality!Sane(s)
      PROVE  s.overall \in Int /\ 0 <= s.overall /\ s.overall <= 10000 /\ s.completeness <= 100 /\ s.validity <= 100
  <2>1. PICK m \in Measures : s = Quality!Score(m)
    BY <1>3
  <2>2. s.measure = m
    BY <2>1 DEF Quality!Score
  <2>3. m.missing <= m.total /\ m.anomalous <= m.total
    BY <1>4, <2>2 DEF Quality!Sane
  <2>4. PICK c, v, a, b : ScoreIs(m, c, v, a, b)
    BY <2>3, PartsOfSane
  <2>5. c <= 100 /\ v <= 100
    BY <2>4 DEF ScoreIs
  <2>6. s.completeness = c /\ s.validity = v /\ s.overall \in Int /\ 0 <= s.overall /\ s.overall <= 10000
    BY <2>1, <2>4, ScoreOfParts
  <2>7. QED
    BY <2>5, <2>6
<1>5. ASSUME NEW r \in Quality!Range(h), NEW s \in Quality!Range(h),
             Quality!Sane(r), Quality!Sane(s), r.measure.total = s.measure.total,
             r.measure.missing >= s.measure.missing, r.measure.anomalous >= s.measure.anomalous,
             r.consistency <= s.consistency, r.timeliness <= s.timeliness
      PROVE  r.overall <= s.overall
  <2>1. PICK m \in Measures : r = Quality!Score(m)
    BY <1>3
  <2>2. PICK p \in Measures : s = Quality!Score(p)
    BY <1>3
  <2>3. /\ r.measure = m /\ r.consistency = m.consistency /\ r.timeliness = m.sync
        /\ s.measure = p /\ s.consistency = p.consistency /\ s.timeliness = p.sync
    BY <2>1, <2>2 DEF Quality!Score
  <2>4. /\ m.missing <= m.total /\ m.anomalous <= m.total
        /\ p.missing <= p.total /\ p.anomalous <= p.total /\ m.total = p.total
        /\ m.missing >= p.missing /\ m.anomalous >= p.anomalous
        /\ m.consistency <= p.consistency /\ m.sync <= p.sync
    BY <1>5, <2>3 DEF Quality!Sane
  <2>5. QED
    BY <2>1, <2>2, <2>4, ScoreFalls
<1>6. \A k \in 1 .. n : h[k].overall \in Int
  BY <1>1, <1>2, ScoreIsNumber DEF ScoresOf
<1>7. PICK o : \A k \in 1 .. n : o[k] \in Int /\ o[k] = h[k].overall
  <2>1. \A k \in 1 .. n : [j \in 1 .. n |-> h[j].overall][k] = h[k].overall
    OBVIOUS
  <2>2. QED
    BY <1>6, <2>1
<1>8. PICK l \in 1 .. 5 : l = (IF n < 5 THEN n ELSE 5) \/ (n = 0 /\ l = 1)
  OBVIOUS
<1>9. ASSUME n >= 2 PROVE Quality!FallIsSent(d, h, n) /\ Quality!SteadyIsNot(d, h, n)
  <2>1. l <= n /\ l >= 2 /\ (l < 5 => l = n) /\ Newest(h) = l
    BY <1>2, <1>8, <1>9 DEF Newest
  <2>2. /\ Quality!get_quality_trend(d).comparisons = l - 1
        /\ Quality!get_quality_trend(d).total = o[n] - o[n + 1 - l]
    <3>1. /\ Quality!get_quality_trend(d).comparisons = Newest(h) - 1
          /\ Quality!get_quality_trend(d).total = h[Len(h)].overall - h[Len(h) + 1 - Newest(h)].overall
      BY <1>1, <1>2, <1>9, TrendIs
    <3>2. Len(h) = n /\ Newest(h) = l /\ n \in 1 .. n /\ n + 1 - l \in 1 .. n
      BY <1>2, <1>9, <2>1
    <3>3. QED
      BY <1>7, <3>1, <3>2
  <2>3. Quality!should_trigger_reprocessing(d, h[n])
            <=> o[n] < 7000 \/ o[n] - o[n + 1 - l] < -1000 * (l - 1)
    BY <1>7, <1>9, <2>2 DEF Quality!should_trigger_reprocessing
  <2>4. \A k \in n + 2 - l .. n : k \in Quality!LastChanges(n) /\ k - 1 \in 1 .. n /\ k \in 1 .. n
    BY <2>1 DEF Quality!LastChanges
  <2>5. ASSUME \A k \in Quality!LastChanges(n) : h[k - 1].overall - h[k].overall > 1000
        PROVE  Quality!should_trigger_reprocessing(d, h[n])
    <3>1. \A k \in n + 2 - l .. n : o[k - 1] - o[k] > 1000
      BY <1>7, <2>4, <2>5
    <3>2. o[n] - o[n + 1 - l] < -1000 * (l - 1)
      BY <1>7, <2>1, <3>1
    <3>3. QED
      BY <2>3, <3>2
  <2>6. ASSUME h[n].overall >= 7000, \A k \in Quality!LastChanges(n) : h[k].overall >= h[k - 1].overall
        PROVE  ~Quality!should_trigger_reprocessing(d, h[n])
    <3>1. \A k \in n + 2 - l .. n : o[k] >= o[k - 1]
      BY <1>7, <2>4, <2>6
    <3>2. o[n] >= o[n + 1 - l]
      BY <1>7, <2>1, <3>1
    <3>3. o[n] \in Int /\ o[n + 1 - l] \in Int /\ o[n] >= 7000
      BY <1>7, <1>9, <2>1, <2>6
    <3>4. QED
      BY <2>3, <3>2, <3>3
  <2>7. Quality!FallIsSent(d, h, n)
    BY <2>5 DEF Quality!FallIsSent
  <2>8. Quality!SteadyIsNot(d, h, n)
    BY <2>6 DEF Quality!SteadyIsNot
  <2>9. QED
    BY <2>7, <2>8
<1>10. ASSUME n = 1 PROVE Quality!FallIsSent(d, h, n) /\ Quality!SteadyIsNot(d, h, n)
  <2>1. Quality!get_quality_trend(d) = [total |-> 0, comparisons |-> 0]
    BY <1>2, <1>10 DEF Quality!get_quality_trend
  <2>2. h[n].overall >= 7000 => ~Quality!should_trigger_reprocessing(d, h[n])
    BY <1>7, <1>10, <2>1 DEF Quality!should_trigger_reprocessing
  <2>3. QED
    BY <1>10, <2>2 DEF Quality!FallIsSent, Quality!SteadyIsNot
<1>11. ASSUME n = 0 PROVE Quality!FallIsSent(d, h, n) /\ Quality!SteadyIsNot(d, h, n)
  BY <1>11 DEF Quality!FallIsSent, Quality!SteadyIsNot
<1>12. Quality!FallIsSent(d, h, n) /\ Quality!SteadyIsNot(d, h, n)
  BY <1>9, <1>10, <1>11
<1>13. Quality!BoundedScores(h)
  BY <1>4 DEF Quality!BoundedScores
<1>14. Quality!OrderedScores(h)
  BY <1>5 DEF Quality!OrderedScores
<1>15. QED
  BY <1>2, <1>12, <1>13, <1>14

(* AnomalyDetector and QualityAssessor (anomaly.rs, quality.rs), for
   any frames, gaps, datasets and measures: timing anomalies are judged against
   the gaps kept, so a detector recovers from a bad one, and scores follow what
   was measured, a decline being sent to reprocessing and a steady good dataset
   not. *)
THEOREM AlarmsAreJustified ==
    ASSUME Anomaly!AnomalyAssumption, Quality!QualityAssumption PROVE Spec => []AlarmsJustified
<1>1. Init => AnomalyInv /\ QualityInv
  BY AnomalyInit, QualityInit DEF Init
<1>2. AnomalyInv /\ QualityInv /\ [Next]_vars => (AnomalyInv /\ QualityInv)'
  BY AnomalySteps, QualitySteps, AnomalyNext, QualityNext
<1>3. AnomalyInv /\ QualityInv => AlarmsJustified
  BY JitterOfInv, DeclineOfInv DEF AlarmsJustified
<1>4. QED
  BY <1>1, <1>2, <1>3, PTL DEF Spec

-----------------------------------------------------------------------------
-----------------------------------------------------------------------------
(* A stream.  The buffer is the newest messages without a gap; the copy that is
   cut is as well, of messages that were the newest; and what was handed out is
   before the place of the consumer in that copy. *)
LEMMA StreamSteps == [Next]_vars => Stream!Next \/ UNCHANGED streamVars
BY DEF Next, Others, streamVars, vars

Grows(s) == \A j, k \in 1 .. Len(s) : j < k => s[j] < s[k]

Following(s, low) == \A k \in 1 .. Len(s) : s[k] = low + k - 1

(* What the consumer had of a topic when it has had the first n messages. *)
AllOf(t, s, n) ==
    /\ \A k \in 1 .. Len(s) : s[k] \in 0 .. n - 1 /\ Topic[s[k]] = t
    /\ \A m \in 0 .. n - 1 : Topic[m] = t => \E k \in 1 .. Len(s) : s[k] = m

StreamTypes ==
    /\ seq \in Nat /\ last_seq \in Nat /\ gap \in BOOLEAN
    /\ buffer \in Seq(Nat) /\ messages \in Seq(Nat)
    /\ delivered \in [Stream!Topics -> Seq(Nat)]

StreamInv ==
    /\ StreamTypes
    /\ Len(buffer) <= seq /\ Following(buffer, seq - Len(buffer))
    /\ ~gap => Len(buffer) = seq
    /\ \E low \in Nat :
          /\ low <= seq - Len(buffer)
          /\ generator = "slice" => Following(messages, low)
          /\ \A t \in Stream!Topics : \A k \in 1 .. Len(delivered[t]) :
                delivered[t][k] < low + last_seq
    /\ \A t \in Stream!Topics :
          /\ Grows(delivered[t])
          /\ ~gap => AllOf(t, delivered[t], last_seq)

LEMMA StreamInit == ASSUME Stream!Init PROVE StreamInv
<1>1. StreamTypes
  <2>1. <<>> \in Seq(Nat) /\ [t \in Stream!Topics |-> <<>>] \in [Stream!Topics -> Seq(Nat)]
    OBVIOUS
  <2>2. QED
    BY <2>1 DEF StreamTypes, Stream!Init
<1>2. 0 \in Nat /\ 0 .. 0 - 1 = {} /\ 1 .. 0 = {}
  OBVIOUS
<1>3. /\ Len(buffer) = 0 /\ seq = 0 /\ last_seq = 0 /\ generator = "none"
      /\ \A t \in Stream!Topics : delivered[t] = <<>> /\ Len(delivered[t]) = 0
  BY DEF Stream!Init
<1>4. QED
  BY <1>1, <1>2, <1>3 DEF StreamInv, Grows, Following, AllOf

LEMMA AppendKeepsStream ==
    ASSUME Stream!StreamAssumption, StreamInv, Stream!append
    PROVE  StreamInv'
<1>1. /\ seq' = seq + 1
      /\ UNCHANGED <<messages, last_seq, generator, delivered>>
      /\ gap' = (gap \/ Len(buffer) = max_size)
      /\ max_size \in Nat \ {0}
  BY DEF Stream!append, Stream!StreamAssumption
<1> DEFINE n == Len(buffer)
<1>2. n \in Nat /\ seq \in Nat /\ n <= seq /\ buffer \in Seq(Nat)
  BY DEF StreamInv, StreamTypes
<1> HIDE DEF n
<1>3. \A k \in 1 .. n : buffer[k] = seq - n + k - 1
  BY DEF StreamInv, Following, n
<1>4. /\ buffer' \in Seq(Nat) /\ Len(buffer') <= seq + 1
      /\ seq - n <= seq + 1 - Len(buffer')
      /\ \A k \in 1 .. Len(buffer') : buffer'[k] = seq + 1 - Len(buffer') + k - 1
      /\ n # max_size => Len(buffer') = n + 1
  <2>1. CASE n = max_size
    <3> DEFINE rest == Tail(buffer)
    <3>1. buffer' = Append(rest, seq) /\ buffer # <<>>
      BY <1>1, <1>2, <2>1 DEF Stream!append, n
    <3>2. /\ rest \in Seq(Nat) /\ Len(rest) = n - 1
          /\ \A k \in 1 .. n - 1 : rest[k] = buffer[k + 1]
      BY <1>2, <3>1 DEF n
    <3> HIDE DEF rest
    <3>3. /\ buffer' \in Seq(Nat) /\ Len(buffer') = n /\ buffer'[n] = seq
          /\ \A k \in 1 .. n - 1 : buffer'[k] = rest[k]
      BY <1>1, <1>2, <2>1, <3>1, <3>2
    <3>4. \A k \in 1 .. n : buffer'[k] = seq + 1 - n + k - 1
      <4> TAKE k \in 1 .. n
      <4>1. CASE k = n
        BY <1>2, <3>3, <4>1
      <4>2. CASE k # n
        <5>1. k \in 1 .. n - 1 /\ k + 1 \in 1 .. n
          BY <1>2, <4>2
        <5>2. buffer'[k] = seq - n + (k + 1) - 1
          BY <1>3, <3>2, <3>3, <5>1
        <5>3. QED
          BY <1>2, <5>1, <5>2
      <4>3. QED
        BY <4>1, <4>2
    <3>5. QED
      BY <1>2, <2>1, <3>3, <3>4
  <2>2. CASE n # max_size
    <3>1. buffer' = Append(buffer, seq)
      BY <2>2 DEF Stream!append, n
    <3>2. /\ buffer' \in Seq(Nat) /\ Len(buffer') = n + 1 /\ buffer'[n + 1] = seq
          /\ \A k \in 1 .. n : buffer'[k] = buffer[k]
      BY <1>2, <3>1 DEF n
    <3>3. \A k \in 1 .. n + 1 : buffer'[k] = seq + 1 - (n + 1) + k - 1
      <4> TAKE k \in 1 .. n + 1
      <4>1. CASE k = n + 1
        BY <1>2, <3>2, <4>1
      <4>2. CASE k # n + 1
        <5>1. k \in 1 .. n
          BY <1>2, <4>2
        <5>2. QED
          BY <1>2, <1>3, <3>2, <5>1
      <4>3. QED
        BY <4>1, <4>2
    <3>4. QED
      BY <1>2, <3>2, <3>3
  <2>3. QED
    BY <2>1, <2>2
<1>5. StreamTypes'
  BY <1>1, <1>2, <1>4 DEF StreamInv, StreamTypes
<1>6. Len(buffer') <= seq' /\ Following(buffer', seq' - Len(buffer')) /\ (~gap' => Len(buffer') = seq')
  <2>1. Len(buffer') <= seq' /\ \A k \in 1 .. Len(buffer') : buffer'[k] = seq' - Len(buffer') + k - 1
    <3> DEFINE m == Len(buffer')
    <3>1. m \in Nat /\ seq' = seq + 1
      BY <1>1, <1>4
    <3> HIDE DEF m
    <3>2. \A k \in 1 .. m : buffer'[k] = seq + 1 - m + k - 1
      BY <1>4 DEF m
    <3>3. \A k \in 1 .. m : buffer'[k] = seq' - m + k - 1
      BY <1>2, <3>1, <3>2
    <3>4. m <= seq'
      BY <1>4, <3>1 DEF m
    <3>5. QED
      BY <3>3, <3>4 DEF m
  <2>2. ASSUME ~gap' PROVE Len(buffer') = seq'
    <3>1. ~gap /\ n # max_size
      BY <1>1, <2>2 DEF n
    <3>2. n = seq /\ Len(buffer') = n + 1
      BY <1>4, <3>1 DEF StreamInv, n
    <3>3. QED
      BY <1>1, <3>2
  <2>3. QED
    BY <2>1, <2>2 DEF Following
<1>7. \E low \in Nat :
          /\ low <= seq' - Len(buffer')
          /\ generator' = "slice" => Following(messages', low)
          /\ \A t \in Stream!Topics : \A k \in 1 .. Len(delivered'[t]) :
                delivered'[t][k] < low + last_seq'
  <2>1. PICK low \in Nat :
          /\ low <= seq - n
          /\ generator = "slice" => Following(messages, low)
          /\ \A t \in Stream!Topics : \A k \in 1 .. Len(delivered[t]) :
                delivered[t][k] < low + last_seq
    BY DEF StreamInv, n
  <2>2. Len(buffer') \in Nat
    BY <1>4
  <2>3. low <= seq' - Len(buffer')
    BY <1>1, <1>2, <1>4, <2>1, <2>2
  <2>4. QED
    BY <1>1, <2>1, <2>3
<1>8. QED
  BY <1>1, <1>5, <1>6, <1>7 DEF StreamInv, Following, AllOf, Grows

(* Neither the buffer nor the copy that is cut gets other messages. *)
LEMMA OthersKeepStream ==
    ASSUME StreamInv,
           Stream!clear \/ Stream!get_batches \/ Stream!Poll \/ Stream!Sleep
             \/ Stream!Resume \/ Stream!Ends \/ UNCHANGED streamVars
    PROVE  StreamInv'
<1>1. PICK low \in Nat :
        /\ low <= seq - Len(buffer)
        /\ generator = "slice" => Following(messages, low)
        /\ \A t \in Stream!Topics : \A k \in 1 .. Len(delivered[t]) :
              delivered[t][k] < low + last_seq
  BY DEF StreamInv
<1>2. CASE Stream!clear
  <2>1. /\ buffer' = <<>> /\ gap' = TRUE /\ UNCHANGED <<seq, messages, last_seq, generator, delivered>>
    BY <1>2 DEF Stream!clear
  <2>2. Len(buffer') = 0 /\ buffer' \in Seq(Nat) /\ 1 .. 0 = {}
    BY <2>1
  <2>3. StreamTypes'
    BY <2>1, <2>2 DEF StreamInv, StreamTypes
  <2>4. low <= seq' - Len(buffer') /\ Len(buffer') <= seq'
    <3>1. Len(buffer) \in Nat /\ seq \in Nat
      BY DEF StreamInv, StreamTypes
    <3>2. QED
      BY <1>1, <2>1, <2>2, <3>1
  <2>5. Following(buffer', seq' - Len(buffer'))
    BY <2>2 DEF Following
  <2>6. \A t \in Stream!Topics : Grows(delivered'[t])
    BY <2>1 DEF StreamInv
  <2>7. QED
    BY <1>1, <2>1, <2>3, <2>4, <2>5, <2>6 DEF StreamInv, Following, Grows, AllOf
<1>3. CASE Stream!Poll
  <2>1. messages' = buffer /\ generator' = "slice" /\ UNCHANGED <<buffer, seq, last_seq, delivered, gap>>
    BY <1>3 DEF Stream!Poll
  <2>2. StreamTypes /\ Following(buffer, seq - Len(buffer)) /\ Len(buffer) <= seq
    BY DEF StreamInv
  <2> DEFINE high == seq - Len(buffer)
  <2>3. high \in Nat /\ low <= high /\ Following(messages', high)
    <3>1. Len(buffer) \in Nat /\ seq \in Nat
      BY <2>2 DEF StreamTypes
    <3>2. QED
      BY <1>1, <2>1, <2>2, <3>1
  <2> HIDE DEF high
  <2>4. \A t \in Stream!Topics : \A k \in 1 .. Len(delivered[t]) : delivered[t][k] < high + last_seq
    <3> SUFFICES ASSUME NEW t \in Stream!Topics, NEW k \in 1 .. Len(delivered[t])
                 PROVE  delivered[t][k] < high + last_seq
      OBVIOUS
    <3>1. delivered[t][k] \in Nat /\ delivered[t][k] < low + last_seq
      BY <1>1, <2>2 DEF StreamTypes
    <3>2. last_seq \in Nat
      BY <2>2 DEF StreamTypes
    <3>3. QED
      BY <2>3, <3>1, <3>2
  <2>5. high <= seq - Len(buffer)
    <3>1. Len(buffer) \in Nat /\ seq \in Nat
      BY <2>2 DEF StreamTypes
    <3>2. QED
      BY <3>1 DEF high
  <2>6. StreamTypes'
    BY <2>1, <2>2 DEF StreamTypes
  <2>7. QED
    BY <2>1, <2>3, <2>4, <2>5, <2>6 DEF StreamInv, Following, Grows, AllOf
<1>4. CASE Stream!get_batches \/ Stream!Sleep \/ Stream!Resume \/ Stream!Ends
  <2>1. /\ messages' \in {messages, <<>>} /\ generator' # "slice"
        /\ UNCHANGED <<buffer, seq, last_seq, delivered, gap>>
    BY <1>4 DEF Stream!get_batches, Stream!Sleep, Stream!Resume, Stream!Ends
  <2>2. StreamTypes'
    <3>1. messages' \in Seq(Nat)
      <4>1. messages \in Seq(Nat) /\ <<>> \in Seq(Nat)
        BY DEF StreamInv, StreamTypes
      <4>2. QED
        BY <2>1, <4>1
    <3>2. QED
      BY <2>1, <3>1 DEF StreamInv, StreamTypes
  <2>3. QED
    BY <1>1, <2>1, <2>2 DEF StreamInv, Following, Grows, AllOf
<1>5. CASE UNCHANGED streamVars
  BY <1>5 DEF streamVars, StreamInv, StreamTypes, Following, Grows, AllOf
<1>6. QED
  BY <1>2, <1>3, <1>4, <1>5

(* The messages of a topic, where they were in the batch. *)
LEMMA MessagesOfTopic ==
    ASSUME NEW S, NEW batch \in Seq(S), NEW t
    PROVE  LET r == Stream!_align_messages(batch, t)
               at == {k \in 1 .. Len(batch) : Topic[batch[k]] = t}
           IN  r \in Seq(S) /\ \E p : Picks(p, r, batch, at, Len(batch))
<1> DEFINE at == {k \in 1 .. Len(batch) : Topic[batch[k]] = t}
           Loop(f) == f = [k \in 0 .. Len(batch) |->
                             IF k = 0 THEN <<>>
                             ELSE IF Topic[batch[k]] = t THEN Append(f[k - 1], batch[k]) ELSE f[k - 1]]
           values == CHOOSE f : Loop(f)
<1>1. Len(batch) \in Nat
  OBVIOUS
<1>2. \A f : Kept(f, batch, at, Len(batch)) <=> Loop(f)
  <2> TAKE f
  <2>1. \A k \in 0 .. Len(batch) :
           (IF k = 0 THEN <<>> ELSE IF k \in at THEN Append(f[k - 1], batch[k]) ELSE f[k - 1])
           = (IF k = 0 THEN <<>> ELSE IF Topic[batch[k]] = t THEN Append(f[k - 1], batch[k]) ELSE f[k - 1])
    BY <1>1
  <2>2. QED
    BY <2>1 DEF Kept
<1>3. \E f : Loop(f)
  <2> HIDE DEF at, Loop
  <2> QED BY <1>1, <1>2, KeptExists
<1>4. Loop(values)
  <2> HIDE DEF Loop
  <2> QED BY <1>3
<1>5. Stream!_align_messages(batch, t) = values[Len(batch)]
  BY DEF Stream!_align_messages
<1> HIDE DEF at, Loop, values
<1>6. Kept(values, batch, at, Len(batch))
  BY <1>2, <1>4
<1>7. QED
  BY <1>5, <1>6, KeptPicks DEF at

LEMMA YieldKeepsStream ==
    ASSUME Stream!StreamAssumption, StreamInv, Stream!Yield
    PROVE  StreamInv'
<1>1. /\ generator = "slice" /\ last_seq + batch_size < Len(messages)
      /\ delivered' = [t \in Stream!Topics |->
                         delivered[t] \o Stream!_align_messages(Stream!Slice, t)]
      /\ last_seq' = last_seq + batch_size /\ messages' = <<>> /\ generator' = "yielded"
      /\ UNCHANGED <<buffer, seq, gap>>
      /\ batch_size \in Nat \ {0} /\ last_seq \in Nat /\ messages \in Seq(Nat)
  BY DEF Stream!Yield, Stream!Enough, Stream!StreamAssumption, StreamInv, StreamTypes
<1>2. PICK low \in Nat :
        /\ low <= seq - Len(buffer) /\ Following(messages, low)
        /\ \A t \in Stream!Topics : \A k \in 1 .. Len(delivered[t]) :
              delivered[t][k] < low + last_seq
  BY <1>1 DEF StreamInv
<1> DEFINE batch == Stream!Slice
           start == low + last_seq
           n == batch_size
<1>3. /\ start \in Nat /\ n \in Nat
      /\ batch \in Seq(Nat) /\ Len(batch) = n
      /\ \A k \in 1 .. n : batch[k] = start + k - 1
  <2>1. /\ batch \in Seq(Nat) /\ Len(batch) = n
        /\ \A k \in 1 .. n : batch[k] = messages[last_seq + k]
    BY <1>1 DEF Stream!Slice
  <2>2. \A k \in 1 .. n : last_seq + k \in 1 .. Len(messages)
    BY <1>1
  <2>3. \A k \in 1 .. n : messages[last_seq + k] = low + (last_seq + k) - 1
    BY <1>2, <2>2 DEF Following
  <2>4. \A k \in 1 .. n : batch[k] = start + k - 1
    <3> SUFFICES ASSUME NEW k \in 1 .. n PROVE batch[k] = start + k - 1
      OBVIOUS
    <3>1. batch[k] = low + (last_seq + k) - 1
      BY <2>1, <2>3
    <3>2. QED
      BY <1>1, <1>2, <3>1
  <2>5. start \in Nat /\ n \in Nat
    BY <1>1, <1>2
  <2>6. QED
    BY <2>1, <2>4, <2>5
<1>4. n = batch_size /\ start = low + last_seq
  OBVIOUS
<1> HIDE DEF batch, start, n
<1>5. ASSUME NEW t \in Stream!Topics
      PROVE  /\ delivered'[t] \in Seq(Nat)
             /\ \A k \in 1 .. Len(delivered'[t]) : delivered'[t][k] < start + n
             /\ Grows(delivered'[t])
             /\ ~gap => AllOf(t, delivered'[t], last_seq + n)
  <2> DEFINE old == delivered[t]
             r == Stream!_align_messages(batch, t)
             at == {k \in 1 .. Len(batch) : Topic[batch[k]] = t}
             new == old \o r
  <2>1. delivered'[t] = new
    BY <1>1 DEF batch
  <2>2. old \in Seq(Nat) /\ Grows(old) /\ \A k \in 1 .. Len(old) : old[k] \in Nat /\ old[k] < start
    <3>1. old \in Seq(Nat) /\ Grows(old)
      BY DEF StreamInv, StreamTypes
    <3>2. \A k \in 1 .. Len(old) : old[k] < start
      BY <1>2, <1>4
    <3>3. QED
      BY <3>1, <3>2
  <2>3. PICK p : r \in Seq(Nat) /\ Picks(p, r, batch, at, n)
    BY <1>3, MessagesOfTopic
  <2> DEFINE a == Len(old)
             b == Len(r)
  <2>4. a \in Nat /\ b \in Nat
    BY <2>2, <2>3
  <2>5. /\ p \in [1 .. b -> 1 .. n]
        /\ \A j \in 1 .. b : Topic[batch[p[j]]] = t /\ r[j] = batch[p[j]]
        /\ \A j, k \in 1 .. b : j < k => p[j] < p[k]
        /\ \A k \in 1 .. n : Topic[batch[k]] = t => \E j \in 1 .. b : p[j] = k
    BY <1>3, <2>3 DEF Picks
  <2>6. /\ new \in Seq(Nat) /\ Len(new) = a + b
        /\ \A k \in 1 .. a : new[k] = old[k]
        /\ \A k \in 1 .. b : new[a + k] = r[k]
    BY <2>2, <2>3
  <2> HIDE DEF new, r, at, old, a, b
  <2>7. \A j \in 1 .. b : p[j] \in 1 .. n /\ r[j] = start + p[j] - 1 /\ Topic[r[j]] = t
    BY <1>3, <2>5
  <2>8. \A k \in 1 .. a + b : \/ k \in 1 .. a /\ new[k] = old[k]
                              \/ \E j \in 1 .. b : k = a + j /\ new[k] = r[j]
    <3> TAKE k \in 1 .. a + b
    <3>1. CASE k <= a
      BY <2>4, <2>6, <3>1
    <3>2. CASE ~(k <= a)
      <4>1. k - a \in 1 .. b /\ k = a + (k - a)
        BY <2>4, <3>2
      <4>2. QED
        BY <2>6, <4>1
    <3>3. QED
      BY <3>1, <3>2
  <2>9. \A k \in 1 .. a : old[k] \in Nat /\ old[k] < start
    BY <2>2 DEF a
  <2>10. \A j \in 1 .. b : r[j] \in start .. start + n - 1 /\ Topic[r[j]] = t
    <3> TAKE j \in 1 .. b
    <3>1. p[j] \in 1 .. n /\ r[j] = start + p[j] - 1 /\ Topic[r[j]] = t
      BY <2>7
    <3>2. QED
      BY <1>3, <3>1
  <2>11. \A k \in 1 .. a + b : new[k] < start + n
    <3> TAKE k \in 1 .. a + b
    <3>1. CASE k \in 1 .. a /\ new[k] = old[k]
      BY <1>3, <2>9, <3>1
    <3>2. CASE \E j \in 1 .. b : k = a + j /\ new[k] = r[j]
      BY <1>3, <2>10, <3>2
    <3>3. QED
      BY <2>8, <3>1, <3>2
  <2>12. \A j, k \in 1 .. a + b : j < k => new[j] < new[k]
    <3> SUFFICES ASSUME NEW j \in 1 .. a + b, NEW k \in 1 .. a + b, j < k PROVE new[j] < new[k]
      OBVIOUS
    <3>1. CASE k \in 1 .. a
      <4>1. j \in 1 .. a
        BY <2>4, <3>1
      <4>2. old[j] < old[k]
        BY <2>2, <3>1, <4>1 DEF Grows, a
      <4>3. QED
        BY <2>6, <3>1, <4>1, <4>2
    <3>2. CASE k \notin 1 .. a
      <4>1. PICK l \in 1 .. b : k = a + l /\ new[k] = r[l]
        BY <2>8, <3>2
      <4>2. CASE j \in 1 .. a
        <5>1. new[j] < start
          BY <2>6, <2>9, <4>2
        <5>2. new[k] >= start
          BY <1>3, <2>10, <4>1
        <5>3. new[j] \in Nat /\ new[k] \in Nat
          BY <2>6, <2>4
        <5>4. QED
          BY <1>3, <5>1, <5>2, <5>3
      <4>3. CASE j \notin 1 .. a
        <5>1. PICK i \in 1 .. b : j = a + i /\ new[j] = r[i]
          BY <2>8, <4>3
        <5>2. i < l
          BY <2>4, <4>1, <5>1
        <5>3. p[i] < p[l]
          BY <2>5, <5>2
        <5>4. /\ p[i] \in 1 .. n /\ r[i] = start + p[i] - 1
              /\ p[l] \in 1 .. n /\ r[l] = start + p[l] - 1
          BY <2>7
        <5>5. r[i] < r[l]
          <6>1. start \in Int /\ p[i] \in Int /\ p[l] \in Int
            BY <1>3, <5>4
          <6>2. start + p[i] - 1 < start + p[l] - 1
            BY <5>3, <6>1
          <6>3. QED
            BY <5>4, <6>2
        <5>6. QED
          BY <4>1, <5>1, <5>5
      <4>4. QED
        BY <4>2, <4>3
    <3>3. QED
      BY <3>1, <3>2
  <2>13. ASSUME ~gap
         PROVE  AllOf(t, new, last_seq + n)
    <3>1. low = 0 /\ start = last_seq
      <4>1. Len(buffer) = seq /\ seq \in Nat
        BY <2>13 DEF StreamInv, StreamTypes
      <4>2. QED
        BY <1>1, <1>2, <1>4, <4>1
    <3>2. /\ \A k \in 1 .. a : old[k] \in 0 .. last_seq - 1 /\ Topic[old[k]] = t
          /\ \A m \in 0 .. last_seq - 1 : Topic[m] = t => \E k \in 1 .. a : old[k] = m
      BY <2>13 DEF StreamInv, AllOf, old, a
    <3>3. \A k \in 1 .. a + b : new[k] \in 0 .. (last_seq + n) - 1 /\ Topic[new[k]] = t
      <4> TAKE k \in 1 .. a + b
      <4>1. CASE k \in 1 .. a /\ new[k] = old[k]
        <5>1. old[k] \in 0 .. last_seq - 1 /\ Topic[old[k]] = t
          BY <3>2, <4>1
        <5>2. QED
          BY <1>1, <1>3, <4>1, <5>1
      <4>2. CASE \E j \in 1 .. b : k = a + j /\ new[k] = r[j]
        <5>1. PICK j \in 1 .. b : new[k] = r[j]
          BY <4>2
        <5>2. QED
          BY <1>1, <1>3, <2>10, <3>1, <5>1
      <4>3. QED
        BY <2>8, <4>1, <4>2
    <3>4. ASSUME NEW m \in 0 .. (last_seq + n) - 1, Topic[m] = t
          PROVE  \E k \in 1 .. a + b : new[k] = m
      <4>1. CASE m < last_seq
        <5>1. m \in 0 .. last_seq - 1
          BY <1>1, <1>3, <3>4, <4>1
        <5>2. PICK k \in 1 .. a : old[k] = m
          BY <3>2, <3>4, <5>1
        <5>3. k \in 1 .. a + b
          BY <2>4
        <5>4. QED
          BY <2>6, <5>2, <5>3
      <4>2. CASE ~(m < last_seq)
        <5> DEFINE k == m - last_seq + 1
        <5>1. k \in 1 .. n /\ start + k - 1 = m
          BY <1>1, <1>3, <3>1, <4>2
        <5> HIDE DEF k
        <5>2. batch[k] = m
          BY <1>3, <5>1
        <5>3. PICK j \in 1 .. b : p[j] = k
          BY <2>5, <3>4, <5>1, <5>2
        <5>4. r[j] = m
          BY <2>5, <5>2, <5>3
        <5>5. a + j \in 1 .. a + b
          BY <2>4
        <5>6. QED
          BY <2>6, <5>4, <5>5
      <4>3. QED
        BY <4>1, <4>2
    <3>5. Len(new) = a + b
      BY <2>6
    <3>6. \A k \in 1 .. Len(new) : new[k] \in 0 .. (last_seq + n) - 1 /\ Topic[new[k]] = t
      BY <3>3, <3>5
    <3>7. \A m \in 0 .. (last_seq + n) - 1 : Topic[m] = t => \E k \in 1 .. Len(new) : new[k] = m
      BY <3>4, <3>5
    <3>8. QED
      BY <3>6, <3>7 DEF AllOf
  <2>14. QED
    BY <2>1, <2>6, <2>11, <2>12, <2>13 DEF Grows
<1>6. StreamTypes'
  <2>1. delivered' \in [Stream!Topics -> Seq(Nat)]
    <3>1. delivered' = [t \in Stream!Topics |-> delivered'[t]]
      BY <1>1
    <3>2. QED
      BY <1>5, <3>1
  <2>2. last_seq + batch_size \in Nat
    BY <1>1
  <2>3. QED
    BY <1>1, <2>1, <2>2 DEF StreamInv, StreamTypes
<1>7. start + n = low + last_seq' /\ last_seq' = last_seq + n
  BY <1>1, <1>2, <1>4
<1>8. \A t \in Stream!Topics : \A k \in 1 .. Len(delivered'[t]) : delivered'[t][k] < low + last_seq'
  BY <1>5, <1>7
<1>9. Len(buffer') <= seq' /\ Following(buffer', seq' - Len(buffer')) /\ (~gap' => Len(buffer') = seq')
  BY <1>1 DEF StreamInv
<1>10. \A t \in Stream!Topics :
        Grows(delivered'[t]) /\ (~gap' => AllOf(t, delivered'[t], last_seq'))
  <2>1. gap' = gap /\ last_seq' = last_seq + n
    BY <1>1, <1>7
  <2>2. QED
    BY <1>5, <2>1
<1>11. low <= seq' - Len(buffer') /\ generator' # "slice"
  BY <1>1, <1>2
<1>12. QED
  BY <1>6, <1>8, <1>9, <1>10, <1>11 DEF StreamInv, Grows, Following, AllOf

(* Messages come out once and in order, and until the buffer drops one, each
   topic has had exactly those before the consumer's place:
   StreamingRoboticsDataset.get_batches (streaming.py). *)
THEOREM StreamsComeInOrder ==
    ASSUME Stream!StreamAssumption PROVE Spec => []StreamInOrder
<1>1. Init => StreamInv
  BY StreamInit DEF Init
<1>2. StreamInv /\ [Next]_vars => StreamInv'
  BY StreamSteps, AppendKeepsStream, OthersKeepStream, YieldKeepsStream DEF Stream!Next
<1>3. StreamInv => StreamInOrder
  <2> SUFFICES ASSUME StreamInv, NEW t \in Stream!Topics
               PROVE  /\ \A j, k \in DOMAIN delivered[t] : j < k => delivered[t][j] < delivered[t][k]
                      /\ ~gap => {delivered[t][k] : k \in DOMAIN delivered[t]} =
                                    {m \in 0 .. last_seq - 1 : Topic[m] = t}
    BY DEF StreamInOrder, Stream!StreamInOrder
  <2>1. DOMAIN delivered[t] = 1 .. Len(delivered[t])
    BY DEF StreamInv, StreamTypes
  <2>2. Grows(delivered[t]) /\ (~gap => AllOf(t, delivered[t], last_seq))
    BY DEF StreamInv
  <2>3. QED
    BY <2>1, <2>2 DEF Grows, AllOf
<1>4. QED
  BY <1>1, <1>2, <1>3, PTL DEF Spec

-----------------------------------------------------------------------------
(* Decisions.  The ranking is by places: as many decisions as are not behind a
   decision say where it stands, so places tell decisions apart, and no place
   is left free. *)
LEMMA DecisionsCount == \A S : Decisions!Cardinality(S) = Cardinality(S)
BY DEF Decisions!Cardinality, Cardinality

Urgencies == {"Low", "Medium", "High", "Critical"}

Kinds == {"batch-size", "cache", "prefetch", "quality"}

Recommendations ==
    {"AdjustBatchSize", "FlushCache", "CacheAggressively", "EnablePrefetch", "ReduceParallelism",
     "TriggerReprocessing", "SkipAnomalousFrames", "RequestManualReview"}

Decided == [decision_id : Kinds \X Nat, recommendation : Recommendations, priority : Urgencies,
            confidence : Int, improves : BOOLEAN]

DecisionsInv ==
    /\ decisions_made \in Seq(Decided)
    /\ \A k \in 1 .. Len(decisions_made) : decisions_made[k].decision_id[2] = k - 1
    /\ decisions_executed \in Seq(Kinds \X Nat)
    /\ \A j \in 1 .. Len(decisions_executed) : \E k \in 1 .. Len(decisions_made) :
          decisions_executed[j] = decisions_made[k].decision_id
    /\ \A j, k \in 1 .. Len(decisions_executed) :
          decisions_executed[j] = decisions_executed[k] => j = k

LEMMA DecisionsSteps == [Next]_vars => Decisions!Next \/ UNCHANGED decisionsVars
BY DEF Next, Others, decisionsVars, vars

LEMMA DecisionsInit == ASSUME Decisions!Init PROVE DecisionsInv
<1>1. <<>> \in Seq(Decided) /\ <<>> \in Seq(Kinds \X Nat) /\ 1 .. 0 = {}
  OBVIOUS
<1>2. decisions_made = <<>> /\ decisions_executed = <<>>
  BY DEF Decisions!Init
<1>3. Len(decisions_made) = 0 /\ Len(decisions_executed) = 0
  BY <1>2
<1>4. QED
  BY <1>1, <1>2, <1>3 DEF DecisionsInv

LEMMA MadeKeepsDecisions ==
    ASSUME DecisionsInv, NEW kind \in Kinds, NEW recommendation \in Recommendations,
           NEW priority \in Urgencies, NEW confidence \in Int, NEW improves \in BOOLEAN,
           Decisions!Make(kind, recommendation, priority, confidence, improves)
    PROVE  DecisionsInv'
<1> DEFINE n == Len(decisions_made)
           d == [decision_id |-> <<kind, n>>, recommendation |-> recommendation,
                 priority |-> priority, confidence |-> confidence, improves |-> improves]
<1>1. decisions_made' = Append(decisions_made, d) /\ decisions_executed' = decisions_executed
  BY DEF Decisions!Make
<1>2. decisions_made \in Seq(Decided) /\ n \in Nat
  BY DEF DecisionsInv
<1>3. d \in Decided /\ d.decision_id[2] = n
  BY <1>2 DEF Decided
<1> HIDE DEF d
<1>4. /\ decisions_made' \in Seq(Decided) /\ Len(decisions_made') = n + 1
      /\ decisions_made'[n + 1] = d
      /\ \A k \in 1 .. n : decisions_made'[k] = decisions_made[k]
  BY <1>1, <1>2, <1>3
<1> HIDE DEF n
<1>5. \A k \in 1 .. Len(decisions_made') : decisions_made'[k].decision_id[2] = k - 1
  <2> SUFFICES ASSUME NEW k \in 1 .. n + 1 PROVE decisions_made'[k].decision_id[2] = k - 1
    BY <1>4
  <2>1. CASE k = n + 1
    BY <1>2, <1>3, <1>4, <2>1
  <2>2. CASE k # n + 1
    <3>1. k \in 1 .. n
      BY <1>2, <2>2
    <3>2. QED
      BY <1>4, <3>1 DEF DecisionsInv, n
  <2>3. QED
    BY <2>1, <2>2
<1>6. \A j \in 1 .. Len(decisions_executed) : \E k \in 1 .. n + 1 :
         decisions_executed[j] = decisions_made'[k].decision_id
  <2> TAKE j \in 1 .. Len(decisions_executed)
  <2>1. PICK k \in 1 .. n : decisions_executed[j] = decisions_made[k].decision_id
    BY DEF DecisionsInv, n
  <2>2. k \in 1 .. n + 1
    BY <1>2
  <2>3. QED
    BY <1>4, <2>1, <2>2
<1>7. QED
  BY <1>1, <1>4, <1>5, <1>6 DEF DecisionsInv

LEMMA DecisionsNext ==
    ASSUME Decisions!DecisionsAssumption, DecisionsInv, Decisions!Next \/ UNCHANGED decisionsVars
    PROVE  DecisionsInv'
<1>1. ASSUME NEW i \in BatchInputs, Decisions!make_batch_size_decision(i) PROVE DecisionsInv'
  <2> DEFINE change == IF i.recommended > i.current THEN i.recommended - i.current
                       ELSE i.current - i.recommended
             priority == CASE i.pressure > 90 -> "Critical"
               [] i.pressure > 70 /\ i.pressure <= 90 -> "High"
               [] i.pressure <= 70 /\ 10 * change > 3 * i.current /\ i.confidence > 80 -> "Medium"
               [] OTHER -> "Low"
  <2>1. Decisions!Make("batch-size", "AdjustBatchSize", priority, i.confidence,
                       change * i.confidence > 0)
    BY <1>1 DEF Decisions!make_batch_size_decision
  <2>2. priority \in Urgencies
    BY DEF Urgencies
  <2>3. i.confidence \in Int /\ (change * i.confidence > 0) \in BOOLEAN
    BY DEF Decisions!DecisionsAssumption
  <2> HIDE DEF priority, change
  <2>4. QED
    <3>1. "batch-size" \in Kinds /\ "AdjustBatchSize" \in Recommendations
      BY DEF Kinds, Recommendations
    <3>2. QED
      BY <2>1, <2>2, <2>3, <3>1, MadeKeepsDecisions
<1>2. ASSUME NEW i \in CacheInputs, Decisions!make_cache_decision(i) PROVE DecisionsInv'
  <2> DEFINE flush == i.anomalies > 100 \/ i.hit_rate < 20
             recommendation == IF flush THEN "FlushCache" ELSE "CacheAggressively"
             priority == CASE i.anomalies > 500 -> "Critical"
               [] i.anomalies <= 500 /\ i.hit_rate < 10 -> "High"
               [] OTHER -> "Medium"
             confidence == IF i.hit_rate + 20 > 100 THEN 100 ELSE i.hit_rate + 20
             improves == flush \/ i.hit_rate > 0
  <2>1. Decisions!Make("cache", recommendation, priority, confidence, improves)
    BY <1>2 DEF Decisions!make_cache_decision
  <2>2. priority \in Urgencies
    BY DEF Urgencies
  <2>3. recommendation \in Recommendations
    BY DEF Recommendations
  <2>4. confidence \in Int
    BY DEF Decisions!DecisionsAssumption
  <2>5. improves \in BOOLEAN
    OBVIOUS
  <2> HIDE DEF priority, confidence, improves, recommendation
  <2>6. QED
    <3>1. "cache" \in Kinds
      BY DEF Kinds
    <3>2. QED
      BY <2>1, <2>2, <2>4, <2>5, <2>3, <3>1, MadeKeepsDecisions
<1>3. ASSUME NEW i \in PrefetchInputs, Decisions!make_prefetch_decision(i) PROVE DecisionsInv'
  <2> DEFINE n == Len(i.patterns)
             sum == CHOOSE f : f = [k \in 0 .. n |-> IF k = 0 THEN 0 ELSE f[k - 1] + i.patterns[k]]
             locality == IF n = 0 THEN 0 ELSE sum[n] \div n
             should == locality > 60 /\ i.pressure < 80
             recommendation == IF should THEN "EnablePrefetch" ELSE "ReduceParallelism"
             priority == CASE locality > 90 -> "High"
               [] locality <= 90 /\ should -> "Medium"
               [] OTHER -> "Low"
  <2>1. Decisions!Make("prefetch", recommendation, priority, locality, should)
    BY <1>3 DEF Decisions!make_prefetch_decision
  <2>2. i.patterns \in Seq(Nat) /\ n \in Nat
    <3>1. i.patterns \in Seq(0 .. 100)
      BY DEF Decisions!DecisionsAssumption
    <3>2. ASSUME NEW R, NEW s \in Seq(R), R \subseteq Nat PROVE s \in Seq(Nat) /\ Len(s) \in Nat
      <4>1. Len(s) \in Nat /\ s \in [1 .. Len(s) -> R]
        OBVIOUS
      <4>2. s \in [1 .. Len(s) -> Nat]
        BY <3>2, <4>1
      <4>3. QED
        BY <4>1, <4>2, SeqDef
    <3>3. 0 .. 100 \subseteq Nat
      OBVIOUS
    <3>4. QED
      BY <3>1, <3>2, <3>3
  <2>3. sum[n] \in Nat
    BY <2>2, SumsOfNaturals
  <2> HIDE DEF sum
  <2>4. locality \in Int
    BY <2>2, <2>3
  <2> HIDE DEF locality
  <2>5. priority \in Urgencies
    BY DEF Urgencies
  <2>6. recommendation \in Recommendations
    BY DEF Recommendations
  <2>7. should \in BOOLEAN
    OBVIOUS
  <2> HIDE DEF priority, should, recommendation
  <2>8. QED
    <3>1. "prefetch" \in Kinds
      BY DEF Kinds
    <3>2. QED
      BY <2>1, <2>4, <2>5, <2>7, <2>6, <3>1, MadeKeepsDecisions
<1>4. ASSUME NEW i \in QualityInputs, Decisions!make_quality_decision(i) PROVE DecisionsInv'
  <2> DEFINE recommendation == CASE i.score < 60 -> "TriggerReprocessing"
               [] i.score >= 60 /\ i.anomalies > 10 -> "SkipAnomalousFrames"
               [] OTHER -> "RequestManualReview"
             priority == CASE i.score < 50 -> "Critical"
               [] i.score >= 50 /\ (i.anomalies > 15 \/ i.missing > 5) -> "High"
               [] OTHER -> "Medium"
             confidence == 100 - (i.anomalies + i.missing) \div 2
             improves == i.score < 70
  <2>1. Decisions!Make("quality", recommendation, priority, confidence, improves)
    BY <1>4 DEF Decisions!make_quality_decision
  <2>2. priority \in Urgencies
    BY DEF Urgencies
  <2>3. recommendation \in Recommendations
    BY DEF Recommendations
  <2>4. confidence \in Int
    BY DEF Decisions!DecisionsAssumption
  <2>5. improves \in BOOLEAN
    OBVIOUS
  <2> HIDE DEF priority, confidence, improves, recommendation
  <2>6. QED
    <3>1. "quality" \in Kinds
      BY DEF Kinds
    <3>2. QED
      BY <2>1, <2>2, <2>4, <2>5, <2>3, <3>1, MadeKeepsDecisions
<1>5. ASSUME NEW k \in DOMAIN decisions_made,
             Decisions!execute_decision(decisions_made[k].decision_id)
      PROVE  DecisionsInv'
  <2> DEFINE id == decisions_made[k].decision_id
             n == Len(decisions_executed)
  <2>1. /\ decisions_executed \in Seq(Kinds \X Nat) /\ n \in Nat
        /\ decisions_made \in Seq(Decided) /\ decisions_made' = decisions_made
    BY <1>5 DEF DecisionsInv, Decisions!execute_decision
  <2>2. k \in 1 .. Len(decisions_made) /\ id \in Kinds \X Nat
    <3>1. k \in 1 .. Len(decisions_made)
      BY <2>1
    <3>2. decisions_made[k] \in Decided
      BY <2>1, <3>1
    <3>3. QED
      BY <3>1, <3>2 DEF Decided
  <2>3. CASE \E j \in 1 .. n : decisions_executed[j] = id
    <3>1. decisions_executed' = decisions_executed
      <4>1. id \in {decisions_executed[j] : j \in DOMAIN decisions_executed}
        BY <2>1, <2>3
      <4>2. QED
        BY <1>5, <4>1 DEF Decisions!execute_decision, Decisions!Range
    <3>2. QED
      BY <2>1, <3>1 DEF DecisionsInv
  <2>4. CASE ~\E j \in 1 .. n : decisions_executed[j] = id
    <3>1. decisions_executed' = Append(decisions_executed, id)
      <4>1. id \notin {decisions_executed[j] : j \in DOMAIN decisions_executed}
        <5>1. DOMAIN decisions_executed = 1 .. n
          BY <2>1
        <5> HIDE DEF id, n
        <5> QED BY <2>4, <5>1
      <4>2. QED
        BY <1>5, <4>1 DEF Decisions!execute_decision, Decisions!Range
    <3> HIDE DEF id
    <3>2. /\ decisions_executed' \in Seq(Kinds \X Nat) /\ Len(decisions_executed') = n + 1
          /\ decisions_executed'[n + 1] = id
          /\ \A j \in 1 .. n : decisions_executed'[j] = decisions_executed[j]
      BY <2>1, <2>2, <3>1
    <3> HIDE DEF n
    <3>3. \A j \in 1 .. n + 1 : j \in 1 .. n \/ j = n + 1
      BY <2>1
    <3>4. \A j \in 1 .. n + 1 : \E l \in 1 .. Len(decisions_made) :
             decisions_executed'[j] = decisions_made[l].decision_id
      <4> TAKE j \in 1 .. n + 1
      <4>1. CASE j \in 1 .. n
        BY <3>2, <4>1 DEF DecisionsInv, n
      <4>2. CASE j = n + 1
        BY <2>2, <3>2, <4>2 DEF id
      <4>3. QED
        BY <3>3, <4>1, <4>2
    <3>5. ASSUME NEW j \in 1 .. n + 1, NEW l \in 1 .. n + 1,
                 decisions_executed'[j] = decisions_executed'[l]
          PROVE  j = l
      <4>1. CASE j \in 1 .. n /\ l \in 1 .. n
        BY <3>2, <3>5, <4>1 DEF DecisionsInv, n
      <4>2. CASE ~(j \in 1 .. n /\ l \in 1 .. n)
        BY <2>4, <3>2, <3>3, <3>5, <4>2
      <4>3. QED
        BY <4>1, <4>2
    <3>6. QED
      BY <2>1, <3>2, <3>4, <3>5 DEF DecisionsInv
  <2>5. QED
    BY <2>3, <2>4
<1>6. CASE UNCHANGED decisionsVars
  BY <1>6 DEF decisionsVars, DecisionsInv
<1>7. QED
  BY <1>1, <1>2, <1>3, <1>4, <1>5, <1>6 DEF Decisions!Next

LEMMA SeverityRanks ==
    /\ Decisions!severity_rank("Low") = 0 /\ Decisions!severity_rank("Medium") = 1
    /\ Decisions!severity_rank("High") = 2 /\ Decisions!severity_rank("Critical") = 3
BY DEF Decisions!severity_rank

Severity(k) == Decisions!severity_rank(decisions_made[k].priority)

CriticalAt == {k \in 1 .. Len(decisions_made) : decisions_made[k].priority = "Critical"}

LEMMA Severities ==
    ASSUME DecisionsInv, NEW k \in 1 .. Len(decisions_made)
    PROVE  /\ Severity(k) \in 0 .. 3 /\ decisions_made[k].confidence \in Int
           /\ decisions_made[k].priority \in Urgencies
           /\ k \in CriticalAt <=> Severity(k) = 3
<1>1. decisions_made[k] \in Decided
  BY DEF DecisionsInv
<1>2. decisions_made[k].confidence \in Int /\ decisions_made[k].priority \in Urgencies
  BY <1>1 DEF Decided
<1>3. QED
  BY <1>2, SeverityRanks DEF Severity, CriticalAt, Urgencies

(* at[p] is the decision in place p of the ranking. *)
LEMMA Ranking ==
    ASSUME DecisionsInv
    PROVE  LET n == Len(decisions_made) IN
           \E at \in [1 .. n -> 1 .. n] :
              /\ Decisions!rank_decisions_by_priority = [p \in 1 .. n |-> decisions_made[at[p]]]
              /\ \A k \in 1 .. n : \E p \in 1 .. n : at[p] = k
              /\ \A p, q \in 1 .. n : p < q => Severity(at[p]) >= Severity(at[q])
              /\ \A p \in 1 .. n : at[p] \in CriticalAt <=> p <= Cardinality(CriticalAt)
<1> DEFINE n == Len(decisions_made)
           d(k) == decisions_made[k]
           Less(j, k) == \/ Severity(j) > Severity(k)
                         \/ Severity(j) = Severity(k) /\ d(j).confidence > d(k).confidence
           R == {e \in (1 .. n) \X (1 .. n) :
                   Less(e[1], e[2]) \/ (e[1] <= e[2] /\ ~Less(e[2], e[1]))}
<1>1. n \in Nat /\ DOMAIN decisions_made = 1 .. n
  BY DEF DecisionsInv
<1>2. \A k \in 1 .. n : /\ Severity(k) \in 0 .. 3 /\ d(k).confidence \in Int
                        /\ k \in CriticalAt <=> Severity(k) = 3
  BY Severities
<1>3. \A j, k \in 1 .. n : Less(j, k) <=> Decisions!Before(d(j), d(k))
  BY DEF Decisions!Before, Severity
<1>4. \A j, k \in 1 .. n : <<j, k>> \in R <=> Less(j, k) \/ (j <= k /\ ~Less(k, j))
  BY DEF R
<1> HIDE DEF R, n, d
<1>5. ASSUME NEW j \in 1 .. n, NEW k \in 1 .. n PROVE ~Less(j, k) \/ ~Less(k, j)
  <2>1. /\ Severity(j) \in Int /\ d(j).confidence \in Int
        /\ Severity(k) \in Int /\ d(k).confidence \in Int
    BY <1>2
  <2>2. QED
    BY <2>1
<1>6. ASSUME NEW j \in 1 .. n, NEW k \in 1 .. n PROVE j <= k \/ k <= j
  BY <1>1
<1>7. \A j, k \in 1 .. n : <<j, k>> \in R \/ <<k, j>> \in R
  <2> HIDE DEF Less
  <2> QED BY <1>4, <1>5, <1>6
<1>8. \A j, k \in 1 .. n : <<j, k>> \in R /\ <<k, j>> \in R => j = k
  BY <1>1, <1>2, <1>4
<1>9. ASSUME NEW i \in 1 .. n, NEW j \in 1 .. n, NEW k \in 1 .. n, <<i, j>> \in R, <<j, k>> \in R
      PROVE  <<i, k>> \in R
  <2>1. /\ Severity(i) \in Int /\ d(i).confidence \in Int
        /\ Severity(j) \in Int /\ d(j).confidence \in Int
        /\ Severity(k) \in Int /\ d(k).confidence \in Int
    BY <1>2
  <2>2. /\ Less(i, j) \/ (i <= j /\ ~Less(j, i))
        /\ Less(j, k) \/ (j <= k /\ ~Less(k, j))
    BY <1>4, <1>9
  <2>3. Less(i, k) \/ (i <= k /\ ~Less(k, i))
    BY <1>1, <2>1, <2>2
  <2>4. QED
    BY <1>4, <2>3
<1>10. CriticalAt \in SUBSET (1 .. n)
  BY DEF CriticalAt, n
<1>11. \A j \in CriticalAt : \A k \in (1 .. n) \ CriticalAt : <<j, k>> \in R
  <2> SUFFICES ASSUME NEW j \in CriticalAt, NEW k \in (1 .. n) \ CriticalAt
               PROVE  <<j, k>> \in R
    OBVIOUS
  <2>1. j \in 1 .. n /\ k \in 1 .. n /\ Severity(j) = 3 /\ Severity(k) \in 0 .. 3 /\ Severity(k) # 3
    BY <1>2, <1>10
  <2>2. Less(j, k)
    BY <2>1
  <2>3. QED
    BY <1>4, <2>1, <2>2
<1> DEFINE Ahead(k) == {j \in 1 .. n : <<j, k>> \in R}
           place == [k \in 1 .. n |-> Cardinality(Ahead(k))]
<1>12. /\ place \in [1 .. n -> 1 .. n]
       /\ \A p \in 1 .. n : \E k \in 1 .. n : place[k] = p
       /\ \A j, k \in 1 .. n : j # k /\ <<j, k>> \in R => place[j] < place[k]
       /\ \A k \in 1 .. n : k \in CriticalAt <=> place[k] <= Cardinality(CriticalAt)
  <2>1. StandsAt(place, R, n) /\ Foremost(CriticalAt, R, n)
    BY <1>10, <1>11 DEF StandsAt, Foremost
  <2> HIDE DEF place
  <2>2. Orders(R, n)
    BY <1>7, <1>8, <1>9 DEF Orders
  <2>3. QED
    BY <1>1, <2>1, <2>2, PlacesOfAnOrder
<1> DEFINE at == [p \in 1 .. n |-> CHOOSE k \in 1 .. n : place[k] = p]
<1>13. Decisions!rank_decisions_by_priority = [p \in 1 .. n |-> decisions_made[at[p]]]
  <2>1. \A k \in 1 .. n :
           Decisions!Cardinality({j \in 1 .. n :
               \/ Decisions!Before(decisions_made[j], decisions_made[k])
               \/ j <= k /\ ~Decisions!Before(decisions_made[k], decisions_made[j])}) = place[k]
    <3> SUFFICES ASSUME NEW k \in 1 .. n
                 PROVE  Decisions!Cardinality({j \in 1 .. n :
               \/ Decisions!Before(decisions_made[j], decisions_made[k])
               \/ j <= k /\ ~Decisions!Before(decisions_made[k], decisions_made[j])}) = place[k]
      OBVIOUS
    <3>1. {j \in 1 .. n :
               \/ Decisions!Before(decisions_made[j], decisions_made[k])
               \/ j <= k /\ ~Decisions!Before(decisions_made[k], decisions_made[j])} = Ahead(k)
      BY <1>3, <1>4 DEF d
    <3> HIDE DEF Ahead
    <3>2. QED
      BY <3>1, DecisionsCount
  <2> HIDE DEF place
  <2> DEFINE chosen(p) == CHOOSE k \in 1 .. n :
             Decisions!Cardinality({j \in 1 .. n :
               \/ Decisions!Before(decisions_made[j], decisions_made[k])
               \/ j <= k /\ ~Decisions!Before(decisions_made[k], decisions_made[j])}) = p
  <2>2. \A p \in 1 .. n : at[p] = chosen(p)
    BY <2>1
  <2>3. Decisions!rank_decisions_by_priority = [p \in 1 .. n |-> decisions_made[chosen(p)]]
    BY <1>1 DEF Decisions!rank_decisions_by_priority
  <2> HIDE DEF chosen, at
  <2>4. QED
    BY <2>2, <2>3
<1> HIDE DEF place
<1>14. \A p \in 1 .. n : at[p] \in 1 .. n /\ place[at[p]] = p
  BY <1>12
<1>15. at \in [1 .. n -> 1 .. n]
  BY <1>14
<1> HIDE DEF at
<1>16. \A k \in 1 .. n : \E p \in 1 .. n : at[p] = k
  <2> SUFFICES ASSUME NEW k \in 1 .. n PROVE at[place[k]] = k
    BY <1>12
  <2>1. place[k] \in 1 .. n
    BY <1>12
  <2>2. at[place[k]] \in 1 .. n /\ place[at[place[k]]] = place[k]
    BY <1>14, <2>1
  <2>3. ~(place[k] < place[k])
    BY <2>1
  <2>4. QED
    BY <1>7, <1>12, <2>2, <2>3
<1>17. ASSUME NEW p \in 1 .. n, NEW q \in 1 .. n, p < q
       PROVE  Severity(at[p]) >= Severity(at[q])
  <2>1. at[p] \in 1 .. n /\ at[q] \in 1 .. n /\ place[at[p]] = p /\ place[at[q]] = q
    BY <1>14
  <2>2. ~(q < p) /\ p # q
    BY <1>17
  <2>3. <<at[p], at[q]>> \in R
    <3>1. at[p] # at[q]
      BY <2>1, <2>2
    <3>2. ~(place[at[q]] < place[at[p]])
      BY <2>1, <2>2
    <3>3. ~(<<at[q], at[p]>> \in R)
      BY <1>12, <2>1, <3>1, <3>2
    <3>4. QED
      BY <1>7, <2>1, <3>3
  <2>4. Less(at[p], at[q]) \/ ~Less(at[q], at[p])
    BY <1>4, <2>1, <2>3
  <2>5. QED
    BY <1>2, <2>1, <2>4
<1>18. \A p \in 1 .. n : at[p] \in CriticalAt <=> p <= Cardinality(CriticalAt)
  BY <1>12, <1>14
<1>19. QED
  BY <1>13, <1>15, <1>16, <1>17, <1>18 DEF n

(* The critical decisions, where they were among all. *)
LEMMA CriticalOnes ==
    ASSUME DecisionsInv
    PROVE  /\ Decisions!get_critical_decisions \in Seq(Decided)
           /\ \E p : Picks(p, Decisions!get_critical_decisions, decisions_made, CriticalAt,
                           Len(decisions_made))
<1> DEFINE n == Len(decisions_made)
           Loop(f) == f = [k \in 0 .. n |->
                             IF k = 0 THEN <<>>
                             ELSE IF decisions_made[k].priority = "Critical"
                                  THEN Append(f[k - 1], decisions_made[k]) ELSE f[k - 1]]
           critical == CHOOSE f : Loop(f)
<1>1. n \in Nat /\ decisions_made \in Seq(Decided)
  BY DEF DecisionsInv
<1>2. \A f : Kept(f, decisions_made, CriticalAt, n) <=> Loop(f)
  <2> TAKE f
  <2>1. \A k \in 0 .. n : k # 0 => (k \in CriticalAt <=> decisions_made[k].priority = "Critical")
    BY <1>1 DEF CriticalAt
  <2>2. \A k \in 0 .. n :
           (IF k = 0 THEN <<>>
            ELSE IF k \in CriticalAt THEN Append(f[k - 1], decisions_made[k]) ELSE f[k - 1])
           = (IF k = 0 THEN <<>>
              ELSE IF decisions_made[k].priority = "Critical"
                   THEN Append(f[k - 1], decisions_made[k]) ELSE f[k - 1])
    BY <2>1
  <2>3. QED
    BY <2>2 DEF Kept
<1>3. \E f : Loop(f)
  <2> HIDE DEF Loop, n
  <2> QED BY <1>1, <1>2, KeptExists
<1>4. Loop(critical)
  <2> HIDE DEF Loop
  <2> QED BY <1>3
<1>5. Decisions!get_critical_decisions = critical[n]
  BY DEF Decisions!get_critical_decisions
<1> HIDE DEF Loop, critical
<1>6. Kept(critical, decisions_made, CriticalAt, n)
  BY <1>2, <1>4
<1>7. QED
  BY <1>1, <1>5, <1>6, KeptPicks

LEMMA CriticalFirst ==
    ASSUME DecisionsInv
    PROVE  LET ranked == Decisions!rank_decisions_by_priority
               critical == Decisions!get_critical_decisions
           IN  /\ Decisions!Range(ranked) = Decisions!Range(decisions_made)
               /\ Decisions!Range(SubSeq(ranked, 1, Len(critical))) = Decisions!Range(critical)
<1> DEFINE n == Len(decisions_made)
           ranked == Decisions!rank_decisions_by_priority
           critical == Decisions!get_critical_decisions
           c == Len(critical)
<1>1. n \in Nat /\ decisions_made \in Seq(Decided) /\ DOMAIN decisions_made = 1 .. n
  BY DEF DecisionsInv
<1>2. PICK at \in [1 .. n -> 1 .. n] :
        /\ ranked = [p \in 1 .. n |-> decisions_made[at[p]]]
        /\ \A k \in 1 .. n : \E p \in 1 .. n : at[p] = k
        /\ \A p \in 1 .. n : at[p] \in CriticalAt <=> p <= Cardinality(CriticalAt)
  BY Ranking
<1>3. PICK p : Picks(p, critical, decisions_made, CriticalAt, n)
  BY CriticalOnes
<1>4. critical \in Seq(Decided)
  BY CriticalOnes
<1>5. c \in Nat /\ DOMAIN critical = 1 .. c
  BY <1>4
<1> HIDE DEF n, ranked, critical
<1>6. CriticalAt \in SUBSET (1 .. n)
  BY DEF CriticalAt, n
<1>7. c = Cardinality(CriticalAt)
  BY <1>1, <1>3, <1>5, <1>6, CountOfPicks
<1> HIDE DEF c
<1>8. c <= n
  <2>1. IsFiniteSet(1 .. n) /\ Cardinality(1 .. n) = n
    BY <1>1, FS_Interval
  <2>2. Cardinality(CriticalAt) <= Cardinality(1 .. n)
    BY <1>6, <2>1, FS_Subset
  <2>3. QED
    BY <1>7, <2>1, <2>2
<1>9. ranked \in Seq(Decided) /\ Len(ranked) = n /\ DOMAIN ranked = 1 .. n
  <2>1. \A k \in 1 .. n : decisions_made[k] \in Decided
    BY <1>1
  <2>2. ranked \in [1 .. n -> Decided]
    BY <1>2, <2>1
  <2>3. QED
    BY <1>1, <2>2, SeqDef
<1>10. {ranked[k] : k \in 1 .. n} = {decisions_made[k] : k \in 1 .. n}
  <2>1. \A k \in 1 .. n : ranked[k] = decisions_made[at[k]] /\ at[k] \in 1 .. n
    BY <1>2
  <2>2. \A k \in 1 .. n : \E q \in 1 .. n : at[q] = k
    BY <1>2
  <2>3. ASSUME NEW x, x \in {ranked[k] : k \in 1 .. n} PROVE x \in {decisions_made[k] : k \in 1 .. n}
    BY <2>1, <2>3
  <2>4. ASSUME NEW x, x \in {decisions_made[k] : k \in 1 .. n} PROVE x \in {ranked[k] : k \in 1 .. n}
    <3>1. PICK k \in 1 .. n : x = decisions_made[k]
      BY <2>4
    <3>2. PICK q \in 1 .. n : at[q] = k
      BY <2>2
    <3>3. x = ranked[q]
      BY <2>1, <3>1, <3>2
    <3>4. QED
      BY <3>3
  <2>5. QED
    BY <2>3, <2>4
<1> DEFINE first == SubSeq(ranked, 1, c)
<1>11. DOMAIN first = 1 .. c /\ \A k \in 1 .. c : first[k] = ranked[k]
  BY <1>1, <1>5, <1>8, <1>9
<1> HIDE DEF first
<1>12. {first[k] : k \in 1 .. c} = {critical[k] : k \in 1 .. c}
  <2>1. \A k \in 1 .. c : k \in 1 .. n
    BY <1>1, <1>5, <1>8
  <2>2. \A k \in 1 .. c : at[k] \in CriticalAt /\ first[k] = decisions_made[at[k]]
    <3> TAKE k \in 1 .. c
    <3>1. k \in 1 .. n /\ k <= Cardinality(CriticalAt)
      BY <1>5, <1>7, <2>1
    <3>2. ranked[k] = decisions_made[at[k]] /\ at[k] \in CriticalAt
      BY <1>2, <3>1
    <3>3. QED
      BY <1>11, <3>2
  <2>3. \A j \in 1 .. c : p[j] \in CriticalAt /\ critical[j] = decisions_made[p[j]]
    BY <1>3 DEF Picks, c
  <2>4. \A k \in CriticalAt : \E j \in 1 .. c : p[j] = k
    BY <1>3, <1>6 DEF Picks, c
  <2>5. \A k \in CriticalAt : \E q \in 1 .. c : at[q] = k
    <3> TAKE k \in CriticalAt
    <3>1. PICK q \in 1 .. n : at[q] = k
      BY <1>2, <1>6
    <3>2. q <= c
      BY <1>2, <1>7, <3>1
    <3>3. q \in 1 .. c
      BY <1>1, <1>5, <3>1, <3>2
    <3>4. QED
      BY <3>1, <3>3
  <2>6. ASSUME NEW x, x \in {first[k] : k \in 1 .. c} PROVE x \in {critical[k] : k \in 1 .. c}
    <3>1. PICK k \in 1 .. c : x = first[k]
      BY <2>6
    <3>2. PICK j \in 1 .. c : p[j] = at[k]
      BY <2>2, <2>4
    <3>3. x = critical[j]
      BY <2>2, <2>3, <3>1, <3>2
    <3>4. QED
      BY <3>3
  <2>7. ASSUME NEW x, x \in {critical[k] : k \in 1 .. c} PROVE x \in {first[k] : k \in 1 .. c}
    <3>1. PICK j \in 1 .. c : x = critical[j]
      BY <2>7
    <3>2. PICK q \in 1 .. c : at[q] = p[j]
      BY <2>3, <2>5
    <3>3. x = first[q]
      BY <2>2, <2>3, <3>1, <3>2
    <3>4. QED
      BY <3>3
  <2>8. QED
    BY <2>6, <2>7
<1>13. /\ Decisions!Range(ranked) = {ranked[k] : k \in 1 .. n}
       /\ Decisions!Range(decisions_made) = {decisions_made[k] : k \in 1 .. n}
       /\ Decisions!Range(first) = {first[k] : k \in 1 .. c}
       /\ Decisions!Range(critical) = {critical[k] : k \in 1 .. c}
  BY <1>1, <1>5, <1>9, <1>11 DEF Decisions!Range, c
<1>14. QED
  BY <1>10, <1>12, <1>13 DEF first, c, ranked, critical

(* Whatever was proposed and executed, the ranking has every decision, the
   critical ones at its head and none before one more urgent; ids tell decisions
   apart, and each executed one is executed once and found:
   DecisionEngine (decisions.rs). *)
THEOREM MostUrgentFirst ==
    ASSUME Decisions!DecisionsAssumption PROVE Spec => []UrgentFirst
<1>1. Init => DecisionsInv
  BY DecisionsInit DEF Init
<1>2. DecisionsInv /\ [Next]_vars => DecisionsInv'
  BY DecisionsSteps, DecisionsNext
<1>3. DecisionsInv => UrgentFirst
  <2> SUFFICES ASSUME DecisionsInv PROVE UrgentFirst
    OBVIOUS
  <2> DEFINE n == Len(decisions_made)
             m == Len(decisions_executed)
             ranked == Decisions!rank_decisions_by_priority
             critical == Decisions!get_critical_decisions
             urgency == <<"Low", "Medium", "High", "Critical">>
  <2>1. /\ n \in Nat /\ DOMAIN decisions_made = 1 .. n
        /\ DOMAIN decisions_executed = 1 .. m
    BY DEF DecisionsInv
  <2>2. /\ Decisions!Range(ranked) = Decisions!Range(decisions_made)
        /\ Decisions!Range(SubSeq(ranked, 1, Len(critical))) = Decisions!Range(critical)
    BY CriticalFirst
  <2>3. ASSUME NEW j \in 1 .. n, NEW k \in 1 .. n,
               decisions_made[j].decision_id = decisions_made[k].decision_id
        PROVE  j = k
    <3>1. j - 1 = k - 1
      BY <2>3 DEF DecisionsInv
    <3>2. QED
      BY <3>1
  <2>4. ASSUME NEW k \in 2 .. Len(ranked), NEW a \in DOMAIN urgency, NEW b \in DOMAIN urgency,
               ranked[k - 1].priority = urgency[a], ranked[k].priority = urgency[b]
        PROVE  a >= b
    <3> HIDE DEF n, ranked
    <3>1. PICK at \in [1 .. n -> 1 .. n] :
            /\ ranked = [p \in 1 .. n |-> decisions_made[at[p]]]
            /\ \A p, q \in 1 .. n : p < q => Severity(at[p]) >= Severity(at[q])
      BY Ranking DEF n, ranked
    <3>2. Len(ranked) = n
      BY <2>1, <3>1
    <3>3. k \in 1 .. n /\ k - 1 \in 1 .. n /\ k - 1 < k
      BY <2>1, <3>2
    <3>4. /\ ranked[k] = decisions_made[at[k]] /\ ranked[k - 1] = decisions_made[at[k - 1]]
          /\ Severity(at[k - 1]) >= Severity(at[k])
      BY <3>1, <3>3
    <3>5. /\ Severity(at[k - 1]) = Decisions!severity_rank(urgency[a])
          /\ Severity(at[k]) = Decisions!severity_rank(urgency[b])
      BY <2>4, <3>4 DEF Severity
    <3>6. \A i \in DOMAIN urgency : i \in 1 .. 4 /\ Decisions!severity_rank(urgency[i]) = i - 1
      BY SeverityRanks
    <3>7. a - 1 >= b - 1 /\ a \in 1 .. 4 /\ b \in 1 .. 4
      BY <3>4, <3>5, <3>6
    <3>8. QED
      BY <3>7
  <2>5. \A j, k \in 1 .. m : decisions_executed[j] = decisions_executed[k] => j = k
    BY DEF DecisionsInv
  <2>6. ASSUME NEW j \in 1 .. m
        PROVE  Decisions!Cardinality(Decisions!get_decision_by_id(decisions_executed[j])) = 1
    <3>1. PICK k \in 1 .. n : decisions_executed[j] = decisions_made[k].decision_id
      BY DEF DecisionsInv
    <3> DEFINE named == {i \in 1 .. n : decisions_made[i].decision_id = decisions_executed[j]}
    <3> HIDE DEF n
    <3>2. named = {k}
      BY <2>3, <3>1
    <3> HIDE DEF named
    <3>3. {i \in named : \A l \in named : i <= l} = {k}
      BY <2>1, <3>1, <3>2
    <3>4. Decisions!get_decision_by_id(decisions_executed[j]) =
            {decisions_made[i] : i \in {x \in named : \A l \in named : x <= l}}
      BY <2>1 DEF Decisions!get_decision_by_id, named
    <3>5. Decisions!get_decision_by_id(decisions_executed[j]) = {decisions_made[k]}
      BY <3>3, <3>4
    <3>6. QED
      BY <3>5, DecisionsCount, FS_Singleton
  <2> HIDE DEF n, m, ranked, critical
  <2>7. QED
    BY <2>1, <2>2, <2>3, <2>4, <2>5, <2>6
       DEF UrgentFirst, Decisions!UrgentFirst, ranked, critical
<1>4. QED
  BY <1>1, <1>2, <1>3, PTL DEF Spec

-----------------------------------------------------------------------------
(***************************************************************************)
(* The performance model: the window is the newest samples, and what was    *)
(* fitted last was fitted to the window of the last multiple of RetrainEvery *)
(* or, once the window is full, to the window there is.                     *)
(***************************************************************************)
LEMMA ModelSteps == [Next]_vars => Model!Next \/ UNCHANGED modelVars
BY DEF Next, Others, modelVars, vars

FitAge ==
    IF Len(stream) <= max_training_samples THEN Len(stream) % RetrainEvery ELSE 0

ModelInv ==
    /\ stream \in Seq(Samples)
    /\ training_data = Model!Newest(stream, max_training_samples)
    /\ Len(stream) >= RetrainEvery /\ RetrainEvery >= LeastSamples =>
          coefficients = Model!Fit(Model!Newest(SubSeq(stream, 1, Len(stream) - FitAge),
                                                max_training_samples))

LEMMA ModelInit == ASSUME Model!ModelAssumption, Model!Init PROVE ModelInv
<1>1. stream = <<>> /\ training_data = <<>> /\ Len(stream) = 0
  BY DEF Model!Init
<1>2. max_training_samples \in Nat /\ RetrainEvery \in Nat \ {0}
  BY DEF Model!ModelAssumption
<1>3. Model!Newest(stream, max_training_samples) = <<>>
  BY <1>1, <1>2 DEF Model!Newest
<1>4. QED
  BY <1>1, <1>2, <1>3 DEF ModelInv

(* The newest n samples, while there are no more and once there are. *)
LEMMA NewestAll ==
    ASSUME NEW S, NEW s \in Seq(S), NEW n \in Nat, Len(s) <= n
    PROVE  Model!Newest(s, n) = s
<1>1. Len(s) \in Nat /\ SubSeq(s, 1, Len(s)) = s
  OBVIOUS
<1> DEFINE m == Len(s)
<1>2. m \in Nat /\ m <= n
  BY <1>1
<1> HIDE DEF m
<1>3. (IF n < m THEN n ELSE m) = m /\ (m - m) + 1 = 1
  BY <1>2
<1>4. (IF n < Len(s) THEN n ELSE Len(s)) = Len(s)
  BY <1>3 DEF m
<1>5. (Len(s) - Len(s)) + 1 = 1
  BY <1>3 DEF m
<1>6. QED
  BY <1>1, <1>4, <1>5 DEF Model!Newest

LEMMA NewestSome ==
    ASSUME NEW S, NEW s \in Seq(S), NEW n \in Nat, n <= Len(s)
    PROVE  /\ Model!Newest(s, n) \in Seq(S) /\ Len(Model!Newest(s, n)) = n
           /\ \A k \in 1 .. n : Model!Newest(s, n)[k] = s[(Len(s) - n) + k]
<1> DEFINE m == Len(s)
           from == (m - n) + 1
<1>1. m \in Nat /\ from \in 1 .. m + 1
  OBVIOUS
<1>2. (IF n < m THEN n ELSE m) = n
  BY <1>1
<1>3. Model!Newest(s, n) = SubSeq(s, from, m)
  BY <1>2 DEF Model!Newest
<1>4. /\ SubSeq(s, from, m) \in Seq(S) /\ Len(SubSeq(s, from, m)) = (m - from) + 1
      /\ \A k \in 1 .. (m - from) + 1 : SubSeq(s, from, m)[k] = s[(from + k) - 1]
  BY <1>1, SubSeqProperties
<1>5. (m - from) + 1 = n /\ \A k \in 1 .. n : (from + k) - 1 = (m - n) + k
  BY <1>1
<1> HIDE DEF m, from
<1>6. QED
  BY <1>3, <1>4, <1>5 DEF m

LEMMA WindowMoves ==
    ASSUME NEW S, NEW s \in Seq(S), NEW x \in S, NEW n \in Nat \ {0}
    PROVE  LET more == Append(Model!Newest(s, n), x)
           IN  Model!Newest(Append(s, x), n) = IF Len(more) > n THEN Tail(more) ELSE more
<1> DEFINE t == Append(s, x)
           w == Model!Newest(s, n)
           more == Append(w, x)
           v == Model!Newest(t, n)
<1>1. /\ t \in Seq(S) /\ Len(t) = Len(s) + 1 /\ Len(s) \in Nat /\ t[Len(s) + 1] = x
      /\ \A k \in 1 .. Len(s) : t[k] = s[k]
  OBVIOUS
<1> HIDE DEF t
<1>2. CASE Len(s) < n
  <2>1. w = s /\ v = t /\ more = t
    <3>1. w = s
      BY <1>1, <1>2, NewestAll
    <3>2. v = t
      BY <1>1, <1>2, NewestAll
    <3>3. QED
      BY <3>1, <3>2 DEF t
  <2>2. QED
    BY <1>1, <1>2, <2>1 DEF t
<1>3. CASE n <= Len(s)
  <2>1. /\ w \in Seq(S) /\ Len(w) = n
        /\ \A k \in 1 .. n : w[k] = s[(Len(s) - n) + k]
    BY <1>3, NewestSome
  <2>2. /\ v \in Seq(S) /\ Len(v) = n
        /\ \A k \in 1 .. n : v[k] = t[((Len(s) + 1) - n) + k]
    <3>1. n <= Len(t) /\ n \in Nat
      BY <1>1, <1>3
    <3>2. t \in Seq(S)
      BY <1>1
    <3>3. /\ v \in Seq(S) /\ Len(v) = n
          /\ \A k \in 1 .. n : v[k] = t[(Len(t) - n) + k]
      BY <3>1, <3>2, NewestSome
    <3>4. QED
      BY <1>1, <3>3
  <2> HIDE DEF w, v
  <2>3. /\ more \in Seq(S) /\ Len(more) = n + 1 /\ more[n + 1] = x
        /\ \A k \in 1 .. n : more[k] = w[k]
    BY <2>1
  <2> HIDE DEF more
  <2>4. /\ Tail(more) \in Seq(S) /\ Len(Tail(more)) = n
        /\ \A k \in 1 .. n : Tail(more)[k] = more[k + 1]
    BY <2>3
  <2> DEFINE m == Len(s)
  <2>5. m \in Nat /\ n <= m
    BY <1>1, <1>3
  <2> HIDE DEF m
  <2>6. ASSUME NEW k \in 1 .. n PROVE v[k] = Tail(more)[k]
    <3>1. CASE k = n
      BY <1>1, <1>3, <2>2, <2>3, <2>4, <3>1
    <3>2. CASE k # n
      <4>1. k + 1 \in 1 .. n /\ (m - n) + (k + 1) \in 1 .. m
            /\ ((m + 1) - n) + k = (m - n) + (k + 1)
        BY <2>5, <3>2
      <4>2. QED
        <5>1. v[k] = t[((m + 1) - n) + k]
          BY <2>2 DEF m
        <5>2. t[(m - n) + (k + 1)] = s[(m - n) + (k + 1)]
          BY <1>1, <4>1 DEF m
        <5>3. Tail(more)[k] = w[k + 1]
          BY <2>3, <2>4, <4>1
        <5>4. w[k + 1] = s[(m - n) + (k + 1)]
          BY <2>1, <4>1 DEF m
        <5>5. QED
          BY <4>1, <5>1, <5>2, <5>3, <5>4
    <3>3. QED
      BY <3>1, <3>2
  <2>7. v = Tail(more)
    BY <2>2, <2>4, <2>6
  <2>8. QED
    BY <2>3, <2>7 DEF more, v, w, t
<1>4. QED
  BY <1>1, <1>2, <1>3

LEMMA ModelNext ==
    ASSUME Model!ModelAssumption, ModelInv, Model!Next \/ UNCHANGED modelVars
    PROVE  ModelInv'
<1>1. CASE UNCHANGED modelVars
  BY <1>1 DEF modelVars, ModelInv, FitAge
<1>2. CASE Model!Next
  <2> DEFINE most == max_training_samples
             each == RetrainEvery
             n == Len(stream)
             data == Model!Newest(stream', most)
  <2>1. PICK s \in Samples :
          LET more == Append(training_data, s)
              d == IF Len(more) > most THEN Tail(more) ELSE more
          IN  /\ training_data' = d
              /\ coefficients' = IF Model!Retrains(d) THEN Model!retrain(d) ELSE coefficients
              /\ stream' = Append(stream, s)
    BY <1>2 DEF Model!Next, Model!add_training_sample
  <2>2. /\ most \in Nat \ {0} /\ each \in Nat \ {0} /\ LeastSamples \in Nat
        /\ most >= each /\ most % each = 0
    BY DEF Model!ModelAssumption
  <2>3. stream \in Seq(Samples) /\ training_data = Model!Newest(stream, most)
    BY DEF ModelInv
  <2>4. /\ training_data' = data
        /\ coefficients' = IF Model!Retrains(data) THEN Model!retrain(data) ELSE coefficients
    BY <2>1, <2>2, <2>3, WindowMoves
  <2>5. /\ stream' \in Seq(Samples) /\ Len(stream') = n + 1 /\ n \in Nat
        /\ \A k \in 1 .. n : stream'[k] = stream[k]
    BY <2>1, <2>3
  <2>6. Len(data) = IF n + 1 <= most THEN n + 1 ELSE most
    <3>1. CASE n + 1 <= most
      <4>1. data = stream'
        BY <2>2, <2>5, <3>1, NewestAll
      <4>2. QED
        BY <2>5, <3>1, <4>1
    <3>2. CASE ~(n + 1 <= most)
      <4>1. most <= Len(stream')
        BY <2>2, <2>5, <3>2
      <4>2. Len(data) = most
        BY <2>2, <2>5, <4>1, NewestSome
      <4>3. QED
        BY <3>2, <4>2
    <3>3. QED
      BY <3>1, <3>2
  <2> HIDE DEF data, n
  <2>7. ASSUME Len(stream') >= each, each >= LeastSamples
        PROVE  coefficients' = Model!Fit(Model!Newest(SubSeq(stream', 1, Len(stream') - FitAge'), most))
    <3>1. CASE Model!Retrains(data)
      <4>1. Len(data) % each = 0 /\ Len(data) >= each
        BY <3>1 DEF Model!Retrains
      <4>2. coefficients' = Model!Fit(data)
        BY <2>2, <2>4, <2>6, <2>7, <3>1, <4>1, <2>5 DEF Model!retrain
      <4>3. FitAge' = 0
        BY <2>5, <2>6, <4>1, <2>2 DEF FitAge
      <4>4. SubSeq(stream', 1, Len(stream') - FitAge') = stream'
        BY <2>5, <4>3
      <4>5. QED
        BY <4>2, <4>4 DEF data
    <3>2. CASE ~Model!Retrains(data)
      <4>1. n + 1 <= most /\ (n + 1) % each # 0
        BY <2>2, <2>5, <2>6, <2>7, <3>2 DEF Model!Retrains
      <4>2. each % each = 0
        <5>1. (0 + each) % each = 0
          <6>1. 0 % each = 0
            BY <2>2
          <6>2. QED
            BY <2>2, <6>1, NextMultiple
        <5>2. QED
          BY <2>2, <5>1
      <4>3. n >= each
        <5>1. n + 1 # each
          BY <4>1, <4>2
        <5>2. QED
          BY <2>2, <2>5, <2>7, <5>1
      <4>4. (n + 1) % each = (n % each) + 1
        BY <2>2, <2>5, <4>1, NextRemainder
      <4>5. n % each \in 0 .. n
        <5>1. n % each \in 0 .. each - 1
          BY <2>2, <2>5
        <5>2. QED
          BY <2>2, <2>5, <4>3, <5>1
      <4>6. FitAge = n % each /\ FitAge' = (n % each) + 1
        <5>1. Len(stream) = n /\ n <= most
          BY <2>2, <2>5, <4>1 DEF n
        <5>2. QED
          BY <2>5, <4>1, <4>4, <5>1 DEF FitAge
      <4> DEFINE a == n - (n % each)
      <4>7. a \in 0 .. n /\ Len(stream) - FitAge = a /\ Len(stream') - FitAge' = a
        BY <2>5, <4>5, <4>6 DEF n
      <4> HIDE DEF a
      <4>8. SubSeq(stream', 1, a) = SubSeq(stream, 1, a)
        <5>1. Len(stream) = n
          BY DEF n
        <5>2. \A k \in 1 .. a : stream'[k] = stream[k]
          BY <2>5, <4>7
        <5>3. /\ SubSeq(stream', 1, a) \in Seq(Samples) /\ Len(SubSeq(stream', 1, a)) = a
              /\ \A k \in 1 .. a : SubSeq(stream', 1, a)[k] = stream'[k]
          BY <2>5, <4>7
        <5>4. /\ SubSeq(stream, 1, a) \in Seq(Samples) /\ Len(SubSeq(stream, 1, a)) = a
              /\ \A k \in 1 .. a : SubSeq(stream, 1, a)[k] = stream[k]
          BY <2>3, <2>5, <4>7, <5>1
        <5>5. QED
          BY <5>2, <5>3, <5>4, <4>7
      <4>9. coefficients = Model!Fit(Model!Newest(SubSeq(stream, 1, a), most))
        BY <2>7, <4>3, <4>7 DEF ModelInv, n
      <4>10. coefficients' = coefficients
        BY <2>4, <3>2
      <4>11. QED
        BY <4>7, <4>8, <4>9, <4>10
    <3>3. QED
      BY <3>1, <3>2
  <2>8. QED
    BY <2>4, <2>5, <2>7 DEF ModelInv, data
<1>3. QED
  BY <1>1, <1>2

LEMMA FreshOfInv == ASSUME Model!ModelAssumption, ModelInv PROVE Model!FitFresh
<1>1. FitAge \in 0 .. RetrainEvery - 1
  <2>1. Len(stream) \in Nat /\ RetrainEvery \in Nat \ {0} /\ max_training_samples \in Nat
    BY DEF ModelInv, Model!ModelAssumption
  <2>2. Len(stream) % RetrainEvery \in 0 .. RetrainEvery - 1
    BY <2>1
  <2>3. QED
    BY <2>1, <2>2 DEF FitAge
<1>2. QED
  BY <1>1 DEF ModelInv, Model!FitFresh

-----------------------------------------------------------------------------
(***************************************************************************)
(* The predictive cache: its history is the end of all accesses, never less *)
(* than the window, so that the window is that of all accesses.            *)
(***************************************************************************)
LEMMA PredictiveSteps == [Next]_vars => Predictive!Next \/ UNCHANGED predictiveVars
BY DEF Next, Others, predictiveVars, vars

EndOfAll(s, t) ==
    /\ Len(s) <= Len(t) /\ (Len(s) >= window_size \/ Len(s) = Len(t))
    /\ \A k \in 0 .. Len(s) - 1 : s[Len(s) - k] = t[Len(t) - k]

PredictiveInv ==
    /\ accessed \in Seq(Frames) /\ access_history \in Seq(Frames)
    /\ EndOfAll(access_history, accessed)
    /\ IF accessed = <<>> THEN forecast = <<>>
       ELSE forecast = Predictive!update_predictions(access_history)

LEMMA PredictiveInit == ASSUME Predictive!Init PROVE PredictiveInv
<1>1. accessed = <<>> /\ access_history = <<>> /\ forecast = <<>>
  BY DEF Predictive!Init
<1>2. EndOfAll(access_history, accessed)
  BY <1>1 DEF EndOfAll
<1>3. QED
  BY <1>1, <1>2 DEF PredictiveInv

LEMMA PredictiveNext ==
    ASSUME Predictive!CacheAssumption, PredictiveInv, Predictive!Next \/ UNCHANGED predictiveVars
    PROVE  PredictiveInv'
<1>1. CASE UNCHANGED predictiveVars
  <2>1. access_history' = access_history /\ accessed' = accessed /\ forecast' = forecast
    BY <1>1 DEF Predictive!predictiveVars, predictiveVars
  <2>2. EndOfAll(access_history, accessed)' <=> EndOfAll(access_history, accessed)
    BY <2>1 DEF EndOfAll
  <2>3. Predictive!update_predictions(access_history)' = Predictive!update_predictions(access_history)
    BY <2>1 DEF Predictive!update_predictions
  <2>4. QED
    BY <2>1, <2>2, <2>3 DEF PredictiveInv
<1>2. CASE Predictive!Next
  <2>1. PICK f \in Frames :
          /\ access_history' = Predictive!Trimmed(Append(access_history, f))
          /\ forecast' = Predictive!update_predictions(access_history')
          /\ accessed' = Append(accessed, f)
    BY <1>2 DEF Predictive!Next, Predictive!record_access
  <2> DEFINE s == access_history
             t == accessed
             most == window_size * HistoryWindows
             more == Append(s, f)
             all == Append(t, f)
             m == Len(s)
             n == Len(t)
  <2>2. s \in Seq(Frames) /\ t \in Seq(Frames) /\ m \in Nat /\ n \in Nat /\ EndOfAll(s, t)
    BY DEF PredictiveInv
  <2>3. most \in Nat /\ most >= window_size /\ window_size \in Nat \ {0}
    <3>1. window_size \in Nat \ {0} /\ HistoryWindows \in Nat \ {0}
      BY DEF Predictive!CacheAssumption
    <3> DEFINE e == HistoryWindows - 1
    <3>2. e \in Nat /\ HistoryWindows = e + 1
      BY <3>1
    <3> HIDE DEF e
    <3>3. most = window_size * e + window_size /\ window_size * e \in Nat
      BY <3>1, <3>2
    <3>4. QED
      BY <3>1, <3>3
  <2>4. /\ more \in Seq(Frames) /\ Len(more) = m + 1 /\ more[m + 1] = f
        /\ \A k \in 1 .. m : more[k] = s[k]
    BY <2>2
  <2>5. /\ all \in Seq(Frames) /\ Len(all) = n + 1 /\ all[n + 1] = f
        /\ \A k \in 1 .. n : all[k] = t[k]
    BY <2>2
  <2>6. /\ m <= n /\ (m >= window_size \/ m = n)
        /\ \A k \in 0 .. m - 1 : s[m - k] = t[n - k]
    BY <2>2 DEF EndOfAll
  <2>7. access_history' = IF Len(more) > most THEN Tail(more) ELSE more
    BY <2>1 DEF Predictive!Trimmed
  <2> HIDE DEF s, t, most, more, all, m, n
  <2>8. \A k \in 0 .. m : more[(m + 1) - k] = all[(n + 1) - k]
    <3> TAKE k \in 0 .. m
    <3>1. CASE k = 0
      BY <2>2, <2>4, <2>5, <3>1
    <3>2. CASE k # 0
      <4>1. k - 1 \in 0 .. m - 1 /\ (m + 1) - k = m - (k - 1) /\ (n + 1) - k = n - (k - 1)
            /\ m - (k - 1) \in 1 .. m /\ n - (k - 1) \in 1 .. n
        BY <2>2, <2>6, <3>2
      <4>2. s[m - (k - 1)] = t[n - (k - 1)]
        BY <2>6, <4>1
      <4>3. QED
        BY <2>4, <2>5, <4>1, <4>2
    <3>3. QED
      BY <3>1, <3>2
  <2>9. access_history' \in Seq(Frames) /\ EndOfAll(access_history', all)
    <3>1. CASE ~(Len(more) > most)
      <4>1. \A k \in 0 .. Len(more) - 1 : more[Len(more) - k] = all[Len(all) - k]
        <5>1. 0 .. Len(more) - 1 = 0 .. m
          BY <2>2, <2>4
        <5>2. QED
          BY <2>4, <2>5, <2>8, <5>1
      <4>2. Len(more) <= Len(all) /\ (Len(more) >= window_size \/ Len(more) = Len(all))
        BY <2>2, <2>3, <2>4, <2>5, <2>6
      <4>3. EndOfAll(more, all)
        BY <4>1, <4>2 DEF EndOfAll
      <4>4. QED
        BY <2>4, <2>7, <3>1, <4>3
    <3>2. CASE Len(more) > most
      <4> DEFINE r == Tail(more)
      <4>1. r \in Seq(Frames) /\ Len(r) = m /\ \A k \in 1 .. m : r[k] = more[k + 1]
        BY <2>2, <2>4
      <4> HIDE DEF r
      <4>2. m >= window_size /\ m >= 1
        BY <2>2, <2>3, <2>4, <3>2
      <4>3. ASSUME NEW k \in 0 .. m - 1 PROVE r[m - k] = all[(n + 1) - k]
        <5>1. m - k \in 1 .. m /\ (m - k) + 1 = (m + 1) - k /\ k \in 0 .. m
          BY <2>2
        <5>2. QED
          BY <2>8, <4>1, <5>1
      <4>4. EndOfAll(r, all)
        BY <2>2, <2>5, <2>6, <4>1, <4>2, <4>3 DEF EndOfAll
      <4>5. access_history' = r
        BY <2>7, <3>2 DEF r
      <4>6. QED
        BY <4>1, <4>4, <4>5
    <3>3. QED
      BY <3>1, <3>2
  <2>10. accessed' = all /\ all # <<>>
    <3>1. all # <<>>
      BY <2>2, <2>5
    <3>2. QED
      BY <2>1, <3>1 DEF all, t
  <2>11. QED
    BY <2>1, <2>5, <2>9, <2>10 DEF PredictiveInv
<1>3. QED
  BY <1>1, <1>2

LEMMA WorthOfInv ==
    ASSUME Predictive!CacheAssumption, PredictiveInv
    PROVE  Predictive!RecentWorthPrefetching
<1> DEFINE s == access_history
           m == Len(s)
           n == Len(accessed)
           w == IF m < window_size THEN m ELSE window_size
           PlacesOf(f) == {k \in Predictive!InWindow : Predictive!Ago(k) = f}
<1>1. m \in Nat /\ n \in Nat /\ window_size \in Nat \ {0} /\ EndOfAll(s, accessed)
  BY DEF PredictiveInv, Predictive!CacheAssumption
<1>2. /\ w \in 0 .. m /\ Predictive!InWindow = 0 .. w - 1
      /\ \A k \in 0 .. w - 1 : s[m - k] = Predictive!Ago(k)
  <2>1. m <= n /\ (m >= window_size \/ m = n) /\ \A k \in 0 .. m - 1 : s[m - k] = accessed[n - k]
    BY <1>1 DEF EndOfAll
  <2>2. Predictive!InWindow = {k \in 0 .. window_size - 1 : k < n}
    BY DEF Predictive!InWindow
  <2>3. \A k : Predictive!Ago(k) = accessed[n - k]
    BY DEF Predictive!Ago
  <2> HIDE DEF m, n, s
  <2>4. QED
    BY <1>1, <2>1, <2>2, <2>3
<1>3. ASSUME NEW f
      PROVE  /\ f \in DOMAIN forecast <=> PlacesOf(f) # {}
             /\ f \in DOMAIN forecast => /\ forecast[f] \in PlacesOf(f)
                                         /\ \A k \in PlacesOf(f) : k <= forecast[f]
  <2>1. CASE accessed = <<>>
    <3>1. forecast = <<>> /\ n = 0
      BY <2>1 DEF PredictiveInv
    <3>2. DOMAIN forecast = {} /\ PlacesOf(f) = {}
      BY <3>1 DEF Predictive!InWindow
    <3>3. QED
      BY <3>2
  <2>2. CASE accessed # <<>>
    <3> DEFINE window == [i \in 0 .. w - 1 |-> s[m - i]]
               Last(g) == CHOOSE i \in DOMAIN window :
                            window[i] = g /\ \A k \in DOMAIN window : window[k] = g => k <= i
    <3>1. forecast = [g \in {window[i] : i \in DOMAIN window} |-> Last(g)]
      BY <2>2 DEF PredictiveInv, Predictive!update_predictions
    <3>2. DOMAIN window = 0 .. w - 1 /\ \A i \in 0 .. w - 1 : window[i] = Predictive!Ago(i)
      BY <1>2
    <3> HIDE DEF window
    <3>3. f \in DOMAIN forecast <=> \E i \in 0 .. w - 1 : Predictive!Ago(i) = f
      BY <3>1, <3>2
    <3>4. PlacesOf(f) = {i \in 0 .. w - 1 : Predictive!Ago(i) = f}
      BY <1>2
    <3>5. ASSUME f \in DOMAIN forecast
          PROVE  forecast[f] \in PlacesOf(f) /\ \A k \in PlacesOf(f) : k <= forecast[f]
      <4> DEFINE P == PlacesOf(f)
      <4>1. P \in SUBSET (0 .. w) /\ P # {} /\ w \in Nat
        <5>1. P # {}
          BY <3>3, <3>4, <3>5
        <5>2. w \in Nat
          <6> HIDE DEF w, m
          <6>1. QED
            BY <1>1, <1>2
        <5>3. P \in SUBSET (0 .. w)
          <6>1. P = {i \in 0 .. w - 1 : Predictive!Ago(i) = f}
            BY <3>4
          <6> HIDE DEF w, P
          <6>2. QED
            BY <5>2, <6>1
        <5>4. QED
          BY <5>1, <5>2, <5>3
      <4> HIDE DEF P
      <4>2. PICK i \in P : \A k \in P : k <= i
        BY <4>1, GreatestElement
      <4>3. /\ i \in DOMAIN window /\ window[i] = f
            /\ \A k \in DOMAIN window : window[k] = f => k <= i
        BY <3>2, <3>4, <4>2 DEF P
      <4>4. /\ Last(f) \in DOMAIN window /\ window[Last(f)] = f
            /\ \A k \in DOMAIN window : window[k] = f => k <= Last(f)
        BY <4>3
      <4>5. forecast[f] = Last(f)
        BY <3>1, <3>5
      <4> HIDE DEF Last
      <4>6. QED
        BY <3>2, <3>4, <4>4, <4>5
    <3>6. QED
      BY <3>3, <3>4, <3>5
  <2>3. QED
    BY <2>1, <2>2
<1>4. ASSUME NEW f \in Frames
      PROVE  /\ Predictive!should_prefetch(f) => \E k \in PlacesOf(f) : k <= 2
             /\ Cardinality(PlacesOf(f)) = 1 /\ (\E k \in PlacesOf(f) : k <= 2)
                  => Predictive!should_prefetch(f)
             /\ f \in Predictive!get_critical_frames => Predictive!should_prefetch(f)
  <2>1. \A k \in PlacesOf(f) : k \in Nat
    BY <1>1, <1>2
  <2> DEFINE P == PlacesOf(f)
  <2>2. /\ f \in DOMAIN forecast <=> P # {}
        /\ f \in DOMAIN forecast => forecast[f] \in P /\ \A k \in P : k <= forecast[f]
    BY <1>3
  <2>3. \A k \in P : k \in Nat
    BY <2>1
  <2>4. Predictive!should_prefetch(f) <=> f \in DOMAIN forecast /\ forecast[f] <= 2
    <3>1. ASSUME NEW k \in Nat PROVE Predictive!Priority(k) \in {"Critical", "High"} <=> k <= 2
      BY DEF Predictive!Priority
    <3>2. QED
      BY <2>2, <2>3, <3>1 DEF Predictive!should_prefetch
  <2>5. ASSUME Cardinality(P) = 1, NEW k \in P, k <= 2 PROVE Predictive!should_prefetch(f)
    <3>1. IsFiniteSet(P)
      <4>1. P \in SUBSET (0 .. w - 1)
        BY <1>2
      <4> HIDE DEF P, w, m
      <4>2. w \in Nat
        BY <1>1, <1>2
      <4>3. IsFiniteSet(0 .. w - 1)
        BY <4>2, FS_Interval
      <4>4. QED
        BY <4>1, <4>3, FS_Subset
    <3> HIDE DEF P
    <3>2. \E x : P = {x}
      BY <2>5, <3>1, FS_Singleton
    <3>3. forecast[f] = k /\ f \in DOMAIN forecast
      BY <2>2, <2>5, <3>2
    <3>4. QED
      BY <2>4, <2>5, <3>3
  <2>6. f \in Predictive!get_critical_frames => Predictive!should_prefetch(f)
    BY DEF Predictive!get_critical_frames, Predictive!should_prefetch
  <2> HIDE DEF P
  <2>7. Predictive!should_prefetch(f) => \E k \in P : k <= 2
    BY <2>2, <2>4
  <2>8. QED
    BY <2>5, <2>6, <2>7 DEF P
<1>5. \A f : PlacesOf(f) = {k \in Predictive!InWindow : Predictive!Ago(k) = f}
  OBVIOUS
<1>6. \A S : Predictive!Cardinality(S) = Cardinality(S)
  BY DEF Predictive!Cardinality, Cardinality
<1> HIDE DEF PlacesOf
<1>7. QED
  BY <1>4, <1>5, <1>6 DEF Predictive!RecentWorthPrefetching

-----------------------------------------------------------------------------
(***************************************************************************)
(* The feedback loop: what is held is in the order it came, and all that is *)
(* neither cleared nor older than the last max_history.                    *)
(***************************************************************************)
LEMMA FeedbackSteps == [Next]_vars => Feedback!Next \/ UNCHANGED feedbackVars
BY DEF Next, Others, feedbackVars, vars

IsSequence(s) == \E S : s \in Seq(S)

Ids(q) == {q[k].id : k \in 1 .. Len(q)}

Fed == [error : Nat, timestamp : Int]

(* q holds of what was fed, s, all that is young enough and not in `a`. *)
Holds(q, s, a) ==
    /\ IsSequence(q) /\ Len(q) <= max_history
    /\ s \in Seq(Fed) /\ a \subseteq 1 .. Len(s)
    /\ \A k \in 1 .. Len(q) : /\ q[k].id \in 1 .. Len(s)
                              /\ q[k].error = s[q[k].id].error
                              /\ q[k].timestamp = s[q[k].id].timestamp
    /\ \A j, k \in 1 .. Len(q) : j < k => q[j].id < q[k].id
    /\ Ids(q) \cap a = {}
    /\ \A k \in 1 .. Len(s) : k \notin a /\ k > Len(s) - max_history => k \in Ids(q)

(* An element more, and the first one out when there are too many. *)
LEMMA PushedIs ==
    ASSUME Feedback!FeedbackAssumption, NEW q, IsSequence(q), Len(q) <= max_history, NEW x
    PROVE  LET t == Feedback!Pushed(q, x)
               out == IF Len(q) = max_history THEN 1 ELSE 0
           IN  /\ IsSequence(t) /\ Len(t) <= max_history /\ Len(q) \in Nat
               /\ Len(t) + out = Len(q) + 1
               /\ \A k \in 1 .. Len(t) :
                     t[k] = IF k + out = Len(q) + 1 THEN x ELSE q[k + out]
<1>1. PICK S : q \in Seq(S)
  BY DEF IsSequence
<1> DEFINE m == Len(q)
           longer == Append(q, x)
           t == Feedback!Pushed(q, x)
<1>2. m \in Nat /\ max_history \in Nat /\ m <= max_history
  BY <1>1 DEF Feedback!FeedbackAssumption
<1>3. q \in Seq(S \cup {x}) /\ x \in S \cup {x}
  BY <1>1
<1>4. longer \in Seq(S \cup {x}) /\ Len(longer) = m + 1
      /\ longer[m + 1] = x /\ \A k \in 1 .. m : longer[k] = q[k]
  BY <1>3
<1>5. t = IF Len(longer) > max_history THEN Tail(longer) ELSE longer
  BY DEF Feedback!Pushed
<1> HIDE DEF t, longer, m
<1>6. CASE m = max_history
  <2> DEFINE r == Tail(longer)
  <2>1. r \in Seq(S \cup {x}) /\ Len(r) = m /\ \A k \in 1 .. m : r[k] = longer[k + 1]
    BY <1>2, <1>4
  <2> HIDE DEF r
  <2>2. t = r
    BY <1>2, <1>4, <1>5, <1>6 DEF r
  <2>3. \A k \in 1 .. m : r[k] = IF k + 1 = m + 1 THEN x ELSE q[k + 1]
    BY <1>2, <1>4, <2>1
  <2>4. IsSequence(r)
    BY <2>1 DEF IsSequence
  <2>5. QED
    BY <1>2, <1>6, <2>1, <2>2, <2>3, <2>4 DEF t, m
<1>7. CASE m # max_history
  <2>1. t = longer
    BY <1>2, <1>4, <1>5, <1>7
  <2>2. \A k \in 1 .. m + 1 : longer[k] = IF k + 0 = m + 1 THEN x ELSE q[k + 0]
    BY <1>2, <1>4
  <2>3. IsSequence(longer)
    BY <1>4 DEF IsSequence
  <2>4. QED
    BY <1>2, <1>4, <1>7, <2>1, <2>2, <2>3 DEF t, m
<1>8. QED
  BY <1>6, <1>7

(* Numbers that grow, grow by one at least. *)
LEMMA AscendingSpread ==
    ASSUME NEW n \in Nat \ {0}, NEW f, \A k \in 1 .. n : f[k] \in Nat,
           \A j, k \in 1 .. n : j < k => f[j] < f[k]
    PROVE  f[1] + (n - 1) <= f[n]
<1> DEFINE Bad == {m \in 1 .. n : ~(f[1] + (m - 1) <= f[m])}
<1>1. Bad = {}
  <2> SUFFICES ASSUME Bad # {} PROVE FALSE
    OBVIOUS
  <2>1. PICK m \in Bad : \A k \in Bad : m <= k
    <3>1. Bad \in SUBSET Nat
      OBVIOUS
    <3> HIDE DEF Bad
    <3> QED BY <3>1, LeastElement
  <2>2. m \in 1 .. n /\ ~(f[1] + (m - 1) <= f[m])
    BY <2>1
  <2>3. m # 1
    BY <2>2
  <2>4. m - 1 \in 1 .. n /\ m - 1 < m /\ ~(m <= m - 1)
    BY <2>2, <2>3
  <2>5. f[1] + ((m - 1) - 1) <= f[m - 1]
    BY <2>1, <2>4
  <2>6. f[m - 1] < f[m] /\ f[m] \in Nat /\ f[m - 1] \in Nat /\ f[1] \in Nat
    BY <2>2, <2>4
  <2>7. QED
    BY <2>2, <2>5, <2>6
<1>2. n \in 1 .. n /\ n \notin Bad
  BY <1>1
<1>3. QED
  BY <1>2

LEMMA PushedHolds ==
    ASSUME Feedback!FeedbackAssumption, NEW q, NEW s, NEW a, Holds(q, s, a),
           NEW x, NEW e \in Fed, x.id = Len(s) + 1, x.error = e.error, x.timestamp = e.timestamp
    PROVE  Holds(Feedback!Pushed(q, x), Append(s, e), a)
<1> DEFINE n == Len(s)
           m == Len(q)
           t == Feedback!Pushed(q, x)
           more == Append(s, e)
           out == IF m = max_history THEN 1 ELSE 0
           b == Len(t)
<1>1. IsSequence(q) /\ m <= max_history /\ s \in Seq(Fed) /\ a \subseteq 1 .. n
  BY DEF Holds
<1>2. /\ IsSequence(t) /\ b <= max_history /\ m \in Nat /\ b + out = m + 1
      /\ \A k \in 1 .. b : t[k] = IF k + out = m + 1 THEN x ELSE q[k + out]
  BY <1>1, PushedIs
<1>3. /\ n \in Nat /\ more \in Seq(Fed) /\ Len(more) = n + 1 /\ more[n + 1] = e
      /\ \A k \in 1 .. n : more[k] = s[k]
  BY <1>1
<1>4. max_history \in Nat
  BY DEF Feedback!FeedbackAssumption
<1>5. /\ \A k \in 1 .. m : /\ q[k].id \in 1 .. n
                           /\ q[k].error = s[q[k].id].error
                           /\ q[k].timestamp = s[q[k].id].timestamp
      /\ \A j, k \in 1 .. m : j < k => q[j].id < q[k].id
      /\ Ids(q) \cap a = {}
      /\ \A k \in 1 .. n : k \notin a /\ k > n - max_history => k \in Ids(q)
  BY DEF Holds
<1>6. x.id = n + 1
  OBVIOUS
<1>7. Ids(q) = {q[k].id : k \in 1 .. m} /\ Ids(t) = {t[k].id : k \in 1 .. b}
  BY DEF Ids
<1>8. out \in {0, 1} /\ b \in Nat
  <2>1. out \in {0, 1}
    OBVIOUS
  <2>2. \E S : t \in Seq(S)
    BY <1>2 DEF IsSequence
  <2>3. QED
    BY <2>1, <2>2
<1>9. out = 1 => m = max_history
  OBVIOUS
<1> HIDE DEF n, m, t, more, out, b
<1>10. \A k \in 1 .. b : k + out = m + 1 \/ k + out \in 1 .. m
  BY <1>2, <1>8
<1>11. ASSUME NEW k \in 1 .. b
       PROVE  /\ t[k].id \in 1 .. n + 1 /\ t[k].error = more[t[k].id].error
              /\ t[k].timestamp = more[t[k].id].timestamp
  <2>1. CASE k + out = m + 1
    <3>1. t[k] = x
      BY <1>2, <2>1
    <3>2. QED
      BY <1>3, <1>6, <3>1
  <2>2. CASE k + out # m + 1
    <3>1. t[k] = q[k + out] /\ k + out \in 1 .. m
      BY <1>2, <1>10, <2>2
    <3>2. q[k + out].id \in 1 .. n
      BY <1>5, <3>1
    <3>3. QED
      BY <1>3, <1>5, <3>1, <3>2
  <2>3. QED
    BY <2>1, <2>2
<1>12. ASSUME NEW j \in 1 .. b, NEW k \in 1 .. b, j < k PROVE t[j].id < t[k].id
  <2>1. j + out # m + 1 /\ j + out \in 1 .. m /\ j + out < k + out
    BY <1>2, <1>8, <1>10, <1>12
  <2>2. t[j] = q[j + out] /\ q[j + out].id \in 1 .. n
    BY <1>2, <1>5, <2>1
  <2>3. CASE k + out = m + 1
    BY <1>2, <1>3, <1>6, <2>2, <2>3
  <2>4. CASE k + out # m + 1
    <3>1. t[k] = q[k + out] /\ k + out \in 1 .. m
      BY <1>2, <1>10, <2>4
    <3>2. QED
      BY <1>5, <2>1, <2>2, <3>1
  <2>5. QED
    BY <2>3, <2>4
<1>13. Ids(t) \cap a = {}
  <2>1. SUFFICES ASSUME NEW k \in 1 .. b, t[k].id \in a PROVE FALSE
    BY <1>7
  <2>2. CASE k + out = m + 1
    BY <1>1, <1>2, <1>3, <1>6, <2>1, <2>2
  <2>3. CASE k + out # m + 1
    <3>1. t[k] = q[k + out] /\ k + out \in 1 .. m
      BY <1>2, <1>10, <2>3
    <3>2. QED
      BY <1>5, <1>7, <2>1, <3>1
  <2>4. QED
    BY <2>2, <2>3
<1>14. ASSUME NEW k \in 1 .. n + 1, k \notin a, k > (n + 1) - max_history
       PROVE  k \in Ids(t)
  <2>1. CASE k = n + 1
    <3>1. max_history >= 1 /\ b >= 1
      BY <1>2, <1>3, <1>4, <1>8, <1>9, <1>14, <2>1
    <3>2. b \in 1 .. b /\ b + out = m + 1
      BY <1>2, <1>8, <3>1
    <3>3. t[b].id = k
      BY <1>2, <1>6, <2>1, <3>2
    <3>4. QED
      BY <1>7, <3>2, <3>3
  <2>2. CASE k # n + 1
    <3>1. k \in 1 .. n /\ k > n - max_history
      BY <1>3, <1>4, <1>14, <2>2
    <3>2. PICK j \in 1 .. m : q[j].id = k
      BY <1>5, <1>7, <1>14, <3>1
    <3>3. j - out \in 1 .. b
      <4>1. CASE out = 0
        BY <1>2, <1>8, <4>1
      <4>2. CASE out = 1
        <5>1. m = max_history /\ b = m
          BY <1>2, <1>8, <1>9, <4>2
        <5>2. SUFFICES ASSUME j = 1 PROVE FALSE
          BY <1>2, <4>2, <5>1
        <5> DEFINE f == [i \in 1 .. m |-> q[i].id]
        <5>3. /\ \A i \in 1 .. m : f[i] \in Nat
              /\ \A h, i \in 1 .. m : h < i => f[h] < f[i]
          <6>1. \A i \in 1 .. m : q[i].id \in 1 .. n
            BY <1>5
          <6>2. \A i \in 1 .. m : q[i].id \in Nat
            BY <1>3, <6>1
          <6>3. QED
            BY <1>5, <6>2
        <5>4. m \in Nat \ {0} /\ m \in 1 .. m /\ 1 \in 1 .. m
          BY <1>2
        <5>5. f[1] = k /\ f[m] = q[m].id /\ q[m].id \in 1 .. n
          BY <1>5, <3>2, <5>2, <5>4
        <5> HIDE DEF f
        <5>6. f[1] + (m - 1) <= f[m]
          BY <5>3, <5>4, AscendingSpread
        <5>7. QED
          BY <1>3, <1>4, <1>14, <5>1, <5>5, <5>6
      <4>3. QED
        BY <1>8, <4>1, <4>2
    <3>4. (j - out) + out = j /\ j # m + 1
      BY <1>2, <1>8
    <3>5. t[j - out] = q[j]
      BY <1>2, <3>3, <3>4
    <3>6. QED
      BY <1>7, <3>2, <3>3, <3>5
  <2>3. QED
    BY <2>1, <2>2
<1>15. a \subseteq 1 .. n + 1
  BY <1>1, <1>3
<1>16. QED
  BY <1>2, <1>3, <1>11, <1>12, <1>13, <1>14, <1>15 DEF Holds, b, more, t

(* The loop of retain: the elements at the positions `at`. *)
LEMMA RetainedPicks ==
    ASSUME NEW S, NEW s \in Seq(S), NEW at
    PROVE  /\ Feedback!Retained(s, at) \in Seq(S)
           /\ \E p : Picks(p, Feedback!Retained(s, at), s, at, Len(s))
<1> DEFINE n == Len(s)
           Loop(f) == f = [k \in 0 .. n |->
                             IF k = 0 THEN <<>>
                             ELSE IF k \in at THEN Append(f[k - 1], s[k]) ELSE f[k - 1]]
           kept == CHOOSE f : Loop(f)
<1>1. n \in Nat
  OBVIOUS
<1>2. \A f : Kept(f, s, at, n) <=> Loop(f)
  BY DEF Kept
<1>3. \E f : Loop(f)
  <2> HIDE DEF Loop, n
  <2> QED BY <1>1, <1>2, KeptExists
<1>4. Loop(kept)
  <2> HIDE DEF Loop
  <2> QED BY <1>3
<1>5. Feedback!Retained(s, at) = kept[n]
  BY DEF Feedback!Retained
<1> HIDE DEF Loop, kept
<1>6. Kept(kept, s, at, n)
  BY <1>2, <1>4
<1>7. QED
  BY <1>5, <1>6, KeptPicks

(* What is young stays, in its order. *)
LEMMA RetainedShorter ==
    ASSUME NEW q, IsSequence(q), NEW at
    PROVE  LET t == Feedback!Retained(q, at)
           IN  IsSequence(t) /\ Len(t) <= Len(q) /\ Len(t) \in Nat
<1>1. PICK S : q \in Seq(S)
  BY DEF IsSequence
<1> DEFINE t == Feedback!Retained(q, at)
           n == Len(q)
           m == Len(t)
<1>2. t \in Seq(S) /\ \E p : Picks(p, t, q, at, n)
  BY <1>1, RetainedPicks
<1>3. PICK p : Picks(p, t, q, at, n)
  BY <1>2
<1>4. n \in Nat /\ m \in Nat
  BY <1>1, <1>2
<1>5. IsSequence(t)
  BY <1>2 DEF IsSequence
<1>6. p \in [1 .. m -> 1 .. n] /\ \A j, k \in 1 .. m : j < k => p[j] < p[k]
  BY <1>3 DEF Picks
<1> HIDE DEF t, m, n
<1>7. m <= n
  <2>1. CASE m = 0
    BY <1>4, <2>1
  <2>2. CASE m # 0
    <3>1. m \in Nat \ {0} /\ \A k \in 1 .. m : p[k] \in Nat
      BY <1>4, <1>6, <2>2
    <3>2. p[1] + (m - 1) <= p[m]
      BY <1>6, <3>1, AscendingSpread
    <3>3. p[1] \in 1 .. n /\ p[m] \in 1 .. n
      BY <1>6, <3>1
    <3>4. QED
      BY <1>4, <3>2, <3>3
  <2>3. QED
    BY <2>1, <2>2
<1>8. QED
  BY <1>4, <1>5, <1>7 DEF t, m, n

LEMMA ClearedHolds ==
    ASSUME Feedback!FeedbackAssumption, NEW q, NEW s, NEW a, Holds(q, s, a), now \in Nat, NEW max_age \in Nat
    PROVE  Holds(Feedback!Retained(q, {k \in DOMAIN q : Feedback!Young(q[k], max_age)}), s,
                 a \cup {k \in DOMAIN s : ~(s[k].timestamp \in now - max_age + 1 .. now)})
<1> DEFINE young == {k \in DOMAIN q : Feedback!Young(q[k], max_age)}
           old == {k \in DOMAIN s : ~(s[k].timestamp \in now - max_age + 1 .. now)}
           t == Feedback!Retained(q, young)
           n == Len(s)
           m == Len(q)
           b == Len(t)
<1>1. PICK S : q \in Seq(S)
  BY DEF Holds, IsSequence
<1>2. t \in Seq(S) /\ \E p : Picks(p, t, q, young, m)
  <2> HIDE DEF young
  <2> QED BY <1>1, RetainedPicks
<1>3. PICK p : Picks(p, t, q, young, m)
  BY <1>2
<1>4. IsSequence(t) /\ b <= m /\ b \in Nat /\ m \in Nat
  <2>1. IsSequence(q) /\ m \in Nat
    BY <1>1 DEF IsSequence
  <2> HIDE DEF young
  <2>2. QED
    BY <2>1, RetainedShorter
<1>5. /\ s \in Seq(Fed) /\ a \subseteq 1 .. n /\ m <= max_history
      /\ \A k \in 1 .. m : /\ q[k].id \in 1 .. n
                           /\ q[k].error = s[q[k].id].error
                           /\ q[k].timestamp = s[q[k].id].timestamp
      /\ \A j, k \in 1 .. m : j < k => q[j].id < q[k].id
      /\ Ids(q) \cap a = {}
      /\ \A k \in 1 .. n : k \notin a /\ k > n - max_history => k \in Ids(q)
  BY DEF Holds
<1>6. /\ p \in [1 .. b -> 1 .. m]
      /\ \A j \in 1 .. b : p[j] \in young /\ t[j] = q[p[j]]
      /\ \A j, k \in 1 .. b : j < k => p[j] < p[k]
      /\ \A k \in 1 .. m : k \in young => \E j \in 1 .. b : p[j] = k
  BY <1>3 DEF Picks
<1>7. DOMAIN q = 1 .. m /\ DOMAIN s = 1 .. n /\ n \in Nat /\ \A k \in 1 .. n : s[k] \in Fed
  BY <1>1, <1>5
<1>8. ASSUME NEW k \in 1 .. m PROVE k \in young <=> q[k].id \notin old
  <2>1. q[k].id \in 1 .. n /\ q[k].timestamp = s[q[k].id].timestamp
    BY <1>5
  <2>2. q[k].timestamp \in Int
    <3>1. s[q[k].id].timestamp \in Int
      BY <1>7, <2>1 DEF Fed
    <3>2. QED
      BY <2>1, <3>1
  <2>3. k \in young <=> q[k].timestamp <= now /\ now - q[k].timestamp < max_age
    BY <1>7 DEF Feedback!Young
  <2>4. q[k].id \in old <=> ~(q[k].timestamp \in now - max_age + 1 .. now)
    BY <1>7, <2>1
  <2> HIDE DEF young, old
  <2>5. QED
    BY <2>2, <2>3, <2>4
<1>9. old \subseteq 1 .. n
  BY <1>7
<1>10. Ids(q) = {q[k].id : k \in 1 .. m} /\ Ids(t) = {t[k].id : k \in 1 .. b}
  BY DEF Ids
<1> HIDE DEF young, old, t, n, m, b
<1>11. \A j \in 1 .. b : p[j] \in 1 .. m /\ p[j] \in young /\ t[j] = q[p[j]]
  BY <1>6
<1>12. \A k \in 1 .. b : /\ t[k].id \in 1 .. n /\ t[k].error = s[t[k].id].error
                         /\ t[k].timestamp = s[t[k].id].timestamp
  BY <1>5, <1>11
<1>13. \A j, k \in 1 .. b : j < k => t[j].id < t[k].id
  <2> SUFFICES ASSUME NEW j \in 1 .. b, NEW k \in 1 .. b, j < k PROVE t[j].id < t[k].id
    OBVIOUS
  <2>1. p[j] < p[k] /\ p[j] \in 1 .. m /\ p[k] \in 1 .. m
    BY <1>6, <1>11
  <2>2. QED
    BY <1>5, <1>11, <2>1
<1>14. Ids(t) \cap (a \cup old) = {}
  <2>1. SUFFICES ASSUME NEW k \in 1 .. b, t[k].id \in a \cup old PROVE FALSE
    BY <1>10
  <2>2. p[k] \in 1 .. m /\ p[k] \in young /\ t[k] = q[p[k]]
    BY <1>11
  <2>3. q[p[k]].id \in Ids(q) /\ q[p[k]].id \notin old
    BY <1>8, <1>10, <2>2
  <2>4. QED
    BY <1>5, <2>1, <2>2, <2>3
<1>15. ASSUME NEW k \in 1 .. n, k \notin a \cup old, k > n - max_history PROVE k \in Ids(t)
  <2>1. PICK i \in 1 .. m : q[i].id = k
    BY <1>5, <1>10, <1>15
  <2>2. i \in young
    BY <1>8, <1>15, <2>1
  <2>3. PICK j \in 1 .. b : p[j] = i
    BY <1>6, <2>2
  <2>4. QED
    BY <1>10, <1>11, <2>1, <2>3
<1>16. b <= max_history
  <2>1. max_history \in Nat
    BY DEF Feedback!FeedbackAssumption
  <2>2. QED
    BY <1>4, <1>5, <2>1
<1>17. QED
  BY <1>4, <1>5, <1>9, <1>12, <1>13, <1>14, <1>15, <1>16 DEF Holds, b, n, t, old, young

(* A call that may trigger, its grounds and what it raised. *)
Grounded(a) ==
    /\ a.threshold \in Nat /\ a.grounds \in Seq(Nat)
    /\ a.raised = Feedback!Urgency(a.grounds, a.threshold)

(* The triggers t are those added by hand, h, and those the calls a raised. *)
RaisedBy(c) == IF c.raised = <<>> THEN {} ELSE {[model |-> c.model, priority |-> c.raised[1]]}

Calls(h, a) ==
    h \cup {[model |-> a[k].model, priority |-> a[k].raised[1]] :
              k \in {j \in 1 .. Len(a) : a[j].raised # <<>>}}

Raised(t, h, a) == {t[k] : k \in 1 .. Len(t)} = Calls(h, a)

FeedbackInv ==
    /\ now \in Nat
    /\ IsSequence(decision_outcomes) /\ Len(decision_outcomes) <= max_history
    /\ Holds(prediction_feedback, fed, aged)
    /\ IsSequence(asked) /\ \A k \in 1 .. Len(asked) : Grounded(asked[k])
    /\ retraining_triggers \in Seq([model : ModelIds, priority : Urgencies])
    /\ Raised(retraining_triggers, added, asked)

LEMMA FeedbackInit == ASSUME Feedback!Init, Feedback!FeedbackAssumption PROVE FeedbackInv
<1>1. /\ decision_outcomes = <<>> /\ prediction_feedback = <<>> /\ fed = <<>> /\ aged = {}
      /\ asked = <<>> /\ added = {} /\ retraining_triggers = <<>> /\ now = 1
  BY DEF Feedback!Init
<1>2. IsSequence(<<>>)
  BY DEF IsSequence
<1>3. max_history \in Nat
  BY DEF Feedback!FeedbackAssumption
<1>4. Holds(<<>>, <<>>, {})
  <2>1. <<>> \in Seq(Fed) /\ Ids(<<>>) \cap {} = {} /\ {} \subseteq 1 .. Len(<<>>)
    OBVIOUS
  <2>2. QED
    BY <1>2, <1>3, <2>1 DEF Holds
<1>5. <<>> \in Seq([model : ModelIds, priority : Urgencies])
  OBVIOUS
<1>6. Raised(<<>>, {}, <<>>)
  BY DEF Raised, Calls
<1>7. QED
  BY <1>1, <1>2, <1>3, <1>4, <1>5, <1>6 DEF FeedbackInv

(* The errors averaged are those the newest records were fed with. *)
LEMMA ErrorsAreGrounds ==
    ASSUME Feedback!FeedbackAssumption, FeedbackInv
    PROVE  Feedback!RecentErrors = Feedback!Grounds /\ Feedback!Grounds \in Seq(Nat)
<1> DEFINE q == prediction_feedback
           m == Len(q)
           r == Feedback!Newest(q, Recent)
<1>1. PICK S : q \in Seq(S)
  BY DEF FeedbackInv, Holds, IsSequence
<1>2. fed \in Seq(Fed) /\ \A k \in 1 .. m : q[k].id \in 1 .. Len(fed)
                                            /\ q[k].error = fed[q[k].id].error
  BY DEF FeedbackInv, Holds
<1>3. \A k \in 1 .. Len(fed) : fed[k].error \in Nat
  <2>1. \A k \in 1 .. Len(fed) : fed[k] \in Fed
    BY <1>2
  <2>2. QED
    BY <2>1 DEF Fed
<1>4. m \in Nat /\ Recent \in Nat \ {0}
  BY <1>1 DEF Feedback!FeedbackAssumption
<1>5. r \in Seq(S) /\ \A k \in DOMAIN r : \E j \in 1 .. m : r[k] = q[j]
  <2>1. r = IF m <= Recent THEN q ELSE SubSeq(q, (m - Recent) + 1, m)
    BY <1>4 DEF Feedback!Newest
  <2> HIDE DEF r
  <2>2. CASE m <= Recent
    BY <1>1, <2>1, <2>2
  <2>3. CASE ~(m <= Recent)
    <3> DEFINE from == (m - Recent) + 1
    <3>1. from \in 1 .. m
      BY <1>4, <2>3
    <3> DEFINE part == SubSeq(q, from, m)
    <3>2. r = part
      BY <2>1, <2>3
    <3> HIDE DEF from
    <3>3. /\ part = [k \in 1 .. (m - from) + 1 |-> q[(from + k) - 1]]
          /\ \A k \in 1 .. (m - from) + 1 : (from + k) - 1 \in 1 .. m
      BY <1>1, <1>4, <3>1
    <3> HIDE DEF part, q, m
    <3>4. DOMAIN part = 1 .. (m - from) + 1 /\ (m - from) + 1 \in Nat
      BY <1>4, <3>1, <3>3
    <3>5. \A k \in DOMAIN part : \E j \in 1 .. m : part[k] = q[j]
      BY <3>3, <3>4
    <3>6. \A j \in 1 .. m : q[j] \in S
      BY <1>1 DEF m
    <3>7. part \in [1 .. (m - from) + 1 -> S]
      BY <3>3, <3>4, <3>5, <3>6
    <3>8. part \in Seq(S)
      BY <3>4, <3>7
    <3>9. QED
      BY <3>2, <3>5, <3>8
  <2>4. QED
    BY <2>2, <2>3
<1>6. /\ Feedback!RecentErrors = [k \in DOMAIN r |-> r[k].error]
      /\ Feedback!Grounds = [k \in DOMAIN r |-> fed[r[k].id].error]
  BY DEF Feedback!RecentErrors, Feedback!Grounds
<1> HIDE DEF r, q, m
<1>7. \A k \in DOMAIN r : r[k].error = fed[r[k].id].error /\ fed[r[k].id].error \in Nat
  <2> TAKE k \in DOMAIN r
  <2>1. PICK j \in 1 .. m : r[k] = q[j]
    BY <1>5
  <2>2. QED
    BY <1>2, <1>3, <2>1 DEF m, q
<1>8. Feedback!RecentErrors = Feedback!Grounds
  BY <1>6, <1>7
<1>9. DOMAIN r = 1 .. Len(r) /\ Len(r) \in Nat
  BY <1>5
<1>10. Feedback!Grounds \in [1 .. Len(r) -> Nat]
  BY <1>6, <1>7, <1>9
<1>11. Feedback!Grounds \in Seq(Nat)
  BY <1>9, <1>10
<1>12. QED
  BY <1>8, <1>11

(* What an urgency says of the sum of the errors. *)
LEMMA UrgencyIs ==
    ASSUME NEW errors \in Seq(Nat), NEW threshold \in Nat
    PROVE  LET raised == Feedback!Urgency(errors, threshold)
               total == Feedback!Sum(errors)
               Over(num, den) == den * total > num * threshold * Len(errors)
           IN  /\ raised # <<>> <=> Over(1, 1)
               /\ raised = <<"Critical">> <=> Over(2, 1)
               /\ raised = <<"Medium">> <=> Over(1, 1) /\ ~Over(3, 2)
               /\ raised \in {<<>>, <<"Medium">>, <<"High">>, <<"Critical">>}
<1> DEFINE total == Feedback!Sum(errors)
           n == Len(errors)
           bar == threshold * n
<1>1. total \in Nat
  BY SumsOfNaturals DEF Feedback!Sum
<1>2. n \in Nat
  OBVIOUS
<1>3. Feedback!Urgency(errors, threshold) =
        IF total <= bar THEN <<>>
        ELSE IF total > 2 * bar THEN <<"Critical">>
        ELSE IF 2 * total > 3 * bar THEN <<"High">> ELSE <<"Medium">>
  BY DEF Feedback!Urgency
<1> HIDE DEF total, n
<1>4. bar \in Nat /\ 1 * threshold * n = bar /\ 2 * threshold * n = 2 * bar /\ 3 * threshold * n = 3 * bar
  BY <1>2
<1> HIDE DEF bar
<1>5. <<"Critical">> # <<"High">> /\ <<"Critical">> # <<"Medium">> /\ <<"High">> # <<"Medium">>
      /\ <<"Critical">> # <<>> /\ <<"High">> # <<>> /\ <<"Medium">> # <<>>
  OBVIOUS
<1> DEFINE raised == Feedback!Urgency(errors, threshold)
<1>6. raised = IF total <= bar THEN <<>>
               ELSE IF total > 2 * bar THEN <<"Critical">>
               ELSE IF 2 * total > 3 * bar THEN <<"High">> ELSE <<"Medium">>
  BY <1>3
<1> HIDE DEF raised
<1>7. /\ raised # <<>> <=> total > bar
      /\ raised = <<"Critical">> <=> total > 2 * bar
      /\ raised = <<"Medium">> <=> total > bar /\ ~(2 * total > 3 * bar)
      /\ raised \in {<<>>, <<"Medium">>, <<"High">>, <<"Critical">>}
  BY <1>1, <1>4, <1>5, <1>6
<1>8. 1 * total = total
  BY <1>1
<1>9. QED
  BY <1>4, <1>7, <1>8 DEF raised, total, n

(* A call adds the trigger it raised, if any, to those called for. *)
LEMMA TriggersGrow ==
    ASSUME NEW s, NEW t, NEW h, NEW a,
           NEW more \in Seq([model : ModelIds, priority : Urgencies]),
           t \in Seq([model : ModelIds, priority : Urgencies]),
           IsSequence(a), Raised(t, h, a),
           {more[k] : k \in 1 .. Len(more)} = RaisedBy(s)
    PROVE  LET b == Append(a, s)
           IN  /\ t \o more \in Seq([model : ModelIds, priority : Urgencies])
               /\ IsSequence(b) /\ Len(b) = Len(a) + 1 /\ b[Len(b)] = s /\ Len(a) \in Nat
               /\ \A j \in 1 .. Len(a) : b[j] = a[j]
               /\ Raised(t \o more, h, b)
<1> DEFINE R == [model : ModelIds, priority : Urgencies]
           n == Len(a)
           m == Len(t)
           l == Len(more)
           all == t \o more
           b == Append(a, s)
<1>1. PICK S : a \in Seq(S)
  BY DEF IsSequence
<1>2. a \in Seq(S \cup {s}) /\ s \in S \cup {s}
  BY <1>1
<1>3. /\ b \in Seq(S \cup {s}) /\ Len(b) = n + 1 /\ b[n + 1] = s /\ n \in Nat
      /\ \A j \in 1 .. n : b[j] = a[j]
  BY <1>2
<1>4. IsSequence(b)
  BY <1>3 DEF IsSequence
<1> HIDE DEF R
<1>5. t \in Seq(R) /\ more \in Seq(R)
  BY DEF R
<1>6. /\ all \in Seq(R) /\ Len(all) = m + l /\ m \in Nat /\ l \in Nat
      /\ \A k \in 1 .. m + l : all[k] = IF k <= m THEN t[k] ELSE more[k - m]
  BY <1>5
<1> HIDE DEF all, n, m, l, b
<1>7. {all[k] : k \in 1 .. m + l} = {t[k] : k \in 1 .. m} \cup {more[k] : k \in 1 .. l}
  <2>1. ASSUME NEW k \in 1 .. m + l
        PROVE  all[k] \in {t[j] : j \in 1 .. m} \cup {more[j] : j \in 1 .. l}
    <3>1. CASE k <= m
      BY <1>6, <3>1
    <3>2. CASE ~(k <= m)
      <4>1. k - m \in 1 .. l /\ all[k] = more[k - m]
        BY <1>6, <3>2
      <4>2. QED
        BY <4>1
    <3>3. QED
      BY <3>1, <3>2
  <2>2. ASSUME NEW k \in 1 .. m PROVE t[k] \in {all[j] : j \in 1 .. m + l}
    <3>1. k \in 1 .. m + l /\ all[k] = t[k]
      BY <1>6
    <3>2. QED
      BY <3>1
  <2>3. ASSUME NEW k \in 1 .. l PROVE more[k] \in {all[j] : j \in 1 .. m + l}
    <3>1. m + k \in 1 .. m + l /\ ~(m + k <= m) /\ (m + k) - m = k
      BY <1>6
    <3>2. all[m + k] = more[(m + k) - m]
      BY <1>6, <3>1
    <3>3. QED
      BY <3>1, <3>2
  <2>4. QED
    BY <2>1, <2>2, <2>3
<1>8. Calls(h, b) = Calls(h, a) \cup RaisedBy(s)
  <2> DEFINE One(c) == [model |-> c.model, priority |-> c.raised[1]]
  <2>1. Calls(h, a) = h \cup {One(a[k]) : k \in {j \in 1 .. n : a[j].raised # <<>>}}
    BY DEF Calls, n
  <2>2. Len(b) = n + 1
    BY <1>3
  <2>3. Calls(h, b) = h \cup {One(b[k]) : k \in {j \in 1 .. n + 1 : b[j].raised # <<>>}}
    BY <2>2 DEF Calls
  <2>4. RaisedBy(s) = IF s.raised = <<>> THEN {} ELSE {One(s)}
    BY DEF RaisedBy
  <2> HIDE DEF One
  <2>5. 1 .. n + 1 = (1 .. n) \cup {n + 1} /\ b[n + 1] = s /\ \A j \in 1 .. n : b[j] = a[j]
    BY <1>3
  <2>6. {One(b[k]) : k \in {j \in 1 .. n + 1 : b[j].raised # <<>>}}
          = {One(a[k]) : k \in {j \in 1 .. n : a[j].raised # <<>>}}
            \cup (IF s.raised = <<>> THEN {} ELSE {One(s)})
    BY <2>5
  <2>7. QED
    BY <2>1, <2>3, <2>4, <2>6
<1>9. {all[k] : k \in 1 .. Len(all)} = Calls(h, b)
  BY <1>6, <1>7, <1>8 DEF Raised, m, l
<1>10. QED
  BY <1>3, <1>4, <1>6, <1>9 DEF all, n, R, b, Raised

LEMMA FeedbackNext ==
    ASSUME Feedback!FeedbackAssumption, FeedbackInv, Feedback!Next \/ UNCHANGED feedbackVars
    PROVE  FeedbackInv'
<1>1. CASE UNCHANGED feedbackVars
  BY <1>1 DEF feedbackVars, FeedbackInv, Holds, IsSequence, Ids, Raised, Grounded
<1>2. ASSUME NEW success \in BOOLEAN, Feedback!record_decision_outcome(success)
      PROVE  FeedbackInv'
  <2>1. /\ decision_outcomes' =
             Feedback!Pushed(decision_outcomes, [success |-> success, timestamp |-> now])
        /\ UNCHANGED <<prediction_feedback, retraining_triggers, now, added, fed, aged, asked>>
    BY <1>2 DEF Feedback!record_decision_outcome
  <2>2. IsSequence(decision_outcomes) /\ Len(decision_outcomes) <= max_history
    BY DEF FeedbackInv
  <2>3. (IsSequence(decision_outcomes) /\ Len(decision_outcomes) <= max_history)'
    BY <2>1, <2>2, PushedIs
  <2>4. QED
    BY <2>1, <2>3 DEF FeedbackInv
<1>3. ASSUME NEW f \in Feedbacks, Feedback!record_prediction_feedback(f)
      PROVE  FeedbackInv'
  <2> DEFINE e == [error |-> Feedback!Abs(f.predicted - f.actual), timestamp |-> now - f.age]
             x == [predicted |-> f.predicted, actual |-> f.actual, sure |-> f.sure,
                   error |-> Feedback!Abs(f.predicted - f.actual), timestamp |-> now - f.age,
                   id |-> Len(fed) + 1]
  <2>1. /\ prediction_feedback' = Feedback!Pushed(prediction_feedback, x) /\ fed' = Append(fed, e)
        /\ UNCHANGED <<decision_outcomes, retraining_triggers, now, added, aged, asked>>
    BY <1>3 DEF Feedback!record_prediction_feedback
  <2>2. e \in Fed
    <3>1. f.predicted \in Int /\ f.actual \in Int /\ f.age \in Int /\ now \in Nat
      BY DEF Feedback!FeedbackAssumption, FeedbackInv
    <3>2. Feedback!Abs(f.predicted - f.actual) \in Nat /\ now - f.age \in Int
      BY <3>1 DEF Feedback!Abs
    <3>3. QED
      BY <3>2 DEF Fed
  <2>3. x.id = Len(fed) + 1 /\ x.error = e.error /\ x.timestamp = e.timestamp
    OBVIOUS
  <2>4. Holds(prediction_feedback, fed, aged)
    BY DEF FeedbackInv
  <2> HIDE DEF e, x
  <2>5. Holds(Feedback!Pushed(prediction_feedback, x), Append(fed, e), aged)
    BY <2>2, <2>3, <2>4, PushedHolds
  <2>6. QED
    BY <2>1, <2>5 DEF FeedbackInv
<1>4. ASSUME NEW n \in MetricNames, NEW v \in Values, Feedback!update_metric(n, v)
      PROVE  FeedbackInv'
  BY <1>4 DEF Feedback!update_metric, FeedbackInv, Holds, IsSequence, Ids, Raised
<1>5. ASSUME NEW m \in ModelIds, NEW threshold \in Thresholds,
             Feedback!trigger_retraining_if_needed(m, threshold)
      PROVE  FeedbackInv'
  <2> DEFINE raised == Feedback!Urgency(Feedback!RecentErrors, threshold)
             more == Feedback!Triggers(m, raised)
             s == [model |-> m, threshold |-> threshold, grounds |-> Feedback!Grounds,
                   raised |-> raised]
  <2>1. /\ retraining_triggers' = retraining_triggers \o more /\ asked' = Append(asked, s)
        /\ UNCHANGED <<decision_outcomes, prediction_feedback, now, added, fed, aged>>
    BY <1>5 DEF Feedback!trigger_retraining_if_needed
  <2>2. threshold \in Nat
    BY DEF Feedback!FeedbackAssumption
  <2>3. Feedback!RecentErrors = Feedback!Grounds /\ Feedback!Grounds \in Seq(Nat)
    BY ErrorsAreGrounds
  <2>4. Grounded(s)
    BY <2>2, <2>3 DEF Grounded
  <2>5. raised \in {<<>>, <<"Medium">>, <<"High">>, <<"Critical">>}
    BY <2>2, <2>3, UrgencyIs
  <2>6. more = [k \in DOMAIN raised |-> [model |-> m, priority |-> raised[k]]]
    BY DEF Feedback!Triggers
  <2>7. s.raised = raised /\ s.model = m
    OBVIOUS
  <2> HIDE DEF raised, more, s
  <2>8. /\ more \in Seq([model : ModelIds, priority : Urgencies])
        /\ {more[k] : k \in 1 .. Len(more)} = RaisedBy(s)
    <3>1. CASE raised = <<>>
      <4>1. more = <<>> /\ RaisedBy(s) = {}
        BY <2>6, <2>7, <3>1 DEF RaisedBy
      <4>2. QED
        BY <4>1
    <3>2. CASE raised # <<>>
      <4>1. PICK u \in Urgencies : raised = <<u>>
        BY <2>5, <3>2 DEF Urgencies
      <4>2. DOMAIN raised = 1 .. 1 /\ raised[1] = u
        BY <4>1
      <4>3. more = [k \in 1 .. 1 |-> [model |-> m, priority |-> u]]
        BY <2>6, <4>2
      <4>4. [model |-> m, priority |-> u] \in [model : ModelIds, priority : Urgencies]
        OBVIOUS
      <4>5. more \in Seq([model : ModelIds, priority : Urgencies]) /\ Len(more) = 1
        BY <4>3, <4>4
      <4>6. RaisedBy(s) = {[model |-> m, priority |-> u]}
        BY <2>7, <3>2, <4>2 DEF RaisedBy
      <4>7. QED
        BY <4>3, <4>5, <4>6
    <3>3. QED
      BY <3>1, <3>2
  <2>9. /\ retraining_triggers \in Seq([model : ModelIds, priority : Urgencies])
        /\ IsSequence(asked) /\ \A k \in 1 .. Len(asked) : Grounded(asked[k])
        /\ Raised(retraining_triggers, added, asked)
    BY DEF FeedbackInv
  <2>10. /\ retraining_triggers' \in Seq([model : ModelIds, priority : Urgencies])
         /\ IsSequence(asked') /\ Len(asked') = Len(asked) + 1 /\ asked'[Len(asked')] = s
         /\ Len(asked) \in Nat /\ \A j \in 1 .. Len(asked) : asked'[j] = asked[j]
         /\ Raised(retraining_triggers', added, asked')
    <3> QED
      <4> DEFINE T == retraining_triggers
                 A == asked
                 H == added
                 B == Append(A, s)
      <4>1. T \in Seq([model : ModelIds, priority : Urgencies]) /\ IsSequence(A)
            /\ Raised(T, H, A)
        BY <2>9
      <4> HIDE DEF T, A, H
      <4>2. /\ T \o more \in Seq([model : ModelIds, priority : Urgencies])
            /\ IsSequence(B) /\ Len(B) = Len(A) + 1 /\ B[Len(B)] = s /\ Len(A) \in Nat
            /\ \A j \in 1 .. Len(A) : B[j] = A[j]
            /\ Raised(T \o more, H, B)
        <5> HIDE DEF B
        <5>1. QED
          BY <2>8, <4>1, TriggersGrow DEF B
      <4>3. retraining_triggers' = T \o more /\ asked' = B
        BY <2>1 DEF T, A
      <4> HIDE DEF B
      <4>4. QED
        BY <4>2, <4>3 DEF A, H
  <2>11. ASSUME NEW k \in 1 .. Len(asked') PROVE Grounded(asked'[k])
    <3>1. k = Len(asked') \/ k \in 1 .. Len(asked)
      BY <2>10
    <3>2. QED
      BY <2>4, <2>9, <2>10, <3>1
  <2>12. IsSequence(asked)' /\ (\A k \in 1 .. Len(asked) : Grounded(asked[k]))'
    BY <2>10, <2>11 DEF IsSequence, Grounded
  <2>13. Raised(retraining_triggers, added, asked)'
    BY <2>1, <2>10 DEF Raised, Calls
  <2>14. (/\ now \in Nat
          /\ IsSequence(decision_outcomes) /\ Len(decision_outcomes) <= max_history
          /\ Holds(prediction_feedback, fed, aged))'
    BY <2>1 DEF FeedbackInv, Holds, IsSequence, Ids
  <2>15. QED
    BY <2>10, <2>12, <2>13, <2>14 DEF FeedbackInv
<1>6. ASSUME NEW m \in ModelIds, NEW p \in Feedback!TriggerPriority,
             Feedback!add_retraining_trigger(m, p)
      PROVE  FeedbackInv'
  <2> DEFINE x == [model |-> m, priority |-> p]
             R == [model : ModelIds, priority : Urgencies]
             t == retraining_triggers
             n == Len(t)
  <2>1. /\ retraining_triggers' = Append(t, x) /\ added' = added \cup {x}
        /\ UNCHANGED <<decision_outcomes, prediction_feedback, now, fed, aged, asked>>
    BY <1>6 DEF Feedback!add_retraining_trigger
  <2>2. x \in R
    BY DEF Urgencies, Feedback!TriggerPriority
  <2>3. t \in Seq(R) /\ Raised(t, added, asked)
    BY DEF FeedbackInv
  <2> HIDE DEF x, R
  <2>4. Append(t, x) \in Seq(R) /\ Len(Append(t, x)) = n + 1 /\ n \in Nat
        /\ Append(t, x)[n + 1] = x /\ \A k \in 1 .. n : Append(t, x)[k] = t[k]
    BY <2>2, <2>3
  <2>5. 1 .. n + 1 = (1 .. n) \cup {n + 1}
    BY <2>4
  <2>6. {Append(t, x)[k] : k \in 1 .. n + 1} = {t[k] : k \in 1 .. n} \cup {x}
    <3> DEFINE q == Append(t, x)
    <3>1. q[n + 1] = x /\ \A k \in 1 .. n : q[k] = t[k]
      BY <2>4
    <3> HIDE DEF q, n
    <3>2. {q[k] : k \in 1 .. n + 1} = {t[k] : k \in 1 .. n} \cup {x}
      BY <2>5, <3>1
    <3>3. QED
      BY <3>2 DEF q
  <2>7. Calls(added \cup {x}, asked) = Calls(added, asked) \cup {x}
    BY DEF Calls
  <2>8. Raised(Append(t, x), added \cup {x}, asked)
    BY <2>3, <2>4, <2>6, <2>7 DEF Raised
  <2>9. (retraining_triggers \in Seq(R) /\ Raised(retraining_triggers, added, asked))'
    BY <2>1, <2>4, <2>8 DEF R, Raised, Calls
  <2>10. QED
    BY <2>1, <2>9 DEF FeedbackInv, R, Holds, IsSequence, Ids
<1>7. ASSUME NEW max_age \in Ages, Feedback!clear_old_data(max_age) PROVE FeedbackInv'
  <2> DEFINE Young(s) == {k \in DOMAIN s : Feedback!Young(s[k], max_age)}
             old == {k \in DOMAIN fed : ~(fed[k].timestamp \in now - max_age + 1 .. now)}
  <2>1. /\ decision_outcomes' = Feedback!Retained(decision_outcomes, Young(decision_outcomes))
        /\ prediction_feedback' = Feedback!Retained(prediction_feedback, Young(prediction_feedback))
        /\ aged' = aged \cup old
        /\ UNCHANGED <<retraining_triggers, now, added, fed, asked>>
    BY <1>7 DEF Feedback!clear_old_data
  <2>2. max_age \in Nat /\ now \in Nat /\ max_history \in Nat
    BY DEF Feedback!FeedbackAssumption, FeedbackInv
  <2>3. Holds(prediction_feedback, fed, aged)
    BY DEF FeedbackInv
  <2>4. Holds(Feedback!Retained(prediction_feedback, Young(prediction_feedback)), fed, aged \cup old)
    BY <2>2, <2>3, ClearedHolds
  <2>5. IsSequence(decision_outcomes) /\ Len(decision_outcomes) <= max_history
    BY DEF FeedbackInv
  <2> HIDE DEF Young, old
  <2>6. LET t == Feedback!Retained(decision_outcomes, Young(decision_outcomes))
        IN  IsSequence(t) /\ Len(t) <= Len(decision_outcomes) /\ Len(t) \in Nat
    BY <2>5, RetainedShorter
  <2>7. Len(decision_outcomes) \in Nat
    BY <2>5 DEF IsSequence
  <2>8. (IsSequence(decision_outcomes) /\ Len(decision_outcomes) <= max_history)'
    BY <2>1, <2>2, <2>5, <2>6, <2>7
  <2>9. QED
    BY <2>1, <2>4, <2>8 DEF FeedbackInv
<1>8. ASSUME Feedback!Tick PROVE FeedbackInv'
  <2>1. now' = now + 1
        /\ UNCHANGED <<decision_outcomes, prediction_feedback, retraining_triggers,
                       added, fed, aged, asked>>
    BY <1>8 DEF Feedback!Tick
  <2>2. now' \in Nat
    BY <2>1 DEF FeedbackInv
  <2>3. QED
    BY <2>1, <2>2 DEF FeedbackInv, Holds, IsSequence, Ids, Raised
<1>9. QED
  BY <1>1, <1>2, <1>3, <1>4, <1>5, <1>6, <1>7, <1>8 DEF Feedback!Next

(* The report asks for the models of the urgent triggers, added or raised. *)
LEMMA ReportOfInv ==
    ASSUME FeedbackInv
    PROVE  /\ Feedback!Range(retraining_triggers) = Feedback!CalledFor
           /\ Feedback!get_learning_report.models_to_retrain =
                 {t.model : t \in {u \in Feedback!CalledFor : u.priority \in {"High", "Critical"}}}
           /\ Feedback!get_critical_triggers # <<>> =>
                 Feedback!get_learning_report.models_to_retrain # {}
<1> DEFINE t == retraining_triggers
           R == [model : ModelIds, priority : Urgencies]
           Severe(u) == Feedback!severity_rank(u.priority) >= Feedback!severity_rank("High")
           critical == {k \in DOMAIN t : t[k].priority = "Critical"}
           due == Feedback!get_learning_report.models_to_retrain
<1>1. t \in Seq(R) /\ Raised(t, added, asked)
  BY DEF FeedbackInv
<1>2. due = {u.model : u \in {v \in Feedback!Range(t) : Severe(v)}}
  BY DEF Feedback!get_learning_report
<1>3. Feedback!Range(t) = {t[k] : k \in 1 .. Len(t)} /\ DOMAIN t = 1 .. Len(t) /\ Len(t) \in Nat
  BY <1>1 DEF Feedback!Range
<1>4. \A p \in Urgencies : Feedback!severity_rank(p) >= Feedback!severity_rank("High")
                              <=> p \in {"High", "Critical"}
  BY DEF Feedback!severity_rank, Urgencies
<1>5. \A k \in 1 .. Len(t) : t[k].priority \in Urgencies
  <2> HIDE DEF R
  <2>1. \A k \in 1 .. Len(t) : t[k] \in R
    BY <1>1
  <2>2. QED
    BY <2>1 DEF R
<1>6. \A k \in 1 .. Len(t) : Severe(t[k]) <=> t[k].priority \in {"High", "Critical"}
  BY <1>4, <1>5
<1> HIDE DEF R, Severe, due
<1>7. ASSUME Feedback!get_critical_triggers # <<>> PROVE due # {}
  <2> DEFINE c == Feedback!Retained(t, critical)
  <2>1. Feedback!get_critical_triggers = c
    BY DEF Feedback!get_critical_triggers
  <2> HIDE DEF critical
  <2>2. c \in Seq(R) /\ \E p : Picks(p, c, t, critical, Len(t))
    BY <1>1, RetainedPicks
  <2>3. PICK p : Picks(p, c, t, critical, Len(t))
    BY <2>2
  <2> HIDE DEF c
  <2>4. Len(c) \in Nat /\ Len(c) # 0
    BY <1>7, <2>1, <2>2
  <2>5. p[1] \in 1 .. Len(t) /\ p[1] \in critical
    BY <2>3, <2>4 DEF Picks
  <2>6. t[p[1]].priority = "Critical"
    BY <2>5 DEF critical
  <2>7. Severe(t[p[1]]) /\ t[p[1]] \in Feedback!Range(t)
    BY <1>3, <1>6, <2>5, <2>6
  <2>8. t[p[1]].model \in due
    BY <1>2, <2>7
  <2>9. QED
    BY <2>8
<1>8. Feedback!CalledFor = Calls(added, asked)
  <2>1. DOMAIN asked = 1 .. Len(asked)
    BY DEF FeedbackInv, IsSequence
  <2>2. QED
    BY <2>1 DEF Feedback!CalledFor, Calls
<1>9. Feedback!Range(t) = Feedback!CalledFor
  BY <1>1, <1>3, <1>8 DEF Raised
<1>10. {v \in Feedback!Range(t) : Severe(v)}
         = {v \in Feedback!Range(t) : v.priority \in {"High", "Critical"}}
  BY <1>3, <1>6
<1>11. due = {u.model : u \in {v \in Feedback!CalledFor : v.priority \in {"High", "Critical"}}}
  BY <1>2, <1>9, <1>10
<1>12. QED
  BY <1>7, <1>9, <1>11 DEF due

LEMMA TriggersOfInv ==
    ASSUME Feedback!FeedbackAssumption, FeedbackInv PROVE Feedback!TriggersFromRecent
<1>1. /\ IsSequence(prediction_feedback) /\ IsSequence(asked)
      /\ Len(prediction_feedback) <= max_history /\ Len(decision_outcomes) <= max_history
      /\ fed \in Seq(Fed) /\ Holds(prediction_feedback, fed, aged)
  BY DEF FeedbackInv, Holds
<1>2. /\ DOMAIN prediction_feedback = 1 .. Len(prediction_feedback)
      /\ DOMAIN asked = 1 .. Len(asked) /\ DOMAIN fed = 1 .. Len(fed)
  BY <1>1 DEF IsSequence
<1>3. \A j, k \in DOMAIN prediction_feedback :
          j < k => prediction_feedback[j].id < prediction_feedback[k].id
  BY <1>1, <1>2 DEF Holds
<1>4. LET held == {prediction_feedback[k].id : k \in DOMAIN prediction_feedback}
      IN  /\ held \cap aged = {}
          /\ {k \in DOMAIN fed \ aged : k > Len(fed) - max_history} \subseteq held
  <2> DEFINE held == {prediction_feedback[k].id : k \in DOMAIN prediction_feedback}
  <2>1. held = Ids(prediction_feedback)
    BY <1>2 DEF Ids
  <2> HIDE DEF held
  <2>2. held \cap aged = {} /\ {k \in DOMAIN fed \ aged : k > Len(fed) - max_history} \subseteq held
    BY <1>1, <1>2, <2>1 DEF Holds
  <2>3. QED
    BY <2>2 DEF held
<1>5. ASSUME NEW k \in DOMAIN asked
      PROVE  LET errors == asked[k].grounds
                 over(num, den) == den * Feedback!Sum(errors) > num * asked[k].threshold * Len(errors)
             IN  /\ asked[k].raised # <<>> <=> over(1, 1)
                 /\ asked[k].raised = <<"Critical">> <=> over(2, 1)
                 /\ asked[k].raised = <<"Medium">> <=> over(1, 1) /\ ~over(3, 2)
  <2>1. Grounded(asked[k])
    BY <1>2 DEF FeedbackInv
  <2>2. /\ asked[k].threshold \in Nat /\ asked[k].grounds \in Seq(Nat)
        /\ asked[k].raised = Feedback!Urgency(asked[k].grounds, asked[k].threshold)
    BY <2>1 DEF Grounded
  <2>3. QED
    BY <2>2, UrgencyIs
<1>6. /\ Feedback!Range(retraining_triggers) = Feedback!CalledFor
      /\ Feedback!get_learning_report.models_to_retrain =
            {t.model : t \in {u \in Feedback!CalledFor : u.priority \in {"High", "Critical"}}}
      /\ Feedback!get_critical_triggers # <<>> =>
            Feedback!get_learning_report.models_to_retrain # {}
  BY ReportOfInv
<1>7. QED
  BY <1>1, <1>3, <1>4, <1>5, <1>6 DEF Feedback!TriggersFromRecent

(* What is learned from is the newest: whatever was fed back, sampled and
   accessed, evicted and cleared, the triggers that calls raise, the fit and the
   advice are those of the newest records, at every size of the histories; the
   other triggers are those that were added by hand. *)
THEOREM LearnsFromTheNewest ==
    ASSUME Feedback!FeedbackAssumption, Model!ModelAssumption, Predictive!CacheAssumption
    PROVE  Spec => []LearnsFromNewest
<1>1. Init => FeedbackInv /\ ModelInv /\ PredictiveInv
  BY FeedbackInit, ModelInit, PredictiveInit DEF Init
<1>2. FeedbackInv /\ [Next]_vars => FeedbackInv'
  BY FeedbackSteps, FeedbackNext
<1>3. ModelInv /\ [Next]_vars => ModelInv'
  BY ModelSteps, ModelNext
<1>4. PredictiveInv /\ [Next]_vars => PredictiveInv'
  BY PredictiveSteps, PredictiveNext
<1>5. FeedbackInv /\ ModelInv /\ PredictiveInv => LearnsFromNewest
  BY TriggersOfInv, FreshOfInv, WorthOfInv DEF LearnsFromNewest
<1>6. QED
  BY <1>1, <1>2, <1>3, <1>4, <1>5, PTL DEF Spec

-----------------------------------------------------------------------------
(***************************************************************************)
(* Votes and leaders (Coordinator.tla, Ensemble.tla): means and spreads     *)
(* come from the sums of SequenceLemmas.                                    *)
(***************************************************************************)
(* The sum of what is computed for each of n elements. *)
LEMMA TotalOfRow ==
    ASSUME NEW n \in Nat, NEW s, s \in [1 .. n -> Int]
    PROVE  /\ Len(s) = n
           /\ Coordinator!Total(s) = TotalOf(s) /\ Ensemble!Total(s) = TotalOf(s)
           /\ \E f : Sums(f, s, n) /\ TotalOf(s) = f[n]
           /\ TotalOf(s) \in Int
<1>1. s \in Seq(Int) /\ Len(s) = n
  OBVIOUS
<1>2. PICK f : Sums(f, s, n) /\ TotalOf(s) = f[n]
  BY <1>1, TotalIs
<1>3. f[n] \in Int
  <2>1. n \in 0 .. n /\ \A k \in 1 .. n : s[k] \in Int
    OBVIOUS
  <2>2. QED
    BY <1>2, <2>1, SumsWhole
<1>4. Coordinator!Total(s) = TotalOf(s) /\ Ensemble!Total(s) = TotalOf(s)
  BY DEF Coordinator!Total, Ensemble!Total, TotalOf
<1>5. QED
  BY <1>1, <1>2, <1>3, <1>4

(* What holds of each element, linearly, holds of the totals. *)
LEMMA TotalsCompare ==
    ASSUME NEW n \in Nat, NEW s, NEW t, s \in [1 .. n -> Int], t \in [1 .. n -> Int],
           NEW d \in Int, NEW a \in Int, NEW c \in Int,
           \A k \in 1 .. n : d * s[k] <= a * t[k] + c
    PROVE  d * TotalOf(s) <= a * TotalOf(t) + c * n
<1>1. PICK f : Sums(f, s, n) /\ TotalOf(s) = f[n]
  BY TotalOfRow
<1>2. PICK g : Sums(g, t, n) /\ TotalOf(t) = g[n]
  BY TotalOfRow
<1>3. \A k \in 1 .. n : s[k] \in Int /\ t[k] \in Int
  OBVIOUS
<1>4. d * f[n] <= a * g[n] + c * n
  BY <1>1, <1>2, <1>3, SumsCompare
<1>5. QED
  BY <1>1, <1>2, <1>4

LEMMA TotalsEqual ==
    ASSUME NEW n \in Nat, NEW s, NEW t, s \in [1 .. n -> Int], t \in [1 .. n -> Int],
           NEW a \in Int, NEW c \in Int,
           Linear(s, t, n, a, c)
    PROVE  TotalOf(s) = a * TotalOf(t) + c * n
<1>1. PICK f : Sums(f, s, n) /\ TotalOf(s) = f[n]
  BY TotalOfRow
<1>2. PICK g : Sums(g, t, n) /\ TotalOf(t) = g[n]
  BY TotalOfRow
<1>3. \A k \in 1 .. n : s[k] \in Int /\ t[k] \in Int
  OBVIOUS
<1>4. f[n] = a * g[n] + c * n
  BY <1>1, <1>2, <1>3, SumsEqual
<1>5. QED
  BY <1>1, <1>2, <1>4

(* A total lies between as many of the least and as many of the greatest. *)
LEMMA TotalWithin ==
    ASSUME NEW n \in Nat, NEW s, s \in [1 .. n -> Int], NEW l \in Int, NEW h \in Int,
           \A k \in 1 .. n : l <= s[k] /\ s[k] <= h
    PROVE  l * n <= TotalOf(s) /\ TotalOf(s) <= h * n
<1> DEFINE T == TotalOf(s)
<1>1. T \in Int
  BY TotalOfRow
<1>2. \A k \in 1 .. n : 1 * s[k] <= 0 * s[k] + h /\ (-1) * s[k] <= 0 * s[k] + (-l)
  <2> TAKE k \in 1 .. n
  <2> DEFINE x == s[k]
  <2>1. x \in Int /\ l <= x /\ x <= h
    OBVIOUS
  <2> HIDE DEF x
  <2>2. 1 * x <= 0 * x + h /\ (-1) * x <= 0 * x + (-l)
    BY <2>1
  <2>3. QED
    BY <2>2 DEF x
<1>3. 1 * T <= 0 * T + h * n
  <2>1. 1 \in Int /\ 0 \in Int /\ \A k \in 1 .. n : 1 * s[k] <= 0 * s[k] + h
    BY <1>2
  <2>2. QED
    BY <2>1, TotalsCompare
<1>4. (-1) * T <= 0 * T + (-l) * n
  <2>1. (-1) \in Int /\ 0 \in Int /\ -l \in Int
        /\ \A k \in 1 .. n : (-1) * s[k] <= 0 * s[k] + (-l)
    BY <1>2
  <2>2. QED
    BY <2>1, TotalsCompare
<1> HIDE DEF T
<1>5. (-l) * n = -(l * n) /\ l * n \in Int /\ h * n \in Int
  OBVIOUS
<1>6. l * n <= T /\ T <= h * n
  BY <1>1, <1>3, <1>4, <1>5
<1>7. QED
  BY <1>6 DEF T

(* The votes b say, and the squares of their distances to the mean. *)
Voted(b) == [k \in 1 .. Len(b) |-> b[k].value]
Apart(x, n, S) == [k \in 1 .. n |-> (n * x[k] - S) * (n * x[k] - S)]

IsBallot(b) ==
    /\ Len(b) \in Nat /\ DOMAIN b = 1 .. Len(b) /\ Voted(b) \in [1 .. Len(b) -> Int]

LEMMA SumsOfBallot ==
    ASSUME NEW b, IsBallot(b)
    PROVE  LET n == Len(b)
               x == Voted(b)
               S == Coordinator!Sum(b)
           IN  /\ S = TotalOf(x) /\ S \in Int
               /\ Apart(x, n, S) \in [1 .. n -> Int]
               /\ Coordinator!Squares(b) = TotalOf(Apart(x, n, S))
               /\ Coordinator!Squares(b) \in Int
<1> DEFINE n == Len(b)
           x == Voted(b)
           S == Coordinator!Sum(b)
<1>1. n \in Nat /\ x \in [1 .. n -> Int] /\ \A k \in 1 .. n : x[k] = b[k].value
  BY DEF IsBallot, Voted
<1>2. S = TotalOf(x) /\ S \in Int
  <2>1. S = Coordinator!Total(x)
    BY DEF Coordinator!Sum, Voted
  <2> HIDE DEF S, x, n
  <2>2. QED
    BY <1>1, <2>1, TotalOfRow
<1>3. Apart(x, n, S) = [k \in 1 .. n |-> (n * b[k].value - S) * (n * b[k].value - S)]
  <2> HIDE DEF S, x, n
  <2>1. QED
    BY <1>1 DEF Apart
<1>4. Coordinator!Squares(b) = Coordinator!Total(Apart(x, n, S))
  BY <1>3 DEF Coordinator!Squares
<1> HIDE DEF S, x, n
<1>5. Apart(x, n, S) \in [1 .. n -> Int]
  <2>1. \A k \in 1 .. n : (n * x[k] - S) * (n * x[k] - S) \in Int
    BY <1>1, <1>2
  <2>2. QED
    BY <2>1 DEF Apart
<1>6. QED
  BY <1>1, <1>2, <1>4, <1>5, TotalOfRow DEF S, x, n

(* Popoviciu: of numbers between l and h the spread is at most half the distance. *)
LEMMA SpreadWithin ==
    ASSUME NEW n \in Nat, NEW x, x \in [1 .. n -> Int], NEW l \in Int, NEW h \in Int,
           \A k \in 1 .. n : l <= x[k] /\ x[k] <= h
    PROVE  LET S == TotalOf(x)
           IN  TotalOf(Apart(x, n, S)) <= n * ((n * h - S) * (S - n * l))
<1> DEFINE S == TotalOf(x)
           q == Apart(x, n, S)
           a == n * (n * h + n * l - 2 * S)
           c == S * S - n * n * (l * h)
<1>1. S \in Int
  BY TotalOfRow
<1> HIDE DEF S
<1>2. a \in Int /\ c \in Int
  BY <1>1
<1>3. ASSUME NEW k \in 1 .. n PROVE 1 * q[k] <= a * x[k] + c /\ q[k] \in Int
  <2> DEFINE y == x[k]
  <2>1. y \in Int /\ l <= y /\ y <= h
    OBVIOUS
  <2>2. q[k] = (n * y - S) * (n * y - S)
    BY DEF Apart
  <2> HIDE DEF y
  <2>3. (y - l) * (h - y) >= 0
    <3> DEFINE u == y - l
               v == h - y
    <3>1. u \in Nat /\ v \in Nat
      BY <2>1
    <3> HIDE DEF u, v
    <3>2. u * v \in Nat
      BY <3>1
    <3>3. QED
      BY <3>2 DEF u, v
  <2> DEFINE m == (y - l) * (h - y)
  <2>4. m \in Nat
    BY <2>1, <2>3
  <2>5. n * n * m \in Nat
    <3> HIDE DEF m
    <3>1. n * n \in Nat
      OBVIOUS
    <3>2. QED
      BY <2>4, <3>1
  <2>6. (a * y + c) - (n * y - S) * (n * y - S) = n * n * m
    BY <1>1, <2>1
  <2>7. a * y + c \in Int /\ (n * y - S) * (n * y - S) \in Int
    BY <1>1, <1>2, <2>1
  <2> DEFINE e == a * y + c
             f == (n * y - S) * (n * y - S)
             g == n * n * m
  <2>8. e - f = g /\ e \in Int /\ f \in Int /\ g \in Nat /\ q[k] = f
    BY <2>2, <2>5, <2>6, <2>7
  <2> HIDE DEF e, f, g, a, c
  <2>9. 1 * q[k] <= e /\ q[k] \in Int
    BY <2>8
  <2>10. QED
    BY <2>9 DEF e, y
<1>4. q \in [1 .. n -> Int]
  <2>1. q = [k \in 1 .. n |-> q[k]]
    BY DEF Apart
  <2> HIDE DEF q
  <2>2. QED
    BY <1>3, <2>1
<1> HIDE DEF q, a, c
<1> DEFINE T == TotalOf(q)
<1>5. 1 * T <= a * S + c * n
  <2>1. 1 \in Int
    OBVIOUS
  <2>2. QED
    BY <1>2, <1>3, <1>4, <2>1, TotalsCompare DEF S
<1>6. T \in Int
  BY <1>4, TotalOfRow
<1> HIDE DEF T
<1>7. a * S + c * n = n * ((n * h - S) * (S - n * l))
  BY <1>1 DEF a, c
<1>8. T <= a * S + c * n
  <2>1. a * S + c * n \in Int
    BY <1>1, <1>2
  <2> DEFINE e == a * S + c * n
  <2>2. e \in Int /\ 1 * T <= e
    BY <1>5, <2>1
  <2> HIDE DEF e
  <2>3. T <= e
    BY <1>6, <2>2
  <2>4. QED
    BY <2>3 DEF e
<1>9. T <= n * ((n * h - S) * (S - n * l))
  BY <1>7, <1>8
<1>10. QED
  BY <1>9 DEF T, q, S

(* Half of a sum, squared, is at least the product of the parts. *)
LEMMA HalvesSquared ==
    ASSUME NEW p \in Int, NEW q \in Int
    PROVE  4 * (p * q) <= (p + q) * (p + q)
<1> DEFINE d == p - q
<1>1. d * d \in Nat
  <2>1. d \in Int
    OBVIOUS
  <2> HIDE DEF d
  <2>2. CASE d >= 0
    BY <2>1, <2>2
  <2>3. CASE d < 0
    <3>1. -d \in Nat /\ d * d = (-d) * (-d)
      BY <2>1, <2>3
    <3> DEFINE u == -d
    <3>2. u \in Nat /\ d * d = u * u
      BY <3>1
    <3> HIDE DEF u
    <3>3. u * u \in Nat
      BY <3>2
    <3>4. QED
      BY <3>2, <3>3
  <2>4. QED
    BY <2>1, <2>2, <2>3
<1>2. (p + q) * (p + q) = 4 * (p * q) + d * d
  OBVIOUS
<1> HIDE DEF d
<1>3. p * q \in Int
  OBVIOUS
<1> DEFINE u == p * q
           v == d * d
<1>4. u \in Int /\ v \in Nat /\ (p + q) * (p + q) = 4 * u + v
  BY <1>1, <1>2, <1>3
<1> HIDE DEF u, v
<1>5. 4 * u <= 4 * u + v
  BY <1>4
<1>6. QED
  BY <1>4, <1>5 DEF u

(* Votes less than 0.30 apart never go to arbitration. *)
LEMMA NearAgree ==
    ASSUME NEW b, IsBallot(b),
           \A j, k \in 1 .. Len(b) : b[j].value - b[k].value < 30
    PROVE  TRUE \notin Coordinator!RequiresArbitration(b)
<1> DEFINE n == Len(b)
           x == Voted(b)
           S == Coordinator!Sum(b)
           Q == Coordinator!Squares(b)
<1>1. n \in Nat /\ x \in [1 .. n -> Int] /\ \A k \in 1 .. n : x[k] = b[k].value
  BY DEF IsBallot, Voted
<1>2. S = TotalOf(x) /\ S \in Int /\ Q = TotalOf(Apart(x, n, S)) /\ Q \in Int
  BY SumsOfBallot
<1>3. \A j, k \in 1 .. n : x[j] - x[k] < 30
  BY <1>1
<1>4. TRUE \in Coordinator!RequiresArbitration(b) => n # 0 /\ Q >= 225 * n * n * n
  <2>1. b # <<>> => n # 0
    <3>1. n = 0 => DOMAIN b = {} /\ b = [k \in {} |-> 0]
      BY DEF IsBallot
    <3>2. QED
      BY <3>1
  <2>2. 15 * 15 = 225
    OBVIOUS
  <2> HIDE DEF Q
  <2>3. TRUE \in Coordinator!RequiresArbitration(b) => b # <<>> /\ Q >= 15 * 15 * n * n * n
    BY DEF Coordinator!RequiresArbitration, Q
  <2>4. QED
    BY <2>1, <2>2, <2>3
<1> HIDE DEF n, x, S, Q
<1>5. SUFFICES ASSUME n # 0, Q >= 225 * n * n * n PROVE FALSE
  BY <1>4
<1>6. PICK j \in 1 .. n : \A k \in 1 .. n : x[j] <= x[k]
  BY <1>1, <1>5, LeastAndGreatest
<1>7. PICK m \in 1 .. n : \A k \in 1 .. n : x[k] <= x[m]
  BY <1>1, <1>5, LeastAndGreatest
<1> DEFINE l == x[j]
           h == x[m]
<1>8. l \in Int /\ h \in Int /\ l <= h /\ h - l < 30 /\ \A k \in 1 .. n : l <= x[k] /\ x[k] <= h
  BY <1>1, <1>3, <1>6, <1>7
<1> HIDE DEF l, h
<1> DEFINE p == n * h - S
           q == S - n * l
           d == h - l
<1>9. Q <= n * (p * q)
  BY <1>1, <1>2, <1>8, SpreadWithin
<1>10. p \in Int /\ q \in Int /\ p + q = n * d /\ d \in 0 .. 29
  BY <1>1, <1>2, <1>8
<1> HIDE DEF p, q, d
<1>11. 4 * (p * q) <= (n * d) * (n * d)
  <2>1. 4 * (p * q) <= (p + q) * (p + q)
    BY <1>10, HalvesSquared
  <2>2. QED
    BY <1>10, <2>1
<1>12. (n * d) * (n * d) < 900 * (n * n)
  <2>1. d * d <= 899 /\ d * d \in Nat
    <3>1. d * d <= 29 * d
      <4>1. d * (29 - d) \in Nat
        <5>1. 29 - d \in Nat /\ d \in Nat
          BY <1>10
        <5> DEFINE e == 29 - d
        <5> HIDE DEF e
        <5>2. e \in Nat
          BY <5>1 DEF e
        <5>3. d * e \in Nat
          BY <5>1, <5>2
        <5>4. QED
          BY <5>3 DEF e
      <4>2. d * (29 - d) = 29 * d - d * d /\ d * d \in Int
        BY <1>10
      <4>3. QED
        BY <1>10, <4>1, <4>2
    <3>2. d * d \in Nat /\ 29 * d <= 899
      BY <1>10
    <3>3. QED
      BY <1>10, <3>1, <3>2
  <2> DEFINE u == n * n
             v == d * d
  <2>2. u \in Nat \ {0} /\ v \in Nat /\ v <= 899 /\ (n * d) * (n * d) = u * v
    BY <1>1, <1>5, <1>10, <2>1
  <2> HIDE DEF u, v
  <2>3. u * v < u * 900
    <3> DEFINE e == 900 - v
    <3>1. e \in Nat \ {0} /\ v = 900 - e
      BY <2>2
    <3> HIDE DEF e
    <3>2. u * (900 - e) = u * 900 - u * e /\ u * e \in Nat \ {0}
      BY <2>2, <3>1
    <3>3. QED
      BY <2>2, <3>1, <3>2
  <2>4. QED
    BY <2>2, <2>3 DEF u
<1>13. p * q < 225 * (n * n)
  <2> DEFINE u == p * q
             v == n * n
             w == (n * d) * (n * d)
  <2>1. u \in Int /\ v \in Int /\ w \in Int /\ 4 * u <= w /\ w < 900 * v
    BY <1>1, <1>10, <1>11, <1>12
  <2> HIDE DEF u, v, w
  <2>2. u < 225 * v
    BY <2>1
  <2>3. QED
    BY <2>2 DEF u, v
<1>14. n * (p * q) < 225 * n * n * n
  <2> DEFINE e == 225 * (n * n) - p * q
  <2>1. e \in Nat \ {0} /\ p * q = 225 * (n * n) - e
    BY <1>1, <1>10, <1>13
  <2> HIDE DEF e
  <2>2. n * (225 * (n * n) - e) = 225 * n * n * n - n * e
    BY <1>1, <2>1
  <2>3. n * e \in Nat \ {0} /\ 225 * n * n * n \in Int
    BY <1>1, <1>5, <2>1
  <2>4. QED
    BY <2>1, <2>2, <2>3
<1>15. n * (p * q) \in Int /\ 225 * n * n * n \in Int
  BY <1>1, <1>10
<1>16. QED
  BY <1>2, <1>5, <1>9, <1>14, <1>15

(* Of two camps as large as each other those further apart always do. *)
LEMMA CampsApart ==
    ASSUME NEW b, IsBallot(b), NEW v \in Int, NEW w \in Int, v - w > 30,
           \A k \in 1 .. Len(b) : b[k].value \in {v, w}, Len(b) # 0,
           Cardinality({k \in 1 .. Len(b) : b[k].value = v})
             = Cardinality({k \in 1 .. Len(b) : b[k].value = w})
    PROVE  FALSE \notin Coordinator!RequiresArbitration(b)
<1> DEFINE n == Len(b)
           x == Voted(b)
           S == Coordinator!Sum(b)
           Q == Coordinator!Squares(b)
           A == {k \in 1 .. n : b[k].value = v}
           B == {k \in 1 .. n : b[k].value = w}
           s == [k \in 1 .. n |-> IF k \in A THEN 1 ELSE 0]
           t == [k \in 1 .. n |-> IF k \in B THEN 1 ELSE 0]
           c == Cardinality(A)
<1>1. n \in Nat /\ x \in [1 .. n -> Int] /\ \A k \in 1 .. n : x[k] = b[k].value
  BY DEF IsBallot, Voted
<1>2. S = TotalOf(x) /\ S \in Int /\ Q = TotalOf(Apart(x, n, S)) /\ Q \in Int
      /\ Apart(x, n, S) \in [1 .. n -> Int]
  BY SumsOfBallot
<1>3. \A k \in 1 .. n : (k \in A <=> x[k] = v) /\ (k \in B <=> x[k] = w) /\ x[k] \in {v, w}
  BY <1>1
<1>4. A \in SUBSET (1 .. n) /\ B \in SUBSET (1 .. n) /\ Cardinality(B) = c
  OBVIOUS
<1> HIDE DEF n, x, S, Q, A, B
<1>5. s \in [1 .. n -> Int] /\ t \in [1 .. n -> Int]
  OBVIOUS
<1>6. TotalOf(s) = c /\ TotalOf(t) = c /\ c \in Int
  <2>1. \A k \in 1 .. n : s[k] = IF k \in A THEN 1 ELSE 0
    OBVIOUS
  <2>2. \A k \in 1 .. n : t[k] = IF k \in B THEN 1 ELSE 0
    OBVIOUS
  <2> HIDE DEF s, t
  <2>3. PICK f : Sums(f, s, n) /\ TotalOf(s) = f[n]
    BY <1>1, <1>5, TotalOfRow
  <2>4. f[n] = Cardinality(A)
    BY <1>1, <1>4, <2>1, <2>3, SumsCount
  <2>5. PICK g : Sums(g, t, n) /\ TotalOf(t) = g[n]
    BY <1>1, <1>5, TotalOfRow
  <2>6. g[n] = Cardinality(B)
    BY <1>1, <1>4, <2>2, <2>5, SumsCount
  <2>7. TotalOf(s) \in Int
    BY <1>1, <1>5, TotalOfRow
  <2>8. QED
    BY <1>4, <2>3, <2>4, <2>5, <2>6, <2>7
<1>7. Linear(t, s, n, -1, 1)
  <2> SUFFICES ASSUME NEW k \in 1 .. n PROVE t[k] = (-1) * s[k] + 1
    BY DEF Linear
  <2>1. k \in A <=> k \notin B
    BY <1>3
  <2>2. QED
    BY <2>1
<1>8. Linear(x, s, n, v - w, w)
  <2> SUFFICES ASSUME NEW k \in 1 .. n PROVE x[k] = (v - w) * s[k] + w
    BY DEF Linear
  <2>1. CASE k \in A
    <3>1. s[k] = 1 /\ x[k] = v
      BY <1>3, <2>1
    <3>2. v = (v - w) * 1 + w
      OBVIOUS
    <3>3. QED
      BY <3>1, <3>2
  <2>2. CASE k \notin A
    <3>1. s[k] = 0 /\ x[k] = w
      BY <1>3, <2>2
    <3>2. w = (v - w) * 0 + w
      OBVIOUS
    <3>3. QED
      BY <3>1, <3>2
  <2>3. QED
    BY <2>1, <2>2
<1> HIDE DEF s, t, c
<1>9. c = (-1) * c + 1 * n
  <2>1. (-1) \in Int /\ 1 \in Int
    OBVIOUS
  <2>2. TotalOf(t) = (-1) * TotalOf(s) + 1 * n
    BY <1>1, <1>5, <1>7, <2>1, TotalsEqual
  <2>3. QED
    BY <1>6, <2>2
<1>10. S = (v - w) * c + w * n
  <2> DEFINE a == v - w
  <2>1. a \in Int /\ Linear(x, s, n, a, w)
    BY <1>8
  <2> HIDE DEF a
  <2>2. n \in Nat /\ x \in [1 .. n -> Int] /\ s \in [1 .. n -> Int] /\ a \in Int /\ w \in Int
        /\ Linear(x, s, n, a, w)
    BY <1>1, <1>5, <2>1
  <2>3. TotalOf(x) = a * TotalOf(s) + w * n
    BY ONLY <2>2, TotalsEqual
  <2>4. QED
    BY <1>2, <1>6, <2>3 DEF a
<1>11. n = 2 * c /\ c \in Nat \ {0}
  <2>1. n \in Nat \ {0}
    BY <1>1 DEF n
  <2>2. (-1) * c = -c /\ 1 * n = n
    BY <1>6, <2>1
  <2>3. QED
    BY <1>6, <1>9, <2>1, <2>2
<1> DEFINE d == v - w
           e == (c * d) * (c * d)
           q == Apart(x, n, S)
<1>12. d \in Nat /\ d > 30 /\ e \in Int
  BY <1>11
<1>13. Linear(q, x, n, 0, e)
  <2> SUFFICES ASSUME NEW k \in 1 .. n PROVE q[k] = 0 * x[k] + e
    BY DEF Linear
  <2>1. q[k] = (n * x[k] - S) * (n * x[k] - S) /\ x[k] \in Int
    BY <1>1 DEF Apart
  <2>2. CASE x[k] = v
    <3>1. n * v - S = c * d
      BY <1>10, <1>11
    <3>2. QED
      BY <1>12, <2>1, <2>2, <3>1
  <2>3. CASE x[k] = w
    <3>1. n * w - S = -(c * d)
      BY <1>10, <1>11
    <3> DEFINE u == c * d
    <3>2. u \in Int
      BY <1>11, <1>12
    <3> HIDE DEF u
    <3>3. (-u) * (-u) = u * u
      BY <3>2
    <3>4. q[k] = e
      BY <2>1, <2>3, <3>1, <3>3 DEF u
    <3>5. QED
      BY <1>12, <2>1, <3>4
  <2>4. QED
    BY <1>3, <2>2, <2>3
<1> HIDE DEF d, e, q
<1>14. Q = 0 * S + e * n
  <2>1. 0 \in Int /\ q \in [1 .. n -> Int]
    BY <1>2 DEF q
  <2>2. TotalOf(q) = 0 * TotalOf(x) + e * n
    BY <1>1, <1>12, <1>13, <2>1, TotalsEqual
  <2>3. QED
    BY <1>2, <2>2 DEF q
<1>15. Q = 2 * (c * c * c) * (d * d)
  BY <1>2, <1>11, <1>12, <1>14 DEF e
<1>16. 225 * n * n * n = 2 * (c * c * c) * 900
  BY <1>11
<1>17. 2 * (c * c * c) * 900 < 2 * (c * c * c) * (d * d)
  <2>1. d * d > 900
    <3>1. d >= 31
      BY <1>12
    <3> DEFINE f == d - 31
    <3>2. f \in Nat /\ d = f + 31
      BY <1>12, <3>1
    <3> HIDE DEF f
    <3>3. (f + 31) * (f + 31) = f * f + 62 * f + 961 /\ f * f \in Nat
      BY <3>2
    <3>4. QED
      BY <3>2, <3>3
  <2> DEFINE u == 2 * (c * c * c)
             g == d * d - 900
  <2>2. u \in Nat \ {0}
    <3>1. c * c \in Nat \ {0}
      BY <1>11
    <3> DEFINE f == c * c
    <3> HIDE DEF f
    <3>2. f \in Nat \ {0}
      BY <3>1 DEF f
    <3>3. f * c \in Nat \ {0}
      BY <1>11, <3>2
    <3>4. QED
      BY <3>3 DEF f
  <2>3. g \in Nat \ {0} /\ d * d = g + 900
    BY <1>12, <2>1
  <2> HIDE DEF u, g
  <2>4. u * (g + 900) = u * g + u * 900 /\ u * g \in Nat \ {0} /\ u * 900 \in Nat
    BY <2>2, <2>3
  <2>5. u * 900 < u * (d * d)
    BY <2>3, <2>4
  <2>6. QED
    BY <2>5 DEF u
<1>18. Q > 225 * n * n * n
  <2>1. 2 * (c * c * c) * 900 \in Int /\ 2 * (c * c * c) * (d * d) \in Int
    BY <1>11, <1>12
  <2>2. QED
    BY <1>2, <1>15, <1>16, <1>17, <2>1
<1>19. 15 * 15 = 225 /\ n \in Nat /\ Q \in Int
  BY <1>1, <1>2
<1>20. FALSE \in Coordinator!RequiresArbitration(b) => Q <= 15 * 15 * n * n * n
  BY DEF Coordinator!RequiresArbitration, Q, n
<1>21. FALSE \in Coordinator!RequiresArbitration(b) => Q <= 225 * n * n * n
  BY <1>19, <1>20
<1>22. 225 * n * n * n \in Int
  BY <1>19
<1>23. ~(Q <= 225 * n * n * n)
  BY <1>18, <1>19, <1>22
<1>24. QED
  BY <1>21, <1>23

(* Each consensus was computed from a ballot with a quorum, and there are finitely
   many nodes. *)
Voting(c) ==
    \E b \in Ballots : \E answer \in Coordinator!RequiresArbitration(b) :
        /\ Len(b) >= quorum_size
        /\ c = [votes |-> b, sum |-> Coordinator!Sum(b), arbitration |-> answer]

CoordinatorInv ==
    /\ Len(consensus_history) \in Nat /\ DOMAIN consensus_history = 1 .. Len(consensus_history)
    /\ consensus_history = [k \in 1 .. Len(consensus_history) |-> consensus_history[k]]
    /\ \A k \in DOMAIN consensus_history : Voting(consensus_history[k])
    /\ IsFiniteSet(DOMAIN nodes)
    /\ \A n \in DOMAIN nodes : nodes[n].profile \in Profiles

LEMMA CoordinatorInit == ASSUME Coordinator!Init PROVE CoordinatorInv
<1>1. consensus_history = <<>> /\ nodes = <<>>
  BY DEF Coordinator!Init
<1>2. DOMAIN nodes = {} /\ DOMAIN consensus_history = {} /\ Len(consensus_history) = 0
  BY <1>1
<1>3. 1 .. 0 = {}
  OBVIOUS
<1>4. QED
  BY <1>2, <1>3, FS_EmptySet DEF CoordinatorInv

LEMMA CoordinatorNext ==
    ASSUME Coordinator!CoordinatorAssumption, CoordinatorInv,
           Coordinator!Next \/ UNCHANGED coordinatorVars
    PROVE  CoordinatorInv'
<1>1. CASE UNCHANGED coordinatorVars
  BY <1>1 DEF coordinatorVars, CoordinatorInv, Voting
<1>2. ASSUME NEW m, NEW p \in Profiles, NEW on,
             Coordinator!register_node(m, p, on)
      PROVE  CoordinatorInv'
  <2>1. /\ nodes' = [k \in DOMAIN nodes \cup {m} |->
                       IF k = m THEN [profile |-> p, active |-> on] ELSE nodes[k]]
        /\ UNCHANGED consensus_history
    BY <1>2 DEF Coordinator!register_node
  <2>2. DOMAIN nodes' = DOMAIN nodes \cup {m}
    BY <2>1
  <2>3. IsFiniteSet(DOMAIN nodes \cup {m})
    BY FS_AddElement DEF CoordinatorInv
  <2>4. \A k \in DOMAIN nodes' : nodes'[k].profile \in Profiles
    BY <2>1 DEF CoordinatorInv
  <2>5. QED
    BY <2>1, <2>2, <2>3, <2>4 DEF CoordinatorInv, Voting
<1>3. ASSUME NEW m, NEW on, Coordinator!mark_node(m, on)
      PROVE  CoordinatorInv'
  <2>1. /\ nodes' = [nodes EXCEPT ![m].active = on] /\ UNCHANGED consensus_history
    BY <1>3 DEF Coordinator!mark_node
  <2>2. DOMAIN nodes' = DOMAIN nodes
    BY <2>1
  <2>3. \A k \in DOMAIN nodes : nodes'[k].profile = nodes[k].profile
    BY <2>1
  <2>4. QED
    BY <2>1, <2>2, <2>3 DEF CoordinatorInv, Voting
<1>4. ASSUME NEW m, Coordinator!update_node_metrics(m) PROVE CoordinatorInv'
  BY <1>4 DEF Coordinator!update_node_metrics, CoordinatorInv, Voting
<1>5. ASSUME NEW b \in Ballots, Coordinator!aggregate_distributed_votes(b) PROVE CoordinatorInv'
  <2>0. PICK answer \in Coordinator!RequiresArbitration(b) :
          /\ consensus_history' = IF Len(b) < quorum_size THEN consensus_history
               ELSE Append(consensus_history,
                           [votes |-> b, sum |-> Coordinator!Sum(b), arbitration |-> answer])
          /\ UNCHANGED nodes
    BY <1>5 DEF Coordinator!aggregate_distributed_votes
  <2> DEFINE h == consensus_history
             c == [votes |-> b, sum |-> Coordinator!Sum(b), arbitration |-> answer]
  <2>1. /\ consensus_history' = IF Len(b) < quorum_size THEN h ELSE Append(h, c)
        /\ UNCHANGED nodes
    BY <2>0
  <2>2. Len(b) \in Nat /\ quorum_size \in Nat
    BY DEF Coordinator!CoordinatorAssumption
  <2>3. CASE Len(b) < quorum_size
    BY <2>1, <2>3 DEF CoordinatorInv, Voting
  <2>4. CASE ~(Len(b) < quorum_size)
    <3>1. consensus_history' = Append(h, c)
      BY <2>1, <2>4
    <3>2. Voting(c)
      BY <2>2, <2>4 DEF Voting
    <3>3. Len(h) \in Nat /\ DOMAIN h = 1 .. Len(h) /\ \A k \in DOMAIN h : Voting(h[k])
      BY DEF CoordinatorInv
    <3> DEFINE S == {h[k] : k \in DOMAIN h} \cup {c}
               l == Len(h)
    <3>4. h \in [1 .. l -> S] /\ c \in S
      <4>1. h = [k \in 1 .. Len(h) |-> h[k]]
        BY DEF CoordinatorInv
      <4>2. QED
        BY <3>3, <4>1
    <3>5. h \in Seq(S)
      BY <3>3, <3>4
    <3> HIDE DEF h, c, S, l
    <3>6. /\ Len(Append(h, c)) = Len(h) + 1 /\ DOMAIN Append(h, c) = 1 .. Len(h) + 1
          /\ \A k \in 1 .. Len(h) : Append(h, c)[k] = h[k]
          /\ Append(h, c)[Len(h) + 1] = c
          /\ Append(h, c) = [k \in 1 .. Len(h) + 1 |-> Append(h, c)[k]]
      <4>1. /\ Len(Append(h, c)) = Len(h) + 1 /\ DOMAIN Append(h, c) = 1 .. Len(h) + 1
            /\ \A k \in 1 .. Len(h) : Append(h, c)[k] = h[k]
            /\ Append(h, c)[Len(h) + 1] = c
        BY <3>4, <3>5
      <4>2. Append(h, c) \in Seq(S)
        BY <3>4, <3>5
      <4> DEFINE a == Append(h, c)
      <4> HIDE DEF a
      <4>3. a = [k \in 1 .. Len(a) |-> a[k]]
        <5>1. a \in [1 .. Len(a) -> S]
          BY <4>2, LenProperties DEF a
        <5>2. QED
          BY <5>1
      <4>4. QED
        BY <4>1, <4>3 DEF a
    <3>7. \A k \in 1 .. Len(h) + 1 : Voting(Append(h, c)[k])
      <4>1. \A k \in 1 .. Len(h) + 1 : k \in 1 .. Len(h) \/ k = Len(h) + 1
        BY <3>3
      <4>2. QED
        BY <3>2, <3>3, <3>6, <4>1
    <3>8. \A d : Voting(d)' <=> Voting(d)
      BY DEF Voting
    <3>9. Len(h) + 1 \in Nat
      BY <3>3
    <3>10. QED
      BY <2>1, <3>1, <3>6, <3>7, <3>8, <3>9 DEF CoordinatorInv
  <2>5. QED
    BY <2>3, <2>4
<1>6. CASE Coordinator!Next
  BY <1>2, <1>3, <1>4, <1>5, <1>6 DEF Coordinator!Next
<1>7. QED
  BY <1>1, <1>6

(* A score of a finite set's elements has a greatest value. *)
LEMMA BestOfFinite ==
    ASSUME NEW A, IsFiniteSet(A), A # {}, NEW f, \A a \in A : f[a] \in Int
    PROVE  \E a \in A : \A b \in A : f[b] <= f[a]
<1> DEFINE Over(a) == {b \in A : f[b] > f[a]}
           N == {Cardinality(Over(a)) : a \in A}
<1>1. \A a \in A : Over(a) \in SUBSET A /\ IsFiniteSet(Over(a)) /\ Cardinality(Over(a)) \in Nat
  <2> SUFFICES ASSUME NEW a \in A
               PROVE  Over(a) \in SUBSET A /\ IsFiniteSet(Over(a)) /\ Cardinality(Over(a)) \in Nat
    OBVIOUS
  <2>1. Over(a) \in SUBSET A
    OBVIOUS
  <2> HIDE DEF Over
  <2>2. QED
    BY <2>1, FS_Subset, FS_CardinalityType
<1>2. N \in SUBSET Nat /\ N # {}
  <2> HIDE DEF Over
  <2>1. QED
    BY <1>1
<1> HIDE DEF N
<1>3. PICK m \in N : \A k \in N : m <= k
  BY <1>2, LeastElement
<1>4. PICK a \in A : m = Cardinality(Over(a))
  BY <1>3 DEF N
<1>5. ASSUME NEW b \in A, ~(f[b] <= f[a]) PROVE FALSE
  <2>1. f[b] > f[a] /\ f[b] \in Int /\ f[a] \in Int
    BY <1>5
  <2>2. b \in Over(a) /\ b \notin Over(b)
    BY <2>1
  <2>3. Over(b) \in SUBSET Over(a)
    BY <2>1
  <2> HIDE DEF Over
  <2>4. Cardinality(Over(b)) <= Cardinality(Over(a))
        /\ (Cardinality(Over(a)) = Cardinality(Over(b)) => Over(a) = Over(b))
    BY <1>1, <2>3, FS_Subset
  <2>5. Cardinality(Over(b)) \in N
    BY DEF N
  <2>6. m <= Cardinality(Over(b))
    BY <1>3, <2>5
  <2>7. Cardinality(Over(a)) = Cardinality(Over(b))
    BY <1>1, <1>4, <2>4, <2>6
  <2>8. QED
    BY <2>2, <2>4, <2>7
<1>6. QED
  BY <1>5

LEMMA CoordinatorSound ==
    ASSUME Coordinator!CoordinatorAssumption, CoordinatorInv
    PROVE  Coordinator!ConsensusSound
<1> DEFINE Active == Coordinator!get_active_nodes
           f == [n \in Active |-> Coordinator!Score(n)]
           Leaders == Coordinator!elect_leader
<1>1. Active = {n \in DOMAIN nodes : nodes[n].active}
  BY DEF Coordinator!get_active_nodes
<1>2. IsFiniteSet(Active)
  <2>1. Active \in SUBSET DOMAIN nodes /\ IsFiniteSet(DOMAIN nodes)
    BY <1>1 DEF CoordinatorInv
  <2> HIDE DEF Active
  <2>2. QED
    BY <2>1, FS_Subset
<1>3. \A n \in Active : /\ nodes[n].profile.latency \in Int
                        /\ nodes[n].profile.availability \in Int
                        /\ Coordinator!Score(n) =
                             nodes[n].profile.availability - nodes[n].profile.latency
  BY <1>1 DEF CoordinatorInv, Coordinator!CoordinatorAssumption, Coordinator!Score
<1>4. Leaders = {n \in Active : \A m \in Active : Coordinator!Score(m) <= Coordinator!Score(n)}
  BY DEF Coordinator!elect_leader
<1>5. ASSUME NEW r PROVE Coordinator!get_node_by_region(r) \in SUBSET Active
  BY DEF Coordinator!get_node_by_region
<1> HIDE DEF Active, Leaders
<1>6. Active # {} <=> Leaders # {}
  <2>1. ASSUME Active # {} PROVE Leaders # {}
    <3>1. \A a \in Active : f[a] \in Int /\ f[a] = Coordinator!Score(a)
      BY <1>3
    <3> HIDE DEF f
    <3>2. PICK a \in Active : \A b \in Active : f[b] <= f[a]
      BY <1>2, <2>1, <3>1, BestOfFinite
    <3>3. QED
      BY <1>4, <3>1, <3>2
  <2>2. QED
    BY <1>4, <2>1
<1>7. ASSUME NEW n \in Leaders, NEW m \in Active
      PROVE  ~(/\ nodes[m].profile.latency < nodes[n].profile.latency
               /\ nodes[m].profile.availability > nodes[n].profile.availability)
  <2>1. n \in Active /\ Coordinator!Score(m) <= Coordinator!Score(n)
    BY <1>4
  <2> DEFINE p == nodes[n].profile.latency
             q == nodes[n].profile.availability
             s == nodes[m].profile.latency
             t == nodes[m].profile.availability
  <2>2. p \in Int /\ q \in Int /\ s \in Int /\ t \in Int /\ t - s <= q - p
    BY <1>3, <2>1
  <2> HIDE DEF p, q, s, t
  <2>3. ~(s < p /\ t > q)
    BY <2>2
  <2>4. QED
    BY <2>3 DEF p, q, s, t
<1>8. ASSUME NEW k \in DOMAIN consensus_history
      PROVE  LET c == consensus_history[k]
                 values == {c.votes[j].value : j \in DOMAIN c.votes}
                 camp(x) == Cardinality({j \in DOMAIN c.votes : c.votes[j].value = x})
             IN  /\ Len(c.votes) >= quorum_size
                 /\ values # {} => /\ \E v \in values : v * Len(c.votes) <= c.sum
                                   /\ \E v \in values : c.sum <= v * Len(c.votes)
                 /\ (\A v, w \in values : v - w < 30) => ~c.arbitration
                 /\ \A v, w \in values :
                      values = {v, w} /\ camp(v) = camp(w) /\ v - w > 30 => c.arbitration
  <2> DEFINE c == consensus_history[k]
             values == {c.votes[j].value : j \in DOMAIN c.votes}
             camp(x) == Cardinality({j \in DOMAIN c.votes : c.votes[j].value = x})
  <2>0. PICK b \in Ballots : \E answer \in Coordinator!RequiresArbitration(b) :
          /\ Len(b) >= quorum_size
          /\ c = [votes |-> b, sum |-> Coordinator!Sum(b), arbitration |-> answer]
    BY DEF CoordinatorInv, Voting
  <2>1. PICK answer \in Coordinator!RequiresArbitration(b) :
          /\ Len(b) >= quorum_size
          /\ c = [votes |-> b, sum |-> Coordinator!Sum(b), arbitration |-> answer]
    BY <2>0
  <2>2. c.votes = b /\ c.sum = Coordinator!Sum(b) /\ c.arbitration = answer
        /\ answer \in BOOLEAN
    BY <2>1 DEF Coordinator!RequiresArbitration
  <2> HIDE DEF c
  <2> DEFINE n == Len(b)
             x == Voted(b)
             S == Coordinator!Sum(b)
  <2>3. /\ n \in Nat /\ DOMAIN b = 1 .. n /\ \A j \in 1 .. n : b[j].value \in Int
        /\ IsBallot(b)
    <3>1. n \in Nat /\ DOMAIN b = 1 .. n /\ \A j \in 1 .. n : b[j].value \in Int
      BY DEF Coordinator!CoordinatorAssumption
    <3>2. QED
      BY <3>1 DEF IsBallot, Voted
  <2>4. values = {b[j].value : j \in 1 .. n}
    BY <2>2, <2>3
  <2>5. \A y : camp(y) = Cardinality({j \in 1 .. n : b[j].value = y})
    BY <2>2, <2>3
  <2> HIDE DEF values, camp
  <2>6. ASSUME values # {}
        PROVE  /\ \E v \in values : v * n <= S
               /\ \E v \in values : S <= v * n
    <3>1. n # 0
      BY <2>3, <2>4, <2>6
    <3>2. S = TotalOf(x) /\ x \in [1 .. n -> Int] /\ \A j \in 1 .. n : x[j] = b[j].value
      BY <2>3, SumsOfBallot DEF IsBallot, Voted
    <3> HIDE DEF x, S, n
    <3>3. PICK l \in 1 .. n : \A j \in 1 .. n : x[l] <= x[j]
      BY <2>3, <3>1, <3>2, LeastAndGreatest
    <3>4. PICK h \in 1 .. n : \A j \in 1 .. n : x[j] <= x[h]
      BY <2>3, <3>1, <3>2, LeastAndGreatest
    <3>5. x[l] \in Int /\ x[h] \in Int /\ x[l] \in values /\ x[h] \in values
      BY <2>4, <3>2
    <3>6. x[l] * n <= TotalOf(x) /\ TotalOf(x) <= x[h] * n
      BY <2>3, <3>2, <3>3, <3>4, <3>5, TotalWithin
    <3>7. QED
      BY <3>2, <3>5, <3>6
  <2>7. ASSUME \A v, w \in values : v - w < 30 PROVE ~answer
    <3>1. \A h, j \in 1 .. n : b[h].value - b[j].value < 30
      BY <2>4, <2>7
    <3>2. TRUE \notin Coordinator!RequiresArbitration(b)
      BY <2>3, <3>1, NearAgree
    <3>3. QED
      BY <2>1, <2>2, <3>2
  <2>8. ASSUME NEW v \in values, NEW w \in values, values = {v, w}, camp(v) = camp(w), v - w > 30
        PROVE  answer
    <3>1. v \in Int /\ w \in Int
      BY <2>3, <2>4
    <3>2. \A j \in 1 .. n : b[j].value \in {v, w}
      BY <2>4, <2>8
    <3>3. n # 0
      BY <2>3, <2>4, <2>8
    <3>4. Cardinality({j \in 1 .. n : b[j].value = v})
            = Cardinality({j \in 1 .. n : b[j].value = w})
      BY <2>5, <2>8
    <3>5. FALSE \notin Coordinator!RequiresArbitration(b)
      BY <2>3, <2>8, <3>1, <3>2, <3>3, <3>4, CampsApart
    <3>6. QED
      BY <2>1, <2>2, <3>5
  <2> HIDE DEF n, S
  <2>9. /\ Len(c.votes) >= quorum_size
        /\ values # {} => /\ \E v \in values : v * Len(c.votes) <= c.sum
                          /\ \E v \in values : c.sum <= v * Len(c.votes)
        /\ (\A v, w \in values : v - w < 30) => ~c.arbitration
        /\ \A v, w \in values :
             values = {v, w} /\ camp(v) = camp(w) /\ v - w > 30 => c.arbitration
    BY <2>1, <2>2, <2>6, <2>7, <2>8 DEF n, S
  <2>10. QED
    BY <2>9 DEF c, values, camp
<1>9. \A S : Coordinator!Cardinality(S) = Cardinality(S)
  BY DEF Coordinator!Cardinality, Cardinality
<1>10. Leaders \in SUBSET Active
  BY <1>4
<1>11. QED
  BY <1>5, <1>6, <1>7, <1>8, <1>9 DEF Coordinator!ConsensusSound, Active, Leaders

(* What is held was submitted by a model then known, and models stay known. *)
EnsembleInv ==
    /\ predictions \in Seq(Predictions)
    /\ \A k \in 1 .. Len(predictions) : predictions[k].model \in DOMAIN models

LEMMA EnsembleInit == ASSUME Ensemble!Init PROVE EnsembleInv
BY DEF Ensemble!Init, EnsembleInv

LEMMA EnsembleNext ==
    ASSUME EnsembleInv, Ensemble!Next \/ UNCHANGED ensembleVars
    PROVE  EnsembleInv'
<1>1. ASSUME UNCHANGED predictions, DOMAIN models \in SUBSET DOMAIN models' PROVE EnsembleInv'
  BY <1>1 DEF EnsembleInv
<1>2. CASE UNCHANGED ensembleVars
  BY <1>1, <1>2 DEF ensembleVars
<1>3. ASSUME NEW m, Ensemble!register_model(m) PROVE EnsembleInv'
  <2>1. DOMAIN models' = DOMAIN models \cup {m} /\ UNCHANGED predictions
    BY <1>3 DEF Ensemble!register_model
  <2>2. QED
    BY <1>1, <2>1
<1>4. ASSUME NEW m, NEW w, Ensemble!set_model_weight(m, w) PROVE EnsembleInv'
  <2>1. DOMAIN models' = DOMAIN models /\ UNCHANGED predictions
    BY <1>4 DEF Ensemble!set_model_weight
  <2>2. QED
    BY <1>1, <2>1
<1>5. ASSUME NEW m, NEW enabled, Ensemble!enable_model(m, enabled) PROVE EnsembleInv'
  <2>1. DOMAIN models' = DOMAIN models /\ UNCHANGED predictions
    BY <1>5 DEF Ensemble!enable_model
  <2>2. QED
    BY <1>1, <2>1
<1>6. ASSUME NEW m, NEW t, NEW r, Ensemble!record_performance(m, t, r) PROVE EnsembleInv'
  BY <1>1, <1>6 DEF Ensemble!record_performance
<1>7. ASSUME NEW p \in Predictions, Ensemble!submit_prediction(p) PROVE EnsembleInv'
  <2> DEFINE s == predictions
  <2>1. s \in Seq(Predictions) /\ Len(s) \in Nat
        /\ \A k \in 1 .. Len(s) : s[k].model \in DOMAIN models
    BY DEF EnsembleInv
  <2>2. UNCHANGED models
        /\ predictions' = IF p.model \in DOMAIN models THEN Append(s, p) ELSE s
    BY <1>7 DEF Ensemble!submit_prediction
  <2>3. CASE p.model \notin DOMAIN models
    BY <2>1, <2>2, <2>3 DEF EnsembleInv
  <2>4. CASE p.model \in DOMAIN models
    <3> DEFINE q == Append(s, p)
    <3> HIDE DEF s
    <3>1. q \in Seq(Predictions) /\ Len(q) = Len(s) + 1 /\ q[Len(s) + 1] = p
          /\ \A k \in 1 .. Len(s) : q[k] = s[k]
      BY <2>1
    <3> HIDE DEF q
    <3>2. \A k \in 1 .. Len(q) : k \in 1 .. Len(s) \/ k = Len(s) + 1
      BY <2>1, <3>1
    <3>3. \A k \in 1 .. Len(q) : q[k].model \in DOMAIN models
      BY <2>1, <2>4, <3>1, <3>2
    <3>4. predictions' = q /\ models' = models
      BY <2>2, <2>4 DEF q
    <3>5. QED
      BY <3>1, <3>3, <3>4 DEF EnsembleInv
  <2>5. QED
    BY <2>3, <2>4
<1>8. CASE Ensemble!clear_predictions
  BY <1>8 DEF Ensemble!clear_predictions, EnsembleInv
<1>9. CASE Ensemble!Next
  BY <1>3, <1>4, <1>5, <1>6, <1>7, <1>8, <1>9 DEF Ensemble!Next
<1>10. QED
  BY <1>2, <1>9

(* The votes on a type are held, each of a known model. *)
LEMMA MatchingVotes ==
    ASSUME EnsembleInv, NEW t
    PROVE  LET s == Ensemble!Matching(t)
           IN  s \in Seq(Predictions) /\ \A k \in 1 .. Len(s) : s[k].model \in DOMAIN models
<1> DEFINE n == Len(predictions)
           at == {k \in DOMAIN predictions : predictions[k].type = t}
           Loop(f) == f = [k \in 0 .. n |->
                             IF k = 0 THEN <<>>
                             ELSE IF k \in at THEN Append(f[k - 1], predictions[k]) ELSE f[k - 1]]
           kept == CHOOSE f : Loop(f)
<1>1. n \in Nat /\ predictions \in Seq(Predictions)
  BY DEF EnsembleInv
<1>2. \A f : Kept(f, predictions, at, n) <=> Loop(f)
  BY DEF Kept
<1>3. \E f : Loop(f)
  <2> HIDE DEF Loop, n, at
  <2> QED BY <1>1, <1>2, KeptExists
<1>4. Loop(kept)
  <2> HIDE DEF Loop
  <2> QED BY <1>3
<1>5. Ensemble!Matching(t) = kept[n]
  BY DEF Ensemble!Matching
<1> HIDE DEF Loop, kept, at
<1>6. Kept(kept, predictions, at, n)
  BY <1>2, <1>4
<1> DEFINE s == Ensemble!Matching(t)
<1>7. PICK p : s \in Seq(Predictions) /\ Picks(p, s, predictions, at, n)
  BY <1>1, <1>5, <1>6, KeptPicks
<1> HIDE DEF s
<1>8. \A k \in 1 .. Len(s) : p[k] \in 1 .. n /\ s[k] = predictions[p[k]]
  BY <1>7 DEF Picks
<1>9. \A k \in 1 .. Len(s) : s[k].model \in DOMAIN models
  BY <1>8 DEF EnsembleInv
<1>10. QED
  BY <1>7, <1>9 DEF s

IsVotes(s) ==
    /\ Len(s) \in Nat \ {0} /\ DOMAIN s = 1 .. Len(s)
    /\ \A k \in 1 .. Len(s) : s[k].value \in Int /\ s[k].confidence \in 0 .. 10

(* What is summed for a mean by weight. *)
Weighed(s, w) == [k \in 1 .. Len(s) |-> s[k].value * w[k]]

(* What each strategy weighs a vote with. *)
WeightsOf(strategy, s) ==
    CASE strategy = "WeightedMajority" -> Ensemble!Confidences(s)
      [] strategy = "ConfidenceWeighted" -> [k \in DOMAIN s |-> s[k].confidence * s[k].confidence]
      [] OTHER -> Ensemble!Ones(s)

LEMMA ConsensusWeighs ==
    ASSUME NEW strategy, NEW s
    PROVE  Ensemble!Consensus(strategy, s) = Ensemble!WeightedMean(s, WeightsOf(strategy, s))
BY DEF Ensemble!Consensus, WeightsOf

(* A mean by weight is a fraction, of sums when there is any weight. *)
LEMMA MeanOfVotes ==
    ASSUME NEW s, IsVotes(s), NEW w, w \in [1 .. Len(s) -> Nat]
    PROVE  LET m == Ensemble!WeightedMean(s, w)
           IN  /\ m.num \in Int /\ m.den \in Nat \ {0}
               /\ Weighed(s, w) \in [1 .. Len(s) -> Int]
               /\ (\E k \in 1 .. Len(s) : w[k] # 0) =>
                     m.num = TotalOf(Weighed(s, w)) /\ m.den = TotalOf(w)
<1> DEFINE n == Len(s)
           x == Weighed(s, w)
           V == TotalOf(x)
           W == TotalOf(w)
<1>1. n \in Nat /\ w \in [1 .. n -> Int] /\ \A k \in 1 .. n : w[k] \in Nat /\ s[k].value \in Int
  BY DEF IsVotes
<1>2. x \in [1 .. n -> Int]
  <2>1. \A k \in 1 .. n : s[k].value * w[k] \in Int
    BY <1>1
  <2>2. QED
    BY <2>1 DEF Weighed
<1>3. x = [k \in DOMAIN s |-> s[k].value * w[k]]
  BY DEF IsVotes, Weighed
<1> HIDE DEF x, n
<1>4. Ensemble!Total(x) = V /\ V \in Int /\ Ensemble!Total(w) = W /\ W \in Int
  BY <1>1, <1>2, TotalOfRow
<1>5. PICK f : Sums(f, w, n) /\ W = f[n]
  BY <1>1, TotalOfRow
<1>6. W \in Nat /\ \A k \in 1 .. n : w[k] <= W
  BY <1>1, <1>5, SumsAbove
<1>7. Ensemble!WeightedMean(s, w) = IF W = 0 THEN [num |-> 0, den |-> 1] ELSE [num |-> V, den |-> W]
  BY <1>3, <1>4 DEF Ensemble!WeightedMean, Ensemble!Fraction
<1> HIDE DEF V, W
<1>8. (\E k \in 1 .. n : w[k] # 0) => W # 0
  BY <1>1, <1>6
<1>9. QED
  BY <1>2, <1>4, <1>6, <1>7, <1>8 DEF V, W, n, x

(* Some vote has weight: the mean lies between two of the votes. *)
LEMMA MeanWithin ==
    ASSUME NEW s, IsVotes(s), NEW w, w \in [1 .. Len(s) -> Nat], \E k \in 1 .. Len(s) : w[k] # 0
    PROVE  LET m == Ensemble!WeightedMean(s, w)
           IN  /\ \E k \in 1 .. Len(s) : s[k].value * m.den <= m.num
               /\ \E k \in 1 .. Len(s) : m.num <= s[k].value * m.den
<1> DEFINE n == Len(s)
           m == Ensemble!WeightedMean(s, w)
           v == [k \in 1 .. n |-> s[k].value]
           x == Weighed(s, w)
<1>1. /\ n \in Nat \ {0} /\ w \in [1 .. n -> Int]
      /\ \A k \in 1 .. n : w[k] \in Nat /\ v[k] = s[k].value /\ v[k] \in Int /\ x[k] = v[k] * w[k]
  BY DEF IsVotes, Weighed
<1>2. m.num = TotalOf(x) /\ m.den = TotalOf(w) /\ m.num \in Int /\ m.den \in Nat /\ x \in [1 .. n -> Int]
  BY MeanOfVotes
<1> HIDE DEF n, v, x, m
<1>3. PICK l \in 1 .. n : \A k \in 1 .. n : v[l] <= v[k]
  BY <1>1, LeastAndGreatest
<1>4. PICK h \in 1 .. n : \A k \in 1 .. n : v[k] <= v[h]
  BY <1>1, LeastAndGreatest
<1> DEFINE p == v[l]
           q == v[h]
<1>5. p \in Int /\ q \in Int /\ \A k \in 1 .. n : p <= v[k] /\ v[k] <= q
  BY <1>1, <1>3, <1>4
<1> HIDE DEF p, q
<1>6. \A k \in 1 .. n : p * w[k] <= 1 * x[k] + 0 /\ 1 * x[k] <= q * w[k] + 0
  <2> TAKE k \in 1 .. n
  <2> DEFINE a == v[k] - p
             b == q - v[k]
             c == w[k]
             u == v[k]
  <2>1. a \in Nat /\ b \in Nat /\ c \in Nat /\ u \in Int /\ p = u - a /\ q = u + b /\ x[k] = u * c
    <3>1. c \in Nat /\ u \in Int /\ x[k] = u * c
      BY <1>1
    <3>2. p \in Int /\ q \in Int /\ p <= u /\ u <= q
      BY <1>5
    <3> HIDE DEF u, c
    <3>3. a \in Nat /\ b \in Nat /\ p = u - a /\ q = u + b
      <4>1. u \in Int /\ a = u - p /\ b = q - u
        BY <3>1 DEF u
      <4>2. QED
        BY <3>2, <4>1
    <3> HIDE DEF a, b
    <3>4. QED
      BY <3>1, <3>3
  <2> HIDE DEF a, b, c, u
  <2>2. (u - a) * c = u * c - a * c /\ (u + b) * c = u * c + b * c
    BY <2>1
  <2>3. a * c \in Nat /\ b * c \in Nat /\ u * c \in Int
    BY <2>1
  <2>4. p * c <= 1 * x[k] + 0 /\ 1 * x[k] <= q * c + 0
    BY <2>1, <2>2, <2>3
  <2>5. QED
    BY <2>4 DEF c
<1>7. p * TotalOf(w) <= 1 * TotalOf(x) + 0 * n
  <2>1. 1 \in Int /\ 0 \in Int /\ n \in Nat /\ \A k \in 1 .. n : p * w[k] <= 1 * x[k] + 0
    BY <1>1, <1>6
  <2>2. QED
    BY <1>1, <1>2, <1>5, <2>1, TotalsCompare
<1>8. 1 * TotalOf(x) <= q * TotalOf(w) + 0 * n
  <2>1. 1 \in Int /\ 0 \in Int /\ n \in Nat /\ \A k \in 1 .. n : 1 * x[k] <= q * w[k] + 0
    BY <1>1, <1>6
  <2>2. QED
    BY <1>1, <1>2, <1>5, <2>1, TotalsCompare
<1>9. p * m.den <= m.num /\ m.num <= q * m.den
  <2> DEFINE a == m.num
             b == m.den
  <2>1. a \in Int /\ b \in Int /\ p * b <= 1 * a + 0 * n /\ 1 * a <= q * b + 0 * n
    BY <1>2, <1>7, <1>8
  <2>2. p * b \in Int /\ q * b \in Int /\ 0 * n = 0
    BY <1>1, <1>5, <2>1
  <2> HIDE DEF a, b
  <2>3. p * b <= a /\ a <= q * b
    BY <2>1, <2>2
  <2>4. QED
    BY <2>3 DEF a, b
<1>10. QED
  BY <1>1, <1>3, <1>4, <1>9 DEF n, m, p, q

(* The products of the first likelihoods. *)
Products(f, s, n) ==
    f = [k \in 0 .. n |->
           IF k = 0 THEN [num |-> 1, den |-> 1]
           ELSE [num |-> f[k - 1].num * Ensemble!Likelihood(s[k].confidence).num,
                 den |-> f[k - 1].den * Ensemble!Likelihood(s[k].confidence).den]]

(* A likelihood is a fraction of one. *)
LEMMA LikelihoodIs ==
    ASSUME NEW c \in 0 .. 10, Floor \in Nat \ {0}
    PROVE  LET l == Ensemble!Likelihood(c)
           IN  l.num \in Nat /\ l.den \in Nat \ {0} /\ l.num <= l.den
<1>1. CASE c * Floor < 10
  <2>1. Ensemble!Likelihood(c) = [num |-> 1, den |-> Floor]
    BY <1>1 DEF Ensemble!Likelihood, Ensemble!Fraction
  <2>2. QED
    BY <2>1
<1>2. CASE ~(c * Floor < 10)
  <2>1. Ensemble!Likelihood(c) = [num |-> c, den |-> 10]
    BY <1>2 DEF Ensemble!Likelihood, Ensemble!Fraction
  <2>2. QED
    BY <2>1
<1>3. QED
  BY <1>1, <1>2

LEMMA ProductsExist == ASSUME NEW s, NEW n \in Nat PROVE \E f : Products(f, s, n)
<1> DEFINE P == {m \in 0 .. n : \E f : Products(f, s, m)}
           One == [num |-> 1, den |-> 1]
           Times(a, k) == [num |-> a.num * Ensemble!Likelihood(s[k].confidence).num,
                           den |-> a.den * Ensemble!Likelihood(s[k].confidence).den]
<1>1. \A f, m : Products(f, s, m) <=> f = [k \in 0 .. m |-> IF k = 0 THEN One ELSE Times(f[k - 1], k)]
  BY DEF Products
<1> HIDE DEF One, Times
<1>2. 0 \in P
  <2> DEFINE f == [k \in 0 .. 0 |-> One]
  <2>1. f = [k \in 0 .. 0 |-> IF k = 0 THEN One ELSE Times(f[k - 1], k)]
    OBVIOUS
  <2>2. Products(f, s, 0)
    BY <1>1, <2>1
  <2>3. 0 \in 0 .. n
    OBVIOUS
  <2> HIDE DEF f
  <2>4. QED
    BY <2>2, <2>3
<1>3. ASSUME NEW m \in 0 .. n - 1, m \in P PROVE m + 1 \in P
  <2>1. PICK f : Products(f, s, m)
    BY <1>3
  <2>2. f = [k \in 0 .. m |-> IF k = 0 THEN One ELSE Times(f[k - 1], k)]
    BY <1>1, <2>1
  <2> DEFINE g == [k \in 0 .. m + 1 |-> IF k = m + 1 THEN Times(f[m], m + 1) ELSE f[k]]
             After(k) == IF k = 0 THEN One ELSE Times(g[k - 1], k)
  <2>3. ASSUME NEW k \in 0 .. m + 1 PROVE g[k] = After(k)
    <3>1. CASE k = m + 1
      <4>1. k - 1 = m /\ k # 0 /\ m \in 0 .. m + 1 /\ m # m + 1
        BY <3>1
      <4>2. g[m] = f[m]
        BY <4>1
      <4>3. QED
        BY <3>1, <4>1, <4>2
    <3>2. CASE k # m + 1
      <4>1. k \in 0 .. m /\ (k # 0 => k - 1 \in 0 .. m + 1 /\ k - 1 # m + 1)
        BY <3>2
      <4>2. f[k] = IF k = 0 THEN One ELSE Times(f[k - 1], k)
        BY <2>2, <4>1
      <4>3. QED
        BY <3>2, <4>1, <4>2
    <3>3. QED
      BY <3>1, <3>2
  <2>4. g = [k \in 0 .. m + 1 |-> After(k)]
    <3>1. g = [k \in 0 .. m + 1 |-> g[k]]
      OBVIOUS
    <3> HIDE DEF g
    <3>2. QED
      BY <2>3, <3>1
  <2>5. Products(g, s, m + 1)
    BY <1>1, <2>4
  <2>6. m + 1 \in 0 .. n
    OBVIOUS
  <2> HIDE DEF g
  <2>7. QED
    BY <2>5, <2>6
<1>4. n \in 0 .. n
  OBVIOUS
<1> HIDE DEF P
<1>5. n \in P
  BY <1>2, <1>3, <1>4, InductionTo
<1>6. QED
  BY <1>5 DEF P

(* Times a fraction of one, what was below p / q stays below. *)
LEMMA FractionBelow ==
    ASSUME NEW a \in Nat, NEW b \in Nat \ {0}, NEW p \in Nat, NEW q \in Nat \ {0},
           NEW e \in Nat, NEW f \in Nat \ {0}, e <= f, a * q <= p * b
    PROVE  a * e \in Nat /\ b * f \in Nat \ {0} /\ (a * e) * q <= p * (b * f)
<1> DEFINE u == a * q
           v == p * b
           g == f - e
           h == v - u
<1>1. u \in Nat /\ v \in Nat /\ g \in Nat /\ h \in Nat /\ f = e + g /\ v = u + h
  OBVIOUS
<1>2. (a * e) * q = u * e /\ p * (b * f) = v * f /\ a * e \in Nat /\ b * f \in Nat \ {0}
  OBVIOUS
<1> HIDE DEF u, v, g, h
<1>3. u * e <= u * f
  <2>1. u * (e + g) = u * e + u * g /\ u * g \in Nat /\ u * e \in Nat
    BY <1>1
  <2>2. QED
    BY <1>1, <2>1
<1>4. u * f <= v * f
  <2>1. (u + h) * f = u * f + h * f /\ h * f \in Nat /\ u * f \in Nat
    BY <1>1
  <2>2. QED
    BY <1>1, <2>1
<1>5. u * e \in Nat /\ u * f \in Nat /\ v * f \in Nat
  BY <1>1
<1>6. QED
  BY <1>2, <1>3, <1>4, <1>5

(* Of likelihoods up to one the product is no more than the first. *)
LEMMA ProductBelow ==
    ASSUME NEW s, IsVotes(s), Floor \in Nat \ {0}
    PROVE  LET p == Ensemble!Product(s)
               l == Ensemble!Likelihood(s[1].confidence)
           IN  p.num \in Nat /\ p.den \in Nat \ {0} /\ p.num * l.den <= l.num * p.den
<1> DEFINE n == Len(s)
           L(k) == Ensemble!Likelihood(s[k].confidence)
           c == L(1).num
           d == L(1).den
           Loop(f) == f = [k \in 0 .. n |->
             IF k = 0 THEN Ensemble!Fraction(1, 1)
             ELSE Ensemble!Fraction(f[k - 1].num * Ensemble!Likelihood(s[k].confidence).num,
                                    f[k - 1].den * Ensemble!Likelihood(s[k].confidence).den)]
           product == CHOOSE f : Loop(f)
           Below(k) == /\ product[k].num \in Nat /\ product[k].den \in Nat \ {0}
                       /\ product[k].num * d <= c * product[k].den
           P == {k \in 0 .. n : k = 0 \/ Below(k)}
<1>1. n \in Nat \ {0} /\ \A k \in 1 .. n : s[k].confidence \in 0 .. 10
  BY DEF IsVotes
<1>2. \A f : Products(f, s, n) <=> Loop(f)
  BY DEF Products, Ensemble!Fraction
<1>3. \E f : Loop(f)
  <2> HIDE DEF Loop, n
  <2> QED BY <1>1, <1>2, ProductsExist
<1>4. Loop(product)
  <2> HIDE DEF Loop
  <2> QED BY <1>3
<1>5. Ensemble!Product(s) = product[n]
  BY DEF Ensemble!Product
<1> HIDE DEF Loop, product
<1>6. Products(product, s, n)
  BY <1>2, <1>4
<1> HIDE DEF n
<1>7. \A k \in 1 .. n : L(k).num \in Nat /\ L(k).den \in Nat \ {0} /\ L(k).num <= L(k).den
  BY <1>1, LikelihoodIs
<1>8. product[0] = [num |-> 1, den |-> 1]
  <2>1. 0 \in 0 .. n
    BY <1>1
  <2>2. QED
    BY <1>6, <2>1 DEF Products
<1>9. ASSUME NEW k \in 0 .. n - 1
      PROVE  product[k + 1] = [num |-> product[k].num * L(k + 1).num,
                               den |-> product[k].den * L(k + 1).den]
  <2>1. k + 1 \in 0 .. n /\ k + 1 # 0 /\ (k + 1) - 1 = k
    BY <1>1
  <2>2. product[k + 1] = [num |-> product[(k + 1) - 1].num * L(k + 1).num,
                          den |-> product[(k + 1) - 1].den * L(k + 1).den]
    BY <1>6, <2>1 DEF Products
  <2>3. QED
    BY <2>1, <2>2
<1> HIDE DEF L
<1>10. ASSUME NEW k \in 0 .. n - 1, k \in P PROVE k + 1 \in P
  <2>1. k + 1 \in 0 .. n /\ k + 1 \in 1 .. n /\ 1 \in 1 .. n
    BY <1>1
  <2> DEFINE a == product[k].num
             b == product[k].den
             e == L(k + 1).num
             f == L(k + 1).den
  <2>2. product[k + 1].num = a * e /\ product[k + 1].den = b * f
    <3>1. product[k + 1] = [num |-> a * e, den |-> b * f]
      BY <1>9
    <3> HIDE DEF a, b, e, f
    <3>2. QED
      BY <3>1
  <2>3. e \in Nat /\ f \in Nat \ {0} /\ e <= f /\ c \in Nat /\ d \in Nat \ {0}
    BY <1>7, <2>1
  <2>4. CASE k = 0
    <3>1. a = 1 /\ b = 1 /\ e = c /\ f = d
      BY <1>8, <2>4
    <3> HIDE DEF a, b, c, d, e, f
    <3>2. a * e = c /\ b * f = d /\ c * d \in Int
      BY <2>3, <3>1
    <3>3. Below(k + 1)
      BY <2>2, <2>3, <3>2
    <3>4. QED
      BY <2>1, <3>3
  <2>5. CASE k # 0
    <3>1. a \in Nat /\ b \in Nat \ {0} /\ a * d <= c * b
      BY <1>10, <2>5
    <3> HIDE DEF a, b, c, d, e, f
    <3>2. a * e \in Nat /\ b * f \in Nat \ {0} /\ (a * e) * d <= c * (b * f)
      BY <2>3, <3>1, FractionBelow
    <3>3. Below(k + 1)
      BY <2>2, <3>2
    <3>4. QED
      BY <2>1, <3>3
  <2>6. QED
    BY <2>4, <2>5
<1>11. 0 \in P
  BY <1>1
<1> HIDE DEF P
<1>12. \A k \in 0 .. n : k \in P
  BY <1>1, <1>10, <1>11, InductionTo
<1>13. Below(n)
  BY <1>1, <1>12 DEF P
<1>14. QED
  BY <1>5, <1>13 DEF L

LEMMA OneValue ==
    ASSUME NEW n \in Nat \ {0}, NEW x
    PROVE  LET S == {x[k] : k \in 1 .. n}
           IN  Cardinality(S) = 1 <=> \A j, k \in 1 .. n : x[j] = x[k]
<1> DEFINE S == {x[k] : k \in 1 .. n}
           f == [k \in 1 .. n |-> x[k]]
<1>1. f \in Surjection(1 .. n, S)
  BY DEF Surjection
<1>2. 1 \in 1 .. n /\ IsFiniteSet(1 .. n)
  BY FS_Interval
<1>3. x[1] \in S
  BY <1>2
<1>4. \A y : y \in S <=> \E k \in 1 .. n : y = x[k]
  OBVIOUS
<1> HIDE DEF S, f
<1>5. IsFiniteSet(S)
  BY <1>1, <1>2, FS_Surjection
<1>6. Cardinality(S) = 1 <=> \E y : S = {y}
  BY <1>5, FS_Singleton
<1>7. (\E y : S = {y}) <=> \A j, k \in 1 .. n : x[j] = x[k]
  <2>1. ASSUME NEW y, S = {y} PROVE \A j, k \in 1 .. n : x[j] = x[k]
    <3>1. \A k \in 1 .. n : x[k] = y
      BY <1>4, <2>1
    <3>2. QED
      BY <3>1
  <2>2. ASSUME \A j, k \in 1 .. n : x[j] = x[k] PROVE \E y : S = {y}
    <3>1. S = {x[1]}
      BY <1>2, <1>3, <1>4, <2>2
    <3>2. QED
      BY <3>1
  <2>3. QED
    BY <2>1, <2>2
<1>8. QED
  BY <1>6, <1>7 DEF S

(* The votes spread exactly when they differ, whatever mean they have of their own. *)
LEMMA SpreadOfVotes ==
    ASSUME NEW s, IsVotes(s), NEW m, m.num \in Int, m.den \in Nat \ {0},
           \E k \in 1 .. Len(s) : s[k].value * m.den <= m.num,
           \E k \in 1 .. Len(s) : m.num <= s[k].value * m.den
    PROVE  Ensemble!Variance(s, m).num = 0
             <=> Len(s) = 1 \/ \A j, k \in 1 .. Len(s) : s[j].value = s[k].value
<1> DEFINE n == Len(s)
           a == m.num
           b == m.den
           x == [k \in 1 .. n |-> s[k].value]
           q == [k \in 1 .. n |-> (x[k] * b - a) * (x[k] * b - a)]
<1>1. n \in Nat \ {0} /\ DOMAIN s = 1 .. n /\ a \in Int /\ b \in Nat \ {0}
      /\ \A k \in 1 .. n : x[k] = s[k].value /\ x[k] \in Int
  BY DEF IsVotes
<1>2. CASE n = 1
  <2>1. Ensemble!Variance(s, m) = [num |-> 0, den |-> 1]
    BY <1>2 DEF Ensemble!Variance, Ensemble!Fraction
  <2>2. QED
    BY <1>2, <2>1
<1>3. CASE n # 1
  <2>1. q = [k \in DOMAIN s |-> (s[k].value * m.den - m.num) * (s[k].value * m.den - m.num)]
    BY <1>1
  <2>2. ~(Len(s) < 2)
    BY <1>1, <1>3
  <2>3. Ensemble!Variance(s, m).num = Ensemble!Total(q)
    BY <2>1, <2>2 DEF Ensemble!Variance, Ensemble!Fraction
  <2>4. \A k \in 1 .. n : q[k] \in Nat /\ (q[k] = 0 <=> x[k] * b = a)
    <3> TAKE k \in 1 .. n
    <3> DEFINE d == x[k] * b - a
    <3>1. d \in Int /\ (d = 0 <=> x[k] * b = a) /\ q[k] = d * d
      <4> DEFINE u == x[k] * b
      <4>1. u \in Int /\ a \in Int
        BY <1>1
      <4>2. q[k] = (u - a) * (u - a)
        OBVIOUS
      <4> HIDE DEF a, u, q
      <4>3. u - a \in Int /\ (u - a = 0 <=> u = a)
        BY <4>1
      <4>4. QED
        BY <4>2, <4>3 DEF u
    <3> HIDE DEF d, q
    <3>2. CASE d >= 0
      <4>1. d * d \in Nat /\ (d * d = 0 <=> d = 0)
        BY <3>1, <3>2
      <4>2. QED
        BY <3>1, <4>1
    <3>3. CASE d < 0
      <4> DEFINE e == -d
      <4>1. e \in Nat \ {0} /\ d * d = e * e
        BY <3>1, <3>3
      <4> HIDE DEF e
      <4>2. e * e \in Nat \ {0}
        BY <4>1
      <4>3. QED
        BY <3>1, <3>3, <4>1, <4>2
    <3>4. QED
      BY <3>1, <3>2, <3>3
  <2>5. q \in [1 .. n -> Int]
    <3>1. \A k \in 1 .. n : q[k] \in Int
      BY <2>4
    <3>2. q = [k \in 1 .. n |-> q[k]]
      OBVIOUS
    <3> HIDE DEF q
    <3>3. QED
      BY <3>1, <3>2
  <2> HIDE DEF n, a, b, x, q
  <2>6. PICK f : Sums(f, q, n) /\ TotalOf(q) = f[n] /\ Ensemble!Total(q) = TotalOf(q)
    BY <1>1, <2>5, TotalOfRow
  <2>7. ASSUME Ensemble!Total(q) = 0, NEW j \in 1 .. n, NEW k \in 1 .. n PROVE x[j] = x[k]
    <3>1. n \in Nat /\ \A i \in 1 .. n : q[i] \in Nat
      BY <1>1, <2>4
    <3>2. \A i \in 1 .. n : q[i] <= f[n]
      BY <2>6, <3>1, SumsAbove
    <3>3. \A i \in 1 .. n : q[i] <= 0
      BY <2>6, <2>7, <3>2
    <3>4. x[j] * b = a /\ x[k] * b = a
      BY <2>4, <3>3
    <3> DEFINE u == x[j]
               v == x[k]
               d == u - v
    <3>5. u \in Int /\ v \in Int /\ d \in Int /\ u = v + d /\ u * b = a /\ v * b = a
      BY <1>1, <3>4
    <3> HIDE DEF u, v, d
    <3>6. (v + d) * b = v * b + d * b /\ v * b \in Int /\ d * b \in Int
      BY <1>1, <3>5
    <3>7. d * b = 0
      BY <3>5, <3>6
    <3>8. d = 0
      BY <1>1, <3>5, <3>7
    <3>9. u = v
      BY <3>5, <3>8
    <3>10. QED
      BY <3>9 DEF u, v
  <2>8. ASSUME \A j, k \in 1 .. n : x[j] = x[k] PROVE Ensemble!Total(q) = 0
    <3>1. PICK l \in 1 .. n : x[l] * b <= a
      BY <1>1 DEF n, a, b
    <3>2. PICK h \in 1 .. n : a <= x[h] * b
      BY <1>1 DEF n, a, b
    <3>3. x[h] * b = x[l] * b /\ x[l] * b \in Int
      BY <1>1, <2>8
    <3>4. x[l] * b = a
      BY <1>1, <3>1, <3>2, <3>3
    <3>5. \A k \in 1 .. n : x[k] = x[l]
      BY <2>8
    <3>6. \A k \in 1 .. n : 0 <= q[k] /\ q[k] <= 0
      BY <2>4, <3>4, <3>5
    <3>7. 0 \in Int /\ n \in Nat
      BY <1>1
    <3>8. 0 * n <= TotalOf(q) /\ TotalOf(q) <= 0 * n
      BY <2>5, <3>6, <3>7, TotalWithin
    <3>9. 0 * n = 0 /\ TotalOf(q) \in Int
      BY <2>5, <3>7, TotalOfRow
    <3>10. QED
      BY <2>6, <3>8, <3>9
  <2>9. Ensemble!Total(q) = 0 <=> \A j, k \in 1 .. n : x[j] = x[k]
    BY <2>7, <2>8
  <2>10. (\A j, k \in 1 .. n : x[j] = x[k]) <=> \A j, k \in 1 .. n : s[j].value = s[k].value
    BY <1>1
  <2>11. QED
    BY <1>3, <2>3, <2>9, <2>10 DEF n
<1>4. QED
  BY <1>2, <1>3

(* The surest vote is at least as sure as the whole. *)
LEMMA ConfidenceBelow ==
    ASSUME NEW strategy, NEW s, IsVotes(s), Floor \in Nat \ {0}
    PROVE  LET c == Ensemble!Confidence(strategy, s)
               l(k) == Ensemble!Likelihood(s[k].confidence)
           IN  \E k \in 1 .. Len(s) :
                  IF strategy = "BayesianEnsemble" THEN c.num * l(k).den <= l(k).num * c.den
                  ELSE c.num * 10 <= s[k].confidence * c.den
<1> DEFINE n == Len(s)
           x == Ensemble!Confidences(s)
           C == Ensemble!Confidence(strategy, s)
<1>1. /\ n \in Nat \ {0}
      /\ x \in [1 .. n -> Int] /\ \A k \in 1 .. n : x[k] = s[k].confidence /\ x[k] \in 0 .. 10
  BY DEF IsVotes, Ensemble!Confidences
<1>2. CASE strategy = "BayesianEnsemble"
  <2>1. C = Ensemble!Product(s)
    BY <1>2 DEF Ensemble!Confidence
  <2>2. 1 \in 1 .. n
    BY <1>1
  <2> HIDE DEF C
  <2>3. C.num * Ensemble!Likelihood(s[1].confidence).den
          <= Ensemble!Likelihood(s[1].confidence).num * C.den
    BY <2>1, ProductBelow
  <2>4. QED
    BY <1>2, <2>2, <2>3 DEF C, n
<1>3. CASE strategy # "BayesianEnsemble"
  <2>1. C = [num |-> Ensemble!Total(x), den |-> 10 * n]
    BY <1>3 DEF Ensemble!Confidence, Ensemble!Fraction
  <2> HIDE DEF C, n, x
  <2>2. Ensemble!Total(x) = TotalOf(x) /\ TotalOf(x) \in Int
    BY <1>1, TotalOfRow
  <2>3. \A k \in 1 .. n : x[k] \in Int
    BY <1>1
  <2>4. PICK h \in 1 .. n : \A k \in 1 .. n : x[k] <= x[h]
    BY <1>1, <2>3, LeastAndGreatest
  <2> DEFINE c == x[h]
  <2>5. c \in Int /\ 0 \in Int /\ n \in Nat /\ \A k \in 1 .. n : 0 <= x[k] /\ x[k] <= c
    BY <1>1, <2>4
  <2> HIDE DEF c
  <2>6. TotalOf(x) <= c * n
    BY <1>1, <2>5, TotalWithin
  <2> DEFINE t == TotalOf(x)
             u == c * n
  <2>7. t \in Int /\ u \in Int /\ t <= u /\ c * (10 * n) = u * 10
    BY <2>2, <2>5, <2>6
  <2> HIDE DEF t, u
  <2>8. t * 10 <= c * (10 * n)
    BY <2>7
  <2>9. C.num * 10 <= c * C.den
    BY <2>1, <2>2, <2>8 DEF t
  <2>10. QED
    BY <1>1, <1>3, <2>9 DEF n, c, C
<1>4. QED
  BY <1>2, <1>3

(* A vote with some confidence has some weight; as much confidence, as much weight. *)
LEMMA WeightsAre ==
    ASSUME NEW strategy, NEW s, IsVotes(s)
    PROVE  LET w == WeightsOf(strategy, s)
           IN  /\ w \in [1 .. Len(s) -> Nat]
               /\ \A k \in 1 .. Len(s) : s[k].confidence # 0 => w[k] # 0
               /\ \A j, k \in 1 .. Len(s) : s[j].confidence = s[k].confidence => w[j] = w[k]
<1> DEFINE n == Len(s)
           w == WeightsOf(strategy, s)
<1>1. DOMAIN s = 1 .. n /\ \A k \in 1 .. n : s[k].confidence \in Nat
  BY DEF IsVotes
<1>2. CASE strategy = "WeightedMajority"
  <2>1. w = [k \in 1 .. n |-> s[k].confidence]
    BY <1>1, <1>2 DEF WeightsOf, Ensemble!Confidences
  <2>2. QED
    BY <1>1, <2>1
<1>3. CASE strategy = "ConfidenceWeighted"
  <2>1. w = [k \in 1 .. n |-> s[k].confidence * s[k].confidence]
    BY <1>1, <1>3 DEF WeightsOf
  <2>2. \A c \in Nat : c * c \in Nat /\ (c # 0 => c * c # 0)
    OBVIOUS
  <2> HIDE DEF w, n
  <2>3. \A k \in 1 .. n : w[k] = s[k].confidence * s[k].confidence /\ w[k] \in Nat
                          /\ (s[k].confidence # 0 => w[k] # 0)
    BY <1>1, <2>1, <2>2
  <2>4. w \in [1 .. n -> Nat]
    BY <2>1, <2>3
  <2>5. \A j, k \in 1 .. n : s[j].confidence = s[k].confidence => w[j] = w[k]
    BY <2>3
  <2>6. QED
    BY <2>3, <2>4, <2>5 DEF w, n
<1>4. CASE strategy \notin {"WeightedMajority", "ConfidenceWeighted"}
  <2>1. w = [k \in 1 .. n |-> 1]
    BY <1>1, <1>4 DEF WeightsOf, Ensemble!Ones
  <2>2. QED
    BY <2>1
<1>5. QED
  BY <1>2, <1>3, <1>4

(* Weighed alike, votes have their plain mean. *)
LEMMA MeanOfEqualWeights ==
    ASSUME NEW s, IsVotes(s), NEW w, w \in [1 .. Len(s) -> Nat], NEW q \in Nat \ {0},
           \A k \in 1 .. Len(s) : w[k] = q
    PROVE  LET m == Ensemble!WeightedMean(s, w)
               V == TotalOf([k \in 1 .. Len(s) |-> s[k].value])
           IN  V \in Int /\ m.num = q * V /\ m.den = q * Len(s)
<1> DEFINE n == Len(s)
           m == Ensemble!WeightedMean(s, w)
           v == [k \in 1 .. n |-> s[k].value]
           x == Weighed(s, w)
<1>1. /\ n \in Nat \ {0} /\ v \in [1 .. n -> Int] /\ w \in [1 .. n -> Int]
      /\ \A k \in 1 .. n : v[k] \in Int /\ w[k] = q /\ x[k] = v[k] * w[k]
  BY DEF IsVotes, Weighed
<1>2. \E k \in 1 .. Len(s) : w[k] # 0
  <2>1. 1 \in 1 .. n
    BY <1>1
  <2>2. QED
    BY <1>1, <2>1
<1>3. m.num = TotalOf(x) /\ m.den = TotalOf(w) /\ x \in [1 .. n -> Int]
  BY <1>2, MeanOfVotes
<1> HIDE DEF n, m, v, x
<1>4. Linear(x, v, n, q, 0) /\ Linear(w, v, n, 0, q)
  <2> SUFFICES ASSUME NEW k \in 1 .. n
               PROVE  x[k] = q * v[k] + 0 /\ w[k] = 0 * v[k] + q
    BY DEF Linear
  <2> DEFINE u == v[k]
  <2>1. u \in Int /\ x[k] = u * q /\ w[k] = q
    BY <1>1
  <2> HIDE DEF u
  <2>2. x[k] = q * u + 0 /\ w[k] = 0 * u + q
    BY <2>1
  <2>3. QED
    BY <2>2 DEF u
<1>5. n \in Nat /\ q \in Int /\ 0 \in Int
  BY <1>1
<1>6. TotalOf(v) \in Int
  BY <1>1, <1>5, TotalOfRow
<1>7. TotalOf(x) = q * TotalOf(v) + 0 * n
  <2>1. /\ n \in Nat /\ x \in [1 .. n -> Int] /\ v \in [1 .. n -> Int] /\ q \in Int /\ 0 \in Int
        /\ Linear(x, v, n, q, 0)
    BY <1>1, <1>3, <1>4, <1>5
  <2>2. QED
    BY ONLY <2>1, TotalsEqual
<1>8. TotalOf(w) = 0 * TotalOf(v) + q * n
  <2>1. /\ n \in Nat /\ w \in [1 .. n -> Int] /\ v \in [1 .. n -> Int] /\ q \in Int /\ 0 \in Int
        /\ Linear(w, v, n, 0, q)
    BY <1>1, <1>4, <1>5
  <2>2. QED
    BY ONLY <2>1, TotalsEqual
<1> DEFINE V == TotalOf(v)
<1>9. q * V + 0 * n = q * V /\ 0 * V + q * n = q * n
  <2>1. V \in Int /\ q * V \in Int /\ q * n \in Int
    BY <1>5, <1>6
  <2> HIDE DEF V
  <2>2. QED
    BY <1>5, <2>1
<1>10. QED
  BY <1>3, <1>6, <1>7, <1>8, <1>9 DEF n, m, v, V

(* One vote of the whole, by whichever strategy. *)
LEMMA VoteSound ==
    ASSUME NEW s, IsVotes(s), NEW strategy
    PROVE  LET m == Ensemble!Consensus(strategy, s)
               u == Ensemble!Consensus("UnweightedMajority", s)
               sure == \E k \in 1 .. Len(s) : s[k].confidence # 0
               equal == \A j, k \in 1 .. Len(s) : s[j].confidence = s[k].confidence
           IN  /\ sure => /\ \E k \in 1 .. Len(s) : s[k].value * m.den <= m.num
                          /\ \E k \in 1 .. Len(s) : m.num <= s[k].value * m.den
                          /\ Ensemble!Variance(s, m).num = 0
                               <=> Len(s) = 1 \/ \A j, k \in 1 .. Len(s) : s[j].value = s[k].value
               /\ equal /\ sure => /\ u.num * m.den <= m.num * u.den
                                   /\ m.num * u.den <= u.num * m.den
<1> DEFINE n == Len(s)
           w == WeightsOf(strategy, s)
           o == WeightsOf("UnweightedMajority", s)
           m == Ensemble!Consensus(strategy, s)
           u == Ensemble!Consensus("UnweightedMajority", s)
<1>1. m = Ensemble!WeightedMean(s, w) /\ u = Ensemble!WeightedMean(s, o)
  BY ConsensusWeighs
<1>2. n \in Nat \ {0} /\ 1 \in 1 .. n
  BY DEF IsVotes
<1>3. /\ w \in [1 .. n -> Nat] /\ \A k \in 1 .. n : s[k].confidence # 0 => w[k] # 0
      /\ \A j, k \in 1 .. n : s[j].confidence = s[k].confidence => w[j] = w[k]
  BY WeightsAre
<1>4. o \in [1 .. n -> Nat] /\ \A k \in 1 .. n : o[k] = 1
  BY DEF WeightsOf, Ensemble!Ones, IsVotes
<1> HIDE DEF w, o, m, u
<1>5. ASSUME NEW i \in 1 .. n, s[i].confidence # 0
      PROVE  /\ \E k \in 1 .. n : s[k].value * m.den <= m.num
             /\ \E k \in 1 .. n : m.num <= s[k].value * m.den
             /\ Ensemble!Variance(s, m).num = 0
                  <=> n = 1 \/ \A j, k \in 1 .. n : s[j].value = s[k].value
  <2>1. \E k \in 1 .. n : w[k] # 0
    BY <1>3, <1>5
  <2>2. m.num \in Int /\ m.den \in Nat \ {0}
    BY <1>1, <1>3, MeanOfVotes
  <2>3. /\ \E k \in 1 .. n : s[k].value * m.den <= m.num
        /\ \E k \in 1 .. n : m.num <= s[k].value * m.den
    BY <1>1, <1>3, <2>1, MeanWithin
  <2>4. Ensemble!Variance(s, m).num = 0
          <=> n = 1 \/ \A j, k \in 1 .. n : s[j].value = s[k].value
    BY <2>2, <2>3, SpreadOfVotes
  <2>5. QED
    BY <2>3, <2>4
<1>6. ASSUME NEW i \in 1 .. n, s[i].confidence # 0,
             \A j, k \in 1 .. n : s[j].confidence = s[k].confidence
      PROVE  u.num * m.den <= m.num * u.den /\ m.num * u.den <= u.num * m.den
  <2> DEFINE q == w[i]
             V == TotalOf([k \in 1 .. n |-> s[k].value])
  <2>1. q \in Nat \ {0} /\ \A k \in 1 .. n : w[k] = q
    BY <1>3, <1>6
  <2> HIDE DEF q
  <2>2. V \in Int /\ m.num = q * V /\ m.den = q * n
    <3>1. IsVotes(s) /\ w \in [1 .. Len(s) -> Nat] /\ q \in Nat \ {0} /\ \A k \in 1 .. Len(s) : w[k] = q
      BY <1>3, <2>1
    <3>2. QED
      BY <1>1, <3>1, MeanOfEqualWeights
  <2>3. 1 \in Nat \ {0}
    OBVIOUS
  <2>4. u.num = 1 * V /\ u.den = 1 * n
    BY <1>1, <1>4, <2>3, MeanOfEqualWeights
  <2> HIDE DEF V, n
  <2>5. 1 * V = V /\ 1 * n = n
    BY <1>2, <2>2
  <2>6. V * (q * n) = (q * V) * n /\ V * (q * n) \in Int
    BY <1>2, <2>1, <2>2
  <2>7. QED
    BY <2>2, <2>4, <2>5, <2>6
<1>7. QED
  BY <1>5, <1>6 DEF m, u

LEMMA EnsembleSound ==
    ASSUME Ensemble!EnsembleAssumption, EnsembleInv
    PROVE  Ensemble!ConsensusSound
<1> SUFFICES ASSUME NEW t \in Types, NEW strategy \in Ensemble!Strategies,
                    NEW v \in Ensemble!Range(Ensemble!aggregate_predictions(strategy, t))
             PROVE
      LET s == Ensemble!Matching(t)
          confidences == {s[k].confidence : k \in DOMAIN s}
          values == {s[k].value : k \in DOMAIN s}
      IN  /\ confidences # {0} =>
               /\ \E x \in values : Ensemble!Leq(Ensemble!Fraction(x, 1), v.value)
               /\ \E x \in values : Ensemble!Leq(v.value, Ensemble!Fraction(x, 1))
          /\ \E c \in confidences :
               Ensemble!Leq(v.confidence, IF strategy = "BayesianEnsemble"
                                          THEN Ensemble!Likelihood(c)
                                          ELSE Ensemble!Fraction(c, 10))
          /\ confidences # {0} =>
               (v.variance.num = 0 <=> Ensemble!Cardinality(values) = 1 \/ Len(s) = 1)
          /\ Ensemble!Cardinality(confidences) = 1 /\ confidences # {0} =>
               LET u == Ensemble!aggregate_predictions("UnweightedMajority", t)[1]
               IN  Ensemble!Leq(u.value, v.value) /\ Ensemble!Leq(v.value, u.value)
          /\ \A k \in DOMAIN s : s[k].model \in DOMAIN models
  BY DEF Ensemble!ConsensusSound
<1> DEFINE s == Ensemble!Matching(t)
           n == Len(s)
           confidences == {s[k].confidence : k \in DOMAIN s}
           values == {s[k].value : k \in DOMAIN s}
           m == Ensemble!Consensus(strategy, s)
           C == Ensemble!Confidence(strategy, s)
           u == Ensemble!Consensus("UnweightedMajority", s)
           Vote(x, y) == [value |-> x, confidence |-> y,
                          variance |-> Ensemble!Variance(s, x), participating |-> n]
<1>1. s \in Seq(Predictions) /\ \A k \in 1 .. n : s[k].model \in DOMAIN models
  BY MatchingVotes
<1>2. /\ Ensemble!aggregate_predictions(strategy, t) = IF s = <<>> THEN <<>> ELSE <<Vote(m, C)>>
      /\ Ensemble!aggregate_predictions("UnweightedMajority", t) =
           IF s = <<>> THEN <<>>
           ELSE <<Vote(u, Ensemble!Confidence("UnweightedMajority", s))>>
  BY DEF Ensemble!aggregate_predictions
<1> HIDE DEF s, m, C, u
<1>3. s # <<>> /\ v = Vote(m, C)
  <2> DEFINE a == Ensemble!aggregate_predictions(strategy, t)
  <2>1. v \in {a[k] : k \in DOMAIN a}
    BY DEF Ensemble!Range
  <2>2. a = IF s = <<>> THEN <<>> ELSE <<Vote(m, C)>>
    BY <1>2
  <2> HIDE DEF a, Vote
  <2>3. QED
    BY <2>1, <2>2
<1>4. v.value = m /\ v.confidence = C /\ v.variance = Ensemble!Variance(s, m)
  BY <1>3
<1>5. Ensemble!aggregate_predictions("UnweightedMajority", t)[1].value = u
  BY <1>2, <1>3
<1>6. IsVotes(s) /\ n \in Nat \ {0} /\ DOMAIN s = 1 .. n
  BY <1>1, <1>3 DEF IsVotes, Ensemble!EnsembleAssumption
<1> HIDE DEF n
<1>7. confidences = {s[k].confidence : k \in 1 .. n} /\ values = {s[k].value : k \in 1 .. n}
      /\ 1 \in 1 .. n
  BY <1>6
<1> DEFINE sure == \E k \in 1 .. n : s[k].confidence # 0
           equal == \A j, k \in 1 .. n : s[j].confidence = s[k].confidence
           agreed == \A j, k \in 1 .. n : s[j].value = s[k].value
<1>8. confidences # {0} => sure
  <2>1. ASSUME \A k \in 1 .. n : s[k].confidence = 0 PROVE confidences = {0}
    BY <1>7, <2>1
  <2>2. QED
    BY <2>1
<1>9. (Ensemble!Cardinality(confidences) = 1 <=> equal)
      /\ (Ensemble!Cardinality(values) = 1 <=> agreed)
  <2> DEFINE x == [k \in 1 .. n |-> s[k].confidence]
             y == [k \in 1 .. n |-> s[k].value]
  <2>1. confidences = {x[k] : k \in 1 .. n} /\ values = {y[k] : k \in 1 .. n}
    BY <1>7
  <2>2. (\A j, k \in 1 .. n : x[j] = x[k]) <=> equal
    OBVIOUS
  <2>3. (\A j, k \in 1 .. n : y[j] = y[k]) <=> agreed
    OBVIOUS
  <2> HIDE DEF x, y, confidences, values, equal, agreed
  <2>4. Cardinality(confidences) = 1 <=> \A j, k \in 1 .. n : x[j] = x[k]
    BY <1>6, <2>1, OneValue
  <2>5. Cardinality(values) = 1 <=> \A j, k \in 1 .. n : y[j] = y[k]
    BY <1>6, <2>1, OneValue
  <2>6. Ensemble!Cardinality(confidences) = Cardinality(confidences)
        /\ Ensemble!Cardinality(values) = Cardinality(values)
    BY DEF Ensemble!Cardinality, Cardinality
  <2>7. QED
    BY <2>2, <2>3, <2>4, <2>5, <2>6
<1>10. /\ sure => /\ \E k \in 1 .. n : s[k].value * m.den <= m.num
                  /\ \E k \in 1 .. n : m.num <= s[k].value * m.den
                  /\ Ensemble!Variance(s, m).num = 0 <=> n = 1 \/ agreed
       /\ equal /\ sure => u.num * m.den <= m.num * u.den /\ m.num * u.den <= u.num * m.den
  BY <1>6, VoteSound DEF m, u, n
<1>11. PICK c \in 1 .. n :
         IF strategy = "BayesianEnsemble"
         THEN C.num * Ensemble!Likelihood(s[c].confidence).den
                <= Ensemble!Likelihood(s[c].confidence).num * C.den
         ELSE C.num * 10 <= s[c].confidence * C.den
  BY <1>6, ConfidenceBelow DEF C, n, Ensemble!EnsembleAssumption
<1>12. \A x, p, q : /\ Ensemble!Leq(Ensemble!Fraction(x, 1), p) <=> x * p.den <= p.num * 1
                    /\ Ensemble!Leq(p, Ensemble!Fraction(x, 1)) <=> p.num * 1 <= x * p.den
                    /\ Ensemble!Leq(p, Ensemble!Fraction(x, 10)) <=> p.num * 10 <= x * p.den
                    /\ Ensemble!Leq(p, q) <=> p.num * q.den <= q.num * p.den
  BY DEF Ensemble!Leq, Ensemble!Fraction
<1>13. m.num * 1 = m.num
  <2> DEFINE w == WeightsOf(strategy, s)
  <2>1. w \in [1 .. Len(s) -> Nat]
    BY <1>6, WeightsAre
  <2> HIDE DEF w
  <2>2. Ensemble!WeightedMean(s, w).num \in Int
    BY <1>6, <2>1, MeanOfVotes
  <2>3. m.num \in Int
    BY <2>2, ConsensusWeighs DEF m, w
  <2> DEFINE a == m.num
  <2> HIDE DEF a
  <2>4. a \in Int
    BY <2>3 DEF a
  <2>5. a * 1 = a
    BY <2>4
  <2>6. QED
    BY <2>5 DEF a
<1> HIDE DEF confidences, values, sure, equal, agreed, Vote
<1>14. ASSUME confidences # {0}
       PROVE  /\ \E x \in values : Ensemble!Leq(Ensemble!Fraction(x, 1), v.value)
              /\ \E x \in values : Ensemble!Leq(v.value, Ensemble!Fraction(x, 1))
  <2>1. PICK l \in 1 .. n : s[l].value * m.den <= m.num
    BY <1>8, <1>10, <1>14
  <2>2. PICK h \in 1 .. n : m.num <= s[h].value * m.den
    BY <1>8, <1>10, <1>14
  <2>3. s[l].value \in values /\ s[h].value \in values
    BY <1>7
  <2>4. Ensemble!Leq(Ensemble!Fraction(s[l].value, 1), m)
        /\ Ensemble!Leq(m, Ensemble!Fraction(s[h].value, 1))
    BY <1>12, <1>13, <2>1, <2>2
  <2>5. QED
    BY <1>4, <2>3, <2>4
<1>15. \E c1 \in confidences :
          Ensemble!Leq(v.confidence, IF strategy = "BayesianEnsemble"
                                     THEN Ensemble!Likelihood(c1)
                                     ELSE Ensemble!Fraction(c1, 10))
  <2>1. s[c].confidence \in confidences
    BY <1>7
  <2>2. Ensemble!Leq(C, IF strategy = "BayesianEnsemble"
                        THEN Ensemble!Likelihood(s[c].confidence)
                        ELSE Ensemble!Fraction(s[c].confidence, 10))
    BY <1>11, <1>12
  <2>3. QED
    BY <1>4, <2>1, <2>2
<1>16. confidences # {0} =>
         (v.variance.num = 0 <=> Ensemble!Cardinality(values) = 1 \/ n = 1)
  BY <1>4, <1>8, <1>9, <1>10
<1>17. ASSUME Ensemble!Cardinality(confidences) = 1, confidences # {0}
       PROVE  LET a == Ensemble!aggregate_predictions("UnweightedMajority", t)[1]
              IN  Ensemble!Leq(a.value, v.value) /\ Ensemble!Leq(v.value, a.value)
  <2>1. u.num * m.den <= m.num * u.den /\ m.num * u.den <= u.num * m.den
    BY <1>8, <1>9, <1>10, <1>17
  <2>2. Ensemble!Leq(u, m) /\ Ensemble!Leq(m, u)
    BY <1>12, <2>1
  <2>3. QED
    BY <1>4, <1>5, <2>2
<1>18. \A k \in DOMAIN s : s[k].model \in DOMAIN models
  BY <1>1, <1>6 DEF n
<1>19. QED
  BY <1>14, <1>15, <1>16, <1>17, <1>18 DEF s, n, confidences, values

LEMMA VotingSteps ==
    [Next]_vars => /\ Ensemble!Next \/ UNCHANGED ensembleVars
                   /\ Coordinator!Next \/ UNCHANGED coordinatorVars
BY DEF Next, Others, ensembleVars, coordinatorVars, vars

(* Whatever was voted, by models or by nodes, the consensus lies within the
   votes, is no surer than the surest of them - or than the floor the Bayesian
   strategy sets under each vote - and is doubted exactly when they differ as far
   as it says, in nodes 0.30 with either answer at that very distance; and a node
   leads whenever one is active (ensemble.rs, distributed.rs). *)
THEOREM ConsensusIsSound ==
    ASSUME Ensemble!EnsembleAssumption, Coordinator!CoordinatorAssumption
    PROVE  Spec => []ConsensusSound
<1>1. Init => EnsembleInv /\ CoordinatorInv
  BY EnsembleInit, CoordinatorInit DEF Init
<1>2. EnsembleInv /\ [Next]_vars => EnsembleInv'
  BY VotingSteps, EnsembleNext
<1>3. CoordinatorInv /\ [Next]_vars => CoordinatorInv'
  BY VotingSteps, CoordinatorNext
<1>4. EnsembleInv /\ CoordinatorInv => ConsensusSound
  BY EnsembleSound, CoordinatorSound DEF ConsensusSound
<1>5. QED
  BY <1>1, <1>2, <1>3, <1>4, PTL DEF Spec
=============================================================================
