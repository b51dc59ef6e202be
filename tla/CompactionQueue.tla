---------------------------- MODULE CompactionQueue ----------------------------
(* The process-wide queue of deferred compactions: owners that are too large *)
(* to compact while they open hand over a job, one worker thread sleeps,     *)
(* drains the queue and goes away, and a maintenance action may drain it on  *)
(* its own thread meanwhile (content_sqlite.rs, defer_compaction).           *)
EXTENDS Integers, Sequences

CONSTANTS
    Stores,        \* stores whose owners defer their compaction
    Maintainers,   \* threads of maintenance actions
    Worker,        \* the worker thread
    NoStore,
    MaxDefers,     \* jobs an owner hands over
    MaxSpawnFaults \* times a thread does not start

ASSUME QueueBounds ==
    /\ MaxDefers \in Nat /\ MaxSpawnFaults \in Nat
    /\ NoStore \notin Stores /\ Worker \notin Maintainers

VARIABLES
    jobs,       \* CompactionQueue.jobs
    worker,     \* CompactionQueue.worker: a worker is there to take them
    running,    \* CompactionQueue.running, for health
    thread,     \* what each thread is doing
    current,    \* the job each thread has taken
    owed,       \* stores that are vacuum_pending
    dropped,    \* stores whose owner is gone
    defers, spawnFaults

queueVars == <<jobs, worker, running, thread, current, owed, dropped, defers, spawnFaults>>

Threads == {Worker} \cup Maintainers

QueueTypeOK ==
    /\ jobs \in Seq(Stores)
    /\ worker \in BOOLEAN
    /\ running \in Stores \cup {NoStore}
    /\ thread \in [Threads -> {"none", "sleep", "take", "job", "clear", "check"}]
    /\ current \in [Threads -> Stores \cup {NoStore}]
    /\ owed \in SUBSET Stores /\ dropped \in SUBSET Stores
    /\ defers \in 0 .. MaxDefers /\ spawnFaults \in 0 .. MaxSpawnFaults

QueueInit ==
    /\ jobs = <<>> /\ worker = FALSE /\ running = NoStore
    /\ thread = [t \in Threads |-> "none"]
    /\ current = [t \in Threads |-> NoStore]
    /\ owed \in SUBSET Stores /\ dropped = {}
    /\ defers = 0 /\ spawnFaults = 0

\* The queue's lock is held from the push to the spawn.
Defer(s) ==
    /\ defers < MaxDefers /\ s \notin dropped
    /\ defers' = defers + 1
    /\ jobs' = Append(jobs, s)
    /\ worker' = TRUE
    /\ thread' = IF worker THEN thread ELSE [thread EXCEPT ![Worker] = "sleep"]
    /\ UNCHANGED <<running, current, owed, dropped, spawnFaults>>

\* The thread does not start: the job waits for the next owner's.
DeferUnattended(s) ==
    /\ defers < MaxDefers /\ s \notin dropped /\ ~worker
    /\ spawnFaults < MaxSpawnFaults
    /\ defers' = defers + 1 /\ spawnFaults' = spawnFaults + 1
    /\ jobs' = Append(jobs, s)
    /\ UNCHANGED <<worker, running, thread, current, owed, dropped>>

Wake ==
    /\ thread[Worker] = "sleep"
    /\ thread' = [thread EXCEPT ![Worker] = "take"]
    /\ UNCHANGED <<jobs, worker, running, current, owed, dropped, defers, spawnFaults>>

\* A maintenance action calls run_deferred_compactions itself.
Maintain(t) ==
    /\ t \in Maintainers /\ thread[t] = "none" /\ jobs # <<>>
    /\ thread' = [thread EXCEPT ![t] = "take"]
    /\ UNCHANGED <<jobs, worker, running, current, owed, dropped, defers, spawnFaults>>

TakeJob(t) ==
    /\ thread[t] = "take" /\ jobs # <<>>
    /\ jobs' = Tail(jobs)
    /\ running' = Head(jobs)
    /\ current' = [current EXCEPT ![t] = Head(jobs)]
    /\ thread' = [thread EXCEPT ![t] = "job"]
    /\ UNCHANGED <<worker, owed, dropped, defers, spawnFaults>>

NoMoreJobs(t) ==
    /\ thread[t] = "take" /\ jobs = <<>>
    /\ thread' = [thread EXCEPT ![t] = IF t = Worker THEN "check" ELSE "none"]
    /\ UNCHANGED <<jobs, worker, running, current, owed, dropped, defers, spawnFaults>>

\* The store's connection is locked for the whole job; a store that is gone is
\* skipped, a failure or a full disk leaves the debt.
RunJob(t) ==
    /\ thread[t] = "job"
    /\ owed' \in IF current[t] \in dropped THEN {owed} ELSE {owed, owed \ {current[t]}}
    /\ thread' = [thread EXCEPT ![t] = "clear"]
    /\ UNCHANGED <<jobs, worker, running, current, dropped, defers, spawnFaults>>

ClearRunning(t) ==
    /\ thread[t] = "clear"
    /\ running' = NoStore
    /\ current' = [current EXCEPT ![t] = NoStore]
    /\ thread' = [thread EXCEPT ![t] = "take"]
    /\ UNCHANGED <<jobs, worker, owed, dropped, defers, spawnFaults>>

\* Mutant of WorkerChecks: the worker leaves without looking at the queue again.
WorkerLeaves ==
    /\ thread[Worker] = "check"
    /\ worker' = FALSE
    /\ thread' = [thread EXCEPT ![Worker] = "none"]
    /\ UNCHANGED <<jobs, running, current, owed, dropped, defers, spawnFaults>>

\* Back from the drain the worker looks again, under the lock, before it leaves.
WorkerChecks ==
    /\ thread[Worker] = "check"
    /\ worker' = (jobs # <<>>)
    /\ thread' = [thread EXCEPT ![Worker] = IF jobs = <<>> THEN "none" ELSE "sleep"]
    /\ UNCHANGED <<jobs, running, current, owed, dropped, defers, spawnFaults>>

Drop(s) ==
    /\ s \notin dropped
    /\ dropped' = dropped \cup {s}
    /\ UNCHANGED <<jobs, worker, running, thread, current, owed, defers, spawnFaults>>

WorkerStep ==
    \/ Wake \/ TakeJob(Worker) \/ NoMoreJobs(Worker) \/ RunJob(Worker)
    \/ ClearRunning(Worker) \/ WorkerChecks

QueueNext ==
    \/ WorkerStep
    \/ \E s \in Stores : Defer(s) \/ DeferUnattended(s) \/ Drop(s)
    \/ \E t \in Maintainers :
         Maintain(t) \/ TakeJob(t) \/ NoMoreJobs(t) \/ RunJob(t) \/ ClearRunning(t)

QueueSpec == QueueInit /\ [][QueueNext]_queueVars

\* A thread that was started runs; a maintenance action need not finish.
QueueFairSpec == QueueSpec /\ WF_queueVars(WorkerStep)

\* No job is stranded: one that waits has a worker on its way to it, however the
\* push of an owner falls between the worker's last look at the queue and its exit
\* (only a thread that did not start leaves a job unattended); and the store that
\* health reports as being compacted is one that a thread has taken.
NoJobIsStranded ==
    /\ jobs # <<>> /\ ~worker => spawnFaults > 0
    /\ worker <=> thread[Worker] # "none"
    /\ running # NoStore => \E t \in Threads : current[t] = running

\* Every job handed to a worker is taken, though owners hand over more meanwhile
\* and the worker may be about to leave.
DeferredIsTaken == worker /\ jobs # <<>> ~> jobs = <<>>
=============================================================================
