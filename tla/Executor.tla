------------------------------ MODULE Executor ------------------------------
(***************************************************************************)
(* LoadedModelExecutor (app/engine/scheduler.py): the fair queue, the loop *)
(* thread that dispatches its jobs, one worker thread per dispatched job,  *)
(* the callbacks that cancel a job and the thread that shuts the executor  *)
(* down.  Of each job's SynthesisHandle (app/engine/streaming.py) it keeps *)
(* what the executor touches: the cancelled flag and the outcome.          *)
(*                                                                         *)
(* A step is what one thread does while it holds the executor's lock or    *)
(* the handle's, or one read outside the locks.  The runtime call of a     *)
(* worker is the interval between WorkerCheckCancelled and WorkerReturn.   *)
(***************************************************************************)
EXTENDS FairQueue

CONSTANTS
    ConfiguredTargetInflight,
    RuntimeCapability,
    MaxTime                   \* bound on the clock

ASSUME ExecutorAssumption ==
    /\ ConfiguredTargetInflight \in Int
    /\ RuntimeCapability \in Int
    /\ MaxTime \in Nat

VARIABLES
    clock,            \* time.perf_counter()
    stopRequested,    \* _stop_requested, and not _accepting_new_requests
    runtimeInflight,  \* _runtime_inflight
    activeHandles,    \* keys of _active_stream_handles
    loop,             \* where the loop thread stands
    worker,           \* where the dispatch of a job stands
    startedAt,        \* backend_started_at of the job's worker
    finishedAt,       \* backend_finished_at of the job's worker
    result,           \* what the job's worker got: "ok", "error", "cancelled"
    submitted,        \* what the caller of enqueue_stream got
    cancelled,        \* SynthesisHandle._cancelled
    canceller,        \* where the thread that cancelled the handle stands
    outcome,          \* SynthesisHandle: not terminal ("open"), or how it ended
    shutdown,         \* where the thread in begin_shutdown stands
    toFail,           \* begin_shutdown: cancelled_jobs still to fail
    toCancel,         \* begin_shutdown: active_handles still to cancel
    calling           \* begin_shutdown: the job, if any, whose cancel callback runs

handleVars   == <<submitted, cancelled, canceller, outcome>>
workerVars   == <<worker, startedAt, finishedAt, result>>
shutdownVars == <<shutdown, toFail, toCancel, calling>>
slotVars     == <<runtimeInflight, activeHandles>>
vars == <<queueVars, clock, stopRequested, slotVars, loop, workerVars,
          handleVars, shutdownVars>>

AtLeastOne(n) == IF n < 1 THEN 1 ELSE n

EffectiveTargetInflight ==
    IF AtLeastOne(ConfiguredTargetInflight) < AtLeastOne(RuntimeCapability)
    THEN AtLeastOne(ConfiguredTargetInflight)
    ELSE AtLeastOne(RuntimeCapability)

Init ==
    /\ QueueInit
    /\ clock = 0
    /\ stopRequested = FALSE
    /\ runtimeInflight = 0
    /\ activeHandles = {}
    /\ loop = "created"
    /\ worker = [j \in Jobs |-> "none"]
    /\ startedAt = [j \in Jobs |-> 0]
    /\ finishedAt = [j \in Jobs |-> 0]
    /\ result = [j \in Jobs |-> "none"]
    /\ submitted = [j \in Jobs |-> "no"]
    /\ cancelled = [j \in Jobs |-> FALSE]
    /\ canceller = [j \in Jobs |-> "idle"]
    /\ outcome = [j \in Jobs |-> "open"]
    /\ shutdown = "idle"
    /\ toFail = {}
    /\ toCancel = {}
    /\ calling = {}

----------------------------------------------------------------------------
(* Shared pieces *)

\* self._cond.notify_all(): only the loop thread waits on the condition.
NotifyAll == loop' = IF loop = "waiting" THEN "running" ELSE loop

\* SynthesisHandle._finish: the first terminal outcome stays.
Finish(j, o) ==
    outcome' = [outcome EXCEPT ![j] = IF @ = "open" THEN o ELSE @]

\* The slot bookkeeping a worker or a failed start undoes.
ReleaseSlot(j) ==
    /\ runtimeInflight' = IF runtimeInflight > 0 THEN runtimeInflight - 1
                                                 ELSE runtimeInflight
    /\ activeHandles' = activeHandles \ {j}

----------------------------------------------------------------------------
(* Callers: enqueue_stream and SynthesisHandle.cancel *)

\* Mutant: the loop is not notified.
SubmitSilent(j) ==
    /\ submitted[j] = "no"
    /\ ~stopRequested
    /\ Enqueue(j, clock)
    /\ submitted' = [submitted EXCEPT ![j] = "admitted"]
    /\ UNCHANGED <<clock, stopRequested, slotVars, loop, workerVars, cancelled,
                   canceller, outcome, shutdownVars>>

Submit(j) ==
    /\ submitted[j] = "no"
    /\ ~stopRequested
    /\ Enqueue(j, clock)
    /\ submitted' = [submitted EXCEPT ![j] = "admitted"]
    /\ NotifyAll
    /\ UNCHANGED <<clock, stopRequested, slotVars, workerVars, cancelled,
                   canceller, outcome, shutdownVars>>

SubmitRejected(j) ==
    /\ submitted[j] = "no"
    /\ ~stopRequested
    /\ RejectEnqueue(j, clock)
    /\ submitted' = [submitted EXCEPT ![j] = "rejected"]
    /\ UNCHANGED <<clock, stopRequested, slotVars, loop, workerVars, cancelled,
                   canceller, outcome, shutdownVars>>

SubmitUnloading(j) ==
    /\ submitted[j] = "no"
    /\ stopRequested
    /\ submitted' = [submitted EXCEPT ![j] = "rejected"]
    /\ UNCHANGED <<queueVars, clock, stopRequested, slotVars, loop, workerVars,
                   cancelled, canceller, outcome, shutdownVars>>

\* The caller of stream() holds the handle and may cancel it at any time.
Cancel(j) ==
    /\ submitted[j] = "admitted"
    /\ outcome[j] = "open"
    /\ ~cancelled[j]
    /\ cancelled' = [cancelled EXCEPT ![j] = TRUE]
    /\ canceller' = [canceller EXCEPT ![j] = "callback"]
    /\ UNCHANGED <<queueVars, clock, stopRequested, slotVars, loop, workerVars,
                   submitted, outcome, shutdownVars>>

\* Mutant: a job that is no longer pending is failed too.
CancelAlwaysFails(j) ==
    /\ canceller[j] = "callback"
    /\ RemovePending(j, clock) \/ (~Pending(j) /\ UNCHANGED queueVars)
    /\ canceller' = [canceller EXCEPT ![j] = "failing"]
    /\ NotifyAll
    /\ UNCHANGED <<clock, stopRequested, slotVars, workerVars, submitted,
                   cancelled, outcome, shutdownVars>>

\* _cancel_stream_job, under the executor's lock
CancelRemove(j) ==
    /\ canceller[j] = "callback"
    /\ \/ /\ RemovePending(j, clock)
          /\ canceller' = [canceller EXCEPT ![j] = "failing"]
          /\ NotifyAll
       \/ /\ ~Pending(j)
          /\ canceller' = [canceller EXCEPT ![j] = "done"]
          /\ UNCHANGED <<queueVars, loop>>
    /\ UNCHANGED <<clock, stopRequested, slotVars, workerVars, submitted,
                   cancelled, outcome, shutdownVars>>

\* _cancel_stream_job, after the lock
CancelFail(j) ==
    /\ canceller[j] = "failing"
    /\ Finish(j, "cancelled")
    /\ canceller' = [canceller EXCEPT ![j] = "done"]
    /\ UNCHANGED <<queueVars, clock, stopRequested, slotVars, loop, workerVars,
                   submitted, cancelled, shutdownVars>>

----------------------------------------------------------------------------
(* The loop thread: start and _run_loop *)

LoopStart ==
    /\ loop = "created"
    /\ loop' = "running"
    /\ UNCHANGED <<queueVars, clock, stopRequested, slotVars, workerVars,
                   handleVars, shutdownVars>>

\* Mutants: running jobs are forgotten; one slot too many.
MayReturnEarly == stopRequested /\ pendingCount = 0

MayDispatchOneMore == pendingCount > 0 /\ runtimeInflight <= EffectiveTargetInflight

MayReturn == stopRequested /\ pendingCount = 0 /\ runtimeInflight = 0

MayDispatch == pendingCount > 0 /\ runtimeInflight < EffectiveTargetInflight

LoopReturn ==
    /\ loop = "running"
    /\ MayReturn
    /\ loop' = "returned"
    /\ UNCHANGED <<queueVars, clock, stopRequested, slotVars, workerVars,
                   handleVars, shutdownVars>>

LoopDispatch(j) ==
    /\ loop = "running"
    /\ ~MayReturn
    /\ MayDispatch
    /\ PopNext(j, clock)
    /\ runtimeInflight' = runtimeInflight + 1
    /\ activeHandles' = activeHandles \union {j}
    /\ worker' = [worker EXCEPT ![j] = "popped"]
    /\ loop' = "spawning"
    /\ UNCHANGED <<clock, stopRequested, startedAt, finishedAt, result,
                   handleVars, shutdownVars>>

LoopWait ==
    /\ loop = "running"
    /\ ~MayReturn
    /\ ~MayDispatch
    /\ loop' = "waiting"
    /\ UNCHANGED <<queueVars, clock, stopRequested, slotVars, workerVars,
                   handleVars, shutdownVars>>

\* worker.start()
LoopSpawn(j) ==
    /\ loop = "spawning"
    /\ worker[j] = "popped"
    /\ worker' = [worker EXCEPT ![j] = "spawned"]
    /\ loop' = "running"
    /\ UNCHANGED <<queueVars, clock, stopRequested, slotVars, startedAt,
                   finishedAt, result, handleVars, shutdownVars>>

\* Mutant: the queue is not told.
LoopUnwindForgets(j) ==
    /\ loop = "spawning"
    /\ worker[j] = "popped"
    /\ ReleaseSlot(j)
    /\ worker' = [worker EXCEPT ![j] = "unstarted"]
    /\ loop' = "unwinding"
    /\ UNCHANGED <<queueVars, clock, stopRequested, startedAt, finishedAt, result,
                   handleVars, shutdownVars>>

\* worker.start() raised: the slot is given back under the lock,
LoopUnwind(j) ==
    /\ loop = "spawning"
    /\ worker[j] = "popped"
    /\ ReleaseSlot(j)
    /\ Abandon(j, clock)
    /\ worker' = [worker EXCEPT ![j] = "unstarted"]
    /\ loop' = "unwinding"
    /\ UNCHANGED <<clock, stopRequested, startedAt, finishedAt, result,
                   handleVars, shutdownVars>>

\* and the job fails after it.
LoopFail(j) ==
    /\ loop = "unwinding"
    /\ worker[j] = "unstarted"
    /\ Finish(j, "error")
    /\ worker' = [worker EXCEPT ![j] = "ended"]
    /\ loop' = "running"
    /\ UNCHANGED <<queueVars, clock, stopRequested, slotVars, startedAt,
                   finishedAt, result, submitted, cancelled, canceller,
                   shutdownVars>>

----------------------------------------------------------------------------
(* The worker threads: _run_job *)

WorkerBegin(j) ==
    /\ worker[j] = "spawned"
    /\ startedAt' = [startedAt EXCEPT ![j] = clock]
    /\ worker' = [worker EXCEPT ![j] = "dispatched"]
    /\ UNCHANGED <<queueVars, clock, stopRequested, slotVars, loop, finishedAt,
                   result, handleVars, shutdownVars>>

WorkerCheckCancelled(j) ==
    /\ worker[j] = "dispatched"
    /\ IF cancelled[j]
       THEN /\ worker' = [worker EXCEPT ![j] = "returned"]
            /\ result' = [result EXCEPT ![j] = "cancelled"]
            /\ finishedAt' = [finishedAt EXCEPT ![j] = clock]
       ELSE /\ worker' = [worker EXCEPT ![j] = "running"]
            /\ UNCHANGED <<result, finishedAt>>
    /\ UNCHANGED <<queueVars, clock, stopRequested, slotVars, loop, startedAt,
                   handleVars, shutdownVars>>

\* Mutant: an error is reported before the slot is given back.
WorkerReturnReports(j) ==
    /\ worker[j] = "running"
    /\ \E r \in {"ok", "error", "cancelled"} :
          /\ r = "cancelled" => cancelled[j]
          /\ result' = [result EXCEPT ![j] = r]
          /\ IF r = "error" THEN Finish(j, "error") ELSE UNCHANGED outcome
    /\ finishedAt' = [finishedAt EXCEPT ![j] = clock]
    /\ worker' = [worker EXCEPT ![j] = "returned"]
    /\ UNCHANGED <<queueVars, clock, stopRequested, slotVars, loop, startedAt,
                   submitted, cancelled, canceller, shutdownVars>>

\* The runtime call returns, raises its own error, or raises
\* SynthesisCancelled because it saw the cancelled flag.
WorkerReturn(j) ==
    /\ worker[j] = "running"
    /\ \E r \in {"ok", "error", "cancelled"} :
          /\ r = "cancelled" => cancelled[j]
          /\ result' = [result EXCEPT ![j] = r]
    /\ finishedAt' = [finishedAt EXCEPT ![j] = clock]
    /\ worker' = [worker EXCEPT ![j] = "returned"]
    /\ UNCHANGED <<queueVars, clock, stopRequested, slotVars, loop, startedAt,
                   handleVars, shutdownVars>>

\* Mutant: the loop is not notified.
WorkerReleaseSilent(j) ==
    /\ worker[j] = "returned"
    /\ ReleaseSlot(j)
    /\ Complete(j, finishedAt[j] - startedAt[j], finishedAt[j])
    /\ worker' = [worker EXCEPT ![j] = "released"]
    /\ startedAt' = [startedAt EXCEPT ![j] = 0]
    /\ finishedAt' = [finishedAt EXCEPT ![j] = 0]
    /\ UNCHANGED <<clock, stopRequested, loop, result, handleVars, shutdownVars>>

\* The finally block, under the executor's lock.
WorkerRelease(j) ==
    /\ worker[j] = "returned"
    /\ ReleaseSlot(j)
    /\ Complete(j, finishedAt[j] - startedAt[j], finishedAt[j])
    /\ NotifyAll
    /\ worker' = [worker EXCEPT ![j] = "released"]
    /\ startedAt' = [startedAt EXCEPT ![j] = 0]
    /\ finishedAt' = [finishedAt EXCEPT ![j] = 0]
    /\ UNCHANGED <<clock, stopRequested, result, handleVars, shutdownVars>>

\* Mutant: every job that is not completed is reported cancelled.
WorkerReportHides(j) ==
    /\ worker[j] = "released"
    /\ IF result[j] = "ok" /\ ~cancelled[j]
       THEN /\ worker' = [worker EXCEPT ![j] = "completing"]
            /\ UNCHANGED outcome
       ELSE /\ worker' = [worker EXCEPT ![j] = "ended"]
            /\ Finish(j, "cancelled")
    /\ UNCHANGED <<queueVars, clock, stopRequested, slotVars, loop, startedAt,
                   finishedAt, result, submitted, cancelled, canceller,
                   shutdownVars>>

\* _fail_job, or the first line of SynthesisHandle.complete, which reads the
\* cancelled flag without the handle's lock.
WorkerReport(j) ==
    /\ worker[j] = "released"
    /\ IF result[j] = "ok" /\ ~cancelled[j]
       THEN /\ worker' = [worker EXCEPT ![j] = "completing"]
            /\ UNCHANGED outcome
       ELSE /\ worker' = [worker EXCEPT ![j] = "ended"]
            /\ Finish(j, IF result[j] = "error" THEN "error" ELSE "cancelled")
    /\ UNCHANGED <<queueVars, clock, stopRequested, slotVars, loop, startedAt,
                   finishedAt, result, submitted, cancelled, canceller,
                   shutdownVars>>

WorkerComplete(j) ==
    /\ worker[j] = "completing"
    /\ Finish(j, "completed")
    /\ worker' = [worker EXCEPT ![j] = "ended"]
    /\ UNCHANGED <<queueVars, clock, stopRequested, slotVars, loop, startedAt,
                   finishedAt, result, submitted, cancelled, canceller,
                   shutdownVars>>

----------------------------------------------------------------------------
(* begin_shutdown; the router may call it again after a failed unload *)

\* Mutant: the drained jobs are dropped.
BeginShutdownDrops ==
    /\ shutdown = "idle"
    /\ stopRequested' = TRUE
    /\ toFail' = {}
    /\ toCancel' = activeHandles
    /\ Drain(clock)
    /\ NotifyAll
    /\ shutdown' = "ending"
    /\ UNCHANGED <<clock, slotVars, workerVars, handleVars, calling>>

BeginShutdown ==
    /\ shutdown = "idle"
    /\ stopRequested' = TRUE
    /\ toFail' = {j \in Jobs : Pending(j)}
    /\ toCancel' = activeHandles
    /\ Drain(clock)
    /\ NotifyAll
    /\ shutdown' = "ending"
    /\ UNCHANGED <<clock, slotVars, workerVars, handleVars, calling>>

ShutdownFail(j) ==
    /\ shutdown = "ending"
    /\ j \in toFail
    /\ Finish(j, "unloading")
    /\ toFail' = toFail \ {j}
    /\ UNCHANGED <<queueVars, clock, stopRequested, slotVars, loop, workerVars,
                   submitted, cancelled, canceller, shutdown, toCancel, calling>>

\* handle.cancel(); its callback runs before the next handle is cancelled.
ShutdownCancel(j) ==
    /\ shutdown = "ending"
    /\ toFail = {}
    /\ calling = {}
    /\ j \in toCancel
    /\ toCancel' = toCancel \ {j}
    /\ IF outcome[j] = "open" /\ ~cancelled[j]
       THEN /\ cancelled' = [cancelled EXCEPT ![j] = TRUE]
            /\ canceller' = [canceller EXCEPT ![j] = "callback"]
            /\ calling' = {j}
       ELSE UNCHANGED <<cancelled, canceller, calling>>
    /\ UNCHANGED <<queueVars, clock, stopRequested, slotVars, loop, workerVars,
                   submitted, outcome, shutdown, toFail>>

ShutdownCancelled(j) ==
    /\ calling = {j}
    /\ canceller[j] = "done"
    /\ calling' = {}
    /\ UNCHANGED <<queueVars, clock, stopRequested, slotVars, loop, workerVars,
                   handleVars, shutdown, toFail, toCancel>>

ShutdownReturn ==
    /\ shutdown = "ending"
    /\ toFail = {}
    /\ toCancel = {}
    /\ calling = {}
    /\ shutdown' = "idle"
    /\ UNCHANGED <<queueVars, clock, stopRequested, slotVars, loop, workerVars,
                   handleVars, toFail, toCancel, calling>>

----------------------------------------------------------------------------
(* snapshot, and the clock *)

Snapshot ==
    /\ Snapshots(clock)
    /\ UNCHANGED <<clock, stopRequested, slotVars, loop, workerVars, handleVars,
                   shutdownVars>>

Tick ==
    /\ clock < MaxTime
    /\ clock' = clock + 1
    /\ UNCHANGED <<queueVars, stopRequested, slotVars, loop, workerVars,
                   handleVars, shutdownVars>>

----------------------------------------------------------------------------
LoopThread ==
    \/ LoopStart \/ LoopReturn \/ LoopWait
    \/ \E j \in Jobs : LoopDispatch(j) \/ LoopSpawn(j) \/ LoopUnwind(j) \/ LoopFail(j)

\* What a worker does besides returning from the runtime.
WorkerOwnStep(j) ==
    \/ WorkerBegin(j) \/ WorkerCheckCancelled(j)
    \/ WorkerRelease(j) \/ WorkerReport(j) \/ WorkerComplete(j)

CancelCallback(j) == CancelRemove(j) \/ CancelFail(j)

ShutdownThread ==
    \/ ShutdownReturn
    \/ \E j \in Jobs : ShutdownFail(j) \/ ShutdownCancel(j) \/ ShutdownCancelled(j)

Caller(j) == Submit(j) \/ SubmitRejected(j) \/ SubmitUnloading(j) \/ Cancel(j)

Next ==
    \/ LoopThread
    \/ \E j \in Jobs : \/ Caller(j) \/ CancelCallback(j)
                       \/ WorkerOwnStep(j) \/ WorkerReturn(j)
    \/ BeginShutdown \/ ShutdownThread
    \/ Snapshot \/ Tick

Spec == Init /\ [][Next]_vars

\* Every started thread keeps running.  Nobody has to submit, cancel or shut
\* down, and the runtime may never return from a call.
FairThreads ==
    /\ WF_vars(LoopThread)
    /\ WF_vars(ShutdownThread)
    /\ \A j \in Jobs : WF_vars(WorkerOwnStep(j)) /\ WF_vars(CancelCallback(j))

FairSpec == Spec /\ FairThreads
============================================================================
