-------------------------- MODULE SynthesisStream --------------------------
(***************************************************************************)
(* One streamed synthesis from end to end: the RPC handler that reads the  *)
(* handle (app/grpc_api/service.py), the job's way through the executor    *)
(* and the runtime (app/engine/scheduler.py), and the threads that cancel  *)
(* or end it.                                                              *)
(*                                                                         *)
(* The executor is reduced to what it does to one job, as JobService       *)
(* states it: the job waits, is taken by a worker, or leaves the queue.    *)
(* `worker' is the thread that ends a job that was not cancelled in the    *)
(* queue: its worker, the loop thread when no worker could be started, or  *)
(* the thread in begin_shutdown.                                           *)
(*                                                                         *)
(* The handler, the RPC's done callback and the resolving of futures share *)
(* the server's event loop, and run one at a time.                         *)
(***************************************************************************)
EXTENDS SynthesisHandle

CONSTANTS
    Sizes,       \* sizes of the chunks the runtime emits
    MaxChunks    \* bound on the number of chunks of a synthesis

ASSUME StreamAssumption ==
    /\ Sizes \subseteq Nat
    /\ MaxChunks \in Nat

VARIABLES
    job,             \* "none", "queued", or "gone" from the queue
    unloading,       \* begin_shutdown has run
    unloadCancels,   \* begin_shutdown still has to cancel this handle
    worker,          \* where the thread that ends the job stands
    emitting,        \* the audio event emit_audio was called with
    late,            \* emit_audio's deadline has passed
    started,         \* emit_started has been called
    chunk, sample,   \* what the runtime has emitted
    result,          \* "ok", or the error the thread that ends the job has
    canceller,       \* where the thread whose cancel() was the first stands
    byLoop,          \* that thread is the event loop's
    toRun,           \* terminal callbacks _run_terminal_callbacks still has to run
    ran,             \* how often each terminal callback has run
    handler,         \* where the Synthesize coroutine stands
    caught,          \* the exception it handles
    writing,         \* the event it has yielded to the transport, if any
    received,        \* the events the client has got
    rpc,             \* "open", "left" by the client, "done"
    doneCallback,    \* the callback registered with add_done_callback
    counters         \* GrpcSynthesisCounters

jobVars == <<job, unloading, unloadCancels, worker>>
runtimeVars == <<emitting, late, started, chunk, sample, result>>
cancelVars == <<canceller, byLoop>>
callbackVars == <<toRun, ran>>
rpcVars == <<handler, caught, writing, received, rpc, doneCallback, counters>>
vars == <<handleVars, jobVars, runtimeVars, cancelVars, callbackVars, rpcVars>>

TerminalCallbacks == {"stream_finished", "log_release"}

CounterNames == {"requests_total", "status_ok", "status_cancelled", "status_error",
                 "queued_cancellations", "active_cancellations"}

Init ==
    /\ HandleInit
    /\ job = "none" /\ unloading = FALSE /\ unloadCancels = FALSE
    /\ worker = "none"
    /\ emitting = Started /\ late = FALSE /\ started = FALSE
    /\ chunk = 0 /\ sample = 0 /\ result = "none"
    /\ canceller = "none" /\ byLoop = FALSE
    /\ toRun = {} /\ ran = [c \in TerminalCallbacks |-> 0]
    /\ handler = "calling" /\ caught = "none" /\ writing = <<>>
    /\ received = <<>> /\ rpc = "open" /\ doneCallback = "none"
    /\ counters = [n \in CounterNames |-> 0]

----------------------------------------------------------------------------
(* Shared pieces *)

Count(names) == counters' = [n \in CounterNames |->
                                counters[n] + IF n \in names THEN 1 ELSE 0]

\* SynthesisHandle.cancel: only the first has a cancel callback to run.
CancelHandle(onLoop) ==
    IF Stopped
    THEN UNCHANGED <<handleVars, cancelVars>>
    ELSE /\ SetCancelled
         /\ canceller' = "callback"
         /\ byLoop' = onLoop

\* The event loop is not inside cancel().
LoopFree == ~byLoop \/ canceller \in {"none", "done"}

----------------------------------------------------------------------------
(* The executor and the runtime *)

Take ==
    /\ job = "queued"
    /\ job' = "gone"
    /\ worker' = "taken"
    /\ UNCHANGED <<handleVars, unloading, unloadCancels, runtimeVars, cancelVars,
                   callbackVars, rpcVars>>

\* The worker thread cannot be started.
StartFails ==
    /\ worker = "taken"
    /\ result' = "failed"
    /\ worker' = "released"
    /\ UNCHANGED <<handleVars, job, unloading, unloadCancels, emitting, late,
                   started, chunk, sample, cancelVars, callbackVars, rpcVars>>

WorkerBegins ==
    /\ worker = "taken"
    /\ MarkDispatched
    /\ worker' = "begun"
    /\ UNCHANGED <<job, unloading, unloadCancels, runtimeVars, cancelVars,
                   callbackVars, rpcVars>>

WorkerChecks ==
    /\ worker = "begun"
    /\ worker' = IF cancelled THEN "returned" ELSE "running"
    /\ result' = IF cancelled THEN "cancelled" ELSE result
    /\ UNCHANGED <<handleVars, job, unloading, unloadCancels, emitting, late,
                   started, chunk, sample, cancelVars, callbackVars, rpcVars>>

\* The runtime ends with result r.
Return(r) ==
    /\ result' = r
    /\ worker' = "returned"
    /\ UNCHANGED <<emitting, late, started, chunk, sample>>

EmitStarted ==
    /\ worker = "running"
    /\ ~started
    /\ IF Stopped
       THEN Return(StopError) /\ UNCHANGED handleVars
       ELSE /\ AppendControl(Started)
            /\ started' = TRUE
            /\ UNCHANGED <<worker, emitting, late, chunk, sample, result>>
    /\ UNCHANGED <<job, unloading, unloadCancels, cancelVars, callbackVars, rpcVars>>

\* emit_audio up to its lock: a chunk that can never fit is refused at once.
EmitAudio ==
    /\ worker = "running"
    /\ started
    /\ chunk < MaxChunks
    /\ \E size \in Sizes :
          IF size > MaxBufferSamples
          THEN Return("stalled")
          ELSE /\ emitting' = Audio(chunk, sample, size)
               /\ late' = FALSE
               /\ worker' = "emitting"
               /\ UNCHANGED <<started, chunk, sample, result>>
    /\ UNCHANGED <<handleVars, job, unloading, unloadCancels, cancelVars,
                   callbackVars, rpcVars>>

\* Mutant: the wait has no timeout.
DeadlinePassesSilent ==
    /\ worker = "emitting"
    /\ ~late
    /\ late' = TRUE
    /\ UNCHANGED <<handleVars, jobVars, emitting, started, chunk, sample, result,
                   cancelVars, callbackVars, rpcVars>>

DeadlinePasses ==
    /\ worker = "emitting"
    /\ ~late
    /\ late' = TRUE
    /\ writerWaits' = FALSE
    /\ UNCHANGED <<bufferVars, dispatched, terminal, error, cancelled, callbacks,
                   waiter, jobVars, emitting, started, chunk, sample, result,
                   cancelVars, callbackVars, rpcVars>>

EmitAudioLocked ==
    /\ worker = "emitting"
    /\ ~writerWaits
    /\ CASE Stopped -> Return(StopError) /\ UNCHANGED handleVars
         [] ~Stopped /\ HasRoom(emitting.size) ->
              /\ AppendAudio(emitting)
              /\ chunk' = chunk + 1
              /\ sample' = sample + emitting.size
              /\ worker' = "running"
              /\ UNCHANGED <<emitting, late, started, result>>
         [] ~Stopped /\ ~HasRoom(emitting.size) /\ late ->
              Return("stalled") /\ UNCHANGED handleVars
         [] OTHER -> WaitForRoom(emitting) /\ UNCHANGED <<runtimeVars, worker>>
    /\ UNCHANGED <<job, unloading, unloadCancels, cancelVars, callbackVars, rpcVars>>

\* The runtime is done, fails, or sees the cancelled flag.
RuntimeReturns ==
    /\ worker = "running"
    /\ \/ started /\ Return("ok")
       \/ Return("failed")
       \/ cancelled /\ Return("cancelled")
    /\ UNCHANGED <<handleVars, job, unloading, unloadCancels, cancelVars,
                   callbackVars, rpcVars>>

\* The runtime slot is given back.
Release ==
    /\ worker = "returned"
    /\ worker' = "released"
    /\ UNCHANGED <<handleVars, job, unloading, unloadCancels, runtimeVars,
                   cancelVars, callbackVars, rpcVars>>

\* _finish by the worker, and the callbacks it returns
FinishByWorker(last, err) ==
    IF terminal
    THEN /\ worker' = "ended"
         /\ UNCHANGED <<handleVars, callbackVars>>
    ELSE /\ Finish(last, err)
         /\ toRun' = callbacks
         /\ worker' = "notifying"
         /\ UNCHANGED ran

\* fail(), or complete() up to its unlocked look at the cancelled flag
Report ==
    /\ worker = "released"
    /\ IF result = "ok"
       THEN IF cancelled THEN FinishByWorker(<<>>, "cancelled")
            ELSE worker' = "completing" /\ UNCHANGED <<handleVars, callbackVars>>
       ELSE FinishByWorker(<<>>, result)
    /\ UNCHANGED <<job, unloading, unloadCancels, runtimeVars, cancelVars, rpcVars>>

Complete ==
    /\ worker = "completing"
    /\ FinishByWorker(<<Completed(chunk, sample)>>, "none")
    /\ UNCHANGED <<job, unloading, unloadCancels, runtimeVars, cancelVars, rpcVars>>

\* _run_terminal_callbacks, on the thread that finished the handle
RunCallback(c) ==
    /\ c \in toRun
    /\ toRun' = toRun \ {c}
    /\ ran' = [ran EXCEPT ![c] = @ + 1]
    /\ UNCHANGED <<handleVars, jobVars, runtimeVars, cancelVars, rpcVars>>

WorkerEnds ==
    /\ worker = "notifying"
    /\ toRun = {}
    /\ worker' = "ended"
    /\ UNCHANGED <<handleVars, job, unloading, unloadCancels, runtimeVars,
                   cancelVars, callbackVars, rpcVars>>

\* begin_shutdown takes a waiting job from the queue, and will cancel one that
\* holds a slot.
Unload ==
    /\ ~unloading
    /\ unloading' = TRUE
    /\ unloadCancels' = (worker \in {"taken", "begun", "running", "emitting", "returned"})
    /\ IF job = "queued"
       THEN job' = "gone" /\ worker' = "released" /\ result' = "unloading"
       ELSE UNCHANGED <<job, worker, result>>
    /\ UNCHANGED <<handleVars, emitting, late, started, chunk, sample, cancelVars,
                   callbackVars, rpcVars>>

UnloadCancelsHandle ==
    /\ unloadCancels
    /\ unloadCancels' = FALSE
    /\ CancelHandle(FALSE)
    /\ UNCHANGED <<job, unloading, worker, runtimeVars, callbackVars, rpcVars>>

----------------------------------------------------------------------------
(* The cancel callback: _cancel_stream_job *)

\* Mutant: the removed job is not failed.
CancelRemovesOnly ==
    /\ canceller = "callback"
    /\ canceller' = "done"
    /\ job' = IF job = "queued" THEN "gone" ELSE job
    /\ UNCHANGED <<handleVars, unloading, unloadCancels, worker, runtimeVars, byLoop,
                   callbackVars, rpcVars>>

CancelRemoves ==
    /\ canceller = "callback"
    /\ canceller' = IF job = "queued" THEN "failing" ELSE "done"
    /\ job' = IF job = "queued" THEN "gone" ELSE job
    /\ UNCHANGED <<handleVars, unloading, unloadCancels, worker, runtimeVars, byLoop,
                   callbackVars, rpcVars>>

CancelFails ==
    /\ canceller = "failing"
    /\ IF terminal
       THEN canceller' = "done" /\ UNCHANGED <<handleVars, callbackVars>>
       ELSE /\ Finish(<<>>, "cancelled")
            /\ toRun' = callbacks
            /\ canceller' = "notifying"
            /\ UNCHANGED ran
    /\ UNCHANGED <<jobVars, runtimeVars, byLoop, rpcVars>>

CancelEnds ==
    /\ canceller = "notifying"
    /\ toRun = {}
    /\ canceller' = "done"
    /\ UNCHANGED <<handleVars, jobVars, runtimeVars, byLoop, callbackVars, rpcVars>>

----------------------------------------------------------------------------
(* The RPC handler: Synthesize *)

\* engine.stream accepts the request, and the handler's own cancel is
\* registered with the RPC.
Call ==
    /\ handler = "calling"
    /\ ~unloading
    /\ AddTerminalCallback("stream_finished")
    /\ job' = "queued"
    /\ handler' = "reading"
    /\ doneCallback' = "due"
    /\ Count({"requests_total"})
    /\ UNCHANGED <<unloading, unloadCancels, worker, runtimeVars, cancelVars,
                   callbackVars, caught, writing, received, rpc>>

\* The request is invalid, its model is not there, or its queue is full.
CallRefused ==
    /\ handler = "calling"
    /\ handler' = "ended"
    /\ caught' = "refused"
    /\ rpc' = "done"
    /\ Count({"requests_total", "status_error"})
    /\ UNCHANGED <<handleVars, jobVars, runtimeVars, cancelVars, callbackVars,
                   writing, received, doneCallback>>

Read ==
    /\ LoopFree
    /\ handler = "reading"
    /\ \/ /\ RegisterWaiter
          /\ handler' = "awaiting"
          /\ UNCHANGED <<caught, writing>>
       \/ /\ PopEvent
          /\ writing' = <<Head(events)>>
          /\ handler' = "writing"
          /\ UNCHANGED caught
       \/ /\ Readable /\ ReadError # "none"
          /\ caught' = ReadError
          /\ handler' = "cancelling"
          /\ UNCHANGED <<handleVars, writing>>
    /\ UNCHANGED <<jobVars, runtimeVars, cancelVars, callbackVars, received, rpc,
                   doneCallback, counters>>

Resolve ==
    /\ LoopFree
    /\ ResolveWaiter
    /\ UNCHANGED <<jobVars, runtimeVars, cancelVars, callbackVars, rpcVars>>

Resume ==
    /\ LoopFree
    /\ handler = "awaiting"
    /\ waiter = "resolved"
    /\ DiscardWaiter
    /\ handler' = "reading"
    /\ UNCHANGED <<jobVars, runtimeVars, cancelVars, callbackVars, caught, writing,
                   received, rpc, doneCallback, counters>>

\* The client has left: the transport cancels the task of the handler,
TaskCancelled ==
    /\ LoopFree
    /\ handler = "awaiting"
    /\ rpc = "left"
    /\ DiscardWaiter
    /\ caught' = "CancelledError"
    /\ handler' = "classifying"
    /\ UNCHANGED <<jobVars, runtimeVars, cancelVars, callbackVars, writing, received,
                   rpc, doneCallback, counters>>

\* which, while the transport writes an event, either raises in the handler or
\* drops it.
WriteCancelled ==
    /\ LoopFree
    /\ handler = "writing"
    /\ rpc = "left"
    /\ \/ handler' = "classifying" /\ caught' = "CancelledError"
       \/ handler' = "dropped" /\ UNCHANGED caught
    /\ UNCHANGED <<handleVars, jobVars, runtimeVars, cancelVars, callbackVars,
                   writing, received, rpc, doneCallback, counters>>

\* The transport has sent the event.
Written ==
    /\ LoopFree
    /\ handler = "writing"
    /\ rpc = "open"
    /\ received' = received \o writing
    /\ writing' = <<>>
    /\ IF writing[1].kind = "completed"
       THEN handler' = "ended" /\ rpc' = "done" /\ Count({"status_ok"})
       ELSE handler' = "reading" /\ UNCHANGED <<rpc, counters>>
    /\ UNCHANGED <<handleVars, jobVars, runtimeVars, cancelVars, callbackVars,
                   caught, doneCallback>>

\* Mutant: the cancellation of a handler is handled, and counted, twice.
HandlerCancelsRecounts ==
    /\ LoopFree
    /\ handler = "cancelling"
    /\ CancelHandle(TRUE)
    /\ handler' = "classifying"
    /\ UNCHANGED <<jobVars, runtimeVars, callbackVars, caught, writing, received,
                   rpc, doneCallback, counters>>

\* The handler's own handle.cancel(): first in the handler of an exception,
\* second in the handler of CancelledError.
HandlerCancels ==
    /\ LoopFree
    /\ handler = "cancelling"
    /\ CancelHandle(TRUE)
    /\ handler' = IF caught = "CancelledError" THEN "logging" ELSE "classifying"
    /\ UNCHANGED <<jobVars, runtimeVars, callbackVars, caught, writing, received,
                   rpc, doneCallback, counters>>

IsCancellation == caught \in {"CancelledError", "cancelled"}

HandlerCounts ==
    /\ LoopFree
    /\ handler = "classifying"
    /\ Count(IF ~IsCancellation THEN {"status_error"}
             ELSE {"status_cancelled",
                   IF dispatched THEN "active_cancellations" ELSE "queued_cancellations"})
    /\ CASE caught = "CancelledError" -> handler' = "cancelling" /\ UNCHANGED rpc
         [] caught = "cancelled" -> handler' = "logging" /\ UNCHANGED rpc
         [] OTHER -> /\ handler' = "ended"
                     /\ rpc' = IF rpc = "open" THEN "done" ELSE rpc
    /\ UNCHANGED <<handleVars, jobVars, runtimeVars, cancelVars, callbackVars, caught,
                   writing, received, doneCallback>>

\* _log_cancellation_when_runtime_releases
HandlerLogs ==
    /\ LoopFree
    /\ handler = "logging"
    /\ \/ AddTerminalCallback("log_release") /\ UNCHANGED ran
       \/ terminal /\ ran' = [ran EXCEPT !["log_release"] = @ + 1] /\ UNCHANGED handleVars
    /\ handler' = "ended"
    /\ rpc' = IF rpc = "open" THEN "done" ELSE rpc
    /\ UNCHANGED <<jobVars, runtimeVars, cancelVars, toRun, caught, writing, received,
                   doneCallback, counters>>

\* The RPC is over: the callback of add_done_callback cancels the handle.
DoneCallback ==
    /\ LoopFree
    /\ rpc # "open"
    /\ doneCallback = "due"
    /\ doneCallback' = "run"
    /\ CancelHandle(TRUE)
    /\ UNCHANGED <<jobVars, runtimeVars, callbackVars, handler, caught, writing,
                   received, rpc, counters>>

\* The client cancels, disconnects, or its deadline expires.
ClientLeaves ==
    /\ rpc = "open"
    /\ handler # "calling"
    /\ rpc' = "left"
    /\ UNCHANGED <<handleVars, jobVars, runtimeVars, cancelVars, callbackVars,
                   handler, caught, writing, received, doneCallback, counters>>

----------------------------------------------------------------------------
\* The steps of the runtime, which may take for ever
Runtime == Take \/ EmitStarted \/ EmitAudio \/ RuntimeReturns

\* The steps of the threads of the executor that no runtime can hold up
Threads ==
    \/ StartFails \/ WorkerBegins \/ WorkerChecks
    \/ EmitAudioLocked \/ Release \/ Report \/ Complete \/ WorkerEnds

Cancellation == CancelRemoves \/ CancelFails \/ CancelEnds

\* The steps of the event loop that no client can hold up
EventLoop ==
    \/ Call \/ CallRefused \/ Read \/ Resolve \/ Resume \/ TaskCancelled
    \/ WriteCancelled \/ HandlerCancels \/ HandlerCounts \/ HandlerLogs
    \/ DoneCallback

Next ==
    \/ Runtime \/ Threads \/ Cancellation \/ EventLoop
    \/ DeadlinePasses \/ Written \/ ClientLeaves
    \/ Unload \/ UnloadCancelsHandle
    \/ \E c \in TerminalCallbacks : RunCallback(c)

Spec == Init /\ [][Next]_vars

\* Threads keep running and deadlines pass; the runtime may hang, the client
\* may stop reading.
FairSpec ==
    /\ Spec
    /\ WF_vars(Threads) /\ WF_vars(Cancellation) /\ WF_vars(EventLoop)
    /\ WF_vars(DeadlinePasses) /\ WF_vars(UnloadCancelsHandle)
    /\ \A c \in TerminalCallbacks : WF_vars(RunCallback(c))
============================================================================
