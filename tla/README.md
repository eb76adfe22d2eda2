# TLA+ models of TTS-pool

TTS-pool serves speech synthesis over gRPC from models loaded into one process,
with a scheduler that shares each model fairly between clients. This directory
holds a formal model of its core: TLA+ modules translated from `app/`, TLC
configurations that check them on small instances, and proofs that TLAPS checks
for every instance.

    tlc -config executor_safety.cfg MCExecutor.tla      # any run of the table below
    tlapm ExecutorProofs.tla                            # any of the ...Proofs modules

`PROJECT.json` maps every definition to the lines it models, and lists the
runs, the mutants each property is known to catch, findings, hazards and
theorems.

## 1. The system

| Part | State | Operations | Modelled in |
|---|---|---|---|
| `_FairPendingQueue` (`engine/scheduler.py`) | per fairness key: pending jobs, active jobs, charged time, idle time; counts | enqueue, remove, pop_next, complete, abandon, drain, snapshots | `FairQueue` |
| `LoadedModelExecutor` (`engine/scheduler.py`) | slots in use, accepting/stop flags, active handles; one loop thread, one thread per running job | enqueue_stream, loop, run_job, cancel callback, begin_shutdown, snapshot | `Executor`, promise in `JobService` |
| Fairness over time | history of who got the backend | -- | `FairShare` |
| `SynthesisHandle` (`engine/streaming.py`) | bounded event buffer, terminal/error/cancelled flags, callbacks, waiters | emit, complete, fail, cancel, read, add_terminal_callback | `SynthesisHandle` |
| `Synthesize` RPC (`grpc_api/service.py`) | handler coroutine, counters | read, write, cancel, count, log | `SynthesisStream`, promise in `StreamContract` |
| `TTSRouterEngine` (`engine/router.py`) | lifecycle and in-flight count per model, runtimes, executors | stream, load_model, unload_model | `Router` |
| Lifespan, health (`main.py`, `grpc_api/server.py`) | two servers, the engine | build, start, stop, close | `Server` |
| `NanoVLLMVoxCPMTTSRuntime` (`engine/nanovllm_voxcpm.py`) | event-loop thread, server, thread pool | load, close, synthesize_stream, cancel | `NanoRuntime` |
| `_emit_complete_result` (`engine/scheduler.py`) | none | cuts a WAV into chunks | `AudioChunks` |
| `load_settings` (`config.py`) | none | merges and parses two files | `Settings` |
| Schema, adapter, capabilities, status (`schemas.py`, `grpc_api/adapter.py`, `engine/common.py`) | none | validate, normalise, advertise, answer | `Requests` |
| The runtimes' use of their libraries (`kokoro.py`, `voxcpm2.py`, `nanovllm_voxcpm.py`, `stub.py`) | caches | what is called with what | `Voices` |
| One request from the files to its status | -- | configure, load, receive, synthesise, answer | `RequestPath` |
| GPU inspection, stubs, scripts | little or none | | not modelled (section 6) |

How they meet: a gRPC handler calls `TTSRouterEngine.stream`, which counts the
request under the router's lock, makes a handle and gives it to the executor of
the model. The executor's loop thread takes jobs from the fair queue when a slot
is free and starts a thread for each; that thread runs the runtime, which writes
events into the handle. The handler reads them on the event loop and yields them
to the transport. A cancellation may come from the transport, from the handler,
or from an unload; it sets a flag and calls back into the executor. The end of
the stream runs callbacks, one of which makes the router count the request down,
on which an unload waits.

The NanoVLLM runtime has an event loop of its own: the worker's thread submits a
coroutine to it and waits, and the coroutine gives each chunk to a thread of the
loop's pool, which waits in the handle until there is room. The other runtimes
return a WAV, which the executor cuts into chunks in the worker's thread. The
process builds the engine before its event loop runs, and closes it in the loop
after the gRPC server has stopped; HTTP requests of administrators run in
threads of their own in between.

What is hard: four kinds of threads and two event loops share three locks and
keep working outside of them; a job may be ended by its worker, the loop, a canceller
or an unload; sleepers rely on others to notify them; deadlines race with what
they wait for; loads and unloads hold no lock while they work; and what is accepted
is written down in four places (settings, schema, capabilities, the runtimes'
own tables). The list of hazards, each at its line, is in `PROJECT.json`.

## 2. Modules and how they correspond to the code

One step of a model is one section under a lock, one read of shared state
outside of it, or what a thread does between two of these.

* **`FairQueue`** -- every method of `_FairPendingQueue`. `states` is the dict
  of keys; an operator such as `Enqueue` or `Dispatch` is one method. Time is a
  natural number; a key's weight is given as `Cost`, the charge per unit of
  time, so that no division is needed. A key that has been idle for longer than
  the TTL is forgotten by the next operation that looks at the clock (`Live`).
  Counters of rejections are left out.
* **`Executor`** (extends `FairQueue`) -- `loop` is where the loop thread
  stands, `worker[j]` where the thread of job `j` stands, `canceller[j]` where
  the cancel callback stands; `calling` holds the handles `begin_shutdown` still
  has to cancel. The job's handle is reduced to `cancelled` and `outcome`.
  `stopRequested` stands for both flags that `begin_shutdown` sets at once.
  `Submit`, `Cancel...`, `Loop...`, `Worker...` and `Shutdown...` are the
  methods. `begin_shutdown` may be called again, as an unload that is retried
  does.
* **`JobService`** -- the abstract promise of an executor: bounded admission,
  bounded service, one verdict per request, given after the request has left.
* **`FairShare`** -- the executor with three history variables: the backend time
  per key in the current contest, the scores with which it began, and the keys
  that have just joined. There is a contest while all keys have something
  waiting.
* **`SynthesisHandle`** -- the fields of the handle, and one operator per locked
  section. Sizes are counted in samples. An event is its kind, its place in the
  audio and its size.
* **`SynthesisStream`** (extends `SynthesisHandle`) -- one request from the call
  to its end: `worker` is the thread that ends the job, `canceller` the thread
  whose `cancel()` was the first, `handler` the coroutine. The executor is
  reduced to what it does to one job. Futures are resolved on the event loop,
  which is shared by the handler and the done callback (`LoopFree`). What
  grpc.aio does when a client leaves while a response is being written is not in
  the repository; both of its outcomes (an exception in the handler, or the
  handler dropped) are allowed.
* **`StreamContract`** -- what a client may see: Started, then chunks whose
  positions fit together, then Completed with the totals, or an error, or
  nothing more.
* **`Router`** -- one model of the engine. An instance is a runtime and the
  executor built on it. `pc[a]` is where administrator `a` stands in
  `load_model` or `unload_model`; `stage[s]` is where request `s` stands. The
  executor is what `JobService` promises.
* **`Server`** (extends `RouterProperties`) -- the process around the router.
  `phase` is where the lifespan stands; `Main`, one of the administrators, is
  the thread of the event loop, which also loads models at the start and unloads
  them at the end. While it does, no RPC can begin (`LoopFree`). Each of its
  steps is a step of the router, or leaves the router alone, so it refines
  `Router` (theorem `RunsTheRouter`).
* **`NanoRuntime`** -- `owner` is where `load` and `close` stand, `loop` and
  `loopRef` the event loop and the reference to it, `engine` the server process,
  `call[c]` where a call of `synthesize_stream` stands, in its own thread, on
  the loop or in the pool, and `gen[c]` its generator, a sequence of the engine.
  `queue` is the pool's queue. What it assumes of router, executor and handle is
  what the other modules show of them: `close` only comes when no call is inside
  (`NeverClosedInUse`), calls are at most the capability (`SlotAccounting`).
* **`AudioChunks`** -- the loop of `_emit_complete_result`. An audio is its
  number of frames.
* **`Settings`** -- a JSON value is a record that says what it is; numbers are
  in hundredths. A `Rule` is one of the parsers with its bounds and default, and
  each section is a table of rules. The recursion of `_merge_dicts` is written
  out down to the object of voices in a model, below which there are no
  settings (`Merge` to `Overlay`). Python's truth, `int`, `float`, `str`, `NaN`
  under `max` and `min`, and flags as numbers are modelled by what they do: a
  backend that is a number counts as one that does not exist, and only ports and
  the fields of `_bounded_float` have an upper bound. A text that spells a number
  and `-Infinity` are not among the values.
* **`Requests`, `Voices`** -- a message, its validation and normalisation; what
  each runtime calls its library with, or the exception before that. NanoVLLM's
  library names a sample rate when it is loaded, or none; `rateKnown` of
  `RequestPath` remembers which, for each request looks at it before its call.
* **`RequestPath`** (extends `Voices`, `AudioChunks`) -- one request alone, from
  the two settings files to its gRPC status. Anything an inference library does
  may raise.
* **`...Properties`** hold what is checked, **`MC...`** the instances for TLC.
* **`ExecutorProofs`, `ServiceProofs`, `FairShareProofs`, `StreamProofs`,
  `ServerProofs`, `NanoProofs`, `RequestProofs`** hold the proofs, **`Sums`** the
  facts about totals over finite sets that two of them need.

Definitions marked `Mutant` are plausible bugs (a notify, a guard or a count
forgotten). They are not part of any specification; each property is known to
fail when the definition it guards is replaced by its mutant.

## 3. Runs

| Run | Instance | What it shows |
|---|---|---|
| `executor_safety` | 3 requests of 2 keys, 2 slots, queue of 2, no clock, at most 2 cancelled | Slots, handles and active jobs agree and stay within capacity; the pending count is the number of waiting jobs; exactly one thread owns each unfinished job; a verdict is true; a request ends after it has left the runtime; the loop never sleeps on work; it returns with nothing left; a key is served in order |
| `executor_refines` | 2 requests of one key, capacity configured as 0 and so 1, 1 place in the queue, clock to 3, TTL 1 | the executor implements `JobService`; expiry forgets exactly the keys that are not used |
| `executor_liveness` | 2 requests of one key, 2 slots | if runtime calls return, every admitted request ends and a stopped loop returns; without that, a request that was never dispatched and is cancelled or drained is still told so, and a waiting request gets a free slot even if the other call hangs |
| `fair_share` | 5 requests of 2 keys with different weights, 1 slot, clock to 4, TTL 1 | backend time stays proportional to the weights up to one round of slots and what a key was behind when the contest began; a new key gets the next slot |
| `new_key_next` | as above, threads take time | *violated*: see findings |
| `stream` | buffer of 2 chunks and 3 samples, up to 3 chunks of 1, 2 or 4 samples | buffer accounting, nobody asleep who could go on, callbacks run once, RPCs counted once, `StreamContract` implemented; writers are freed, requests released, readers told, reading clients served |
| `cancel_scope` | 1 chunk | *violated*: see findings |
| `server` | the process, 2 administrators over HTTP, 3 RPCs, 3 loaded runtimes | requests are counted, no runtime in use is closed, a loaded model serves, an unload ends; a process told to stop ends, with nobody left in the router |
| `router_unloaded` | 1 administrator | *violated*: see findings |
| `nano` | 3 calls of up to 2 chunks, 3 sequences, a pool of 2, one consumer that never reads | sequences within the capability, nobody waits on a stopped loop, nothing left behind by a failed load or a close; every call returns, a slow stream stops no other |
| `requests` | 716 pairs of settings files, 306 messages, audio of 0, 1, 2 and 5 frames read 4 bytes at a time | what the settings let through satisfies the assumptions of the other modules; what is advertised is served; the library is called with the text, language, voice, numbers and reference that were asked for, and with configured ones only where nothing was; the chunks are the audio |
| `failure_status` | as above | *violated*: see findings |

**Bounds.** Two keys and three jobs are the smallest instance in which one key
has an active and a waiting job while another waits, so that a cancellation, a
drain, a dispatch and a rejection can all meet; a third slot or key adds no new
kind of conflict, and the proofs cover every number. `MCFewCancels` stops after
two cancelled handles. In `executor_refines` the two requests share a key, so
that it can go idle and come back, before its state has expired and after;
`MaxTime` bounds the clock, and three ticks pass the TTL twice. Expiry and the
limit of a key are therefore met there and not in `executor_safety`, and the
removal of a request from the middle of a key's queue, which needs three of one
key, in the theorem `FifoSafety` only. In `fair_share`
four ticks are two turns of a slot held for `MaxHold` = 2: each key can be ahead
once, and a key can run, go idle, and come back before and after its TTL. That a key
which comes back before its TTL catches up on what it was behind is how the code is
meant, so `ShareBounded` permits it, and bounds what it gets beyond that. One place in
the queue is enough for it to be full. In `stream` a buffer of two chunks and
three samples makes each limit bind on its own (two chunks of one sample; one
of two and one of one; one of four never fits). Three loads in `server` are the
load at the start, one that times out in its unload, and a reload that
overwrites it; two HTTP administrators and the main thread are three that meet
in the lifecycle. In `nano` three calls of which one is stalled fill both
threads of the pool and leave one waiting for them; two chunks are one that is
out and one that is refused. The settings files of `requests` put a value of
every JSON kind on both sides of every bound, in either file and in both; the
messages cover each field's bounds, each language and voice, and each
combination of reference, transcript, clip and instructions; 5 frames are two
full chunks and an odd rest. Symmetry is used only in runs without liveness.
Deadlock is checked in the executor runs (a snapshot may always be taken there,
so what a stuck system looks like is left to the liveness properties); the
other runs end, and say so.

**Fairness.** Threads of the operating system keep running, so each thread has
weak fairness for its own steps: the loop, workers, cancel callbacks, the
shutdown, the event loops, the pool, an administrator's thread, and timers.
Nothing is assumed of clients and administrators, nor of runtimes outside
`NanoRuntime`; there the engine answers and a consumer that reads makes room.
Nobody has to stop the process. Where a property needs the
runtime to return, the client to read or `close()` to return, that is the
hypothesis of the property (`RuntimeReturns`, `RuntimeProceeds`, `ClientReads`,
the left sides of `UnloadEventuallyEnds` and `ProcessEnds`, and in
`EveryCallReturns` that a stalled consumer is given up in the end).

## 4. Findings

* **A new key does not always get the next slot** (`new_key_next`). A new key
  starts at the lowest score in use, and scores count from the dequeue, but the
  charge counts from the start of the worker. When the two differ the occupying
  key falls behind the newcomer's baseline and is served again.
* **A cancellation counted as queued may reach the runtime** (`cancel_scope`).
  The handler reads `dispatched` before it sets the cancelled flag.
* **A model can be "unloaded" with a runtime left open** (`router_unloaded`). A
  load that fails after the runtime has loaded drops it, and a reload after a
  timed-out unload overwrites it; nobody can close it afterwards.
* **A failure of the runtime may be answered INVALID_ARGUMENT**
  (`failure_status`). A `ValueError` counts as the client's, and the runtimes
  also raise it when their library returned no audio, and VoxCPM2 when it has no
  sample rate.

Seen while modelling, without a run of their own:

* A reference WAV that is no WAV raises `wave.Error`, which is answered
  `INTERNAL`, although the input is invalid (`voxcpm2.py:321-327`).
* `kokoro_speed`, `voxcpm2_cfg_value`, `voxcpm2_inference_timesteps` and
  `nanovllm_max_generate_length` have no upper bound in the settings but one in
  the schema: the capabilities may advertise a default above their own maximum,
  and with a large `kokoro_speed` every warm-up case of Kokoro fails and is only
  logged (`kokoro.py:277-294`).
* Kokoro's warm-up looks `voice_presets` up without regard to case, a request
  looks them up exactly (`kokoro.py:254-258`), so the two can get different
  voices for one language.
* A model whose name in the settings has blanks around it can never be
  requested: the settings keep the name (`config.py:150`), the schema strips the
  one in a request (`schemas.py:78-84`).
* `stream_buffer_bytes` of 1 is accepted, and then every audio of a
  complete-audio runtime is refused (`scheduler.py:466-467`).
* Pending jobs may still be dispatched during the gRPC grace period;
  `docs/low-latency-tts-delivery.md:276` says that pending jobs cancel first.
  They do so in the unload that follows.

## 5. Proofs

`ExecutorProofs` proves, for any sets of jobs and keys, any limits, costs and
capacities that satisfy the assumptions of `FairQueue` and `Executor`, that

* the variables keep their types (`TypeCorrect`),
* slots are accounted for and within capacity (`SlotSafety`),
* the pending count is right and both queue limits hold (`PendingSafety`),
* the loop waits only when there is nothing to do (`WakeupSafety`),
* a request ends only after it has left the runtime and the queue
  (`ReleaseBeforeEnd`),
* a key is idle exactly when it has nothing waiting or running, and a key of a
  slot holder is not forgotten (`ExpirySafety`).

None of these is inductive. The invariant `IInv` adds to the types: `QueueInv`
(each pending job is in the bucket of its key, once, and the counts match),
`ThreadsInv` (where a job's worker, canceller and loop stand determines whether
it is pending, active or has ended), and `OneStart` (the loop holds at most one
job it has not handed over). With them, each step of `NextInvariant` has one
case per action. The first part of the module holds the lemmas about the queue's
operators (what enqueue, remove, dispatch and expiry do to the set of pending
jobs) that the cases cite. `TypeOK` says nothing of a key's charged time; that it
is a natural number is `ChargeSafety`, below.

`ServiceProofs` continues from there, under the same assumptions. It proves
that each unfinished job is owed its end by exactly one thread or by the queue
(`OwnerSafety`), that a verdict is true (`VerdictSafety`), that the loop leaves
only an executor that is stopped and stays empty (`ReturnSafety`), that a key
is served in the order of admission (`FifoSafety`), and that the executor
implements `JobService` (`Refinement`). `ServiceInv` adds three parts to `IInv`:

* `OrderInv`: the jobs of a bucket stand in the order in which they were
  admitted. Without it a dispatch, which takes the first, could be out of order.
* `FateInv(j)`: an admitted job without a verdict is in the queue, in a worker,
  or with a canceller or a shutdown that will fail it; its result is settled
  when the runtime has returned, and a verdict agrees with result, cancellation
  and shutdown. A worker that has checked the cancelled flag may be overtaken
  by a cancellation, so each clause says what is known at a place of the thread
  whatever the others do.
* `StopInv`: a stopped executor has nothing in its queue, and a shutdown ends
  when it has failed all jobs it drained.

Each is kept by what one method does to the queue (`SubmitOrder`,
`RemoveOrder`, `DispatchOrder`, ...), and `ServiceStep` has one case per action.
The refinement is shown step by step: `SubmitMoves` to `DrainMoves` say which
requests change their `Phase`, `AdmitStep` to `StutterStep` are the steps of
`JobService` in those terms, and `ServiceSimulation` joins them, one case per
action. The proof showed that two guards of `Phase`'s `CASE` overlapped for a
waiting job without a thread, where TLA+ leaves the choice open; they exclude
each other now.

`StreamProofs` proves, for any buffer limits and any numbers and lengths of
chunks, that the buffer's counters are those of the audio in it
(`BufferSafety`), that nobody sleeps through what they sleep for (`WakeSafety`),
that a terminal callback is in one place and runs once (`CallbackSafety`), that
an RPC is counted once (`CountSafety`), and that what the client sees is what
`StreamContract` allows (`Refinement`). Its only assumptions are
`HandleAssumption` and `StreamAssumption`. The parts of `IInv`, and what each is
needed for:

* `BufferInv`. The sum of the sizes in the buffer is nothing a step can be
  followed through: a `read` subtracts the size of what it takes, an `emit` adds
  one at the other end. The events are `Linked` instead, each begins where the
  one before it ends, and each counter is the distance between the place of the
  first event and the place of what comes next. This is kept by appending and
  taking, without a sum; `LinkedAudio` then shows, by induction over the length
  of the buffer, that these distances are the number and the sizes of the audio
  events.
* `SentInv`: what the client has, what is on its way and what is in the buffer
  are one linked sequence, which begins with Started and has a Completed exactly
  when the handle has ended without an error. The refinement stands on it.
* `WorkerInv`: who can still end the handle, and with what; without it two
  threads could each believe it was theirs.
* `HandlerInv`: what the handler knows at each of its awaits. Its future can be
  resolved by a thread before it looks again, so an error it has caught may
  only be used where `HandlerInv` says what it implies.
* `CallbackInv`, `CountInv`: each callback's one place, and each RPC's status.
* `WriterNotForgotten`: the runtime's thread is not asleep on room it has.

`BufferAccounting` states a fold over a set that picks its elements in an order
left open; `SumUnique` of `Sums` shows that it is the sum in every order. The
refinement maps each step of a thread to one of
`Send`, `Receive`, `Fail`, `GiveUp`, `Withdraw`, or to a stutter
(`ContractStep`, one case per action).

`FairShareProofs` proves, for any executor, that what a key has been charged is
a natural number and that a key with active jobs has been selected
(`ChargeSafety`), and of the competition without overhead, for any finite number
of keys, jobs and slots, any weights and limits and any bound on the time a slot
is held:

* while every key has something waiting, none gets more backend time over its
  weight than another by more than one round of slots and what it was behind when
  the contest began (`ShareSafety`);
* a key whose arrival begins a contest has the lowest score, and shares it with
  another, so that it has nothing to catch up (`LevelSafety`);
* of two keys, one that arrives when the other holds all slots gets the next one
  (`NewKeySafety`).

`ShareBounded` speaks of time that has been used, and says nothing of what the
slot holders will still be charged; what is inductive is about both:

* `TimingInv`: a job's time in its slot is the time its worker measures. It holds
  because time passes only while all slot holders are in the runtime.
* `ContestInv`: score and share of a key grow together, so a score is what it was
  when the contest began and the share since; and the lead of a key, with what
  its slot holders may still be given (`Slack`), is at most one round of slots. A
  dispatch raises the slack, and is only of a key whose score is the lowest, and
  so has no lead; time turns slack into share; a release gives slack up.
* `JoinedInv`: a new key that waits has the lowest score, no active job and no
  selection, and all others have been selected, so ties fall to it.

`~Overhead` is an assumption of the last three because with overhead the bound
does not hold (finding `new_key_next`: the charge counts from the start of the worker, the
score from the dequeue). `NewKeySafety` is for two keys: of three, one that comes
back within the TTL may have a score below the new one's, which then rightly
waits. The proof found that `Arrived` did not count a key whose state had
expired but not been removed yet; it does now. An earlier `ShareBounded` did not
grant a returning key what it was behind, and held only because the instance was
small.

`Sums` has induction over the natural numbers for a set (`SetInduction`, from the
fact that a set of naturals has a least element; the library's theorems for
induction take an operator and cannot be used here) and from it that a total
over a finite set exists, does not depend on the order, and grows, shrinks and is
bounded with its summands. `StreamProofs` needs it for the audio in the buffer,
`FairShareProofs` for the time of a key's active jobs.

`ServerProofs` proves, for any number of administrators, requests and loads, the
safety of the router: the count of requests under way, that no
runtime in use is closed, that operations exclude each other, that a model
listed as loaded serves, and that an unloader sleeps only while a request is
under way. The inductive invariant adds `HeldInv`: what is installed is open,
what a loader is about to install is open and accepts requests, and a runtime
that is being closed is not installed and no request is under way. The argument
of the proof is short because of two lemmas: whoever loads or unloads is the
only one who does (`Alone`), so a step of an administrator leaves the others
idle (`AdminMoves`); and a step of a request keeps the set of requests under
way, or adds or removes one (`OneBegins`, `OneEnds`). The only assumption is
that the set of requests is finite.

The same module proves that the process implements the router (`RunsTheRouter`:
its initial states are initial states of `Router`, each of its steps is a step
of `Router` or a stutter), so what is shown of the router holds of the process,
and that a process that has ended leaves nobody in the router and nothing
installed or under way, unless the model is listed as failed (`EndSafety`). The
invariant `ServerInv` says who may be in the router in each phase, and that an
unloaded model has no instance and no request. Most of its proof is that the
steps of one administrator or request leave these places alone
(`MovesKeepPlaces`, `LoadEffect`, `UnloadEffect`, `RequestEffect`).

`NanoProofs` proves, for any finite set of calls, any capability and pool, that
the engine never has more sequences than its capability (`SequenceSafety`), that
nobody waits on a loop that has stopped (`StrandedSafety`), and that what is
down has left nothing behind (`CloseSafety`). The invariant `HeldInv` relates
the owner's place to loop, server and engine, and each call's place to its
generator and the pool's queue; the first property follows from it by counting:
an open sequence belongs to a call that is inside, and those are within the
slots.

`RequestProofs` proves, for any settings files, voices, messages and lengths of
audio, the four properties of the run `requests`:

* settings that are accepted keep what the other modules assume of their
  constants, and each value is the local file's if that names one, else the
  settings file's, else the default (`SettingsSafety`);
* a request within the advertised capabilities is served (`ServedSafety`);
* the library is called with what was asked for (`AskedSafety`): the text, the
  language, the voice of the message before the configured one and that before
  the default, every number of the call as the message has it and otherwise as it
  is configured (`ChosenAsAsked`, `NumbersAsAsked`), and, whatever its length and
  rate, the piece of a reference that the limit allows: a clip keeps as many
  frames as fit, and would break the limit with one more (`TailFits`);
* the chunks have no gap and no overlap, fit the buffer and are all of the audio
  (`ChunkSafety` for any buffer, `PathChunkSafety` for the buffer that is
  configured).

The invariant is `PathInv`, which keeps what was read, for the steps that use it
come later: settings are `SettingsOf` of the two files, and those were accepted
(`SettingsInv`); a loaded model is configured and of a backend that exists
(`LifecycleInv`); a call is what the runtime makes of a message that was let in,
and who is answered without one was refused by the schema, the engine or the
runtime, or ended before the dispatch (`RequestInv`); `ChunkInv` is the same for
the cutting. From there each theorem is about operators. For the settings,
`FieldTogether` says by `Level`, the depth of a merge, what the merged file has at
a field (the truth of a flag that is an object in both files is that of their
merge, hence `Alike` and no equality), and `ParsedPositive`, `ParsedWhole` and
`ParsedBounded` what a parser returns of what it accepts. For the request,
`RequestFields` says what the adapter leaves as it was, and one lemma per backend
follows its call (`KokoroServes`, `VoxServes`, `KokoroAsked`, `CloningAsked`).

The assumptions say what the inputs are: `FilesAssumption`, that a file is a JSON
value whose objects hold JSON values; `MessagesAssumption`, that a message has the
fields of `tts.proto` (a reference is there or not, `generation` has no unknown
field, an `int32` is whole and a `bool` is one of two); `VoicesAssumption`, that the name of a voice file is no path, as names of
directory entries are not. `ServedSafety` has as a hypothesis that the operator
configured voices (`VoicesConfigured`), and that NanoVLLM's library named a sample
rate, as `CompliantIsServed` states: otherwise the runtime answers every request
with a `ValueError` (`nanovllm_voxcpm.py:180-182`). Texts are those of `Strip` and
`Lower`.

Every safety invariant, action property and refinement that a passing run checks is a
theorem. Only model-checked is liveness: it needs fairness, and so `ENABLED`,
which this prover cannot expand.

## 6. Not modelled

* Admin payloads, GPU and artifact inspection (`common.py:66-189`): they read,
  under the router's lock, and change nothing. That they take the executor's
  lock inside the router's is a hazard a model with whole locked sections cannot
  show; callbacks into the router run outside of both other locks.
* `read_event`, the blocking reader of a handle, and NanoVLLM's `synthesize`,
  which nothing in the service calls.
* Contents of warm-up cases, caches of pipelines, conversion of samples between
  float and PCM, and rounding of durations.
* The search for the settings files, device and model ids, list-valued settings.
* Metrics, log records, the conversion of events to proto messages; generated
  stubs; benchmarks and deployment files, which are tools around the service.

## 7. How the project could go on

* Liveness, from the invariants proved here: each property of the runs is a chain
  of leads-to steps, whose safety part (a thread stays where it is until it takes
  its step) is already in the inductive invariants.
* `NewKeyGetsNextSlot` for more than two keys holds of keys whose competitors have
  never been away; a returning key's head start would have to be part of it.
* What overhead costs: with the time between a dequeue and the start of a worker
  bounded, `ShareBounded` should hold with that bound added once per dispatch.
