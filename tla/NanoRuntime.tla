---------------------------- MODULE NanoRuntime ----------------------------
(***************************************************************************)
(* NanoVLLMVoxCPMTTSRuntime (app/engine/nanovllm_voxcpm.py): one event     *)
(* loop in a thread of its own runs a coroutine for the load and for each  *)
(* synthesis; the executor's threads wait for theirs.  The loop hands each *)
(* chunk to a thread of its default pool, which waits in emit_audio until  *)
(* the consumer of that stream has room.                                   *)
(*                                                                         *)
(* Environment, as other modules show it: the router calls close only when *)
(* no call is inside (NeverClosedInUse), the executor makes at most        *)
(* Capability calls at a time (SlotAccounting), and emit_audio returns or  *)
(* raises once the consumer takes an event, has stalled too long, or       *)
(* leaves (WriterIsFreed).                                                 *)
(***************************************************************************)
EXTENDS Integers, Sequences, FiniteSets

CONSTANTS
    Calls,        \* calls of synthesize_stream, each made by its own thread
    Stalled,      \* those whose consumer reads nothing
    Capability,   \* runtime_capability: sequences the engine runs at a time
    PoolSize,     \* threads of the loop's default pool
    MaxChunks     \* bound on the chunks of a call

ASSUME NanoAssumption ==
    /\ IsFiniteSet(Calls)
    /\ Stalled \subseteq Calls
    /\ Capability \in Nat \ {0}
    /\ PoolSize \in Nat \ {0}
    /\ MaxChunks \in Nat \ {0}

VARIABLES
    owner,      \* where the thread in load() or close() stands
    server,     \* self._server and self._model_info
    engine,     \* the processes from_pretrained started: off, on, or lost
                \* when stop() raised
    loopRef,    \* self._loop is set
    loop,       \* what the thread in _run_loop does
    call,       \* where each call stands
    how,        \* how it ends: none as long as it goes well
    gen,        \* its asynchronous generator, a sequence of the engine
    sent,       \* chunks its handle has accepted
    cancelled,  \* handle.cancelled
    queue       \* calls whose emit_audio waits for a thread of the pool

ownerVars == <<owner, server, engine, loopRef, loop>>
callVars == <<call, how, gen, sent, cancelled, queue>>
vars == <<ownerVars, callVars>>

Outcomes == {"none", "ok", "cancelled", "failed"}
Inside == {c \in Calls : call[c] \notin {"out", "returned"}}
At(p) == {c \in Calls : call[c] = p}
LoopRuns == loop \in {"running", "stopping"}

Init ==
    /\ owner = "new"
    /\ server = "none"
    /\ engine = "off"
    /\ loopRef = FALSE
    /\ loop = "none"
    /\ call = [c \in Calls |-> "out"]
    /\ how = [c \in Calls |-> "none"]
    /\ gen = [c \in Calls |-> "none"]
    /\ sent = [c \in Calls |-> 0]
    /\ cancelled = [c \in Calls |-> FALSE]
    /\ queue = <<>>

----------------------------------------------------------------------------
(* load() and close(), each called once by the router *)

StartLoop ==
    /\ owner = "new"
    /\ loopRef' = TRUE
    /\ loop' = "running"
    /\ owner' = "making"
    /\ UNCHANGED <<server, engine, callVars>>

\* _load_async up to its first await: the package is missing or
\* from_pretrained raises, and close() finds no server to stop.
MakeServer ==
    /\ owner = "making"
    /\ \/ /\ server' = "made"
          /\ engine' = "on"
          /\ owner' = "readying"
       \/ /\ owner' = "unhooking"
          /\ UNCHANGED <<server, engine>>
    /\ UNCHANGED <<loopRef, loop, callVars>>

\* Mutant: the exception of a failed warm-up leaves load without close().
LoadEndsUnclosed ==
    /\ \/ /\ owner = "readying"
          /\ \/ owner' = "warming" /\ server' = "ready"
             \/ owner' = "stopping" /\ UNCHANGED server
       \/ /\ owner = "warming"
          /\ owner' \in {"up", "down"}
          /\ UNCHANGED server
    /\ UNCHANGED <<engine, loopRef, loop, callVars>>

\* wait_for_ready and get_model_info, then the warm-up; when one of them
\* raises, close() stops the server.
LoadEnds ==
    /\ \/ /\ owner = "readying"
          /\ \/ owner' = "warming" /\ server' = "ready"
             \/ owner' = "stopping" /\ UNCHANGED server
       \/ /\ owner = "warming"
          /\ owner' \in {"up", "stopping"}
          /\ UNCHANGED server
    /\ UNCHANGED <<engine, loopRef, loop, callVars>>

\* Mutant: the router does not wait for the calls.
CloseBeginsEarly ==
    /\ owner = "up"
    /\ owner' = "stopping"
    /\ UNCHANGED <<server, engine, loopRef, loop, callVars>>

CloseBegins ==
    /\ owner = "up"
    /\ Inside = {}
    /\ owner' = "stopping"
    /\ UNCHANGED <<server, engine, loopRef, loop, callVars>>

\* server.stop(), on the loop; what it raises is logged.
StopServer ==
    /\ owner = "stopping"
    /\ LoopRuns
    /\ engine' \in {"off", "lost"}
    /\ owner' = "unhooking"
    /\ UNCHANGED <<server, loopRef, loop, callVars>>

StopLoop ==
    /\ owner = "unhooking"
    /\ server' = "none"
    /\ loopRef' = FALSE
    /\ loop' = "stopping"
    /\ owner' = "joining"
    /\ UNCHANGED <<engine, callVars>>

RunLoopReturns ==
    /\ loop = "stopping"
    /\ loop' = "closed"
    /\ UNCHANGED <<owner, server, engine, loopRef, callVars>>

\* The thread's end, or five seconds, whichever is first
JoinReturns ==
    /\ owner = "joining"
    /\ owner' = "down"
    /\ UNCHANGED <<server, engine, loopRef, loop, callVars>>

----------------------------------------------------------------------------
(* synthesize_stream *)

Goto(c, p) == call' = [call EXCEPT ![c] = p]

\* Call c leaves for p because of o.
Abort(c, o, p) ==
    /\ how' = [how EXCEPT ![c] = o]
    /\ Goto(c, p)

\* The caller's thread: the server must be there, the request must suit the
\* backend, and its reference audio must be readable.
Enter(c) ==
    /\ call[c] = "out"
    /\ owner = "up"
    /\ Cardinality(Inside) < Capability
    /\ IF server # "ready"
       THEN Abort(c, "failed", "done")
       ELSE \/ Goto(c, "prepared") /\ UNCHANGED how
            \/ Abort(c, "failed", "done")
    /\ UNCHANGED <<ownerVars, gen, sent, cancelled, queue>>

\* _run_on_loop: a loop that is closed takes nothing; one that is about to
\* stop takes what it will not run.
Submit(c) ==
    /\ call[c] = "prepared"
    /\ IF cancelled[c] THEN Abort(c, "cancelled", "done")
       ELSE IF ~loopRef \/ loop = "closed" THEN Abort(c, "failed", "done")
       ELSE Goto(c, "submitted") /\ UNCHANGED how
    /\ UNCHANGED <<ownerVars, gen, sent, cancelled, queue>>

\* The coroutine, up to encode_latents if there is a reference
Begin(c) ==
    /\ call[c] = "submitted"
    /\ LoopRuns
    /\ IF server = "none" THEN Abort(c, "failed", "done")
       ELSE IF cancelled[c] THEN Abort(c, "cancelled", "done")
       ELSE Goto(c, "encoding") /\ UNCHANGED how
    /\ UNCHANGED <<ownerVars, gen, sent, cancelled, queue>>

\* The reference is encoded, or there was none, or the engine refused it;
\* then generation starts.
Generate(c) ==
    /\ call[c] = "encoding"
    /\ LoopRuns
    /\ \/ Abort(c, "failed", "done") /\ UNCHANGED gen
       \/ cancelled[c] /\ Abort(c, "cancelled", "done") /\ UNCHANGED gen
       \/ /\ ~cancelled[c]
          /\ gen' = [gen EXCEPT ![c] = "running"]
          /\ Goto(c, "generating")
          /\ UNCHANGED how
    /\ UNCHANGED <<ownerVars, sent, cancelled, queue>>

\* The generator yields: unless the call is cancelled the chunk goes to the
\* pool.
NextChunk(c) ==
    /\ call[c] = "generating"
    /\ LoopRuns
    /\ IF cancelled[c]
       THEN Abort(c, "cancelled", "closing") /\ UNCHANGED queue
       ELSE /\ sent[c] < MaxChunks
            /\ Goto(c, "queued")
            /\ queue' = Append(queue, c)
            /\ UNCHANGED how
    /\ UNCHANGED <<ownerVars, gen, sent, cancelled>>

\* The generator ends, which is a failure if it gave no chunk, or raises.
GeneratorEnds(c) ==
    /\ call[c] = "generating"
    /\ LoopRuns
    /\ \/ Abort(c, IF sent[c] = 0 THEN "failed" ELSE "ok", "closing")
       \/ Abort(c, "failed", "closing")
    /\ UNCHANGED <<ownerVars, gen, sent, cancelled, queue>>

\* Mutant: one emit_audio at a time.
PoolTakesOne ==
    /\ queue # <<>>
    /\ At("emitting") = {}
    /\ Goto(Head(queue), "emitting")
    /\ queue' = Tail(queue)
    /\ UNCHANGED <<ownerVars, how, gen, sent, cancelled>>

PoolTakes ==
    /\ queue # <<>>
    /\ Cardinality(At("emitting")) < PoolSize
    /\ Goto(Head(queue), "emitting")
    /\ queue' = Tail(queue)
    /\ UNCHANGED <<ownerVars, how, gen, sent, cancelled>>

\* emit_audio has found room,
EmitReturns(c) ==
    /\ call[c] = "emitting"
    /\ c \notin Stalled
    /\ ~cancelled[c]
    /\ sent' = [sent EXCEPT ![c] = @ + 1]
    /\ Goto(c, "generating")
    /\ UNCHANGED <<ownerVars, how, gen, cancelled, queue>>

\* or the consumer has left, or stalled too long.
EmitRaises(c) ==
    /\ call[c] = "emitting"
    /\ Abort(c, IF cancelled[c] THEN "cancelled" ELSE "failed", "closing")
    /\ UNCHANGED <<ownerVars, gen, sent, cancelled, queue>>

\* Mutant: the generator is closed only when it was read to its end.
CloseGeneratorAtEnd(c) ==
    /\ call[c] = "closing"
    /\ LoopRuns
    /\ gen' = IF how[c] = "ok" THEN [gen EXCEPT ![c] = "closed"] ELSE gen
    /\ Goto(c, "done")
    /\ UNCHANGED <<ownerVars, how, sent, cancelled, queue>>

\* finally: chunks.aclose()
CloseGenerator(c) ==
    /\ call[c] = "closing"
    /\ LoopRuns
    /\ gen' = [gen EXCEPT ![c] = "closed"]
    /\ Goto(c, "done")
    /\ UNCHANGED <<ownerVars, how, sent, cancelled, queue>>

\* future.result()
Return(c) ==
    /\ call[c] = "done"
    /\ Goto(c, "returned")
    /\ UNCHANGED <<ownerVars, how, gen, sent, cancelled, queue>>

\* handle.cancel(), by whoever holds the handle
Cancel(c) ==
    /\ call[c] # "returned"
    /\ ~cancelled[c]
    /\ cancelled' = [cancelled EXCEPT ![c] = TRUE]
    /\ UNCHANGED <<ownerVars, call, how, gen, sent, queue>>

----------------------------------------------------------------------------
LoadStep == StartLoop \/ MakeServer \/ LoadEnds
CloseStep == StopServer \/ StopLoop \/ RunLoopReturns \/ JoinReturns

\* What the engine may keep waiting
EngineStep(c) == Generate(c) \/ NextChunk(c) \/ GeneratorEnds(c)
CallStep(c) == Submit(c) \/ Begin(c) \/ CloseGenerator(c) \/ Return(c)

Next ==
    \/ LoadStep \/ CloseBegins \/ CloseStep
    \/ PoolTakes
    \/ \E c \in Calls : \/ Enter(c) \/ CallStep(c) \/ EngineStep(c)
                        \/ EmitReturns(c) \/ EmitRaises(c) \/ Cancel(c)

Spec == Init /\ [][Next]_vars

\* Threads and the loop keep running, the engine answers, a reading consumer
\* makes room, and a consumer that reads nothing is given up after
\* stream_stall_timeout.
FairSpec ==
    /\ Spec
    /\ WF_vars(PoolTakes)
    /\ \A c \in Calls : WF_vars(CallStep(c)) /\ WF_vars(EngineStep(c))
    /\ \A c \in Calls \ Stalled : WF_vars(EmitReturns(c) \/ EmitRaises(c))
=============================================================================
