--------------------------- MODULE NanoProperties ---------------------------
(* What the NanoVLLM runtime owes the executor and the router. *)
EXTENDS NanoRuntime

\* The variables have their types.
TypeOK ==
    /\ owner \in {"new", "making", "readying", "warming", "up", "stopping",
                  "unhooking", "joining", "down"}
    /\ server \in {"none", "made", "ready"}
    /\ engine \in {"off", "on", "lost"}
    /\ loopRef \in BOOLEAN
    /\ loop \in {"none", "running", "stopping", "closed"}
    /\ call \in [Calls -> {"out", "prepared", "submitted", "encoding", "generating",
                           "queued", "emitting", "closing", "done", "returned"}]
    /\ how \in [Calls -> Outcomes]
    /\ gen \in [Calls -> {"none", "running", "closed"}]
    /\ sent \in [Calls -> 0 .. MaxChunks]
    /\ cancelled \in [Calls -> BOOLEAN]
    /\ queue \in Seq(Calls)

Sequences == {c \in Calls : gen[c] = "running"}

\* The engine never runs more sequences than it was configured for, because a
\* call that ends, fails or is cancelled in any place has closed its generator
\* before its thread gives the slot back (nanovllm_voxcpm.py:284-302).
SequencesWithinCapability ==
    /\ Cardinality(Sequences) <= Capability
    /\ \A c \in Sequences : call[c] \in {"generating", "queued", "emitting", "closing"}

\* No thread waits for a coroutine that a stopped loop will never run
\* (nanovllm_voxcpm.py:469-485): future.result() has no timeout.
NobodyStranded == Inside # {} => loop = "running" /\ loopRef /\ server = "ready"

\* However far a load got before it failed, and when a model is unloaded,
\* close leaves no engine process, no server and no loop behind, unless stop()
\* itself raised (nanovllm_voxcpm.py:80-97).
NothingLeftBehind ==
    owner = "down" =>
        /\ engine # "on"
        /\ server = "none"
        /\ ~loopRef
        /\ loop \in {"stopping", "closed"}

Stops(c) == WF_vars(EmitRaises(c))

\* If stalled consumers are given up in the end, every call returns, also when
\* there are more calls than threads in the pool.
EveryCallReturns ==
    (\A c \in Stalled : Stops(c))
        => \A c \in Calls : call[c] = "prepared" ~> call[c] = "returned"

\* A slow stream does not stop unrelated streams
\* (docs/low-latency-tts-delivery.md:396), as long as the pool has more threads
\* than there are stalled consumers.
SlowStreamStopsNoOther ==
    Cardinality(Stalled) < PoolSize =>
        \A c \in Calls \ Stalled : call[c] = "prepared" ~> call[c] = "returned"

----------------------------------------------------------------------------
(* The inductive invariant *)

\* Where a sequence is open its call is between generate and aclose; the calls
\* that wait for the pool do so once, and the calls inside are within the slots;
\* and what the owner's place says of the server and the loop.
HeldInv ==
    /\ \A c \in Sequences : call[c] \in {"generating", "queued", "emitting", "closing"}
    /\ \A i \in 1 .. Len(queue) : call[queue[i]] = "queued"
    /\ \A i, k \in 1 .. Len(queue) : queue[i] = queue[k] => i = k
    /\ \A c \in Calls : call[c] \in {"queued", "emitting"} => sent[c] < MaxChunks
    /\ Cardinality(Inside) <= Capability
    /\ Inside # {} => owner = "up"
    /\ owner = "new" => server = "none" /\ engine = "off" /\ ~loopRef /\ loop = "none"
    /\ owner = "making" => server = "none" /\ engine = "off"
    /\ owner \in {"warming", "up"} => server = "ready"
    /\ owner \in {"making", "readying", "warming", "up", "stopping"} =>
          loopRef /\ loop = "running"
    /\ owner \in {"unhooking", "joining", "down"} => engine # "on"
    /\ owner \in {"joining", "down"} =>
          server = "none" /\ ~loopRef /\ loop \in {"stopping", "closed"}
    /\ loop = "stopping" => owner \in {"joining", "down"}

IInv == TypeOK /\ HeldInv
=============================================================================
