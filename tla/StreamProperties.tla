-------------------------- MODULE StreamProperties --------------------------
(***************************************************************************)
(* What makes one streamed synthesis correct.                              *)
(***************************************************************************)
EXTENDS SynthesisStream

----------------------------------------------------------------------------
(* Safety *)

AudioAt(es) == {i \in DOMAIN es : IsAudio(es[i])}

\* The counters emit_audio waits on are those of the audio in the buffer, and
\* neither limit is ever exceeded, whoever reads, cancels or ends the stream:
\* a counter that drifts would stall a healthy client or let a buffer grow.
BufferAccounting ==
    /\ bufferedChunks = Cardinality(AudioAt(events))
    /\ bufferedSamples = MapThenSumSet(LAMBDA i : events[i].size, AudioAt(events))
    /\ bufferedChunks <= MaxBufferChunks
    /\ bufferedSamples <= MaxBufferSamples

\* A runtime thread waits in emit_audio only while its chunk does not fit and
\* nobody has ended the stream: it never holds its slot asleep for nothing.
WriterNotForgotten ==
    writerWaits => worker = "emitting" /\ ~late /\ ~HasRoom(emitting.size) /\ ~Stopped

\* The handler sleeps on its future only while there is nothing to read, or the
\* callback that resolves the future is on its way.
ReaderNotForgotten ==
    /\ handler = "awaiting" <=> waiter # "none"
    /\ waiter = "registered" => ~Readable

\* read_event_async never returns None to the handler: a handler that reads has
\* an event, an error or the wait before it, never a stream that has ended
\* without telling it how.
EveryReadIsAnswered ==
    handler \in {"reading", "awaiting"} /\ Readable => events # <<>> \/ ReadError # "none"

\* Nobody who takes part in a stream sleeps through what it sleeps for: the
\* runtime's thread, the handler on its future, and the handler that reads.
NobodyForgotten == WriterNotForgotten /\ ReaderNotForgotten /\ EveryReadIsAnswered

Registered(c) == IF c = "stream_finished" THEN doneCallback # "none"
                 ELSE handler = "ended" /\ IsCancellation

\* Every terminal callback that was registered is still registered, or is about
\* to be run, or has run, and only one of the three, however its registration
\* races with the end of the stream.  The router's count of streams, and so
\* every unload, depends on it.
CallbacksAccounted ==
    /\ terminal => callbacks = {}
    /\ \A c \in TerminalCallbacks :
          ran[c] + Cardinality({s \in {"registered", "due"} :
                                   \/ s = "registered" /\ c \in callbacks
                                   \/ s = "due" /\ c \in toRun})
              = IF Registered(c) THEN 1 ELSE 0

Statuses == counters["status_ok"] + counters["status_cancelled"] + counters["status_error"]

\* Every RPC is counted under one status, when its handler ends, and every
\* cancelled one as either queued or active, although a cancellation can reach
\* the handler both as CancelledError and through the handle.  Only an RPC whose
\* client leaves while an event is being written may be counted nowhere.
CountedOnce ==
    /\ Statuses <= 1
    /\ handler = "ended" => Statuses = 1
    /\ handler = "dropped" => Statuses = 0 /\ rpc = "left"
    /\ counters["queued_cancellations"] + counters["active_cancellations"] =
          counters["status_cancelled"]

\* Counters distinguish queued from active cancellation
\* (docs/low-latency-tts-delivery.md, Observability): a cancellation counted as
\* queued is of a request the runtime never worked on.
QueuedMeansNotRun ==
    counters["queued_cancellations"] = 1 => worker \notin {"running", "emitting"}

----------------------------------------------------------------------------
(* The inductive strengthening the proofs use *)

Events == [kind : {"started", "audio", "completed"}, chunk : Nat, sample : Nat, size : Nat]

Errors == {"cancelled", "failed", "stalled", "unloading"}

HandleTypeOK ==
    /\ events \in Seq(Events)
    /\ bufferedChunks \in Int /\ bufferedSamples \in Int
    /\ dispatched \in BOOLEAN /\ terminal \in BOOLEAN /\ cancelled \in BOOLEAN
    /\ error \in Errors \union {"none"}
    /\ writerWaits \in BOOLEAN
    /\ waiter \in {"none", "registered", "posted", "resolved"}

WorkTypeOK ==
    /\ job \in {"none", "queued", "gone"}
    /\ unloading \in BOOLEAN /\ unloadCancels \in BOOLEAN
    /\ worker \in {"none", "taken", "begun", "running", "emitting", "returned", "released",
                   "completing", "notifying", "ended"}
    /\ emitting \in Events /\ late \in BOOLEAN /\ started \in BOOLEAN
    /\ chunk \in Nat /\ sample \in Nat
    /\ result \in Errors \union {"none", "ok"}
    /\ canceller \in {"none", "callback", "failing", "notifying", "done"} /\ byLoop \in BOOLEAN

HandlerTypeOK ==
    /\ handler \in {"calling", "reading", "awaiting", "writing", "classifying", "cancelling",
                    "logging", "ended", "dropped"}
    /\ caught \in Errors \union {"none", "refused", "CancelledError"}
    /\ received \in Seq(Events)
    /\ writing \in Seq(Events) /\ Len(writing) <= 1
    /\ rpc \in {"open", "left", "done"}
    /\ doneCallback \in {"none", "due", "run"}
    /\ counters \in [CounterNames -> Nat]
    /\ callbacks \subseteq TerminalCallbacks /\ toRun \subseteq TerminalCallbacks
    /\ ran \in [TerminalCallbacks -> Nat]

TypeOK == HandleTypeOK /\ WorkTypeOK /\ HandlerTypeOK

\* Events without a gap: after each comes the next, or, after the last, what
\* the runtime will emit at chunk c and sample s.
Linked(q, c, s) ==
    \A i \in 1 .. Len(q) :
        /\ q[i].chunk + (IF IsAudio(q[i]) THEN 1 ELSE 0)
               = IF i = Len(q) THEN c ELSE q[i + 1].chunk
        /\ q[i].sample + q[i].size = IF i = Len(q) THEN s ELSE q[i + 1].sample
        /\ ~IsAudio(q[i]) => q[i].size = 0

\* The counters of the buffer are what lies between its first event and the
\* next the runtime emits.
BufferInv ==
    /\ Linked(events, chunk, sample)
    /\ bufferedChunks = IF events = <<>> THEN 0 ELSE chunk - events[1].chunk
    /\ bufferedSamples = IF events = <<>> THEN 0 ELSE sample - events[1].sample
    /\ bufferedChunks <= MaxBufferChunks /\ bufferedSamples <= MaxBufferSamples
    /\ worker = "emitting" => emitting = Audio(chunk, sample, emitting.size)

\* Who can still end the handle, and with what.
WorkerInv ==
    /\ handler = "calling" =>
          /\ job = "none" /\ ~cancelled /\ rpc = "open"
          /\ callbacks = {} /\ doneCallback = "none"
    /\ job = "none" <=> doneCallback = "none"
    /\ job = "none" => worker = "none" /\ ~terminal /\ canceller = "none" /\ ~started
    /\ job = "queued" => worker = "none" /\ ~terminal /\ canceller \in {"none", "callback"}
    /\ worker = "none" => ~started
    /\ worker \notin {"none", "notifying", "ended"} => ~terminal
    /\ unloadCancels => job = "gone"
    /\ canceller # "none" => cancelled
    /\ canceller = "failing" => job = "gone" /\ worker = "none"
    /\ worker \in {"returned", "released"} => result # "none"
    /\ worker = "completing" => result = "ok"
    /\ worker = "emitting" \/ result = "ok" => started
    /\ result = "cancelled" \/ error = "cancelled" => cancelled
    /\ error # "none" => terminal

\* The events of the stream: those the client has, the one on its way to it and
\* those in the buffer.
Sent == received \o writing \o events

HasCompleted(q) == \E i \in DOMAIN q : q[i].kind = "completed"

SentInv ==
    /\ Linked(Sent, chunk, sample)
    /\ Sent = <<>> => chunk = 0 /\ sample = 0
    /\ started <=> Sent # <<>>
    /\ HasCompleted(Sent) <=> terminal /\ error = "none"
    /\ HasCompleted(received) => handler = "ended"

\* What the handler knows where it stands.
HandlerInv ==
    /\ handler \in {"calling", "reading", "awaiting", "writing"} => caught = "none"
    /\ handler \in {"calling", "reading", "awaiting"} => writing = <<>>
    /\ handler = "writing" => writing # <<>>
    /\ handler \in {"classifying", "cancelling", "logging"} => caught \notin {"none", "refused"}
    /\ handler = "logging" => IsCancellation
    /\ handler = "dropped" \/ caught = "CancelledError" => rpc = "left"
    /\ caught = "cancelled" => cancelled
    /\ caught \in Errors \ {"cancelled"} => terminal /\ events = <<>> /\ writing = <<>>
    /\ handler = "awaiting" /\ waiter = "registered" => ~Readable
    /\ handler = "awaiting" <=> waiter # "none"

\* A terminal callback that was registered is in one place.
CallbackInv ==
    /\ terminal => callbacks = {}
    /\ ~terminal => toRun = {}
    /\ doneCallback = "none" <=> handler = "calling" \/ caught = "refused"
    /\ \A c \in TerminalCallbacks :
          \/ ~Registered(c) /\ c \notin callbacks \union toRun /\ ran[c] = 0
          \/ Registered(c) /\ c \in callbacks \ toRun /\ ran[c] = 0
          \/ Registered(c) /\ c \in toRun \ callbacks /\ ran[c] = 0
          \/ Registered(c) /\ c \notin callbacks \union toRun /\ ran[c] = 1

\* The RPC has been counted: when it has ended, but a cancelled handler is
\* counted before it cancels.
Counted ==
    \/ handler \in {"logging", "ended"}
    \/ handler = "cancelling" /\ caught = "CancelledError"

CountInv ==
    /\ Statuses = IF Counted THEN 1 ELSE 0
    /\ counters["queued_cancellations"] + counters["active_cancellations"] =
          counters["status_cancelled"]

IInv ==
    /\ TypeOK
    /\ BufferInv
    /\ WorkerInv
    /\ SentInv
    /\ HandlerInv
    /\ CallbackInv
    /\ CountInv
    /\ WriterNotForgotten

----------------------------------------------------------------------------
(* Liveness *)

RuntimeProceeds == WF_vars(Runtime)
ClientReads == WF_vars(Written)

\* A thread blocked on a full buffer is freed within its deadline, whatever the
\* client does.
WriterIsFreed == worker = "emitting" ~> worker # "emitting"

\* Every accepted request is released, so that its model can be unloaded, even
\* if its client never reads and never leaves.
StreamFinishes ==
    RuntimeProceeds => (doneCallback = "due" ~> ran["stream_finished"] = 1)

\* A handler that waits for an event is told when the stream is cancelled or
\* ends, by whichever thread, even if the runtime hangs.
ReaderIsTold == Stopped ~> handler \notin {"reading", "awaiting"}

\* The RPC of a client that keeps reading ends.
ReadingClientIsServed ==
    RuntimeProceeds /\ ClientReads => <>(handler \in {"ended", "dropped"})

----------------------------------------------------------------------------
(* The stream implements its contract *)

Ending ==
    CASE handler = "dropped" -> "cancelled"
      [] handler = "ended" /\ caught = "none" -> "ok"
      [] handler = "ended" /\ IsCancellation -> "cancelled"
      [] handler = "ended" /\ ~IsCancellation /\ caught # "none" -> "failed"
      [] OTHER -> "open"

Contract == INSTANCE StreamContract WITH
    sent      <- received \o writing \o events,
    ending    <- Ending,
    withdrawn <- cancelled \/ rpc = "left"

\* Every behaviour of the threads is one the contract allows.
ImplementsContract == Contract!ContractSpec
=============================================================================
