-------------------------- MODULE SynthesisHandle --------------------------
(***************************************************************************)
(* SynthesisHandle (app/engine/streaming.py): the bounded event stream     *)
(* between the thread that runs a synthesis and the transport that reads   *)
(* it.  Every operation below is what one method does while it holds the   *)
(* handle's lock.  One thread writes audio and one coroutine reads.        *)
(*                                                                         *)
(* An event is a record of its kind, its place in the audio (the number of *)
(* chunks and of samples before it; for Completed these are the totals)    *)
(* and its size.                                                           *)
(* Buffer sizes are counted in samples of two bytes.  The buffer's         *)
(* high-water marks, which only feed metrics, are left out.                *)
(***************************************************************************)
EXTENDS Integers, Sequences, SequencesExt, FiniteSets

CONSTANTS
    MaxBufferChunks,    \* stream_buffer_chunks
    MaxBufferSamples    \* stream_buffer_bytes

ASSUME HandleAssumption ==
    /\ MaxBufferChunks \in Nat \ {0}
    /\ MaxBufferSamples \in Nat \ {0}

VARIABLES
    events,            \* _events
    bufferedChunks,    \* _buffered_audio_chunks
    bufferedSamples,   \* _buffered_audio_bytes
    dispatched,        \* _dispatched
    terminal,          \* _terminal
    error,             \* _error
    cancelled,         \* _cancelled
    callbacks,         \* _terminal_callbacks
    writerWaits,       \* a thread waits on _cond in emit_audio
    waiter             \* _async_waiters: the future the reader awaits

bufferVars == <<events, bufferedChunks, bufferedSamples>>
handleVars == <<bufferVars, dispatched, terminal, error, cancelled, callbacks,
                writerWaits, waiter>>

EventAt(kind, chunk, sample, size) ==
    [kind |-> kind, chunk |-> chunk, sample |-> sample, size |-> size]

Started == EventAt("started", 0, 0, 0)
Audio(chunk, sample, size) == EventAt("audio", chunk, sample, size)
Completed(chunks, samples) == EventAt("completed", chunks, samples, 0)

IsAudio(e) == e.kind = "audio"

HandleInit ==
    /\ events = <<>>
    /\ bufferedChunks = 0
    /\ bufferedSamples = 0
    /\ dispatched = FALSE
    /\ terminal = FALSE
    /\ error = "none"
    /\ cancelled = FALSE
    /\ callbacks = {}
    /\ writerWaits = FALSE
    /\ waiter = "none"

----------------------------------------------------------------------------
(* Waking those who wait *)

\* _wake_async_waiters_locked: a callback that resolves the future is posted to
\* its event loop.
WakeReader == waiter' = IF waiter = "registered" THEN "posted" ELSE waiter

\* self._cond.notify_all()
WakeWriter == writerWaits' = FALSE

----------------------------------------------------------------------------
(* The writer's side *)

\* Mutant: off by one.
HasRoomOneMore(samples) ==
    /\ bufferedChunks <= MaxBufferChunks
    /\ bufferedSamples + samples <= MaxBufferSamples

HasRoom(samples) ==
    /\ bufferedChunks < MaxBufferChunks
    /\ bufferedSamples + samples <= MaxBufferSamples

\* _raise_if_stopped_locked, and what it raises
Stopped == cancelled \/ terminal

StopError == IF cancelled \/ error = "none" THEN "cancelled" ELSE error

MarkDispatched ==
    /\ dispatched' = TRUE
    /\ UNCHANGED <<bufferVars, terminal, error, cancelled, callbacks,
                   writerWaits, waiter>>

AppendControl(e) ==
    /\ ~Stopped
    /\ events' = Append(events, e)
    /\ WakeWriter /\ WakeReader
    /\ UNCHANGED <<bufferedChunks, bufferedSamples, dispatched, terminal, error,
                   cancelled, callbacks>>

\* emit_audio that finds room
AppendAudio(e) ==
    /\ HasRoom(e.size)
    /\ ~Stopped
    /\ events' = Append(events, e)
    /\ bufferedChunks' = bufferedChunks + 1
    /\ bufferedSamples' = bufferedSamples + e.size
    /\ WakeWriter /\ WakeReader
    /\ UNCHANGED <<dispatched, terminal, error, cancelled, callbacks>>

\* emit_audio that has to wait for room
WaitForRoom(e) ==
    /\ ~HasRoom(e.size)
    /\ ~Stopped
    /\ writerWaits' = TRUE
    /\ UNCHANGED <<bufferVars, dispatched, terminal, error, cancelled, callbacks,
                   waiter>>

\* Mutant: the reader is not woken.
FinishSilent(last, err) ==
    /\ ~terminal
    /\ events' = events \o last
    /\ error' = err
    /\ terminal' = TRUE
    /\ callbacks' = {}
    /\ WakeWriter
    /\ UNCHANGED <<bufferedChunks, bufferedSamples, dispatched, cancelled, waiter>>

\* _finish that is the first; a later one changes nothing.
Finish(last, err) ==
    /\ ~terminal
    /\ events' = events \o last
    /\ error' = err
    /\ terminal' = TRUE
    /\ callbacks' = {}
    /\ WakeWriter /\ WakeReader
    /\ UNCHANGED <<bufferedChunks, bufferedSamples, dispatched, cancelled>>

----------------------------------------------------------------------------
(* Cancellation, and callbacks *)

\* Mutant: the reader is not woken.
SetCancelledSilent ==
    /\ ~Stopped
    /\ cancelled' = TRUE
    /\ WakeWriter
    /\ UNCHANGED <<bufferVars, dispatched, terminal, error, callbacks, waiter>>

\* cancel() that is the first
SetCancelled ==
    /\ ~Stopped
    /\ cancelled' = TRUE
    /\ WakeWriter /\ WakeReader
    /\ UNCHANGED <<bufferVars, dispatched, terminal, error, callbacks>>

\* Mutant: also after the handle is terminal.
AddTerminalCallbackLate(c) ==
    /\ callbacks' = callbacks \union {c}
    /\ UNCHANGED <<bufferVars, dispatched, terminal, error, cancelled,
                   writerWaits, waiter>>

\* add_terminal_callback before the handle is terminal
AddTerminalCallback(c) ==
    /\ ~terminal
    /\ callbacks' = callbacks \union {c}
    /\ UNCHANGED <<bufferVars, dispatched, terminal, error, cancelled,
                   writerWaits, waiter>>

----------------------------------------------------------------------------
(* The reader's side: read_event_async *)

Readable == events # <<>> \/ terminal \/ cancelled

\* Mutant: an error overtakes the events before it.
ReadErrorFirst == IF cancelled THEN "cancelled" ELSE error

\* What _pop_event_locked raises, "none" if it returns.
ReadError == IF cancelled THEN "cancelled"
             ELSE IF events = <<>> THEN error ELSE "none"

\* Mutant: the writer is not woken.
PopEventSilent ==
    /\ ~cancelled
    /\ events # <<>>
    /\ events' = Tail(events)
    /\ IF IsAudio(Head(events))
       THEN /\ bufferedChunks' = bufferedChunks - 1
            /\ bufferedSamples' = bufferedSamples - Head(events).size
       ELSE UNCHANGED <<bufferedChunks, bufferedSamples>>
    /\ UNCHANGED <<dispatched, terminal, error, cancelled, callbacks, writerWaits,
                   waiter>>

\* _pop_event_locked that returns an event
PopEvent ==
    /\ ~cancelled
    /\ events # <<>>
    /\ events' = Tail(events)
    /\ IF IsAudio(Head(events))
       THEN /\ bufferedChunks' = bufferedChunks - 1
            /\ bufferedSamples' = bufferedSamples - Head(events).size
            /\ WakeWriter
       ELSE UNCHANGED <<bufferedChunks, bufferedSamples, writerWaits>>
    /\ UNCHANGED <<dispatched, terminal, error, cancelled, callbacks, waiter>>

RegisterWaiter ==
    /\ ~Readable
    /\ waiter' = "registered"
    /\ UNCHANGED <<bufferVars, dispatched, terminal, error, cancelled, callbacks,
                   writerWaits>>

\* _resolve_waiter, on the reader's event loop
ResolveWaiter ==
    /\ waiter = "posted"
    /\ waiter' = "resolved"
    /\ UNCHANGED <<bufferVars, dispatched, terminal, error, cancelled, callbacks,
                   writerWaits>>

DiscardWaiter ==
    /\ waiter' = "none"
    /\ UNCHANGED <<bufferVars, dispatched, terminal, error, cancelled, callbacks,
                   writerWaits>>
============================================================================
