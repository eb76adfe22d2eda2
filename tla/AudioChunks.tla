----------------------------- MODULE AudioChunks -----------------------------
(***************************************************************************)
(* _emit_complete_result (app/engine/scheduler.py): the WAV of a runtime   *)
(* that returns complete audio is cut into the chunks of a stream.         *)
(*                                                                         *)
(* Audio is counted in frames of FrameBytes bytes: anything but mono PCM   *)
(* of 16 bits is turned away before the first chunk.                       *)
(***************************************************************************)
EXTENDS Integers, Sequences

CONSTANT ReadLimit   \* the most bytes read at a time: 64 * 1024

ASSUME ChunkAssumption == ReadLimit \in Nat \ {0}

VARIABLES
    wav,        \* the frames of the WAV
    room,       \* max_audio_chunk_bytes: the byte limit of the stream's buffer
    emitted,    \* the chunks emitted, as StreamAudioChunk numbers them
    first,      \* first_sample
    chunking    \* where the function stands, or how it ended

chunkVars == <<wav, room, emitted, first, chunking>>

FrameBytes == 2

Least(m, n) == IF m <= n THEN m ELSE n

\* Mutant: rounded to no whole frame.
ChunkBytesOdd(bytes) == Least(bytes, ReadLimit) + 1

\* chunk_bytes: the limit, rounded down to whole frames
ChunkBytes(bytes) ==
    LET most == Least(bytes, ReadLimit) IN most - (most % FrameBytes)

FramesPerChunk == ChunkBytes(room) \div FrameBytes

ChunkInit ==
    /\ wav = 0 /\ room = 0
    /\ emitted = <<>> /\ first = 0
    /\ chunking = "waiting"

\* The audio that a runtime returned, and the stream it is for; emit_started.
BeginChunks(frames, bytes) ==
    /\ chunking = "waiting"
    /\ wav' = frames
    /\ room' = bytes
    /\ chunking' = IF ChunkBytes(bytes) <= 0 THEN "refused" ELSE "emitting"
    /\ UNCHANGED <<emitted, first>>

\* One turn of the loop
EmitChunk ==
    /\ chunking = "emitting"
    /\ first < wav
    /\ LET frames == Least(FramesPerChunk, wav - first)
       IN  /\ emitted' = Append(emitted, [number |-> Len(emitted), first |-> first,
                                          frames |-> frames])
           /\ first' = first + frames
    /\ UNCHANGED <<wav, room, chunking>>

\* emit_started or emit_audio raises: the stream is cancelled, or its consumer
\* is stalled.
EmitRaises ==
    /\ chunking = "emitting"
    /\ emitted = <<>> \/ first < wav
    /\ chunking' = "broken"
    /\ UNCHANGED <<wav, room, emitted, first>>

\* readframes returns nothing more.
EndChunks ==
    /\ chunking = "emitting"
    /\ first >= wav
    /\ chunking' = "complete"
    /\ UNCHANGED <<wav, room, emitted, first>>

\* What the RuntimeStreamResult says
TotalSampleCount == first
ChunkCount == Len(emitted)

ChunkStep == EmitChunk \/ EmitRaises \/ EndChunks

ChunkNext == (\E frames, bytes \in Nat : BeginChunks(frames, bytes)) \/ ChunkStep

ChunkSpec == ChunkInit /\ [][ChunkNext]_chunkVars

----------------------------------------------------------------------------
(* Properties *)

ChunkTypeOK ==
    /\ wav \in Nat /\ room \in Nat /\ first \in Nat
    /\ emitted \in Seq([number : Nat, first : Nat, frames : Nat])
    /\ chunking \in {"waiting", "refused", "emitting", "broken", "complete"}

\* The chunks of a stream are its audio: numbered from 0, each where the one
\* before it ends, none empty, and none larger than the buffer it has to go
\* through, which emit_audio would take for a stalled consumer
\* (streaming.py:165-166); and the counts reported at the end are theirs
\* (scheduler.py:466-495).
ChunksAreTheAudio ==
    /\ \A i \in 1 .. Len(emitted) :
          /\ emitted[i].number = i - 1
          /\ emitted[i].frames > 0
          /\ FrameBytes * emitted[i].frames <= room
          /\ emitted[i].first + emitted[i].frames =
                IF i = Len(emitted) THEN first ELSE emitted[i + 1].first
    /\ emitted # <<>> => emitted[1].first = 0
    /\ emitted = <<>> => first = 0
    /\ chunking = "complete" => TotalSampleCount = wav
=============================================================================
