----------------------------- MODULE RequestPath -----------------------------
(***************************************************************************)
(* One request from the settings files to its status: the settings are     *)
(* read, the model is built and loaded, a message comes in and is refused, *)
(* or admitted and given to the runtime, whose audio is cut into chunks.   *)
(* What the threads do meanwhile is in Router, Executor and                *)
(* SynthesisStream; here one step is one function that may raise.          *)
(***************************************************************************)
EXTENDS Voices, AudioChunks

CONSTANTS Configurations,   \* pairs of settings files
          Messages,         \* what a client may send
          Lengths,          \* of an audio that a runtime returns, in frames
          ModelName,        \* the model whose load is followed
          JsonValues        \* the files, and all values in them

ASSUME PathAssumption == Lengths \subseteq Nat

ASSUME FilesAssumption ==
    /\ Configurations \subseteq JsonValues \X JsonValues
    /\ \A v \in JsonValues :
          /\ v.is \in {"number", "flag", "nan", "inf", "text", "null", "object", "list"}
          /\ v.is \in {"number", "flag"} => v.n \in Int
          /\ v.is = "object" => \A k \in DOMAIN v.of : v.of[k] \in JsonValues

ASSUME MessagesAssumption == \A m \in Messages : IsMessage(m)

\* A voice's name leads to no other directory.
ASSUME VoicesAssumption == \A v \in VoiceFiles : ~Unsafe(v)

VARIABLES
    phase,      \* what happens next
    files,      \* the settings file and the local one
    settings,   \* AppSettings, or <<>>
    lifecycle,  \* of the model
    rateKnown,  \* whether its library named a sample rate when it was loaded
    message,    \* the message, or <<>>
    call,       \* the call into the inference library, or <<>>
    error,      \* the class of the exception, or ""
    status      \* of the RPC, or ""

engineVars == <<files, settings, lifecycle, rateKnown>>
requestVars == <<message, call, error, status>>
pathVars == <<phase, engineVars, requestVars, chunkVars>>

Loaded == settings.models[ModelName]

\* _resolve_model_backend
Backend == IF Loaded.backend # "" THEN Loaded.backend ELSE settings.backend

Request == RequestOf(message)

PathInit ==
    /\ phase = "start" /\ files = <<>> /\ settings = <<>> /\ lifecycle = "unloaded"
    /\ rateKnown = TRUE
    /\ message = <<>> /\ call = <<>> /\ error = "" /\ status = ""
    /\ ChunkInit

----------------------------------------------------------------------------
(* The service *)

\* create_app: the settings are refused, the engine finds no models, or goes on
\* to load those that are enabled.
Configure(file, local) ==
    LET p == Payload(file, local)
    IN  /\ phase = "start"
        /\ files' = <<file, local>>
        /\ IF SettingsAccepted(p)
           THEN /\ settings' = SettingsOf(p)
                /\ phase' = IF DOMAIN SettingsOf(p).models = {} THEN "refused" ELSE "building"
           ELSE settings' = <<>> /\ phase' = "refused"
        /\ UNCHANGED <<lifecycle, rateKnown, requestVars, chunkVars>>

Enabled == ModelName \in DOMAIN settings.models /\ Loaded.number.enabled # 0

Serve(state) ==
    /\ phase = "building"
    /\ phase' = "serving"
    /\ lifecycle' = state
    /\ UNCHANGED <<files, settings, requestVars, chunkVars>>

LeaveUnloaded == phase = "building" /\ ~Enabled /\ Serve("unloaded") /\ UNCHANGED rateKnown

MaxStreamChunkBytes == 64 * 1024   \* of the NanoVLLM runtime

FitsBuffer ==
    Backend = "nanovllm_voxcpm" => MaxStreamChunkBytes * Unit <= settings.grpc.stream_buffer_bytes

\* _build_runtime, and the model files Kokoro needs
CanBeBuilt ==
    /\ Backend \in {"stub", "kokoro", "voxcpm2", "nanovllm_voxcpm"}
    /\ Backend = "kokoro" => Loaded.model_path # ""

\* Only NanoVLLM asks its library for the sample rate when it is loaded.
LoadSucceeds ==
    /\ phase = "building" /\ Enabled /\ CanBeBuilt /\ FitsBuffer
    /\ Serve("loaded")
    /\ rateKnown' \in IF Backend = "nanovllm_voxcpm" THEN BOOLEAN ELSE {TRUE}

\* Anything that an inference library does may raise, and so may the warm-up of
\* the VoxCPM runtimes.
LoadFails ==
    /\ phase = "building"
    /\ Enabled
    /\ Backend = "stub" => ~CanBeBuilt
    /\ Serve("failed")
    /\ UNCHANGED rateKnown

----------------------------------------------------------------------------
(* The request *)

\* The error ends the request; handle.fail keeps what the chunks were.
Answer(e) ==
    /\ phase' = "answered"
    /\ error' = e
    /\ status' = IF e = "" THEN "OK" ELSE StatusForError(e)

EngineError(m) ==
    IF Strip(m.model) \notin DOMAIN settings.models THEN "UnknownModelError"
    ELSE IF Strip(m.model) # ModelName \/ lifecycle # "loaded" THEN "ModelStateError"
    ELSE ""

\* request_from_proto and engine.stream; other models are not loaded.
Receive(m) ==
    /\ phase = "serving"
    /\ message' = m
    /\ \/ /\ ~Valid(m)
          /\ Answer("ValidationError")
       \/ /\ Valid(m) /\ EngineError(m) # ""
          /\ Answer(EngineError(m))
       \/ /\ Valid(m) /\ EngineError(m) = ""
          /\ phase' = "admitted"
          /\ UNCHANGED <<error, status>>
    /\ UNCHANGED <<engineVars, call, chunkVars>>

\* enqueue_stream finds the queue full; the client leaves before the dispatch.
EndBeforeDispatch(e) ==
    /\ phase = "admitted"
    /\ e \in {"RequestAdmissionError", "SynthesisCancelled"}
    /\ Answer(e)
    /\ UNCHANGED <<engineVars, message, call, chunkVars>>

\* The runtime prepares the request.
Prepare ==
    /\ phase = "admitted"
    /\ LET s == Synthesis(Backend, Loaded, rateKnown, Request)
       IN  IF s.error # "" THEN Answer(s.error) /\ call' = <<>>
           ELSE phase' = "calling" /\ call' = s.call /\ UNCHANGED <<error, status>>
    /\ UNCHANGED <<engineVars, message, chunkVars>>

\* The library raises, or returns what the runtime refuses with a ValueError: no
\* audio, a shape it cannot encode, and of VoxCPM2 also no sample rate.
RuntimeFails(e) ==
    /\ phase = "calling" /\ Backend # "stub"
    /\ e \in {"RuntimeError", "ValueError"}
    /\ Answer(e)
    /\ UNCHANGED <<engineVars, message, call, chunkVars>>

\* NanoVLLM: the chunks went out as they came (see NanoRuntime), or a consumer
\* was too slow, or left.
StreamEnds(e) ==
    /\ phase = "calling" /\ Backend = "nanovllm_voxcpm"
    /\ e \in {"", "SynthesisCancelled", "StreamConsumerStalled"}
    /\ Answer(e)
    /\ UNCHANGED <<engineVars, message, call, chunkVars>>

\* The others return a WAV.
AudioReturns(frames) ==
    /\ phase = "calling" /\ Backend # "nanovllm_voxcpm"
    /\ phase' = "chunking"
    /\ BeginChunks(frames, settings.grpc.stream_buffer_bytes \div Unit)
    /\ UNCHANGED <<engineVars, requestVars>>

CutChunks ==
    /\ phase = "chunking"
    /\ ChunkStep
    /\ UNCHANGED <<phase, engineVars, requestVars>>

ChunkingEnds(e) ==
    /\ phase = "chunking"
    /\ \/ chunking = "refused" /\ e = "ValueError"
       \/ chunking = "broken" /\ e \in {"SynthesisCancelled", "StreamConsumerStalled"}
       \/ chunking = "complete" /\ e = ""
    /\ Answer(e)
    /\ UNCHANGED <<engineVars, message, call, chunkVars>>

Errors == {"", "RequestAdmissionError", "SynthesisCancelled", "StreamConsumerStalled",
           "RuntimeError", "ValueError"}

PathNext ==
    \/ \E c \in Configurations : Configure(c[1], c[2])
    \/ LeaveUnloaded \/ LoadSucceeds \/ LoadFails
    \/ \E m \in Messages : Receive(m)
    \/ Prepare \/ CutChunks
    \/ \E frames \in Lengths : AudioReturns(frames)
    \/ \E e \in Errors :
          EndBeforeDispatch(e) \/ RuntimeFails(e) \/ StreamEnds(e) \/ ChunkingEnds(e)

PathSpec == PathInit /\ [][PathNext]_pathVars
=============================================================================
