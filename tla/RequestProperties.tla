-------------------------- MODULE RequestProperties --------------------------
(* What should hold of a request on its way, and of the settings it meets. *)
EXTENDS RequestPath

----------------------------------------------------------------------------
(* The settings *)

Missing == [is |-> "missing"]

\* What an object says of a key
Inside(v, k) == IF v.is = "object" THEN Field(v, k, Missing) ELSE Missing

\* The two files at a key of a section: what the settings file says does not
\* count if the local file has something else in place of the section.
Below(pair, k) ==
    <<IF pair[2].is \in {"missing", "object"} THEN Inside(pair[1], k) ELSE Missing,
      Inside(pair[2], k)>>

\* What they say together: the local file decides what it names.
Effective(pair) ==
    IF pair[2].is = "missing" THEN pair[1]
    ELSE IF pair[1].is = "object" /\ pair[2].is = "object" THEN Overlay(pair[1], pair[2])
    ELSE pair[2]

Files == <<AsObject(files[1]), AsObject(files[2])>>

ReadsAs(parsed, rules, section) ==
    \A f \in DOMAIN rules :
        LET v == Effective(Below(section, f))
        IN  IF v.is = "missing" THEN parsed[f] = rules[f].default
            ELSE Accepts(rules[f], v) /\ parsed[f] = Value(rules[f], v)

Whole(n) == n >= Unit /\ n % Unit = 0

\* Settings the service starts with satisfy what the other modules assume of
\* their constants: limits, buffers and weights are positive, whole where they
\* count (FairQueueAssumption, and the buffers of SynthesisHandle), clipping is
\* bounded, the two ports differ.  And each value comes from the local file if
\* that names it and otherwise from the settings file, whatever else either
\* names (config.py:118-267, 302-310).
SettingsKeepAssumptions ==
    settings # <<>> =>
        /\ \A f \in DOMAIN FairnessRules : settings.fairness[f] > 0
        /\ \A f \in {"soft_max_inflight_per_key", "max_pending_per_key",
                     "max_pending_per_executor"} : Whole(settings.fairness[f])
        /\ \A k \in DOMAIN settings.weights : settings.weights[k] > 0
        /\ Whole(settings.grpc.stream_buffer_chunks) /\ Whole(settings.grpc.stream_buffer_bytes)
        /\ settings.grpc.stalled_consumer_timeout_s > 0 /\ settings.grpc.shutdown_grace_s > 0
        /\ settings.grpc.enabled # 0 => settings.grpc.port # settings.service.port
        /\ \A m \in DOMAIN settings.models :
              LET number == settings.models[m].number
              IN  /\ Whole(number.target_inflight) /\ Whole(number.nanovllm_max_num_seqs)
                  /\ number.voxcpm2_reference_max_duration_s \in Unit .. 60 * Unit
                  /\ number.nanovllm_reference_max_duration_s \in Unit .. 60 * Unit
                  /\ ReadsAs(number, ModelRules, Below(Below(Below(Files, "engine"), "models"), m))
        /\ ReadsAs(settings.service, ServiceRules, Below(Files, "service"))
        /\ ReadsAs(settings.grpc, GrpcRules, Below(Below(Files, "service"), "grpc"))
        /\ ReadsAs(settings.fairness, FairnessRules, Below(Below(Files, "engine"), "fairness"))

----------------------------------------------------------------------------
(* The request *)

\* The language codes of Kokoro's documentation for the languages it advertises
SpokenBy ==
    [l \in {"English", "British English", "Spanish", "French", "Hindi", "Italian", "Portuguese",
            "Brazilian Portuguese", "Japanese", "Chinese"} |->
       CASE l = "English" -> "a" [] l = "British English" -> "b" [] l = "Spanish" -> "e"
         [] l = "French" -> "f" [] l = "Hindi" -> "h" [] l = "Italian" -> "i"
         [] l \in {"Portuguese", "Brazilian Portuguese"} -> "p" [] l = "Japanese" -> "j"
         [] l = "Chinese" -> "z"]

\* A voice that is there, and speaks the language
Suits(voice, language) ==
    Stem(Strip(voice)) \in VoiceFiles /\ StartsWith(Stem(Strip(voice)), SpokenBy[language])

\* The operator has the files of the default voices, and maps languages to voices
\* that speak them.
VoicesConfigured ==
    Backend = "kokoro" =>
        /\ \A c \in DOMAIN DefaultVoiceByPipeline : DefaultVoiceByPipeline[c] \in VoiceFiles
        /\ \A l \in DOMAIN Loaded.voice_presets \intersect DOMAIN SpokenBy :
              Suits(Loaded.voice_presets[l], l)

\* A message keeps to the limits of docs/api.md and asks for nothing that the
\* model's capabilities do not list.
Complies(m) ==
    LET c == CapabilitiesForBackend(Backend, Loaded)
    IN  /\ Strip(m.model) = ModelName /\ ModelName # "" /\ m.output_encoding = "pcm_s16le" /\ Strip(m.input) # ""
        /\ m.fairness_key = "" \/ Strip(m.fairness_key) \notin {"", "long"}
        /\ m.language \in c.languages
        /\ m.voice.preset = "" \/ (c.voice_presets /\ Suits(m.voice.preset, m.language))
        /\ m.voice.instructions = "" \/ c.voice_instructions
        /\ \A i \in DOMAIN m.voice.reference :
              LET a == m.voice.reference[i]
              IN  /\ c.reference_audio /\ a.mime_type \in c.reference_audio_mime_types
                  /\ ~a.corrupt /\ a.rate > 0 /\ a.bytes <= MaxReferenceAudioBytes
                  /\ \/ a.max_duration_s = Absent
                     \/ a.max_duration_s \in 1 .. c.reference_audio_max_duration_s
        /\ \A f \in DOMAIN m.generation :
              f \in DOMAIN c.request_generation /\ Within(m.generation[f], c.request_generation[f])

\* Whatever a model advertises it also accepts: a request that complies with
\* the capabilities reaches the inference library, unless the queue is full or
\* its client leaves, or the library named no sample rate when it was loaded.  The advertised list, the schema and each runtime's own
\* tables are written down in four files (common.py:225-307, schemas.py,
\* kokoro.py:20-63, voxcpm2.py:193-229).
CompliantIsServed ==
    phase = "answered" /\ lifecycle = "loaded" /\ rateKnown /\ VoicesConfigured
        /\ Complies(message) =>
        call # <<>> \/ error \in {"RequestAdmissionError", "SynthesisCancelled"}

\* The numbers a library is called with: the argument, the field of the message
\* that asks for it, and the setting for a message that does not.
NumericArguments(b) ==
    CASE b = "stub" -> {}
      [] b = "kokoro" -> {<<"speed", "kokoro.speed", "kokoro_speed">>}
      [] b = "voxcpm2" ->
            {<<"cfg_value", "voxcpm2.cfg_value", "voxcpm2_cfg_value">>,
             <<"inference_timesteps", "voxcpm2.inference_timesteps",
               "voxcpm2_inference_timesteps">>,
             <<"normalize", "voxcpm2.normalize", "voxcpm2_normalize">>,
             <<"denoise", "voxcpm2.denoise", "voxcpm2_denoise">>}
      [] b = "nanovllm_voxcpm" ->
            {<<"cfg_value", "nanovllm_voxcpm.cfg_value", "nanovllm_cfg_value">>,
             <<"temperature", "nanovllm_voxcpm.temperature", "nanovllm_temperature">>,
             <<"max_generate_length", "nanovllm_voxcpm.max_generate_length",
               "nanovllm_max_generate_length">>}

NumbersAsAsked(c) ==
    \A n \in NumericArguments(Backend) :
        IF n[2] \in DOMAIN message.generation THEN c[n[1]] = message.generation[n[2]]
        ELSE c[n[1]] = Loaded.number[n[3]]

\* The voice the operator has given the language of the message
ConfiguredVoice ==
    LET l == Strip(message.language)
    IN  IF l \in DOMAIN Loaded.voice_presets THEN Strip(Loaded.voice_presets[l]) ELSE ""

KokoroAsAsked(c) ==
    LET asked == Strip(message.voice.preset)
    IN  /\ c.text = Strip(message.input)
        /\ message.language \in DOMAIN SpokenBy => c.pipeline = SpokenBy[message.language]
        /\ StartsWith(c.voice, c.pipeline)
        /\ asked # "" => c.voice = Stem(asked)
        /\ asked = "" /\ ConfiguredVoice # "" => c.voice = Stem(ConfiguredVoice)
        /\ asked = "" /\ ConfiguredVoice = "" => c.voice = DefaultVoiceByPipeline[c.pipeline]

\* A piece of the reference: its end, whole if it was transcribed, and otherwise
\* as much of it as the limit allows.
PieceAsAsked(piece, a, configured, transcribed) ==
    LET limit == IF a.max_duration_s = Absent THEN configured
                 ELSE IF a.max_duration_s < Unit THEN Unit ELSE a.max_duration_s
        frames == piece.to - piece.from
    IN  /\ piece.to = a.frames /\ piece.from >= 0
        /\ transcribed => piece.from = 0
        /\ ~transcribed => Milliseconds(frames, a.rate) <= limit * 10
        /\ piece.from > 0 => (frames + 1) * Unit > limit * a.rate

ReferenceAsAsked(k, configured) ==
    IF message.voice.reference = <<>>
    THEN /\ k.reference = <<>> /\ k.prompt = <<>> /\ k.prompt_text = ""
         /\ k.control = Strip(message.voice.instructions)
    ELSE LET a == message.voice.reference[1]
             transcript == Strip(a.prompt_text)
         IN  /\ k.reference \o k.prompt # <<>>
             /\ (k.prompt # <<>>) = (transcript # "") /\ k.prompt_text = transcript
             /\ (k.reference # <<>>) = (transcript = "" \/ a.also_use_as_reference)
             /\ k.control = IF transcript = "" THEN Strip(message.voice.instructions) ELSE ""
             /\ \A piece \in {k.reference, k.prompt} \ {<<>>} :
                   PieceAsAsked(piece[1], a, configured, transcript # "")

CloningAsAsked(k, configured) ==
    k.text = Strip(message.input) /\ ReferenceAsAsked(k, configured)

\* The library is called with what the client asked for: its text; the language
\* it named; its voice before the configured one, and that before the default;
\* each number of the call as the message has it, and only without one in the
\* message as it is configured; a reference is neither lost nor invented, a transcript goes with all of
\* its audio, for otherwise it would not match, and instructions are left out
\* just then, for the model would read them aloud (voxcpm2.py:76-138,
\* nanovllm_voxcpm.py:168-280, kokoro.py:85-122).
ModelGetsWhatWasAsked ==
    call # <<>> =>
        /\ NumbersAsAsked(call[1])
        /\ CASE Backend = "stub" -> call[1].text = Strip(message.input)
             [] Backend = "kokoro" -> KokoroAsAsked(call[1])
             [] Backend = "voxcpm2" ->
                   CloningAsAsked(call[1].cloning,
                                  Loaded.number.voxcpm2_reference_max_duration_s)
             [] Backend = "nanovllm_voxcpm" ->
                   CloningAsAsked(call[1].cloning,
                                  Loaded.number.nanovllm_reference_max_duration_s)

\* docs/low-latency-tts-delivery.md:169 maps "Runtime synthesis failure" to
\* INTERNAL: what goes wrong after the library was called is not the client's
\* fault (service.py:190-203).
RuntimeFailuresAreInternal ==
    phase = "answered" /\ call # <<>>
        /\ error \notin {"", "SynthesisCancelled", "StreamConsumerStalled"}
    => status = "INTERNAL"

----------------------------------------------------------------------------
(* The inductive strengthening the proofs use *)

\* The settings are what the two files were read as.
SettingsInv ==
    settings # <<>> =>
        /\ files \in JsonValues \X JsonValues
        /\ SettingsAccepted(Payload(files[1], files[2]))
        /\ settings = SettingsOf(Payload(files[1], files[2]))

\* A model is loaded only when it is configured with a backend that can be built.
LifecycleInv ==
    /\ phase = "start" => lifecycle = "unloaded"
    /\ phase = "building" => settings # <<>>
    /\ lifecycle = "loaded" =>
          settings # <<>> /\ ModelName \in DOMAIN settings.models /\ CanBeBuilt

\* The message was let in.
Admitted == IsMessage(message) /\ Valid(message) /\ EngineError(message) = ""

Prepared == Synthesis(Backend, Loaded, rateKnown, Request)

\* What is called is what the runtime made of a request that was let in, and who
\* is answered without a call was refused, by the schema, the engine or the
\* runtime, or ended before.
RequestInv ==
    /\ phase \in {"start", "building", "serving"} => call = <<>>
    /\ phase \in {"admitted", "calling", "chunking"} => Admitted
    /\ phase \in {"calling", "chunking"} => call # <<>>
    /\ call # <<>> => Admitted /\ Prepared.error = "" /\ call = Prepared.call
    /\ phase = "answered" =>
          /\ IsMessage(message)
          /\ \/ call # <<>>
             \/ error \in {"RequestAdmissionError", "SynthesisCancelled"}
             \/ ~Valid(message)
             \/ EngineError(message) # ""
             \/ Prepared.error # ""

PathInv == SettingsInv /\ LifecycleInv /\ RequestInv
=============================================================================
