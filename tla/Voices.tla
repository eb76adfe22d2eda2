------------------------------- MODULE Voices -------------------------------
(***************************************************************************)
(* What each runtime makes of a request: the call into its inference       *)
(* library, or the exception it raises before (app/engine/kokoro.py,       *)
(* voxcpm2.py, nanovllm_voxcpm.py, stub.py).                               *)
(*                                                                         *)
(* A reference WAV is its number of frames and its frame rate, or corrupt. *)
(* An audio handed to a library is the frames [from, to] cut from it.      *)
(***************************************************************************)
EXTENDS Requests

CONSTANTS VoiceFiles,   \* the voices in the directory of the Kokoro model
          VoicesOf      \* the other voices a language code is a prefix of

Raises(e) == [error |-> e, call |-> <<>>]
Calls(c) == [error |-> "", call |-> <<c>>]

\* Mutant: what is configured is what is used.
ChosenByOperator(m, model, request, setting) == model.number[setting]

\* The value of the request, or else the configured one
Chosen(m, model, request, setting) ==
    IF request \in DOMAIN m.generation THEN m.generation[request] ELSE model.number[setting]

----------------------------------------------------------------------------
(* Kokoro *)

LanguageToPipeline ==
    [a |-> {"american english", "en", "en-us", "english"},
     b |-> {"british english", "en-gb"},
     e |-> {"es", "es-es", "spanish"},
     f |-> {"fr", "fr-fr", "french"},
     h |-> {"hi", "hi-in", "hindi"},
     i |-> {"it", "it-it", "italian"},
     p |-> {"brazilian portuguese", "pt", "pt-br", "portuguese"},
     j |-> {"ja", "ja-jp", "japanese"},
     z |-> {"chinese", "zh", "zh-cn", "cmn", "mandarin chinese"}]

DefaultVoiceByPipeline ==
    [a |-> "af_heart", b |-> "bf_emma", e |-> "ef_dora", f |-> "ff_siwis", h |-> "hf_alpha",
     i |-> "if_sara", p |-> "pf_dora", j |-> "jf_alpha", z |-> "zf_xiaobei"]

\* strip().lower().replace("_", "-")
LanguageKey(l) == IF Lower(Strip(l)) = "en_gb" THEN "en-gb" ELSE Lower(Strip(l))

\* Mutant: the table is asked for the language as it is written.
LangCodesExact(l) == {c \in DOMAIN LanguageToPipeline : l \in LanguageToPipeline[c]}

\* The code of _lang_code, or none
LangCodes(l) == {c \in DOMAIN LanguageToPipeline : LanguageKey(l) \in LanguageToPipeline[c]}

\* "" when there is none
VoiceForRequest(model, m) ==
    IF Strip(m.voice.preset) # "" THEN Strip(m.voice.preset)
    ELSE IF m.language \in DOMAIN model.voice_presets THEN model.voice_presets[m.language]
    ELSE ""

Stem(v) == IF v = "af_heart.pt" THEN "af_heart" ELSE v
StartsWith(v, code) == v \in VoicesOf[code] \union {DefaultVoiceByPipeline[code]}
Unsafe(v) == v = "a/b"

VoiceName(code, voice) ==
    IF Strip(voice) = "" THEN DefaultVoiceByPipeline[code] ELSE Stem(Strip(voice))

\* synthesize, up to the call of the pipeline.  The voice is checked against
\* the language, and only then against the directory.
KokoroCall(model, m) ==
    IF m.voice.reference # <<>> \/ LangCodes(m.language) = {} THEN Raises("ValueError")
    ELSE LET code == CHOOSE c \in LangCodes(m.language) : TRUE
             voice == VoiceName(code, VoiceForRequest(model, m))
         IN  IF ~StartsWith(voice, code) \/ Unsafe(voice) THEN Raises("ValueError")
             ELSE IF voice \notin VoiceFiles THEN Raises("FileNotFoundError")
             ELSE Calls([pipeline |-> code, voice |-> voice, text |-> Strip(m.input),
                         speed |-> Chosen(m, model, "kokoro.speed", "kokoro_speed")])

----------------------------------------------------------------------------
(* The two VoxCPM runtimes *)

Reference(m) == m.voice.reference[1]

PromptText(m) == IF m.voice.reference = <<>> THEN "" ELSE Strip(Reference(m).prompt_text)

Control(m) == IF PromptText(m) # "" THEN "" ELSE Strip(m.voice.instructions)

\* decode_reference_audio, and what the wave module says of the bytes
ReferenceError(a) ==
    IF Lower(Strip(a.mime_type)) \notin {"audio/wav", "audio/x-wav", "audio/wave"} THEN "ValueError"
    ELSE IF a.corrupt THEN "wave.Error"
    ELSE IF a.rate <= 0 THEN "ValueError"
    ELSE ""

Milliseconds(frames, rate) == (frames * 1000) \div rate

\* max_duration_s, in hundredths of a second
MaxDuration(a, configured) ==
    IF a.max_duration_s = Absent THEN configured ELSE Clamp(Unit, a.max_duration_s, 60 * Unit)

\* Mutant: a reference with a transcript is clipped as well.
KeptWholeByLength(m, limit) ==
    Milliseconds(Reference(m).frames, Reference(m).rate) <= limit * 10

KeptWhole(m, limit) ==
    \/ Milliseconds(Reference(m).frames, Reference(m).rate) <= limit * 10
    \/ PromptText(m) # ""

\* _copy_wav_tail
TailFrames(a, limit) ==
    LET most == (limit * a.rate) \div Unit
        keep == IF most < 1 THEN 1 ELSE most
    IN  IF a.frames < keep THEN a.frames ELSE keep

\* _reference_path and _reference_wav: the audio that is given to the library
Clip(m, configured) ==
    LET a == Reference(m)
        limit == MaxDuration(a, configured)
    IN  IF KeptWhole(m, limit) THEN [from |-> 0, to |-> a.frames]
        ELSE [from |-> a.frames - TailFrames(a, limit), to |-> a.frames]

\* include_reference_wav, include_ref_latents
UsesReference(m) ==
    /\ m.voice.reference # <<>>
    /\ PromptText(m) = "" \/ Reference(m).also_use_as_reference

\* The part of the call that is the same for both: "" and <<>> stand for an
\* argument that is not given.
Cloning(m, configured) ==
    LET clip == IF m.voice.reference = <<>> THEN <<>> ELSE <<Clip(m, configured)>>
    IN  [text |-> Strip(m.input), control |-> Control(m),
         reference |-> IF UsesReference(m) THEN clip ELSE <<>>,
         prompt |-> IF PromptText(m) # "" THEN clip ELSE <<>>,
         prompt_text |-> PromptText(m)]

VoxError(m) ==
    IF Strip(m.voice.preset) # "" THEN "ValueError"
    ELSE IF m.voice.reference # <<>> THEN ReferenceError(Reference(m))
    ELSE ""

VoxCPM2Call(model, m) ==
    IF VoxError(m) # "" THEN Raises(VoxError(m))
    ELSE Calls([cloning |-> Cloning(m, model.number.voxcpm2_reference_max_duration_s),
                cfg_value |-> Chosen(m, model, "voxcpm2.cfg_value", "voxcpm2_cfg_value"),
                inference_timesteps |->
                    Chosen(m, model, "voxcpm2.inference_timesteps", "voxcpm2_inference_timesteps"),
                normalize |-> Chosen(m, model, "voxcpm2.normalize", "voxcpm2_normalize"),
                denoise |-> Chosen(m, model, "voxcpm2.denoise", "voxcpm2_denoise")])

\* _prepare_synthesis and the head of _generate_pcm_async; the sample rate that the
\* library named when it was loaded is looked at before the call.
NanoVLLMCall(model, rateKnown, m) ==
    IF VoxError(m) # "" THEN Raises(VoxError(m))
    ELSE IF ~rateKnown THEN Raises("ValueError")
    ELSE Calls([cloning |-> Cloning(m, model.number.nanovllm_reference_max_duration_s),
                cfg_value |-> Chosen(m, model, "nanovllm_voxcpm.cfg_value", "nanovllm_cfg_value"),
                temperature |->
                    Chosen(m, model, "nanovllm_voxcpm.temperature", "nanovllm_temperature"),
                max_generate_length |->
                    Chosen(m, model, "nanovllm_voxcpm.max_generate_length",
                           "nanovllm_max_generate_length")])

----------------------------------------------------------------------------
\* runtime.synthesize or synthesize_stream of the backend; the stub plays a
\* tone for any text.
Synthesis(b, model, rateKnown, m) ==
    CASE b = "stub" -> Calls([text |-> Strip(m.input)])
      [] b = "kokoro" -> KokoroCall(model, m)
      [] b = "voxcpm2" -> VoxCPM2Call(model, m)
      [] b = "nanovllm_voxcpm" -> NanoVLLMCall(model, rateKnown, m)
=============================================================================
