------------------------------ MODULE Requests ------------------------------
(***************************************************************************)
(* One request on its way in: the protobuf message, what request_from_proto*)
(* (app/grpc_api/adapter.py) and the schema (app/schemas.py) make of it,   *)
(* what a backend says it can do (app/engine/common.py), and the status    *)
(* that an error is answered with (app/grpc_api/service.py).               *)
(*                                                                         *)
(* A text that is absent from a message is "".  voice.reference has length *)
(* 0 or 1.  generation is a function on the fields that are present, in    *)
(* hundredths as in Settings; a duration is in hundredths of a second.     *)
(***************************************************************************)
EXTENDS Settings

Absent == -1   \* no max_duration_s

MaxReferenceAudioBytes == 12582912

\* The bounds of GenerationParams
GenerationBounds ==
    [f \in {"kokoro.speed", "voxcpm2.cfg_value", "voxcpm2.inference_timesteps",
            "voxcpm2.normalize", "voxcpm2.denoise", "nanovllm_voxcpm.cfg_value",
            "nanovllm_voxcpm.temperature", "nanovllm_voxcpm.max_generate_length"} |->
       CASE f = "kokoro.speed" -> <<25, 400>>
         [] f \in {"voxcpm2.cfg_value", "nanovllm_voxcpm.cfg_value"} -> <<10, 1000>>
         [] f = "voxcpm2.inference_timesteps" -> <<100, 20000>>
         [] f \in {"voxcpm2.normalize", "voxcpm2.denoise"} -> <<0, Unit>>
         [] f = "nanovllm_voxcpm.temperature" -> <<1, 500>>
         [] f = "nanovllm_voxcpm.max_generate_length" -> <<100, 409600>>]

Within(n, bounds) == bounds[1] <= n /\ n <= bounds[2]

ReferenceValid(a) ==
    /\ a.bytes <= MaxReferenceAudioBytes
    /\ a.max_duration_s # Absent => 0 < a.max_duration_s /\ a.max_duration_s <= 60 * Unit

Flags == {"voxcpm2.normalize", "voxcpm2.denoise"}
WholeNumbers == {"voxcpm2.inference_timesteps", "nanovllm_voxcpm.max_generate_length"}

\* The protobuf message, whose fields have types: double, bool or int32
ReferenceAudio ==
    [mime_type : STRING, bytes : Nat, corrupt : BOOLEAN, frames : Nat, rate : Int,
     max_duration_s : Int, prompt_text : STRING, also_use_as_reference : BOOLEAN]

IsMessage(m) ==
    /\ m \in [model : STRING, input : STRING, language : STRING, fairness_key : STRING,
               output_encoding : STRING, generation : {m.generation},
               voice : [preset : STRING, instructions : STRING, reference : Seq(ReferenceAudio)]]
    /\ Len(m.voice.reference) <= 1
    /\ DOMAIN m.generation \subseteq DOMAIN GenerationBounds
    /\ \A f \in DOMAIN m.generation :
          /\ m.generation[f] \in Int
          /\ f \in WholeNumbers => m.generation[f] % Unit = 0
          /\ f \in Flags => m.generation[f] \in {0, Unit}

\* request_from_proto returns; otherwise it raises a ValueError.
Valid(m) ==
    /\ m.output_encoding \in {"unspecified", "pcm_s16le"}
    /\ \A i \in DOMAIN m.voice.reference : ReferenceValid(m.voice.reference[i])
    /\ Strip(m.model) # "" /\ Strip(m.language) # "" /\ Strip(m.input) # ""
    /\ m.fairness_key # "" => Strip(m.fairness_key) \notin {"", "long"}
    /\ \A f \in DOMAIN m.generation : Within(m.generation[f], GenerationBounds[f])

\* What it returns: labels are stripped, the input is not, and a reference has a
\* type.
Typed(a) == [a EXCEPT !.mime_type = IF @ = "" THEN "audio/wav" ELSE @]

RequestOf(m) ==
    [m EXCEPT !.model = Strip(@), !.language = Strip(@), !.fairness_key = Strip(@),
              !.voice.reference = [i \in DOMAIN m.voice.reference |->
                                     Typed(m.voice.reference[i])]]

----------------------------------------------------------------------------
(* capabilities_for_backend *)

VoxCPM2Languages ==
    {"Arabic", "Chinese", "Danish", "Dutch", "English", "Finnish", "French", "German",
     "Greek", "Hebrew", "Hindi", "Indonesian", "Italian", "Japanese", "Khmer", "Korean",
     "Lao", "Malay", "Norwegian", "Polish", "Portuguese", "Russian", "Spanish", "Swahili",
     "Swedish", "Tagalog", "Thai", "Turkish"}

\* The fields and ranges of request_generation
Advertised ==
    [stub |-> <<>>,
     kokoro |-> [f \in {"kokoro.speed"} |-> <<25, 400>>],
     voxcpm2 |->
        [f \in {"voxcpm2.cfg_value", "voxcpm2.inference_timesteps", "voxcpm2.normalize",
                "voxcpm2.denoise"} |->
           CASE f = "voxcpm2.cfg_value" -> <<10, 1000>>
             [] f = "voxcpm2.inference_timesteps" -> <<100, 20000>>
             [] OTHER -> <<0, Unit>>],
     nanovllm_voxcpm |->
        [f \in {"nanovllm_voxcpm.cfg_value", "nanovllm_voxcpm.temperature",
                "nanovllm_voxcpm.max_generate_length"} |->
           CASE f = "nanovllm_voxcpm.cfg_value" -> <<10, 1000>>
             [] f = "nanovllm_voxcpm.temperature" -> <<1, 500>>
             [] f = "nanovllm_voxcpm.max_generate_length" -> <<100, 409600>>]]

CapabilitiesForBackend(b, model) ==
    [languages |-> CASE b = "stub" -> {"Dutch", "English"}
                     [] b = "kokoro" -> {"English", "British English", "Spanish", "French",
                                         "Hindi", "Italian", "Portuguese",
                                         "Brazilian Portuguese", "Japanese", "Chinese"}
                     [] OTHER -> VoxCPM2Languages,
     voice_presets |-> b = "kokoro",
     voice_instructions |-> b \in {"voxcpm2", "nanovllm_voxcpm"},
     reference_audio |-> b \in {"voxcpm2", "nanovllm_voxcpm"},
     reference_audio_mime_types |-> {"audio/wav"},
     reference_audio_max_duration_s |->
        IF b = "nanovllm_voxcpm" THEN model.number.nanovllm_reference_max_duration_s
        ELSE model.number.voxcpm2_reference_max_duration_s,
     request_generation |-> Advertised[b]]

----------------------------------------------------------------------------
(* _status_for_error, by the class of the exception *)

StatusForError(e) ==
    CASE e = "UnknownModelError" -> "NOT_FOUND"
      [] e = "ModelStateError" -> "FAILED_PRECONDITION"
      [] e = "RequestAdmissionError" -> "RESOURCE_EXHAUSTED"
      [] e = "SynthesisCancelled" -> "CANCELLED"
      [] e = "StreamConsumerStalled" -> "RESOURCE_EXHAUSTED"
      [] e \in {"ValidationError", "ValueError"} -> "INVALID_ARGUMENT"
      [] OTHER -> "INTERNAL"
=============================================================================
