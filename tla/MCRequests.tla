----------------------------- MODULE MCRequests -----------------------------
(* Settings files and messages for TLC. *)
EXTENDS RequestProperties, TLC

N(n) == [is |-> "number", n |-> n]
T(t) == [is |-> "text", t |-> t]
Nothing == Object(<<>>)

MCVoiceFiles == {DefaultVoiceByPipeline[c] : c \in DOMAIN DefaultVoiceByPipeline} \union {"af_bella"}
MCVoicesOf ==
    [c \in DOMAIN DefaultVoiceByPipeline |-> IF c = "a" THEN {"af_bella", "af_gone", "a/b"} ELSE {}]

\* Values of every kind, around the bounds of 1
Values == {N(-100), N(0), N(99), N(100), N(150), N(200), N(70000 * Unit), T("many"),
           [is |-> "flag", n |-> Unit], [is |-> "null"], [is |-> "nan"], [is |-> "inf"]}

InFairness(f, v) == Object([engine |-> Object([fairness |-> Object(f :> v)])])
InGrpc(f, v) == Object([service |-> Object([grpc |-> Object(f :> v)])])
InModel(f, v) == Object([engine |-> Object([models |-> Object([m |-> Object(f :> v)])])])

\* One field in either file, or two fields of one section
FieldPairs ==
    UNION {{<<InFairness("max_pending_per_key", v), InFairness(f, w)>> :
              f \in {"max_pending_per_key", "idle_state_ttl_s"}} : v, w \in Values}
    \union UNION {{<<InGrpc("port", v), InGrpc(f, w)>> : f \in {"port", "stream_buffer_bytes"}} :
              v, w \in Values}
    \union {<<InModel(f, v), InModel("enabled", N(0))>> :
              f \in {"target_inflight", "kokoro_speed", "nanovllm_reference_max_duration_s"},
              v \in {N(0), N(150), N(70000 * Unit), T("many"), [is |-> "nan"]}}

\* Both ports, sections that are no objects, and weights
Sections ==
    {<<Object([service |-> Object([port |-> N(p * Unit), grpc |-> Object([enabled |-> e])])]),
       InGrpc("port", N(8021 * Unit))>> : p \in {8020, 8021}, e \in {N(0), N(Unit), T("no")}}
    \union {<<InGrpc("port", N(900 * Unit)), Object([service |-> v])>> : v \in Values}
    \union {<<InFairness("max_pending_per_key", N(700)), Object([engine |-> Object([fairness |-> v])])>> :
              v \in Values}
    \union {<<v, v>> : v \in Values}
    \union {<<InFairness("weights", Object("ka" :> N(200))), InFairness("weights", Object(k :> w))>> :
              k \in {"ka", " ka ", "kb", " ", "long"}, w \in Values}

Service(model, bytes) ==
    Object([service |-> Object([grpc |-> Object([stream_buffer_bytes |-> N(bytes * Unit)])]),
            engine |-> Object([models |-> Object([m |-> model])])])

Kokoro(presets) ==
    Object([backend |-> T("Kokoro"), model_path |-> T("models"), voice_presets |-> Object(presets)])

Models ==
    {<<Service(Object([backend |-> T("stub")]), b), Nothing>> : b \in {1, 3, 5, 1048576}}
    \union {<<Service(Kokoro("English" :> T("af_bella") @@ "en_GB" :> T("af_heart")), 4), l>> :
              l \in {Nothing, InModel("voice_presets", Object("English" :> T(" "))),
                     InModel("kokoro_speed", N(1000)), InModel("model_path", T(" ")),
                     InModel("enabled", N(0))}}
    \union {<<Service(Object([backend |-> T("kokoro"), model_path |-> v,
                              voice_presets |-> Object("English" :> v)]), 4), Nothing>> :
              v \in {N(0), N(500), [is |-> "null"], T("models")}}
    \union {<<Service(Object([backend |-> T("voxcpm2"),
                              voxcpm2_reference_max_duration_s |-> N(200)]), 4),
              l>> : l \in {Nothing, InModel("voxcpm2_normalize", T("yes"))}}
    \union {<<Service(Object([backend |-> b, nanovllm_temperature |-> N(1)]), bytes),
              Object([engine |-> Object([backend |-> T("nanovllm_voxcpm")])])>> :
              b \in {[is |-> "null"], T(" "), T("other"), N(0)}, bytes \in {65535, 65536}}

MCConfigurations == FieldPairs \union Sections \union Models

\* The values vs, and what is directly in them
WithParts(vs) ==
    vs \union UNION {{v.of[k] : k \in DOMAIN v.of} : v \in {w \in vs : w.is = "object"}}

MCJsonValues ==
    WithParts(WithParts(WithParts(WithParts(WithParts(
        {c[1] : c \in MCConfigurations} \union {c[2] : c \in MCConfigurations})))))

----------------------------------------------------------------------------
Plain ==
    [model |-> "m", input |-> "text", language |-> "English", fairness_key |-> "",
     output_encoding |-> "pcm_s16le",
     voice |-> [preset |-> "", instructions |-> "", reference |-> <<>>], generation |-> <<>>]

Audio(frames, rate) ==
    [mime_type |-> "audio/wav", bytes |-> 100, corrupt |-> FALSE, frames |-> frames, rate |-> rate,
     max_duration_s |-> Absent, prompt_text |-> "", also_use_as_reference |-> TRUE]

Clone(a) == [Plain EXCEPT !.voice.reference = <<a>>]

Labels ==
    {[Plain EXCEPT !.model = t] : t \in {"", " ", "other"}}
    \union {[Plain EXCEPT !.input = t] : t \in {"", " ", " ka "}}
    \union {[Plain EXCEPT !.fairness_key = t] : t \in {" ", " ka ", "long"}}
    \union {[Plain EXCEPT !.output_encoding = t] : t \in {"unspecified", "mp3"}}

Spoken ==
    {[Plain EXCEPT !.language = l, !.voice.preset = v] :
        l \in DOMAIN SpokenBy \union {"Dutch", "en_GB", "Klingon", " "},
        v \in {"", " ", "af_heart", " af_heart", "af_heart.pt", "bf_emma", "af_gone", "a/b"}}

\* Each field at its bounds and just outside, as far as its type goes
Step(f) == IF f \in Flags THEN 0 ELSE IF f \in WholeNumbers THEN Unit ELSE 1

Generations ==
    UNION {{[Plain EXCEPT !.generation = f :> n] :
              n \in {GenerationBounds[f][1] - Step(f), GenerationBounds[f][1],
                     GenerationBounds[f][2], GenerationBounds[f][2] + Step(f)}} :
             f \in DOMAIN GenerationBounds}

Clones ==
    {[Clone([Audio(f, 3) EXCEPT !.max_duration_s = d, !.prompt_text = t,
                                !.also_use_as_reference = also])
        EXCEPT !.voice.instructions = i] :
       f \in {0, 7, 40}, d \in {Absent, 1, 150, 900},
       t \in {"", " ", "words"}, also \in BOOLEAN, i \in {"", "slowly"}}
    \union {Clone([Audio(7, 3) EXCEPT !.max_duration_s = d]) : d \in {0, 6000, 6001}}
    \union {Clone([Audio(7, 3) EXCEPT !.mime_type = t]) : t \in {"", " ", "AUDIO/WAV", "audio/mp3"}}
    \union {Clone([Audio(7, 3) EXCEPT !.corrupt = TRUE]), Clone(Audio(7, 0)),
            Clone([Audio(7, 3) EXCEPT !.bytes = MaxReferenceAudioBytes + 1]),
            [Clone(Audio(7, 3)) EXCEPT !.voice.preset = "af_heart"]}

MCMessages == Labels \union Spoken \union Generations \union Clones
=============================================================================
