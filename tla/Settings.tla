------------------------------ MODULE Settings ------------------------------
(***************************************************************************)
(* load_settings (app/config.py): what the settings file, with the local   *)
(* file merged over it, is read as, and when the service refuses to start. *)
(*                                                                         *)
(* A JSON value is a record whose field "is" says what it is: a "number"   *)
(* or a "flag" with its value n in hundredths, "nan", "inf", a "text" t    *)
(* that is no number, "null", an "object" of fields, or a "list".          *)
(***************************************************************************)
EXTENDS Integers, Sequences, FiniteSets

Unit == 100
Infinity == 2000000000   \* what float("inf") is read as; no bound of any other number

Object(fields) == [is |-> "object", of |-> fields]

\* str.strip and str.lower, on the texts that occur: "" and " " are blank,
\* "long" has more than 128 characters.
Strip(t) ==
    CASE t = " " -> "" [] t = " ka " -> "ka" [] t = " af_heart" -> "af_heart" [] OTHER -> t

Lower(t) ==
    CASE t = "Kokoro" -> "kokoro" [] t = "AUDIO/WAV" -> "audio/wav"
      [] t = "English" -> "english" [] t = "British English" -> "british english"
      [] t = "Spanish" -> "spanish" [] t = "French" -> "french" [] t = "Hindi" -> "hindi"
      [] t = "Italian" -> "italian" [] t = "Portuguese" -> "portuguese"
      [] t = "Brazilian Portuguese" -> "brazilian portuguese"
      [] t = "Japanese" -> "japanese" [] t = "Chinese" -> "chinese"
      [] t = "en_GB" -> "en_gb" [] OTHER -> t

----------------------------------------------------------------------------
(* The two files *)

\* What the local file names replaces what the settings file says of it.  Of the
\* whole files it is the mutant of Merge: an object would replace an object.
Overlay(base, override) ==
    Object([k \in DOMAIN base.of \union DOMAIN override.of |->
              IF k \in DOMAIN override.of THEN override.of[k] ELSE base.of[k]])

\* _merge_dicts, where M merges an object with an object
MergeObjects(M(_, _), base, override) ==
    Object([k \in DOMAIN base.of \union DOMAIN override.of |->
              IF k \notin DOMAIN override.of THEN base.of[k]
              ELSE IF /\ k \in DOMAIN base.of
                      /\ base.of[k].is = "object" /\ override.of[k].is = "object"
                   THEN M(base.of[k], override.of[k])
                   ELSE override.of[k]])

\* Its recursion, down to the level below which no setting is: the files, engine,
\* models, a model, and the object of voices in it.
MergeModel(base, override) == MergeObjects(Overlay, base, override)
MergeModels(base, override) == MergeObjects(MergeModel, base, override)
MergeEngine(base, override) == MergeObjects(MergeModels, base, override)
Merge(base, override) == MergeObjects(MergeEngine, base, override)

\* _dict, and the files themselves: what is no object counts as an empty one.
AsObject(v) == IF v.is = "object" THEN v ELSE Object(<<>>)

Section(v, k) == IF k \in DOMAIN v.of THEN AsObject(v.of[k]) ELSE Object(<<>>)

Payload(file, local) == Merge(AsObject(file), AsObject(local))

----------------------------------------------------------------------------
(* The parsers *)

\* A kind looks at low and high only where the parser has such a bound.
Rule(kind, low, high, default) ==
    [kind |-> kind, low |-> low, high |-> high, default |-> default]

Truth(v) == CASE v.is \in {"number", "flag"} -> v.n # 0
              [] v.is = "text" -> v.t # ""
              [] v.is \in {"object", "list"} -> v.of # <<>>
              [] v.is \in {"nan", "inf"} -> TRUE
              [] v.is = "null" -> FALSE

Numeric(v) == v.is \in {"number", "flag"}
Truncated(n) == IF n >= 0 THEN (n \div Unit) * Unit ELSE -(((-n) \div Unit) * Unit)
AtLeast(low, n) == IF n < low THEN low ELSE n
Clamp(low, n, high) == IF n > high THEN high ELSE AtLeast(low, n)

\* Whether a parser returns.  The positive ones, ports and labels check what
\* they are given; float() and int() take what is a number.
Accepts(r, v) ==
    CASE r.kind = "positive_float" -> Numeric(v) /\ v.n > 0
      [] r.kind \in {"positive_int", "port"} ->
            /\ v.is = "number" /\ v.n = Truncated(v.n) /\ v.n > 0
            /\ r.kind = "port" => v.n <= r.high
      [] r.kind = "int" -> Numeric(v)
      [] r.kind \in {"float", "bounded"} -> Numeric(v) \/ v.is \in {"nan", "inf"}
      [] r.kind = "flag" -> TRUE
      [] r.kind = "label" -> Truth(v) /\ (v.is = "text" => Strip(v.t) # "")

\* What it returns; the text of a label is left out.  Only a "bounded" number has
\* an upper bound.  max(low, NaN) is low, max(low, min(high, NaN)) is high.
Value(r, v) ==
    CASE r.kind \in {"positive_float", "positive_int", "port"} -> v.n
      [] r.kind = "int" -> AtLeast(r.low, Truncated(v.n))
      [] r.kind = "float" ->
            IF Numeric(v) THEN AtLeast(r.low, v.n) ELSE IF v.is = "nan" THEN r.low ELSE Infinity
      [] r.kind = "bounded" -> IF Numeric(v) THEN Clamp(r.low, v.n, r.high) ELSE r.high
      [] r.kind = "flag" -> IF Truth(v) THEN Unit ELSE 0
      [] r.kind = "label" -> 0

Accepted(rules, section) ==
    \A f \in DOMAIN rules \intersect DOMAIN section.of : Accepts(rules[f], section.of[f])

Parsed(rules, section) ==
    [f \in DOMAIN rules |-> IF f \in DOMAIN section.of THEN Value(rules[f], section.of[f])
                            ELSE rules[f].default]

----------------------------------------------------------------------------
(* The sections: the rule for each field *)

Positive(default) == Rule("positive_int", 0, 0, default * Unit)
Duration(default) == Rule("positive_float", 0, 0, default * Unit)
AtLeastOne(default) == Rule("int", Unit, 0, default * Unit)
From(low, default) == Rule("float", low, 0, default)
Flag(default) == Rule("flag", 0, 0, default)
Port(default) == Rule("port", 0, 65535 * Unit, default * Unit)
Label == Rule("label", 0, 0, 0)

ServiceRules == [host |-> Label, log_level |-> Label, port |-> Port(8020)]

GrpcRules ==
    [host |-> Label, port |-> Port(8021), enabled |-> Flag(0),
     max_receive_message_bytes |-> Positive(16777216),
     max_send_message_bytes |-> Positive(16777216),
     stream_buffer_chunks |-> Positive(4), stream_buffer_bytes |-> Positive(1048576),
     stalled_consumer_timeout_s |-> Duration(2), shutdown_grace_s |-> Duration(5)]

FairnessRules ==
    [default_weight |-> Duration(1), soft_max_inflight_per_key |-> Positive(1),
     max_pending_per_key |-> Positive(4), max_pending_per_executor |-> Positive(8),
     idle_state_ttl_s |-> Duration(300)]

ModelRules ==
    [enabled |-> Flag(Unit), target_inflight |-> AtLeastOne(1),
     kokoro_speed |-> From(25, Unit),
     voxcpm2_cfg_value |-> From(10, 2 * Unit),
     voxcpm2_inference_timesteps |-> AtLeastOne(10),
     voxcpm2_normalize |-> Flag(0), voxcpm2_denoise |-> Flag(0),
     voxcpm2_reference_max_duration_s |-> Rule("bounded", Unit, 60 * Unit, 8 * Unit),
     nanovllm_max_num_seqs |-> AtLeastOne(4),
     nanovllm_max_num_batched_tokens |-> AtLeastOne(4096),
     nanovllm_max_model_len |-> AtLeastOne(2048),
     nanovllm_gpu_memory_utilization |-> Rule("bounded", 10, Unit, 85),
     nanovllm_inference_timesteps |-> AtLeastOne(10),
     nanovllm_max_generate_length |-> AtLeastOne(256),
     nanovllm_temperature |-> Rule("bounded", 1, 5 * Unit, Unit),
     nanovllm_cfg_value |-> From(10, 2 * Unit),
     nanovllm_reference_max_duration_s |-> Rule("bounded", Unit, 60 * Unit, 8 * Unit)]

\* _fairness_weights: two keys that differ in blanks only are refused.
WeightsAccepted(v) ==
    /\ v.is = "object"
    /\ \A k \in DOMAIN v.of : Strip(k) \notin {"", "long"} /\ Accepts(Duration(1), v.of[k])
    /\ \A j, k \in DOMAIN v.of : Strip(j) = Strip(k) => j = k

Weights(v) ==
    [key \in {Strip(k) : k \in DOMAIN v.of} |-> v.of[CHOOSE k \in DOMAIN v.of : Strip(k) = key].n]

Field(section, f, default) == IF f \in DOMAIN section.of THEN section.of[f] ELSE default

\* str(): what is no text is written as one that is not blank, and names nothing.
Written(v) == IF v.is = "text" THEN v.t ELSE "none"

\* The path, and the backend or "" if the model leaves it to the engine; null
\* counts as absent.
ModelPath(section) ==
    LET v == Field(section, "model_path", [is |-> "null"])
    IN  IF Truth(v) THEN Strip(Written(v)) ELSE ""

ModelBackend(section) ==
    LET v == Field(section, "backend", [is |-> "null"])
    IN  IF v.is = "null" THEN "" ELSE Lower(Strip(Written(v)))

\* _str_dict
Texts(section, f) ==
    LET v == Section(section, f)
    IN  [k \in {k \in DOMAIN v.of : Strip(k) # "" /\ Strip(Written(v.of[k])) # ""} |->
           Written(v.of[k])]

Model(section) ==
    [backend |-> ModelBackend(section), model_path |-> ModelPath(section),
     voice_presets |-> Texts(section, "voice_presets"), number |-> Parsed(ModelRules, section)]

----------------------------------------------------------------------------
(* load_settings *)

EngineBackend(v) == IF Strip(Written(v)) = "" THEN "stub" ELSE Lower(Strip(Written(v)))

SettingsAccepted(p) ==
    LET service == Section(p, "service")
        grpc == Section(service, "grpc")
        engine == Section(p, "engine")
        models == Section(engine, "models")
        fairness == Field(engine, "fairness", Object(<<>>))
        ports == Parsed(GrpcRules, grpc)
    IN  /\ fairness.is = "object"
        /\ \A m \in DOMAIN models.of : Accepted(ModelRules, AsObject(models.of[m]))
        /\ Accepted(ServiceRules, service) /\ Accepted(GrpcRules, grpc)
        /\ ports.enabled # 0 => ports.port # Parsed(ServiceRules, service).port
        /\ Accepted(FairnessRules, fairness)
        /\ WeightsAccepted(Field(fairness, "weights", Object(<<>>)))

SettingsOf(p) ==
    LET service == Section(p, "service")
        engine == Section(p, "engine")
        models == Section(engine, "models")
        fairness == Section(engine, "fairness")
    IN  [service |-> Parsed(ServiceRules, service),
         grpc |-> Parsed(GrpcRules, Section(service, "grpc")),
         backend |-> EngineBackend(Field(engine, "backend", [is |-> "text", t |-> "stub"])),
         models |-> [m \in DOMAIN models.of |-> Model(AsObject(models.of[m]))],
         fairness |-> Parsed(FairnessRules, fairness),
         weights |-> Weights(Section(fairness, "weights"))]
=============================================================================
