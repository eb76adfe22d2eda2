---------------------------- MODULE RequestProofs ----------------------------
(***************************************************************************)
(* What the settings are read as, for any two files; what a request gets   *)
(* out of the runtimes, for any message and any such settings; and that    *)
(* the chunks of a complete audio are the audio.                           *)
(***************************************************************************)
EXTENDS RequestProperties, TLAPS

----------------------------------------------------------------------------
(* The merge of the two files *)

\* What a file may have at a place: nothing, or a value; what is read as an
\* object, and is none, is an empty one.
Values == JsonValues \union {Missing, Object(<<>>)}

\* The merge of two objects at each level, counted from the deepest
Level(n, base, override) ==
    CASE n = 4 -> Merge(base, override)
      [] n = 3 -> MergeEngine(base, override)
      [] n = 2 -> MergeModels(base, override)
      [] n = 1 -> MergeModel(base, override)
      [] n = 0 -> Overlay(base, override)

\* What both files say of a section, as the service reads it
Together(n, pair) ==
    IF pair[1].is = "object" /\ pair[2].is = "object" THEN Level(n, pair[1], pair[2])
    ELSE IF pair[2].is = "missing" THEN AsObject(pair[1]) ELSE AsObject(pair[2])

\* The kinds of a value, and what is in it
LEMMA ValueKinds ==
    ASSUME NEW v \in Values
    PROVE  /\ v = Missing \/ v.is # "missing"
           /\ v.is \in {"number", "flag"} => v.n \in Int
           /\ v.is = "object" => \A k \in DOMAIN v.of : v.of[k] \in Values /\ v.of[k].is # "missing"
<1>1. CASE v \in JsonValues
  BY <1>1, FilesAssumption DEF Values
<1>2. CASE v = Missing
  BY <1>2 DEF Missing
<1>3. CASE v = Object(<<>>)
  BY <1>3 DEF Object
<1> QED
  BY <1>1, <1>2, <1>3 DEF Values

LEMMA InsideKinds ==
    ASSUME NEW v \in Values, NEW k
    PROVE  Inside(v, k) \in Values
<1>1. CASE v.is = "object" /\ k \in DOMAIN v.of
  BY <1>1, ValueKinds DEF Inside, Field
<1>2. CASE ~(v.is = "object" /\ k \in DOMAIN v.of)
  BY <1>2 DEF Inside, Field, Values
<1> QED
  BY <1>1, <1>2

LEMMA BelowKinds ==
    ASSUME NEW x \in Values, NEW y \in Values, NEW k
    PROVE  \E a, b \in Values : Below(<<x, y>>, k) = <<a, b>>
<1>1. Inside(x, k) \in Values /\ Inside(y, k) \in Values /\ Missing \in Values
  BY InsideKinds DEF Values
<1> QED
  BY <1>1 DEF Below

\* One level of the merge
LevelFields(n, b, o) ==
    [k \in DOMAIN b.of \union DOMAIN o.of |->
       IF k \notin DOMAIN o.of THEN b.of[k]
       ELSE IF k \in DOMAIN b.of /\ b.of[k].is = "object" /\ o.of[k].is = "object"
            THEN Level(n - 1, b.of[k], o.of[k])
            ELSE o.of[k]]

LEMMA LevelStep ==
    ASSUME NEW n \in 1 .. 4, NEW b, NEW o
    PROVE  Level(n, b, o) = Object(LevelFields(n, b, o))
<1>1. CASE n = 1
  BY <1>1 DEF Level, LevelFields, MergeModel, MergeObjects
<1>2. CASE n = 2
  BY <1>2 DEF Level, LevelFields, MergeModels, MergeObjects
<1>3. CASE n = 3
  BY <1>3 DEF Level, LevelFields, MergeEngine, MergeObjects
<1>4. CASE n = 4
  BY <1>4 DEF Level, LevelFields, Merge, MergeObjects
<1> QED
  BY <1>1, <1>2, <1>3, <1>4

LEMMA ObjectFields ==
    ASSUME NEW f
    PROVE  Object(f).is = "object" /\ Object(f).of = f
  BY DEF Object

LEMMA LevelFacts ==
    ASSUME NEW n \in 0 .. 4, NEW b, NEW o
    PROVE  /\ Level(n, b, o).is = "object"
           /\ DOMAIN Level(n, b, o).of = DOMAIN b.of \union DOMAIN o.of
<1>1. CASE n = 0
  BY <1>1, ObjectFields DEF Level, Overlay
<1>2. CASE n \in 1 .. 4
  <2>1. DOMAIN LevelFields(n, b, o) = DOMAIN b.of \union DOMAIN o.of
    BY DEF LevelFields
  <2> QED
    BY <1>2, <2>1, LevelStep, ObjectFields
<1> QED
  BY <1>1, <1>2

LEMMA LevelAt ==
    ASSUME NEW n \in 1 .. 4, NEW b, NEW o, NEW k, k \in DOMAIN b.of \union DOMAIN o.of
    PROVE  Level(n, b, o).of[k] =
             IF k \notin DOMAIN o.of THEN b.of[k]
             ELSE IF k \in DOMAIN b.of /\ b.of[k].is = "object" /\ o.of[k].is = "object"
                  THEN Level(n - 1, b.of[k], o.of[k])
                  ELSE o.of[k]
<1>1. Level(n, b, o).of = LevelFields(n, b, o)
  BY LevelStep, ObjectFields
<1> QED
  BY <1>1 DEF LevelFields

\* A section of a merged object is the merge of what both files say of it.
LEMMA SectionTogether ==
    ASSUME NEW n \in 1 .. 4, NEW x \in Values, NEW y \in Values, NEW k
    PROVE  Section(Together(n, <<x, y>>), k) = Together(n - 1, Below(<<x, y>>, k))
<1> DEFINE a == Below(<<x, y>>, k)[1]
           b == Below(<<x, y>>, k)[2]
<1>1. CASE x.is = "object" /\ y.is = "object"
  <2>1. Together(n, <<x, y>>) = Level(n, x, y)
    BY <1>1 DEF Together
  <2>2. a = Inside(x, k) /\ b = Inside(y, k)
    BY <1>1 DEF Below
  <2>3. CASE k \in DOMAIN y.of
    <3>1. b = y.of[k] /\ b.is # "missing"
      BY <1>1, <2>2, <2>3, ValueKinds DEF Inside, Field
    <3>2. a = IF k \in DOMAIN x.of THEN x.of[k] ELSE Missing
      BY <1>1, <2>2 DEF Inside, Field
    <3>3. Section(Together(n, <<x, y>>), k) = AsObject(Level(n, x, y).of[k])
      BY <2>1, <2>3, LevelFacts DEF Section
    <3>4. CASE a.is = "object" /\ b.is = "object"
      <4>1. k \in DOMAIN x.of /\ x.of[k] = a
        BY <3>2, <3>4 DEF Missing
      <4>2. Level(n, x, y).of[k] = Level(n - 1, a, b)
        BY <2>3, <3>1, <3>4, <4>1, LevelAt
      <4>3. Level(n - 1, a, b).is = "object"
        BY LevelFacts
      <4> QED
        BY <3>3, <3>4, <4>2, <4>3 DEF AsObject, Together
    <3>5. CASE ~(a.is = "object" /\ b.is = "object")
      <4>1. Level(n, x, y).of[k] = b
        BY <2>3, <3>1, <3>2, <3>5, LevelAt
      <4> QED
        BY <3>1, <3>3, <3>5, <4>1 DEF Together
    <3> QED
      BY <3>4, <3>5
  <2>4. CASE k \notin DOMAIN y.of
    <3>1. b = Missing
      BY <1>1, <2>2, <2>4 DEF Inside, Field
    <3>2. CASE k \in DOMAIN x.of
      <4>1. a = x.of[k] /\ Level(n, x, y).of[k] = x.of[k]
        BY <1>1, <2>2, <2>4, <3>2, LevelAt DEF Inside, Field
      <4> QED
        BY <2>1, <3>1, <3>2, <4>1, LevelFacts DEF Section, Together, Missing
    <3>3. CASE k \notin DOMAIN x.of
      <4>1. a = Missing
        BY <1>1, <2>2, <3>3 DEF Inside, Field
      <4>2. k \notin DOMAIN Level(n, x, y).of
        BY <2>4, <3>3, LevelFacts
      <4> QED
        BY <2>1, <3>1, <4>1, <4>2 DEF Section, Together, Missing, AsObject
    <3> QED
      BY <3>2, <3>3
  <2> QED
    BY <2>3, <2>4
<1>2. CASE ~(x.is = "object" /\ y.is = "object") /\ y.is = "missing"
  <2>1. Together(n, <<x, y>>) = AsObject(x)
    BY <1>2 DEF Together
  <2>2. a = Inside(x, k) /\ b = Missing
    BY <1>2 DEF Below, Inside
  <2>3. Together(n - 1, Below(<<x, y>>, k)) = AsObject(Inside(x, k))
    BY <2>2 DEF Together, Missing
  <2> QED
    BY <2>1, <2>3 DEF Section, AsObject, Inside, Field, Object, Missing
<1>3. CASE ~(x.is = "object" /\ y.is = "object") /\ y.is # "missing"
  <2>1. Together(n, <<x, y>>) = AsObject(y)
    BY <1>3 DEF Together
  <2>2. CASE y.is = "object"
    <3>1. Below(<<x, y>>, k) = <<Missing, Inside(y, k)>>
      BY <1>3, <2>2 DEF Below, Inside
    <3>2. Together(n - 1, <<Missing, Inside(y, k)>>) = AsObject(Inside(y, k))
      <4>1. CASE Inside(y, k).is = "missing"
        <5>1. Inside(y, k) = Missing
          BY <4>1, InsideKinds, ValueKinds
        <5> QED
          BY <5>1 DEF Together, Missing
      <4>2. CASE Inside(y, k).is # "missing"
        BY <4>2 DEF Together, Missing
      <4> QED
        BY <4>1, <4>2
    <3>3. Section(y, k) = AsObject(Inside(y, k))
      BY <2>2 DEF Section, AsObject, Inside, Field, Object, Missing
    <3>4. AsObject(y) = y
      BY <2>2 DEF AsObject
    <3> QED
      BY <2>1, <3>1, <3>2, <3>3, <3>4
  <2>3. CASE y.is # "object"
    <3>1. a = Missing /\ b = Missing
      BY <1>3, <2>3 DEF Below, Inside
    <3>2. Together(n - 1, Below(<<x, y>>, k)) = Object(<<>>)
      BY <3>1 DEF Together, Missing, AsObject
    <3> QED
      BY <2>1, <2>3, <3>2 DEF Section, AsObject, Object
  <2> QED
    BY <2>2, <2>3
<1> QED
  BY <1>1, <1>2, <1>3

----------------------------------------------------------------------------
(* What a parser returns *)

\* Two values that no parser tells apart: objects are only looked at for their
\* being empty.
Alike(v, w) == v = w \/ (v.is = "object" /\ w.is = "object" /\ Truth(v) = Truth(w))

LEMMA AlikeParsed ==
    ASSUME NEW v, NEW w, Alike(v, w), NEW r,
           r.kind \in {"positive_float", "positive_int", "port", "int", "float", "bounded",
                       "flag", "label"}
    PROVE  /\ Accepts(r, v) <=> Accepts(r, w)
           /\ Accepts(r, v) => Value(r, v) = Value(r, w)
<1>1. CASE v = w
  BY <1>1
<1>2. CASE v.is = "object" /\ w.is = "object" /\ Truth(v) = Truth(w)
  <2>1. CASE r.kind \in {"flag", "label"}
    BY <1>2, <2>1 DEF Accepts, Value
  <2>2. CASE r.kind \notin {"flag", "label"}
    BY <1>2, <2>2 DEF Accepts, Numeric
  <2> QED
    BY <2>1, <2>2
<1> QED
  BY <1>1, <1>2 DEF Alike

\* Whether an object is true depends on whether anything is in it.
LEMMA TruthOfObject ==
    ASSUME NEW D, NEW f, f = [k \in D |-> f[k]]
    PROVE  Truth(Object(f)) = (D # {})
<1>1. f = <<>> <=> D = {}
  OBVIOUS
<1> QED
  BY <1>1 DEF Truth, Object

LEMMA LevelTruth ==
    ASSUME NEW n \in 0 .. 4, NEW b, NEW o
    PROVE  Truth(Level(n, b, o)) = (DOMAIN b.of \union DOMAIN o.of # {})
<1> DEFINE D == DOMAIN b.of \union DOMAIN o.of
<1>1. PICK f : Level(n, b, o) = Object(f) /\ f = [k \in D |-> f[k]]
  <2>1. CASE n = 0
    <3> DEFINE g == [k \in D |-> IF k \in DOMAIN o.of THEN o.of[k] ELSE b.of[k]]
    <3>1. Level(n, b, o) = Object(g)
      BY <2>1 DEF Level, Overlay
    <3>2. g = [k \in D |-> g[k]]
      OBVIOUS
    <3> QED
      BY <3>1, <3>2
  <2>2. CASE n \in 1 .. 4
    <3>1. LevelFields(n, b, o) = [k \in D |-> LevelFields(n, b, o)[k]]
      BY DEF LevelFields
    <3> QED
      BY <2>2, <3>1, LevelStep
  <2> QED
    BY <2>1, <2>2
<1> HIDE DEF D
<1>2. Truth(Level(n, b, o)) = (D # {})
  BY <1>1, TruthOfObject
<1> QED
  BY <1>2 DEF D

\* A field of a section is there when either file has it, and is read as what
\* both say of it.
LEMMA FieldTogether ==
    ASSUME NEW n \in 1 .. 4, NEW x \in Values, NEW y \in Values, NEW f
    PROVE  LET v == Together(n, <<x, y>>)
               e == Effective(Below(<<x, y>>, f))
           IN  /\ f \in DOMAIN v.of <=> e.is # "missing"
               /\ f \in DOMAIN v.of => Alike(v.of[f], e)
<1> DEFINE v == Together(n, <<x, y>>)
           a == Inside(x, f)
           b == Inside(y, f)
<1>0. a \in Values /\ b \in Values
  BY InsideKinds
<1>1. CASE x.is = "object" /\ y.is = "object"
  <2>1. v = Level(n, x, y) /\ Below(<<x, y>>, f) = <<a, b>>
    BY <1>1 DEF Together, Below
  <2>2. DOMAIN v.of = DOMAIN x.of \union DOMAIN y.of
    BY <2>1, LevelFacts
  <2>3. /\ f \in DOMAIN x.of => a = x.of[f] /\ a.is # "missing"
        /\ f \notin DOMAIN x.of => a = Missing
        /\ f \in DOMAIN y.of => b = y.of[f] /\ b.is # "missing"
        /\ f \notin DOMAIN y.of => b = Missing
    BY <1>1, ValueKinds DEF Inside, Field
  <2>4. CASE a.is = "object" /\ b.is = "object"
    <3>1. f \in DOMAIN x.of /\ f \in DOMAIN y.of
      BY <2>3, <2>4 DEF Missing
    <3>2. v.of[f] = Level(n - 1, a, b)
      BY <2>1, <2>3, <2>4, <3>1, LevelAt
    <3>3. Effective(<<a, b>>) = Overlay(a, b)
      BY <2>4 DEF Effective
    <3>4. Truth(Level(n - 1, a, b)) = (DOMAIN a.of \union DOMAIN b.of # {})
      BY LevelTruth
    <3>5. Truth(Overlay(a, b)) = (DOMAIN a.of \union DOMAIN b.of # {})
      BY LevelTruth DEF Level
    <3>6. Level(n - 1, a, b).is = "object" /\ Overlay(a, b).is = "object"
      BY LevelFacts, ObjectFields DEF Overlay
    <3> QED
      BY <2>1, <2>2, <3>1, <3>2, <3>3, <3>4, <3>5, <3>6 DEF Alike
  <2>5. CASE ~(a.is = "object" /\ b.is = "object")
    <3>1. Effective(<<a, b>>) = IF b.is = "missing" THEN a ELSE b
      BY <2>5 DEF Effective
    <3>2. f \in DOMAIN v.of => v.of[f] = IF f \notin DOMAIN y.of THEN a ELSE b
      BY <2>1, <2>2, <2>3, <2>5, LevelAt
    <3>3. f \in DOMAIN v.of <=> a.is # "missing" \/ b.is # "missing"
      BY <2>2, <2>3 DEF Missing
    <3>4. b.is = "missing" <=> f \notin DOMAIN y.of
      BY <2>3 DEF Missing
    <3> QED
      BY <2>1, <3>1, <3>2, <3>3, <3>4 DEF Alike
  <2> QED
    BY <2>4, <2>5
<1>2. CASE ~(x.is = "object" /\ y.is = "object")
  <2> DEFINE w == IF y.is = "missing" THEN x ELSE y
  <2>1. v = AsObject(w)
    BY <1>2 DEF Together
  <2>2. Effective(Below(<<x, y>>, f)) = Inside(w, f)
    <3>1. CASE y.is = "missing"
      <4>1. Below(<<x, y>>, f) = <<a, Missing>>
        BY <3>1 DEF Below, Inside
      <4> QED
        BY <3>1, <4>1 DEF Effective, Missing
    <3>2. CASE y.is # "missing"
      <4>1. Below(<<x, y>>, f) = <<Missing, b>>
        BY <1>2, <3>2 DEF Below, Inside
      <4>2. b.is = "missing" => b = Missing
        BY <1>0, ValueKinds
      <4> QED
        BY <3>2, <4>1, <4>2 DEF Effective, Missing
    <3> QED
      BY <3>1, <3>2
  <2>3. w \in Values
    OBVIOUS
  <2> HIDE DEF w
  <2>4. CASE w.is = "object"
    BY <2>1, <2>2, <2>3, <2>4, ValueKinds DEF AsObject, Inside, Field, Missing, Alike
  <2>5. CASE w.is # "object"
    BY <2>1, <2>2, <2>5 DEF AsObject, Inside, Object, Missing
  <2> QED
    BY <2>4, <2>5
<1> QED
  BY <1>1, <1>2

Kinds == {"positive_float", "positive_int", "port", "int", "float", "bounded", "flag", "label"}

\* The parser of each field returns, and returns what both files say of it.
LEMMA ReadsTogether ==
    ASSUME NEW n \in 1 .. 4, NEW x \in Values, NEW y \in Values, NEW rules,
           \A f \in DOMAIN rules : rules[f].kind \in Kinds,
           Accepted(rules, Together(n, <<x, y>>))
    PROVE  ReadsAs(Parsed(rules, Together(n, <<x, y>>)), rules, <<x, y>>)
<1> DEFINE v == Together(n, <<x, y>>)
<1> SUFFICES ASSUME NEW f \in DOMAIN rules
             PROVE  LET e == Effective(Below(<<x, y>>, f))
                    IN  IF e.is = "missing" THEN Parsed(rules, v)[f] = rules[f].default
                        ELSE Accepts(rules[f], e) /\ Parsed(rules, v)[f] = Value(rules[f], e)
  BY DEF ReadsAs
<1> DEFINE e == Effective(Below(<<x, y>>, f))
<1>1. /\ f \in DOMAIN v.of <=> e.is # "missing"
      /\ f \in DOMAIN v.of => Alike(v.of[f], e)
  BY FieldTogether
<1>2. f \in DOMAIN v.of => Accepts(rules[f], v.of[f])
  BY DEF Accepted
<1>3. Parsed(rules, v)[f] = IF f \in DOMAIN v.of THEN Value(rules[f], v.of[f])
                            ELSE rules[f].default
  BY DEF Parsed
<1> HIDE DEF v, e
<1>4. f \in DOMAIN v.of => /\ Accepts(rules[f], v.of[f]) <=> Accepts(rules[f], e)
                           /\ Value(rules[f], v.of[f]) = Value(rules[f], e)
  BY <1>1, <1>2, AlikeParsed DEF Kinds
<1> QED
  BY <1>1, <1>2, <1>3, <1>4 DEF e, v

\* The numbers of a section are numbers.
Numbers(v) == \A f \in DOMAIN v.of : Numeric(v.of[f]) => v.of[f].n \in Int

LEMMA NumbersTogether ==
    ASSUME NEW n \in 1 .. 4, NEW x \in Values, NEW y \in Values
    PROVE  Numbers(Together(n, <<x, y>>))
<1> DEFINE v == Together(n, <<x, y>>)
<1> SUFFICES ASSUME NEW f \in DOMAIN v.of, Numeric(v.of[f]) PROVE v.of[f].n \in Int
  BY DEF Numbers
<1> DEFINE e == Effective(Below(<<x, y>>, f))
<1>1. Alike(v.of[f], e)
  BY FieldTogether
<1>2. v.of[f] = e /\ e.is \in {"number", "flag"}
  BY <1>1 DEF Alike, Numeric
<1>3. PICK a, b \in Values : Below(<<x, y>>, f) = <<a, b>>
  BY BelowKinds
<1>4. e \in Values
  BY <1>2, <1>3, ObjectFields DEF Effective, Overlay
<1> QED
  BY <1>2, <1>4, ValueKinds

\* What each parser promises of what it returns
LEMMA PositiveValue ==
    ASSUME NEW r, r.kind \in {"positive_float", "positive_int"}, NEW v, Accepts(r, v)
    PROVE  Value(r, v) > 0
  BY DEF Accepts, Value

LEMMA WholeValue ==
    ASSUME NEW r, NEW v, Accepts(r, v), Numeric(v) => v.n \in Int,
           \/ r.kind = "positive_int"
           \/ r.kind = "int" /\ r.low = Unit
    PROVE  Whole(Value(r, v)) /\ Value(r, v) \in Nat
<1>1. \A n \in Int : /\ n >= 0 => Truncated(n) % Unit = 0
                     /\ n > 0 /\ n = Truncated(n) => n >= Unit /\ n % Unit = 0
                     /\ Truncated(n) \in Int
                     /\ Truncated(n) >= Unit => n >= 0
  BY DEF Truncated, Unit
<1>2. CASE r.kind = "positive_int"
  <2>1. v.n \in Int /\ v.n > 0 /\ v.n = Truncated(v.n) /\ Value(r, v) = v.n
    BY <1>2 DEF Accepts, Value, Numeric
  <2> QED
    BY <1>1, <2>1 DEF Whole
<1>3. CASE r.kind = "int" /\ r.low = Unit
  <2>1. v.n \in Int
    BY <1>3 DEF Accepts
  <2>3. Value(r, v) = AtLeast(Unit, Truncated(v.n))
    BY <1>3 DEF Value
  <2>2. Truncated(v.n) \in Int
    BY <1>1, <2>1
  <2> QED
    BY <1>1, <2>1, <2>2, <2>3 DEF Whole, AtLeast, Unit
<1> QED
  BY <1>2, <1>3

LEMMA BoundedValue ==
    ASSUME NEW r, r.kind = "bounded", r.low \in Int, r.high \in Int, r.low <= r.high,
           NEW v, Accepts(r, v), Numeric(v) => v.n \in Int
    PROVE  Value(r, v) \in r.low .. r.high
  BY DEF Accepts, Value, Clamp, AtLeast

----------------------------------------------------------------------------
(* The settings *)

LEMMA FilesTogether ==
    ASSUME SettingsInv, settings # <<>>
    PROVE  /\ \E x, y \in Values : Files = <<x, y>>
           /\ Payload(files[1], files[2]) = Together(4, Files)
<1>1. files[1] \in JsonValues /\ files[2] \in JsonValues
  BY DEF SettingsInv
<1> DEFINE x == AsObject(files[1])
           y == AsObject(files[2])
<1>2. x \in Values /\ y \in Values
  BY <1>1 DEF AsObject, Values
<1>3. x.is = "object" /\ y.is = "object"
  BY ObjectFields DEF AsObject
<1>4. Files = <<x, y>> /\ Payload(files[1], files[2]) = Merge(x, y)
  BY DEF Files, Payload
<1> HIDE DEF x, y
<1>5. Together(4, <<x, y>>) = Merge(x, y)
  BY <1>3 DEF Together, Level
<1> QED
  BY <1>2, <1>4, <1>5

\* A section of the payload, as both files say it
LEMMA SectionOfBoth ==
    ASSUME NEW n \in 1 .. 4, NEW pair, \E x, y \in Values : pair = <<x, y>>, NEW k
    PROVE  /\ \E x, y \in Values : Below(pair, k) = <<x, y>>
           /\ Section(Together(n, pair), k) = Together(n - 1, Below(pair, k))
<1>1. PICK x, y \in Values : pair = <<x, y>>
  OBVIOUS
<1> QED
  BY <1>1, BelowKinds, SectionTogether

LEMMA ReadsSection ==
    ASSUME NEW n \in 1 .. 4, NEW pair, \E x, y \in Values : pair = <<x, y>>, NEW rules,
           \A f \in DOMAIN rules : rules[f].kind \in Kinds,
           Accepted(rules, Together(n, pair))
    PROVE  /\ ReadsAs(Parsed(rules, Together(n, pair)), rules, pair)
           /\ Numbers(Together(n, pair))
<1>1. PICK x, y \in Values : pair = <<x, y>>
  OBVIOUS
<1> QED
  BY <1>1, ReadsTogether, NumbersTogether

\* The sections of the settings
Service == Together(3, Below(Files, "service"))
Grpc == Together(2, Below(Below(Files, "service"), "grpc"))
Fairness == Together(2, Below(Below(Files, "engine"), "fairness"))
Models == Together(2, Below(Below(Files, "engine"), "models"))
ModelSection(m) == Together(1, Below(Below(Below(Files, "engine"), "models"), m))

LEMMA SettingsSections ==
    ASSUME SettingsInv, settings # <<>>
    PROVE  LET p == Payload(files[1], files[2])
           IN  /\ Section(p, "service") = Service
               /\ Section(Service, "grpc") = Grpc
               /\ Section(Section(p, "engine"), "fairness") = Fairness
               /\ Section(Section(p, "engine"), "models") = Models
               /\ \A m : Section(Models, m) = ModelSection(m)
<1>1. Payload(files[1], files[2]) = Together(4, Files) /\ \E x, y \in Values : Files = <<x, y>>
  BY FilesTogether
<1>2. \A k : /\ \E x, y \in Values : Below(Files, k) = <<x, y>>
             /\ Section(Together(4, Files), k) = Together(3, Below(Files, k))
  BY <1>1, SectionOfBoth
<1>3. \A j, k : /\ \E x, y \in Values : Below(Below(Files, j), k) = <<x, y>>
                /\ Section(Together(3, Below(Files, j)), k) = Together(2, Below(Below(Files, j), k))
  BY <1>2, SectionOfBoth
<1>4. \A i, j, k : Section(Together(2, Below(Below(Files, i), j)), k)
                     = Together(1, Below(Below(Below(Files, i), j), k))
  BY <1>3, SectionOfBoth
<1> QED
  BY <1>1, <1>2, <1>3, <1>4 DEF Service, Grpc, Fairness, Models, ModelSection

LEMMA SectionPairs ==
    ASSUME SettingsInv, settings # <<>>
    PROVE  /\ \E x, y \in Values : Below(Files, "service") = <<x, y>>
           /\ \E x, y \in Values : Below(Below(Files, "service"), "grpc") = <<x, y>>
           /\ \E x, y \in Values : Below(Below(Files, "engine"), "fairness") = <<x, y>>
           /\ \A m : \E x, y \in Values :
                 Below(Below(Below(Files, "engine"), "models"), m) = <<x, y>>
<1>1. \E x, y \in Values : Files = <<x, y>>
  BY FilesTogether
<1>2. \A k : \E x, y \in Values : Below(Files, k) = <<x, y>>
  BY <1>1, SectionOfBoth
<1>3. \A j, k : \E x, y \in Values : Below(Below(Files, j), k) = <<x, y>>
  BY <1>2, SectionOfBoth
<1>4. \A i, j, k : \E x, y \in Values : Below(Below(Below(Files, i), j), k) = <<x, y>>
  BY <1>3, SectionOfBoth
<1> QED
  BY <1>2, <1>3, <1>4

LEMMA RuleKinds ==
    /\ \A f \in DOMAIN ServiceRules : ServiceRules[f].kind \in Kinds
    /\ \A f \in DOMAIN GrpcRules : GrpcRules[f].kind \in Kinds
    /\ \A f \in DOMAIN FairnessRules : FairnessRules[f].kind \in {"positive_float", "positive_int"}
    /\ \A f \in DOMAIN ModelRules : ModelRules[f].kind \in Kinds
  BY DEF Kinds, ServiceRules, GrpcRules, FairnessRules, ModelRules, Rule, Label, Port, Flag,
         Positive, Duration, AtLeastOne, From

\* What the service has accepted, in the sections' names
LEMMA AcceptedSections ==
    ASSUME SettingsInv, settings # <<>>
    PROVE  /\ Accepted(ServiceRules, Service) /\ Accepted(GrpcRules, Grpc)
           /\ Accepted(FairnessRules, Fairness)
           /\ \A m \in DOMAIN Models.of : Accepted(ModelRules, ModelSection(m))
           /\ Parsed(GrpcRules, Grpc).enabled # 0 =>
                 Parsed(GrpcRules, Grpc).port # Parsed(ServiceRules, Service).port
           /\ WeightsAccepted(Field(Fairness, "weights", Object(<<>>)))
           /\ settings.service = Parsed(ServiceRules, Service)
           /\ settings.grpc = Parsed(GrpcRules, Grpc)
           /\ settings.fairness = Parsed(FairnessRules, Fairness)
           /\ settings.weights = Weights(Section(Fairness, "weights"))
           /\ DOMAIN settings.models = DOMAIN Models.of
           /\ \A m \in DOMAIN Models.of : settings.models[m] = Model(ModelSection(m))
<1> DEFINE p == Payload(files[1], files[2])
           engine == Section(p, "engine")
           fairness == Field(engine, "fairness", Object(<<>>))
<1>1. /\ Section(p, "service") = Service
      /\ Section(Service, "grpc") = Grpc
      /\ Section(engine, "fairness") = Fairness
      /\ Section(engine, "models") = Models
      /\ \A m : Section(Models, m) = ModelSection(m)
  BY SettingsSections
<1>2. SettingsAccepted(p) /\ settings = SettingsOf(p)
  BY DEF SettingsInv
<1> HIDE DEF p
<1>3. fairness.is = "object"
  BY <1>1, <1>2 DEF SettingsAccepted
<1>4. fairness = Fairness
  BY <1>1, <1>3 DEF Section, AsObject, Field
<1>5. \A m \in DOMAIN Models.of : AsObject(Models.of[m]) = ModelSection(m)
  BY <1>1 DEF Section
<1> HIDE DEF fairness, engine
<1>6. /\ \A m \in DOMAIN Models.of : Accepted(ModelRules, AsObject(Models.of[m]))
      /\ Accepted(ServiceRules, Service) /\ Accepted(GrpcRules, Grpc)
      /\ Parsed(GrpcRules, Grpc).enabled # 0 =>
            Parsed(GrpcRules, Grpc).port # Parsed(ServiceRules, Service).port
      /\ Accepted(FairnessRules, fairness)
      /\ WeightsAccepted(Field(fairness, "weights", Object(<<>>)))
  BY <1>1, <1>2 DEF SettingsAccepted, engine, fairness
<1>7. /\ settings.service = Parsed(ServiceRules, Service)
      /\ settings.grpc = Parsed(GrpcRules, Grpc)
      /\ settings.models = [m \in DOMAIN Models.of |-> Model(AsObject(Models.of[m]))]
      /\ settings.fairness = Parsed(FairnessRules, Fairness)
      /\ settings.weights = Weights(Section(Fairness, "weights"))
  BY <1>1, <1>2 DEF SettingsOf, engine
<1> QED
  BY <1>4, <1>5, <1>6, <1>7

\* What a rule promises of the field it parses, present or not
LEMMA ParsedPositive ==
    ASSUME NEW rules, NEW v, NEW f \in DOMAIN rules, Accepted(rules, v),
           rules[f].kind \in {"positive_float", "positive_int"}, rules[f].default > 0
    PROVE  Parsed(rules, v)[f] > 0
<1>1. CASE f \in DOMAIN v.of
  BY <1>1, PositiveValue DEF Parsed, Accepted
<1>2. CASE f \notin DOMAIN v.of
  BY <1>2 DEF Parsed
<1> QED
  BY <1>1, <1>2

LEMMA ParsedWhole ==
    ASSUME NEW rules, NEW v, NEW f \in DOMAIN rules, Accepted(rules, v), Numbers(v),
           \/ rules[f].kind = "positive_int"
           \/ rules[f].kind = "int" /\ rules[f].low = Unit,
           Whole(rules[f].default), rules[f].default \in Nat
    PROVE  Whole(Parsed(rules, v)[f]) /\ Parsed(rules, v)[f] \in Nat
<1>1. CASE f \in DOMAIN v.of
  <2>1. Accepts(rules[f], v.of[f]) /\ (Numeric(v.of[f]) => v.of[f].n \in Int)
    BY <1>1 DEF Accepted, Numbers
  <2>2. Parsed(rules, v)[f] = Value(rules[f], v.of[f])
    BY <1>1 DEF Parsed
  <2> QED
    BY <2>1, <2>2, WholeValue
<1>2. CASE f \notin DOMAIN v.of
  BY <1>2 DEF Parsed
<1> QED
  BY <1>1, <1>2

LEMMA ParsedBounded ==
    ASSUME NEW rules, NEW v, NEW f \in DOMAIN rules, Accepted(rules, v), Numbers(v),
           rules[f].kind = "bounded", rules[f].low \in Int, rules[f].high \in Int,
           rules[f].default \in rules[f].low .. rules[f].high
    PROVE  Parsed(rules, v)[f] \in rules[f].low .. rules[f].high
<1>1. CASE f \in DOMAIN v.of
  <2>1. Accepts(rules[f], v.of[f]) /\ (Numeric(v.of[f]) => v.of[f].n \in Int)
    BY <1>1 DEF Accepted, Numbers
  <2>2. Parsed(rules, v)[f] = Value(rules[f], v.of[f])
    BY <1>1 DEF Parsed
  <2>3. rules[f].low <= rules[f].high
    OBVIOUS
  <2> QED
    BY <2>1, <2>2, <2>3, BoundedValue
<1>2. CASE f \notin DOMAIN v.of
  BY <1>2 DEF Parsed
<1> QED
  BY <1>1, <1>2

LEMMA FairnessNumbers ==
    ASSUME SettingsInv, settings # <<>>
    PROVE  /\ \A f \in DOMAIN FairnessRules : settings.fairness[f] > 0
           /\ \A f \in {"soft_max_inflight_per_key", "max_pending_per_key",
                        "max_pending_per_executor"} : Whole(settings.fairness[f])
           /\ \A k \in DOMAIN settings.weights : settings.weights[k] > 0
<1>1. /\ Accepted(FairnessRules, Fairness) /\ settings.fairness = Parsed(FairnessRules, Fairness)
      /\ WeightsAccepted(Field(Fairness, "weights", Object(<<>>)))
      /\ settings.weights = Weights(Section(Fairness, "weights"))
  BY AcceptedSections
<1>2. Numbers(Fairness)
  BY <1>1, SectionPairs, RuleKinds, ReadsSection DEF Fairness, Kinds
<1>3. \A f \in DOMAIN FairnessRules : FairnessRules[f].default > 0
  BY DEF FairnessRules, Rule, Positive, Duration, Unit
<1>4. \A f \in {"soft_max_inflight_per_key", "max_pending_per_key", "max_pending_per_executor"} :
         /\ f \in DOMAIN FairnessRules /\ FairnessRules[f].kind = "positive_int"
         /\ FairnessRules[f].default \in Nat /\ Whole(FairnessRules[f].default)
  BY DEF FairnessRules, Rule, Positive, Duration, Unit, Whole
<1>5. \A f \in DOMAIN FairnessRules : settings.fairness[f] > 0
  BY <1>1, <1>3, RuleKinds, ParsedPositive
<1>6. \A f \in {"soft_max_inflight_per_key", "max_pending_per_key", "max_pending_per_executor"} :
         Whole(settings.fairness[f])
  BY <1>1, <1>2, <1>4, ParsedWhole
<1>7. ASSUME NEW k \in DOMAIN settings.weights PROVE settings.weights[k] > 0
  <2> DEFINE w == Field(Fairness, "weights", Object(<<>>))
  <2>1. Section(Fairness, "weights") = w /\ WeightsAccepted(w)
    BY <1>1 DEF Section, AsObject, Field, WeightsAccepted
  <2> HIDE DEF w
  <2>2. \A i \in DOMAIN w.of : w.of[i].n > 0
    BY <2>1 DEF WeightsAccepted, Accepts, Duration, Rule
  <2>3. settings.weights = Weights(w)
    BY <1>1, <2>1
  <2>4. k \in {Strip(i) : i \in DOMAIN w.of}
    BY <2>3 DEF Weights
  <2>5. (CHOOSE i \in DOMAIN w.of : Strip(i) = k) \in DOMAIN w.of
    BY <2>4
  <2> QED
    BY <2>2, <2>3, <2>4, <2>5 DEF Weights
<1> QED
  BY <1>5, <1>6, <1>7

LEMMA GrpcNumbers ==
    ASSUME SettingsInv, settings # <<>>
    PROVE  /\ Whole(settings.grpc.stream_buffer_chunks)
           /\ Whole(settings.grpc.stream_buffer_bytes)
           /\ settings.grpc.stream_buffer_bytes \in Nat
           /\ settings.grpc.stalled_consumer_timeout_s > 0 /\ settings.grpc.shutdown_grace_s > 0
           /\ settings.grpc.enabled # 0 => settings.grpc.port # settings.service.port
<1>1. /\ Accepted(GrpcRules, Grpc) /\ settings.grpc = Parsed(GrpcRules, Grpc)
      /\ settings.service = Parsed(ServiceRules, Service)
      /\ Parsed(GrpcRules, Grpc).enabled # 0 =>
            Parsed(GrpcRules, Grpc).port # Parsed(ServiceRules, Service).port
  BY AcceptedSections
<1>2. Numbers(Grpc)
  BY <1>1, SectionPairs, RuleKinds, ReadsSection DEF Grpc
<1>3. \A f \in {"stream_buffer_chunks", "stream_buffer_bytes"} :
         /\ f \in DOMAIN GrpcRules /\ GrpcRules[f].kind = "positive_int"
         /\ GrpcRules[f].default \in Nat /\ Whole(GrpcRules[f].default)
  BY DEF GrpcRules, Rule, Positive, Unit, Whole
<1>4. \A f \in {"stalled_consumer_timeout_s", "shutdown_grace_s"} :
         /\ f \in DOMAIN GrpcRules /\ GrpcRules[f].kind = "positive_float"
         /\ GrpcRules[f].default > 0
  BY DEF GrpcRules, Rule, Duration, Unit
<1>5. \A f \in {"stream_buffer_chunks", "stream_buffer_bytes"} :
         Whole(settings.grpc[f]) /\ settings.grpc[f] \in Nat
  BY <1>1, <1>2, <1>3, ParsedWhole
<1>6. \A f \in {"stalled_consumer_timeout_s", "shutdown_grace_s"} : settings.grpc[f] > 0
  BY <1>1, <1>4, ParsedPositive
<1> QED
  BY <1>1, <1>5, <1>6

LEMMA ModelNumbers ==
    ASSUME SettingsInv, settings # <<>>, NEW m \in DOMAIN settings.models
    PROVE  LET number == settings.models[m].number
           IN  /\ Whole(number.target_inflight) /\ Whole(number.nanovllm_max_num_seqs)
               /\ number.voxcpm2_reference_max_duration_s \in Unit .. 60 * Unit
               /\ number.nanovllm_reference_max_duration_s \in Unit .. 60 * Unit
               /\ ReadsAs(number, ModelRules, Below(Below(Below(Files, "engine"), "models"), m))
<1> DEFINE v == ModelSection(m)
           number == settings.models[m].number
<1>1. Accepted(ModelRules, v) /\ settings.models[m] = Model(v)
  BY AcceptedSections
<1>2. number = Parsed(ModelRules, v)
  BY <1>1 DEF Model
<1>3. /\ ReadsAs(Parsed(ModelRules, v), ModelRules,
                 Below(Below(Below(Files, "engine"), "models"), m))
      /\ Numbers(v)
  BY <1>1, SectionPairs, RuleKinds, ReadsSection DEF ModelSection
<1> HIDE DEF v, number
<1>4. \A f \in {"target_inflight", "nanovllm_max_num_seqs"} :
         /\ f \in DOMAIN ModelRules /\ ModelRules[f].kind = "int" /\ ModelRules[f].low = Unit
         /\ ModelRules[f].default \in Nat /\ Whole(ModelRules[f].default)
  <2>1. \A f \in {"target_inflight", "nanovllm_max_num_seqs"} :
           f \in DOMAIN ModelRules /\ \E n \in {1, 4} : ModelRules[f] = AtLeastOne(n)
    BY DEF ModelRules
  <2> QED
    BY <2>1 DEF AtLeastOne, Rule, Unit, Whole
<1>5. \A f \in {"voxcpm2_reference_max_duration_s", "nanovllm_reference_max_duration_s"} :
         /\ f \in DOMAIN ModelRules /\ ModelRules[f].kind = "bounded"
         /\ ModelRules[f].low = Unit /\ ModelRules[f].high = 60 * Unit
         /\ ModelRules[f].default \in Unit .. 60 * Unit
  <2>1. \A f \in {"voxcpm2_reference_max_duration_s", "nanovllm_reference_max_duration_s"} :
           f \in DOMAIN ModelRules /\ ModelRules[f] = Rule("bounded", Unit, 60 * Unit, 8 * Unit)
    BY DEF ModelRules
  <2>2. LET r == Rule("bounded", Unit, 60 * Unit, 8 * Unit)
        IN  r.kind = "bounded" /\ r.low = Unit /\ r.high = 60 * Unit /\ r.default = 8 * Unit
    BY DEF Rule
  <2>3. 8 * Unit \in Unit .. 60 * Unit
    BY DEF Unit
  <2> QED
    BY <2>1, <2>2, <2>3
<1>6. \A f \in {"target_inflight", "nanovllm_max_num_seqs"} : Whole(number[f])
  BY <1>1, <1>2, <1>3, <1>4, ParsedWhole
<1>7. \A f \in {"voxcpm2_reference_max_duration_s", "nanovllm_reference_max_duration_s"} :
         number[f] \in Unit .. 60 * Unit
  <2>1. Unit \in Int /\ 60 * Unit \in Int
    BY DEF Unit
  <2> QED
    BY <1>1, <1>2, <1>3, <1>5, <2>1, ParsedBounded
<1> QED
  BY <1>2, <1>3, <1>6, <1>7 DEF number

LEMMA SettingsKept ==
    ASSUME SettingsInv
    PROVE  SettingsKeepAssumptions
<1> SUFFICES ASSUME settings # <<>> PROVE SettingsKeepAssumptions
  BY DEF SettingsKeepAssumptions
<1>1. /\ Accepted(ServiceRules, Service) /\ settings.service = Parsed(ServiceRules, Service)
      /\ Accepted(GrpcRules, Grpc) /\ settings.grpc = Parsed(GrpcRules, Grpc)
      /\ Accepted(FairnessRules, Fairness) /\ settings.fairness = Parsed(FairnessRules, Fairness)
  BY AcceptedSections
<1>2. ReadsAs(settings.service, ServiceRules, Below(Files, "service"))
  BY <1>1, SectionPairs, RuleKinds, ReadsSection DEF Service
<1>3. ReadsAs(settings.grpc, GrpcRules, Below(Below(Files, "service"), "grpc"))
  BY <1>1, SectionPairs, RuleKinds, ReadsSection DEF Grpc
<1>4. ReadsAs(settings.fairness, FairnessRules, Below(Below(Files, "engine"), "fairness"))
  BY <1>1, SectionPairs, RuleKinds, ReadsSection DEF Fairness, Kinds
<1> QED
  BY <1>2, <1>3, <1>4, FairnessNumbers, GrpcNumbers, ModelNumbers DEF SettingsKeepAssumptions

\* Only create_app writes the settings.
LEMMA SettingsStep == SettingsInv /\ [PathNext]_pathVars => SettingsInv'
<1> SUFFICES ASSUME SettingsInv, [PathNext]_pathVars PROVE SettingsInv'
  OBVIOUS
<1>1. ASSUME NEW c \in Configurations, Configure(c[1], c[2]) PROVE SettingsInv'
  <2> DEFINE p == Payload(c[1], c[2])
  <2>1. c \in JsonValues \X JsonValues
    BY FilesAssumption
  <2>2. files' = <<c[1], c[2]>> /\ files' \in JsonValues \X JsonValues
    BY <1>1, <2>1 DEF Configure
  <2>3. Payload(files'[1], files'[2]) = p
    BY <2>2
  <2> HIDE DEF p
  <2>4. settings' # <<>> => SettingsAccepted(p) /\ settings' = SettingsOf(p)
    BY <1>1 DEF Configure, p
  <2> QED
    BY <2>2, <2>3, <2>4 DEF SettingsInv
<1>2. ASSUME UNCHANGED <<files, settings>> PROVE SettingsInv'
  BY <1>2 DEF SettingsInv
<1>3. CASE LeaveUnloaded \/ LoadSucceeds \/ LoadFails
  BY <1>2, <1>3 DEF LeaveUnloaded, LoadSucceeds, LoadFails, Serve
<1>4. CASE \E m \in Messages : Receive(m)
  BY <1>2, <1>4 DEF Receive, engineVars
<1>5. CASE Prepare \/ CutChunks \/ \E frames \in Lengths : AudioReturns(frames)
  BY <1>2, <1>5 DEF Prepare, CutChunks, AudioReturns, engineVars
<1>6. ASSUME NEW e \in Errors,
             EndBeforeDispatch(e) \/ RuntimeFails(e) \/ StreamEnds(e) \/ ChunkingEnds(e)
      PROVE  SettingsInv'
  BY <1>2, <1>6 DEF EndBeforeDispatch, RuntimeFails, StreamEnds, ChunkingEnds, engineVars
<1>7. CASE UNCHANGED pathVars
  BY <1>2, <1>7 DEF pathVars, engineVars
<1> QED
  BY <1>1, <1>3, <1>4, <1>5, <1>6, <1>7 DEF PathNext

\* For any two files, the service starts only with settings that satisfy what the
\* other modules assume of their constants, each read from the local file if that
\* names it and otherwise from the settings file.
THEOREM SettingsSafety == PathSpec => []SettingsKeepAssumptions
<1>1. PathInit => SettingsInv
  BY DEF PathInit, SettingsInv
<1> QED
  BY <1>1, SettingsStep, SettingsKept, PTL DEF PathSpec

----------------------------------------------------------------------------
(* The chunks of a complete audio *)

USE DEF FrameBytes

\* The inductive invariant: the position stays within the audio, and a chunk
\* holds at least one frame.
ChunkInv ==
    /\ ChunkTypeOK
    /\ ChunksAreTheAudio
    /\ first <= wav
    /\ chunking = "waiting" => emitted = <<>>
    /\ chunking = "emitting" => ChunkBytes(room) > 0

\* The lesser of two positive numbers is positive, and no more than either.
LEMMA LeastOfTwo ==
    ASSUME NEW m \in Nat, NEW n \in Nat, m > 0, n > 0
    PROVE  Least(m, n) \in Nat /\ Least(m, n) > 0 /\ Least(m, n) <= m /\ Least(m, n) <= n
BY DEF Least

\* A chunk is made of whole frames, and fits the buffer.
LEMMA ChunkSize ==
    ASSUME NEW bytes \in Nat
    PROVE  /\ ChunkBytes(bytes) \in Nat
           /\ ChunkBytes(bytes) <= bytes
           /\ ChunkBytes(bytes) = 2 * (ChunkBytes(bytes) \div 2)
<1>1. Least(bytes, ReadLimit) \in Nat /\ Least(bytes, ReadLimit) <= bytes
  BY ChunkAssumption DEF Least
<1>2. \A n \in Nat : /\ n - (n % 2) \in Nat /\ n - (n % 2) <= n
                     /\ n - (n % 2) = 2 * ((n - (n % 2)) \div 2)
  OBVIOUS
<1> QED
  BY <1>1, <1>2 DEF ChunkBytes

\* Every step keeps the invariant.
THEOREM ChunkInvariant == ChunkInv /\ [ChunkNext]_chunkVars => ChunkInv'
<1> SUFFICES ASSUME ChunkInv, [ChunkNext]_chunkVars PROVE ChunkInv'
  OBVIOUS
<1> USE DEF ChunkInv, ChunkTypeOK, ChunksAreTheAudio, TotalSampleCount
<1>1. ASSUME NEW frames \in Nat, NEW bytes \in Nat, BeginChunks(frames, bytes)
      PROVE  ChunkInv'
  <2>1. ChunkBytes(bytes)' = ChunkBytes(bytes) /\ ChunkBytes(bytes) \in Nat
    BY ChunkSize DEF ChunkBytes, Least
  <2>2. room' = bytes /\ wav' = frames /\ emitted' = <<>> /\ first' = 0
    BY <1>1 DEF BeginChunks
  <2> QED
    BY <1>1, <2>1, <2>2 DEF BeginChunks, ChunkBytes, Least
<1>2. CASE EmitChunk
  <2> DEFINE frames == Least(FramesPerChunk, wav - first)
             chunk == [number |-> Len(emitted), first |-> first, frames |-> frames]
  <2>1. frames \in Nat /\ frames > 0 /\ 2 * frames <= room /\ first + frames <= wav
    <3>1. \A c \in Nat : c > 0 /\ c = 2 * (c \div 2)
                           => c \div 2 \in Nat /\ c \div 2 > 0
      OBVIOUS
    <3>2. /\ ChunkBytes(room) \in Nat /\ ChunkBytes(room) > 0
          /\ ChunkBytes(room) <= room
          /\ ChunkBytes(room) = 2 * (ChunkBytes(room) \div 2)
      BY <1>2, ChunkSize DEF EmitChunk
    <3>3. /\ FramesPerChunk \in Nat /\ FramesPerChunk > 0
          /\ 2 * FramesPerChunk <= room
      BY <3>1, <3>2 DEF FramesPerChunk
    <3>4. wav - first \in Nat /\ wav - first > 0
      BY <1>2 DEF EmitChunk
    <3>5. frames \in Nat /\ frames > 0 /\ frames <= FramesPerChunk /\ frames <= wav - first
      BY <3>3, <3>4, LeastOfTwo
    <3>6. first \in Nat /\ wav \in Nat /\ room \in Nat
      OBVIOUS
    <3> HIDE DEF ChunkInv, ChunkTypeOK, ChunksAreTheAudio, frames
    <3> QED
      BY <3>3, <3>5, <3>6
  <2>2. /\ emitted' = Append(emitted, chunk)
        /\ first' = first + frames
        /\ UNCHANGED <<wav, room, chunking>>
    BY <1>2 DEF EmitChunk
  <2> HIDE DEF frames
  <2>3. /\ Len(emitted') = Len(emitted) + 1
        /\ \A i \in 1 .. Len(emitted) : emitted'[i] = emitted[i]
        /\ emitted'[Len(emitted) + 1] = chunk
        /\ emitted' # <<>>
    BY <2>1, <2>2
  <2>4. ChunkTypeOK'
    BY <2>1, <2>2
  <2>5. \A i \in 1 .. Len(emitted') :
           /\ emitted'[i].number = i - 1
           /\ emitted'[i].frames > 0
           /\ 2 * emitted'[i].frames <= room'
    BY <2>1, <2>2, <2>3
  <2>6. \A i \in 1 .. Len(emitted') :
           emitted'[i].first + emitted'[i].frames =
              IF i = Len(emitted') THEN first' ELSE emitted'[i + 1].first
    <3> TAKE i \in 1 .. Len(emitted')
    <3>1. CASE i = Len(emitted) + 1
      BY <2>2, <2>3, <3>1
    <3>2. CASE i = Len(emitted)
      BY <2>2, <2>3, <3>2
    <3>3. CASE i < Len(emitted)
      <4>1. i \in 1 .. Len(emitted) /\ i + 1 \in 1 .. Len(emitted)
        <5>1. Len(emitted) \in Nat /\ i \in 1 .. Len(emitted) + 1
          BY <2>3
        <5> HIDE DEF ChunkInv, ChunkTypeOK, ChunksAreTheAudio
        <5> QED
          BY <3>3, <5>1
      <4>2. emitted'[i] = emitted[i] /\ emitted'[i + 1] = emitted[i + 1]
        BY <2>3, <4>1
      <4>3. emitted[i].first + emitted[i].frames = emitted[i + 1].first
        <5>1. \A j \in 1 .. Len(emitted) :
                 emitted[j].first + emitted[j].frames =
                    IF j = Len(emitted) THEN first ELSE emitted[j + 1].first
          OBVIOUS
        <5>2. i # Len(emitted)
          <6>1. Len(emitted) \in Nat /\ i \in Int
            BY <4>1
          <6> HIDE DEF ChunkInv, ChunkTypeOK, ChunksAreTheAudio
          <6> QED
            BY <3>3, <6>1
        <5> HIDE DEF ChunkInv, ChunkTypeOK, ChunksAreTheAudio
        <5> QED
          BY <4>1, <5>1, <5>2
      <4> QED
        BY <2>3, <3>3, <4>2, <4>3
    <3> QED
      BY <2>3, <3>1, <3>2, <3>3
  <2>7. emitted'[1].first = 0
    <3>1. CASE emitted = <<>>
      BY <2>3, <3>1
    <3>2. CASE emitted # <<>>
      BY <2>3, <3>2
    <3> QED
      BY <3>1, <3>2
  <2>8. ChunksAreTheAudio'
    BY <1>2, <2>2, <2>3, <2>5, <2>6, <2>7 DEF EmitChunk
  <2> QED
    BY <1>2, <2>1, <2>2, <2>4, <2>8 DEF EmitChunk, ChunkBytes
<1>3. CASE EmitRaises \/ EndChunks
  <2>1. UNCHANGED <<wav, room, emitted, first>> /\ ChunkBytes(room)' = ChunkBytes(room)
    BY <1>3 DEF EmitRaises, EndChunks, ChunkBytes, Least
  <2>2. chunking' = "broken" \/ (chunking' = "complete" /\ first = wav)
    BY <1>3 DEF EmitRaises, EndChunks
  <2> QED
    BY <2>1, <2>2
<1>4. CASE UNCHANGED chunkVars
  BY <1>4 DEF chunkVars, ChunkBytes, Least
<1> QED
  BY <1>1, <1>2, <1>3, <1>4 DEF ChunkNext, ChunkStep

LEMMA ChunkStart == ChunkInit => ChunkInv
  BY DEF ChunkInit, ChunkInv, ChunkTypeOK, ChunksAreTheAudio, TotalSampleCount

\* For any audio and any buffer, the chunks emitted are the audio, in order and
\* without a gap, and each fits the buffer.
THEOREM ChunkSafety == ChunkSpec => []ChunksAreTheAudio
<1>1. ChunkInv /\ [ChunkNext]_chunkVars => ChunkInv'
  BY ChunkInvariant
<1>2. ChunkInv => ChunksAreTheAudio
  BY DEF ChunkInv
<1> QED
  BY ChunkStart, <1>1, <1>2, PTL DEF ChunkSpec

\* Settings are a record, and no empty one.
LEMMA SettingsAreNotEmpty ==
    ASSUME NEW p
    PROVE  SettingsOf(p) # <<>>
<1>1. "service" \in DOMAIN SettingsOf(p)
  BY DEF SettingsOf
<1>2. DOMAIN <<>> = {}
  OBVIOUS
<1> QED
  BY <1>1, <1>2

----------------------------------------------------------------------------
(* A request on its way *)

\* A request is let in only by a model that is loaded.
LEMMA AdmittedModel ==
    ASSUME LifecycleInv, Admitted
    PROVE  /\ lifecycle = "loaded" /\ settings # <<>>
           /\ ModelName \in DOMAIN settings.models /\ CanBeBuilt
  BY DEF LifecycleInv, Admitted, EngineError

\* A runtime that raises nothing calls its library.
LEMMA SynthesisCalls ==
    ASSUME NEW b \in {"stub", "kokoro", "voxcpm2", "nanovllm_voxcpm"}, NEW model, NEW known, NEW m,
           Synthesis(b, model, known, m).error = ""
    PROVE  Synthesis(b, model, known, m).call # <<>>
<1>1. \A e : Raises(e).error = e
  BY DEF Raises
<1>2. \A c : Calls(c).call # <<>>
  BY DEF Calls
<1>3. CASE b = "stub"
  BY <1>2, <1>3 DEF Synthesis
<1>4. CASE b = "kokoro"
  <2>1. Synthesis(b, model, known, m) = KokoroCall(model, m)
    BY <1>4 DEF Synthesis
  <2>2. \/ \E e \in {"ValueError", "FileNotFoundError"} : KokoroCall(model, m) = Raises(e)
        \/ \E c : KokoroCall(model, m) = Calls(c)
    BY DEF KokoroCall
  <2> QED
    BY <1>1, <1>2, <2>1, <2>2
<1>5. CASE b = "voxcpm2"
  <2>1. Synthesis(b, model, known, m) = VoxCPM2Call(model, m)
    BY <1>5 DEF Synthesis
  <2>2. \/ VoxError(m) # "" /\ VoxCPM2Call(model, m) = Raises(VoxError(m))
        \/ \E c : VoxCPM2Call(model, m) = Calls(c)
    BY DEF VoxCPM2Call
  <2> QED
    BY <1>1, <1>2, <2>1, <2>2
<1>6. CASE b = "nanovllm_voxcpm"
  <2>1. Synthesis(b, model, known, m) = NanoVLLMCall(model, known, m)
    BY <1>6 DEF Synthesis
  <2>2. \/ VoxError(m) # "" /\ NanoVLLMCall(model, known, m) = Raises(VoxError(m))
        \/ NanoVLLMCall(model, known, m) = Raises("ValueError")
        \/ \E c : NanoVLLMCall(model, known, m) = Calls(c)
    BY DEF NanoVLLMCall
  <2> QED
    BY <1>1, <1>2, <2>1, <2>2
<1> QED
  BY <1>3, <1>4, <1>5, <1>6

\* Nothing a step leaves alone changes what the request is to the engine.
LEMMA SameRequest ==
    ASSUME UNCHANGED <<settings, lifecycle, rateKnown, message>>
    PROVE  /\ Admitted' = Admitted /\ Prepared' = Prepared /\ CanBeBuilt' = CanBeBuilt
           /\ Backend' = Backend /\ Loaded' = Loaded
           /\ Valid(message)' = Valid(message) /\ EngineError(message)' = EngineError(message)
           /\ IsMessage(message)' = IsMessage(message)
<1>1. Backend' = Backend /\ Loaded' = Loaded /\ Request' = Request
  BY DEF Backend, Loaded, Request
<1>2. Valid(message)' = Valid(message) /\ IsMessage(message)' = IsMessage(message)
  BY DEF Valid, IsMessage
<1>3. EngineError(message)' = EngineError(message)
  BY DEF EngineError
<1> QED
  BY <1>1, <1>2, <1>3 DEF Admitted, Prepared, CanBeBuilt

LEMMA LifecycleStep ==
    LifecycleInv /\ [PathNext]_pathVars => LifecycleInv'
<1> SUFFICES ASSUME LifecycleInv, [PathNext]_pathVars PROVE LifecycleInv'
  OBVIOUS
<1>1. ASSUME NEW c \in Configurations, Configure(c[1], c[2]) PROVE LifecycleInv'
  <2>1. lifecycle' = "unloaded" /\ phase' \in {"building", "refused"}
    BY <1>1 DEF Configure, LifecycleInv
  <2>2. phase' = "building" => settings' # <<>>
    <3>1. phase' = "building" => settings' = SettingsOf(Payload(c[1], c[2]))
      BY <1>1 DEF Configure
    <3>2. SettingsOf(Payload(c[1], c[2])) # <<>>
      BY SettingsAreNotEmpty
    <3> QED
      BY <3>1, <3>2
  <2> QED
    BY <2>1, <2>2 DEF LifecycleInv
<1>2. ASSUME UNCHANGED <<settings, lifecycle>>, phase' \notin {"start", "building"}
      PROVE  LifecycleInv'
  BY <1>2 DEF LifecycleInv, CanBeBuilt, Backend, Loaded
<1>3. CASE LeaveUnloaded \/ LoadFails
  BY <1>3 DEF LeaveUnloaded, LoadFails, Serve, LifecycleInv
<1>4. CASE LoadSucceeds
  <2>1. /\ settings # <<>> /\ ModelName \in DOMAIN settings.models /\ CanBeBuilt
        /\ UNCHANGED settings /\ phase' = "serving"
    BY <1>4 DEF LoadSucceeds, Serve, Enabled, LifecycleInv
  <2>2. CanBeBuilt' = CanBeBuilt
    BY <2>1 DEF CanBeBuilt, Backend, Loaded
  <2> QED
    BY <2>1, <2>2 DEF LifecycleInv
<1>5. CASE \E m \in Messages : Receive(m)
  BY <1>2, <1>5 DEF Receive, Answer, engineVars
<1>6. CASE Prepare \/ CutChunks \/ \E frames \in Lengths : AudioReturns(frames)
  BY <1>2, <1>6 DEF Prepare, CutChunks, AudioReturns, Answer, engineVars
<1>7. ASSUME NEW e \in Errors,
             EndBeforeDispatch(e) \/ RuntimeFails(e) \/ StreamEnds(e) \/ ChunkingEnds(e)
      PROVE  LifecycleInv'
  BY <1>2, <1>7 DEF EndBeforeDispatch, RuntimeFails, StreamEnds, ChunkingEnds, Answer, engineVars
<1>8. CASE UNCHANGED pathVars
  BY <1>8 DEF pathVars, engineVars, LifecycleInv, CanBeBuilt, Backend, Loaded
<1> QED
  BY <1>1, <1>3, <1>4, <1>5, <1>6, <1>7, <1>8 DEF PathNext

LEMMA RequestStep ==
    LifecycleInv /\ RequestInv /\ [PathNext]_pathVars => RequestInv'
<1> SUFFICES ASSUME LifecycleInv, RequestInv, [PathNext]_pathVars PROVE RequestInv'
  OBVIOUS
<1>1. ASSUME call = <<>>, UNCHANGED <<message, call>>,
             phase' \in {"refused", "building", "serving"}
      PROVE  RequestInv'
  BY <1>1 DEF RequestInv
<1>2. ASSUME NEW c \in Configurations, Configure(c[1], c[2]) PROVE RequestInv'
  BY <1>1, <1>2 DEF Configure, requestVars, RequestInv
<1>3. CASE LeaveUnloaded \/ LoadSucceeds \/ LoadFails
  BY <1>1, <1>3 DEF LeaveUnloaded, LoadSucceeds, LoadFails, Serve, requestVars, RequestInv
<1>4. ASSUME NEW m \in Messages, Receive(m) PROVE RequestInv'
  <2>1. /\ call = <<>> /\ call' = <<>> /\ message' = m /\ UNCHANGED <<settings, lifecycle>>
    BY <1>4 DEF Receive, RequestInv, engineVars
  <2>2. IsMessage(message)'
    BY <2>1, MessagesAssumption DEF IsMessage
  <2>3. EngineError(message)' = EngineError(m) /\ Valid(message)' = Valid(m)
    BY <2>1 DEF EngineError, Valid
  <2>4. CASE Valid(m) /\ EngineError(m) = ""
    <3>1. phase' = "admitted"
      BY <1>4, <2>4 DEF Receive
    <3>2. Admitted'
      BY <2>2, <2>3, <2>4 DEF Admitted
    <3> QED
      BY <2>1, <3>1, <3>2 DEF RequestInv
  <2>5. CASE ~(Valid(m) /\ EngineError(m) = "")
    <3>1. phase' = "answered"
      BY <1>4, <2>5 DEF Receive, Answer
    <3> QED
      BY <2>1, <2>2, <2>3, <2>5, <3>1 DEF RequestInv
  <2> QED
    BY <2>4, <2>5
<1>5. CASE Prepare
  <2>1. /\ Admitted /\ UNCHANGED <<settings, lifecycle, rateKnown, message>>
    BY <1>5 DEF Prepare, RequestInv, engineVars
  <2>2. Admitted' /\ Prepared' = Prepared
    BY <2>1, SameRequest
  <2>3. CASE Prepared.error # ""
    <3>1. phase' = "answered" /\ call' = <<>>
      BY <1>5, <2>3 DEF Prepare, Prepared, Answer
    <3> QED
      BY <2>2, <2>3, <3>1 DEF RequestInv, Admitted
  <2>4. CASE Prepared.error = ""
    <3>1. phase' = "calling" /\ call' = Prepared.call
      BY <1>5, <2>4 DEF Prepare, Prepared
    <3>2. Backend \in {"stub", "kokoro", "voxcpm2", "nanovllm_voxcpm"}
      BY <2>1, AdmittedModel DEF CanBeBuilt
    <3>3. Prepared.call # <<>>
      <4>1. Synthesis(Backend, Loaded, rateKnown, Request).error = ""
        BY <2>4 DEF Prepared
      <4>2. Synthesis(Backend, Loaded, rateKnown, Request).call # <<>>
        BY <3>2, <4>1, SynthesisCalls
      <4> QED
        BY <4>2 DEF Prepared
    <3> QED
      BY <2>2, <2>4, <3>1, <3>3 DEF RequestInv
  <2> QED
    BY <2>3, <2>4
<1>6. ASSUME phase \in {"calling", "chunking"}, phase' \in {"calling", "chunking", "answered"},
             UNCHANGED <<settings, lifecycle, rateKnown, message, call>>
      PROVE  RequestInv'
  <2>1. Admitted' /\ Prepared' = Prepared /\ call' # <<>> /\ Prepared.error = ""
        /\ call = Prepared.call
    BY <1>6, SameRequest DEF RequestInv
  <2>2. IsMessage(message)'
    BY <2>1 DEF Admitted
  <2> QED
    BY <1>6, <2>1, <2>2 DEF RequestInv
<1>7. CASE CutChunks \/ \E frames \in Lengths : AudioReturns(frames)
  BY <1>6, <1>7 DEF CutChunks, AudioReturns, engineVars, requestVars
<1>8. ASSUME NEW e \in Errors, RuntimeFails(e) \/ StreamEnds(e) \/ ChunkingEnds(e)
      PROVE  RequestInv'
  BY <1>6, <1>8 DEF RuntimeFails, StreamEnds, ChunkingEnds, Answer, engineVars
<1>9. ASSUME NEW e \in Errors, EndBeforeDispatch(e)
      PROVE  RequestInv'
  <2>1. /\ Admitted /\ UNCHANGED <<settings, lifecycle, rateKnown, message, call>>
        /\ phase' = "answered" /\ error' \in {"RequestAdmissionError", "SynthesisCancelled"}
    BY <1>9 DEF EndBeforeDispatch, Answer, RequestInv, engineVars
  <2>2. Admitted' /\ Prepared' = Prepared
    BY <2>1, SameRequest
  <2>3. IsMessage(message)'
    BY <2>2 DEF Admitted
  <2> QED
    BY <2>1, <2>2, <2>3 DEF RequestInv
<1>10. CASE UNCHANGED pathVars
  <2>1. UNCHANGED <<phase, settings, lifecycle, rateKnown, message, call, error>>
    BY <1>10 DEF pathVars, engineVars, requestVars
  <2> QED
    BY <2>1, SameRequest DEF RequestInv
<1> QED
  BY <1>2, <1>3, <1>4, <1>5, <1>7, <1>8, <1>9, <1>10 DEF PathNext

LEMMA PathStart == PathInit => PathInv
  BY DEF PathInit, PathInv, SettingsInv, LifecycleInv, RequestInv

LEMMA PathStep == PathInv /\ [PathNext]_pathVars => PathInv'
  BY SettingsStep, LifecycleStep, RequestStep DEF PathInv

----------------------------------------------------------------------------
(* A message and what the adapter makes of it *)

\* The reference of a message, if it has one
Clone(m) == m.voice.reference[1]

LEMMA MessageFields ==
    ASSUME NEW m, IsMessage(m)
    PROVE  /\ m.model \in STRING /\ m.language \in STRING /\ m.input \in STRING
           /\ m.voice.preset \in STRING /\ m.voice.instructions \in STRING
           /\ m.voice.reference \in Seq(ReferenceAudio)
           /\ \/ m.voice.reference = <<>>
              \/ /\ DOMAIN m.voice.reference = {1} /\ m.voice.reference # <<>>
                 /\ Clone(m) \in ReferenceAudio
<1>1. /\ m.model \in STRING /\ m.language \in STRING /\ m.input \in STRING
      /\ m.voice.preset \in STRING /\ m.voice.instructions \in STRING
      /\ m.voice.reference \in Seq(ReferenceAudio) /\ Len(m.voice.reference) <= 1
  BY DEF IsMessage
<1>2. Len(m.voice.reference) \in Nat
  BY <1>1
<1>3. CASE Len(m.voice.reference) = 0
  BY <1>1, <1>3
<1>4. CASE Len(m.voice.reference) = 1
  <2>1. DOMAIN m.voice.reference = {1}
    BY <1>1, <1>4
  <2>2. m.voice.reference # <<>>
    BY <1>4
  <2> QED
    BY <1>1, <2>1, <2>2 DEF Clone
<1>5. Len(m.voice.reference) = 0 \/ Len(m.voice.reference) = 1
  <2> DEFINE n == Len(m.voice.reference)
  <2>1. n \in Nat /\ n <= 1
    BY <1>1, <1>2
  <2> HIDE DEF n
  <2>2. n = 0 \/ n = 1
    BY <2>1
  <2> QED
    BY <2>2 DEF n
<1> QED
  BY <1>1, <1>3, <1>4, <1>5

LEMMA RequestFields ==
    ASSUME NEW m, IsMessage(m)
    PROVE  LET r == RequestOf(m)
           IN  /\ r.language = Strip(m.language) /\ r.input = m.input
               /\ r.generation = m.generation
               /\ r.voice.preset = m.voice.preset
               /\ r.voice.instructions = m.voice.instructions
               /\ m.voice.reference = <<>> => r.voice.reference = <<>>
               /\ m.voice.reference # <<>> =>
                    /\ r.voice.reference # <<>>
                    /\ r.voice.reference[1] = Typed(Clone(m))
<1> DEFINE ref == [i \in DOMAIN m.voice.reference |->
                      Typed(m.voice.reference[i])]
           r == RequestOf(m)
<1>1. /\ DOMAIN m = {"model", "input", "language", "fairness_key", "output_encoding",
                     "generation", "voice"}
      /\ DOMAIN m.voice = {"preset", "instructions", "reference"}
  BY DEF IsMessage
<1>2. r.voice = [m.voice EXCEPT !.reference = ref]
  BY <1>1 DEF RequestOf
<1>3. r.language = Strip(m.language) /\ r.input = m.input /\ r.generation = m.generation
  BY <1>1 DEF RequestOf
<1> HIDE DEF r, ref
<1>4. /\ r.voice.preset = m.voice.preset /\ r.voice.instructions = m.voice.instructions
      /\ r.voice.reference = ref
  BY <1>1, <1>2
<1>5. m.voice.reference = <<>> => ref = <<>>
  BY DEF ref
<1>6. m.voice.reference # <<>> =>
         ref # <<>> /\ ref[1] = Typed(Clone(m))
  <2> SUFFICES ASSUME m.voice.reference # <<>>
               PROVE  ref # <<>> /\ ref[1] = Typed(Clone(m))
    OBVIOUS
  <2>1. DOMAIN m.voice.reference = {1}
    BY MessageFields
  <2>2. DOMAIN ref = {1} /\ DOMAIN <<>> = {}
    BY <2>1 DEF ref
  <2> QED
    BY <2>1, <2>2 DEF ref, Clone
<1> QED
  BY <1>3, <1>4, <1>5, <1>6 DEF r

\* strip() twice is strip() once.
LEMMA StripTwice == \A t : Strip(Strip(t)) = Strip(t)
  BY DEF Strip

----------------------------------------------------------------------------
(* What is advertised is served *)

Backends == {"stub", "kokoro", "voxcpm2", "nanovllm_voxcpm"}

\* The ranges that are advertised are those of the schema.
LEMMA AdvertisedRanges ==
    ASSUME NEW b \in Backends, NEW f \in DOMAIN Advertised[b]
    PROVE  f \in DOMAIN GenerationBounds /\ Advertised[b][f] = GenerationBounds[f]
<1>1. CASE b = "stub"
  <2>1. DOMAIN Advertised["stub"] = {}
    BY DEF Advertised
  <2> QED
    BY <1>1, <2>1
<1>2. CASE b = "kokoro"
  BY <1>2 DEF Advertised, GenerationBounds
<1>3. CASE b = "voxcpm2"
  BY <1>3 DEF Advertised, GenerationBounds
<1>4. CASE b = "nanovllm_voxcpm"
  BY <1>4 DEF Advertised, GenerationBounds
<1> QED
  BY <1>1, <1>2, <1>3, <1>4 DEF Backends

LEMMA AdvertisedLanguages ==
    ASSUME NEW b \in Backends, NEW model, NEW l \in CapabilitiesForBackend(b, model).languages
    PROVE  Strip(l) = l /\ l # ""
<1>1. CASE b = "stub"
  BY <1>1 DEF CapabilitiesForBackend, Strip
<1>2. CASE b = "kokoro"
  BY <1>2 DEF CapabilitiesForBackend, Strip
<1>3. CASE b \in {"voxcpm2", "nanovllm_voxcpm"}
  BY <1>3 DEF CapabilitiesForBackend, VoxCPM2Languages, Strip
<1> QED
  BY <1>1, <1>2, <1>3 DEF Backends

\* A message that complies is let in by the schema and by the engine.
LEMMA CompliantAdmitted ==
    ASSUME PathInv, lifecycle = "loaded", IsMessage(message), Complies(message)
    PROVE  Valid(message) /\ EngineError(message) = ""
<1> DEFINE m == message
           c == CapabilitiesForBackend(Backend, Loaded)
<1>1. /\ settings # <<>> /\ ModelName \in DOMAIN settings.models /\ Backend \in Backends
  BY DEF PathInv, LifecycleInv, CanBeBuilt, Backends
<1>2. c.reference_audio_max_duration_s \in Unit .. 60 * Unit
  BY <1>1, ModelNumbers DEF PathInv, CapabilitiesForBackend, Loaded
<1>3. /\ Strip(m.model) = ModelName /\ ModelName # "" /\ m.output_encoding = "pcm_s16le"
      /\ Strip(m.input) # "" /\ (m.fairness_key = "" \/ Strip(m.fairness_key) \notin {"", "long"})
      /\ m.language \in c.languages
  BY DEF Complies
<1>4. Strip(m.language) # ""
  BY <1>1, <1>3, AdvertisedLanguages
<1>5. ASSUME NEW i \in DOMAIN m.voice.reference PROVE ReferenceValid(m.voice.reference[i])
  <2> DEFINE a == m.voice.reference[i]
  <2>1. /\ a.bytes <= MaxReferenceAudioBytes
        /\ \/ a.max_duration_s = Absent
           \/ a.max_duration_s \in 1 .. c.reference_audio_max_duration_s
    BY DEF Complies
  <2>2. ASSUME a.max_duration_s # Absent
        PROVE  0 < a.max_duration_s /\ a.max_duration_s <= 60 * Unit
    <3> DEFINE d == a.max_duration_s
               x == c.reference_audio_max_duration_s
               high == 60 * Unit
    <3>1. d \in 1 .. x
      BY <2>1, <2>2
    <3>2. x \in Unit .. high
      BY <1>2
    <3> HIDE DEF d, x
    <3>3. 0 < d /\ d <= high
      BY <3>1, <3>2 DEF Unit
    <3> QED
      BY <3>3 DEF d
  <2> QED
    BY <2>1, <2>2 DEF ReferenceValid
<1>6. ASSUME NEW f \in DOMAIN m.generation PROVE Within(m.generation[f], GenerationBounds[f])
  <2>1. c.request_generation = Advertised[Backend]
    BY DEF CapabilitiesForBackend
  <2>2. f \in DOMAIN c.request_generation /\ Within(m.generation[f], c.request_generation[f])
    BY DEF Complies
  <2>3. c.request_generation[f] = GenerationBounds[f]
    BY <1>1, <2>1, <2>2, AdvertisedRanges
  <2> QED
    BY <2>2, <2>3
<1>7. Valid(m)
  BY <1>3, <1>4, <1>5, <1>6 DEF Valid
<1>8. EngineError(m) = ""
  BY <1>1, <1>3 DEF EngineError
<1> QED
  BY <1>7, <1>8

\* Kokoro knows each language it advertises by its code.
LEMMA KokoroLanguages ==
    ASSUME NEW l \in DOMAIN SpokenBy
    PROVE  /\ Strip(l) = l
           /\ LangCodes(l) = {SpokenBy[l]}
           /\ SpokenBy[l] \in DOMAIN DefaultVoiceByPipeline
<1>1. Strip(l) = l
  BY DEF Strip, SpokenBy
<1>2. /\ LanguageKey(l) \in LanguageToPipeline[SpokenBy[l]]
      /\ SpokenBy[l] \in DOMAIN LanguageToPipeline
  BY <1>1 DEF SpokenBy, LanguageKey, Lower, LanguageToPipeline
<1>3. ASSUME NEW c \in DOMAIN LanguageToPipeline, LanguageKey(l) \in LanguageToPipeline[c]
      PROVE  c = SpokenBy[l]
  <2> DEFINE key == LanguageKey(l)
             code == SpokenBy[l]
  <2>1. /\ code = "a" => key = "english"
        /\ code = "b" => key = "british english"
        /\ code = "e" => key = "spanish"
        /\ code = "f" => key = "french"
        /\ code = "h" => key = "hindi"
        /\ code = "i" => key = "italian"
        /\ code = "p" => key \in {"portuguese", "brazilian portuguese"}
        /\ code = "j" => key = "japanese"
        /\ code = "z" => key = "chinese"
        /\ code \in {"a", "b", "e", "f", "h", "i", "p", "j", "z"}
    BY <1>1 DEF SpokenBy, LanguageKey, Lower
  <2>2. key \in LanguageToPipeline[c]
    BY <1>3
  <2> HIDE DEF key, code
  <2>3. c = code
    <3>1. CASE c = "a"
      BY <2>1, <2>2, <3>1 DEF LanguageToPipeline
    <3>2. CASE c = "b"
      BY <2>1, <2>2, <3>2 DEF LanguageToPipeline
    <3>3. CASE c = "e"
      BY <2>1, <2>2, <3>3 DEF LanguageToPipeline
    <3>4. CASE c = "f"
      BY <2>1, <2>2, <3>4 DEF LanguageToPipeline
    <3>5. CASE c = "h"
      BY <2>1, <2>2, <3>5 DEF LanguageToPipeline
    <3>6. CASE c = "i"
      BY <2>1, <2>2, <3>6 DEF LanguageToPipeline
    <3>7. CASE c = "p"
      BY <2>1, <2>2, <3>7 DEF LanguageToPipeline
    <3>8. CASE c = "j"
      BY <2>1, <2>2, <3>8 DEF LanguageToPipeline
    <3>9. CASE c = "z"
      BY <2>1, <2>2, <3>9 DEF LanguageToPipeline
    <3>10. c \in {"a", "b", "e", "f", "h", "i", "p", "j", "z"}
      BY DEF LanguageToPipeline
    <3> QED
      BY <3>1, <3>2, <3>3, <3>4, <3>5, <3>6, <3>7, <3>8, <3>9, <3>10
  <2> QED
    BY <2>3 DEF code
<1>4. DOMAIN DefaultVoiceByPipeline = DOMAIN LanguageToPipeline
  BY DEF DefaultVoiceByPipeline, LanguageToPipeline
<1> QED
  BY <1>1, <1>2, <1>3, <1>4 DEF LangCodes

LEMMA StubServes ==
    ASSUME Backend = "stub"
    PROVE  Prepared.error = ""
<1>1. \A c : Calls(c).error = ""
  BY DEF Calls
<1> QED
  BY <1>1 DEF Prepared, Synthesis

\* Kokoro finds a voice for each language it advertises.
LEMMA KokoroServes ==
    ASSUME IsMessage(message), Complies(message), VoicesConfigured, Backend = "kokoro"
    PROVE  Prepared.error = ""
<1> DEFINE l == message.language
           code == SpokenBy[l]
           v == VoiceForRequest(Loaded, Request)
           voice == VoiceName(code, v)
<1>1. l \in DOMAIN SpokenBy
  BY DEF Complies, CapabilitiesForBackend, SpokenBy
<1>2. /\ Strip(l) = l /\ LangCodes(l) = {code} /\ code \in DOMAIN DefaultVoiceByPipeline
  BY <1>1, KokoroLanguages
<1>3. message.voice.reference = <<>>
  <2>1. \A i \in DOMAIN message.voice.reference : FALSE
    BY DEF Complies, CapabilitiesForBackend
  <2> QED
    BY <2>1, MessageFields
<1>4. /\ Request.voice.reference = <<>> /\ Request.language = l
      /\ Request.voice.preset = message.voice.preset
  BY <1>2, <1>3, RequestFields DEF Request
<1>5. DefaultVoiceByPipeline[code] \in VoiceFiles /\ StartsWith(DefaultVoiceByPipeline[code], code)
  BY <1>2 DEF VoicesConfigured, StartsWith
<1>6. v = "" \/ Strip(v) = "" \/ (Stem(Strip(v)) \in VoiceFiles /\ StartsWith(Stem(Strip(v)), code))
  <2>1. CASE Strip(message.voice.preset) # ""
    <3>1. v = Strip(message.voice.preset)
      BY <1>4, <2>1 DEF VoiceForRequest
    <3>2. message.voice.preset # ""
      BY <2>1 DEF Strip
    <3>3. Suits(message.voice.preset, l)
      BY <3>2 DEF Complies
    <3> QED
      BY <3>1, <3>3, StripTwice DEF Suits
  <2>2. CASE Strip(message.voice.preset) = "" /\ l \in DOMAIN Loaded.voice_presets
    <3>1. v = Loaded.voice_presets[l]
      BY <1>4, <2>2 DEF VoiceForRequest
    <3>2. Suits(Loaded.voice_presets[l], l)
      BY <1>1, <2>2 DEF VoicesConfigured
    <3> QED
      BY <3>1, <3>2 DEF Suits
  <2>3. CASE Strip(message.voice.preset) = "" /\ l \notin DOMAIN Loaded.voice_presets
    BY <1>4, <2>3 DEF VoiceForRequest
  <2> QED
    BY <2>1, <2>2, <2>3
<1>7. voice \in VoiceFiles /\ StartsWith(voice, code)
  <2>1. v = "" => Strip(v) = ""
    BY DEF Strip
  <2> HIDE DEF v, code
  <2> QED
    BY <1>5, <1>6, <2>1 DEF VoiceName
<1>8. ~Unsafe(voice)
  BY <1>7, VoicesAssumption
<1>9. (CHOOSE c \in LangCodes(l) : TRUE) = code /\ LangCodes(l) # {}
  <2>1. (CHOOSE c \in LangCodes(l) : TRUE) \in LangCodes(l)
    BY <1>2
  <2> QED
    BY <1>2, <2>1
<1> HIDE DEF voice, code, l
<1>10. \E c : KokoroCall(Loaded, Request) = Calls(c)
  BY <1>4, <1>7, <1>8, <1>9 DEF KokoroCall, voice, v
<1>11. \A c : Calls(c).error = ""
  BY DEF Calls
<1>12. Prepared = KokoroCall(Loaded, Request)
  BY DEF Prepared, Synthesis
<1> QED
  BY <1>10, <1>11, <1>12

LEMMA VoxCalls ==
    ASSUME Backend \in {"voxcpm2", "nanovllm_voxcpm"}, VoxError(Request) = "", rateKnown
    PROVE  Prepared.error = ""
<1>1. \A c : Calls(c).error = ""
  BY DEF Calls
<1>2. CASE Backend = "voxcpm2"
  <2>1. Prepared = VoxCPM2Call(Loaded, Request)
    BY <1>2 DEF Prepared, Synthesis
  <2>2. \E c : VoxCPM2Call(Loaded, Request) = Calls(c)
    BY DEF VoxCPM2Call
  <2> QED
    BY <1>1, <2>1, <2>2
<1>3. CASE Backend = "nanovllm_voxcpm"
  <2>1. Prepared = NanoVLLMCall(Loaded, rateKnown, Request)
    BY <1>3 DEF Prepared, Synthesis
  <2>2. \E c : NanoVLLMCall(Loaded, rateKnown, Request) = Calls(c)
    BY DEF NanoVLLMCall
  <2> QED
    BY <1>1, <2>1, <2>2
<1> QED
  BY <1>2, <1>3

\* The VoxCPM runtimes take what the schema lets through of what they advertise.
LEMMA VoxServes ==
    ASSUME IsMessage(message), Complies(message), rateKnown,
           Backend \in {"voxcpm2", "nanovllm_voxcpm"}
    PROVE  Prepared.error = ""
<1> DEFINE a == Clone(message)
<1>1. message.voice.preset = ""
  BY DEF Complies, CapabilitiesForBackend
<1>2. Request.voice.preset = message.voice.preset
  BY RequestFields DEF Request
<1>3. Strip(Request.voice.preset) = ""
  BY <1>1, <1>2 DEF Strip
<1>4. CASE message.voice.reference = <<>>
  BY <1>3, <1>4, RequestFields, VoxCalls DEF Request, VoxError
<1>5. CASE message.voice.reference # <<>>
  <2>1. DOMAIN message.voice.reference = {1} /\ a \in ReferenceAudio
    BY <1>5, MessageFields
  <2>2. a.mime_type = "audio/wav" /\ ~a.corrupt /\ a.rate > 0
    BY <2>1 DEF Complies, CapabilitiesForBackend, Clone
  <2>3. Reference(Request) = Typed(a)
    BY <1>5, RequestFields DEF Request, Reference
  <2>4. /\ Typed(a).mime_type = "audio/wav" /\ Typed(a).corrupt = a.corrupt
        /\ Typed(a).rate = a.rate /\ a.rate \in Int
    BY <2>1, <2>2 DEF ReferenceAudio, Typed
  <2>5. ReferenceError(Typed(a)) = ""
    BY <2>2, <2>4 DEF ReferenceError, Strip, Lower
  <2>6. VoxError(Request) = ""
    BY <1>3, <2>3, <2>5 DEF VoxError
  <2> QED
    BY <2>6, VoxCalls
<1> QED
  BY <1>4, <1>5

LEMMA CompliantServed ==
    ASSUME PathInv
    PROVE  CompliantIsServed
<1> SUFFICES ASSUME phase = "answered", lifecycle = "loaded", rateKnown, VoicesConfigured,
                    Complies(message), call = <<>>
             PROVE  error \in {"RequestAdmissionError", "SynthesisCancelled"}
  BY DEF CompliantIsServed
<1>1. IsMessage(message)
  BY DEF PathInv, RequestInv
<1>2. Valid(message) /\ EngineError(message) = ""
  BY <1>1, CompliantAdmitted
<1>3. Backend \in Backends
  BY DEF PathInv, LifecycleInv, CanBeBuilt, Backends
<1>4. Prepared.error = ""
  BY <1>1, <1>3, StubServes, KokoroServes, VoxServes DEF Backends
<1> QED
  BY <1>2, <1>4 DEF PathInv, RequestInv

\* For any files, voices and messages, a request that complies with what the
\* loaded model advertises reaches the inference library, unless the queue is
\* full or its client leaves.
THEOREM ServedSafety == PathSpec => []CompliantIsServed
  BY PathStart, PathStep, CompliantServed, PTL DEF PathSpec

----------------------------------------------------------------------------
(* What is called is what was asked for *)

\* The runtime of the backend makes the call, and raises nothing before.
LEMMA CallOfBackend ==
    ASSUME PathInv, call # <<>>
    PROVE  /\ IsMessage(message) /\ Valid(message) /\ Backend \in Backends
           /\ settings # <<>> /\ ModelName \in DOMAIN settings.models
           /\ LET s == Synthesis(Backend, Loaded, rateKnown, Request) IN s.error = "" /\ call = s.call
<1>1. Admitted /\ Prepared.error = "" /\ call = Prepared.call
  BY DEF PathInv, RequestInv
<1>2. /\ settings # <<>> /\ ModelName \in DOMAIN settings.models /\ CanBeBuilt
  BY <1>1, AdmittedModel DEF PathInv
<1> QED
  BY <1>1, <1>2 DEF Admitted, Prepared, CanBeBuilt, Backends

\* The value that is chosen is that of the message, or else the configured one.
LEMMA ChosenAsAsked ==
    ASSUME IsMessage(message), NEW f, NEW s
    PROVE  Chosen(Request, Loaded, f, s) =
             IF f \in DOMAIN message.generation THEN message.generation[f] ELSE Loaded.number[s]
<1>1. Request.generation = message.generation
  BY RequestFields DEF Request
<1> QED
  BY <1>1 DEF Chosen

\* A call each of whose numbers was chosen has the numbers that were asked for.
LEMMA NumbersAsked ==
    ASSUME IsMessage(message), NEW c,
           \A n \in NumericArguments(Backend) : c[n[1]] = Chosen(Request, Loaded, n[2], n[3])
    PROVE  NumbersAsAsked(c)
  BY ChosenAsAsked DEF NumbersAsAsked

LEMMA StubAsked ==
    ASSUME PathInv, call # <<>>, Backend = "stub"
    PROVE  NumbersAsAsked(call[1]) /\ call[1].text = Strip(message.input)
<1>1. IsMessage(message) /\ call = Calls([text |-> Strip(Request.input)]).call
  BY CallOfBackend DEF Synthesis
<1>2. Request.input = message.input
  BY <1>1, RequestFields DEF Request
<1>3. call[1] = [text |-> Strip(Request.input)]
  BY <1>1 DEF Calls
<1>4. NumericArguments(Backend) = {}
  BY DEF NumericArguments
<1> QED
  BY <1>2, <1>3, <1>4 DEF NumbersAsAsked

LEMMA KokoroAsked ==
    ASSUME PathInv, call # <<>>, Backend = "kokoro"
    PROVE  NumbersAsAsked(call[1]) /\ KokoroAsAsked(call[1])
<1> DEFINE r == Request
           codes == LangCodes(r.language)
           code == CHOOSE c \in codes : TRUE
           v == VoiceForRequest(Loaded, r)
           voice == VoiceName(code, v)
           speed == Chosen(r, Loaded, "kokoro.speed", "kokoro_speed")
           c1 == [pipeline |-> code, voice |-> voice, text |-> Strip(r.input), speed |-> speed]
<1>1. IsMessage(message) /\ KokoroCall(Loaded, r).error = "" /\ call = KokoroCall(Loaded, r).call
  BY CallOfBackend DEF Synthesis
<1>2. /\ r.language = Strip(message.language) /\ r.input = message.input
      /\ r.voice.preset = message.voice.preset
  BY <1>1, RequestFields DEF Request
<1>3. \A e : Raises(e).error = e
  BY DEF Raises
<1>4. \A c : Calls(c).call = <<c>>
  BY DEF Calls
<1>5. codes # {} /\ StartsWith(voice, code) /\ KokoroCall(Loaded, r) = Calls(c1)
  <2> HIDE DEF r, c1
  <2> QED
    BY <1>1, <1>3 DEF KokoroCall, c1
<1>6. call[1] = c1
  <2> HIDE DEF c1, r
  <2>1. call = <<c1>>
    BY <1>1, <1>4, <1>5
  <2> QED
    BY <2>1
<1>7. /\ c1.pipeline = code /\ c1.voice = voice /\ c1.text = Strip(r.input)
      /\ c1["speed"] = speed
  OBVIOUS
<1> HIDE DEF c1
<1>8. message.language \in DOMAIN SpokenBy => code = SpokenBy[message.language]
  <2> SUFFICES ASSUME message.language \in DOMAIN SpokenBy
               PROVE  code = SpokenBy[message.language]
    OBVIOUS
  <2>1. codes = {SpokenBy[message.language]}
    BY <1>2, KokoroLanguages
  <2>2. code \in codes
    BY <1>5
  <2> QED
    BY <2>1, <2>2
<1> DEFINE asked == Strip(message.voice.preset)
<1>9. /\ asked # "" => voice = Stem(asked)
      /\ asked = "" /\ ConfiguredVoice # "" => voice = Stem(ConfiguredVoice)
      /\ asked = "" /\ ConfiguredVoice = "" => voice = DefaultVoiceByPipeline[code]
  <2> DEFINE l == Strip(message.language)
             presets == Loaded.voice_presets
  <2>1. v = IF asked # "" THEN asked ELSE IF l \in DOMAIN presets THEN presets[l] ELSE ""
    BY <1>2 DEF VoiceForRequest
  <2>2. Strip(v) = IF asked # "" THEN asked ELSE ConfiguredVoice
    <3>1. Strip(asked) = asked /\ Strip("") = ""
      BY StripTwice DEF Strip
    <3> HIDE DEF v, asked
    <3> QED
      BY <2>1, <3>1 DEF ConfiguredVoice
  <2>3. voice = IF Strip(v) = "" THEN DefaultVoiceByPipeline[code] ELSE Stem(Strip(v))
    BY DEF VoiceName
  <2> HIDE DEF v, voice, code, asked
  <2> QED
    BY <2>2, <2>3
<1>10. NumbersAsAsked(c1)
  <2>1. NumericArguments(Backend) = {<<"speed", "kokoro.speed", "kokoro_speed">>}
    BY DEF NumericArguments
  <2>2. \A n \in NumericArguments(Backend) :
           n[1] = "speed" /\ n[2] = "kokoro.speed" /\ n[3] = "kokoro_speed"
    BY <2>1
  <2>3. c1["speed"] = Chosen(Request, Loaded, "kokoro.speed", "kokoro_speed")
    BY <1>7
  <2>4. \A n \in NumericArguments(Backend) : c1[n[1]] = Chosen(Request, Loaded, n[2], n[3])
    BY <2>2, <2>3
  <2> QED
    BY <1>1, <2>4, NumbersAsked
<1> HIDE DEF r, codes, code, v, voice, speed
<1> QED
  BY <1>2, <1>5, <1>6, <1>7, <1>8, <1>9, <1>10 DEF KokoroAsAsked

----------------------------------------------------------------------------
(* References *)

LEMMA QuotientBounds ==
    ASSUME NEW n \in Int, NEW d \in Nat \ {0}
    PROVE  /\ n \div d \in Int
           /\ d * (n \div d) <= n /\ n < d * (n \div d) + d
  OBVIOUS

LEMMA QuotientAtMost ==
    ASSUME NEW n \in Int, NEW d \in Nat \ {0}, NEW k \in Int, n <= k * d
    PROVE  n \div d <= k
<1> DEFINE q == n \div d
<1>1. q \in Int /\ d * q <= n
  BY QuotientBounds
<1> HIDE DEF q
<1>2. ASSUME q >= k + 1 PROVE FALSE
  <2>1. d * q >= d * (k + 1)
    BY <1>1, <1>2
  <2>2. d * (k + 1) = k * d + d
    OBVIOUS
  <2> QED
    BY <1>1, <2>1, <2>2
<1> QED
  BY <1>1, <1>2 DEF q

\* A reference that is clipped fits the limit, and would not with a frame more.
LEMMA TailFits ==
    ASSUME NEW a, a.frames \in Nat, a.rate \in Nat \ {0}, NEW limit \in Int, limit >= Unit
    PROVE  LET n == TailFrames(a, limit)
           IN  /\ n \in Nat /\ n <= a.frames
               /\ Milliseconds(n, a.rate) <= limit * 10
               /\ n < a.frames => (n + 1) * Unit > limit * a.rate
<1> DEFINE f == a.frames
           rate == a.rate
           p == limit * rate
           most == p \div Unit
           n == TailFrames(a, limit)
<1>1. f \in Nat /\ rate \in Nat \ {0} /\ Unit \in Nat \ {0} /\ Unit = 100
  BY DEF Unit
<1>2. n = IF f < (IF most < 1 THEN 1 ELSE most) THEN f ELSE (IF most < 1 THEN 1 ELSE most)
  BY DEF TailFrames
<1> HIDE DEF f, rate, n
<1>3. p \in Int /\ p >= 100
  <2>1. p >= limit
    BY <1>1
  <2> QED
    BY <1>1, <2>1
<1> HIDE DEF p
<1>4. most \in Int /\ 100 * most <= p /\ p < 100 * most + 100
  BY <1>1, <1>3, QuotientBounds
<1> HIDE DEF most
<1>5. most >= 1
  BY <1>3, <1>4
<1>6. n = IF f < most THEN f ELSE most
  BY <1>2, <1>4, <1>5
<1>7. n \in Nat /\ n <= f /\ n <= most
  BY <1>1, <1>4, <1>5, <1>6
<1>8. n < f => (n + 1) * Unit > p
  BY <1>1, <1>3, <1>4, <1>6, <1>7
<1>9. (n * 1000) \div rate <= limit * 10
  <2>1. n * 1000 <= p * 10
    BY <1>3, <1>4, <1>7
  <2>2. p * 10 = (limit * 10) * rate
    BY <1>1 DEF p
  <2> DEFINE x == n * 1000
             k == limit * 10
  <2>3. x \in Int /\ k \in Int /\ x <= k * rate
    BY <1>7, <2>1, <2>2
  <2> HIDE DEF x, k
  <2>4. x \div rate <= k
    BY <1>1, <2>3, QuotientAtMost
  <2> QED
    BY <2>4 DEF x, k
<1> QED
  BY <1>7, <1>8, <1>9 DEF f, rate, n, p, Milliseconds

\* What a VoxCPM runtime takes of a reference is the piece that was asked for.
LEMMA ClipAsAsked ==
    ASSUME NEW m, IsMessage(m), m.voice.reference # <<>>, ReferenceValid(Clone(m)),
           Clone(m).rate > 0, NEW configured \in Unit .. 60 * Unit
    PROVE  PieceAsAsked(Clip(RequestOf(m), configured), Clone(m), configured,
                        Strip(Clone(m).prompt_text) # "")
<1> DEFINE a == Clone(m)
           r == RequestOf(m)
           t == Typed(a)
           limit == IF a.max_duration_s = Absent THEN configured
                    ELSE IF a.max_duration_s < Unit THEN Unit ELSE a.max_duration_s
           piece == Clip(r, configured)
           transcribed == Strip(a.prompt_text) # ""
           tail == TailFrames(t, limit)
<1> SUFFICES PieceAsAsked(piece, a, configured, transcribed)
  OBVIOUS
<1>1. a \in ReferenceAudio
  BY MessageFields
<1>2. /\ t.frames = a.frames /\ t.rate = a.rate /\ t.max_duration_s = a.max_duration_s
      /\ t.prompt_text = a.prompt_text
      /\ a.frames \in Nat /\ a.rate \in Nat \ {0} /\ a.max_duration_s \in Int
  BY <1>1 DEF Typed, ReferenceAudio
<1>3. r.voice.reference # <<>> /\ Reference(r) = t
  BY RequestFields DEF Reference
<1>4. PromptText(r) = Strip(a.prompt_text)
  BY <1>2, <1>3 DEF PromptText
<1> HIDE DEF r, t
<1>5. MaxDuration(t, configured) = limit
  <2> DEFINE d == a.max_duration_s
  <2>1. d \in Int /\ t.max_duration_s = d
    BY <1>2
  <2>2. d # Absent => d <= 60 * Unit
    BY DEF ReferenceValid
  <2> HIDE DEF d
  <2>3. MaxDuration(t, configured) =
           IF d = Absent THEN configured ELSE IF d < Unit THEN Unit ELSE d
    BY <2>1, <2>2 DEF MaxDuration, Clamp, AtLeast, Unit
  <2> QED
    BY <2>3 DEF d
<1>6. limit \in Int /\ limit >= Unit
  <2> DEFINE d == a.max_duration_s
  <2>1. d \in Int
    BY <1>2
  <2> HIDE DEF d
  <2>2. configured \in Int /\ configured >= Unit /\ Unit \in Int
    BY DEF Unit
  <2>3. limit = configured \/ limit = Unit \/ (limit = d /\ ~(d < Unit))
    BY DEF d
  <2> HIDE DEF limit
  <2> QED
    BY <2>1, <2>2, <2>3
<1> HIDE DEF a, limit
<1>7. /\ tail \in Nat /\ tail <= a.frames
      /\ Milliseconds(tail, a.rate) <= limit * 10
      /\ tail < a.frames => (tail + 1) * Unit > limit * a.rate
  BY <1>2, <1>6, TailFits
<1> HIDE DEF tail
<1>8. CASE KeptWhole(r, limit)
  <2>1. piece = [from |-> 0, to |-> a.frames]
    BY <1>2, <1>3, <1>5, <1>8 DEF Clip
  <2>2. ~transcribed => Milliseconds(a.frames, a.rate) <= limit * 10
    BY <1>2, <1>3, <1>4, <1>8 DEF KeptWhole
  <2>3. piece.from = 0 /\ piece.to = a.frames
    BY <2>1
  <2>4. a.frames - 0 = a.frames
    BY <1>2
  <2> HIDE DEF piece
  <2>5. ~(piece.from > 0) /\ piece.from >= 0
    BY <2>3
  <2>6. ~transcribed => Milliseconds(piece.to - piece.from, a.rate) <= limit * 10
    BY <2>2, <2>3, <2>4
  <2> HIDE DEF transcribed
  <2> QED
    BY <2>3, <2>5, <2>6 DEF PieceAsAsked, limit
<1>9. CASE ~KeptWhole(r, limit)
  <2>1. piece = [from |-> a.frames - tail, to |-> a.frames]
    BY <1>2, <1>3, <1>5, <1>9 DEF Clip, tail
  <2>2. ~transcribed
    BY <1>4, <1>9 DEF KeptWhole
  <2>3. piece.from = a.frames - tail /\ piece.to = a.frames
    BY <2>1
  <2>4. /\ a.frames - (a.frames - tail) = tail
        /\ a.frames - tail >= 0
        /\ a.frames - tail > 0 => tail < a.frames
    <3> DEFINE f == a.frames
    <3>1. f \in Nat /\ tail <= f
      BY <1>2, <1>7
    <3> HIDE DEF f
    <3>2. f - (f - tail) = tail /\ f - tail >= 0 /\ (f - tail > 0 => tail < f)
      BY <1>7, <3>1
    <3> QED
      BY <3>2 DEF f
  <2> HIDE DEF piece
  <2> QED
    BY <1>7, <2>2, <2>3, <2>4 DEF PieceAsAsked, limit
<1> QED
  BY <1>8, <1>9

LEMMA AboveZero == \A n \in Int : n <= 0 \/ n > 0
  OBVIOUS

LEMMA OneOrTwo ==
    ASSUME NEW p
    PROVE  <<p>> \o <<>> # <<>> /\ <<>> \o <<p>> # <<>> /\ <<p>> \o <<p>> # <<>>
<1>1. \A s, t \in Seq({p}) : s \o t \in Seq({p}) /\ Len(s \o t) = Len(s) + Len(t)
  OBVIOUS
<1>2. /\ <<>> \in Seq({p}) /\ <<p>> \in Seq({p})
      /\ Len(<<>>) = 0 /\ Len(<<p>>) = 1
  OBVIOUS
<1>3. \A s \in Seq({p}) : Len(s) > 0 => s # <<>>
  OBVIOUS
<1> QED
  BY <1>1, <1>2, <1>3

\* What both runtimes give their library to clone is what was asked for.
LEMMA CloningAsked ==
    ASSUME IsMessage(message), Valid(message), VoxError(Request) = "",
           NEW configured \in Unit .. 60 * Unit
    PROVE  CloningAsAsked(Cloning(Request, configured), configured)
<1> DEFINE m == message
           r == Request
           k == Cloning(r, configured)
           a == Clone(m)
           clip == IF r.voice.reference = <<>> THEN <<>> ELSE <<Clip(r, configured)>>
<1>0. k.text = Strip(m.input)
  BY RequestFields DEF Cloning, Request
<1> SUFFICES ReferenceAsAsked(k, configured)
  BY <1>0 DEF CloningAsAsked
<1>1. /\ k.control = Control(r) /\ k.prompt_text = PromptText(r)
      /\ k.reference = IF UsesReference(r) THEN clip ELSE <<>>
      /\ k.prompt = IF PromptText(r) # "" THEN clip ELSE <<>>
  BY DEF Cloning
<1>2. r.voice.instructions = m.voice.instructions
  BY RequestFields DEF Request
<1> HIDE DEF k
<1>3. CASE m.voice.reference = <<>>
  <2>1. r.voice.reference = <<>>
    BY <1>3, RequestFields DEF Request
  <2>2. PromptText(r) = "" /\ ~UsesReference(r) /\ Control(r) = Strip(m.voice.instructions)
    BY <1>2, <2>1 DEF PromptText, UsesReference, Control
  <2> HIDE DEF r
  <2> QED
    BY <1>1, <1>3, <2>2 DEF ReferenceAsAsked
<1>4. CASE m.voice.reference # <<>>
  <2> DEFINE piece == Clip(r, configured)
             transcript == Strip(a.prompt_text)
             t == Typed(a)
  <2>1. DOMAIN m.voice.reference = {1} /\ a \in ReferenceAudio
    BY <1>4, MessageFields
  <2>2. ReferenceValid(a)
    BY <2>1 DEF Valid, Clone
  <2>3. r.voice.reference # <<>> /\ Reference(r) = t
    BY <1>4, RequestFields DEF Request, Reference
  <2>4. /\ t.prompt_text = a.prompt_text /\ t.rate = a.rate
        /\ t.also_use_as_reference = a.also_use_as_reference
        /\ a.also_use_as_reference \in BOOLEAN /\ a.rate \in Int
    BY <2>1 DEF Typed, ReferenceAudio
  <2>5. a.rate > 0
    <3>1. ReferenceError(t) = ""
      BY <2>3 DEF VoxError
    <3>2. ~(t.rate <= 0)
      BY <3>1 DEF ReferenceError
    <3> QED
      BY <2>4, <3>2, AboveZero
  <2>6. PieceAsAsked(piece, a, configured, transcript # "")
    BY <1>4, <2>2, <2>5, ClipAsAsked DEF Request
  <2>7. PromptText(r) = transcript
    BY <2>3, <2>4 DEF PromptText
  <2>8. UsesReference(r) <=> (transcript = "" \/ a.also_use_as_reference)
    BY <2>3, <2>4, <2>7 DEF UsesReference
  <2>9. Control(r) = IF transcript = "" THEN Strip(m.voice.instructions) ELSE ""
    BY <1>2, <2>7 DEF Control
  <2>10. clip = <<piece>> /\ <<piece>> # <<>> /\ <<piece>>[1] = piece
    BY <2>3
  <2> HIDE DEF piece, transcript, clip, r
  <2>11. /\ k.reference = IF transcript = "" \/ a.also_use_as_reference THEN <<piece>> ELSE <<>>
         /\ k.prompt = IF transcript # "" THEN <<piece>> ELSE <<>>
         /\ k.prompt_text = transcript
         /\ k.control = IF transcript = "" THEN Strip(m.voice.instructions) ELSE ""
    BY <1>1, <2>7, <2>8, <2>9, <2>10
  <2>12. k.reference \o k.prompt # <<>>
    BY <2>11, OneOrTwo
  <2>13. /\ (k.prompt # <<>>) <=> (transcript # "")
         /\ (k.reference # <<>>) <=> (transcript = "" \/ a.also_use_as_reference)
    <3>1. transcript = "" \/ transcript # ""
      OBVIOUS
    <3>2. <<piece>> # <<>>
      BY <2>10
    <3> QED
      BY <2>4, <2>11, <3>1, <3>2
  <2>14. \A p \in {k.reference, k.prompt} \ {<<>>} :
            PieceAsAsked(p[1], a, configured, transcript # "")
    BY <2>6, <2>10, <2>11
  <2> QED
    BY <1>4, <2>11, <2>12, <2>13, <2>14 DEF ReferenceAsAsked, Clone, transcript
<1> QED
  BY <1>3, <1>4

LEMMA VoxAsked ==
    ASSUME PathInv, call # <<>>, Backend \in {"voxcpm2", "nanovllm_voxcpm"}
    PROVE  VoxError(Request) = "" /\ NumbersAsAsked(call[1]) /\
           LET number == Loaded.number
               configured == IF Backend = "voxcpm2"
                             THEN number.voxcpm2_reference_max_duration_s
                             ELSE number.nanovllm_reference_max_duration_s
           IN  call[1].cloning = Cloning(Request, configured)
<1>1. IsMessage(message) /\ Synthesis(Backend, Loaded, rateKnown, Request).error = ""
      /\ call = Synthesis(Backend, Loaded, rateKnown, Request).call
  BY CallOfBackend
<1>2. \A e : Raises(e).error = e
  BY DEF Raises
<1>3. \A c : Calls(c).call[1] = c
  BY DEF Calls
<1>4. CASE Backend = "voxcpm2"
  <2> DEFINE k == Cloning(Request, Loaded.number.voxcpm2_reference_max_duration_s)
  <2>1. Synthesis(Backend, Loaded, rateKnown, Request) = VoxCPM2Call(Loaded, Request)
    BY <1>4 DEF Synthesis
  <2>2. VoxError(Request) = ""
    BY <1>1, <1>2, <2>1 DEF VoxCPM2Call
  <2> DEFINE c == [cloning |-> k,
                 cfg_value |-> Chosen(Request, Loaded, "voxcpm2.cfg_value", "voxcpm2_cfg_value"),
                 inference_timesteps |->
                    Chosen(Request, Loaded, "voxcpm2.inference_timesteps",
                           "voxcpm2_inference_timesteps"),
                 normalize |-> Chosen(Request, Loaded, "voxcpm2.normalize", "voxcpm2_normalize"),
                 denoise |-> Chosen(Request, Loaded, "voxcpm2.denoise", "voxcpm2_denoise")]
  <2>3. VoxCPM2Call(Loaded, Request) = Calls(c) /\ c.cloning = k
    BY <2>2 DEF VoxCPM2Call
  <2>4. \A n \in NumericArguments(Backend) : c[n[1]] = Chosen(Request, Loaded, n[2], n[3])
    BY <1>4 DEF NumericArguments
  <2> HIDE DEF c, k
  <2>5. call[1] = c
    BY <1>1, <1>3, <2>1, <2>3
  <2> QED
    BY <1>1, <1>4, <2>2, <2>3, <2>4, <2>5, NumbersAsked DEF k
<1>5. CASE Backend = "nanovllm_voxcpm"
  <2> DEFINE k == Cloning(Request, Loaded.number.nanovllm_reference_max_duration_s)
  <2>1. Synthesis(Backend, Loaded, rateKnown, Request) = NanoVLLMCall(Loaded, rateKnown, Request)
    BY <1>5 DEF Synthesis
  <2>2. VoxError(Request) = "" /\ rateKnown
    BY <1>1, <1>2, <2>1 DEF NanoVLLMCall
  <2> DEFINE c == [cloning |-> k,
                 cfg_value |->
                    Chosen(Request, Loaded, "nanovllm_voxcpm.cfg_value", "nanovllm_cfg_value"),
                 temperature |->
                    Chosen(Request, Loaded, "nanovllm_voxcpm.temperature", "nanovllm_temperature"),
                 max_generate_length |->
                    Chosen(Request, Loaded, "nanovllm_voxcpm.max_generate_length",
                           "nanovllm_max_generate_length")]
  <2>3. NanoVLLMCall(Loaded, rateKnown, Request) = Calls(c) /\ c.cloning = k
    BY <2>2 DEF NanoVLLMCall
  <2>4. \A n \in NumericArguments(Backend) : c[n[1]] = Chosen(Request, Loaded, n[2], n[3])
    BY <1>5 DEF NumericArguments
  <2> HIDE DEF c, k
  <2>5. call[1] = c
    BY <1>1, <1>3, <2>1, <2>3
  <2> QED
    BY <1>1, <1>5, <2>2, <2>3, <2>4, <2>5, NumbersAsked DEF k
<1> QED
  BY <1>4, <1>5

LEMMA AskedOf ==
    ASSUME PathInv
    PROVE  ModelGetsWhatWasAsked
<1> SUFFICES ASSUME call # <<>> PROVE ModelGetsWhatWasAsked
  BY DEF ModelGetsWhatWasAsked
<1>1. /\ IsMessage(message) /\ Valid(message) /\ Backend \in Backends
      /\ settings # <<>> /\ ModelName \in DOMAIN settings.models
  BY CallOfBackend
<1>2. /\ Loaded.number.voxcpm2_reference_max_duration_s \in Unit .. 60 * Unit
      /\ Loaded.number.nanovllm_reference_max_duration_s \in Unit .. 60 * Unit
  BY <1>1, ModelNumbers DEF PathInv, Loaded
<1>3. CASE Backend = "stub"
  BY <1>3, StubAsked DEF ModelGetsWhatWasAsked
<1>4. CASE Backend = "kokoro"
  BY <1>4, KokoroAsked DEF ModelGetsWhatWasAsked
<1>5. CASE Backend = "voxcpm2"
  <2> DEFINE k == Loaded.number.voxcpm2_reference_max_duration_s
  <2>1. /\ VoxError(Request) = "" /\ NumbersAsAsked(call[1])
        /\ call[1].cloning = Cloning(Request, k)
    BY <1>5, VoxAsked
  <2>2. CloningAsAsked(call[1].cloning, k)
    BY <1>1, <1>2, <2>1, CloningAsked
  <2> QED
    BY <1>5, <2>1, <2>2 DEF ModelGetsWhatWasAsked
<1>6. CASE Backend = "nanovllm_voxcpm"
  <2> DEFINE k == Loaded.number.nanovllm_reference_max_duration_s
  <2>1. /\ VoxError(Request) = "" /\ NumbersAsAsked(call[1])
        /\ call[1].cloning = Cloning(Request, k)
    BY <1>6, VoxAsked
  <2>2. CloningAsAsked(call[1].cloning, k)
    BY <1>1, <1>2, <2>1, CloningAsked
  <2> QED
    BY <1>6, <2>1, <2>2 DEF ModelGetsWhatWasAsked
<1> QED
  BY <1>1, <1>3, <1>4, <1>5, <1>6 DEF Backends

\* For any files, voices and messages, a library is called with the text, the
\* language, the voice, the numbers and the reference that were asked for, and
\* with what is configured only where nothing was.
THEOREM AskedSafety == PathSpec => []ModelGetsWhatWasAsked
  BY PathStart, PathStep, AskedOf, PTL DEF PathSpec

----------------------------------------------------------------------------
(* The chunks of a stream, on the whole path *)

LEMMA ChunksOnPath == PathInv /\ ChunkInv /\ [PathNext]_pathVars => ChunkInv'
<1> SUFFICES ASSUME PathInv, ChunkInv, [PathNext]_pathVars PROVE ChunkInv'
  OBVIOUS
<1>1. [ChunkNext]_chunkVars => ChunkInv'
  BY ChunkInvariant
<1>2. CASE UNCHANGED chunkVars
  BY <1>1, <1>2
<1>3. CASE CutChunks
  BY <1>1, <1>3 DEF CutChunks, ChunkNext
<1>4. ASSUME NEW frames \in Lengths, AudioReturns(frames)
      PROVE  ChunkInv'
  <2>1. phase = "calling" /\ BeginChunks(frames, settings.grpc.stream_buffer_bytes \div Unit)
    BY <1>4 DEF AudioReturns
  <2>2. settings # <<>>
    BY <2>1, AdmittedModel DEF PathInv, RequestInv
  <2> DEFINE bytes == settings.grpc.stream_buffer_bytes
  <2>3. bytes \in Nat
    BY <2>2, GrpcNumbers DEF PathInv
  <2> HIDE DEF bytes
  <2>4. bytes \div Unit \in Nat
    BY <2>3 DEF Unit
  <2>5. frames \in Nat
    BY PathAssumption
  <2>6. ChunkNext
    BY <2>1, <2>4, <2>5 DEF ChunkNext, bytes
  <2> QED
    BY <1>1, <2>6
<1>5. \/ UNCHANGED chunkVars \/ CutChunks
      \/ \E frames \in Lengths : AudioReturns(frames)
  BY DEF PathNext, pathVars, Configure, LeaveUnloaded, LoadSucceeds, LoadFails, Serve, Receive,
         Prepare, EndBeforeDispatch, RuntimeFails, StreamEnds, ChunkingEnds
<1> QED
  BY <1>2, <1>3, <1>4, <1>5

\* For any files, voices and messages, and audio of any length, the chunks of
\* the stream are the audio that the runtime returned.
THEOREM PathChunkSafety == PathSpec => []ChunksAreTheAudio
<1>1. PathInit => ChunkInv
  BY ChunkStart DEF PathInit
<1>2. ChunkInv => ChunksAreTheAudio
  BY DEF ChunkInv
<1> QED
  BY <1>1, <1>2, PathStart, PathStep, ChunksOnPath, PTL DEF PathSpec
=============================================================================
