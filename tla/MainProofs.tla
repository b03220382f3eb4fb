------------------------------ MODULE MainProofs ------------------------------
(***************************************************************************)
(* What a bridge is configured with, for any configuration files, any      *)
(* number of signals and any changes of the file between them.             *)
(***************************************************************************)
EXTENDS Main, TLAPS

-----------------------------------------------------------------------------
(* The parser: parseStruct succeeds exactly if every setting fits, and     *)
(* then leaves in each field what the file means.                          *)

\* get finds the setting of a field, in either spelling.
LEMMA SettingFound ==
    ASSUME NEW data, NEW n
    PROVE  /\ Given(data, n) <=> get(data, n) # Nil
           /\ Given(data, n) => get(data, n) = Setting(data, n)
  <1>1. CASE <<n, "exact">> \in DOMAIN data
    <2>1. "exact" \in Spelled(data, n)
      BY <1>1 DEF Spelled
    <2>2. get(data, n) = Setting(data, n)
      BY <1>1, <2>1 DEF get, Setting
    <2>3. QED
      BY <2>1, <2>2 DEF Given
  <1>2. CASE <<n, "exact">> \notin DOMAIN data /\ <<n, "lower">> \in DOMAIN data
    <2>1. "exact" \notin Spelled(data, n) /\ "lower" \in Spelled(data, n)
      BY <1>2 DEF Spelled
    <2>2. get(data, n) = Setting(data, n)
      BY <1>2, <2>1 DEF get, Setting
    <2>3. QED
      BY <2>1, <2>2 DEF Given
  <1>3. CASE <<n, "exact">> \notin DOMAIN data /\ <<n, "lower">> \notin DOMAIN data
    <2>1. Spelled(data, n) = {}
      BY <1>3 DEF Spelled
    <2>2. get(data, n) = Nil
      BY <1>3 DEF get
    <2>3. QED
      BY <2>1, <2>2 DEF Given
  <1>4. QED
    BY <1>1, <1>2, <1>3

\* The loop succeeds if all fields do, and has then set them all.
LEMMA LoopResult ==
    ASSUME NEW F, NEW config, NEW parsed
    PROVE  /\ Loop(F, config, parsed).ok <=> \A n \in Names(F) : parsed[n].ok
           /\ Loop(F, config, parsed).ok =>
                  Loop(F, config, parsed).val = [n \in Names(F) |-> parsed[n].val]
  <1> DEFINE refused == {i \in DOMAIN F : ~parsed[F[i].name].ok}
             reached == {i \in DOMAIN F : \A j \in refused : i <= j}
             r == Loop(F, config, parsed)
  <1>1. /\ r.ok = (refused = {})
        /\ r.val = [n \in Names(F) |-> IF \E i \in reached : F[i].name = n
                                       THEN parsed[n].val ELSE config[n]]
    BY DEF Loop
  <1>2. refused = {} <=> \A n \in Names(F) : parsed[n].ok
    BY DEF Names
  <1>3. ASSUME refused = {} PROVE r.val = [n \in Names(F) |-> parsed[n].val]
    <2>1. reached = DOMAIN F
      BY <1>3
    <2>2. \A n \in Names(F) : \E i \in reached : F[i].name = n
      BY <2>1 DEF Names
    <2> HIDE DEF reached, r
    <2>3. QED
      BY <1>1, <2>2
  <1> HIDE DEF refused, r
  <1>4. QED
    BY <1>1, <1>2, <1>3 DEF r

\* Whether a value fits a field does not depend on what is in the field.
LEMMA PrimitiveFits ==
    ASSUME NEW type \in Primitives, NEW v, NEW old
    PROVE  parsePrimitive(type, v, old).ok <=> parsePrimitive(type, v, <<>>).ok
  <1>0. BoolT # IntT /\ BoolT # StringT /\ BoolT # StringsT /\ IntT # StringT
        /\ IntT # StringsT /\ StringT # StringsT
    BY DEF BoolT, IntT, StringT, StringsT
  <1>1. CASE type = BoolT
    <2>1. \A o : parsePrimitive(type, v, o) = parseBoolean(v, o)
      BY <1>0, <1>1 DEF parsePrimitive
    <2>2. \A o : parseBoolean(v, o).ok <=> v[1] \in {"bool", "string"}
      BY DEF parseBoolean, Ok, Fail
    <2>3. QED
      BY <2>1, <2>2
  <1>2. CASE type = IntT
    <2>1. \A o : parsePrimitive(type, v, o) = parseInt(v, o)
      BY <1>0, <1>2 DEF parsePrimitive
    <2>2. \A o : parseInt(v, o).ok <=>
                    (v[1] = "int" \/ (v[1] = "string" /\ v[2] \in DOMAIN Atoi))
      <3> DEFINE numeral == v[2] \in DOMAIN Atoi
      <3>1. CASE v[1] = "int"
        BY <3>1 DEF parseInt, Ok
      <3>2. CASE v[1] = "string" /\ numeral
        BY <3>2 DEF parseInt, Ok
      <3>3. CASE v[1] # "int" /\ ~(v[1] = "string" /\ numeral)
        BY <3>3 DEF parseInt, Fail
      <3>4. QED
        BY <3>1, <3>2, <3>3
    <2>3. QED
      BY <2>1, <2>2
  <1>3. CASE type = StringT
    <2>1. \A o : parsePrimitive(type, v, o) = parseString(v, o)
      BY <1>0, <1>3 DEF parsePrimitive
    <2>2. \A o : parseString(v, o).ok <=> v[1] = "string"
      BY DEF parseString, Ok, Fail
    <2>3. QED
      BY <2>1, <2>2
  <1>4. CASE type = StringsT
    <2>1. \A o : parsePrimitive(type, v, o) = parsePrimitiveArray(v, o)
      BY <1>0, <1>4 DEF parsePrimitive
    <2>2. \A o : parsePrimitiveArray(v, o).ok <=>
                    \A i \in DOMAIN Elements(v) : Elements(v)[i][1] \in {"string", "int"}
      BY DEF parsePrimitiveArray, Ok, Fail
    <2>3. QED
      BY <2>1, <2>2
  <1>5. QED
    BY <1>1, <1>2, <1>3, <1>4 DEF Primitives

\* Below the deepest struct nothing is parsed, fits or has a meaning.
LEMMA NoStruct ==
    ASSUME NEW F, NEW data, NEW config
    PROVE  /\ NoParse(F, data, config).ok <=> NoFit(F, data)
           /\ NoParse(F, data, config).ok =>
                  NoMeaning(F, data, config, NoParse(F, data, config).val)
  BY DEF NoParse, NoFit, NoMeaning, Fail

\* A field of a struct without structs: a struct in it would be refused.
LEMMA FlatField ==
    ASSUME NEW type, NEW v, NEW old
    PROVE  LET r == parseField(type, v, old, NoParse) IN
           /\ r.ok <=> FieldFits(type, v, NoFit)
           /\ r.ok => FieldMeans(type, v, old, r.val, NoMeaning)
  <1> DEFINE r == parseField(type, v, old, NoParse)
  <1>1. CASE type \in Primitives
    <2>1. r = parsePrimitive(type, v, old)
      BY <1>1 DEF parseField
    <2>2. FieldFits(type, v, NoFit) <=> parsePrimitive(type, v, <<>>).ok
      BY <1>1 DEF FieldFits
    <2>3. FieldMeans(type, v, old, r.val, NoMeaning)
      BY <1>1, <2>1 DEF FieldMeans
    <2>4. QED
      BY <1>1, <2>1, <2>2, <2>3, PrimitiveFits
  <1>2. CASE type \notin Primitives /\ type[1] = "structs"
    <2> DEFINE E == Elements(v)
               parsed == [i \in DOMAIN E |-> IF E[i][1] = "map"
                                             THEN NoParse(type[2], E[i][2], Zero[type[2]])
                                             ELSE Fail(<<>>)]
    <2>1. r = IF \A i \in DOMAIN parsed : parsed[i].ok
              THEN Ok([i \in DOMAIN parsed |-> parsed[i].val]) ELSE Fail(old)
      BY <1>2 DEF parseField, parseStructs
    <2>2. FieldFits(type, v, NoFit) <=> \A i \in DOMAIN E : E[i][1] = "map" /\ NoFit(type[2], E[i][2])
      BY <1>2 DEF FieldFits
    <2>3. ASSUME NEW i \in DOMAIN E
          PROVE  /\ parsed[i].ok <=> (E[i][1] = "map" /\ NoFit(type[2], E[i][2]))
                 /\ parsed[i].ok =>
                       NoMeaning(type[2], E[i][2], Zero[type[2]], parsed[i].val)
      <3>1. CASE E[i][1] = "map"
        <4>1. parsed[i] = NoParse(type[2], E[i][2], Zero[type[2]])
          BY <3>1
        <4> HIDE DEF parsed, E
        <4>2. QED
          BY <3>1, <4>1, NoStruct
      <3>2. CASE E[i][1] # "map"
        <4>1. parsed[i] = Fail(<<>>)
          BY <3>2
        <4>2. QED
          BY <3>2, <4>1 DEF Fail
      <3>3. QED
        BY <3>1, <3>2
    <2>4. DOMAIN parsed = DOMAIN E
      OBVIOUS
    <2> HIDE DEF parsed, E, r
    <2>5. r.ok <=> \A i \in DOMAIN parsed : parsed[i].ok
      BY <2>1 DEF Ok, Fail
    <2>6. ASSUME r.ok PROVE FieldMeans(type, v, old, r.val, NoMeaning)
      <3>1. r.val = [i \in DOMAIN E |-> parsed[i].val]
        BY <2>1, <2>4, <2>5, <2>6 DEF Ok
      <3>2. \A i \in DOMAIN E : NoMeaning(type[2], E[i][2], Zero[type[2]], r.val[i])
        BY <2>3, <2>4, <2>5, <2>6, <3>1
      <3>3. DOMAIN r.val = DOMAIN E
        BY <3>1
      <3>4. QED
        BY <1>2, <3>2, <3>3 DEF FieldMeans, E
    <2>7. QED
      BY <2>2, <2>3, <2>4, <2>5, <2>6 DEF r
  <1>3. CASE type \notin Primitives /\ type[1] # "structs"
    <2>1. r = IF v[1] = "map" THEN NoParse(type[2], v[2], old) ELSE Fail(old)
      BY <1>3 DEF parseField
    <2>2. FieldFits(type, v, NoFit) <=> (v[1] = "map" /\ NoFit(type[2], v[2]))
      BY <1>3 DEF FieldFits
    <2>3. FieldMeans(type, v, old, r.val, NoMeaning) <=> NoMeaning(type[2], v[2], old, r.val)
      BY <1>3 DEF FieldMeans
    <2> HIDE DEF r
    <2>4. CASE v[1] = "map"
      BY <2>1, <2>2, <2>3, <2>4, NoStruct DEF r
    <2>5. CASE v[1] # "map"
      <3>1. ~r.ok
        BY <2>1, <2>5 DEF Fail
      <3>2. QED
        BY <2>2, <2>5, <3>1 DEF r
    <2>6. QED
      BY <2>4, <2>5
  <1>4. QED
    BY <1>1, <1>2, <1>3

\* A struct without structs: read exactly if every setting in it fits.
LEMMA FlatStruct ==
    ASSUME NEW F, NEW data, NEW config
    PROVE  /\ parseFlat(F, data, config).ok <=> FitsFlat(F, data)
           /\ parseFlat(F, data, config).ok =>
                  MeansFlat(F, data, config, parseFlat(F, data, config).val)
  <1> DEFINE Result(n) == parseField(Type(F, n), get(data, n), config[n], NoParse)
             parsed == [n \in Names(F) |-> IF get(data, n) = Nil THEN Ok(config[n]) ELSE Result(n)]
             r == parseFlat(F, data, config)
  <1>1. r = Loop(F, config, parsed)
    BY DEF parseFlat, ParseFields
  <1>2. ASSUME NEW n \in Names(F), Given(data, n)
        PROVE  /\ parsed[n].ok <=> FieldFits(Type(F, n), Setting(data, n), NoFit)
               /\ parsed[n].ok =>
                     FieldMeans(Type(F, n), Setting(data, n), config[n], parsed[n].val, NoMeaning)
    <2>1. get(data, n) # Nil /\ get(data, n) = Setting(data, n)
      BY <1>2, SettingFound
    <2>2. parsed[n] = Result(n)
      BY <2>1
    <2> HIDE DEF parsed
    <2>3. QED
      BY <2>1, <2>2, FlatField
  <1>3. ASSUME NEW n \in Names(F), ~Given(data, n)
        PROVE  parsed[n].ok /\ parsed[n].val = config[n]
    <2>1. get(data, n) = Nil
      BY <1>3, SettingFound
    <2>2. QED
      BY <2>1 DEF Ok
  <1> HIDE DEF parsed, r
  <1>4. /\ r.ok <=> \A n \in Names(F) : parsed[n].ok
        /\ r.ok => r.val = [n \in Names(F) |-> parsed[n].val]
    BY <1>1, LoopResult
  <1>5. FitsFlat(F, data) <=> \A n \in Names(F) : parsed[n].ok
    BY <1>2, <1>3 DEF FitsFlat, FieldsFit
  <1>6. ASSUME r.ok PROVE MeansFlat(F, data, config, r.val)
    <2>1. \A n \in Names(F) : parsed[n].ok /\ r.val[n] = parsed[n].val
      BY <1>4, <1>6
    <2>2. QED
      BY <1>2, <1>3, <2>1 DEF MeansFlat, FieldsMean
  <1>7. QED
    BY <1>4, <1>5, <1>6 DEF r

\* A field of a struct that may hold structs without structs.
LEMMA NestedField ==
    ASSUME NEW type, NEW v, NEW old
    PROVE  LET r == parseField(type, v, old, parseFlat) IN
           /\ r.ok <=> FieldFits(type, v, FitsFlat)
           /\ r.ok => FieldMeans(type, v, old, r.val, MeansFlat)
  <1> DEFINE r == parseField(type, v, old, parseFlat)
  <1>1. CASE type \in Primitives
    <2>1. r = parsePrimitive(type, v, old)
      BY <1>1 DEF parseField
    <2>2. FieldFits(type, v, FitsFlat) <=> parsePrimitive(type, v, <<>>).ok
      BY <1>1 DEF FieldFits
    <2>3. FieldMeans(type, v, old, r.val, MeansFlat)
      BY <1>1, <2>1 DEF FieldMeans
    <2>4. QED
      BY <1>1, <2>1, <2>2, <2>3, PrimitiveFits
  <1>2. CASE type \notin Primitives /\ type[1] = "structs"
    <2> DEFINE E == Elements(v)
               parsed == [i \in DOMAIN E |-> IF E[i][1] = "map"
                                             THEN parseFlat(type[2], E[i][2], Zero[type[2]])
                                             ELSE Fail(<<>>)]
    <2>1. r = IF \A i \in DOMAIN parsed : parsed[i].ok
              THEN Ok([i \in DOMAIN parsed |-> parsed[i].val]) ELSE Fail(old)
      BY <1>2 DEF parseField, parseStructs
    <2>2. FieldFits(type, v, FitsFlat) <=> \A i \in DOMAIN E : E[i][1] = "map" /\ FitsFlat(type[2], E[i][2])
      BY <1>2 DEF FieldFits
    <2>3. ASSUME NEW i \in DOMAIN E
          PROVE  /\ parsed[i].ok <=> (E[i][1] = "map" /\ FitsFlat(type[2], E[i][2]))
                 /\ parsed[i].ok =>
                       MeansFlat(type[2], E[i][2], Zero[type[2]], parsed[i].val)
      <3>1. CASE E[i][1] = "map"
        <4>1. parsed[i] = parseFlat(type[2], E[i][2], Zero[type[2]])
          BY <3>1
        <4> HIDE DEF parsed, E
        <4>2. QED
          BY <3>1, <4>1, FlatStruct
      <3>2. CASE E[i][1] # "map"
        <4>1. parsed[i] = Fail(<<>>)
          BY <3>2
        <4>2. QED
          BY <3>2, <4>1 DEF Fail
      <3>3. QED
        BY <3>1, <3>2
    <2>4. DOMAIN parsed = DOMAIN E
      OBVIOUS
    <2> HIDE DEF parsed, E, r
    <2>5. r.ok <=> \A i \in DOMAIN parsed : parsed[i].ok
      BY <2>1 DEF Ok, Fail
    <2>6. ASSUME r.ok PROVE FieldMeans(type, v, old, r.val, MeansFlat)
      <3>1. r.val = [i \in DOMAIN E |-> parsed[i].val]
        BY <2>1, <2>4, <2>5, <2>6 DEF Ok
      <3>2. \A i \in DOMAIN E : MeansFlat(type[2], E[i][2], Zero[type[2]], r.val[i])
        BY <2>3, <2>4, <2>5, <2>6, <3>1
      <3>3. DOMAIN r.val = DOMAIN E
        BY <3>1
      <3>4. QED
        BY <1>2, <3>2, <3>3 DEF FieldMeans, E
    <2>7. QED
      BY <2>2, <2>3, <2>4, <2>5, <2>6 DEF r
  <1>3. CASE type \notin Primitives /\ type[1] # "structs"
    <2>1. r = IF v[1] = "map" THEN parseFlat(type[2], v[2], old) ELSE Fail(old)
      BY <1>3 DEF parseField
    <2>2. FieldFits(type, v, FitsFlat) <=> (v[1] = "map" /\ FitsFlat(type[2], v[2]))
      BY <1>3 DEF FieldFits
    <2>3. FieldMeans(type, v, old, r.val, MeansFlat) <=> MeansFlat(type[2], v[2], old, r.val)
      BY <1>3 DEF FieldMeans
    <2> HIDE DEF r
    <2>4. CASE v[1] = "map"
      BY <2>1, <2>2, <2>3, <2>4, FlatStruct DEF r
    <2>5. CASE v[1] # "map"
      <3>1. ~r.ok
        BY <2>1, <2>5 DEF Fail
      <3>2. QED
        BY <2>2, <2>5, <3>1 DEF r
    <2>6. QED
      BY <2>4, <2>5
  <1>4. QED
    BY <1>1, <1>2, <1>3

\* The same one level up: the sections and the connectors.
LEMMA NestedStruct ==
    ASSUME NEW F, NEW data, NEW config
    PROVE  /\ parseNested(F, data, config).ok <=> FitsNested(F, data)
           /\ parseNested(F, data, config).ok =>
                  MeansNested(F, data, config, parseNested(F, data, config).val)
  <1> DEFINE Result(n) == parseField(Type(F, n), get(data, n), config[n], parseFlat)
             parsed == [n \in Names(F) |-> IF get(data, n) = Nil THEN Ok(config[n]) ELSE Result(n)]
             r == parseNested(F, data, config)
  <1>1. r = Loop(F, config, parsed)
    BY DEF parseNested, ParseFields
  <1>2. ASSUME NEW n \in Names(F), Given(data, n)
        PROVE  /\ parsed[n].ok <=> FieldFits(Type(F, n), Setting(data, n), FitsFlat)
               /\ parsed[n].ok =>
                     FieldMeans(Type(F, n), Setting(data, n), config[n], parsed[n].val, MeansFlat)
    <2>1. get(data, n) # Nil /\ get(data, n) = Setting(data, n)
      BY <1>2, SettingFound
    <2>2. parsed[n] = Result(n)
      BY <2>1
    <2> HIDE DEF parsed
    <2>3. QED
      BY <2>1, <2>2, NestedField
  <1>3. ASSUME NEW n \in Names(F), ~Given(data, n)
        PROVE  parsed[n].ok /\ parsed[n].val = config[n]
    <2>1. get(data, n) = Nil
      BY <1>3, SettingFound
    <2>2. QED
      BY <2>1 DEF Ok
  <1> HIDE DEF parsed, r
  <1>4. /\ r.ok <=> \A n \in Names(F) : parsed[n].ok
        /\ r.ok => r.val = [n \in Names(F) |-> parsed[n].val]
    BY <1>1, LoopResult
  <1>5. FitsNested(F, data) <=> \A n \in Names(F) : parsed[n].ok
    BY <1>2, <1>3 DEF FitsNested, FieldsFit
  <1>6. ASSUME r.ok PROVE MeansNested(F, data, config, r.val)
    <2>1. \A n \in Names(F) : parsed[n].ok /\ r.val[n] = parsed[n].val
      BY <1>4, <1>6
    <2>2. QED
      BY <1>2, <1>3, <2>1 DEF MeansNested, FieldsMean
  <1>7. QED
    BY <1>4, <1>5, <1>6 DEF r

\* A field of the whole configuration.
LEMMA OuterField ==
    ASSUME NEW type, NEW v, NEW old
    PROVE  LET r == parseField(type, v, old, parseNested) IN
           /\ r.ok <=> FieldFits(type, v, FitsNested)
           /\ r.ok => FieldMeans(type, v, old, r.val, MeansNested)
  <1> DEFINE r == parseField(type, v, old, parseNested)
  <1>1. CASE type \in Primitives
    <2>1. r = parsePrimitive(type, v, old)
      BY <1>1 DEF parseField
    <2>2. FieldFits(type, v, FitsNested) <=> parsePrimitive(type, v, <<>>).ok
      BY <1>1 DEF FieldFits
    <2>3. FieldMeans(type, v, old, r.val, MeansNested)
      BY <1>1, <2>1 DEF FieldMeans
    <2>4. QED
      BY <1>1, <2>1, <2>2, <2>3, PrimitiveFits
  <1>2. CASE type \notin Primitives /\ type[1] = "structs"
    <2> DEFINE E == Elements(v)
               parsed == [i \in DOMAIN E |-> IF E[i][1] = "map"
                                             THEN parseNested(type[2], E[i][2], Zero[type[2]])
                                             ELSE Fail(<<>>)]
    <2>1. r = IF \A i \in DOMAIN parsed : parsed[i].ok
              THEN Ok([i \in DOMAIN parsed |-> parsed[i].val]) ELSE Fail(old)
      BY <1>2 DEF parseField, parseStructs
    <2>2. FieldFits(type, v, FitsNested) <=> \A i \in DOMAIN E : E[i][1] = "map" /\ FitsNested(type[2], E[i][2])
      BY <1>2 DEF FieldFits
    <2>3. ASSUME NEW i \in DOMAIN E
          PROVE  /\ parsed[i].ok <=> (E[i][1] = "map" /\ FitsNested(type[2], E[i][2]))
                 /\ parsed[i].ok =>
                       MeansNested(type[2], E[i][2], Zero[type[2]], parsed[i].val)
      <3>1. CASE E[i][1] = "map"
        <4>1. parsed[i] = parseNested(type[2], E[i][2], Zero[type[2]])
          BY <3>1
        <4> HIDE DEF parsed, E
        <4>2. QED
          BY <3>1, <4>1, NestedStruct
      <3>2. CASE E[i][1] # "map"
        <4>1. parsed[i] = Fail(<<>>)
          BY <3>2
        <4>2. QED
          BY <3>2, <4>1 DEF Fail
      <3>3. QED
        BY <3>1, <3>2
    <2>4. DOMAIN parsed = DOMAIN E
      OBVIOUS
    <2> HIDE DEF parsed, E, r
    <2>5. r.ok <=> \A i \in DOMAIN parsed : parsed[i].ok
      BY <2>1 DEF Ok, Fail
    <2>6. ASSUME r.ok PROVE FieldMeans(type, v, old, r.val, MeansNested)
      <3>1. r.val = [i \in DOMAIN E |-> parsed[i].val]
        BY <2>1, <2>4, <2>5, <2>6 DEF Ok
      <3>2. \A i \in DOMAIN E : MeansNested(type[2], E[i][2], Zero[type[2]], r.val[i])
        BY <2>3, <2>4, <2>5, <2>6, <3>1
      <3>3. DOMAIN r.val = DOMAIN E
        BY <3>1
      <3>4. QED
        BY <1>2, <3>2, <3>3 DEF FieldMeans, E
    <2>7. QED
      BY <2>2, <2>3, <2>4, <2>5, <2>6 DEF r
  <1>3. CASE type \notin Primitives /\ type[1] # "structs"
    <2>1. r = IF v[1] = "map" THEN parseNested(type[2], v[2], old) ELSE Fail(old)
      BY <1>3 DEF parseField
    <2>2. FieldFits(type, v, FitsNested) <=> (v[1] = "map" /\ FitsNested(type[2], v[2]))
      BY <1>3 DEF FieldFits
    <2>3. FieldMeans(type, v, old, r.val, MeansNested) <=> MeansNested(type[2], v[2], old, r.val)
      BY <1>3 DEF FieldMeans
    <2> HIDE DEF r
    <2>4. CASE v[1] = "map"
      BY <2>1, <2>2, <2>3, <2>4, NestedStruct DEF r
    <2>5. CASE v[1] # "map"
      <3>1. ~r.ok
        BY <2>1, <2>5 DEF Fail
      <3>2. QED
        BY <2>2, <2>5, <3>1 DEF r
    <2>6. QED
      BY <2>4, <2>5
  <1>4. QED
    BY <1>1, <1>2, <1>3

\* The same for the whole file.
LEMMA OuterStruct ==
    ASSUME NEW F, NEW data, NEW config
    PROVE  /\ parseStruct(F, data, config).ok <=> Fits(F, data)
           /\ parseStruct(F, data, config).ok =>
                  Means(F, data, config, parseStruct(F, data, config).val)
  <1> DEFINE Result(n) == parseField(Type(F, n), get(data, n), config[n], parseNested)
             parsed == [n \in Names(F) |-> IF get(data, n) = Nil THEN Ok(config[n]) ELSE Result(n)]
             r == parseStruct(F, data, config)
  <1>1. r = Loop(F, config, parsed)
    BY DEF parseStruct, ParseFields
  <1>2. ASSUME NEW n \in Names(F), Given(data, n)
        PROVE  /\ parsed[n].ok <=> FieldFits(Type(F, n), Setting(data, n), FitsNested)
               /\ parsed[n].ok =>
                     FieldMeans(Type(F, n), Setting(data, n), config[n], parsed[n].val, MeansNested)
    <2>1. get(data, n) # Nil /\ get(data, n) = Setting(data, n)
      BY <1>2, SettingFound
    <2>2. parsed[n] = Result(n)
      BY <2>1
    <2> HIDE DEF parsed
    <2>3. QED
      BY <2>1, <2>2, OuterField
  <1>3. ASSUME NEW n \in Names(F), ~Given(data, n)
        PROVE  parsed[n].ok /\ parsed[n].val = config[n]
    <2>1. get(data, n) = Nil
      BY <1>3, SettingFound
    <2>2. QED
      BY <2>1 DEF Ok
  <1> HIDE DEF parsed, r
  <1>4. /\ r.ok <=> \A n \in Names(F) : parsed[n].ok
        /\ r.ok => r.val = [n \in Names(F) |-> parsed[n].val]
    BY <1>1, LoopResult
  <1>5. Fits(F, data) <=> \A n \in Names(F) : parsed[n].ok
    BY <1>2, <1>3 DEF Fits, FieldsFit
  <1>6. ASSUME r.ok PROVE Means(F, data, config, r.val)
    <2>1. \A n \in Names(F) : parsed[n].ok /\ r.val[n] = parsed[n].val
      BY <1>4, <1>6
    <2>2. QED
      BY <1>2, <1>3, <2>1 DEF Means, FieldsMean
  <1>7. QED
    BY <1>4, <1>5, <1>6 DEF r

\* What LoadConfigFile makes of a file.
Loaded(text) == LoadConfigFromFile(text, DefaultBridgeConfig)

\* The configuration of a bridge that has loaded the file.
Meant(text) == IF Loaded(text).ok THEN Loaded(text).val ELSE EmptyConfig

\* It has all of the file, or nothing of it.
LEMMA AllOrNothing ==
    ASSUME NEW text
    PROVE  IF text[1] = "map" /\ Fits(BridgeConfig, text[2])
           THEN Means(BridgeConfig, text[2], DefaultBridgeConfig, Meant(text))
           ELSE Meant(text) = EmptyConfig
  <1>1. CASE text[1] = "map"
    <2>1. Loaded(text) = parseStruct(BridgeConfig, text[2], DefaultBridgeConfig)
      BY <1>1 DEF Loaded, LoadConfigFromFile
    <2>2. QED
      BY <1>1, <2>1, OuterStruct DEF Meant
  <1>2. CASE text[1] # "map"
    <2>1. ~Loaded(text).ok
      BY <1>2 DEF Loaded, LoadConfigFromFile, Fail
    <2>2. QED
      BY <1>2, <2>1 DEF Meant
  <1>3. QED
    BY <1>1, <1>2

-----------------------------------------------------------------------------
(* The process.                                                            *)

Texts == Files \cup Edits

FileType ==
    /\ file = Written(file.text, file.changes)
    /\ file.text \in Texts /\ file.changes \in Nat

ReadType == {<<>>} \cup {<<[text |-> f, changes |-> n]>> : f \in Texts, n \in Nat}

BridgeType ==
    [status : {"new", "running", "failed", "stopped"},
     config : {EmptyConfig} \cup {Meant(f) : f \in Texts},
     read : ReadType]

TypeInv ==
    /\ FileType
    /\ bridges \in Seq(BridgeType)
    /\ server \in Nat /\ branch \in Nat

\* A bridge has what the file it read means, and nothing before it reads one.
ConfigOfRead ==
    \A b \in DOMAIN bridges :
        bridges[b].config = IF bridges[b].read = <<>> THEN EmptyConfig
                            ELSE Meant(bridges[b].read[1].text)

\* main and its goroutine each load a bridge of their own, once.
LoadedOnce ==
    /\ main # "create" => server \in DOMAIN bridges
    /\ handler \in {"load", "start", "check"} => branch \in DOMAIN bridges
    /\ main = "load" => bridges[server].read = <<>>
    /\ handler = "load" => bridges[branch].read = <<>>
    /\ main = "load" /\ handler = "load" => server # branch

ProcessInv == TypeInv /\ ConfigOfRead /\ LoadedOnce

\* A step that leaves every bridge the configuration it has.
ConfigsKept ==
    /\ bridges' \in Seq(BridgeType) /\ DOMAIN bridges' = DOMAIN bridges
    /\ \A b \in DOMAIN bridges :
          bridges'[b].config = bridges[b].config /\ bridges'[b].read = bridges[b].read

\* A step that changes one bridge leaves a sequence of bridges.
LEMMA SameLength ==
    ASSUME bridges \in Seq(BridgeType), DOMAIN bridges' = DOMAIN bridges,
           NEW c, bridges' = [bridges EXCEPT ![c] = bridges'[c]],
           \A b \in DOMAIN bridges : bridges'[b] \in BridgeType
    PROVE  bridges' \in Seq(BridgeType)
  <1>1. bridges \in [1..Len(bridges) -> BridgeType] /\ Len(bridges) \in Nat
    OBVIOUS
  <1>2. bridges' \in [1..Len(bridges) -> BridgeType]
    BY <1>1
  <1>3. QED
    BY <1>1, <1>2

\* A step that only sets the status of a bridge keeps every configuration.
LEMMA StatusOnly ==
    ASSUME bridges \in Seq(BridgeType), NEW b,
           NEW x, b \in DOMAIN bridges => x \in {"new", "running", "failed", "stopped"},
           bridges' = [bridges EXCEPT ![b].status = x]
    PROVE  ConfigsKept
  <1>1. DOMAIN bridges' = DOMAIN bridges /\ Len(bridges') = Len(bridges)
    OBVIOUS
  <1>2. ASSUME NEW c \in DOMAIN bridges
        PROVE  /\ bridges'[c] \in BridgeType
               /\ bridges'[c].config = bridges[c].config /\ bridges'[c].read = bridges[c].read
    <2>1. bridges[c] \in BridgeType
      OBVIOUS
    <2>2. CASE c = b
      <3>1. bridges'[c] = [bridges[c] EXCEPT !.status = x]
        BY <2>2
      <3>2. QED
        BY <2>1, <2>2, <3>1 DEF BridgeType
    <2>3. CASE c # b
      BY <2>1, <2>3
    <2>4. QED
      BY <2>2, <2>3
  <1>3. bridges' \in Seq(BridgeType)
    BY <1>1, <1>2, SameLength
  <1>4. QED
    BY <1>1, <1>2, <1>3 DEF ConfigsKept

\* Start does so, whether it fails or not.
LEMMA StartsKeeps ==
    ASSUME bridges \in Seq(BridgeType), NEW b, Starts(b)
    PROVE  ConfigsKept
  BY StatusOnly DEF Starts

\* Stop does so.
LEMMA StopsKeeps ==
    ASSUME bridges \in Seq(BridgeType), NEW b, Stops(b)
    PROVE  ConfigsKept
  <1> DEFINE x == IF bridges[b].status \in {"running", "failed"} THEN "stopped"
                  ELSE bridges[b].status
  <1>1. bridges' = [bridges EXCEPT ![b].status = x]
    BY DEF Stops
  <1>2. b \in DOMAIN bridges => bridges[b] \in BridgeType
    OBVIOUS
  <1>3. b \in DOMAIN bridges => x \in {"new", "running", "failed", "stopped"}
    BY <1>2 DEF BridgeType
  <1>4. QED
    BY <1>1, <1>3, StatusOnly

\* A new bridge has read no file yet.
LEMMA NewBridge == NewBridgeServer \in BridgeType /\ NewBridgeServer.read = <<>>
                   /\ NewBridgeServer.config = EmptyConfig
  BY DEF NewBridgeServer, BridgeType, ReadType

\* A bridge is created: the others are as before.
LEMMA CreateKeeps ==
    ASSUME bridges \in Seq(BridgeType), ConfigOfRead,
           bridges' = Append(bridges, NewBridgeServer)
    PROVE  /\ bridges' \in Seq(BridgeType) /\ DOMAIN bridges' = 1..(Len(bridges) + 1)
           /\ \A b \in DOMAIN bridges : bridges'[b] = bridges[b]
           /\ bridges'[Len(bridges) + 1].read = <<>>
           /\ ConfigOfRead'
  <1>1. /\ bridges' \in Seq(BridgeType) /\ DOMAIN bridges' = 1..(Len(bridges) + 1)
        /\ \A b \in DOMAIN bridges : bridges'[b] = bridges[b]
        /\ bridges'[Len(bridges) + 1] = NewBridgeServer
    BY NewBridge
  <1>2. \A b \in DOMAIN bridges' : b \in DOMAIN bridges \/ b = Len(bridges) + 1
    BY <1>1
  <1>3. ConfigOfRead'
    BY <1>1, <1>2, NewBridge DEF ConfigOfRead
  <1>4. QED
    BY <1>1, <1>3, NewBridge

\* A new bridge loads the file.
LEMMA LoadReads ==
    ASSUME TypeInv, ConfigOfRead, NEW b \in DOMAIN bridges, bridges[b].read = <<>>,
           bridges' = [bridges EXCEPT ![b] = LoadConfigFile(@)]
    PROVE  /\ bridges' \in Seq(BridgeType) /\ DOMAIN bridges' = DOMAIN bridges
           /\ \A c \in DOMAIN bridges \ {b} : bridges'[c] = bridges[c]
           /\ ConfigOfRead'
  <1> DEFINE old == bridges[b]  seen == <<[text |-> file.text, changes |-> file.changes]>>
  <1>1. old \in BridgeType /\ old.config = EmptyConfig
    BY DEF TypeInv, ConfigOfRead
  <1>2. file.filled = Loaded(file.text) /\ file.text \in Texts /\ file.changes \in Nat
    BY DEF TypeInv, FileType, Written, Loaded
  <1>3. bridges'[b] = [old EXCEPT !.config = Meant(file.text), !.read = seen]
    BY <1>1, <1>2 DEF LoadConfigFile, Meant, TypeInv
  <1>4. seen \in ReadType /\ seen # <<>> /\ seen[1].text = file.text
    BY <1>2 DEF ReadType
  <1>5. /\ bridges'[b] \in BridgeType /\ bridges'[b].config = Meant(file.text)
        /\ bridges'[b].read = seen
    <2> HIDE DEF seen
    <2>1. Meant(file.text) \in {EmptyConfig} \cup {Meant(f) : f \in Texts}
      BY <1>2
    <2>2. QED
      BY <1>1, <1>3, <1>4, <2>1 DEF BridgeType
  <1>6. DOMAIN bridges' = DOMAIN bridges /\ \A c \in DOMAIN bridges \ {b} : bridges'[c] = bridges[c]
    BY DEF TypeInv
  <1>7. bridges' \in Seq(BridgeType)
    <2>1. \A c \in DOMAIN bridges : bridges'[c] \in BridgeType
      BY <1>5, <1>6 DEF TypeInv
    <2>2. bridges \in Seq(BridgeType)
      BY DEF TypeInv
    <2>3. QED
      BY <1>6, <2>1, <2>2, SameLength
  <1>8. ConfigOfRead'
    <2> HIDE DEF seen
    <2>1. ASSUME NEW c \in DOMAIN bridges'
          PROVE  bridges'[c].config = IF bridges'[c].read = <<>> THEN EmptyConfig
                                      ELSE Meant(bridges'[c].read[1].text)
      <3>1. CASE c = b
        BY <1>4, <1>5, <3>1
      <3>2. CASE c # b
        BY <1>6, <3>2 DEF ConfigOfRead
      <3>3. QED
        BY <3>1, <3>2
    <2>2. QED
      BY <2>1 DEF ConfigOfRead
  <1>9. QED
    BY <1>6, <1>7, <1>8

\* The invariant holds when the process begins.
LEMMA ProcessStart == Init => ProcessInv
  <1> SUFFICES ASSUME Init PROVE ProcessInv
    OBVIOUS
  <1>1. FileType
    <2>1. \E f \in Texts, n \in Nat : file = Written(f, n)
      BY MainAssumption DEF Init, Texts
    <2>2. QED
      BY <2>1 DEF FileType, Written
  <1>2. bridges = <<>> /\ server = 0 /\ branch = 0 /\ main = "create" /\ handler = "notify"
    BY DEF Init
  <1>3. QED
    BY <1>1, <1>2 DEF ProcessInv, TypeInv, ConfigOfRead, LoadedOnce

\* Bridges that keep their configuration, with main and its goroutine where
\* they are or past loading.
LEMMA KeptStep ==
    ASSUME ProcessInv, ConfigsKept, UNCHANGED <<file, server, branch>>,
           main' # "create" => main # "create",
           main' = "load" => main = "load",
           handler' = "load" => handler = "load",
           handler' \in {"start", "check"} => handler \in {"load", "start", "check"}
    PROVE  ProcessInv'
  <1>1. TypeInv'
    BY DEF ProcessInv, TypeInv, FileType, ConfigsKept
  <1>2. ConfigOfRead'
    BY DEF ProcessInv, ConfigOfRead, ConfigsKept
  <1>3. LoadedOnce'
    BY DEF ProcessInv, LoadedOnce, ConfigsKept
  <1>4. QED
    BY <1>1, <1>2, <1>3 DEF ProcessInv

\* A step that leaves the bridges alone keeps every configuration.
LEMMA UnchangedKeeps ==
    ASSUME ProcessInv, bridges' = bridges
    PROVE  ConfigsKept
  BY DEF ProcessInv, TypeInv, ConfigsKept

\* Every step of main, of the signal goroutine and around them keeps the invariant.
LEMMA ProcessStep == ProcessInv /\ [Next]_vars => ProcessInv'
  <1> SUFFICES ASSUME ProcessInv, [Next]_vars PROVE ProcessInv'
    OBVIOUS
  <1>0. TypeInv /\ ConfigOfRead /\ LoadedOnce /\ bridges \in Seq(BridgeType)
        /\ server \in Nat /\ branch \in Nat
    BY DEF ProcessInv, TypeInv
  <1>1. CASE MainCreates
    <2>1. /\ bridges' = Append(bridges, NewBridgeServer) /\ server' = Len(bridges) + 1
          /\ main' = "load" /\ UNCHANGED <<file, branch, handler>>
      BY <1>1 DEF MainCreates, handlerVars
    <2>2. /\ bridges' \in Seq(BridgeType) /\ DOMAIN bridges' = 1..(Len(bridges) + 1)
          /\ \A b \in DOMAIN bridges : bridges'[b] = bridges[b]
          /\ bridges'[Len(bridges) + 1].read = <<>>
          /\ ConfigOfRead'
      BY <1>0, <2>1, CreateKeeps
    <2>3. Len(bridges) \in Nat /\ DOMAIN bridges = 1..Len(bridges)
      BY <1>0
    <2>4. TypeInv'
      BY <1>0, <2>1, <2>2, <2>3 DEF TypeInv, FileType
    <2>5. LoadedOnce'
      BY <1>0, <2>1, <2>2, <2>3 DEF LoadedOnce
    <2>6. QED
      BY <2>2, <2>4, <2>5 DEF ProcessInv
  <1>2. CASE HandlerCreates
    <2>1. /\ bridges' = Append(bridges, NewBridgeServer) /\ branch' = Len(bridges) + 1
          /\ handler' = "load" /\ UNCHANGED <<file, server, main>>
      BY <1>2 DEF HandlerCreates, mainVars
    <2>2. /\ bridges' \in Seq(BridgeType) /\ DOMAIN bridges' = 1..(Len(bridges) + 1)
          /\ \A b \in DOMAIN bridges : bridges'[b] = bridges[b]
          /\ bridges'[Len(bridges) + 1].read = <<>>
          /\ ConfigOfRead'
      BY <1>0, <2>1, CreateKeeps
    <2>3. Len(bridges) \in Nat /\ DOMAIN bridges = 1..Len(bridges)
      BY <1>0
    <2>4. TypeInv'
      BY <1>0, <2>1, <2>2, <2>3 DEF TypeInv, FileType
    <2>5. LoadedOnce'
      BY <1>0, <2>1, <2>2, <2>3 DEF LoadedOnce
    <2>6. QED
      BY <2>2, <2>4, <2>5 DEF ProcessInv
  <1>3. CASE MainLoads
    <2>1. /\ bridges' = [bridges EXCEPT ![server] = LoadConfigFile(@)]
          /\ main = "load" /\ main' = "start" /\ UNCHANGED <<file, server, branch, handler>>
      BY <1>3 DEF MainLoads, handlerVars
    <2>2. server \in DOMAIN bridges /\ bridges[server].read = <<>>
      BY <1>0, <2>1 DEF LoadedOnce
    <2>3. /\ bridges' \in Seq(BridgeType) /\ DOMAIN bridges' = DOMAIN bridges
          /\ \A c \in DOMAIN bridges \ {server} : bridges'[c] = bridges[c]
          /\ ConfigOfRead'
      BY <1>0, <2>1, <2>2, LoadReads
    <2>4. TypeInv'
      BY <1>0, <2>1, <2>3 DEF TypeInv, FileType
    <2>5. LoadedOnce'
      BY <1>0, <2>1, <2>3 DEF LoadedOnce
    <2>6. QED
      BY <2>3, <2>4, <2>5 DEF ProcessInv
  <1>4. CASE HandlerLoads
    <2>1. /\ bridges' = [bridges EXCEPT ![branch] = LoadConfigFile(@)]
          /\ handler = "load" /\ handler' = "start" /\ UNCHANGED <<file, server, branch, main>>
      BY <1>4 DEF HandlerLoads, mainVars
    <2>2. branch \in DOMAIN bridges /\ bridges[branch].read = <<>>
      BY <1>0, <2>1 DEF LoadedOnce
    <2>3. /\ bridges' \in Seq(BridgeType) /\ DOMAIN bridges' = DOMAIN bridges
          /\ \A c \in DOMAIN bridges \ {branch} : bridges'[c] = bridges[c]
          /\ ConfigOfRead'
      BY <1>0, <2>1, <2>2, LoadReads
    <2>4. TypeInv'
      BY <1>0, <2>1, <2>3 DEF TypeInv, FileType
    <2>5. LoadedOnce'
      BY <1>0, <2>1, <2>3 DEF LoadedOnce
    <2>6. QED
      BY <2>3, <2>4, <2>5 DEF ProcessInv
  <1>5. CASE \E f \in Edits : EditFile(f)
    <2>1. PICK f \in Edits : EditFile(f)
      BY <1>5
    <2>2. /\ file' = Written(f, file.changes + 1)
          /\ UNCHANGED <<bridges, server, main, branch, handler>>
      BY <2>1 DEF EditFile, mainVars, handlerVars
    <2>3. FileType'
      BY <1>0, <2>2 DEF TypeInv, FileType, Written, Texts
    <2>4. QED
      BY <1>0, <2>2, <2>3 DEF ProcessInv, TypeInv, ConfigOfRead, LoadedOnce
  <1>6. CASE MainStarts
    <2>1. ConfigsKept
      BY <1>0, <1>6, StartsKeeps DEF MainStarts
    <2>2. QED
      BY <1>6, <2>1, KeptStep DEF MainStarts, handlerVars
  <1>7. CASE MainChecks
    <2>1. ConfigsKept
      BY <1>0, <1>7, StopsKeeps, UnchangedKeeps DEF MainChecks
    <2>2. QED
      BY <1>7, <2>1, KeptStep DEF MainChecks, handlerVars
  <1>8. CASE HandlerStarts
    <2>1. ConfigsKept
      BY <1>0, <1>8, StartsKeeps DEF HandlerStarts
    <2>2. QED
      BY <1>8, <2>1, KeptStep DEF HandlerStarts, mainVars
  <1>9. CASE HandlerChecks
    <2>1. ConfigsKept
      BY <1>0, <1>9, StopsKeeps, UnchangedKeeps DEF HandlerChecks
    <2>2. QED
      BY <1>9, <2>1, KeptStep DEF HandlerChecks, mainVars
  <1>10. CASE HandlerStops
    <2>1. ConfigsKept
      BY <1>0, <1>10, StopsKeeps DEF HandlerStops
    <2>2. QED
      BY <1>10, <2>1, KeptStep DEF HandlerStops, AfterStop, mainVars
  <1>11. CASE \E b \in 1..(MaxSignals + 1) : NatsClosed(b)
    <2>1. PICK b \in 1..(MaxSignals + 1) : NatsClosed(b)
      BY <1>11
    <2>2. ConfigsKept
      BY <1>0, <2>1, StopsKeeps DEF NatsClosed
    <2>3. QED
      BY <2>1, <2>2, KeptStep DEF NatsClosed, mainVars, handlerVars
  <1>12. CASE HandlerNotifies
    BY <1>12, UnchangedKeeps, KeptStep DEF HandlerNotifies, mainVars
  <1>13. CASE HandlerTakes
    BY <1>13, UnchangedKeeps, KeptStep DEF HandlerTakes, mainVars
  <1>14. CASE HandlerExits
    BY <1>14, UnchangedKeeps, KeptStep DEF HandlerExits, mainVars, handlerVars
  <1>15. CASE \E s \in Signals : Signal(s)
    BY <1>15, UnchangedKeeps, KeptStep DEF Signal, mainVars
  <1>16. CASE UNCHANGED vars
    BY <1>16, UnchangedKeeps, KeptStep DEF vars, mainVars, handlerVars
  <1>17. QED
    BY <1>1, <1>2, <1>3, <1>4, <1>5, <1>6, <1>7, <1>8, <1>9, <1>10, <1>11, <1>12, <1>13,
       <1>14, <1>15, <1>16 DEF Next, Main, Handler

\* A bridge runs with all of the file it read, or with nothing of it: whatever
\* the file says, whenever it is changed and however main and the signal
\* goroutine interleave, no bridge has a part of a file, another bridge's file
\* or a setting in the wrong field (LoadConfigFile, parseStruct).
THEOREM NeverAPartOfAFile == Spec => []LoadedAsWritten
  <1>1. ProcessInv => LoadedAsWritten
    <2> SUFFICES ASSUME ProcessInv, NEW b \in DOMAIN bridges
                 PROVE  LET c == bridges[b].config  f == bridges[b].read[1].text IN
                        IF bridges[b].read = <<>> \/ f[1] # "map" THEN c = EmptyConfig
                        ELSE IF Fits(BridgeConfig, f[2])
                             THEN Means(BridgeConfig, f[2], DefaultBridgeConfig, c)
                             ELSE c = EmptyConfig
      BY DEF LoadedAsWritten
    <2>1. bridges[b].config = IF bridges[b].read = <<>> THEN EmptyConfig
                              ELSE Meant(bridges[b].read[1].text)
      BY DEF ProcessInv, ConfigOfRead
    <2>2. QED
      BY <2>1, AllOrNothing
  <1>2. QED
    BY <1>1, ProcessStart, ProcessStep, PTL DEF Spec
=============================================================================
