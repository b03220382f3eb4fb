------------------------------- MODULE Property -------------------------------
(***************************************************************************)
(* The typed properties of a bridge message (src/message/message.go): how  *)
(* a value is stored, what the codec makes of it and how it is read back.  *)
(*                                                                         *)
(* A Go value is its type and a number; the number of a string, a bool or  *)
(* a byte slice only tells it from others.  External: the msgpack codec    *)
(* (SignedInteger, WriteExt) gives every integer back as an int64, cut to  *)
(* its bits, and every float as a float64, the other types as they were;   *)
(* an empty map of properties is left out and read back as nil.            *)
(***************************************************************************)
EXTENDS Integers

CONSTANT Half    \* 2^(w-1) for the types of w bits: 2^7, 2^15, 2^31, 2^63

IntTypes == {"int8", "int16", "int32", "int64"}

\* All of them are narrower than 64 bits, but for the last.
ASSUME WidthAssumption ==
    /\ Half \in [IntTypes -> Nat \ {0}]
    /\ \A t \in IntTypes \ {"int64"} : 2 * Half[t] <= Half["int64"]

\* The values of Go that SetProperty is handed, by their types; int and uint
\* have 64 bits.
Signed   == IntTypes \cup {"int"}
Unsigned == {"byte", "uint16", "uint32", "uint64", "uint"}
GoType   == Signed \cup Unsigned \cup
            {"float32", "float64", "string", "bool", "bytes", "nil"}

\* The width of an integer type.
SameWidth(go) ==
    CASE go \in IntTypes -> go
      [] go = "byte"     -> "int8"
      [] go = "uint16"   -> "int16"
      [] go = "uint32"   -> "int32"
      [] OTHER           -> "int64"

IsGoValue(v) ==
    /\ v \in [go : GoType, n : Int]
    /\ LET h == Half[SameWidth(v.go)] IN
        /\ v.go \in Signed   => -h <= v.n /\ v.n < h
        /\ v.go \in Unsigned => 0 <= v.n /\ v.n < 2 * h
    /\ v.go = "nil" => v.n = 0
Nil == [go |-> "nil", n |-> 0]

\* A message without the property: its map of properties is empty, or nil.
Absent == [go |-> "absent", n |-> 0]
NoProperty == [type |-> "absent", value |-> Absent]

\* Mutant: an int16 is stored as an int8.
NarrowType(go) ==
    CASE go \in {"int8", "int16", "byte"} -> "int8"
      [] go \in {"int64", "uint16", "uint32", "uint64", "int"} -> "int64"
      [] OTHER -> go

\* The property type SetProperty stores for a Go type.
PropertyType(go) ==
    CASE go \in {"int8", "byte"} -> "int8"
      [] go \in {"int64", "uint16", "uint32", "uint64", "int"} -> "int64"
      [] OTHER -> go

\* The types SetProperty has a case for; it returns an error for others, of
\* which uint is the one its comment promises to convert.
Supported(go) == go # "uint"

\* SetProperty, with p there before: the value is stored as it is.
SetProperty(p, v) ==
    IF Supported(v.go) THEN [type |-> PropertyType(v.go), value |-> v] ELSE p

\* int8(val) and so on: the low bits, as a signed number.
Sized(t, n) == ((n + Half[t]) % (2 * Half[t])) - Half[t]

\* Encode, and DecodeBridgeMessage on the other side.
Decoded(p) ==
    CASE p.value.go \in Signed \cup Unsigned ->
             [p EXCEPT !.value = [go |-> "int64", n |-> Sized("int64", @.n)]]
      [] p.value.go \in {"float32", "float64"} -> [p EXCEPT !.value.go = "float64"]
      [] OTHER -> p

NotFound == [ok |-> FALSE]
Found(t, n) == [ok |-> TRUE, value |-> [go |-> t, n |-> n]]

\* parseInt and the conversion to the property's size.
ParsedInt(p) ==
    IF p.value.go \in Signed
    THEN Found(p.type, Sized(p.type, p.value.n)) ELSE NotFound

ParsedFloat(p) ==
    IF p.value.go \in {"float32", "float64"} THEN Found(p.type, p.value.n) ELSE NotFound

\* GetTypedProperty of a property that is there, and the getters it
\* dispatches to.
GetTypedProperty(p) ==
    CASE p.type \in IntTypes -> ParsedInt(p)
      [] p.type \in {"float32", "float64"} -> ParsedFloat(p)
      [] p.type = "nil" -> Found("nil", 0)
      [] p.type = "string" -> IF p.value.go = "string" THEN Found("string", p.value.n)
                              ELSE NotFound
      [] OTHER -> Found(p.type, p.value.n)    \* bool, bytes: a type assertion

=============================================================================
