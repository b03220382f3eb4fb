---------------------------- MODULE MsgConvProofs ----------------------------
(***************************************************************************)
(* Request-reply mapping, headers and properties, for any names, any       *)
(* number of connectors, ids of any length, any values of Go's types and   *)
(* any widths of its integers.                                             *)
(***************************************************************************)
EXTENDS MsgConv, SequenceTheorems, WellFoundedInduction, TLAPS

-----------------------------------------------------------------------------
(* Typed properties.                                                       *)

\* A number below the modulus is its own remainder.
LEMMA LowBits == ASSUME NEW m \in Nat, NEW k \in Nat, k < m PROVE k % m = k
  OBVIOUS

\* One between the modulus and its double wraps once.
LEMMA HighBits ==
    ASSUME NEW m \in Nat, NEW k \in Nat, m <= k, k < 2 * m
    PROVE  k % m = k - m
  OBVIOUS

\* The halves are positive, and 64 bits hold every narrower number.
LEMMA Widths ==
    ASSUME NEW t \in IntTypes
    PROVE  /\ Half[t] \in Nat \ {0} /\ Half["int64"] \in Nat \ {0}
           /\ Half[t] <= Half["int64"]
           /\ t # "int64" => 2 * Half[t] <= Half["int64"]
  <1>1. Half[t] \in Nat \ {0} /\ Half["int64"] \in Nat \ {0}
    BY WidthAssumption DEF IntTypes
  <1>2. t # "int64" => 2 * Half[t] <= Half["int64"]
    BY WidthAssumption
  <1>3. Half[t] <= Half["int64"]
    BY <1>1, <1>2
  <1>4. QED
    BY <1>1, <1>2, <1>3

\* The conversion to a size keeps a number that fits, and takes one of the
\* upper half of the unsigned type of that size for a negative one.
LEMMA SizedConverts ==
    ASSUME NEW t \in IntTypes, NEW n \in Int, -Half[t] <= n, n < 2 * Half[t]
    PROVE  /\ n < Half[t] => Sized(t, n) = n
           /\ n >= Half[t] => Sized(t, n) = n - 2 * Half[t]
  <1> DEFINE h == Half[t]
  <1>1. h \in Nat /\ Sized(t, n) = ((n + h) % (2 * h)) - h
    BY Widths DEF Sized
  <1> HIDE DEF h
  <1>2. -h <= n /\ n < 2 * h
    BY DEF h
  <1>3. ASSUME n < h PROVE Sized(t, n) = n
    <2>1. n + h \in Nat /\ 2 * h \in Nat /\ n + h < 2 * h
      BY <1>1, <1>2, <1>3
    <2>2. (n + h) % (2 * h) = n + h
      BY <2>1, LowBits
    <2>3. QED
      BY <1>1, <2>2
  <1>4. ASSUME n >= h PROVE Sized(t, n) = n - 2 * h
    <2>1. n + h \in Nat /\ 2 * h \in Nat /\ 2 * h <= n + h /\ n + h < 2 * (2 * h)
      BY <1>1, <1>2, <1>4
    <2>2. (n + h) % (2 * h) = (n + h) - 2 * h
      BY <2>1, HighBits
    <2>3. QED
      BY <1>1, <2>2
  <1>5. QED
    BY <1>3, <1>4 DEF h

\* Cut by the codec to 64 bits and by the getter to the size of the property, a
\* number that 64 bits hold is what the getter alone makes of it.
LEMMA SizedTwice ==
    ASSUME NEW t \in IntTypes, NEW n \in Int, -Half[t] <= n, n < 2 * Half[t]
    PROVE  Sized(t, Sized("int64", n)) = Sized(t, n)
  <1> DEFINE h == Half[t]
             H == Half["int64"]
  <1>0. "int64" \in IntTypes
    BY DEF IntTypes
  <1>1. h \in Nat \ {0} /\ H \in Nat \ {0} /\ h <= H /\ (t # "int64" => 2 * h <= H)
    BY Widths
  <1>2. ASSUME n < H PROVE Sized("int64", n) = n
    <2>1. -H <= n /\ n < 2 * H
      BY <1>1, <1>2
    <2>2. QED
      BY <1>0, <1>2, <2>1, SizedConverts
  <1>3. ASSUME n >= H PROVE t = "int64"
    BY <1>1, <1>3
  <1>4. ASSUME n >= H, t = "int64" PROVE Sized(t, Sized("int64", n)) = Sized(t, n)
    <2>1. Sized("int64", n) = n - 2 * H
      BY <1>0, <1>4, SizedConverts
    <2>2. n - 2 * H \in Int /\ -H <= n - 2 * H /\ n - 2 * H < H /\ n - 2 * H < 2 * H
      BY <1>1, <1>4
    <2>3. Sized("int64", n - 2 * H) = n - 2 * H
      BY <1>0, <2>2, SizedConverts
    <2>4. QED
      BY <1>4, <2>1, <2>3
  <1>5. QED
    BY <1>1, <1>2, <1>3, <1>4

\* A Go integer, seen through the type its property has.
LEMMA IntegerKept ==
    ASSUME NEW v, IsGoValue(v), Supported(v.go), v.go \in Signed \cup Unsigned
    PROVE  /\ PropertyType(v.go) \in IntTypes
           /\ Promised(v) = [go |-> PropertyType(v.go),
                             n  |-> Sized(PropertyType(v.go), Sized("int64", v.n))]
  <1> DEFINE t == PropertyType(v.go)
             s == SameWidth(v.go)
  <1>1. v = [go |-> v.go, n |-> v.n] /\ v.n \in Int
    <2>1. v \in [go : GoType, n : Int]
      BY DEF IsGoValue
    <2>2. QED
      BY <2>1
  <1>2. \/ v.go \in IntTypes
        \/ v.go \in {"byte", "uint16", "uint32", "uint64", "int"}
    BY DEF Signed, Unsigned, Supported
  <1>3. /\ v.go \in IntTypes => t = v.go /\ s = v.go
        /\ v.go = "byte" => t = "int8" /\ s = "int8"
        /\ v.go \in {"uint16", "uint32", "uint64", "int"} => t = "int64"
        /\ v.go = "uint16" => s = "int16"
        /\ v.go = "uint32" => s = "int32"
        /\ v.go \in {"uint64", "int"} => s = "int64"
    BY DEF PropertyType, SameWidth, IntTypes
  <1>4. /\ v.go \in IntTypes \cup {"int"} => -Half[s] <= v.n /\ v.n < Half[s]
        /\ v.go \in {"byte", "uint16", "uint32", "uint64"} => 0 <= v.n /\ v.n < 2 * Half[s]
    BY DEF IsGoValue, Signed, Unsigned
  <1> HIDE DEF t, s
  <1>5. t \in IntTypes /\ s \in IntTypes
    BY <1>2, <1>3 DEF IntTypes
  <1>6. /\ Half[t] \in Nat \ {0} /\ Half[s] \in Nat \ {0} /\ Half["int64"] \in Nat \ {0}
        /\ s # "int64" => 2 * Half[s] <= Half["int64"]
    BY <1>5, Widths
  <1>7. -Half[t] <= v.n /\ v.n < 2 * Half[t] /\ (v.go \in IntTypes => v.n < Half[t])
    <2>1. CASE v.go \in IntTypes
      BY <1>1, <1>3, <1>4, <1>6, <2>1
    <2>2. CASE v.go = "byte"
      BY <1>1, <1>3, <1>4, <1>6, <2>2 DEF IntTypes
    <2>3. CASE v.go \in {"uint16", "uint32"}
      BY <1>1, <1>3, <1>4, <1>6, <2>3 DEF IntTypes
    <2>4. CASE v.go \in {"uint64", "int"}
      BY <1>1, <1>3, <1>4, <1>6, <2>4 DEF IntTypes
    <2>5. QED
      BY <1>2, <2>1, <2>2, <2>3, <2>4
  <1>8. Sized(t, Sized("int64", v.n)) = Sized(t, v.n)
    BY <1>1, <1>5, <1>7, SizedTwice
  <1>9. /\ v.n < Half[t] => Sized(t, v.n) = v.n
        /\ v.n >= Half[t] => Sized(t, v.n) = v.n - 2 * Half[t]
    BY <1>1, <1>5, <1>7, SizedConverts
  <1>10. Converted(t, v.n) = [go |-> t, n |-> Sized(t, v.n)]
    BY <1>1, <1>6, <1>9 DEF Converted
  <1>11. Promised(v) = [go |-> t, n |-> Sized(t, v.n)]
    <2>1. CASE v.go \in IntTypes
      <3>1. Promised(v) = v
        BY <2>1 DEF Promised, IntTypes
      <3>2. QED
        BY <1>1, <1>3, <1>7, <1>9, <2>1, <3>1
    <2>2. CASE v.go \notin IntTypes
      <3>1. Promised(v) = Converted(t, v.n)
        BY <1>2, <1>3, <2>2 DEF Promised
      <3>2. QED
        BY <1>10, <3>1
    <2>3. QED
      BY <2>1, <2>2
  <1>12. QED
    BY <1>5, <1>8, <1>11 DEF t

\* What SetProperty stores, the codec widens and GetTypedProperty reads is the
\* value that was set, of the type SetProperty promises; for every value it
\* does not refuse, and with every width an integer of that type may have.
THEOREM TypedPropertyKept ==
    ASSUME NEW v, IsGoValue(v), Supported(v.go), NEW q
    PROVE  /\ GetTypedProperty(Decoded(SetProperty(q, v)))
                 = [ok |-> TRUE, value |-> Promised(v)]
           /\ SetProperty(q, v) # NoProperty
  <1> DEFINE p == SetProperty(q, v)
             d == Decoded(p)
             I == Signed \cup Unsigned
  <1>1. v = [go |-> v.go, n |-> v.n] /\ v.go \in GoType /\ v.n \in Int
    <2>1. v \in [go : GoType, n : Int]
      BY DEF IsGoValue
    <2>2. QED
      BY <2>1
  <1>2. p = [type |-> PropertyType(v.go), value |-> v] /\ p.value.go = v.go
    BY DEF SetProperty
  <1>3. CASE v.go \in I
    <2> DEFINE t == PropertyType(v.go)
               n == Sized("int64", v.n)
    <2>1. d = [type |-> t, value |-> [go |-> "int64", n |-> n]]
      <3>1. p.value.go \in Signed \cup Unsigned
        BY <1>2, <1>3
      <3>2. v.go \notin {"float32", "float64"}
        BY <1>3 DEF Signed, Unsigned, IntTypes
      <3>3. p.value = v
        BY <1>2
      <3> HIDE DEF t, p
      <3>4. d = [p EXCEPT !.value = [go |-> "int64", n |-> Sized("int64", p.value.n)]]
        BY <3>1, <3>2, <3>3 DEF Decoded
      <3>5. QED
        BY <1>2, <3>3, <3>4 DEF t
    <2>2. t \in IntTypes /\ Promised(v) = [go |-> t, n |-> Sized(t, n)]
      BY <1>3, IntegerKept
    <2>4. GetTypedProperty(d) = [ok |-> TRUE, value |-> [go |-> t, n |-> Sized(t, n)]]
      <3> HIDE DEF t, n
      <3>1. d.type = t /\ d.value.go = "int64" /\ d.value.n = n
        BY <2>1
      <3>2. ParsedInt(d) = [ok |-> TRUE, value |-> [go |-> t, n |-> Sized(t, n)]]
        BY <3>1 DEF ParsedInt, Found, Signed, IntTypes
      <3>3. GetTypedProperty(d) = ParsedInt(d)
        <4>1. d.type \in IntTypes
          BY <2>2, <3>1
        <4>2. d.type \notin {"float32", "float64", "nil", "string"}
          BY <4>1 DEF IntTypes
        <4> HIDE DEF d
        <4>3. QED
          BY <4>1, <4>2 DEF GetTypedProperty
      <3>4. QED
        BY <3>2, <3>3
    <2>5. p # NoProperty
      BY <1>2, <2>2 DEF NoProperty, IntTypes
    <2>6. QED
      BY <2>2, <2>4, <2>5
  <1>4. CASE v.go \notin I
    <2>1. v.go \in {"float32", "float64", "string", "bool", "bytes", "nil"}
      BY <1>1, <1>4 DEF GoType
    <2>2. PropertyType(v.go) = v.go /\ Promised(v) = v
      BY <2>1 DEF PropertyType, Promised
    <2>3. p # NoProperty
      BY <1>2, <2>1, <2>2 DEF NoProperty
    <2>4. CASE v.go \in {"float32", "float64"}
      <3>1. d = [type |-> v.go, value |-> [go |-> "float64", n |-> v.n]]
        BY <1>1, <1>2, <2>2, <2>4 DEF Decoded, Signed, Unsigned, IntTypes
      <3>2. GetTypedProperty(d) = [ok |-> TRUE, value |-> [go |-> v.go, n |-> v.n]]
        <4>1. d.type = v.go /\ d.value.go = "float64" /\ d.value.n = v.n
          BY <3>1
        <4>2. GetTypedProperty(d) = ParsedFloat(d)
          BY <2>4, <4>1 DEF GetTypedProperty, IntTypes
        <4>3. QED
          BY <4>1, <4>2 DEF ParsedFloat, Found
      <3>3. QED
        BY <1>1, <2>2, <2>3, <3>2
    <2>5. CASE v.go \in {"string", "bool", "bytes", "nil"}
      <3>1. d = [type |-> v.go, value |-> v]
        BY <1>2, <2>2, <2>5 DEF Decoded, Signed, Unsigned, IntTypes
      <3>2. v.go = "nil" => v.n = 0
        BY DEF IsGoValue
      <3>3. GetTypedProperty(d) = [ok |-> TRUE, value |-> [go |-> v.go, n |-> v.n]]
        <4>1. d.type = v.go /\ d.value.go = v.go /\ d.value.n = v.n
          BY <3>1
        <4>2. CASE v.go = "nil"
          BY <3>2, <4>1, <4>2 DEF GetTypedProperty, Found, IntTypes
        <4>3. CASE v.go = "string"
          BY <4>1, <4>3 DEF GetTypedProperty, Found, IntTypes
        <4>4. CASE v.go \in {"bool", "bytes"}
          BY <4>1, <4>4 DEF GetTypedProperty, Found, IntTypes
        <4>5. QED
          BY <2>5, <4>2, <4>3, <4>4
      <3>4. QED
        BY <1>1, <2>2, <2>3, <3>3
    <2>6. QED
      BY <2>1, <2>4, <2>5
  <1>5. QED
    BY <1>3, <1>4

-----------------------------------------------------------------------------
(* Byte arrays.                                                            *)

\* A set of indexes has a largest element.
LEMMA IntervalMax ==
    ASSUME NEW n \in Nat, NEW T \in SUBSET (1..n), T # {}
    PROVE  \E x \in T : \A y \in T : y <= x
  <1> DEFINE U == {k \in Nat : \E i \in T : k + i = n}
  <1>1. U # {}
    <2>1. PICK i \in T : TRUE
      OBVIOUS
    <2>2. n - i \in Nat /\ (n - i) + i = n
      OBVIOUS
    <2>3. QED
      BY <2>2
  <1>2. PICK u \in U : \A v \in U : u <= v
    <2> DEFINE R == OpToRel(<, Nat)
    <2>1. \A x, y \in Nat : x < y => <<x, y>> \in R
      BY DEF OpToRel
    <2>2. IsWellFoundedOn(R, Nat) /\ U \in SUBSET Nat
      BY NatLessThanWellFounded
    <2> HIDE DEF R, U
    <2>3. PICK u \in U : \A v \in U : ~(<<v, u>> \in R)
      BY <1>1, <2>2, WFMin
    <2>4. \A v \in U : u \in Nat /\ v \in Nat /\ ~(v < u)
      BY <2>1, <2>2, <2>3
    <2>5. \A v \in U : u <= v
      BY <2>4
    <2>6. QED
      BY <2>5
  <1>3. PICK x \in T : u + x = n
    BY <1>2
  <1>4. ASSUME NEW y \in T PROVE y <= x
    <2>1. n - y \in U
      <3>1. n - y \in Nat /\ (n - y) + y = n
        OBVIOUS
      <3>2. QED
        BY <3>1
    <2>2. u \in Nat /\ x \in Nat /\ y \in Nat
      OBVIOUS
    <2> HIDE DEF U
    <2>4. u <= n - y
      BY <1>2, <2>1
    <2>3. QED
      BY <1>3, <2>2, <2>4
  <1>5. QED
    BY <1>4

\* Trimming zeros and padding with zeros gives an id back that does not begin
\* with one, of whatever length (copyByteArray, copyByteArrayIfNotEmpty).
THEOREM IdKept ==
    ASSUME NEW id \in Ids, id[1] # 0
    PROVE  copyByteArrayIfNotEmpty(copyByteArray(id)) = id
  <1> USE MsgConvAssumption DEF Ids
  <1> DEFINE Set   == {i \in DOMAIN id : id[i] # 0}
             first == CHOOSE i \in Set : \A j \in Set : i <= j
             end   == CHOOSE i \in Set : \A j \in Set : j <= i
             data  == SubSeq(id, first, end)
  <1>1. 1 \in Set /\ Set \in SUBSET (1..IdLength)
    OBVIOUS
  <1>2. copyByteArray(id) = data
    BY <1>1 DEF copyByteArray
  <1>3. first = 1
    <2> HIDE DEF Set
    <2>0. \E x \in Set : \A y \in Set : x <= y
      BY <1>1
    <2>1. first \in Set /\ \A j \in Set : first <= j
      BY <2>0
    <2> HIDE DEF first
    <2>2. QED
      BY <1>1, <2>1
  <1>4. end \in Set /\ \A j \in Set : j <= end
    <2> HIDE DEF Set
    <2>1. \E x \in Set : \A y \in Set : y <= x
      BY <1>1, IntervalMax
    <2>2. QED
      BY <2>1
  <1> HIDE DEF first, end
  <1>5. end \in 1..IdLength /\ id \in [1..IdLength -> Nat]
    BY <1>1, <1>4
  <1>6. /\ Len(data) = end
        /\ \A i \in 1..end : data[i] = id[i]
    <2>1. \A i \in 1..end : id[i] \in Nat
      BY <1>5
    <2>2. data = SubSeq(id, 1, end)
      BY <1>3
    <2>3. Len(SubSeq(id, 1, end)) = end
      BY <1>5, <2>1, SubSeqProperties
    <2>4. \A i \in 1..(end - 1 + 1) : SubSeq(id, 1, end)[i] = id[1 + i - 1]
      BY <1>5, <2>1, SubSeqProperties
    <2>5. end - 1 + 1 = end /\ \A i \in 1..end : 1 + i - 1 = i
      BY <1>5
    <2>6. QED
      BY <2>2, <2>3, <2>4, <2>5
  <1>7. \A i \in 1..IdLength : i > end => id[i] = 0
    BY <1>4, <1>5
  <1> HIDE DEF data
  <1>8. \A i \in 1..IdLength : (IF i <= Len(data) THEN data[i] ELSE 0) = id[i]
    BY <1>5, <1>6, <1>7
  <1>9. QED
    BY <1>2, <1>5, <1>8 DEF copyByteArrayIfNotEmpty

-----------------------------------------------------------------------------
(* The bridge.                                                             *)

\* What is registered was created, under its own description.
Registered ==
    \A k \in DOMAIN replyToInfo :
        /\ replyToInfo[k] \in ToSet(connectors)
        /\ ReplyKey(replyToInfo[k]) = k

ConnectorsOK == connectors \in Seq(Configs)

\* The messages that can have been sent, those of clients included, and how
\* a property is stored.
Sent == Messages \cup [id : {NoId}, replyQ : {""}, replyQMgr : {""}, value : {Absent}]
Values == {v \in MQValues \cup ClientValues \cup {Absent} : Supported(v.go)}
Stored(v) == IF v = Absent THEN NoProperty ELSE SetProperty(NoProperty, v)

OnWire == [sent : Sent, encoded : BOOLEAN, header : {mapMQMDToHeader(m) : m \in Sent},
           prop : {Stored(v) : v \in Values}, set : Values,
           client : {"none", "done", "panicked"},
           replySubject : Subjects \cup {""}, replyChannel : Channels \cup {""}]

\* The message on the wire has the header of the message that was sent, and
\* the property that was set last.
WireOK ==
    \/ wire = <<>>
    \/ \E w \in OnWire : /\ wire = <<w>>
                         /\ w.header = mapMQMDToHeader(w.sent)
                         /\ w.prop = Stored(w.set)

ConvInv ==
    /\ ConnectorsOK /\ Registered /\ WireOK
    /\ put # <<>> => wire # <<>>
    /\ ReplyLeadsBack /\ AnswerIsForwarded /\ HeaderSurvives /\ PropertiesSurvive

\* A key without a connector has no names.
LEMMA NoneIsEmpty == None.subject = "" /\ None.channel = "" /\ None.queue = ""
  BY DEF None

\* What Lookup finds was created and sends to where it was asked for.
LEMMA LookupFinds ==
    ASSUME ConnectorsOK, Registered, NEW k
    PROVE  \/ Lookup(k) = None
           \/ /\ \E i \in DOMAIN connectors : connectors[i] = Lookup(k)
              /\ Lookup(k) \in Configs
              /\ ReplyKey(Lookup(k)) = k
  <1>1. CASE k \notin DOMAIN replyToInfo
    BY <1>1 DEF Lookup
  <1>2. CASE k \in DOMAIN replyToInfo
    <2>1. Lookup(k) \in ToSet(connectors) /\ ReplyKey(Lookup(k)) = k
      BY <1>2 DEF Lookup, Registered
    <2>2. PICK i \in DOMAIN connectors : connectors[i] = Lookup(k)
      BY <2>1 DEF ToSet
    <2>3. connectors[i] \in Configs
      BY DEF ConnectorsOK
    <2>4. QED
      BY <2>1, <2>2, <2>3
  <1>3. QED
    BY <1>1, <1>2

\* The description tells the type of the connector and the name it sends to;
\* the other names are those of its configuration.
LEMMA KeyTells ==
    ASSUME NEW c \in Configs, NEW x
    PROVE  /\ ReplyKey(c) = <<"Q", x>> =>
                 /\ <<c.queue, QueueManager>> = x
                 /\ c.subject # "" => c.type = "NATS2Queue"
                 /\ c.channel # "" => c.type = "Stan2Queue"
           /\ ReplyKey(c) = <<"S", x>> =>
                 c.subject = x /\ (c.queue # "" => c.type = "Queue2NATS")
           /\ ReplyKey(c) = <<"C", x>> =>
                 c.channel = x /\ (c.queue # "" => c.type = "Queue2Stan")
  <1> USE DEF ReplyKey
  <1>1. CASE c \in ToNATS
    BY <1>1 DEF ToNATS
  <1>2. CASE c \in ToStan
    BY <1>2 DEF ToStan
  <1>3. CASE c \in FromNATS
    BY <1>3 DEF FromNATS
  <1>4. CASE c \in FromStan
    BY <1>4 DEF FromStan
  <1>5. CASE c \in TopicToNATS
    BY <1>5 DEF TopicToNATS
  <1>6. CASE c \in TopicToStan
    BY <1>6 DEF TopicToStan
  <1>7. QED
    BY <1>1, <1>2, <1>3, <1>4, <1>5, <1>6 DEF Configs

\* The names in a configuration are those of the instance, or empty.
LEMMA ConfigNames ==
    ASSUME NEW c \in Configs \cup {None}
    PROVE  c.subject \in Subjects \cup {""} /\ c.channel \in Channels \cup {""}
  <1>1. CASE c = None
    BY <1>1 DEF None
  <1>2. CASE c \in ToNATS
    BY <1>2 DEF ToNATS
  <1>3. CASE c \in ToStan
    BY <1>3 DEF ToStan
  <1>4. CASE c \in FromNATS
    BY <1>4 DEF FromNATS
  <1>5. CASE c \in FromStan
    BY <1>5 DEF FromStan
  <1>6. CASE c \in TopicToNATS
    BY <1>6 DEF TopicToNATS
  <1>7. CASE c \in TopicToStan
    BY <1>7 DEF TopicToStan
  <1>8. QED
    BY <1>1, <1>2, <1>3, <1>4, <1>5, <1>6, <1>7 DEF Configs

\* The invariant holds initially.
LEMMA ConvInit == Init => ConvInv
  BY DEF Init, ConvInv, ConnectorsOK, Registered, WireOK, ReplyLeadsBack, AnswerIsForwarded,
         HeaderSurvives, PropertiesSurvive

\* CreateConnector keeps the invariant.
LEMMA CreateStep ==
    ASSUME ConvInv, NEW c \in Configs, CreateConnector(c)
    PROVE  ConvInv'
  <1>1. wire = <<>> /\ put = <<>> /\ UNCHANGED <<wire, put>>
    BY DEF ConvInv, CreateConnector
  <1>2. connectors' = Append(connectors, c) /\ connectors \in Seq(Configs)
    BY DEF ConvInv, ConnectorsOK, CreateConnector
  <1>3. ConnectorsOK'
    BY <1>2 DEF ConnectorsOK
  <1>4. ToSet(connectors') = ToSet(connectors) \cup {c}
    <2>1. /\ DOMAIN connectors' = DOMAIN connectors \cup {Len(connectors) + 1}
          /\ \A i \in DOMAIN connectors : connectors'[i] = connectors[i]
          /\ connectors'[Len(connectors) + 1] = c
      BY <1>2
    <2>2. QED
      BY <2>1 DEF ToSet
  <1>5. Registered'
    BY <1>4 DEF ConvInv, Registered, CreateConnector
  <1>6. QED
    BY <1>1, <1>3, <1>5 DEF ConvInv, WireOK, ReplyLeadsBack, AnswerIsForwarded,
                            HeaderSurvives, PropertiesSurvive

\* A message leaves MQ.
LEMMA MQToNATSStep ==
    ASSUME ConvInv, NEW c, NEW m \in Messages, MQToNATSMessage(c, m)
    PROVE  ConvInv'
  <1> DEFINE to == IF m.replyQ = "" \/ m.replyQMgr = "" THEN None
                   ELSE Lookup(<<"Q", <<m.replyQ, m.replyQMgr>>>>)
             value == IF c.excludeHeaders THEN Absent ELSE m.value
             rs == IF c.type \in {"Queue2Stan", "Topic2Stan"} THEN "" ELSE to.subject
             rc == IF c.excludeHeaders \/ to.subject # "" THEN "" ELSE to.channel
             w  == [sent |-> m, encoded |-> ~c.excludeHeaders,
                    header |-> mapMQMDToHeader(m), prop |-> copyMessageProperties(value),
                    set |-> value, client |-> "none",
                    replySubject |-> rs, replyChannel |-> rc]
  <1>1. /\ wire = <<>> /\ put = <<>> /\ wire' = <<w>>
        /\ UNCHANGED <<connectors, replyToInfo, put>>
    BY DEF ConvInv, MQToNATSMessage
  <1>2. \/ to = None
        \/ /\ \E i \in DOMAIN connectors : connectors[i] = to
           /\ to \in Configs /\ to.queue = m.replyQ
           /\ to.subject # "" => to.type = "NATS2Queue"
           /\ to.channel # "" => to.type = "Stan2Queue"
    <2> DEFINE x == <<m.replyQ, m.replyQMgr>>
               l == Lookup(<<"Q", x>>)
    <2>1. to = None \/ to = l
      OBVIOUS
    <2> HIDE DEF to
    <2>2. \/ l = None
          \/ /\ \E i \in DOMAIN connectors : connectors[i] = l
             /\ l \in Configs /\ ReplyKey(l) = <<"Q", x>>
      BY LookupFinds DEF ConvInv
    <2> HIDE DEF l
    <2>3. ASSUME l \in Configs, ReplyKey(l) = <<"Q", x>>
          PROVE  /\ l.queue = m.replyQ
                 /\ l.subject # "" => l.type = "NATS2Queue"
                 /\ l.channel # "" => l.type = "Stan2Queue"
      <3> HIDE DEF x
      <3>1. /\ <<l.queue, QueueManager>> = x
            /\ l.subject # "" => l.type = "NATS2Queue"
            /\ l.channel # "" => l.type = "Stan2Queue"
        BY <2>3, KeyTells
      <3>2. QED
        BY <3>1 DEF x
    <2>4. QED
      BY <2>1, <2>2, <2>3
  <1> HIDE DEF to
  <1>3. to.subject \in Subjects \cup {""} /\ to.channel \in Channels \cup {""}
    BY <1>2, ConfigNames
  <1>4. value \in Values /\ m \in Sent /\ copyMessageProperties(value) = Stored(value)
    <2>1. m.value \in MQValues \cup {Absent} /\ m \in Sent
      BY DEF Messages, Sent
    <2>2. c.excludeHeaders \/ Supported(m.value.go)
      BY DEF MQToNATSMessage
    <2>3. value \in Values
      BY <2>1, <2>2 DEF Values, Absent, Supported
    <2>4. QED
      BY <2>1, <2>3 DEF copyMessageProperties, Stored
  <1>5. w \in OnWire
    <2>1. (~c.excludeHeaders) \in BOOLEAN
      OBVIOUS
    <2>2. rs \in Subjects \cup {""} /\ rc \in Channels \cup {""}
      BY <1>3
    <2> HIDE DEF rs, rc
    <2>3. QED
      BY <1>4, <2>1, <2>2 DEF OnWire
  <1>6. /\ w.replySubject = rs /\ w.replyChannel = rc /\ w.sent = m
        /\ w.header = mapMQMDToHeader(w.sent) /\ w.prop = Stored(w.set)
    BY <1>4
  <1> HIDE DEF w
  <1>7. wire'[1] = w /\ wire' # <<>>
    BY <1>1
  <1>8. WireOK'
    BY <1>1, <1>5, <1>6 DEF WireOK
  <1>9. ReplyLeadsBack'
    <2>1. rs # "" => \E i \in DOMAIN connectors :
                        /\ connectors[i].type = "NATS2Queue"
                        /\ connectors[i].subject = rs /\ connectors[i].queue = m.replyQ
      <3> SUFFICES ASSUME rs # "" PROVE \E i \in DOMAIN connectors :
                        /\ connectors[i].type = "NATS2Queue"
                        /\ connectors[i].subject = rs /\ connectors[i].queue = m.replyQ
        OBVIOUS
      <3>1. rs = to.subject /\ to.subject # ""
        OBVIOUS
      <3>2. to # None
        BY <3>1, NoneIsEmpty
      <3> HIDE DEF rs
      <3>3. QED
        BY <1>2, <3>1, <3>2
    <2>2. rc # "" => \E i \in DOMAIN connectors :
                        /\ connectors[i].type = "Stan2Queue"
                        /\ connectors[i].channel = rc /\ connectors[i].queue = m.replyQ
      <3> SUFFICES ASSUME rc # "" PROVE \E i \in DOMAIN connectors :
                        /\ connectors[i].type = "Stan2Queue"
                        /\ connectors[i].channel = rc /\ connectors[i].queue = m.replyQ
        OBVIOUS
      <3>1. rc = to.channel /\ to.channel # ""
        OBVIOUS
      <3>2. to # None
        BY <3>1, NoneIsEmpty
      <3> HIDE DEF rc
      <3>3. QED
        BY <1>2, <3>1, <3>2
    <2> HIDE DEF rs, rc
    <2>3. QED
      BY <1>1, <1>6, <1>7, <2>1, <2>2 DEF ReplyLeadsBack, Has
  <1>10. ConnectorsOK' /\ Registered'
    BY <1>1 DEF ConvInv, ConnectorsOK, Registered
  <1>11. AnswerIsForwarded' /\ HeaderSurvives' /\ PropertiesSurvive'
    BY <1>1 DEF AnswerIsForwarded, HeaderSurvives, PropertiesSurvive
  <1>12. QED
    BY <1>1, <1>8, <1>9, <1>10, <1>11 DEF ConvInv

\* A message of a client that has no id and no address for replies.
LEMMA ClientCreatesStep ==
    ASSUME ConvInv, NEW v \in ClientValues, ClientCreates(v)
    PROVE  ConvInv'
  <1> DEFINE m == [id |-> NoId, replyQ |-> "", replyQMgr |-> "", value |-> Absent]
             x == IF Supported(v.go) THEN v ELSE Absent
             w == [sent |-> m, encoded |-> TRUE, header |-> NoHeader,
                   prop |-> SetProperty(NoProperty, v), set |-> x, client |-> "done",
                   replySubject |-> "", replyChannel |-> ""]
  <1>1. NewMQMD.id = NoId
    BY DEF NewMQMD, NoHeader, mapHeaderToMQMD, copyByteArrayIfNotEmpty, NoId
  <1>2. /\ wire = <<>> /\ put = <<>> /\ wire' = <<w>>
        /\ UNCHANGED <<connectors, replyToInfo, put>>
    BY <1>1 DEF ConvInv, ClientCreates
  <1>3. mapMQMDToHeader(m) = NoHeader
    <2>1. copyByteArray(NoId) = <<>>
      BY DEF copyByteArray, NoId
    <2>2. QED
      BY <2>1 DEF mapMQMDToHeader, NoHeader
  <1>4. v # Absent /\ x \in Values
    <2>1. v.go \in GoType
      BY MsgConvAssumption DEF IsGoValue
    <2>2. v # Absent
      BY <2>1 DEF GoType, Signed, Unsigned, IntTypes, Absent
    <2>3. QED
      BY <2>2 DEF Values, Supported, Absent
  <1>5. SetProperty(NoProperty, v) = Stored(x) /\ m \in Sent
    BY <1>4 DEF Stored, SetProperty, Sent
  <1>6. w \in OnWire
    BY <1>3, <1>4, <1>5 DEF OnWire
  <1>7. /\ w.replySubject = "" /\ w.replyChannel = ""
        /\ w.header = mapMQMDToHeader(w.sent) /\ w.prop = Stored(w.set)
    BY <1>3, <1>5
  <1> HIDE DEF w
  <1>8. WireOK' /\ wire'[1] = w
    BY <1>2, <1>6, <1>7 DEF WireOK
  <1>9. ReplyLeadsBack'
    BY <1>7, <1>8 DEF ReplyLeadsBack
  <1>10. ConnectorsOK' /\ Registered'
    BY <1>2 DEF ConvInv, ConnectorsOK, Registered
  <1>11. AnswerIsForwarded' /\ HeaderSurvives' /\ PropertiesSurvive'
    BY <1>2 DEF AnswerIsForwarded, HeaderSurvives, PropertiesSurvive
  <1>12. QED
    BY <1>2, <1>8, <1>9, <1>10, <1>11 DEF ConvInv

\* What a client does to a message that it has decoded.
LEMMA ClientChangesStep ==
    ASSUME ConvInv, ClientDeleteProperty \/ \E v \in ClientValues : ClientSetProperty(v)
    PROVE  ConvInv'
  <1>1. wire # <<>> /\ put = <<>> /\ UNCHANGED <<connectors, replyToInfo, put>>
    BY DEF ConvInv, ClientDeleteProperty, ClientSetProperty, ClientHas
  <1>2. PICK w \in OnWire : /\ wire = <<w>>
                            /\ w.header = mapMQMDToHeader(w.sent) /\ w.prop = Stored(w.set)
    BY <1>1 DEF ConvInv, WireOK
  <1>3. PICK u \in OnWire : /\ wire' = <<u>> /\ u.header = w.header /\ u.sent = w.sent
                            /\ u.replySubject = w.replySubject
                            /\ u.replyChannel = w.replyChannel /\ u.prop = Stored(u.set)
    <2>1. CASE ClientDeleteProperty
      <3> DEFINE u == [w EXCEPT !.client = "done", !.prop = NoProperty, !.set = Absent]
      <3>1. wire' = <<u>>
        BY <1>2, <2>1 DEF ClientDeleteProperty
      <3>2. NoProperty = Stored(Absent) /\ Absent \in Values
        BY DEF Stored, Values, Absent, Supported
      <3>3. u \in OnWire
        BY <3>2 DEF OnWire
      <3>4. /\ u.header = w.header /\ u.sent = w.sent /\ u.replySubject = w.replySubject
            /\ u.replyChannel = w.replyChannel /\ u.prop = Stored(u.set)
        BY <3>2 DEF OnWire
      <3>5. QED
        BY <3>1, <3>3, <3>4
    <2>2. ASSUME NEW v \in ClientValues, ClientSetProperty(v)
          PROVE  \E u \in OnWire : /\ wire' = <<u>> /\ u.header = w.header /\ u.sent = w.sent
                                   /\ u.replySubject = w.replySubject
                                   /\ u.replyChannel = w.replyChannel /\ u.prop = Stored(u.set)
      <3> DEFINE u == [w EXCEPT !.client = "panicked"]
                 x == IF Supported(v.go) THEN v ELSE w.set
                 t == [w EXCEPT !.client = "done", !.prop = SetProperty(@, v), !.set = x]
      <3>1. wire' = <<u>> \/ wire' = <<t>>
        <4>1. wire[1] = w
          BY <1>2
        <4>2. t = [w EXCEPT !.client = "done", !.prop = SetProperty(@, v),
                            !.set = IF Supported(v.go) THEN v ELSE @]
          BY DEF OnWire
        <4> HIDE DEF t, u
        <4>3. QED
          BY <2>2, <4>1, <4>2 DEF ClientSetProperty, u
      <3>2. v # Absent /\ x \in Values
        <4>1. v.go \in GoType
          BY MsgConvAssumption DEF IsGoValue
        <4>2. v # Absent
          BY <4>1 DEF GoType, Signed, Unsigned, IntTypes, Absent
        <4>3. w.set \in Values
          BY DEF OnWire
        <4>4. QED
          BY <4>2, <4>3 DEF Values
      <3>3. SetProperty(w.prop, v) = Stored(x)
        BY <1>2, <3>2 DEF Stored, SetProperty
      <3>4. u \in OnWire /\ t \in OnWire
        BY <3>2, <3>3 DEF OnWire
      <3>5. /\ u.header = w.header /\ u.sent = w.sent /\ u.replySubject = w.replySubject
            /\ u.replyChannel = w.replyChannel /\ u.prop = Stored(u.set)
        BY <1>2 DEF OnWire
      <3>6. /\ t.header = w.header /\ t.sent = w.sent /\ t.replySubject = w.replySubject
            /\ t.replyChannel = w.replyChannel /\ t.prop = Stored(t.set)
        BY <3>3 DEF OnWire
      <3>7. QED
        BY <3>1, <3>4, <3>5, <3>6
    <2>3. QED
      BY <2>1, <2>2
  <1>4. WireOK' /\ wire'[1] = u /\ wire[1] = w
    BY <1>2, <1>3 DEF WireOK
  <1>5. ReplyLeadsBack'
    BY <1>1, <1>3, <1>4 DEF ConvInv, ReplyLeadsBack, Has
  <1>6. ConnectorsOK' /\ Registered'
    BY <1>1 DEF ConvInv, ConnectorsOK, Registered
  <1>7. AnswerIsForwarded' /\ HeaderSurvives' /\ PropertiesSurvive'
    BY <1>1 DEF AnswerIsForwarded, HeaderSurvives, PropertiesSurvive
  <1>8. QED
    BY <1>1, <1>4, <1>5, <1>6, <1>7 DEF ConvInv

\* The queue for replies, when there is one, is that of a connector to the
\* subject or channel that was asked for.
LEMMA ReplyQueueIsRead ==
    ASSUME ConnectorsOK, Registered, NEW r, NEW h, ReplyQueue(r, h) # ""
    PROVE  \E i \in DOMAIN connectors :
               /\ connectors[i].type \in {"Queue2NATS", "Queue2Stan"}
               /\ connectors[i].queue = ReplyQueue(r, h)
               /\ \/ connectors[i].subject \in {r} \ {""}
                  \/ connectors[i].channel \in {r, h} \ {""}
  <1>1. ASSUME NEW k, Lookup(k).queue # ""
        PROVE  /\ \E i \in DOMAIN connectors : connectors[i] = Lookup(k)
               /\ Lookup(k) \in Configs /\ ReplyKey(Lookup(k)) = k
    <2>1. Lookup(k) # None
      BY <1>1, NoneIsEmpty
    <2>2. QED
      BY <2>1, LookupFinds
  <1>3. \/ r # "" /\ Lookup(<<"S", r>>).queue # "" /\ ReplyQueue(r, h) = Lookup(<<"S", r>>).queue
        \/ r # "" /\ Lookup(<<"C", r>>).queue # "" /\ ReplyQueue(r, h) = Lookup(<<"C", r>>).queue
        \/ h # "" /\ Lookup(<<"C", h>>).queue # "" /\ ReplyQueue(r, h) = Lookup(<<"C", h>>).queue
    BY NoneIsEmpty DEF ReplyQueue
  <1>4. CASE r # "" /\ Lookup(<<"S", r>>).queue # "" /\ ReplyQueue(r, h) = Lookup(<<"S", r>>).queue
    <2> DEFINE c == Lookup(<<"S", r>>)
    <2>1. c \in Configs /\ ReplyKey(c) = <<"S", r>>
      BY <1>1, <1>4
    <2>2. PICK i \in DOMAIN connectors : connectors[i] = c
      BY <1>1, <1>4
    <2>3. c.type = "Queue2NATS" /\ c.subject = r /\ c.queue = ReplyQueue(r, h)
      BY <1>4, <2>1, KeyTells
    <2> HIDE DEF c
    <2>4. QED
      BY <1>4, <2>2, <2>3
  <1>5. ASSUME NEW x \in {r, h}, x # "", Lookup(<<"C", x>>).queue # "",
               ReplyQueue(r, h) = Lookup(<<"C", x>>).queue
        PROVE  \E i \in DOMAIN connectors :
                   /\ connectors[i].type \in {"Queue2NATS", "Queue2Stan"}
                   /\ connectors[i].queue = ReplyQueue(r, h)
                   /\ \/ connectors[i].subject \in {r} \ {""}
                      \/ connectors[i].channel \in {r, h} \ {""}
    <2> DEFINE c == Lookup(<<"C", x>>)
    <2>1. c \in Configs /\ ReplyKey(c) = <<"C", x>>
      BY <1>1, <1>5
    <2>2. PICK i \in DOMAIN connectors : connectors[i] = c
      BY <1>1, <1>5
    <2>3. c.type = "Queue2Stan" /\ c.channel = x /\ c.queue = ReplyQueue(r, h)
      BY <1>5, <2>1, KeyTells
    <2> HIDE DEF c
    <2>4. QED
      BY <1>5, <2>2, <2>3
  <1>6. QED
    BY <1>3, <1>4, <1>5

\* A message comes in.
LEMMA NATSToMQStep ==
    ASSUME ConvInv, NEW c, NEW r, NEW h, NATSToMQMessage(c, r, h)
    PROVE  ConvInv'
  <1> DEFINE mapped == ReplyQueue(r, h)
             mqmd   == IF c.excludeHeaders THEN NewMQMD ELSE mapHeaderToMQMD(wire[1].header)
             p == [replyTo |-> r, channel |-> h, relayed |-> ~c.excludeHeaders,
                   mapped |-> mapped, id |-> mqmd.id,
                   replyQ |-> IF mapped # "" THEN mapped ELSE mqmd.replyQ,
                   replyQMgr |-> IF mapped # "" THEN QueueManager ELSE mqmd.replyQMgr,
                   value |-> IF c.excludeHeaders THEN Absent
                             ELSE mapPropertiesToHandle(wire[1].prop).value]
  <1>1. /\ wire # <<>> /\ put' = <<p>> /\ UNCHANGED <<connectors, replyToInfo, wire>>
    BY DEF NATSToMQMessage
  <1>2. PICK w \in OnWire : /\ wire = <<w>>
                            /\ w.header = mapMQMDToHeader(w.sent) /\ w.prop = Stored(w.set)
    BY <1>1 DEF ConvInv, WireOK
  <1>3. wire'[1] = w /\ wire[1] = w
    BY <1>1, <1>2
  <1>4. /\ p.replyTo = r /\ p.channel = h /\ p.mapped = mapped
        /\ p.relayed => ~c.excludeHeaders
        /\ p.relayed => p.value = mapPropertiesToHandle(w.prop).value
        /\ p.relayed => p.id = mapHeaderToMQMD(w.header).id
        /\ (p.relayed /\ mapped = "") => p.replyQ = mapHeaderToMQMD(w.header).replyQ
        /\ (p.relayed /\ mapped = "") => p.replyQMgr = mapHeaderToMQMD(w.header).replyQMgr
    BY <1>3
  <1>5. AnswerIsForwarded'
    <2> HIDE DEF p
    <2>1. put'[1] = p
      BY <1>1
    <2>2. mapped # "" => \E i \in DOMAIN connectors :
               /\ connectors[i].type \in {"Queue2NATS", "Queue2Stan"}
               /\ connectors[i].queue = mapped
               /\ \/ connectors[i].subject \in {r} \ {""}
                  \/ connectors[i].channel \in {r, h} \ {""}
      BY ReplyQueueIsRead DEF ConvInv
    <2> HIDE DEF mapped
    <2>3. QED
      BY <1>1, <1>4, <2>1, <2>2 DEF AnswerIsForwarded, Has
  <1> HIDE DEF p, mqmd
  <1>6. put'[1] = p /\ put' # <<>>
    BY <1>1
  <1>7. HeaderSurvives'
    <2>1. w.sent.id \in Ids
      BY MsgConvAssumption DEF OnWire, Sent, Messages, Ids, NoId
    <2>2. /\ mapHeaderToMQMD(w.header).id = copyByteArrayIfNotEmpty(copyByteArray(w.sent.id))
          /\ mapHeaderToMQMD(w.header).replyQ = w.sent.replyQ
          /\ mapHeaderToMQMD(w.header).replyQMgr = w.sent.replyQMgr
      BY <1>2 DEF mapHeaderToMQMD, mapMQMDToHeader
    <2>3. QED
      BY <1>3, <1>4, <1>6, <2>1, <2>2, IdKept DEF HeaderSurvives
  <1>8. PropertiesSurvive'
    <2>1. mapPropertiesToHandle(w.prop).value = Promised(w.set)
      <3>1. CASE w.set = Absent
        <4>1. Promised(Absent) = Absent
          BY DEF Promised, Absent
        <4>2. mapPropertiesToHandle(NoProperty).value = Absent
          BY DEF mapPropertiesToHandle
        <4>3. QED
          BY <1>2, <3>1, <4>1, <4>2 DEF Stored
      <3>2. CASE w.set # Absent
        <4>2. IsGoValue(w.set) /\ Supported(w.set.go)
          BY <3>2, MsgConvAssumption DEF OnWire, Values
        <4>3. w.prop = SetProperty(NoProperty, w.set)
          BY <1>2, <3>2 DEF Stored
        <4>4. /\ GetTypedProperty(Decoded(w.prop)) = [ok |-> TRUE, value |-> Promised(w.set)]
              /\ w.prop # NoProperty
          BY <4>2, <4>3, TypedPropertyKept
        <4>5. mapPropertiesToHandle(w.prop) = [ok |-> TRUE, value |-> Promised(w.set)]
          BY <4>4 DEF mapPropertiesToHandle
        <4>6. QED
          BY <4>5
      <3>3. QED
        BY <3>1, <3>2
    <2>2. QED
      BY <1>3, <1>4, <1>6, <2>1 DEF PropertiesSurvive
  <1>9. ConnectorsOK' /\ Registered' /\ WireOK' /\ wire' # <<>> /\ ReplyLeadsBack'
    BY <1>1 DEF ConvInv, ConnectorsOK, Registered, WireOK, ReplyLeadsBack, Has
  <1>10. QED
    BY <1>5, <1>7, <1>8, <1>9 DEF ConvInv

\* Every step keeps the invariant.
LEMMA ConvStep == ConvInv /\ [Next]_vars => ConvInv'
  <1> SUFFICES ASSUME ConvInv, [Next]_vars PROVE ConvInv'
    OBVIOUS
  <1>1. CASE UNCHANGED vars
    BY <1>1 DEF vars, ConvInv, ConnectorsOK, Registered, WireOK, ReplyLeadsBack, Has,
                AnswerIsForwarded, HeaderSurvives, PropertiesSurvive
  <1>2. CASE Next
    BY <1>2, CreateStep, MQToNATSStep, NATSToMQStep, ClientCreatesStep, ClientChangesStep
       DEF Next
  <1>3. QED
    BY <1>1, <1>2

\* So it always holds.
LEMMA ConvInvariant == Spec => []ConvInv
  BY ConvInit, ConvStep, PTL DEF Spec

-----------------------------------------------------------------------------
(* The theorems.                                                           *)

\* However many connectors there are and whichever registered last, an address
\* for replies that the bridge gives out leads back to the queue that the MQ
\* application waits on (MQToNATSMessage, RegisterReplyInfo).
THEOREM RepliesLeadBack == Spec => []ReplyLeadsBack
  BY ConvInvariant, PTL DEF ConvInv

\* A reply queue that the bridge gives to an MQ application is read by a
\* connector that sends to what the requester named (NATSToMQMessage).
THEOREM AnswersAreForwarded == Spec => []AnswerIsForwarded
  BY ConvInvariant, PTL DEF ConvInv

\* Ids and reply-to queues survive a round trip with the header.
THEOREM HeadersSurvive == Spec => []HeaderSurvives
  BY ConvInvariant, PTL DEF ConvInv

\* The property that was set last, without an error, reaches MQ with the type
\* and value that SetProperty promises.
THEOREM PropertyValuesSurvive == Spec => []PropertiesSurvive
  BY ConvInvariant, PTL DEF ConvInv

=============================================================================
