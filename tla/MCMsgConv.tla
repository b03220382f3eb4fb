------------------------------ MODULE MCMsgConv ------------------------------
(***************************************************************************)
(* An instance of MsgConv for TLC: integers of 3, 5, 7 and 9 bits for the  *)
(* types of 8, 16, 32 and 64.  Of every signed type the values at the ends *)
(* of its range, of every unsigned one those on both sides of what the     *)
(* signed type of that width holds.                                        *)
(***************************************************************************)
EXTENDS MsgConv

SmallHalf ==
    [t \in IntTypes |-> CASE t = "int8" -> 4 [] t = "int16" -> 16
                         [] t = "int32" -> 64 [] t = "int64" -> 256]

Of(t, N) == {[go |-> t, n |-> k] : k \in N}
Edges(t) ==
    LET h == SmallHalf[SameWidth(t)] IN
    Of(t, IF t \in Signed THEN {-h, h - 1} ELSE {h - 1, h})

\* What the MQ library hands to SetProperty.
LibraryValues ==
    UNION {Edges(t) : t \in IntTypes} \cup
    Of("float32", {1}) \cup Of("float64", {1}) \cup Of("string", {0}) \cup
    Of("bool", {0, 1}) \cup Of("bytes", {0}) \cup {Nil}

\* What only a client hands to it.
UnsignedAndInt == UNION {Edges(t) : t \in Unsigned \cup {"int"}}

=============================================================================
