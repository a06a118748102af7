---------------------------- MODULE MCRESPData ----------------------------
(* Values for RESPData: strings that are empty, short, or hold CR and LF and  *)
(* type bytes; null strings; a status line, an error and an integer; arrays   *)
(* of them, flat, empty and nested.                                           *)
EXTENDS RESPData

SomeDigits == [n \in -1..MaxNumber |-> ToString(n)]
SomeSymbols == {"+", "-", ":", "$", "*", "CR", "LF", "a"} \union {ToString(n) : n \in -1..MaxNumber}

Bulk(s) == [type |-> "$", str |-> s]
Line(t) == [type |-> t, str |-> <<"a">>]
Array(s) == [type |-> "*", vec |-> s]

Leaves ==
    {Bulk(<<>>), Bulk(<<"a">>), Bulk(<<"CR", "LF">>), Bulk(<<"$", "1">>), Line("+"), Line("-"),
     [type |-> ":", int |-> 2]}

NullString == Bulk(Null)

FlatArrays == {Array(<<>>)} \union {Array(<<x>>) : x \in Leaves} \union {Array(<<x, y>>) : x, y \in Leaves}
NestedArrays == {Array(<<Array(<<x>>), y>>) : x, y \in Leaves}
NullArrays == {Array(<<NullString>>), Array(<<NullString, Line("+")>>)}

SomeValues == Leaves \union {NullString} \union FlatArrays \union NestedArrays \union NullArrays

SomeFollowers == {Bulk(<<"a">>), Line("+"), Array(<<Bulk(<<"a">>), Bulk(<<>>)>>)}

SomeHeight == [v \in SomeValues |-> IF v.type # "*" THEN 0 ELSE IF v \in NestedArrays THEN 2 ELSE 1]
=============================================================================
