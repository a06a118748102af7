------------------------------ MODULE RESPData ------------------------------
(* The RESP parser and encoder of src/RESPSolver/RESPData.cpp, on a text that *)
(* arrives in segments.  A text is a sequence of symbols: a type byte, a      *)
(* decimal number, a byte of a string, CR or LF.                              *)
EXTENDS Integers, SequencesExt

CONSTANTS
    Symbols,    \* what texts are made of
    Digits,     \* std::to_string: the symbol of each number
    MaxNumber,  \* bound: the numbers that have one
    Null,       \* the str of a null string
    Height,     \* how deep each value is nested, and each part of one
    Values,     \* what is sent
    Followers,  \* what may be sent after it
    MaxSegment  \* bound: symbols arriving at once

Types == {"+", "-", ":", "$", "*"}
CRLF == <<"CR", "LF">>
Numbers == -1..MaxNumber
Parts == DOMAIN Height

\* A line has no CR in it.  A string may hold anything.
Lines == [type : {"+", "-"}, str : Seq(Symbols \ {"CR"})]
Ints == [type : {":"}, int : Numbers]
Strings == [type : {"$"}, str : {Null} \union {s \in Seq(Symbols) : Len(s) <= MaxNumber}]
Arrays == [type : {"*"}, vec : {s \in Seq(Parts) : Len(s) <= MaxNumber}]

ASSUME RESPAssumption ==
    /\ MaxNumber \in Nat /\ MaxSegment \in Nat \ {0}
    /\ Types \union {"CR", "LF"} \subseteq Symbols
    /\ Digits \in [Numbers -> Symbols \ {"CR"}]
    /\ \A m, n \in Numbers : Digits[m] = Digits[n] => m = n
    /\ Height \in [Parts -> Nat]
    /\ Values \subseteq Parts /\ Followers \subseteq Parts
    /\ Parts \subseteq Lines \union Ints \union Strings \union Arrays
    /\ \A v \in Parts \intersect Arrays : \A i \in DOMAIN v.vec : Height[v.vec[i]] < Height[v]

VARIABLES
    value,      \* the value being received
    behind,     \* the one sent after it
    text,       \* what has arrived, from the start of value
    outcome     \* what checkData(text, 0) gave: [status, data, next]

vars == <<value, behind, text, outcome>>

\* What v is written as, parsed[w] being what an element w is.  (A null string as
\* other programs write it: this one has none to send.)
EncodedBy(parsed, v) ==
    CASE v.type \in {"+", "-"} -> <<v.type>> \o v.str \o CRLF
      [] v.type = ":" -> <<":", Digits[v.int]>> \o CRLF
      [] v.type = "$" /\ v.str = Null -> <<"$", Digits[-1]>> \o CRLF
      [] v.type = "$" /\ v.str # Null -> <<"$", Digits[Len(v.str)]>> \o CRLF \o v.str \o CRLF
      [] v.type = "*" -> <<"*", Digits[Len(v.vec)]>> \o CRLF
                           \o FlattenSeq([i \in DOMAIN v.vec |-> parsed[v.vec[i]]])

parseRESPString[v \in Parts] == EncodedBy(parseRESPString, v)

-----------------------------------------------------------------------------
\* The results of checkData: a part, with the offset of the next one; status 1,
\* more to come; status -1, an error; Undefined, where the code goes on at an
\* offset out of the text's bounds or never set, and anything may come of it; and
\* Thrown, where std::stoi throws at what is no number.
NoData == [type |-> "none"]
Part(data, next) == [status |-> 0, data |-> data, next |-> next]
Failed(status) == [status |-> status, data |-> NoData, next |-> 0]
Undefined == 2
Thrown == 3
Unset == -1

IsNumber(symbol) == \E n \in Numbers : Digits[n] = symbol
Number(symbol) == CHOOSE n \in Numbers : Digits[n] = symbol

\* Mistake: the offset from the beginning of the text.
searchFromZero(s, offset) ==
    LET crs == {i \in offset..(Len(s) - 1) : s[i + 1] = "CR"} IN
    IF crs = {} THEN -1 ELSE CHOOSE i \in crs : \A j \in crs : i <= j

\* _searchNextPr: the distance to the next CR, or -1.
searchNextPr(s, offset) ==
    LET crs == {i \in offset..(Len(s) - 1) : s[i + 1] = "CR"} IN
    IF crs = {} THEN -1 ELSE (CHOOSE i \in crs : \A j \in crs : i <= j) - offset

\* Mistake: > for >=.
tooShort(size, start, len) == start + len > size

\* A bulk string is not complete: not even one byte behind its content is there.
incomplete(size, start, len) == start + len >= size

\* Mistake: the CRLF is added once more.
afterTwoEnds(start, len) == start + len + 4

\* The next part after a bulk string's content and CRLF.
afterBulk(start, len) == start + len + 2

\* The elements of an array, one after the other from an offset on, checked[o]
\* being what checkData gives at o; the first failure is the array's.
checkElements(checked, from, n) ==
    LET read[i \in 0..n] ==
            IF i = 0 THEN Part([type |-> "*", vec |-> <<>>], from)
            ELSE LET before == read[i - 1]
                     element == checked[before.next]
                 IN  IF before.status # 0 THEN before
                     ELSE IF element.status # 0 THEN Failed(element.status)
                     ELSE Part([type |-> "*", vec |-> Append(before.data.vec, element.data)], element.next)
    IN  read[n]

\* One call of checkData.  One symbol past the end is the string's NUL, and
\* further is out of its bounds.  (A negative number of elements is, as a size_t,
\* more than a text has.)
checkPart(s, checked, offset) ==
    LET inBounds == offset \in 0..Len(s)
        dataType == IF offset = Len(s) THEN "NUL" ELSE s[offset + 1]
        sub == offset + 1
        pr == searchNextPr(s, sub)
        start == sub + pr + 2
        number == Number(s[sub + 1])
        found == inBounds /\ dataType \in Types /\ pr # -1
        counted == found /\ dataType \notin {"+", "-"} /\ IsNumber(s[sub + 1])
    IN  CASE ~inBounds -> Failed(Undefined)
          [] inBounds /\ dataType \notin Types -> Failed(-1)
          [] inBounds /\ dataType \in Types /\ pr = -1 -> Failed(1)
          [] found /\ dataType \in {"+", "-"} ->
                Part([type |-> dataType, str |-> SubSeq(s, sub + 1, sub + pr)], start)
          [] found /\ dataType \notin {"+", "-"} /\ ~IsNumber(s[sub + 1]) -> Failed(Thrown)
          [] counted /\ dataType = ":" -> Part([type |-> ":", int |-> number], start)
          [] counted /\ dataType = "$" /\ number = -1 -> Part([type |-> "$", str |-> Null], Unset)
          [] counted /\ dataType = "$" /\ number # -1 ->
                IF incomplete(Len(s), start, number) THEN Failed(1)
                ELSE Part([type |-> "$", str |-> SubSeq(s, start + 1, start + number)],
                          afterBulk(start, number))
          [] counted /\ dataType = "*" ->
                checkElements(checked, start, IF number < 0 THEN Len(s) + 2 ELSE number)

\* checkData at an offset (from 0).
checkData(s, offset) == LET checked[o \in Int] == checkPart(s, checked, o) IN checked[offset]

-----------------------------------------------------------------------------
Init ==
    /\ value \in Values /\ behind \in Followers
    /\ text = <<>>
    /\ outcome = checkData(<<>>, 0)

\* A segment arrives, and the whole text is judged again.
Receive(n) ==
    LET sent == parseRESPString[value] \o parseRESPString[behind] IN
    /\ Len(text) + n <= Len(sent)
    /\ text' = SubSeq(sent, 1, Len(text) + n)
    /\ outcome' = checkData(text', 0)
    /\ UNCHANGED <<value, behind>>

Next == \E n \in 1..MaxSegment : Receive(n)

Spec == Init /\ [][Next]_vars

-----------------------------------------------------------------------------
(* Properties.                                                                *)

whole == Len(parseRESPString[value])

hasNull[v \in Parts] ==
    \/ v.type = "$" /\ v.str = Null
    \/ v.type = "*" /\ \E i \in DOMAIN v.vec : hasNull[v.vec[i]]

\* The next part is never sought more than one byte past the end, only a null
\* string leaves it unset, and std::stoi is given numbers only.
TypeOK ==
    /\ value \in Values /\ behind \in Followers
    /\ outcome.status \in {-1, 0, 1, Undefined}
    /\ outcome.next \in 0..(Len(text) + 1) \union (IF hasNull[value] THEN {Unset} ELSE {})

\* A value that has arrived is read back as it was sent, whatever has arrived
\* behind it and whatever bytes its strings hold, and the next part begins where
\* it ends.  (Not of null strings: line 141 returns without the next part.)
RoundTrip == Len(text) >= whole /\ ~hasNull[value] => outcome = Part(value, whole)

\* Where v's element i begins, and where the parts of v do: v itself, and its
\* elements' parts.
Begin(v, i) == 4 + Len(FlattenSeq([j \in 1..(i - 1) |-> parseRESPString[v.vec[j]]]))
starts[v \in Parts] ==
    {0} \union IF v.type = "*"
               THEN UNION {{Begin(v, i) + from : from \in starts[v.vec[i]]} : i \in DOMAIN v.vec} ELSE {}

\* What checkData makes of the beginning of a value without null strings.  It gives
\* a value only where nothing but the last LF is missing, and then the value that is
\* coming, with the place where it will end; and a text that breaks off inside a part
\* is not complete.  (What it says where a part is to start is left open.)
PrefixVerdict ==
    Len(text) < whole /\ ~hasNull[value] =>
        /\ outcome.status = 0 => Len(text) + 1 = whole /\ outcome = Part(value, whole)
        /\ \/ outcome.status = 1
           \/ Len(text) + 1 = whole
           \/ Len(text) \in starts[value] \/ Len(text) + 1 \in starts[value]

\* As the header has it, "resultStatus < 0 the input string is invalid"
\* (RESPData.h:30): the beginning of a value is not, for the rest may come.
InvalidOnly ==
    0 < Len(text) /\ Len(text) < whole /\ ~hasNull[value] => outcome.status # -1

\* A value is complete when all of it is there ("data not complete",
\* RESPData.cpp:144, is status 1).
CompleteOnly == outcome.status = 0 /\ ~hasNull[value] => Len(text) >= whole
=============================================================================
