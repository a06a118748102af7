----------------------------- MODULE KVStorage -----------------------------
(* The containers of src/KVStorage/Containers.cpp: STDMapContainer, whose     *)
(* DataObjects expire (include/KVStorage/DataObjects.h), and STDListContainer.*)
(* What a map's entry holds is left out: nothing reads it back.               *)
EXTENDS Integers, Sequences, FiniteSets

CONSTANTS
    Keys,
    MaxTime,    \* bound: the clock and the expiry times stay in 0..MaxTime
    MaxPushes,  \* bound: objects pushed on the list
    SizeT,      \* the size_t values: 0..SizeT-1
    None,       \* no time, no answer
    Garbage     \* what is left of a destroyed object

ASSUME KVStorageAssumption ==
    /\ MaxTime \in Nat /\ MaxPushes \in Nat
    /\ SizeT \in Nat /\ SizeT > 2 * MaxPushes
    /\ None \notin Int /\ Garbage \notin Int

VARIABLES
    container,  \* std::map: key |-> [expired, timeExpire]; entries stay for ever
    now,        \* General::getTimestampNow(), the system clock
    list,       \* std::deque of the objects, named by the order of their push
    usable,     \* no call is caught in a loop, no undefined behaviour was met
    until,      \* history: the expiry of each key's last set, None since a del
    seen,       \* history: the latest time exist was asked about the key since
    said,       \* history: the last answer of exist since
    sides,      \* history: the side named by each push
    taken,      \* history: what the pops returned
    cleared     \* history: how many objects clear() destroyed

clockVars == <<now>>
mapVars == <<container, until, seen, said>>
listVars == <<list, sides, taken, cleared>>
vars == <<clockVars, mapVars, listVars, usable>>

Times == 0..MaxTime

Init ==
    /\ container = [k \in {} |-> None]
    /\ now \in Times
    /\ list = <<>>
    /\ usable = TRUE
    /\ until = [k \in Keys |-> None]
    /\ seen = [k \in Keys |-> None]
    /\ said = [k \in Keys |-> None]
    /\ sides = <<>> /\ taken = <<>> /\ cleared = 0

\* The system clock runs, and may be set back.
SetClock(t) ==
    /\ t # now
    /\ now' = t
    /\ UNCHANGED <<mapVars, listVars, usable>>

-----------------------------------------------------------------------------
(* STDMapContainer.                                                           *)

\* The history starts anew with a set, or with a del.
Told(k, t) ==
    /\ until' = [until EXCEPT ![k] = t]
    /\ seen' = [seen EXCEPT ![k] = None]
    /\ said' = [said EXCEPT ![k] = None]
    /\ UNCHANGED <<clockVars, listVars, usable>>

Entry(expired, t) == [expired |-> expired, timeExpire |-> t]
Put(k, e) == [x \in DOMAIN container \union {k} |-> IF x = k THEN e ELSE container[x]]

\* checkValid: the answer. An entry found expired is marked as such.
CheckValid(e) == ~e.expired /\ now < e.timeExpire

\* set without an expiry time stores 0.
Set(k, t) ==
    /\ container' = Put(k, Entry(FALSE, t))
    /\ Told(k, t)

\* del marks the entry and leaves it in the map.
Del(k) ==
    /\ k \in DOMAIN container
    /\ container' = [container EXCEPT ![k].expired = TRUE]
    /\ Told(k, None)

Asked(k, reply) ==
    /\ said' = [said EXCEPT ![k] = reply]
    /\ seen' = [seen EXCEPT ![k] = IF @ = None \/ @ < now THEN now ELSE @]
    /\ UNCHANGED <<until, clockVars, listVars, usable>>

\* Mistake: an entry found expired is not marked.
ExistForgets(k) ==
    /\ Asked(k, IF k \in DOMAIN container /\ CheckValid(container[k]) THEN 1 ELSE 0)
    /\ UNCHANGED container

Exist(k) ==
    /\ Asked(k, IF k \in DOMAIN container /\ CheckValid(container[k]) THEN 1 ELSE 0)
    /\ container' = [x \in DOMAIN container |->
                        IF x = k THEN [container[x] EXCEPT !.expired = @ \/ ~CheckValid(container[k])]
                        ELSE container[x]]

\* getKeys and getKeyNum never advance their iterator: on a map that ever held
\* a key they do not come back.
GetKeys ==
    /\ DOMAIN container # {}
    /\ usable' = FALSE
    /\ UNCHANGED <<clockVars, mapVars, listVars>>

-----------------------------------------------------------------------------
(* STDListContainer.                                                          *)

Pushed(side) ==
    /\ Len(sides) < MaxPushes
    /\ sides' = Append(sides, side)
    /\ UNCHANGED <<taken, cleared, clockVars, mapVars, usable>>

Fresh == Len(sides) + 1

\* Mistake: the left is the front.
LPushFront ==
    /\ Pushed("left")
    /\ list' = <<Fresh>> \o list

\* lpush appends at the back and rpush at the front.
LPush ==
    /\ Pushed("left")
    /\ list' = Append(list, Fresh)

RPush ==
    /\ Pushed("right")
    /\ list' = <<Fresh>> \o list

\* A pop destroys the object and then copies it: the caller gets the object, or
\* what the destructor and the allocator left of it.
Popped(object) ==
    /\ taken' = Append(taken, object) \/ taken' = Append(taken, Garbage)
    /\ UNCHANGED <<sides, cleared, clockVars, mapVars, usable>>

\* Mistake: the object is returned and stays.
LPeek ==
    /\ list # <<>> /\ Len(taken) < MaxPushes
    /\ Popped(Head(list))
    /\ UNCHANGED list

LPop ==
    /\ list # <<>>
    /\ Popped(Head(list))
    /\ list' = Tail(list)

RPop ==
    /\ list # <<>>
    /\ Popped(list[Len(list)])
    /\ list' = SubSeq(list, 1, Len(list) - 1)

\* front() or back() of an empty deque is undefined.
PopNothing ==
    /\ list = <<>>
    /\ usable' = FALSE
    /\ UNCHANGED <<clockVars, mapVars, listVars>>

\* Mistake: the size is returned, the deque stays.
ClearNothing ==
    /\ cleared' = cleared + Len(list)
    /\ UNCHANGED <<list, sides, taken, clockVars, mapVars, usable>>

Clear ==
    /\ cleared' = cleared + Len(list)
    /\ list' = <<>>
    /\ UNCHANGED <<sides, taken, clockVars, mapVars, usable>>

Size(i) == i % SizeT
Least(a, b) == IF a < b THEN a ELSE b

\* Mistake: the range is compared as int.
GetRangeSigned(l, r0, r1) == IF r0 < 0 THEN l ELSE SubSeq(l, r0 + 1, Least(r1, Len(l)))

\* getrange walks from r0 while below r1 and in the list; the comparisons are
\* made in size_t, where a negative bound is a large one.
GetRange(l, r0, r1) == SubSeq(l, Size(r0) + 1, Least(Size(r1), Len(l)))

-----------------------------------------------------------------------------
Next ==
    \/ \E t \in Times : SetClock(t)
    \/ /\ usable
       /\ \/ \E k \in Keys, t \in Times : Set(k, t)
          \/ \E k \in Keys : Del(k) \/ Exist(k)
          \/ GetKeys
          \/ LPush \/ RPush
          \/ LPop \/ RPop \/ PopNothing
          \/ Clear

Spec == Init /\ [][Next]_vars

-----------------------------------------------------------------------------
(* Properties.                                                                *)

Objects(s) == {s[i] : i \in DOMAIN s} \ {Garbage}

TypeOK ==
    /\ DOMAIN container \subseteq Keys
    /\ \A k \in DOMAIN container : container[k] \in [expired : BOOLEAN, timeExpire : Times]
    /\ now \in Times /\ usable \in BOOLEAN
    /\ until \in [Keys -> Times \union {None}] /\ seen \in [Keys -> Times \union {None}]
    /\ said \in [Keys -> {0, 1, None}]
    /\ Len(list) <= MaxPushes /\ Objects(list) \subseteq 1..Len(sides)
    /\ \A i \in DOMAIN sides : sides[i] \in {"left", "right"}
    /\ Len(taken) <= MaxPushes
    /\ cleared \in 0..MaxPushes

\* Of keys set with an expiry, exist answers 1 for exactly those that were set, not
\* deleted since, and never asked about at or after their expiry: a key once
\* reported gone stays gone when the clock is set back, and a clock that passed the
\* expiry and was set back unobserved does no harm (checkValid, DataObjects.h:86).
ExistsByHistory ==
    \A k \in Keys :
        said[k] # None /\ until[k] # 0 =>
            (said[k] = 1 <=> until[k] # None /\ seen[k] < until[k])

\* A key set without an expiry, for which 0 is stored, is there until it is deleted
\* ("0 as not expire by time", DataObjects.h:35).
ZeroNeverExpires == \A k \in Keys : said[k] # None /\ until[k] = 0 => said[k] = 1

\* Every object pushed is in the list, was popped, or was cleared, and is in one
\* place only, whatever order the calls came in.
EachOnce ==
    /\ Len(list) + Len(taken) + cleared = Len(sides)
    /\ Objects(list) \intersect Objects(taken) = {}
    /\ Cardinality(Objects(list)) = Len(list)

\* Along the list, a later object comes behind an earlier one if side pushed it, and
\* before it if the other side did.
EndOf(side) ==
    \A i, j \in DOMAIN list : list[i] < list[j] => (i < j <=> sides[list[j]] = side)

\* The two sides are the two ends, whichever is which, and pops and clears leave the
\* objects in the order the pushes gave them.
ListOrder == EndOf("left") \/ EndOf("right")

\* lpush pushes at the front, where lpop pops ("push left", "pop left",
\* KVInterface.h:30): what was pushed left has only later objects before it.
LeftIsFront ==
    \A j \in DOMAIN list : sides[list[j]] = "left" => \A i \in 1..(j - 1) : list[i] > list[j]

\* getrange gives the elements from r0 up to, not including, r1; a negative r1
\* means the end, a negative r0 an empty result (the size_t comparison,
\* Containers.cpp:136).
RangeIsSlice ==
    \A r0, r1 \in (-MaxPushes)..(MaxPushes + 1) :
        LET inside(i) == 0 <= r0 /\ r0 < i /\ (r1 < 0 \/ i <= r1)
            got == GetRange(list, r0, r1)
        IN  /\ Objects(got) = {list[i] : i \in {j \in DOMAIN list : inside(j)}}
            /\ \A i, j \in DOMAIN got : i < j =>
                 \E a, b \in DOMAIN list : a < b /\ list[a] = got[i] /\ list[b] = got[j]
=============================================================================
