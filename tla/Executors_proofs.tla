-------------------------- MODULE Executors_proofs --------------------------
(* Theorems about Executors, for any keys, values, files and bounds.          *)
EXTENDS Executors, FiniteSetTheorems, WellFoundedInduction, TLAPS

-----------------------------------------------------------------------------
(* Numbers and sequences.                                                     *)

\* A set of naturals that has an element has a least one.
LEMMA LeastElement ==
    ASSUME NEW S \in SUBSET Nat, S # {}
    PROVE  \E m \in S : \A n \in S : m <= n
<1> DEFINE upTo == {0..n : n \in S}
<1>1. upTo \subseteq FiniteSubsetsOf(Nat) /\ upTo # {}
  <2>1. ASSUME NEW n \in S PROVE 0..n \in SUBSET Nat /\ IsFiniteSet(0..n)
    BY FS_Interval
  <2> QED
    BY <2>1 DEF FiniteSubsetsOf
<1>2. PICK x \in upTo : \A y \in upTo : ~(<<y, x>> \in StrictSubsetOrdering(Nat))
  <2> HIDE DEF upTo
  <2> QED
    BY <1>1, FS_StrictSubsetOrderingWellFounded, WFMin
<1>3. PICK m \in S : x = 0..m
  BY <1>2
<1>4. ASSUME NEW n \in S PROVE m <= n
  <2> SUFFICES ASSUME n < m PROVE FALSE
    OBVIOUS
  <2>1. 0..n \subseteq 0..m /\ m \in 0..m /\ m \notin 0..n
    OBVIOUS
  <2>2. <<0..n, x>> \in StrictSubsetOrdering(Nat)
    BY <2>1, <1>3 DEF StrictSubsetOrdering
  <2> QED
    BY <2>2, <1>2
<1> QED
  BY <1>4

\* A set of numbers up to n that has an element has a greatest one, and Max is it.
LEMMA GreatestElement ==
    ASSUME NEW n \in Nat, NEW S \in SUBSET (1..n), S # {}
    PROVE  Max(S) \in S /\ \A x \in S : x <= Max(S)
<1> DEFINE below == {n - x : x \in S}
<1>1. below \in SUBSET Nat /\ below # {}
  <2>1. \A x \in S : n - x \in Nat
    OBVIOUS
  <2> QED
    BY <2>1
<1>2. PICK b \in below : \A y \in below : b <= y
  <2> HIDE DEF below
  <2> QED
    BY <1>1, LeastElement
<1>3. PICK m \in S : b = n - m
  BY <1>2
<1>4. \A x \in S : m >= x
  BY <1>2, <1>3
<1> QED
  BY <1>4 DEF Max

\* s is a sequence of something.
IsSeq(s) == \E S : s \in Seq(S)

\* What Append does.
LEMMA Appended ==
    ASSUME NEW s, IsSeq(s), NEW e
    PROVE  /\ IsSeq(Append(s, e))
           /\ Len(s) \in Nat /\ DOMAIN s = 1..Len(s)
           /\ Len(Append(s, e)) = Len(s) + 1
           /\ DOMAIN Append(s, e) = 1..(Len(s) + 1)
           /\ \A i \in 1..Len(s) : Append(s, e)[i] = s[i]
           /\ Append(s, e)[Len(s) + 1] = e
<1>1. PICK S : s \in Seq(S)
  BY DEF IsSeq
<1>2. s \in Seq(S \union {e}) /\ e \in S \union {e}
  BY <1>1
<1>3. Append(s, e) \in Seq(S \union {e})
  BY <1>2
<1> QED
  BY <1>2, <1>3 DEF IsSeq

-----------------------------------------------------------------------------
(* The commands that can be read.                                             *)

\* A DEL or an EXISTS names up to MaxArgs keys, a SET a key and a value, a GET a
\* key; any other command has a name of its own.
LEMMA CommandShape ==
    ASSUME NEW c \in Commands
    PROVE  /\ c.name \in {"DEL", "EXISTS"} =>
                 \E n \in 0..MaxArgs : c.args \in [1..n -> Keys]
           /\ c.name = "SET" => c.args[1] \in Keys /\ c.args[2] \in Values
           /\ c.name = "GET" => c.args[1] \in Keys
           /\ c.name \in Known \union Unknown
<1> DEFINE argument == Keys \union {NoString}
<1> USE ExecutorsAssumption
<1>1. c \in Requests /\ Readable(c)
  BY DEF Commands
<1>2. CASE c.name \in {"DEL", "EXISTS"}
  <2>1. c.args \in UNION {[1..n -> argument] : n \in 0..MaxArgs}
    BY <1>1, <1>2 DEF Requests, Known
  <2>2. PICK n \in 0..MaxArgs : c.args \in [1..n -> argument]
    BY <2>1
  <2>3. \A i \in 1..n : c.args[i] \in Keys
    BY <1>1, <1>2, <2>2 DEF Readable, ReadBy
  <2> QED
    BY <1>2, <2>2, <2>3 DEF Known
<1>3. CASE c.name = "SET"
  <2>1. c.args \in {<<>>} \union {<<k>> : k \in argument}
                     \union (argument \X (Values \union {NoString}))
    BY <1>1, <1>3 DEF Requests, Known
  <2>2. /\ 1 \in DOMAIN c.args /\ 2 \in DOMAIN c.args
        /\ c.args[1] # NoString /\ c.args[2] # NoString
    BY <1>1, <1>3 DEF Readable, ReadBy
  <2>3. c.args \in argument \X (Values \union {NoString})
    BY <2>1, <2>2
  <2> QED
    BY <1>3, <2>2, <2>3 DEF Known
<1>4. CASE c.name = "GET"
  <2>1. c.args \in {<<>>} \union {<<k>> : k \in argument}
    BY <1>1, <1>4 DEF Requests, Known
  <2>2. 1 \in DOMAIN c.args /\ c.args[1] # NoString
    BY <1>1, <1>4 DEF Readable, ReadBy
  <2> QED
    BY <1>4, <2>1, <2>2 DEF Known
<1>5. CASE c.name \notin {"DEL", "EXISTS", "SET", "GET"}
  BY <1>1, <1>5 DEF Requests, Readable, Known
<1> QED
  BY <1>2, <1>3, <1>4, <1>5


-----------------------------------------------------------------------------
(* Type correctness.                                                          *)

\* The type invariant, with what Append needs to be known about the log.
TypeInv == TypeOK /\ IsSeq(log)

\* The log after a command.
LEMMA LogGrows ==
    ASSUME TypeInv, NEW c \in Commands, NEW reply, Answer(c, reply), Len(log) < MaxLog
    PROVE  /\ IsSeq(log')
           /\ Len(log) \in Nat /\ DOMAIN log = 1..Len(log)
           /\ Len(log') = Len(log) + 1 /\ Len(log') <= MaxLog
           /\ DOMAIN log' = 1..(Len(log) + 1)
           /\ \A i \in 1..Len(log) : log'[i] = log[i]
           /\ log'[Len(log) + 1] = [asked |-> c, answer |-> reply]
           /\ \A i \in DOMAIN log' : log'[i].asked \in Commands
<1> DEFINE e == [asked |-> c, answer |-> reply]
<1>1. IsSeq(log) /\ log' = Append(log, e)
  BY DEF TypeInv, Answer
<1>2. /\ IsSeq(log')
      /\ Len(log) \in Nat /\ DOMAIN log = 1..Len(log)
      /\ Len(log') = Len(log) + 1
      /\ DOMAIN log' = 1..(Len(log) + 1)
      /\ \A i \in 1..Len(log) : log'[i] = log[i]
      /\ log'[Len(log) + 1] = e
  <2> HIDE DEF e
  <2> QED
    BY <1>1, Appended
<1>3. Len(log') <= MaxLog
  BY <1>2, ExecutorsAssumption
<1>4. \A i \in 1..Len(log) : log[i].asked \in Commands
  BY <1>2 DEF TypeInv, TypeOK
<1>5. \A i \in DOMAIN log' : log'[i].asked \in Commands
  BY <1>2, <1>4
<1> QED
  BY <1>2, <1>3, <1>5

\* A command keeps the type invariant.
LEMMA TypeExecute ==
    ASSUME TypeInv, NEW c \in Commands, Execute(c)
    PROVE  TypeInv'
<1>1. Len(log) < MaxLog /\ main = "loop"
  BY DEF Execute
<1>2. \E reply : Answer(c, reply)
  BY DEF Execute, Del, Set, Get, Exists, Command, Echo
<1>3. IsSeq(log') /\ Len(log') <= MaxLog /\ \A i \in DOMAIN log' : log'[i].asked \in Commands
  BY <1>1, <1>2, LogGrows
<1>4. main' = main
  BY DEF Execute, Del, Set, Get, Exists, Command, Echo
<1>5. DOMAIN stringMap' \subseteq Keys
      /\ \A k \in DOMAIN stringMap' : stringMap'[k] \in Values \union {Empty}
  <2>1. CASE Del(c)
    BY <2>1 DEF Del, Erase, TypeInv, TypeOK
  <2>2. CASE c.name = "SET" /\ Set(c)
    BY <2>2, CommandShape DEF Set, Insert, Over, TypeInv, TypeOK
  <2>3. CASE c.name = "GET" /\ Get(c)
    BY <2>3, CommandShape DEF Get, Insert, Over, Value, TypeInv, TypeOK
  <2>4. CASE Exists(c) \/ Command(c) \/ Echo(c)
    BY <2>4 DEF Exists, Command, Echo, TypeInv, TypeOK
  <2> QED
    BY <2>1, <2>2, <2>3, <2>4 DEF Execute
<1> QED
  BY <1>3, <1>4, <1>5 DEF TypeInv, TypeOK

\* The type invariant holds at first,
LEMMA TypeInit == Init => TypeInv
<1> SUFFICES ASSUME Init PROVE TypeInv
  OBVIOUS
<1>1. log = <<>> /\ IsSeq(log) /\ DOMAIN log = {} /\ Len(log) = 0
  <2>1. <<>> \in Seq({})
    OBVIOUS
  <2> QED
    BY <2>1 DEF Init, IsSeq
<1>2. DOMAIN stringMap = {}
  BY DEF Init, NoKey
<1> QED
  BY <1>1, <1>2, ExecutorsAssumption DEF Init, TypeInv, TypeOK

\* every step keeps it,
LEMMA TypeStep == TypeInv /\ [Next]_vars => TypeInv'
<1> SUFFICES ASSUME TypeInv, [Next]_vars PROVE TypeInv'
  OBVIOUS
<1>1. CASE Start
  BY <1>1 DEF Start, TypeInv, TypeOK, IsSeq
<1>2. CASE \E c \in Commands : Execute(c)
  BY <1>2, TypeExecute
<1>3. CASE End
  BY <1>3 DEF End, TypeInv, TypeOK, IsSeq
<1>4. CASE \E f \in Files \union {Gone} : EditFile(f)
  BY <1>4 DEF EditFile, TypeInv, TypeOK, IsSeq
<1>5. CASE UNCHANGED vars
  BY <1>5 DEF vars, TypeInv, TypeOK, IsSeq
<1> QED
  BY <1>1, <1>2, <1>3, <1>4, <1>5 DEF Next

\* and so it always holds.
LEMMA TypeInductive == Spec => []TypeInv
BY TypeInit, TypeStep, PTL DEF Spec

\* The map holds known keys with known values, the log only commands that could
\* be read, and no more than the bound.
THEOREM TypeCorrect == Spec => []TypeOK
<1>1. TypeInv => TypeOK
  BY DEF TypeInv
<1> QED
  BY <1>1, TypeInductive, PTL


-----------------------------------------------------------------------------
(* The commands implement RedisStore.                                         *)

\* The map, as the store of RedisStore.
storeBar == [k \in Keys |-> IF k \in DOMAIN stringMap THEN stringMap[k] ELSE None]

\* The arguments a DEL counts stand for the keys it names that exist, one each.
LEMMA ErasedOnce ==
    ASSUME NEW c, NEW n \in Nat, c.args \in [1..n -> Keys]
    PROVE  LET live == {k \in Range(c.args) : k \in DOMAIN stringMap}
           IN  /\ {c.args[i] : i \in Erased(c)} = live
               /\ IsFiniteSet(Erased(c)) /\ IsFiniteSet(live)
               /\ Cardinality(Erased(c)) = Cardinality(live)
<1> DEFINE live == {k \in Range(c.args) : k \in DOMAIN stringMap}
<1> DEFINE erased == Erased(c)
<1>1. erased \in SUBSET (1..n)
  BY DEF Erased
<1>2. IsFiniteSet(erased)
  <2> HIDE DEF erased
  <2> QED
    BY <1>1, 1 \in Int, n \in Int, FS_Interval, FS_Subset
<1>3. \A i \in erased : c.args[i] \in live
  BY DEF Erased, Range
<1>4. ASSUME NEW k \in live PROVE \E i \in erased : c.args[i] = k
  <2> DEFINE S == {i \in 1..n : c.args[i] = k}
  <2>1. S \in SUBSET Nat /\ S # {} /\ k \in DOMAIN stringMap
    BY DEF Range
  <2>2. PICK m \in S : \A i \in S : m <= i
    <3> HIDE DEF S
    <3> QED
      BY <2>1, LeastElement
  <2>3. \A j \in 1..(m - 1) : c.args[j] # c.args[m]
    BY <2>2
  <2> QED
    BY <2>1, <2>2, <2>3 DEF Erased
<1>5. \A i, j \in erased : c.args[i] = c.args[j] => i = j
  <2> SUFFICES ASSUME NEW i \in erased, NEW j \in erased, c.args[i] = c.args[j], i < j
               PROVE  FALSE
    BY <1>1
  <2> QED
    BY <1>1 DEF Erased
<1>6. ExistsBijection(erased, live)
  <2> DEFINE f == [i \in erased |-> c.args[i]]
  <2> HIDE DEF erased, live
  <2>1. f \in [erased -> live]
    BY <1>3
  <2>2. f \in Bijection(erased, live)
    BY <2>1, <1>4, <1>5 DEF Bijection, Injection, Surjection, IsInjective
  <2> QED
    BY <2>2 DEF ExistsBijection
<1>7. IsFiniteSet(live) /\ Cardinality(live) = Cardinality(erased)
  <2> HIDE DEF erased, live
  <2> QED
    BY <1>2, <1>6, FS_Bijection
<1> QED
  BY <1>2, <1>3, <1>4, <1>7

\* Sets are counted alike here and there.
LEMMA SameCardinality == \A S : Store!Cardinality(S) = Cardinality(S)
BY DEF Store!Cardinality, Cardinality

\* A key is live in the store if it is in the map.
LEMMA LiveKeys ==
    ASSUME TypeInv, NEW k \in Keys
    PROVE  storeBar[k] # None <=> k \in DOMAIN stringMap
BY ExecutorsAssumption DEF TypeInv, TypeOK, storeBar

\* What RedisStore reads of the log after a command.
LEMMA LastOfLog ==
    ASSUME TypeInv, NEW c \in Commands, NEW reply, Answer(c, reply), Len(log) < MaxLog
    PROVE  LastAsked' = c /\ LastAnswer' = reply
<1>1. Len(log) \in Nat /\ Len(log') = Len(log) + 1
      /\ log'[Len(log) + 1] = [asked |-> c, answer |-> reply]
  BY LogGrows
<1>2. log' # <<>>
  BY <1>1
<1> QED
  BY <1>1, <1>2 DEF LastAsked, LastAnswer

\* A DEL that answers is a DEL of the store.
LEMMA DelImplements ==
    ASSUME TypeInv, NEW c \in Commands, c.name = "DEL", Del(c), Len(log) < MaxLog
    PROVE  Store!Del(c)
<1>1. PICK n \in Nat : c.args \in [1..n -> Keys]
  <2>1. \E n \in 0..MaxArgs : c.args \in [1..n -> Keys]
    BY CommandShape
  <2> QED
    BY <2>1, ExecutorsAssumption
<1> DEFINE live == {k \in Range(c.args) : k \in DOMAIN stringMap}
<1>2. {c.args[i] : i \in Erased(c)} = live /\ Cardinality(Erased(c)) = Cardinality(live)
  BY <1>1, ErasedOnce
<1>3. Store!Named(c.args) = Range(c.args) /\ Range(c.args) \subseteq Keys
  BY <1>1 DEF Store!Named, Range
<1>4. Store!Live(Store!Named(c.args)) = live
  BY <1>3, LiveKeys DEF Store!Live, storeBar
<1>5. LastAnswer' = Cardinality(Store!Live(Store!Named(c.args)))
  BY <1>2, <1>4, LastOfLog DEF Del
<1>6. storeBar' = [k \in Keys |-> IF k \in Store!Named(c.args) THEN None ELSE storeBar[k]]
  <2>1. stringMap' = Erase(stringMap, live)
    BY <1>2 DEF Del
  <2> QED
    BY <2>1, <1>3 DEF storeBar, Erase
<1> QED
  BY <1>5, <1>6, SameCardinality DEF Store!Del, storeBar

\* A SET likewise.
LEMMA SetImplements ==
    ASSUME TypeInv, NEW c \in Commands, c.name = "SET", Set(c), Len(log) < MaxLog
    PROVE  Store!Set(c)
<1>1. c.args[1] \in Keys
  BY CommandShape
<1>2. LastAnswer' = "OK"
  BY LastOfLog DEF Set
<1>3. storeBar' = [storeBar EXCEPT ![c.args[1]] = c.args[2]]
  BY <1>1 DEF storeBar, Set, Insert, Over
<1> QED
  BY <1>2, <1>3 DEF Store!Set, storeBar

\* A careful GET, of a key that is there, changes nothing.
LEMMA CarefulGet ==
    ASSUME "missing" \notin Careless, NEW c \in Commands, c.name = "GET", Sends(c), Get(c)
    PROVE  /\ c.args[1] \in DOMAIN stringMap
           /\ DOMAIN stringMap' = DOMAIN stringMap
           /\ \A k \in DOMAIN stringMap : stringMap'[k] = stringMap[k]
<1>1. c.args[1] \in DOMAIN stringMap
  BY DEF Sends, Commands
<1> QED
  BY <1>1 DEF Get, Insert, Over, Value

\* A GET likewise, if it is of a key that is there.
LEMMA GetImplements ==
    ASSUME TypeInv, "missing" \notin Careless,
           NEW c \in Commands, c.name = "GET", Sends(c), Get(c), Len(log) < MaxLog
    PROVE  Store!Get(c)
<1> DEFINE k == c.args[1]
<1>1. k \in Keys /\ k \in DOMAIN stringMap
  BY CommandShape, CarefulGet
<1>2. LastAnswer' = Value(k)
  BY LastOfLog DEF Get
<1>3. storeBar[k] = Value(k)
  BY <1>1 DEF storeBar, Value
<1>4. storeBar' = storeBar
  BY CarefulGet DEF storeBar
<1> QED
  BY <1>2, <1>3, <1>4 DEF Store!Get, storeBar

\* An EXISTS likewise.
LEMMA ExistsImplements ==
    ASSUME TypeInv, NEW c \in Commands, c.name = "EXISTS", Exists(c), Len(log) < MaxLog
    PROVE  Store!Exists(c)
<1>1. PICK n \in 0..MaxArgs : c.args \in [1..n -> Keys]
  BY CommandShape
<1>2. {i \in DOMAIN c.args : c.args[i] \in DOMAIN stringMap}
        = {i \in DOMAIN c.args : storeBar[c.args[i]] # None}
  BY <1>1, LiveKeys
<1>3. LastAnswer' = Cardinality({i \in DOMAIN c.args : storeBar[c.args[i]] # None})
  <2> DEFINE found == {i \in DOMAIN c.args : c.args[i] \in DOMAIN stringMap}
  <2>1. Answer(c, Cardinality(found))
    BY DEF Exists
  <2>2. LastAnswer' = Cardinality(found)
    <3> HIDE DEF found
    <3> QED
      BY <2>1, LastOfLog
  <2> QED
    BY <1>2, <2>2
<1>4. storeBar' = storeBar
  BY DEF Exists, storeBar
<1> QED
  BY <1>3, <1>4, SameCardinality DEF Store!Exists, storeBar

\* Any other command likewise.
LEMMA OtherImplements ==
    ASSUME TypeInv, NEW c \in Commands, Len(log) < MaxLog,
           \/ c.name = "COMMAND" /\ Command(c)
           \/ c.name \in Unknown /\ Echo(c)
    PROVE  Store!Other(c)
<1>1. c.name \notin {"DEL", "SET", "GET", "EXISTS"}
  BY ExecutorsAssumption DEF Known
<1>2. storeBar' = storeBar
  BY DEF Command, Echo, storeBar
<1>3. c.name # "COMMAND" => LastAnswer' = c
  BY LastOfLog DEF Echo
<1> QED
  BY <1>1, <1>2, <1>3 DEF Store!Other, storeBar

\* Every command answers, and changes the map, as RedisStore says, whatever
\* the keys, the values, the file of commands and the bounds are, if clients send
\* what can be read and GET keys that are there: DEL counts every key it removes
\* once, however often it is named. A start and an edit of the file change nothing,
\* and the process ends only without the file.
THEOREM CommandsImplementStore ==
    ASSUME Careless = {}
    PROVE  Spec => ImplementsRedisStore
<1>1. Init => Store!Init
  <2> SUFFICES ASSUME Init PROVE Store!Init
    OBVIOUS
  <2>1. \A k \in Keys : k \notin DOMAIN stringMap
    BY DEF Init, NoKey
  <2>2. LastAsked = None /\ LastAnswer = None
    BY DEF Init, LastAsked, LastAnswer
  <2>3. main # "ended"
    BY DEF Init
  <2> QED
    BY <2>1, <2>2, <2>3 DEF Store!Init
<1>2. TypeInv /\ [Next]_vars => [Store!Next]_(Store!vars)
  <2> SUFFICES ASSUME TypeInv, [Next]_vars PROVE [Store!Next]_(Store!vars)
    OBVIOUS
  <2>1. ASSUME NEW c \in Commands, Execute(c) PROVE Store!Next
    <3>1. Len(log) < MaxLog /\ Sends(c) /\ main = "loop"
      BY <2>1 DEF Execute
    <3>2. Store!Ask(c)
      <4>1. "missing" \notin Careless
        OBVIOUS
      <4> QED
        BY <2>1, <3>1, <4>1, DelImplements, SetImplements, GetImplements, ExistsImplements,
           OtherImplements DEF Execute, Store!Ask
    <3>3. \E reply : Answer(c, reply)
      BY <2>1 DEF Execute, Del, Set, Get, Exists, Command, Echo
    <3>4. LastAsked' = c
      BY <3>1, <3>3, LastOfLog
    <3>5. Store!Ask(LastAsked')
      BY <3>2, <3>4 DEF Store!Ask, Store!Del, Store!Set, Store!Get, Store!Exists, Store!Other
    <3>6. main' = main /\ file' = file
      BY <2>1 DEF Execute, Del, Set, Get, Exists, Command, Echo
    <3> QED
      BY <3>1, <3>5, <3>6 DEF Store!Next, Store!Take
  <2>2. CASE End
    <3>1. \A c \in Requests : ~Readable(c) => ~Sends(c)
      BY DEF Sends
    <3>2. file = Gone /\ main' = "ended" /\ UNCHANGED <<stringMap, file, log>>
      BY <2>2, <3>1 DEF End, EndsProcess
    <3> QED
      BY <3>2 DEF Store!Next, Store!End, LastAsked, LastAnswer
  <2>3. CASE \E f \in Files \union {Gone} : EditFile(f)
    <3>1. UNCHANGED <<stringMap, main, log>>
      BY <2>3 DEF EditFile
    <3>2. CASE (file' # Gone) = (file # Gone)
      BY <3>1, <3>2 DEF Store!vars, LastAsked, LastAnswer
    <3>3. CASE (file' # Gone) = ~(file # Gone)
      BY <3>1, <3>3 DEF Store!Next, Store!Install, LastAsked, LastAnswer
    <3> QED
      BY <3>2, <3>3
  <2>4. CASE UNCHANGED <<stringMap, log, file>> /\ (main' = "ended" <=> main = "ended")
    BY <2>4 DEF Store!vars, LastAsked, LastAnswer
  <2>5. CASE Start
    BY <2>4, <2>5 DEF Start
  <2> QED
    BY <2>1, <2>2, <2>3, <2>4, <2>5 DEF Next, vars
<1>3. Spec => []TypeInv
  BY TypeInductive
<1> QED
  BY <1>1, <1>2, <1>3, PTL DEF Spec, ImplementsRedisStore, Store!Spec



-----------------------------------------------------------------------------
(* Every key is accounted for.                                                *)

\* The greatest element of a set of numbers.
LEMMA MaxIs ==
    ASSUME NEW n \in Nat, NEW S \in SUBSET (1..n), NEW m \in S, \A x \in S : x <= m
    PROVE  Max(S) = m
<1>1. Max(S) \in S /\ \A x \in S : x <= Max(S)
  BY GreatestElement
<1>2. PICK a \in S : a = Max(S) /\ \A x \in S : x <= a
  BY <1>1
<1>3. a \in Int /\ m \in Int /\ a <= m /\ m <= a
  BY <1>2
<1> QED
  BY <1>2, <1>3

\* The map holds the keys that exist by the log.
KeysInv ==
    /\ TypeInv
    /\ IsFiniteSet(DOMAIN stringMap)
    /\ \A k \in Keys : k \in DOMAIN stringMap <=> Present(log, Len(log), k)

\* What two logs with the same first commands say of the time up to there.
LEMMA PresentKept ==
    ASSUME NEW n \in Nat, NEW l, NEW m, \A j \in 1..n : m[j] = l[j], NEW k
    PROVE  Present(m, n, k) <=> Present(l, n, k)
<1> DEFINE touching == {j \in 1..n : Touches(l[j].asked, k)}
<1>1. {j \in 1..n : Touches(m[j].asked, k)} = touching
  OBVIOUS
<1>2. touching # {} => m[Max(touching)] = l[Max(touching)]
  <2>1. touching \in SUBSET (1..n)
    OBVIOUS
  <2>2. touching # {} => Max(touching) \in touching
    <3> HIDE DEF touching
    <3> QED
      BY <2>1, GreatestElement
  <2> QED
    BY <2>1, <2>2
<1> QED
  BY <1>1, <1>2 DEF Present

\* By a log, a key exists after a command if the command is a SET of it, or if it existed before and is not deleted.
LEMMA PresentAfter ==
    ASSUME NEW n \in Nat \ {0}, NEW l, NEW k
    PROVE  Present(l, n, k) <=>
             IF Touches(l[n].asked, k) THEN l[n].asked.name # "DEL" ELSE Present(l, n - 1, k)
<1> DEFINE touching(i) == {j \in 1..i : Touches(l[j].asked, k)}
<1>1. CASE Touches(l[n].asked, k)
  <2>1. n \in touching(n) /\ touching(n) \in SUBSET (1..n) /\ \A x \in touching(n) : x <= n
    BY <1>1
  <2>2. Max(touching(n)) = n
    <3> HIDE DEF touching
    <3> QED
      BY <2>1, MaxIs
  <2> QED
    BY <1>1, <2>1, <2>2 DEF Present
<1>2. CASE ~Touches(l[n].asked, k)
  <2>1. touching(n) = touching(n - 1)
    <3>1. n \notin touching(n)
      BY <1>2
    <3> QED
      BY <3>1
  <2> QED
    BY <1>2, <2>1 DEF Present
<1> QED
  BY <1>1, <1>2

\* The SETs that create their key, after one more command.
LEMMA CreatedAfter ==
    ASSUME TypeInv, NEW c \in Commands, NEW reply, Answer(c, reply), Len(log) < MaxLog
    PROVE  /\ Created \subseteq 1..Len(log)
           /\ Created' = Created \union
                {i \in {Len(log) + 1} :
                    c.name = "SET" /\ ~Present(log, Len(log), c.args[1])}
<1> DEFINE n == Len(log)
<1>1. /\ n \in Nat /\ DOMAIN log = 1..n /\ DOMAIN log' = 1..(n + 1)
      /\ \A j \in 1..n : log'[j] = log[j]
      /\ log'[n + 1] = [asked |-> c, answer |-> reply]
  BY LogGrows
<1>2. ASSUME NEW i \in 1..(n + 1), NEW k
      PROVE  Present(log', i - 1, k) <=> Present(log, i - 1, k)
  BY <1>1, i - 1 \in Nat, \A j \in 1..(i - 1) : log'[j] = log[j], PresentKept
<1> DEFINE creates(l, i) ==
        l[i].asked.name = "SET" /\ ~Present(l, i - 1, l[i].asked.args[1])
<1>3. Created = {i \in 1..n : creates(log, i)} /\ Created' = {i \in 1..(n + 1) : creates(log', i)}
  BY <1>1 DEF Created
<1>4. \A i \in 1..n : creates(log', i) <=> creates(log, i)
  BY <1>1, <1>2
<1>5. creates(log', n + 1) <=> c.name = "SET" /\ ~Present(log, n, c.args[1])
  BY <1>1, <1>2
<1>6. 1..(n + 1) = (1..n) \union {n + 1}
  BY <1>1
<1> QED
  <2> HIDE DEF creates
  <2> QED
    BY <1>3, <1>4, <1>5, <1>6

\* What the DELs counted, after one more command.
LEMMA CountedAfter ==
    ASSUME TypeInv, NEW c \in Commands, NEW reply, Answer(c, reply), Len(log) < MaxLog
    PROVE  /\ Counted \subseteq (1..Len(log)) \X (1..MaxArgs)
           /\ Counted' = Counted \union
                {p \in {Len(log) + 1} \X (1..MaxArgs) : c.name = "DEL" /\ p[2] <= reply}
<1> DEFINE n == Len(log)
<1>1. /\ n \in Nat /\ DOMAIN log = 1..n /\ DOMAIN log' = 1..(n + 1)
      /\ \A j \in 1..n : log'[j] = log[j]
      /\ log'[n + 1] = [asked |-> c, answer |-> reply]
  BY LogGrows
<1> DEFINE counts(l, p) == l[p[1]].asked.name = "DEL" /\ p[2] <= l[p[1]].answer
<1>2. /\ Counted = {p \in (1..n) \X (1..MaxArgs) : counts(log, p)}
      /\ Counted' = {p \in (1..(n + 1)) \X (1..MaxArgs) : counts(log', p)}
  BY <1>1 DEF Counted
<1>3. \A p \in (1..n) \X (1..MaxArgs) : counts(log', p) <=> counts(log, p)
  BY <1>1
<1>4. \A p \in {n + 1} \X (1..MaxArgs) : counts(log', p) <=> c.name = "DEL" /\ p[2] <= reply
  BY <1>1
<1>5. (1..(n + 1)) \X (1..MaxArgs)
        = ((1..n) \X (1..MaxArgs)) \union ({n + 1} \X (1..MaxArgs))
  BY <1>1
<1> QED
  <2> HIDE DEF counts
  <2> QED
    BY <1>2, <1>3, <1>4, <1>5


\* Sets that grow by one pair for each number up to d.
LEMMA PairsAdded ==
    ASSUME NEW S, IsFiniteSet(S), NEW n, NEW d \in Nat,
           \A p \in S : p[1] # n
    PROVE  LET T == S \union ({n} \X (1..d))
           IN  IsFiniteSet(T) /\ Cardinality(T) = Cardinality(S) + d
<1> DEFINE new == {n} \X (1..d)
<1>1. IsFiniteSet(1..d) /\ Cardinality(1..d) = d
  BY 1 \in Int, d \in Int, FS_Interval
<1>2. IsFiniteSet({n}) /\ Cardinality({n}) = 1
  BY FS_Singleton
<1>3. IsFiniteSet(new) /\ Cardinality(new) = d
  BY <1>1, <1>2, FS_Product, Cardinality({n}) * Cardinality(1..d) = d
<1>4. S \intersect new = {}
  OBVIOUS
<1>5. Cardinality({}) = 0 /\ Cardinality(S) \in Nat
  BY FS_EmptySet, FS_CardinalityType
<1> QED
  <2> HIDE DEF new
  <2>1. IsFiniteSet(S \union new)
        /\ Cardinality(S \union new) = Cardinality(S) + Cardinality(new) - Cardinality(S \intersect new)
    BY <1>3, FS_Union
  <2>2. Cardinality(S \intersect new) = 0
    BY <1>4, <1>5
  <2>3. Cardinality(S \union new) = Cardinality(S) + d
    BY <2>1, <2>2, <1>3, <1>5
  <2> QED
    BY <2>1, <2>3 DEF new

\* What the log says and the map holds stay together, by a command.
LEMMA KeysExecute ==
    ASSUME "missing" \notin Careless, KeysInv, NEW c \in Commands, Execute(c)
    PROVE  KeysInv'
<1>1. TypeInv' /\ Len(log) < MaxLog /\ TypeInv
  BY TypeExecute DEF KeysInv, Execute
<1>2. PICK reply : Answer(c, reply)
  BY DEF Execute, Del, Set, Get, Exists, Command, Echo
<1>3. /\ Len(log) \in Nat /\ Len(log') = Len(log) + 1
      /\ \A j \in 1..Len(log) : log'[j] = log[j]
      /\ log'[Len(log) + 1] = [asked |-> c, answer |-> reply]
  BY <1>1, <1>2, LogGrows
<1>4. ASSUME NEW k \in Keys
      PROVE  Present(log', Len(log'), k) <=>
               IF Touches(c, k) THEN c.name # "DEL" ELSE Present(log, Len(log), k)
  <2>1. Present(log', Len(log), k) <=> Present(log, Len(log), k)
    BY <1>3, PresentKept
  <2>2. PICK n \in Nat \ {0} : n = Len(log') /\ n - 1 = Len(log)
    BY <1>3
  <2>3. Present(log', n, k) <=>
          IF Touches(c, k) THEN c.name # "DEL" ELSE Present(log', n - 1, k)
    BY <1>3, <2>2, PresentAfter
  <2> QED
    BY <2>1, <2>2, <2>3
<1> DEFINE follows ==
        /\ IsFiniteSet(DOMAIN stringMap')
        /\ \A k \in Keys : k \in DOMAIN stringMap' <=>
             IF Touches(c, k) THEN c.name # "DEL" ELSE k \in DOMAIN stringMap
<1>5. follows
  <2>1. CASE c.name = "DEL" /\ Del(c)
    <3>1. PICK n \in Nat : c.args \in [1..n -> Keys]
      <4>1. \E n \in 0..MaxArgs : c.args \in [1..n -> Keys]
        BY <2>1, CommandShape
      <4> QED
        BY <4>1, ExecutorsAssumption
    <3>2. DOMAIN stringMap' = DOMAIN stringMap \ {k \in Range(c.args) : k \in DOMAIN stringMap}
      BY <2>1, <3>1, ErasedOnce DEF Del, Erase
    <3>3. IsFiniteSet(DOMAIN stringMap')
      BY <3>2, FS_Subset, DOMAIN stringMap' \in SUBSET (DOMAIN stringMap) DEF KeysInv
    <3> QED
      BY <2>1, <3>2, <3>3 DEF Touches
  <2>2. CASE c.name = "SET" /\ Set(c)
    <3>1. DOMAIN stringMap' = DOMAIN stringMap \union {c.args[1]}
      BY <2>2 DEF Set, Insert, Over
    <3>2. IsFiniteSet(DOMAIN stringMap')
      BY <3>1, FS_AddElement DEF KeysInv
    <3> QED
      BY <2>2, <3>1, <3>2 DEF Touches
  <2>3. CASE \/ c.name = "GET" /\ Get(c)
             \/ c.name = "EXISTS" /\ Exists(c)
             \/ c.name = "COMMAND" /\ Command(c)
             \/ c.name \in Unknown /\ Echo(c)
    <3>1. c.name \notin {"DEL", "SET"}
      BY <2>3, ExecutorsAssumption DEF Known
    <3>2. DOMAIN stringMap' = DOMAIN stringMap
      BY <2>3, CarefulGet DEF Exists, Command, Echo, Execute
    <3> QED
      BY <3>1, <3>2 DEF Touches, KeysInv
  <2>4. \/ c.name = "DEL" /\ Del(c)
        \/ c.name = "SET" /\ Set(c)
        \/ c.name = "GET" /\ Get(c)
        \/ c.name = "EXISTS" /\ Exists(c)
        \/ c.name = "COMMAND" /\ Command(c)
        \/ c.name \in Unknown /\ Echo(c)
    BY DEF Execute
  <2> HIDE DEF follows
  <2> QED
    BY <2>1, <2>2, <2>3, <2>4
<1> QED
  BY <1>1, <1>4, <1>5 DEF KeysInv

\* The map and the log agree on the keys that exist at every step.
LEMMA KeysInductive ==
    ASSUME "missing" \notin Careless
    PROVE  Spec => []KeysInv
<1>1. Init => KeysInv
  <2> SUFFICES ASSUME Init PROVE KeysInv
    OBVIOUS
  <2>1. DOMAIN stringMap = {} /\ Len(log) = 0
    BY DEF Init, NoKey
  <2>2. \A k : ~Present(log, 0, k)
    BY DEF Present
  <2> QED
    BY <2>1, <2>2, TypeInit, FS_EmptySet DEF KeysInv
<1>2. KeysInv /\ [Next]_vars => KeysInv'
  <2> SUFFICES ASSUME KeysInv, [Next]_vars PROVE KeysInv'
    OBVIOUS
  <2>1. CASE \E c \in Commands : Execute(c)
    BY <2>1, KeysExecute
  <2>2. CASE UNCHANGED <<stringMap, log>>
    <3>1. TypeInv'
      BY TypeStep DEF KeysInv
    <3> QED
      BY <2>2, <3>1 DEF KeysInv
  <2> QED
    BY <2>1, <2>2 DEF Next, Start, End, EditFile, vars
<1> QED
  BY <1>1, <1>2, PTL DEF Spec


\* A DEL removes as many keys as it counts, and there is room to count them.
LEMMA DelCounts ==
    ASSUME KeysInv, NEW c \in Commands, c.name = "DEL", Del(c)
    PROVE  \E d \in 0..MaxArgs :
             /\ Answer(c, d)
             /\ Cardinality(DOMAIN stringMap) = Cardinality(DOMAIN stringMap') + d
<1> DEFINE live == {k \in Range(c.args) : k \in DOMAIN stringMap}
           d == Cardinality(Erased(c))
<1>1. PICK n \in 0..MaxArgs : c.args \in [1..n -> Keys]
  BY CommandShape
<1>2. n \in Nat /\ n <= MaxArgs
  BY ExecutorsAssumption
<1>3. /\ {c.args[i] : i \in Erased(c)} = live
      /\ IsFiniteSet(Erased(c)) /\ IsFiniteSet(live)
      /\ d = Cardinality(live)
  BY <1>1, <1>2, ErasedOnce
<1>4. d \in Nat /\ d <= n
  <2>1. IsFiniteSet(1..n) /\ Cardinality(1..n) = n
    BY <1>2, 1 \in Int, n \in Int, FS_Interval
  <2>2. Erased(c) \in SUBSET (1..n)
    BY <1>1 DEF Erased
  <2>3. Cardinality(Erased(c)) <= Cardinality(1..n)
    BY <2>1, <2>2, FS_Subset
  <2> QED
    BY <1>3, <2>1, <2>3, FS_CardinalityType
<1>5. Cardinality(DOMAIN stringMap) = Cardinality(DOMAIN stringMap') + d
  <2>1. DOMAIN stringMap' = DOMAIN stringMap \ live
    BY <1>3 DEF Del, Erase
  <2>2. DOMAIN stringMap \intersect live = live
    OBVIOUS
  <2>3. IsFiniteSet(DOMAIN stringMap)
    BY DEF KeysInv
  <2> HIDE DEF live, d
  <2>4. Cardinality(DOMAIN stringMap \ live) =
          Cardinality(DOMAIN stringMap) - Cardinality(DOMAIN stringMap \intersect live)
    BY <2>3, FS_Difference
  <2>5. Cardinality(DOMAIN stringMap) \in Nat
    BY <2>3, FS_CardinalityType
  <2>6. Cardinality(DOMAIN stringMap \intersect live) = d
    BY <2>2, <1>3
  <2>7. Cardinality(DOMAIN stringMap \ live) = Cardinality(DOMAIN stringMap) - d
    BY <2>4, <2>6
  <2> QED
    BY <2>1, <2>5, <2>7, <1>4
<1>6. Answer(c, d) /\ d \in 0..MaxArgs
  BY <1>2, <1>4, ExecutorsAssumption DEF Del
<1> QED
  BY <1>5, <1>6

\* The sets that are counted are finite.
LEMMA CountsFinite ==
    ASSUME TypeInv
    PROVE  /\ IsFiniteSet(Created) /\ Cardinality(Created) \in Nat
           /\ IsFiniteSet(Counted) /\ Cardinality(Counted) \in Nat
<1>1. PICK n \in Nat : DOMAIN log = 1..n
  BY DEF TypeInv, IsSeq
<1>2. IsFiniteSet(1..n) /\ IsFiniteSet(1..MaxArgs)
  BY ExecutorsAssumption, 1 \in Int, n \in Int, MaxArgs \in Int, FS_Interval
<1>3. IsFiniteSet((1..n) \X (1..MaxArgs))
  BY <1>2, FS_Product
<1>4. Created \in SUBSET (1..n) /\ Counted \in SUBSET ((1..n) \X (1..MaxArgs))
  BY <1>1 DEF Created, Counted
<1>5. IsFiniteSet(Created) /\ IsFiniteSet(Counted)
  BY <1>2, <1>3, <1>4, FS_Subset
<1> QED
  BY <1>5, FS_CardinalityType

\* A command keeps the account.
LEMMA AccountedExecute ==
    ASSUME "missing" \notin Careless, KeysInv, KeysAccounted, NEW c \in Commands, Execute(c)
    PROVE  KeysAccounted'
<1>1. TypeInv /\ Len(log) < MaxLog /\ Len(log) \in Nat /\ IsFiniteSet(DOMAIN stringMap)
  <2>1. \E reply : Answer(c, reply)
    BY DEF Execute, Del, Set, Get, Exists, Command, Echo
  <2>2. TypeInv /\ Len(log) < MaxLog /\ IsFiniteSet(DOMAIN stringMap)
    BY DEF KeysInv, Execute
  <2> QED
    BY <2>1, <2>2, LogGrows
<1>2. /\ IsFiniteSet(Created) /\ Cardinality(Created) \in Nat
      /\ IsFiniteSet(Counted) /\ Cardinality(Counted) \in Nat
      /\ Cardinality(DOMAIN stringMap) \in Nat
  BY <1>1, CountsFinite, FS_CardinalityType
<1>3. CASE c.name = "DEL" /\ Del(c)
  <2>1. PICK d \in 0..MaxArgs :
          /\ Answer(c, d)
          /\ Cardinality(DOMAIN stringMap) = Cardinality(DOMAIN stringMap') + d
    BY <1>3, DelCounts
  <2>2. Created' = Created
    BY <1>1, <1>3, <2>1, CreatedAfter
  <2>3. /\ Counted \subseteq (1..Len(log)) \X (1..MaxArgs)
        /\ Counted' = Counted \union ({Len(log) + 1} \X (1..d))
    <3>1. /\ Counted \subseteq (1..Len(log)) \X (1..MaxArgs)
          /\ Counted' = Counted \union
               {p \in {Len(log) + 1} \X (1..MaxArgs) : c.name = "DEL" /\ p[2] <= d}
      BY <1>1, <2>1, CountedAfter
    <3>2. {p \in {Len(log) + 1} \X (1..MaxArgs) : c.name = "DEL" /\ p[2] <= d}
            = {Len(log) + 1} \X (1..d)
      BY <1>3, ExecutorsAssumption
    <3> QED
      BY <3>1, <3>2
  <2>4. Cardinality(Counted') = Cardinality(Counted) + d
    <3>1. PICK n : n = Len(log) + 1
      OBVIOUS
    <3>2. \A p \in Counted : p[1] # n
      BY <1>1, <2>3, <3>1
    <3>3. d \in Nat
      BY ExecutorsAssumption
    <3>4. Cardinality(Counted \union ({n} \X (1..d))) = Cardinality(Counted) + d
      BY <1>2, <3>2, <3>3, PairsAdded
    <3> QED
      BY <2>3, <3>1, <3>4
  <2>5. Cardinality(DOMAIN stringMap') \in Nat
    <3>1. IsFiniteSet(DOMAIN stringMap')
      BY KeysExecute DEF KeysInv
    <3> QED
      BY <3>1, FS_CardinalityType
  <2> QED
    BY <1>2, <2>1, <2>2, <2>4, <2>5, ExecutorsAssumption DEF KeysAccounted
<1>4. CASE c.name = "SET" /\ Set(c)
  <2>1. PICK reply : Answer(c, reply)
    BY <1>4 DEF Set
  <2>2. Counted' = Counted
    BY <1>1, <1>4, <2>1, CountedAfter
  <2>3. PICK k : k = c.args[1] /\ k \in Keys
    BY <1>4, CommandShape
  <2>4. DOMAIN stringMap' = DOMAIN stringMap \union {k}
    BY <1>4, <2>3 DEF Set, Insert, Over
  <2>5. k \in DOMAIN stringMap <=> Present(log, Len(log), k)
    BY <2>3 DEF KeysInv
  <2>6. Cardinality(DOMAIN stringMap')
          = IF k \in DOMAIN stringMap THEN Cardinality(DOMAIN stringMap)
            ELSE Cardinality(DOMAIN stringMap) + 1
    BY <1>1, <2>4, FS_AddElement
  <2>7. PICK n : n = Len(log) + 1
    OBVIOUS
  <2>8. /\ n \notin Created
        /\ Created' = IF k \in DOMAIN stringMap THEN Created ELSE Created \union {n}
    <3> DEFINE new == {i \in {Len(log) + 1} :
                          c.name = "SET" /\ ~Present(log, Len(log), c.args[1])}
    <3>1. Created \subseteq 1..Len(log) /\ Created' = Created \union new
      BY <1>1, <2>1, CreatedAfter
    <3>2. new = IF k \in DOMAIN stringMap THEN {} ELSE {n}
      BY <1>4, <2>3, <2>5, <2>7
    <3>3. n \notin Created
      BY <1>1, <2>7, <3>1
    <3> HIDE DEF new
    <3> QED
      BY <3>1, <3>2, <3>3
  <2>9. Cardinality(Created')
          = IF k \in DOMAIN stringMap THEN Cardinality(Created) ELSE Cardinality(Created) + 1
    BY <1>2, <2>8, FS_AddElement
  <2> QED
    BY <1>2, <2>2, <2>6, <2>9 DEF KeysAccounted
<1>5. CASE \/ c.name = "GET" /\ Get(c)
           \/ c.name = "EXISTS" /\ Exists(c)
           \/ c.name = "COMMAND" /\ Command(c)
           \/ c.name \in Unknown /\ Echo(c)
  <2>1. c.name \notin {"DEL", "SET"}
    BY <1>5, ExecutorsAssumption DEF Known
  <2>2. DOMAIN stringMap' = DOMAIN stringMap /\ \E reply : Answer(c, reply)
    BY <1>5, CarefulGet DEF Get, Exists, Command, Echo, Execute
  <2>3. Created' = Created /\ Counted' = Counted
    BY <1>1, <2>1, <2>2, CreatedAfter, CountedAfter
  <2> QED
    BY <2>2, <2>3 DEF KeysAccounted
<1> QED
  BY <1>3, <1>4, <1>5 DEF Execute

\* For any keys, values and bounds, and any sequence of commands in which a GET is
\* of a key that is there: every key that a SET brought into being is in the map or
\* was counted in the answer of exactly one DEL, also of a DEL that names a key more
\* than once, and nothing else creates or removes a key.
THEOREM EveryKeyAccounted ==
    ASSUME "missing" \notin Careless
    PROVE  Spec => []KeysAccounted
<1>1. Init => KeysAccounted
  <2> SUFFICES ASSUME Init PROVE KeysAccounted
    OBVIOUS
  <2>1. Created = {} /\ Counted = {} /\ DOMAIN stringMap = {}
    BY DEF Init, NoKey, Created, Counted
  <2> QED
    BY <2>1, FS_EmptySet DEF KeysAccounted
<1>2. KeysInv /\ KeysAccounted /\ [Next]_vars => KeysAccounted'
  <2> SUFFICES ASSUME KeysInv, KeysAccounted, [Next]_vars PROVE KeysAccounted'
    OBVIOUS
  <2>1. CASE \E c \in Commands : Execute(c)
    BY <2>1, AccountedExecute
  <2>2. CASE UNCHANGED <<stringMap, log>>
    BY <2>2 DEF KeysAccounted, Created, Counted, Present
  <2> QED
    BY <2>1, <2>2 DEF Next, Start, End, EditFile, vars
<1> QED
  BY <1>1, <1>2, KeysInductive, PTL DEF Spec


-----------------------------------------------------------------------------
(* COMMAND's answers.                                                         *)

\* What was gathered stays so when more is read, and what is read is gathered.
LEMMA GatheredKept ==
    ASSUME NEW f, NEW n \in Nat, NEW l, NEW m, \A r \in 1..n : m[r] = l[r], Gathered(f, l, n)
    PROVE  Gathered(f, m, n)
<1>1. DOMAIN f = UNION {DOMAIN m[r] : r \in 1..n}
  BY DEF Gathered
<1>2. ASSUME NEW name \in DOMAIN f
      PROVE  f[name] = m[Max({r \in 1..n : name \in DOMAIN m[r]})][name]
  <2> DEFINE naming == {r \in 1..n : name \in DOMAIN l[r]}
  <2>1. {r \in 1..n : name \in DOMAIN m[r]} = naming
    OBVIOUS
  <2>2. naming \in SUBSET (1..n) /\ naming # {}
    BY DEF Gathered
  <2>3. Max(naming) \in naming
    <3> HIDE DEF naming
    <3> QED
      BY <2>2, GreatestElement
  <2>4. f[name] = l[Max(naming)][name]
    BY DEF Gathered
  <2> QED
    BY <2>1, <2>2, <2>3, <2>4
<1> QED
  BY <1>1, <1>2 DEF Gathered

LEMMA GatheredOver ==
    ASSUME NEW f, NEW n \in Nat, NEW l, Gathered(f, l, n)
    PROVE  Gathered(Over(l[n + 1], f), l, n + 1)
<1> DEFINE g == l[n + 1]
           both == Over(g, f)
           naming(i, name) == {r \in 1..i : name \in DOMAIN l[r]}
<1>1. 1..(n + 1) = (1..n) \union {n + 1}
  OBVIOUS
<1>2. DOMAIN both = UNION {DOMAIN l[r] : r \in 1..(n + 1)}
  <2>1. DOMAIN both = DOMAIN g \union UNION {DOMAIN l[r] : r \in 1..n}
    BY DEF Over, Gathered
  <2> QED
    BY <1>1, <2>1
<1>3. ASSUME NEW name \in DOMAIN both
      PROVE  both[name] = l[Max(naming(n + 1, name))][name]
  <2>1. CASE name \in DOMAIN g
    <3>1. n + 1 \in naming(n + 1, name) /\ naming(n + 1, name) \in SUBSET (1..(n + 1))
          /\ \A r \in naming(n + 1, name) : r <= n + 1
      BY <2>1
    <3>2. Max(naming(n + 1, name)) = n + 1
      <4>1. n + 1 \in Nat
        OBVIOUS
      <4> HIDE DEF naming
      <4> QED
        BY <3>1, <4>1, MaxIs
    <3>3. both[name] = g[name]
      BY <2>1 DEF Over
    <3> QED
      BY <3>2, <3>3
  <2>2. CASE name \notin DOMAIN g
    <3>1. naming(n + 1, name) = naming(n, name)
      BY <1>1, <2>2
    <3>2. name \in DOMAIN f /\ both[name] = f[name]
      BY <2>2 DEF Over
    <3>3. f[name] = l[Max(naming(n, name))][name]
      BY <3>2 DEF Gathered
    <3> QED
      BY <3>1, <3>2, <3>3
  <2> QED
    BY <2>1, <2>2
<1> QED
  BY <1>2, <1>3 DEF Gathered

\* How the COMMANDs of a log are counted.
LEMMA CommandsCounted ==
    ASSUME NEW l, NEW n \in Nat
    PROVE  /\ CommandsIn(l, n) \in Nat
           /\ CommandsIn(l, 0) = 0
           /\ CommandsIn(l, n + 1) =
                CommandsIn(l, n) + (IF l[n + 1].asked.name = "COMMAND" THEN 1 ELSE 0)
           /\ \A i \in 0..n : CommandsIn(l, i) <= CommandsIn(l, n)
           /\ \A m : (\A j \in 1..n : m[j] = l[j]) => CommandsIn(m, n) = CommandsIn(l, n)
<1> DEFINE among(m, i) == {j \in 1..i : m[j].asked.name = "COMMAND"}
<1>1. IsFiniteSet(among(l, n))
  <2>1. IsFiniteSet(1..n)
    BY 1 \in Int, n \in Int, FS_Interval
  <2>2. among(l, n) \in SUBSET (1..n)
    OBVIOUS
  <2> QED
    BY <2>1, <2>2, FS_Subset
<1>2. CommandsIn(l, n) \in Nat
  <2> HIDE DEF among
  <2>1. Cardinality(among(l, n)) \in Nat
    BY <1>1, FS_CardinalityType
  <2> QED
    BY <2>1 DEF CommandsIn, among
<1>3. CommandsIn(l, 0) = 0
  <2>1. among(l, 0) = {}
    OBVIOUS
  <2> QED
    BY <2>1, FS_EmptySet DEF CommandsIn
<1>4. CommandsIn(l, n + 1) =
        CommandsIn(l, n) + (IF l[n + 1].asked.name = "COMMAND" THEN 1 ELSE 0)
  <2>1. among(l, n + 1) = IF l[n + 1].asked.name = "COMMAND" THEN among(l, n) \union {n + 1}
                          ELSE among(l, n)
    <3>1. 1..(n + 1) = (1..n) \union {n + 1}
      OBVIOUS
    <3> QED
      BY <3>1
  <2>2. n + 1 \notin among(l, n)
    OBVIOUS
  <2>3. Cardinality(among(l, n) \union {n + 1}) = Cardinality(among(l, n)) + 1
    <3> HIDE DEF among
    <3> QED
      BY <1>1, <2>2, FS_AddElement
  <2>4. /\ CommandsIn(l, n + 1) = Cardinality(among(l, n + 1))
        /\ CommandsIn(l, n) = Cardinality(among(l, n))
    BY DEF CommandsIn
  <2> HIDE DEF among
  <2> QED
    BY <1>2, <2>1, <2>3, <2>4
<1>5. ASSUME NEW i \in 0..n PROVE CommandsIn(l, i) <= CommandsIn(l, n)
  <2>1. among(l, i) \in SUBSET among(l, n)
    OBVIOUS
  <2>2. Cardinality(among(l, i)) <= Cardinality(among(l, n))
    <3> HIDE DEF among
    <3> QED
      BY <1>1, <2>1, FS_Subset
  <2> QED
    BY <2>2 DEF CommandsIn
<1>6. ASSUME NEW m, \A j \in 1..n : m[j] = l[j] PROVE CommandsIn(m, n) = CommandsIn(l, n)
  <2>1. among(m, n) = among(l, n)
    BY <1>6
  <2> QED
    BY <2>1 DEF CommandsIn
<1> QED
  BY <1>2, <1>3, <1>4, <1>5, <1>6


\* The file was read once at the start and once by each COMMAND, and configs
\* holds what was read.
ReadsInv ==
    /\ TypeInv /\ IsSeq(reads)
    /\ main = "start" => reads = <<>>
    /\ main = "loop" => reads # <<>>
    /\ reads = <<>> => log = <<>>
    /\ reads # <<>> => Len(reads) = CommandsIn(log, Len(log)) + 1
    /\ Gathered(configs, reads, Len(reads))
    /\ CommandsAccumulate

\* What reading the file does.
LEMMA ReadsGrow ==
    ASSUME ReadsInv, ReadConfigs
    PROVE  /\ IsSeq(reads') /\ reads' # <<>>
           /\ Len(reads) \in Nat /\ Len(reads') = Len(reads) + 1
           /\ \A r \in 1..Len(reads) : reads'[r] = reads[r]
           /\ Gathered(configs', reads', Len(reads'))
<1> DEFINE n == Len(reads)
<1>1. /\ IsSeq(reads')
      /\ n \in Nat /\ Len(reads') = n + 1
      /\ \A r \in 1..n : reads'[r] = reads[r]
      /\ reads'[n + 1] = file
  BY Appended DEF ReadsInv, ReadConfigs
<1>2. Gathered(configs, reads', n)
  BY <1>1, GatheredKept DEF ReadsInv
<1>3. Gathered(Over(reads'[n + 1], configs), reads', n + 1)
  BY <1>1, <1>2, GatheredOver
<1>4. configs' = Over(reads'[n + 1], configs)
  BY <1>1 DEF ReadConfigs
<1>5. reads' # <<>>
  BY <1>1
<1> QED
  BY <1>1, <1>3, <1>4, <1>5

\* A command keeps the account of what was read.
LEMMA ReadsExecute ==
    ASSUME ReadsInv, NEW c \in Commands, Execute(c)
    PROVE  ReadsInv'
<1> DEFINE n == Len(log)
<1>1. PICK reply : Answer(c, reply)
  BY DEF Execute, Del, Set, Get, Exists, Command, Echo
<1>2. /\ TypeInv' /\ main = "loop" /\ main' = "loop" /\ reads # <<>>
      /\ Len(reads) = CommandsIn(log, n) + 1
  BY TypeExecute DEF ReadsInv, Execute, Del, Set, Get, Exists, Command, Echo
<1>3. /\ n \in Nat /\ Len(log') = n + 1 /\ DOMAIN log = 1..n /\ DOMAIN log' = 1..(n + 1)
      /\ \A j \in 1..n : log'[j] = log[j]
      /\ log'[n + 1] = [asked |-> c, answer |-> reply]
  BY <1>1, LogGrows DEF ReadsInv, Execute
<1>4. /\ CommandsIn(log', n + 1) = CommandsIn(log, n) + (IF c.name = "COMMAND" THEN 1 ELSE 0)
      /\ CommandsIn(log, n) \in Nat
  <2>1. CommandsIn(log', n) = CommandsIn(log, n) /\ CommandsIn(log, n) \in Nat
    BY <1>3, CommandsCounted
  <2>2. CommandsIn(log', n + 1)
          = CommandsIn(log', n) + (IF log'[n + 1].asked.name = "COMMAND" THEN 1 ELSE 0)
    BY <1>3, CommandsCounted
  <2> QED
    BY <1>3, <2>1, <2>2
<1>5. /\ IsSeq(reads') /\ reads' # <<>>
      /\ Len(reads') = CommandsIn(log', n + 1) + 1
      /\ \A r \in 1..Len(reads) : reads'[r] = reads[r]
      /\ Gathered(configs', reads', Len(reads'))
      /\ c.name = "COMMAND" => log'[n + 1].answer = configs'
  <2>1. CASE c.name = "COMMAND" /\ Command(c)
    <3>1. log'[n + 1].answer = configs' /\ ReadConfigs
      BY <2>1, <1>3, LogGrows DEF Command, Answer, ReadsInv, TypeInv, IsSeq
    <3>2. /\ IsSeq(reads') /\ reads' # <<>> /\ Len(reads') = Len(reads) + 1
          /\ \A r \in 1..Len(reads) : reads'[r] = reads[r]
          /\ Gathered(configs', reads', Len(reads'))
      BY <3>1, ReadsGrow
    <3> QED
      BY <1>2, <1>4, <2>1, <3>1, <3>2
  <2>2. CASE \/ c.name = "DEL" /\ Del(c)
             \/ c.name = "SET" /\ Set(c)
             \/ c.name = "GET" /\ Get(c)
             \/ c.name = "EXISTS" /\ Exists(c)
             \/ c.name \in Unknown /\ Echo(c)
    <3>1. c.name # "COMMAND"
      BY <2>2, ExecutorsAssumption DEF Known
    <3>2. reads' = reads /\ configs' = configs
      BY <2>2 DEF Del, Set, Get, Exists, Echo
    <3> QED
      BY <1>2, <1>4, <3>1, <3>2 DEF ReadsInv
  <2> QED
    BY <2>1, <2>2 DEF Execute
<1>6. ASSUME NEW i \in DOMAIN log', log'[i].asked.name = "COMMAND"
      PROVE  Gathered(log'[i].answer, reads', CommandsIn(log', i) + 1)
  <2>1. CASE i \in 1..n
    <3>1. log'[i] = log[i]
      BY <1>3, <2>1
    <3>2. Gathered(log[i].answer, reads, CommandsIn(log, i) + 1)
      BY <1>3, <1>6, <2>1, <3>1 DEF ReadsInv, CommandsAccumulate
    <3>3. CommandsIn(log', i) = CommandsIn(log, i) /\ CommandsIn(log, i) \in Nat
      <4>1. i \in Nat /\ \A j \in 1..i : log'[j] = log[j]
        BY <1>3, <2>1
      <4> QED
        BY <4>1, CommandsCounted
    <3>4. CommandsIn(log, i) <= CommandsIn(log, n)
      BY <1>3, <2>1, CommandsCounted
    <3>5. \A r \in 1..(CommandsIn(log, i) + 1) : reads'[r] = reads[r]
      BY <1>2, <1>4, <1>5, <3>3, <3>4
    <3> QED
      BY <3>1, <3>2, <3>3, <3>5, GatheredKept
  <2>2. CASE i = n + 1
    BY <1>3, <1>5, <1>6, <2>2
  <2> QED
    BY <1>3, <2>1, <2>2
<1>7. CommandsAccumulate'
  BY <1>6 DEF CommandsAccumulate
<1> QED
  BY <1>2, <1>3, <1>5, <1>7 DEF ReadsInv

\* For any file of commands, however it is edited: a COMMAND answers with every
\* command that any version of the file named that was read so far, each as the
\* latest of them describes it.
THEOREM CommandAnswersAccumulate == Spec => []CommandsAccumulate
<1>1. Init => ReadsInv
  <2> SUFFICES ASSUME Init PROVE ReadsInv
    OBVIOUS
  <2>1. reads = <<>> /\ log = <<>> /\ DOMAIN log = {} /\ Len(reads) = 0 /\ IsSeq(reads)
    <3>1. <<>> \in Seq({})
      OBVIOUS
    <3> QED
      BY <3>1 DEF Init, IsSeq
  <2>2. DOMAIN configs = {}
    BY DEF Init, NoKey
  <2>3. Gathered(configs, reads, 0)
    BY <2>2 DEF Gathered
  <2> QED
    BY <2>1, <2>3, TypeInit DEF Init, ReadsInv, CommandsAccumulate
<1>2. ReadsInv /\ [Next]_vars => ReadsInv'
  <2> SUFFICES ASSUME ReadsInv, [Next]_vars PROVE ReadsInv'
    OBVIOUS
  <2>1. TypeInv'
    BY TypeStep DEF ReadsInv
  <2>2. CASE Start
    <3>1. /\ IsSeq(reads') /\ reads' # <<>> /\ Len(reads') = Len(reads) + 1
          /\ Gathered(configs', reads', Len(reads'))
      BY <2>2, ReadsGrow DEF Start
    <3>2. log = <<>> /\ log' = <<>> /\ Len(reads) = 0 /\ main' = "loop"
      BY <2>2 DEF Start, ReadsInv
    <3>3. Len(log') = 0 /\ CommandsIn(log', 0) = 0 /\ DOMAIN log' = {}
      BY <3>2, CommandsCounted
    <3> QED
      <4>1. CommandsAccumulate'
        BY <3>3 DEF CommandsAccumulate
      <4>2. Len(reads') = CommandsIn(log', Len(log')) + 1
        BY <3>1, <3>2, <3>3
      <4> QED
        BY <2>1, <3>1, <3>2, <4>1, <4>2 DEF ReadsInv
  <2>3. CASE \E c \in Commands : Execute(c)
    BY <2>3, ReadsExecute
  <2>4. CASE UNCHANGED <<log, reads, configs>> /\ (main' = main \/ main' = "ended")
    BY <2>1, <2>4 DEF ReadsInv, CommandsAccumulate
  <2> QED
    BY <2>2, <2>3, <2>4 DEF Next, End, EditFile, vars
<1>3. ReadsInv => CommandsAccumulate
  BY DEF ReadsInv
<1> QED
  BY <1>1, <1>2, <1>3, PTL DEF Spec

=============================================================================
