----------------------------- MODULE Executors -----------------------------
(* The commands: start and dispatch in src/Server/ServerMain.cpp, the         *)
(* executors of src/Server/Executors.cpp, the map of CoreDataManager.cpp and  *)
(* the file that describes the commands. One thread executes, one after the   *)
(* other.                                                                     *)
EXTENDS Integers, Sequences, FiniteSets, Functions, FiniteSetsExt

CONSTANTS
    Keys,
    Values,
    Empty,      \* the empty string
    NoString,   \* an element that is no string: an integer, a null, an array
    Unknown,    \* command names outside commandList; names are case-sensitive
    Files,      \* what the file of commands may hold: name |-> description
    Gone,       \* there is no such file, or it cannot be parsed
    Careless,   \* what careless clients send: see Sends
    MaxArgs,    \* bound: arguments of a DEL or an EXISTS
    MaxLog,     \* bound: commands executed
    None        \* no value, no answer

Known == {"COMMAND", "DEL", "SET", "GET", "EXISTS"}

ASSUME ExecutorsAssumption ==
    /\ None \notin Values /\ None # Empty
    /\ NoString \notin Keys \union Values \union Unknown
    /\ MaxArgs \in Nat /\ MaxLog \in Nat
    /\ Known \intersect (Unknown \union {NoString}) = {}
    /\ Gone \notin Files
    /\ Careless \subseteq {"short", "missing"}

VARIABLES
    stringMap,  \* the keys of the std::map with their values
    configs,    \* _commandConfigMap
    file,       \* the file at commandConfigPath
    main,       \* "start", "loop" or "ended", where the process has ended
    log,        \* history: the commands executed, with their answers
    reads       \* history: the contents of the file, each time it was read

vars == <<stringMap, configs, file, main, log, reads>>

NoKey == [k \in {} |-> None]

Init ==
    /\ stringMap = NoKey
    /\ configs = NoKey
    /\ file \in Files \union {Gone}
    /\ main = "start"
    /\ log = <<>> /\ reads = <<>>

\* What clients send: any number of arguments, of the right kind or no string.
Requests ==
    LET keys == UNION {[1..n -> Keys \union {NoString}] : n \in 0..MaxArgs}
        get == {<<>>} \union {<<k>> : k \in Keys \union {NoString}}
        set == get \union ((Keys \union {NoString}) \X (Values \union {NoString}))
    IN  [name : {"DEL", "EXISTS"}, args : keys]
          \union [name : {"SET"}, args : set]
          \union [name : {"GET"}, args : get]
          \union [name : {"COMMAND", NoString} \union Unknown, args : {<<>>}]

\* The arguments an executor reads, whether they are there or not.
ReadBy(c) ==
    CASE c.name = "SET" -> 1..2
      [] c.name = "GET" -> 1..1
      [] c.name \in {"DEL", "EXISTS"} -> DOMAIN c.args
      [] OTHER -> {}

\* at() throws std::out_of_range, which nothing catches; a getDataStr() that is
\* null is dereferenced. Either ends the process.
Readable(c) ==
    /\ c.name # NoString
    /\ \A i \in ReadBy(c) : i \in DOMAIN c.args /\ c.args[i] # NoString

Commands == {c \in Requests : Readable(c)}

\* So does a COMMAND when the file is gone.
EndsProcess(c) == ~Readable(c) \/ (c.name = "COMMAND" /\ file = Gone)

\* Clients may be careless in two ways: requests that cannot be read ("short"), and
\* a GET of a key that is not there ("missing").
Sends(c) ==
    /\ ~Readable(c) => "short" \in Careless
    /\ Readable(c) /\ c.name = "GET" /\ c.args[1] \notin DOMAIN stringMap => "missing" \in Careless

Answer(c, reply) == log' = Append(log, [asked |-> c, answer |-> reply])

\* The map without some keys; one map written over another.
Erase(map, ks) == [x \in DOMAIN map \ ks |-> map[x]]
Over(map, old) ==
    [x \in DOMAIN map \union DOMAIN old |-> IF x \in DOMAIN map THEN map[x] ELSE old[x]]
Insert(map, k, v) == Over([x \in {k} |-> v], map)

-----------------------------------------------------------------------------
(* The file of commands, the start, and COMMAND.                              *)

\* The operator edits, replaces or removes the file while the server runs.
EditFile(f) ==
    /\ f # file /\ main # "ended"
    /\ file' = f
    /\ UNCHANGED <<stringMap, configs, main, log, reads>>

\* Mistake: what an older file named is dropped.
ConfigsAnew ==
    /\ configs' = file
    /\ reads' = Append(reads, file)

\* getCommandConfigs: the flag is never set, so the file is read every time,
\* over what was read before.
ReadConfigs ==
    /\ configs' = Over(file, configs)
    /\ reads' = Append(reads, file)

\* main reads the file after the server is bound.
Start ==
    /\ main = "start"
    /\ file # Gone
    /\ ReadConfigs
    /\ main' = "loop"
    /\ UNCHANGED <<stringMap, file, log>>

Command(c) ==
    /\ ReadConfigs
    /\ Answer(c, configs')
    /\ UNCHANGED <<stringMap, file, main>>

-----------------------------------------------------------------------------
(* The map.                                                                   *)

\* Mistake: all arguments are counted.
DelCountsAll(c) ==
    /\ stringMap' = Erase(stringMap, Range(c.args))
    /\ Answer(c, Len(c.args))
    /\ UNCHANGED <<configs, file, main, reads>>

\* Mistake: a key is reset instead of erased.
DelResets(c) ==
    /\ stringMap' = [x \in DOMAIN stringMap |-> IF x \in Range(c.args) THEN None ELSE stringMap[x]]
    /\ Answer(c, Cardinality(Range(c.args) \intersect DOMAIN stringMap))
    /\ UNCHANGED <<configs, file, main, reads>>

\* ExecutorDEL goes argument by argument: one counts if its key is there still,
\* that is, was there at first and was not named before.
Erased(c) ==
    {i \in DOMAIN c.args :
        /\ c.args[i] \in DOMAIN stringMap
        /\ \A j \in 1..(i - 1) : c.args[j] # c.args[i]}

Del(c) ==
    /\ stringMap' = Erase(stringMap, {c.args[i] : i \in Erased(c)})
    /\ Answer(c, Cardinality(Erased(c)))
    /\ UNCHANGED <<configs, file, main, reads>>

\* Mistake: emplace, which keeps a value that is there.
SetEmplaces(c) ==
    /\ stringMap' = Over(stringMap, [x \in {c.args[1]} |-> c.args[2]])
    /\ Answer(c, "OK")
    /\ UNCHANGED <<configs, file, main, reads>>

\* ExecutorSET: operator[] and an assignment.
Set(c) ==
    /\ stringMap' = Insert(stringMap, c.args[1], c.args[2])
    /\ Answer(c, "OK")
    /\ UNCHANGED <<configs, file, main, reads>>

\* operator[]: the value, or the empty string for a key it does not find.
Value(k) == IF k \in DOMAIN stringMap THEN stringMap[k] ELSE Empty

\* ExecutorGET: operator[] inserts what it does not find.
Get(c) ==
    /\ stringMap' = Insert(stringMap, c.args[1], Value(c.args[1]))
    /\ Answer(c, Value(c.args[1]))
    /\ UNCHANGED <<configs, file, main, reads>>

\* ExecutorEXISTS: one more for each argument that is found.
Exists(c) ==
    /\ Answer(c, Cardinality({i \in DOMAIN c.args : c.args[i] \in DOMAIN stringMap}))
    /\ UNCHANGED <<stringMap, configs, file, main, reads>>

\* BaseExecutor echoes.
Echo(c) ==
    /\ Answer(c, c)
    /\ UNCHANGED <<stringMap, configs, file, main, reads>>

-----------------------------------------------------------------------------
\* getExcutor and execute. The executors are made anew for each command and
\* dropped: emplace keeps the first ones, and they hold no state.
Execute(c) ==
    /\ main = "loop"
    /\ Sends(c)
    /\ Len(log) < MaxLog
    /\ \/ c.name = "DEL" /\ Del(c)
       \/ c.name = "SET" /\ Set(c)
       \/ c.name = "GET" /\ Get(c)
       \/ c.name = "EXISTS" /\ Exists(c)
       \/ c.name = "COMMAND" /\ file # Gone /\ Command(c)
       \/ c.name \in Unknown /\ Echo(c)

\* A request that ends the process, or a start without the file.
End ==
    /\ \/ main = "start" /\ file = Gone
       \/ main = "loop" /\ \E c \in Requests : Sends(c) /\ EndsProcess(c)
    /\ main' = "ended"
    /\ UNCHANGED <<stringMap, configs, file, log, reads>>

Next ==
    \/ Start
    \/ \E c \in Commands : Execute(c)
    \/ End
    \/ \E f \in Files \union {Gone} : EditFile(f)

Spec == Init /\ [][Next]_vars

-----------------------------------------------------------------------------
(* Properties.                                                                *)

TypeOK ==
    /\ DOMAIN stringMap \subseteq Keys
    /\ \A k \in DOMAIN stringMap : stringMap[k] \in Values \union {Empty}
    /\ main \in {"start", "loop", "ended"}
    /\ Len(log) <= MaxLog
    /\ \A i \in DOMAIN log : log[i].asked \in Commands

LastAsked == IF log = <<>> THEN None ELSE log[Len(log)].asked
LastAnswer == IF log = <<>> THEN None ELSE log[Len(log)].answer

Store ==
    INSTANCE RedisStore WITH
        Malformed <- Requests \ Commands,
        Unset <- None,
        store <- [k \in Keys |-> IF k \in DOMAIN stringMap THEN stringMap[k] ELSE None],
        asked <- LastAsked,
        answer <- LastAnswer,
        up <- main # "ended",
        installed <- file # Gone

\* Every command answers, and changes the store, as the commands of Redis do
\* ("behavior refered to redis command documentation", Executors.cpp:180), and only
\* the loss of the file of commands ends the process.
ImplementsRedisStore == Store!Spec

\* The command may change whether k exists.
Touches(c, k) ==
    \/ c.name = "DEL" /\ k \in Range(c.args)
    \/ c.name = "SET" /\ k = c.args[1]

\* By the first n commands of a log, k exists: the last to touch it was no DEL.
Present(l, n, k) ==
    LET touching == {j \in 1..n : Touches(l[j].asked, k)}
    IN  touching # {} /\ l[Max(touching)].asked.name # "DEL"

\* The SETs that brought their key into being.
Created ==
    {i \in DOMAIN log :
        /\ log[i].asked.name = "SET"
        /\ ~Present(log, i - 1, log[i].asked.args[1])}

\* One element for each key that a DEL answered to have deleted.
Counted ==
    {p \in (DOMAIN log) \X (1..MaxArgs) :
        log[p[1]].asked.name = "DEL" /\ p[2] <= log[p[1]].answer}

\* Every key that a SET brought into being is in the map or was counted by a DEL,
\* and there are no other keys: the other commands only read the map.
KeysAccounted ==
    Cardinality(Created) = Cardinality(DOMAIN stringMap) + Cardinality(Counted)

\* The COMMANDs among the first n commands of a log.
CommandsIn(l, n) == Cardinality({j \in 1..n : l[j].asked.name = "COMMAND"})

\* What the first n contents of the file name, each as the latest describes it.
Gathered(descriptions, contents, n) ==
    /\ DOMAIN descriptions = UNION {DOMAIN contents[r] : r \in 1..n}
    /\ \A name \in DOMAIN descriptions :
         LET naming == {r \in 1..n : name \in DOMAIN contents[r]}
         IN  descriptions[name] = contents[Max(naming)][name]

\* COMMAND answers with every command that any version of the file named, at the
\* start or at a COMMAND up to this one, each as the latest version that names
\* it describes it: edits show at once, removals never (_commandConfigMapInited
\* stays false, Executors.cpp:20).
CommandsAccumulate ==
    \A i \in DOMAIN log : log[i].asked.name = "COMMAND" =>
        Gathered(log[i].answer, reads, CommandsIn(log, i) + 1)
=============================================================================
