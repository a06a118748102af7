----------------------------- MODULE RedisStore -----------------------------
(* What the commands of src/Server/Executors.cpp promise, "behavior refered   *)
(* to redis command documentation" (line 180): a store of strings, each       *)
(* command one atomic step that answers, and a server that goes on.           *)
EXTENDS Naturals, Sequences, FiniteSets

CONSTANTS
    Keys,
    Values,
    Commands,   \* what clients ask: [name, args]
    Malformed,  \* requests that are no commands
    Unset       \* a key without a value, also as an answer; nothing asked

VARIABLES
    store,      \* [Keys -> Values \union {Unset}]
    asked,      \* the last request
    answer,     \* its answer
    up,         \* the server runs
    installed   \* the file that describes the commands is there

vars == <<store, asked, answer, up, installed>>

Init ==
    /\ store = [k \in Keys |-> Unset]
    /\ asked = Unset /\ answer = Unset
    /\ up = TRUE
    /\ installed \in BOOLEAN

Live(ks) == {k \in ks : store[k] # Unset}

Named(args) == {args[i] : i \in DOMAIN args}

\* DEL removes the keys it names, and answers how many of them there were.
Del(c) ==
    /\ c.name = "DEL"
    /\ answer' = Cardinality(Live(Named(c.args)))
    /\ store' = [k \in Keys |-> IF k \in Named(c.args) THEN Unset ELSE store[k]]

Set(c) ==
    /\ c.name = "SET"
    /\ answer' = "OK"
    /\ store' = [store EXCEPT ![c.args[1]] = c.args[2]]

\* GET answers the value, or that there is none.
Get(c) ==
    /\ c.name = "GET"
    /\ answer' = store[c.args[1]]
    /\ UNCHANGED store

\* EXISTS counts a key as often as it is named.
Exists(c) ==
    /\ c.name = "EXISTS"
    /\ answer' = Cardinality({i \in DOMAIN c.args : store[c.args[i]] # Unset})
    /\ UNCHANGED store

\* Any other command leaves the store alone. It answers what it was asked,
\* except COMMAND, whose answer is not the store's to say.
Other(c) ==
    /\ c.name \notin {"DEL", "SET", "GET", "EXISTS"}
    /\ c.name # "COMMAND" => answer' = c
    /\ UNCHANGED store

Ask(c) == c \in Commands /\ (Del(c) \/ Set(c) \/ Get(c) \/ Exists(c) \/ Other(c))

\* What is no command gets an error.
Refuse(c) == c \in Malformed /\ answer' = "ERR" /\ UNCHANGED store

\* A step of the server takes one request.
Take ==
    /\ up
    /\ Ask(asked') \/ Refuse(asked')
    /\ UNCHANGED <<up, installed>>

\* Without the file the server cannot go on.
End ==
    /\ ~installed
    /\ up' = FALSE
    /\ UNCHANGED <<store, asked, answer, installed>>

\* The operator puts the file there or takes it away.
Install ==
    /\ installed' = ~installed
    /\ UNCHANGED <<store, asked, answer, up>>

Next == Take \/ End \/ Install

Spec == Init /\ [][Next]_vars
=============================================================================
