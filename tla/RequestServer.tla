---------------------------- MODULE RequestServer ----------------------------
(* What the event loop of src/NetCore/NetCore.cpp promises its clients: the   *)
(* requests of a connection are executed one at a time in the order in which  *)
(* they were sent, and answered in that order, each after its execution and   *)
(* once, whatever the threads, the descriptors and the other clients do.      *)
EXTENDS Naturals, Sequences, FiniteSets

CONSTANTS Conns, MaxReq

VARIABLES
    asked,      \* [Conns -> Nat]: requests sent
    executed,   \* the requests executed, <<connection, number>>
    answers,    \* [Conns -> Seq]: the requests answered to each client
    leaving     \* connections closed by their client

vars == <<asked, executed, answers, leaving>>

Init ==
    /\ asked = [c \in Conns |-> 0]
    /\ executed = <<>>
    /\ answers = [c \in Conns |-> <<>>]
    /\ leaving = {}

Ran(c) == {i \in DOMAIN executed : executed[i][1] = c}
Latest(c) == IF Ran(c) = {} THEN 0 ELSE executed[CHOOSE i \in Ran(c) : \A j \in Ran(c) : j <= i][2]

Ask(c) ==
    /\ asked[c] < MaxReq
    /\ asked' = [asked EXCEPT ![c] = @ + 1]
    /\ UNCHANGED <<executed, answers, leaving>>

Leave(c) ==
    /\ leaving' = leaving \union {c}
    /\ UNCHANGED <<asked, executed, answers>>

\* The next request of c; or, of a client that closed before it had its answer,
\* the last one once more.
Execute(c) ==
    /\ \/ Latest(c) < asked[c] /\ executed' = Append(executed, <<c, Latest(c) + 1>>)
       \/ /\ c \in leaving /\ Len(answers[c]) < Latest(c)
          /\ executed' = Append(executed, <<c, Latest(c)>>)
    /\ UNCHANGED <<asked, answers, leaving>>

\* The next answer, if its request was executed.
Answer(c) ==
    /\ Len(answers[c]) < Latest(c)
    /\ answers' = [answers EXCEPT ![c] = Append(@, <<c, Len(@) + 1>>)]
    /\ UNCHANGED <<asked, executed, leaving>>

Next == \E c \in Conns : Ask(c) \/ Leave(c) \/ Execute(c) \/ Answer(c)

Spec == Init /\ [][Next]_vars
=============================================================================
