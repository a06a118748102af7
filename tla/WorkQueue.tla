------------------------------ MODULE WorkQueue ------------------------------
(* What ThreadPool (src/General/ThreadPool.cpp) promises its owner, without   *)
(* threads, lock or condition variable: tasks come out in the order they went *)
(* in, each one once, and the pool closes only when all of them have run.     *)
EXTENDS Integers, Sequences, Functions

CONSTANT Tasks          \* closures handed to enqueue; each is a distinct object

VARIABLES
    submitted,          \* every task handed to enqueue, in order
    taken,              \* the tasks a worker has popped, in order
    done,               \* the tasks that have returned
    closed              \* the destructor has returned

vars == <<submitted, taken, done, closed>>

Init ==
    /\ submitted = <<>>
    /\ taken = <<>>
    /\ done = {}
    /\ closed = FALSE

\* A batch is appended: what was submitted stays, and no task comes twice.
Submit ==
    /\ ~closed
    /\ submitted' \in Seq(Tasks)
    /\ Len(submitted) <= Len(submitted')
    /\ \A i \in 1..Len(submitted) : submitted'[i] = submitted[i]
    /\ \A i, j \in 1..Len(submitted') : submitted'[i] = submitted'[j] => i = j
    /\ UNCHANGED <<taken, done, closed>>

Take ==
    /\ Len(taken) < Len(submitted)
    /\ taken' = Append(taken, submitted[Len(taken) + 1])
    /\ UNCHANGED <<submitted, done, closed>>

Finish ==
    /\ \E t \in Range(taken) \ done : done' = done \union {t}
    /\ UNCHANGED <<submitted, taken, closed>>

Close ==
    /\ done = Range(submitted)
    /\ closed' = TRUE
    /\ UNCHANGED <<submitted, taken, done>>

Next == Submit \/ Take \/ Finish \/ Close

Spec == Init /\ [][Next]_vars
=============================================================================
