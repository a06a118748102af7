----------------------------- MODULE ThreadPool -----------------------------
(* The pool of worker threads of src/General/ThreadPool.cpp: a task queue     *)
(* guarded by queueMutex_, a condition variable, and an owner thread that     *)
(* enqueues batches and finally runs the destructor.                          *)
(*                                                                            *)
(* A critical section of queueMutex_ is one action.  The notifications are    *)
(* sent after the lock is released (lines 58, 78, 89), so they are actions of *)
(* their own, and workers run between the push and the notification.          *)
EXTENDS Integers, Sequences, FiniteSets, Functions

CONSTANTS
    Workers,    \* the threads of threads_
    Tasks,      \* the closures handed to enqueue, each a distinct object
    MaxBatch,   \* bound: the longest vector one enqueue is given
    NoTask      \* the empty std::function

ASSUME PoolAssumption ==
    /\ Workers # {}
    /\ NoTask \notin Tasks
    /\ MaxBatch \in Nat

VARIABLES
    tasks_,     \* the queue
    stop_,      \* the destructor's flag
    pc,         \* [Workers -> {"lock", "wait", "run", "exit"}]
    task,       \* [Workers -> Tasks \union {NoTask}], the worker's local
    owner,      \* where the owner's thread is
    submitted,  \* history: all tasks pushed, in order
    taken,      \* history: all tasks popped, in order
    done        \* history: the tasks that have returned

vars == <<tasks_, stop_, pc, task, owner, submitted, taken, done>>

\* No task is in the sequence twice.
Distinct(s) == \A i, j \in DOMAIN s : s[i] = s[j] => i = j

\* A vector handed to enqueue: new closures, each once.  It may be empty: the
\* event loop passes its write tasks on every turn, and there may be none.
Batches ==
    {b \in UNION {[1..n -> Tasks \ Range(submitted)] : n \in 0..MaxBatch} : Distinct(b)}

Init ==
    /\ tasks_ = <<>>
    /\ stop_ = FALSE
    /\ pc = [w \in Workers |-> "lock"]
    /\ task = [w \in Workers |-> NoTask]
    /\ owner = "up"
    /\ submitted = <<>>
    /\ taken = <<>>
    /\ done = {}

-----------------------------------------------------------------------------
(* Plausible mistakes in that code; PROJECT.json names the property each one  *)
(* breaks.                                                                    *)

\* The batch replaces the queue.
EnqueueReplaces(batch) ==
    /\ owner = "up"
    /\ tasks_' = batch
    /\ submitted' = submitted \o batch
    /\ owner' = "notify"
    /\ UNCHANGED <<stop_, pc, task, taken, done>>

\* The push is not followed by a notification.
EnqueueSilent(batch) ==
    /\ owner = "up"
    /\ tasks_' = tasks_ \o batch
    /\ submitted' = submitted \o batch
    /\ UNCHANGED <<stop_, pc, task, owner, taken, done>>

\* An empty batch returns before the notification.
EnqueueSkipsEmpty(batch) ==
    /\ owner = "up"
    /\ tasks_' = tasks_ \o batch
    /\ submitted' = submitted \o batch
    /\ owner' = IF batch = <<>> THEN "up" ELSE "notify"
    /\ UNCHANGED <<stop_, pc, task, taken, done>>

\* The destructor notifies one worker only.
NotifyAllWakesOne ==
    /\ owner = "notifyAll"
    /\ owner' = "join"
    /\ \/ \E w \in Workers : pc[w] = "wait" /\ pc' = [pc EXCEPT ![w] = "lock"]
       \/ (\A w \in Workers : pc[w] # "wait") /\ pc' = pc
    /\ UNCHANGED <<tasks_, stop_, task, submitted, taken, done>>

\* The destructor detaches the threads.
JoinDetaches ==
    /\ owner = "join"
    /\ owner' = "gone"
    /\ UNCHANGED <<tasks_, stop_, pc, task, submitted, taken, done>>

\* The wait has no predicate: a worker waits before it looks at the queue.
WaitBlind(w) ==
    /\ pc[w] = "lock"
    /\ ~stop_
    /\ pc' = [pc EXCEPT ![w] = "wait"]
    /\ UNCHANGED <<tasks_, stop_, task, owner, submitted, taken, done>>

\* A stopped worker leaves its queue behind.
ExitEarly(w) ==
    /\ pc[w] = "lock"
    /\ stop_
    /\ pc' = [pc EXCEPT ![w] = "exit"]
    /\ UNCHANGED <<tasks_, stop_, task, owner, submitted, taken, done>>

\* front() without pop().
TakeCopies(w) ==
    /\ pc[w] = "lock"
    /\ tasks_ # <<>>
    /\ task' = [task EXCEPT ![w] = Head(tasks_)]
    /\ taken' = Append(taken, Head(tasks_))
    /\ pc' = [pc EXCEPT ![w] = "run"]
    /\ UNCHANGED <<tasks_, stop_, owner, submitted, done>>

\* The local is declared outside the loop and outlives the call.
RunKeeps(w) ==
    /\ pc[w] = "run"
    /\ done' = done \union {task[w]}
    /\ pc' = [pc EXCEPT ![w] = "lock"]
    /\ UNCHANGED <<tasks_, stop_, task, owner, submitted, taken>>

-----------------------------------------------------------------------------
(* The owner.                                                                 *)

\* enqueue: push under the lock.  A single task is a batch of one.
Enqueue(batch) ==
    /\ owner = "up"
    /\ tasks_' = tasks_ \o batch
    /\ submitted' = submitted \o batch
    /\ owner' = "notify"
    /\ UNCHANGED <<stop_, pc, task, taken, done>>

\* cv_.notify_one() after the unlock: one waiter goes back for the lock, any
\* of them; with no waiter it does nothing.
NotifyOne ==
    /\ owner = "notify"
    /\ owner' = "up"
    /\ \/ \E w \in Workers :
            /\ pc[w] = "wait"
            /\ pc' = [pc EXCEPT ![w] = "lock"]
       \/ /\ \A w \in Workers : pc[w] # "wait"
          /\ pc' = pc
    /\ UNCHANGED <<tasks_, stop_, task, submitted, taken, done>>

\* ~ThreadPool: the flag, set under the lock.
Stop ==
    /\ owner = "up"
    /\ stop_' = TRUE
    /\ owner' = "notifyAll"
    /\ UNCHANGED <<tasks_, pc, task, submitted, taken, done>>

\* ~ThreadPool: cv_.notify_all().
NotifyAll ==
    /\ owner = "notifyAll"
    /\ owner' = "join"
    /\ pc' = [w \in Workers |-> IF pc[w] = "wait" THEN "lock" ELSE pc[w]]
    /\ UNCHANGED <<tasks_, stop_, task, submitted, taken, done>>

\* ~ThreadPool: every thread has been joined.
Join ==
    /\ owner = "join"
    /\ \A w \in Workers : pc[w] = "exit"
    /\ owner' = "gone"
    /\ UNCHANGED <<tasks_, stop_, pc, task, submitted, taken, done>>

-----------------------------------------------------------------------------
(* A worker.                                                                  *)

\* cv_.wait: the predicate is false, so the worker releases the lock and waits.
Wait(w) ==
    /\ pc[w] = "lock"
    /\ tasks_ = <<>> /\ ~stop_
    /\ pc' = [pc EXCEPT ![w] = "wait"]
    /\ UNCHANGED <<tasks_, stop_, task, owner, submitted, taken, done>>

\* The pool is stopped and nothing is left: the thread returns.
Exit(w) ==
    /\ pc[w] = "lock"
    /\ stop_ /\ tasks_ = <<>>
    /\ pc' = [pc EXCEPT ![w] = "exit"]
    /\ UNCHANGED <<tasks_, stop_, task, owner, submitted, taken, done>>

\* Pop the first task, then unlock.
Take(w) ==
    /\ pc[w] = "lock"
    /\ tasks_ # <<>>
    /\ task' = [task EXCEPT ![w] = Head(tasks_)]
    /\ taken' = Append(taken, Head(tasks_))
    /\ tasks_' = Tail(tasks_)
    /\ pc' = [pc EXCEPT ![w] = "run"]
    /\ UNCHANGED <<stop_, owner, submitted, done>>

\* task() returns, outside the lock; the local is destroyed with the iteration.
Run(w) ==
    /\ pc[w] = "run"
    /\ done' = done \union {task[w]}
    /\ task' = [task EXCEPT ![w] = NoTask]
    /\ pc' = [pc EXCEPT ![w] = "lock"]
    /\ UNCHANGED <<tasks_, stop_, owner, submitted, taken>>

\* A condition variable may wake its waiter for no reason.
SpuriousWake(w) ==
    /\ pc[w] = "wait"
    /\ pc' = [pc EXCEPT ![w] = "lock"]
    /\ UNCHANGED <<tasks_, stop_, task, owner, submitted, taken, done>>

-----------------------------------------------------------------------------
Worker(w) == Wait(w) \/ Exit(w) \/ Take(w) \/ Run(w)

Owner == (\E batch \in Batches : Enqueue(batch)) \/ NotifyOne \/ Stop \/ NotifyAll \/ Join

Next == Owner \/ \E w \in Workers : Worker(w) \/ SpuriousWake(w)

Spec == Init /\ [][Next]_vars

\* The operating system runs every thread that can run; the owner leaves
\* enqueue and the destructor, and calls them when it likes.  Whether a task
\* returns is the task's affair: Run has no fairness of its own.
FairSpec ==
    /\ Spec
    /\ \A w \in Workers : WF_vars(Wait(w)) /\ WF_vars(Exit(w)) /\ WF_vars(Take(w))
    /\ WF_vars(NotifyOne) /\ WF_vars(NotifyAll) /\ WF_vars(Join)

\* What a worker starts returns.
Returns(w) == WF_vars(Run(w))

\* The owner is the event loop (NetCore.cpp:380), which enqueues on every turn
\* even when it has nothing to hand over.
Polling == WF_vars(Enqueue(<<>>))

-----------------------------------------------------------------------------
(* Properties.                                                                *)

\* The types; a worker holds a task exactly while it runs it, so the closure
\* and the event it captures are released when the call returns.
TypeOK ==
    /\ tasks_ \in Seq(Tasks)
    /\ stop_ \in BOOLEAN
    /\ pc \in [Workers -> {"lock", "wait", "run", "exit"}]
    /\ task \in [Workers -> Tasks \union {NoTask}]
    /\ owner \in {"up", "notify", "notifyAll", "join", "gone"}
    /\ submitted \in Seq(Tasks)
    /\ taken \in Seq(Tasks)
    /\ done \in SUBSET Tasks
    /\ \A w \in Workers : task[w] # NoTask <=> pc[w] = "run"

\* Whatever the threads do, the tasks taken and the tasks still queued are
\* together the tasks submitted, in that order: none is lost, copied or passed.
Fifo == submitted = taken \o tasks_

\* A task taken has returned or is being run by exactly one worker, and a task
\* that has returned is not run again.
RunOnce ==
    /\ {task[w] : w \in {v \in Workers : pc[v] = "run"}} = Range(taken) \ done
    /\ \A v, w \in Workers : pc[v] = "run" /\ pc[w] = "run" /\ task[v] = task[w] => v = w
    /\ done \subseteq Range(taken)

\* No lost wake-up: a queued task never faces a pool that is all asleep, unless
\* the owner is still about to notify; and once the destructor has notified, no
\* worker sleeps again.
NoLostWakeup ==
    /\ tasks_ # <<>> /\ owner \notin {"notify", "notifyAll"} =>
          \E w \in Workers : pc[w] \in {"lock", "run"}
    /\ owner \in {"join", "gone"} => \A w \in Workers : pc[w] # "wait"

\* The destructor returns only when every task ever submitted has run
\* (ThreadPool.cpp:60, "to ensure they have completed their tasks").
JoinDrains == owner = "gone" => tasks_ = <<>> /\ done = Range(submitted)

\* The pool implements the work queue.
WQ == INSTANCE WorkQueue WITH closed <- (owner = "gone")
ImplementsWorkQueue == WQ!Spec

\* If tasks return, every task submitted is run in the end, whatever the owner
\* does afterwards.
EveryTaskRuns ==
    (\A w \in Workers : Returns(w)) => \A t \in Tasks : t \in Range(submitted) ~> t \in done

\* If tasks return, so does the destructor.
StopTerminates == (\A w \in Workers : Returns(w)) => (stop_ ~> owner = "gone")

\* A polling owner gets every task started while the tasks of one worker at
\* least return: one notification per batch is enough, for the next turn of the
\* loop sends another.
EveryTaskStarts ==
    Polling /\ (\E w \in Workers : Returns(w)) =>
        \A t \in Tasks : t \in Range(submitted) ~> t \in Range(taken)
=============================================================================
