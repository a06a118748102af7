-------------------------- MODULE ThreadPool_proofs --------------------------
(* Theorems about ThreadPool, for any non-empty set of workers, any tasks and *)
(* any longest batch.                                                         *)
EXTENDS ThreadPool, SequenceTheorems, TLAPS

(* The inductive invariant: the properties of ThreadPool, and what they rest  *)
(* on.                                                                        *)

\* A closure is submitted once.
Unique == Distinct(submitted)

\* The flag follows the destructor.
StopOwner == stop_ <=> owner \in {"notifyAll", "join", "gone"}

\* A thread ends only in a stopped pool with an empty queue, and both last.
ExitDrained == \A w \in Workers : pc[w] = "exit" => stop_ /\ tasks_ = <<>>

\* The destructor has returned only if every thread has ended.
GoneJoined == owner = "gone" => \A w \in Workers : pc[w] = "exit"

IInv ==
    /\ TypeOK
    /\ Fifo
    /\ Unique
    /\ RunOnce
    /\ StopOwner
    /\ NoLostWakeup
    /\ ExitDrained
    /\ GoneJoined

-----------------------------------------------------------------------------
(* Sequences.                                                                 *)

\* What Append and \o do to the set of elements.
LEMMA RangeAppend ==
    ASSUME NEW S, NEW s \in Seq(S), NEW e \in S
    PROVE  Range(Append(s, e)) = Range(s) \union {e}
<1>1. /\ Append(s, e) \in Seq(S)
      /\ Len(Append(s, e)) = Len(s) + 1
      /\ \A i \in 1..Len(s) : Append(s, e)[i] = s[i]
      /\ Append(s, e)[Len(s) + 1] = e
  BY AppendProperties
<1>2. Len(s) \in Nat /\ DOMAIN s = 1..Len(s) /\ DOMAIN Append(s, e) = 1..(Len(s) + 1)
  BY <1>1, LenProperties
<1> QED
  BY <1>1, <1>2 DEF Range

LEMMA RangeConcat ==
    ASSUME NEW S, NEW s \in Seq(S), NEW t \in Seq(S)
    PROVE  Range(s \o t) = Range(s) \union Range(t)
<1>1. /\ s \o t \in Seq(S)
      /\ Len(s \o t) = Len(s) + Len(t)
      /\ \A i \in 1..(Len(s) + Len(t)) :
            (s \o t)[i] = IF i <= Len(s) THEN s[i] ELSE t[i - Len(s)]
  BY ConcatProperties
<1>2. /\ Len(s) \in Nat /\ Len(t) \in Nat
      /\ DOMAIN s = 1..Len(s) /\ DOMAIN t = 1..Len(t)
      /\ DOMAIN (s \o t) = 1..(Len(s) + Len(t))
  BY <1>1, LenProperties
<1>3. Range(s \o t) \subseteq Range(s) \union Range(t)
  <2> SUFFICES ASSUME NEW i \in 1..(Len(s) + Len(t))
               PROVE  (s \o t)[i] \in Range(s) \union Range(t)
    BY <1>2 DEF Range
  <2>1. CASE i <= Len(s)
    BY <2>1, <1>1, <1>2 DEF Range
  <2>2. CASE ~(i <= Len(s))
    <3>1. i - Len(s) \in 1..Len(t) /\ (s \o t)[i] = t[i - Len(s)]
      BY <2>2, <1>1, <1>2
    <3> QED
      BY <3>1, <1>2 DEF Range
  <2> QED
    BY <2>1, <2>2
<1>4. Range(s) \subseteq Range(s \o t)
  BY <1>1, <1>2 DEF Range
<1>5. Range(t) \subseteq Range(s \o t)
  <2> SUFFICES ASSUME NEW i \in 1..Len(t)
               PROVE  t[i] \in Range(s \o t)
    BY <1>2 DEF Range
  <2>1. i + Len(s) \in 1..(Len(s) + Len(t)) /\ (s \o t)[i + Len(s)] = t[i]
    BY <1>1, <1>2
  <2> QED
    BY <2>1, <1>2 DEF Range
<1> QED
  BY <1>3, <1>4, <1>5

\* Fresh elements, each once, keep a sequence free of repetitions.
LEMMA DistinctConcat ==
    ASSUME NEW S, NEW s \in Seq(S), NEW t \in Seq(S),
           Distinct(s), Distinct(t), Range(s) \intersect Range(t) = {}
    PROVE  Distinct(s \o t)
<1>1. /\ s \o t \in Seq(S)
      /\ Len(s \o t) = Len(s) + Len(t)
      /\ \A i \in 1..(Len(s) + Len(t)) :
            (s \o t)[i] = IF i <= Len(s) THEN s[i] ELSE t[i - Len(s)]
  BY ConcatProperties
<1>2. /\ Len(s) \in Nat /\ Len(t) \in Nat
      /\ DOMAIN s = 1..Len(s) /\ DOMAIN t = 1..Len(t)
      /\ DOMAIN (s \o t) = 1..(Len(s) + Len(t))
  BY <1>1, LenProperties
<1>3. \A i \in 1..Len(s), j \in 1..Len(t) : s[i] # t[j]
  BY <1>2 DEF Range
<1>4. SUFFICES ASSUME NEW i \in 1..(Len(s) + Len(t)), NEW j \in 1..(Len(s) + Len(t)),
                      (s \o t)[i] = (s \o t)[j]
               PROVE  i = j
  BY <1>2 DEF Distinct
<1>5. CASE i <= Len(s) /\ j <= Len(s)
  <2>1. s[i] = s[j] /\ i \in DOMAIN s /\ j \in DOMAIN s
    BY <1>1, <1>2, <1>4, <1>5
  <2> QED
    BY <2>1 DEF Distinct
<1>6. CASE ~(i <= Len(s)) /\ ~(j <= Len(s))
  <2>1. /\ t[i - Len(s)] = t[j - Len(s)]
        /\ i - Len(s) \in DOMAIN t /\ j - Len(s) \in DOMAIN t
    BY <1>1, <1>2, <1>4, <1>6
  <2>2. i - Len(s) = j - Len(s)
    BY <2>1 DEF Distinct
  <2> QED
    BY <2>2, <1>2
<1>7. CASE (i <= Len(s)) # (j <= Len(s))
  <2>1. CASE i <= Len(s) /\ ~(j <= Len(s))
    <3>1. s[i] = t[j - Len(s)] /\ i \in 1..Len(s) /\ j - Len(s) \in 1..Len(t)
      BY <1>1, <1>2, <1>4, <2>1
    <3> QED
      BY <3>1, <1>3
  <2>2. CASE j <= Len(s) /\ ~(i <= Len(s))
    <3>1. s[j] = t[i - Len(s)] /\ j \in 1..Len(s) /\ i - Len(s) \in 1..Len(t)
      BY <1>1, <1>2, <1>4, <2>2
    <3> QED
      BY <3>1, <1>3
  <2> QED
    BY <1>7, <2>1, <2>2
<1> QED
  BY <1>5, <1>6, <1>7

\* The head of the queue is not among the elements before it.
LEMMA HeadFresh ==
    ASSUME NEW S, NEW s \in Seq(S), NEW t \in Seq(S), t # <<>>, Distinct(s \o t)
    PROVE  Head(t) \notin Range(s)
<1>1. /\ Len(s \o t) = Len(s) + Len(t)
      /\ s \o t \in Seq(S)
      /\ \A i \in 1..(Len(s) + Len(t)) :
            (s \o t)[i] = IF i <= Len(s) THEN s[i] ELSE t[i - Len(s)]
  BY ConcatProperties
<1>2. /\ Len(s) \in Nat /\ Len(t) \in Nat \ {0} /\ Head(t) = t[1]
      /\ DOMAIN s = 1..Len(s) /\ DOMAIN (s \o t) = 1..(Len(s) + Len(t))
  BY <1>1, LenProperties, EmptySeq
<1>3. Len(s) + 1 \in DOMAIN (s \o t) /\ (s \o t)[Len(s) + 1] = Head(t)
  BY <1>1, <1>2
<1>4. SUFFICES ASSUME NEW i \in 1..Len(s), s[i] = Head(t)
               PROVE  FALSE
  BY <1>2 DEF Range
<1>5. i \in DOMAIN (s \o t) /\ (s \o t)[i] = (s \o t)[Len(s) + 1]
  BY <1>1, <1>2, <1>3, <1>4
<1> QED
  BY <1>2, <1>3, <1>5 DEF Distinct

\* Moving the head of a queue to the end of what came before it.
LEMMA MoveHead ==
    ASSUME NEW S, NEW s \in Seq(S), NEW t \in Seq(S), t # <<>>
    PROVE  Append(s, Head(t)) \o Tail(t) = s \o t
<1>1. /\ Head(t) \in S /\ Tail(t) \in Seq(S)
      /\ Len(Tail(t)) = Len(t) - 1
      /\ \A i \in 1..Len(Tail(t)) : Tail(t)[i] = t[i + 1]
  BY HeadTailProperties
<1>2. /\ Append(s, Head(t)) \in Seq(S)
      /\ Len(Append(s, Head(t))) = Len(s) + 1
      /\ \A i \in 1..Len(s) : Append(s, Head(t))[i] = s[i]
      /\ Append(s, Head(t))[Len(s) + 1] = Head(t)
  BY <1>1, AppendProperties
<1>3. Len(s) \in Nat /\ Len(t) \in Nat \ {0} /\ Head(t) = t[1]
  BY LenProperties, EmptySeq
<1> DEFINE a == Append(s, Head(t)) \o Tail(t)
<1>4. /\ a \in Seq(S)
      /\ Len(a) = Len(s) + Len(t)
      /\ \A i \in 1..(Len(s) + Len(t)) :
            a[i] = IF i <= Len(s) + 1 THEN Append(s, Head(t))[i] ELSE Tail(t)[i - (Len(s) + 1)]
  <2>1. Len(Append(s, Head(t))) + Len(Tail(t)) = Len(s) + Len(t)
    BY <1>1, <1>2, <1>3
  <2> QED
    BY <2>1, <1>1, <1>2, ConcatProperties
<1>5. /\ s \o t \in Seq(S)
      /\ Len(s \o t) = Len(s) + Len(t)
      /\ \A i \in 1..(Len(s) + Len(t)) :
            (s \o t)[i] = IF i <= Len(s) THEN s[i] ELSE t[i - Len(s)]
  BY ConcatProperties
<1> HIDE DEF a
<1>6. ASSUME NEW i \in 1..Len(a) PROVE a[i] = (s \o t)[i]
  <2>1. CASE i <= Len(s)
    BY <2>1, <1>2, <1>3, <1>4, <1>5
  <2>2. CASE i = Len(s) + 1
    BY <2>2, <1>2, <1>3, <1>4, <1>5
  <2>3. CASE i > Len(s) + 1
    <3>1. i - (Len(s) + 1) \in 1..Len(Tail(t))
      BY <2>3, <1>1, <1>3, <1>4
    <3>2. Tail(t)[i - (Len(s) + 1)] = t[i - (Len(s) + 1) + 1]
      BY <3>1, <1>1
    <3>3. i - (Len(s) + 1) + 1 = i - Len(s)
      BY <1>3, <1>4
    <3> QED
      BY <2>3, <3>2, <3>3, <1>3, <1>4, <1>5
  <2> QED
    BY <2>1, <2>2, <2>3, <1>3, <1>4
<1>7. a = s \o t
  BY <1>4, <1>5, <1>6, SeqEqual
<1> QED
  BY <1>7 DEF a
-----------------------------------------------------------------------------
(* The invariant holds initially.                                             *)

LEMMA InitInvariant == Init => IInv
<1> SUFFICES ASSUME Init PROVE IInv
  OBVIOUS
<1> USE PoolAssumption
<1>1. <<>> \in Seq(Tasks) /\ <<>> \o <<>> = <<>> /\ Range(<<>>) = {}
  <2>1. <<>> \in Seq(Tasks) /\ Len(<<>>) = 0
    BY EmptySeq
  <2>2. DOMAIN <<>> = {}
    BY <2>1, LenProperties
  <2>3. <<>> \o <<>> = <<>>
    BY <2>1, ConcatEmptySeq
  <2> QED
    BY <2>1, <2>2, <2>3 DEF Range
<1>2. TypeOK
  BY <1>1 DEF Init, TypeOK
<1>3. Fifo
  BY <1>1 DEF Init, Fifo
<1>4. Unique
  BY <1>1 DEF Init, Unique, Distinct
<1>5. RunOnce
  BY <1>1 DEF Init, RunOnce
<1>6. StopOwner /\ NoLostWakeup /\ ExitDrained /\ GoneJoined
  BY DEF Init, StopOwner, NoLostWakeup, ExitDrained, GoneJoined
<1> QED
  BY <1>2, <1>3, <1>4, <1>5, <1>6 DEF IInv

-----------------------------------------------------------------------------
(* One lemma per action that touches the queue or the tasks, and one for the  *)
(* actions that only move a thread.                                           *)

LEMMA EnqueueInvariant ==
    ASSUME IInv, NEW batch \in Batches, Enqueue(batch)
    PROVE  IInv'
<1> USE PoolAssumption
<1>1. TypeOK /\ Fifo /\ Unique /\ RunOnce /\ StopOwner /\ NoLostWakeup /\ ExitDrained
  BY DEF IInv
<1>2. /\ batch \in Seq(Tasks) /\ Distinct(batch)
      /\ Range(batch) \intersect Range(submitted) = {}
  <2>1. PICK n \in 0..MaxBatch : batch \in [1..n -> Tasks \ Range(submitted)]
    BY DEF Batches
  <2>2. Distinct(batch)
    BY DEF Batches
  <2>3. n \in Nat /\ batch \in [1..n -> Tasks]
    BY <2>1
  <2>4. batch \in Seq(Tasks)
    BY <2>3, SeqDef
  <2>5. Range(batch) \subseteq Tasks \ Range(submitted)
    BY <2>1 DEF Range
  <2> QED
    BY <2>2, <2>4, <2>5
<1>3. /\ tasks_ \in Seq(Tasks) /\ submitted \in Seq(Tasks) /\ taken \in Seq(Tasks)
      /\ submitted = taken \o tasks_ /\ Distinct(submitted)
  BY <1>1 DEF TypeOK, Fifo, Unique
<1>4. TypeOK'
  <2>1. tasks_' \in Seq(Tasks) /\ submitted' \in Seq(Tasks)
    BY <1>2, <1>3, ConcatProperties DEF Enqueue
  <2> QED
    BY <2>1, <1>1 DEF TypeOK, Enqueue
<1>5. Fifo'
  <2>1. (taken \o tasks_) \o batch = taken \o (tasks_ \o batch)
    BY <1>2, <1>3, ConcatAssociative
  <2> QED
    BY <2>1, <1>3 DEF Fifo, Enqueue
<1>6. Unique'
  BY <1>2, <1>3, DistinctConcat DEF Unique, Enqueue
<1>7. RunOnce'
  BY <1>1 DEF RunOnce, Enqueue
<1>8. StopOwner' /\ NoLostWakeup' /\ GoneJoined'
  BY <1>1 DEF StopOwner, NoLostWakeup, GoneJoined, Enqueue
<1>9. ExitDrained'
  <2>1. ~stop_
    BY <1>1 DEF StopOwner, Enqueue
  <2> QED
    BY <2>1, <1>1 DEF ExitDrained, Enqueue
<1> QED
  BY <1>4, <1>5, <1>6, <1>7, <1>8, <1>9 DEF IInv

LEMMA TakeInvariant ==
    ASSUME IInv, NEW w \in Workers, Take(w)
    PROVE  IInv'
<1> USE PoolAssumption
<1>1. TypeOK /\ Fifo /\ Unique /\ RunOnce /\ StopOwner /\ NoLostWakeup /\ ExitDrained /\ GoneJoined
  BY DEF IInv
<1>2. /\ tasks_ \in Seq(Tasks) /\ taken \in Seq(Tasks) /\ tasks_ # <<>>
      /\ submitted = taken \o tasks_ /\ Distinct(submitted)
  BY <1>1 DEF TypeOK, Fifo, Unique, Take
<1> DEFINE h == Head(tasks_)
<1>3. /\ h \in Tasks /\ Tail(tasks_) \in Seq(Tasks)
      /\ Append(taken, h) \in Seq(Tasks)
      /\ h \notin Range(taken) /\ Range(Append(taken, h)) = Range(taken) \union {h}
      /\ Append(taken, h) \o Tail(tasks_) = taken \o tasks_
  BY <1>2, HeadTailProperties, AppendProperties, HeadFresh, RangeAppend, MoveHead
<1>4. /\ pc[w] = "lock" /\ pc' = [pc EXCEPT ![w] = "run"]
      /\ task' = [task EXCEPT ![w] = h] /\ taken' = Append(taken, h) /\ tasks_' = Tail(tasks_)
      /\ UNCHANGED <<stop_, owner, submitted, done>>
  BY DEF Take
<1> HIDE DEF h
<1>5. pc \in [Workers -> {"lock", "wait", "run", "exit"}] /\ task \in [Workers -> Tasks \union {NoTask}]
  BY <1>1 DEF TypeOK
<1>6. TypeOK'
  BY <1>1, <1>3, <1>4, <1>5 DEF TypeOK
<1>7. Fifo' /\ Unique'
  BY <1>2, <1>3, <1>4 DEF Fifo, Unique
<1>8. RunOnce'
  <2>1. done \subseteq Range(taken) /\ h \notin done
    BY <1>1, <1>3 DEF RunOnce
  <2>2. {task[v] : v \in {x \in Workers : pc[x] = "run"}} = Range(taken) \ done
    BY <1>1 DEF RunOnce
  <2>3. {task'[v] : v \in {x \in Workers : pc'[x] = "run"}}
          = {task[v] : v \in {x \in Workers : pc[x] = "run"}} \union {h}
    BY <1>4, <1>5
  <2>4. \A v \in Workers : pc[v] = "run" => task[v] # h
    BY <2>2, <1>3
  <2>5. \A v, x \in Workers : pc'[v] = "run" /\ pc'[x] = "run" /\ task'[v] = task'[x] => v = x
    BY <2>4, <1>1, <1>4, <1>5 DEF RunOnce
  <2> QED
    BY <2>1, <2>2, <2>3, <2>5, <1>3, <1>4 DEF RunOnce
<1>9. StopOwner' /\ GoneJoined'
  BY <1>1, <1>4, <1>5 DEF StopOwner, GoneJoined
<1>10. NoLostWakeup'
  BY <1>1, <1>4, <1>5 DEF NoLostWakeup
<1>11. ExitDrained'
  BY <1>1, <1>2, <1>4, <1>5 DEF ExitDrained
<1> QED
  BY <1>6, <1>7, <1>8, <1>9, <1>10, <1>11 DEF IInv

LEMMA RunInvariant ==
    ASSUME IInv, NEW w \in Workers, Run(w)
    PROVE  IInv'
<1> USE PoolAssumption
<1>1. TypeOK /\ Fifo /\ Unique /\ RunOnce /\ StopOwner /\ NoLostWakeup /\ ExitDrained /\ GoneJoined
  BY DEF IInv
<1>2. /\ pc[w] = "run" /\ pc' = [pc EXCEPT ![w] = "lock"]
      /\ task' = [task EXCEPT ![w] = NoTask] /\ done' = done \union {task[w]}
      /\ UNCHANGED <<tasks_, stop_, owner, submitted, taken>>
  BY DEF Run
<1>3. pc \in [Workers -> {"lock", "wait", "run", "exit"}] /\ task \in [Workers -> Tasks \union {NoTask}]
  BY <1>1 DEF TypeOK
<1>4. task[w] # NoTask /\ task[w] \in Tasks
  BY <1>1, <1>2, <1>3 DEF TypeOK
<1>5. TypeOK'
  BY <1>1, <1>2, <1>3, <1>4 DEF TypeOK
<1>6. Fifo' /\ Unique'
  BY <1>1, <1>2 DEF Fifo, Unique
<1>7. RunOnce'
  <2>1. /\ {task[v] : v \in {x \in Workers : pc[x] = "run"}} = Range(taken) \ done
        /\ \A v, x \in Workers : pc[v] = "run" /\ pc[x] = "run" /\ task[v] = task[x] => v = x
        /\ done \subseteq Range(taken)
    BY <1>1 DEF RunOnce
  <2>2. task[w] \in Range(taken) \ done
    BY <2>1, <1>2
  <2>3. \A v \in Workers : pc'[v] = "run" <=> pc[v] = "run" /\ v # w
    BY <1>2, <1>3
  <2>4. \A v \in Workers : v # w => task'[v] = task[v]
    BY <1>2, <1>3
  <2>5. {task'[v] : v \in {x \in Workers : pc'[x] = "run"}}
          = {task[v] : v \in {x \in Workers : pc[x] = "run"}} \ {task[w]}
    BY <2>1, <2>3, <2>4, <1>2
  <2>6. {task'[v] : v \in {x \in Workers : pc'[x] = "run"}} = Range(taken) \ done'
    BY <2>1, <2>5, <1>2
  <2>7. \A v, x \in Workers : pc'[v] = "run" /\ pc'[x] = "run" /\ task'[v] = task'[x] => v = x
    BY <2>1, <2>3, <2>4
  <2> QED
    BY <2>1, <2>2, <2>6, <2>7, <1>2 DEF RunOnce
<1>8. StopOwner' /\ NoLostWakeup' /\ ExitDrained' /\ GoneJoined'
  BY <1>1, <1>2, <1>3 DEF StopOwner, NoLostWakeup, ExitDrained, GoneJoined
<1> QED
  BY <1>5, <1>6, <1>7, <1>8 DEF IInv

\* The steps that move threads and leave the tasks alone.
Moves ==
    \/ NotifyOne \/ Stop \/ NotifyAll \/ Join
    \/ \E w \in Workers : Wait(w) \/ Exit(w) \/ SpuriousWake(w)

LEMMA MovesInvariant ==
    ASSUME IInv, Moves
    PROVE  IInv'
<1> USE PoolAssumption
<1>1. TypeOK /\ Fifo /\ Unique /\ RunOnce /\ StopOwner /\ NoLostWakeup /\ ExitDrained /\ GoneJoined
  BY DEF IInv
<1>2. pc \in [Workers -> {"lock", "wait", "run", "exit"}]
  BY <1>1 DEF TypeOK
<1>3. UNCHANGED <<tasks_, task, submitted, taken, done>>
  BY DEF Moves, NotifyOne, Stop, NotifyAll, Join, Wait, Exit, SpuriousWake
<1>4. /\ pc' \in [Workers -> {"lock", "wait", "run", "exit"}]
      /\ \A v \in Workers : pc'[v] = "run" <=> pc[v] = "run"
  BY <1>2 DEF Moves, NotifyOne, Stop, NotifyAll, Join, Wait, Exit, SpuriousWake
<1>5. TypeOK'
  BY <1>1, <1>3, <1>4
     DEF TypeOK, Moves, NotifyOne, Stop, NotifyAll, Join, Wait, Exit, SpuriousWake
<1>6. Fifo' /\ Unique'
  BY <1>1, <1>3 DEF Fifo, Unique
<1>7. RunOnce'
  BY <1>1, <1>3, <1>4 DEF RunOnce
<1>8. CASE NotifyOne
  BY <1>1, <1>2, <1>5, <1>6, <1>7, <1>8
     DEF NotifyOne, IInv, StopOwner, NoLostWakeup, ExitDrained, GoneJoined
<1>9. CASE Stop
  BY <1>1, <1>2, <1>5, <1>6, <1>7, <1>9
     DEF Stop, IInv, StopOwner, NoLostWakeup, ExitDrained, GoneJoined
<1>10. CASE NotifyAll
  BY <1>1, <1>2, <1>5, <1>6, <1>7, <1>10
     DEF NotifyAll, IInv, StopOwner, NoLostWakeup, ExitDrained, GoneJoined
<1>11. CASE Join
  BY <1>1, <1>2, <1>5, <1>6, <1>7, <1>11
     DEF Join, IInv, StopOwner, NoLostWakeup, ExitDrained, GoneJoined
<1>12. ASSUME NEW w \in Workers, Wait(w) PROVE IInv'
  BY <1>1, <1>2, <1>5, <1>6, <1>7, <1>12
     DEF Wait, IInv, StopOwner, NoLostWakeup, ExitDrained, GoneJoined
<1>13. ASSUME NEW w \in Workers, Exit(w) PROVE IInv'
  BY <1>1, <1>2, <1>5, <1>6, <1>7, <1>13
     DEF Exit, IInv, StopOwner, NoLostWakeup, ExitDrained, GoneJoined
<1>14. ASSUME NEW w \in Workers, SpuriousWake(w) PROVE IInv'
  BY <1>1, <1>2, <1>5, <1>6, <1>7, <1>14
     DEF SpuriousWake, IInv, StopOwner, NoLostWakeup, ExitDrained, GoneJoined
<1> QED
  BY <1>8, <1>9, <1>10, <1>11, <1>12, <1>13, <1>14 DEF Moves

LEMMA StepInvariant == IInv /\ [Next]_vars => IInv'
<1> SUFFICES ASSUME IInv, [Next]_vars PROVE IInv'
  OBVIOUS
<1>1. ASSUME NEW batch \in Batches, Enqueue(batch) PROVE IInv'
  BY <1>1, EnqueueInvariant
<1>2. ASSUME NEW w \in Workers, Take(w) PROVE IInv'
  BY <1>2, TakeInvariant
<1>3. ASSUME NEW w \in Workers, Run(w) PROVE IInv'
  BY <1>3, RunInvariant
<1>4. CASE Moves
  BY <1>4, MovesInvariant
<1>5. CASE UNCHANGED vars
  BY <1>5 DEF vars, IInv, TypeOK, Fifo, Unique, RunOnce, StopOwner, NoLostWakeup,
              ExitDrained, GoneJoined
<1> QED
  BY <1>1, <1>2, <1>3, <1>4, <1>5 DEF Next, Owner, Worker, Moves

-----------------------------------------------------------------------------
(* The theorems.                                                              *)

\* Every reachable state of the pool satisfies the inductive invariant.
THEOREM Invariance == Spec => []IInv
<1>1. Init => IInv
  BY InitInvariant
<1>2. IInv /\ [Next]_vars => IInv'
  BY StepInvariant
<1> QED
  BY <1>1, <1>2, PTL DEF Spec

\* The types hold, and a worker holds a closure only while it runs it
\* (ThreadPool.cpp:11, the local of the loop's body).
THEOREM TypeCorrect == Spec => []TypeOK
<1>1. IInv => TypeOK
  BY DEF IInv
<1> QED
  BY <1>1, Invariance, PTL

\* The queue loses, copies and reorders nothing (ThreadPool.cpp:37-39, 69-91).
THEOREM TasksInOrder == Spec => []Fifo
<1>1. IInv => Fifo
  BY DEF IInv
<1> QED
  BY <1>1, Invariance, PTL

\* A task is run by one worker, once, however the workers interleave.
THEOREM TasksRunOnce == Spec => []RunOnce
<1>1. IInv => RunOnce
  BY DEF IInv
<1> QED
  BY <1>1, Invariance, PTL

\* The notification after the unlock is never missed: no queued task faces
\* sleeping workers only (ThreadPool.cpp:26-28, 58, 78, 89).
THEOREM WakeupsArrive == Spec => []NoLostWakeup
<1>1. IInv => NoLostWakeup
  BY DEF IInv
<1> QED
  BY <1>1, Invariance, PTL

\* The destructor returns only after every submitted task has run
\* (ThreadPool.cpp:60-64).
LEMMA IInvJoinDrains == IInv => JoinDrains
<1> SUFFICES ASSUME IInv, owner = "gone"
             PROVE  tasks_ = <<>> /\ done = Range(submitted)
  BY DEF JoinDrains
<1>1. \A w \in Workers : pc[w] = "exit"
  BY DEF IInv, GoneJoined
<1>2. tasks_ = <<>>
  BY <1>1, PoolAssumption DEF IInv, ExitDrained
<1>3. submitted = taken
  BY <1>2, ConcatEmptySeq DEF IInv, TypeOK, Fifo
<1>4. Range(taken) \ done = {} /\ done \subseteq Range(taken)
  BY <1>1 DEF IInv, RunOnce
<1> QED
  BY <1>2, <1>3, <1>4

\* The destructor leaves no task behind, for every number of workers and tasks.
THEOREM DestructorDrains == Spec => []JoinDrains
<1> QED
  BY IInvJoinDrains, Invariance, PTL

-----------------------------------------------------------------------------
(* The refinement.                                                            *)

LEMMA InitRefines == Init => WQ!Init
BY DEF Init, WQ!Init

\* An enqueue appends to what was submitted.
LEMMA EnqueueRefines ==
    ASSUME IInv, IInv', NEW batch \in Batches, Enqueue(batch)
    PROVE  WQ!Submit
<1>1. submitted \in Seq(Tasks) /\ submitted' \in Seq(Tasks) /\ submitted' = submitted \o batch
  BY DEF IInv, TypeOK, Enqueue
<1>2. batch \in Seq(Tasks)
  <2>1. PICK n \in 0..MaxBatch : batch \in [1..n -> Tasks \ Range(submitted)]
    BY DEF Batches
  <2>2. n \in Nat /\ batch \in [1..n -> Tasks]
    BY <2>1, PoolAssumption
  <2> QED
    BY <2>2, SeqDef
<1>3. /\ Len(submitted) \in Nat /\ Len(batch) \in Nat
      /\ Len(submitted') = Len(submitted) + Len(batch)
      /\ \A i \in 1..(Len(submitted) + Len(batch)) :
            submitted'[i] = IF i <= Len(submitted) THEN submitted[i] ELSE batch[i - Len(submitted)]
  BY <1>1, <1>2, ConcatProperties, LenProperties
<1>4. Len(submitted) <= Len(submitted') /\ \A i \in 1..Len(submitted) : submitted'[i] = submitted[i]
  BY <1>3
<1>5. \A i, j \in 1..Len(submitted') : submitted'[i] = submitted'[j] => i = j
  <2>1. DOMAIN submitted' = 1..Len(submitted')
    BY <1>1, LenProperties
  <2>2. \A i, j \in DOMAIN submitted' : submitted'[i] = submitted'[j] => i = j
    BY DEF IInv, Unique, Distinct
  <2> QED
    BY <2>1, <2>2
<1>6. owner # "gone" /\ (owner' = "gone") = (owner = "gone") /\ UNCHANGED <<taken, done>>
  BY DEF Enqueue
<1> QED
  BY <1>1, <1>4, <1>5, <1>6 DEF WQ!Submit

\* A worker takes the first task that nobody has taken.
LEMMA TakeRefines ==
    ASSUME IInv, NEW w \in Workers, Take(w)
    PROVE  WQ!Take
<1>1. /\ tasks_ \in Seq(Tasks) /\ taken \in Seq(Tasks) /\ tasks_ # <<>>
      /\ submitted = taken \o tasks_ /\ taken' = Append(taken, Head(tasks_))
      /\ UNCHANGED <<submitted, done, owner>>
  BY DEF IInv, TypeOK, Fifo, Take
<1>2. /\ Len(taken) \in Nat /\ Len(tasks_) \in Nat \ {0} /\ Head(tasks_) = tasks_[1]
      /\ Len(submitted) = Len(taken) + Len(tasks_)
      /\ \A i \in 1..(Len(taken) + Len(tasks_)) :
            submitted[i] = IF i <= Len(taken) THEN taken[i] ELSE tasks_[i - Len(taken)]
  BY <1>1, ConcatProperties, LenProperties, EmptySeq
<1>3. submitted[Len(taken) + 1] = Head(tasks_)
  BY <1>2
<1> QED
  BY <1>1, <1>2, <1>3 DEF WQ!Take

\* A task that returns had been taken and had not returned before.
LEMMA RunRefines ==
    ASSUME IInv, NEW w \in Workers, Run(w)
    PROVE  WQ!Finish
<1>1. task[w] \in Range(taken) \ done
  BY DEF IInv, RunOnce, Run
<1> QED
  BY <1>1 DEF Run, WQ!Finish, WQ!Range, Range

\* The last join closes the queue; every other move is a stutter.
LEMMA MovesRefine ==
    ASSUME IInv, IInv', Moves
    PROVE  [WQ!Next]_(WQ!vars)
<1>1. CASE Join
  <2>1. owner' = "gone" /\ UNCHANGED <<submitted, taken, done>>
    BY <1>1 DEF Join
  <2>2. JoinDrains'
    BY IInvJoinDrains, PTL
  <2>3. done = Range(submitted)
    BY <2>1, <2>2 DEF JoinDrains
  <2> QED
    BY <2>1, <2>3 DEF WQ!Next, WQ!Close, WQ!Range, Range
<1>2. CASE ~Join
  BY <1>2 DEF Moves, NotifyOne, Stop, NotifyAll, Wait, Exit, SpuriousWake, WQ!vars
<1> QED
  BY <1>1, <1>2

\* The pool, with its lock, its notifications and its threads, implements the
\* work queue.
THEOREM Refinement == Spec => ImplementsWorkQueue
<1>1. IInv /\ IInv' /\ [Next]_vars => [WQ!Next]_(WQ!vars)
  <2> SUFFICES ASSUME IInv, IInv', [Next]_vars
               PROVE  [WQ!Next]_(WQ!vars)
    OBVIOUS
  <2>1. ASSUME NEW batch \in Batches, Enqueue(batch) PROVE WQ!Next
    BY <2>1, EnqueueRefines DEF WQ!Next
  <2>2. ASSUME NEW w \in Workers, Take(w) PROVE WQ!Next
    BY <2>2, TakeRefines DEF WQ!Next
  <2>3. ASSUME NEW w \in Workers, Run(w) PROVE WQ!Next
    BY <2>3, RunRefines DEF WQ!Next
  <2>4. CASE Moves
    BY <2>4, MovesRefine
  <2>5. CASE UNCHANGED vars
    BY <2>5 DEF vars, WQ!vars
  <2> QED
    BY <2>1, <2>2, <2>3, <2>4, <2>5 DEF Next, Owner, Worker, Moves
<1> QED
  BY <1>1, InitRefines, Invariance, PTL DEF Spec, WQ!Spec, ImplementsWorkQueue
=============================================================================
