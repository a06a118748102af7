-------------------------- MODULE EpollServer_proofs --------------------------
(* Facts about EpollServer for any clients, descriptors, events and workers:  *)
(* what the operators on its lists and events do, and that its variables      *)
(* always have their types.                                                   *)
EXTENDS EpollServer, SequenceTheorems, FiniteSetTheorems, WellFoundedInduction, TLAPS

(* Sequences.                                                                 *)

LEMMA Emptied == /\ \A S : <<>> \in Seq(S)
                 /\ Len(<<>>) = 0 /\ DOMAIN <<>> = {} /\ Range(<<>>) = {} /\ IsInjective(<<>>)
<1>1. \A S : <<>> \in Seq(S)
  BY EmptySeq
<1>2. Len(<<>>) = 0 /\ <<>> \in Seq({})
  BY EmptySeq
<1>3. DOMAIN <<>> = {}
  BY <1>2, LenProperties
<1> QED
  BY <1>1, <1>2, <1>3 DEF Range, IsInjective

\* A sequence as a function, and its elements.
LEMMA SeqFacts ==
    ASSUME NEW S, NEW s \in Seq(S)
    PROVE  /\ Len(s) \in Nat /\ DOMAIN s = 1..Len(s)
           /\ \A i \in 1..Len(s) : s[i] \in S /\ s[i] \in Range(s)
           /\ Range(s) \subseteq S
           /\ \A x \in Range(s) : \E i \in 1..Len(s) : s[i] = x
           /\ s = <<>> <=> Len(s) = 0
           /\ s = <<>> <=> Range(s) = {}
<1>1. Len(s) \in Nat /\ DOMAIN s = 1..Len(s) /\ s \in [1..Len(s) -> S]
  BY LenProperties
<1>2. s = <<>> <=> Len(s) = 0
  BY EmptySeq
<1>3. /\ \A i \in 1..Len(s) : s[i] \in S /\ s[i] \in Range(s)
      /\ \A x \in Range(s) : \E i \in 1..Len(s) : s[i] = x
  BY <1>1 DEF Range
<1>4. Len(s) # 0 => 1 \in 1..Len(s)
  BY <1>1
<1> QED
  BY <1>1, <1>2, <1>3, <1>4

LEMMA RangeAppend ==
    ASSUME NEW S, NEW s \in Seq(S), NEW e \in S
    PROVE  /\ Append(s, e) \in Seq(S) /\ Len(Append(s, e)) = Len(s) + 1
           /\ \A i \in 1..Len(s) : Append(s, e)[i] = s[i]
           /\ Append(s, e)[Len(s) + 1] = e
           /\ Range(Append(s, e)) = Range(s) \union {e}
           /\ IsInjective(s) /\ e \notin Range(s) => IsInjective(Append(s, e))
<1>1. /\ Append(s, e) \in Seq(S) /\ Len(Append(s, e)) = Len(s) + 1
      /\ \A i \in 1..Len(s) : Append(s, e)[i] = s[i]
      /\ Append(s, e)[Len(s) + 1] = e
  BY AppendProperties
<1>2. Len(s) \in Nat /\ DOMAIN s = 1..Len(s) /\ DOMAIN Append(s, e) = 1..(Len(s) + 1)
  BY <1>1, LenProperties
<1>3. Range(Append(s, e)) = Range(s) \union {e}
  BY <1>1, <1>2 DEF Range
<1>4. ASSUME IsInjective(s), e \notin Range(s) PROVE IsInjective(Append(s, e))
  BY <1>1, <1>2, <1>4 DEF Range, IsInjective
<1> QED
  BY <1>1, <1>3, <1>4

LEMMA RangeTail ==
    ASSUME NEW S, NEW s \in Seq(S), s # <<>>
    PROVE  /\ Head(s) \in S /\ Tail(s) \in Seq(S) /\ Head(s) = s[1] /\ 1 \in 1..Len(s)
           /\ Len(Tail(s)) = Len(s) - 1 /\ \A i \in 1..Len(Tail(s)) : Tail(s)[i] = s[i + 1]
           /\ Range(s) = Range(Tail(s)) \union {Head(s)}
           /\ IsInjective(s) => IsInjective(Tail(s)) /\ Head(s) \notin Range(Tail(s))
<1>1. /\ Head(s) \in S /\ Tail(s) \in Seq(S)
      /\ Len(Tail(s)) = Len(s) - 1 /\ \A i \in 1..Len(Tail(s)) : Tail(s)[i] = s[i + 1]
  BY HeadTailProperties
<1>2. Len(s) \in Nat \ {0} /\ DOMAIN s = 1..Len(s) /\ DOMAIN Tail(s) = 1..(Len(s) - 1)
  BY <1>1, LenProperties, EmptySeq
<1>3. Head(s) = s[1]
  OBVIOUS
<1>4. Range(s) = Range(Tail(s)) \union {Head(s)}
  <2>1. Range(s) \subseteq Range(Tail(s)) \union {Head(s)}
    <3> SUFFICES ASSUME NEW i \in 1..Len(s) PROVE s[i] \in Range(Tail(s)) \union {Head(s)}
      BY <1>2 DEF Range
    <3>1. CASE i = 1
      BY <3>1, <1>3
    <3>2. CASE i # 1
      <4>1. i - 1 \in 1..(Len(s) - 1) /\ i - 1 + 1 = i
        BY <3>2, <1>2
      <4>2. Tail(s)[i - 1] = s[i]
        BY <4>1, <1>1
      <4> QED
        BY <4>1, <4>2, <1>2 DEF Range
    <3> QED
      BY <3>1, <3>2
  <2>2. Range(Tail(s)) \subseteq Range(s)
    <3> SUFFICES ASSUME NEW i \in 1..(Len(s) - 1) PROVE Tail(s)[i] \in Range(s)
      BY <1>2 DEF Range
    <3>1. i + 1 \in 1..Len(s) /\ Tail(s)[i] = s[i + 1]
      BY <1>1, <1>2
    <3> QED
      BY <3>1, <1>2 DEF Range
  <2>3. Head(s) \in Range(s)
    <3>1. 1 \in DOMAIN s
      BY <1>2
    <3> QED
      BY <3>1, <1>3 DEF Range
  <2> QED
    BY <2>1, <2>2, <2>3
<1>5. ASSUME IsInjective(s) PROVE IsInjective(Tail(s)) /\ Head(s) \notin Range(Tail(s))
  <2>1. \A i \in 1..(Len(s) - 1) : i + 1 \in 1..Len(s) /\ Tail(s)[i] = s[i + 1] /\ i + 1 # 1
    BY <1>1, <1>2
  <2>2. IsInjective(Tail(s))
    <3> SUFFICES ASSUME NEW i \in 1..(Len(s) - 1), NEW j \in 1..(Len(s) - 1), Tail(s)[i] = Tail(s)[j]
                 PROVE  i = j
      BY <1>2 DEF IsInjective
    <3>1. i + 1 = j + 1
      BY <2>1, <1>2, <1>5 DEF IsInjective
    <3> QED
      BY <3>1
  <2>3. Head(s) \notin Range(Tail(s))
    <3> SUFFICES ASSUME NEW i \in 1..(Len(s) - 1), Tail(s)[i] = s[1] PROVE FALSE
      BY <1>2, <1>3 DEF Range
    <3> QED
      BY <2>1, <1>2, <1>5 DEF IsInjective
  <2> QED
    BY <2>2, <2>3
<1>6. 1 \in 1..Len(s)
  BY <1>2
<1> QED
  BY <1>1, <1>3, <1>4, <1>5, <1>6

LEMMA RangeConcat ==
    ASSUME NEW S, NEW s \in Seq(S), NEW t \in Seq(S)
    PROVE  /\ s \o t \in Seq(S) /\ Len(s \o t) = Len(s) + Len(t)
           /\ \A i \in 1..Len(s) : (s \o t)[i] = s[i]
           /\ \A i \in 1..Len(t) : (s \o t)[Len(s) + i] = t[i]
           /\ \A i \in 1..(Len(s) + Len(t)) : i \in 1..Len(s) \/ \E j \in 1..Len(t) : i = Len(s) + j
           /\ Range(s \o t) = Range(s) \union Range(t)
<1>1. /\ s \o t \in Seq(S) /\ Len(s \o t) = Len(s) + Len(t)
      /\ \A i \in 1..(Len(s) + Len(t)) :
            (s \o t)[i] = IF i <= Len(s) THEN s[i] ELSE t[i - Len(s)]
  BY ConcatProperties
<1>2. /\ Len(s) \in Nat /\ Len(t) \in Nat
      /\ DOMAIN s = 1..Len(s) /\ DOMAIN t = 1..Len(t) /\ DOMAIN (s \o t) = 1..(Len(s) + Len(t))
  BY <1>1, LenProperties
<1>3. \A i \in 1..Len(s) : (s \o t)[i] = s[i]
  BY <1>1, <1>2
<1>4. \A i \in 1..Len(t) : (s \o t)[Len(s) + i] = t[i]
  <2> SUFFICES ASSUME NEW i \in 1..Len(t) PROVE (s \o t)[Len(s) + i] = t[i]
    OBVIOUS
  <2>1. Len(s) + i \in 1..(Len(s) + Len(t)) /\ ~(Len(s) + i <= Len(s)) /\ Len(s) + i - Len(s) = i
    BY <1>2
  <2> QED
    BY <2>1, <1>1
<1>5. \A i \in 1..(Len(s) + Len(t)) : i \in 1..Len(s) \/ \E j \in 1..Len(t) : i = Len(s) + j
  <2> SUFFICES ASSUME NEW i \in 1..(Len(s) + Len(t)), i \notin 1..Len(s)
               PROVE  \E j \in 1..Len(t) : i = Len(s) + j
    OBVIOUS
  <2>1. i - Len(s) \in 1..Len(t) /\ i = Len(s) + (i - Len(s))
    BY <1>2
  <2> QED
    BY <2>1
<1>6. \A i \in 1..Len(t) : Len(s) + i \in 1..(Len(s) + Len(t))
  BY <1>2
<1>7. \A i \in 1..Len(s) : i \in 1..(Len(s) + Len(t))
  BY <1>2
<1>8. Range(s \o t) = Range(s) \union Range(t)
  <2>1. Range(s \o t) \subseteq Range(s) \union Range(t)
    BY <1>2, <1>3, <1>4, <1>5 DEF Range
  <2>2. Range(s) \subseteq Range(s \o t)
    BY <1>2, <1>3, <1>7 DEF Range
  <2>3. Range(t) \subseteq Range(s \o t)
    BY <1>2, <1>4, <1>6 DEF Range
  <2> QED
    BY <2>1, <2>2, <2>3
<1> QED
  BY <1>1, <1>3, <1>4, <1>5, <1>8

-----------------------------------------------------------------------------
(* The pool's queue.                                                          *)

Task == [pc : {"trigger"}, kind : {"read", "write"}, ev : EventIds]

TaskOf(kind, e) == [pc |-> "trigger", kind |-> kind, ev |-> e]

\* The tasks of one kind for the events of a list.
TasksOf(kind, s) == [i \in DOMAIN s |-> TaskOf(kind, s[i])]

EventsOf(p) == {p[i].ev : i \in DOMAIN p}
EventsOnce(p) == \A i, j \in DOMAIN p : p[i].ev = p[j].ev => i = j

LEMMA TasksAreTasks ==
    ASSUME NEW s \in Seq(EventIds), NEW kind \in {"read", "write"}
    PROVE  /\ TasksOf(kind, s) \in Seq(Task) /\ Len(TasksOf(kind, s)) = Len(s)
           /\ \A i \in 1..Len(s) : TasksOf(kind, s)[i] = TaskOf(kind, s[i])
           /\ EventsOf(TasksOf(kind, s)) = Range(s)
<1>1. Len(s) \in Nat /\ DOMAIN s = 1..Len(s) /\ \A i \in 1..Len(s) : s[i] \in EventIds
  BY SeqFacts
<1>2. \A i \in 1..Len(s) : TaskOf(kind, s[i]) \in Task
  BY <1>1 DEF TaskOf, Task
<1>3. TasksOf(kind, s) \in [1..Len(s) -> Task]
  BY <1>1, <1>2 DEF TasksOf
<1>4. TasksOf(kind, s) \in Seq(Task)
  BY <1>1, <1>3, SeqDef
<1>5. DOMAIN TasksOf(kind, s) = 1..Len(s)
  BY <1>1 DEF TasksOf
<1>6. Len(TasksOf(kind, s)) = Len(s)
  BY <1>1, <1>4, <1>5, LenProperties
<1>7. \A i \in 1..Len(s) : TasksOf(kind, s)[i] = TaskOf(kind, s[i])
  BY <1>1 DEF TasksOf
<1>8. EventsOf(TasksOf(kind, s)) = Range(s)
  <2>1. ASSUME NEW i \in 1..Len(s) PROVE TasksOf(kind, s)[i].ev = s[i]
    <3>1. TasksOf(kind, s)[i] = TaskOf(kind, s[i])
      BY <1>7
    <3> QED
      BY <3>1 DEF TaskOf
  <2> QED
    BY <2>1, <1>1, <1>5 DEF EventsOf, Range
<1> QED
  BY <1>4, <1>6, <1>7, <1>8

\* Handing over the tasks of a list.
LEMMA PoolGrows ==
    ASSUME NEW p \in Seq(Task), NEW s \in Seq(EventIds), NEW kind \in {"read", "write"}
    PROVE  LET q == p \o TasksOf(kind, s) IN
           /\ q \in Seq(Task)
           /\ \A i \in DOMAIN q : \/ i \in DOMAIN p /\ q[i] = p[i]
                                  \/ \E j \in DOMAIN s : q[i] = TaskOf(kind, s[j])
           /\ EventsOf(q) = EventsOf(p) \union Range(s)
           /\ /\ EventsOnce(p) /\ IsInjective(s) /\ EventsOf(p) \intersect Range(s) = {}
              => EventsOnce(q)
<1> DEFINE t == TasksOf(kind, s)
           q == p \o t
<1>1. /\ t \in Seq(Task) /\ Len(t) = Len(s) /\ \A i \in 1..Len(s) : t[i] = TaskOf(kind, s[i])
      /\ EventsOf(t) = Range(s)
  BY TasksAreTasks
<1>t. t \in Seq(Task)
  BY <1>1
<1> HIDE DEF t
<1>2. /\ q \in Seq(Task) /\ Len(q) = Len(p) + Len(t)
      /\ \A i \in 1..Len(p) : q[i] = p[i]
      /\ \A i \in 1..Len(t) : q[Len(p) + i] = t[i]
      /\ \A i \in 1..(Len(p) + Len(t)) : i \in 1..Len(p) \/ \E j \in 1..Len(t) : i = Len(p) + j
  <2>1. p \o t \in Seq(Task) /\ Len(p \o t) = Len(p) + Len(t)
    BY <1>t, RangeConcat
  <2>2. \A i \in 1..Len(p) : (p \o t)[i] = p[i]
    BY <1>t, RangeConcat
  <2>3. \A i \in 1..Len(t) : (p \o t)[Len(p) + i] = t[i]
    BY <1>t, RangeConcat
  <2>4. \A i \in 1..(Len(p) + Len(t)) : i \in 1..Len(p) \/ \E j \in 1..Len(t) : i = Len(p) + j
    BY <1>t, RangeConcat
  <2> QED
    BY <2>1, <2>2, <2>3, <2>4
<1> HIDE DEF q
<1>3. /\ Len(p) \in Nat /\ Len(s) \in Nat
      /\ DOMAIN p = 1..Len(p) /\ DOMAIN s = 1..Len(s) /\ DOMAIN q = 1..(Len(p) + Len(s))
      /\ DOMAIN t = 1..Len(s)
  BY <1>1, <1>2, SeqFacts
<1>4. \A i \in DOMAIN q : \/ i \in DOMAIN p /\ q[i] = p[i]
                          \/ \E j \in DOMAIN s : q[i] = TaskOf(kind, s[j]) /\ i = Len(p) + j
  BY <1>1, <1>2, <1>3
<1>5. EventsOf(q) = EventsOf(p) \union Range(s)
  <2>1. EventsOf(q) \subseteq EventsOf(p) \union Range(s)
    <3> SUFFICES ASSUME NEW i \in DOMAIN q PROVE q[i].ev \in EventsOf(p) \union Range(s)
      BY DEF EventsOf
    <3> QED
      BY <1>3, <1>4 DEF EventsOf, Range, TaskOf
  <2>2. EventsOf(p) \subseteq EventsOf(q)
    <3>1. \A i \in DOMAIN p : i \in DOMAIN q /\ q[i] = p[i]
      BY <1>2, <1>3
    <3> QED
      BY <3>1 DEF EventsOf
  <2>3. Range(s) \subseteq EventsOf(q)
    <3>1. \A i \in DOMAIN t : Len(p) + i \in DOMAIN q /\ q[Len(p) + i] = t[i]
      BY <1>1, <1>2, <1>3
    <3> QED
      BY <3>1, <1>1 DEF EventsOf
  <2> QED
    BY <2>1, <2>2, <2>3
<1>6. ASSUME EventsOnce(p), IsInjective(s), EventsOf(p) \intersect Range(s) = {}
      PROVE  EventsOnce(q)
  <2> SUFFICES ASSUME NEW i \in DOMAIN q, NEW j \in DOMAIN q, q[i].ev = q[j].ev PROVE i = j
    BY DEF EventsOnce
  <2>1. \A k \in DOMAIN q : \/ k \in DOMAIN p /\ q[k].ev = p[k].ev /\ q[k].ev \in EventsOf(p)
                            \/ \E m \in DOMAIN s : /\ q[k].ev = s[m] /\ k = Len(p) + m
                                                   /\ q[k].ev \in Range(s)
    BY <1>4 DEF EventsOf, Range, TaskOf
  <2>2. CASE i \in DOMAIN p /\ q[i].ev = p[i].ev /\ q[i].ev \in EventsOf(p)
    <3>1. j \in DOMAIN p /\ q[j].ev = p[j].ev
      BY <2>1, <2>2, <1>6
    <3> QED
      BY <2>2, <3>1, <1>6 DEF EventsOnce
  <2>3. CASE \E m \in DOMAIN s : q[i].ev = s[m] /\ i = Len(p) + m /\ q[i].ev \in Range(s)
    <3>1. \E m \in DOMAIN s : q[j].ev = s[m] /\ j = Len(p) + m
      BY <2>1, <2>3, <1>6
    <3> QED
      BY <2>3, <3>1, <1>6 DEF IsInjective
  <2> QED
    BY <2>1, <2>2, <2>3
<1> QED
  BY <1>2, <1>4, <1>5, <1>6 DEF q, t

\* Taking the first task.
LEMMA PoolShrinks ==
    ASSUME NEW p \in Seq(Task), p # <<>>
    PROVE  /\ Head(p) \in Task /\ Tail(p) \in Seq(Task)
           /\ 1 \in DOMAIN p /\ Head(p) = p[1]
           /\ \A i \in DOMAIN Tail(p) : i + 1 \in DOMAIN p /\ Tail(p)[i] = p[i + 1]
           /\ EventsOf(p) = EventsOf(Tail(p)) \union {Head(p).ev}
           /\ EventsOnce(p) => EventsOnce(Tail(p)) /\ Head(p).ev \notin EventsOf(Tail(p))
<1>1. /\ Head(p) \in Task /\ Tail(p) \in Seq(Task) /\ Head(p) = p[1] /\ 1 \in 1..Len(p)
      /\ Len(Tail(p)) = Len(p) - 1 /\ \A i \in 1..Len(Tail(p)) : Tail(p)[i] = p[i + 1]
      /\ Range(p) = Range(Tail(p)) \union {Head(p)}
  BY RangeTail
<1>2. Len(p) \in Nat /\ DOMAIN p = 1..Len(p) /\ DOMAIN Tail(p) = 1..(Len(p) - 1)
  BY <1>1, SeqFacts
<1>3. \A i \in DOMAIN Tail(p) : i \in Nat /\ i + 1 \in DOMAIN p /\ Tail(p)[i] = p[i + 1] /\ i + 1 # 1
  BY <1>1, <1>2
<1>4. EventsOf(p) = EventsOf(Tail(p)) \union {Head(p).ev}
  <2>1. \A s : EventsOf(s) = {x.ev : x \in Range(s)}
    BY DEF EventsOf, Range
  <2> QED
    BY <2>1, <1>1
<1>5. ASSUME EventsOnce(p) PROVE EventsOnce(Tail(p)) /\ Head(p).ev \notin EventsOf(Tail(p))
  <2>1. EventsOnce(Tail(p))
    <3> SUFFICES ASSUME NEW i \in DOMAIN Tail(p), NEW j \in DOMAIN Tail(p),
                        Tail(p)[i].ev = Tail(p)[j].ev
                 PROVE  i = j
      BY DEF EventsOnce
    <3>1. i + 1 = j + 1
      BY <1>3, <1>5 DEF EventsOnce
    <3> QED
      BY <3>1, <1>3
  <2>2. Head(p).ev \notin EventsOf(Tail(p))
    BY <1>1, <1>2, <1>3, <1>5 DEF EventsOnce, EventsOf
  <2> QED
    BY <2>1, <2>2
<1> QED
  BY <1>1, <1>2, <1>3, <1>4, <1>5

-----------------------------------------------------------------------------
(* Choices.                                                                   *)

\* A set of numbers that has an element has a least one.
LEMMA LeastExists ==
    ASSUME NEW S \in SUBSET Nat, S # {}
    PROVE  \E y \in S : \A z \in S : y <= z
<1> DEFINE upTo == {0..n : n \in S}
<1>1. upTo \subseteq FiniteSubsetsOf(Nat) /\ upTo # {}
  <2>1. ASSUME NEW n \in S PROVE 0..n \in SUBSET Nat /\ IsFiniteSet(0..n)
    BY FS_Interval
  <2> QED
    BY <2>1 DEF FiniteSubsetsOf
<1>2. PICK x \in upTo : \A y \in upTo : ~(<<y, x>> \in StrictSubsetOrdering(Nat))
  <2> HIDE DEF upTo
  <2> QED
    BY <1>1, FS_StrictSubsetOrderingWellFounded, WFMin
<1>3. PICK m \in S : x = 0..m
  BY <1>2
<1>4. ASSUME NEW n \in S PROVE m <= n
  <2> SUFFICES ASSUME n < m PROVE FALSE
    OBVIOUS
  <2>1. 0..n \subseteq 0..m /\ m \in 0..m /\ m \notin 0..n
    OBVIOUS
  <2>2. <<0..n, x>> \in StrictSubsetOrdering(Nat)
    BY <2>1, <1>3 DEF StrictSubsetOrdering
  <2> QED
    BY <2>2, <1>2
<1> QED
  BY <1>4

\* ... and LeastOf is that.
LEMMA LeastIsIn ==
    ASSUME NEW S \in SUBSET Nat, S # {}
    PROVE  LeastOf(S) \in S
BY LeastExists DEF LeastOf

-----------------------------------------------------------------------------
(* Types.                                                                     *)

\* The events with a worker, and those in some place from which triggerEvent
\* will be called.
Working == {worker[w].ev : w \in Workers} \ {None}
Hands ==
    Range(readTasks) \union Range(now) \union Range(readReady) \union EventsOf(pool) \union Working

\* The workers that have written a response of e and not yet moved its stage on.
Pending(e) == {w \in Workers : worker[w].pc \in {"count", "bump"} /\ worker[w].ev = e}

ClientTypes ==
    /\ phase \in [Conns -> {"new", "backlog", "open", "dropped"}]
    /\ peer \in [Conns -> PeerState]
    /\ sent \in [Conns -> 0..MaxReq]
    /\ inbox \in [Conns -> Seq(Requests)] /\ wire \in [Conns -> Seq(Requests)]
    /\ backlog \in Seq(Conns)
    /\ IsInjective(backlog) /\ \A c \in Range(backlog) : phase[c] = "backlog"
    /\ sock \in [FDs -> Conns \union {None}]
    /\ \A fd \in FDs : sock[fd] # None => phase[sock[fd]] = "open"
    /\ \A fd, gd \in FDs : sock[fd] = sock[gd] /\ sock[fd] # None => fd = gd
    /\ ready \subseteq FDs \union {ServerFD}

PlaceTypes ==
    /\ pc \in {"wait", "dispatch", "accept", "swap", "core", "dead"}
    /\ batch \subseteq (FDs \union {ServerFD}) \X {"in", "out", "hup"}
    /\ eventMapper \in [FDs -> EventIds \union {None}]
    /\ readTasks \in Seq(EventIds) /\ now \in Seq(EventIds) /\ readReady \in Seq(EventIds)
    /\ pos \in Nat \ {0}
    /\ pool \in Seq(Task)
    /\ worker \in [Workers -> [pc : {"idle", "trigger", "count", "bump"}, kind : {"read", "write"},
                               ev : EventIds \union {None}]]
    /\ \A w \in Workers : worker[w].pc = "idle" <=> worker[w].ev = None
    /\ executed \in Seq(Requests)

\* A stage is raised once per pending worker at most; a stage behind the first
\* has a request to serve; a held event has a descriptor.
EventTypes ==
    /\ ev \in [EventIds -> Event]
    /\ \A e \in EventIds : ev[e].stage + Cardinality(Pending(e)) <= 6 + Cardinality(Workers)
    /\ \A e \in EventIds : ev[e].stage \notin {1, 6} \/ Pending(e) # {} => ev[e].cur \in Requests
    /\ \A fd \in FDs : eventMapper[fd] # None => ev[eventMapper[fd]].fd = fd
    /\ \A e \in Hands : ev[e].fd \in FDs

TypeInv == ClientTypes /\ PlaceTypes /\ EventTypes

LEMMA TypesGiveTypeOK == TypeInv => TypeOK
<1> SUFFICES ASSUME TypeInv PROVE TypeOK
  OBVIOUS
<1> USE DEF TypeInv
<1>1. \A fd \in FDs : sock[fd] # None => phase[sock[fd]] = "open" /\ FDsOf(sock[fd]) = {fd}
  BY DEF ClientTypes, FDsOf
<1> QED
  BY <1>1 DEF ClientTypes, PlaceTypes, EventTypes, TypeOK, Task

\* The events in hand are events.
LEMMA HandsAreEvents ==
    ASSUME PlaceTypes
    PROVE  Hands \subseteq EventIds
<1>1. Range(readTasks) \subseteq EventIds /\ Range(now) \subseteq EventIds
      /\ Range(readReady) \subseteq EventIds
  BY SeqFacts DEF PlaceTypes
<1>2. EventsOf(pool) \subseteq EventIds
  <2>1. \A i \in DOMAIN pool : pool[i] \in Task
    BY SeqFacts DEF PlaceTypes
  <2> QED
    BY <2>1 DEF EventsOf, Task
<1>3. Working \subseteq EventIds
  BY DEF PlaceTypes, Working
<1> QED
  BY <1>1, <1>2, <1>3 DEF Hands

\* A worker that is not idle has an event, and it is in hand.
LEMMA WorkerHolds ==
    ASSUME PlaceTypes, NEW w \in Workers, worker[w].pc # "idle"
    PROVE  worker[w].ev \in EventIds /\ worker[w].ev \in Working /\ worker[w].ev \in Hands
<1>1. worker[w].ev # None /\ worker[w].ev \in EventIds
  BY DEF PlaceTypes
<1> QED
  BY <1>1 DEF Working, Hands

LEMMA CountedWorkers ==
    /\ IsFiniteSet(Workers) /\ Cardinality(Workers) \in Nat
    /\ \A e : /\ IsFiniteSet(Pending(e)) /\ Cardinality(Pending(e)) \in Nat
              /\ Cardinality(Pending(e)) <= Cardinality(Workers)
<1>1. IsFiniteSet(Workers)
  BY ServerAssumption DEF ServerAssumption
<1>2. Cardinality(Workers) \in Nat
  BY <1>1, FS_CardinalityType
<1>3. ASSUME NEW e
      PROVE  /\ IsFiniteSet(Pending(e)) /\ Cardinality(Pending(e)) \in Nat
             /\ Cardinality(Pending(e)) <= Cardinality(Workers)
  <2>1. Pending(e) \in SUBSET Workers
    BY DEF Pending
  <2>2. IsFiniteSet(Pending(e)) /\ Cardinality(Pending(e)) <= Cardinality(Workers)
    BY <1>1, <2>1, FS_Subset
  <2> QED
    BY <2>2, FS_CardinalityType
<1> QED
  BY <1>1, <1>2, <1>3

\* What close() does, connection by connection.
LEMMA Closes ==
    ASSUME ClientTypes, NEW fd \in FDs, CloseFD(fd)
    PROVE  /\ sock' \in [FDs -> Conns \union {None}]
           /\ \A f \in FDs : sock'[f] = IF f = fd THEN None ELSE sock[f]
           /\ phase' \in [Conns -> {"new", "backlog", "open", "dropped"}]
           /\ \A c \in Conns : phase'[c] = IF c = sock[fd] THEN "dropped" ELSE phase[c]
           /\ inbox' \in [Conns -> Seq(Requests)]
           /\ \A c \in Conns : inbox'[c] = IF c = sock[fd] THEN <<>> ELSE inbox[c]
           /\ ready' = ready \ {fd}
<1> DEFINE cs == {sock[fd]} \ {None}
<1>1. /\ sock' = [sock EXCEPT ![fd] = None]
      /\ phase' = [c \in Conns |-> IF c \in cs THEN "dropped" ELSE phase[c]]
      /\ inbox' = [c \in Conns |-> IF c \in cs THEN <<>> ELSE inbox[c]]
      /\ ready' = ready \ {fd}
  BY DEF CloseFD
<1>2. \A c \in Conns : c \in cs <=> c = sock[fd]
  BY ServerAssumption DEF ServerAssumption
<1> HIDE DEF cs
<1>3. <<>> \in Seq(Requests)
  BY EmptySeq
<1> QED
  BY <1>1, <1>2, <1>3 DEF ClientTypes

LEMMA EventFacts ==
    ASSUME EventTypes, NEW e \in EventIds
    PROVE  /\ ev[e] \in Event
           /\ ev[e].fd \in FDs \union {None} /\ ev[e].stage \in Nat /\ ev[e].stage >= 1
           /\ ev[e].buf \in Seq(Requests) /\ ev[e].cur \in Requests \union {None}
           /\ ev[e].written \in BOOLEAN
           /\ ev[e].stage \notin {1, 6} => ev[e].cur \in Requests
<1>1. ev[e] \in Event /\ Cardinality(Workers) \in Nat
  BY CountedWorkers DEF EventTypes
<1>2. ev[e].stage \notin {1, 6} => ev[e].cur \in Requests
  BY DEF EventTypes
<1> QED
  BY <1>1, <1>2 DEF Event

\* The client types survive a close of one of the descriptors.
LEMMA CloseKeepsTypes ==
    ASSUME ClientTypes, NEW fd \in FDs, CloseFD(fd), UNCHANGED <<sent, backlog, peer>>,
           wire' \in [Conns -> Seq(Requests)]
    PROVE  ClientTypes'
<1>1. /\ sock' \in [FDs -> Conns \union {None}]
      /\ \A f \in FDs : sock'[f] = IF f = fd THEN None ELSE sock[f]
      /\ phase' \in [Conns -> {"new", "backlog", "open", "dropped"}]
      /\ \A c \in Conns : phase'[c] = IF c = sock[fd] THEN "dropped" ELSE phase[c]
      /\ inbox' \in [Conns -> Seq(Requests)]
      /\ ready' = ready \ {fd}
  BY Closes
<1>2. \A c \in Range(backlog) : c \in Conns /\ phase[c] = "backlog"
  BY SeqFacts DEF ClientTypes
<1>3. \A c \in Range(backlog)' : phase'[c] = "backlog"
  <2>1. sock[fd] \in Conns => phase[sock[fd]] = "open"
    BY ServerAssumption DEF ClientTypes, ServerAssumption
  <2>2. \A c \in Range(backlog) : c # sock[fd]
    BY <1>2, <2>1
  <2>3. \A c \in Range(backlog) : phase'[c] = "backlog"
    BY <1>1, <1>2, <2>2
  <2> QED
    BY <2>3
<1>4. \A f \in FDs : sock'[f] # None => phase'[sock'[f]] = "open"
  BY <1>1 DEF ClientTypes
<1>5. \A f, g \in FDs : sock'[f] = sock'[g] /\ sock'[f] # None => f = g
  BY <1>1 DEF ClientTypes
<1> QED
  BY <1>1, <1>3, <1>4, <1>5 DEF ClientTypes

LEMMA WriteKeepsClientTypes ==
    ASSUME ClientTypes, NEW e \in EventIds, ev[e].fd \in FDs, ev[e].cur \in Requests,
           eWrite(e), UNCHANGED <<sent, backlog>>
    PROVE  ClientTypes'
<1> DEFINE c == sock[ev[e].fd]
<1>1. c \in Conns \union {None}
  BY DEF ClientTypes
<1>2. CASE UNCHANGED kernel
  BY <1>2 DEF kernel, ClientTypes
<1>3. CASE c # None /\ wire' = [wire EXCEPT ![c] = Append(@, ev[e].cur)]
           /\ UNCHANGED <<phase, peer, inbox, sock, ready>>
  <2>1. wire' \in [Conns -> Seq(Requests)]
    BY <1>1, <1>3, AppendProperties DEF ClientTypes
  <2> QED
    BY <2>1, <1>3 DEF ClientTypes
<1>4. CASE c # None /\ peer' = [peer EXCEPT ![c] = "gone"]
           /\ UNCHANGED <<phase, inbox, wire, sock, ready>>
  <2>1. peer' \in [Conns -> PeerState]
    BY <1>1, <1>4 DEF ClientTypes, PeerState
  <2> QED
    BY <2>1, <1>4 DEF ClientTypes
<1> QED
  BY <1>2, <1>3, <1>4 DEF eWrite

LEMMA TriggerKeepsClientTypes ==
    ASSUME TypeInv, NEW e \in EventIds, ev[e].fd \in FDs, triggerEvent(e),
           UNCHANGED <<sent, backlog>>
    PROVE  ClientTypes'
<1> DEFINE c == sock[ev[e].fd]
<1>1. ClientTypes /\ EventTypes
  BY DEF TypeInv
<1>2. CASE UNCHANGED kernel
  BY <1>1, <1>2 DEF kernel, ClientTypes
<1>3. CASE ev[e].stage = 1 /\ eRead(e)
  <2>1. CASE ~ReadFails(e) /\ inbox' = [inbox EXCEPT ![c] = <<>>]
             /\ UNCHANGED <<phase, peer, wire, sock, ready>>
    <3>1. inbox' \in [Conns -> Seq(Requests)]
      BY <2>1, <1>1, Emptied DEF ClientTypes, ReadFails
    <3> QED
      BY <2>1, <3>1, <1>1 DEF ClientTypes
  <2>2. CASE CloseFD(ev[e].fd) /\ UNCHANGED <<peer, wire>>
    <3>1. wire' \in [Conns -> Seq(Requests)]
      BY <2>2, <1>1 DEF ClientTypes
    <3> QED
      BY <2>2, <3>1, <1>1, CloseKeepsTypes
  <2> QED
    BY <1>2, <1>3, <2>1, <2>2 DEF eRead
<1>4. CASE ev[e].stage = 5 /\ eWrite(e)
  <2>1. ev[e].cur \in Requests
    BY <1>1, <1>4, EventFacts
  <2> QED
    BY <2>1, <1>1, <1>4, WriteKeepsClientTypes
<1> QED
  BY <1>2, <1>3, <1>4 DEF triggerEvent

LEMMA ClientStepKeepsTypes ==
    ASSUME TypeInv, Clients
    PROVE  ClientTypes'
<1>1. ClientTypes
  BY DEF TypeInv
<1>2. PICK c \in Conns : Connect(c) \/ Send(c) \/ Quit(c) \/ Reset(c) \/ Abort(c)
  BY DEF Clients
<1>3. FDsOf(c) \subseteq FDs
  BY DEF FDsOf
<1>4. CASE Connect(c)
  <2>1. c \notin Range(backlog)
    BY <1>1, <1>4 DEF ClientTypes, Connect
  <2>2. /\ backlog' \in Seq(Conns) /\ IsInjective(backlog')
        /\ Range(backlog') = Range(backlog) \union {c}
    BY <1>1, <1>4, <2>1, RangeAppend DEF ClientTypes, Connect
  <2>3. \A d \in Range(backlog)' : phase'[d] = "backlog"
    BY <2>2, <1>1, <1>4 DEF ClientTypes, Connect
  <2> QED
    BY <2>2, <2>3, <1>1, <1>4 DEF ClientTypes, Connect
<1>5. CASE Send(c)
  <2>1. sent' \in [Conns -> 0..MaxReq] /\ <<c, sent[c] + 1>> \in Requests
    BY <1>1, <1>5, ServerAssumption DEF ClientTypes, Send, Requests, ServerAssumption
  <2>2. inbox' \in [Conns -> Seq(Requests)]
    BY <2>1, <1>1, <1>5, AppendProperties DEF ClientTypes, Send
  <2> QED
    BY <2>1, <2>2, <1>1, <1>3, <1>5 DEF ClientTypes, Send
<1>6. CASE Quit(c)
  BY <1>1, <1>3, <1>6 DEF ClientTypes, Quit, PeerState
<1>7. CASE Reset(c)
  BY <1>1, <1>3, <1>7 DEF ClientTypes, Reset, PeerState
<1>8. CASE Abort(c)
  <2>1. inbox' \in [Conns -> Seq(Requests)]
    BY <1>1, <1>8, Emptied DEF ClientTypes, Abort
  <2> QED
    BY <2>1, <1>1, <1>3, <1>8 DEF ClientTypes, Abort, PeerState
<1> QED
  BY <1>2, <1>4, <1>5, <1>6, <1>7, <1>8

\* The loop thread's event while it serves, a worker's while it is not idle.
LEMMA ServedEvent ==
    ASSUME TypeInv, pos <= Len(now)
    PROVE  now[pos] \in EventIds /\ now[pos] \in Range(now) /\ now[pos] \in Hands
           /\ ev[now[pos]].fd \in FDs
<1>1. pos \in 1..Len(now)
  BY SeqFacts DEF TypeInv, PlaceTypes
<1>2. now[pos] \in Range(now) /\ now[pos] \in EventIds
  BY <1>1, SeqFacts DEF TypeInv, PlaceTypes
<1> QED
  BY <1>2 DEF TypeInv, EventTypes, Hands

LEMMA LoopStepKeepsClientTypes ==
    ASSUME TypeInv, Loop
    PROVE  ClientTypes'
<1>1. ClientTypes
  BY DEF TypeInv
<1>2. CASE EpollWait
  <2>1. ready' \subseteq ready
    BY <1>2 DEF EpollWait, Reported
  <2> QED
    BY <2>1, <1>1, <1>2 DEF EpollWait, ClientTypes
<1>3. CASE Accept
  <2>1. CASE UNCHANGED <<backlog, phase, sock, ready>>
    BY <2>1, <1>1, <1>3 DEF Accept, ClientTypes
  <2>2. CASE backlog # <<>> /\ backlog' = Tail(backlog)
    <3> DEFINE fd == LeastOf(FreeFDs)
               c == Head(backlog)
    <3>1. fd \in FDs /\ sock[fd] = None
      <4>1. FreeFDs \in SUBSET Nat /\ FreeFDs # {}
        BY <1>3, ServerAssumption DEF Accept, FreeFDs, ServerAssumption
      <4> QED
        BY <4>1, LeastIsIn DEF FreeFDs
    <3>2. /\ c \in Conns /\ backlog' \in Seq(Conns) /\ IsInjective(backlog') /\ c \notin Range(backlog')
          /\ Range(backlog') \subseteq Range(backlog) /\ c \in Range(backlog)
      BY <1>1, <2>2, RangeTail DEF ClientTypes
    <3>3. /\ sock' = [sock EXCEPT ![fd] = c] /\ ready' = ready \union {fd}
          /\ phase' = [phase EXCEPT ![c] = "open"] /\ UNCHANGED <<sent, peer, inbox, wire>>
      BY <1>3, <2>2, <3>2 DEF Accept
    <3> HIDE DEF fd, c
    <3>4. phase[c] = "backlog" /\ \A f \in FDs : sock[f] # c
      BY <1>1, <3>2, ServerAssumption DEF ClientTypes, ServerAssumption
    <3>5. \A d \in Range(backlog)' : phase'[d] = "backlog"
      BY <1>1, <3>2, <3>3 DEF ClientTypes
    <3>6. /\ sock' \in [FDs -> Conns \union {None}]
          /\ \A f \in FDs : sock'[f] # None => phase'[sock'[f]] = "open"
          /\ \A f, g \in FDs : sock'[f] = sock'[g] /\ sock'[f] # None => f = g
      BY <1>1, <3>1, <3>2, <3>3, <3>4 DEF ClientTypes
    <3> QED
      BY <1>1, <3>1, <3>2, <3>3, <3>5, <3>6 DEF ClientTypes
  <2> QED
    BY <1>3, <2>1, <2>2 DEF Accept
<1>4. CASE Serve
  <2>1. /\ now[pos] \in EventIds /\ ev[now[pos]].fd \in FDs
        /\ triggerEvent(now[pos]) /\ UNCHANGED <<sent, backlog>>
    BY <1>4, ServedEvent DEF Serve
  <2> QED
    BY <2>1, TriggerKeepsClientTypes
<1>5. ASSUME NEW fd \in FDs, HangUp(fd) PROVE ClientTypes'
  <2>1. CloseFD(fd) /\ UNCHANGED <<sent, backlog, peer, wire>>
    BY <1>5 DEF HangUp
  <2>2. wire' \in [Conns -> Seq(Requests)]
    BY <2>1, <1>1 DEF ClientTypes
  <2> QED
    BY <2>1, <2>2, <1>1, CloseKeepsTypes
<1>6. CASE Listening \/ Served \/ Dispatched \/ Swap \/ HandOver
  <2>1. UNCHANGED <<sent, backlog, kernel>>
    BY <1>6 DEF Listening, Served, Dispatched, Swap, HandOver
  <2> QED
    BY <2>1, <1>1 DEF kernel, ClientTypes
<1>7. ASSUME NEW fd \in FDs, Writable(fd) \/ Readable(fd) PROVE ClientTypes'
  <2>1. UNCHANGED <<sent, backlog, kernel>>
    BY <1>7 DEF Writable, Readable
  <2> QED
    BY <2>1, <1>1 DEF kernel, ClientTypes
<1> QED
  BY <1>2, <1>3, <1>4, <1>5, <1>6, <1>7 DEF Loop

LEMMA WorkerStepKeepsClientTypes ==
    ASSUME TypeInv, NEW w \in Workers, WorkerStep(w)
    PROVE  ClientTypes'
<1> DEFINE e == worker[w].ev
<1>1. ClientTypes /\ PlaceTypes /\ EventTypes
  BY DEF TypeInv
<1>2. CASE TakeTask(w) \/ Count(w) \/ BumpStage(w)
  <2>1. UNCHANGED <<sent, backlog, kernel>>
    BY <1>2 DEF TakeTask, Count, BumpStage
  <2> QED
    BY <2>1, <1>1 DEF kernel, ClientTypes
<1>3. CASE Trigger(w) \/ Write(w)
  <2>1. worker[w].pc = "trigger" /\ UNCHANGED <<sent, backlog>>
    BY <1>3 DEF Trigger, Write, At
  <2>2. e \in EventIds /\ ev[e].fd \in FDs
    BY <2>1, <1>1, WorkerHolds DEF EventTypes
  <2>3. CASE Trigger(w)
    <3>1. triggerEvent(e)
      BY <2>3 DEF Trigger
    <3> QED
      BY <3>1, <2>1, <2>2, TriggerKeepsClientTypes
  <2>4. CASE Write(w)
    <3>1. eWrite(e) /\ ev[e].stage = 5
      BY <2>4 DEF Write
    <3>2. ev[e].cur \in Requests
      BY <3>1, <2>2, <1>1, EventFacts
    <3> QED
      BY <3>1, <3>2, <2>1, <2>2, <1>1, WriteKeepsClientTypes
  <2> QED
    BY <1>3, <2>3, <2>4
<1> QED
  BY <1>2, <1>3 DEF WorkerStep

WorkerRecord == [pc : {"idle", "trigger", "count", "bump"}, kind : {"read", "write"},
                 ev : EventIds \union {None}]

\* After a call, a worker is idle or calls again, and the events that it queued
\* were its own.
LEMMA AfterTriggerPlaces ==
    ASSUME PlaceTypes, NEW W \in SUBSET Workers, \A w \in W : worker[w].pc # "idle",
           NEW more, AfterTrigger(W, more)
    PROVE  /\ worker' \in [Workers -> WorkerRecord]
           /\ \A v \in Workers : worker'[v].pc = "idle" <=> worker'[v].ev = None
           /\ \A v \in Workers \ W : worker'[v] = worker[v]
           /\ \A v \in W : worker'[v] \in {IdleWorker, [worker[v] EXCEPT !.pc = "trigger"]}
           /\ readReady' \in Seq(EventIds)
           /\ Range(readReady') \subseteq Range(readReady) \union {worker[w].ev : w \in W}
<1> DEFINE ends(v) == ~more \/ (worker[v].kind = "read" /\ PastRead(ev'[worker[v].ev].stage))
           Q == {v \in W : ends(v) /\ worker[v].kind = "read" /\ PastRead(ev'[worker[v].ev].stage)}
<1>1. worker' = [v \in Workers |-> IF v \notin W THEN worker[v]
                                   ELSE IF ends(v) THEN IdleWorker ELSE [worker[v] EXCEPT !.pc = "trigger"]]
  BY DEF AfterTrigger
<1>2. PICK order \in [1..Cardinality(Q) -> Q] :
            readReady' = readReady \o [i \in DOMAIN order |-> worker[order[i]].ev]
  BY DEF AfterTrigger
<1>3. Q \in SUBSET W
  OBVIOUS
<1> HIDE DEF Q, ends
<1>4. \A v \in W : worker[v].ev \in EventIds /\ worker[v] \in WorkerRecord
  BY DEF PlaceTypes, WorkerRecord
<1>5. Cardinality(Q) \in Nat
  <2>1. Q \in SUBSET Workers
    BY <1>3
  <2> QED
    BY <2>1, CountedWorkers, FS_Subset, FS_CardinalityType
<1> DEFINE t == [i \in DOMAIN order |-> worker[order[i]].ev]
<1>6. t \in [1..Cardinality(Q) -> EventIds] /\ \A i \in DOMAIN t : t[i] \in {worker[w].ev : w \in W}
  BY <1>3, <1>4
<1>7. t \in Seq(EventIds) /\ Range(t) \subseteq {worker[w].ev : w \in W}
  BY <1>5, <1>6, SeqDef DEF Range
<1>8. readReady' = readReady \o t
  BY <1>2
<1> HIDE DEF t
<1>9. readReady' \in Seq(EventIds) /\ Range(readReady') = Range(readReady) \union Range(t)
  BY <1>7, <1>8, RangeConcat DEF PlaceTypes
<1>10. \A v \in Workers : worker[v] \in WorkerRecord /\ (worker[v].pc = "idle" <=> worker[v].ev = None)
  BY DEF PlaceTypes, WorkerRecord
<1>11. \A v \in W : [worker[v] EXCEPT !.pc = "trigger"] \in WorkerRecord
                    /\ [worker[v] EXCEPT !.pc = "trigger"].ev = worker[v].ev
                    /\ [worker[v] EXCEPT !.pc = "trigger"].pc = "trigger"
  BY <1>4 DEF WorkerRecord
<1>12. IdleWorker \in WorkerRecord /\ IdleWorker.pc = "idle" /\ IdleWorker.ev = None
  BY DEF IdleWorker, WorkerRecord
<1>13. \A v \in W : worker'[v] \in {IdleWorker, [worker[v] EXCEPT !.pc = "trigger"]}
  BY <1>1
<1>14. \A v \in Workers \ W : worker'[v] = worker[v]
  BY <1>1
<1>15. \A v \in Workers : worker'[v] \in WorkerRecord /\ (worker'[v].pc = "idle" <=> worker'[v].ev = None)
  BY <1>10, <1>11, <1>12, <1>13, <1>14
<1>16. worker' \in [Workers -> WorkerRecord]
  BY <1>1, <1>15
<1> QED
  BY <1>7, <1>9, <1>13, <1>14, <1>15, <1>16

\* Every call leaves the requests executed a list of requests.
LEMMA TriggerKeepsExecuted ==
    ASSUME TypeInv, NEW e \in EventIds, triggerEvent(e)
    PROVE  executed' \in Seq(Requests)
<1>1. CASE UNCHANGED executed
  BY <1>1 DEF TypeInv, PlaceTypes
<1>2. CASE ev[e].stage = 3 /\ eDataProcess(e)
  <2>1. ev[e].cur \in Requests
    BY <1>2, EventFacts DEF TypeInv
  <2> QED
    BY <2>1, <1>2, AppendProperties DEF TypeInv, PlaceTypes, eDataProcess
<1> QED
  BY <1>1, <1>2 DEF triggerEvent

\* The event made for a descriptor is one that nobody holds.
LEMMA FreshIsFree ==
    ASSUME EventIds \ Held # {}
    PROVE  FreshEvent \in EventIds /\ FreshEvent \notin Held
<1>1. EventIds \ Held \in SUBSET Nat
  BY ServerAssumption DEF ServerAssumption
<1> QED
  BY <1>1, LeastIsIn DEF FreshEvent

LEMMA MaskTypes ==
    ASSUME NEW fd
    PROVE  Mask(fd) \in {"in", "out", "hup"}
BY DEF Mask

LEMMA LoopStepKeepsPlaces ==
    ASSUME TypeInv, Loop
    PROVE  PlaceTypes'
<1>1. PlaceTypes
  BY DEF TypeInv
<1>2. CASE EpollWait
  <2>1. PICK fds \in SUBSET Reported : batch' = {<<fd, Mask(fd)>> : fd \in fds}
    BY <1>2 DEF EpollWait
  <2>2. fds \subseteq FDs \union {ServerFD}
    BY DEF Reported, TypeInv, ClientTypes
  <2>3. batch' \subseteq (FDs \union {ServerFD}) \X {"in", "out", "hup"}
    BY <2>1, <2>2, MaskTypes
  <2> QED
    BY <2>3, <1>1, <1>2 DEF EpollWait, PlaceTypes
<1>3. CASE Listening \/ Accept
  <2>1. batch' \subseteq batch /\ pc' \in {"accept", "dispatch", pc}
    BY <1>3 DEF Listening, Accept
  <2>2. UNCHANGED <<eventMapper, readTasks, now, pos, readReady, pool, worker, executed>>
    BY <1>3 DEF Listening, Accept
  <2> QED
    BY <2>1, <2>2, <1>1 DEF PlaceTypes
<1>4. CASE Serve
  <2>1. now[pos] \in EventIds /\ triggerEvent(now[pos])
    BY <1>4, ServedEvent DEF Serve
  <2>2. executed' \in Seq(Requests)
    BY <2>1, TriggerKeepsExecuted
  <2>3. pos' \in {pos, pos + 1} /\ pc' \in {pc, "dead"}
    BY <1>4 DEF Serve, Fate
  <2>4. UNCHANGED <<batch, eventMapper, readTasks, now, readReady, pool, worker>>
    BY <1>4 DEF Serve
  <2> QED
    BY <2>2, <2>3, <2>4, <1>1 DEF PlaceTypes
<1>5. CASE Served
  BY <1>1, <1>5, Emptied DEF Served, PlaceTypes
<1>6. CASE Dispatched
  <2>1. pool' = pool \o TasksOf("read", readTasks)
    BY <1>6 DEF Dispatched, TasksOf, TaskOf
  <2>2. pool' \in Seq(Task)
    BY <2>1, <1>1, PoolGrows DEF PlaceTypes
  <2>3. readTasks' \in Seq(EventIds) /\ pc' \in {"swap", "wait"}
    BY <1>6, Emptied DEF Dispatched
  <2>4. UNCHANGED <<batch, eventMapper, now, pos, readReady, worker, executed>>
    BY <1>6 DEF Dispatched
  <2> QED
    BY <2>2, <2>3, <2>4, <1>1 DEF PlaceTypes
<1>7. CASE Swap
  <2>1. readReady' \in Seq(EventIds) /\ now' = readReady /\ pc' = "core" /\ pos' = 1
    BY <1>7, Emptied DEF Swap
  <2>2. UNCHANGED <<batch, eventMapper, readTasks, pool, worker, executed>>
    BY <1>7 DEF Swap
  <2> QED
    BY <2>1, <2>2, <1>1 DEF PlaceTypes
<1>8. CASE HandOver
  <2>1. pool' = pool \o TasksOf("write", now)
    BY <1>8 DEF HandOver, TasksOf, TaskOf
  <2>2. pool' \in Seq(Task)
    BY <2>1, <1>1, PoolGrows DEF PlaceTypes
  <2>3. now' \in Seq(EventIds) /\ pc' = "wait" /\ pos' = 1
    BY <1>8, Emptied DEF HandOver
  <2>4. UNCHANGED <<batch, eventMapper, readTasks, readReady, worker, executed>>
    BY <1>8 DEF HandOver
  <2> QED
    BY <2>2, <2>3, <2>4, <1>1 DEF PlaceTypes
<1>9. ASSUME NEW fd \in FDs, HangUp(fd) \/ Writable(fd) PROVE PlaceTypes'
  <2>1. batch' \subseteq batch /\ (eventMapper' = eventMapper \/ eventMapper' = [eventMapper EXCEPT ![fd] = None])
    BY <1>9 DEF HangUp, Writable
  <2>2. eventMapper' \in [FDs -> EventIds \union {None}]
    BY <2>1, <1>1 DEF PlaceTypes
  <2>3. UNCHANGED <<pc, readTasks, now, pos, readReady, pool, worker, executed>>
    BY <1>9 DEF HangUp, Writable
  <2> QED
    BY <2>1, <2>2, <2>3, <1>1 DEF PlaceTypes
<1>10. ASSUME NEW fd \in FDs, Readable(fd) PROVE PlaceTypes'
  <2>1. PICK e : e \in EventIds /\ Target(e)
                 /\ (eventMapper' = eventMapper \/ eventMapper' = [eventMapper EXCEPT ![fd] = e])
    <3>1. CASE EventIds \ Held # {} /\ eventMapper' = [eventMapper EXCEPT ![fd] = FreshEvent] /\ Target(FreshEvent)
      BY <3>1, FreshIsFree
    <3>2. CASE eventMapper[fd] # None /\ Target(eventMapper[fd]) /\ UNCHANGED eventMapper
      BY <3>2, <1>1 DEF PlaceTypes
    <3> QED
      BY <1>10, <3>1, <3>2 DEF Readable
  <2>2. eventMapper' \in [FDs -> EventIds \union {None}]
    BY <2>1, <1>1 DEF PlaceTypes
  <2>3. readTasks' \in Seq(EventIds) /\ now' \in Seq(EventIds) /\ pos' \in Nat \ {0}
    <3>1. Append(readTasks, e) \in Seq(EventIds) /\ <<e>> \in Seq(EventIds)
      BY <2>1, <1>1, AppendProperties DEF PlaceTypes
    <3>2. CASE MultiThreaded
      <4>1. readTasks' = Append(readTasks, e) /\ UNCHANGED <<now, pos>>
        BY <2>1, <3>2 DEF Target
      <4> QED
        BY <4>1, <3>1, <1>1 DEF PlaceTypes
    <3>3. CASE ~MultiThreaded
      <4>1. now' = <<e>> /\ pos' = 1 /\ UNCHANGED readTasks
        BY <2>1, <3>3 DEF Target
      <4> QED
        BY <4>1, <3>1, <1>1 DEF PlaceTypes
    <3> QED
      BY <3>2, <3>3
  <2>4. batch' \subseteq batch /\ UNCHANGED <<pc, readReady, pool, worker, executed>>
    BY <1>10 DEF Readable
  <2> QED
    BY <2>2, <2>3, <2>4, <1>1 DEF PlaceTypes
<1> QED
  BY <1>2, <1>3, <1>4, <1>5, <1>6, <1>7, <1>8, <1>9, <1>10 DEF Loop

LEMMA WorkerStepKeepsPlaces ==
    ASSUME TypeInv, NEW w \in Workers, WorkerStep(w)
    PROVE  PlaceTypes'
<1>1. PlaceTypes
  BY DEF TypeInv
<1>2. worker \in [Workers -> WorkerRecord]
  BY <1>1 DEF PlaceTypes, WorkerRecord
<1>3. CASE TakeTask(w)
  <2>1. Head(pool) \in Task /\ pool' \in Seq(Task) /\ worker' = [worker EXCEPT ![w] = Head(pool)]
    BY <1>1, <1>3, PoolShrinks DEF PlaceTypes, TakeTask
  <2>2. Head(pool) \in WorkerRecord /\ Head(pool).pc # "idle" /\ Head(pool).ev # None
    BY <2>1, ServerAssumption DEF Task, WorkerRecord, ServerAssumption
  <2>3. worker' \in [Workers -> WorkerRecord] /\ \A v \in Workers : worker'[v].pc = "idle" <=> worker'[v].ev = None
    BY <2>1, <2>2, <1>1, <1>2 DEF PlaceTypes
  <2>4. UNCHANGED <<pc, batch, eventMapper, readTasks, now, pos, readReady, executed>>
    BY <1>3 DEF TakeTask, loop
  <2> QED
    BY <2>1, <2>3, <2>4, <1>1 DEF PlaceTypes, WorkerRecord
<1>4. CASE Trigger(w)
  <2>1. /\ worker[w].pc = "trigger" /\ triggerEvent(worker[w].ev)
        /\ AfterTrigger({w}, Continues(worker[w].ev))
    BY <1>4 DEF Trigger, At
  <2>2. worker[w].ev \in EventIds
    BY <2>1, <1>1, WorkerHolds
  <2>3. executed' \in Seq(Requests)
    BY <2>1, <2>2, TriggerKeepsExecuted
  <2>4. /\ worker' \in [Workers -> WorkerRecord]
        /\ \A v \in Workers : worker'[v].pc = "idle" <=> worker'[v].ev = None
        /\ readReady' \in Seq(EventIds)
    <3>1. {w} \in SUBSET Workers /\ \A v \in {w} : worker[v].pc # "idle"
      BY <2>1
    <3> QED
      BY <3>1, <2>1, <1>1, AfterTriggerPlaces
  <2>5. UNCHANGED <<pc, batch, eventMapper, readTasks, now, pos, pool>>
    BY <1>4 DEF Trigger, loop
  <2> QED
    BY <2>3, <2>4, <2>5, <1>1 DEF PlaceTypes, WorkerRecord
<1>5. CASE Write(w) \/ Count(w)
  <2>1. PICK p \in {"count", "bump"} : worker' = [worker EXCEPT ![w].pc = p]
    BY <1>5 DEF Write, Count
  <2>2. worker[w].pc # "idle" /\ pc' \in {pc, "dead"}
    BY <1>5 DEF Write, Count, At, Fate, loop
  <2>3. worker' \in [Workers -> WorkerRecord] /\ \A v \in Workers : worker'[v].pc = "idle" <=> worker'[v].ev = None
    BY <2>1, <2>2, <1>1, <1>2 DEF PlaceTypes, WorkerRecord
  <2>4. UNCHANGED <<batch, eventMapper, readTasks, now, pos, readReady, pool, executed>>
    BY <1>5 DEF Write, Count, loop
  <2> QED
    BY <2>2, <2>3, <2>4, <1>1 DEF PlaceTypes, WorkerRecord
<1>6. CASE BumpStage(w)
  <2>1. PICK W \in SUBSET Workers : (\A v \in W : worker[v].pc # "idle") /\ AfterTrigger(W, TRUE)
    BY <1>6 DEF BumpStage, At
  <2>2. /\ worker' \in [Workers -> WorkerRecord]
        /\ \A v \in Workers : worker'[v].pc = "idle" <=> worker'[v].ev = None
        /\ readReady' \in Seq(EventIds)
    BY <2>1, <1>1, AfterTriggerPlaces
  <2>3. UNCHANGED <<pc, batch, eventMapper, readTasks, now, pos, pool, executed>>
    BY <1>6 DEF BumpStage, loop
  <2> QED
    BY <2>2, <2>3, <1>1 DEF PlaceTypes, WorkerRecord
<1> QED
  BY <1>3, <1>4, <1>5, <1>6 DEF WorkerStep

-----------------------------------------------------------------------------
(* Who holds the events.                                                      *)

\* The loop thread's steps that only move events from place to place.
Moves == Listening \/ Accept \/ EpollWait \/ Served \/ Dispatched \/ Swap \/ HandOver

LEMMA MovesKeepHands ==
    ASSUME TypeInv, Moves
    PROVE  Hands' \subseteq Hands
<1>1. PlaceTypes
  BY DEF TypeInv
<1>2. CASE Listening \/ Accept \/ EpollWait
  <2>1. UNCHANGED <<readTasks, now, readReady, pool, worker>>
    BY <1>2 DEF Listening, Accept, EpollWait
  <2> QED
    BY <2>1 DEF Hands, Working
<1>3. CASE Served
  <2>1. UNCHANGED <<readTasks, readReady, pool, worker>> /\ Range(now') = {}
    BY <1>3, Emptied DEF Served
  <2> QED
    BY <2>1 DEF Hands, Working
<1>4. CASE Dispatched
  <2>1. UNCHANGED <<now, readReady, worker>> /\ Range(readTasks') = {}
    BY <1>4, Emptied DEF Dispatched
  <2>2. pool' = pool \o TasksOf("read", readTasks)
    BY <1>4 DEF Dispatched, TasksOf, TaskOf
  <2>3. EventsOf(pool') = EventsOf(pool) \union Range(readTasks)
    BY <2>2, <1>1, PoolGrows DEF PlaceTypes
  <2> QED
    BY <2>1, <2>3 DEF Hands, Working
<1>5. CASE Swap
  <2>1. UNCHANGED <<readTasks, pool, worker>> /\ Range(readReady') = {} /\ now' = readReady
    BY <1>5, Emptied DEF Swap
  <2> QED
    BY <2>1 DEF Hands, Working
<1>6. CASE HandOver
  <2>1. UNCHANGED <<readTasks, readReady, worker>> /\ Range(now') = {}
    BY <1>6, Emptied DEF HandOver
  <2>2. pool' = pool \o TasksOf("write", now)
    BY <1>6 DEF HandOver, TasksOf, TaskOf
  <2>3. EventsOf(pool') = EventsOf(pool) \union Range(now)
    BY <2>2, <1>1, PoolGrows DEF PlaceTypes
  <2> QED
    BY <2>1, <2>3 DEF Hands, Working
<1> QED
  BY <1>2, <1>3, <1>4, <1>5, <1>6 DEF Moves

LEMMA TakeTaskKeepsHands ==
    ASSUME TypeInv, NEW w \in Workers, TakeTask(w)
    PROVE  Hands' \subseteq Hands
<1>1. /\ EventsOf(pool) = EventsOf(pool') \union {Head(pool).ev} /\ Head(pool) \in Task
      /\ worker' = [worker EXCEPT ![w] = Head(pool)]
  BY PoolShrinks DEF TypeInv, PlaceTypes, TakeTask
<1>2. Working' \subseteq Working \union {Head(pool).ev}
  BY <1>1 DEF Working, TypeInv, PlaceTypes
<1>3. UNCHANGED <<readTasks, now, readReady>>
  BY DEF TakeTask, loop
<1> QED
  BY <1>1, <1>2, <1>3 DEF Hands

LEMMA AfterTriggerKeepsHands ==
    ASSUME PlaceTypes, NEW W \in SUBSET Workers, \A w \in W : worker[w].pc # "idle",
           NEW more, AfterTrigger(W, more), UNCHANGED <<readTasks, now, pool>>
    PROVE  Hands' \subseteq Hands
<1>1. /\ \A v \in Workers \ W : worker'[v] = worker[v]
      /\ \A v \in W : worker'[v] \in {IdleWorker, [worker[v] EXCEPT !.pc = "trigger"]}
      /\ Range(readReady') \subseteq Range(readReady) \union {worker[w].ev : w \in W}
  BY AfterTriggerPlaces
<1>2. ASSUME NEW v \in Workers PROVE worker'[v].ev \in {None, worker[v].ev}
  <2>1. [worker[v] EXCEPT !.pc = "trigger"].ev = worker[v].ev /\ IdleWorker.ev = None
    BY DEF IdleWorker, PlaceTypes
  <2> QED
    BY <1>1, <2>1
<1>3. Working' \subseteq Working
  BY <1>2 DEF Working
<1>4. {worker[w].ev : w \in W} \subseteq Working
  BY DEF Working, PlaceTypes
<1> QED
  BY <1>1, <1>3, <1>4 DEF Hands

LEMMA TargetKeepsHands ==
    ASSUME PlaceTypes, NEW e \in EventIds, Target(e), now = <<>>, UNCHANGED <<readReady, pool, worker>>
    PROVE  Hands' = Hands \union {e}
<1>1. Range(Append(readTasks, e)) = Range(readTasks) \union {e} /\ Range(<<>>) = {}
  BY RangeAppend, Emptied DEF PlaceTypes
<1>2. Range(<<e>>) = {e}
  BY DEF Range
<1>3. CASE MultiThreaded
  BY <1>1, <1>3 DEF Target, Hands, Working
<1>4. CASE ~MultiThreaded
  BY <1>1, <1>2, <1>4 DEF Target, Hands, Working
<1> QED
  BY <1>3, <1>4

-----------------------------------------------------------------------------
(* The types of the events.                                                   *)

\* Steps that leave the events as they are, hold no more of them and forget
\* some of them at most.
LEMMA EventsAsTheyWere ==
    ASSUME TypeInv, UNCHANGED ev, Hands' \subseteq Hands,
           \A e \in EventIds : Pending(e)' \subseteq Pending(e),
           \A fd \in FDs : eventMapper'[fd] \in {None, eventMapper[fd]}
    PROVE  EventTypes'
<1>1. EventTypes
  BY DEF TypeInv
<1>2. ASSUME NEW e \in EventIds
      PROVE  /\ ev'[e].stage + Cardinality(Pending(e)') <= 6 + Cardinality(Workers)
             /\ ev'[e].stage \notin {1, 6} \/ Pending(e)' # {} => ev'[e].cur \in Requests
  <2>1. /\ Cardinality(Pending(e)') <= Cardinality(Pending(e))
        /\ Cardinality(Pending(e)') \in Nat /\ Cardinality(Pending(e)) \in Nat
    <3>1. IsFiniteSet(Pending(e)) /\ Pending(e)' \in SUBSET Pending(e)
      BY CountedWorkers
    <3> QED
      BY <3>1, FS_Subset, FS_CardinalityType
  <2>2. ev[e].stage + Cardinality(Pending(e)) <= 6 + Cardinality(Workers) /\ ev[e].stage \in Nat
    BY <1>1, EventFacts DEF EventTypes
  <2>3. ev[e].stage \notin {1, 6} \/ Pending(e) # {} => ev[e].cur \in Requests
    BY <1>1 DEF EventTypes
  <2>4. ev'[e].stage + Cardinality(Pending(e)') <= 6 + Cardinality(Workers)
    BY <2>1, <2>2, CountedWorkers
  <2> QED
    BY <2>3, <2>4
<1>3. \A fd \in FDs : eventMapper'[fd] # None => ev'[eventMapper'[fd]].fd = fd
  BY <1>1 DEF EventTypes
<1>4. \A e \in Hands' : ev'[e].fd \in FDs
  BY <1>1 DEF EventTypes
<1>5. ev' \in [EventIds -> Event]
  BY <1>1 DEF EventTypes
<1> QED
  BY <1>2, <1>3, <1>4, <1>5 DEF EventTypes

\* One event changes, but not its descriptor.
LEMMA OneEventChanges ==
    ASSUME TypeInv, NEW e \in EventIds, NEW r \in Event, ev' = [ev EXCEPT ![e] = r],
           r.fd = ev[e].fd, Hands' \subseteq Hands, UNCHANGED eventMapper,
           \A f \in EventIds \ {e} : Pending(f)' \subseteq Pending(f),
           r.stage + Cardinality(Pending(e)') <= 6 + Cardinality(Workers),
           r.stage \notin {1, 6} \/ Pending(e)' # {} => r.cur \in Requests
    PROVE  EventTypes'
<1>1. EventTypes /\ PlaceTypes /\ ev'[e] = r /\ \A f \in EventIds \ {e} : ev'[f] = ev[f]
  BY DEF TypeInv, EventTypes
<1>2. ASSUME NEW f \in EventIds \ {e}
      PROVE  /\ ev'[f].stage + Cardinality(Pending(f)') <= 6 + Cardinality(Workers)
             /\ ev'[f].stage \notin {1, 6} \/ Pending(f)' # {} => ev'[f].cur \in Requests
  <2>1. /\ Cardinality(Pending(f)') <= Cardinality(Pending(f))
        /\ Cardinality(Pending(f)') \in Nat /\ Cardinality(Pending(f)) \in Nat
    <3>1. IsFiniteSet(Pending(f)) /\ Pending(f)' \in SUBSET Pending(f)
      BY CountedWorkers
    <3> QED
      BY <3>1, FS_Subset, FS_CardinalityType
  <2>2. ev[f].stage + Cardinality(Pending(f)) <= 6 + Cardinality(Workers) /\ ev[f].stage \in Nat
    BY <1>1, EventFacts DEF EventTypes
  <2>3. ev[f].stage \notin {1, 6} \/ Pending(f) # {} => ev[f].cur \in Requests
    BY <1>1 DEF EventTypes
  <2>4. ev'[f].stage + Cardinality(Pending(f)') <= 6 + Cardinality(Workers)
    BY <1>1, <2>1, <2>2, CountedWorkers
  <2> QED
    BY <1>1, <2>3, <2>4
<1>3. \A f \in EventIds : ev'[f].fd = ev[f].fd
  BY <1>1
<1>4. \A fd \in FDs : eventMapper'[fd] # None => ev'[eventMapper'[fd]].fd = fd
  BY <1>1, <1>3 DEF EventTypes, PlaceTypes
<1>5. \A f \in Hands' : ev'[f].fd \in FDs
  BY <1>1, <1>3, HandsAreEvents DEF EventTypes
<1>6. ev' \in [EventIds -> Event]
  BY <1>1 DEF EventTypes
<1>7. \A f \in EventIds : /\ ev'[f].stage + Cardinality(Pending(f)') <= 6 + Cardinality(Workers)
                          /\ ev'[f].stage \notin {1, 6} \/ Pending(f)' # {} => ev'[f].cur \in Requests
  BY <1>1, <1>2
<1> QED
  BY <1>4, <1>5, <1>6, <1>7 DEF EventTypes

\* What a call makes of its event.
LEMMA TriggerChangesOne ==
    ASSUME TypeInv, NEW e \in EventIds, ev[e].fd \in FDs, triggerEvent(e)
    PROVE  /\ ev'[e] \in Event /\ ev' = [ev EXCEPT ![e] = ev'[e]] /\ ev'[e].fd = ev[e].fd
           /\ ev'[e].stage + Cardinality(Pending(e)) <= 6 + Cardinality(Workers)
           /\ ev'[e].stage \notin {1, 6} \/ Pending(e) # {} => ev'[e].cur \in Requests
<1> DEFINE c == sock[ev[e].fd]
           text == ev[e].buf \o inbox[c]
<1>1. /\ EventTypes /\ ClientTypes /\ ev \in [EventIds -> Event]
      /\ ev[e] \in Event /\ ev[e].stage \in Nat /\ ev[e].buf \in Seq(Requests)
  BY EventFacts DEF TypeInv, EventTypes
<1>2. ev[e].stage \notin {1, 6} \/ Pending(e) # {} => ev[e].cur \in Requests
  BY <1>1 DEF EventTypes
<1>3. ev[e].stage + Cardinality(Pending(e)) <= 6 + Cardinality(Workers)
  BY <1>1 DEF EventTypes
<1>4. /\ Cardinality(Pending(e)) \in Nat /\ Cardinality(Workers) \in Nat
      /\ Cardinality(Pending(e)) <= Cardinality(Workers)
  BY CountedWorkers
<1>5. CASE UNCHANGED ev
  <2>1. ev' = [ev EXCEPT ![e] = ev'[e]] /\ ev'[e] = ev[e]
    BY <1>1, <1>5
  <2> QED
    BY <2>1, <1>1, <1>2, <1>3
<1>6. CASE ev[e].stage \in {2, 3, 4} /\ Bump(e)
  <2>1. ev' = [ev EXCEPT ![e] = ev'[e]] /\ ev'[e] = [ev[e] EXCEPT !.stage = ev[e].stage + 1]
    BY <1>1, <1>6 DEF Bump
  <2>2. ev'[e] \in Event /\ ev'[e].fd = ev[e].fd /\ ev'[e].stage = ev[e].stage + 1 /\ ev'[e].cur = ev[e].cur
    <3>1. ev[e].stage + 1 \in 1..(6 + Cardinality(Workers))
      BY <1>4, <1>6
    <3> QED
      BY <3>1, <2>1, <1>1 DEF Event
  <2>3. ev'[e].stage + Cardinality(Pending(e)) <= 6 + Cardinality(Workers) /\ ev[e].cur \in Requests
    BY <2>2, <1>2, <1>4, <1>6
  <2> QED
    BY <2>1, <2>2, <2>3
<1>7. CASE ev[e].stage = 5 /\ CountWritten(e)
  <2>1. ev' = [ev EXCEPT ![e] = ev'[e]] /\ ev'[e] = [ev[e] EXCEPT !.stage = 6, !.written = TRUE]
    BY <1>1, <1>7 DEF CountWritten
  <2>2. ev'[e] \in Event /\ ev'[e].fd = ev[e].fd /\ ev'[e].stage = 6 /\ ev'[e].cur = ev[e].cur
    <3>1. 6 \in 1..(6 + Cardinality(Workers))
      BY <1>4
    <3> QED
      BY <3>1, <2>1, <1>1 DEF Event
  <2>3. ev'[e].stage + Cardinality(Pending(e)) <= 6 + Cardinality(Workers) /\ ev[e].cur \in Requests
    BY <2>2, <1>2, <1>4, <1>7
  <2> QED
    BY <2>1, <2>2, <2>3
<1>8. CASE ev[e].stage = 1 /\ ~ReadFails(e) /\ eRead(e)
  <2>1. c \in Conns /\ inbox[c] \in Seq(Requests)
    <3>1. c # None
      BY <1>8 DEF ReadFails
    <3> QED
      BY <3>1, <1>1 DEF ClientTypes
  <2>2. text \in Seq(Requests)
    BY <2>1, <1>1, ConcatProperties
  <2>3. CASE text # <<>> /\ ev' = [ev EXCEPT ![e].stage = 2, ![e].cur = Head(text), ![e].buf = TextKept(c, text)]
    <3>1. Head(text) \in Requests /\ TextKept(c, text) \in Seq(Requests)
      <4>1. Head(text) \in Requests /\ Tail(text) \in Seq(Requests)
        BY <2>2, <2>3, RangeTail
      <4> QED
        BY <4>1, <2>2 DEF TextKept
    <3> HIDE DEF text, c
    <3>2. /\ ev' = [ev EXCEPT ![e] = ev'[e]]
          /\ ev'[e] = [ev[e] EXCEPT !.stage = 2, !.cur = Head(text), !.buf = TextKept(c, text)]
      BY <1>1, <2>3
    <3>3. ev'[e] \in Event /\ ev'[e].fd = ev[e].fd /\ ev'[e].stage = 2 /\ ev'[e].cur = Head(text)
      <4>1. 2 \in 1..(6 + Cardinality(Workers))
        BY <1>4
      <4> QED
        BY <4>1, <3>1, <3>2, <1>1 DEF Event
    <3> QED
      BY <3>1, <3>2, <3>3, <1>4
  <2>4. CASE ev' = [ev EXCEPT ![e].stage = 6, ![e].buf = text]
    <3> HIDE DEF text, c
    <3>1. /\ ev' = [ev EXCEPT ![e] = ev'[e]]
          /\ ev'[e] = [ev[e] EXCEPT !.stage = 6, !.buf = text]
      BY <1>1, <2>4
    <3>2. ev'[e] \in Event /\ ev'[e].fd = ev[e].fd /\ ev'[e].stage = 6 /\ ev'[e].cur = ev[e].cur
      <4>1. 6 \in 1..(6 + Cardinality(Workers))
        BY <1>4
      <4> QED
        BY <4>1, <3>1, <2>2, <1>1 DEF Event
    <3> QED
      BY <3>1, <3>2, <1>2, <1>4
  <2> QED
    BY <1>8, <2>3, <2>4 DEF eRead
<1> QED
  BY <1>5, <1>6, <1>7, <1>8 DEF triggerEvent, eDataProcess, eRead

\* An event that is not held by a shared_ptr is in no hand.
LEMMA HandsAreHeld ==
    /\ Hands \subseteq Held
    /\ \A w \in Workers : worker[w].ev \in Held
    /\ \A fd \in DOMAIN eventMapper : eventMapper[fd] \in Held
BY DEF Hands, Held, Working, EventsOf, Range

LEMMA ReadableKeepsEvents ==
    ASSUME TypeInv, NEW fd \in FDs, Readable(fd)
    PROVE  EventTypes'
<1>1. PlaceTypes /\ EventTypes /\ ev \in [EventIds -> Event] /\ eventMapper \in [FDs -> EventIds \union {None}]
  BY DEF TypeInv, EventTypes, PlaceTypes
<1>2. now = <<>> /\ UNCHANGED <<readReady, pool, worker>>
  BY DEF Readable
<1>3. \A e \in EventIds : Pending(e)' = Pending(e)
  BY <1>2 DEF Pending
<1>4. Cardinality(Workers) \in Nat
  BY CountedWorkers
<1>5. \A e \in EventIds : /\ ev[e].stage + Cardinality(Pending(e)) <= 6 + Cardinality(Workers)
                          /\ ev[e].stage \notin {1, 6} \/ Pending(e) # {} => ev[e].cur \in Requests
  BY <1>1 DEF EventTypes
<1>6. CASE /\ EventIds \ Held # {} /\ Target(FreshEvent)
           /\ eventMapper' = [eventMapper EXCEPT ![fd] = FreshEvent]
           /\ ev' = [ev EXCEPT ![FreshEvent] = NewEvent(fd)]
  <2> DEFINE e == FreshEvent
  <2>1. e \in EventIds /\ e \notin Held
    BY <1>6, FreshIsFree
  <2> HIDE DEF e
  <2>2. Hands' = Hands \union {e}
    BY <1>1, <1>2, <1>6, <2>1, TargetKeepsHands DEF e
  <2>3. eventMapper' = [eventMapper EXCEPT ![fd] = e] /\ ev' = [ev EXCEPT ![e] = NewEvent(fd)]
    BY <1>6 DEF e
  <2>4. NewEvent(fd) \in Event /\ NewEvent(fd).fd = fd /\ NewEvent(fd).stage = 1
    <3>1. 1 \in 1..(6 + Cardinality(Workers)) /\ <<>> \in Seq(Requests)
      BY <1>4, Emptied
    <3> QED
      BY <3>1 DEF NewEvent, Event
  <2>5. Pending(e) = {} /\ Cardinality(Pending(e)) = 0
    <3>1. Pending(e) = {}
      BY <2>1, HandsAreHeld DEF Pending
    <3> QED
      BY <3>1, FS_EmptySet
  <2>6. \A gd \in FDs : eventMapper[gd] # e
    BY <1>1, <2>1, HandsAreHeld
  <2>7. e \notin Hands
    BY <2>1, HandsAreHeld
  <2>8. ev'[e] = NewEvent(fd) /\ \A f \in EventIds \ {e} : ev'[f] = ev[f]
    BY <1>1, <2>1, <2>3
  <2>9. \A f \in EventIds : /\ ev'[f].stage + Cardinality(Pending(f)') <= 6 + Cardinality(Workers)
                            /\ ev'[f].stage \notin {1, 6} \/ Pending(f)' # {} => ev'[f].cur \in Requests
    <3> SUFFICES ASSUME NEW f \in EventIds
                 PROVE  /\ ev'[f].stage + Cardinality(Pending(f)) <= 6 + Cardinality(Workers)
                        /\ ev'[f].stage \notin {1, 6} \/ Pending(f) # {} => ev'[f].cur \in Requests
      BY <1>3
    <3>1. CASE f = e
      BY <3>1, <2>4, <2>5, <2>8, <1>4
    <3>2. CASE f # e
      BY <3>2, <2>8, <1>5
    <3> QED
      BY <3>1, <3>2
  <2>10. \A gd \in FDs : eventMapper'[gd] # None => ev'[eventMapper'[gd]].fd = gd
    <3> SUFFICES ASSUME NEW gd \in FDs, eventMapper'[gd] # None PROVE ev'[eventMapper'[gd]].fd = gd
      OBVIOUS
    <3>1. CASE gd = fd
      BY <3>1, <2>3, <2>4, <2>8, <1>1
    <3>2. CASE gd # fd
      <4>1. eventMapper'[gd] = eventMapper[gd] /\ eventMapper[gd] \in EventIds \ {e}
        BY <3>2, <2>3, <2>6, <1>1
      <4> QED
        BY <4>1, <2>8, <1>1 DEF EventTypes
    <3> QED
      BY <3>1, <3>2
  <2>11. \A f \in Hands' : ev'[f].fd \in FDs
    BY <2>2, <2>4, <2>7, <2>8, <1>1, HandsAreEvents DEF EventTypes
  <2>12. ev' \in [EventIds -> Event]
    BY <1>1, <2>3, <2>4
  <2> QED
    BY <2>9, <2>10, <2>11, <2>12 DEF EventTypes
<1>7. CASE LET e == eventMapper[fd] IN
           /\ e # None /\ Target(e) /\ UNCHANGED eventMapper
           /\ ev' = [ev EXCEPT ![e] = IF ev[e].stage = 6 THEN setToFirstStage(@) ELSE @]
  <2> DEFINE e == eventMapper[fd]
  <2>1. e \in EventIds /\ UNCHANGED eventMapper /\ Target(e)
    BY <1>1, <1>7
  <2>2. ev' = [ev EXCEPT ![e] = IF ev[e].stage = 6 THEN setToFirstStage(@) ELSE @]
    BY <1>7
  <2>3. ev[e].fd = fd
    BY <2>1, <1>1, ServerAssumption DEF EventTypes, ServerAssumption
  <2> HIDE DEF e
  <2>4. Hands' = Hands \union {e}
    BY <1>1, <1>2, <2>1, TargetKeepsHands
  <2>5. /\ ev' = [ev EXCEPT ![e] = ev'[e]] /\ \A f \in EventIds \ {e} : ev'[f] = ev[f]
        /\ ev'[e] = IF ev[e].stage = 6 THEN [ev[e] EXCEPT !.stage = 1, !.written = FALSE] ELSE ev[e]
    BY <1>1, <2>1, <2>2 DEF setToFirstStage
  <2>6. /\ ev'[e] \in Event /\ ev'[e].fd = ev[e].fd /\ ev'[e].cur = ev[e].cur
        /\ ev'[e].stage = IF ev[e].stage = 6 THEN 1 ELSE ev[e].stage
    <3>1. 1 \in 1..(6 + Cardinality(Workers)) /\ ev[e] \in Event
      BY <1>1, <1>4, <2>1
    <3> QED
      BY <3>1, <2>5 DEF Event
  <2>7. \A f \in EventIds : /\ ev'[f].stage + Cardinality(Pending(f)') <= 6 + Cardinality(Workers)
                            /\ ev'[f].stage \notin {1, 6} \/ Pending(f)' # {} => ev'[f].cur \in Requests
    <3> SUFFICES ASSUME NEW f \in EventIds
                 PROVE  /\ ev'[f].stage + Cardinality(Pending(f)) <= 6 + Cardinality(Workers)
                        /\ ev'[f].stage \notin {1, 6} \/ Pending(f) # {} => ev'[f].cur \in Requests
      BY <1>3
    <3>1. CASE f = e
      BY <3>1, <2>1, <2>6, <1>5, <1>4, CountedWorkers
    <3>2. CASE f # e
      BY <3>2, <2>5, <1>5
    <3> QED
      BY <3>1, <3>2
  <2>8. \A gd \in FDs : eventMapper'[gd] # None => ev'[eventMapper'[gd]].fd = gd
    BY <1>1, <2>1, <2>5, <2>6 DEF EventTypes
  <2>9. \A f \in Hands' : ev'[f].fd \in FDs
    BY <2>3, <2>4, <2>5, <2>6, <1>1, HandsAreEvents DEF EventTypes
  <2>10. ev' \in [EventIds -> Event]
    BY <1>1, <2>5, <2>6
  <2> QED
    BY <2>7, <2>8, <2>9, <2>10 DEF EventTypes
<1> QED
  BY <1>6, <1>7 DEF Readable

LEMMA LoopStepKeepsEvents ==
    ASSUME TypeInv, Loop
    PROVE  EventTypes'
<1>1. PlaceTypes /\ EventTypes
  BY DEF TypeInv
<1>2. \A e : UNCHANGED worker => Pending(e)' = Pending(e)
  BY DEF Pending
<1>3. CASE Moves
  <2>1. Hands' \subseteq Hands
    BY <1>3, MovesKeepHands
  <2>2. UNCHANGED <<ev, worker, eventMapper>>
    BY <1>3 DEF Moves, Listening, Accept, EpollWait, Served, Dispatched, Swap, HandOver
  <2> QED
    BY <2>1, <2>2, <1>2, EventsAsTheyWere
<1>4. CASE Serve
  <2> DEFINE e == now[pos]
  <2>1. /\ e \in EventIds /\ ev[e].fd \in FDs /\ triggerEvent(e)
        /\ UNCHANGED <<readTasks, now, readReady, pool, worker, eventMapper>>
    BY <1>4, ServedEvent DEF Serve
  <2> HIDE DEF e
  <2>2. /\ ev'[e] \in Event /\ ev' = [ev EXCEPT ![e] = ev'[e]] /\ ev'[e].fd = ev[e].fd
        /\ ev'[e].stage + Cardinality(Pending(e)) <= 6 + Cardinality(Workers)
        /\ ev'[e].stage \notin {1, 6} \/ Pending(e) # {} => ev'[e].cur \in Requests
    BY <2>1, TriggerChangesOne
  <2>3. Hands' = Hands
    BY <2>1 DEF Hands, Working
  <2> QED
    BY <1>2, <2>1, <2>2, <2>3, OneEventChanges
<1>5. ASSUME NEW fd \in FDs, HangUp(fd) \/ Writable(fd) PROVE EventTypes'
  <2>1. UNCHANGED <<readTasks, now, readReady, pool, worker, ev>>
    BY <1>5 DEF HangUp, Writable
  <2>2. \A gd \in FDs : eventMapper'[gd] \in {None, eventMapper[gd]}
    BY <1>1, <1>5 DEF HangUp, Writable, PlaceTypes
  <2>3. Hands' = Hands
    BY <2>1 DEF Hands, Working
  <2> QED
    BY <1>2, <2>1, <2>2, <2>3, EventsAsTheyWere
<1>6. ASSUME NEW fd \in FDs, Readable(fd) PROVE EventTypes'
  BY <1>6, ReadableKeepsEvents
<1> QED
  BY <1>3, <1>4, <1>5, <1>6 DEF Loop, Moves

LEMMA WorkerStepKeepsEvents ==
    ASSUME TypeInv, NEW w \in Workers, WorkerStep(w)
    PROVE  EventTypes'
<1> PICK e : e = worker[w].ev
  OBVIOUS
<1>1. PlaceTypes /\ EventTypes /\ worker \in [Workers -> WorkerRecord] /\ ev \in [EventIds -> Event]
  BY DEF TypeInv, PlaceTypes, EventTypes, WorkerRecord
<1>2. CASE TakeTask(w)
  <2>1. Hands' \subseteq Hands
    BY <1>2, TakeTaskKeepsHands
  <2>2. Head(pool) \in Task /\ worker' = [worker EXCEPT ![w] = Head(pool)]
    BY <1>1, <1>2, PoolShrinks DEF PlaceTypes, TakeTask
  <2>3. \A f \in EventIds : Pending(f)' \subseteq Pending(f)
    BY <2>2, <1>1 DEF Pending, Task
  <2>4. UNCHANGED ev /\ UNCHANGED eventMapper
    BY <1>2 DEF TakeTask, loop
  <2> QED
    BY <2>1, <2>3, <2>4, EventsAsTheyWere
<1>3. CASE Trigger(w)
  <2>1. /\ worker[w].pc = "trigger" /\ triggerEvent(e)
        /\ AfterTrigger({w}, Continues(e)) /\ UNCHANGED <<readTasks, now, pool, eventMapper>>
    BY <1>3 DEF Trigger, At, loop
  <2>2. e \in EventIds /\ ev[e].fd \in FDs
    BY <2>1, <1>1, WorkerHolds DEF EventTypes
  <2>3. {w} \in SUBSET Workers /\ \A v \in {w} : worker[v].pc # "idle"
    BY <2>1
  <2>4. Hands' \subseteq Hands
    BY <2>1, <2>3, <1>1, AfterTriggerKeepsHands
  <2>5. /\ \A v \in Workers \ {w} : worker'[v] = worker[v]
        /\ worker'[w] \in {IdleWorker, [worker[w] EXCEPT !.pc = "trigger"]}
    BY <2>1, <2>3, <1>1, AfterTriggerPlaces
  <2>6. worker'[w].pc \in {"idle", "trigger"}
    <3>1. IdleWorker.pc = "idle" /\ [worker[w] EXCEPT !.pc = "trigger"].pc = "trigger"
      BY <1>1 DEF IdleWorker, WorkerRecord
    <3> QED
      BY <3>1, <2>5
  <2>7. \A f \in EventIds : Pending(f)' \subseteq Pending(f)
    BY <2>5, <2>6 DEF Pending
  <2>8. /\ ev'[e] \in Event /\ ev' = [ev EXCEPT ![e] = ev'[e]] /\ ev'[e].fd = ev[e].fd
        /\ ev'[e].stage + Cardinality(Pending(e)) <= 6 + Cardinality(Workers)
        /\ ev'[e].stage \notin {1, 6} \/ Pending(e) # {} => ev'[e].cur \in Requests
    BY <2>1, <2>2, TriggerChangesOne
  <2>9. Pending(e)' = Pending(e) \/ Pending(e)' \subseteq Pending(e)
    BY <2>2, <2>7
  <2>10. ev'[e].stage + Cardinality(Pending(e)') <= 6 + Cardinality(Workers)
    <3>1. /\ Cardinality(Pending(e)') <= Cardinality(Pending(e))
          /\ Cardinality(Pending(e)') \in Nat /\ Cardinality(Pending(e)) \in Nat
      <4>1. IsFiniteSet(Pending(e)) /\ Pending(e)' \in SUBSET Pending(e)
        BY <2>2, <2>7, CountedWorkers
      <4> QED
        BY <4>1, FS_Subset, FS_CardinalityType
    <3>2. ev'[e].stage \in Nat
      BY <2>8, CountedWorkers DEF Event
    <3> QED
      BY <3>1, <3>2, <2>8, CountedWorkers
  <2>11. ev'[e].stage \notin {1, 6} \/ Pending(e)' # {} => ev'[e].cur \in Requests
    BY <2>8, <2>9
  <2> QED
    BY <2>1, <2>2, <2>4, <2>7, <2>8, <2>10, <2>11, OneEventChanges
<1>4. CASE Write(w)
  <2>1. /\ worker[w].pc = "trigger" /\ ev[e].stage = 5 /\ worker' = [worker EXCEPT ![w].pc = "count"]
        /\ UNCHANGED <<ev, readTasks, now, readReady, pool, eventMapper>>
    BY <1>4 DEF Write, At
  <2>2. e \in EventIds /\ ev[e].fd \in FDs
    BY <2>1, <1>1, WorkerHolds DEF EventTypes
  <2>3. \A v \in Workers : worker'[v].ev = worker[v].ev
    BY <2>1, <1>1 DEF WorkerRecord
  <2>4. Hands' = Hands
    BY <2>1, <2>3 DEF Hands, Working
  <2>5. \A f \in EventIds \ {e} : Pending(f)' \subseteq Pending(f)
    BY <2>1, <2>3, <1>1 DEF Pending
  <2>6. ev[e] \in Event /\ ev' = [ev EXCEPT ![e] = ev[e]] /\ ev[e].cur \in Requests
    BY <1>1, <2>1, <2>2, EventFacts
  <2>7. Pending(e)' \in SUBSET Workers
    BY DEF Pending
  <2>8. ev[e].stage + Cardinality(Pending(e)') <= 6 + Cardinality(Workers)
    <3>1. /\ Cardinality(Pending(e)') <= Cardinality(Workers)
          /\ Cardinality(Pending(e)') \in Nat /\ Cardinality(Workers) \in Nat
      BY <2>7, CountedWorkers, FS_Subset, FS_CardinalityType
    <3> QED
      BY <3>1, <2>1
  <2> QED
    BY <2>1, <2>2, <2>4, <2>5, <2>6, <2>8, OneEventChanges
<1>5. CASE Count(w)
  <2>1. /\ worker[w].pc = "count" /\ worker' = [worker EXCEPT ![w].pc = "bump"]
        /\ ev' = [ev EXCEPT ![e].written = TRUE]
        /\ UNCHANGED <<readTasks, now, readReady, pool, eventMapper>>
    BY <1>5 DEF Count, At, loop
  <2>2. e \in EventIds /\ ev[e].fd \in FDs
    BY <2>1, <1>1, WorkerHolds DEF EventTypes
  <2>3. /\ \A v \in Workers : worker'[v].ev = worker[v].ev
        /\ \A v \in Workers : worker'[v].pc \in {"count", "bump"} <=> worker[v].pc \in {"count", "bump"}
    BY <2>1, <1>1 DEF WorkerRecord
  <2>4. Hands' = Hands
    BY <2>1, <2>3 DEF Hands, Working
  <2>5. \A f \in EventIds : Pending(f)' = Pending(f)
    BY <2>3 DEF Pending
  <2>6. /\ ev'[e] \in Event /\ ev' = [ev EXCEPT ![e] = ev'[e]]
        /\ ev'[e].fd = ev[e].fd /\ ev'[e].stage = ev[e].stage /\ ev'[e].cur = ev[e].cur
    BY <1>1, <2>1, <2>2 DEF Event
  <2>7. /\ ev[e].stage + Cardinality(Pending(e)) <= 6 + Cardinality(Workers)
        /\ ev[e].stage \notin {1, 6} \/ Pending(e) # {} => ev[e].cur \in Requests
    BY <1>1, <2>2 DEF EventTypes
  <2>8. /\ ev'[e].stage + Cardinality(Pending(e)') <= 6 + Cardinality(Workers)
        /\ ev'[e].stage \notin {1, 6} \/ Pending(e)' # {} => ev'[e].cur \in Requests
    BY <2>2, <2>5, <2>6, <2>7
  <2>9. \A f \in EventIds \ {e} : Pending(f)' \subseteq Pending(f)
    BY <2>5
  <2> QED
    BY <2>1, <2>2, <2>4, <2>6, <2>8, <2>9, OneEventChanges
<1>6. CASE BumpStage(w)
  <2>1. PICK W \in SUBSET Workers :
              /\ w \in W /\ \A v \in W : At(v, "bump") /\ worker[v].ev = e
              /\ Bump(e) /\ AfterTrigger(W, TRUE) /\ UNCHANGED <<readTasks, now, pool, eventMapper>>
    BY <1>6 DEF BumpStage, loop
  <2>2. \A v \in W : worker[v].pc = "bump"
    BY <2>1 DEF At
  <2>3. e \in EventIds /\ ev[e].fd \in FDs
    BY <2>1, <2>2, <1>1, WorkerHolds DEF EventTypes
  <2>4. Hands' \subseteq Hands
    BY <2>1, <2>2, <1>1, AfterTriggerKeepsHands
  <2>5. /\ \A v \in Workers \ W : worker'[v] = worker[v]
        /\ \A v \in W : worker'[v] \in {IdleWorker, [worker[v] EXCEPT !.pc = "trigger"]}
    BY <2>1, <2>2, <1>1, AfterTriggerPlaces
  <2>6. \A v \in W : worker'[v].pc \in {"idle", "trigger"}
    <3> SUFFICES ASSUME NEW v \in W PROVE worker'[v].pc \in {"idle", "trigger"}
      OBVIOUS
    <3>1. IdleWorker.pc = "idle" /\ [worker[v] EXCEPT !.pc = "trigger"].pc = "trigger"
      BY <1>1 DEF IdleWorker, WorkerRecord
    <3> QED
      BY <3>1, <2>5
  <2>7. \A f \in EventIds : Pending(f)' \subseteq Pending(f)
    BY <2>5, <2>6 DEF Pending
  <2>8. w \in Pending(e) /\ Pending(e)' \in SUBSET (Pending(e) \ {w})
    BY <2>1, <2>2, <2>3, <2>6, <2>7 DEF Pending
  <2>9. ev'[e] = [ev[e] EXCEPT !.stage = ev[e].stage + 1] /\ ev' = [ev EXCEPT ![e] = ev'[e]]
    BY <1>1, <2>1, <2>3 DEF Bump
  <2>10. /\ Cardinality(Pending(e)') + 1 <= Cardinality(Pending(e))
         /\ Cardinality(Pending(e)') \in Nat /\ Cardinality(Pending(e)) \in Nat
    <3>1. /\ IsFiniteSet(Pending(e)) /\ Cardinality(Pending(e)) \in Nat
          /\ IsFiniteSet(Pending(e) \ {w}) /\ Cardinality(Pending(e) \ {w}) = Cardinality(Pending(e)) - 1
      BY <2>8, CountedWorkers, FS_RemoveElement
    <3>2. /\ Cardinality(Pending(e)') <= Cardinality(Pending(e) \ {w})
          /\ Cardinality(Pending(e)') \in Nat
      BY <3>1, <2>8, FS_Subset, FS_CardinalityType
    <3> QED
      BY <3>1, <3>2
  <2>11. /\ ev[e].stage + Cardinality(Pending(e)) <= 6 + Cardinality(Workers)
         /\ ev[e].cur \in Requests /\ ev[e] \in Event /\ ev[e].stage \in Nat
    BY <1>1, <2>3, <2>8, EventFacts DEF EventTypes
  <2>12. /\ ev[e].stage + 1 \in 1..(6 + Cardinality(Workers))
         /\ ev[e].stage + 1 + Cardinality(Pending(e)') <= 6 + Cardinality(Workers)
    BY <2>10, <2>11, CountedWorkers
  <2>13. /\ ev'[e] \in Event /\ ev'[e].fd = ev[e].fd /\ ev'[e].cur = ev[e].cur
         /\ ev'[e].stage = ev[e].stage + 1
    BY <2>9, <2>11, <2>12 DEF Event
  <2> QED
    BY <2>1, <2>3, <2>4, <2>7, <2>9, <2>11, <2>12, <2>13, OneEventChanges
<1> QED
  BY <1>2, <1>3, <1>4, <1>5, <1>6 DEF WorkerStep

LEMMA ClientStepKeepsRest ==
    ASSUME TypeInv, Clients
    PROVE  PlaceTypes' /\ EventTypes'
<1>1. UNCHANGED <<loop, ev, readReady, pool, worker, executed>>
  BY DEF Clients, Connect, Send, Quit, Reset, Abort
<1>2. Hands' = Hands /\ \A e \in EventIds : Pending(e)' = Pending(e)
  BY <1>1 DEF Hands, Working, Pending, loop
<1>3. PlaceTypes'
  BY <1>1 DEF TypeInv, PlaceTypes, loop
<1>4. UNCHANGED ev /\ UNCHANGED eventMapper
  BY <1>1 DEF loop
<1> QED
  BY <1>2, <1>3, <1>4, EventsAsTheyWere

-----------------------------------------------------------------------------
(* The theorem.                                                               *)

LEMMA InitTypes == Init => TypeInv
<1> SUFFICES ASSUME Init PROVE TypeInv
  OBVIOUS
<1>1. ClientTypes
  BY Emptied, ServerAssumption DEF Init, ClientTypes, PeerState, ServerAssumption
<1>2. PlaceTypes
  BY Emptied DEF Init, PlaceTypes, IdleWorker
<1>3. Hands = {}
  <2>1. Working = {}
    BY DEF Init, Working, IdleWorker
  <2>2. EventsOf(<<>>) = {}
    BY Emptied DEF EventsOf
  <2> QED
    BY <2>1, <2>2, Emptied DEF Init, Hands
<1>4. \A e \in EventIds : Pending(e) = {} /\ Cardinality(Pending(e)) = 0
  <2>1. \A e \in EventIds : Pending(e) = {}
    BY DEF Init, Pending, IdleWorker
  <2> QED
    BY <2>1, FS_EmptySet
<1>5. NewEvent(None) \in Event /\ NewEvent(None).stage = 1
  <2>1. 1 \in 1..(6 + Cardinality(Workers)) /\ <<>> \in Seq(Requests)
    BY Emptied, CountedWorkers
  <2> QED
    BY <2>1 DEF NewEvent, Event
<1>6. EventTypes
  BY <1>3, <1>4, <1>5, CountedWorkers DEF Init, EventTypes
<1> QED
  BY <1>1, <1>2, <1>6 DEF TypeInv

LEMMA NextKeepsTypes == TypeInv /\ [Next]_vars => TypeInv'
<1> SUFFICES ASSUME TypeInv, [Next]_vars PROVE TypeInv'
  OBVIOUS
<1>1. CASE Clients
  BY <1>1, ClientStepKeepsTypes, ClientStepKeepsRest DEF TypeInv
<1>2. CASE Loop
  BY <1>2, LoopStepKeepsClientTypes, LoopStepKeepsPlaces, LoopStepKeepsEvents DEF TypeInv
<1>3. ASSUME NEW w \in Workers, WorkerStep(w) PROVE TypeInv'
  BY <1>3, WorkerStepKeepsClientTypes, WorkerStepKeepsPlaces, WorkerStepKeepsEvents DEF TypeInv
<1>4. CASE UNCHANGED vars
  <2>1. ClientTypes'
    BY <1>4 DEF vars, kernel, TypeInv, ClientTypes
  <2>2. PlaceTypes'
    BY <1>4 DEF vars, loop, TypeInv, PlaceTypes
  <2>3. Hands' = Hands /\ \A e : Pending(e)' = Pending(e)
    BY <1>4 DEF vars, loop, Hands, Working, Pending
  <2>4. UNCHANGED ev /\ UNCHANGED eventMapper
    BY <1>4 DEF vars, loop
  <2> QED
    BY <2>1, <2>2, <2>3, <2>4, EventsAsTheyWere DEF TypeInv
<1> QED
  BY <1>1, <1>2, <1>3, <1>4 DEF Next

LEMMA TypesHold == Spec => []TypeInv
BY InitTypes, NextKeepsTypes, PTL DEF Spec

\* With any clients, descriptors, events and workers, patient clients or not: an
\* open descriptor is one open connection's, a stage is raised at most once for
\* each worker that wrote, and what is executed and answered are requests.
THEOREM TypeCorrect == Spec => []TypeOK
BY TypesHold, TypesGiveTypeOK, PTL
=============================================================================
