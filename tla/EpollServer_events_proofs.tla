---------------------- MODULE EpollServer_events_proofs ----------------------
(* The inductive invariant of EpollServer, and that every step keeps the      *)
(* parts of it that say where the events are, and what epoll has reported and *)
(* will report of those in hand.                                              *)
EXTENDS EpollServer_proofs

\* What the theorems assume: one thread and any clients, or workers and patient
\* clients, who send RESP, one request at a time, and do not come while others
\* leave.  With others the properties fail (epoll_eager, epoll_reuse,
\* epoll_stale_read).
Calm == Workers = {} \/ (~Eager /\ Window = 1 /\ Bad = {})

-----------------------------------------------------------------------------
(* Where the events are.                                                      *)

\* An event is in one list, task or thread only, and there once.
Once ==
    /\ IsInjective(readTasks) /\ IsInjective(now) /\ IsInjective(readReady) /\ EventsOnce(pool)
    /\ \A v, w \in Workers : worker[v].ev = worker[w].ev /\ worker[v].ev # None => v = w
    /\ Range(readTasks) \intersect (Range(now) \union Range(readReady) \union EventsOf(pool) \union Working) = {}
    /\ Range(now) \intersect (Range(readReady) \union EventsOf(pool) \union Working) = {}
    /\ Range(readReady) \intersect (EventsOf(pool) \union Working) = {}
    /\ EventsOf(pool) \intersect Working = {}

\* What the loop thread has in hand, by where it is.
Turn ==
    /\ readTasks # <<>> => MultiThreaded /\ pc \in {"dispatch", "accept"}
    /\ now # <<>> => IF MultiThreaded THEN pc = "core" ELSE pc \in {"dispatch", "dead"}
    /\ batch # {} => pc \in {"dispatch", "accept", "dead"}
    /\ MultiThreaded => pc # "dead"
    /\ ~MultiThreaded => pc \notin {"swap", "core"} /\ Len(now) <= 1 /\ readReady = <<>> /\ pool = <<>>
    /\ pos <= Len(now) + 1

\* The stage of an event, by where it is.
NowStages(i) ==
    IF MultiThreaded THEN (IF i < pos THEN {4, 6} ELSE {3, 6}) ELSE (IF i < pos THEN {1, 6} ELSE 1..6)
WorkerStages(w) ==
    IF worker[w].pc = "trigger" THEN (IF worker[w].kind = "read" THEN {1, 2} ELSE {4, 5, 6}) ELSE {5}

StageOf ==
    /\ \A e \in Range(readTasks) : ev[e].stage = 1
    /\ \A i \in DOMAIN now : ev[now[i]].stage \in NowStages(i)
    /\ \A e \in Range(readReady) : ev[e].stage \in {3, 6}
    /\ \A i \in DOMAIN pool : ev[pool[i].ev].stage \in IF pool[i].kind = "read" THEN {1} ELSE {4, 6}
    /\ \A w \in Workers : worker[w].pc # "idle" =>
          /\ ev[worker[w].ev].stage \in WorkerStages(w)
          /\ worker[w].pc \in {"count", "bump"} => worker[w].kind = "write"
    /\ \A e \in EventIds \ Hands : ev[e].stage \in {1, 6}

\* Written bytes are counted before the last stage only by the worker that is
\* about to raise the stage.
Counted ==
    \A e \in EventIds :
        ev[e].stage < 6 /\ ev[e].written => \E w \in Workers : worker[w].ev = e /\ worker[w].pc = "bump"

Places == Once /\ Turn /\ StageOf /\ Counted

-----------------------------------------------------------------------------
(* What epoll reports of them.                                                *)

In(fd) == <<fd, "in">> \in batch
EdgeIn(fd) == fd \in ready /\ Mask(fd) = "in"

ReadyOpen == \A fd \in ready : fd # ServerFD => sock[fd] # None
OneMask == \A x, y \in batch : x[1] = y[1] => x = y
HungUp == \A fd \in FDs : <<fd, "hup">> \in batch /\ sock[fd] # None => peer[sock[fd]] \in {"rst", "broken"}
HasInput == \A fd \in FDs : In(fd) => sock[fd] # None /\ (inbox[sock[fd]] # <<>> \/ peer[sock[fd]] # "up")

\* Only a worker closes a descriptor that is yet to be dispatched, and then its
\* event waits for the loop thread.
ClosedQueued ==
    \A x \in batch : x[1] \in FDs /\ sock[x[1]] = None => eventMapper[x[1]] \in Range(readReady)

\* A held event is its descriptor's, and not reported again; at the first stage
\* it has something to read.
HeldUnreported == \A e \in Hands : ~In(ev[e].fd)
HeldMapped == \A e \in Hands : sock[ev[e].fd] = None \/ eventMapper[ev[e].fd] = e
HeldHasInput ==
    \A e \in Hands : ev[e].stage = 1 /\ sock[ev[e].fd] # None =>
        inbox[sock[ev[e].fd]] # <<>> \/ peer[sock[ev[e].fd]] # "up"

\* With workers, nor will it be.
NoEdgeWhileHeld ==
    MultiThreaded => /\ \A e \in Hands : ~EdgeIn(ev[e].fd)
                     /\ \A fd \in FDs : In(fd) => ~EdgeIn(fd)

\* In one thread, the event served is the only one of its descriptor in the batch.
ServedUnreported == ~MultiThreaded => \A e \in Range(now) : \A x \in batch : x[1] # ev[e].fd

\* A client that is up with something to read: its edge, its report or its event
\* is on the way.
NoLostEdge ==
    \A fd \in FDs : sock[fd] # None /\ peer[sock[fd]] = "up" /\ inbox[sock[fd]] # <<>> =>
        \/ fd \in ready
        \/ In(fd)
        \/ eventMapper[fd] \in Hands /\ ev[eventMapper[fd]].stage = 1

\* In one thread, an event is left at the first stage only by a read that failed.
LeftUnread == ~MultiThreaded /\ pos = 2 => \A e \in Range(now) : ev[e].stage = 1 => ReadFails(e)

Edges ==
    /\ ReadyOpen /\ OneMask /\ HungUp /\ HasInput /\ ClosedQueued /\ HeldUnreported /\ HeldMapped
    /\ HeldHasInput /\ NoEdgeWhileHeld /\ ServedUnreported /\ NoLostEdge /\ LeftUnread

-----------------------------------------------------------------------------
(* The requests.                                                              *)

Latest(c) == RequestServer!Latest(c)
Owner(e) == ev[e].cur[1]
Number(e) == ev[e].cur[2]

\* e has a request that is read and not executed, or executed and not written.
Taken(e) == ev[e].stage \in {2, 3}
Owes(e) == ev[e].stage \in {4, 5} /\ Pending(e) = {}
Serves(e) == Taken(e) \/ Owes(e)

\* Text that is not RESP; the text that goes before what is in the inbox; all.
Poisoned(text) == text # <<>> /\ Malformed(Head(text))
Text(fd) ==
    IF eventMapper[fd] = None \/ Poisoned(ev[eventMapper[fd]].buf) THEN <<>>
    ELSE ev[eventMapper[fd]].buf
Unread(fd) == Len(Text(fd)) + Len(inbox[sock[fd]])

Counts ==
    \A c \in Conns : Len(wire[c]) <= Latest(c) /\ Latest(c) <= sent[c] /\ sent[c] <= Len(wire[c]) + Window
InboxLast ==
    \A c \in Conns : \A i \in 1..Len(inbox[c]) : inbox[c][i] = <<c, sent[c] - Len(inbox[c]) + i>>
Waiting ==
    \A c \in Conns : phase[c] \in {"new", "backlog"} =>
        /\ Latest(c) = 0 /\ (peer[c] # "rst" => Len(inbox[c]) = sent[c])
        /\ phase[c] = "new" => sent[c] = 0 /\ peer[c] = "up"

\* What is taken comes next, or is the last one again of a client that closed.
TakenNext ==
    \A e \in EventIds : Taken(e) =>
        /\ Owner(e) \in Conns /\ phase[Owner(e)] \in {"open", "dropped"}
        /\ Number(e) = Latest(Owner(e)) + 1 \/ (Number(e) = Latest(Owner(e)) /\ peer[Owner(e)] \in AfterFin)
        /\ Len(wire[Owner(e)]) < Number(e) /\ Number(e) <= sent[Owner(e)]
OwedLatest ==
    \A e \in EventIds : Owes(e) =>
        /\ Owner(e) \in Conns /\ phase[Owner(e)] \in {"open", "dropped"}
        /\ Number(e) = Latest(Owner(e)) /\ Len(wire[Owner(e)]) < Number(e)

\* It is served on its client's own descriptor, and by one event.
OwnDescriptor ==
    \A e \in EventIds : Serves(e) =>
        /\ phase[Owner(e)] = "open" => sock[ev[e].fd] = Owner(e)
        /\ sock[ev[e].fd] # None => sock[ev[e].fd] = Owner(e)
OneServes == \A e, f \in EventIds : Serves(e) /\ Serves(f) /\ Owner(e) = Owner(f) => e = f

\* A client that is up has the answers to all but what its event owes.
UpAnswered ==
    \A fd \in FDs : sock[fd] # None /\ peer[sock[fd]] = "up" =>
        Latest(sock[fd]) = Len(wire[sock[fd]])
                           + IF eventMapper[fd] # None /\ Owes(eventMapper[fd]) THEN 1 ELSE 0

\* The text and the inbox are the last requests sent, from the next to take on,
\* or, of a client that closed, from the last one taken.
TextLast ==
    \A fd \in FDs : sock[fd] # None /\ peer[sock[fd]] # "rst" =>
        /\ \A i \in 1..Len(Text(fd)) : Text(fd)[i] = <<sock[fd], sent[sock[fd]] - Unread(fd) + i>>
        /\ eventMapper[fd] # None /\ Taken(eventMapper[fd]) =>
              \/ Unread(fd) = sent[sock[fd]] - Number(eventMapper[fd])
              \/ /\ peer[sock[fd]] \in AfterFin
                 /\ Unread(fd) = sent[sock[fd]] - Number(eventMapper[fd]) + 1
        /\ ~(eventMapper[fd] # None /\ Taken(eventMapper[fd])) =>
              \/ Unread(fd) = sent[sock[fd]] - Latest(sock[fd])
              \/ /\ peer[sock[fd]] \in AfterFin /\ Len(wire[sock[fd]]) < Latest(sock[fd])
                 /\ Unread(fd) = sent[sock[fd]] - Latest(sock[fd]) + 1

\* The event that a closed descriptor leaves in the mapper is finished, and its
\* text is no request; of one that is not RESP the client was closed on.
ClosedFinished ==
    \A fd \in FDs : sock[fd] = None /\ eventMapper[fd] # None =>
        /\ ev[eventMapper[fd]].stage = 6
        /\ ev[eventMapper[fd]].buf = <<>> \/ Malformed(Head(ev[eventMapper[fd]].buf))
PoisonedDropped == \A e \in EventIds : Poisoned(ev[e].buf) => phase[Head(ev[e].buf)[1]] = "dropped"

\* One request at a time leaves no text behind, except after a close.
NothingBehind ==
    Window = 1 => \A e \in EventIds : ev[e].buf # <<>> /\ ~Malformed(Head(ev[e].buf)) =>
                      peer[Head(ev[e].buf)[1]] \in AfterFin

OpenHasDescriptor == \A c \in Conns : phase[c] = "open" => \E fd \in FDs : sock[fd] = c

\* With workers, clients close only when all is answered and nobody is accepted
\* late.
Patience ==
    MultiThreaded =>
        /\ \A c \in Conns : peer[c] \in {"up", "fin", "rst"}
        /\ \A c \in Conns : peer[c] = "fin" => Len(wire[c]) = sent[c]

Data ==
    /\ Counts /\ InboxLast /\ Waiting /\ TakenNext /\ OwedLatest /\ OwnDescriptor /\ OneServes
    /\ UpAnswered /\ TextLast /\ ClosedFinished /\ PoisonedDropped /\ NothingBehind
    /\ OpenHasDescriptor /\ Patience /\ KeptUnlessPoisoned /\ DiesOfLeaversOnly

\* With workers, while somebody waits for accept nobody leaves, and nobody holds
\* the event of a closed descriptor: accept gives none to a task's last writer.
Arrivals ==
    MultiThreaded /\ backlog # <<>> =>
        /\ \A c \in Conns : phase[c] \in {"backlog", "open"} => peer[c] = "up"
        /\ \A e \in Hands : sock[ev[e].fd] # None

IInv == TypeInv /\ Places /\ Edges /\ Data /\ Arrivals

-----------------------------------------------------------------------------
(* What one call of triggerEvent can do.                                      *)

Touches(e) ==
    /\ ev' \in [EventIds -> Event] /\ \A f \in EventIds \ {e} : ev'[f] = ev[f]
    /\ ev'[e].fd = ev[e].fd
Keeps(e) == ev'[e].buf = ev[e].buf /\ ev'[e].cur = ev[e].cur

ConnOf(e) == sock[ev[e].fd]
TextOf(e) == ev[e].buf \o inbox[ConnOf(e)]

FailsToRead(e) == ev[e].stage = 1 /\ ReadFails(e) /\ UNCHANGED <<kernel, ev, executed>>
Fetches(e) ==
    /\ ev[e].stage = 1 /\ ConnOf(e) \in Conns /\ peer[ConnOf(e)] # "rst"
    /\ TextOf(e) \in Seq(Requests) /\ TextOf(e) # <<>> /\ ~Malformed(Head(TextOf(e)))
    /\ Touches(e) /\ ev'[e].stage = 2 /\ ev'[e].written = ev[e].written
    /\ ev'[e].cur = Head(TextOf(e)) /\ ev'[e].buf = TextKept(ConnOf(e), TextOf(e))
    /\ inbox' = [inbox EXCEPT ![ConnOf(e)] = <<>>]
    /\ UNCHANGED <<phase, peer, wire, sock, ready, executed>>
Refuses(e) ==
    /\ ev[e].stage = 1 /\ ConnOf(e) \in Conns /\ peer[ConnOf(e)] # "rst"
    /\ TextOf(e) \in Seq(Requests) /\ (TextOf(e) # <<>> => Malformed(Head(TextOf(e))))
    /\ Touches(e) /\ ev'[e].stage = 6 /\ ev'[e].written = ev[e].written
    /\ ev'[e].cur = ev[e].cur /\ ev'[e].buf = TextOf(e)
    /\ CloseFD(ev[e].fd)
    /\ UNCHANGED <<peer, wire, executed>>
Bumps(e) ==
    /\ ev[e].stage \in {2, 4} /\ Touches(e) /\ Keeps(e)
    /\ ev'[e].stage = ev[e].stage + 1 /\ ev'[e].written = ev[e].written
    /\ UNCHANGED <<kernel, executed>>
Executes(e) ==
    /\ ev[e].stage = 3 /\ Touches(e) /\ Keeps(e)
    /\ ev'[e].stage = 4 /\ ev'[e].written = ev[e].written
    /\ executed' = Append(executed, ev[e].cur) /\ ev[e].cur \in Requests
    /\ UNCHANGED kernel
Finishes(e) ==
    /\ ev[e].stage = 5 /\ Touches(e) /\ Keeps(e) /\ ev'[e].stage = 6 /\ ev[e].cur \in Requests
    /\ eWrite(e) /\ UNCHANGED executed
Rests(e) == ev[e].stage >= 6 /\ UNCHANGED <<kernel, ev, executed>>

Calls(e) == FailsToRead(e) \/ Fetches(e) \/ Refuses(e) \/ Bumps(e) \/ Executes(e) \/ Finishes(e) \/ Rests(e)

LEMMA CallEffects ==
    ASSUME TypeInv, NEW e \in EventIds, ev[e].fd \in FDs, triggerEvent(e)
    PROVE  Calls(e)
<1>1. /\ ClientTypes /\ EventTypes /\ ev \in [EventIds -> Event]
      /\ ev[e] \in Event /\ ev[e].stage \in Nat /\ ev[e].buf \in Seq(Requests)
      /\ ev[e].stage \notin {1, 6} => ev[e].cur \in Requests
  BY EventFacts DEF TypeInv, EventTypes
<1>2. Touches(e)
  <2>1. ev'[e] \in Event /\ ev' = [ev EXCEPT ![e] = ev'[e]] /\ ev'[e].fd = ev[e].fd
    BY TriggerChangesOne
  <2> QED
    BY <2>1, <1>1 DEF Touches
<1>3. CASE ev[e].stage = 1 /\ eRead(e) /\ UNCHANGED executed
  <2>1. CASE ReadFails(e)
    BY <1>3, <2>1 DEF eRead, FailsToRead, Calls
  <2>2. CASE ~ReadFails(e)
    <3>1. ConnOf(e) \in Conns /\ peer[ConnOf(e)] # "rst" /\ TextOf(e) \in Seq(Requests)
      <4>1. ConnOf(e) \in Conns /\ peer[ConnOf(e)] # "rst"
        BY <2>2, <1>1 DEF ReadFails, ConnOf, ClientTypes
      <4>2. inbox[ConnOf(e)] \in Seq(Requests)
        BY <4>1, <1>1 DEF ClientTypes
      <4> QED
        BY <4>1, <4>2, <1>1, ConcatProperties DEF TextOf
    <3>2. \/ /\ TextOf(e) # <<>> /\ ~Malformed(Head(TextOf(e)))
             /\ ev' = [ev EXCEPT ![e].stage = 2, ![e].cur = Head(TextOf(e)),
                                 ![e].buf = TextKept(ConnOf(e), TextOf(e))]
             /\ inbox' = [inbox EXCEPT ![ConnOf(e)] = <<>>]
             /\ UNCHANGED <<phase, peer, wire, sock, ready>>
          \/ /\ ~(TextOf(e) # <<>> /\ ~Malformed(Head(TextOf(e))))
             /\ ev' = [ev EXCEPT ![e].stage = 6, ![e].buf = TextOf(e)]
             /\ CloseFD(ev[e].fd)
             /\ UNCHANGED <<peer, wire>>
      BY <1>3, <2>2 DEF eRead, ConnOf, TextOf
    <3>3. CASE /\ TextOf(e) # <<>> /\ ~Malformed(Head(TextOf(e)))
               /\ ev' = [ev EXCEPT ![e].stage = 2, ![e].cur = Head(TextOf(e)),
                                   ![e].buf = TextKept(ConnOf(e), TextOf(e))]
               /\ inbox' = [inbox EXCEPT ![ConnOf(e)] = <<>>]
               /\ UNCHANGED <<phase, peer, wire, sock, ready>>
      <4>1. /\ ev'[e].stage = 2 /\ ev'[e].cur = Head(TextOf(e)) /\ ev'[e].written = ev[e].written
            /\ ev'[e].buf = TextKept(ConnOf(e), TextOf(e))
        BY <1>1, <3>3 DEF Event
      <4> QED
        BY <4>1, <3>1, <3>3, <1>2, <1>3 DEF Fetches, Calls
    <3>4. CASE /\ ~(TextOf(e) # <<>> /\ ~Malformed(Head(TextOf(e))))
               /\ ev' = [ev EXCEPT ![e].stage = 6, ![e].buf = TextOf(e)]
               /\ CloseFD(ev[e].fd)
               /\ UNCHANGED <<peer, wire>>
      <4>1. /\ ev'[e].stage = 6 /\ ev'[e].cur = ev[e].cur /\ ev'[e].written = ev[e].written
            /\ ev'[e].buf = TextOf(e)
        BY <1>1, <3>4 DEF Event
      <4> QED
        BY <4>1, <3>1, <3>4, <1>2, <1>3 DEF Refuses, Calls
    <3> QED
      BY <3>2, <3>3, <3>4
  <2> QED
    BY <2>1, <2>2
<1>4. CASE ev[e].stage \in {2, 3, 4} /\ Bump(e)
  <2>1. /\ ev'[e].stage = ev[e].stage + 1 /\ ev'[e].written = ev[e].written /\ Keeps(e)
    BY <1>1, <1>4 DEF Bump, Event, Keeps
  <2>2. CASE ev[e].stage \in {2, 4} /\ UNCHANGED <<kernel, executed>>
    BY <2>1, <2>2, <1>2 DEF Bumps, Calls
  <2>3. CASE ev[e].stage = 3 /\ eDataProcess(e) /\ UNCHANGED kernel
    BY <2>1, <2>3, <1>1, <1>2 DEF eDataProcess, Executes, Calls
  <2> QED
    BY <1>4, <2>2, <2>3, <1>1 DEF triggerEvent
<1>5. CASE ev[e].stage = 5 /\ eWrite(e) /\ CountWritten(e) /\ UNCHANGED executed
  <2>1. ev'[e].stage = 6 /\ Keeps(e)
    BY <1>1, <1>5 DEF CountWritten, Event, Keeps
  <2> QED
    BY <2>1, <1>1, <1>2, <1>5 DEF Finishes, Calls
<1>6. CASE ev[e].stage >= 6 /\ UNCHANGED <<kernel, ev, executed>>
  BY <1>6 DEF Rests, Calls
<1> QED
  BY <1>3, <1>4, <1>5, <1>6 DEF triggerEvent, eDataProcess

\* What one worker does after a call: past reading, it queues the event.
LEMMA AfterTriggerOne ==
    ASSUME PlaceTypes, NEW w \in Workers, worker[w].pc # "idle", NEW more \in BOOLEAN,
           AfterTrigger({w}, more)
    PROVE  LET past == worker[w].kind = "read" /\ PastRead(ev'[worker[w].ev].stage) IN
           /\ worker' = [worker EXCEPT ![w] = IF ~more \/ past THEN IdleWorker
                                              ELSE [worker[w] EXCEPT !.pc = "trigger"]]
           /\ readReady' = IF past THEN Append(readReady, worker[w].ev) ELSE readReady
<1> DEFINE past == worker[w].kind = "read" /\ PastRead(ev'[worker[w].ev].stage)
           ends(v) == ~more \/ (worker[v].kind = "read" /\ PastRead(ev'[worker[v].ev].stage))
           Q == {v \in {w} : ends(v) /\ worker[v].kind = "read" /\ PastRead(ev'[worker[v].ev].stage)}
<1>1. worker' = [v \in Workers |-> IF v \notin {w} THEN worker[v]
                                   ELSE IF ends(v) THEN IdleWorker ELSE [worker[v] EXCEPT !.pc = "trigger"]]
  BY DEF AfterTrigger
<1>2. PICK order \in [1..Cardinality(Q) -> Q] :
            readReady' = readReady \o [i \in DOMAIN order |-> worker[order[i]].ev]
  BY DEF AfterTrigger
<1>3. Q = IF past THEN {w} ELSE {}
  OBVIOUS
<1>4. ends(w) <=> ~more \/ past
  OBVIOUS
<1> HIDE DEF past, ends, Q
<1>5. worker' = [worker EXCEPT ![w] = IF ~more \/ past THEN IdleWorker
                                      ELSE [worker[w] EXCEPT !.pc = "trigger"]]
  BY <1>1, <1>4 DEF PlaceTypes
<1> DEFINE t == [i \in DOMAIN order |-> worker[order[i]].ev]
<1>6. worker[w].ev \in EventIds
  BY WorkerHolds
<1>7. CASE past
  <2>1. Cardinality(Q) = 1 /\ Q = {w}
    BY <1>3, <1>7, FS_Singleton
  <2>2. t \in [1..1 -> EventIds] /\ t[1] = worker[w].ev
    BY <2>1, <1>6
  <2>3. t \in Seq(EventIds) /\ Len(t) = 1
    <3> HIDE DEF t
    <3>1. t \in Seq(EventIds)
      <4>1. \E n \in Nat : t \in [1..n -> EventIds]
        BY <2>2
      <4> QED
        BY <4>1, SeqDef
    <3> QED
      BY <3>1, <2>2, SeqFacts
  <2>4. t = <<worker[w].ev>>
    <3>1. <<worker[w].ev>> \in Seq(EventIds) /\ Len(<<worker[w].ev>>) = 1 /\ <<worker[w].ev>>[1] = worker[w].ev
      BY <1>6
    <3> HIDE DEF t
    <3>2. \A i \in 1..Len(t) : t[i] = <<worker[w].ev>>[i]
      BY <3>1, <2>2, <2>3
    <3> QED
      BY <3>1, <3>2, <2>3, SeqEqual
  <2>5. readReady' = Append(readReady, worker[w].ev)
    <3>1. readReady' = readReady \o <<worker[w].ev>>
      BY <2>4, <1>2
    <3>2. readReady \in Seq(EventIds)
      BY DEF PlaceTypes
    <3> QED
      BY <3>1, <3>2, <1>6, AppendIsConcat
  <2> QED
    BY <2>5, <1>5, <1>7 DEF past
<1>8. CASE ~past
  <2>1. Cardinality(Q) = 0
    BY <1>3, <1>8, FS_EmptySet
  <2>2. t \in [1..0 -> EventIds]
    <3>1. Q = {} /\ order \in [1..0 -> {}]
      BY <2>1, <1>3, <1>8
    <3> QED
      BY <3>1
  <2>3. t \in Seq(EventIds) /\ Len(t) = 0
    <3> HIDE DEF t
    <3>1. t \in Seq(EventIds)
      <4>1. \E n \in Nat : t \in [1..n -> EventIds]
        BY <2>2
      <4> QED
        BY <4>1, SeqDef
    <3> QED
      BY <3>1, <2>2, SeqFacts
  <2>4. t = <<>>
    <3> HIDE DEF t
    <3> QED
      BY <2>3, SeqFacts
  <2>5. readReady' = readReady
    BY <2>4, <1>2, ConcatEmptySeq DEF PlaceTypes
  <2> QED
    BY <2>5, <1>5, <1>8 DEF past
<1> QED
  BY <1>7, <1>8

\* The worker becomes idle; the event is still the same one's.
LEMMA WorkerLeaves ==
    ASSUME PlaceTypes, Once, NEW w \in Workers, worker[w].pc # "idle",
           worker' = [worker EXCEPT ![w] = IdleWorker]
    PROVE  /\ Working' = Working \ {worker[w].ev}
           /\ \A v, x \in Workers : worker'[v].ev = worker'[x].ev /\ worker'[v].ev # None => v = x
<1>1. worker'[w] = IdleWorker /\ IdleWorker.ev = None /\ \A v \in Workers \ {w} : worker'[v] = worker[v]
  BY DEF PlaceTypes, IdleWorker
<1>2. worker[w].ev # None /\ \A v \in Workers \ {w} : worker[v].ev # worker[w].ev
  BY DEF Once, PlaceTypes
<1>3. \A v \in Workers : worker'[v].ev = IF v = w THEN None ELSE worker[v].ev
  BY <1>1
<1>4. Working' = Working \ {worker[w].ev}
  <2>1. \A x : x \in Working' <=> (x # None /\ \E v \in Workers : worker'[v].ev = x)
    BY DEF Working
  <2>2. \A x : x \in Working <=> (x # None /\ \E v \in Workers : worker[v].ev = x)
    BY DEF Working
  <2> QED
    BY <2>1, <2>2, <1>2, <1>3
<1> QED
  BY <1>3, <1>4 DEF Once

\* The worker goes on with its event.
LEMMA WorkerStays ==
    ASSUME PlaceTypes, NEW w \in Workers, NEW p, worker' = [worker EXCEPT ![w] = [worker[w] EXCEPT !.pc = p]]
    PROVE  /\ \A v \in Workers : worker'[v].ev = worker[v].ev /\ worker'[v].kind = worker[v].kind
           /\ worker'[w].pc = p /\ \A v \in Workers \ {w} : worker'[v] = worker[v]
           /\ Working' = Working
<1>1. /\ \A v \in Workers : worker'[v].ev = worker[v].ev /\ worker'[v].kind = worker[v].kind
      /\ worker'[w].pc = p /\ \A v \in Workers \ {w} : worker'[v] = worker[v]
  BY DEF PlaceTypes
<1> QED
  BY <1>1 DEF Working

-----------------------------------------------------------------------------
(* Every step keeps the events in their places.                               *)

\* In one thread only the event being served is in hand.
LEMMA SingleHands ==
    ASSUME PlaceTypes, Turn, ~MultiThreaded
    PROVE  Workers = {} /\ Hands = Range(now) /\ readTasks = <<>>
<1>1. Workers = {} /\ readTasks = <<>> /\ readReady = <<>> /\ pool = <<>>
  BY DEF Turn, MultiThreaded
<1>2. Working = {} /\ EventsOf(pool) = {}
  BY <1>1, Emptied DEF Working, EventsOf
<1> QED
  BY <1>1, <1>2, Emptied DEF Hands

\* Steps that touch no event and no list.
LEMMA SamePlaces ==
    ASSUME IInv, UNCHANGED <<readTasks, now, pos, readReady, pool, worker, ev>>, Turn'
    PROVE  Places' /\ Hands' = Hands /\ \A e : Pending(e)' = Pending(e)
<1>1. Once /\ StageOf /\ Counted
  BY DEF IInv, Places
<1>2. Once' /\ Counted'
  BY <1>1 DEF Once, Counted, Working
<1>3. Hands' = Hands /\ \A e : Pending(e)' = Pending(e)
  BY DEF Hands, Working, Pending
<1>4. StageOf'
  BY <1>1, <1>3 DEF StageOf, NowStages, WorkerStages, MultiThreaded
<1> QED
  BY <1>2, <1>3, <1>4 DEF Places

LEMMA ClientPlaces ==
    ASSUME IInv, Clients
    PROVE  Places' /\ Hands' = Hands /\ \A e : Pending(e)' = Pending(e)
<1>1. UNCHANGED <<loop, ev, readReady, pool, worker>>
  BY DEF Clients, Connect, Send, Quit, Reset, Abort
<1>2. Turn'
  BY <1>1 DEF IInv, Places, Turn, loop, MultiThreaded
<1> QED
  BY <1>1, <1>2, SamePlaces DEF loop

LEMMA ReportPlaces ==
    ASSUME IInv, EpollWait \/ Listening \/ Accept \/ \E fd \in FDs : HangUp(fd) \/ Writable(fd)
    PROVE  Places' /\ Hands' = Hands /\ \A e : Pending(e)' = Pending(e)
<1>1. UNCHANGED <<readTasks, now, pos, readReady, pool, worker, ev>>
  BY DEF EpollWait, Listening, Accept, HangUp, Writable
<1>2. Turn
  BY DEF IInv, Places
<1>3. Turn'
  <2>1. CASE EpollWait
    <3>1. pc = "wait" /\ pc' = "dispatch"
      BY <2>1 DEF EpollWait
    <3> QED
      BY <1>1, <1>2, <3>1 DEF Turn, MultiThreaded
  <2>2. CASE Listening
    <3>1. pc = "dispatch" /\ pc' = "accept" /\ batch' \subseteq batch /\ now = <<>>
      BY <2>2 DEF Listening
    <3> QED
      BY <1>1, <1>2, <3>1 DEF Turn, MultiThreaded
  <2>3. CASE Accept
    <3>1. pc = "accept" /\ pc' \in {"accept", "dispatch"} /\ batch' = batch
      BY <2>3 DEF Accept
    <3> QED
      BY <1>1, <1>2, <3>1 DEF Turn, MultiThreaded
  <2>4. ASSUME NEW fd \in FDs, HangUp(fd) \/ Writable(fd) PROVE Turn'
    <3>1. pc = "dispatch" /\ pc' = pc /\ batch' \subseteq batch /\ now = <<>>
      BY <2>4 DEF HangUp, Writable
    <3> QED
      BY <1>1, <1>2, <3>1 DEF Turn, MultiThreaded
  <2> QED
    BY <2>1, <2>2, <2>3, <2>4
<1> QED
  BY <1>1, <1>3, SamePlaces

LEMMA ServedPlaces ==
    ASSUME IInv, Served
    PROVE  Places' /\ ~MultiThreaded /\ Hands' = {} /\ \A e : Pending(e)' = Pending(e)
<1>1. /\ Turn /\ Once /\ StageOf /\ Counted /\ PlaceTypes /\ pc = "dispatch" /\ now # <<>>
      /\ pos > Len(now) /\ now' = <<>> /\ pos' = 1
      /\ UNCHANGED <<pc, batch, readTasks, ev, readReady, pool, worker>>
  BY DEF IInv, Places, TypeInv, Served
<1>2. ~MultiThreaded /\ Workers = {} /\ Hands = Range(now)
  <2>1. ~MultiThreaded
    BY <1>1 DEF Turn
  <2> QED
    BY <2>1, <1>1, SingleHands
<1>3. Range(now') = {} /\ IsInjective(now') /\ Len(now') = 0 /\ DOMAIN now' = {}
  BY <1>1, Emptied
<1>4. Once'
  BY <1>1, <1>3 DEF Once, Working
<1>5. Turn'
  BY <1>1, <1>2, <1>3 DEF Turn, MultiThreaded
<1>6. Hands' = {}
  BY <1>1, <1>2, <1>3, SingleHands DEF Hands, Working, Turn, EventsOf
<1>7. \A e \in EventIds : ev[e].stage \in {1, 6}
  <2> SUFFICES ASSUME NEW e \in EventIds PROVE ev[e].stage \in {1, 6}
    OBVIOUS
  <2>1. CASE e \in Range(now)
    <3>1. PICK i \in 1..Len(now) : now[i] = e
      BY <1>1, <2>1, SeqFacts DEF PlaceTypes
    <3>2. i < pos /\ i \in DOMAIN now
      BY <1>1, <3>1, SeqFacts DEF PlaceTypes
    <3> QED
      BY <3>1, <3>2, <1>1, <1>2 DEF StageOf, NowStages
  <2>2. CASE e \notin Range(now)
    BY <2>2, <1>1, <1>2 DEF StageOf
  <2> QED
    BY <2>1, <2>2
<1>8. StageOf'
  BY <1>1, <1>2, <1>3, <1>7 DEF StageOf, WorkerStages, NowStages, Turn
<1>9. Counted' /\ \A e : Pending(e)' = Pending(e)
  BY <1>1 DEF Counted, Pending
<1> QED
  BY <1>2, <1>4, <1>5, <1>6, <1>8, <1>9 DEF Places

\* The loop thread hands over its read tasks, takes the events that are read, and
\* hands over the write tasks.
LEMMA DispatchedPlaces ==
    ASSUME IInv, Dispatched
    PROVE  Places' /\ Hands' = Hands /\ \A e : Pending(e)' = Pending(e)
<1>1. /\ Turn /\ Once /\ StageOf /\ Counted /\ PlaceTypes /\ pc = "dispatch" /\ now = <<>> /\ batch = {}
      /\ pc' = IF MultiThreaded THEN "swap" ELSE "wait"
      /\ pool' = pool \o TasksOf("read", readTasks) /\ readTasks' = <<>>
      /\ UNCHANGED <<batch, now, pos, ev, readReady, worker>>
  BY DEF IInv, Places, TypeInv, Dispatched, TasksOf, TaskOf
<1>2. pool \in Seq(Task) /\ readTasks \in Seq(EventIds)
  BY <1>1 DEF PlaceTypes
<1>3. /\ \A i \in DOMAIN pool' : \/ i \in DOMAIN pool /\ pool'[i] = pool[i]
                                 \/ \E j \in DOMAIN readTasks : pool'[i] = TaskOf("read", readTasks[j])
      /\ EventsOf(pool') = EventsOf(pool) \union Range(readTasks)
      /\ EventsOnce(pool) /\ IsInjective(readTasks) /\ EventsOf(pool) \intersect Range(readTasks) = {}
         => EventsOnce(pool')
  BY <1>1, <1>2, PoolGrows
<1>4. Range(readTasks') = {} /\ IsInjective(readTasks')
  BY <1>1, Emptied
<1>5. Working' = Working /\ \A e : Pending(e)' = Pending(e)
  BY <1>1 DEF Working, Pending
<1>6. Hands' = Hands
  BY <1>1, <1>3, <1>4, <1>5 DEF Hands
<1>7. Once'
  <2>1. EventsOnce(pool')
    BY <1>1, <1>3 DEF Once
  <2>2. /\ IsInjective(readTasks') /\ IsInjective(now') /\ IsInjective(readReady')
        /\ \A v, w \in Workers : worker'[v].ev = worker'[w].ev /\ worker'[v].ev # None => v = w
    BY <1>1, <1>4 DEF Once
  <2>3. /\ Range(readTasks') \intersect (Range(now') \union Range(readReady') \union EventsOf(pool') \union Working') = {}
        /\ Range(now') \intersect (Range(readReady') \union EventsOf(pool') \union Working') = {}
        /\ Range(readReady') \intersect (EventsOf(pool') \union Working') = {}
        /\ EventsOf(pool') \intersect Working' = {}
    BY <1>1, <1>3, <1>4, <1>5 DEF Once
  <2> QED
    BY <2>1, <2>2, <2>3 DEF Once
<1>8. Turn'
  <2>1. ~MultiThreaded => pool' = <<>>
    <3> SUFFICES ASSUME ~MultiThreaded PROVE pool' = <<>>
      OBVIOUS
    <3>1. readTasks = <<>> /\ pool = <<>>
      BY <1>1 DEF Turn
    <3>2. Len(pool') = 0 /\ pool' \in Seq(Task)
      <4>1. TasksOf("read", readTasks) \in Seq(Task) /\ Len(TasksOf("read", readTasks)) = Len(readTasks)
        BY <1>2, TasksAreTasks
      <4>2. Len(readTasks) = 0 /\ Len(pool) = 0
        BY <3>1
      <4> HIDE DEF TasksOf
      <4> QED
        BY <4>1, <4>2, <1>1, <1>2, RangeConcat
    <3> QED
      BY <3>2, SeqFacts
  <2> QED
    BY <1>1, <2>1, Emptied DEF Turn, MultiThreaded
<1>9. StageOf'
  <2>1. \A i \in DOMAIN pool' : ev'[pool'[i].ev].stage \in IF pool'[i].kind = "read" THEN {1} ELSE {4, 6}
    <3> SUFFICES ASSUME NEW i \in DOMAIN pool'
                 PROVE  ev[pool'[i].ev].stage \in IF pool'[i].kind = "read" THEN {1} ELSE {4, 6}
      BY <1>1
    <3>1. CASE i \in DOMAIN pool /\ pool'[i] = pool[i]
      BY <3>1, <1>1 DEF StageOf
    <3>2. ASSUME NEW j \in DOMAIN readTasks, pool'[i] = TaskOf("read", readTasks[j])
          PROVE  ev[pool'[i].ev].stage \in IF pool'[i].kind = "read" THEN {1} ELSE {4, 6}
      <4>1. pool'[i].kind = "read" /\ pool'[i].ev = readTasks[j]
        BY <3>2 DEF TaskOf
      <4>2. readTasks[j] \in Range(readTasks)
        BY <1>2, SeqFacts
      <4>3. ev[readTasks[j]].stage = 1
        BY <4>2, <1>1 DEF StageOf
      <4> QED
        BY <4>1, <4>3
    <3> QED
      BY <3>1, <3>2, <1>3
  <2> QED
    BY <2>1, <1>1, <1>4, <1>6 DEF StageOf, NowStages, WorkerStages, MultiThreaded
<1>10. Counted'
  BY <1>1 DEF Counted
<1> QED
  BY <1>5, <1>6, <1>7, <1>8, <1>9, <1>10 DEF Places

LEMMA SwapPlaces ==
    ASSUME IInv, Swap
    PROVE  Places' /\ Hands' = Hands /\ MultiThreaded /\ batch = {} /\ \A e : Pending(e)' = Pending(e)
<1>1. /\ Turn /\ Once /\ StageOf /\ Counted /\ PlaceTypes /\ pc = "swap"
      /\ now' = readReady /\ pos' = 1 /\ readReady' = <<>> /\ pc' = "core"
      /\ UNCHANGED <<batch, readTasks, ev, pool, worker>>
  BY DEF IInv, Places, TypeInv, Swap
<1>2. MultiThreaded /\ now = <<>> /\ batch = {} /\ readTasks = <<>>
  BY <1>1 DEF Turn
<1>3. Range(now) = {} /\ Range(readReady') = {} /\ IsInjective(readReady') /\ Len(readReady) \in Nat
      /\ readReady \in Seq(EventIds)
  BY <1>1, <1>2, Emptied, SeqFacts DEF PlaceTypes
<1>4. Working' = Working /\ \A e : Pending(e)' = Pending(e)
  BY <1>1 DEF Working, Pending
<1>5. Hands' = Hands
  BY <1>1, <1>3, <1>4 DEF Hands
<1>6. Once'
  BY <1>1, <1>3, <1>4 DEF Once
<1>7. Turn'
  BY <1>1, <1>2, <1>3 DEF Turn, MultiThreaded
<1>8. StageOf'
  <2>1. \A i \in DOMAIN now' : ev'[now'[i]].stage \in NowStages(i)'
    <3> SUFFICES ASSUME NEW i \in DOMAIN readReady PROVE ev[readReady[i]].stage \in NowStages(i)'
      BY <1>1
    <3>1. i \in Nat /\ i >= 1 /\ readReady[i] \in Range(readReady)
      BY <1>3, SeqFacts
    <3>2. ev[readReady[i]].stage \in {3, 6}
      BY <3>1, <1>1 DEF StageOf
    <3>3. NowStages(i)' = {3, 6}
      BY <3>1, <1>1, <1>2 DEF NowStages, MultiThreaded
    <3> QED
      BY <3>2, <3>3
  <2> QED
    BY <2>1, <1>1, <1>3, <1>5 DEF StageOf, WorkerStages, MultiThreaded
<1>9. Counted'
  BY <1>1 DEF Counted
<1> QED
  BY <1>2, <1>4, <1>5, <1>6, <1>7, <1>8, <1>9 DEF Places

LEMMA HandOverPlaces ==
    ASSUME IInv, HandOver
    PROVE  Places' /\ Hands' = Hands /\ MultiThreaded /\ batch = {} /\ \A e : Pending(e)' = Pending(e)
<1>1. /\ Turn /\ Once /\ StageOf /\ Counted /\ PlaceTypes /\ pc = "core" /\ pos > Len(now)
      /\ pool' = pool \o TasksOf("write", now) /\ now' = <<>> /\ pos' = 1 /\ pc' = "wait"
      /\ UNCHANGED <<batch, readTasks, ev, readReady, worker>>
  BY DEF IInv, Places, TypeInv, HandOver, TasksOf, TaskOf
<1>2. /\ pool \in Seq(Task) /\ now \in Seq(EventIds) /\ MultiThreaded /\ readTasks = <<>> /\ batch = {}
      /\ pos \in Nat
  BY <1>1 DEF PlaceTypes, Turn
<1>3. /\ \A i \in DOMAIN pool' : \/ i \in DOMAIN pool /\ pool'[i] = pool[i]
                                 \/ \E j \in DOMAIN now : pool'[i] = TaskOf("write", now[j])
      /\ EventsOf(pool') = EventsOf(pool) \union Range(now)
      /\ EventsOnce(pool) /\ IsInjective(now) /\ EventsOf(pool) \intersect Range(now) = {}
         => EventsOnce(pool')
  BY <1>1, <1>2, PoolGrows
<1>4. Range(now') = {} /\ IsInjective(now') /\ DOMAIN now' = {}
  BY <1>1, Emptied
<1>5. Working' = Working /\ \A e : Pending(e)' = Pending(e)
  BY <1>1 DEF Working, Pending
<1>6. Hands' = Hands
  BY <1>1, <1>3, <1>4, <1>5 DEF Hands
<1>7. Once'
  <2>1. EventsOnce(pool')
    BY <1>1, <1>3 DEF Once
  <2>2. /\ IsInjective(readTasks') /\ IsInjective(now') /\ IsInjective(readReady')
        /\ \A v, w \in Workers : worker'[v].ev = worker'[w].ev /\ worker'[v].ev # None => v = w
    BY <1>1, <1>4 DEF Once
  <2>3. /\ Range(readTasks') \intersect (Range(now') \union Range(readReady') \union EventsOf(pool') \union Working') = {}
        /\ Range(now') \intersect (Range(readReady') \union EventsOf(pool') \union Working') = {}
        /\ Range(readReady') \intersect (EventsOf(pool') \union Working') = {}
        /\ EventsOf(pool') \intersect Working' = {}
    BY <1>1, <1>3, <1>4, <1>5 DEF Once
  <2> QED
    BY <2>1, <2>2, <2>3 DEF Once
<1>8. Turn'
  BY <1>1, <1>2, Emptied DEF Turn, MultiThreaded
<1>9. StageOf'
  <2>1. \A i \in DOMAIN pool' : ev'[pool'[i].ev].stage \in IF pool'[i].kind = "read" THEN {1} ELSE {4, 6}
    <3> SUFFICES ASSUME NEW i \in DOMAIN pool'
                 PROVE  ev[pool'[i].ev].stage \in IF pool'[i].kind = "read" THEN {1} ELSE {4, 6}
      BY <1>1
    <3>1. CASE i \in DOMAIN pool /\ pool'[i] = pool[i]
      BY <3>1, <1>1 DEF StageOf
    <3>2. ASSUME NEW j \in DOMAIN now, pool'[i] = TaskOf("write", now[j])
          PROVE  ev[pool'[i].ev].stage \in IF pool'[i].kind = "read" THEN {1} ELSE {4, 6}
      <4>1. pool'[i].kind = "write" /\ pool'[i].ev = now[j]
        BY <3>2 DEF TaskOf
      <4>2. j \in 1..Len(now) /\ j < pos
        BY <1>1, <1>2, SeqFacts
      <4>3. ev[now[j]].stage \in {4, 6}
        BY <4>2, <1>1, <1>2 DEF StageOf, NowStages
      <4> QED
        BY <4>1, <4>3
    <3> QED
      BY <3>1, <3>2, <1>3
  <2> QED
    BY <2>1, <1>1, <1>4, <1>6 DEF StageOf, WorkerStages
<1>10. Counted'
  BY <1>1 DEF Counted
<1> QED
  BY <1>2, <1>5, <1>6, <1>7, <1>8, <1>9, <1>10 DEF Places

\* A readable descriptor's event, found or made, is in no hand, and starts over.
Starts(fd, e) ==
    /\ e \in EventIds \ Hands /\ In(fd) /\ batch' = batch \ {<<fd, "in">>}
    /\ Hands' = Hands \union {e}
    /\ eventMapper' = [eventMapper EXCEPT ![fd] = e]
    /\ ev' \in [EventIds -> Event] /\ \A f \in EventIds \ {e} : ev'[f] = ev[f]
    /\ ev[e].stage \in {1, 6} /\ ev'[e].fd = fd /\ ev'[e].stage = 1 /\ ~ev'[e].written
    /\ \/ /\ eventMapper[fd] = None /\ \A gd \in FDs : eventMapper[gd] # e
          /\ ev'[e].buf = <<>>
       \/ eventMapper[fd] = e /\ ev'[e].buf = ev[e].buf /\ ev'[e].cur = ev[e].cur
    /\ UNCHANGED <<sent, backlog, kernel, pc, readReady, pool, worker, executed>>

LEMMA ReadableStarts ==
    ASSUME IInv, NEW fd \in FDs, Readable(fd)
    PROVE  \E e \in EventIds : Starts(fd, e) /\ Target(e)
<1>1. /\ PlaceTypes /\ EventTypes /\ Turn /\ Once /\ StageOf /\ Counted /\ HeldUnreported
      /\ ev \in [EventIds -> Event] /\ eventMapper \in [FDs -> EventIds \union {None}]
  BY DEF IInv, TypeInv, Places, Edges, EventTypes, PlaceTypes
<1>2. /\ now = <<>> /\ UNCHANGED <<sent, backlog, kernel, pc, readReady, pool, worker, executed>>
      /\ In(fd) /\ batch' = batch \ {<<fd, "in">>}
  BY DEF Readable, In
<1>3. ev' \in [EventIds -> Event]
  BY ReadableKeepsEvents DEF IInv, EventTypes
<1>4. CASE /\ eventMapper[fd] = None /\ EventIds \ Held # {} /\ Target(FreshEvent)
           /\ eventMapper' = [eventMapper EXCEPT ![fd] = FreshEvent]
           /\ ev' = [ev EXCEPT ![FreshEvent] = NewEvent(fd)]
  <2> DEFINE e == FreshEvent
  <2>1. e \in EventIds /\ e \notin Held
    BY <1>4, FreshIsFree
  <2> HIDE DEF e
  <2>2. Hands' = Hands \union {e} /\ Target(e)
    BY <1>1, <1>2, <1>4, <2>1, TargetKeepsHands DEF e
  <2>3. eventMapper' = [eventMapper EXCEPT ![fd] = e] /\ ev' = [ev EXCEPT ![e] = NewEvent(fd)]
    BY <1>4 DEF e
  <2>4. \A gd \in FDs : eventMapper[gd] # e
    BY <1>1, <2>1, HandsAreHeld
  <2>5. e \notin Hands
    BY <2>1, HandsAreHeld
  <2>6. ev'[e] = NewEvent(fd) /\ \A f \in EventIds \ {e} : ev'[f] = ev[f]
    BY <1>1, <2>1, <2>3
  <2>7. ev[e].stage \in {1, 6}
    BY <1>1, <2>1, <2>5 DEF StageOf
  <2>8. /\ NewEvent(fd).fd = fd /\ NewEvent(fd).stage = 1 /\ ~NewEvent(fd).written
        /\ NewEvent(fd).buf = <<>>
    BY DEF NewEvent
  <2> QED
    BY <1>2, <1>3, <1>4, <2>1, <2>2, <2>3, <2>4, <2>5, <2>6, <2>7, <2>8 DEF Starts
<1>5. CASE LET e == eventMapper[fd] IN
           /\ e # None /\ Target(e) /\ UNCHANGED eventMapper
           /\ ev' = [ev EXCEPT ![e] = IF ev[e].stage = 6 THEN setToFirstStage(@) ELSE @]
  <2> DEFINE e == eventMapper[fd]
  <2>1. e \in EventIds /\ UNCHANGED eventMapper /\ Target(e) /\ eventMapper[fd] = e
    BY <1>1, <1>5
  <2>2. ev' = [ev EXCEPT ![e] = IF ev[e].stage = 6 THEN setToFirstStage(@) ELSE @]
    BY <1>5
  <2>3. ev[e].fd = fd
    BY <2>1, <1>1, ServerAssumption DEF EventTypes, ServerAssumption
  <2> HIDE DEF e
  <2>4. Hands' = Hands \union {e}
    BY <1>1, <1>2, <2>1, TargetKeepsHands
  <2>5. /\ \A f \in EventIds \ {e} : ev'[f] = ev[f]
        /\ ev'[e] = IF ev[e].stage = 6 THEN [ev[e] EXCEPT !.stage = 1, !.written = FALSE] ELSE ev[e]
    BY <1>1, <2>1, <2>2 DEF setToFirstStage
  <2>6. e \notin Hands
    BY <1>1, <1>2, <2>3 DEF HeldUnreported
  <2>7. ev[e].stage \in {1, 6}
    BY <1>1, <2>1, <2>6 DEF StageOf
  <2>8. ev[e].stage = 1 => ~ev[e].written
    <3> SUFFICES ASSUME ev[e].stage = 1, ev[e].written PROVE FALSE
      OBVIOUS
    <3>1. PICK w \in Workers : worker[w].ev = e /\ worker[w].pc = "bump"
      BY <1>1, <2>1 DEF Counted
    <3> QED
      BY <3>1, <1>1, <2>6, WorkerHolds
  <2>9. /\ ev'[e].fd = fd /\ ev'[e].stage = 1 /\ ~ev'[e].written
        /\ ev'[e].buf = ev[e].buf /\ ev'[e].cur = ev[e].cur
    <3>1. ev[e] \in Event
      BY <1>1, <2>1
    <3>2. CASE ev[e].stage = 6
      BY <3>1, <3>2, <2>3, <2>5 DEF Event
    <3>3. CASE ev[e].stage # 6
      BY <3>3, <2>3, <2>5, <2>7, <2>8
    <3> QED
      BY <3>2, <3>3
  <2>10. eventMapper' = [eventMapper EXCEPT ![fd] = e]
    BY <1>1, <2>1
  <2> QED
    BY <1>2, <1>3, <2>1, <2>4, <2>5, <2>6, <2>7, <2>9, <2>10 DEF Starts
<1> QED
  BY <1>4, <1>5 DEF Readable

LEMMA ReadablePlaces ==
    ASSUME IInv, NEW fd \in FDs, Readable(fd)
    PROVE  Places' /\ (\E e \in EventIds : Starts(fd, e)) /\ \A e : Pending(e)' = Pending(e)
<1>1. PICK e \in EventIds : Starts(fd, e) /\ Target(e)
  BY ReadableStarts
<1>2. /\ PlaceTypes /\ Turn /\ Once /\ StageOf /\ Counted /\ now = <<>> /\ pc = "dispatch"
  BY DEF IInv, TypeInv, Places, Readable
<1>3. /\ e \notin Hands /\ Hands' = Hands \union {e} /\ batch' \subseteq batch
      /\ \A f \in EventIds \ {e} : ev'[f] = ev[f] /\ ev'[e].stage = 1 /\ ~ev'[e].written
      /\ ev'[e].stage = 1 /\ ~ev'[e].written
      /\ UNCHANGED <<pc, readReady, pool, worker>>
  BY <1>1 DEF Starts
<1>4. Working' = Working /\ \A f : Pending(f)' = Pending(f)
  BY <1>3 DEF Working, Pending
<1>5. Counted'
  BY <1>2, <1>3 DEF Counted
<1>6. /\ \A f \in Hands : f \in EventIds /\ ev'[f] = ev[f]
      /\ \A f \in Range(readTasks) \union Range(readReady) \union EventsOf(pool) \union Working : f \in Hands
  BY <1>2, <1>3, HandsAreEvents DEF Hands
<1>7. /\ \A f \in Range(readReady) : ev'[f].stage \in {3, 6}
      /\ \A i \in DOMAIN pool : ev'[pool[i].ev].stage \in IF pool[i].kind = "read" THEN {1} ELSE {4, 6}
      /\ \A w \in Workers : worker[w].pc # "idle" =>
          /\ ev'[worker[w].ev].stage \in WorkerStages(w)
          /\ worker[w].pc \in {"count", "bump"} => worker[w].kind = "write"
      /\ \A f \in EventIds \ Hands' : ev'[f].stage \in {1, 6}
  <2>1. \A i \in DOMAIN pool : pool[i].ev \in EventsOf(pool)
    BY DEF EventsOf
  <2>2. \A w \in Workers : worker[w].pc # "idle" => worker[w].ev \in Working
    BY <1>2, WorkerHolds
  <2> QED
    BY <2>1, <2>2, <1>2, <1>3, <1>6 DEF StageOf
<1>8. CASE MultiThreaded
  <2>1. readTasks' = Append(readTasks, e) /\ UNCHANGED <<now, pos>>
    BY <1>1, <1>8 DEF Target
  <2>2. /\ readTasks \in Seq(EventIds) /\ e \notin Range(readTasks)
    BY <1>2, <1>3 DEF PlaceTypes, Hands
  <2>3. Range(readTasks') = Range(readTasks) \union {e} /\ IsInjective(readTasks')
    BY <2>1, <2>2, <1>2, RangeAppend DEF Once
  <2>4. Once'
    <3>1. e \notin Range(now) \union Range(readReady) \union EventsOf(pool) \union Working
      BY <1>3 DEF Hands
    <3> QED
      BY <3>1, <2>1, <2>3, <1>2, <1>3, <1>4 DEF Once
  <2>5. Turn'
    BY <2>1, <1>2, <1>3, <1>8, Emptied DEF Turn, MultiThreaded
  <2>6. StageOf'
    <3>1. \A f \in Range(readTasks') : ev'[f].stage = 1
      BY <2>3, <1>2, <1>3, <1>6 DEF StageOf
    <3>2. DOMAIN now' = {}
      BY <1>2, <2>1, Emptied
    <3> QED
      BY <3>1, <3>2, <1>3, <1>7 DEF StageOf, WorkerStages
  <2> QED
    BY <2>4, <2>5, <2>6, <1>1, <1>4, <1>5 DEF Places
<1>9. CASE ~MultiThreaded
  <2>1. now' = <<e>> /\ pos' = 1 /\ UNCHANGED readTasks
    BY <1>1, <1>9 DEF Target
  <2>2. Workers = {} /\ Hands = {} /\ readTasks = <<>> /\ Range(now) = {}
    <3>1. Workers = {} /\ Hands = Range(now) /\ readTasks = <<>>
      BY <1>2, <1>9, SingleHands
    <3> QED
      BY <3>1, <1>2, Emptied
  <2>3. /\ now' \in Seq(EventIds) /\ Len(now') = 1 /\ DOMAIN now' = {1} /\ now'[1] = e
        /\ Range(now') = {e} /\ IsInjective(now')
    <3>1. now' = Append(<<>>, e) /\ <<>> \in Seq(EventIds)
      BY <2>1
    <3>2. /\ now' \in Seq(EventIds) /\ Len(now') = Len(<<>>) + 1
          /\ Range(now') = Range(<<>>) \union {e} /\ IsInjective(now')
      BY <3>1, Emptied, RangeAppend
    <3>3. Len(now') = 1 /\ Range(now') = {e} /\ DOMAIN now' = 1..1
      BY <3>2, Emptied, SeqFacts
    <3> QED
      BY <3>2, <3>3, <2>1
  <2>4. Once'
    <3>1. EventsOf(pool) = {} /\ Working = {} /\ Range(readReady) = {}
      BY <2>2 DEF Hands
    <3> QED
      BY <3>1, <2>1, <2>2, <2>3, <1>2, <1>3, <1>4 DEF Once
  <2>5. Turn'
    BY <2>1, <2>2, <2>3, <1>2, <1>3, <1>9 DEF Turn, MultiThreaded
  <2>6. StageOf'
    <3>1. \A i \in DOMAIN now' : ev'[now'[i]].stage \in NowStages(i)'
      BY <2>1, <2>3, <1>3, <1>9 DEF NowStages, MultiThreaded
    <3>2. Range(readTasks') = {}
      BY <2>1, <2>2, Emptied
    <3> QED
      BY <3>1, <3>2, <1>3, <1>7 DEF StageOf, WorkerStages
  <2> QED
    BY <2>4, <2>5, <2>6, <1>1, <1>4, <1>5 DEF Places
<1> QED
  BY <1>8, <1>9

-----------------------------------------------------------------------------
(* A call of triggerEvent keeps the events in their places.                   *)

\* What is left to say of a call, by the loop thread or by a worker, when it is
\* known what it does to the event: who else is concerned.
Called(e) ==
    /\ e \in EventIds /\ e \in Hands /\ ev[e].fd \in FDs /\ Calls(e)
    /\ Hands' \subseteq Hands /\ Hands \ {e} \subseteq Hands'
    /\ e \in Hands' \/ ev'[e].stage = 6 \/ FailsToRead(e)
    /\ Range(readReady) \subseteq Range(readReady')
    /\ MultiThreaded => /\ ~Finishes(e) /\ pc' = pc /\ (Refuses(e) => e \in Range(readReady'))
                        /\ Executes(e) => pc = "core"
    /\ ~MultiThreaded => /\ Hands' = {e} /\ Hands = {e} /\ Range(now) = {e} /\ now' = now /\ pc' = Fate(e)
                         /\ pos = 1 /\ (pos' = 1 \/ (pos' = 2 /\ ev'[e].stage = 6) \/ FailsToRead(e))
    /\ \A f : Pending(f)' = Pending(f)
    /\ UNCHANGED <<sent, backlog, batch, eventMapper>>

\* The others are as they were.
LEMMA CallTouches ==
    ASSUME NEW e \in EventIds, Calls(e), EventTypes
    PROVE  /\ \A f \in EventIds \ {e} : ev'[f] = ev[f]
           /\ ev'[e].stage \in 1..6 \/ ev'[e].stage = ev[e].stage
           /\ ev'[e].stage < 6 => ev[e].stage < 6 /\ ev'[e].written = ev[e].written
<1>1. ev[e].stage \in Nat /\ ev[e].stage >= 1
  BY EventFacts
<1> QED
  BY <1>1 DEF Calls, FailsToRead, Fetches, Refuses, Bumps, Executes, Finishes, Rests, Touches

\* ... in one thread.
LEMMA ServePlacesSingle ==
    ASSUME IInv, Serve, ~MultiThreaded
    PROVE  Places' /\ Called(now[pos])
<1> DEFINE e == now[pos]
<1>1. /\ TypeInv /\ PlaceTypes /\ EventTypes /\ Turn /\ Once /\ StageOf /\ Counted /\ pc = "dispatch" /\ pos <= Len(now)
      /\ triggerEvent(e) /\ pc' = Fate(e) /\ pos' = IF Continues(e) THEN pos ELSE pos + 1
      /\ UNCHANGED <<sent, backlog, batch, eventMapper, readTasks, now, readReady, pool, worker>>
  BY DEF IInv, TypeInv, Places, Serve, Turn
<1>2. e \in EventIds /\ e \in Range(now) /\ e \in Hands /\ ev[e].fd \in FDs
  BY <1>1, ServedEvent
<1>3. Workers = {} /\ Hands = Range(now) /\ readTasks = <<>> /\ readReady = <<>> /\ pool = <<>>
  BY <1>1, SingleHands DEF Turn
<1>4. pos = 1 /\ Len(now) = 1 /\ DOMAIN now = {1} /\ Range(now) = {e}
  <2>1. /\ now \in Seq(EventIds) /\ Len(now) \in Nat /\ DOMAIN now = 1..Len(now)
        /\ pos \in Nat \ {0} /\ Len(now) <= 1
        /\ \A x \in Range(now) : \E i \in 1..Len(now) : now[i] = x
    BY <1>1, SeqFacts DEF PlaceTypes, Turn
  <2>2. pos = 1 /\ Len(now) = 1
    BY <2>1, <1>1
  <2>3. DOMAIN now = {1}
    BY <2>1, <2>2
  <2> QED
    BY <2>1, <2>2, <2>3, <1>2
<1>5. Calls(e)
  BY <1>1, <1>2, CallEffects
<1> HIDE DEF e
<1>6. /\ \A f \in EventIds \ {e} : ev'[f] = ev[f]
      /\ ev'[e].stage \in 1..6 \/ ev'[e].stage = ev[e].stage
      /\ ev'[e].stage < 6 => ev[e].stage < 6 /\ ev'[e].written = ev[e].written
  BY <1>1, <1>2, <1>5, CallTouches
<1>7. Working' = Working /\ \A f : Pending(f)' = Pending(f)
  BY <1>1 DEF Working, Pending
<1>8. Hands' = Hands
  BY <1>1, <1>7 DEF Hands
<1>9. Once'
  BY <1>1, <1>7 DEF Once
<1>10. pc' \in {"dispatch", "dead"}
  BY <1>1 DEF Fate
<1>11. pos' \in {1, 2}
  BY <1>1, <1>4
<1>12. Turn'
  BY <1>1, <1>3, <1>4, <1>10, <1>11 DEF Turn, MultiThreaded
<1>13. ev[e].stage \in 1..6
  BY <1>1, <1>4 DEF StageOf, NowStages, e
<1>14. ~Continues(e) => ev'[e].stage = 6 \/ FailsToRead(e)
  <2>1. ~ReadFails(e) \/ (~Fetches(e) /\ ~Refuses(e))
    BY ServerAssumption DEF Fetches, Refuses, ReadFails, ConnOf, ServerAssumption
  <2>2. Rests(e) => ev'[e].stage = 6
    BY <1>13 DEF Rests
  <2>3. Finishes(e) => ev'[e].stage = 6
    BY DEF Finishes
  <2>4. Fetches(e) \/ Refuses(e) => ev[e].stage = 1
    BY DEF Fetches, Refuses
  <2>5. Bumps(e) \/ Executes(e) => ev[e].stage \notin {1, 6}
    BY DEF Bumps, Executes
  <2> QED
    BY <1>5, <2>1, <2>2, <2>3, <2>4, <2>5 DEF Continues, Calls
<1>15. StageOf'
  <2>1. ev'[e].stage \in 1..6 /\ (pos' = 2 => ev'[e].stage \in {1, 6})
    BY <1>1, <1>4, <1>6, <1>13, <1>14 DEF FailsToRead
  <2>2. \A i \in DOMAIN now' : ev'[now'[i]].stage \in NowStages(i)'
    BY <2>1, <1>1, <1>4, <1>11 DEF NowStages, MultiThreaded, e
  <2>3. \A f \in EventIds \ Hands : ev'[f].stage \in {1, 6}
    BY <1>1, <1>2, <1>6 DEF StageOf
  <2> QED
    BY <2>2, <2>3, <1>1, <1>3, <1>8, Emptied DEF StageOf
<1>16. Counted'
  <2> SUFFICES ASSUME NEW f \in EventIds, ev'[f].stage < 6, ev'[f].written PROVE FALSE
    BY DEF Counted
  <2>1. ev[f].stage < 6 /\ ev[f].written
    BY <1>6
  <2> QED
    BY <2>1, <1>1, <1>3 DEF Counted
<1>17. Called(e)
  <2>1. pos' = 1 \/ (pos' = 2 /\ ev'[e].stage = 6) \/ FailsToRead(e)
    BY <1>1, <1>4, <1>14
  <2>2. Hands' = {e} /\ Hands = {e} /\ Range(now) = {e} /\ now' = now /\ pc' = Fate(e) /\ pos = 1
    BY <1>1, <1>3, <1>4, <1>8
  <2>3. UNCHANGED <<sent, backlog, batch, eventMapper>> /\ Range(readReady) \subseteq Range(readReady')
    BY <1>1
  <2> QED
    BY <2>1, <2>2, <2>3, <1>2, <1>5, <1>7 DEF Called
<1> QED
  BY <1>9, <1>12, <1>15, <1>16, <1>17 DEF Places, e

\* ... by the loop thread of several.
LEMMA ServePlacesCore ==
    ASSUME IInv, Serve, MultiThreaded
    PROVE  Places' /\ Called(now[pos])
<1> DEFINE e == now[pos]
<1>1. /\ TypeInv /\ PlaceTypes /\ EventTypes /\ Turn /\ Once /\ StageOf /\ Counted /\ pc = "core" /\ pos <= Len(now)
      /\ triggerEvent(e) /\ pc' = Fate(e)
      /\ pos' = IF Continues(e) /\ ev'[e].stage <= 3 THEN pos ELSE pos + 1
      /\ UNCHANGED <<sent, backlog, batch, eventMapper, readTasks, now, readReady, pool, worker>>
  BY DEF IInv, TypeInv, Places, Serve, Turn
<1>2. e \in EventIds /\ e \in Range(now) /\ e \in Hands /\ ev[e].fd \in FDs
  BY <1>1, ServedEvent
<1>3. /\ now \in Seq(EventIds) /\ Len(now) \in Nat /\ DOMAIN now = 1..Len(now)
      /\ pos \in Nat \ {0} /\ pos \in 1..Len(now) /\ \A i \in 1..Len(now) : now[i] \in EventIds
      /\ \A i \in 1..Len(now) : now[i] = e => i = pos
  BY <1>1, SeqFacts DEF PlaceTypes, Once, IsInjective
<1>4. ev[e].stage \in {3, 6}
  BY <1>1, <1>3 DEF StageOf, NowStages
<1>5. Calls(e)
  BY <1>1, <1>2, CallEffects
<1> HIDE DEF e
<1>6. Executes(e) \/ Rests(e)
  BY <1>4, <1>5 DEF Calls, FailsToRead, Fetches, Refuses, Bumps, Finishes
<1>7. /\ \A f \in EventIds \ {e} : ev'[f] = ev[f]
      /\ ev'[e].stage \in {4, 6} /\ pos' = pos + 1 /\ pc' = "core"
      /\ ev'[e].stage < 6 => ev[e].stage < 6 /\ ev'[e].written = ev[e].written
  <2>1. ev'[e].stage \in {4, 6}
    BY <1>4, <1>6 DEF Executes, Rests
  <2>2. pos' = pos + 1 /\ pc' = "core"
    BY <2>1, <1>1, <1>4 DEF Fate
  <2> QED
    BY <2>1, <2>2, <1>1, <1>2, <1>5, CallTouches
<1>8. Working' = Working /\ \A f : Pending(f)' = Pending(f)
  BY <1>1 DEF Working, Pending
<1>9. Hands' = Hands
  BY <1>1, <1>8 DEF Hands
<1>10. Once'
  BY <1>1, <1>8 DEF Once
<1>11. Turn'
  BY <1>1, <1>3, <1>7 DEF Turn, MultiThreaded
<1>12. StageOf'
  <2>1. \A i \in DOMAIN now' : ev'[now'[i]].stage \in NowStages(i)'
    <3> SUFFICES ASSUME NEW i \in 1..Len(now) PROVE ev'[now[i]].stage \in NowStages(i)'
      BY <1>1, <1>3
    <3>1. CASE i = pos
      BY <3>1, <1>3, <1>7 DEF NowStages, MultiThreaded, e
    <3>2. CASE i # pos
      <4>1. ev'[now[i]] = ev[now[i]] /\ ev[now[i]].stage \in NowStages(i)
        BY <3>2, <1>1, <1>3, <1>7 DEF StageOf
      <4>2. i < pos <=> i < pos'
        BY <3>2, <1>3, <1>7
      <4> QED
        BY <4>1, <4>2 DEF NowStages, MultiThreaded
    <3> QED
      BY <3>1, <3>2
  <2>2. e \notin Range(readTasks) \union Range(readReady) \union EventsOf(pool) \union Working
    BY <1>1, <1>2 DEF Once
  <2>3. /\ Range(readTasks) \subseteq EventIds /\ Range(readReady) \subseteq EventIds
        /\ EventsOf(pool) \subseteq EventIds
    BY <1>1, HandsAreEvents DEF Hands
  <2>4. \A i \in DOMAIN pool : pool[i].ev \in EventsOf(pool)
    BY DEF EventsOf
  <2>5. \A w \in Workers : worker[w].pc # "idle" => worker[w].ev \in Working /\ worker[w].ev \in EventIds
    BY <1>1, WorkerHolds
  <2>6. \A f \in EventIds \ Hands : ev'[f].stage \in {1, 6}
    BY <1>1, <1>2, <1>7 DEF StageOf
  <2>7. \A f \in Range(readTasks) \union Range(readReady) : ev'[f] = ev[f]
    BY <2>2, <2>3, <1>7
  <2>8. \A i \in DOMAIN pool : ev'[pool[i].ev] = ev[pool[i].ev]
    BY <2>2, <2>3, <2>4, <1>7
  <2>9. \A w \in Workers : worker[w].pc # "idle" => ev'[worker[w].ev] = ev[worker[w].ev]
    BY <2>2, <2>5, <1>7
  <2>10. /\ \A f \in Range(readTasks') : ev'[f].stage = 1
         /\ \A f \in Range(readReady') : ev'[f].stage \in {3, 6}
    BY <2>7, <1>1 DEF StageOf
  <2>11. \A i \in DOMAIN pool' : ev'[pool'[i].ev].stage \in IF pool'[i].kind = "read" THEN {1} ELSE {4, 6}
    BY <2>8, <1>1 DEF StageOf
  <2>12. \A w \in Workers : worker'[w].pc # "idle" =>
            /\ ev'[worker'[w].ev].stage \in WorkerStages(w)'
            /\ worker'[w].pc \in {"count", "bump"} => worker'[w].kind = "write"
    BY <2>9, <1>1 DEF StageOf, WorkerStages
  <2> QED
    BY <2>1, <2>6, <2>10, <2>11, <2>12, <1>9 DEF StageOf
<1>13. Counted'
  <2> SUFFICES ASSUME NEW f \in EventIds, ev'[f].stage < 6, ev'[f].written
               PROVE  \E w \in Workers : worker[w].ev = f /\ worker[w].pc = "bump"
    BY <1>1 DEF Counted
  <2>1. ev[f].stage < 6 /\ ev[f].written
    BY <1>7
  <2> QED
    BY <2>1, <1>1 DEF Counted
<1>14. ~Finishes(e) /\ ~Refuses(e)
  BY <1>4, <1>6 DEF Finishes, Refuses
<1>15. Called(e)
  BY <1>1, <1>2, <1>5, <1>6, <1>7, <1>8, <1>9, <1>14 DEF Called
<1> QED
  BY <1>10, <1>11, <1>12, <1>13, <1>15 DEF Places, e

-----------------------------------------------------------------------------
(* The workers keep the events in their places.                               *)

LEMMA TakeTaskPlaces ==
    ASSUME IInv, NEW w \in Workers, TakeTask(w)
    PROVE  Places' /\ Hands' = Hands /\ \A e : Pending(e)' = Pending(e)
<1>1. /\ PlaceTypes /\ Turn /\ Once /\ StageOf /\ Counted /\ worker[w].pc = "idle" /\ pool # <<>>
      /\ worker' = [worker EXCEPT ![w] = Head(pool)] /\ pool' = Tail(pool)
      /\ UNCHANGED <<pc, batch, readTasks, now, pos, ev, readReady>> /\ MultiThreaded
      /\ pool \in Seq(Task) /\ worker \in [Workers -> WorkerRecord]
  BY DEF IInv, TypeInv, Places, TakeTask, At, loop, MultiThreaded, PlaceTypes, WorkerRecord
<1> DEFINE t == Head(pool)
<1>2. /\ t \in Task /\ 1 \in DOMAIN pool /\ t = pool[1] /\ Tail(pool) \in Seq(Task)
      /\ \A i \in DOMAIN Tail(pool) : i + 1 \in DOMAIN pool /\ Tail(pool)[i] = pool[i + 1]
      /\ EventsOf(pool) = EventsOf(Tail(pool)) \union {t.ev}
      /\ EventsOnce(pool) => EventsOnce(Tail(pool)) /\ t.ev \notin EventsOf(Tail(pool))
  BY <1>1, PoolShrinks
<1>3. ev[t.ev].stage \in IF t.kind = "read" THEN {1} ELSE {4, 6}
  BY <1>1, <1>2 DEF StageOf
<1>4. worker' = [worker EXCEPT ![w] = t] /\ pool' = Tail(pool)
  BY <1>1
<1> HIDE DEF t
<1>5. /\ t.ev \in EventIds /\ t.ev # None /\ t.pc = "trigger" /\ t.kind \in {"read", "write"}
  BY <1>2, ServerAssumption DEF Task, ServerAssumption
<1>6. worker'[w] = t /\ \A v \in Workers \ {w} : worker'[v] = worker[v]
  BY <1>1, <1>4
<1>7. worker[w].ev = None
  BY <1>1 DEF PlaceTypes
<1>8. Working' = Working \union {t.ev}
  <2>1. \A x : x \in Working' <=> (x # None /\ \E v \in Workers : worker'[v].ev = x)
    BY DEF Working
  <2>2. \A x : x \in Working <=> (x # None /\ \E v \in Workers : worker[v].ev = x)
    BY DEF Working
  <2> QED
    BY <2>1, <2>2, <1>5, <1>6, <1>7
<1>9. Hands' = Hands
  BY <1>1, <1>2, <1>4, <1>8 DEF Hands
<1>10. \A e : Pending(e)' = Pending(e)
  BY <1>1, <1>5, <1>6 DEF Pending
<1>11. Once'
  <2>1. t.ev \in EventsOf(pool) /\ t.ev \notin Working /\ EventsOf(pool') \subseteq EventsOf(pool)
        /\ t.ev \notin EventsOf(pool') /\ EventsOnce(pool')
    BY <1>1, <1>2, <1>4 DEF Once
  <2>2. \A v, x \in Workers : worker'[v].ev = worker'[x].ev /\ worker'[v].ev # None => v = x
    <3> SUFFICES ASSUME NEW v \in Workers, NEW x \in Workers, worker'[v].ev = worker'[x].ev, worker'[v].ev # None
                 PROVE  v = x
      OBVIOUS
    <3>1. \A y \in Workers \ {w} : worker'[y].ev # None => worker'[y].ev \in Working /\ worker'[y].ev # t.ev
      BY <2>1, <1>6 DEF Working
    <3>2. CASE v # w /\ x # w
      BY <3>2, <1>1, <1>6 DEF Once
    <3> QED
      BY <3>1, <3>2, <1>6
  <2>3. /\ Range(readTasks') \intersect (Range(now') \union Range(readReady') \union EventsOf(pool') \union Working') = {}
        /\ Range(now') \intersect (Range(readReady') \union EventsOf(pool') \union Working') = {}
        /\ Range(readReady') \intersect (EventsOf(pool') \union Working') = {}
        /\ EventsOf(pool') \intersect Working' = {}
    BY <2>1, <1>1, <1>8 DEF Once
  <2> QED
    BY <2>1, <2>2, <2>3, <1>1 DEF Once
<1>12. Turn'
  BY <1>1 DEF Turn, MultiThreaded
<1>13. StageOf'
  <2>1. \A i \in DOMAIN pool' : ev'[pool'[i].ev].stage \in IF pool'[i].kind = "read" THEN {1} ELSE {4, 6}
    BY <1>1, <1>2, <1>4 DEF StageOf
  <2>2. \A v \in Workers : worker'[v].pc # "idle" =>
          /\ ev'[worker'[v].ev].stage \in WorkerStages(v)'
          /\ worker'[v].pc \in {"count", "bump"} => worker'[v].kind = "write"
    <3> SUFFICES ASSUME NEW v \in Workers, worker'[v].pc # "idle"
                 PROVE  /\ ev[worker'[v].ev].stage \in WorkerStages(v)'
                        /\ worker'[v].pc \in {"count", "bump"} => worker'[v].kind = "write"
      BY <1>1
    <3>1. CASE v = w
      BY <3>1, <1>3, <1>5, <1>6 DEF WorkerStages
    <3>2. CASE v # w
      BY <3>2, <1>1, <1>6 DEF StageOf, WorkerStages
    <3> QED
      BY <3>1, <3>2
  <2>3. \A i \in DOMAIN now : NowStages(i)' = NowStages(i)
    BY <1>1 DEF NowStages, MultiThreaded
  <2> QED
    BY <2>1, <2>2, <2>3, <1>1, <1>9 DEF StageOf
<1>14. Counted'
  BY <1>1, <1>6 DEF Counted
<1> QED
  BY <1>9, <1>10, <1>11, <1>12, <1>13, <1>14 DEF Places

\* A worker lets its event go, queues it for the loop thread, or keeps it.
LetsGo(w) == worker' = [worker EXCEPT ![w] = IdleWorker] /\ UNCHANGED readReady
Queues(w) == worker' = [worker EXCEPT ![w] = IdleWorker] /\ readReady' = Append(readReady, worker[w].ev)
GoesOn(w, p) == worker' = [worker EXCEPT ![w] = [worker[w] EXCEPT !.pc = p]] /\ UNCHANGED readReady

LEMMA WorkerPlaces ==
    ASSUME IInv, NEW w \in Workers, worker[w].pc # "idle", NEW e, e = worker[w].ev,
           ev' \in [EventIds -> Event], \A f \in EventIds \ {e} : ev'[f] = ev[f],
           UNCHANGED <<pc, batch, readTasks, now, pos, pool>>,
           \/ LetsGo(w) /\ ev'[e].stage \in {1, 6}
           \/ Queues(w) /\ ev'[e].stage \in {3, 6}
           \/ \E p \in {"trigger", "count", "bump"} :
                 GoesOn(w, p) /\ ev'[e].stage \in WorkerStages(w)' /\ (p # "trigger" => worker[w].kind = "write"),
           ev'[e].stage < 6 /\ ev'[e].written => worker'[w].pc = "bump"
    PROVE  /\ Places' /\ Hands' \subseteq Hands /\ Hands \ {e} \subseteq Hands' /\ (LetsGo(w) \/ e \in Hands')
           /\ \A f \in EventIds \ {e} : Pending(f)' = Pending(f)
           /\ \A v \in Workers \ {w} : worker'[v] = worker[v] /\ worker[v].ev # e
<1>1. /\ PlaceTypes /\ Turn /\ Once /\ StageOf /\ Counted /\ MultiThreaded
      /\ worker \in [Workers -> WorkerRecord] /\ readReady \in Seq(EventIds)
  BY DEF IInv, TypeInv, Places, MultiThreaded, PlaceTypes, WorkerRecord
<1>2. e \in EventIds /\ e \in Working /\ e \in Hands /\ e # None /\ \A v \in Workers \ {w} : worker[v].ev # e
  BY <1>1, WorkerHolds, ServerAssumption DEF Once, ServerAssumption
<1>3. \A v \in Workers \ {w} : worker'[v] = worker[v]
  BY <1>1 DEF LetsGo, Queues, GoesOn
<1>4. e \notin Range(readTasks) \union Range(now) \union Range(readReady) \union EventsOf(pool)
  BY <1>1, <1>2 DEF Once
<1>5. /\ Range(readTasks) \subseteq EventIds /\ Range(now) \subseteq EventIds
      /\ Range(readReady) \subseteq EventIds /\ EventsOf(pool) \subseteq EventIds
  BY <1>1, HandsAreEvents DEF Hands
<1>6. Turn'
  BY <1>1 DEF Turn, MultiThreaded
<1>7. /\ \A f \in Range(readTasks') : ev'[f].stage = 1
      /\ \A i \in DOMAIN now' : ev'[now'[i]].stage \in NowStages(i)'
      /\ \A f \in Range(readReady) : ev'[f].stage \in {3, 6}
      /\ \A i \in DOMAIN pool' : ev'[pool'[i].ev].stage \in IF pool'[i].kind = "read" THEN {1} ELSE {4, 6}
  <2>1. \A f \in Range(readTasks) \union Range(readReady) : ev'[f] = ev[f]
    BY <1>4, <1>5
  <2>2. \A i \in DOMAIN now : ev'[now[i]] = ev[now[i]] /\ NowStages(i)' = NowStages(i)
    <3>1. \A i \in DOMAIN now : now[i] \in Range(now)
      BY <1>1, SeqFacts DEF PlaceTypes
    <3> QED
      BY <3>1, <1>4, <1>5 DEF NowStages, MultiThreaded
  <2>3. \A i \in DOMAIN pool : ev'[pool[i].ev] = ev[pool[i].ev]
    <3>1. \A i \in DOMAIN pool : pool[i].ev \in EventsOf(pool)
      BY DEF EventsOf
    <3> QED
      BY <3>1, <1>4, <1>5
  <2>4. \A f \in Range(readTasks') : ev'[f].stage = 1
    BY <2>1, <1>1 DEF StageOf
  <2>5. \A f \in Range(readReady) : ev'[f].stage \in {3, 6}
    BY <2>1, <1>1 DEF StageOf
  <2>6. \A i \in DOMAIN now' : ev'[now'[i]].stage \in NowStages(i)'
    BY <2>2, <1>1 DEF StageOf
  <2>7. \A i \in DOMAIN pool' : ev'[pool'[i].ev].stage \in IF pool'[i].kind = "read" THEN {1} ELSE {4, 6}
    BY <2>3, <1>1 DEF StageOf
  <2> QED
    BY <2>4, <2>5, <2>6, <2>7
<1>8. \A v \in Workers \ {w} : worker'[v].pc # "idle" =>
          /\ ev'[worker'[v].ev].stage \in WorkerStages(v)'
          /\ worker'[v].pc \in {"count", "bump"} => worker'[v].kind = "write"
  <2> SUFFICES ASSUME NEW v \in Workers \ {w}, worker[v].pc # "idle"
               PROVE  /\ ev'[worker[v].ev].stage \in WorkerStages(v)'
                      /\ worker[v].pc \in {"count", "bump"} => worker[v].kind = "write"
    BY <1>3
  <2>1. worker[v].ev \in EventIds \ {e}
    BY <1>1, <1>2, WorkerHolds
  <2>2. WorkerStages(v)' = WorkerStages(v)
    BY <1>3 DEF WorkerStages
  <2> QED
    BY <2>1, <2>2, <1>1 DEF StageOf
<1>9. \A f \in EventIds \ Hands : ev'[f].stage \in {1, 6}
  BY <1>1, <1>2 DEF StageOf
<1>10. Counted'
  <2> SUFFICES ASSUME NEW f \in EventIds, ev'[f].stage < 6, ev'[f].written
               PROVE  \E v \in Workers : worker'[v].ev = f /\ worker'[v].pc = "bump"
    BY DEF Counted
  <2>1. CASE f # e
    <3>1. PICK v \in Workers : worker[v].ev = f /\ worker[v].pc = "bump"
      BY <2>1, <1>1 DEF Counted
    <3> QED
      BY <2>1, <3>1, <1>3
  <2>2. CASE f = e
    <3>1. worker'[w].pc = "bump"
      BY <2>2
    <3>2. \E p : GoesOn(w, p)
      BY <3>1, <1>1 DEF LetsGo, Queues, IdleWorker
    <3>3. worker'[w].ev = e
      BY <3>2, <1>1, WorkerStays DEF GoesOn
    <3> QED
      BY <3>1, <3>3, <2>2
  <2> QED
    BY <2>1, <2>2
<1>11. \A f \in EventIds \ {e} : Pending(f)' = Pending(f)
  <2>1. worker'[w].ev \in {None, e}
    <3>1. CASE \E p : GoesOn(w, p)
      BY <3>1, <1>1, WorkerStays DEF GoesOn
    <3>2. CASE ~\E p : GoesOn(w, p)
      BY <3>2, <1>1 DEF LetsGo, Queues, IdleWorker
    <3> QED
      BY <3>1, <3>2
  <2> QED
    BY <2>1, <1>3, ServerAssumption DEF Pending, ServerAssumption
<1>12. CASE LetsGo(w) /\ ev'[e].stage \in {1, 6}
  <2>1. /\ Working' = Working \ {e}
        /\ \A v, x \in Workers : worker'[v].ev = worker'[x].ev /\ worker'[v].ev # None => v = x
    BY <1>1, <1>12, WorkerLeaves DEF LetsGo
  <2>2. Hands' = Hands \ {e}
    BY <2>1, <1>4, <1>12 DEF Hands, LetsGo
  <2>3. Once'
    <3>1. UNCHANGED readReady
      BY <1>12 DEF LetsGo
    <3> QED
      BY <3>1, <2>1, <1>1 DEF Once
  <2>4. StageOf'
    <3>1. worker'[w].pc = "idle"
      BY <1>1, <1>12 DEF LetsGo, IdleWorker
    <3>2. UNCHANGED readReady /\ \A f \in EventIds \ Hands' : ev'[f].stage \in {1, 6}
      BY <1>9, <1>12, <2>2 DEF LetsGo
    <3>3. \A v \in Workers : worker'[v].pc # "idle" =>
            /\ ev'[worker'[v].ev].stage \in WorkerStages(v)'
            /\ worker'[v].pc \in {"count", "bump"} => worker'[v].kind = "write"
      BY <1>8, <3>1
    <3> QED
      BY <3>2, <3>3, <1>7 DEF StageOf
  <2> QED
    BY <2>2, <2>3, <2>4, <1>2, <1>3, <1>6, <1>10, <1>11, <1>12 DEF Places
<1>13. CASE Queues(w) /\ ev'[e].stage \in {3, 6}
  <2>1. /\ Working' = Working \ {e}
        /\ \A v, x \in Workers : worker'[v].ev = worker'[x].ev /\ worker'[v].ev # None => v = x
    BY <1>1, <1>13, WorkerLeaves DEF Queues
  <2>2. Range(readReady') = Range(readReady) \union {e} /\ IsInjective(readReady')
    BY <1>1, <1>2, <1>4, <1>13, RangeAppend DEF Queues, Once
  <2>3. Hands' = Hands
    BY <2>1, <2>2, <1>2 DEF Hands
  <2>4. Once'
    BY <2>1, <2>2, <1>1, <1>2, <1>4 DEF Once
  <2>5. StageOf'
    <3>1. worker'[w].pc = "idle"
      BY <1>1, <1>13 DEF Queues, IdleWorker
    <3>2. \A v \in Workers : worker'[v].pc # "idle" =>
            /\ ev'[worker'[v].ev].stage \in WorkerStages(v)'
            /\ worker'[v].pc \in {"count", "bump"} => worker'[v].kind = "write"
      BY <1>8, <3>1
    <3>3. \A f \in Range(readReady') : ev'[f].stage \in {3, 6}
      BY <2>2, <1>7, <1>13
    <3> QED
      BY <3>2, <3>3, <2>3, <1>7, <1>9 DEF StageOf
  <2> QED
    BY <2>3, <2>4, <2>5, <1>2, <1>3, <1>6, <1>10, <1>11 DEF Places
<1>14. ASSUME NEW p \in {"trigger", "count", "bump"}, GoesOn(w, p), ev'[e].stage \in WorkerStages(w)',
              p # "trigger" => worker[w].kind = "write"
       PROVE  /\ Places' /\ Hands' \subseteq Hands /\ Hands \ {e} \subseteq Hands' /\ (LetsGo(w) \/ e \in Hands')
              /\ \A f \in EventIds \ {e} : Pending(f)' = Pending(f)
              /\ \A v \in Workers \ {w} : worker'[v] = worker[v] /\ worker[v].ev # e
  <2>1. /\ \A v \in Workers : worker'[v].ev = worker[v].ev /\ worker'[v].kind = worker[v].kind
        /\ worker'[w].pc = p /\ \A v \in Workers \ {w} : worker'[v] = worker[v]
        /\ Working' = Working /\ UNCHANGED readReady
    BY <1>1, <1>14, WorkerStays DEF GoesOn
  <2>2. Hands' = Hands
    BY <2>1 DEF Hands
  <2>3. Once'
    BY <2>1, <1>1 DEF Once
  <2>4. StageOf'
    <3>1. \A v \in Workers : worker'[v].pc # "idle" =>
            /\ ev'[worker'[v].ev].stage \in WorkerStages(v)'
            /\ worker'[v].pc \in {"count", "bump"} => worker'[v].kind = "write"
      <4> SUFFICES ASSUME NEW v \in Workers, worker'[v].pc # "idle", v = w
                   PROVE  /\ ev'[worker'[v].ev].stage \in WorkerStages(v)'
                          /\ worker'[v].pc \in {"count", "bump"} => worker'[v].kind = "write"
        BY <1>8
      <4> QED
        BY <2>1, <1>14
    <3> QED
      BY <3>1, <2>1, <2>2, <1>7, <1>9 DEF StageOf
  <2> QED
    BY <2>2, <2>3, <2>4, <1>2, <1>3, <1>6, <1>10, <1>11 DEF Places
<1> QED
  BY <1>12, <1>13, <1>14

LEMMA TriggerPlaces ==
    ASSUME IInv, NEW w \in Workers, Trigger(w), NEW e, e = worker[w].ev
    PROVE  Places' /\ Called(e)
<1>1. /\ TypeInv /\ PlaceTypes /\ EventTypes /\ Turn /\ Once /\ StageOf /\ Counted /\ MultiThreaded
      /\ worker[w].pc = "trigger" /\ ev[e].stage # 5 /\ triggerEvent(e) /\ AfterTrigger({w}, Continues(e))
      /\ UNCHANGED <<sent, backlog, pc, batch, eventMapper, readTasks, now, pos, pool>>
      /\ worker \in [Workers -> WorkerRecord] /\ readReady \in Seq(EventIds)
  BY DEF IInv, TypeInv, Places, MultiThreaded, PlaceTypes, WorkerRecord, Trigger, At, loop
<1>2. e \in EventIds /\ e \in Working /\ e \in Hands /\ ev[e].fd \in FDs
  BY <1>1, WorkerHolds DEF EventTypes
<1>3. Calls(e)
  BY <1>1, <1>2, CallEffects
<1>4. ev' \in [EventIds -> Event] /\ \A f \in EventIds \ {e} : ev'[f] = ev[f]
  BY <1>1, <1>2, <1>3 DEF EventTypes, Calls, FailsToRead, Fetches, Refuses, Bumps, Executes, Finishes, Rests, Touches
<1>5. ev[e].stage \in IF worker[w].kind = "read" THEN {1, 2} ELSE {4, 6}
  BY <1>1 DEF StageOf, WorkerStages
<1>6. worker[w].kind \in {"read", "write"}
  BY <1>1 DEF WorkerRecord
<1> DEFINE past == worker[w].kind = "read" /\ PastRead(ev'[e].stage)
<1>7. /\ worker' = [worker EXCEPT ![w] = IF ~Continues(e) \/ past THEN IdleWorker
                                         ELSE [worker[w] EXCEPT !.pc = "trigger"]]
      /\ readReady' = IF past THEN Append(readReady, e) ELSE readReady
  <2>1. Continues(e) \in BOOLEAN /\ worker[w].pc # "idle"
    BY <1>1 DEF Continues
  <2> QED
    BY <2>1, <1>1, AfterTriggerOne
<1>8. past \in BOOLEAN /\ (past <=> worker[w].kind = "read" /\ ev'[e].stage > 2)
  BY DEF PastRead
<1> HIDE DEF past
<1>9. /\ past => Queues(w)
      /\ ~past /\ ~Continues(e) => LetsGo(w)
      /\ ~past /\ Continues(e) => GoesOn(w, "trigger")
  BY <1>1, <1>7 DEF Queues, LetsGo, GoesOn
<1>10. ev[e].stage < 6 => ~ev[e].written
  <2> SUFFICES ASSUME ev[e].stage < 6, ev[e].written PROVE FALSE
    OBVIOUS
  <2>1. PICK v \in Workers : worker[v].ev = e /\ worker[v].pc = "bump"
    BY <1>1, <1>2 DEF Counted
  <2>2. v = w
    BY <2>1, <1>1, <1>2, ServerAssumption DEF Once, ServerAssumption
  <2> QED
    BY <2>1, <2>2, <1>1
<1>11. ~(ev'[e].stage < 6 /\ ev'[e].written)
  BY <1>1, <1>2, <1>3, <1>10, CallTouches
<1>12. /\ worker[w].kind = "read" => FailsToRead(e) \/ Fetches(e) \/ Refuses(e) \/ Bumps(e)
       /\ worker[w].kind = "write" => Bumps(e) \/ Rests(e)
  <2>1. worker[w].kind = "read" => ev[e].stage \in {1, 2}
    BY <1>5
  <2>2. worker[w].kind = "write" => ev[e].stage \in {4, 6}
    BY <1>5
  <2> QED
    BY <2>1, <2>2, <1>3 DEF Calls, FailsToRead, Fetches, Refuses, Bumps, Executes, Finishes, Rests
<1>13. \/ LetsGo(w) /\ ev'[e].stage \in {1, 6} /\ (FailsToRead(e) \/ Rests(e))
       \/ Queues(w) /\ ev'[e].stage \in {3, 6}
       \/ GoesOn(w, "trigger") /\ ev'[e].stage \in (IF worker[w].kind = "read" THEN {2} ELSE {5})
  <2>1. CASE FailsToRead(e)
    BY <2>1, <1>8, <1>9 DEF FailsToRead, Continues
  <2>2. CASE Fetches(e)
    <3>1. Continues(e)
      BY <2>2, ServerAssumption DEF Fetches, Continues, ReadFails, ConnOf, ServerAssumption
    <3>2. worker[w].kind = "read" /\ ev'[e].stage = 2
      BY <2>2, <1>5 DEF Fetches
    <3> QED
      BY <3>1, <3>2, <1>8, <1>9
  <2>3. CASE Refuses(e)
    <3>1. worker[w].kind = "read" /\ ev'[e].stage = 6
      BY <2>3, <1>5 DEF Refuses
    <3> QED
      BY <3>1, <1>8, <1>9
  <2>4. CASE Bumps(e)
    <3>1. Continues(e)
      BY <2>4 DEF Bumps, Continues
    <3>2. \/ worker[w].kind = "read" /\ ev'[e].stage = 3
          \/ worker[w].kind = "write" /\ ev'[e].stage = 5
      BY <2>4, <1>5, <1>6 DEF Bumps
    <3> QED
      BY <3>1, <3>2, <1>8, <1>9
  <2>5. CASE Rests(e)
    <3>1. worker[w].kind = "write" /\ ev'[e].stage = 6 /\ ev[e].stage = 6
      BY <2>5, <1>5, <1>6 DEF Rests
    <3> QED
      BY <2>5, <3>1, <1>8, <1>9 DEF Continues
  <2> QED
    BY <1>6, <1>12, <2>1, <2>2, <2>3, <2>4, <2>5
<1>14. /\ worker'[w].pc \in {"idle", "trigger"} /\ (GoesOn(w, "trigger") => worker'[w] = worker[w])
  <2>1. IdleWorker.pc = "idle" /\ [worker[w] EXCEPT !.pc = "trigger"] = worker[w]
    BY <1>1 DEF IdleWorker, WorkerRecord
  <2> QED
    BY <2>1, <1>1, <1>13 DEF LetsGo, Queues, GoesOn
<1>15. \/ LetsGo(w) /\ ev'[e].stage \in {1, 6}
       \/ Queues(w) /\ ev'[e].stage \in {3, 6}
       \/ \E p \in {"trigger", "count", "bump"} :
             GoesOn(w, p) /\ ev'[e].stage \in WorkerStages(w)' /\ (p # "trigger" => worker[w].kind = "write")
  <2>1. GoesOn(w, "trigger") => WorkerStages(w)' = IF worker[w].kind = "read" THEN {1, 2} ELSE {4, 5, 6}
    BY <1>1, <1>14 DEF WorkerStages
  <2>2. CASE GoesOn(w, "trigger") /\ ev'[e].stage \in (IF worker[w].kind = "read" THEN {2} ELSE {5})
    <3>1. ev'[e].stage \in WorkerStages(w)'
      BY <2>1, <2>2
    <3> QED
      BY <2>2, <3>1
  <2> QED
    BY <1>13, <2>2
<1>16. /\ Places' /\ Hands' \subseteq Hands /\ Hands \ {e} \subseteq Hands' /\ (LetsGo(w) \/ e \in Hands')
       /\ \A f \in EventIds \ {e} : Pending(f)' = Pending(f)
       /\ \A v \in Workers \ {w} : worker'[v] = worker[v] /\ worker[v].ev # e
  BY <1>1, <1>4, <1>11, <1>15, WorkerPlaces
<1>17. \A f : Pending(f)' = Pending(f)
  BY <1>1, <1>14, <1>16 DEF Pending
<1>18. e \in Hands' \/ ev'[e].stage = 6 \/ FailsToRead(e)
  <2>1. CASE LetsGo(w) /\ ev'[e].stage \in {1, 6} /\ (FailsToRead(e) \/ Rests(e))
    BY <2>1 DEF Rests
  <2>2. CASE Queues(w)
    BY <2>2, <1>1, <1>2, RangeAppend DEF Queues, Hands
  <2>3. CASE GoesOn(w, "trigger")
    BY <2>3, <1>2, <1>14 DEF Hands, Working
  <2> QED
    BY <2>1, <2>2, <2>3, <1>13
<1>19. Range(readReady) \subseteq Range(readReady') /\ (Refuses(e) => e \in Range(readReady'))
  <2>1. Range(Append(readReady, e)) = Range(readReady) \union {e}
    BY <1>1, <1>2, RangeAppend
  <2>2. Refuses(e) => past
    BY <1>5, <1>8 DEF Refuses
  <2> QED
    BY <2>1, <2>2, <1>7
<1>20. ~Finishes(e) /\ ~Executes(e)
  BY <1>1, <1>5 DEF Finishes, Executes
<1> QED
  BY <1>1, <1>2, <1>3, <1>16, <1>17, <1>18, <1>19, <1>20 DEF Called

\* The three steps of a worker's write.
WritesOut(w, e) ==
    /\ e \in EventIds /\ e \in Hands /\ ev[e].fd \in FDs /\ ev[e].cur \in Requests /\ MultiThreaded
    /\ ev[e].stage = 5 /\ ~ev[e].written /\ Pending(e) = {} /\ eWrite(e)
    /\ Hands' = Hands /\ Pending(e)' = {w} /\ \A f \in EventIds \ {e} : Pending(f)' = Pending(f)
    /\ UNCHANGED <<sent, backlog, batch, eventMapper, pc, ev, readReady, executed>>
CountsOut(w, e) ==
    /\ e \in EventIds /\ e \in Hands /\ ev[e].stage = 5 /\ MultiThreaded
    /\ Touches(e) /\ Keeps(e) /\ ev'[e].stage = 5
    /\ Hands' = Hands /\ \A f \in EventIds : Pending(f)' = Pending(f)
    /\ UNCHANGED <<sent, backlog, kernel, batch, eventMapper, pc, readReady, executed>>
BumpsOut(w, e) ==
    /\ e \in EventIds /\ e \in Hands /\ ev[e].stage = 5 /\ MultiThreaded
    /\ Touches(e) /\ Keeps(e) /\ ev'[e].stage = 6
    /\ Hands' = Hands /\ Pending(e) = {w} /\ \A f \in EventIds \ {e} : Pending(f)' = Pending(f)
    /\ UNCHANGED <<sent, backlog, kernel, batch, eventMapper, pc, readReady, executed>>

LEMMA WritePlaces ==
    ASSUME IInv, NEW w \in Workers, Write(w), NEW e, e = worker[w].ev
    PROVE  Places' /\ WritesOut(w, e)
<1>1. /\ TypeInv /\ PlaceTypes /\ EventTypes /\ ClientTypes /\ Once /\ StageOf /\ Counted /\ Patience /\ MultiThreaded
      /\ worker[w].pc = "trigger" /\ ev[e].stage = 5 /\ eWrite(e) /\ pc' = Fate(e)
      /\ worker' = [worker EXCEPT ![w] = [worker[w] EXCEPT !.pc = "count"]]
      /\ UNCHANGED <<sent, backlog, batch, eventMapper, readTasks, now, pos, ev, readReady, pool, executed>>
      /\ worker \in [Workers -> WorkerRecord]
  BY DEF IInv, TypeInv, Places, Data, MultiThreaded, PlaceTypes, WorkerRecord, Write, At
<1>2. /\ e \in EventIds /\ e \in Working /\ e \in Hands /\ ev[e].fd \in FDs /\ ev[e].cur \in Requests
      /\ ev \in [EventIds -> Event]
  BY <1>1, WorkerHolds, EventFacts DEF EventTypes
<1>3. pc' = pc
  <2>1. sock[ev[e].fd] # None => peer[sock[ev[e].fd]] # "broken"
    BY <1>1, <1>2 DEF Patience, ClientTypes
  <2> QED
    BY <2>1, <1>1 DEF Fate
<1>4. worker[w].kind = "write"
  <2>1. worker[w].kind \in {"read", "write"} /\ ev[e].stage \in WorkerStages(w)
    BY <1>1 DEF StageOf, WorkerRecord
  <2> QED
    BY <2>1, <1>1 DEF WorkerStages
<1>5. GoesOn(w, "count")
  BY <1>1 DEF GoesOn
<1>6. \A v \in Workers : worker[v].ev = e => v = w
  BY <1>1, <1>2, ServerAssumption DEF Once, ServerAssumption
<1>7. ~ev[e].written
  <2> SUFFICES ASSUME ev[e].written PROVE FALSE
    OBVIOUS
  <2>1. PICK v \in Workers : worker[v].ev = e /\ worker[v].pc = "bump"
    BY <1>1, <1>2 DEF Counted
  <2> QED
    BY <2>1, <1>1, <1>6
<1>8. worker'[w].pc = "count" /\ worker'[w].ev = e
  BY <1>1 DEF WorkerRecord
<1>9. ev[e].stage \in WorkerStages(w)'
  BY <1>1, <1>8 DEF WorkerStages
<1>10. /\ Places' /\ Hands' \subseteq Hands /\ Hands \ {e} \subseteq Hands'
       /\ \A f \in EventIds \ {e} : Pending(f)' = Pending(f)
       /\ \A v \in Workers \ {w} : worker'[v] = worker[v] /\ worker[v].ev # e
  <2>1. /\ ev' \in [EventIds -> Event] /\ \A f \in EventIds \ {e} : ev'[f] = ev[f]
        /\ UNCHANGED <<pc, batch, readTasks, now, pos, pool>>
        /\ worker[w].pc # "idle" /\ ~(ev'[e].stage < 6 /\ ev'[e].written)
    BY <1>1, <1>2, <1>3, <1>7
  <2>2. \E p \in {"trigger", "count", "bump"} :
             GoesOn(w, p) /\ ev'[e].stage \in WorkerStages(w)' /\ (p # "trigger" => worker[w].kind = "write")
    BY <1>1, <1>4, <1>5, <1>9
  <2> QED
    BY <2>1, <2>2, WorkerPlaces
<1>11. Hands' = Hands
  <2>1. \A v \in Workers : worker'[v].ev = worker[v].ev
    BY <1>8, <1>10
  <2> QED
    BY <2>1, <1>1 DEF Hands, Working
<1>12. Pending(e) = {}
  BY <1>1, <1>6 DEF Pending
<1>13. Pending(e)' = {w}
  BY <1>6, <1>8, <1>10 DEF Pending
<1> QED
  BY <1>1, <1>2, <1>3, <1>7, <1>10, <1>11, <1>12, <1>13 DEF WritesOut

LEMMA CountPlaces ==
    ASSUME IInv, NEW w \in Workers, Count(w), NEW e, e = worker[w].ev
    PROVE  Places' /\ CountsOut(w, e)
<1>1. /\ TypeInv /\ PlaceTypes /\ EventTypes /\ Once /\ StageOf /\ Counted /\ MultiThreaded
      /\ worker[w].pc = "count" /\ ev' = [ev EXCEPT ![e].written = TRUE]
      /\ worker' = [worker EXCEPT ![w] = [worker[w] EXCEPT !.pc = "bump"]]
      /\ UNCHANGED <<sent, backlog, kernel, pc, batch, eventMapper, readTasks, now, pos, readReady, pool, executed>>
      /\ worker \in [Workers -> WorkerRecord]
  BY DEF IInv, TypeInv, Places, MultiThreaded, PlaceTypes, WorkerRecord, Count, At, loop
<1>2. /\ e \in EventIds /\ e \in Working /\ e \in Hands /\ ev \in [EventIds -> Event] /\ ev[e] \in Event
  BY <1>1, WorkerHolds, EventFacts DEF EventTypes
<1>3. ev[e].stage = 5 /\ worker[w].kind = "write"
  BY <1>1 DEF StageOf, WorkerStages
<1>4. GoesOn(w, "bump")
  BY <1>1 DEF GoesOn
<1>5. worker'[w].pc = "bump" /\ worker'[w].ev = e
  BY <1>1 DEF WorkerRecord
<1>6. /\ ev' \in [EventIds -> Event] /\ \A f \in EventIds \ {e} : ev'[f] = ev[f]
      /\ ev'[e].fd = ev[e].fd /\ ev'[e].stage = 5 /\ ev'[e].buf = ev[e].buf /\ ev'[e].cur = ev[e].cur
  BY <1>1, <1>2, <1>3 DEF Event
<1>7. ev'[e].stage \in WorkerStages(w)'
  BY <1>5, <1>6 DEF WorkerStages
<1>8. /\ Places' /\ Hands' \subseteq Hands /\ Hands \ {e} \subseteq Hands'
      /\ \A f \in EventIds \ {e} : Pending(f)' = Pending(f)
      /\ \A v \in Workers \ {w} : worker'[v] = worker[v] /\ worker[v].ev # e
  <2>1. \E p \in {"trigger", "count", "bump"} :
             GoesOn(w, p) /\ ev'[e].stage \in WorkerStages(w)' /\ (p # "trigger" => worker[w].kind = "write")
    BY <1>3, <1>4, <1>7
  <2>2. worker[w].pc # "idle" /\ UNCHANGED <<pc, batch, readTasks, now, pos, pool>>
    BY <1>1
  <2> QED
    BY <2>1, <2>2, <1>5, <1>6, WorkerPlaces
<1>9. Hands' = Hands
  <2>1. \A v \in Workers : worker'[v].ev = worker[v].ev
    BY <1>5, <1>8
  <2> QED
    BY <2>1, <1>1 DEF Hands, Working
<1>10. \A f \in EventIds : Pending(f)' = Pending(f)
  BY <1>1, <1>5, <1>8 DEF Pending
<1> QED
  BY <1>1, <1>2, <1>3, <1>6, <1>8, <1>9, <1>10 DEF CountsOut, Touches, Keeps

LEMMA BumpStagePlaces ==
    ASSUME IInv, NEW w \in Workers, BumpStage(w), NEW e, e = worker[w].ev
    PROVE  Places' /\ BumpsOut(w, e) /\ Pending(e)' = {}
<1>1. PICK W \in SUBSET Workers :
            /\ w \in W /\ \A v \in W : At(v, "bump") /\ worker[v].ev = e
            /\ Bump(e) /\ AfterTrigger(W, TRUE)
            /\ UNCHANGED <<sent, backlog, kernel, loop, pool, executed>>
  BY DEF BumpStage
<1>2. /\ TypeInv /\ PlaceTypes /\ EventTypes /\ Once /\ StageOf /\ Counted /\ MultiThreaded
      /\ worker[w].pc = "bump" /\ ev' = [ev EXCEPT ![e].stage = @ + 1]
      /\ UNCHANGED <<sent, backlog, kernel, pc, batch, eventMapper, readTasks, now, pos, pool, executed>>
      /\ worker \in [Workers -> WorkerRecord]
  BY <1>1 DEF IInv, TypeInv, Places, MultiThreaded, PlaceTypes, WorkerRecord, At, loop, Bump
<1>3. /\ e \in EventIds /\ e \in Working /\ e \in Hands /\ ev \in [EventIds -> Event] /\ ev[e] \in Event
  BY <1>2, WorkerHolds, EventFacts DEF EventTypes
<1>4. ev[e].stage = 5 /\ worker[w].kind = "write"
  BY <1>2 DEF StageOf, WorkerStages
<1>5. \A v \in Workers : worker[v].ev = e => v = w
  BY <1>2, <1>3, ServerAssumption DEF Once, ServerAssumption
<1>6. W = {w}
  BY <1>1, <1>5
<1>7. GoesOn(w, "trigger")
  <2>1. worker' = [worker EXCEPT ![w] = IF ~TRUE \/ (worker[w].kind = "read" /\ PastRead(ev'[worker[w].ev].stage))
                                        THEN IdleWorker ELSE [worker[w] EXCEPT !.pc = "trigger"]]
        /\ readReady' = IF worker[w].kind = "read" /\ PastRead(ev'[worker[w].ev].stage)
                        THEN Append(readReady, worker[w].ev) ELSE readReady
    BY <1>1, <1>2, <1>6, AfterTriggerOne
  <2> QED
    BY <2>1, <1>4 DEF GoesOn
<1>8. worker'[w].pc = "trigger" /\ worker'[w].ev = e /\ worker'[w].kind = "write"
  BY <1>2, <1>4, <1>7 DEF WorkerRecord, GoesOn
<1>9. /\ \A f \in EventIds \ {e} : ev'[f] = ev[f]
      /\ ev'[e].fd = ev[e].fd /\ ev'[e].stage = 6 /\ ev'[e].buf = ev[e].buf /\ ev'[e].cur = ev[e].cur
  BY <1>2, <1>3, <1>4 DEF Event
<1>10. ev' \in [EventIds -> Event]
  BY <1>1, <1>2, WorkerStepKeepsEvents DEF WorkerStep, BumpStage, EventTypes
<1>11. ev'[e].stage \in WorkerStages(w)'
  BY <1>8, <1>9 DEF WorkerStages
<1>12. /\ Places' /\ Hands' \subseteq Hands /\ Hands \ {e} \subseteq Hands'
       /\ \A f \in EventIds \ {e} : Pending(f)' = Pending(f)
       /\ \A v \in Workers \ {w} : worker'[v] = worker[v] /\ worker[v].ev # e
  <2>1. \E p \in {"trigger", "count", "bump"} :
             GoesOn(w, p) /\ ev'[e].stage \in WorkerStages(w)' /\ (p # "trigger" => worker[w].kind = "write")
    BY <1>4, <1>7, <1>11
  <2>2. worker[w].pc # "idle" /\ UNCHANGED <<pc, batch, readTasks, now, pos, pool>> /\ ~(ev'[e].stage < 6)
    BY <1>2, <1>9
  <2> QED
    BY <2>1, <2>2, <1>9, <1>10, WorkerPlaces
<1>13. Hands' = Hands
  <2>1. (\A v \in Workers : worker'[v].ev = worker[v].ev) /\ UNCHANGED readReady
    BY <1>7, <1>8, <1>12 DEF GoesOn
  <2> QED
    BY <2>1, <1>2 DEF Hands, Working
<1>14. Pending(e) = {w} /\ Pending(e)' = {}
  BY <1>2, <1>5, <1>8, <1>12 DEF Pending
<1>15. UNCHANGED readReady
  BY <1>7 DEF GoesOn
<1> QED
  BY <1>2, <1>3, <1>4, <1>9, <1>10, <1>12, <1>13, <1>14, <1>15 DEF BumpsOut, Touches, Keeps

-----------------------------------------------------------------------------
(* Holders.                                                                   *)

\* The number of places of a list that are e's.
PlacesIn(s, e) == {i \in DOMAIN s : s[i] = e}

LEMMA PlacesFinite ==
    ASSUME NEW S, NEW s \in Seq(S), NEW e
    PROVE  /\ IsFiniteSet(PlacesIn(s, e)) /\ Cardinality(PlacesIn(s, e)) \in Nat
           /\ Cardinality(PlacesIn(s, e)) = 0 <=> e \notin Range(s)
           /\ IsInjective(s) => Cardinality(PlacesIn(s, e)) <= 1
<1>1. Len(s) \in Nat /\ DOMAIN s = 1..Len(s)
  BY SeqFacts
<1>2. IsFiniteSet(1..Len(s))
  BY <1>1, FS_Interval
<1>3. IsFiniteSet(PlacesIn(s, e)) /\ Cardinality(PlacesIn(s, e)) \in Nat
  BY <1>1, <1>2, FS_Subset, FS_CardinalityType DEF PlacesIn
<1>4. Cardinality(PlacesIn(s, e)) = 0 <=> PlacesIn(s, e) = {}
  BY <1>3, FS_EmptySet
<1>5. PlacesIn(s, e) = {} <=> e \notin Range(s)
  <2>1. \A x : x \in Range(s) <=> \E i \in DOMAIN s : s[i] = x
    BY DEF Range
  <2> QED
    BY <2>1 DEF PlacesIn
<1>6. IsInjective(s) => Cardinality(PlacesIn(s, e)) <= 1
  <2> SUFFICES ASSUME IsInjective(s), PlacesIn(s, e) # {} PROVE Cardinality(PlacesIn(s, e)) <= 1
    BY <1>4
  <2>1. PICK i : i \in PlacesIn(s, e)
    OBVIOUS
  <2>2. PlacesIn(s, e) = {i}
    <3>1. \A j \in PlacesIn(s, e) : j \in DOMAIN s /\ s[j] = e
      BY DEF PlacesIn
    <3>2. \A j \in PlacesIn(s, e) : j = i
      BY <2>1, <3>1 DEF IsInjective
    <3> QED
      BY <2>1, <3>2
  <2>3. Cardinality({i}) = 1
    BY FS_Singleton
  <2> QED
    BY <2>2, <2>3
<1> QED
  BY <1>3, <1>4, <1>5, <1>6

\* Nobody holds an event iff it is in no hand; one at most holds it if it is in
\* one place only.
LEMMA HoldersAndHands ==
    ASSUME PlaceTypes, NEW e \in EventIds
    PROVE  /\ Holders(e) = 0 => e \notin Hands
           /\ e \notin Hands => Holders(e) = 0
           /\ Once => Holders(e) <= 1
<1> DEFINE P == {i \in DOMAIN pool : pool[i].ev = e}
           W == {w \in Workers : worker[w].ev = e}
           a == Cardinality(PlacesIn(readTasks, e))
           b == Cardinality(PlacesIn(now, e))
           d == Cardinality(PlacesIn(readReady, e))
           p == Cardinality(P)
           w == Cardinality(W)
<1>1. Holders(e) = a + b + d + p + w
  BY DEF Holders, PlacesIn
<1>2. /\ a \in Nat /\ (a = 0 <=> e \notin Range(readTasks)) /\ (IsInjective(readTasks) => a <= 1)
      /\ b \in Nat /\ (b = 0 <=> e \notin Range(now)) /\ (IsInjective(now) => b <= 1)
      /\ d \in Nat /\ (d = 0 <=> e \notin Range(readReady)) /\ (IsInjective(readReady) => d <= 1)
  BY PlacesFinite DEF PlaceTypes
<1>3. p \in Nat /\ (p = 0 <=> e \notin EventsOf(pool)) /\ (EventsOnce(pool) => p <= 1)
  <2>1. Len(pool) \in Nat /\ DOMAIN pool = 1..Len(pool)
    BY SeqFacts DEF PlaceTypes
  <2>2. IsFiniteSet(P) /\ p \in Nat
    <3>1. IsFiniteSet(1..Len(pool)) /\ P \in SUBSET (1..Len(pool))
      BY <2>1, FS_Interval
    <3> QED
      BY <3>1, FS_Subset, FS_CardinalityType
  <2>3. p = 0 <=> P = {}
    BY <2>2, FS_EmptySet
  <2>4. P = {} <=> e \notin EventsOf(pool)
    BY DEF EventsOf
  <2>5. EventsOnce(pool) => p <= 1
    <3> SUFFICES ASSUME EventsOnce(pool), P # {} PROVE p <= 1
      BY <2>3
    <3>1. PICK i : i \in P
      OBVIOUS
    <3>2. P = {i}
      BY <3>1 DEF EventsOnce
    <3> QED
      BY <3>2, FS_Singleton
  <2> QED
    BY <2>2, <2>3, <2>4, <2>5
<1>4. w \in Nat /\ (w = 0 <=> e \notin Working) /\ (Once => w <= 1)
  <2>1. e # None
    BY ServerAssumption DEF ServerAssumption
  <2>2. IsFiniteSet(W) /\ w \in Nat
    <3>1. W \in SUBSET Workers /\ IsFiniteSet(Workers)
      BY CountedWorkers
    <3> QED
      BY <3>1, FS_Subset, FS_CardinalityType
  <2>3. w = 0 <=> W = {}
    BY <2>2, FS_EmptySet
  <2>4. W = {} <=> e \notin Working
    BY <2>1 DEF Working
  <2>5. Once => w <= 1
    <3> SUFFICES ASSUME Once, W # {} PROVE w <= 1
      BY <2>3
    <3>1. PICK v : v \in W
      OBVIOUS
    <3>2. W = {v}
      BY <2>1, <3>1 DEF Once
    <3> QED
      BY <3>2, FS_Singleton
  <2> QED
    BY <2>2, <2>3, <2>4, <2>5
<1> HIDE DEF P, W, a, b, d, p, w
<1>5. e \in Hands <=> \/ e \in Range(readTasks) \/ e \in Range(now) \/ e \in Range(readReady)
                      \/ e \in EventsOf(pool) \/ e \in Working
  BY DEF Hands
<1>6. Holders(e) = 0 <=> a = 0 /\ b = 0 /\ d = 0 /\ p = 0 /\ w = 0
  BY <1>1, <1>2, <1>3, <1>4
<1>7. Once => a <= 1 /\ b <= 1 /\ d <= 1 /\ p <= 1 /\ w <= 1
  BY <1>2, <1>3, <1>4 DEF Once
<1>8. ASSUME Once PROVE Holders(e) <= 1
  <2>1. /\ (a # 0 => b = 0 /\ d = 0 /\ p = 0 /\ w = 0) /\ (b # 0 => d = 0 /\ p = 0 /\ w = 0)
        /\ (d # 0 => p = 0 /\ w = 0) /\ (p # 0 => w = 0)
    BY <1>2, <1>3, <1>4, <1>8 DEF Once
  <2> QED
    BY <2>1, <1>1, <1>2, <1>3, <1>4, <1>7, <1>8
<1> QED
  BY <1>2, <1>3, <1>4, <1>5, <1>6, <1>8

-----------------------------------------------------------------------------
(* Masks.                                                                     *)

LEMMA MaskFacts ==
    ASSUME NEW g \in FDs
    PROVE  /\ g # ServerFD
           /\ Mask(g) = "in" <=> /\ peer[sock[g]] \notin {"rst", "broken"}
                                 /\ inbox[sock[g]] # <<>> \/ peer[sock[g]] \in AfterFin
           /\ Mask(g) = "hup" <=> peer[sock[g]] \in {"rst", "broken"}
<1>1. g # ServerFD
  BY ServerAssumption DEF ServerAssumption
<1> QED
  BY <1>1 DEF Mask

\* An edge is an input's as long as nothing new happens to the connection.
LEMMA SameEdge ==
    ASSUME NEW g \in FDs, sock'[g] = sock[g], g \in ready' => g \in ready,
           inbox'[sock[g]] # <<>> => inbox[sock[g]] # <<>>,
           peer'[sock[g]] = peer[sock[g]] \/ (peer[sock[g]] = "fin" /\ peer'[sock[g]] = "gone"),
           EdgeIn(g)'
    PROVE  EdgeIn(g)
<1>1. g \in ready /\ g # ServerFD
  BY MaskFacts DEF EdgeIn
<1>2. /\ peer'[sock[g]] \notin {"rst", "broken"}
      /\ inbox'[sock[g]] # <<>> \/ peer'[sock[g]] \in AfterFin
  BY <1>1 DEF EdgeIn, Mask
<1>3. /\ peer[sock[g]] \notin {"rst", "broken"}
      /\ inbox[sock[g]] # <<>> \/ peer[sock[g]] \in AfterFin
  BY <1>2 DEF AfterFin
<1> QED
  BY <1>1, <1>3, MaskFacts DEF EdgeIn

-----------------------------------------------------------------------------
(* The last request of a connection that was executed.                        *)

Ran(c) == RequestServer!Ran(c)

LEMMA GreatestIsIn ==
    ASSUME NEW n \in Nat, NEW S \in SUBSET (1..n), S # {}
    PROVE  \E i \in S : \A j \in S : j <= i
<1> DEFINE T == {n - i : i \in S}
<1>1. T \in SUBSET Nat /\ T # {}
  <2>1. \A i \in S : n - i \in Nat
    OBVIOUS
  <2>2. PICK i : i \in S
    OBVIOUS
  <2>3. n - i \in T
    BY <2>2
  <2>4. \A x \in T : x \in Nat
    BY <2>1
  <2> HIDE DEF T
  <2> QED
    BY <2>3, <2>4
<1>2. PICK x \in T : \A y \in T : x <= y
  BY <1>1, LeastExists
<1>3. PICK i \in S : x = n - i
  BY <1>2
<1>4. \A j \in S : n - i <= n - j
  BY <1>2, <1>3
<1> QED
  BY <1>4

LEMMA LatestFacts ==
    ASSUME PlaceTypes, NEW c \in Conns
    PROVE  /\ Latest(c) \in Nat
           /\ Latest(c) # 0 => \E i \in Ran(c) : Latest(c) = executed[i][2] /\ \A j \in Ran(c) : j <= i
<1>1. executed \in Seq(Requests) /\ Len(executed) \in Nat /\ DOMAIN executed = 1..Len(executed)
  BY SeqFacts DEF PlaceTypes
<1>2. Ran(c) = {i \in DOMAIN executed : executed[i][1] = c}
  BY DEF Ran, RequestServer!Ran
<1>3. Latest(c) = IF Ran(c) = {} THEN 0 ELSE executed[CHOOSE i \in Ran(c) : \A j \in Ran(c) : j <= i][2]
  BY DEF Latest, RequestServer!Latest, Ran
<1>4. CASE Ran(c) = {}
  BY <1>3, <1>4
<1>5. CASE Ran(c) # {}
  <2>1. \E i \in Ran(c) : \A j \in Ran(c) : j <= i
    BY <1>1, <1>2, <1>5, GreatestIsIn
  <2> DEFINE m == CHOOSE i \in Ran(c) : \A j \in Ran(c) : j <= i
  <2>2. m \in Ran(c) /\ \A j \in Ran(c) : j <= m
    BY <2>1
  <2>3. Latest(c) = executed[m][2]
    BY <1>3, <1>5
  <2> HIDE DEF m
  <2>4. executed[m] \in Requests
    BY <1>1, <1>2, <2>2, SeqFacts
  <2>5. executed[m][2] \in 1..MaxReq
    BY <2>4 DEF Requests
  <2> QED
    BY <2>2, <2>3, <2>5, ServerAssumption DEF ServerAssumption
<1> QED
  BY <1>4, <1>5

-----------------------------------------------------------------------------
(* The clients' steps.                                                        *)

\* With workers, a client that has all its answers when the server has settled
\* has nothing unread, and nobody is about to look.
LEMMA SettledQuiet ==
    ASSUME IInv, NEW c \in Conns, Settled(c), peer[c] = "up", sent[c] <= Len(wire[c]),
           NEW g \in FDs, sock[g] = c
    PROVE  ~In(g) /\ \A e \in Hands : ev[e].fd # g
<1>1. /\ TypeInv /\ ClientTypes /\ PlaceTypes /\ EventTypes /\ StageOf /\ HasInput /\ TextLast /\ Counts
  BY DEF IInv, TypeInv, Places, Edges, Data
<1>2. c # None
  BY ServerAssumption DEF ServerAssumption
<1>3. \A e \in EventIds : ev[e].fd = g => e \notin Hands
  <2> SUFFICES ASSUME NEW e \in EventIds, ev[e].fd = g PROVE e \notin Hands
    OBVIOUS
  <2>1. Holders(e) = 0
    BY DEF Settled, FDsOf
  <2> QED
    BY <2>1, <1>1, HoldersAndHands
<1>4. \A e \in Hands : ev[e].fd # g
  BY <1>1, <1>3, HandsAreEvents
<1>5. ~(eventMapper[g] # None /\ Taken(eventMapper[g]))
  <2> SUFFICES ASSUME eventMapper[g] # None PROVE ~Taken(eventMapper[g])
    OBVIOUS
  <2>1. eventMapper[g] \in EventIds /\ ev[eventMapper[g]].fd = g
    BY <1>1 DEF PlaceTypes, EventTypes
  <2>2. ev[eventMapper[g]].stage \in {1, 6}
    BY <2>1, <1>1, <1>3 DEF StageOf
  <2> QED
    BY <2>2 DEF Taken
<1>6. Unread(g) = sent[c] - Latest(c)
  BY <1>1, <1>2, <1>5 DEF TextLast, AfterFin
<1>7. Latest(c) \in Nat /\ sent[c] \in Nat /\ Len(wire[c]) \in Nat /\ Len(inbox[c]) \in Nat /\ inbox[c] \in Seq(Requests)
  BY <1>1, LatestFacts, ServerAssumption DEF ClientTypes, ServerAssumption
<1>8. Len(wire[c]) <= Latest(c) /\ Latest(c) <= sent[c]
  BY <1>1 DEF Counts
<1>9. Unread(g) = 0
  BY <1>6, <1>7, <1>8
<1>10. Len(Text(g)) \in Nat
  <2>1. Text(g) \in Seq(Requests)
    <3>1. CASE eventMapper[g] = None
      BY <3>1, Emptied DEF Text
    <3>2. CASE eventMapper[g] # None
      <4>1. eventMapper[g] \in EventIds
        BY <3>2, <1>1 DEF PlaceTypes
      <4>2. ev[eventMapper[g]].buf \in Seq(Requests)
        BY <4>1, <1>1, EventFacts
      <4> QED
        BY <4>2, Emptied DEF Text
    <3> QED
      BY <3>1, <3>2
  <2> QED
    BY <2>1
<1>11. Len(inbox[c]) = 0
  BY <1>7, <1>9, <1>10 DEF Unread
<1>12. inbox[c] = <<>>
  BY <1>7, <1>11, SeqFacts
<1>13. ~In(g)
  BY <1>1, <1>2, <1>12 DEF HasInput
<1> QED
  BY <1>4, <1>13

\* One connection changes, and if epoll is told, nobody is about to look.
LEMMA ConnectionEdges ==
    ASSUME IInv, NEW c \in Conns, UNCHANGED <<sock, loop, ev, readReady>>, Hands' = Hands,
           \A d \in Conns \ {c} : peer'[d] = peer[d] /\ inbox'[d] = inbox[d],
           ready \subseteq ready', ready' \subseteq ready \union FDsOf(c) \union {ServerFD}, FDsOf(c) \subseteq ready',
           peer[c] \in {"rst", "broken"} => peer'[c] \in {"rst", "broken"},
           inbox[c] # <<>> \/ peer[c] # "up" => inbox'[c] # <<>> \/ peer'[c] # "up",
           peer[c] = "rst" => peer'[c] = "rst",
           MultiThreaded => \A g \in FDsOf(c) : EdgeIn(g)' => ~In(g) /\ \A e \in Hands : ev[e].fd # g
    PROVE  Edges'
<1>1. /\ TypeInv /\ ClientTypes /\ PlaceTypes /\ EventTypes /\ Edges
      /\ UNCHANGED <<sock, pc, batch, eventMapper, readTasks, now, pos, ev, readReady>>
      /\ sock \in [FDs -> Conns \union {None}] /\ None \notin Conns /\ c # None
      /\ Hands \subseteq EventIds /\ \A e \in Hands : ev[e].fd \in FDs
  BY HandsAreEvents, ServerAssumption DEF IInv, TypeInv, loop, ClientTypes, EventTypes, ServerAssumption
<1>2. \A g \in FDs : sock[g] # None /\ sock[g] # c =>
          peer'[sock[g]] = peer[sock[g]] /\ inbox'[sock[g]] = inbox[sock[g]]
  BY <1>1
<1>3. \A g \in FDs : In(g)' <=> In(g)
  BY <1>1 DEF In
<1>4. ReadyOpen' /\ OneMask' /\ HungUp'
  <2>1. ReadyOpen'
    BY <1>1 DEF Edges, ReadyOpen, FDsOf
  <2>2. OneMask'
    BY <1>1 DEF Edges, OneMask
  <2>3. HungUp'
    BY <1>1, <1>2 DEF Edges, HungUp
  <2> QED
    BY <2>1, <2>2, <2>3
<1>5. HasInput' /\ ClosedQueued' /\ HeldUnreported' /\ HeldMapped'
  <2>1. HasInput'
    BY <1>1, <1>2, <1>3 DEF Edges, HasInput
  <2>2. ClosedQueued'
    BY <1>1 DEF Edges, ClosedQueued
  <2>3. HeldUnreported'
    BY <1>1 DEF Edges, HeldUnreported, In
  <2>4. HeldMapped'
    BY <1>1 DEF Edges, HeldMapped
  <2> QED
    BY <2>1, <2>2, <2>3, <2>4
<1>6. HeldHasInput'
  BY <1>1, <1>2 DEF Edges, HeldHasInput
<1>7. NoEdgeWhileHeld'
  <2> SUFFICES ASSUME MultiThreaded, NEW g \in FDs, EdgeIn(g)' PROVE ~In(g) /\ \A e \in Hands : ev[e].fd # g
    BY <1>1, <1>3 DEF NoEdgeWhileHeld, MultiThreaded, EdgeIn
  <2>1. CASE sock[g] = c
    BY <2>1 DEF FDsOf
  <2>2. CASE sock[g] # c
    <3>1. g \in ready /\ g # ServerFD
      BY <2>2, MaskFacts DEF EdgeIn, FDsOf
    <3>2. sock[g] # None
      BY <3>1, <1>1 DEF Edges, ReadyOpen
    <3>3. EdgeIn(g)
      BY <3>1, <3>2, <2>2, <1>1, <1>2, SameEdge
    <3> QED
      BY <3>3, <1>1 DEF Edges, NoEdgeWhileHeld
  <2> QED
    BY <2>1, <2>2
<1>8. ServedUnreported'
  BY <1>1 DEF Edges, ServedUnreported, MultiThreaded
<1>9. NoLostEdge'
  <2> SUFFICES ASSUME NEW g \in FDs, sock[g] # None, peer'[sock[g]] = "up", inbox'[sock[g]] # <<>>
               PROVE  \/ g \in ready'
                      \/ In(g)
                      \/ eventMapper[g] \in Hands /\ ev[eventMapper[g]].stage = 1
    BY <1>1, <1>3 DEF NoLostEdge
  <2>1. CASE sock[g] = c
    BY <2>1 DEF FDsOf
  <2>2. CASE sock[g] # c
    BY <2>2, <1>1, <1>2 DEF Edges, NoLostEdge
  <2> QED
    BY <2>1, <2>2
<1>10. LeftUnread'
  <2> SUFFICES ASSUME ~MultiThreaded, pos = 2, NEW e \in Range(now), ev[e].stage = 1 PROVE ReadFails(e)'
    BY <1>1 DEF LeftUnread, MultiThreaded
  <2>1. ReadFails(e) /\ e \in Hands
    BY <1>1 DEF Edges, LeftUnread, Hands
  <2>2. ev[e].fd \in FDs
    BY <2>1, <1>1
  <2> QED
    BY <2>1, <2>2, <1>1, <1>2 DEF ReadFails
<1> QED
  BY <1>4, <1>5, <1>6, <1>7, <1>8, <1>9, <1>10 DEF Edges

LEMMA ClientEdges ==
    ASSUME IInv, Calm, Clients
    PROVE  Edges'
<1>1. PICK c \in Conns : Connect(c) \/ Send(c) \/ Quit(c) \/ Reset(c) \/ Abort(c)
  BY DEF Clients
<1>2. Hands' = Hands
  BY ClientPlaces
<1>3. /\ ClientTypes /\ Patience /\ (MultiThreaded => ~Eager /\ Window = 1)
      /\ UNCHANGED <<sock, loop, ev, readReady>>
      /\ peer \in [Conns -> PeerState] /\ inbox \in [Conns -> Seq(Requests)]
      /\ sent[c] \in Nat /\ Len(wire[c]) \in Nat /\ wire[c] \in Seq(Requests)
  <2>1. /\ ClientTypes /\ Patience /\ (MultiThreaded => ~Eager /\ Window = 1)
    BY DEF IInv, TypeInv, Data, Calm, MultiThreaded
  <2>2. UNCHANGED <<sock, loop, ev, readReady>>
    BY <1>1 DEF Connect, Send, Quit, Reset, Abort
  <2>3. /\ peer \in [Conns -> PeerState] /\ inbox \in [Conns -> Seq(Requests)]
        /\ wire[c] \in Seq(Requests) /\ sent[c] \in 0..MaxReq
    BY <2>1 DEF ClientTypes
  <2> QED
    BY <2>1, <2>2, <2>3, ServerAssumption DEF ServerAssumption
<1>4. FDsOf(c) \subseteq FDs /\ \A g \in FDsOf(c) : sock[g] = c /\ sock'[g] = c
  <2>1. sock' = sock
    BY <1>3
  <2>2. \A g \in FDsOf(c) : g \in FDs /\ sock[g] = c
    BY DEF FDsOf
  <2> QED
    BY <2>1, <2>2
<1>5. CASE Connect(c)
  <2>1. FDsOf(c) = {}
    <3>1. phase[c] = "new" /\ c # None
      BY <1>5, ServerAssumption DEF Connect, ServerAssumption
    <3>2. \A g \in FDs : sock[g] # c
      BY <3>1, <1>3 DEF ClientTypes
    <3> QED
      BY <3>2 DEF FDsOf
  <2>2. peer' = peer /\ inbox' = inbox /\ ready' = ready \union {ServerFD}
    BY <1>5 DEF Connect
  <2> QED
    BY <2>1, <2>2, <1>2, <1>3, ConnectionEdges
<1>6. CASE Send(c)
  <2>1. /\ peer[c] = "up" /\ sent[c] - Len(wire[c]) < Window /\ Patient(c)
        /\ inbox' = [inbox EXCEPT ![c] = Append(@, <<c, sent[c] + 1>>)]
        /\ ready' = ready \union FDsOf(c) /\ peer' = peer
    BY <1>6 DEF Send
  <2>2. inbox'[c] # <<>> /\ \A d \in Conns \ {c} : inbox'[d] = inbox[d]
    <3>1. inbox'[c] = Append(inbox[c], <<c, sent[c] + 1>>)
      BY <2>1, <1>3
    <3> QED
      BY <3>1, <2>1, <1>3
  <2>3. MultiThreaded => \A g \in FDsOf(c) : ~In(g) /\ \A e \in Hands : ev[e].fd # g
    <3> SUFFICES ASSUME MultiThreaded, NEW g \in FDsOf(c) PROVE ~In(g) /\ \A e \in Hands : ev[e].fd # g
      OBVIOUS
    <3>1. Settled(c)
      BY <2>1, <1>3 DEF Patient
    <3>2. sent[c] <= Len(wire[c])
      BY <2>1, <1>3
    <3> QED
      BY <3>1, <3>2, <2>1, <1>4, SettledQuiet
  <2> QED
    BY <2>1, <2>2, <2>3, <1>2, <1>3, ConnectionEdges
<1>7. CASE Quit(c)
  <2>1. /\ peer[c] = "up" /\ Patient(c) /\ (~Eager => Len(wire[c]) = sent[c])
        /\ inbox' = inbox /\ ready' = ready \union FDsOf(c)
        /\ \E unread \in {"fin", "gone"} : peer' = [peer EXCEPT ![c] = unread]
    BY <1>7 DEF Quit
  <2>2. peer'[c] \in {"fin", "gone"} /\ \A d \in Conns \ {c} : peer'[d] = peer[d]
    BY <2>1, <1>3
  <2>3. MultiThreaded => \A g \in FDsOf(c) : ~In(g) /\ \A e \in Hands : ev[e].fd # g
    <3> SUFFICES ASSUME MultiThreaded, NEW g \in FDsOf(c) PROVE ~In(g) /\ \A e \in Hands : ev[e].fd # g
      OBVIOUS
    <3>1. Settled(c) /\ sent[c] <= Len(wire[c])
      BY <2>1, <1>3 DEF Patient
    <3> QED
      BY <3>1, <2>1, <1>4, SettledQuiet
  <2> QED
    BY <2>1, <2>2, <2>3, <1>2, <1>3, ConnectionEdges
<1>8. CASE Reset(c)
  <2>1. /\ peer[c] = "gone" /\ peer' = [peer EXCEPT ![c] = "broken"]
        /\ inbox' = inbox /\ ready' = ready \union FDsOf(c)
    BY <1>8 DEF Reset
  <2>2. peer'[c] = "broken" /\ \A d \in Conns \ {c} : peer'[d] = peer[d]
    BY <2>1, <1>3
  <2>3. ~MultiThreaded
    BY <2>1, <1>3 DEF Patience
  <2> QED
    BY <2>1, <2>2, <2>3, <1>2, <1>3, ConnectionEdges
<1>9. CASE Abort(c)
  <2>1. /\ peer[c] = "up" /\ peer' = [peer EXCEPT ![c] = "rst"]
        /\ inbox' = [inbox EXCEPT ![c] = <<>>] /\ ready' = ready \union FDsOf(c)
    BY <1>9 DEF Abort
  <2>2. peer'[c] = "rst" /\ \A d \in Conns \ {c} : peer'[d] = peer[d] /\ inbox'[d] = inbox[d]
    BY <2>1, <1>3
  <2>3. \A g \in FDsOf(c) : ~EdgeIn(g)'
    <3> SUFFICES ASSUME NEW g \in FDs, sock[g] = c PROVE ~EdgeIn(g)'
      BY DEF FDsOf
    <3>1. sock'[g] = c /\ g # ServerFD
      BY <1>3, MaskFacts
    <3> QED
      BY <3>1, <2>2 DEF EdgeIn, Mask
  <2> QED
    BY <2>1, <2>2, <2>3, <1>2, <1>3, ConnectionEdges
<1> QED
  BY <1>1, <1>5, <1>6, <1>7, <1>8, <1>9

-----------------------------------------------------------------------------
(* The loop thread's steps between the calls.                                 *)

LEMMA EpollWaitEdges ==
    ASSUME IInv, EpollWait
    PROVE  Edges'
<1>1. /\ TypeInv /\ ClientTypes /\ PlaceTypes /\ EventTypes /\ Edges /\ Turn /\ pc = "wait"
      /\ UNCHANGED <<sock, peer, inbox, eventMapper, readTasks, now, pos, ev, readReady, pool, worker>>
  BY DEF IInv, TypeInv, Places, EpollWait
<1>2. PICK fds \in SUBSET Reported :
          /\ batch' = {<<g, Mask(g)>> : g \in fds}
          /\ ready' = Reported \ fds
  BY DEF EpollWait
<1>3. Hands' = Hands /\ Hands \subseteq EventIds /\ \A e \in Hands : ev[e].fd \in FDs
  BY <1>1, ReportPlaces, HandsAreEvents DEF EventTypes
<1>4. ~MultiThreaded => now = <<>> /\ Hands = {} /\ Range(now) = {}
  <2> SUFFICES ASSUME ~MultiThreaded PROVE now = <<>> /\ Hands = {} /\ Range(now) = {}
    OBVIOUS
  <2>1. now = <<>>
    BY <1>1 DEF Turn
  <2> QED
    BY <2>1, <1>1, SingleHands, Emptied
<1>5. \A g \in FDs : g \in Reported <=> g \in ready
  BY ServerAssumption DEF Reported, ServerAssumption
<1>6. \A g \in FDs : Mask(g)' = Mask(g)
  BY <1>1, MaskFacts DEF Mask
<1>7. \A g \in FDs : (EdgeIn(g)' => EdgeIn(g) /\ g \notin fds) /\ (g \in ready' <=> g \in ready /\ g \notin fds)
  BY <1>2, <1>5, <1>6 DEF EdgeIn
<1>8. \A g, m : <<g, m>> \in batch' <=> g \in fds /\ m = Mask(g)
  BY <1>2
<1>9. \A g \in FDs : In(g)' <=> g \in fds /\ EdgeIn(g)
  BY <1>5, <1>8 DEF In, EdgeIn
<1>10. \A g \in FDs : g \in ready => sock[g] # None /\ sock[g] \in Conns
  BY <1>1, MaskFacts DEF Edges, ReadyOpen, ClientTypes
<1>11. ReadyOpen'
  BY <1>1, <1>2 DEF Edges, ReadyOpen, Reported
<1>12. OneMask'
  BY <1>2 DEF OneMask
<1>13. HungUp'
  BY <1>1, <1>8, MaskFacts DEF HungUp
<1>14. HasInput'
  <2> SUFFICES ASSUME NEW g \in FDs, In(g)'
               PROVE  sock[g] # None /\ (inbox[sock[g]] # <<>> \/ peer[sock[g]] # "up")
    BY <1>1 DEF HasInput
  <2>1. EdgeIn(g)
    BY <1>9
  <2> QED
    BY <2>1, <1>10, MaskFacts DEF EdgeIn, AfterFin
<1>15. ClosedQueued'
  <2> SUFFICES ASSUME NEW x \in batch', x[1] \in FDs, sock[x[1]] = None PROVE FALSE
    BY <1>1 DEF ClosedQueued
  <2>1. x[1] \in fds
    BY <1>2
  <2> QED
    BY <2>1, <1>5, <1>10
<1>16. HeldUnreported'
  <2> SUFFICES ASSUME NEW e \in Hands, In(ev[e].fd)' PROVE FALSE
    BY <1>1, <1>3 DEF HeldUnreported
  <2> PICK g : g = ev[e].fd
    OBVIOUS
  <2>1. g \in FDs /\ g \in fds /\ EdgeIn(g)
    BY <1>1, <1>3, <1>9
  <2> QED
    BY <2>1, <1>1, <1>4 DEF Edges, NoEdgeWhileHeld
<1>17. HeldMapped' /\ HeldHasInput'
  BY <1>1, <1>3 DEF Edges, HeldMapped, HeldHasInput
<1>18. NoEdgeWhileHeld'
  <2>1. \A e \in Hands : MultiThreaded => ~EdgeIn(ev[e].fd)'
    <3> SUFFICES ASSUME NEW e \in Hands, MultiThreaded, EdgeIn(ev[e].fd)' PROVE FALSE
      OBVIOUS
    <3> PICK g : g = ev[e].fd
      OBVIOUS
    <3>1. g \in FDs /\ EdgeIn(g)
      BY <1>1, <1>3, <1>7
    <3> QED
      BY <3>1, <1>1 DEF Edges, NoEdgeWhileHeld
  <2>2. \A g \in FDs : In(g)' => ~EdgeIn(g)'
    BY <1>7, <1>9
  <2> QED
    BY <2>1, <2>2, <1>1, <1>3 DEF NoEdgeWhileHeld, MultiThreaded
<1>19. ServedUnreported' /\ LeftUnread'
  BY <1>1, <1>4 DEF ServedUnreported, LeftUnread, MultiThreaded
<1>20. NoLostEdge'
  <2> SUFFICES ASSUME NEW g \in FDs, sock[g] # None, peer[sock[g]] = "up", inbox[sock[g]] # <<>>
               PROVE  \/ g \in ready'
                      \/ In(g)'
                      \/ eventMapper[g] \in Hands /\ ev[eventMapper[g]].stage = 1
    BY <1>1, <1>3 DEF NoLostEdge
  <2>1. Mask(g) = "in"
    BY MaskFacts
  <2>2. ~In(g)
    BY <1>1 DEF Turn, In
  <2>3. g \in ready \/ (eventMapper[g] \in Hands /\ ev[eventMapper[g]].stage = 1)
    BY <2>2, <1>1 DEF Edges, NoLostEdge
  <2> QED
    BY <2>1, <2>3, <1>7, <1>9 DEF EdgeIn
<1> QED
  BY <1>11, <1>12, <1>13, <1>14, <1>15, <1>16, <1>17, <1>18, <1>19, <1>20 DEF Edges

\* Steps that change neither connections nor events: reports of FDs may be dropped
\* that say that a connection is writable, and in one thread nothing is in hand.
LEMMA SameEdges ==
    ASSUME IInv, UNCHANGED <<sock, peer, inbox, ready, eventMapper, ev>>, Hands' = Hands, batch' \subseteq batch,
           \A g \in FDs : In(g) => In(g)', batch' = {} \/ readReady' = readReady,
           MultiThreaded \/ (now' = now /\ pos' = pos)
    PROVE  Edges'
<1>1. /\ TypeInv /\ EventTypes /\ Edges /\ UNCHANGED <<sock, peer, inbox, ready, eventMapper, ev>>
      /\ \A e \in Hands : ev[e].fd \in FDs
  BY DEF IInv, TypeInv, EventTypes
<1>2. \A g \in FDs : (In(g)' <=> In(g)) /\ Mask(g)' = Mask(g) /\ (EdgeIn(g)' <=> EdgeIn(g))
  BY <1>1, MaskFacts DEF In, EdgeIn, Mask
<1>3. ReadyOpen' /\ OneMask' /\ HungUp' /\ HasInput' /\ ClosedQueued'
  BY <1>1, <1>2 DEF Edges, ReadyOpen, OneMask, HungUp, HasInput, ClosedQueued
<1>4. HeldUnreported'
  BY <1>1 DEF Edges, HeldUnreported, In
<1>5. HeldMapped' /\ HeldHasInput'
  BY <1>1 DEF Edges, HeldMapped, HeldHasInput
<1>6. NoEdgeWhileHeld'
  <2>1. \A e \in Hands : EdgeIn(ev[e].fd)' => EdgeIn(ev[e].fd)
    <3> SUFFICES ASSUME NEW e \in Hands, EdgeIn(ev[e].fd)' PROVE EdgeIn(ev[e].fd)
      OBVIOUS
    <3> PICK g : g = ev[e].fd
      OBVIOUS
    <3>1. g \in FDs /\ EdgeIn(g)'
      BY <1>1
    <3> QED
      BY <3>1, <1>2
  <2> QED
    BY <2>1, <1>1, <1>2 DEF Edges, NoEdgeWhileHeld, MultiThreaded
<1>7. ServedUnreported' /\ LeftUnread'
  <2>1. \A e : ReadFails(e)' <=> ReadFails(e)
    BY <1>1 DEF ReadFails
  <2> QED
    BY <2>1, <1>1 DEF Edges, ServedUnreported, LeftUnread, MultiThreaded
<1>8. NoLostEdge'
  BY <1>1, <1>2 DEF Edges, NoLostEdge
<1> QED
  BY <1>3, <1>4, <1>5, <1>6, <1>7, <1>8 DEF Edges

\* A descriptor that accept gives out is nobody's who is still served.
LEMMA AcceptedUnheld ==
    ASSUME IInv, Accept, backlog # <<>>, NEW f \in FDs, sock[f] = None
    PROVE  \A e \in Hands : ev[e].fd # f
<1>1. CASE MultiThreaded
  BY <1>1 DEF IInv, Arrivals
<1>2. CASE ~MultiThreaded
  <2>1. /\ pc = "accept" /\ Turn /\ Workers = {}
    BY <1>2 DEF Accept, IInv, Places, MultiThreaded
  <2>2. readTasks = <<>> /\ now = <<>> /\ readReady = <<>> /\ pool = <<>>
    BY <1>2, <2>1 DEF Turn
  <2>3. Hands = {}
    BY <2>1, <2>2 DEF Hands, Range, EventsOf, Working
  <2> QED
    BY <2>3
<1> QED
  BY <1>1, <1>2

LEMMA AcceptEdges ==
    ASSUME IInv, Accept
    PROVE  Edges'
<1>1. /\ TypeInv /\ ClientTypes /\ PlaceTypes /\ EventTypes /\ Edges /\ Turn
      /\ pc = "accept" /\ FreeFDs # {}
      /\ UNCHANGED <<peer, inbox, batch, eventMapper, readTasks, now, pos, ev, readReady, pool, worker>>
      /\ sock \in [FDs -> Conns \union {None}]
  BY DEF IInv, TypeInv, Places, Accept, ClientTypes
<1>2. Hands' = Hands /\ Hands \subseteq EventIds /\ \A e \in Hands : ev[e].fd \in FDs
  BY <1>1, ReportPlaces, HandsAreEvents DEF EventTypes
<1>3. CASE backlog = <<>> /\ UNCHANGED <<sock, ready>>
  BY <1>1, <1>2, <1>3, SameEdges DEF In
<1>4. CASE /\ backlog # <<>>
           /\ sock' = [sock EXCEPT ![LeastOf(FreeFDs)] = Head(backlog)]
           /\ ready' = ready \union {LeastOf(FreeFDs)}
  <2> PICK f, c : f = LeastOf(FreeFDs) /\ c = Head(backlog)
    OBVIOUS
  <2>1. f \in FDs /\ sock[f] = None
    <3>1. FreeFDs \in SUBSET Nat
      BY ServerAssumption DEF FreeFDs, ServerAssumption
    <3>2. f \in FreeFDs
      BY <3>1, <1>1, LeastIsIn
    <3> QED
      BY <3>2 DEF FreeFDs
  <2>2. c \in Conns /\ c # None
    <3>1. c \in Conns
      BY <1>1, <1>4, RangeTail DEF ClientTypes
    <3> QED
      BY <3>1, ServerAssumption DEF ServerAssumption
  <2>3. /\ sock' = [sock EXCEPT ![f] = c] /\ ready' = ready \union {f}
        /\ sock'[f] = c /\ \A g \in FDs \ {f} : sock'[g] = sock[g]
    BY <1>1, <1>4, <2>1
  <2>5. \A e \in Hands : ev[e].fd # f
    BY <1>4, <2>1, AcceptedUnheld
  <2>6. \A x \in batch : x[1] # f
    <3> SUFFICES ASSUME NEW x \in batch, x[1] = f PROVE FALSE
      OBVIOUS
    <3>1. eventMapper[f] \in Range(readReady)
      BY <2>1, <1>1 DEF Edges, ClosedQueued
    <3>2. eventMapper[f] \in Hands /\ eventMapper[f] # None
      BY <3>1, <1>2, ServerAssumption DEF Hands, ServerAssumption
    <3>3. ev[eventMapper[f]].fd = f
      BY <2>1, <3>2, <1>1 DEF EventTypes
    <3> QED
      BY <3>2, <3>3, <2>5
  <2>7. ~In(f) /\ \A g \in FDs : In(g)' <=> In(g)
    BY <1>1, <2>6 DEF In
  <2>8. \A g \in FDs \ {f} : EdgeIn(g)' => EdgeIn(g)
    BY <1>1, <2>3, MaskFacts DEF EdgeIn, Mask
  <2>9. ReadyOpen'
    BY <1>1, <2>1, <2>2, <2>3 DEF Edges, ReadyOpen
  <2>10. OneMask' /\ HungUp'
    BY <1>1, <2>1, <2>3, <2>6 DEF Edges, OneMask, HungUp
  <2>11. HasInput' /\ ClosedQueued'
    BY <1>1, <2>1, <2>2, <2>3, <2>6, <2>7 DEF Edges, HasInput, ClosedQueued
  <2>12. HeldUnreported'
    BY <1>1, <1>2 DEF Edges, HeldUnreported, In
  <2>13. HeldMapped' /\ HeldHasInput'
    BY <1>1, <1>2, <2>3, <2>5 DEF Edges, HeldMapped, HeldHasInput
  <2>14. NoEdgeWhileHeld'
    <3>1. \A e \in Hands : EdgeIn(ev[e].fd)' => EdgeIn(ev[e].fd)
      <4> SUFFICES ASSUME NEW e \in Hands, EdgeIn(ev[e].fd)' PROVE EdgeIn(ev[e].fd)
        OBVIOUS
      <4> PICK g : g = ev[e].fd
        OBVIOUS
      <4>1. g \in FDs \ {f} /\ EdgeIn(g)'
        BY <1>1, <1>2, <2>5
      <4> QED
        BY <4>1, <2>8
    <3>2. \A g \in FDs : In(g)' => ~EdgeIn(g)' \/ ~MultiThreaded
      BY <1>1, <2>7, <2>8 DEF Edges, NoEdgeWhileHeld
    <3> QED
      BY <3>1, <3>2, <1>1, <1>2 DEF Edges, NoEdgeWhileHeld, MultiThreaded
  <2>15. ServedUnreported' /\ LeftUnread'
    <3>1. ~MultiThreaded => Range(now) = {}
      BY <1>1, Emptied DEF Turn
    <3> QED
      BY <3>1, <1>1 DEF ServedUnreported, LeftUnread, MultiThreaded
  <2>16. NoLostEdge'
    BY <1>1, <1>2, <2>3, <2>7 DEF Edges, NoLostEdge
  <2> QED
    BY <2>9, <2>10, <2>11, <2>12, <2>13, <2>14, <2>15, <2>16 DEF Edges
<1> QED
  BY <1>3, <1>4 DEF Accept

\* A descriptor is closed, and with it goes the connection.
LEMMA CloseFacts ==
    ASSUME ClientTypes, Edges, NEW f \in FDs, CloseFD(f), UNCHANGED peer
    PROVE  /\ sock'[f] = None /\ \A g \in FDs : sock'[g] # None => g # f /\ sock'[g] = sock[g]
           /\ \A g \in FDs : sock[g] # None /\ g # f =>
                 sock[g] \in Conns /\ sock'[g] = sock[g] /\ inbox'[sock[g]] = inbox[sock[g]] /\ peer'[sock[g]] = peer[sock[g]]
           /\ ready' = ready \ {f} /\ ReadyOpen'
           /\ \A g \in FDs : EdgeIn(g)' => g # f /\ EdgeIn(g)
<1>1. /\ \A g \in FDs : sock'[g] = IF g = f THEN None ELSE sock[g]
      /\ \A c \in Conns : inbox'[c] = IF c = sock[f] THEN <<>> ELSE inbox[c]
      /\ ready' = ready \ {f} /\ ReadyOpen
      /\ \A g \in FDs : sock[g] # None => sock[g] \in Conns /\ (g # f => sock[g] # sock[f])
  BY Closes DEF ClientTypes, Edges
<1>2. \A g \in FDs : sock[g] # None /\ g # f =>
        sock[g] \in Conns /\ sock'[g] = sock[g] /\ inbox'[sock[g]] = inbox[sock[g]] /\ peer'[sock[g]] = peer[sock[g]]
  BY <1>1
<1>3. ReadyOpen'
  <2>1. ready \subseteq FDs \union {ServerFD}
    BY DEF ClientTypes
  <2> QED
    BY <1>1, <2>1 DEF ReadyOpen
<1>4. \A g \in FDs : EdgeIn(g)' => g # f /\ EdgeIn(g)
  <2> SUFFICES ASSUME NEW g \in FDs, EdgeIn(g)' PROVE g # f /\ EdgeIn(g)
    OBVIOUS
  <2>1. g \in ready /\ g # f /\ g # ServerFD
    BY <1>1, MaskFacts DEF EdgeIn
  <2>2. sock[g] # None
    BY <2>1, <1>1 DEF ReadyOpen
  <2> QED
    BY <1>2, <2>1, <2>2, SameEdge
<1> QED
  BY <1>1, <1>2, <1>3, <1>4

LEMMA HangUpEdges ==
    ASSUME IInv, NEW f \in FDs, HangUp(f)
    PROVE  Edges'
<1>1. /\ TypeInv /\ ClientTypes /\ PlaceTypes /\ EventTypes /\ Edges /\ Turn
      /\ now = <<>> /\ <<f, "hup">> \in batch /\ batch' = batch \ {<<f, "hup">>} /\ CloseFD(f)
      /\ eventMapper' = [eventMapper EXCEPT ![f] = None]
      /\ UNCHANGED <<peer, readTasks, now, pos, ev, readReady, pool, worker>>
  BY DEF IInv, TypeInv, Places, HangUp
<1>2. Hands' = Hands /\ Hands \subseteq EventIds /\ \A e \in Hands : ev[e].fd \in FDs
  BY <1>1, ReportPlaces, HandsAreEvents DEF EventTypes
<1>3. /\ sock'[f] = None /\ \A g \in FDs : sock'[g] # None => g # f /\ sock'[g] = sock[g]
      /\ \A g \in FDs : sock[g] # None /\ g # f =>
            sock[g] \in Conns /\ sock'[g] = sock[g] /\ inbox'[sock[g]] = inbox[sock[g]] /\ peer'[sock[g]] = peer[sock[g]]
      /\ ready' = ready \ {f} /\ ReadyOpen'
      /\ \A g \in FDs : EdgeIn(g)' => g # f /\ EdgeIn(g)
  BY <1>1, CloseFacts
<1>4. \A x \in batch' : x \in batch /\ x[1] # f
  BY <1>1 DEF Edges, OneMask
<1>5. \A g \in FDs : eventMapper'[g] = IF g = f THEN None ELSE eventMapper[g]
  BY <1>1 DEF PlaceTypes
<1>6. \A g \in FDs : (In(g)' => In(g) /\ g # f) /\ (In(g) /\ g # f => In(g)')
  BY <1>1, <1>4 DEF In
<1>7. OneMask' /\ HungUp'
  BY <1>1, <1>3, <1>4 DEF Edges, OneMask, HungUp
<1>8. HasInput'
  BY <1>1, <1>3, <1>6 DEF Edges, HasInput
<1>9. ClosedQueued'
  <2> SUFFICES ASSUME NEW x \in batch', x[1] \in FDs, sock'[x[1]] = None PROVE eventMapper'[x[1]] \in Range(readReady)
    BY <1>1 DEF ClosedQueued
  <2>1. x \in batch /\ x[1] # f
    BY <1>4
  <2>2. sock[x[1]] = None
    BY <2>1, <1>3
  <2> QED
    BY <2>1, <2>2, <1>1, <1>5 DEF Edges, ClosedQueued
<1>10. HeldUnreported'
  BY <1>1, <1>2 DEF Edges, HeldUnreported, In
<1>11. HeldMapped'
  BY <1>1, <1>2, <1>3, <1>5 DEF Edges, HeldMapped
<1>12. HeldHasInput'
  <2> SUFFICES ASSUME NEW e \in Hands, ev[e].stage = 1, sock'[ev[e].fd] # None
               PROVE  inbox'[sock'[ev[e].fd]] # <<>> \/ peer[sock'[ev[e].fd]] # "up"
    BY <1>1, <1>2 DEF HeldHasInput
  <2>1. ev[e].fd # f /\ ev[e].fd \in FDs /\ sock[ev[e].fd] # None
    BY <1>2, <1>3
  <2> QED
    BY <2>1, <1>1, <1>3 DEF Edges, HeldHasInput
<1>13. NoEdgeWhileHeld'
  <2>1. \A e \in Hands : EdgeIn(ev[e].fd)' => EdgeIn(ev[e].fd)
    <3> SUFFICES ASSUME NEW e \in Hands, EdgeIn(ev[e].fd)' PROVE EdgeIn(ev[e].fd)
      OBVIOUS
    <3> PICK g : g = ev[e].fd
      OBVIOUS
    <3>1. g \in FDs /\ EdgeIn(g)'
      BY <1>1, <1>2
    <3> QED
      BY <3>1, <1>3
  <2>2. \A g \in FDs : In(g)' => ~EdgeIn(g)' \/ ~MultiThreaded
    BY <1>1, <1>3, <1>6 DEF Edges, NoEdgeWhileHeld
  <2> QED
    BY <2>1, <2>2, <1>1, <1>2 DEF Edges, NoEdgeWhileHeld, MultiThreaded
<1>14. ServedUnreported' /\ LeftUnread'
  <2>1. Range(now) = {}
    BY <1>1, Emptied
  <2> QED
    BY <2>1, <1>1 DEF ServedUnreported, LeftUnread, MultiThreaded
<1>15. NoLostEdge'
  <2> SUFFICES ASSUME NEW g \in FDs, sock'[g] # None, peer'[sock'[g]] = "up", inbox'[sock'[g]] # <<>>
               PROVE  \/ g \in ready'
                      \/ In(g)'
                      \/ eventMapper'[g] \in Hands /\ ev[eventMapper'[g]].stage = 1
    BY <1>1, <1>2 DEF NoLostEdge
  <2>1. g # f /\ sock[g] # None /\ peer[sock[g]] = "up" /\ inbox[sock[g]] # <<>>
    BY <1>3
  <2>2. g \in ready \/ In(g) \/ (eventMapper[g] \in Hands /\ ev[eventMapper[g]].stage = 1)
    BY <2>1, <1>1 DEF Edges, NoLostEdge
  <2> QED
    BY <2>1, <2>2, <1>3, <1>5, <1>6
<1> QED
  BY <1>3, <1>7, <1>8, <1>9, <1>10, <1>11, <1>12, <1>13, <1>14, <1>15 DEF Edges

\* The steps that only move the loop thread, or lists.
LEMMA MovesEdges ==
    ASSUME IInv, Listening \/ Dispatched \/ Swap \/ HandOver \/ \E f \in FDs : Writable(f)
    PROVE  Edges'
<1>1. UNCHANGED <<sock, peer, inbox, ready, eventMapper, ev>> /\ batch' \subseteq batch
  BY DEF Listening, Dispatched, Swap, HandOver, Writable, kernel
<1>2. \A g \in FDs : In(g) => In(g)'
  <2>1. CASE Listening
    BY <2>1, ServerAssumption DEF Listening, In, ServerAssumption
  <2>2. CASE \E f \in FDs : Writable(f)
    BY <2>2 DEF Writable, In
  <2>3. CASE Dispatched \/ Swap \/ HandOver
    <3>1. batch' = batch
      BY <2>3 DEF Dispatched, Swap, HandOver
    <3> QED
      BY <3>1 DEF In
  <2> QED
    BY <2>1, <2>2, <2>3
<1>3. Hands' = Hands
  BY ReportPlaces, DispatchedPlaces, SwapPlaces, HandOverPlaces
<1>4. batch' = {} \/ readReady' = readReady
  <2>1. CASE Swap
    <3>1. batch = {} /\ batch' = batch
      BY <2>1, SwapPlaces DEF Swap
    <3> QED
      BY <3>1
  <2>2. CASE ~Swap
    BY <2>2 DEF Listening, Dispatched, HandOver, Writable
  <2> QED
    BY <2>1, <2>2
<1>5. MultiThreaded \/ (now' = now /\ pos' = pos)
  <2>1. CASE Swap \/ HandOver
    BY <2>1, SwapPlaces, HandOverPlaces
  <2>2. CASE ~(Swap \/ HandOver)
    BY <2>2 DEF Listening, Dispatched, Writable
  <2> QED
    BY <2>1, <2>2
<1> QED
  BY <1>1, <1>2, <1>3, <1>4, <1>5, SameEdges

LEMMA ServedEdges ==
    ASSUME IInv, Served
    PROVE  Edges'
<1>1. /\ TypeInv /\ PlaceTypes /\ EventTypes /\ Edges /\ Turn /\ pos > Len(now) /\ now # <<>> /\ now' = <<>>
      /\ UNCHANGED <<sock, peer, inbox, ready, batch, eventMapper, ev, readReady>>
  BY DEF IInv, TypeInv, Places, Served, kernel
<1>2. ~MultiThreaded /\ Hands' = {} /\ Range(now') = {}
  BY <1>1, ServedPlaces, Emptied
<1>3. Hands = Range(now)
  BY <1>1, <1>2, SingleHands
<1>4. pos = 2
  <2>1. now \in Seq(EventIds) /\ Len(now) \in Nat /\ Len(now) # 0 /\ Len(now) <= 1 /\ pos <= Len(now) + 1
    BY <1>1, <1>2, SeqFacts DEF PlaceTypes, Turn
  <2> QED
    BY <2>1, <1>1 DEF PlaceTypes
<1>5. \A g \in FDs : In(g)' <=> In(g)
  BY <1>1 DEF In
<1>6. ReadyOpen' /\ OneMask' /\ HungUp' /\ HasInput' /\ ClosedQueued'
  BY <1>1, <1>5 DEF Edges, ReadyOpen, OneMask, HungUp, HasInput, ClosedQueued
<1>7. /\ HeldUnreported' /\ HeldMapped' /\ HeldHasInput' /\ ServedUnreported' /\ LeftUnread' /\ NoEdgeWhileHeld'
  BY <1>1, <1>2 DEF HeldUnreported, HeldMapped, HeldHasInput, ServedUnreported, LeftUnread, NoEdgeWhileHeld, MultiThreaded
<1>8. NoLostEdge'
  <2> SUFFICES ASSUME NEW g \in FDs, sock[g] # None, peer[sock[g]] = "up", inbox[sock[g]] # <<>>
               PROVE  g \in ready \/ In(g)
    BY <1>1, <1>5 DEF NoLostEdge
  <2>1. CASE eventMapper[g] \in Hands /\ ev[eventMapper[g]].stage = 1
    <3>1. ReadFails(eventMapper[g])
      BY <2>1, <1>1, <1>2, <1>3, <1>4 DEF Edges, LeftUnread
    <3>2. ev[eventMapper[g]].fd = g
      <4>1. eventMapper[g] # None
        BY <2>1, <1>1, HandsAreEvents, ServerAssumption DEF ServerAssumption
      <4> QED
        BY <4>1, <1>1 DEF EventTypes
    <3> QED
      BY <3>1, <3>2 DEF ReadFails
  <2> QED
    BY <2>1, <1>1 DEF Edges, NoLostEdge
<1> QED
  BY <1>6, <1>7, <1>8 DEF Edges

LEMMA ReadableEdges ==
    ASSUME IInv, NEW fd \in FDs, Readable(fd)
    PROVE  Edges'
<1>1. PICK e \in EventIds : Starts(fd, e) /\ Target(e)
  BY ReadableStarts
<1>2. /\ TypeInv /\ ClientTypes /\ PlaceTypes /\ EventTypes /\ Edges /\ Turn /\ now = <<>>
      /\ eventMapper \in [FDs -> EventIds \union {None}]
  BY DEF IInv, TypeInv, Places, Readable, PlaceTypes
<1>3. /\ e \notin Hands /\ In(fd) /\ batch' = batch \ {<<fd, "in">>}
      /\ Hands' = Hands \union {e} /\ eventMapper' = [eventMapper EXCEPT ![fd] = e]
      /\ \A f \in EventIds \ {e} : ev'[f] = ev[f]
      /\ ev'[e].fd = fd /\ ev'[e].stage = 1
      /\ UNCHANGED <<sock, peer, inbox, ready, readReady>>
  BY <1>1 DEF Starts, kernel
<1>4. /\ \A f \in Hands : f # e /\ f \in EventIds /\ ev'[f] = ev[f] /\ ev[f].fd \in FDs /\ ev[f].fd # fd
      /\ eventMapper'[fd] = e /\ \A g \in FDs \ {fd} : eventMapper'[g] = eventMapper[g]
  <2>1. \A f \in Hands : f # e /\ f \in EventIds /\ ev'[f] = ev[f] /\ ev[f].fd \in FDs
    BY <1>2, <1>3, HandsAreEvents DEF EventTypes
  <2>2. \A f \in Hands : ev[f].fd # fd
    BY <1>2, <1>3 DEF Edges, HeldUnreported
  <2> QED
    BY <2>1, <2>2, <1>2, <1>3
<1>5. /\ \A g \in FDs : (In(g)' <=> In(g) /\ g # fd)
      /\ sock[fd] # None /\ (inbox[sock[fd]] # <<>> \/ peer[sock[fd]] # "up")
  BY <1>2, <1>3 DEF In, Edges, HasInput
<1>6. \A g \in FDs : EdgeIn(g)' <=> EdgeIn(g)
  BY <1>3, MaskFacts DEF EdgeIn, Mask
<1>7. ReadyOpen' /\ OneMask' /\ HungUp' /\ HasInput'
  BY <1>2, <1>3, <1>5 DEF Edges, ReadyOpen, OneMask, HungUp, HasInput
<1>8. ClosedQueued'
  <2> SUFFICES ASSUME NEW x \in batch', x[1] \in FDs, sock[x[1]] = None PROVE eventMapper'[x[1]] \in Range(readReady)
    BY <1>3 DEF ClosedQueued
  <2>1. x \in batch /\ x[1] # fd
    BY <1>3, <1>5
  <2> QED
    BY <2>1, <1>2, <1>4 DEF Edges, ClosedQueued
<1>9. HeldUnreported'
  <2> SUFFICES ASSUME NEW f \in Hands' PROVE ~In(ev[f].fd)'
    BY DEF HeldUnreported
  <2>1. CASE f = e
    <3>1. <<ev'[f].fd, "in">> \notin batch'
      BY <2>1, <1>3
    <3> QED
      BY <3>1 DEF In
  <2>2. CASE f \in Hands
    <3>1. <<ev[f].fd, "in">> \notin batch
      BY <2>2, <1>2 DEF Edges, HeldUnreported, In
    <3>2. <<ev'[f].fd, "in">> \notin batch'
      BY <3>1, <2>2, <1>3, <1>4
    <3> QED
      BY <3>2 DEF In
  <2> QED
    BY <2>1, <2>2, <1>3
<1>10. HeldMapped'
  BY <1>2, <1>3, <1>4 DEF Edges, HeldMapped
<1>11. HeldHasInput'
  BY <1>2, <1>3, <1>4, <1>5 DEF Edges, HeldHasInput
<1>12. NoEdgeWhileHeld'
  <2> SUFFICES ASSUME MultiThreaded
               PROVE  /\ \A f \in Hands' : ~EdgeIn(ev[f].fd)'
                      /\ \A g \in FDs : In(g)' => ~EdgeIn(g)'
    BY DEF NoEdgeWhileHeld, MultiThreaded
  <2>1. \A g \in FDs : In(g)' => ~EdgeIn(g)'
    BY <1>2, <1>5, <1>6 DEF Edges, NoEdgeWhileHeld
  <2>2. ASSUME NEW f \in Hands' PROVE ~EdgeIn(ev[f].fd)'
    <3> PICK g : g = ev'[f].fd
      OBVIOUS
    <3>1. g \in FDs /\ ~EdgeIn(g)
      <4>1. CASE f = e
        BY <4>1, <1>2, <1>3 DEF Edges, NoEdgeWhileHeld
      <4>2. CASE f \in Hands
        BY <4>2, <1>2, <1>4 DEF Edges, NoEdgeWhileHeld
      <4> QED
        BY <4>1, <4>2, <2>2, <1>3
    <3>2. ~EdgeIn(g)'
      BY <3>1, <1>6
    <3> QED
      BY <3>2
  <2> QED
    BY <2>1, <2>2
<1>13. ServedUnreported' /\ LeftUnread'
  <2> SUFFICES ASSUME ~MultiThreaded
               PROVE  pos' = 1 /\ \A f \in Range(now') : \A x \in batch' : x[1] # ev'[f].fd
    BY DEF ServedUnreported, LeftUnread, MultiThreaded
  <2>1. Hands = {}
    BY <1>2, SingleHands, Emptied
  <2>2. Range(now') \subseteq {e}
    BY <2>1, <1>3 DEF Hands
  <2>3. \A x \in batch' : x[1] # fd
    BY <1>2, <1>3 DEF Edges, OneMask, In
  <2> QED
    BY <2>2, <2>3, <1>1, <1>3 DEF Target
<1>14. NoLostEdge'
  <2> SUFFICES ASSUME NEW g \in FDs, sock[g] # None, peer[sock[g]] = "up", inbox[sock[g]] # <<>>
               PROVE  \/ g \in ready
                      \/ In(g)'
                      \/ eventMapper'[g] \in Hands' /\ ev'[eventMapper'[g]].stage = 1
    BY <1>3 DEF NoLostEdge
  <2>1. CASE g = fd
    BY <2>1, <1>3, <1>4
  <2>2. CASE g # fd
    BY <2>2, <1>2, <1>3, <1>4, <1>5 DEF Edges, NoLostEdge
  <2> QED
    BY <2>1, <2>2
<1> QED
  BY <1>7, <1>8, <1>9, <1>10, <1>11, <1>12, <1>13, <1>14 DEF Edges

-----------------------------------------------------------------------------
(* Calls of triggerEvent, and the steps of a worker's write.                  *)

\* The event moves on past the first stage, and the connections are as they were,
\* but for a closed peer that is told to reset.
Forward(e) ==
    /\ e \in EventIds /\ e \in Hands /\ Hands' \subseteq Hands /\ Hands \ {e} \subseteq Hands'
    /\ Touches(e) /\ ev[e].stage # 1 /\ ev'[e].stage # 1
    /\ \A c \in Conns : peer'[c] = peer[c] \/ (peer[c] = "fin" /\ peer'[c] = "gone")
    /\ Range(readReady) \subseteq Range(readReady')
    /\ (~MultiThreaded => UNCHANGED now)
    /\ UNCHANGED <<sock, inbox, ready, batch, eventMapper>>

LEMMA ForwardEdges ==
    ASSUME IInv, NEW e, Forward(e)
    PROVE  Edges'
<1>1. /\ TypeInv /\ ClientTypes /\ PlaceTypes /\ EventTypes /\ Edges
      /\ e \in EventIds /\ Hands' \subseteq Hands /\ Hands \ {e} \subseteq Hands'
      /\ ev[e].stage # 1 /\ ev'[e].stage # 1 /\ \A f \in EventIds : ev'[f].fd = ev[f].fd
      /\ \A f \in EventIds \ {e} : ev'[f] = ev[f]
      /\ UNCHANGED <<sock, inbox, ready, batch, eventMapper>>
      /\ Range(readReady) \subseteq Range(readReady')
      /\ \A f \in Hands : f \in EventIds /\ ev[f].fd \in FDs
  BY HandsAreEvents DEF IInv, TypeInv, Forward, Touches, EventTypes
<1>2. \A g \in FDs : sock[g] # None =>
        /\ sock[g] \in Conns
        /\ peer'[sock[g]] = peer[sock[g]] \/ (peer[sock[g]] = "fin" /\ peer'[sock[g]] = "gone")
  BY <1>1 DEF Forward, ClientTypes
<1>3. \A g \in FDs : In(g)' <=> In(g)
  BY <1>1 DEF In
<1>4. \A g \in FDs : EdgeIn(g)' => EdgeIn(g)
  <2> SUFFICES ASSUME NEW g \in FDs, EdgeIn(g)' PROVE EdgeIn(g)
    OBVIOUS
  <2>1. g \in ready /\ g # ServerFD
    BY <1>1, MaskFacts DEF EdgeIn
  <2>2. sock[g] # None
    BY <2>1, <1>1 DEF Edges, ReadyOpen
  <2> QED
    BY <2>2, <1>1, <1>2, SameEdge
<1>5. ReadyOpen' /\ OneMask' /\ HungUp' /\ HasInput' /\ ClosedQueued'
  <2>1. ReadyOpen' /\ OneMask'
    BY <1>1 DEF Edges, ReadyOpen, OneMask
  <2>2. HungUp'
    BY <1>1, <1>2 DEF Edges, HungUp
  <2>3. HasInput'
    BY <1>1, <1>2, <1>3 DEF Edges, HasInput
  <2>4. ClosedQueued'
    BY <1>1 DEF Edges, ClosedQueued
  <2> QED
    BY <2>1, <2>2, <2>3, <2>4
<1>6. HeldUnreported'
  BY <1>1 DEF Edges, HeldUnreported, In
<1>7. HeldMapped'
  BY <1>1 DEF Edges, HeldMapped
<1>8. HeldHasInput'
  BY <1>1, <1>2 DEF Edges, HeldHasInput
<1>9. NoEdgeWhileHeld'
  <2> SUFFICES ASSUME MultiThreaded
               PROVE  /\ \A f \in Hands' : ~EdgeIn(ev[f].fd)'
                      /\ \A g \in FDs : In(g)' => ~EdgeIn(g)'
    BY DEF NoEdgeWhileHeld, MultiThreaded
  <2>1. \A g \in FDs : In(g)' => ~EdgeIn(g)'
    BY <1>1, <1>3, <1>4 DEF Edges, NoEdgeWhileHeld
  <2>2. ASSUME NEW f \in Hands' PROVE ~EdgeIn(ev[f].fd)'
    <3> PICK g : g = ev'[f].fd
      OBVIOUS
    <3>1. g \in FDs /\ ~EdgeIn(g)
      BY <1>1 DEF Edges, NoEdgeWhileHeld
    <3>2. ~EdgeIn(g)'
      BY <3>1, <1>4
    <3> QED
      BY <3>2
  <2> QED
    BY <2>1, <2>2
<1>10. ServedUnreported' /\ LeftUnread'
  <2> SUFFICES ASSUME ~MultiThreaded
               PROVE  /\ \A f \in Range(now') : \A x \in batch' : x[1] # ev'[f].fd
                      /\ \A f \in Range(now') : ev'[f].stage = 1 => ReadFails(f)' \/ pos' # 2
    BY DEF ServedUnreported, LeftUnread, MultiThreaded
  <2>1. UNCHANGED now /\ Range(now) \subseteq Hands
    BY DEF Forward, Hands
  <2>2. \A f \in Range(now) : f \in EventIds /\ ev'[f].fd = ev[f].fd
    BY <2>1, <1>1
  <2>3. Hands = {e} \/ Range(now) = {}
    <3>1. Hands = Range(now) /\ e \in Hands
      BY <1>1, SingleHands DEF IInv, Places, Forward
    <3>2. Len(now) \in Nat /\ Len(now) <= 1 /\ now \in Seq(EventIds)
      BY <1>1, SeqFacts DEF IInv, Places, Turn, PlaceTypes
    <3>3. \A x \in Range(now) : x = now[1]
      BY <3>2, SeqFacts
    <3> QED
      BY <3>1, <3>3
  <2>4. \A f \in Range(now) : ev'[f].stage # 1
    BY <2>1, <2>3, <1>1
  <2> QED
    BY <2>1, <2>2, <2>4, <1>1 DEF Edges, ServedUnreported
<1>11. NoLostEdge'
  <2> SUFFICES ASSUME NEW g \in FDs, sock[g] # None, peer'[sock[g]] = "up", inbox[sock[g]] # <<>>
               PROVE  \/ g \in ready
                      \/ In(g)
                      \/ eventMapper[g] \in Hands' /\ ev'[eventMapper[g]].stage = 1
    BY <1>1, <1>3 DEF NoLostEdge
  <2>1. peer[sock[g]] = "up"
    BY <1>2
  <2> QED
    BY <2>1, <1>1 DEF Edges, NoLostEdge
<1> QED
  BY <1>5, <1>6, <1>7, <1>8, <1>9, <1>10, <1>11 DEF Edges

\* What a write does to the peers.
LEMMA WriteTells ==
    ASSUME ClientTypes, NEW e \in EventIds, ev[e].fd \in FDs, eWrite(e)
    PROVE  /\ \A c \in Conns : peer'[c] = peer[c] \/ (peer[c] = "fin" /\ peer'[c] = "gone")
           /\ UNCHANGED <<sock, inbox, ready, phase>>
BY DEF eWrite, kernel, ClientTypes

LEMMA FailsToReadEdges ==
    ASSUME IInv, NEW e, Called(e), FailsToRead(e)
    PROVE  Edges'
<1>1. /\ TypeInv /\ ClientTypes /\ PlaceTypes /\ EventTypes /\ Edges
      /\ e \in EventIds /\ Hands' \subseteq Hands /\ Hands \ {e} \subseteq Hands'
      /\ UNCHANGED <<sock, peer, inbox, ready, batch, eventMapper, ev>>
      /\ Range(readReady) \subseteq Range(readReady') /\ ReadFails(e)
      /\ ~MultiThreaded => Range(now) = {e} /\ now' = now
      /\ \A f \in Hands : f \in EventIds /\ ev[f].fd \in FDs
  BY HandsAreEvents DEF IInv, TypeInv, Called, FailsToRead, EventTypes, kernel
<1>2. \A g \in FDs : (In(g)' <=> In(g)) /\ (EdgeIn(g)' <=> EdgeIn(g))
  BY <1>1, MaskFacts DEF In, EdgeIn, Mask
<1>3. ReadyOpen' /\ OneMask' /\ HungUp' /\ HasInput' /\ ClosedQueued'
  BY <1>1, <1>2 DEF Edges, ReadyOpen, OneMask, HungUp, HasInput, ClosedQueued
<1>4. HeldUnreported' /\ HeldMapped' /\ HeldHasInput'
  BY <1>1 DEF Edges, HeldUnreported, HeldMapped, HeldHasInput, In
<1>5. NoEdgeWhileHeld'
  <2> SUFFICES ASSUME MultiThreaded
               PROVE  /\ \A f \in Hands' : ~EdgeIn(ev[f].fd)'
                      /\ \A g \in FDs : In(g)' => ~EdgeIn(g)'
    BY DEF NoEdgeWhileHeld, MultiThreaded
  <2>1. \A g \in FDs : In(g)' => ~EdgeIn(g)'
    BY <1>1, <1>2 DEF Edges, NoEdgeWhileHeld
  <2>2. ASSUME NEW f \in Hands' PROVE ~EdgeIn(ev[f].fd)'
    <3> PICK g : g = ev'[f].fd
      OBVIOUS
    <3>1. g \in FDs /\ ~EdgeIn(g)
      BY <1>1 DEF Edges, NoEdgeWhileHeld
    <3>2. ~EdgeIn(g)'
      BY <3>1, <1>2
    <3> QED
      BY <3>2
  <2> QED
    BY <2>1, <2>2
<1>6. ServedUnreported' /\ LeftUnread'
  <2>1. ReadFails(e)'
    BY <1>1 DEF ReadFails
  <2> QED
    BY <2>1, <1>1 DEF Edges, ServedUnreported, LeftUnread, MultiThreaded
<1>7. NoLostEdge'
  <2> SUFFICES ASSUME NEW g \in FDs, sock[g] # None, peer[sock[g]] = "up", inbox[sock[g]] # <<>>
               PROVE  \/ g \in ready
                      \/ In(g)
                      \/ eventMapper[g] \in Hands' /\ ev[eventMapper[g]].stage = 1
    BY <1>1, <1>2 DEF NoLostEdge
  <2>1. eventMapper[g] # e
    <3> SUFFICES ASSUME eventMapper[g] = e PROVE FALSE
      OBVIOUS
    <3>1. ev[e].fd = g
      BY <1>1, ServerAssumption DEF EventTypes, ServerAssumption
    <3> QED
      BY <3>1, <1>1 DEF ReadFails
  <2> QED
    BY <2>1, <1>1 DEF Edges, NoLostEdge
<1> QED
  BY <1>3, <1>4, <1>5, <1>6, <1>7 DEF Edges

\* The context in which an event is read.
LEMMA CallContext ==
    ASSUME IInv, NEW e, Called(e), Touches(e)
    PROVE  /\ TypeInv /\ ClientTypes /\ PlaceTypes /\ EventTypes /\ Edges
           /\ e \in EventIds /\ e \in Hands /\ Hands' \subseteq Hands /\ Hands \ {e} \subseteq Hands' /\ ev[e].fd \in FDs
           /\ \A f \in EventIds : ev'[f].fd = ev[f].fd
           /\ \A f \in EventIds \ {e} : ev'[f] = ev[f]
           /\ UNCHANGED <<batch, eventMapper>> /\ Range(readReady) \subseteq Range(readReady')
           /\ ~MultiThreaded => Range(now) = {e} /\ now' = now
           /\ \A f \in Hands : f \in EventIds /\ ev[f].fd \in FDs
           /\ \A g \in FDs : In(g)' <=> In(g)
           /\ \A g \in FDs : eventMapper[g] # None => eventMapper[g] \in EventIds /\ ev[eventMapper[g]].fd = g
           /\ ~In(ev[e].fd) /\ (ConnOf(e) # None => eventMapper[ev[e].fd] = e)
<1>1. /\ TypeInv /\ ClientTypes /\ PlaceTypes /\ EventTypes /\ Edges
      /\ e \in EventIds /\ e \in Hands /\ Hands' \subseteq Hands /\ Hands \ {e} \subseteq Hands' /\ ev[e].fd \in FDs
      /\ \A f \in EventIds : ev'[f].fd = ev[f].fd
      /\ \A f \in EventIds \ {e} : ev'[f] = ev[f]
      /\ UNCHANGED <<batch, eventMapper>> /\ Range(readReady) \subseteq Range(readReady')
      /\ ~MultiThreaded => Range(now) = {e} /\ now' = now
  BY DEF IInv, TypeInv, Called, Touches
<1>2. \A f \in Hands : f \in EventIds /\ ev[f].fd \in FDs
  BY <1>1, HandsAreEvents DEF EventTypes
<1>3. \A g \in FDs : In(g)' <=> In(g)
  BY <1>1 DEF In
<1>4. \A g \in FDs : eventMapper[g] # None => eventMapper[g] \in EventIds /\ ev[eventMapper[g]].fd = g
  BY <1>1 DEF PlaceTypes, EventTypes
<1>5. ~In(ev[e].fd) /\ (ConnOf(e) # None => eventMapper[ev[e].fd] = e)
  BY <1>1 DEF Edges, HeldUnreported, HeldMapped, ConnOf
<1> QED
  BY <1>1, <1>2, <1>3, <1>4, <1>5

LEMMA FetchesEdges ==
    ASSUME IInv, NEW e, Called(e), Fetches(e)
    PROVE  Edges'
<1> PICK h, c : h = ev[e].fd /\ c = ConnOf(e)
  OBVIOUS
<1>1. /\ TypeInv /\ ClientTypes /\ PlaceTypes /\ EventTypes /\ Edges
      /\ e \in EventIds /\ e \in Hands /\ Hands' \subseteq Hands /\ Hands \ {e} \subseteq Hands' /\ h \in FDs
      /\ \A f \in EventIds : ev'[f].fd = ev[f].fd
      /\ \A f \in EventIds \ {e} : ev'[f] = ev[f]
      /\ UNCHANGED <<batch, eventMapper>> /\ Range(readReady) \subseteq Range(readReady')
      /\ ~MultiThreaded => Range(now) = {e} /\ now' = now
      /\ \A f \in Hands : f \in EventIds /\ ev[f].fd \in FDs
      /\ \A g \in FDs : In(g)' <=> In(g)
      /\ \A g \in FDs : eventMapper[g] # None => eventMapper[g] \in EventIds /\ ev[eventMapper[g]].fd = g
      /\ ~In(h) /\ (c # None => eventMapper[h] = e)
  BY CallContext DEF Fetches
<1>2. /\ c \in Conns /\ c # None /\ sock[h] = c /\ ev'[e].stage = 2 /\ inbox' = [inbox EXCEPT ![c] = <<>>]
      /\ UNCHANGED <<peer, sock, ready>> /\ inbox \in [Conns -> Seq(Requests)]
  BY <1>1, ServerAssumption DEF Fetches, ConnOf, ServerAssumption, ClientTypes
<1>3. /\ inbox'[c] = <<>> /\ \A g \in FDs : sock[g] # None /\ g # h => sock[g] \in Conns /\ inbox'[sock[g]] = inbox[sock[g]]
  BY <1>1, <1>2 DEF ClientTypes
<1>4. \A g \in FDs : EdgeIn(g)' => EdgeIn(g)
  <2> SUFFICES ASSUME NEW g \in FDs, EdgeIn(g)' PROVE EdgeIn(g)
    OBVIOUS
  <2>1. g \in ready /\ g # ServerFD
    BY <1>2, MaskFacts DEF EdgeIn
  <2>2. sock[g] # None
    BY <2>1, <1>1 DEF Edges, ReadyOpen
  <2>3. inbox'[sock[g]] # <<>> => inbox[sock[g]] # <<>>
    BY <2>2, <1>2, <1>3
  <2> QED
    BY <2>3, <1>2, SameEdge
<1>5. ReadyOpen' /\ OneMask' /\ HungUp' /\ ClosedQueued'
  BY <1>1, <1>2 DEF Edges, ReadyOpen, OneMask, HungUp, ClosedQueued
<1>6. HasInput'
  BY <1>1, <1>2, <1>3 DEF Edges, HasInput
<1>7. HeldUnreported' /\ HeldMapped'
  BY <1>1, <1>2 DEF Edges, HeldUnreported, HeldMapped, In
<1>8. HeldHasInput'
  <2> SUFFICES ASSUME NEW f \in Hands', ev'[f].stage = 1, sock[ev[f].fd] # None
               PROVE  inbox'[sock[ev[f].fd]] # <<>> \/ peer[sock[ev[f].fd]] # "up"
    BY <1>1, <1>2 DEF HeldHasInput
  <2>1. f \in Hands /\ f # e /\ ev[f].stage = 1
    BY <1>1, <1>2
  <2>2. ev[f].fd # h
    BY <2>1, <1>1, <1>2 DEF Edges, HeldMapped
  <2> QED
    BY <2>1, <2>2, <1>1, <1>3 DEF Edges, HeldHasInput
<1>9. NoEdgeWhileHeld'
  <2> SUFFICES ASSUME MultiThreaded
               PROVE  /\ \A f \in Hands' : ~EdgeIn(ev[f].fd)'
                      /\ \A g \in FDs : In(g)' => ~EdgeIn(g)'
    BY DEF NoEdgeWhileHeld, MultiThreaded
  <2>1. \A g \in FDs : In(g)' => ~EdgeIn(g)'
    BY <1>1, <1>4 DEF Edges, NoEdgeWhileHeld
  <2>2. ASSUME NEW f \in Hands' PROVE ~EdgeIn(ev[f].fd)'
    <3> PICK g : g = ev'[f].fd
      OBVIOUS
    <3>1. g \in FDs /\ ~EdgeIn(g)
      BY <1>1 DEF Edges, NoEdgeWhileHeld
    <3>2. ~EdgeIn(g)'
      BY <3>1, <1>4
    <3> QED
      BY <3>2
  <2> QED
    BY <2>1, <2>2
<1>10. ServedUnreported' /\ LeftUnread'
  BY <1>1, <1>2 DEF Edges, ServedUnreported, LeftUnread, MultiThreaded
<1>11. NoLostEdge'
  <2> SUFFICES ASSUME NEW g \in FDs, sock[g] # None, peer[sock[g]] = "up", inbox'[sock[g]] # <<>>
               PROVE  \/ g \in ready
                      \/ In(g)
                      \/ eventMapper[g] \in Hands' /\ ev'[eventMapper[g]].stage = 1
    BY <1>1, <1>2 DEF NoLostEdge
  <2>1. g # h /\ inbox[sock[g]] # <<>>
    BY <1>2, <1>3
  <2>2. eventMapper[g] # e
    BY <2>1, <1>1, ServerAssumption DEF ServerAssumption
  <2> QED
    BY <2>1, <2>2, <1>1 DEF Edges, NoLostEdge
<1> QED
  BY <1>5, <1>6, <1>7, <1>8, <1>9, <1>10, <1>11 DEF Edges

LEMMA RefusesEdges ==
    ASSUME IInv, NEW e, Called(e), Refuses(e)
    PROVE  Edges'
<1> PICK h : h = ev[e].fd
  OBVIOUS
<1>1. /\ TypeInv /\ ClientTypes /\ PlaceTypes /\ EventTypes /\ Edges
      /\ e \in EventIds /\ e \in Hands /\ Hands' \subseteq Hands /\ Hands \ {e} \subseteq Hands' /\ h \in FDs
      /\ \A f \in EventIds : ev'[f].fd = ev[f].fd
      /\ \A f \in EventIds \ {e} : ev'[f] = ev[f]
      /\ UNCHANGED <<batch, eventMapper>> /\ Range(readReady) \subseteq Range(readReady')
      /\ ~MultiThreaded => Range(now) = {e} /\ now' = now
      /\ \A f \in Hands : f \in EventIds /\ ev[f].fd \in FDs
      /\ \A g \in FDs : In(g)' <=> In(g)
      /\ \A g \in FDs : eventMapper[g] # None => eventMapper[g] \in EventIds /\ ev[eventMapper[g]].fd = g
      /\ ~In(h) /\ (ConnOf(e) # None => eventMapper[h] = e)
  BY CallContext DEF Refuses
<1>2. /\ ConnOf(e) # None /\ eventMapper[h] = e /\ CloseFD(h) /\ peer' = peer /\ ev'[e].stage = 6
      /\ MultiThreaded => e \in Range(readReady')
  BY <1>1, ServerAssumption DEF Refuses, Called, ServerAssumption
<1>3. /\ sock'[h] = None /\ \A g \in FDs : sock'[g] # None => g # h /\ sock'[g] = sock[g]
      /\ \A g \in FDs : sock[g] # None /\ g # h =>
            sock[g] \in Conns /\ sock'[g] = sock[g] /\ inbox'[sock[g]] = inbox[sock[g]] /\ peer'[sock[g]] = peer[sock[g]]
      /\ ready' = ready \ {h} /\ ReadyOpen'
      /\ \A g \in FDs : EdgeIn(g)' => g # h /\ EdgeIn(g)
  BY <1>1, <1>2, CloseFacts
<1>4. OneMask' /\ HungUp'
  BY <1>1, <1>2, <1>3 DEF Edges, OneMask, HungUp
<1>5. HasInput'
  <2> SUFFICES ASSUME NEW g \in FDs, In(g) PROVE sock'[g] # None /\ (inbox'[sock'[g]] # <<>> \/ peer'[sock'[g]] # "up")
    BY <1>1 DEF HasInput
  <2>1. g # h
    BY <1>1
  <2> QED
    BY <2>1, <1>1, <1>3 DEF Edges, HasInput
<1>6. ClosedQueued'
  <2> SUFFICES ASSUME NEW x \in batch, x[1] \in FDs, sock'[x[1]] = None PROVE eventMapper[x[1]] \in Range(readReady')
    BY <1>1 DEF ClosedQueued
  <2>1. CASE x[1] = h
    <3>1. MultiThreaded
      BY <2>1, <1>1 DEF Edges, ServedUnreported
    <3> QED
      BY <3>1, <2>1, <1>2
  <2>2. CASE x[1] # h
    <3>1. sock[x[1]] = None
      BY <2>2, <1>3
    <3> QED
      BY <3>1, <1>1 DEF Edges, ClosedQueued
  <2> QED
    BY <2>1, <2>2
<1>7. HeldUnreported'
  BY <1>1 DEF Edges, HeldUnreported, In
<1>8. HeldMapped'
  BY <1>1, <1>3 DEF Edges, HeldMapped
<1>9. HeldHasInput'
  <2> SUFFICES ASSUME NEW f \in Hands', ev'[f].stage = 1, sock'[ev[f].fd] # None
               PROVE  inbox'[sock'[ev[f].fd]] # <<>> \/ peer'[sock'[ev[f].fd]] # "up"
    BY <1>1 DEF HeldHasInput
  <2>1. f \in Hands /\ f # e /\ ev[f].stage = 1 /\ ev[f].fd # h /\ sock[ev[f].fd] # None /\ ev[f].fd \in FDs
    BY <1>1, <1>2, <1>3
  <2> QED
    BY <2>1, <1>1, <1>3 DEF Edges, HeldHasInput
<1>10. NoEdgeWhileHeld'
  <2> SUFFICES ASSUME MultiThreaded
               PROVE  /\ \A f \in Hands' : ~EdgeIn(ev[f].fd)'
                      /\ \A g \in FDs : In(g)' => ~EdgeIn(g)'
    BY DEF NoEdgeWhileHeld, MultiThreaded
  <2>1. \A g \in FDs : In(g)' => ~EdgeIn(g)'
    BY <1>1, <1>3 DEF Edges, NoEdgeWhileHeld
  <2>2. ASSUME NEW f \in Hands' PROVE ~EdgeIn(ev[f].fd)'
    <3> PICK g : g = ev'[f].fd
      OBVIOUS
    <3>1. g \in FDs /\ ~EdgeIn(g)
      BY <1>1 DEF Edges, NoEdgeWhileHeld
    <3>2. ~EdgeIn(g)'
      BY <3>1, <1>3
    <3> QED
      BY <3>2
  <2> QED
    BY <2>1, <2>2
<1>11. ServedUnreported' /\ LeftUnread'
  BY <1>1, <1>2 DEF Edges, ServedUnreported, LeftUnread, MultiThreaded
<1>12. NoLostEdge'
  <2> SUFFICES ASSUME NEW g \in FDs, sock'[g] # None, peer'[sock'[g]] = "up", inbox'[sock'[g]] # <<>>
               PROVE  \/ g \in ready'
                      \/ In(g)
                      \/ eventMapper[g] \in Hands' /\ ev'[eventMapper[g]].stage = 1
    BY <1>1 DEF NoLostEdge
  <2>1. g # h /\ sock[g] # None /\ peer[sock[g]] = "up" /\ inbox[sock[g]] # <<>>
    BY <1>3
  <2>2. eventMapper[g] # e
    BY <2>1, <1>1, ServerAssumption DEF ServerAssumption
  <2>3. g \in ready \/ In(g) \/ (eventMapper[g] \in Hands /\ ev[eventMapper[g]].stage = 1)
    BY <2>1, <1>1 DEF Edges, NoLostEdge
  <2> QED
    BY <2>1, <2>2, <2>3, <1>1, <1>3
<1> QED
  BY <1>3, <1>4, <1>5, <1>6, <1>7, <1>8, <1>9, <1>10, <1>11, <1>12 DEF Edges

LEMMA CalledEdges ==
    ASSUME IInv, NEW e, Called(e)
    PROVE  Edges'
<1>1. /\ ClientTypes /\ e \in EventIds /\ ev[e].fd \in FDs /\ Calls(e) /\ EventTypes /\ e \in Hands
      /\ Hands' \subseteq Hands /\ Hands \ {e} \subseteq Hands' /\ UNCHANGED <<batch, eventMapper>>
      /\ Range(readReady) \subseteq Range(readReady') /\ (~MultiThreaded => UNCHANGED now)
      /\ ev \in [EventIds -> Event]
  BY DEF IInv, TypeInv, Called, EventTypes
<1>2. CASE FailsToRead(e)
  BY <1>2, FailsToReadEdges
<1>3. CASE Fetches(e)
  BY <1>3, FetchesEdges
<1>4. CASE Refuses(e)
  BY <1>4, RefusesEdges
<1>5. CASE Bumps(e) \/ Executes(e)
  <2>1. /\ Touches(e) /\ ev[e].stage # 1 /\ ev'[e].stage # 1 /\ UNCHANGED <<peer, sock, inbox, ready>>
    BY <1>5 DEF Bumps, Executes, kernel
  <2>2. Forward(e)
    BY <2>1, <1>1 DEF Forward
  <2> QED
    BY <2>2, ForwardEdges
<1>6. CASE Rests(e)
  <2>1. /\ Touches(e) /\ ev[e].stage # 1 /\ ev'[e].stage # 1 /\ UNCHANGED <<peer, sock, inbox, ready>>
    BY <1>1, <1>6 DEF Rests, kernel, Touches
  <2>2. Forward(e)
    BY <2>1, <1>1 DEF Forward
  <2> QED
    BY <2>2, ForwardEdges
<1>7. CASE Finishes(e)
  <2>1. /\ Touches(e) /\ ev[e].stage # 1 /\ ev'[e].stage # 1 /\ eWrite(e)
    BY <1>7 DEF Finishes
  <2>2. Forward(e)
    BY <2>1, <1>1, WriteTells DEF Forward
  <2> QED
    BY <2>2, ForwardEdges
<1> QED
  BY <1>1, <1>2, <1>3, <1>4, <1>5, <1>6, <1>7 DEF Calls

LEMMA WorkerEdges ==
    ASSUME IInv, NEW w \in Workers, WorkerStep(w)
    PROVE  Edges'
<1> PICK e : e = worker[w].ev
  OBVIOUS
<1>1. ClientTypes /\ EventTypes /\ ev \in [EventIds -> Event] /\ MultiThreaded
  BY DEF IInv, TypeInv, EventTypes, MultiThreaded
<1>2. CASE TakeTask(w)
  <2>1. Hands' = Hands
    BY <1>2, TakeTaskPlaces
  <2>2. UNCHANGED <<sock, peer, inbox, ready, eventMapper, ev, batch, readReady>>
    BY <1>2 DEF TakeTask, kernel, loop
  <2>3. \A g \in FDs : In(g) => In(g)'
    BY <2>2 DEF In
  <2> QED
    BY <2>1, <2>2, <2>3, <1>1, SameEdges
<1>3. CASE Trigger(w)
  BY <1>3, TriggerPlaces, CalledEdges
<1>4. CASE Write(w)
  <2>1. WritesOut(w, e)
    BY <1>4, WritePlaces
  <2>2. Forward(e)
    <3>1. /\ e \in EventIds /\ e \in Hands /\ ev[e].fd \in FDs /\ ev[e].stage = 5 /\ eWrite(e) /\ Hands' = Hands
          /\ UNCHANGED <<batch, eventMapper, ev, readReady>>
      BY <2>1 DEF WritesOut
    <3>2. Touches(e)
      BY <3>1, <1>1 DEF Touches
    <3> QED
      BY <3>1, <3>2, <1>1, WriteTells DEF Forward
  <2> QED
    BY <2>2, ForwardEdges
<1>5. CASE Count(w)
  <2>1. CountsOut(w, e)
    BY <1>5, CountPlaces
  <2>2. Forward(e)
    BY <2>1 DEF CountsOut, Forward, kernel
  <2> QED
    BY <2>2, ForwardEdges
<1>6. CASE BumpStage(w)
  <2>1. BumpsOut(w, e)
    BY <1>6, BumpStagePlaces
  <2>2. Forward(e)
    BY <2>1 DEF BumpsOut, Forward, kernel
  <2> QED
    BY <2>2, ForwardEdges
<1> QED
  BY <1>2, <1>3, <1>4, <1>5, <1>6 DEF WorkerStep

\* Every step keeps the events in their places and what epoll says of them.
LEMMA NextKeepsPlacesAndEdges ==
    ASSUME IInv, Calm, Next
    PROVE  Places' /\ Edges'
<1>1. CASE Clients
  BY <1>1, ClientPlaces, ClientEdges
<1>2. CASE EpollWait
  BY <1>2, ReportPlaces, EpollWaitEdges
<1>3. CASE Listening
  BY <1>3, ReportPlaces, MovesEdges
<1>4. CASE Accept
  BY <1>4, ReportPlaces, AcceptEdges
<1>5. CASE Serve
  BY <1>5, ServePlacesSingle, ServePlacesCore, CalledEdges
<1>6. CASE Served
  BY <1>6, ServedPlaces, ServedEdges
<1>7. CASE Dispatched \/ Swap \/ HandOver
  BY <1>7, DispatchedPlaces, SwapPlaces, HandOverPlaces, MovesEdges
<1>8. ASSUME NEW fd \in FDs, HangUp(fd) \/ Writable(fd) \/ Readable(fd) PROVE Places' /\ Edges'
  BY <1>8, ReportPlaces, ReadablePlaces, HangUpEdges, MovesEdges, ReadableEdges
<1>9. ASSUME NEW w \in Workers, WorkerStep(w) PROVE Places' /\ Edges'
  BY <1>9, TakeTaskPlaces, TriggerPlaces, WritePlaces, CountPlaces, BumpStagePlaces, WorkerEdges DEF WorkerStep
<1> QED
  BY <1>1, <1>2, <1>3, <1>4, <1>5, <1>6, <1>7, <1>8, <1>9 DEF Next, Loop

-----------------------------------------------------------------------------
(* Nobody comes while others leave.                                           *)

\* What keeps Arrivals: nobody new waits, those here stay up and have what they
\* had, and who is held is held already or has an open descriptor.
LEMMA SameArrivals ==
    ASSUME IInv, backlog' # <<>> => backlog # <<>>,
           \A c \in Conns : phase'[c] \in {"backlog", "open"} =>
               phase[c] \in {"backlog", "open"} /\ peer'[c] = peer[c],
           \A e \in Hands' : \/ e \in Hands /\ ev'[e].fd = ev[e].fd
                                               /\ (sock[ev[e].fd] # None => sock'[ev[e].fd] # None)
                             \/ sock'[ev'[e].fd] # None
    PROVE  Arrivals'
BY DEF IInv, Arrivals, MultiThreaded

LEMMA ClientArrivals ==
    ASSUME IInv, Calm, Clients
    PROVE  Arrivals'
<1>1. PICK c \in Conns : Connect(c) \/ Send(c) \/ Quit(c) \/ Reset(c) \/ Abort(c)
  BY DEF Clients
<1>2. /\ Hands' = Hands /\ ClientTypes /\ Waiting /\ Patience /\ UNCHANGED <<sock, ev>>
      /\ phase \in [Conns -> {"new", "backlog", "open", "dropped"}]
      /\ None \notin EventIds /\ PlaceTypes /\ EventTypes
      /\ Hands \subseteq EventIds /\ \A e \in Hands : ev[e].fd \in FDs
  BY <1>1, ClientPlaces, HandsAreEvents, ServerAssumption
  DEF IInv, TypeInv, Data, ClientTypes, EventTypes, Connect, Send, Quit, Reset, Abort, kernel, ServerAssumption
<1>3. CASE ~MultiThreaded
  BY <1>3 DEF Arrivals, MultiThreaded
<1>4. CASE MultiThreaded /\ Connect(c)
  <2>1. Undisturbed /\ phase[c] = "new" /\ peer' = peer /\ phase' = [phase EXCEPT ![c] = "backlog"]
    BY <1>4 DEF Connect, MayCome, Calm, MultiThreaded
  <2>2. \A d \in Conns : phase'[d] \in {"backlog", "open"} => peer'[d] = "up"
    BY <1>2, <2>1 DEF Undisturbed, Waiting
  <2>3. \A e \in Hands' : sock'[ev'[e].fd] # None
    <3> SUFFICES ASSUME NEW e \in Hands, sock[ev[e].fd] = None PROVE FALSE
      BY <1>2
    <3>1. e \in EventIds /\ ev[e].fd \in FreeFDs
      BY <1>2 DEF FreeFDs
    <3>2. Holders(e) = 0
      BY <2>1, <3>1 DEF Undisturbed
    <3> QED
      BY <1>2, <3>1, <3>2, HoldersAndHands
  <2> QED
    BY <2>2, <2>3 DEF Arrivals
<1>5. CASE Send(c)
  <2>1. UNCHANGED <<backlog, phase, peer>>
    BY <1>5 DEF Send
  <2> QED
    BY <1>2, <2>1, SameArrivals
<1>6. CASE MultiThreaded /\ (Quit(c) \/ Abort(c))
  <2>1. backlog = <<>> /\ backlog' = backlog
    BY <1>6 DEF Quit, Abort, MayLeave, Calm, MultiThreaded
  <2> QED
    BY <2>1 DEF Arrivals
<1>7. CASE MultiThreaded /\ Reset(c)
  BY <1>2, <1>7 DEF Reset, Patience
<1> QED
  BY <1>1, <1>3, <1>4, <1>5, <1>6, <1>7

\* While somebody waits for accept, no call closes a descriptor.
LEMMA CalledArrivals ==
    ASSUME IInv, Calm, NEW e, Called(e)
    PROVE  Arrivals'
<1>1. CASE ~MultiThreaded
  BY <1>1 DEF Arrivals, MultiThreaded
<1>2. CASE Arrivals /\ MultiThreaded /\ backlog = <<>>
  BY <1>2 DEF Called, Arrivals
<1>3. CASE MultiThreaded /\ backlog # <<>>
  <2>1. /\ e \in EventIds /\ e \in Hands /\ ev[e].fd \in FDs /\ Calls(e) /\ ~Finishes(e)
        /\ Hands' \subseteq Hands /\ UNCHANGED backlog
    BY <1>3 DEF Called
  <2>2. ~Refuses(e)
    <3> SUFFICES ASSUME Refuses(e) PROVE FALSE
      OBVIOUS
    <3>1. /\ ConnOf(e) \in Conns /\ phase[ConnOf(e)] = "open" /\ ConnOf(e) # None /\ ev[e].stage = 1
      BY <2>1, ServerAssumption DEF Refuses, ConnOf, IInv, TypeInv, ClientTypes, ServerAssumption
    <3>2. inbox[ConnOf(e)] # <<>> /\ Bad = {}
      BY <1>3, <2>1, <3>1 DEF IInv, Arrivals, Edges, HeldHasInput, ConnOf, Calm, MultiThreaded
    <3>3. TextOf(e) = <<>>
      BY <3>2 DEF Refuses, Malformed
    <3>4. ev[e].buf \in Seq(Requests) /\ inbox[ConnOf(e)] \in Seq(Requests)
      BY <2>1, <3>1 DEF IInv, TypeInv, ClientTypes, EventTypes, Event
    <3>5. Len(TextOf(e)) = Len(ev[e].buf) + Len(inbox[ConnOf(e)])
      BY <3>4 DEF TextOf
    <3>6. Len(inbox[ConnOf(e)]) # 0 /\ Len(inbox[ConnOf(e)]) \in Nat /\ Len(ev[e].buf) \in Nat
      BY <3>2, <3>4
    <3>7. \A m, k \in Nat : m + k = 0 => k = 0
      OBVIOUS
    <3>8. Len(ev[e].buf) + Len(inbox[ConnOf(e)]) = 0
      BY <3>3, <3>5
    <3> QED
      BY <3>6, <3>7, <3>8
  <2>3. UNCHANGED <<phase, peer, sock>> /\ \A f \in EventIds : ev'[f].fd = ev[f].fd
    BY <2>1, <2>2 DEF Calls, FailsToRead, Fetches, Bumps, Executes, Rests, Touches, kernel
  <2>4. Hands \subseteq EventIds
    BY HandsAreEvents DEF IInv, TypeInv
  <2> QED
    BY <2>1, <2>3, <2>4, SameArrivals
<1> QED
  BY <1>1, <1>2, <1>3 DEF IInv

LEMMA NextKeepsArrivals ==
    ASSUME IInv, Calm, Next
    PROVE  Arrivals'
<1>1. CASE Clients
  BY <1>1, ClientArrivals
<1>2. CASE Accept
  <2>1. Hands' = Hands /\ UNCHANGED <<peer, ev>>
    BY <1>2, ReportPlaces DEF Accept
  <2>2. CASE backlog = <<>>
    BY <2>2, <1>2 DEF Accept, Arrivals
  <2>3. CASE backlog # <<>>
    <3>1. /\ Head(backlog) \in Conns /\ phase[Head(backlog)] = "backlog" /\ Head(backlog) # None
          /\ phase' = [phase EXCEPT ![Head(backlog)] = "open"]
          /\ sock' = [sock EXCEPT ![LeastOf(FreeFDs)] = Head(backlog)]
      BY <1>2, <2>3, RangeTail, ServerAssumption DEF Accept, IInv, TypeInv, ClientTypes, ServerAssumption
    <3>2. \A f : sock[f] # None => sock'[f] # None
      BY <3>1 DEF IInv, TypeInv, ClientTypes
    <3>3. \A c \in Conns : phase'[c] \in {"backlog", "open"} => phase[c] \in {"backlog", "open"}
      BY <3>1 DEF IInv, TypeInv, ClientTypes
    <3> QED
      BY <2>1, <2>3, <3>2, <3>3, SameArrivals
  <2> QED
    BY <2>2, <2>3
<1>3. CASE EpollWait \/ Listening \/ Dispatched \/ Swap \/ HandOver
  <2>1. Hands' = Hands /\ UNCHANGED <<backlog, phase, peer, sock, ev>>
    BY <1>3, ReportPlaces, DispatchedPlaces, SwapPlaces, HandOverPlaces
    DEF EpollWait, Listening, Dispatched, Swap, HandOver, kernel
  <2> QED
    BY <2>1, SameArrivals
<1>4. CASE Served
  BY <1>4, ServedPlaces DEF Arrivals, MultiThreaded
<1>5. CASE Serve
  BY <1>5, ServePlacesSingle, ServePlacesCore, CalledArrivals
<1>6. ASSUME NEW fd \in FDs, HangUp(fd) PROVE Arrivals'
  <2>1. Hands' = Hands /\ UNCHANGED <<backlog, peer, ev>> /\ <<fd, "hup">> \in batch /\ CloseFD(fd)
    BY <1>6, ReportPlaces DEF HangUp
  <2>2. CASE sock[fd] = None
    <3>1. sock' = sock /\ phase' = phase
      BY <2>1, <2>2 DEF CloseFD, IInv, TypeInv, ClientTypes
    <3> QED
      BY <2>1, <3>1, SameArrivals
  <2>3. CASE sock[fd] # None
    <3>1. peer[sock[fd]] \in {"rst", "broken"} /\ sock[fd] \in Conns /\ phase[sock[fd]] = "open"
      BY <2>1, <2>3 DEF IInv, TypeInv, ClientTypes, Edges, HungUp
    <3> QED
      BY <2>1, <3>1 DEF IInv, Arrivals, MultiThreaded
  <2> QED
    BY <2>2, <2>3
<1>7. ASSUME NEW fd \in FDs, Writable(fd) PROVE Arrivals'
  <2>1. Hands' = Hands /\ UNCHANGED <<backlog, phase, peer, sock, ev>>
    BY <1>7, ReportPlaces DEF Writable, kernel
  <2> QED
    BY <2>1, SameArrivals
<1>8. ASSUME NEW fd \in FDs, Readable(fd) PROVE Arrivals'
  <2>1. PICK e \in EventIds : Starts(fd, e)
    BY <1>8, ReadablePlaces
  <2>2. /\ sock[fd] # None /\ Hands' = Hands \union {e} /\ ev'[e].fd = fd /\ UNCHANGED <<backlog, phase, peer, sock>>
        /\ e \notin Hands /\ \A f \in EventIds \ {e} : ev'[f] = ev[f]
    BY <2>1 DEF Starts, IInv, Edges, HasInput, kernel
  <2>3. Hands \subseteq EventIds
    BY HandsAreEvents DEF IInv, TypeInv
  <2> QED
    BY <2>2, <2>3, SameArrivals
<1>9. ASSUME NEW w \in Workers, WorkerStep(w) PROVE Arrivals'
  <2> PICK e : e = worker[w].ev
    OBVIOUS
  <2>1. CASE TakeTask(w)
    <3>1. Hands' = Hands /\ UNCHANGED <<backlog, phase, peer, sock, ev>>
      BY <2>1, TakeTaskPlaces DEF TakeTask, kernel
    <3> QED
      BY <3>1, SameArrivals
  <2>2. CASE Trigger(w)
    BY <2>2, TriggerPlaces, CalledArrivals
  <2>3. CASE Write(w)
    <3>1. WritesOut(w, e) /\ MultiThreaded
      BY <2>3, WritePlaces DEF WritesOut
    <3>2. /\ Hands' = Hands /\ UNCHANGED <<backlog, ev, sock, phase>>
          /\ \A c \in Conns : peer'[c] = peer[c] \/ peer[c] = "fin"
      BY <3>1, WriteTells DEF WritesOut, IInv, TypeInv
    <3> QED
      BY <3>1, <3>2 DEF IInv, Arrivals, MultiThreaded
  <2>4. CASE Count(w)
    <3>1. CountsOut(w, e)
      BY <2>4, CountPlaces
    <3>2. Hands \subseteq EventIds
      BY HandsAreEvents DEF IInv, TypeInv
    <3>3. Hands' = Hands /\ UNCHANGED <<backlog, phase, peer, sock>> /\ \A f \in Hands : ev'[f].fd = ev[f].fd
      BY <3>1, <3>2 DEF CountsOut, kernel, Touches
    <3> QED
      BY <3>3, SameArrivals
  <2>5. CASE BumpStage(w)
    <3>1. BumpsOut(w, e)
      BY <2>5, BumpStagePlaces
    <3>2. Hands \subseteq EventIds
      BY HandsAreEvents DEF IInv, TypeInv
    <3>3. Hands' = Hands /\ UNCHANGED <<backlog, phase, peer, sock>> /\ \A f \in Hands : ev'[f].fd = ev[f].fd
      BY <3>1, <3>2 DEF BumpsOut, kernel, Touches
    <3> QED
      BY <3>3, SameArrivals
  <2> QED
    BY <1>9, <2>1, <2>2, <2>3, <2>4, <2>5 DEF WorkerStep
<1> QED
  BY <1>1, <1>2, <1>3, <1>4, <1>5, <1>6, <1>7, <1>8, <1>9 DEF Next, Loop
=============================================================================
