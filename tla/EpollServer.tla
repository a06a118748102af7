----------------------------- MODULE EpollServer -----------------------------
(* The event loop of src/NetCore/NetCore.cpp, with the connection events of   *)
(* src/General/BaseEvent.cpp that it drives, the kernel's sockets and the     *)
(* clients behind them.                                                       *)
(*                                                                            *)
(* With Workers = {} it is the single-threaded branch (lines 112-218): the    *)
(* loop thread takes an event through all its stages.  Otherwise it is the    *)
(* multi-threaded branch (219-386): workers read (stages 1, 2), the loop      *)
(* thread executes the commands (3), workers write (4, 5).  The pool's queue  *)
(* is the FIFO that ThreadPool is shown to implement.                         *)
(*                                                                            *)
(* A request arrives whole and a response is written whole; BaseEvent.tla     *)
(* looks inside those two system calls.                                       *)
EXTENDS Integers, Sequences, FiniteSets, Functions

CONSTANTS
    Conns,      \* client connections; each connects at most once
    Bad,        \* those that send something that is not RESP
    Quitters,   \* those that may close their end (FIN)
    Aborters,   \* those that may reset it (RST)
    FDs,        \* bound: descriptors for client sockets
    EventsLen,  \* epollEventsLen: the events one epoll_wait reports at most
    ServerFD,   \* the listening socket
    Workers,    \* the threads of ioWorkerThreads; {} is ioWorkerThreadNum = 0
    EventIds,   \* bound: BaseEvent objects alive at once
    MaxReq,     \* bound: requests per connection
    Window,     \* requests a client has unanswered at once
    Eager,      \* clients act at any time; else they are patient (see Patient,
                \* MayCome and MayLeave)
    None        \* a null descriptor owner, event or task

ASSUME ServerAssumption ==
    /\ Bad \subseteq Conns /\ Quitters \subseteq Conns /\ Aborters \subseteq Conns
    /\ FDs \subseteq Nat /\ EventIds \subseteq Nat /\ ServerFD \notin FDs
    /\ IsFiniteSet(Workers)
    /\ None \notin Conns \union EventIds
    /\ EventsLen \in Nat \ {0} /\ MaxReq \in Nat /\ Window \in Nat \ {0} /\ Eager \in BOOLEAN

VARIABLES
    \* the clients and the kernel
    phase,      \* [Conns -> {"new", "backlog", "open", "dropped"}], at the server
    peer,       \* [Conns -> PeerState], the client's end
    sent,       \* [Conns -> Nat], requests sent
    inbox,      \* received by the kernel and not read
    wire,       \* responses written to the connection, in order
    backlog,    \* connections waiting for accept
    sock,       \* [FDs -> Conns \union {None}], the open descriptors
    ready,      \* epoll's ready list: descriptors with an unreported edge
    \* the server
    pc,         \* where the loop thread is
    batch,      \* events[0..nevents-1] not yet dispatched: <<fd, mask>>
    eventMapper,
    ev,         \* [EventIds -> Event], the BaseEvent objects
    readTasks,  \* the read tasks of this turn
    now,        \* readReadyEventsNow, or in one thread the event being served
    pos,        \* position of the loop thread in now
    readReady,  \* readReadyEvents
    pool,       \* the tasks_ of ioWorkerThreads
    worker,     \* [Workers -> Task with its pc]
    executed    \* history: the requests in the order they were executed

kernel == <<phase, peer, inbox, wire, sock, ready>>
loop == <<pc, batch, eventMapper, readTasks, now, pos>>
vars == <<sent, backlog, kernel, loop, ev, readReady, pool, worker, executed>>

Requests == Conns \X (1..MaxReq)
Malformed(r) == r[1] \in Bad
MultiThreaded == Workers # {}

\* The client's end as the server's kernel knows it: open; closed by a FIN; closed
\* and bound to answer with a reset, for data reached it; reset after its FIN;
\* reset without one.
PeerState == {"up", "fin", "gone", "broken", "rst"}
AfterFin == {"fin", "gone", "broken"}

LeastOf(S) == CHOOSE x \in S : \A y \in S : x <= y

\* A BaseEvent: clientFD, stageNow, readDataString (whole requests), readData,
\* whether bytesWritten has reached the end of the response.
Event == [fd : FDs \union {None}, stage : 1..(6 + Cardinality(Workers)), buf : Seq(Requests),
          cur : Requests \union {None}, written : BOOLEAN]

NewEvent(fd) == [fd |-> fd, stage |-> 1, buf |-> <<>>, cur |-> None, written |-> FALSE]

IdleWorker == [pc |-> "idle", kind |-> "read", ev |-> None]

Init ==
    /\ phase = [c \in Conns |-> "new"]
    /\ peer = [c \in Conns |-> "up"]
    /\ sent = [c \in Conns |-> 0]
    /\ inbox = [c \in Conns |-> <<>>]
    /\ wire = [c \in Conns |-> <<>>]
    /\ backlog = <<>>
    /\ sock = [fd \in FDs |-> None]
    /\ ready = {}
    /\ pc = "wait"
    /\ batch = {}
    /\ eventMapper = [fd \in FDs |-> None]
    /\ ev = [e \in EventIds |-> NewEvent(None)]
    /\ readTasks = <<>>
    /\ now = <<>>
    /\ pos = 1
    /\ readReady = <<>>
    /\ pool = <<>>
    /\ worker = [w \in Workers |-> IdleWorker]
    /\ executed = <<>>

-----------------------------------------------------------------------------
(* The clients and the kernel (external to the repository).                   *)

FDsOf(c) == {fd \in FDs : sock[fd] = c}
FreeFDs == {fd \in FDs : sock[fd] = None}

\* How many places (tasks, lists, threads) are about to call triggerEvent on e.
Holders(e) ==
    LET in(s) == Cardinality({i \in DOMAIN s : s[i] = e}) IN
    in(readTasks) + in(now) + in(readReady) + Cardinality({i \in DOMAIN pool : pool[i].ev = e})
        + Cardinality({w \in Workers : worker[w].ev = e})

\* No task, list or thread is about to touch an event of c's descriptor.
Settled(c) ==
    /\ phase[c] = "open"
    /\ \A e \in EventIds : ev[e].fd \in FDsOf(c) => Holders(e) = 0

\* A patient client moves when the server has settled; an eager one at once.
Patient(c) == pc # "dead" /\ (Eager \/ Settled(c))

\* No connection is on its way out, and no task, list or thread is about to touch
\* an event whose descriptor is closed.
Undisturbed ==
    /\ \A c \in Conns : phase[c] \in {"backlog", "open"} => peer[c] = "up"
    /\ \A e \in EventIds : ev[e].fd \in FreeFDs => Holders(e) = 0

\* Patient clients do not come while others leave, nor leave while others come.
MayCome == Eager \/ Undisturbed
MayLeave == Eager \/ backlog = <<>>

Connect(c) ==
    /\ phase[c] = "new" /\ MayCome
    /\ phase' = [phase EXCEPT ![c] = "backlog"]
    /\ backlog' = Append(backlog, c)
    /\ ready' = ready \union {ServerFD}
    /\ UNCHANGED <<sent, peer, inbox, wire, sock, loop, ev, readReady, pool, worker, executed>>

\* One request, in one segment: an edge if the socket is registered.
Send(c) ==
    /\ phase[c] \in {"backlog", "open"} /\ peer[c] = "up"
    /\ sent[c] < MaxReq /\ sent[c] - Len(wire[c]) < Window
    /\ Patient(c)
    /\ sent' = [sent EXCEPT ![c] = @ + 1]
    /\ inbox' = [inbox EXCEPT ![c] = Append(@, <<c, sent[c] + 1>>)]
    /\ ready' = ready \union FDsOf(c)
    /\ UNCHANGED <<backlog, phase, peer, wire, sock, loop, ev, readReady, pool, worker, executed>>

\* close() of the client's socket: a FIN.  An eager client may not have received
\* its last response, which its kernel answers with a reset.
Quit(c) ==
    /\ c \in Quitters
    /\ phase[c] \in {"backlog", "open"} /\ peer[c] = "up"
    /\ Patient(c) /\ MayLeave /\ (~Eager => Len(wire[c]) = sent[c])
    /\ \E unread \in {"fin", "gone"} :
          /\ unread = "gone" => Eager /\ wire[c] # <<>>
          /\ peer' = [peer EXCEPT ![c] = unread]
    /\ ready' = ready \union FDsOf(c)
    /\ UNCHANGED <<sent, backlog, phase, inbox, wire, sock, loop, ev, readReady, pool, worker, executed>>

\* The reset arrives from a client that had closed.
Reset(c) ==
    /\ peer[c] = "gone"
    /\ peer' = [peer EXCEPT ![c] = "broken"]
    /\ ready' = ready \union FDsOf(c)
    /\ UNCHANGED <<sent, backlog, phase, inbox, wire, sock, loop, ev, readReady, pool, worker, executed>>

\* The client resets at any time: whatever read() still delivers, it ends in an
\* error.
Abort(c) ==
    /\ c \in Aborters
    /\ phase[c] \in {"backlog", "open"} /\ peer[c] = "up"
    /\ pc # "dead" /\ MayLeave
    /\ peer' = [peer EXCEPT ![c] = "rst"]
    /\ inbox' = [inbox EXCEPT ![c] = <<>>]
    /\ ready' = ready \union FDsOf(c)
    /\ UNCHANGED <<sent, backlog, phase, wire, sock, loop, ev, readReady, pool, worker, executed>>

Clients == \E c \in Conns : Connect(c) \/ Send(c) \/ Quit(c) \/ Reset(c) \/ Abort(c)

\* close(fd): the connection, its unread data and its place in epoll go.
CloseFD(fd) ==
    LET cs == {sock[fd]} \ {None} IN
    /\ sock' = [sock EXCEPT ![fd] = None]
    /\ phase' = [c \in Conns |-> IF c \in cs THEN "dropped" ELSE phase[c]]
    /\ inbox' = [c \in Conns |-> IF c \in cs THEN <<>> ELSE inbox[c]]
    /\ ready' = ready \ {fd}

-----------------------------------------------------------------------------
(* BaseEvent: one call of triggerEvent on event e.                            *)

\* read() fails with something other than EAGAIN: EBADF or ECONNRESET.
ReadFails(e) ==
    LET c == sock[ev[e].fd] IN c = None \/ (c # None /\ peer[c] = "rst")

\* Mistake: the text is not cut (no substr).
TextKeptWhole(c, text) == text

\* What is kept of the text after a request was taken from it.
TextKept(c, text) == IF peer[c] \in AfterFin THEN text ELSE Tail(text)

\* eRead: read until EAGAIN (or end of file), then checkData on all the text.
\* Status 0 moves on and keeps the rest of the text, except after end of file,
\* where the text is kept whole; a negative status closes the descriptor and
\* leaves the text and the mapper's entry behind.
eRead(e) ==
    LET fd == ev[e].fd
        c == sock[fd]
        text == ev[e].buf \o inbox[c]
        valid == text # <<>> /\ ~Malformed(Head(text))
    IN  \/ /\ ReadFails(e)
           /\ UNCHANGED <<kernel, ev>>
        \/ /\ ~ReadFails(e) /\ valid
           /\ ev' = [ev EXCEPT ![e].stage = 2, ![e].cur = Head(text),
                               ![e].buf = TextKept(c, text)]
           /\ inbox' = [inbox EXCEPT ![c] = <<>>]
           /\ UNCHANGED <<phase, peer, wire, sock, ready>>
        \/ /\ ~ReadFails(e) /\ ~valid
           /\ ev' = [ev EXCEPT ![e].stage = 6, ![e].buf = text]
           /\ CloseFD(fd)
           /\ UNCHANGED <<peer, wire>>

\* Mistake: the descriptor is closed after the write (lines 170, 181).
eWriteCloses(e) ==
    LET c == sock[ev[e].fd] IN
    \/ c = None /\ UNCHANGED kernel
    \/ /\ c # None
       /\ wire' = [wire EXCEPT ![c] = Append(@, ev[e].cur)]
       /\ CloseFD(ev[e].fd)
       /\ UNCHANGED peer

\* write() of what is left of the response.  A lost one is counted as written:
\* bytesWritten += -1.  A closed peer answers the data with a reset.
eWrite(e) ==
    LET c == sock[ev[e].fd]
        delivers == c # None /\ ~ev[e].written /\ peer[c] \in {"up", "fin"}
    IN
    \/ ~delivers /\ UNCHANGED kernel
    \/ /\ delivers /\ peer[c] = "up"
       /\ wire' = [wire EXCEPT ![c] = Append(@, ev[e].cur)]
       /\ UNCHANGED <<phase, peer, inbox, sock, ready>>
    \/ /\ delivers /\ peer[c] = "fin"
       /\ peer' = [peer EXCEPT ![c] = "gone"]
       /\ UNCHANGED <<phase, inbox, wire, sock, ready>>

\* write() to a connection reset after its FIN raises SIGPIPE, which ServerMain.cpp
\* leaves at its default: the process ends.
Fate(e) ==
    LET c == sock[ev[e].fd] IN
    IF ev[e].stage = 5 /\ c # None /\ peer[c] = "broken" THEN "dead" ELSE pc

\* Mistake: the stage moves on in eWrite and once more in triggerEvent.
CountWrittenTwice(e) == ev' = [ev EXCEPT ![e].stage = 7, ![e].written = TRUE]

\* eWrite's bookkeeping: bytesWritten, then the stage.
CountWritten(e) == ev' = [ev EXCEPT ![e].stage = 6, ![e].written = TRUE]

\* stageNow += 1.
Bump(e) == ev' = [ev EXCEPT ![e].stage = @ + 1]

\* eDataProcess: the registered function runs the command.
eDataProcess(e) ==
    /\ executed' = Append(executed, ev[e].cur)
    /\ Bump(e)

\* What triggerEvent returns, from the state before the call.
Continues(e) == ev[e].stage # 6 /\ ~(ev[e].stage = 1 /\ ReadFails(e))

\* A call that no other thread cuts in two.
triggerEvent(e) ==
    \/ ev[e].stage = 1 /\ eRead(e) /\ UNCHANGED executed
    \/ ev[e].stage \in {2, 4} /\ Bump(e) /\ UNCHANGED <<kernel, executed>>
    \/ ev[e].stage = 3 /\ eDataProcess(e) /\ UNCHANGED kernel
    \/ /\ ev[e].stage = 5
       /\ eWrite(e)
       /\ CountWritten(e)
       /\ UNCHANGED executed
    \/ ev[e].stage >= 6 /\ UNCHANGED <<kernel, ev, executed>>

-----------------------------------------------------------------------------
(* The loop thread.                                                           *)

\* The events epoll has to report; a listening socket without a pending
\* connection is not one of them.
Reported == {fd \in ready : fd = ServerFD => backlog # <<>>}

Mask(fd) ==
    IF fd = ServerFD THEN "in"
    ELSE LET c == sock[fd] IN
         IF peer[c] \in {"rst", "broken"} THEN "hup"
         ELSE IF inbox[c] # <<>> \/ peer[c] \in AfterFin THEN "in" ELSE "out"

\* epoll_wait: for ever in one thread, for a millisecond with workers.  What has
\* no place in events stays ready; the vector is taken to have epollEventsLen.
EpollWait ==
    /\ pc = "wait"
    /\ Reported # {} \/ MultiThreaded
    /\ \E fds \in SUBSET Reported :
          /\ \/ Cardinality(fds) = EventsLen
             \/ Cardinality(fds) < EventsLen /\ fds = Reported
          /\ batch' = {<<fd, Mask(fd)>> : fd \in fds}
          /\ ready' = Reported \ fds
    /\ pc' = "dispatch"
    /\ UNCHANGED <<sent, backlog, phase, peer, inbox, wire, sock, eventMapper, readTasks, now,
                   pos, ev, readReady, pool, worker, executed>>

\* The listening socket: accept as often as possible.
Listening ==
    /\ pc = "dispatch" /\ now = <<>>
    /\ <<ServerFD, "in">> \in batch
    /\ batch' = batch \ {<<ServerFD, "in">>}
    /\ pc' = "accept"
    /\ UNCHANGED <<sent, backlog, kernel, eventMapper, readTasks, now, pos, ev, readReady, pool,
                   worker, executed>>

\* Until accept fails with EAGAIN.  Without a free descriptor it fails with EMFILE,
\* also when nobody waits, and the loop tries again.  A new registration is
\* reported once, for it is writable.
Accept ==
    /\ pc = "accept" /\ FreeFDs # {}
    /\ \/ /\ backlog # <<>>
          /\ LET fd == LeastOf(FreeFDs) IN
             /\ sock' = [sock EXCEPT ![fd] = Head(backlog)]
             /\ ready' = ready \union {fd}
          /\ phase' = [phase EXCEPT ![Head(backlog)] = "open"]
          /\ backlog' = Tail(backlog)
          /\ UNCHANGED pc
       \/ /\ backlog = <<>>
          /\ pc' = "dispatch"
          /\ UNCHANGED <<backlog, phase, sock, ready>>
    /\ UNCHANGED <<sent, peer, inbox, wire, batch, eventMapper, readTasks, now, pos, ev, readReady,
                   pool, worker, executed>>

\* Mistake: the event stays in the mapper.
HangUpKeepsEvent(fd) ==
    /\ pc = "dispatch" /\ now = <<>>
    /\ <<fd, "hup">> \in batch
    /\ batch' = batch \ {<<fd, "hup">>}
    /\ CloseFD(fd)
    /\ UNCHANGED <<sent, backlog, peer, wire, pc, eventMapper, readTasks, now, pos, ev,
                   readReady, pool, worker, executed>>

\* Mistake: the descriptor is not closed.
HangUpKeepsFD(fd) ==
    /\ pc = "dispatch" /\ now = <<>>
    /\ <<fd, "hup">> \in batch
    /\ batch' = batch \ {<<fd, "hup">>}
    /\ eventMapper' = [eventMapper EXCEPT ![fd] = None]
    /\ UNCHANGED <<sent, backlog, kernel, pc, readTasks, now, pos, ev, readReady, pool, worker,
                   executed>>

\* EPOLLERR or EPOLLHUP: forget the event and close.
HangUp(fd) ==
    /\ pc = "dispatch" /\ now = <<>>
    /\ <<fd, "hup">> \in batch
    /\ batch' = batch \ {<<fd, "hup">>}
    /\ eventMapper' = [eventMapper EXCEPT ![fd] = None]
    /\ CloseFD(fd)
    /\ UNCHANGED <<sent, backlog, peer, wire, pc, readTasks, now, pos, ev, readReady, pool,
                   worker, executed>>

\* Writable only: nothing to do.
Writable(fd) ==
    /\ pc = "dispatch" /\ now = <<>>
    /\ <<fd, "out">> \in batch
    /\ batch' = batch \ {<<fd, "out">>}
    /\ UNCHANGED <<sent, backlog, kernel, pc, eventMapper, readTasks, now, pos, ev, readReady,
                   pool, worker, executed>>

\* The event objects some shared_ptr still holds.
Held ==
    Range(eventMapper) \union Range(readTasks) \union Range(now) \union Range(readReady)
        \union {pool[i].ev : i \in DOMAIN pool} \union {worker[w].ev : w \in Workers}

FreshEvent == LeastOf(EventIds \ Held)

\* The target event gets what follows: served at once, or a read task.
Target(e) ==
    IF MultiThreaded
    THEN readTasks' = Append(readTasks, e) /\ UNCHANGED <<now, pos>>
    ELSE now' = <<e>> /\ pos' = 1 /\ UNCHANGED readTasks

\* Mistakes: bytesWritten is not reset; a finished event is not started over.
setToFirstStageKeepsBytes(event) == [event EXCEPT !.stage = 1]
setToFirstStageNever(event) == event

\* setToFirstStage: the text that is left stays.
setToFirstStage(event) == [event EXCEPT !.stage = 1, !.written = FALSE]

\* Readable: find the descriptor's event or make one; a finished one starts over.
\* Bound: an event is made only while EventIds has one that nobody holds.
Readable(fd) ==
    /\ pc = "dispatch" /\ now = <<>>
    /\ <<fd, "in">> \in batch /\ fd # ServerFD
    /\ batch' = batch \ {<<fd, "in">>}
    /\ \/ /\ eventMapper[fd] = None /\ EventIds \ Held # {}
          /\ eventMapper' = [eventMapper EXCEPT ![fd] = FreshEvent]
          /\ ev' = [ev EXCEPT ![FreshEvent] = NewEvent(fd)]
          /\ Target(FreshEvent)
       \/ LET e == eventMapper[fd] IN
          /\ e # None
          /\ ev' = [ev EXCEPT ![e] = IF ev[e].stage = 6 THEN setToFirstStage(@) ELSE @]
          /\ Target(e)
          /\ UNCHANGED eventMapper
    /\ UNCHANGED <<sent, backlog, kernel, pc, readReady, pool, worker, executed>>

\* The loop thread is inside "while (true) triggerEvent()": on the only event
\* until it is finished, or on the events of this turn until past stage 3.
Serve ==
    /\ \/ pc = "dispatch" /\ ~MultiThreaded
       \/ pc = "core"
    /\ pos <= Len(now)
    /\ LET e == now[pos] IN
       /\ triggerEvent(e)
       /\ pc' = Fate(e)
       /\ pos' = IF Continues(e) /\ (MultiThreaded => ev'[e].stage <= 3) THEN pos ELSE pos + 1
    /\ UNCHANGED <<sent, backlog, batch, eventMapper, readTasks, now, readReady, pool, worker>>

\* One thread: back to the batch.
Served ==
    /\ pc = "dispatch" /\ now # <<>> /\ pos > Len(now)
    /\ now' = <<>> /\ pos' = 1
    /\ UNCHANGED <<sent, backlog, kernel, pc, batch, eventMapper, readTasks, ev, readReady, pool,
                   worker, executed>>

\* Mistake: a single read task is not handed over.
DispatchedSome ==
    /\ pc = "dispatch" /\ now = <<>> /\ batch = {}
    /\ pc' = IF MultiThreaded THEN "swap" ELSE "wait"
    /\ pool' = IF Len(readTasks) <= 1 THEN pool
               ELSE pool \o [i \in DOMAIN readTasks |->
                               [pc |-> "trigger", kind |-> "read", ev |-> readTasks[i]]]
    /\ readTasks' = <<>>
    /\ UNCHANGED <<sent, backlog, kernel, batch, eventMapper, now, pos, ev, readReady, worker,
                   executed>>

\* The batch is done; with workers, hand over its read tasks, if there are any.
Dispatched ==
    /\ pc = "dispatch" /\ now = <<>> /\ batch = {}
    /\ pc' = IF MultiThreaded THEN "swap" ELSE "wait"
    /\ pool' = pool \o [i \in DOMAIN readTasks |->
                          [pc |-> "trigger", kind |-> "read", ev |-> readTasks[i]]]
    /\ readTasks' = <<>>
    /\ UNCHANGED <<sent, backlog, kernel, batch, eventMapper, now, pos, ev, readReady, worker,
                   executed>>

\* Mistake: readReadyEvents is not replaced.
SwapKeeps ==
    /\ pc = "swap"
    /\ now' = readReady /\ pos' = 1
    /\ pc' = "core"
    /\ UNCHANGED <<sent, backlog, kernel, batch, eventMapper, readTasks, ev, readReady, pool,
                   worker, executed>>

\* Take all events that are read, under readReadyMutex.
Swap ==
    /\ pc = "swap"
    /\ now' = readReady /\ pos' = 1
    /\ readReady' = <<>>
    /\ pc' = "core"
    /\ UNCHANGED <<sent, backlog, kernel, batch, eventMapper, readTasks, ev, pool, worker, executed>>

\* All commands are executed: hand over the write tasks, perhaps none.
HandOver ==
    /\ pc = "core" /\ pos > Len(now)
    /\ pool' = pool \o [i \in DOMAIN now |->
                          [pc |-> "trigger", kind |-> "write", ev |-> now[i]]]
    /\ now' = <<>> /\ pos' = 1
    /\ pc' = "wait"
    /\ UNCHANGED <<sent, backlog, kernel, batch, eventMapper, readTasks, ev, readReady, worker,
                   executed>>

Loop ==
    \/ EpollWait \/ Listening \/ Accept \/ Serve \/ Served \/ Dispatched \/ Swap \/ HandOver
    \/ \E fd \in FDs : HangUp(fd) \/ Writable(fd) \/ Readable(fd)

-----------------------------------------------------------------------------
(* The workers.  Each runs the task's loop over triggerEvent.                 *)

\* w is at p, and the process is alive.
At(w, p) == worker[w].pc = p /\ pc # "dead"

TakeTask(w) ==
    /\ At(w, "idle") /\ pool # <<>>
    /\ worker' = [worker EXCEPT ![w] = Head(pool)]
    /\ pool' = Tail(pool)
    /\ UNCHANGED <<sent, backlog, kernel, loop, ev, readReady, executed>>

\* Mistake: off by one.
PastReadLate(stage) == stage > 3

\* A read task's part ends here: the event is to be executed.
PastRead(stage) == stage > 2

\* After a call that returned `more`: a read task ends past stage 2 and queues
\* the event for the loop thread; a write task ends when told to.
AfterTrigger(W, more) ==
    LET ends(w) == ~more \/ (worker[w].kind = "read" /\ PastRead(ev'[worker[w].ev].stage))
        queues(w) == ends(w) /\ worker[w].kind = "read" /\ PastRead(ev'[worker[w].ev].stage)
    IN  /\ worker' = [w \in Workers |->
                        IF w \notin W THEN worker[w]
                        ELSE IF ends(w) THEN IdleWorker ELSE [worker[w] EXCEPT !.pc = "trigger"]]
        /\ \E order \in [1..Cardinality({w \in W : queues(w)}) -> {w \in W : queues(w)}] :
             /\ IsInjective(order)
             /\ readReady' = readReady \o [i \in DOMAIN order |-> worker[order[i]].ev]

\* A call at any stage but the write.
Trigger(w) ==
    LET e == worker[w].ev IN
    /\ At(w, "trigger") /\ ev[e].stage # 5
    /\ triggerEvent(e)
    /\ AfterTrigger({w}, Continues(e))
    /\ UNCHANGED <<sent, backlog, loop, pool>>

\* The write: the client may have the response before the worker counts the
\* bytes, and the bytes are counted before the stage moves on.
Write(w) ==
    LET e == worker[w].ev IN
    /\ At(w, "trigger") /\ ev[e].stage = 5
    /\ eWrite(e)
    /\ pc' = Fate(e)
    /\ worker' = [worker EXCEPT ![w].pc = "count"]
    /\ UNCHANGED <<sent, backlog, batch, eventMapper, readTasks, now, pos, ev, readReady, pool,
                   executed>>

Count(w) ==
    /\ At(w, "count")
    /\ ev' = [ev EXCEPT ![worker[w].ev].written = TRUE]
    /\ worker' = [worker EXCEPT ![w].pc = "bump"]
    /\ UNCHANGED <<sent, backlog, kernel, loop, readReady, pool, executed>>

\* stageNow += 1, unsynchronised: of the workers W that add to one event's stage
\* at the same time, only one increment may be seen.
BumpStage(w) ==
    \E W \in SUBSET Workers :
        /\ w \in W
        /\ \A v \in W : At(v, "bump") /\ worker[v].ev = worker[w].ev
        /\ Bump(worker[w].ev)
        /\ AfterTrigger(W, TRUE)
        /\ UNCHANGED <<sent, backlog, kernel, loop, pool, executed>>

WorkerStep(w) == TakeTask(w) \/ Trigger(w) \/ Write(w) \/ Count(w) \/ BumpStage(w)

-----------------------------------------------------------------------------
Next ==
    \/ Clients
    \/ Loop
    \/ \E w \in Workers : WorkerStep(w)

Spec == Init /\ [][Next]_vars

\* The loop thread and the workers are scheduled and a reset arrives; clients do
\* what they like.
FairSpec ==
    /\ Spec
    /\ WF_vars(Loop)
    /\ \A w \in Workers : WF_vars(WorkerStep(w))
    /\ \A c \in Conns : WF_vars(Reset(c))

-----------------------------------------------------------------------------
(* Properties.                                                                *)

TypeOK ==
    /\ phase \in [Conns -> {"new", "backlog", "open", "dropped"}]
    /\ peer \in [Conns -> PeerState]
    /\ sent \in [Conns -> 0..MaxReq]
    /\ inbox \in [Conns -> Seq(Requests)] /\ wire \in [Conns -> Seq(Requests)]
    /\ backlog \in Seq(Conns)
    /\ sock \in [FDs -> Conns \union {None}]
    /\ ready \subseteq FDs \union {ServerFD}
    /\ pc \in {"wait", "dispatch", "accept", "swap", "core", "dead"}
    /\ batch \subseteq (FDs \union {ServerFD}) \X {"in", "out", "hup"}
    /\ eventMapper \in [FDs -> EventIds \union {None}]
    /\ ev \in [EventIds -> Event]
    /\ readTasks \in Seq(EventIds) /\ now \in Seq(EventIds) /\ readReady \in Seq(EventIds)
    /\ pos \in Nat \ {0}
    /\ pool \in Seq([pc : {"trigger"}, kind : {"read", "write"}, ev : EventIds])
    /\ worker \in [Workers -> [pc : {"idle", "trigger", "count", "bump"}, kind : {"read", "write"},
                               ev : EventIds \union {None}]]
    /\ executed \in Seq(Requests)
    \* a descriptor is one connection's, and that connection is open
    /\ \A fd \in FDs : sock[fd] # None => phase[sock[fd]] = "open" /\ FDsOf(sock[fd]) = {fd}

\* The client closed while it had a request unanswered.
LeftUnanswered(c) == peer[c] \in AfterFin /\ Len(wire[c]) < sent[c]

RequestServer ==
    INSTANCE RequestServer WITH
        asked <- sent,
        answers <- wire,
        leaving <- {c \in Conns : peer[c] \in AfterFin}

\* Although descriptors and events are reused, clients close and reset at any
\* time and several threads work, the server implements RequestServer: requests
\* are executed and answered in order, on their own connection, and once, except
\* the last one of a client that closed without its response (at end of file the
\* text is kept, and the next edge runs it again).
ImplementsRequestServer == RequestServer!Spec

\* Only a client that closed without its response can bring the server down.
DiesOfLeaversOnly == pc = "dead" => \E c \in Conns : LeftUnanswered(c)

\* Nothing left to do: epoll has nothing to report and no thread holds an event.
Quiet ==
    /\ pc = "wait" /\ Reported = {} /\ readReady = <<>> /\ pool = <<>>
    /\ \A w \in Workers : worker[w].pc = "idle"

\* When the server has nothing left to do, every open client has all its
\* responses: no edge was consumed without the request behind it being served.
NothingForgotten ==
    Quiet => \A c \in Conns : phase[c] = "open" /\ peer[c] = "up" => Len(wire[c]) = sent[c]

\* What a client receives on its connection answers that connection's requests:
\* an event belongs to the socket it was made for ("client socket; Create an
\* corresponding Event", NetCore.cpp:173), also when its write comes after the
\* hang-up.
OwnResponses == \A c \in Conns : \A i \in DOMAIN wire[c] : wire[c][i][1] = c

\* The server never closes on a client that is up and sends RESP.
GoodClientsKept ==
    \A c \in Conns \ Bad : phase[c] = "dropped" => peer[c] # "up"

\* ... unless text that is not RESP was received before, from another client.
KeptUnlessPoisoned ==
    GoodClientsKept \/ \E b \in Bad : phase[b] = "dropped"

\* An event has at most one holder, so its unsynchronised fields are used by
\* one thread at a time.
OneHolder == \A e \in EventIds : Holders(e) <= 1

\* Commands are executed by the loop thread ("step 2 excute core logic",
\* NetCore.cpp:334), never by an I/O worker: no worker is at stage 3.
CoreOnly == \A w \in Workers : worker[w].pc = "trigger" => ev[worker[w].ev].stage # 3

\* The process has ended, or tries to accept for ever: no descriptor is free.
Stuck == pc = "dead" \/ (pc = "accept" /\ FreeFDs = {})

\* A request is answered, or the client is gone or has been closed on, or the
\* server is stuck.
Answered ==
    \A c \in Conns : \A n \in 1..MaxReq :
        sent[c] = n ~> Len(wire[c]) >= n \/ phase[c] = "dropped" \/ peer[c] # "up" \/ Stuck

\* A client that closed or reset gives its descriptor back, or the server is stuck.
Reaped ==
    \A c \in Conns : phase[c] = "open" /\ peer[c] # "up" ~> phase[c] = "dropped" \/ Stuck
=============================================================================
