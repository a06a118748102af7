# RedisReImp: specifications, checks and proofs

TLA+ models of the server in this repository, the TLC configurations that check
them and TLAPS proofs about them. Paths below are relative to the repository.

## The system

RedisReImp is a small Redis-compatible server for Linux: an edge-triggered epoll
loop, optional I/O worker threads, a RESP parser and five commands over one map.

| component | state | operations | with whom |
|---|---|---|---|
| `General/ThreadPool` | queue, stop flag, mutex, condition variable, threads | enqueue one task or a vector, destructor | the loop enqueues read and write tasks |
| `NetCore/EpollServer` | epoll set, `eventMapper` (descriptor to event), `readReadyEvents` | `sEventLoop`: wait, accept, hang up, find or make an event, trigger it | calls BaseEvent; shares events with workers |
| `General/BaseEvent` | stage 1..6, read buffer, text, parsed request, response, `bytesWritten` | `triggerEvent`: read, parse, process, encode, write; `setToFirstStage` | `read`/`write`/`close`; RESPData; the registered function |
| `RESPSolver/RESPData` | a RESP value | `checkData` (parse), `parseRESPString` (encode) | called by BaseEvent and the executors |
| `Server/Executors`, `ServerMain` | `executorMap`, the command table, `_commandConfigMap` | start; dispatch by name; COMMAND, DEL, SET, GET, EXISTS, echo | CoreDataManager; the file of commands |
| `Server/CoreDataManager` | `stringMap` (and two unused maps) | references to the maps | |
| `KVStorage` | a map with lazy deletion and expiry, a list | set, del, exist, push, pop, clear, range | used by nothing yet |
| `General` (config, class registry, `RuntimeCounter`) | settings, constructors, timings | read once; measured | everything |
| `Client`, `NetCoreTest`, `third-party` | | stand-alone programs, ini reader | |

`KVStorage` is a library in progress: as it stands it does not compile (`exist` is
declared twice, `STDListContainer`'s constructor is defined but not declared, `DataObject.cpp` is
empty). It is modelled from what its functions do.

With `ioWorkerThreadNum = 0` one thread does everything: a turn of the loop takes
each readable connection's event from read to write. Otherwise (6 in
`config.ini`) a turn hands the reads to the pool, takes the events whose read is
complete, executes their commands on the loop thread and hands the writes to the
pool. An event object is shared between the loop thread and the workers without
a lock, and so is the descriptor it names; what keeps them in one hand is the
clients' patience, and `epoll_eager` and `epoll_reuse` show what happens without it.

What is hard to get right, and is modelled:

* the pool's notifications, sent after the lock is released, one for a batch;
* edges that are reported once, against text that is read ahead and kept;
* one event for all requests of a connection: what is reset, and when;
* descriptors and events that are reused after a close, a FIN or a reset;
* descriptors running out, and more events than one `epoll_wait` reports;
* worker, loop thread and client all moving while an event changes stage;
* short reads and writes, end of file in any place, a `write` that fails;
* `-1` added to an unsigned counter, negative `int`s compared as `size_t`;
* a file that is read again and again while somebody edits it;
* expiry by a clock that may be set back.

What makes each component correct:

* pool: tasks run once, in order; no wake-up is lost; the destructor drains the
  queue and returns;
* server: every request is answered, once, in order, on its own connection; one
  thread at a time holds an event; commands run on the loop thread; descriptors
  come back; good clients are not closed on;
* event: bytes in and out are exact; the buffer has room; a turn ends;
* parser: what was encoded is read back, and beginnings of a value are told from it;
* commands: a store of strings; every key is accounted for; COMMAND answers what was read;
* containers: what exists follows from the calls; objects are neither lost nor doubled.

## Modules

| module | stands for |
|---|---|
| `WorkQueue` | what a pool promises: submit, take in order, finish, close when drained |
| `ThreadPool` | `ThreadPool.cpp` at the grain of the mutex and the condition variable |
| `RequestServer` | what the event loop promises: each client's requests executed and answered in order |
| `EpollServer` | `sEventLoop`, both branches, with events, workers, kernel and clients |
| `BaseEvent` | one event, byte by byte: buffer, text, partial writes |
| `RESPData` | parser and encoder, on a text that arrives in segments |
| `RedisStore` | what the commands promise |
| `Executors` | start, dispatch, the executors, the map and the file of commands |
| `KVStorage` | the map container and the list container |
| `ThreadPool_proofs`, `Executors_proofs`, `KVStorage_proofs`, `BaseEvent_proofs`, `RESPData_proofs` | theorems about the module of that name |
| `EpollServer_proofs` | types of `EpollServer`, and facts about lists, tasks and the free event |
| `EpollServer_events_proofs` | its inductive invariant, and that every step keeps `Places` and `Edges` |
| `EpollServer_data_proofs` | that every step keeps `Data`; the theorems |
| `MCThreadPool`, `MCEpollServer`, `MCRESPData`, `MCExecutors`, `MCKVStorage` | constants for TLC |

Three modules are abstract: `ThreadPool` implements `WorkQueue`, `EpollServer` implements
`RequestServer`, `Executors` implements `RedisStore`. `EpollServer` composes the others by what
they are shown to do: its pool is a FIFO (`WorkQueue`), its requests and responses are
read and written whole (`BaseEvent`), `checkData` is a verdict (`RESPData`), and a command is
one step (`RedisStore`).

Each module keeps a plausible mistake next to the definition it distorts
("Mistake: ..."). Nothing uses them; PROJECT.json lists which property catches
which.

### ThreadPool

A critical section of `queueMutex_` is one action (`Enqueue`, `Take`, `Wait`,
`Exit`, `Stop`); `NotifyOne` and `NotifyAll` are actions of their own, because the
code notifies after unlocking. `Wait` is `cv_.wait` with a false predicate:
it gives the lock up and sleeps in one step. `SpuriousWake` is allowed and never
relied on. `Run` is the task, outside the lock. `submitted`, `taken` and `done` are
history. The abstract `WorkQueue` has only the history and `closed`; `ThreadPool`
implements it with `closed <- (owner = "gone")`.

### EpollServer

One module for both branches: `Workers = {}` is the single-threaded one. `pc` is
the loop thread's place in `sEventLoop`; `batch` is `events[]`; `now` and `pos` are
the loop over the event(s) being served. `Listening`, `HangUp`, `Writable` and
`Readable` are the four branches for an epoll event, `Serve` is one call of
`triggerEvent`, `Dispatched`, `Swap` and `HandOver` are the later parts of a turn.
Reports of one `epoll_wait` are handled in any order. Workers take tasks from
`pool`, a FIFO (which is what ThreadPool is proved to be), and make one call of
`triggerEvent` per step; the stages that another thread can cut in two are cut:
`Write` (the client has the response), `Count` (`bytesWritten`) and `BumpStage`
(`stageNow += 1`, a data race, so that several increments may leave one).

`Listening` enters the loop over `accept`, which `Accept` takes one connection further,
or leaves when nobody waits. Without a free descriptor `accept` fails with EMFILE (on
Linux before it looks whether somebody waits), which the code prints and tries again:
no action is enabled, and in one thread nothing will ever free a descriptor. `Stuck`
names this state, and the liveness properties say that nothing else keeps a request
from its answer. `EpollWait` reports at most `EventsLen` events; the rest stay ready.

The kernel and the clients are external. A socket is registered edge-triggered:
`ready` holds descriptors with an unreported edge, and the mask is computed when
`epoll_wait` returns. A client connects, sends requests, closes (`fin`) or resets
(`rst`). A response written to a closed client brings a reset back (`gone`, then
`broken`); a write after that raises SIGPIPE, which the program leaves at its
default, and the process ends (`pc = "dead"`). After end of file `eRead` keeps the
request in the text, so an edge in this window executes it a second time;
`RequestServer` says exactly who may see that.

An *eager* client (`Eager = TRUE`) connects, sends, closes and resets at any time; a
*patient* one

* sends, and closes, when the server has accepted it and no task, list or thread has an
  event of its descriptor (`Settled`: the phase is `open`, so not while it waits in the backlog);
* connects when nobody is on the way out: no client has closed or reset a connection that
  the server still has, and no task has an event whose descriptor is closed (`Undisturbed`, `MayCome`);
* closes or resets only while nobody waits for `accept` (`MayLeave`), but a reset comes
  at any other time, also while a worker or the loop is in the client's event.

In one thread clients are eager. With workers, the passing run has patient clients, and with
eager ones what it shows is violated: in `epoll_eager` by a request
that comes early, in `epoll_reuse` and `epoll_stale_read.cfg` by a connection that begins while
another ends. The last two are about descriptors: a client that resets while its
task is queued has its descriptor closed by the hang-up, `accept` gives out the lowest free
number whether or not a task has an event of it, and the stale task then writes its
response to the next connection, or reads nothing from it and closes it.

`RequestServer` knows the requests asked, the executions and the answers: a request is
executed after the one before it, a client that closed without its answer may see its
last one executed again, and an answer follows its request's execution. `EpollServer`
implements it with `asked <- sent`, `answers <- wire` and `leaving` the clients that
sent a FIN; everything the threads, descriptors and events do is a stutter.

`EventIds` bounds the events alive at once: `Readable` makes one only while some number is held
by nobody, as a `shared_ptr` frees an event that nobody holds.

Requests and responses are whole here. That is sound for what BaseEvent shows:
requests that come in one burst are read to the end and responses are written to
the end; it is not for the cases of `base_event_fragments`, `base_event_eof.cfg` and
`base_event_backpressure`.

### BaseEvent

Bytes are positions in the client's stream, so "the right byte" is an equality.
`ReadSome` is one `read`, of any length; `ReadAgain` is EAGAIN with `checkData`'s verdict,
`ReadEOF` is end of file; `WriteOnce` is one `write` that takes any part or fails.
`checkData` is abstracted to its verdicts: a text that begins with a request is
complete, a beginning of one is incomplete or, at the lengths `Early`, taken for an
error, and one without its last byte is taken for complete, as `resp_invalid.cfg`
and `resp_complete.cfg` show; a text that no client sent may get any verdict.
When the last byte alone is missing at EAGAIN, `substr` is called with the next part's place, which is
behind the text's end, and throws: nothing catches it and the process ends (`running`).
After a close in mid-request nothing is modelled: `eRead` goes on with the freed buffer, which is
undefined, and the model stops there. `BufferThere` says that this must not happen.
`bytesWritten` is a `size_t`: its values are `0..SizeT-1`, and adding -1 to 0 gives the last.

### RESPData

A text is a sequence of symbols: a type byte, a decimal number (`Digits` gives each number's
symbol), a byte, CR, LF. `Parts` are the values that are sent and their elements; `Height`
says how deep each is nested. A string may hold anything, a line anything but CR.

`parseRESPString` is a recursive function on the parts. `checkData(s, offset)` is one entry
of a table: `checkPart(s, checked, o)` is what one call does at offset `o` when `checked` says
what the calls at other offsets give, `checkElements` is its loop over an array's elements,
and the table is the recursive function they make. Offsets are the code's (from 0). A
call's result is a status with a part and the next part's offset. Status `Undefined` is the code going on
at an offset beyond the text's end or at one that was never set, `Thrown` is `stoi` at what
is no number. `Receive` is a segment's arrival, after which the whole text is judged,
as `eRead` does.

`PrefixVerdict` says what holds of a beginning of a value: it is taken for complete only when
the last LF alone is missing, and then as the value that is coming; and one that
breaks off inside a part is incomplete. `checkData` does more with beginnings than it should, and
two properties of their own say so, each violated: a text that ends where an element
should start is an error (`InvalidOnly`: the string's NUL is no type byte), and one without the last
LF is complete (`CompleteOnly`), with the next part beyond the text (`eRead`'s `substr` then throws).
`PrefixVerdict` leaves open what is said where an element is to start. A null
string is parsed but leaves the next part unset, so these properties and `RoundTrip` except
values with one. A negative number of elements becomes a huge `size_t`; the definition says what
comes of it, but no value that is sent has one.

### Executors

`Execute` is `getExcutor` and `execute`; `stringMap` is a function on the keys it has.
DEL goes through its arguments and erases as it goes: `Erased` is the set of argument
positions that count, those whose key was there and is not named before. GET uses
`operator[]`, which creates the key it does not find. `RedisStore` is what line 180 refers to:
a GET creates nothing, a request that is no command is refused, and only a missing file ends
the server. `KeysAccounted` is about the keys that SETs created.

`Start` reads the file of commands, and so does every COMMAND, for the flag that should
prevent it is never set: entries of older versions stay, newer ones replace them, and
the process exits when the file is gone. `EditFile` is somebody with an editor. `Requests`
holds all that clients may send, also too few arguments and elements that are no strings;
those the code cannot read end the process (`End`), because `at()` throws and a null
pointer is dereferenced. The constant `Careless` says which of two things clients do: send such
requests (`"short"`), and GET keys that are not there (`"missing"`). Without them the
commands implement `RedisStore`; each alone violates it or `KeysAccounted`. `log` and `reads` are history.

### KVStorage

The map's entries stay for ever: `Del` marks, `Exist` marks what it finds expired, `Set` replaces.
`now` is the system clock, which `SetClock` moves in both directions. An expiry of 0, which
`set` stores when none is given, is compared with the clock like any other: `ExistsByHistory`
speaks of keys with an expiry, and `ZeroNeverExpires` of the others, which it does not keep. `del` answers 1
for any key in the map, also one that is gone. `getKeys` and `getKeyNum` never advance their
iterator: such a call does not return (`usable = FALSE`), and neither does the model. The
list is a deque of objects named by the order of their push; `LPush` appends at the back, so that
`ListOrder` says that the sides are the two ends and `LeftIsFront` which one is left.
A pop destroys the element and then copies it through the reference it kept: the caller gets
the object or `Garbage`. `GetRange` has its comparisons in `size_t`, so that a negative end is
the list's end and a negative beginning gives nothing. `until`, `seen`, `said`, `sides`, `taken`
and `cleared` are history.

## Runs

Passing:

| run | instance | distinct states | what it shows |
|---|---|---|---|
| `thread_pool` | 3 workers, 3 tasks, batches of up to 2, empty ones too | 6 thousand | order, once-only, wake-ups, draining, termination, `WorkQueue` |
| `epoll_single` | 3 connections, 3 descriptors, 2 requests each, 2 events per wait; c1 may close or reset, c3 sends no RESP | 185 thousand | `RequestServer`, liveness and reaping across reuse |
| `epoll_workers` | 2 workers, 2 patient connections, 2 requests each, one may close, one reset | 324 thousand | `RequestServer`, single holder, core thread only, nothing forgotten, all answered |
| `base_event` | buffer of 4, requests of 5, responses of 3, 3 requests, 2 under way | 2 thousand | exact input and output, room in the buffer, end of turn |
| `resp_data` | strings of 0 to 2 bytes, also CR LF and type bytes, lines, an integer, arrays of up to 2, nested once; a value behind | 9 thousand | round trip, no beginning read as another value |
| `executors` | 2 keys, 2 values, 4 commands, up to 2 arguments to DEL and EXISTS, 2 versions of the file; nothing `Careless` | 608 thousand | `RedisStore`, account of keys, what COMMAND gathers |
| `kv_storage` | 2 keys, 3 instants, 3 pushes, `size_t` of 4 bits | 1.9 million | existence by history, each object once, order by side, ranges |

Why these bounds are enough to be interesting: three workers let one sleep, one run
and one be notified; a batch of two is the smallest with one notification for
several tasks. With three descriptors for three connections the lowest free one is
reused when a client has left, which is what stale events need, and the last `accept`
finds none free; two requests are the fewest with which an event starts over; two events
per wait leave the third ready. In `epoll_workers` two connections have a spare
descriptor, so that the loop is never stuck and `Answered` speaks of the threads. A
buffer of 4 with requests of 5 has reads that leave it below half, flush it and span
two requests, and three response bytes have short writes in every place. With four
commands a key can be set, deleted, read and counted, and two versions of the file can be
read that add to and contradict each other. Three instants are before, at and after an expiry;
three objects are the fewest whose order a wrong end shows; four bits of `size_t` tell a
negative bound from every position (the proofs need more than twice the pushes).

Violations, each a disagreement between the code and what the repository says
(the quotations are in PROJECT.json):

| run | violated | what happens |
|---|---|---|
| `epoll_pipelining` | `NothingForgotten` | a second request read together with the first is not served until more input comes |
| `epoll_eager` | `CoreOnly` | the write task's loop goes on into the client's next request and executes the command on a worker |
| `epoll_reuse` | `OwnResponses` | a write task of a client that has reset sends its response to the next connection on the descriptor |
| `base_event_fragments` | `TextKept` | after EAGAIN in the middle of a request the buffer is appended to the text twice |
| `base_event_backpressure` | `WrittenCounted` | a `write` that fails with EAGAIN counts as a complete response |

Further disagreements have a configuration each, beside the runs: `tlc -config X.cfg M`, with `M` the
module named, finds the property violated.

| configuration | module | violated | what happens | what the repository says |
|---|---|---|---|---|
| `epoll_poisoned.cfg` | `MCEpollServer` | `GoodClientsKept` | a connection closed for invalid text leaves its event behind; the next one on that descriptor is closed on | NetCore.cpp:173: a client socket gets "an corresponding Event" |
| `epoll_stale_read.cfg` | `MCEpollServer` | `GoodClientsKept` | a read task of a client that has reset closes the next connection on the descriptor | BaseEvent.h:41: `clientFD` is the "corresponding file descriptor" |
| `base_event_eof.cfg` | `BaseEvent` | `BufferThere` | after a close in mid-request `eRead` goes on with a freed buffer | BaseEvent.cpp:82: at end of file "all datas has been read" |
| `resp_invalid.cfg` | `MCRESPData` | `InvalidOnly` | the text of an array up to its length is judged invalid | RESPData.h:30: negative is invalid |
| `resp_complete.cfg` | `MCRESPData` | `CompleteOnly` | a text without its last LF is judged complete | RESPData.cpp:100 and 144: "data not complete" |
| `executors_get.cfg` | `MCExecutors` | `KeysAccounted` | a GET of a missing key creates it | Executors.cpp:180: "behavior refered to redis command documentation" |
| `executors_short.cfg` | `MCExecutors` | `ImplementsRedisStore` | a request with too few arguments ends the process | the same |
| `kv_no_expiry.cfg` | `MCKVStorage` | `ZeroNeverExpires` | a key set without an expiry has expired | DataObjects.h:35: "0 as not expire by time" |
| `kv_push_left.cfg` | `MCKVStorage` | `LeftIsFront` | `lpush` pushes at the end from which `lpop` does not pop | KVInterface.h:30-31: "push left", "pop left" |

`GoodClientsKept` holds in `epoll_workers`, where clients are patient and none sends invalid text;
`epoll_poisoned.cfg` shows how it fails otherwise. `epoll_single` checks `KeptUnlessPoisoned`, which
excuses everything from the moment a client that sent invalid text was closed on: it says that nothing else begins the trouble, not
that every later close is of that cause.

## Fairness

* ThreadPool: every thread that can take a step does, and an owner inside `enqueue`
  or the destructor leaves it. Whether a task returns is not the pool's to promise:
  `EveryTaskRuns` and `StopTerminates` assume `Returns(w)` for each worker.
  `EveryTaskStarts` assumes nothing of the tasks but that the owner goes on calling
  `enqueue` with empty vectors (`Polling`), which the loop does every turn
  (NetCore.cpp:380): its notification is what rescues a batch of which only one
  worker was told.
* EpollServer: the loop thread and the workers are scheduled, and a reset on its way
  arrives. Clients have no fairness. `Answered` is of clients that are patient with workers, and of a
  loop that has not run out of descriptors (`Stuck`).
* BaseEvent: the loop is scheduled, and a request once begun is sent to its end.
* Executors and KVStorage promise nothing about when they are called.

Deadlock is not checked where the system rightly comes to rest: a destroyed pool,
clients with nothing left to send, a process that has ended, a log at its bound.

## Proofs

Each proof module holds for every value of the constants that the model's assumption
allows, and rests on nothing else but the library's facts about sequences, finite sets and
well-founded relations.

`ThreadPool_proofs` (`PoolAssumption`: there is a worker, `NoTask` is no task, the batch bound
is a natural number): `Invariance` (`Spec => []IInv`); `TypeCorrect`, `TasksInOrder`,
`TasksRunOnce`, `WakeupsArrive` and `DestructorDrains`, the five safety invariants of the run
`thread_pool`; `Refinement`, that is, `Spec => ImplementsWorkQueue`. None of the invariants is
inductive by itself. `JoinDrains` needs that a worker exits
only with the queue empty and the flag set (`ExitDrained`), that the flag is set only
by an owner that has left `enqueue` for good (`StopOwner`), and that the owner is gone
only when all have exited (`GoneJoined`). `RunOnce` needs that submitted tasks are
distinct (`Unique`) and `Fifo`, to know that the head of the queue was never taken.
`NoLostWakeup` is preserved by `Take` because the taker is awake itself, and by `Wait`
because a worker waits only on an empty queue. `IInv` is the conjunction of these with
the invariants; there is one lemma per conjunct and one step per action. The
refinement maps `Enqueue` to `Submit`, `Take` to `Take`, `Run` to `Finish`, `Join` to `Close`,
where `JoinDrains` supplies `Close`'s guard, and everything else to a stutter.

`Executors_proofs` (`ExecutorsAssumption`: the special values differ from the ordinary ones, the
bounds are natural numbers): `TypeCorrect` and `CommandAnswersAccumulate` of any clients,
`CommandsImplementStore` (`Spec => ImplementsRedisStore`) with `Careless = {}`, and `EveryKeyAccounted` with
`"missing" \notin Careless`, the hypotheses that `executors_short.cfg` and `executors_get.cfg` take away. The refinement is command by command; DEL is
the one that needs an argument, namely that the positions that count correspond one to one
to the live keys named. `KeysAccounted` is inductive once the map's domain is known to be what
the log says is `Present` (`KeysInv`), which tells whether a SET creates its key;
`CommandsAccumulate` needs that the map of descriptions is at any time what the contents read so
far gather, and that each COMMAND in the log read once (`ReadsInv`).

`KVStorage_proofs` (`KVStorageAssumption`: `size_t` has more than twice as many values as
there are pushes): `TypeCorrect`, `ExistAnswers`, `PushedOnce`, `OrderBySide` and `RangeSigns`, all
five invariants of the run. `MapInv` relates an entry to the calls that made it: it is
unexpired exactly while no `exist` has seen its time pass and no `del` came, whatever its expiry. `ListInv` says
that the list's objects are distinct, pushed, and ordered by side.

`BaseEvent_proofs` (`EventAssumption`), for a buffer and messages of any length:

* of any client: `BufferHasRoom` (`Spec => []RoomToRead`), from `RoomInv`, which says that the buffer
  is never more than half full between two reads, and freed only at the client's end;
* under `Bursts`: `InputExact` (`Bursts /\ Spec => []InputKept`) and `ExecutedAsSent` (`ExecutedInOrder`);
* under `Bursts` and `~Backpressure`: `OutputExact` (`WireExact`), `WritesCounted` (`WrittenCounted`) and
  `TypeCorrect`.

The hypotheses are what `base_event_fragments`, `base_event_eof.cfg` and `base_event_backpressure` take
away: that `read` may find nothing in
mid-request, or the end, and that `write` may fail. `InputInv` says where the client's
stream is: consumed, in the text, in the buffer, in the kernel, joined without gap or repeat.
`Shape` distinguishes three ways for it to be so: every byte in one place (`Kept`), a
request kept in the text after end of file (`Stays`), or a descriptor that is closed (`Left`).
The reader's lemmas say that, in each of them, what `checkData` judges begins at a
request's first byte. `OutputInv` says how many bytes are on the wire at each stage (`Done`):
`bytesWritten` counts the bytes of the last response and starts over with each.

The theorems about EpollServer hold for any number of connections, descriptors, events,
workers and requests. They rest on
`ServerAssumption`: among other things, the workers are finitely many. `TypeCorrect` (`TypeOK`) assumes nothing else; the others assume `Calm`:

    Calm == Workers = {} \/ (~Eager /\ Window = 1 /\ Bad = {})

that is, one thread and any clients, or workers and patient clients that send RESP, one
request at a time. It is a hypothesis about the clients, not about the kernel: with workers the theorems
say nothing of a server on which a connection begins while another ends, or a request comes
before the last one's task is over, and `epoll_eager`, `epoll_reuse`, `epoll_stale_read.cfg`
and `epoll_pipelining` show that `CoreOnly`, the pairing of connections and responses, `GoodClientsKept` and
`NothingForgotten` then fail. A reset while the client's own event is in hand is covered.

| theorem | property | assumes |
|---|---|---|
| `TypeCorrect` | `TypeOK` | |
| `OneHolderAtATime` | `OneHolder` | `Calm` |
| `LoopThreadExecutes` | `CoreOnly` | `Calm` |
| `DiesOfLeavers` | `DiesOfLeaversOnly` | `Calm` |
| `ClosesOnPoisoned` | `KeptUnlessPoisoned` | `Workers = {}` |
| `KeepsGoodClients` | `GoodClientsKept` | `Calm`, `Bad = {}` |
| `ForgetsNothing` | `NothingForgotten` | `Calm`, `Window = 1` |
| `ServesInOrder` | `ImplementsRequestServer` | `Calm` |

The invariant, `IInv`, is `TypeInv` and four parts, none of which is inductive without the others:

* `Places`: each event is in one list, task or thread, once (`Once`); where the loop thread
  is says what lists it can have in hand (`Turn`); an event's place says its stage (`StageOf`);
  written bytes are counted ahead of the stage only by the worker about to raise it.
* `Edges`: an event in hand is the one its descriptor is mapped to, and is not reported again
  (`HeldUnreported`, `NoEdgeWhileHeld`), which is what keeps a second task from being made; and the
  converse, `NoLostEdge`: what a client that is up has sent is on its way as an edge, a report or
  an event at the first stage.
* `Data`: for each connection the answers, executions and requests sent are in step
  (`Counts`, `UpAnswered`); the request an event has taken is the next, or the last once more of a
  client that closed (`TakenNext`); one event serves a connection, on that connection's own
  descriptor (`OneServes`, `OwnDescriptor`); and the text kept in the event, followed by what the
  kernel has, is exactly what was sent from there on (`TextLast`). What an event leaves behind
  when its descriptor is closed is finished and holds nothing that would pass for a request
  (`ClosedFinished`), so the next connection on that number finds nothing of the last.

* `Arrivals`: with workers, while somebody waits for `accept` no connection is on its way out and
  nobody has the event of a closed descriptor, which is what patience gives: the descriptor
  that `accept` takes is in no task.

`Patience`, a part of `Data`, is where the workers' clients matter: a client that closed has all its
answers, so no worker's write meets a closed peer, and with workers the process does not
die at all. Each step is one lemma per part; the calls of `triggerEvent` are seven cases (`Calls`),
shared by the loop thread and the workers, and a step of a worker's write has three. The
refinement maps `Send` to `Ask`, `Quit` to `Leave`, the call at stage 3 to `Execute`, where `TakenNext`
supplies its guard, the write to a client that is up to `Answer`, where `UpAnswered` says that
the response is the next one, and all else to a stutter.

`RESPData_proofs` (`RESPAssumption`: numbers have different symbols, none of them a CR, every
element is nested less deep than its array, no string or array is longer than the largest number that
has a symbol): values of any length, nested to any depth, and texts of any length.

| theorem | property | what it says |
|---|---|---|
| `TypeCorrect` | `TypeOK` | the next part is set but for null strings, and `stoi` gets numbers |
| `ReadsBack` | `RoundTrip` | what was encoded is read back, whatever is behind it |
| `JudgesBeginnings` | `PrefixVerdict` | what a beginning of a value is never taken for |
| `ReadsAnywhere` | | the same at any offset of any text at which a value, or the beginning of one, lies |
| `WrittenApart` | | no value's encoding is the beginning of another's |

Both the encoder and the parser are recursive, so everything here is an induction. The
library's induction theorems take a formula as a parameter, which the provers cannot
instantiate; `Induction`, `InductionUpTo` and `HeightInduction` say the same of a set, and
`Recursion` says that a function defined from its own values at places of lower rank exists and
solves its equation. They follow from `LeastElement`, the library's theorem on
well-founded relations for the numbers. With them `Encoding` gives what `parseRESPString` is
on each part, and `Appended` and `JoinedAt` what joining encodings gives at each place.

That `checkData`'s table exists is not obvious: a call looks at other offsets, and what makes it
well defined is that it looks only further on in the text, or at `Unset` (`Distance`, `CallLocal`), where the
bounds stop it. `Calls` concludes that every entry is what `checkPart` gives from the others. The layout lemmas
(`IntLayout` to `ArrayLayout`) then say which symbol an encoding has at which place, and
`Judging` what one call makes of a type byte, a line's end and a number at such a place. `ToRead` is
the claim about one part at one offset: if all of it but its last LF is there, it is read; if
less is there, the verdict is `Early`; with a null string in it there are four outcomes. `ReadsPart` proves it
by induction over the height, where the loop over an array's elements is in one of three states: all
read so far (`AllRead`), stopped where the text ends (`CutOff`), or past a null string (`Nulled`).
The invariant of the specification, `Arrival`, only says that the text is a beginning of what was
sent and the outcome is `checkData`'s; it is inductive by itself, and all the work is in the lemmas about
the parser.

In the other modules, where an induction over numbers was needed, its place is taken by a least
element (`LeastElement` of `Executors_proofs`), and the arithmetic of requests and positions by
`Multiples` and `Quotient`.

Only model-checked: liveness, which is outside the prover. That is `EveryTaskRuns`, `EveryTaskStarts`,
`StopTerminates` of ThreadPool, `Answered` and `Reaped` of EpollServer, and `TurnEnds` of BaseEvent.
Every invariant and every other property of a passing run is a theorem.

## Not modelled

* RESPData: the accessors, and that an empty array has no vector behind it, which
  `getDataVecLen` dereferences; numbers that `stoi` reads from a longer text, as of `12x`.
* What follows a null string as an array's element (its next part is never set, and the model
  leaves the outcome undefined), and what a caller gets from a pop (`Garbage`).
* What the loop should do when descriptors run out: the model shows that it stops (`Stuck`), and the
  liveness properties excuse it.
* KVStorage: the data in an entry and the calls that only read (`len`, `index`, `getall`);
  `get` and `getDataType` have no body.
* Failures of `epoll_wait` and `epoll_ctl`; `sBind`; `shutdown` of one direction only; `events`
  being sized before the configured `epollEventsLen` is read (the model takes the two lengths
  to be equal, as they are in `config.ini`).
* NUL bytes in requests, which appending a C string drops.
* Configuration and class registry: read once at start, a setting each; their values are constants
  of the models.
* RuntimeCounter: statistics that nothing reads. `GetCommands`, `Client` and `NetCoreTest`:
  stand-alone programs, the last around a loop with a signature the server no longer has.
  The ini reader is third-party code.

## Plan

Done: ThreadPool, EpollServer, BaseEvent, RESPData, Executors and KVStorage; the abstract
specifications of the pool, the server and the store; every safety property and every refinement
that a passing run checks, proved. What is left, in this order:

1. Eager clients with workers: which part of `IInv` survives without patience, for instance
   with connections that come and go freely but requests that wait.
2. `BaseEvent` without `Bursts`: what of the order of requests survives fragments.
3. That `EpollServer`'s pool, taken to be a FIFO, is `WorkQueue` under a refinement mapping.
4. `GetCommands`, whose read loop does not end when the other server closes.
