# Verification of the kvstore-epoll server

TLA+ models of the server in this repository, the TLC runs that check them, and
theorems about them checked by TLAPS. Paths are relative to the repository's root.

## The system

One process. `Webserver` owns an epoll descriptor, a listening socket, a thread
pool, a pool of connection objects and a timer with a thread of its own. The main
thread runs `EventLoop`; the only other thread that does anything in the shipped
build is the timer's *clock thread* (`THREAD_POOL_FLAG` is false, so handlers run
on the main thread and the pool's workers sleep).

```
 client --TCP--> epoll --> EventLoop --+--> deal_NewConn --> Conn_pool, add_timer
                                       +--> deal_Read --> ConnectionInfo::read --> ring_buffer
                                       |        convert_request --> HttpParser
                                       |        Router --> http_task_get1 | http_task_get2
                                       |                                      kvstore_request --> hash table
                                       +--> mod_timer ------------+
                                       +--> close_conn --> del_timer, Conn_pool::Release
 clock thread --> handle_timer --> timer_task --> close_conn --> ...
 start: init_kvengine reads kvstore_data.db      end: exit_kvengine rewrites it
```

| component | state | operations | what makes it correct |
|---|---|---|---|
| hash table (`kv_core/hash.cpp`) | array of chains, element counter | put, get, delete, modify, exist, count | every key found in its chain and only once; counter exact; acts as a dictionary |
| commands (`kv_core/kvstore.cpp`) | the caller's reply buffer, a token array on the stack | HSET HGET HDEL HMOD HCOUNT | each reply is the dictionary's |
| persistence (`hash.cpp`, `kvstore.cpp`) | `kvstore_data.db` | load at start, save at exit | a start restores what the last exit saved; a torn save yields nothing that was not there |
| timer (`timer/`) | heap of timers, map id -> version, stop flag | add, mod, del, del_all, destructor; the clock thread | a timer superseded or deleted never runs; the current one does; no lost wake-up; the destructor returns |
| thread pool (`utils/threads_pool.*`) | task queue, stop flag | enqueue, worker loop, shutdown | tasks begin once, in order; no worker sleeps on work; shutdown drains and returns |
| connection (`network/connect_info`, `protocol_parser`, `task_and_router`) | read buffer and its counters, the request | read, convert_request, routing, handlers | each request received is executed once, on its own bytes; a connection is closed only when its peer closed it |
| connection pool (`utils/memory.h`) | free list of blocks, map fd -> object | acquire, add_map, get, Release | no block serves two open connections |
| reactor (`Webserver.*`) | epoll set, events, descriptors | accept, read, mod_timer, close; timer_task on the clock thread | no open connection is left without a timer; an idle one is closed; a descriptor is closed once |
| signals and shutdown (`Webserver.*`) | a socketpair, the stop flag | handler, del_signal, ~Webserver | a signal ends the process, whatever the clock thread is doing |
| log (`log/`) | open file, its buffer, line count, day | init, write_log, flush_log | each line in one file, once, in order, on disk when the macro returns |
| epoll, tcp (`network/epoll.*`, `tcp.*`) | a descriptor | thin wrappers of system calls | - |
| MySQL pool (`CGImysql/`) | - | - | not built, does not compile, not called |

What is hard here: two threads that share the heap, the version map and the
connections, with several accesses outside the mutex; version numbers that are
used again after a delete; condition variables notified outside the lock; a file
rewritten in place; a read buffer whose counters and contents do not agree; TCP
cutting a request anywhere. `PROJECT.json` lists each hazard at its line.

## The modules

| module | models | notes |
|---|---|---|
| `KVMap` | what the engine promises: a dictionary and the reply of each command | abstract |
| `KVHash` | hash.cpp's chains and counter, kvstore.cpp's commands | implements `KVMap` with `dict <- Contents` |
| `KVStore` | `EXTENDS KVMap`: what the engine promises over all lives of the process: the dictionary, and what of it goes from one life to the next | abstract |
| `KVEngine` | `EXTENDS KVHash`: load, serve, save, exit, crash, over many lives of the process | implements `KVStore` |
| `Timers` | what the timer class promises to the event loop | abstract |
| `ThreadClock` | `Thread_clockr`: main's calls and the clock thread, with its waits | implements `Timers` |
| `TaskPool` | what the pool promises: accepted tasks begin once, in order, all end before shutdown returns | abstract |
| `ThreadPool` | `pthreads`: clients, workers, the thread that shuts down | implements `TaskPool` |
| `ConnPool` | `Conn_pool`: free list, objects that overlap, the map | operators used by `Reactor` |
| `Reactor` | `EXTENDS Timers, ConnPool`: the event loop, connections, callbacks, signals, the destructor | the composition |
| `Connection` | one connection: bytes on the wire, ring buffer, parser, router, handler | what `Reactor`'s `Handle` abstracts |
| `Logger` | `kv_log`: lines, files, days, threads | |
| `MC*` | values of the constants for TLC | |
| `KVHashProofs`, `KVEngineProofs`, `ThreadClockProofs`, `ThreadPoolProofs`, `ReactorProofs`, `ConnectionProofs`, `LoggerProofs` | theorems | |
| `NumberLemmas` | a nonempty set of numbers has a least one, for three of them | |

`Timers` is where the two halves of the server meet. `ThreadClock` is the class
with its mutex, heap, condition variable and waits, and shows that it does what
`Timers` says; `Reactor` uses `Timers`' actions instead of those of the class, so
that its states need no program counters of waits and wake-ups.

### How state and steps correspond to the code

**KVHash.** `nodes[s]` is the chain of slot `s`, head first; `count` is
`hash->count`. All commands run on the main thread, so a command is one step.
`Hash` stands for `_hash` on keys of 7-bit characters, where the sum is not
negative. A command with too few words reads the uninitialized `tokens` array of
`kvstore_request`: the operand is NULL or any string (`Operand`), chosen freely.
`Fit` is what HGET's reply has of a value: the buffer holds 511 characters, and
longer values are cut (kvstore.cpp:102). The slots are malloc'ed and not zeroed:
the table is empty when the block is fresh from the system; otherwise a walk
follows a wild pointer, the end of the process.

**KVEngine.** `disk` is what `kvstore_data.db` holds of each pair. A string is a
sequence of words, its pieces between colons; what is written of a pair is the two
sequences joined, and `strchr(line, ':')` takes its first word. Messages are split
at spaces only, so that a word may hold newlines, and the save writes them raw. A
word in `Broken` has a newline or makes a line longer than the 511 characters of
`fgets`: loading sees two lines, one that ends in the word's `Upper` part
(`Fetched`) and one that begins with its `Lower` part (`Left`), which may be broken
again. So a value with a newline, or a long one, comes back as its beginning, and
if there is a colon behind it, the rest as another pair. `read` and `rest` are
where loading is in the file: the pairs it has gone into, and what it has left of
the last. `fopen("w")` empties the file at once (`SaveOpen`); `slot` and `at` are
the two loops of `save_to_disk`, a node a step; `fclose` puts the whole on disk,
or, on a full disk that nobody notices, as much as fits. A crash in the middle
leaves any prefix of what was given to the stream, the last line cut anywhere
(`Flushed`). `Crash` stands for kills, SIGPIPE, the faults named above and the
`assert` of modify. `Key` and `Value` are all strings, `ClientKey` and
`ClientValue` those that clients send; `StringsAssumption` names the strings that
cutting a line yields, so that `Key` and `Value` can be small sets for TLC.

`KVStore` has no file: `kept` is what the next start is to find, `cut` says that the
save that was to keep it has not ended. While the engine loads, its dictionary is
still the empty one of a process that is down; the last line makes it `Start`.

**ThreadClock.** `queue` is the heap as a set (equal deadlines leave the heap in
any order); `map` is `_timer_map`. Places of `main` and `clock` are program
points; a step is one hold of `_mutex` or one unlocked access: the read back of
the version in `mod_timer` (timer.cpp:52), the emptiness test at :111, the size
in the destructor at :127. `handle_timer`'s loop is one step per timer, with the
mutex held (`Unlocked`), because main's unlocked accesses fall in between.
Waiting is explicit: `timedWait`, `idleWait`; a notification, a timeout or nothing
at all (spurious wake-up) makes the thread test the predicate again. A callback is
`timer_task`, which deletes its id's timer or leaves it. Time is an integer of
seconds, as `time(nullptr)` is.

**Timers.** The same heap, map and batch without the waits: the thread is
`"idle"`, has the mutex and takes timers off (`"pop"`), runs callbacks (`"run"`)
or has ended (`"gone"`). The refinement mapping is `Caller`, `Thread` and `Limit`
of `ThreadClock`.

**ThreadPool.** A step is one hold of `_queue_mutex` or one notification;
`notify_one` comes after the unlock and is a step of its own (`NotifyOne`), to any
waiting worker. A notified worker competes for the mutex with the others
(`"ready"`).

**ConnPool.** `free` is `_free_list`, `link` the pointer in a free block's first
word, `desc` the descriptor that an object has in the same place, `object` the map
from descriptors, `active` the time of the last activity of each object. Blocks
are 1024 bytes apart and an object has 2104, so that objects write over each other:
making one (`Construct`) zeroes the links and descriptors of the next two blocks
and the times of the two before; more than 1004 bytes of a request come over the
link or the descriptor of the next (`Receive`); a command clears the reply buffer,
and so the time of the one before, and an HGET reply of 21 characters or more
makes that time of its own characters (`Garbage`). `spoilt` are the blocks where
that has happened since they last received. `Release` pushes `&info`, the address
of its own parameter: `Wild`, as is a pointer or a descriptor made of characters.

**Reactor.** `at` is where the main thread is, one place for each stretch between
two effects that the clock thread can see; `events` is what `epoll_wait`
returned; `open` and `watched` are the kernel's descriptors and epoll set.
`deal_NewConn` is `Accept`, `Acquire` (its second half, after the free list was
read), `AddTimer`; `deal_Read` is `Recv` and `Handle`; `mod_timer` runs after it
whatever it did, as three steps of `Timers`; `close_conn` is two steps on either
thread, `Close`, `CloseRelease` and `TaskClose`, `TaskRelease`, without a common
lock. A failed accept leaves `event.fd = 0`: the timer of descriptor 0 is
pushed, as in the code. Two ends have no defined continuation and end the process:
`"undefined"` (an object on the stack or at a wild address, a released object's
request) and `"killed"` (SIGPIPE). Clients have no state: what `recv` and `epoll_wait` return
is chosen freely.

**Connection.** A cell is a run of bytes that do not differ in effect: start line,
headers, end of the head, then each character and space of the body. `buffer` is
the ring's array, which `recv` always fills from index 0; `tail` is `_tail`;
`_head` is never moved. `not_useSize` is what both `recv` and the parser are
given. `Tokenized` is `strtok` writing zero bytes into the buffer. The requests
are well formed, and a client sends the next one when the last has been received:
TCP cuts a request into reads at any cell, but does not join two.

**Logger.** A line is its number and the day it carries; a file is its name.
`buffered` is the stdio buffer of `_fp`, `disk` what this run of the program has
flushed to each file, and `old` what earlier runs left there: files are opened with
"a". `Restart` is the end of the process, at any point and with or without the
destructor, and the next start, on the same day or later: `_today` is that day
(`started`), and the lines count from 0. A thread
reads the time, lets `localtime` fill the shared `tm`, copies it, and only then
takes the mutex (`Enter`, `Convert`, `Copy`, `WriteLine`); `flush_log` is a step of
its own. A failed `fopen` leaves `_fp` null: later lines are not logged, and a
thread that had already tested it crashes (`WriteNull`).

## The runs

| run | instance | what it shows |
|---|---|---|
| `hash` | 4 keys, 3 of them in one chain, 3 values of which one is too long for a reply | table invariants and the refinement of `KVMap`; a chain of three has a head, a middle and a last node to unlink |
| `engine` | 2 keys in one chain, 2 values: one with a colon, one with a newline, what is behind them being keys too | save and load restore the table, values with a newline or too long for a line as their beginnings; a torn save or a full disk yields only saved pairs, one cut at most; the refinement of `KVStore` |
| `engine_colon` | a key with a colon | *finding*: such a key comes back as another |
| `clock` | 2 ids, one delay, 3 pushes within 2 seconds, fairness | no lost wake-up; of a modified id exactly the last timer runs; the refinement of `Timers` with its fairness; every timer leaves the heap, the destructor returns |
| `pool` | 3 workers, 2 clients, 4 tasks, fairness | pool invariants, the refinement of `TaskPool`, accepted tasks run, shutdown returns |
| `reactor` | 3 descriptors, 4 blocks, 3 pushes, 2 events a turn, fairness | every connection that no neighbour has written into stays timed and, once idle, is closed; no block serves two; a signal ends the process |
| `reactor_pool` | the same | *finding*: the acquire after the first close builds its object on the stack |
| `reactor_closed_once` | the same | *finding*: both threads close one descriptor |
| `connection` | 4 requests, 3 sent, a ring of 16 cells | the counter never stops the reads; a request that arrives whole and has room runs on its own body |
| `connection_keep_alive` | the same | *finding*: later requests of a kept connection are dropped |
| `connection_partial` | the same | *finding*: a head without its body is executed |
| `logger` | 2 threads, 2 runs of the program with 4 lines each, 3 days of which the last repeats the first's number, files of 2 lines | no line lost, doubled or out of order; on disk when the macro returns, and there for ever; each day apart; a run adds 2 lines to a file at most |

Bounds. `MaxPush`, `LastPush` and `MaxNow` bound time and timers: three pushes are
what it takes to have an old, a current and a half-pushed timer of one id, or two
connections of which one is renewed; the last second lies far enough behind the
last push for every timer to be due and every sleep to end, so that the bound
hides no end of a behaviour. `Poll` and `Tick` of `Reactor` carry these bounds: an
event that leads to a push comes only while it may, and time waits for a push that
has begun. Of four blocks, two can be handed out, 0 and 1, because making the object of 0
clears the link of 1; three descriptors run into the end of the free list.
`Garbage` is one time that lies after `MaxNow`: the last characters of a reply of
24 or more can make such times; those of 21 to 23 make early ones, which do what the
zeros of a command do. `Task` bounds the
pool: more tasks than workers, so that tasks queue and signals meet busy workers.
`MaxSent` bounds the connection: three long requests go round the ring. The log
has two numbered files of the first day, a day between, a month that begins again,
and a restart after any step of the first run, so that both runs fill files of the
same name. The
table and the engine have no bound but the finite sets of keys and values.

`CHECK_DEADLOCK FALSE` is set only for the connection, which ends, and the log,
whose lines and days are bounded.

Fairness. `ThreadClock`: the clock thread's own steps, wake-ups that have a cause
(a notification or a passed deadline), the passing of time, the rest of a
`mod_timer` that has begun and of a destructor that has begun. `Timers`: a thread
that has something to do does it; `ThreadClock` implements this too. `ThreadPool`:
a worker's steps, the signal a client owes for the task it has queued, and the
owner's shutdown once begun. `Reactor`: the main thread's steps,
`epoll_wait` returning when a signal is pending included; strongly, because some
need the timers' mutex, which the clock thread takes again and again but gives up
in between; the clock thread taking timers that are due, and its callbacks; time. All this is what
a fair scheduler and `std::mutex` give; no wake-up without a cause, no event of a
client and no further call by the server is assumed. `IdleConnectionsClose`
speaks of clients that fall silent: the bounds make each one fall silent at
some point, and which is chosen.

## What is proved

All for every value of the constants under the named assumptions of each module
(`HashAssumption`: the hash function maps keys to slots; `NullAssumption`;
`FitAssumption`; `SlotAssumption`, `WordAssumption`, `StringsAssumption`; `DelayAssumption`, `BoundAssumption`, `NoVersionAssumption`; finitely many workers
and clients, at least one worker; `TimersAssumption`, `BlocksAssumption`,
`AddressAssumption`, `GarbageAssumption`, `ReactorAssumption`; `LoggerAssumption`, `NoFileAssumption`).
The bounds of the models are constants too, so the theorems hold whatever they are.

- **`KVHashProofs`**: `TypeCorrect`; `ChainsCorrect` (`ChainsOK`); `CountCorrect`
  (`CountExact`); `Implements` (`HSpec => Map!Spec`). The invariant is the conjunction
  of types, every node in the chain of its key, no key twice in a chain, and the
  count equal to the number of stored keys, which is finite. The refinement needs
  the first three (a lookup that stops at the first match finds *the* node) and
  the fourth for `HCOUNT`.
- **`KVEngineProofs`**: two layers. For any strings, `EngineTypeCorrect` (`ETypeOK`)
  and `EngineCountCorrect` (`CountExact`), from `TInv`: each line of the file, of the
  stream and of what `fgets` has left is one that loading can make a key and a
  value of (`LineOK`), which cutting a line keeps (`CutLineOK`, `LeftOK`), and each
  pair of the table makes such a line (`DictOK`). For clients that use no string
  which the format of the file cannot hold (`ClientsPlain`: no key with a colon, with
  a newline or longer than a line, no value with a colon behind a newline or a word
  that is too long; the instance of `engine` asserts it, and `engine_colon` shows
  what happens without),
  `SavedIsRestored` (`RestoresWhatWasSaved`), `SalvagedIsSaved`
  (`SalvagesOnlySaved`) and `EngineImplementsStore` (`ImplementsStore`), from
  `PInv`. It has three parts, one handed to the next. `SavingInv`: the stream
  holds the line of every node that is before the cursor (`Visited`) and lines of
  nothing else. `Sound` and `Complete`: each line of the file but the last
  restores a saved pair, the last at most its key; if the save was closed, every
  line restores a pair and every saved key has a line. What is left of a broken word
  has no colon and makes lines that loading drops (`Crumbs`). `LoadingInv`: what the table
  holds comes from the lines read, and each line read has its key in the table. The
  order of the chains plays no part, so a restart may turn it. The refinement adds
  that no command has run before loading has ended (`Quiet`).
- **`ThreadClockProofs`**: `TypeCorrect`, `WakeupsArrive` (`NoLostWakeup`),
  `LatestRuns` (`RunsExactlyTheLatest`), `ImplementsService`
  (`Spec => Service!TimersSafety`). The strengthening says of each id
  that was never deleted or added again (`VersionsOK`): no timer on the heap has a
  version above the map's; while no `mod_timer` of the id is half done exactly the
  timer last pushed has the map's, and while one is, none has; a version that
  `mod_timer` has read is the map's. `Numbered` orders timers by their pushes.
  Without it a popped timer with the map's version might not be the last pushed.
  The refinement needs that there is no batch between two calls of `handle_timer`
  (`BatchOK`), and that a heap whose top is not due has no due timer
  (`TopsFirst`): a non-empty set of numbers has a least one.
- **`ThreadPoolProofs`**: `TypeCorrect`, `NoneSleepsOnWork`, `StopArrives`,
  `Implements` (`Spec => TaskPool`). `NoWorkerSleepsOnWork` is inductive by
  counting the sleepers, the workers that are ready and the signals under way;
  the refinement needs that the queue is the part of the accepted tasks that has
  not begun, that a task has begun on one worker only (`Order`), and that a worker
  that has exited left no task behind (`Drained`).
- **`ReactorProofs`**: `TypeCorrect`, `BlocksStayApart` (`BlocksNotShared`),
  `ConnectionsAreTimed` (`EveryConnectionTimed`). Every step of the reactor is a
  step of `Timers` or none (`TimersStep`), which gives the timers' types. The
  invariant says that what is free lies above every object (`PoolInv`), that an
  object which is not `spoilt` has its own descriptor (`DescInv`) and a time that is
  not in the future (`ActiveInv`), that a
  waiting client is accepted once, that a descriptor being closed is no longer
  watched, that the task's descriptor is that of
  the batch's head, and that versions are not 0 while a connection is open and not
  being closed. `EveryConnectionTimed` is not inductive: a callback may find the
  connection active and let its timer go. It is replaced by a timer that *covers*
  the connection: current, or on its way, and due no earlier than its last
  activity plus `TIME_OUT`; only such a timer can be taken off when the
  connection has expired, and then the callback closes it.
- **`ConnectionProofs`**: all three of the run's properties (`TypeCorrect`,
  `OpenStaysOpen` for `ClosedByPeerOnly`, `WholeRequestsAreRun` for the action
  property `WholeRequestsRun`). `ClosedByPeerOnly` rests on the tail staying inside
  the ring, so that `recv` is never asked for 0 bytes (`RoomLeft`, `TailStays`).
  `WholeRequestsRun` needs `ZeroBehindLongest`: behind the longest read the buffer
  is as it was zeroed, and nothing else ends the body of a request. The lemmas find
  the request's parts in the buffer: its start line and headers, the end of the
  head, and the body up to the first zero.
- **`LoggerProofs`**: all six of the run's properties (`TypeCorrect`,
  `LinesKeepOrder`, `ReturnedIsOnDisk`, `DaysStayApart`, `FilesStaySplit`, and
  `FilesOnlyGrow` for the action property `FilesGrow`). The
  central lemma, `WriteAdds`: whatever happens to buffers and files, a
  `write_log` appends its line to the lines of one file and leaves the others, or,
  if the file cannot be opened, leaves all. `Room` counts the threads under way,
  so that names stay within the types; `Logged` follows a line from the buffer to
  the disk under other threads' changes of the file; `Groups` says that a numbered
  file is open only while the lines of its own group of `MaxLines` are written, and
  `OldGroups` that every earlier run kept to that. `FilesOnlyGrow` rests on
  `StoredGrows`: each step, a restart too, appends to what is on disk.

Every safety property of the passing runs is proved, action properties and the
safety of the refinements included. Only model-checked: the liveness properties
and the fairness of `Timers` (`EveryTimerLeaves`, `DestructorReturns`,
`AcceptedTasksRun`, `ShutdownReturns`, `IdleConnectionsClose`, `SignalEnds`, the
liveness half of `ImplementsTimers`), which under fairness are out of the proof
system's reach.

## What the runs found

Each is a run with `expect: violation` that checks one statement of a comment or of
the program's own output against what the code does; see `findings`.

1. A key with a colon does not survive a restart (`engine_colon`).
2. On a kept connection each request shrinks what the parser sees: later ones are
   dropped (`connection_keep_alive`).
3. A request is executed when its head alone has arrived (`connection_partial`).
4. `Release` gives the pool the address of its parameter: the next connection is
   built on the stack (`reactor_pool`).
5. `close_conn` runs on both threads for one descriptor, which is closed twice
   (`reactor_closed_once`).

Seen while modelling, without a run of their own:

- A value may hold a newline, and the file is read line by line: `HSET a x\nb:y`
  comes back as `a` with `x` and `b` with `y`. Without the colon the rest is lost.
- HGET answers with the first 511 characters of a longer value.
- Exactly two blocks of the connection pool can be had, 0 and 1: making the object
  of block 0 clears the link of block 1.
- An HGET reply of 21 characters or more makes a time of characters for the
  connection in the block before. With 24 or more it can lie in the future: the
  connection is then taken for active when its timer comes, which is its last, and is
  not closed while it stays silent. A request of more
  than 1004 bytes overwrites the descriptor of the one behind.
- A restart on the same day appends to the log's files and counts from 0: a file
  may have `_max_log_lines` lines of every run.
- HDEL and HMOD answer ERROR for a missing key; their NO EXIST is unreachable.
- After `del_timer`, `mod_timer` gives out version 1 again: an older timer of the
  id is current once more. A version-0 timer that is popped erases the mark of the
  deletion, so that any later timer of the id runs. Both are part of `Timers`, and
  `EveryConnectionTimed` holds in spite of them.
- After the first midnight every line reopens the day's file (`_today` is never
  set again), and splitting by lines stops for it. The same day of the next month
  is not told from the first. The first file is split one line early.
- The name that `init` gives the file has its underscore elsewhere than the names
  that `write_log` gives.

## Not modelled, and why

- Undefined behaviour without outcomes one could list: out-of-bounds reads and
  writes (more than 128 words, `commands[cmd]` for an unknown command, a negative
  hash index), torn reads of containers that are written without the mutex, a torn
  copy of `localtime`'s buffer.
- What overlapping connection objects write over each other beyond links,
  descriptors and times. The ring counters of the block before lie under the first
  twelve characters of a reply, those of its write buffer included: its next
  command may write its reply elsewhere, or fault. Its request pointer lies under
  the thirteenth and following ones. A descriptor of which only some bytes are
  overwritten is taken not to be that of another connection, which holds while
  fewer than 32 are open.
- Keys with a newline or longer than a line, and values with a colon behind a
  newline or a word that is too long for a line, are in the model, but in no run.
  `ClientsPlain` excludes both.
- A socketpair full of signals; a clock that is set back.
- Responses: their wording, partial sends, the write buffer, which is never sent.
- Pipelined or malformed requests; a Content-Length that is no number.
- `pendingTasks`, `waitAll`, `isRunning`, `add_timer_log`, `deal_Write`: they change
  nothing or have no body, and are not called.
- epoll and tcp (one system call each), the MySQL pool (not built), the build.

## Plan

Done: all modules of the table above. Next, in this order:

1. `Reactor` without a bound on descriptors: the number of a closed one used again,
   on a pool whose `Release` is repaired, to see what else stands in its way.
2. `Connection`: pipelined requests, two in one read.
