# OpenSIPS-ng core: specifications and proofs

TLA+ specifications of the core of OpenSIPS-ng (`src/src/core`), TLC configurations that check
them on small instances, and TLAPS proofs of their main properties. Paths below are relative to
`src/src/core` unless they start with `src/`.

Contents: 1 how to run, 2 the system, 3 inventory of components, 4 plan, 5 the modules, 6 the runs,
7 fairness, 8 proofs, 9 deviations found, 10 what is not modelled.

## 1. How to run

    tlc -workers 4 -config MCThreads.cfg MCThreads
    tlc -workers 4 -config MCTcpConn_all.cfg TcpConn
    tlapm ThreadsProofs.tla

and likewise for the other runs of section 6 and for the modules with proofs of section 8.
`PROJECT.json` lists the runs with the properties each checks, the source lines each definition stands
for, the hazards of the code with the properties about them, and the theorems.

Definitions whose name ends in `_bug` are not part of any model: each is a plausible wrong version
of the definition it stands next to (a dropped guard, a swapped order, a missing reset), kept to
show that a property fails when the code is changed that way. The list `mutants` of `PROJECT.json`
says which property catches which.

## 2. The system

OpenSIPS-ng is a multi-threaded SIP server. One process has

- a **dispatcher**: a priority queue of tasks (`dispatcher/dispatcher.c`);
- **worker threads** that take tasks from it and run their callbacks (`main.c`, `worker_thread`);
- **reactor threads**, one for reading and one for writing, that wait for descriptors and put the
  task of a ready one in the dispatcher (`reactor/`);
- a **timer thread** that puts the periodic tasks in the dispatcher (`timer.c`);
- **DB threads** that send the blocking queries and put what follows in the dispatcher (`db/`);
- the **attendant**, the first thread, that makes the others and takes everything down.

Nothing in a callback blocks. A callback that must wait (for a socket, a name, a query) saves what
is to be done next in a *context* (`context.h`, the `async` macros), hands it to whoever it waits
for, and returns. The answer makes a task that resumes the context in some worker. So one
request is worked on by many threads one after the other, and what protects it is who *owns* it at
each step: the reactor a submitted descriptor, the DB pool a query, the TCP connection a pending
write. Almost every property of the concurrent part is about such an ownership: it is never held twice
(no two workers in one handler), never lost (no descriptor, query or write that nobody will
continue), and it ends once.

    sockets -> reactor threads --put_task--> dispatcher --get_task--> workers
                    ^                             ^                     |
                    +--submit_task, fire_fd ------|---------------------+
    timer thread ---put_task----------------------+                     |
    DB threads -----put_task_simple---------------+ <--db_submit_query--+

## 3. Inventory

For each component: its state, its operations, what is hard about it, what makes it correct, and
how much of it the modules named in brackets cover.

### Concurrent core

**Dispatcher** (`dispatcher/`; `Dispatcher`, `TaskPool`; modelled). State: the array `nodes`, `size`, a spin
lock, a semaphore. Operations: `put_task`, `get_task`, `put_task_simple`. Hard: the semaphore is posted after the
lock was released and waited on before it is taken, so tokens and tasks are never equal while threads
are under way; the heap is broken while it is sifted; `put_task` has no test for a full array. Correct: a
worker with a token finds a task; tasks are taken in order of priority, each once; what is queued is run.

**Reactor, epoll** (`reactor/reactor.c`, `epoll.c`, `general.[ch]`, `fd_map.h`; `Reactor`, `OneShot`; partly).
State: one slot per descriptor, the kernel's registrations, a control pipe, the events of the current
`epoll_wait`. Operations: `submit_task`, `fire_fd`, the loop. Hard: slots are written by workers and read and
cleared by the reactor with no lock; a batch of events outlives the descriptors it names. Correct: a
submission gives one task, none is forgotten, the task is the submitted one.

**Reactor, poll, select and kqueue; io_wait** (`poll.c`, `select.c`, `kqueue.c`, `io_wait.c`; `PollReactor`,
`IoWait`; partly). State: the same slots and the array of watched descriptors, private to the loop. Additions
travel through the control pipe. Hard: the slot is filled before the loop learns of the descriptor, and is
not cleared when its task is put. Correct: a descriptor is in one place, its task is the submitted one,
no event is made up; a reactor gets a back-end the system has and gives back what it took if it fails.

**TCP connections** (`net/tcp/`; `TcpConn`; partly: one connection). State: life-cycle state, reference count,
the write under way, the pending writes, membership of two hash tables, the descriptor in two
reactors. Operations: `tcp_accept`, `tcp_event_read`, `a_tcp_write`, `a_tcp_connect`, `a_tcp_connect_done`,
`a_tcp_send`, `search_tcp_conn`, `set_conn_state`, `remove_tcp_conn`, `unref_tcp_conn`, `tcp_timer_routine`. Hard:
three locks, two of them nested in both orders; references that pass from a caller to a task to the
next writer; termination found by reader, writer and timer at once. Correct: one writer at a time, the
count covers every holder, removed and freed once and by the last user, each context told once.

**UDP** (`net/udp/udp.c`; `MsgFlow`; partly). A listening socket, its handler and its one-shot submission. Hard:
a datagram is peeked at and read by two calls; early returns on errors skip the submission. Correct: the
socket stays in the reactor, the length is that of the datagram.

**Database core** (`db/db_core.c`, `db_to_user.c`; `DbCore`, `DbPool`, `DbInit`; partly). State: per pool the free
connections, the pending queries and a lock; the list, semaphore and lock of the DB threads; per
query its connection and result; the list of pools. Operations: `db_submit_query`, `db_submit_item`,
`db_submit_active_query`, `unpack_result`, `continue_query`, `work`, `db_finalize_fetch`, `db_init`. Hard: which
of three threads gives a connection back depends on the kind of query, the driver and the result; a
thread reads a query that its task may have freed; `db_init` may fail half way. Correct: a connection serves one
query at a time, is given back once and only after its rows were read, none idles while a query is
pending, each query is answered once; a caller gets the pool of its URL.

**Contexts and message handling** (`context.[ch]`, `msg_handler.c`; `MsgFlow`, `MsgBuilder`; modelled). State: per
context its resume function and parameter, and the message with its buffers. Operations: `async`,
`context_resume`, `handle_new_msg`, `handle_msg_continue`. Hard: the continuation may run in another worker before
the call that suspended returns. Correct: nothing is used after it was freed, freed twice, or left behind.

**Timers** (`timer.c`; `Timer`; modelled). State: two lists of tasks, the tick counters. Operations:
`register_timer`, `register_utimer`, the thread's loop. Hard: the loop derives one list's ticks from the
other's, with a number of turns computed from a macro without parentheses (`timer.h:30`, `timer.c:200`). Correct: each
routine is put once per interval of the time that passes, whatever clocks there are.

**Resolver** (`resolve/`; `AresSockets`, `SipResolve`, `DnsRecords`; partly). State: c-ares' descriptors in the reactors,
the requests of `sip_resolvehost`, the records of a reply. Hard: c-ares changes descriptors in a callback while
a task for the old one is queued; a request is answered and freed once whatever comes first. Correct: no
descriptor twice or forgotten; hosts in order of preference; records sorted and drawn as their weights say.

**Threads, signals, start and shutdown** (`threading.c`, `main.c`; `Threading`; partly). State: the table of
threads, the signal flags. Operations: `pt_create_thread`, `thread_startup`, the signal handlers,
`terminate_all_threads`, `do_shutdown`. Hard: the table is reallocated while threads read it;
asynchronous cancellation with a lock held. Correct: no thread runs when everything is freed.

**Management interface** and **mi_stream** (`mi/`, `modules/mi_stream/`; `MiStream`; partly). State: per stream a
buffer, the parser's state and the answer. Hard: commands in pieces, pipelined, followed by a close. Correct: one
thread on a stream, answers in the order of the commands.

**Database drivers** (`modules/db_mysql/`; `MySql`; partly). State: a connection and its prepared statements.
Hard: a lost connection takes all statements with it. Correct: no handle of an old connection is used;
what a query returns is what was done. The PostgreSQL driver is not modelled.

**Locks** (`locking/`; not modelled). `lock_get` and `lock_release` over a spin lock or a mutex. Every module
takes them to be exclusive and unfair; the assembly is left out.

### Sequential code

**Memory allocators** (`mem/q_malloc.c`, `f_malloc.c`; `QMalloc`, `FMalloc`; partly). Correct: fragments tile the
arena, lists and sizes agree, no two live fragments overlap, and what there is room for is given.

**Ordered map** (`map.c`; `AvlMap`; modelled). An AVL tree. Correct: a function from keys to values, balanced, walked in order.

**SIP parser** (`parser/`; `UriParser`, `ViaParser`, `MsgParser`, `HeaderNames`, `ToParser`, `ParamList`, `Routes`,
`HeaderCache`; modelled). Correct: what is accepted is the sum of the pieces it is cut into, names have their types,
headers end where their lines do, a message parsed in pieces is the message parsed at once.

**SIP header and body parsers** (`Contacts`, `Mime`, `Disposition`, `HeaderBodies`, `Digest`, `HeaderCache`, `Sdp`;
modelled). Correct: as above for each body; accessors find what the message has and lose no memory.

**Message builder** (`builder/`; `MsgBuilder`; modelled). Correct: what is written is what the message was changed to, and as long as
computed; only what was added or changed may crash a call (section 9).

**Database helpers** (`db/db_id.c`, ...; `DbInit`; partly). URLs; the printing of values is formatting.

**Configuration**, **modules loader**, **sockets and protocols** (`net/socket.c`, `net/proto.c`, `ip_addr.c`),
**daemon, log and utilities**: run by one thread at start-up, or formatting. Not modelled.

## 4. Plan

Done: everything section 3 calls modelled or partly modelled; the proofs of section 8.

Left to model, in the order of what it would show: the table of TCP connections (its limit and counter,
identifiers, descriptors that are used again); the PostgreSQL driver; `get_record.c` and `resolvehost.c`;
`db_ut.c`; the order of initialisation in `init.c` and `main.c`.

Left to prove: of q_malloc that every free fragment is in a list, lists are ordered and the counters agree (the rest of
`Tiled` and `ListsRight`). What cannot be proved is at the end of section 8.

## 5. The modules

What a module leaves out of the code it stands for is said in its first comment.

### TaskPool, Dispatcher

`TaskPool` is the promise: a pool of tasks, a worker takes one of the most urgent. `Dispatcher` is
`dispatcher.c`. Variables `nodes`, `size`, `lock`, `sem` are the fields of `struct dispatcher`; `pc`,
`arg`, `hand` and `cur` are each thread's place and locals. `PutEnter` takes the lock and stores the
task, `PutSift` is one turn of the while loop of `put_task`, `PutRelease` leaves it and unlocks,
`PutPost` is `sem_post`; `GetWait`, `GetEnter`, `GetSift`, `GetRelease` are the same of `get_task`;
`Finish` is the return of the callback in `worker_thread`. The array is 0-based as in C. `PutOverrun`
is `put_task` on a full array: it writes past the end, and the model stops that thread there ("wild").

`PutCall` is the environment: any thread may put any task that is not in flight. That is what
one-shot descriptors and single owners give (`OneShot`). Timer tasks that overlap count as
different tasks; the array holds copies, so the heap cannot tell.

### OneShot, Reactor

`OneShot` is the promise: a descriptor is owned by a handler, then armed, then queued. `Reactor` is
`submit_task` (three steps: `fd` and then `cb` of the slot as `hash_fd_map` writes them, then
`epoll_ctl`), `fire_fd` (a message in the pipe) and one turn of `epoll_loop`: `Wait`, `ReadPipe`, for each
message `FireCopy`, `Unhash`, `Delete`, then for each event `EventCopy`, `Unhash`, `Delete`. `Delete` is
`EPOLL_CTL_DEL` and `put_task`. `e` is the loop's local copy of the slot. Of a slot the model keeps whether
`fd` is zero, set or -1 and which submission wrote the callback (a parity, enough to tell a stale
callback). `Firable` are the descriptors some thread calls `fire_fd` for (connections do; listening
sockets and c-ares' sockets do not); `MaxFires` bounds the messages in the pipe.

### PollReactor, IoWait

`PollReactor` is the loops of poll, select and kqueue over one another's differences: `back` is the
back-end. `Hash` and `Send` are the two halves of `submit_task`, `Message` an ADD_FD or FIRE_FD from the
pipe, `Scan` one entry of the array of descriptors, with its swap on deletion. `IoWait` is the choice of a back-end
by `io_wait.c` and what is given back after each step that may fail, as a function.

### TcpConn

One connection. Threads are `reader` (the IN reactor's task), `timer`, and for each writing context
`Call(w)` (its call of `a_tcp_write`, with `search_tcp_conn` and `a_tcp_connect`) and `Out(w)` (the OUT
reactor's task that connects or goes on with its message). `state`, `ref`, `active`, `pending` are fields
of `struct tcp_conn`; `links` says which hash tables it is in; `lock` is `state_lock` and `hlock`
`hash_id_lock`, kept as variables because they nest; a section under a single lock is one step. The
two reactors are what `OneShot` promises (a thread at "armed" gets its task; `HandleFire` on a
connection that is not submitted does nothing). `Events` chooses what the environment does: each is a
branch of the code (peer connects, we connect, read error, send error, connect refused, immediate
connect, timeout, no memory), so that a property can be checked under the events it holds for.

After `free_tcp_conn` nothing is assumed about the memory: a thread that would touch it takes no step,
and `NoUseAfterFree` says that there is none. Without this convention every property about the
connection's fields would fail for the one reason that `NoUseAfterFree` states.

### DbPool, DbCore, DbInit, MySql

`DbPool` is the promise: a query is new, pending, using a connection or has given it back, and is
answered once; a connection serves one query; no query waits while a connection is free. `DbCore`
has for each query its caller (`Call`), the dispatcher's task (`Task`) and the user of its result
(`User`), and the DB threads (`Db`). `items`, `queries` and `lock` are the pool's, `waiting` and `sem` the DB
threads', `item` and `result` the query's `item` and `res`; `pairing` is the argument of
`db_submit_active_query`; `told` and `back` count callbacks and returned connections and are history.
`SubmitPaired` and `SubmitPending` are the branches of `db_submit_query`, `GivePaired` and `GiveFree` those of
`db_submit_item`; `StartBlocking`, `Post`, `StartOnSocket` and `StartFails` those of `db_submit_active_query`;
`ContinueQuery`, `Answer` are the task; `Wait`, `Pop`, `SendAndPut`, `Reread` are `work`.

Atomicity: a section under `w_lock` is one step, `pool->lock` is held over several steps and is a
variable. The release of the lock is merged with `sem_post` (nothing the lock protects is read in
between); the callback and `shm_free(q)` are one step. The lists are stacks, as in the code: a query
can be overtaken without bound by queries that keep coming, which a model with each query sent
once does not show and no property claims.

`DbInit` is `db_init` with `parse_db_url` and `cmp_db_id`: calls follow each other, since all but the parsing is
done under `db_pools_lock`; each may run out of memory after any of its allocations. `MySql` is one connection of
the driver: `Begin` a query, the rounds of `db_mysql_do_prepared_query` (context, handle, prepare, execute,
store), reconnection, and the connection lost, the server refusing or memory missing at each.

### MsgFlow

A message from the datagram to its last byte. `work` is what each worker does and where in it
(from the peek at a datagram through `handle_new_msg`, the resolver and the connection, to the cleanup), `queued` the
contexts that the resolver or a connection has for the workers, `heap` the blocks (message, context, buffer) that were
allocated and not freed, `resume` each context's `resume_f`, `wire` the datagrams that come, `reads` whether the
descriptor is with the reactor or has a task. `async` is three steps: set `resume_f`, call, look at the result,
with the continuation free to run in between. `wrong` remembers an access to a block that is not allocated, and
`NoUseAfterFree` says that there was none; `dead` is a process killed by a null pointer.

### Timer, AresSockets, SipResolve, DnsRecords

`Timer` is `timer.c`: the two lists, `jiffies` and `ujiffies`, and the loop chosen from the lists there are. `puts`
counts what the thread put for a routine, and `elapsed` the microseconds it slept, which no variable of the code does: `OncePerInterval`
compares the two. `multiple` is the expression of `timer.c:200` with the text of the macro, `100*1000`, put in: 10, where
the macro in parentheses would give 0 and stop the slow clock. `AresSockets` is `resolve.c`: sockets opened, changed and
closed by c-ares in a call; `used` and `inside` are the bits of `fd_state` (what c-ares wants, what a reactor was given),
`armed` and `tasks` what the reactor and the dispatcher have, `deaf` the numbers that were closed while a reactor had them. `SipResolve` is `sip_resolvehost.c`: the list of requests,
the NAPTR, SRV and A answers, `next_he`; its reference definition `Candidates` is the order of RFC 3263 as the
code's comments claim it. `DnsRecords` is the reading of a reply and the sorting and drawing of SRV and NAPTR
records, one record at a time.

### Threading, MiStream

`Threading` has the attendant's `pt_create_thread` in four steps (reallocate, copy, switch, fill), `thread_startup`
and the signal handlers of each thread, the cancelling and joining, and `mem_lock`, the lock of the
shared memory a thread may hold when it is cancelled. `MiStream` has streams and clients: a client writes
commands in pieces, pipelines them and closes; `mi_listener` is one reading of a stream by a worker with
the command it completes and the answer.

### Memory, map, parsers, builder

These are functions and sequences of calls: `QMalloc`, `FMalloc`, `AvlMap`, `UriParser`, `ViaParser`, `MsgParser`,
`HeaderNames`, `ToParser`, `ParamList`, `Contacts`, `Routes`, `Mime`, `Disposition`, `HeaderBodies`, `Digest`,
`HeaderCache`, `Sdp`, `MsgBuilder`. A character the code does not tell apart from others is one
letter; a word the code compares as a whole is one element of a sequence. A piece (`str`) is a pair of
places. `MsgBuilder` keeps a flag `crashed` with a message: a null body given to `alter_hdr` for a header with a
buffer of its own, or a reply forwarded whose first Via has nothing parsed. Where the code reads behind a text, computes with a null pointer or does not return, the result is a value of
its own (`Wild`, `Hangs`), and the properties name the texts on which that happens.

These modules were compared with the compiled C functions on generated inputs (each module evaluated by TLC
or by a transcription of it, and the C code built with small stubs), until no input differed: URIs 39 133, Via 49 480,
messages 97 068, header names 21 743, To 37 748, contacts 289 725, routes 202 575, MIME types 93 560 and
Accept 19 608, dispositions 6 548, methods 37 449, CSeq, Privacy, Supported and Event 19 608 each,
Session-Expires 4 681, numbers 3 906, credentials 29 306, header caches 85 448 sequences of calls, sessions about 54 000
and multipart bodies 24 000, the map 1 500 sequences, q_malloc 800, f_malloc 600, the builder 3 000
(calls that crash are not among them).
`DnsRecords` was not compared.

### MCServices, MCThreads, MCParsers

Each has several modules and a variable `part` that says which one a behaviour is about; the variables of the others
keep one initial value. So a run is the disjoint union of its parts. `MCThreads` extends all of its modules, and
`MCServices` extends `Timer`, `SipResolve`, `AresSockets` and `MySql`: the properties these runs check are the very
definitions the theorems are about. The rest (the heaps, the headers of a message, the pools) are instances. Because
the modules share one name space, the specification of each is named for it (`PollSpec`, `MiSpec`, `ResolveSpec`, `AresSpec`,
`MySqlSpec`).

## 6. The runs

| run | module | distinct states | properties |
|---|---|---|---|
| `disp_threads` | `Dispatcher` | 456 973 | `Inv`, `NoTaskTwice`, `SemMatchesHeap`, `PoolSpec`, `QueueDrains` |
| `reactor_turns` | `Reactor` | 101 748 | `Inv`, `OneTask`, `FreshTask`, `QuietReachable`, `OneShotSpec`, `EventsHandled` |
| `tcp_all` | `TcpConn` | 339 717 | `TypeOK`, `OneWriter`, `RefsHeld`, `ToldOnce`, `RemovedOnce` |
| `tcp_live` | `TcpConn` | 52 369 | `RefsExact`, `NoLockCycle`, `AllTold` |
| `db_pool` | `DbCore` | 186 272 | `TypeOK`, `SemMatchesList`, `ResultKeepsItem`, `PoolSpec`, `AllAnswered` |
| `services` | `MCServices` | 280 967 | `OncePerInterval`, `GivenRight`, `SocketsWatched`, `ConnectionRight`, `HeapRight`, `HeadersRight`, `Answered` |
| `threads` | `MCThreads` | 229 180 | `SocketsRight`, `MessagesRight`, `AllStopped`, `EventsHandled` |
| `parsers` | `MCParsers` | 1 051 788 | `PiecesRight`, `NamesRight`, `EndsAtLine`, `MessageRight`, `StructuresRight` |
| `reactor_lost` | `Reactor` | violation | `StaysReachable` fails (section 9) |
| `tcp_free` | `TcpConn` | violation | `NoUseAfterFree` fails |
| `tcp_deadlock` | `TcpConn` | violation | `NoLockCycle` fails |
| `db_reread` | `DbCore` | violation | `ResultKeepsItem` fails |

What the instances are, and why their bounds are enough to be interesting:

- `disp_threads`: a producer and two workers that also put tasks, four tasks, three slots: both sides of
  the semaphore race, a node has two sons or one, the array is overrun. Two tasks have equal
  priority, as descriptors do. `HeapRight` of `services` is the same module with a heap three levels deep (five tasks in
  five slots), where both sift loops take two turns, by one thread after the other, and with three tasks in two slots.
- `reactor_turns`: two descriptors make a batch with an event before or after the one whose handler runs
  meanwhile; two messages fire one descriptor twice, or come in one read. Each descriptor is submitted
  without bound, so stale events of an earlier submission occur.
- `tcp_all`: three writers and every event. One writer sends, one is next and one behind it in the list, and the second
  of two hand-overs differs from the first; the writers are interchangeable and the run uses that
  symmetry. A context writes once: a second message of a context is a second writer. `tcp_live`: two
  writers, an accepted connection and the timeout: the events its properties hold for (section 8 has the others).
- `db_pool`: the four kinds of query are reads and writes, blocking or on a socket; with two connections
  two are always pending, so returned connections are passed on and also kept free at the end. Sends may fail.
- `services`: two routines per list with intervals of 1, 2 and 5 s and 100, 150 and 300 ms (less than, equal to
  and no multiple of a tick) over 64 sleeps of the thread, so that
  where both lists have routines the clock of seconds ticks six times and each of its intervals ends; every kind of name and of answer for two
  targets; two sockets of c-ares with two changes per call, so that a number is used again; messages
  of up to four headers with memory for 0 to 9 blocks and four calls; two queries of one
  statement and one of another, with three failures; five URLs that differ in one part, and two malformed.
- `threads`: two workers and three messages (one without a destination, a short one, requests); two
  descriptors submitted twice and fired once, for poll, select and kqueue; a client with two commands in
  pieces over a buffer of four; two threads besides the attendant, with each fault.
- `parsers`: every text up to a length (4 to 7 elements behind a prefix) over the alphabet its part gives; every
  sequence of calls to the map over eight keys (the closure, no bound on their number) and of the allocators over
  arenas of 9 to 11 units; five changes to a message, which
  forward it up to the crash; every reply of up to four DNS records from a small set, and
  some cut off at every byte.

Deadlock is checked in `reactor_turns` and `reactor_lost`, where no thread ever ends. It is off where the
model stops by intent: the process after an overrun, a connection that is closed and freed, queries that are all
answered, a text at its bound, a process that was shut down.

Results of runs that differ in constants only and are not listed: `RefsExact` fails in `TcpConn` with any two of read, send
and timeout, and with refused connects (`tcp.c:408` and `527` return without giving up their reference when another
thread already terminated the connection); `AllTold` fails with open and timeout (`tcp.c:600`) and with accept,
read and timeout (`tcp.c:410`, a write that waits for the socket is not told); the context of an instant connect is
resumed and its call returns 0 besides (`tcp.c:712`), which `ToldOnce` excuses and nothing else; `AllAnswered` of
`DbCore` fails with "fail" if its excuse `Forgotten` is dropped (`db_core.c:204`); `FreshTask` fails for a descriptor
in `Firable` (a fired descriptor can run the callback of its last submission).

## 7. Fairness

- Dispatcher: weak fairness of each thread inside `put_task` and `get_task` and of a callback's return.
  The spin lock is unfair, so no strong fairness. `PutCall` has none, and `QueueDrains` is stated
  for the case that threads stop putting.
- Reactor and `PollReactor`: weak fairness of the loop, of a handler's `submit_task` and of the task's run (that is
  `QueueDrains`). None of events or of `fire_fd`.
- TcpConn: weak fairness of each thread's next step and of fire messages; a thread that has matched
  the connection goes on to reference it. Strong fairness for one lock: the timer takes `hash_id_lock`
  again and again while the connection is in the table, and who waits to remove it gets it in
  between. The timer eventually fires on a connection that is `WRITING`, because only progress of the
  write extends the timeout. The peer owes nothing.
- DbCore: weak fairness of each task, DB thread and giver; `Start` under the lock as a whole. The user
  of a result calls `db_finalize_fetch`, which is the interface's condition. A database
  connection answers or fails.
- SipResolve: c-ares answers every question, if only by its own timeout. MySql: queries go on being asked and
  executed; `Heals` then says that they succeed again, since failures are bounded.
- MiStream: the listener accepts, and each stream with something to read is read; clients owe nothing.
- Threading: weak fairness of the attendant, of the handlers and of cancelled threads, strong fairness of the
  reallocation in `pt_create_thread`, which waits for the lock of shared memory that running threads take again and again.

## 8. Proofs

Each module with proofs has an inductive invariant, a lemma per action or per conjunct, and the theorems. The
theorems hold for every value of the constants that satisfies the named assumption of the module, and
there is no other hypothesis except where it is stated.

**DispatcherProofs**, from `ThreadsAssumption` and `TasksAssumption` (finite disjoint sets of threads, a
finite set of tasks with integer priorities, at least one slot). `Inv` is needed because `HeapOrder` holds
only while nobody has the lock: during `put_task` every pair but (cur, its parent) is in order, during
`get_task` every pair but (cur, its sons), and in both cases cur's sons are below cur's parent
(`KidsBelowGrandparent`), which is what makes one swap safe. Proved: `Invariance`, `TypeCorrect`,
`HeapCorrect`, `NoTaskTwiceHolds`, `SemCorrect` (tokens, threads under way and size add up; cardinalities of the
sets of threads), `Refinement` of `TaskPool` (the root of a heap is most urgent, by the least index of a
counterexample) and `OverrunNeedsFullHeap`.

**ReactorProofs**, for any descriptors and any bound on messages. `Inv` (`TypeOK` and `OneTask`) is
inductive because `Delete` puts the task only if the kernel still had the descriptor registered.
Proved: `Invariance`, `OneTaskHolds` and `Refinement` of `OneShot`, with `fire_fd` racing everything. `FreshTaskHolds` and
`QuietReachableHolds` are about the descriptors nobody fires and need the second invariant `QuietInv`: from
its registration until the reactor thread has such a descriptor at hand, its slot is filled with the callback that was
submitted last, and while at hand the copy is; a batch only names registered ones. They hold for any set `Firable` of other
descriptors that race beside them.

**TcpConnProofs**, for any finite set of writers. With any events: `IInv` is `TypeOK`, `Fresh` (before
`create_tcp_conn` nobody has the connection), `RefsHeld` and `Exclusive`. `RefsHeld` counts the threads at
steps that own a reference; each step adds or removes the thread that moves, and the hand-over of a reference
replaces one thread by another. `OneWriter` is not inductive: `Exclusive` adds that until TERM only one
thread is between `set_conn_state(WRITING)` and the end of its write, that a READY connection has no such
thread, and that in TERM others may have reached `a_tcp_send` but are turned away there. Proved:
`TypeCorrect`, `RefsHeldHolds`, `OneWriterHolds`. `ToldOnceHolds` and `RemovedOnceHolds` need `OnceInv`, which says of every
write in which one place it is (its call, the list, the OUT task, or nowhere) and that only there an answer is still due;
that one thread at a time removes the connection, in state TERM; and that a refused connect, after which the
connection may be in one table only, can still be seen in the state.

With fewer events: `RefsExactHolds` assumes `OneEnd` (no refused connect, and at most one of read errors, send errors and timeouts
ends connections), and `NoLockCycleHolds` that send errors and timeouts do not both happen. Both hypotheses are necessary: TLC
finds `RefsExact` violated with any two of the three kinds or with a refused connect, and `NoLockCycle` with send and
timeout (run `tcp_deadlock`). With accept, open, memory, instant and one of the three kinds TLC finds `RefsExact` true
(214 985, 12 178 and 17 421 states), and `NoLockCycle` with all events but send (264 892 states).

**DbCoreProofs**, for any finite sets of queries, connections and DB threads, any partition of the queries in
kinds, sends failing or not, from the hypothesis that "reuse" is not among the events (with it the
property is false: section 9). `IInv` is `TypeOK`; `ThreadsOK` (whom the lock belongs to, where each kind of
thread can be); `InOrder` (caller, task and user of a query come one after the other); `ListsOK` (no
list holds anything twice, a pending query has no connection); `ItemsOK` (a connection is free or serves one
query) and `HoldersOK` (a query that has a connection has at most one thread that will give it back,
and none while it waits to be sent). `HoldersOK` is the heart: it is why the three places that give a connection back
never do it twice. Proved: `Invariance`, `TypeCorrect`, `ResultKeepsItemHolds`, `SemCorrect`, and `Refinement` of
`DbPool`, with the second invariant `Kept` (no connection is free while a query is pending, none is lost).

**ThreadsProofs** has two parts. Messages, for any workers, messages and kinds of them; `MessagesAssumption` only says that a message is none of
the three words the model uses for "no message". `MessagesRight` is proved from two invariants. `MemoryInv`: every message that was read has exactly one
owner, a worker that works on it or one entry of `queued` (`Account`); the owner's place says which of the three blocks are
allocated and what `resume_f` is, and a message without an owner has none. `async` is why it needs care: a worker whose call has
queued the continuation is at "returned", owns nothing, and no longer looks at the context, which another worker may have
freed. `ReadingInv`: from the peek to the resubmission one worker is with the socket, the descriptor is not in the reactor,
and the datagram peeked at is still the first. Proved: `MemoryInvariance`, `ReadingInvariance`, `MessagesRightHolds`.

Threads, for any number N >= 1 of threads (`NAssumption`). `AllStopped` needs `NoIdNoThread`: an entry of the table
without an id is that of a thread that has returned. Reallocation may lose what a thread wrote into the old table, so ids come
back, but are never lost. Proved: `ThreadInvariance`, `AllStoppedHolds`.

**Timer** (the proof is in the module; it states the puts of a routine against the time that has passed, and not against the
clock of its list), from `IntervalsAssumption`: intervals are positive, as those of the callers are
(`net/tcp/conns.c:96`, `resolve/resolve.c:132`); `timer.c` itself does not test it. `TimerInv` has two parts. Of a routine of either
list it says that its `runtime` is its interval after as many periods as it was put, and that the clock is between this and the next
period, a period being the interval rounded up to ticks. That one turn keeps this is arithmetic with `\div` (`TurnNumbers`, `Turn`),
and that the walk over a list does it for every routine once is `Walk`. The other part, `ClocksRight`, ties the clocks to the time, loop by
loop: where one loop drives both, `elapsed` is `jiffies` seconds and `cnt - 1` turns of the fast clock, and `cnt` is between 1 and
10. It is kept because `multiple` is 10 (`TenTurns`, `ClocksStep`), and it makes the slow clock late by less than a second
(`Behind`), from which the quotients follow. Proved: `OncePerIntervalHolds`.

**SocketsProofs** extends `MCThreads`, so that it ends in a theorem about the specification the run checks, all parts of it. From
`MiAssumption` (the buffer has a size, and no client is called "fifo" or "server") it is about two modules.

The loops of poll, select and kqueue, for any descriptors, submissions and fires: `PollIInv`. Its heart is `PlaceInv`: a descriptor
the reactor was given is on its way in the pipe, among the messages the loop has read, in the array, or a task, in exactly
one of these, with the slot of its last submission until it is a task. `LoopInv` says what the loop's own copy may still hold:
`select` works on the set the kernel gave it, so none of those is to be added by a message that was read since;
what is marked as reported is ready. Removing an entry of the array moves the others, and the lemmas about
`RemoveAt` say that none is lost or doubled. Proved: `PollInvariance`, `InOnePlaceHolds`, `FreshHolds`, `HonestHolds`.

mi_stream, for any clients, commands and pieces: `MiIInv`. What the client of a connection writes is one stream, parted between the buffer, the
pipe and what is yet to be sent; its lines are in the order they were written, across the three (`OrderInv`), and no first line of a
command that was answered is left in it (`Ahead`). Who has a command has its first line at the head of the buffer (`CommandInv`), so
that the next answer is of a later command than all before. `OneUser` is inductive beside it. Proved: `MiInvariance`,
`OneUserHolds`, `AnswersRightHolds`, and with the above `SocketsRightHolds`.

**ServicesProofs** is about five modules that stand alone.

The sockets of c-ares, for any sockets and any number of changes in a call. The invariant ties the
bits of `fd_state` to the rest: with INSIDE_REACTOR the reactor has the socket or it has a task, unless it was closed; a
socket that c-ares wants has the bit, but for the one whose event is being handled. Proved:
`OnceInsideHolds`, `NoneForgottenHolds` and both as `SocketsWatchedHolds`.

A connection to MySQL, for any queries, any assignment of them to statements and any number of failures (`QueriesAssumption`: there is
a query). `HandlesLive`, `ToldRight` and `NoCrash` are not inductive: `CountsRight` adds that a query on its way was executed at most
once per loss and is in a round no higher than the losses under it, and `LossesKnown` that a connection that is away was
lost under the query, that a second attempt to prepare follows a loss, that a query at its execution has a handle, prepared or
not, and that freed memory is only listed after memory was missing. `Comes` says once what a command may come to; the
steps that send one (prepare, prepare again, execute, submit) rest on it. Proved: `ConnectionInvariance`, `ConnectionRightHolds`.

The requests of `sip_resolvehost`, for any calls and any answers of the DNS (`CallsAssumption`, `AnswersAssumption`: the types of both;
nothing about their length). `ListRight`: the ids in the list are distinct, not larger than the number of allocations, and just
the live ones; a request for SRV records has a protocol. It is kept by taking the first away (`WithoutFirst`), changing it
(`FirstChanged`) and putting as many new ones in front as memory lasts for (`InFront`); that the live ones are as many as the list is long
then follows by a bijection (`AsMany`). Proved: `ResolveInvariance`, `ListIsLiveHolds`.

The pools of `db_init`, for any URLs, modules, capabilities and failures of memory (`db_connection_count` is a number; what
`parse_db_url` returns may be anything). `PoolInv` is inductive: no two pools of the list are of one URL, and a pool has all its
connections or somebody asked it for a capability its module has not, unless `db_init` failed half-way. Whom `db_init` finds a pool for
gets one that was there before (`FoundKeeps`); one it makes goes in front (`NewPool`, `MakeKeeps`). Proved: `PoolsHold`.

The heap of q_malloc, for any size, any sequence of calls, with `QM_JOIN_FREE` and without. `HeapUnits` is the assumption: a fragment has a header of at
least one unit, `QM_MALLOC_OPTIMIZE` is a number. `HeapInv`: the fragments are `Laid` (each ends where the next begins or the
heap does, and none reaches into one behind it), and the lists hold free fragments only, each in one list, once. The two parts need each other: malloc
hands out what it finds in a list, and only because that was in no second list is it nobody's afterwards. Each helper of the code has
a lemma: putting a fragment in a list and taking it out (`InsertKeeps`, `DetachKeeps`), cutting one in two
(`SplitKeeps`, on `SplitLaid`) and making two one (`MergeKeeps`, on `JoinLaid`); malloc, free and realloc follow from these. Proved: `HeapMade`
(of a heap whose size has a bucket: `GET_HASH` takes a power of two, of which the provers know nothing), and `HeapHolds`: the invariant is kept
by every call, and implies `SideBySide` and `CallsRight` of `StructuresRight`.

Only model-checked, and why:

- liveness (`QueueDrains`, `EventsHandled`, `AllTold`, `AllAnswered`, `Answered`): fairness and ENABLED are out of the
  prover's reach;
- `PiecesRight`, `NamesRight`, `EndsAtLine`, `MessageRight`, `StructuresRight`, `HeadersRight`: they say what
  recursive functions over texts, lists and trees compute, which takes an induction over the data; of `StructuresRight`
  the part on q_malloc that is not is proved (`HeapHolds`), its sums over fragments and buckets are not;
- `HeapRight`: two instances of `Dispatcher`, for which the theorems of `DispatcherProofs` hold already;
- of `GivenRight` two parts, `InOrder` and the first half of `PoolsRight`: the one compares with a list that is a fold over the
  answers, the other with the URL a recursive function parses. `ListIsLive`, `OnePool` and `PoolsWhole` are proved.

## 9. Deviations found

Four are runs that TLC ends with a counterexample; the lines they contradict are quoted in `PROJECT.json`, `findings`.

- `reactor_lost` (`reactor/epoll.c:145`): a `FIRE_FD` handled between the two halves of `epoll_add` clears the
  slot of a descriptor that is then registered: its events are skipped for ever. `reactor.h` calls both
  functions thread-safe.
- `tcp_free` (`net/tcp/conns.c:150`): `remove_tcp_conn` reads `conn->ref` after it gave up its reference and
  both locks; another thread may have freed the connection, or frees it too.
- `tcp_deadlock` (`net/tcp/tcp.c:395`): the reader unreferences with the state lock held, the timer sets the
  state with `hash_id_lock` held.
- `db_reread` (`db/db_core.c:289`): a DB thread reads `q->type` after it queued the task that frees `q`.

Others were met while modelling. The models do what the code does, and where a property would otherwise fail, its
definition names the case it excuses.

- **UDP, messages**: a read that fails returns before the socket is submitted again (`udp.c:345`, `357`); the hosts found for a
  message are not freed (`msg_handler.c:139`), nor is the resolver's list.
- **TCP**: `tcp.c:408` and `527` keep a reference; `tcp.c:410` and `600` do not tell a write that waits; `tcp.c:712` tells twice.
- **Database core**: a query whose send fails is forgotten with its connection (`db_core.c:204`); `cap | X` in `db_core.c:199` is always true.
- **db_init**: a malformed URL gives a null id that is then used, with the lock held; a missing user name goes to `strcmp`
  (`db_id.c:262`); a token is freed twice (`db_id.c:205-211`); a pool that was built half stays in the list; the capabilities of a
  pool that is found are not compared; the failure of a driver is not seen.
- **MySQL**: after two losses under one query a handle stays unprepared (`dbase.c:227-252`) and a write that was not executed is reported done
  (`493`); a write whose answer was lost is done again; a reconnection that fails otherwise is not tried again (`59-70`); a null handle
  is closed (`341`, `347`); a statement that is still listed is freed (`504`); an error of the server is returned as 1 (`1015`).
- **DNS records**: an A, AAAA, TXT or EBL record that ends with the reply is refused (`parsers.c:184`, `206`, `243`); a position is taken for a
  length (`285`); records of other types are read as SRV while sorting (`487`, `695`, `713`); the sum of weights has 16 bits (`733`); the number drawn is practically
  never the sum itself, so that of two records of weight 1 the first is always taken; the length of a compressed name is that of its copy (`sip_resolvehost.c:289`).
- **Threads**: the handler of SIGBUS and SIGFPE restores only SIGSEGV (`threading.c:96`); a thread cancelled with the lock of shared
  memory held stops the shutdown (`267`); the failure of `pthread_create` is not seen (`308`); the table moves while threads write to it (`295`).
- **mi_stream**: one static buffer for the path of all replies (`fifo_fnc.c:113`); a command followed at once by the close, or by the next one in the
  same read, is dropped (`mi_listener.c:148`, `70`); what is left of a command that is too long is read as a new one (`161`); an
  accepted descriptor is lost without memory (`115-119`); a stale `errno` repeats a read (`397`).
- **Session descriptions**: `free_sdp` leaves the pointer it freed (`msg_parser.c:687`); a part's disposition is taken from the part before
  (`sdp.c:577`, `632`); `sdp.c:312-321` and a c= line with a CR (`395-420`) do not return; a clone loses its fmtp (`1055-1065`).
- **Timers**: with routines in microseconds only, `jiffies` stays at 0 and `get_ticks` with it, though a tick is "one second" (`timer.h:29`,
  `timer.c:214-219`; `conns.c:96` always registers one in seconds); `timer.c:200` divides by 1000000 once too often, which the missing
  parentheses of `UTIMER_TICK` (`timer.h:30`) make up for.
- **Builder**: a null body, which its comment allows (`msg_builder.c:542-546`), crashes `alter_hdr` on a header with a buffer of its own (`595`);
  a reply is forwarded by reading `parsed->next` of its first Via (`msg_handler.c:110`), a null pointer when that Via was added, replaced or
  altered, as line `115` itself does, which also removes bytes 10 to 19 whatever they are. `CrashRight` says that nothing else crashes. Headers added after others (`msg_builder.c:254-266`), the length of a body replaced in a static message (`525`, `625`), `construct_msg`
  of a header without successor (`689-708`), the sole header of a kind removed (`334-345`).
- **Parsers**: end of input (`parse_to.c:233`, `parse_via.c:868-875`, `parse_uri.c:574`, `msg_parser.c:302`, `344`, `parse_content.c:290-303`,
  `parse_methods.c:121`, `233`, `digest_parser.c:358`), wrong or missed names (`keys.h:115`, `param_parser.c:94-125`, `parse_supported.c:57-104`,
  `parse_privacy.c:186`), memory (Via and CSeq bodies `msg_parser.c:114`, `121`, `147`; parameters `contact.c:269`, `parse_rr.c:135`,
  `parse_content.c:458`), accessors (`parse_allow.c:52`, `digest.c:209`).
- **Allocator, map**: sizes after a shrink (`q_malloc.c:554`, `557`); `map.c:144`, and the walk at `498-510`.

## 10. What is not modelled

Of the modelled components: in `Reactor` errors of `epoll_ctl` other than an unregistered descriptor (one of ADD at `epoll.c:239`
loses the descriptor), the index test of `general.c:32` and a read of the control pipe that ends inside a
message (`epoll.c:132`); in `PollReactor` the same read, with the entry of the pipe; in `TcpConn` the framing of messages in `tcp_event_read`, the
connection limit and its counter (`conns.c:208`), several connections, `tcp_init` and `tcp_destroy`; in `DbCore` the
API's out-of-memory answer, registration of drivers, prepared-statement numbers, the memory of rows, and the order of lists that
are stacks (`db_core.c:189`); a query sent again by its own callback is a different query; in `Timer` an interval of 0, which `register_timer` (`timer.c:110`) does not
refuse and `IntervalsAssumption` excludes.
`vq_malloc.c` is not built, and lines 55 to 1108 of `parse_fline.c` are compiled only with `_CURRENTLY_UNUSED`.

The components without a module are listed in section 3. The assembly of the locks, start-up code, logging and
generated parsers are left out for good: they wrap system or library calls, or run once in one thread.
