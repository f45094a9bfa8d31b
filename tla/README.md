# final_libs: specifications and proofs

final_libs is a C library of building blocks for servers: a byte buffer, locks,
a thread pool, a logger, a hash table, a cache, lists, an event loop and its
users. This directory models its core in TLA+, model-checks the models with TLC
on small instances and proves the central results with TLAPS for instances of
every size. `PROJECT.json` lists components, runs, mutants, the source lines
behind every definition, findings, hazards and theorems.

## 1. Inventory

| component | state | operations | users in the library |
|---|---|---|---|
| fmbuf (`fmbuf/`) | memory of size + 1 bytes, head, tail | push, pop, vpop, rawget, alloc, rewind, clear, seeks, realloc | fthread_pool, flog, fev_buff |
| flock (`flock/`) | counter, mutex, pthread condition | wait, signal | fthread_pool |
| fthread_pool (`fthread_pool/`) | per worker a flock_cond and an fmbuf; round-robin index | init, add_thread, post_task, the worker loop | callers |
| flog (`flog/`) | per file last_aid, curr_aid, buffer, fd; per thread an fmbuf and an eventfd; the fetcher | write, writef, vwritef, create, destroy, setters; the fetcher; thread end; process exit | callers |
| fhash (`fhash/`) | table of node lists, delayed actions, number of iterators | set, get, del, fetch_and_del, iterators, foreach, rehash, profile | fcache, flog, fconf, fev |
| fcache (`fcache/`) | an fhash, an active and an inactive list, sizes | set_obj, get_obj, balancing, dropping | callers |
| flist, fdlist (`flist/`) | linked nodes, owner, sizes | push, pop, delete, move, sort, iterate | fev, callers |
| fev (`fev/`) | event table, firelist, the kernel's interest list | reg, add, del, poll, destroy | fev_* |
| timer service (`fev/fev_timer_service.c`, `fev_tmsvc_*`) | two lists of timers, a timerfd | add, del, reset, resetn, top, process, destroy | fev_conn |
| fev_conn (`fev/`) | a conn_info per connect, its registration and its timer | connect with timeout, on_connect, on_timer | callers |
| fev_buff (`fev/`) | a read and a write fmbuf, the write event | new, read, pop, write, destroy, the write event | callers |
| fev_timer, fev_listener (`fev/`) | a registered descriptor | add, del, its callback | timer service, callers |
| fco (`fco/`) | coroutine contexts and status | create, resume, yield | callers |
| fconf, ftime, fnet | parsed files; clocks and timers; sockets | thin wrappers | callers |

What is hard in it, and so what the properties are about:

* **Buffers shared without a lock.** flog (logging thread and fetcher) and
  fthread_pool (poster and worker) share an fmbuf between two threads; neither
  takes a lock, and head and tail are plain fields.
* **Wakeups.** A signal may come before the wait, between its check and the
  sleep, or while the woken thread has not run; an eventfd write is a second step
  after the push it announces.
* **Global order out of local queues.** flog numbers messages per file and keeps
  them in per-thread buffers; the fetcher has to restore the order, must not wait
  in a circle, and must not sleep while something is due.
* **Lifetime.** The data of an ended thread is freed by the fetcher while other
  parts may still point to it; a process can exit at any time.
* **Index arithmetic.** Ring positions with one reserved byte, resizing while the
  content wraps, a hash table that doubles up to UINT32_MAX.
* **Change during iteration.** fhash allows set, delete and further iterators
  while an iterator is open; a callback of the event loop may remove or replace
  the registration of an event that is still to come; a callback of the timer
  service may change the lists that the pass around it is working through.
* **Two sources for one answer.** A connect is answered by its socket or by its
  timer, both of which may be ready in one round.
* **Partial I/O.** A socket gives less than was asked for and takes less than was
  offered.

What makes each component correct: fmbuf is a bounded byte queue whatever calls
are mixed; a pool runs each accepted task once, in order and eventually; a log file
gets each numbered message once, in the order of the numbers and eventually; a
hash table is a map whose iterators visit each key once; a cache never holds
more than its maximum and never hands out a dropped object; an event loop never
calls back a registration that was removed; a timer is called once it is due, and
not before; a connect is answered exactly once; a buffered connection passes on
the bytes it was given, in order.

## 2. Modules

| module | models | extends / instantiates |
|---|---|---|
| `FmbufMath` | the pointer arithmetic of fmbuf.c | |
| `Fmbuf` | fmbuf.c in one thread | `FmbufMath`, `ByteFifo` (refined) |
| `ByteFifo` | what an fmbuf promises: a bounded byte queue | |
| `FmbufSpsc` | one fmbuf, a pushing and a popping thread, release build | `FmbufMath` |
| `FlockCond` | flock_cond_t, as operators on a value | |
| `FthreadPool` | fthread_pool.c | `FlockCond` |
| `Flog` | the asynchronous logger of flog.c | |
| `Fhash` | fhash_core.c | `FhashMap` (refined) |
| `FhashMap` | what an fhash promises: a map with iterators | |
| `FcacheList` | fcache_list.c, as operators on the memory of the lists | |
| `Fcache` | fcache.c | `FcacheList` |
| `Fev` | fev.c and fev_epoll.c | |
| `FevTmsvc` | the timer service and its list of timers | |
| `FevConn` | fev_conn.c, composed with the timer service and rounds of the event loop | `FevTmsvc` |
| `FevBuff` | fev_buff.c | `FmbufMath` |
| `FmbufMathProofs` | lemmas on the pointer arithmetic, for three of the modules below | `FmbufMath`, TLAPS |
| `FmbufProofs` | theorems | `Fmbuf`, `FmbufMathProofs` |
| `FthreadPoolProofs` | theorems on the pool and on the shared buffer | `FthreadPool`, `FmbufSpsc`, `FmbufMathProofs` |
| `FlogProofs`, `FhashProofs`, `FcacheProofs`, `FevProofs` | theorems | the module of that name, TLAPS |
| `FevConnProofs` | theorems on the timer service, on connects and on buffered I/O | `FevConn`, `FevBuff`, `FmbufMathProofs` |

Where two specifications meet in one module of proofs, the names of one carry a
letter: `SSpec` of `FmbufSpsc`, `CSpec` of `FevConn`, `BSpec` of `FevBuff`. `MC*` modules are the instances TLC runs. Operators named `X_Something` directly
before `X` are mutated forms of `X`, used to confirm that the properties notice
such an error; the specifications never use them. Each module that has state
defines a type invariant (`TypeOK`, `STypeOK`, `CTypeOK`, `BTypeOK`); it is part of a run where it says
more than types, and documents the variables elsewhere.

### fmbuf

Offsets stand for pointers: `head` and `tail` in `0..size`, the memory is a
function on `0..size`. Each public function is an action with the same name;
the two branches of a function are two disjuncts. `ret` and `got` are what the
caller sees. New memory from realloc holds arbitrary bytes. `fmbuf_alloc`,
`fmbuf_rewind` and the seeks are enabled only on a buffer that does not wrap (or
within the bounds that its caller can see), which is the contract of fmbuf.h ("it
only can be used when the fmbuf as a array") and how every caller in the
repository uses them.

`FmbufSpsc` splits push and pop at the points where the other thread can come in:
the load of the other's pointer, the copy, the store of the own pointer. It
assumes that stores become visible in program order (x86) and that the compiler,
at `-O2`, loads the other's pointer once and stores its own once. At `-O0`
(`make debug=true`) that is not so: see section 4.

### flock and fthread_pool

A condition is `[count, asleep]`, each operator one critical section of its
mutex; `pthread_cond_signal` wakes at least one sleeper, and sleepers may wake up
without a signal, as POSIX allows. In `FthreadPool` a queue is a bounded sequence
of messages, justified by `FmbufSpsc`. The poster has two steps (push, signal),
the worker five (wait returns, falls asleep, pop, pop of nothing, run). Assumed of
the caller, because the code does: one thread adds and posts, and all threads are
added before the first post. `fthpool_del_thread` is declared and never defined.

### flog

`Flog` has the logging threads (number a message, push it, write to the eventfd,
end), the fetcher (`_log_fetcher` with epoll_wait, the events, the scans over
`g_log->threads`, one message per step) and the exiting process. A message
carries its file, number, author and length; a buffer is a sequence of messages,
its free space and the position of its tail.

`flog_writef` checks for a message of `MaxLen`, then formats: in place when that
much is free behind the tail (`WritefSeek`), else in a copy (`WritefPush`). The
length it goes on with is the one vsnprintf returned, which is not cut when the text
is (flog.c:221-233), so `Lens` may go beyond `MaxLen`: the seek may then pass
what is free (`WritefSeekPast`, a fault), the push may fail without anybody looking,
and the number is spent (`lost`). `flog_write` cuts its text first and pushes four
times; the fetcher tells the head alone from the whole message, and nothing in
between, so there are two steps. A message that has its turn while only its head is
there loses the turn (`NotThere`). A message that goes over the end of the ring is
copied into the fetcher's temporary buffer of `TmpLen`, header and all, and
overruns it if it is longer (`TmpOverrun`, a fault).

Left out: formatting of headers, cookies, levels and time, which does not come
back to the protocol; what write(2) makes of a line; a message text of length 0
passed to flog_write; the debug prefix of a logger; and lengths from 65536 on, which
do not fit into the header's unsigned short.

### fhash

`Fhash` has the table with its node lists, the list of delayed actions and the
caller's iterators. Each API function is one action (the code is sequential;
what a foreach callback does is a call between two `fhash_next`). A node has a
position, its index and slot, and `Before` orders positions as an iteration meets
them. `SetNodes` folds `_hash_tbl_set_node` over the valid nodes in that order: over
those of the old table it is the rehash, over the delayed ones
`_hash_perform_actions`. `_hash_rehash` uses an iterator of its own; its release
(`InnerRelease`) performs what is delayed on the old table, where it is lost. Sizes of
keys and values only decide which invalid slot a new node takes; the slot is chosen
freely among them. `fhash_get` has no effect.

### fcache

`FcacheList` is fcache_list.c with its pointers: a list has head, tail, size and
sum, a node prev, next, owner and size, and the calls are operators on the whole.
Sizes wrap around as size_t does. `Fcache` calls them in the order fcache.c does;
each API function is one action. `fcache_set_obj` ends in one of five ways, each
an operator of its own; two of them are faults: a division by zero in the check at
its end, and the use of a node that the call itself has freed. What a program
does after a fault is undefined, so `fault` ends the behaviour. `held` is a
history variable for the values the caller has handed over.

### fev

`Fev` has the table of `fev_event`s (`mask`, `fire_idx`, `cbs`), the firelist with
its `fire_num`, and the kernel's interest list `epoll`, which a descriptor leaves
when it is closed. `fev_poll` is a sequence of steps: the firelist is cleared, the
prepoll hooks run, `EpollWait` takes a snapshot of events, and each event is passed
over, or handed to its read and then its write callback. Between these points
(`InApp`) the program may do anything it may do in a callback or a hook: register,
widen, narrow, remove, close. An event remembers whether the registration it was
reported for is still there (`reg`); the code does not have this, and the
properties need it. The hook table is an fhash of functions and left out: what hooks
call are the same actions.

### The timer service

`FevTmsvc` has the nodes and the two lists. A pass is a frame on `stack`, with the
time it has read and the node whose callback runs; a callback may use the service,
`fev_tmsvc_process` included, so frames nest. Each turn of the loop in `_process`
is a step, and so are the return of a callback and the swap of the lists. Time is a
number of nanoseconds; start times are timespecs with the arithmetic of the code,
a tv_nsec beyond one second and the truncating division included. `owes` and
`lag` in a frame are history.

### fev_conn

`FevConn` extends the timer service by what fev_conn.c keeps: a timer is named
after its connection. The event loop is taken as `Fev` shows it: a round is a set
of ready descriptors handled in any order, without those removed since it began.
`fev_conn` has its outcomes as operators (no socket, connected at once, in
progress, registration failed), and `on_connect` and `on_timer` are split at the
call of the user's conn_cb, which may connect again and close sockets.

`on_connect` frees the conn_info and leaves the timer armed, and `on_timer` checks
nothing. So `on_timer` works on `mem[c]`, the connection whose conn_info is now in
the memory that c was given: its own, live or freed, or that of a later connect,
since calloc may hand out freed memory again (`Calloc`). If what it finds has been
freed, its report is a "late" one. Memory that something else has overwritten
(`OnTimerAstray`) and memory that is freed twice (`Free`) are faults, at which
behaviours end; a second free of memory that by then belongs to another owner counts
as one too. The caller closes the sockets it was handed, but not one that a late timer
has closed already.

### fev_buff

`FevBuff` has the two buffers as records over the arithmetic of `FmbufMath`; a byte is
its position in its stream. `fevbuff_read`, `fevbuff_pop`, `fevbuff_write` and the
write event with its loop are actions; a socket gives or takes any part, would
block, or fails. Copies remember whether they went past the end of the memory
(`overrun`).

## 3. Runs

| run | bounds | result |
|---|---|---|
| `fmbuf` | sizes 0 to 5, two byte values, calls of up to size + 1 bytes | `TypeOK`, `EmptyAndFull`, `ImplementsFifo` hold |
| `fmbuf_spsc` | size 3, 9 bytes sent in pieces of 1 to 3 | `StreamIntact`, `UnreadKept` hold |
| `fthread_pool` | up to 3 workers, queues of 2, 6 posts, 1 failed pthread_create | `TypeOK`, `TasksInOrder`, `WakeOwed`, `AllTasksRun` hold; no deadlock |
| `flog` | 2 threads, 2 files, 3 messages of length 1 to 3, buffers of 3, `MaxLen` 2, `TmpLen` 1 | `Sequential`, `NoneLost`, `NoDangling`, `NothingStuck`, `NoCircle` hold |
| `flog_live` | the same with 2 messages of length 1 or 3 | `Delivered`, `Released` hold under fairness |
| `fhash` | 3 keys, 2 values, 2 iterators, tables of 1 to 3, threshold 1 | `TypeOK`, `CountersRight`, `OnePlace`, `ImplementsMap` hold |
| `fcache` | 3 keys, 2 values, sizes 0, 1 and 3 of 4, balancing every 2 calls, 1 update that changes a size | `Linked`, `Owned`, `Bounded`, `UpdatedLast`, `OldestFirst` hold |
| `fev` | 2 descriptors, every order of calls between the steps of a round | `FiredExactly`, `InterestAgrees`, `NoStaleCall` hold; `NotStarved` under fairness |
| `fev_tmsvc` | 2 timers, delays of 0 to 2 ms, intervals of 0 and 1 ms, 5 ns, passes nested twice | `OnePlace`, `NotEarly`, `PassComplete`, `TopIsFirst` hold |
| `fev_conn` | 2 connects, 2 descriptors, timeouts of 1 and 2, 3 units of time, every reuse of freed memory | `Guarded`, `LateIsLast`, `GivenUp` hold; `Answered` under fairness |
| `fev_buff` | buffers of 2 bytes, requests of up to 4, 5 bytes in, 4 out | `ReadIntact`, `InBounds` hold; `WriteEventEnds` under fairness; no deadlock |
| `fev_buff_write` | requests of up to 2, 1 byte in, 4 out | `SentInOrder` violated |

Why these bounds are enough for the interesting cases:

* fmbuf: size 5 (6 cells) is the smallest at which a wrapped buffer can grow by
  less than its smaller part, so that both ways of `_increase_buf` and their
  fall-back happen; every size below it is a separate initial state, 0 included.
* fmbuf_spsc: 9 bytes go round a ring of 4 cells twice, with every split of a
  push and of a pop over the end.
* fthread_pool: 6 posts into 3 queues of 2 make a queue full, wrap the round
  robin and let a signal meet a sleeping, a waking and a working thread. The
  theorems of section 5 do not depend on the bounds.
* flog: in a buffer of 3 with `MaxLen` 2, a message of length 3 fits or not,
  in place or by a push, one of length 1 or 2 may have to wrap, and with a `TmpLen`
  of 1 the fetcher's temporary buffer overruns for a wrapped one of length 2.
  Three messages are numbered, in any order of threads and files. They let one
  message wait behind another file's; a full circle of two threads and two
  files takes four, and is covered by the theorem and not by the run. Threads and
  files are interchangeable, which `flog` uses as symmetry and `flog_live` does not.
* fhash: with threshold 1 instead of 4 a table of one index is rehashed with two
  keys; `UINT32_MAX` is 3, so both branches of `FHASH_REHASH_SIZE` and the
  largest table are reached. Hashes 0, 2, 3 collide in a table of one and partly
  in tables of two and three. `auto_rehash` is on; `fhash_rehash` takes the table
  back to one index, where more keys share it than the automatic rehash allows.
* fcache: three nodes in one list have a middle one to unlink; 3 of 4 bytes make a
  second object drop the first or be refused; objects of size 0 (without a value)
  and a size_t of 6 bits let the sums wrap. Keys and values are interchangeable.

* fev: two descriptors give an event that is handled and one that is still to
  come. Descriptor 0 equals the zeros of a fresh firelist, so that a zero there
  could be mistaken for it; it is registered with both callbacks, descriptor 1
  without a read callback, as fev_conn does. Two removals in a round fill the firelist;
  at the next one the code would write past its end and the model stops.
* fev_tmsvc: a second of 2 ms of 2 ns each, so that the clock goes over a second
  and start times carry over it; two timers put one into backup_list while the
  other's callback runs. Callbacks may start a pass inside the pass. Timers are
  interchangeable.
* fev_conn: two connects are what a callback that connects again, and gets the
  descriptor another event of the round is about, needs. A connect starts only
  when its timeout lies within the time that is modelled, so that `Answered` is not
  cut off by the bound. Two connects are also enough for the second to get the
  memory, the descriptor or both of the first, while the timer of the first is armed;
  the run reaches a late call, one for a connect that was refused, a stolen
  registration, and a timeout that comes early through reused memory.
* fev_buff: a request of 4 bytes into a buffer of 2 makes it grow, 5 bytes in
  pieces of 0 to 4 with pops in between make it rewind with unread bytes.

Deadlock is checked except for flog, where a process that has exited stops;
fcache, where a fault ends the program; fev, fev_tmsvc and fev_conn, where the
loop or the service is destroyed, time ends, or a fault ends the program.

### Fairness

* `FthreadPool!Fairness`: weak fairness of each worker's own steps and of
  the poster's signal once it has pushed. Both threads are always runnable there
  (the mutex is held for a few instructions), tasks are taken to return, and no
  spurious wakeup is counted on.
* `Flog!Fairness`: weak fairness of the fetcher, which never blocks for longer
  than epoll_wait's timeout of one second, and of a thread that is inside a call.
  Nothing makes a thread log, end or exit. `Delivered` would hold through the
  timeout alone; `NothingStuck` is the stronger statement that the fetcher never
  goes to sleep over a message that is due.
* `Fev!FairSpec`: the program goes on polling and its callbacks return (weak
  fairness of `Poll`), and the kernel goes on reporting a descriptor that stays
  readable, which level-triggered epoll does (strong fairness, as what the
  program does in between may disable the report for a time).
* `FevConn!CFairSpec`: the program goes on polling, and time passes, until a fault.
* `FevBuff!BFairSpec`: the write event of a registered descriptor comes, and the
  loop inside goes on.

## 4. What the runs found

* **Buffered writes** (`fev_buff_write`, fev_buff.c:264). Bytes that the socket did
  not take are copied to the write buffer and its tail is not advanced; the write
  event finds an empty buffer, and the bytes are never sent.

What the models contain and no run of its own states, because the behaviour ends
there, or because the properties name it as an exception:

* flog: a message announced between the fetcher's last epoll_wait and its decision
  to stop is left behind at exit (flog.c:866); `NothingStuck` says that nothing else
  is. A thread that ends writes to its eventfd after it has handed it to the
  fetcher, which may have closed it (flog.c:900). A formatted message that was longer
  than what was checked for keeps its full length: when its push fails its number is
  spent, and the later messages of the file wait for ever (flog.c:625); in place, the
  tail may be moved past the memory (flog.c:617). The comment at flog.c:229 says that
  such a message "shouldn't be happened, since we've already checked it". A message of
  flog_write that is looked at between its first and its last push is never written,
  nor is what is behind it (flog.c:743 is before 747). A wrapped message with its
  header does not fit into `tmp_buf` when it is of nearly the maximum length
  (flog.c:719). A THREAD_QUIT that does not fit is dropped (flog.c:897).
* fhash: a key that was added during an iteration is not deleted by `fhash_del`
  before the iteration has ended (`FhashMap` states it so).
* fcache: an update that needs more room than the rest of the inactive list has
  drops its own node and goes on with it (fcache.c:207, the fault "freed";
  `UpdatedLast` says when), although fcache.h:32 promises that "fcache will update
  it". `fcache_set_obj` divides by zero when it drops the last
  object of a cache that is not nearly full, or adds an empty one to it (the fault
  "division"). After an update that changes the size of an object the accounting
  is wrong (`fcache_list_update_node` leaves the size of the node); `Bounded` is
  therefore stated for the time before it.
* fev: nothing keeps `fire_num` inside the firelist (fev.c:57). Two ways lead round
  the firelist: a descriptor closed before fev_del_event is not listed, and after a
  read callback the write callback is chosen without another look at it.
* timer service: a periodic timer is due one interval after its old start, so one
  whose delay is longer than its interval fires in a row to catch up
  (fev_tmsvc_sl_mod.c:84). A pass inside a pass does not see what the outer one has
  put into backup_list.
* fev_conn: the timer of a connect that was answered stays armed and is called with
  its freed conn_info (fev_conn.c:52, 55-67), while t_fev.c:332 says that "the timer
  shouldn't be triggered". It calls conn_cb a second time and frees the memory a
  second time. With the memory or the descriptor in other hands it also closes the
  descriptor of another connection and takes its registration, times another connect
  out before its time, or reports a connect that fev_conn had refused. `LateIsLast`
  and `Guarded` say that this is all. A connect that fails at once leaves its
  socket open.

Seen in the code and not in the models: at `-O0` fmbuf_push stores the tail beyond the
end before it wraps it, and MBUF_USED loads it twice (fmbuf.c:62), which two threads
can meet; the result of fev_add_timer_event is not looked at (fev_timer_service.c:98); fev_add_listener
does not close its socket when the registration fails (fev_listener.c:51); a
periodic fev_timer that deletes itself is used again (fev_timer.c:37).

## 5. Proofs

The theorems hold for every value of the constants that satisfies the named
ASSUMEs of the modules. `ByteAssumption`, `MaxSizeAssumption`: the initial byte
is a byte, sizes are natural numbers. `SpscAssumption`, `PoolAssumption`,
`FevAssumption`: a shared buffer, a pool and an event loop have at least one
place; `FevAssumption` also says that a descriptor is registered with some of the
read and the write callback. `FlogAssumption`, `FevTmsvcAssumption`,
`FevBuffAssumption`: lengths, delays and bounds are natural numbers, messages have
a length (which may exceed `MaxLen >= 1`), units of time are positive, and the value that
stands for a null pointer is no thread and no timer. `ListAssumption`,
`FcacheAssumption`: finitely many nodes exist, at least one, and none of them is a
null pointer; max_size fits into size_t. `FhashAssumption`: hashes are natural
numbers, the table starts with a size of its type, and a program has finitely many
iterators open. Every bound the runs set
(`MaxMsgs`, `MaxClock`, `MaxDepth`, `MaxSent`...) is arbitrary here.

Almost no invariant that the runs check is inductive as it stands; the
strengthenings are named below. Those TLC can evaluate were checked on an instance
before they were proved; `Times` quantifies over all clocks, and is only proved.

**`FmbufMathProofs`** says what a kind of memory operation does to the content of
a buffer, for every size and position: pushing appends (`PushAppends`, over
`PushCells`: the cells written are exactly those after the tail, none of which is
being read), popping drops a prefix (`PopDrops`), seeking to the left puts bytes
in front (`ReadPrepends`), to the right appends (`ReadExtends`).

**`FmbufProofs`**: `TypeCorrect`, `EmptyAndFullHolds`, `Refinement`. `TypeOK` is
inductive. The refinement `Spec => Fifo!Spec` maps the abstract queue to the bytes
read from the head on (`Content`) and the capacity to `size`. Rewinding, growing
and shrinking keep the content (`RewindKeeps`, `GrowKeeps`, `ShrinkKeeps`, by
cases on whether it wraps). `FifoStep` goes through the actions of `Next` and
cites one such lemma each.

**`FthreadPoolProofs`**, the shared buffer: `StreamPasses` (`StreamIntact`),
`NothingOverwritten` (`UnreadKept`), for two threads whose checks, copies and stores interleave. Each
thread decides on what it last saw of the other's pointer. `PushHasRoom` and
`PopHasBytes` say why that is enough: what a push found free stays free, because
only pops change it in the meantime and they free more; the same for pops.
`Ahead`: the bytes from the head on, published or so far only copied, are the next
ones of the stream. `Balance`: popped and used bytes add up to those sent.

The pool: `TypeCorrect`, `NoLostWakeup` (`WakeOwed`),
`RunsInOrder` (`TasksInOrder`). `WakeOwed` is not inductive: a worker that is about
to sleep could do so over a task. The strengthening is

* `SleepOK`: only worker w sleeps on condition w, inside its wait, and then the
  counter is 0. This is where one waiter per condition is needed: with two, a
  signal that finds the counter at 1 wakes nobody and the second waiter sleeps
  with the counter positive.
* `Covered`: a worker in its wait whose queue is not empty has a signal left to
  take or one on its way.
* `Untouched`: slots without a thread have empty queues.

`TasksInOrder` is inductive with `TypeOK`.

**`FlogProofs`**: `NothingFreedInUse` (`NoDangling`), `FilesInOrder`
(`Sequential`), `MessagesHeld` (`NoneLost`), `NeverACircle` (`NoCircle`),
`NoMessageStuck` (`NothingStuck`), for any number of threads and files and all
lengths. The first three take messages that do not fit, or are looked at too early,
as they come; the last two are about a logger that has lost none (`Lossless`), since
after a loss the next turn of that file never comes. The lemma `Kinds` sorts the
steps by what they do to a message: a thread numbers it (`Begins`), pushes it
(`Fills`), drops it (`Drops`) or ends (`Ends`), the fetcher takes it (`Takes`) or gives
up its turn (`GivesUp`). Four invariants, each proved with those before it:

* `Places`: which thread the fetcher is at and which it has still to look at.
  THREAD_QUIT is the last entry of a buffer (`QuitLast`), and the thread being
  processed is in neither of the lists still to be visited (`Phases`), so freeing
  its data leaves no pointer behind.
* `Numbers`: the messages of a file are 1, 2, 3, ...; those up to `curr_aid` are in
  the file or lost, the others with their threads or lost; nothing in a buffer was
  not numbered. `Room`: a thread that is about to push still has the room it checked
  for, since only the fetcher works on its buffer meanwhile and frees more. So a push
  that fails is one of a message longer than `MaxLen`.
* `Times`: there is a clock that gives each number the time it was given out at,
  increasing along each file and along each buffer. While nothing is lost, what is in
  a buffer has not had its turn (`Ahead`). `NoCircle` follows: the
  earliest message that is not in its file is first in its buffer and next in its
  file. Without the clock the two orders could disagree, since a buffer mixes
  files; that numbering and pushing are two steps is why the message in a
  thread's hands is part of the order.
* `Watched`: in a scan that has processed nothing so far, the threads already
  visited have nothing that could be written; when the scan is over, no thread
  has. A thread that is not registered yet is about to wake up the fetcher.

**`FevProofs`**: `FirelistExact` (`FiredExactly`), `MasksAgree` (`InterestAgrees`),
`NoStaleCallback` (`NoStaleCall`). `fire_idx` is never reset, so a descriptor
counts as removed when its `fire_idx` is a place in use that names it; `AddFires`
shows that the place a removal writes to cannot make a stale index of another
descriptor match. `StaleListed`: an event whose registration was removed belongs
to a descriptor removed in this round; `NoneBetween`: no events outside a round.

**`FevConnProofs`**, timer service: `NoneMislaid` (`OnePlace`), `NoneEarly`
(`NotEarly`), `NoneMissed` (`PassComplete`), `TopFinds` (`TopIsFirst`), for any
depth of passes within passes. The invariant `Service` has three parts: the
clock of each pass under way and the callback it is in (`InProgress`), `OnePlace`
place by place (`Separate`), and that what a pass owes a call is still in front
of it and due for each pass nested in it (`Owed`), which is why an inner pass
that fires a timer of the outer one breaks nothing. `TimeoutExact` settles the
arithmetic for every unit of time: `fev_tmmod_timeout` is less than a millisecond
off although seconds and nanoseconds are compared apart, divisions truncate toward
zero and start times need not be normalised.

Connects: `BothGuards` (`Guarded`), `ToldOnceThenLate` (`LateIsLast`),
`RefusedStaysRefused` (`GivenUp`), with timers that run on after their conn_info was
freed and memory that is reused in any way. The steps of `FevConn` contain those of
the service, so `ConnInv` contains `Service`. `HandedOn`: memory is handed on only
from a freed conn_info to a new one, so a live one is at the address it was given and
only timers of connects that are over can find another's. `Reporting`: no pass runs
within a pass, and the connection whose callback runs is no longer registered; if a
timer called it, that is its own, or that of a connect that is over. `Answers`: what
`fev_conn` returned against what was reported (`Said`) and whether the timer can still
fire. A late report is only the one that is running, or the last before the fault:
that is why it is in `Said` and makes `LateIsLast` inductive.

Buffered I/O: `ReadsIntact` (`ReadIntact`), `CopiesInBounds` (`InBounds`).
Both buffers are used as arrays: they never wrap, which is what makes the copies
to `fmbuf_tail` safe. The content of the read buffer is the part of the
stream after what was popped; `RewindKeeps` covers the move of overlapping memory.

**`FhashProofs`**: `TypeCorrect`, `CountersCorrect` (`CountersRight`),
`KeyInOnePlace` (`OnePlace`), `Refinement` (`ImplementsMap`), for any keys, any hash
function, any size and threshold. The invariant has five parts:

* `Good`: each manager counts its valid slots and the table all of them, a key is in
  the list its hash selects, and no two nodes have the same key (`Placed`). `OnePlace`
  speaks of slots; that a key is in one of them follows from `Placed` (`KeyAtIs`).
* `OneEach`: the same of the delayed actions. `Apart`: their keys are not in the table.
* `Iterators`: an iterator that is not open is at the start.
* `Idle`: without an open iterator nothing is delayed, so the release of the iterator
  inside of a rehash, which performs delayed actions on a table about to be deleted,
  has none to lose (`NothingLost`).

`SetIs`, `ReplaceIs` and `DelIs` say what a call does to the nodes of a table and to
what `fhash_get` returns for every key. A rehash sets the nodes of one table in
another: `FoldExists` and `SetNodesFolds` show that the fold of `SetNodes` is what
setting its last node after all the others makes, `SetNodesIs` goes through the
subsets of the nodes by their number and finds in the new table every key with the
value it had, once (`AllSet`), and `RehashIs`, `PerformIs` apply this to the table and
to the delayed actions. `RehashSize` keeps the size within UINT32_MAX. For the
refinement, `Left` is the set of keys an iterator has ahead: a deletion takes one out
(`LeftDeleted`), a move the key it moves to (`LeftMoved`), and a value that is
replaced changes nothing (`LeftReplaced`). `SetStep`, `DelStep`, `NewStep`, `NextStep`
and `ReleaseStep` are steps of the map; `RehashStep` is none.

**`FcacheProofs`**: `TypeCorrect`, `ListsLinked` (`Linked`), `ValuesOwned` (`Owned`),
`SizeBounded` (`Bounded`), `UpdateFreedLast` (`UpdatedLast`), `DroppedOldestFirst`
(`OldestFirst`), for any nodes and any sizes. The memory of the lists is tied to two
sequences: `Lists(l, w)` says that l holds w[p] as its list p, by next and, from the
second node on, by prev, with owners that agree, and the invariant says that there are
such sequences, that the index and the values go with them (`Cache`), that the
sums are right and within max_size while no update has changed a size (`Full`), and
that a node is freed in its own update only when its list is empty (`LastFreed`).
Each call of fcache_list.c has a lemma about the sequences (`PushLinks`, `PopLinks`,
`DeleteLinks`, `MoveLinks`...): pushing appends, taking out removes one element,
whatever stale prev is left behind. The loops (balancing, dropping, destroying, the
walk along next) are functions on the natural numbers: `Iterates` shows that they
exist, `Climb` what holds after each turn. The drop loop frees at least what is asked for because the sums are those of the nodes,
and stops in time. The order is kept by `Newer`: apart from the key of the call, what a
step leaves of the inactive list followed by the active one is the end of what was
there; balancing moves nodes between the two without changing it.

Two notes on the prover. Induction theorems cannot be instantiated; induction over
the natural numbers (`Climb`), and a least number where one is needed (the earliest
message, the first timer due, the smallest slot), come from `WFMin` of
`WellFoundedInduction`, which speaks about a set. And the SMT
translation of tlapm 1.4.5 contains the axiom that a function S has the domain
`1..N` exactly when `Len(S) = N`, which is false from right to left for
functions that are not sequences, and inconsistent with the axioms around it. All
eight modules were also checked with the axiom reduced to its sound direction, so
no proof depends on it.

Only model-checked:

* everything under fairness (`AllTasksRun`, `Delivered`, `Released`, `NotStarved`,
  `Answered`, `WriteEventEnds`), which the prover does not reach;
* that a deadlock does not happen, where a run checks it.

Every other property of a passing run is a theorem.

## 6. Not modelled, and why

* flog: files and rolling, partial writes, the synchronous path, reference counts
  of loggers (open); header, cookie, level and time formatting (no state that
  the protocol reads).
* fhash: byte sizes and copies of keys and values, `index_used` and
  `fhash_profile` (reported only; its count drifts, see the hazards),
  `fhash_delete`, and the int, uint64 and string wrappers, which convert keys.
* fcache: failing allocation; keys whose `key_size` is not their length; one value
  under two keys, which the caller must not pass.
* fdlist: beyond the push and pop that the timer service uses it is the code of
  fcache_list.c. flist: a list of one thread and its sort.
* fev: the hook table. fev_timer on its own, fev_listener: one registered
  descriptor and no further state.
* fev_buff: accessors. The copies of fmbuf are those of `Fmbuf`, on a buffer that
  does not wrap.
* The debug build of the shared fmbuf (section 4).
* fco switches machine stacks with ucontext; fconf parses text; ftime and fnet
  pass arguments on to the operating system.

## 7. Plan

Done: fmbuf, the shared fmbuf, flock and the pool, the asynchronous logger, fhash
with its refinement, fcache, the event loop, the timer service, connects and
buffered sockets, and the proofs of all their safety invariants and refinements.

Next, in this order:

1. `FlogFile`: the line buffer of a file, flush, rolling, partial writes, the
   synchronous path. Property: a line is written whole and once, or reported.
2. The rest of fdlist.
