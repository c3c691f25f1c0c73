# Formal models of libkngin

TLA+ models of libkngin, an asynchronous network library in C++17, with the TLC
runs that check them and TLAPS proofs of their central invariants.  Paths are
relative to the repository; `core/` and `net/` are short for
`libkngin/detail/core/` and `libkngin/detail/net/`.

The models follow the Linux build of `CMakeLists.txt`: POSIX threads, the epoll
reactor, timerfd timers and POSIX sockets, with assertions enabled (no build type
there defines `NDEBUG`).  Where the code has a second implementation of its own
logic, it is modelled too: the barrier, the locks and the threads of Windows, and
the timers of `KNGIN_USE_MONOTONIC_TIMER`.

## 1. The system

| Component | Sources | State | Operations | Hard behaviour |
|---|---|---|---|---|
| event loop | `core/event/event_loop.cpp` | `looping_`, `stop_`, `taskq_` (mutex), `actived_events_`, `events_processing_` | `run`, `stop`, `wakeup`, `run_in_loop`, `register/update/remove_event`, `run_at/after/every/until`, `cancel` | called from any thread while the loop thread runs; wakeups; stop |
| epoll reactor | `core/event/impl/epoll_reactor.cpp`, `epoll_event.h` | epoll set, eventfd waker | `wait`, `wakeup`, `register/update/remove_event` | edge-triggered events; a blocking eventfd |
| stop barrier | `core/base/impl/posix_barrier.h`, `win_barrier.h` | `inited_`, pthread barrier of 2; mutex, condition and counters on Windows | `wait`, `destroy`, `reinit` | destroyed and made again while in use |
| timers | `core/event/timer_queue.cpp`, `impl/timerfd_timer.cpp`, `timer_id.h` | timers owned by an `obj_mgr`, one timerfd each | `insert`, `cancel`, `clear`, `on_events` | cancelled from handlers while ready to fire |
| monotonic timers | `core/event/timer_queue.cpp`, `impl/monotonic_timer.cpp` | a heap ordered by the moment due | `insert`, `min_delay`, `get_ready_timers`, `process_ready_timers` | the loop sleeps for a delay computed before |
| tcp session | `net/tcp/impl/posix_session.cpp` | `flags_`, event, socket | `async_read(_some)`, `async_write`, `stop_read`, `start_read`, `close`, `force_shutdown`, `on_events` | close runs in a task, handlers may destroy the session |
| tcp istream | `net/tcp/impl/posix_tcp_istream.cpp` | `ctxq_` (mutex), `next_ctx_`, `complete_` | `async_read(_some)`, `on_read`, `on_oob`, `clear` | reads posted from any thread against edges of epoll |
| tcp ostream | `net/tcp/impl/posix_tcp_ostream.cpp` | `buffers_`, `rindex_`, `windex_`, `oobq_`, `next_buffer_`, `complete_` | `async_write`, `on_write`, `write_oob`, `clear` | the same, and indices into shared buffers |
| listener | `net/impl/posix_listener.cpp` | listening socket, spare descriptor | `on_events`, `close` | running out of descriptors; close from another thread |
| service | `net/service.cpp` | loop, thread | `run`, `stop`, destructor joins | stop before the loop runs |
| logger | `core/base/logger.cpp` | `log_dataq_`, `stop_`, mutex, condition variable | `post_log`, `log_thread`, `deinit` | signals, drain at the end |
| locks | `core/base/impl/{posix,win}_{mutex,rmutex,cond,semaphore}.h` | one object of the system each, `stack_` of `rmutex` | `lock`, `try_lock`, `unlock`, `wait`, `signal`, `broadcast`, `post` | recursion counted by hand |
| thread | `core/base/impl/{posix,win}_thread.*` | `thread_data`, the system's thread | create, `join`, destruction | who deletes what |
| socket, descriptor, options | `net/impl/posix_socket.cpp`, `core/base/descriptor.cpp`, `net/sockopts.cpp` | a handle and flags | construction, move, `accept`, `close`, `shutdown`, options | ownership when a step fails |
| buffers | `core/base/buffer.cpp`, `buffer.h` | pointers and indices into memory of others | `read`, `write`, `peek`, `recv`, `send` | boundaries |
| object manager, lists | `core/base/obj_mgr.h`, `kernel_list.h` | free list and used list | `insert`, `remove`, `exist`, `clear`, `resize`; the list operations | boundary arithmetic of the preallocation; pointer updates |
| time | `timestamp.h`, `timeout.h` | milliseconds | conversions, arithmetic | rounding, signs |
| tables and unfinished parts | address, error, string, logfile, connector | | | |

How they interact.  Threads call the session, which calls the streams, which
push into their own queue under a mutex and then `run_in_loop()` a task.
`run_in_loop()` pushes into the task queue under its mutex and then writes the
eventfd.  The loop thread runs the tasks, waits in epoll, and calls the handlers
of the events; `istream::on_read()` and `ostream::on_write()` thus run either as
tasks or as handlers of an event, always on the loop thread.  The service owns
the thread that runs the loop.  Nothing is persisted.

What makes the components correct:

- event loop: no wakeup and no stop is lost; tasks run in order and at most
  once; the loop stops promptly; `stop()` and `run()` return, together;
- streams: no posted read or write is stranded between an edge that has been
  taken and a task that was not posted; reads complete in order; bytes are sent
  in order; no handler runs after the close; the assertions hold;
- session: one close, answered, whoever calls it; few tasks outlive it;
- logger: every record is written once and in order, also those that are queued
  at the end;
- service: its owner can stop and destroy it at any time, and nobody is left alone
  in the handshake;
- dispatch of events: a handler that was removed is not entered, no round is
  edited while it is walked, and no edge is dropped;
- timers: queue, reactor and timerfd agree; no entry refers to a timer that was
  freed; what expires is handled; the loop does not sleep past a timer;
- listener: no connection is left waiting without an edge;
- building blocks: locks exclude and count right, what is allocated is given back
  once, descriptors have one owner, bytes and list members are neither lost nor
  repeated, the barrier lets nobody out before all have come.

`PROJECT.json` lists the hazards line by line, with the property that covers
each or the reason why none does.

## 2. Modules

| Module | Models | Composed of |
|---|---|---|
| `TaskExecutor` | abstract: a first-in, first-out executor that may be stopped | |
| `Rendezvous` | abstract: a barrier at which threads meet, that the last one destroys and that is made again | |
| `EventLoop` | event loop, waker and `wait()` of the reactor, stop barrier | refines `TaskExecutor` |
| `Service` | the owner of a loop and of its thread, other clients of the loop | `EventLoop` |
| `Session` | `posix_session` with the tasks and events that reach it | |
| `TcpIstream`, `TcpOstream` | the two streams, and the session as each sees it | |
| `AsyncLogger` | the asynchronous logger | refines `TaskExecutor` |
| `EventDispatch` | `actived_events_`, `remove_event()` and the rounds of `process_events()`, with listeners as the events | |
| `Listener` | `on_read()` of the listener and the limit on descriptors | |
| `Timers` | timer queue, timerfd timers, their rounds | |
| `TimerQueue` | the queue of monotonic timers and the sleeping loop | `Times` |
| `Times` | timestamp and timeout as operators | |
| `ObjMgr`, `KernelList` | the container of the timers; the linked lists below it | |
| `Buffers` | `out_buffer`, `in_buffer`, and the calls that fill and send them | |
| `Sockets` | socket objects, and the kernel's descriptors | |
| `Locks`, `Threads` | mutex, rmutex, cond, semaphore; thread objects | |
| `WinBarrier` | the barrier of Windows | refines `Rendezvous` |
| `EventLoopProofs`, `EventDispatchProofs`, `TcpIstreamProofs`, `TcpOstreamProofs`, `SessionProofs`, `AsyncLoggerProofs`, `TimersProofs` | theorems | the module they are about |
| `BlockProofs` | theorems about the building blocks, one section each | `Threads`, `Locks`, `Sockets`, `WinBarrier`, `Listener`, `Times`, `ObjMgr`, `TimerQueue`, `Buffers`, `KernelList` |
| `MCBase` | the building blocks side by side, for one run | `ObjMgr`, `KernelList`, `Buffers`, `Sockets`, `Locks`, `Threads`, `TimerQueue`, `Listener`, `WinBarrier` |
| `MC...`, one per module that is run | model values and symmetry for TLC | |

An operator whose comment says *Faulty variant* is not part of a model.  It is
the form a plausible bug would give the action that follows it; each property is
known to fail when its variant is put in place of the action.

### EventLoop

`pc[t]` is the statement thread `t` executes next.  Every atomic load or store,
every critical section and every system call is a step of its own.

- `RunInLoop` is the critical section of `run_in_loop()`; the `wakeup()` after it
  is `TestLooping` (`looping_`) and `WriteWaker` (the write to the eventfd).
- `CallStop`, `SetStop`, `TestLooping`, `WriteWaker`, the barrier and
  `ClearTasks` are `stop()`.  The same actions with the loop thread are the stop
  of a handler, which destroys the barrier.
- `RunBegin`, `Reinit`, `TestStop` (three places), `SwapTasks`, `StartTask`,
  `TaskCheck`, `WaitWoken`/`WaitOther`/`WaitThrows`, `OnWakeup`,
  `StartHandler`, `EventCheck`, `Leave` are `run()`.
- `waker` is the counter of the eventfd (zero or not), `edge` its place on the
  ready list of the edge-triggered epoll.  `WaitOther` is every other return of
  `epoll_wait()`: I/O events, EINTR, the 30-second timeout.
- The barrier blocks and releases as pthread barriers do; one of the two threads
  is the serial one.  `pthread_barrier_destroy()` waits for threads that are
  still in the barrier, as glibc does.

Three properties say where threads wait.  `SleepJustified` is about the loop thread:
it does not sleep over a task or a stop of another thread, nor in the read of the
eventfd.  `StopSynchronises` and `StopNotStuck` are about the barrier between `stop()`
and `run()`: who comes out of it finds the loop left, and nobody waits in it for a
thread that will not come.

Handlers are abstract: a handler may post tasks and call `stop()`.  I/O events
and timers are a number of handlers to run.

### Service

One client of `EventLoop` is the owner.  `OwnerRun`, `OwnerStop`, `Destroy` and
`Join` are `service::run()`, `stop()` and the destructor; `ThreadRuns` and
`ThreadEnds` are the thread between them.  The other clients use the loop at any
time until it is gone.  Every behaviour is one of `EventLoop` (theorem
`ServiceUsesLoop`).  A `stop()` that comes before the thread has set `looping_`
returns without an effect (`event_loop.cpp:102`), after which the destructor joins a
thread that never ends; `JoinReturns` is about the stop that comes after.
`StopIsSafe` puts the handshake of the loop and the destructor together: after such
a stop the thread that is joined is out of its loop, with no task, handler or
client in its way (`JoinFindsLoopLeft`).

### Session

`flags` are `flags_`, `taskq` and `batch` the tasks of this session in the loop,
each with the thread that posted it.  `Accept` and `PostIO` are the two parts
of a read or write, between which a close may come; `CallClose`, `SetClosing` and
`PostClose` are the test, the flag and the task of `close()`.  `NextTask` runs a
task, `Dispatch` is `on_events()`, and a close handler may destroy the session.
What the code does and the model therefore does as well:

- `stop_read()` and `start_read()` switch `EPOLLOUT`, not the interest in reads
  (`posix_session.cpp:94-96`, `104-106`), and their task is posted without a test:
  after the close it fails at `assert(ev.registed())` (`epoll_reactor.cpp:102`).
- A read task that was let through fails at `assert(!is_eof())` after the close,
  and uses a session that the close handler has destroyed.  These are the labels
  `"aborted"` and `"dangling"`; `LateTasksBounded` says how many such tasks there
  can be.
- `force_shutdown()` asserts `is_shutdown()` and then acts only if
  `!is_shutdown()` (`posix_session.cpp:136-137`): it has no effect at all.
- The destructor of a session that was not closed calls `close(nullptr)`, which
  asserts; programs destroy the session in the close handler.

### TcpIstream

`ctxq` is `ctxq_`, oldest first.  `AcceptRead`, `PushRead`, `PostRead` are the
three parts of `async_read()` in a client: the test of the flags in
`posix_session`, the critical section, and the task that is posted unless
`complete_`.  `at` walks through `on_read()` and `on_oob()`; the `Oob...` actions are
the ways a round of `on_oob()` may go.  The socket is a number of bytes, an urgent
byte and the state of the peer: after a reset, `recv()` gives the error once and
the end of the stream from then on (`"dead"`), and epoll reports the error alone, so
that `on_oob()` is not called any more (`epoll_reactor.cpp:55-58`).  `recv()` may
return any part of what is there.  A failing `assert` leads to `at = "aborted"`,
where the program has ended.

### TcpOstream

`cells` holds the buffers of `buffers_` one after the other: erasing the first
one drops the first `BufferSize` places.  A place holds the number of the byte
that was copied there, or 0.  `PushWrite` is the critical section of
`async_write()`, `ComputeValid`, `SendAll`/`SendPart`/`SendAgain` and `Commit`
are the steps of `on_write()`; clients may append between any two of them.
`received` and `intact` compare what the socket takes with what was written.
`Dispatch` is the reactor with `on_events()`: an edge leads to `on_write()` if the socket
is writable and epoll is asked for `EPOLLOUT` (`out`), which `stop_read()` and
`start_read()` switch (`posix_session.cpp:94-106`, actions `...Switch`).  Of a
connection that was reset epoll's report is cut down to the error
(`epoll_reactor.cpp:55-58`), which `on_events()` answers with `on_read()` alone
(`posix_session.cpp:177-182`): data that wait behind `complete_` then stay where they
are and no flag is set, unless a read is posted, which finds the error (`ReadError`).
Anything that comes from the peer is an edge too (`PeerSends`).  A switch that runs
after the close fails at its assertion (`"unregistered"`).
The branches for a level-triggered event are dead: the session always enables
the edge-triggered mode.  Only whether data wait, and how many urgent bytes, is
modelled for urgent data, not their values.

### AsyncLogger

A critical section without a wait is one step.  The log thread holds the mutex
from `"check"` until it waits or has taken a record, so that `Unlocked` is the
guard of all other critical sections.  `data` is the pointer into the deque that
`log_thread()` keeps while it writes without the mutex.  `Unwritten` is what was
posted and not written: the record written last may still be at the head of the
queue.  With it for the queue, the logger implements `TaskExecutor`
(`LogExecutorSpec`), and one that is never stopped: `stop_` drops nothing.

### EventDispatch

Where `EventLoop` counts the handlers of a round, this module has the list they
come from.  Threads are the loop thread and others; each is at a statement of
`close()`, `remove_event()` or `process_events()`, and the loop thread may be in
`close()` inside a handler.  `RemoveTest` reads `events_processing_`, `RemoveLock`
takes the recursive mutex, `RemoveNull` nulls the entries from index
`events_processing_` on (1 while a round runs, so the first entry is passed
over), `RemoveCtl` is `epoll_ctl`.  `Wait`, `SetProcessing`, `LockEvents`,
`NextEntry`, `ClearActive`, `UnlockEvents` and `ResetProcessing` are the loop's
round.  The break at `stop_` is left to `EventLoop`.

### Listener

`pc` walks through `on_read()`.  Connections are a number; `Free` is the number
of descriptors left, of which `idle_file_` is one.  `accept()` may succeed, find
the backlog empty, fail for an aborted connection, for a signal or an error that
takes no connection (`Interrupted`, the `default:` of the code included, `MaxSignals`
times), or for the lack of descriptors; a connection of an unknown family is taken and its
descriptor never closed (`UnknownFamily`, counted in `lost`).  A session handler may keep or drop its socket and may close the
listener.  How another thread closes it is `EventDispatch`.

### Timers

`heap`, `registed` and `open` are the three records of a timer: the shared pointer
in the queue, the event in epoll, and the timerfd.  `Insert` is the insertion on
the loop thread, `ClientInsert`, `ClientRegister` and `ClientReturn` that of
another thread.  `Read`, `HandlerReturns` and `AfterHandler` are
`timerfd_timer::on_events()`.  Any task and any handler may cancel any timer or stop
the loop; `dropped` holds the timers that handlers of the current round have removed
so.  What may go wrong then is part of the model:

- `cancel()` removes the event from epoll but, unlike `event_loop::remove_event()`,
  not from the round.  Where the round comes to the entry of such a timer, which
  has been freed, the loop thread is at `"dangling"`.
- `on_events()` reads a periodic timer again after its handler, also when that has
  closed it (as the one of `test/core/event/event_loop/event_loop_test.cpp:29-36` does); the assertion of
  `read()` fails (`"aborted"`, run `timers_handle`).
- `remove_event()` asserts that the event is registered (`RemoveChecked`).  A `stop()`
  finds a timer in the queue that another thread has not registered yet.

`TimersSound` holds with all of this: between rounds queue, reactor and timerfd agree
(`TimersConsistent`); an entry of a round refers to a timer that is alive or that a
handler of this round has removed (`EntriesAlive`), so that no expiry, no removal in an
earlier round and no other thread leaves one behind; and no assertion fails but in the two cases
above (`FailuresKnown`), so that a timer is not removed twice, whatever its handler
did before the cancel that follows it.  Stop and cancel are those of the loop thread.

### ObjMgr

An operation is one step, since its callers hold a mutex.  Nodes are addresses:
a released node may be made again.  The lists are sets; which free node is
reused or released is left open, which covers every order.  `insert()` is two
actions, with and without a free node.  `assert(n = free_to_list(ptr))`
(`core/base/obj_mgr.h:98`) has its effect, as in the Debug build; with `NDEBUG` the
statement would disappear with its call.

### TimerQueue and Times

`heap` is the priority queue, `tmo[t]` the moment a timer is due, `now` the clock.
`RunAfter`, `CallerWakes` and `CallerReadsId` are the three steps of `run_after()`
in another thread; `ComputeDelay` and `FallAsleep` the two of `wait()`, between which
a timer may be inserted; `GetReadyTimers`, `Fire`, `Requeue` and `EndOfRound` are
`process_timers()`.  `ReadWaker` is `on_wakeup()` and the test of `stop_` after `wait()`.
`stop()` comes from a task or the handler of an event (`StopInLoop`), from the
handler of a timer (in `Fire`), after which the rest of the round still fires and
`Requeue` may put a periodic timer back into the heap that was just cleared, or from another thread
(`StopOutside`); the loop is left after its tasks or its round, and `ClearTimers`
empties the heap.  `cancel()` ends in `sort()`, whose assertion that a timer just
made is closed always fails (`timer_queue.cpp:60`), so that `Cancel` leads to
`aborted`.  `Times` holds the conversions and the arithmetic of `timestamp` and
`timeout` as operators, with the division of C++.

### KernelList, Buffers, Sockets, Locks, Threads, WinBarrier

- `KernelList`: the pointers `next` and `prev` of every `list_head`, changed by the
  assignments of the code in their order; `order` says what the lists should hold.
- `Buffers`: arrays and indices; `due` and `stored` are the bytes a buffer should
  still give, or should have taken.  `recv()` writes at `begin()`, not behind what
  was received before (`posix_socket.cpp:163`), which *spoils* an `in_buffer` that was
  not empty; `at(idx)` lets the largest `size_t` pass (`buffer.h:174`).  `recvfrom()`
  with an error code calls `recv()` and leaves the address as it was.
- `Sockets`: `handle` and `sflags` of the objects, `open` and `kernel` of the
  descriptors.  `accept()` may drop a descriptor (`posix_socket.cpp:70`), and a
  `close()` that throws leaves the number of a descriptor that is gone.
- `Locks`: one lock of either kind on either platform, chosen at the start; `depth`
  is the system's count, `stack` the one in `posix_rmutex`.
- `Threads`: `system`, `object` and `dataLive` of every thread object.
- `WinBarrier`: each stretch under the mutex is a step.  The barrier is made again
  when all have left, as the loop does; reused before, it may leave a thread of
  the second round asleep.  Seen from outside, where a thread is `"inside"` from the
  test at the head of `wait()` to its return (`Standing`), it implements `Rendezvous`
  (`MeetingSpec`): the counters, the mutex and the signals do not show.

## 3. Runs

| Run | Instance | Shows |
|---|---|---|
| `loop_safety` | 2 clients (both may stop), handlers post and stop, `epoll_wait()` may fail, 3 tasks, 1 event, 2 calls of `run()` | `SleepJustified`, `OneHandlerAfterStop`; `EventLoop` implements `TaskExecutor` (`ExecutorSpec`): tasks start in order and at most once |
| `service` | the owner and 1 client, handlers post, 2 tasks, 1 event, fair | `StopIsSafe`, `PostedTaskRuns`, `StopCompletes`, `JoinReturns` |
| `istream` | 1 client besides the loop thread, 3 reads, 2 bytes, urgent data, reset, close, fair | `NoStrandedRead`, `ReadsInOrder`, `QuietWhenClosed`, `DataIsRead` |
| `ostream_safety` | 2 clients, buffers of 2 bytes, writes of 1 and 2, 3 bytes, an urgent byte, partial sends, reset, close, 1 call of `stop_read()` or `start_read()` | `IndicesValid`, `NoStrandedWrite`, `StreamIntact` |
| `ostream_live` | 1 client, writes of 1 and 3, 3 bytes, no urgent data, whole sends, reset, close, 2 calls of `stop_read()` or `start_read()`, fair | `DataIsSent` |
| `logger` | 2 writers, a callback that posts, 5 records, fair | `DataValid`, `SleepJustified`, `DrainedAtJoin`, `LoggerProgress`; `AsyncLogger` implements `TaskExecutor` (`LogExecutorSpec`): every record is written once and in order |
| `dispatch` | 3 listeners, 1 other thread, rounds of up to 2 entries, 3 edges, fair | `OwnCloseIsFinal`, `RoundUndisturbed`, `OneStaleDispatch`, `EdgeHandled` |
| `session` | 2 clients and the handlers, 3 calls that post, fair | `ClosedOnce`, `LateTasksBounded`, `CloseAnswered` |
| `timers` | 3 timers, 1 other thread, 3 expirations, handlers cancel any timer or stop the loop, fair | `TimersSound`, `ExpiredIsHandled` |
| `base` | see below, fair | `ContainerSound`, `ListsIntact`, `BuffersFaithful`, `SocketsOwnDescriptors`, `LocksCounted`, `ThreadsReleasedOnce`, `BarrierMeets`, `TimersServed`, `NoStrandedConnection`, `BacklogDrained`; `WinBarrier` implements `Rendezvous` (`MeetingSpec`) |
| `listener_files` | 2 connections, 1 descriptor | **violated**: `assert(!closed())` of `accept()`, called at `posix_listener.cpp:91` |
| `timers_handle` | 2 timers, 2 expirations, handlers cancel any timer | **violated**: `assert(HANDLE_VALID(h))` of `read()`, called at `timerfd_timer.cpp:66` |

The building blocks share no state, and none calls another at run time in a way the
properties would see.  `MCBase` therefore puts them side by side: a behaviour
chooses one of them at its start and is a behaviour of that module, with the
variables of the others at their initial values.  The states are the sum of the
blocks', not the product.

`TypeOK` is proved for the event loop, the logger and the object manager.  In the
other modules it says what values the variables take.

Deadlock is not checked: every instance comes to rest when its bounds are used
up, and a stopped or aborted program has no next step.  That nothing waits for
ever is said by the liveness properties (`StopCompletes`, `JoinReturns`,
`LoggerProgress`, `CloseAnswered`), and without fairness, state by state, by
`StopIsSafe` (its part `StopNotStuck`) and, for the barrier of Windows, by `BarrierMeets`.

Bounds.  The hard cases of the loop need one client that posts, one that stops
and a loop thread between two tests; a second poster adds reordering, a third
task a batch that is cut in the middle and a queue that fills during it.  Two
calls of `run()` reach the barrier that is initialised again.  For the istream
three reads are one that is served, one that waits behind it and one posted
meanwhile; the loop thread is the second poster; two bytes fill a buffer of two
in one or two steps.  For the ostream, three bytes in writes of one and two (in
`ostream_live`, of one and three) cross the boundary of a buffer of two at either
offset, and a client may append between the two halves of a round; one call of
`stop_read()` is enough to be left without `EPOLLOUT`, two to have it back.  Two clients in `close()` and a third caller on the loop thread
are all that may overlap in a session.  Three listeners or timers are an entry
that is passed, the current one and one that is ahead.  With two connections and
one descriptor, the listener runs out of them with a connection still waiting.

In `base`: three objects, seven nodes and a reserve of one reach both branches of
`insert()` and of `auto_fix()`; two heads and three entries reach every splice and
cut with empty, single and longer lists; two buffers of each kind over arrays of
two bytes are enough for a copy, a move, a partial receive and both boundaries,
and `SizeLimit = 8` makes the largest index wrap; two sockets and two descriptors
reuse a number that was closed; three threads are an owner, a waiter and a
refused one; four threads at the Windows barrier make the chain of hand-overs
longer than one; two timers and a clock of three ticks put an insertion between
every two steps of `wait()`.  Symmetry is used for clients in safety runs only,
where all of them are interchangeable.

Fairness.  The loop thread, a client inside a call and the log thread go on when
they can (weak fairness: the scheduler).  `HandlerReturn` of `EventLoop` is
strongly fair because a handler may post any number of tasks before it returns.
`recv()` and `send()` are strongly fair against EINTR, and `Drain` is weakly fair
in `ostream_live` only: a peer that stops reading stops the sender.  `DeinitStep`
is strongly fair: the mutex is free again and again, and a pthread mutex that is
released again and again is acquired.  The loop threads of `EventDispatch`,
`Listener`, `Session` and `Timers` are weakly fair, and so are threads inside
`close()` or an insertion, and the service's thread: a thread that was created
runs.  Nothing is assumed of I/O events, of the timeout of the log thread's wait,
or of anybody's wish to call anything: the liveness properties hold without
them.  The 30-second timeout of `epoll_wait()` is assumed in one place: `Wait` of
`Session` is part of its loop step, so that the loop comes back to its queue whatever
posted the task.  A close that a task calls on the loop thread is not
announced by `wakeup()`, and `CloseAnswered` rests on the timeout for it.

### Limits that the properties state

- `SleepJustified` and `PostedTaskRuns` except tasks that a task posts on the loop
  thread: `wakeup()` does nothing there, and the task waits for the next event
  or for the timeout.  Tasks posted by *event* handlers are covered: the queue
  is swapped before the next wait.
- `StopIsSafe` and `StopCompletes` are checked with one client that stops,
  the owner, and no handler that does.  With two, the clients may fill the
  barrier of two between them.
- `StreamIntact` holds until a client appends while the loop thread sends
  (between `valid` and the move of the indices), or a `send()` takes only a part:
  from then on, `windex_ -= size` and the `continue` after a partial send repeat
  bytes.  The property says where the order holds, and nothing of what is beyond.
- `DataIsRead` is about a peer that does not send urgent bytes for ever:
  `on_oob()` goes on as long as there is one.
- `DataIsSent` is checked without urgent data.  With it, `on_write()` may call
  `write_oob()` for ever.
- `NoStrandedWrite` and `DataIsSent` name two states in which data stay behind
  `complete_`: the connection was reset, of which only `on_read()` hears; and
  `EPOLLOUT` is switched off (`DataIsSent`: for good).  An `async_write()` posts no task in
  them, because `complete_` is set.
- `NoStrandedRead` ends at the end of the stream and at a reset that has been
  reported: `on_read()` leaves what is still queued to the close.
- `NoStrandedConnection` and `BacklogDrained` speak of an open listener with a
  descriptor left; without one, `on_read()` ends at a failed assertion.
- `OwnCloseIsFinal` is about a close by the loop thread.  A close by another
  thread is followed by one more dispatch at most (`OneStaleDispatch`).
- `TimersSound` names the entries a handler of the same round may leave dangling, and
  the two assertions that may fail; see Timers.
- `SocketsOwnDescriptors` names the descriptor that `accept()` drops, which nobody
  closes, and ends at the first `close()` that throws, so that it says nothing of the
  second close of that handle; `BuffersFaithful` names the spoiled buffer and the
  largest index; `LocksCounted` names the levels that `try_lock()` and
  `cond::wait()` add to `stack_`; `TimersServed` holds before a `cancel()`.

### Assertions that fail

Two runs show one each:

- `posix_listener.cpp:91`: when descriptors run out, `accept()` is called on the
  socket object that is to receive the connection instead of on the listening
  one, and asserts.
- `timerfd_timer.cpp:66`: a periodic timer whose handler cancels it, or stops
  the loop, is read again after it was closed.

Others are steps of the models (the label `"aborted"`, `stale` in
`EventDispatch`) and the properties stop at them:

- `posix_tcp_istream.cpp:67` and `epoll_reactor.cpp:102`: tasks that run after the
  close; see Session.
- `posix_tcp_ostream.cpp:116`: `on_write()` asserts that it has something to send,
  but urgent data that met a full socket leave `complete_` set with nothing
  queued.  Without urgent data the assertion holds (`IndicesValid`).
- `posix_listener.cpp:77`: `on_read()` asserts that the listener is open, but a
  thread that closes it waits for a round of events only after it has set the
  flag.  `OneStaleDispatch` bounds what follows.
- `epoll_reactor.cpp:95`: `stop()` finds a timer that another thread has queued and not
  registered yet (`FailuresKnown`).
- `timer_queue.cpp:60`: every cancel of a monotonic timer.

## 4. Proofs

Every theorem is for all values of the constants, under the named assumption of
its module (bounds are natural numbers; a thread or a number that stands for
"none" is not one of the others).

`EventLoopProofs`:

- `Typing`: `TypeOK`.  It is inductive by itself; one step of the proof per
  action.
- `NoLostWakeup` (`SleepJustified`): from the inductive
  invariant `WakeupInv`.  The property speaks of the moment of the wait.  To be
  inductive it must hold from the swap of the queue on (`WakeupComes` with
  `PastSwap`), since from there only the waker makes the loop look at the queue
  again.  It needs to know that a client whose wakeup is still to come is at that
  statement (`PostingAtWakeup`), and that `looping_` is true wherever the loop is
  past its swap (`NotLooping`), as `wakeup()` does nothing otherwise; the barrier
  must not move a thread that is not blocked in it (`WaitingBlocked`).
- `OneMoreHandler` (`OneHandlerAfterStop`): from `LateInv`: once a handler was
  started late, the loop thread is past every statement from which it could reach
  another one without a test of `stop_`, which is never reset.
- `LoopIsExecutor` (`ExecutorSpec`): the event loop implements `TaskExecutor`.  A
  step that starts a task is a step of the executor, dropping the tasks of a
  stopped loop is its stop, everything else stutters.  What is queued there is
  `batch \o taskq` here, so that the swap is a stutter; that needs `ExecutorInv`: the
  batch is empty at every statement outside the loop over it, and what is left of it
  is dropped only after `stop_` was set or when `epoll_wait()` threw.
- `StopMeetsRun` (`StopSynchronises`) and `NobodyStuckInStop` (`StopNotStuck`): assume
  `OneStopper(s)`, the instances in which client `s` alone calls `stop()`, no handler
  does, `run()` is called once and does not throw.  `MeetInv(s)` says that the two have
  not met at the barrier, and then each of them is where it still has to come by, or
  that they have and the loop was left.  While they have not, `stop_` is set exactly
  as long as `s` is between its store and the barrier, so that the one who is blocked
  is waited for by nobody and waits for one who comes; that a loop thread in
  `epoll_wait()` comes is `StopNotMissed`, a part of `SleepJustified`.
- `ServiceUsesLoop`: every behaviour of `Service` is one of `EventLoop`.
- `OwnerStopIsSafe` (`StopIsSafe`): for any number of other clients and tasks, if no
  handler stops the loop and `epoll_wait()` does not fail, as in the run.  The first two
  parts are the theorems above for the owner, whom `Service` makes the only one to
  stop.  The third needs `StoppedInv`, which ties the owner and its thread to the loop: an owner that
  has gone on to its destructor is outside the loop's functions, and a stop with an
  effect is at the barrier or has met the loop.  It is an invariant of steps of
  `Service`, relative to the invariants of `EventLoop` before and after the step.

`EventDispatchProofs`, for any number of listeners and threads:

- `ClosedByLoopIsQuiet` (`OwnCloseIsFinal`), `RoundIsUndisturbed` and `StaleOnce`
  (`OneStaleDispatch`): from `DispatchInv`.  The mutex is the loop thread's from the
  lock of a round to its unlock (`MutexInv`), and the round's list is empty outside
  (`ProcessingInv`).  The entries are of different listeners, as the epoll instance
  reports each once (`ReadyInv`); an entry still to come is of no listener the loop
  thread has closed, unless it is about to clear it (`EntriesInv`): the search may
  start behind the first entry, because that one has been passed when a handler
  runs.  Once a closed listener was entered it has no other entry (`StaleInv`).

`TcpIstreamProofs`, for every number of clients, reads and bytes and whatever the
peer does:

- `ReadsServedInOrder` and `QuietAfterClose`: from `ReadInv`.  The reads in the
  queue and those completed are together the reads posted, numbered without a
  gap (`OrderInv`); while a read is served it is the head of the queue and
  `complete_` is false, and `complete_` is true only while a read waits
  (`ServeInv`), which is why `next_ctx_` is never followed when it is null.
- `NoReadIsStranded`: with `WakeInv`.  As long as something can be received, the loop
  thread is on its way to another `recv()`, or a task, an edge or a client that has
  pushed but not yet posted is left (`Coming`).  A client posts no task if
  `complete_` is set, so it must be known that `complete_` with something to
  receive means an edge (second conjunct); that is preserved when `complete_` is
  set because what came after `EAGAIN` is an edge (third conjunct).  All of it is
  about a session at which nothing has made `on_read()` give up (`Live`): the end of
  the stream, a close, or a reset that `recv()` has reported.

`TcpOstreamProofs`, for every number of clients and all sizes of buffers and writes:

- `IndicesStayValid`: from `BufferInv` and `SendInv`.  `buffers_` is a whole number of
  buffers, and `next_buffer_` is set exactly when the indices leave something
  between them; without urgent data `complete_` is set only while a buffer waits, and
  it is cleared before `valid` is computed, which is then not zero.
- `NoWriteIsStranded`: from `WakeInv`, the counterpart of the one of the istream.  An
  edge counts only if it will lead to `on_write()` (`EdgeComes`): `on_events()` drops one
  whose socket has become full again, and then a `send()` must have found it full
  since.  Where none will, because `EPOLLOUT` is off or the connection was reset,
  `complete_` is all there is.  Without `complete_`, or a thread about to set it, somebody
  is on the way (`Called`).
- `StreamStaysIntact`: from `StreamInv`.  As long as nothing disturbs, every buffer is
  sent from its first byte on (`rindex_` is zero), and the places up to `windex_` hold
  what was written and not taken; the bytes of a send are still there until the
  indices have moved (`Sent`).  Without the first part the arithmetic of
  `windex_ -= size` would be wrong, which is what a disturbance brings about.

`SessionProofs`:

- `CloseIsSingle` (`ClosedOnce`): inductive by itself.
- `FewLateTasks` (`LateTasksBounded`): from `LateInv`.  The property speaks of a closed
  session; to be inductive it must hold behind every close that is still queued,
  in the batch or behind it: each thread has one read or write there or on its way,
  because the flag was set before the close was posted (`ClosingFirst`), and a
  thread can have passed its test only once before that.

`AsyncLoggerProofs`:

- `DataIsValid` and `NoLostSignal`: from `LoggerInv`.  A record is pushed only
  while the mutex is free, so nothing is added between the log thread's test and
  its wait; `deinit()` passes the mutex between setting `stop_` and signalling, so
  the log thread cannot be between them either (`main = "signal" => at # "block"`).
- `LoggerIsExecutor` (`LogExecutorSpec`): the logger implements `TaskExecutor`.  A post
  appends to `Unwritten`, also while the log thread still has the head of the deque
  to erase (`PushedIsPosted`); `write_log()` is the start of the oldest task, because
  the pointer kept over the unlocked write is the head (`WrittenIsStarted`, from
  `DataValid`); everything else stutters, the erasing and `stop_` included.
- `WrittenInOrder` (`EachOnceInOrder`, which no run checks: it says of the records
  written since the start what the refinement says of each step) and
  `JoinedIsDrained`: from `OrderInv` and `DrainInv`.  What was
  written and what is queued are the records posted, without a gap; the one that
  was written last may still be at the head.  A log thread that has ended found the
  queue empty after `stop_` was set.

`TimersProofs`, for any number of timers and clients:

- `TimerInvariant` and `RecordsAgree`: whatever the handlers cancel.  `TimerInv` says of
  every state, also in the middle of an insertion by another thread, how the
  shared pointer in the queue, the event and the timerfd of a timer belong together
  (`TimerRecords`).  A timer that is queued and not registered has a client that is
  about to register it, which is the only one (`Registering`); the entries of a round
  were registered before (`RoundEntries`).  A one-shot timer that has fired is left
  only between its handler and the cancel that follows.
- `TimersAreSound` (`TimersSound`): whatever the handlers cancel, too.  `RoundAlive` says
  that the entries of a round are different timers, and that those from the current
  one on are in the queue unless a handler of this round removed them; a one-shot
  timer that is read has not been removed.  With it, each place at which an
  assertion can fail is one of the two that `FailuresKnown` names (`FailureStep`).

`BlockProofs`:

- `ReleasedOnce`: a thread object and its thread are in one of the stages `StageOf`
  names, each of which fixes what was given back.
- `LocksAreCounted`: the property and the places of the threads
  (`SleepersApart`, `OwnerAwake`): a thread in `cond::wait()` holds no level, so that
  it can be given the lock again.
- `DescriptorsOwned`: until a `close()` throws, the map from open objects to open
  descriptors is one-to-one and onto, but for what `accept()` dropped.
- `ConversionsRoundTrip`, `DeadlineInTime`, `RemainingIsExact`: the arithmetic of
  `Times`.  They are about every integer; TLC's integers have 32 bits and could not
  hold the nanoseconds.

- `ThreadsMeet` (`BarrierMeets`): for any number of threads at the barrier of
  Windows.  The threads that wait are counted, and while one of them sleeps another
  is awake that will signal it, whichever of them each signal wakes; and as long as
  the barrier is not open, somebody is still to come.
- `BarrierIsRendezvous` (`MeetingSpec`): that barrier implements `Rendezvous` for any set
  of threads that is not empty.  The code lets a thread out when `outgoing_` is not
  zero, the abstract barrier when nobody is outside; the code says that a thread is
  the last one when its count comes to zero, the abstract barrier when all others
  have left.  They agree because the two counters count those who sleep or are woken,
  one while the threads gather (`Gathering`), the other while they leave (`Leaving`).
  The last to come (`LastComerGoes`) and a woken one (`WokenOneGoes`) go out; going to
  sleep and waking up without leaving stutter.
- `NoConnectionStranded`: whatever `accept()` answers and for every limit on open
  files, as long as the listener is open.
- `ManagerInvariant`: the conjunction of `TypeOK`, `NodesApart`, `CountsRight` and
  `LinksMatch` is inductive as it stands.  The parts need each other: a counter
  stays the length of its list only because a node that moves is in one list
  (`NodesApart`), and the separation survives `remove()` only because an
  object's node is a used one (`LinksMatch`).  `ContainerIsSound`,
  `ListsStayApart`, `CountersAreLengths` and `LinksAreMutual` are its parts.
- `TimersAreServed` (`TimersServed`): from `QueueInv`.  A timer that was inserted and
  not closed is in the heap, held by the round or the current one (`TimerPlace`), and
  what it has fired so far it fired at or after the moments it was due
  (`TimerPast`, where `DueAfter` is the moment of the next time).  While the loop
  sleeps, or has computed its delay, every timer in the heap is due no earlier
  than it will wake, or a wakeup is on its way (`LoopPlace` with `WokenInTime`); for
  a delay that was just computed this is that the least element of the heap was
  taken, and that a set of numbers has one is `LeastOf`, from the well-foundedness of
  `<`.  After a failed assertion of `cancel()` nothing is claimed but the types.
- `BuffersAreFaithful` (`BuffersFaithful`): from `BufferInv`.  An `out_buffer` is a
  window of the sender's array, and every copy, move and read leaves it one
  (`View`, `ViewParts`); an `in_buffer` that nobody spoiled is a window of the
  receiver's array whose valid bytes are those stored.  A write into one buffer
  leaves the valid bytes of every other one alone or spoils it (`PutHolds`, with the
  arithmetic of ranges in lemmas of its own).  The largest index is the only one that
  `at()` lets pass (`AtIsBounded`), provided that `SizeLimit` is greater than any
  buffer: no buffer reaches over the whole address space.
- `ListInvariant` and `ListsAreIntact` (`ListsIntact`), for any sets of heads and
  entries.  `Lists(m, q)` says that the pointers of `m` are in both directions the rings
  of the sequences `q`, and that no entry has two places (`NoneTwice`).  For each
  primitive of `kernel_list.h` one lemma says that it takes `Lists` of one sequence
  to `Lists` of another (`ListsAdded`, `ListsUnlinked`, `ListsReplaced`, `ListsCut`,
  `ListsSpliced`, `ListsCleared`); the case is always the same: the cells whose
  links changed are the neighbours of the place, and by `NoneTwice` no other cell of
  any ring is one of them.  A walk has still to pass exactly the rest of its list
  (`Remains`), and `n` is the entry behind the current one, read before the body may
  remove it; that is inductive for both directions because removing the current
  entry shifts what lies before it or behind it, and never both.

Every invariant that a passing run checks is the subject of a theorem, and so are
the three refinements.  Only model-checked are the liveness properties (`PostedTaskRuns`, `StopCompletes`,
`JoinReturns`, `DataIsRead`, `DataIsSent`, `LoggerProgress`, `EdgeHandled`,
`CloseAnswered`, `ExpiredIsHandled`, `BacklogDrained`), which the prover does not
support, as it does not support `ENABLED`, induction over data or recursive
operators, which is why the models use none.

## 5. Not modelled

- Formatting, wording and files of the logger; error tables; exceptions' texts.
- Addresses: conversions by `inet_pton()` and `inet_ntop()`.  (`ip_address()` passes
  the size of the socket address for the size of the text, and `family()` returns a
  `bool`.)
- The connector, whose handlers are empty; `thread_pool`, the poll, select and
  kqueue reactors, the timing wheel, read-write locks and UDP client, which are empty
  files; the reactor of Windows, which is unfinished.
- `obj_mgr::swap()`, which names a member that does not exist, and `class list`,
  which nothing uses.
- The branch of `process_events()` for a handler that throws: the handlers of the
  library catch their exceptions.
- `cancel()` and `stop()` of other threads in `Timers`.
- `iovec` forms of the buffers, `readv()` and `writev()`.
- The timed wait of the POSIX semaphore compares the result of `sem_timedwait()`
  with `ETIMEDOUT`, so that a timeout throws; in `Locks` a wait that ends
  without the permit is no step at all.
- Overflow of the 64-bit milliseconds of `timestamp`.
- Data races on the library's own containers (`buffers_` read in `on_write()`
  while it is reallocated): the models take such a read as atomic.

## 6. What could follow

1. `Timers` with `cancel()` and `stop()` of other threads.
2. Both streams under `Session` in one module, for the order of a close against
   reads and writes that are both under way.
3. Proofs of what the streams and `Session` promise together, once there is a
   module for it.
