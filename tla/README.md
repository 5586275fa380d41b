# MoonNet in TLA+

This directory models [MoonNet](../src/README.md), a C++ network library built
on one epoll reactor per thread: TLA+ modules for its core classes, TLC
configurations that check them on small instances, and TLAPS proofs for every
instance. Source paths below are relative to `src/`; the library proper is
`src/src/*.cpp`, `src/src/*.tpp` and `src/include/moonnet/*.h`.

    tlc -workers 2 -config EventLoop.cfg MCEventLoop
    tlapm EventLoopProofs.tla

## 1. The system

| component | state | operations | interacts with |
|---|---|---|---|
| `eventloop` | `epfd_`, `evlist_`, `load_`, `delque_`, `shutdown_`, `eventfd_` | `loop`, `loopbreak`, `add_event`, `del_event`, `mod_event`, `add_pending_del`, destructor | calls `event::handle_cb`; deletes the objects of `server` |
| `event` | `fd_`, `events_`, `revents_`, three callbacks | `handle_cb`, `enable_*`, `disable_*`, `enable_listen`, `del_listen` | called by the loop, owned by every class below |
| `server` | `events_`, `acceptor_`, `loadev_`, user callbacks | `start`, `stop`, `delev`, `addev`, `add_timeev`, `add_sev`, `add_udpev`, `acceptcb_`, `tcp_eventcb_`, `handle_close`, destructor | queues objects on their loop's `delque_` |
| `acceptor` | `lfd_`, `ev_`, `shutdown_` | `init_sock`, `listen`, `stop`, `handle_accept` | calls `server::acceptcb_`; the socket wrappers |
| `bfevent` | `fd_`, `inbuff_`, `outbuff_`, callbacks, `closed_` | `sendout`, `receive`, `handle_read`, `handle_write`, `close_event`, `del_listen`, `enable_listen` | two `buffer`s, one `event`, the socket |
| `buffer` | `buffer_`, `reader_`, `writer_` | `append`, `remove`, `retrieve`, `reset`, `readiov`, `able_wirte` | the socket (`readv`) |
| `timerevent` | a timerfd, an `event`, a callback | `handle_timeout`, `enable_listen`, `del_listen` | the loop |
| `signalevent` | a pipe, an `event`, a callback; the static `sigev_` | `add_signal`, `handle_signal`, `handle_read`, destructor | the loop; interrupts any thread |
| `udpevent` | a socket, `inbuff_`, `started_`, callbacks | `handle_receive`, `receive`, `send_to`, `enable_*`, `disable_*`, `del_listen` | the loop, a `buffer`, `server`'s closing callback |
| `ringbuff` | `buffer_`, `head_`, `tail_` | `push`, `push_move`, `pop`, `pop_move`, `swap_to_list`, `swap_to_vector`, `swap`, `size` | one producer and one consumer thread |
| `lfthread`, `lfthreadpool` | a task ring, `shutdown_`; threads, an adjuster | `enqueue_task`, `t_task`, `t_shutdown`; `add_task`, `adjust_task`, `setnum` | `ringbuff` |
| `threadpool` | a locked task queue, counters, worker threads, a manager | `add_task`, `t_task`, `adjust_task`, `t_shutdown` | mutex and condition variable |
| `looptpool`, `loopthread` | one loop per thread, the list of loops, an adjuster | `create_pool`, `ev_dispatch`, `addloop`, `delloop_dispatch`, `adjust_task`, `stop`; `getloop` | every `eventloop` |
| `wrap` | the static buffer of `my_read` | `Read`, `Write`, `Readn`, `Writen`, `Readline`; `Socket`, `Bind`, `Listen`, `setreuse` | the acceptor uses the socket wrappers |
| bench, examples | | demo programs | |

Where it is hard:

* **lifetime.** The kernel, `evlist_`, the batch that `loop` walks through,
  `server::events_` and `delque_` all hold raw pointers to the same objects,
  and a callback of one object may close or remove any other object of the
  batch. `delque_` exists to make this safe: objects are deleted only when the
  batch is over.
* **re-entrancy.** `bfevent::del_listen` calls the read callback when `inbuff_` is
  not empty, so `delev`, `close` and `~server` run user code in their middle.
* **stopping.** `loopbreak` tests `shutdown_` and writes to an eventfd; the loop
  learns of it only through the eventfd, while any thread calls it at any time.
* **edge triggering.** What `handle_read`, `handle_write`, `sendout`,
  `handle_accept` and `handle_receive` leave behind is reported again only if
  there is new data, new space or a new client, or if the event's mask is set again.
* **signals.** `handle_signal` runs between any two instructions, also inside the
  destructor of the object that the static `sigev_` names.
* **short transfers.** A system call may move less than it was asked to, be
  interrupted, or fail; `my_read` keeps what is left in a buffer all descriptors share.
* **lock freedom.** `ringbuff` relies on each index having one writer.
* **byte positions.** `buffer` moves and grows its vector under a read and a
  write position.
* **pools.** Tasks and loops are moved between threads while they are in use.

`PROJECT.json` lists these places one by one under `hazards`, with the line and
with the properties that cover each.

## 2. The modules

| module | what it is |
|---|---|
| `EventLoop` | the reactor, the events a pool-less server puts on it, other threads calling `loopbreak`, the destructors |
| `EventLoopProofs` | the safety of `EventLoop`, proved |
| `RingBuff` | `ringbuff`, one atomic or slot access per step |
| `SpscQueue` | abstract: a bounded FIFO queue for one producer and one consumer |
| `RingBuffProofs` | the safety of `RingBuff`, that it implements `SpscQueue`, and the safety of `LfThreadPool`, whose rings these are, proved |
| `Buffer` | `buffer` with its vector and positions |
| `ByteQueue` | abstract: an unbounded queue of bytes |
| `BufferProofs` | the bounds of `Buffer` and that it implements `ByteQueue`, proved |
| `BfEvent` | one TCP connection: `sendout`, `receive`, `handle_read`, `handle_write` against an edge triggered socket |
| `BfEventProofs` | the inbound stream and the edges of `BfEvent`, proved |
| `LfThreadPool` | `lfthreadpool` over `lfthread`: a client, workers with a ring each, the mentor, shutdown |
| `ThreadPool` | `threadpool`: clients, workers on a condition variable, the manager, the destructor |
| `ThreadPoolProofs` | the queue and the wake-ups of `ThreadPool`, proved |
| `ServerPool` | `server` with `looptpool` and `loopthread`: the start of the pool, a connection that passes from the accepting thread to a loop's thread, `stop`, the destructors |
| `ServerPoolProofs` | the lifetime of the connections of `ServerPool`, proved |
| `Reactor` | what the events of the base loop share: epoll with level and edge triggered registrations, the batch, `evlist_`, `delque_` |
| `Acceptor`, `SignalEvent`, `UdpEvent`, `TimerEvent` | the four kinds of event on it, each with its own state and handlers |
| `ServerFront` | their composition: the base loop of a `server` with everything that is not a connection |
| `ServerFrontProofs` | the safety of `ServerFront`, proved |
| `RingSize` | `adj_size` and `next_powtwo`, which choose the capacity of a ring |
| `Wrap` | the reading and writing functions of `wrap.cpp` |
| `WrapProofs` | the safety of `Wrap`, proved |
| `MC*` | the constants of the runs |

`BfEvent` uses byte queues where the code has `buffer`s; `BufferProofs` shows
that `Buffer` implements `ByteQueue`, which is what makes this legitimate.
`EventLoop` leaves out the bytes of a connection and `BfEvent` leaves out its
lifetime. `LfThreadPool` uses a bounded queue with atomic push and pop where the
code has a `ringbuff`; `RingBuffProofs` shows that `RingBuff` implements such a
queue for one producer, so `LfThreadPool` has one client, which is also the one
that shuts the pool down. `ServerPool` reduces a loop to `EventLoop`'s dispatching
and deferred deletion, and a socket to "readable" and "ended". `Reactor` has the same
loop as `EventLoop`, with less of stopping and destruction and with the event masks
and edges that `EventLoop` leaves to the environment's choice.

### EventLoop

`pc` is the position of the loop thread: `check` is the `while (!shutdown_)`,
`poll` the `epoll_wait`, `dispatch` the `for` over the batch, `handle` inside
`handle_cb`, `usercb` and `eventcb` inside user code, `sweep` the deletion of
`delque_`, and `dtor`, `dtorq`, `destroyed` the destructors. `revents` holds the
parts of `handle_cb` that have still to run (`in`, then `out`, then `err`).
`dtorcb` is a read callback that `~server` has called, `hung` a thread that waits for
`events_mutex_` while it holds it, `crashed` the deletion of freed memory.
A `bfevent` or `timerevent` and the inner `event` it owns are one name, because
they are created and deleted together; `evlist`, `registered` and `batch` hold
the inner pointer, `owned` and `delque` the outer one. `delque` counts how often
an object is queued, so that a second deletion is visible.

`bfevent::del_listen` begins with `readcb_(this)` if `inbuff_` is not empty, so each
operation that contains it (`delev`, `del_listen`, `close`, `ev->close()` in
`~server`) is two steps then: `CallReadcb` puts it on the stack `calls`, the callback
does what user code does, and `ReadcbReturn` carries the operation on, in whatever
state the callback has left the connection. `inbuf` holds the connections with
unread data: `Transfer` adds to it, `receive` takes all of it or a part (which
changes nothing here). A callback called from inside may call `delev` again;
`again` records the objects that were removed inside their own removal.
`acceptor::listen` makes a new event each time (`Accs`, `enable_tcp_accept`); `lsn` is
the acceptor's `ev_`.

User code is the set of actions `UserStep`: inside any callback, and before
`start`, it may add timers, `delev`, `del_listen`, `enable_listen` or `close` any
object, stop and restart accepting, and call `stop`, in any number and order.
The contract it keeps:

* it uses a pointer only while the server owns the object, and leaves alone the
  connection whose closing callback is running;
* it does not re-enable a connection whose socket it has closed, and calls
  `del_listen` and `close` only for an event that is on the loop;
* a read callback that `~server` calls uses only what the server still owns, and
  neither creates timers nor touches the acceptor or the loop;
* the server is destroyed by its owner when the loop is not running and no
  thread is inside `loopbreak`.

Which descriptors become ready is the environment's choice; the eventfd is level
triggered and its counter is modelled. `epoll_wait` may time out (`Timed`), be
interrupted, or fail. The server has no loop pool here (`t_num` = 0), so connections live on the
base loop.

### RingBuff

Each load, store and slot access of `head_`, `tail_` and `buffer_` is a step of
its own, for producers and for the consumer. With one producer the acquire and
release accesses order the slot accesses, so that interleavings are what the
memory model allows. The copying and the moving variants differ in what they
leave in a slot, which is a nondeterministic choice in `TakeSlot`. `sent` and
`out` are history variables: what was pushed with success and what was read.
`Inc` is the masked increment; that `capacity_` is a power of two matters only for
the mask being a modulus. `include/moonnet/ringbuff.tpp`, which the compiler
reads, and `src/ringbuff.tpp`, to which the map refers, are the same text.

`RingSize` has the bit operations of `adj_size`, for a `size_t` of 2^w bits. TLC
evaluates `CapacityChoice` before the run `ringbuff`: for all sizes of 2, 4 and 8
bit integers the result is the least power of two that is not below the size, or 0
when that does not fit.

### Buffer

`store` is the vector, `reader` and `writer` are the positions in the code's own
counting from 0. `able_wirte` is a function from a buffer to a buffer and is used
by `append` and, inside it, by `readiov`, exactly where the code calls it.
`arg` and `got` are the bytes put in and taken out by the last call.

### BfEvent

Bytes are numbered in the order of the stream, so that a stream is right when it
counts 1, 2, 3. `sendout` is split where it makes a system call: `SendDirect`,
`SendBlocked`, `SendFails` are its first `write`, `SendVec` and `SendVecFails` its
`writev`, `SendQueue` its end; the peer may read between them. User code calls
`sendout` and `receive` on the loop thread, in callbacks or between events. The
kernel is external and reduced to what bfevent relies on: a send buffer of
`SndBuf` bytes, an edge when bytes arrive, an edge when space appears after a
write that found too little (`nospace`), and a fresh look at the socket on
`EPOLL_CTL_MOD`. `broken` stands for an end of file or a reset. The user may
replace the callbacks and switch `EPOLLIN` off and on at any moment
(`disable_read`, `enable_read`, `setcb`); it leaves `EPOLLOUT` and `EPOLLET` alone,
which bfevent manages itself.

### LfThreadPool

`client` is the position of the client: `scan` is the loop of `getminidx`, which reads
the loads one after the other, `enqueue` the push, `mentor`, `flag`, `wake`, `join`
the steps of `t_shutdown`. `wpc` is the position of each worker in `t_task`;
`drain` is the loop after it, which pops without running. `assigned` and `ran` are
history variables; `Real` leaves out of a ring the empty task that `t_shutdown`
pushes to wake the worker, which is always the last element. The mentor's loop condition is inverted in the code, so it
ends at once, or after one sleep if the pool was shut down first; `add_thread`,
`del_thread_dispath` and `getload` behind it have no reachable caller.

### ThreadPool

A critical section of `mx` is a step, except that of a worker, which is two: the wait
predicate (`WorkerWait`, `WorkerWake`), and with the lock still held (`awake`) the
tests behind it (`WorkerExit`, `WorkerLeave`, `WorkerTake`, `WorkerFront`), because
the manager writes `exit_num` without the lock in between. Everything the manager does
without the lock is a step of its own (`ManagerGrowTest`, `ManagerShrinkTest`,
`ManagerSetExit`, `ManagerReadExit`). The condition variable is external: a
notification wakes one waiting thread, or none if nobody waits, and a wait may end
spuriously. `threads` starts with `MinThr` empty elements, as the constructor makes
them, so its size is `MinThr` more than the number of workers.

`crashed` stands for two things with no defined outcome, after which nothing more is
said: a worker takes the front of an empty queue (`WorkerFront`), or the manager grows
`threads` while `t_shutdown` walks over it. The latter need not crash: the walk over
the freed elements may also lose some of them (`ManagerGrow`). What the detached
manager does to the memory of a destroyed pool is not modelled.

### ServerPool

`bpc` is the position of the thread that owns the server: `spawn`, `getloop` and
`waiting` start the pool; `idle` is the base loop; `rcb`, `ecb`, `mod`, `own` are the
statements of `acceptcb_` after the constructor of `bfevent` has registered the
connection with its loop; then `stop` and the destructors. `wpc` is the position of
each loop's thread. `ready` is epoll's list of edges: new data or the end of the
stream adds to it, `epoll_wait` takes from it, and `EPOLL_CTL_MOD` looks at the
socket again. Loads are read while they change, so with `dispath_` any loop may be
chosen. `stop` is called in a callback of the base loop and again by `~server`; the
base loop may still accept after it, as the rest of its batch does. Operations
on the lists `events_` and `evlist_` are atomic here although the code shares them
between threads without a lock.

A loop may close and delete a connection that `acceptcb_` still has in hand, or that
it puts into `events_` afterwards. Each later use, in `setcb` and in `~server`, is
undefined (`Used`): the process ends (`bpc` = `crashed`), or nothing comes of it,
because the freed memory still says that the connection is closed. `early` records
the connections that were closed while `acceptcb_` had them. The loops' threads
are reduced to reading and closing: a read callback that calls `delev` there would
be a second way to close early.

### ServerFront, Reactor, Acceptor, SignalEvent, UdpEvent, TimerEvent

`at` is the position of the loop thread: `ctor`, `server` the two halves of
server's constructor, `setup` user code before `start`, `poll` and `dispatch` the
loop, `handle` inside a handler, `cb` and `ecb` inside the user's callback and event
callback, `bytes` the loop of `signalevent::handle_read`, `dtor` inside
`~signalevent`. `cur` is the event that is handled, `edge` the edges epoll has
not reported. `epoll_wait` reports a level triggered event whenever its
descriptor is readable, an edge triggered one only with an edge; `EPOLL_CTL_ADD`
and `MOD` make epoll look again. The kernel (accept queues, pipes, receive queues,
timers) is external.

User code may, before `start` and in callbacks, enable TCP, stop and resume
accepting, create objects of every kind, `delev` them, stop and resume listening,
change a UDP event's mask and callbacks, receive and send. It uses only what
`server::events_` owns, leaves alone the object whose closing callback runs, and
stops accepting only while the acceptor is listening. Every constructor that cannot
get its descriptor ends the process (`CreateFails`, `perr_exit`), as does the code.

* *Acceptor.* `backlog` counts the clients waiting on each socket of the port;
  `init_sock` is `Socket`, `setreuse`, `Bind`, `Listen` in that order, and
  `CanBind` the kernel's rule for sharing a port. `acceptcb_` is the subject of
  `ServerPool`. `broke` says that `handle_accept` last ended with an error. A
  `settcpnodelay` that fails ends the process (`AcceptOne`).
* *SignalEvent.* `handle_signal` is enabled in every state once a signal is
  installed, also between the two steps of `~signalevent` (the pipe is closed, then
  `sigev_` is cleared). A full pipe drops the signal. The handler interrupts the loop
  thread, the only thread of a server without a pool; if the kernel picks another
  thread of the process, its test of `sigev_` and its use of the pointer
  (signalevent.cpp:140-141) are two steps, and `~signalevent` may come between.
* *UdpEvent.* A datagram is a number, 0 an empty one. The closing callback of
  `add_udpev` captures a local variable by reference; using it is undefined, and
  `UdpEventcb` is either what was meant or the end of the process. `cut` says that
  `handle_receive` stopped at an empty datagram or an error.
* *TimerEvent.* `timespec` is the conversion in `_init_`; a timeout of 0 gives a
  timer that `timerfd_settime` leaves disarmed.

The server has no pool here, so `ev_dispatch` always returns the base loop.

### Wrap

One thread calls the functions on several blocking descriptors; each system call is a
step that moves any part of what was asked for, is interrupted, fails, or meets the
end. The byte `<<f, i>>` is the i-th of descriptor `f`'s stream, so that skipping,
repeating and mixing of streams show. `cache` is the static buffer of `my_read`.
A `Readline` in progress remembers what it found there (`stale`), and `line` what
the last one stored and what it was supplied with.
The Windows branch has the same loops in `Readn` and `Writen`.

## 3. The runs

| run | configuration | shows |
|---|---|---|
| `eventloop` | 1 connection, 1 timer, 2 calls of `acceptor::listen`, 1 `loopbreak` thread, 1 nested read callback, no timeout | `DispatchLive`, `DeletedOnceUnlessReentered`, `NoDanglingPointer`, `NothingLeaked`, `NoCallbackAfterClose` in every order of callbacks, removals and destructors; `LoopbreakStops`, `PendingDeleted` |
| `ringbuff` | ring of 4, 5 pushes, 2 values | `InOrder`; implements `SpscQueue` (`IsQueue`); `Delivered`; `CapacityChoice` |
| `buffer` | vector of 2, stack buffer of 2, 5 bytes | `InBounds`; implements `ByteQueue` (`IsByteQueue`) |
| `bfevent` | send buffer of 2, messages up to 3, 5 bytes out, 2 in | `InboundInOrder`, `NothingUnread`, `NoStall`, `OutbuffDrains` |
| `lfthreadpool` | 2 workers, rings of 2, 5 tasks, both modes | `RunOnceInOrder`, `LeastLoaded`, `ShutdownEnds`, `TasksRun` |
| `threadpool` | 1 client, 1 to 4 workers, 2 tasks, 2 rounds of exits | `TakenInOrder`, `LeavesNothing`, `NoLostWakeup`, `ShutdownEnds` |
| `serverpool` | 2 loops, 2 connections, 1 send | `LiveUnlessClosedEarly`, `AllReleased`, `CallsEnd`, `EofCloses` |
| `serverfront` | 1 socket, 2 signal events, 1 UDP event, 1 timer; 2 events from outside, 3 user calls | `NoClientStranded`, `NoDatagramLeft`, `SlotLive`, `DeliveredInOrder`, `EvlistLive`, `OneShotOnce`, `Notified`; `TimespecExact` |
| `wrap` | 2 descriptors, streams of 2, static buffer of 2, 2 calls of length 1 or 3, 1 interruption | `ReadExact`, `WrittenInOrder`, `LineShape`, `LineBytes`, `CallsReturn` |
| `bfevent_partial`, `lfthreadpool_drop`, `serverfront_port` | | where code and documentation disagree, see section 5 |

Why the bounds suffice. In `eventloop` a connection and a timer are enough for
one callback to close another member of its batch, and they are the two kinds of
object, one of which leaves the loop in its destructor; more connections, and
`epoll_wait` with a timeout (`Timed`), are covered by the proofs of the safety
properties. `MaxIO` bounds how often data moves, and one
transfer is enough for a callback to run between any two other steps, and to leave
data for `del_listen` to call back with. `MaxNest` bounds how deep `delev` and the read
callback call each other; one level is enough to queue an object twice, and the
proofs are for every depth. (The bound of `MaxIO` hides
an endless sender that keeps `handle_read` busy, which is a property of the
environment, not of the loop.) `loopbreak_cb` is enabled only while no write is
pending, because a second one changes nothing but the counter. In `ringbuff` five pushes wrap a ring of
four slots whose room is three. In `buffer` an input is as long as the vector and
the stack buffer together, so that every branch of `readiov` and
`able_wirte` is taken. In `bfevent` a message is longer than the send buffer and
more bytes are sent than it holds, twice. In `lfthreadpool` five tasks overfill two
rings of two, so that pushes are refused and the empty task of `t_shutdown` finds a
full ring. In `threadpool` `max_thr_num` = 5 lets the manager add three workers, and ask
for exits twice, so that the second time can take back what woke a worker the first
time; there is one client, and the proofs are for any number of them. In `serverpool` two connections share a loop or
not; the send is enough to make the end of a stream wait behind data. In
`serverfront` (`MaxEnv`, `MaxOps`, `PipeCap`, `ReadMax`, `QueueCap`) three calls make
two objects and remove one, or replace one signal event by another; two arrivals
let the second come while the first is being handled, and with `ReadMax` = 1 make
`handle_read` leave a signal in the pipe. In `wrap` a call asks
for more than the static buffer and the stream hold, so transfers are short
everywhere and the second call finds what the first left in the buffer; each
stream has one newline, in different places.

Fairness. `EventLoop`: the loop thread keeps running and user callbacks return;
`epoll_wait` is assumed to return only while the eventfd is readable, so nothing
is assumed of connections or timers; a thread inside `loopbreak` finishes its
call. The pools: every thread that is not blocked keeps running and tasks return,
nobody is obliged to add tasks or to shut down, and no wake-up is assumed but the
ones that are sent; `epoll_wait` is assumed to return only if it has something to
report. `RingBuff`: the consumer keeps calling, as `lfthread::t_task` does; producers
may stop at any point. `BfEvent`: the loop thread keeps running, and the peer
keeps reading, without which no output buffer can drain. `ServerFront`: the loop
thread keeps running, callbacks return, and an armed timer expires, which the
kernel guarantees. `Wrap`: a system call that can return does; nothing is assumed
of the peers.

Each property has a mutant in `PROJECT.json`: a plausible bug of the code, kept
beside the definition it would replace, that violates the property.

## 4. The proofs

`EventLoopProofs` proves, for any finite or infinite sets of connections, timers
and threads and every depth of nested callbacks, from `ObjectsAssumption` (the names
are distinct) and `BoundsAssumption`: `TypeCorrect`, `NeverDispatchesDeleted`,
`DeletedTwiceOnlyReentered`, `NeverDangling`, `NeverLeaks`, `SilentAfterClose`.
`DeletedTwiceOnlyReentered` does not say that nothing is deleted twice, because the code
can do that (section 5): it says that the only way is a `delev` inside the read
callback of the same object's `delev`.
The properties are not inductive alone. `IndInv` adds what the code relies on
and nowhere says:

* `CallbacksOwned`: until the destructor runs, an object has callbacks exactly
  while `events_` holds it. This is why a second end of file or error in the same
  `handle_cb` cannot queue the object again (`DeletedOnceUnlessReentered`).
* `QueuedSilent`: a queued object has no callbacks, so that its destructor, which
  calls `del_listen` too, calls no user code.
* `CallsInv` with `Waiting`: what an operation that waits for a read callback finds
  when it goes on: its object is alive, because objects are deleted only outside of
  callbacks, and an object that `delev` was removing is still owned or recorded in `again`.
* `AcceptorInv`: of the acceptor's events the loop knows only `ev_`.
* `SomeoneDeletes`: a live object is owned or queued (`NothingLeaked`).
* `BatchOver`: the batch is empty and nothing is being handled when `delque_` is
  swept (`DispatchLive`).
* `QueuedLeft`, `ClosedLeft`: a queued timer, whose destructor does not remove its
  event, has already left `evlist_`; so has any object with `closed_` set, whose
  destructor returns early (`NoDanglingPointer`).
* `EventcbOwned`, `DtorPhase`: whose closing callback runs, and how far the
  destructors are.

The proof has one lemma per action or group of actions, and one step per conjunct
that the action can disturb.

`RingBuffProofs` proves, for every capacity and every bound, from one producer
(`OneProducer`): `TypeCorrect`, `ReadsInOrder`, `NeverOverwrites`, `AllAccounted`
and `Refinement`, the implementation of `SpscQueue`. The inductive invariant
says that `sent` and `out` differ by the distance of the two indices, that the
slots between them hold exactly those elements, that the producer's local head is
`head_`, and that the consumer's end is not past `head_`; `AllAccounted` and
`InOrder` are readings of it. `OneProducer` cannot be dropped: with
`Producers = {p1, p2}` TLC refutes `Accounted`.

The last part of the same module is about `lfthreadpool`, whose workers have such a
ring each. It proves, for any number of workers, any room in the rings and any bound
on the tasks (`PoolAssumption` of `LfThreadPool`): `PoolRunsOnceInOrder`,
`PoolLeastLoaded`, `PoolRefusesWhenFull` and `PoolJoinsAll`. The module extends both
specifications, which is why that of the pool is called `PoolSpec`. `PoolInv` says

* `RowInv`: of each worker that has not left its loop, that what it has run, the
  task in its hand and its ring, in a row, are the tasks the ring accepted, followed
  by the empty task at most, and by that only once `t_shutdown` has been there
  (`Woken`). The proof has a lemma for each way the row changes (`RowAppend`,
  `RowWake`, `RowPop`, `RowRun`);
* `LoadInv`: while `getminidx` reads the loads the chosen ring has not grown and its
  recorded load is the least so far. It needs `ClientInv`: nobody else pushes
  between the scan and the push;
* `RoomInv`: a ring never exceeds its room, so that a refused push in dynamic mode
  means that every ring was full when its load was read (`RefusedWhenFull`);
* `JoinInv`: the threads that `t_shutdown` has joined, up to `idx`, have ended, which
  gives `AllJoined`: `~lfthreadpool` destroys no thread that still runs.

`RunOnceInOrder` says nothing of tasks that a stopping worker drains: those are
lost, which is the finding of `lfthreadpool_drop` (section 5).

`BufferProofs` proves, for every `BufSize`, `IOBuf` and set of inputs
(`BufferAssumption`): `NeverOutOfBounds`, and `Refinement`, the implementation of
`ByteQueue`. The invariant is `InBounds` with types; the work is in lemmas about
windows: `able_wirte` keeps the window between the positions whether it moves,
grows or does nothing, a copy behind `writer_` appends to it, consuming cuts its
front, and `readiov`'s overflow part, appended from the stack buffer, makes the
same window as one copy would.

`BfEventProofs` proves, for every size of the send buffer and of the messages
(`BfEventAssumption`): `InboundStream`, `ReadsEverything`, `NeverStalls`. What
makes `NothingUnread` and `NoStall` inductive is where an edge may be missing:
`ReadDue` and `WriteDue` say for each position of the loop thread, the caller of an
interrupted `sendout` included (`Frame`), that bytes or space are known to epoll or
that the handler which looks is still due; `ToldOfSpace` says that somebody has
found a full socket full, so the kernel will report the space.

`ThreadPoolProofs` proves, for any number of clients, workers and tasks
(`PoolAssumption`): `FirstInFirstOut`, `NoTaskLeftBehind`, `WakeupsArrive`. Beside
the properties `IndInv` says that no worker is asked to exit before the manager's
first round (`NoneExits`), which is the hypothesis of `NoLostWakeup`; that one worker
at a time is between its two steps with the lock, and finds there what it was woken
for (`Locked`); that the flag is set before anything is joined (`FlagFirst`); and that
a worker leaves in a shutdown only when the queue is empty (`LeftInShutdown`).

`ServerPoolProofs` proves, for any number of loops and any set of connections
(`PoolAssumption`): `UsesLiveUnlessClosedEarly`, `NoLeak`. The first names the one
way to a use after deletion and to a second deletion, which the code has (section
5). `IndInv` says that a connection is
held by the thread of its own loop only (`HeldAtHome`), that it is closed only once
it has an `eventcb_`, which `acceptcb_` sets last (`ClosesWithEcb`), that what the base
thread and `events_` hold is alive unless it was closed early (`EarlyOnly`), that epoll knows only live
ones although `acceptcb_` re-arms from another thread (`RegisteredLive`), that
each live one has somebody who will delete it (`Reachable`), and how far `init_pool`,
`stop` and the destructors are with the threads (`Spawning`, `Joined`, `Emptied`).

`ServerFrontProofs` proves, for any sets of signal events, UDP events, timers and
sockets and every capacity, from `ReactorAssumption` (the names are distinct),
`AcceptorAssumption` and `SignalAssumption` (`read` is asked for at least one
byte): `HandlerFindsObject`, `NoDanglingEvent`, `OneShot`, `NoDatagramWaits`,
`NoOwnClientWaits`, `NoClientWaits`, `InOrderOfArrival`. `NoClientWaits` has the
condition `~CtorPort`, that the server was constructed without a port, because
`NoClientStranded` is refuted for the other constructor (`serverfront_port`,
section 5). `NoOwnClientWaits` holds for both constructors: nobody waits on the
socket `lfd_`, so the clients of the refutation are those of the acceptor's first
socket, and only those. `TimespecExactly` is about the conversion of a timer alone:
the nanoseconds are in range, nothing of the timeout is lost, and only the timeout 0
disarms. `IndInv` has

* `Place` and `Pointers`: where the loop thread is, and that no list of the loop
  holds a deleted object, because only the sweep deletes; `evlist_` may still hold
  a UDP event that its own callback closed, as `EvlistLive` allows;
* `SlotInv`: the slot of the signal handler, also between the two steps of
  `~signalevent`;
* `TimerInv`: a one-shot timer is armed, expired or fired, and never two of them;
* `Told`: epoll's interest is the event's mask, so that a report asks for the edge;
* `DatagramInv`, `ClientInv` with `OneSocket`: whatever waits in a queue is owed a
  look by an edge, the batch or the running handler (`Owed`);
* `SignalInv`, `UdpInv`: delivered, in hand and waiting, put in a row, are what
  arrived. `Data` drops the empty datagrams from a queue and is recursive; that
  it goes through `Append` and `Tail` (`DataAppend`, `DataTail`) is proved by
  induction over the length, stated for a set of numbers and derived from the
  least number outside it (`LeastNatural`, `InductionOnNat`).

`WrapProofs` proves, for every size of the static buffer and of the calls
(`WrapAssumption`) and any descriptors (`IdleAssumption`: the value for "no call" is none): `ReadsExactly`, `WritesInOrder`,
`LinesWellFormed`, `LinesContinue`. `IndInv` says of the call in progress what it
has stored and what its stream has given (`Reading`; `InLine`: stored bytes and
static buffer together are what `Supply` gave), that the next `Readline` finds what the
last one left, whatever was called in between (`Chained`), of what was
written that the bytes of a call lie side by side (`InOrder`) and that the last
ones are those of the call in progress (`WritingOn`), and of the last call that
returned what the properties say (`Done`).

Each inductive invariant was checked by TLC on the constants of its run. `TypeOK`
of `EventLoop` and `RingBuff`, `NoOverwrite`, `Accounted`, `RefusedWhenFull`,
`AllJoined`, `OwnClientsServed` and the statement of `TimespecExactly` are proved and
in no run; every other theorem is about a property that a run checks too. With
them every invariant, action property and refinement of the passing runs is a
theorem.

Only model-checked: all liveness (`LoopbreakStops`, `PendingDeleted`, `Delivered`,
`OutbuffDrains`, `TasksRun`, `ShutdownEnds`, `CallsEnd`, `EofCloses`, `Notified`,
`CallsReturn`), which is out of this prover's reach; and the computation of
`RingSize`, which needs the bit operations.

## 5. Where code and documentation disagree

Each of these has a run whose counterexample shows it:

* `bfevent_partial`: after a partial first write `sendout` computes
  `relen -= len` and drops the rest; its comment says that it "Handles partial
  writes". The passing run `bfevent` says nothing about the content of the
  outgoing stream for this reason; it shows that no byte in `outbuff_` is forgotten.
* `lfthreadpool_drop`: the tasks that are queued at shutdown are popped, but
  `task();` makes an empty function object instead of calling the popped one; the
  comment says "execute task before shutdown", the guide "ensuring all tasks are
  completed".
* `serverfront_port`: the constructor of `server` with a port gives the port to the
  constructor of `acceptor`, which already calls `init_sock`, and calls `enable_tcp`,
  which calls it again. Because of `SO_REUSEPORT` the second `Bind` succeeds, the
  kernel spreads clients over both sockets, and those of the first are never
  accepted; the comment of `enable_tcp` says that it "starts listening for incoming
  TCP connections".

These follow from the same models and have no run of their own:

* `server::delev` calls `bfevent::del_listen`, which sets `closed_`, so `~bfevent`
  returns before `::close(fd_)`, while the guide says that the destructor "closes the event
  and releases resources". As an invariant of `EventLoop`,
  `\A b \in Bevs : life[b] = "freed" => b \notin fdopen` is refuted.
* A read callback that takes only part of its data and calls `delev` is called again
  from inside, because `del_listen` finds `inbuff_` not empty (bfevent.cpp:130-132).
  If it calls `delev` again there, having taken the rest, `handle_close` runs
  twice and `delque_` holds the connection twice; the loop deletes it twice. No comment
  or document tells the user to empty the buffer first. `pc # "crashed"` is refuted as an
  invariant of `EventLoop` (`CallReadcb`, `delev`, `ReadcbReturn`, `DeletePending`,
  `DeleteFreed`).
* `~server` closes its connections while it holds `events_mutex_` (server.cpp:56-58). A
  connection with unread data calls the read callback there, and if that calls `delev`
  the thread waits for itself in `handle_close`: `pc # "hung"` is refuted.
* `acceptor::listen` makes a new event and forgets the old one (acceptor.cpp:92), so
  every `disable_tcp_accept` and `enable_tcp_accept` leaks one: `NothingLeaked`
  speaks of connections and timers only, with `Born` for `Objs` it is refuted.
* A loop of the pool may close and delete a connection while `acceptcb_` is still at
  work on it. `setcb` then calls `update_ep` on freed memory (bfevent.cpp:87,
  123-125), and if the process survives, `events_` holds the pointer and `~server`
  closes and deletes it again. As invariants of `ServerPool`, `bpc # "crashed"` and
  `\A c \in owned : life[c] = "live"` are refuted; `LiveUnlessClosedEarly` says that
  this early closing is the only way there.
* `del_event` lowers `load_` even if the event is not on the loop, so `del_listen`
  followed by `delev` counts one event twice (eventloop.cpp:109; `load_` is not in
  the model, nothing reads it without a pool); the guide calls `getload` the "number of active events".
* With `MaxMsg = 1` in `BfEventPartial.cfg` there are no partial writes, and
  `OutboundInOrder` fails differently: after a first write that fails with EAGAIN,
  `n` is -1 and `writev` is given `data + n`; when the peer has read meanwhile, one
  foreign byte is sent and the last one is not.
* The guide and the comments call `push` thread-safe with "multiple threads"; with
  two producers in `RingBuff.cfg` an element whose push returned true is lost.
* The mentor of a dynamic `lfthreadpool` ends at once (`while (shutdown_)`), and the
  manager of `looptpool` never adjusts anything (`t_num > min_tnum` never holds);
  their comments say "Periodically adjusts".
* `threadpool`: once workers are asked to exit, the worker that `add_task` notified
  may exit and the task waits (`NoLostWakeup` without `rounds = MaxExit`); after a
  round in which workers took part of `exit_num` before the manager read it back,
  `live_num` is too large and the next round goes below the minimum; a worker that was
  woken by `exit_num` alone may find it set to 0 in the next round, without the lock,
  and calls `front()` on an empty queue (threadpool.cpp:75, 82, 137; `WorkerFront`);
  `t_shutdown` detaches the manager, which may outlive the pool, and may add to
  `threads` while the loop of `t_shutdown` walks over it (threadpool.cpp:106, 130).
* Bytes that a pool's loop reads before `acceptcb_` has set `readcb_` stay in
  `inbuff_` and are reported only when more arrive (`ReadSome` in `ServerPool`).
* `udpevent::disable_ET` calls `disable_read` (`SetEvents`). An empty datagram is
  taken for the end of the stream and closes the event (`RecvStop`). An event closed by its
  own callback stays in `evlist_` after its deletion, because the lambda does not
  call `del_listen` (the exception in `EvlistLive`), and the lambda uses a dangling
  reference (`UdpEventcb`).
* A second `signalevent` takes the place of the first in `sigev_`, which then gets no more
  signals; deleting either one clears the slot for both (`signalevent`,
  `ResetSlot`). No property covers the signals that this loses, nor those that a full
  pipe drops: `DeliveredInOrder` and `Notified` begin with what reached a pipe.
* An error of `accept` other than EAGAIN leaves clients waiting until another one
  arrives (`broke` in `NoClientStranded`).
* A timer with a timeout of 0 never fires (`Disarms`).
* `Readline` begins with bytes that an earlier call on another descriptor left in
  the static buffer, although the comment of `my_read` says that it reads "from the file
  descriptor `fd`" (wrap.cpp:516-517). `LineBytes` says exactly which bytes these are,
  and that none is lost or handed over twice; that a `Readline` stores bytes of its own
  descriptor only is refuted. It also returns one more than it stored
  when the line does not fit (`LineShape`).
* A ring made with size 0 or 1 has one slot and is always full; a size above 2^63 becomes 0
  (`SizeAdjusted`).

## 6. Not modelled, and the plan

Modelled, in this order: `EventLoop` and `RingBuff`; `Buffer`, `BfEvent`; `LfThreadPool`, `ThreadPool`, `ServerPool`; `RingSize`; `Reactor` with
`Acceptor`, `SignalEvent`, `UdpEvent`, `TimerEvent`, composed in `ServerFront`; `Wrap`.

Not modelled:

* code that nothing reaches: `looptpool::addloop`, `delloop_dispatch`, `getscale` and
  `eventloop::getallev` behind them, `lfthreadpool::add_thread`, `del_thread_dispath`,
  `getload`, and `ringbuff::swap`, which reads and stores the indices of two rings one
  after the other;
* `empty`, `full` and `size` of a ring called by a third thread, whose result the code
  uses only as a hint (`LeastLoaded` treats the loads as read one after the other);
* the destructor of an `acceptor` that was never given a socket, which deletes `ev_` and
  closes `lfd_` although neither was set; what reading an uninitialised pointer does is
  beyond a model. (The deletion of the last `ev_` is `DtorAcceptor` in `EventLoop`.)
* what a read callback that is destroyed while it runs does afterwards: `disable_cb`
  resets `readcb_` inside the call of `readcb_`;
* that the number of a descriptor which was closed may be given to another one before
  the object that closes it a second time is deleted;
* a signal handler on another thread than the loop's (section 2);
* a read callback that calls `delev` on the thread of a pool's loop;
* what several threads do to a `std::list` without a lock (`events_`, `evlist_`), for the
  same reason;
* `event::reset_events`, and a user's own switching of a connection's `EPOLLOUT` and
  `EPOLLET`, for which the code promises nothing;
* user calls of `delev` from a thread other than the loop's;
* `Accept`, `Connect` and `Close`, which are one system call and have no caller in the
  library, and the Windows branches that differ (`Readline`);
* bench and example programs, and the formatting of addresses and error messages.
