# TLA+ model of mymuduo

mymuduo is a C++11 clone of the muduo network library: a reactor per thread
(`EventLoop` over epoll), a pool of such threads, and a TCP server on top.
There are no tests in the repository, and the code whose correctness is not
obvious is exactly the code a unit test would hardly reach: handshakes between
threads, the order of callbacks on one connection, and a byte buffer that moves
its bytes about. This directory models that code in TLA+, checks it with TLC and
proves its safety with TLAPS.

## 1. Inventory: the system

Paths are those of the repository (`src/`, `include/`, `example/`).

| Component | State | Operations | Talks to |
|---|---|---|---|
| `EventLoop` | `looping_`, `quit_`, `pendingFunctors_` (under `mutex_`), `callingPendingFunctors_`, the eventfd, `activeChannels_` | `loop`, `quit`, `wakeup`, `runInLoop`, `queueInLoop`, `handleRead`, `doPendingFunctors`, `updateChannel`, `removeChannel` | poller (calls), channels (callbacks), any thread (functors) |
| `Poller`, `EpollPoller` | `channels_` by descriptor, `events_`, the kernel's epoll set | `poll`, `updateChannel`, `removeChannel` | kernel, channels |
| `Channel` | `events_`, `revents_`, `index_`, `tie_` | `enable…`, `disable…`, `handleEvent`, `tie`, `remove` | its loop, the callbacks of its owner |
| `Buffer` | `buffer_`, `reader_index_`, `writer_index_` | `append`, `retrieve…`, `readFd`, `writeFd`, `makeSpace` | `TcpConnection`, user code |
| `TcpConnection` | `state_`, channel, socket, two buffers, callbacks | `connectEstablished`, `send`, `shutdown`, `handleRead/Write/Close/Error`, `connectDestroyed` | its loop, its server, user code in any thread |
| `TcpServer` | `connections_`, `nextConnId_`, pool, acceptor | `start`, `newConnection`, `removeConnection(InLoop)`, destructor | pool, acceptor, connections |
| `Acceptor` | listening socket and channel | `listen`, `handleRead` | base loop, server |
| `EventLoopThreadPool` | `threads_`, `loops_`, `next_` | `start`, `getNextLoop`, `getAllLoops` | threads |
| `EventLoopThread`, `Thread` | `loop_` (under `mutex_`, `cond_`), `started_`, `joined_` | `startLoop`, `threadFunc`, `join`, destructors | each other through a semaphore and a condition variable |
| `Socket`, `InetAddress`, `Timestamp`, `Logger`, `CurrentThread` | descriptor, address, number, level, cached tid | wrappers of system calls, formatting | kernel |

What is hard, and what makes each part correct:

- **EventLoop.** Any thread queues functors or calls `quit()` while the owner
  decides to block. Correct: no wakeup and no quit is lost, functors run in the
  order queued and once, a batch ends.
- **Pool and threads.** A thread publishes the address of a loop on its own
  stack and another waits for it, uses it, and asks it to quit. Correct: the
  wait ends and no notification is lost, only live loops are dealt out, in turn,
  and destruction joins every thread.
- **Buffer.** Correct: bytes leave in the order in which they came, none lost
  by compaction, growth or the extra block of `readFd`; the vector does not grow
  without need.
- **TcpConnection.** `send` and `shutdown` from two threads, the peer, and the
  callbacks. Correct: order of the bytes, EPOLLOUT exactly when needed, no
  shutdown over buffered data, the user told of a close once and before the
  server forgets the connection, everything forwarded finds its target.
- **Poller/Channel.** Interest is kept three times (`events_` and `index_`,
  `channels_`, the kernel), descriptors are used again, and a connection never
  removes its channel. Correct: the three agree, nothing is reported that nobody
  asked for, and no ready channel is left out for ever when the list is short.
- **TcpServer/Acceptor.** Making a connection takes a functor to another thread,
  closing it one each way, and user code in a callback may destroy the server.
  Correct: up and down are told once each, a connection lives until it is down,
  every client is served and every descriptor released.

`PROJECT.json` lists all of this per component, and the hazards at their lines.

## 2. Modules

| Module | Models | Role |
|---|---|---|
| `TaskQueue` | – | what a loop promises: one first-in first-out queue of functors; `CoarseSpec` is the same for one who sees a functor and what it queues as one step, and does not remember it for ever |
| `EventLoop` | `EventLoop.cc`, the blocking and the timeout of `EpollPoller::poll` | implements `TaskQueue` |
| `EventLoopProofs` | | types, no lost wakeup or quit, implementation of `TaskQueue` |
| `ByteQueue` | – | what a buffer promises: a first-in first-out queue of bytes |
| `Buffer` | `Buffer.hh`, `Buffer.cc` | implements `ByteQueue` |
| `BufferProofs` | | types, bounded growth, implementation of `ByteQueue` |
| `EventLoopThreadPool` | `EventLoopThreadPool.cc`, `EventLoopThread.cc`, `Thread.cc`, and of `EventLoop.cc` what `quit` and `loop` do with `quit_` | |
| `EventLoopThreadPoolProofs` | | the four safety properties of the pool |
| `Demultiplexer` | – | what a poller promises: only what was asked for, only of who asked, once per round |
| `EpollPoller` | `EpollPoller.cc`, `Poller.cc`, `Channel.cc` (`fd_`, `events_`, `index_`), the channels of `Acceptor` and `EventLoop` | implements `Demultiplexer` |
| `EpollPollerProofs` | | the five safety properties of the poller |
| `ConnectionLife` | – | what a server promises of its connections: up once, then down, kept until then |
| `TcpConnection` | `TcpConnection.cc`, `Channel::handleEvent`, the part of `TcpServer.cc` and of the loop that one connection sees | implements `ConnectionLife` for one connection |
| `TcpConnectionProofs` | | the six safety properties of the connection |
| `TcpConnectionHistory` | `TcpConnection` with a memory of what was sent and told | implements the coarse `TaskQueue` |
| `TcpConnectionHistoryProofs` | | the five properties that need the memory |
| `TcpServer` | `TcpServer.cc`, `Acceptor.cc`, and of `TcpConnection.cc` what makes and ends a connection | implements `ConnectionLife` for all connections |
| `TcpServerProofs` | | the six safety properties of the server, and that its promise holds of each connection by itself |
| `MC…` | | small instances for TLC |

`ConnectionLife` is where `TcpConnection` and `TcpServer` meet: the first has
every handler of one connection and a server reduced to `inMap` and `removals`,
the second has all connections, threads and queues and a connection reduced to
its callbacks. Both implement the same life cycle, so what the one assumes of
the other is what the other was shown to do; the theorem `ServerServesEach` takes the one step
that is left, from the promise about all connections to that about each.

`TcpConnection` and `EventLoop` meet in `TaskQueue`: the second implements it
with the vector, the lock and the eventfd, and the `pending` and `batch` of the
first are such a queue, which `TcpConnectionHistory` states.

The definitions marked `MUTANT` are not part of any specification: each is a
plausible bug in the definition that follows it, and the property that is
paired with it in `PROJECT.json` is violated when it takes the definition's
place.

### How state and actions correspond to the code

**EventLoop.** The variables carry the names of the members; `functors` is the
local vector of `doPendingFunctors`; `pc` is the owner's place in `loop()`;
`caller` says which foreign threads are between the unlock (or the assignment of
`quit_`) and the write to the eventfd. A step is what the code's own
synchronisation makes atomic: a critical section, an access to an atomic, a
system call. So `loop()` sets `looping_` and resets `quit_` in two steps, with the
owner at `starting` in between. `callingPendingFunctors_` starts with either value, because the
constructor does not initialise it. `EventfdMax` stands for 2^64 − 2, above
which the write fails and is only logged. `early` is a history variable:
how many functors the owner queued before `loop()`.

**Buffer.** `buf` is the object, a vector of bytes with two indices; `moved`, a
history variable, is the block put in, shown or let go last. Operators are the private
operations (`MakeSpace`, `Compacted`, …), actions the public ones. `readFd` is
one action for every block `readv` may deliver, up to what the two iovecs hold.

**EventLoopThreadPool.** `base` is the place of the thread that starts, uses
and destroys the pool, `child` that of each other thread. The destructor's
unlocked read of `loop_`, the assignment of `quit_` and the write to the eventfd
are steps of their own, since the loop's thread can run in between.

**EpollPoller.** One loop's thread. `life`, `fd`, `events` and `index` belong to
the `Channel` objects, `channels` and `size` to the poller, `kernel` is the
epoll set and `active` is `activeChannels_` with the `revents_` of each.
`AddChannel`, `ModifyChannel` and `DeleteChannel` are the branches of
`updateChannel`; each includes the `epoll_ctl` call, which leaves the set alone
where it fails, as the code goes on after logging. The actions are the calls
that owners make: a connection enables and disables its channel and is
destroyed without removing it, in whatever state it is (`DestroyConnection`); an
`Acceptor` or a loop disables and removes it in two steps of its destructor.
Destruction closes the descriptor, the kernel drops it by itself, and
`Construct` may use it again. `ready` is the environment's: on which descriptors
something is the case that would be reported.

**TcpConnection.** One connection. `todo` is the stack of the loop's thread:
the callbacks an event still has to make, a user callback in progress (during
which user code may send, shut down or keep a pointer), the close callback after
it. `pending` and `batch` are the functors of the loop; those that hold a
`shared_ptr` (`Owning`) keep the object alive, those that bind `this` (`Raw`)
do not, and `Owned` says whether anybody does. `caller` is the other thread,
between its test of `state_` and the functor it queues. Messages come in
`MsgSize` parts; `write()` takes any number of them. The peer sends, closes and
resets at any time.

**TcpConnectionHistory.** The same steps, and two history variables that no
step reads: `waiting`, the messages in the order in which the other thread
called `send()` with them, up to the call of `sendInLoop`; `told`, which of
`highWaterMarkCallback_` and `writeCompleteCallback_` was queued last. `Queue`
is what is left of the batch followed by `pending`, `Called` the functor called
last of this batch.

**TcpServer.** `pending`, `batch` with `ran`, `active` and `todo` are, for each
loop, the queue of functors, the batch being called, the channels reported and
not handled, and the stack of its thread; with `numThreads = 0` all of it is on
the base loop and `runInLoop` is a call, not a functor. `connected` is `state_
= kConnected` and `registered` whether the channel is in the epoll set of its
loop, which `disableAll` of a channel that is not would add (`DisableAll`).
`HandleEvent` is the handling of a report whatever happened to the connection
since then, so long as somebody owns it: `~TcpServer` may have told the user that
it is down. `Owned` counts who
holds a `shared_ptr`: `connections_`, user code, a functor, a stack frame. A
connection that nobody owns is destroyed and its descriptor free, which is what
`AtLimit` counts when `accept` fails with EMFILE. `DestroyServer` is
`~TcpServer`, also in the middle of a callback; its loop over `connections_` is
the frames `"destroy"`, in any order, as the map is unordered.

## 3. Runs

| Run | Expect | Shows |
|---|---|---|
| `EventLoop` | pass | safety, refinement of `TaskQueue` and liveness of the loop; 2 functors, 2 foreign threads, 1 channel, eventfd of capacity 2 |
| `Buffer` | pass | indices, growth, refinement of `ByteQueue`; vector of 1 + 2 bytes, extra block of 2, blocks up to 3, at most 4 unread |
| `EventLoopThreadPool` | pass | start handshake, live loops, round robin; 2 threads, any loop may quit by itself |
| `EpollPoller` | pass | channel, poller and kernel agree, refinement of `Demultiplexer` and no ready channel starves; 3 channels on 2 descriptors, list of events of 1 (121,681 states) |
| `TcpConnection` | pass | `TcpConnectionHistory`: order of the data and of the sends, nothing lost while the connection is up, EPOLLOUT, back-pressure told in time, one down, refinement of `ConnectionLife` and of the coarse `TaskQueue`; output is flushed, shutdown and close take effect; 2 messages of 2 parts, high water mark 3 (247,924 states) |
| `TcpServer` | pass | one up and one down per connection (a second down only for an event reported before `~TcpServer`), destroyed only after it, refinement of `ConnectionLife`, each thread touches only what is its own, no removal outlives the server; clients are served and descriptors released; 2 clients, 0 to 2 threads, room for 1 or 2 (15,486 states) |
| `PoolQuitLost` | violation | `loop()` erases a `quit()` that came before it; `join()` hangs |
| `PoolQuitDead` | violation | `quit()` goes on with a loop that its thread has destroyed |
| `PoolTerminates` | violation | destroying a started pool ends in `std::terminate` |
| `ConnGivesUp` | violation | a forwarded send is given up while the connection is up, or not given up when it is down |
| `ConnLostTarget` | violation | a functor with a raw `this` runs on a destroyed connection |
| `ServerReportedDead` | violation | a callback that destroys the server destroys a connection whose event is reported and not yet handled |

**Why the bounds are enough.** Two functors let one be queued while the other
runs, and `Fresh` lets each be queued again without limit, so the runs are not
short. Two foreign threads are needed for one to be between its change and its
write while the other completes both; more add nothing that
`EventLoopProofs` does not cover. In `Buffer`, `MaxReadable` exceeds
the initial size, so that compaction, growth, and the spill of `readFd` with
either of them all happen; two byte values tell a kept byte from an overwritten
one. Two threads in the pool let one run, or quit, while the other starts; with
one thread the violations about destruction are shortest. For the poller, three
channels on two descriptors make each descriptor serve a second channel, of
either sort of owner after either sort, while another is open; a list of one
event is shorter than what is ready and has to grow. For a connection, two
messages are needed for an overtaking, two parts for a partial write, and a high
water mark of 3 is crossed by the second message and not by the first. Three would
be needed for one to be sent past two that wait; the proof covers them. For the
server, two clients can share a loop or be on two, be closed in either order, and
the second meets the limit of descriptors or does not.
The bounds inside modules are marked `BOUND`. The proofs (§5) have no bounds.

`CHECK_DEADLOCK FALSE` is set where the system may stop: a loop that has left
`loop()`, a process that has terminated, a connection that is gone and has
nobody left to use it, channels or clients that are all used up. A buffer never
stops, and its run checks deadlock.

## 4. Fairness, and why the code justifies it

- `EventLoop`: weak fairness of what the owner does by itself once the eventfd
  is readable, and of the write that ends a foreign `queueInLoop` or `quit`.
  Threads are scheduled and callbacks return. Nothing is assumed of the timeout
  of `epoll_wait` (10 s) or of other channels: a functor must run because of a
  wakeup.
- `EventLoopThreadPool`: each thread is scheduled; `cond_.wait` returns when it
  was notified, `epoll_wait` when the eventfd is readable.
- `EpollPoller`: weak fairness of `poll`, of handling what was reported and of
  finishing a destructor: the loop does one after the other. The kernel may
  choose which of the ready descriptors it reports; none is assumed to get its
  turn.
- `TcpConnection`: threads are scheduled; `doPendingFunctors` runs in every
  iteration of the loop however many events there are (strong fairness, since
  events and functors alternate in the code); epoll, level triggered, keeps
  reporting what can be read, and room to write as long as the peer reads.
- `TcpServer`: weak fairness of what each loop's thread has begun; strong
  fairness of `poll` when epoll has something it must report, and of
  `doPendingFunctors`, which alternate in `loop()`. Nothing is assumed of the
  clients or of user code, but that callbacks return.

## 5. What is proved

All proofs hold for every value of the constants under the modules' named
assumptions, which only give the constants their types (and, for `EventLoop` and
`EpollPoller`, that placeholders are none of the elements, the eventfd holds at
least 1, the two sorts of channels are disjoint and there are finitely many
descriptors). Every invariant and every action property of the passing runs, and
every refinement, is a theorem. Three more, the types of a loop (`TypeOK` of
`EventLoop`) and of a connection with its memory (`HTypeOK`), and the bound of a
poller's list (`BoundedList`), are proved and have no run of their own.

- **EventLoop** (`EventLoopProofs`). `NoLostWakeup` and `QuitWakesOwner` are not
  inductive: whether the owner may block is decided at `while`, long before
  `poll`. The strengthening `HandshakeInv` says what is owed at every place of
  `loop()` from which the owner gets to `poll` without emptying the vector, and
  that `callingPendingFunctors_` is true wherever a functor queued by the owner
  would otherwise be forgotten. `LoopImplementsTaskQueue` maps `queue` to
  `functors \o pendingFunctors`; it needs that a batch is open only where
  `functors` may be non-empty (`BatchInv`), so that the swap appends nothing.
- **Buffer** (`BufferProofs`). Lemmas say of each operator which bytes are
  unread after it (`WrittenAddsBlock`, `CompactedKeeps`, `ResizedKeeps`,
  `RetrievedDrops`), that `EnsureWriteableBytes` makes room and how large the
  vector gets; one lemma about a step gives types, growth and the step of
  `ByteQueue` together.
- **EventLoopThreadPool** (`EventLoopThreadPoolProofs`). `CountInv` ties the
  place of `start()` to the number of loops in `loops_`; `NoLostNotification` is
  inductive with it, because `startLoop` looks at `loop_` under the mutex right
  before it sleeps. `ThreadInv` ties every thread's place to `loop_`, `quit_` and
  the progress of `start()`, and implies `LoopsAreAlive`. `TurnInv` counts the
  turns from `next_` and implies `RoundRobin`.
- **EpollPoller** (`EpollPollerProofs`). `PollerInv` adds to `KernelAgrees` and
  `MapAgrees`: that a descriptor belongs to one channel that exists (`OwnFd`),
  without which an `epoll_ctl` could hit another channel's entry; that nothing is
  left of a channel before it is constructed (`Fresh`); and that a channel is
  kAdded exactly when it wants events, but for the moment between `disableAll`
  and `remove` in a destructor (`AddedIffWanting`), without which `disableAll`
  could add a channel instead of deleting it. `PollerImplements` follows step by
  step: what is in the kernel are the channels with a non-empty interest.
  `ListStaysShort` adds that a poll reports each descriptor once
  (`OneEntryPerFd`), so that a list that was full and is doubled was no longer
  than there are descriptors.
- **TcpConnection** (`TcpConnectionProofs`). `ConnInv` adds to `InOrder`,
  `WritingIffBuffered` and `DownOnce`: what holds before `connectEstablished` ran,
  when nobody can reach the connection (`BeforeUp`); that no second
  "established" follows (`AfterUp`); that `handleClose` is on the stack once at
  most, at its head, and the server hears of it only after the user
  (`Stack`); and that once down the connection never counts as connected, nor has
  events unless a late send brought the channel back (`Told`). `DownOnce` and
  the refinement of `ConnectionLife` rest on the last two. The exception in
  `DownOnce` is the finding of `ConnGivesUp`.
- **TcpConnectionHistory** (`TcpConnectionHistoryProofs`). `StepShapes` sorts
  every step into five, as far as messages are concerned: the loop calls a
  functor (`Call`), its thread sends a message (`Direct`), the other thread calls
  `send()` (`Begin`) and queues the functor (`Forward`), or none of these
  (`Bystander`). The rest argues about the shapes.
  `SentInOrder` is not inductive: the order of two messages is decided long
  before either is at the head of the queue. `OrderInv` adds `Turn`, that the
  messages that wait are those in `Queue` and in the call of the other thread,
  that whatever is in front of one there was sent before it, and that none of
  them reached the stream or is anywhere twice, and `Fresh`, that one that was
  not sent is nowhere. From it follows that the head of `Queue` is the head of
  `waiting` (`HeadWaitsLongest`).
  `NothingLostWhileUp` needs `Open`: while the connection is
  up its write half is open, so that `sendInLoop` gives up only what the peer's
  reset makes it give up. `BackpressureTold` is inductive with the invariant of
  the connection, since the functors are queued in the step that fills or
  empties the buffer. `ConnectionUsesTaskQueue` maps the queue to `Queue`: the
  swap changes nothing in it, and a call takes its head and puts what it queues
  at the end, which is why the coarse `TaskQueue` is the one to implement;
  the end of a batch forgets the functor called last. What is proved of `Spec` in
  `TcpConnectionProofs` holds with the memory too, which only adds conjuncts to
  every step (`HistoryHidden`).
- **TcpServer** (`TcpServerProofs`). `ServerInv` adds: a connection is entered
  under its own number (`Names`); "established" is queued once, on the
  connection's own loop, for one that never was up (`Queues`); what was reported is
  the loop's own, was up and, while there is a server, is in its epoll set
  (`Reported`); who is on the way to remove a connection comes from `handleClose`
  (`Removing`), and who calls `connectDestroyed` on the spot from `~TcpServer`
  (`Leaving`); a connection that
  is not down is in `connections_` while there is a server (`Known`); and
  `~TcpServer` still has to visit every connection that counts as connected
  (`Gone`). The refinement of `ConnectionLife` follows. `ToldOnce` needs `Twice` as
  well: while there is a server `Reported` gives `handleClose` a channel that is on
  and so a user who was not told; when it says down for the second time, the frame
  of the close callback is on the base loop's stack and stays there, because what
  it calls is a destroyed server, so that there is no third.
  `DestroyedAfterDown` is `Known` with `Told` (a connection that is not down is in
  `connections_`, one that is down has its channel off) and, once the server is
  gone, `Gone`: its destructor's frame owns the connection until it is told.
  `EachThreadItsOwn` and `NoRemovalOutlivesServer` rest on a second invariant,
  `Dealt`: whatever is queued on a loop, called, on its stack or reported to it
  has its `Place` there. `connections_` is the base loop's business, the rest that
  of the loop the connection was dealt, and a removal is a functor only where
  there are other loops. Every step is a `MoveOf` one thread, which changes only
  what is that thread's own and puts into the queues of others only what has its
  place there, and so keeps `Dealt`.
  `ServerServesEach` is about `ConnectionLife` alone: a step in the life of one
  connection is a stutter in that of another.

Only model-checked: all liveness (the prover has no rules for fairness and
`ENABLED`) and the violations.

## 6. What the checks found

Six disagreements between what the code says and does are runs of their own
(§3) with a finding each in `PROJECT.json`. The most consequential: `~Thread`
has its condition inverted, so that no started pool can be destroyed;
`loop()` resets `quit_`; `sendInLoop` tests for `kDisconnecting` where its
message (and the protocol of `shutdown`) means `kDisconnected`; `send` and
`shutdown` forward a raw `this`; `handleEvent` asks `tie_` whether the
connection is there, but `tie_` is a member of the `Channel` that goes with the
connection, so that it cannot tell.

Observations that are not checked. `send` forwards `buf.data()`, a pointer into
the caller's string. `Channel::handleEventWithGuard` calls the error callback
after every event, not only for EPOLLERR: `HandleError` is modelled that way,
and the properties hold in spite of it. A functor that the owner queues before
`loop()` is announced only if the uninitialised `callingPendingFunctors_`
happens to be true; else it waits for the first event (`early` in `EventLoop`).
`~TcpServer` says nothing to the user of a connection that was shut down on this
side only, and leaves its channel in epoll until the socket is closed
(`DestroyedAfterDown` states the exception).
`handleClose` does not ask what the user was told: if a callback destroys the
server while the end of another connection is reported and not yet handled, and
the user keeps a `TcpConnectionPtr` of that one, he hears that it is down from
`connectDestroyed` and again from `handleClose`, whose `disableAll` puts the channel
back into epoll; then `handleClose` calls `removeConnection` of the destroyed server
(`ToldOnce` states the exception, `SaidAgain`). Who waits for `looping_` before
calling `quit()` is not safe either: a `quit()` between the stores to `looping_` and
`quit_` (EventLoop.cc:58 and 59) is erased like any before it, and so
`QuitEventuallyStops` speaks of those that come after both.

## 7. What is not modelled, and why

- Contents of messages, names, addresses, timestamps, logging: no property
  depends on them.
- The length of the input of a connection: `messageCallback_` is user code, and
  the buffer is a module of its own. `retriveAsString` with more than there is
  to read is a precondition no caller in the repository breaks.
- `Socket`, `InetAddress`, `Timestamp`, `Logger`, `CurrentThread`: stateless
  wrappers or formatting. A failed `bind`, `listen` or `epoll_create1` is only
  logged and nothing depends on it afterwards.
- A use of a destroyed object has no next state here: the run that reaches it
  reports it, and the other runs stop there. In `TcpServer` that is an event for
  a connection that nobody owns any more when its turn comes, and the close
  callback of a connection whose server is gone (`RemovalsFindServer`: the latter
  only on the stack of the base loop, after `~TcpServer` ran in a callback, not in
  a functor). What comes before it, the second down, is modelled.
- `~TcpServer` with threads in its pool: it ends in `std::terminate`, which
  `PoolTerminates` shows. With none, it is modelled in full.
- `EpollPoller` does not destroy a connection between its report and the
  handling (`TcpServer` shows what can), and calls `disableAll` only on a channel
  that is on, but for the destructors. `handleClose` does not test that; the one
  case in which it finds a channel that is off is after `~TcpServer`, and is in
  `TcpServer`.
- `setThreadNum` and the limit of descriptors are chosen once, in `Init`;
  `start()` is called by the base loop's thread. Setters of callbacks are called
  before there is a connection.
- `setThreadNum` after `start`, a second `EventLoop` in one thread, and two
  threads starting one server: not done by any code in the repository.
