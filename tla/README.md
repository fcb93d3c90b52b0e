# Verification of the moduo network library

TLA+ models of the C++ reactor library in `src/`, TLC configurations that check
them on small instances, and theorems about them that TLAPS proves for every
value of the constants.

## The system

The library is a multi-reactor TCP server in the manner of muduo: one thread,
one `EventLoop`. A base loop accepts connections; a pool of further loops is
meant to serve them.

| Component | State | Operations | Model |
|---|---|---|---|
| `EventLoop` | `looping_`, `quit_`, `callingPendingFuntors_`, the mutex-protected `pendingFunctors_`, an eventfd, `activeChannels_` | `loop`, `quit`, `runInLoop`, `queueInLoop`, `wakeup`, `handleRead`, `doPendingFunctors` | `EventLoop`, refining `TaskQueue` |
| `EventLoopThread`, `Thread` | `loop_`, `mutex_`, `cond_`, a semaphore, the `std::thread` | `startLoop`, `threadFunc`, destructor; `start`, `join` | `EventLoopThread` |
| `EventLoopThreadLoop` (the pool) | `threads_`, `loops_`, `next_`, `numThreads_` | `setThreadNum`, `start`, `getNextLoop`, destructor | `EventLoopThreadLoop` |
| `TcpServer` | `connections_`, `nextConnId_`, `started_` | `start`, `newConnection`, `removeConnection`, `removeConnectionInLoop`, destructor | `TcpServer`, refining `ConnectionLife` |
| `Acceptor` | listening channel, `listenning_` | `listen`, `handleRead`, destructor | inside `TcpServer`; its channel in `EPOLLPoller` |
| `TcpConnection` | `state_`, `inputBuffer_`, `outputBuffer_`, `highWaterMark_`, callbacks | `connectEstablished`, `handleRead/Write/Close/Error`, `send`, `sendInLoop`, `shutdown`, `shutdownInLoop`, `connectDestroyed` | life in `TcpServer`, output in `TcpConnection` |
| `Channel` | `events_`, `revents_`, `index_`, `tie_` | `handleEvent`, `enable...`, `disble...`, `remove` | `EPOLLPoller`; `revents_` in `TcpConnection`, `tie_` in `TcpServer` |
| `Poller`, `EPOLLPoller` | `channels_`, `events_`, the epoll set | `poll`, `updateChannel`, `removeChannel` | `EPOLLPoller`; as sets inside `TcpServer` and `TcpConnection` |
| `Buffer` | `buffer_`, `readerIndex_`, `writerIndex_` | `append`, `readFd`, `writeFd`, `retrieve`, `retrieveAsString`, ... | `Buffer`, refining `ByteQueue` |
| `Logger` | the singleton's level | `setLogLevel`, `log` | not modelled |
| `Socket`, `InetAddress`, `Timestamp`, `CurrentThread`, `copyable`, `noncopyable` | values | wrappers, conversions | not modelled |

How they interact: threads meet in an `EventLoop`'s queue (`queueInLoop` under a
mutex, then a write to the eventfd that makes `epoll_wait` return) and in the
atomics `quit_`, `callingPendingFuntors_` and `state_`. `epoll_wait` reports
`Channel`s by raw pointer; a channel calls back into its `TcpConnection`, that
into the user and into `TcpServer`. A connection lives as long as a `shared_ptr`
to it does: in `connections_`, in a queued functor, or on the stack of a thread
that handles it.

What is hard, and what makes each part correct:

- *EventLoop*: no functor and no `quit()` may find the loop asleep without a
  wakeup on the way; functors run once and in order although the queue is
  swapped out and run while others append.
- *EventLoopThread and the pool*: the new thread publishes a pointer to its own
  stack; the owner must get it neither too early nor never, the thread must be
  over before the object is, and both must come to an end.
- *TcpServer*: a close, a queued `connectEstablished`, a queued
  `connectDestroyed` and the server's destruction come in any order; callbacks
  in order, the end announced once, no pointer to a dead channel in the poller,
  no connection left over.
- *EPOLLPoller*: a channel's interest, its `index_`, the map `channels_` and the
  kernel's epoll set are four records of one thing, and descriptors are closed
  and used again: a step out of line is a fatal `epoll_ctl` or an event for the
  wrong channel. `epoll_wait` reports no more than `events_` has room for.
- *TcpConnection*: direct and buffered writes, partial writes, EAGAIN, errors
  and shutdown in all mixtures: bytes in order, EPOLLOUT interest exactly while
  something is buffered, FIN behind the data.
- *Buffer*: index arithmetic while bytes are moved and the vector grows.

`PROJECT.json` lists these hazards line by line, each with the properties that
would catch it going wrong.

## Modules

**`TaskQueue`** is what an `EventLoop` promises: functors handed to
`queueInLoop` start in order, once; `runInLoop` on the loop's thread starts its
functor on the spot.

**`EventLoop`** is one loop. `pc` is the place of its thread: `init`, then turns
of `while` (the test of `quit_`), `poll`, `dispatch` (over `activeChannels_`),
`pending` (over the local `functors`), with `user` inside any callback or
functor. A foreign thread's locked append (or its store to `quit_`) and its
write to the eventfd are two steps (`fpc`). User code on the loop's own thread
may queue, run and quit before `loop()`, in callbacks and in functors. The
history variables `fresh`, `ran` and `early` say which functors were handed over,
started, and queued by the loop's own thread before `loop()`.

**`EventLoopThread`** has one owner and any number of numbered objects, the owner
working on one (`cur`) at a time. The owner's steps are those of
`Thread::start`, `startLoop` (lock, test, wait, asleep, spurious wakeups) and the
destructor; the thread's are those of `threadFunc` up to the destruction of the
`EventLoop` on its stack. Of that `EventLoop` only `quit_` and its lifetime are
kept; `QuitStops` of `EventLoop` is what justifies that a loop with `quit_` set
returns. **`EventLoopThreadLoop`** EXTENDS it with the pool: `start` starts the
threads one by one, `getNextLoop` deals, the destructor destroys in order.

**`ConnectionLife`** is what a `TcpServer` on one loop promises of a connection: the
callback for its beginning, messages, the callback for its end, and the release of
the object behind that. A connection that is half closed when its server is
destroyed goes without the last callback.

**`TcpServer`** composes the loops with the life of connections. Each loop has a
queue, a batch and a place (`pc`, `conn`, `ret`). `newConnection` gives every
`TcpConnection` the server's `loop_`, so its channel belongs to the base loop,
and only `connectEstablished` runs on the loop `getNextLoop` chose: this is what
the code does, and the model follows it. An accept may fail any number of times.
A connection is `Alive` while some `shared_ptr` to it exists; a functor bound to a
raw `this` (`shutdownInLoop`) does not keep it alive. The user's callbacks return or
call `shutdown()`, whose test and store are separate steps. `calls` records the
callbacks made. `start()` returns when the sub loops are published; each has still to
enter `loop()`, which forgets a `quit()` that came before (`EnterLoop`). At the end
the base loop's thread goes through `~TcpServer`: `connectDestroyed` for each
connection in the map, then the members, the pool first (each sub loop is told to
quit when the ones before it are joined, `QuitSub`, and stops, `SubStops`), the
acceptor and the base loop behind it (`DestroyBaseLoop`).

**`TcpConnection`** is the output side of one connection: `SendInLoop` (direct
write, what is kept, high-water mark, completion), `HandleWrite`, `shutdown` and
the close, called on the loop's thread and from other threads. A byte is the
number of its place among those `sendInLoop` was given, so order and loss show.
The kernel takes any number of bytes it has room for, and none only if it has
none; the peer reads, sends, closes or resets. What epoll knows of the channel
follows from every change of its interest as `updateChannel` does it (`Update`: a
change to no interest takes the channel out, any other puts it in), so that a handler
that goes on behind a close can bring it back; `completed` records how much had been
given when the last write-complete callback was queued.

**`EPOLLPoller`** is the poller of one loop with its channels: `poller` is a record
of every channel's `events_` and `index_`, of `channels_`, of what epoll watches
and of whether an `epoll_ctl` has failed, and `UpdateChannel`, `RemoveChannel` and
the `enable...` and `disble...` functions are operators on it. The actions are those
that call them: `listen`, accept, `connectEstablished`, `sendInLoop` and
`handleWrite` (EPOLLOUT on and off), `handleClose`, `connectDestroyed`, the release
of a connection, and the destructors of server, acceptor and loop. `stage` tells
how far a channel has come; the descriptor of an object that is released is free
for the next accept. `poll` reports a set of ready descriptors, as many as fit
into `events_`. An error of `epoll_ctl` is recorded instead of acted on (the code
logs it for DEL and exits for ADD and MOD), so that one property can exclude all
of them. A connection that is closed is closed once and for all here: the late
`send` of `ConnectionTwoUsers` is not among the actions, nor is a
`connectEstablished` that a sub loop runs behind `~TcpServer`.

**`ByteQueue`** is what a `Buffer` promises (bytes come out as they went in), and
**`Buffer`** the vector with its two indices, function by function, down to the
bytes. The variable `moved` of both shows the bytes a step put in or handed out,
so that a step that loses part of what it was given is no step of the queue.
`retrieveAsString` does not compare its length with `readableBytes()` in the code;
the model calls it with lengths up to that only, as its one caller,
`retrieveAllAsString`, does.

**`EventLoopProofs`**, **`EventLoopThreadLoopProofs`**, **`TcpServerProofs`**,
**`TcpConnectionProofs`**, **`EPOLLPollerProofs`** and **`BufferProofs`** hold the
theorems of their modules, and **`TcpServerLifeProofs`** those about a server on one
loop.

The `map` of `PROJECT.json` gives the source lines of every definition. Each
module also holds a few "slips": what a definition would be with a plausible
mistake in the code. Put in its place, each makes the property it is paired with
fail, which shows that the property depends on that code.

## Runs

| Run | Checks | Bounds |
|---|---|---|
| `EventLoopWakeups` | `NoLostWakeup`, `IInv`, `RunsInQueueOrder`, `QueuedTaskRuns`, `EveryTaskRuns`, `QuitStops` | 3 functors, 2 foreign threads |
| `PoolOfLoops` | `TypeOK`, `LoopsAreLive`, `ThreadEndsBeforeItsObject`, `Balanced`, `StartReturnsUnlessSelfQuit`, `DestroyReturnsOnceLooping` | 0 to 2 threads, 3 calls of `getNextLoop` |
| `PoolOrphan` (violation) | `NullLoopMeansNoThread` | 2 threads |
| `PoolPromptDestroy` (violation) | `DestroyReturns` | 2 threads |
| `ServerOneLoop` | `TypeOK`, `LivesAsPromised`, `DisconnectedIsFinal`, `BacklogIsTried` | no sub loop, 3 clients, 1 message between them, stop at any time |
| `ServerSubLoops` | `PollerHoldsLiveChannels`, `RemovedForGood`, `ClosedAtMostOnce`, `LivesUntilDestroyed`, `ClosedIsReleased`, `ServerEndsOnceLooping` | 1 sub loop, 2 clients, 1 message between them, stop at any time |
| `PollerChannels` | `IInv`, `CtlNeverFails`, `IndexAgrees`, `WatchedAsAsked`, `SizeIsBounded`, `EveryReadyIsReported` | 3 connections, 4 descriptors, room for 1 event at first |
| `ServerFirstCallback` (violation) | `FirstCallbackIsUp` | 1 sub loop, 1 client |
| `ServerStopShutdown` (violation) | `EveryUpHasADown` | no sub loop, 1 client |
| `ConnectionOutput` | `TypeOK`, `BytesInOrder`, `OutputIsWatched`, `FinAfterData`, `HighWaterOnce`, `DrainIsAnnounced`, `RemovedForGood`, `ShutdownEndsStream`, `OutputDrains` | 3 sends of up to 2 bytes, send buffer of 1, mark at 2, 1 other thread |
| `ConnectionTwoUsers` (violation) | `RemovedForGood` | 2 other threads, 2 sends of up to 1 byte |
| `BufferQueue` | `TypeOK`, `SizeIsBounded`, `IsByteQueue` | 2 byte values, chunks up to 3, 4 unread, prepend area 1, initial size 2, extrabuf 2 |

*Why the bounds are enough.* Three functors are one in the batch, one in the
queue and one being queued; two foreign threads are one between its append and
its write while the other goes through both. Two threads of a pool are one that
runs while the next is started or destroyed, and three handouts bring the index
round. Two connections are one being accepted while the other is closed in the
same turn of the base loop; one sub loop is all it takes for two threads to work
on one connection, since any further one works on other connections only. A third
client of `ServerOneLoop` waits in the backlog while an accept fails and a turn
closes another. Four descriptors are the wakeup's, the listening socket and two
for three connections, so that a descriptor is used again while another
connection still has its own; with room for one event at first, `events_` doubles
while channels wait. A send
buffer of one byte makes writes partial and full; three sends of up to two bytes
pass the mark, fall below it and pass it again; one message gives the user a
callback to act in. The Buffer's sizes make every branch of `makeSpace` and
`readFd` possible (moving, growing, extrabuf used or not, retrieving more than is
there). `TaskQueue`, `ByteQueue` and `ConnectionLife` are checked as PROPERTY under
a refinement mapping: `functors \o pendingFunctors_` is the queue of functors, the
bytes between the indices are the contents, and `LifeOf` reads how far a connection
has come from `state_`, from the callbacks made and from who still owns it. With
sub loops `LivesAsPromised` does not hold, which is the finding of
`ServerFirstCallback`.

What is not bounded in `PollerChannels` are events, sends and turns: they may go on
for ever, and `SizeIsBounded` is what keeps the state space finite.

Deadlock is checked for `EventLoop` (in `stopped` the foreign threads may still
call) and for `Buffer`. Elsewhere the system may really stop: a destroyed pool, a
server without clients or stopped, a server whose destructor waits for a sub loop that
has forgotten its `quit()`, a closed connection, a loop destroyed.

## Fairness

- `EventLoop`: the loop's thread keeps running and user code returns
  (`WF` of `LoopProgress`); a thread that has queued gets to its write. A poll is
  only counted on when the eventfd is readable, so `QueuedTaskRuns` and
  `QuitStops` owe nothing to other events or to the 10 s timeout of
  `EventLoop::loop`. `EveryTaskRuns` assumes in its own statement that the
  timeout expires.
- Pool: the owner and the threads run; a thread that finds `mutex_` free again
  and again gets it (strong fairness of the lock only), because the owner's
  spurious wakeups could otherwise starve it. Nothing is assumed of when the
  user calls `start`, `getNextLoop` or the destructor.
- Server: loops run and callbacks return. What clients do is up to them, and so is
  whether accept succeeds: `BacklogIsTried` says that it is tried again, not that
  it succeeds. The two threads of a connection are scheduled by the operating
  system, each fairly. That alone does not end a server: a sub loop that has not yet
  entered `loop()` when the destructor tells it to quit forgets this, and the join
  never returns, which is `PoolPromptDestroy` from the server's side. So
  `ServerEndsOnceLooping` assumes in its own statement that every thread that was
  started has entered `loop()` when the base loop leaves its own.
- Poller: the loop's thread keeps going through poll and handlers. Which of the
  ready descriptors `epoll_wait` chooses when they do not all fit is left open, and
  `EveryReadyIsReported` holds because `events_` grows until they do.
- Connection: the loop runs, a call under way is finished, and the peer goes on
  reading; nobody has to call or send anything.

## Findings

Each is a run that ends in a violation; the traces are short. The comments
quoted in `PROJECT.json` say what the repository expects.

- `PoolOrphan`: `~EventLoopThread` takes a null `loop_` to mean that the
  `EventLoop` is gone, but `threadFunc` stores null while its loop, its lock and
  its thread exist. A loop that quits itself is then neither joined nor waited
  for. For the same reason `startLoop` sleeps for ever if a loop returns before
  the owner has looked at `loop_`; `StartReturnsUnlessSelfQuit` excepts this.
- `PoolPromptDestroy`: `loop()` resets `quit_` on entry. A `quit()` between
  `startLoop` and `loop()` is forgotten, and the destructor's `join` never
  returns. `~TcpServer` hangs likewise when the base loop quits that early.
  `DestroyReturnsOnceLooping` and `ServerEndsOnceLooping` are what does hold.
- `ServerFirstCallback`: connections get the base loop although the header says
  they never do, so two threads work on one connection and the user may hear of
  a message or of the end before the connection is reported as established.
- `ServerStopShutdown`: `connectDestroyed` announces the end only in state
  `kConnected`; a half-closed connection ends unannounced with its server.
- `ConnectionTwoUsers`: `shutdown()` tests and stores `state_` in two steps, so a
  late store hides `kDisconnected`; a queued `sendInLoop` then registers the
  removed channel again.

Four relatives of these are in the models and restrict the runs above rather
than having runs of their own. With sub loops, `DisconnectedIsFinal` fails by the
same late store of `shutdown()`, which is why it is checked on one loop. When the
server is destroyed while a `connectEstablished` is still queued on a sub loop, that
functor registers the channel behind its own `connectDestroyed`; the base loop no
longer polls then, so `RemovedForGood` and `PollerHoldsLiveChannels` are stated for
as long as it does, and `LivesUntilDestroyed` and `ServerEndsOnceLooping` (its "no
connection left over") hold all the way. A `shutdown()` under way on a sub loop's
thread can queue `shutdownInLoop`, bound to a raw `this`, behind the
`connectDestroyed` of a close, so that it runs on an object that may have been
released; the model makes these steps and no property forbids them. And `quit()` goes on
reading the loop after the store that lets its thread destroy it (`DtorQuit`, then
`DtorWakeup`).

## Proofs

`EventLoopProofs`, for any set of functors and any set of foreign threads:

- `Invariance`: `Spec => []IInv`. `NoLostWakeup` alone is not inductive: a loop
  not yet asleep may hold a functor whose wakeup it would miss. `IInv` adds what
  prevents this: `callingPendingFuntors_` says truly whether a batch is being
  run (`FlagTellsBatch`), and whenever the next thing the loop does with the queue
  is to sleep on it, queued functors have a wakeup on the way (`PendingCovered`),
  as has a `quit()` (`QuitCovered`).
- `NoWakeupIsLost`: `Spec => []NoLostWakeup`, from `IInv`.
- `RefinesTaskQueue`: `Spec => RunsInQueueOrder`, step by step; the swap of the
  queue is a stutter because the batch is empty then, which is
  `FlagTellsBatch`.

`BufferProofs`, for any bytes and any sizes of the prepend area, the initial
vector, extrabuf, chunks and unread bytes (`BufferAssumption`: natural numbers,
and the byte `resize` fills with is a byte):

- `IndicesInOrder`: `Spec => []TypeOK`; the indices are in order and inside the
  vector.
- `SizeStaysBounded`: `Spec => []SizeIsBounded`. The inductive invariant adds to
  the order of the indices that no more than `MaxReadable` bytes are unread: the
  vector only grows when what is free before and behind them does not do.
- `RefinesByteQueue`: `Spec => IsByteQueue`, from lemmas that say what
  `Overwrite`, `MakeSpace`, `AppendTo`, `Retrieve` and `Receive` do to the bytes
  between the indices.

`EPOLLPollerProofs`, for any finite set of connections, any number of descriptors
and any initial size of `events_` (`PollerAssumption`):

- `Invariance`: `Spec => []IInv`. The invariant says what the stage of a channel
  tells of it (`StageTells`: a channel that is up is `kAdded`, in the map and
  watched for what it asks for; one that is closed is `kDeleted`, still in the map
  and not watched; ...), that no two channels share a descriptor (`FdsDiffer`), that
  nothing is kept of a descriptor that is closed (`FreeFds`), and that a channel in
  `activeChannels_` is up (`ActiveAreUp`): without this last part a handler could
  disable a channel twice. The argument goes through one lemma for each operation
  on a poller (`SetEventsOfNew`, `DisbleALLOfAdded`, `NothingIsLeft`, ...), which says
  exactly which parts it changes, and two on steps (`OneChannel`, `Closing`): a step
  that changes one channel and what its descriptor has leaves the others alone.
- `CtlIsSafe`, `Bookkeeping`, `Watching`: `CtlNeverFails`, `IndexAgrees` and
  `WatchedAsAsked`, from `IInv`.
- `SizeBound`: `Spec => []SizeIsBounded`; what a poll reports is an injection of
  descriptors into channels.

`EventLoopThreadLoopProofs`, for a pool of any size (`ThreadsAssumption`,
`PoolAssumption`):

- `Invariance`: `Spec => []IInv`. `LoopsAreLive` speaks of the loops that have been
  returned only, so the invariant follows each object through `startLoop`: which
  threads have been started, what `loop_` is and who holds `mutex_` in every place of
  owner and thread (`ThreadInv`), and that `startLoop` has returned once for each
  object before `cur`, with the loop of its own thread (`PoolInv`). `QuitInv` says who
  may have set `quit_`: the loop itself, or the destructor that has got that far; a
  destructor that finds a null `loop_` has met a loop that quit itself, which is the
  exception `ThreadEndsBeforeItsObject` makes. `HandedInv` counts the handouts of the
  present round apart from those of the full ones.
- `TypeCorrect`, `LoopsLive`, `ThreadsEndFirst`, `DealtEvenly`: `TypeOK`,
  `LoopsAreLive`, `ThreadEndsBeforeItsObject` and `Balanced`, from `IInv`.

`TcpConnectionProofs`, for any set of other threads, any send buffer, high-water
mark and lengths of sends (`ConnectionAssumption`):

- `Invariance`: `Spec => []IInv`. Besides the types, `IInv` is the conjunction of
  the five properties of the output side (`OutputInv`), which need each other: that a
  direct write may go first rests on the interest and the buffer agreeing, that a FIN
  follows the data on the same, that the drain is announced on both. To them come that
  EPOLLOUT is watched for a non-empty buffer only, also after the close, that bytes are
  dropped only when the connection is broken, and that nothing of `handleClose` is
  queued before it runs (`CloseFirst`). The lemmas
  `SendEffect` and `WriteEffect` say once what `sendInLoop` and `handleWrite` do to the
  bytes, the interest, the mark and the announcement; the actions cite them.
- `TypeCorrect`, `BytesOrdered`, `OutputWatched`, `FinBehindOutput`,
  `HighWaterToldOnce`, `DrainAnnounced`: the invariants of the run
  `ConnectionOutput`, from `IInv`.
- `ClosedOnce`: `Spec => []RemovedForGood` when there is at most one thread besides
  the loop's (`AtMostOneUser`): one close, and a channel that neither the rest of the
  close's event nor anything behind `connectDestroyed` puts back into epoll. The run `ConnectionTwoUsers` shows that the
  hypothesis is needed: one thread's late store of `kDisconnecting` lets the
  `sendInLoop` of the other register the channel again. With one thread the two cannot
  meet, and that is the invariant (`ClosingInv`): up to the close the channel is in
  epoll and reading; in the close's own event EPOLLOUT interest is off, so that
  `handleWrite` does nothing; `connectDestroyed` is in the queue of the very turn that
  closes, and as long as a store of `kDisconnecting` is to come or
  has come behind the close, no `sendInLoop` is queued behind `connectDestroyed` and
  no thread is about to queue one.

`TcpServerProofs`, for any number of sub loops, connections and messages, stopped or
not (`ServerAssumption`):

- `Invariance`: `Spec => []IInv`. The properties speak of the poller and of owners,
  and what keeps them true are the functors in the queues of several loops. So the
  invariant says where every thread can be and which connection it holds, and that a
  sub loop is told to quit only behind the base loop's end (`HoldInv`);
  that a sub loop's queue holds only `connectEstablished` and the base loop's only
  `shutdownInLoop` and `connectDestroyed`, the last never beyond the end of a turn
  (`QueueInv`: that is why `~EventLoop` drops none); that an accepted connection is in
  the map, has a `connectDestroyed` queued, or is destroyed (`LifeInv`); that the user
  has not been told of the end before `handleClose` tells it (`CallsInv`); and, while
  the base loop runs, that one being established is in the map and not yet in the
  poller and one being closed is still in both (`PollerInv`), and that the
  `connectEstablished` of a connection is one loop's and queued once (`OnceInv`). The
  last two end with the base loop, since `~TcpServer` destroys connections whose
  `connectEstablished` a sub loop may still have to run.
- `TypeCorrect`, `PollerSafe`, `DestroyedLast`, `OwnedToTheEnd`, `ClosedOnce`:
  `TypeOK`, `PollerHoldsLiveChannels`, `RemovedForGood`, `LivesUntilDestroyed` and
  `ClosedAtMostOnce`, from `IInv`.

`TcpServerLifeProofs`, for any number of connections and messages and `NumSubs = 0`:

- `OneLoopLife`: `Spec => LivesAsPromised`, the refinement of `ConnectionLife`. The
  invariant of one loop (`OneLoopInv`) says what the user has been told in each state
  of a connection (`CallsOfState`) and where the thread and the owners are then
  (`PlaceOfState`). Each action is one action of `ConnectionLife` or a stutter: accepting
  a connection, the three callbacks and the two stores of `handleClose` and `shutdown`
  are its namesakes, a turn of the loop in `~TcpServer` is `Destroy`, and the end of a
  batch, where the last `shared_ptr` goes, is `Release`. `setState(kConnected)` and the
  erasing from the map are stutters.
- `DisconnectedForGood`: `Spec => DisconnectedIsFinal`, an action property: on one
  loop the test and the store of `shutdown()` have no `handleClose` between them.
- `FirstIsUp`: `Spec => []FirstCallbackIsUp`, from the refinement: only `Establish`
  calls a user who has not been called before.

`NumSubs = 0` is what the source makes of a server whose `setThreadNum` is not called
or given 0. It cannot be dropped: with sub loops all three properties fail, as `Findings`
says.

So every safety invariant, action property and refinement that a passing run
checks is proved. With TLC alone stay the liveness properties (`QueuedTaskRuns`,
`EveryTaskRuns`, `QuitStops`, `StartReturnsUnlessSelfQuit`,
`DestroyReturnsOnceLooping`, `BacklogIsTried`, `ClosedIsReleased`,
`ServerEndsOnceLooping`, `EveryReadyIsReported`, `ShutdownEndsStream`, `OutputDrains`): they rest on fairness
and so on ENABLED, which the provers do not handle. The properties of the violation
runs are false, and TLC's traces are what shows it (`RemovedForGood` and
`FirstCallbackIsUp` hold under the hypotheses named above).

## What is left out

- `Socket`, `InetAddress`, `Timestamp`, `CurrentThread` and the example hold no
  control state of the kind modelled here; what system calls do appears as actions
  of the peer and the kernel. `Logger` keeps a level that is used for the text of a
  message only: its race between threads cannot reach any other component.
- The unsynchronised accesses to the base poller's `channels_` from a sub loop are
  single steps in `TcpServer` and `EPOLLPoller`; what a torn insertion does is not
  enumerated.
- `poll` with the `MUDUO_USE_POLL` variable set (`newDefaultPoller` then returns
  null), and `hasChannel` and `disableReading`, which change nothing or are called
  nowhere.
- Functors bound to a raw `this` are run on live connections in `TcpConnection`
  (its users hold a `shared_ptr`; `Findings` says where the code does not grant it), and the process is taken to ignore SIGPIPE.
- Sizes near 2^64 in `Buffer`; its constructor ignores its argument and always
  takes `kInitialSize`, which is what the model starts from.
- Names, ids of threads, addresses and log lines.

## Plan

Done: the event loop, the pool, the server, the connection's output, the buffer
and the poller are modelled and checked, and what the passing runs check of them,
liveness apart, is proved. Next: the composition of the server's queues with
`TaskQueue`, each loop's queue and batch refining one.
