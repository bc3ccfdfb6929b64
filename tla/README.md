# TLA+ models of the muduo network library

The repository rebuilds muduo, an event driven network library for C++, one
chapter at a time: two echo servers on bare system calls (`01`, `02`), threads and
their primitives (`03`-`15`), one event loop per thread (`16`-`24`), a TCP server
and client on top (`22`-`28`), and an HTTP server (`29`).  This directory models
the chapters that carry the library's own logic, model-checks them with TLC, and
proves theorems about all of them with TLAPS.  Later chapters repeat the files of
earlier ones; a model is made from the last version that differs, and the table
names it.

`PROJECT.json` lists, for tools, what this file says in prose: the components,
the runs, which definition models which lines, the hazards, the theorems.

## 1. The system

```
   user code ---- send, shutdown, runInLoop, quit, ... ----+
      ^                                                     |
      | callbacks                                           v
 +----------+  newConnection  +-------------+  queueInLoop  +-----------+
 | Acceptor |---------------->|  TcpServer  |-------------->| EventLoop |--> poll
 +----------+                 +-------------+               +-----------+    ^
                                    | owns a map of               ^ functors | events
                                    v                             |          |
 +-----------+ newConnection  +---------------+  handleRead  +---------+     |
 | Connector |-(TcpClient)--->| TcpConnection |<-------------| Channel |-----+
 +-----------+                +---------------+              +---------+
                                    | onMessage(Buffer)
                                    v
                              +------------+
                              | HttpServer |
                              +------------+
```

Everything of a connection runs in the thread of its loop.  Other threads reach
it only by queueing a functor in the loop, which an eventfd wakes up; so the
library's correctness is in the order in which functors and events run, in who
keeps an object alive until its last functor has run, and in what a thread may
read without being the loop's.

| component (chapter) | state | operations | what is hard | what makes it correct |
|---|---|---|---|---|
| EventLoop (24) | `looping_`, `quit_`, `eventHandling_`, `callingPendingFunctors_`, `pendingFunctors_` under `mutex_`, the eventfd, the registered and the active channels | `loop`, `quit`, `queueInLoop`/`runInLoop`, `wakeup`, `handleRead`, `doPendingFunctors`, `updateChannel`, `removeChannel` | callers push and quit between any two steps of the loop; callbacks call back into it; the rule when `wakeup` is needed | never asleep on work, functors once and in order, no dispatch to a removed channel |
| Acceptor (22) | `listenning_`, `idleFd_`, the socket's queue of clients | `listen`, `handleRead` | no descriptor is left and `poll` is level triggered; other threads open descriptors between two system calls of `handleRead` | every client is accepted or refused |
| first EventLoop, Poller, Channel (17) | `pollfds_`, `channels_`, `index_`, `t_loopInThisThread`, `quit_` | `loop`, `quit`, `updateChannel`, `poll`, `fillActiveChannels` | callbacks change the vector that is being dispatched; quit wakes nobody up | an index finds its own pollfd, no other thread touches the vector, quits and readable channels are seen |
| EventLoopThread (24) | `loop_` under `mutex_`, the thread, the EventLoop on its stack | `startLoop`, `threadFunc`, destructor | the owner, the thread and other users of the loop race at start and end | the loop is ready when handed out, gone only after the join, and the join ends |
| TcpServer, EventLoopThreadPool (25, 27) | the map of connections, `nextConnId_`, `next_`, `started_` | `start`, `newConnection`, `removeConnection(InLoop)`, destructor | a close makes three hops through two loops; the server dies in between | every connection torn down once, in its thread; loops dealt evenly |
| TcpConnection (27) | `state_`, its channel, the references to it | `connectEstablished`, `handleRead`, `handleClose`, `connectDestroyed`, `send`, `shutdown` | `state_` is read and written by several threads; functors with a raw `this` | up once, down once, no channel outlives it in a poller |
| Connector (28) | `connect_`, `state_`, `channel_`, `retryDelayMs_`, timers | `start`, `stop`, `restart`, `connect`, `retry`, `handleWrite`, `handleError` | stop against timers, events and deferred functors | one attempt at a time, no socket lost, retries go on |
| TcpClient (28) | `connect_`, `retry_`, `connection_` | `connect`, `disconnect`, `stop`, `newConnection`, `removeConnection`, destructor | three threads' calls against reconnection; the client dies before its connection | one connection; nothing handed over after stop or the destructor |
| ThreadPool (13), CountDownLatch (11) | `queue_`, `running_`; `count_` | `start`, `run`, `stop`, `take`, destructor; `wait`, `countDown` | one notify per task, spurious wakeups, stop at any time, no threads at all, tasks that throw | no worker sleeps on a task, tasks in order, stop returns |
| BlockingQueue, BoundedBlockingQueue (12) | a (bounded) queue, two conditions | `put`, `take` | one notify per put and per take | nobody sleeps on work, nothing is overwritten |
| TimerQueue, Timer (18) | `timers_`, the timerfd, expirations | `runAt`, `runAfter`, `runEvery`, `addTimer`, `insert`, `handleRead`, `getExpired`, `reset` | two clocks, re-arming clears an expiration, callbacks and other threads add timers | armed for the earliest, never early, every timer runs |
| Buffer (26) | a vector, `readerIndex_`, `writerIndex_` | `append`, `prepend`, `retrieve`, `makeSpace`, `shrink`, `readFd`, `appendInt32`, `readInt32`, `prependInt32`, ... | wrap to the front, growth, spill into a second block, byte order and sign | the readable bytes are a queue of bytes; integers come out as they went in |
| HttpServer (29) | per connection: the parser's state and the request, the input buffer | `onMessage`, `parseRequest`, `onRequest`, the user's `httpCallback_` | requests cut anywhere, pipelined, malformed | right answers in order, waiting clients answered |
| Thread, CurrentThread (08) | the thread, `t_cachedTid` | `start`, `runInThread`, `join`, `afterFork` | `pthread_create` fails, `func_` throws, the process forks | a cached id is the thread's own |
| Singleton, ThreadLocal (14, 15) | `value_`, `ponce_`; a pthread key, `t_value_` | `instance`, `value`, destructors | many threads ask first; threads end before or after the key | one for the process, one for each thread, none left behind |
| first TcpServer (23) | `started_`, the map | `start`, `newConnection` | | the promise the later ones keep |
| echo servers and client (01, 02) | the poll set or the event list, descriptors | the server's loop, the client's | the vector is changed while it is scanned; EMFILE; resets | what was reported is handled; whoever waits is answered |
| Mutex, Condition, Atomic, Exception, InetAddress, thread classes (03, 04, 09, 10) | | | wrappers of system calls and introductory programs | not modelled |

## 2. The modules

| module | of | what it holds |
|---|---|---|
| `FunctorQueue` | abstract | a queue that hands out, once each and in order, what is posted: the promise of EventLoop, ThreadPool and the blocking queues |
| `EventLoop` | chapter 24 | the loop thread's steps and the callers'; a critical section is one step, everything between two of them a step of its own |
| `EventLoopThread` | 24 | extends EventLoop with the IO thread, its owner and the life of the stack object |
| `Acceptor` | 22, 19, 21 | the listening socket, the idle descriptor and the process's descriptors; `TcpServer` extends it and has the Next |
| `EarlyTcpServer` | 23, abstract | what the first TcpServer tells its user of connections that come up |
| `TcpServer` | 25, 27 | base loop and IO loops as queues of functors (what `EventLoopProofs!Refinement` allows to see of a loop), connections, references, a user's thread, the destructor |
| `Connector`, `TcpClient` | 28 | Connector has the actions of one object, TcpClient extends it with connections and has the Next |
| `CountDownLatch`, `ThreadPool` | 11, 13 | the latch; the pool with an owner that uses it as `ThreadPool_test.cc` does |
| `BoundedBlockingQueue`, `QueueTest` | 12 | the queue's operations; the use the tests make of it, with the latch: one of four programs is chosen at the start |
| `TimerQueue` | 18, 16, 05 | the timers, the timerfd and two clocks; calls of other threads hop through the loop's functors |
| `Buffer` | 26 | pure: a buffer is a record, an operation a function on buffers |
| `HttpServer` | 29, 27 | extends Buffer: one connection from the client's bytes to the answers, with the default callback or a user's |
| `Thread`, `ThreadLocal`, `Reactor` | 08; 14, 15; 17 | each extends the one before: a program of calls per thread, the objects of a process and of its threads, the loop and its poller; `Reactor` has the Next and the programs |
| `EchoServer` | 01, 02 | both servers and their clients |
| `MC*` | | constants for TLC |
| `EventLoopProofs` | | theorems about EventLoop and EventLoopThread |
| `TcpServerProofs`, `TcpClientProofs` | | about TcpServer with its Acceptor; about TcpClient with its Connector |
| `ThreadPoolProofs` | | about ThreadPool, with the latch where it is used |
| `ProgramProofs` | | about QueueTest, with its queue and the latch; about EchoServer |
| `TimerQueueProofs`, `HttpServerProofs` | | about TimerQueue; about Buffer and HttpServer |
| `ReactorProofs` | | about Thread, ThreadLocal and Reactor |

How they correspond to the code:

* Variables carry the names of the members they stand for, without the final
  underscore; actions carry the names of the functions, or say in their comment
  which part of which function they are.  `Bad...`, `Never...`, `Lost...` and
  `Worse...` are faulty variants of the definition that follows; each breaks one
  property and shows that the property can fail.
* A thread's step ends where another thread can see a difference: at the end of
  a critical section, between a write of a flag and the `wakeup` after it,
  between a test of `state_` or `connect_` and the call that rests on it.
* What the kernel, the network, the clocks or the library's user do is an action
  with as few conditions as the code allows them; it is marked external in
  `PROJECT.json`.
* A failed `assert` is a state of its own (`"aborted"`, `fault`), out of which
  nothing happens.  `AssertionsHold` says that it is not reached; in `TcpClient`,
  that one step only reaches it (*Late reset*, section 3).
* In `Connector` a timer of a retry may be called as soon as the code lets it: it
  waits 500 ms, but what else the loop does in that time has no bound.  What an
  event queues runs before the next poll (`due`), so there the timer comes first
  only if the same poll reported the timerfd behind that event, for a timer of
  somebody else; what a functor queues runs after it.

What is abstracted: `TcpServer` has no bytes (`HttpServer` has them); a handler
or a functor is one step there, because the only data it shares with other
threads is `state_`, which those read in a step of their own.  A connection of
`TcpClient` is open until its close callback.  In `HttpServer` a byte is a token
(a line's text, CR or LF), since nothing but CR LF is searched for in the buffer.
In `EchoServer` a line is a number of units, of which a read may find a part.
`Reactor` runs the programs of chapters 08, 14, 15 and 17 and a few like them,
because what can go wrong there depends on who calls what; a program is chosen at
the start.

## 3. The runs

| run | instance | what it shows |
|---|---|---|
| `event_loop` | 2 callers, 2 channels, 3 posts, 1 quit | NoLostWakeup, NoFunctorLost, OnlyRegisteredDispatched; ImplementsQueue: the loop implements FunctorQueue; EveryFunctorRuns, QuitStopsLoop without the poll's timeout |
| `event_loop_thread` | owner and a second user of the loop, 1 channel, 2 posts, 1 quit | StartLoopContract: startLoop always returns, and with a loop that is ready; DestructorContract: once the loop is known to run, the destructor ends the thread, and its join outlives the loop |
| `event_loop_thread_lost_quit` | owner alone, no posts | violated: DestructorReturns, finding 1 |
| `tcp_server` | 0-2 IO threads (set by `setThreadNum`), 2 clients, descriptors for 2 connections and the idle one, a user thread with 1 call of send, shutdown or start, which may open and close a descriptor | AssertionsHold, PollerHoldsLiveChannels, LifeCycle (torn down once, up and down once, nothing left behind by the destructor); ImplementsEarly: it implements EarlyTcpServer; ClosedAreFreed; AcceptedOrRefused |
| `tcp_server_raw_this` | 1 IO thread, 1 connection, a user that lets go | violated: NoUseAfterFree, finding 2 |
| `tcp_client` | 2 threads, 1 connect, 3 stops, 3 connections, the destructor | AssertionsHold (no assertion fails but by a timer that comes before the reset of its channel), OneAtATime (one attempt, one connection, every socket accounted for), StopHolds, OneMoreAtMost, Reconnects |
| `thread_pool` | 0 and 3 workers, 5 tasks, a second poster, tasks that post and tasks that throw | NobodySleepsOnWork, LatchThenStop, ImplementsQueue (FunctorQueue), OwnerReturns |
| `queue_test` | capacities 1, 2 and 20, 3 takers, 2 putters and the owner, in the programs of the tests (the bounded and the unbounded test, the bench, one thread) | NobodySleepsOnWork, ImplementsQueue, and Joins: joinAll returns |
| `timer_queue` | 3 timers of runAt, runAfter (1 unit) and runEvery (2 units), added up to time 2; 5 units of time, 1 clock setting by 1 | ArmedForEarliest, NeverEarly, EveryTimerRuns |
| `http_server` | 2 requests of 8 kinds, default or user callback, a vector of 5 bytes, 1 in front, 5 in extrabuf | AnswersInOrder, BytesKept, AnsweredInTurn, Answered |
| `reactor` | 3 threads, 2 descriptors, the tests' programs and four that share a loop or fork | PollfdsStayInPoll, LoopEndsOrReads, TidIsCurrent, OneForEach |
| `echo_server` | both servers, 3 clients, 2 descriptors, an event list of 1, 1 line of 2 units | ReportedAreHandled, DescriptorsKept, Answered |

Why the bounds are enough. The hazards are races of two or three parties, and
every party is there: two callers beside the loop in `event_loop`, so that one
pushes while the other is between its push and its `wakeup`, and three posts, so
that one is run, one is in the batch and one is pending at a time. Two IO threads
and two connections let `next_` wrap, let two connections share a loop or not, and
let the server be destroyed with one connection closing and one open. Three
workers (or takers) against two tasks make a notified one lose the mutex to one
that was awake, which is what the one-notify-per-task argument is about. The
client's back-off counts in doublings of 0.5 s up to 30 s, all of which are
reached. Time in `timer_queue` runs in units of the 100 us below which
`howMuchTimeFromNow` does not go; five of them fit two periods of a repeated
timer, and the clock may be set by one. The timerfd first fires at time 2, and
timers are added up to that time: before it, between the poll that reports it and
`handleRead`, and by the callbacks. Three stops let one fall in each window of
`tcp_client` and another follow. Three clients against two descriptors make the
echo servers run out, and an event list of one place has to grow; with two
descriptors beside the idle one `tcp_server` refuses when a thread has taken one.
The user thread opens and closes a descriptor only while a client waits: only then
does anybody look for one. The vector of `http_server` is small so that a request
of 9 bytes fills it exactly, wraps to the front, grows it and spills into
`extrabuf`; two requests are enough for one to be cut by the other's bytes. Beyond
the bounds the proofs of section 4 take over where they exist.

### Fairness

* A thread that has something to do goes on (weak fairness of each thread's
  steps, and of user code that returns).  A functor or callback that never
  returns is outside the model.
* `event_loop`: the poll returns if the eventfd is readable.  Nothing is assumed
  of `kPollTimeMs`: the timeout's action exists and has no fairness, so that
  `EveryFunctorRuns` and `QuitStopsLoop` cannot rest on it.
* `tcp_server`: nothing is assumed of peers or users; the loops go on and report
  a close that has happened and a client that waits.
* `tcp_client`: strong fairness of the environment: a client that tries again and
  again is not refused for ever, and a socket that is tried again and again
  becomes writable.  `Reconnects` says what the client makes of such a peer.
* `thread_pool`, `queue_test`: each worker and putter gets the mutex when it asks
  for it.  The number of puts is bounded, so a thread that is overtaken for ever
  by others is not in the model: pthread mutexes do not exclude it.
* `timer_queue`: time passes and the loop goes on; strong fairness of the functors,
  since each iteration of the loop ends with those that are queued, however often
  the timerfd is reported in between.
* `reactor`: each thread goes on; poll(2) returns after its timeout at the latest,
  which here, unlike in chapter 24, is what ends a loop that was told to quit.
* `echo_server`: the server goes on and a read(2) that has something returns;
  nobody has to type or to hang up.
* `http_server`: the bytes on the wire arrive and the IO thread goes on; the
  client need not send or hang up.

Deadlock is checked, except in `tcp_client`, where a client that was stopped or
gave up has nothing more to do, and in `tcp_server_raw_this`, whose server outlives
the only client it is given.

### Findings

1. *Lost quit* (`EventLoopThread.cc:32`).  startLoop returns before `loop()` has
   run; a quit in between is overwritten by `quit_ = false` (`EventLoop.cc:93`)
   and the destructor joins for ever.
2. *Raw `this`* (`TcpConnection.cc:85`).  send, documented as thread safe, binds
   the raw `this` when it is called in another thread; the functor may run after
   the connection was destroyed.  shutdown does the same.
Met while modelling, without a run of their own:

* *Late reset* (`Connector.cc:157`).  removeAndResetChannel only queues
  resetChannel, and a functor queued by a functor runs after the next poll
  (`EventLoop.cc:97`).  When stopInLoop gives up an attempt and finds `connect_` set
  again, by a start or by removeConnection's restart, its retry arms a timer of
  500 ms (`:229`); if the loop is held up as long before that poll, the timer is
  called first, and `assert(!channel_)` (`:135`) fails.  So it does if one poll
  reports the socket's error and behind it the timerfd, for another timer, and the
  handlers between take as long.  `tcp_client` has these behaviours: TLC finds one
  if `fault = "none"` is checked as an invariant.
* *Start again* (`Connector.cc:52`, `:135`).  stop neither cancels the retry timer
  nor waits for the channel's reset; a start that follows fails an assertion
  (`Connector.cc:67`).  `tcp_client` connects once.
* *Bad request line* (`HttpRequest.h:55`).  A refused request line stays in the
  buffer and its method in the request (`HttpServer.cc:174`); bytes that still
  arrive make `setMethod` fail its assertion.  `HttpServer` ends there.
* A thread that opens a descriptor between Acceptor's `close(idleFd_)` and its
  `accept` takes the idle one's place (`Acceptor.cc:80`): the client stays in the
  queue, poll reports it again and again, and the next EMFILE closes -1.
  `AcceptedOrRefused` excludes exactly that (`IdleLost`).
* A second `start` from another thread queues `Acceptor::listen` with a raw pointer;
  a server that is destroyed before it runs leaves it dangling
  (`"dead acceptor"`, `TcpServer.cc:79`).
* The first echo server exits when a descriptor or a connection fails, as its error
  macro says; a thread whose `pthread_create` failed is joined all the same
  (`Thread.cc`), which POSIX leaves undefined.
* `queueInLoop` called by the loop thread before `loop()` writes no wakeup
  (`EventLoop.cc:157`), so the first poll sleeps on the functor until something
  else happens.  `PostContexts` without `"idle"` is the assumption that nobody does.
* `EventLoopThread::loop_` still points to the stack object after `loop()` has
  returned (`EventLoopThread.cc:63`); another thread that uses it then, or a quit
  that has set `quit_` and not yet called `wakeup`, uses a dead object.
* With IO threads a removal can be queued in the base loop when the server is
  destroyed, and runs on it (`TcpServer.cc:146`, against `TcpServer.h:84`); and an
  IO loop that quits drops the `connectDestroyed` functors still queued
  (`TcpServer.cc:53`).  `AllTornDown` in `LifeCycle` is therefore about servers
  without IO threads.
* `start` is called thread safe (`TcpServer.h:64`), but the first call aborts when
  it is not made in the base loop's thread (`EventLoopThreadPool.cc:36`).
* The destructor tears a half-closed connection down without telling the user
  (`TcpConnection.cc:242` tests for kConnected only).
* A stop in another thread is too late between handleWrite's test of `connect_` and
  the hand-over (`Connector.cc:191`), and is lost between removeConnection's test and
  its restart (`TcpClient.cc:175`), which connects as if there had been none.
  `StopHolds` excludes exactly these two windows; `OneMoreAtMost` is about them too:
  one connection at most follows a stop.
* `~TcpClient` is modelled in the loop's thread and with no functor queued that
  binds the Connector's raw `this`: the code's FIXMEs say the rest is not safe.
* `ThreadPool::stop` drops the tasks that are still queued.
* onMessage answers one request: a pipelined second one waits until more bytes
  arrive (`HttpServer.cc:181`), so `Answered` is about clients that wait for their
  answers.  `AnsweredInTurn` says what the others get: whenever bytes come, the
  next request is answered if its own are all there.  A header line without a colon
  ends the headers (`HttpServer.cc:107`).  `HttpRequest::swap` leaves out
  `version_`, which does no harm since it is set again before it is read.
* sendInLoop ignores what `write` returns (`TcpConnection.cc:142`), the code that
  keeps the rest in the output buffer being commented out; the models assume that
  the kernel takes an answer whole.

## 4. The proofs

Every theorem is about any values of the constants: any number of threads,
clients, tasks, timers or requests, and any bounds. An invariant of the runs is
seldom inductive. Each proof module therefore begins with what is, `IInv` (in
`EventLoopProofs` a named invariant per theorem): the types and, part by part,
what must be true between the steps for the invariant to survive the next one.
Each holds on the instance of its run, where TLC has checked it. Then come the lemmas
about queues, counts and maps, and for each part a lemma with a case for each
action of `Next`.

**EventLoop** (`EventLoopProofs`)

* `TypeCorrect`: the type invariant, by itself inductive.
* `DispatchCorrect`: `OnlyRegisteredDispatched`. It is not inductive, since
  nothing in it says that removeChannel's assertion is evaluated whenever there is
  something left to dispatch. `PhaseInv` ties the flags `eventHandling_` and
  `callingPendingFunctors_`, and the batch, to where the loop thread is;
  `DispatchInv` adds that what is not dispatched is part of the active list,
  exists only during the handling, and does not contain the current channel. Their
  conjunction is inductive.
* `WakeupCorrect`: `NoLostWakeup`, under the hypothesis `"idle" \notin
  PostContexts` (without it the theorem is false, see section 3). `WakeupInv` says
  what is true at the other points of the loop: a pending functor is owed a wakeup
  unless the loop is between its poll and its swap, where it will find the functor
  by itself. `PhaseInv` makes queueInLoop's test of `callingPendingFunctors_` the
  right one.
* `OrderCorrect`: `NoFunctorLost`, from `PhaseInv`: the batch is empty when the
  next is swapped in.
* `Refinement`: `ImplementsQueue`, every step of the loop is a Post, a Run or a
  stutter of FunctorQueue, from the three above and the bound on the posts.

**EventLoopThread** (`EventLoopProofs`)

Every step of the thread, its owner and the loop's users is a step of EventLoop,
the destructor's quit, or the use of a loop that has ended (`StepsOfLoop`). So
what EventLoop keeps, `LoopInv`, the loop on the thread's stack keeps:
`ThreadDispatches`, `ThreadRefinement`, and, if the init callback posts nothing,
`ThreadWakes`. `LifeInv` says what exists at each point of threadFunc and of the
owner; from it `LoopIsReady` (what startLoop returns is constructed, and the init
callback is back) and `JoinedIsStopped` (after the join the loop has returned and
is gone), the invariant halves of the two contracts.

**TcpServer and Acceptor** (`TcpServerProofs`)

The difficulty is a connection whose close is under way through two loops while
the server ends. `Todo(l)` is what loop l still has to run, the rest of its batch
and its queue; a functor is `Due` if it is in it. `Lives` says that a connection
is unborn, made, up, closed, torn down, or lost with its loop, and for each of
these which functors are due, whether the map or a functor holds it, what the
poller has of it and what the user was told. `Queues` says that no functor with a
reference to a connection is queued twice, nor the destroying one before the
establishing one. `Invariant` is their conjunction with the types and the state of
server, acceptor and callers.

* `NoAssertionFails`: `AssertionsHold`.
* `ChannelsAlive`: `PollerHoldsLiveChannels`.
* `OneLife`: `LifeCycle`.
* `EvenLoad`: `Balanced`, from `Rounds`: the connections up to `nextConnId_` were
  dealt in whole rounds and a part of one, which ends before `next_`.
* `Refinement`: `ImplementsEarly`, every step is one of the first TcpServer or
  changes nothing that its user sees.

**TcpClient and Connector** (`TcpClientProofs`)

`One` counts what may call `startInLoop` or is an attempt: together one.
`Channels` pairs a removed channel with exactly one queued reset, unless an
assertion has failed, and says that no reset is left over from the poll that found
a socket connected when the next one is made. `Connections` relates the connection,
and what the loop thread is about to call, to the connector that made it. `Stops`
says which of the flags a stop or the destructor has cleared, and how far
`nextConnId_` may be from where the first stop found it. They are inductive under
the hypothesis `MaxStarts <= 1`: the code leaves a second `connect` open ("FIXME:
check state", `TcpClient.cc:105`), and more assertions fail then (*Start again*,
section 3). Nothing is assumed of time: a timer may come before whatever it does
not wait for.

* `OnlyALateResetFails`: `AssertionsHold`, a property of steps: of all assertions
  only `connecting`'s can fail, and only when a timer is called while the reset of
  the channel is queued (*Late reset*).
* `OneClientOneConnection`: `OneAtATime`.
* `NoConnectionAfterStop`: `StopHolds`, a property of steps: after the destructor,
  or a stop outside the two windows, no further connection is handed over.
* `OneMoreConnectionAtMost`: `OneMoreAtMost`: in the windows one is, at most, since
  a restart that was not stopped in time has found the client without a connection,
  and the next removeConnection finds `connect_` cleared.

**ThreadPool** (`ThreadPoolProofs`) **and the blocking queues**
(`ProgramProofs`)

In the pool, `Numbered` says that tasks are queued and taken in the order of their
runs without a gap, `InHand` that a task taken has returned or is in the hands of
one worker, `LatchCounts` that the latch is open exactly when its task has
returned, `Phases` which threads run. `StopAfterLatch` is `LatchThenStop`.
`NotifyWakesEnough` is `NobodySleepsOnWork`: while a worker sleeps the pool runs,
and at least as many others are on their way to the queue as there are tasks in
it; one that overtakes the notified worker takes a task with it, so the balance
holds. `Refinement` is `ImplementsQueue`.

In the tests of the queues, `Counted` is a balance of what was put, by whom, and
what was taken; `StopsLast` says that the stops are the last elements and that
each one taken has stopped a taker. `AllIsTaken`: when the owner's joinAll is
back, every taker is, and every element was taken. `OneNotifyIsEnough` is
`NobodySleepsOnWork`, for takers and for putters. `Refinement` is
`ImplementsQueue`.

**TimerQueue** (`TimerQueueProofs`)

`Apart` says that a timer is in one place: queued by another thread, in `timers_`,
expired, or called and not yet reset. `Due` relates its expiration to its last
run. `Watched` says what the timerfd is armed for: outside handleRead for the
timers, and inside it only for those with an expiration of 0, which reset takes
for an invalid time and does not arm for, so that insert has to. `CallbacksInTime`
is `NeverEarly`, whatever the wall clock is set to; `NoTimerForgotten` is
`ArmedForEarliest`. The earliest of a set of times exists by `Least`, from the
well-founded order of the natural numbers.

**Buffer** (`HttpServerProofs`)

For every size of the vector, of the space in front and of `extrabuf`, and for
every content: `IsBuffer` (the indices are in order and inside the vector) is
kept, and the readable bytes `Readable(b)` behave as a sequence: `AppendKeeps`,
`ReadFdKeeps`, `RetrieveKeeps`, `PrependKeeps`, `ShrinkKeeps`. They rest on lemmas
about copying into and resizing a vector, and on `WriteKeeps`, the one place where
bytes and index move together. `PrependedIntIsRead` and `AppendedIntIsRead` say of
the integers, of one, two and four bytes, that what was put into the buffer in
network byte order is what `readInt` gives back, for every value of the width,
negative ones included. Under them are the arithmetic of one digit more
(`OneDigit`, `DivDiv`), the sign (`SignedByte`), and `NetworkOrder`: the digits of
a number, put together, are the number. `MakeSpaceAssertion` shows that the
assertion in `makeSpace` (`Buffer.h:325`) holds whenever it is evaluated.

**HttpServer** (`HttpServerProofs`)

The buffer's theorems carry over to the parser. `Parses` says where it is: there
is a place in the stream at which each request starts, and what is readable and on
the wire, together, are the stream from the request line of a request on
(`ExpectsLine`, or `HasFailed` if the line is a bad one), from one of its header
lines on (`ExpectsHeader`, with the `Connection` header among the lines before as
the request's), or from the next request on (`HasParsed`). What findCRLF finds is
then exactly the end of that line, however little of it had arrived before.
`Answers` says the same of what was sent back.

* `AnswersRight`: `AnswersInOrder`. `NoByteLost`: `BytesKept`.
* `NonePassedOver`: `AnsweredInTurn`, a property of steps. `BytesBehind` is the
  count of the bytes after a request, and `NextLineThere` says that as long as one
  that is read to its end is not received, findCRLF finds a line.

The stream is put together by a recursive function over the requests. The
library's induction theorems take an operator as a parameter and cannot be cited
here; `Induction` is the same for a set of numbers, from `WFMin`, and is enough:
"the numbers up to which the function is typed and has these parts" is a set.

**Echo servers** (`ProgramProofs`)

`EchoInv` is `EchoTypes` with three parts. `Queued`: a connection waits in the
backlog or is in the vector of connections, and is there once. `Descriptors`:
every descriptor is a connection's or free, until the server exits. `Reported`:
what a poll reported and is not yet handled are connections that are still open
(and the listening socket only while a client waits on it), as many as `nready`
says, and, once the first server scans its vector, at or after its iterator. The
last is what an erase and a push_back in the middle of the scan could break;
`Erased` and `ErasedSet` say what the vector holds after the erase, and `nready`
can then be 0 only when nothing is left to handle.

* `EchoInvariant`: `EchoInv`. `ReportsHandled`: `ReportedAreHandled`.
  `NoDescriptorLost`: `DescriptorsKept`.
* `EchoesOnlyWhatWasSent`: of every client's lines, what is on the way to the
  server and what is on the way back are together no more than it has sent.

**Reactor, Thread, ThreadLocal** (`ReactorProofs`)

`IInv` assumes nothing of what the threads' programs call. `Ids`: a running
thread's id is its own among the running threads and the loops, which a fork of
the process renews; `OwnLoops`: who is in a loop is in its own; `Places`: a
channel's index is that of its pollfd; `Once` and `Own`: the singleton's and the
thread-local objects.

* `ThreadsKnowThemselves`: `TidIsCurrent`. `ChannelsKeepTheirPlaces`:
  `IndexFindsPollfd`. `NobodyElseInPoll`: `PollfdsStayInPoll`, a property of
  steps.
* `OneLoopPerThread`: the loop a thread finds as its own is its own.
  `ObjectsHaveOneOwner`: one singleton, and each thread's objects its own, for
  programs of any calls.

That threads which have ended leave no object behind, and that nobody is handed
the singleton after its end, is not so for any program: one that ends the process
while a thread still asks breaks it. It holds for programs that end what they
start, and `Tidy` says what that is, of the calls a thread has yet to make: only
the key of the thread-specific data test is deleted (`KeysStay`), who calls exit
has no thread-local object (`LeavesNothing`) and joins, before that, every thread
that asks for the singleton (`JoinsAskers`); and so an object belongs to a thread
that has not ended, whose key will destroy it (`Held`), and nobody asks once the
process exits (`AskersOver`). A program is `Careful` if its text is like that, and
every one of `Programs` is (`ProgramsAreCareful`). A step takes at most
the next call of one thread, and a join only when the other thread is over
(`CallsMove`), so what is said of the calls lasts.

* `ProgramsAreTidy`: `Tidy`. `OneForEachThread`: `OneForEach`, in full.

**Assumptions.** The proofs use the named assumptions on the constants
(`EventLoopAssumption`, `EventLoopThreadAssumption`, `TcpServerAssumption`,
`AcceptorAssumption`, `TcpClientAssumption`, `ConnectorAssumption`,
`ThreadPoolAssumption`, `QueueTestAssumption`, `TimerQueueAssumption`,
`BufferAssumption`, `HttpAssumption`, `EchoAssumption`, `ReactorAssumption`),
which TLC evaluates in the runs, and the hypotheses named above (`"idle" \notin
PostContexts`, `MaxStarts <= 1`, an init callback that posts nothing); nothing
else.

**Only proved.** `Balanced` and `IndexFindsPollfd` are stated by theorems and in no
run: proofs of a few lines for every value of the constants leave little for an
instance to show.

**Only model-checked.** Every safety invariant and every action property of the
passing runs is stated by a theorem. What is left to TLC is liveness, since
fairness and ENABLED are beyond the prover: `EveryFunctorRuns`, `QuitStopsLoop`,
the halves of `StartLoopContract` and `DestructorContract` that say that startLoop
and the destructor return, `ClosedAreFreed`, `AcceptedOrRefused`, `Reconnects`,
`OwnerReturns`, `Joins`, `EveryTimerRuns`, `LoopEndsOrReads`, `Answered`.

## 5. Not modelled

* The output path of a connection, which is commented out in the source, and with
  it short writes.
* A destructor of TcpClient in another thread than the loop's, and the life of a
  Connector behind its functors' raw `this`.
* Of the bytes of a connection `TcpServer` sees none; `HttpServer` has those of one.
* Request bodies: `expectBody` is never true.  Header lines that are not well
  formed, and what follows a refused request line, are left out of the client's
  choices.
* `TimerQueue::cancel`: commented out.
* Channels that are disabled in the first reactor: its version never does.
* Socket options, `handleError`, which only logs, and the callback setters.
* Mutex, Condition, Atomic, Exception, InetAddress, formatting of a Timestamp:
  wrappers whose effect the models take as given.  A wait may wake up spuriously.
* The thread classes of chapters 3 and 4, which the library does not use.

## 6. Plan

Modelled in this order, the most used first: EventLoop, EventLoopThread,
TcpServer, TcpClient, ThreadPool, TimerQueue, the blocking queues, HttpServer with
Buffer; then Acceptor and the first TcpServer, the destructors, the first reactor
with Thread and the thread-local templates, and the echo servers.  Next:

1. TcpClient for more than one `connect`, when the code checks its state
   (*Start again*): the proofs then lose their hypothesis.
2. The bytes of a connection in TcpServer, when the output path is.
3. `TimerQueue::cancel`, when it is.
