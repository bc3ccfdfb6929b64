----------------------------- MODULE TcpServer ------------------------------
(***************************************************************************)
(* TcpServer, its EventLoopThreadPool and its TcpConnections               *)
(* (25_muduo_TcpServer_EventLoopThreadPool, 27_muduo_TcpConnection_Send):  *)
(* connections are accepted in the base loop, given to the IO loops in     *)
(* turn, closed in their IO loop, taken out of the map in the base loop    *)
(* and torn down in their IO loop again, each hop being a functor queued   *)
(* in a loop.  User code runs in the callbacks, may keep a TcpConnectionPtr*)
(* for another thread, and that thread may send and shut down.             *)
(*                                                                         *)
(* Each loop is what EventLoopProofs!Refinement allows us to see of it: a  *)
(* queue of functors run in order, in batches; events are handled between  *)
(* batches.  The functors of a batch, with the references bound in them,   *)
(* are destroyed together at its end.  A handler or functor is one step:   *)
(* the only data it shares with other threads is state_, which those read  *)
(* in a step of their own before they act on it.                           *)
(***************************************************************************)
EXTENDS Acceptor, Sequences, FiniteSets

CONSTANTS MaxThreads,    \* bound: what setThreadNum is given; loop 0 is the base loop
          Users,         \* threads of the user that are no loop's thread
          UsersDrop,     \* TRUE: they may let go of their TcpConnectionPtrs
          UsersStart,    \* TRUE: they may call TcpServer::start
          UsersOpen,     \* TRUE: they may open and close a descriptor
          MaxCalls,      \* bound: calls of send, shutdown and start by Users
          MayDestroy     \* TRUE: the server may be destroyed

ASSUME TcpServerAssumption ==
  /\ MaxThreads \in Nat /\ MaxCalls \in Nat
  /\ UsersDrop \in BOOLEAN /\ UsersStart \in BOOLEAN /\ UsersOpen \in BOOLEAN
  /\ MayDestroy \in BOOLEAN

Base == 0
Loops == 0..MaxThreads
Conns == 1..MaxClients

(* Functors that bind a TcpConnectionPtr, and those that bind only `this'. *)
Owning == {"connectEstablished", "removeConnectionInLoop", "connectDestroyed"}
Raw    == {"sendInLoop", "shutdownInLoop"}
Functor(op, c) == [op |-> op, conn |-> c]
Functors == [op : Owning \cup Raw, conn : Conns] \cup {Functor("listen", 0)}

VARIABLES
  server,        \* "up", "closing" (in the destructor) or "destroyed"
  started,       \* TcpServer::started_ and EventLoopThreadPool::started_
  numThreads,    \* numThreads_ of the pool
  nextConn,      \* nextConnId_
  next,          \* next_ of the pool, from 0
  connections,   \* the map
  ioLoop,        \* the loop of each connection
  state,         \* state_, "none" before the connection exists
  registered,    \* connections whose channel is in their loop's poller
  reading,       \* connections whose channel waits for events
  finSent,       \* connections whose socket had shutdownWrite
  peerClosed,    \* connections the peer has closed
  pending, batch, ran,   \* per loop: queue, batch taken, how much of it ran
  held,          \* per user thread: the TcpConnectionPtrs it holds
  call,          \* per user thread: the call whose test of state_ succeeded
  calls,         \* history: such calls so far
  ups, downs,    \* history: connectionCallback_ calls, by connected()
  destroyed,     \* history: runs of connectDestroyed
  fault          \* "none", or what went wrong: the process stops there

serverVars == <<server, started, numThreads, nextConn, next, acceptorVars>>
connVars   == <<ioLoop, state, registered, reading, finSent, ups, downs, destroyed>>
loopVars   == <<pending, batch, ran>>
userVars   == <<held, call, calls>>
vars == <<serverVars, connections, connVars, peerClosed, loopVars, userVars, fault>>

IOLoops == IF numThreads = 0 THEN {Base} ELSE 1..numThreads
Idle == [op |-> "idle", conn |-> 0]

Init ==
  /\ server = "up" /\ started = FALSE /\ AcceptorInit
  /\ numThreads = 0 /\ nextConn = 1 /\ next = 0
  /\ connections = {}
  /\ ioLoop = [c \in Conns |-> Base]
  /\ state = [c \in Conns |-> "none"]
  /\ registered = {} /\ reading = {} /\ finSent = {} /\ peerClosed = {}
  /\ pending = [l \in Loops |-> << >>] /\ batch = [l \in Loops |-> << >>]
  /\ ran = [l \in Loops |-> 0]
  /\ held = [u \in Users |-> {}] /\ call = [u \in Users |-> Idle] /\ calls = 0
  /\ ups = [c \in Conns |-> 0] /\ downs = [c \in Conns |-> 0]
  /\ destroyed = [c \in Conns |-> 0]
  /\ fault = "none"

Fail(f) == fault' = f
Elements(s) == {s[i] : i \in DOMAIN s}
Queued(l, f) == [pending EXCEPT ![l] = Append(@, f)]

(* A connection lives as long as somebody holds a TcpConnectionPtr to it,  *)
(* and its Socket keeps the descriptor open as long.                       *)
Alive(c) ==
  \/ c \in connections
  \/ \E u \in Users : c \in held[u]
  \/ \E l \in Loops : \E f \in Elements(pending[l] \o batch[l]) :
        f.op \in Owning /\ f.conn = c
Sockets == Cardinality({c \in Conns : Alive(c)})

-----------------------------------------------------------------------------
(* User code in connectionCallback_ and messageCallback_: it may give the  *)
(* connection to other threads, and send to it and shut it down; in the    *)
(* connection's own loop those two are carried out at once.                *)
Keep(c, users) ==
  /\ held' = [u \in Users |-> IF u \in users THEN held[u] \cup {c} ELSE held[u]]
  /\ UNCHANGED <<call, calls>>

(* sockets::shutdownWrite: our end of the connection is closed.            *)
ShutdownWrite(c) == finSent' = finSent \cup {c}

(* A new TcpConnection, whose channel is in no poller yet.                 *)
Constructed(c) == [state EXCEPT ![c] = "kConnecting"]

(* connectEstablished, and the user's connectionCallback_ in it.           *)
Establish(c, old, users, shut) ==
  /\ IF old = "kConnecting" THEN fault' = fault ELSE Fail("assertion")
  /\ state' = [state EXCEPT ![c] = IF shut THEN "kDisconnecting" ELSE "kConnected"]
  /\ registered' = registered \cup {c}
  /\ reading' = reading \cup {c}
  /\ IF shut THEN ShutdownWrite(c) ELSE UNCHANGED finSent
  /\ ups' = [ups EXCEPT ![c] = @ + 1]
  /\ Keep(c, users)
  /\ UNCHANGED <<downs, destroyed>>

(* Faulty variant: connectDestroyed leaves the channel in the poller.      *)
BadUnregister(gone) == registered' = registered

(* channel_->remove() *)
Unregister(gone) == registered' = registered \ gone

(* Faulty variant: the user is told again of a connection that is closed.  *)
BadStillUp(gone) == {c \in gone : state[c] # "kDisconnecting"}

StillUp(gone) == {c \in gone : state[c] = "kConnected"}

(* connectDestroyed of the connections in gone.                            *)
TearDown(gone, users) ==
  LET up == StillUp(gone) IN
  /\ state' = [c \in Conns |-> IF c \in up THEN "kDisconnected" ELSE state[c]]
  /\ reading' = reading \ up
  /\ downs' = [c \in Conns |-> IF c \in up THEN downs[c] + 1 ELSE downs[c]]
  /\ Unregister(gone)
  /\ destroyed' = [c \in Conns |->
                     IF c \in gone THEN destroyed[c] + 1 ELSE destroyed[c]]
  /\ held' = [u \in Users |-> IF u \in users THEN held[u] \cup up ELSE held[u]]
  /\ UNCHANGED <<ioLoop, finSent, ups, call, calls>>

(* Faulty variant: the connection's reference dies with the map's entry.   *)
BadQueueDestroyed(c) == UNCHANGED pending

(* Faulty variant: the functor of the other hop is queued.                 *)
WorseQueueDestroyed(c) == pending' = Queued(ioLoop[c], Functor("connectEstablished", c))

(* connectDestroyed goes to the connection's loop, with its last reference.*)
QueueDestroyed(c) == pending' = Queued(ioLoop[c], Functor("connectDestroyed", c))

(* removeConnectionInLoop, in the base loop; it finds no server that has   *)
(* been destroyed in the meantime.                                         *)
Remove(c) ==
  \/ server = "destroyed" /\ Fail("dead server") /\ UNCHANGED <<connections, pending>>
  \/ /\ server # "destroyed"
     /\ IF c \in connections THEN fault' = fault ELSE Fail("assertion")
     /\ connections' = connections \ {c}
     /\ QueueDestroyed(c)

(* Faulty variant: removeConnection always queues.                         *)
BadRemoveConnection(c) ==
  /\ pending' = Queued(Base, Functor("removeConnectionInLoop", c))
  /\ UNCHANGED <<connections, fault>>

(* removeConnection: runInLoop in the base loop.                           *)
RemoveConnection(c) ==
  \/ ioLoop[c] = Base /\ Remove(c)
  \/ /\ ioLoop[c] # Base
     /\ pending' = Queued(Base, Functor("removeConnectionInLoop", c))
     /\ UNCHANGED <<connections, fault>>

-----------------------------------------------------------------------------
(* The base loop is in none of start, handleRead and ~TcpServer.           *)
LoopRuns(l) ==
  l = Base => server # "closing" /\ refusing = "no" /\ (started => listening \/ server = "destroyed")

(* setThreadNum, before start.                                             *)
SetThreadNum(n) ==
  /\ server = "up" /\ ~started
  /\ numThreads' = n
  /\ UNCHANGED <<server, started, nextConn, next, acceptorVars, connections, connVars,
                 peerClosed, loopVars, userVars, fault>>

(* TcpServer::start in the base loop: the pool starts, then the acceptor   *)
(* listens.  Calls in a server that is started change nothing.             *)
Start ==
  /\ server = "up"
  /\ \/ ~started /\ started' = TRUE /\ UNCHANGED acceptorVars
     \/ started /\ ~listening /\ Listen /\ UNCHANGED started
  /\ UNCHANGED <<server, numThreads, nextConn, next, connections, connVars, peerClosed,
                 loopVars, userVars, fault>>

(* start in another thread: threadPool_->start asserts that it runs in the *)
(* base loop's thread; a second start queues Acceptor::listen, with a raw  *)
(* pointer, if the first has not come to it.                               *)
UserStart(u) ==
  /\ UsersStart /\ server = "up" /\ call[u] = Idle
  /\ \/ /\ ~started /\ started' = TRUE
        /\ Fail("not in loop thread")
        /\ UNCHANGED <<pending, calls>>
     \/ /\ started /\ ~listening
        /\ calls < MaxCalls /\ calls' = calls + 1
        /\ pending' = Queued(Base, Functor("listen", 0))
        /\ UNCHANGED <<started, fault>>
  /\ UNCHANGED <<server, numThreads, nextConn, next, acceptorVars, connections, connVars,
                 peerClosed, batch, ran, held, call>>

(* getNextLoop: loops_[next_].                                             *)
GetNextLoop == IF numThreads = 0 THEN Base ELSE next + 1

AdvanceNext ==
  next' = IF numThreads = 0 THEN next
          ELSE IF next + 1 >= numThreads THEN 0 ELSE next + 1

(* Acceptor::handleRead accepts a connection: newConnection.               *)
NewConnection ==
  /\ LoopRuns(Base) /\ batch[Base] = << >>
  /\ Accept(Sockets)
  /\ nextConn' = nextConn + 1
  /\ connections' = connections \cup {nextConn}
  /\ ioLoop' = [ioLoop EXCEPT ![nextConn] = GetNextLoop]
  /\ AdvanceNext
  /\ IF GetNextLoop = Base
        THEN /\ \E users \in SUBSET Users, shut \in BOOLEAN :
                   Establish(nextConn, Constructed(nextConn)[nextConn], users, shut)
             /\ pending' = pending
        ELSE /\ state' = Constructed(nextConn)
             /\ pending' = Queued(GetNextLoop, Functor("connectEstablished", nextConn))
             /\ UNCHANGED <<registered, reading, finSent, ups, downs, destroyed,
                            userVars, fault>>
  /\ UNCHANGED <<server, started, numThreads, peerClosed, batch, ran>>

(* Acceptor::handleRead refuses one.                                       *)
RefuseConnection ==
  /\ server = "up" /\ batch[Base] = << >>
  /\ CloseIdle(Sockets) \/ AcceptAndClose(Sockets) \/ OpenIdle(Sockets)
  /\ UNCHANGED <<server, started, numThreads, nextConn, next, connections, connVars,
                 peerClosed, loopVars, userVars, fault>>

(* What clients and other threads do to the descriptors.                   *)
OthersStep ==
  /\ server # "destroyed"
  /\ \/ ClientConnects
     \/ UsersOpen /\ (OthersOpen(Sockets) \/ OthersClose)
  /\ UNCHANGED <<server, started, numThreads, nextConn, next, connections, connVars,
                 peerClosed, loopVars, userVars, fault>>

(* The peer closes its end.                                                *)
PeerCloses(c) ==
  /\ state[c] # "none" /\ c \notin peerClosed
  /\ peerClosed' = peerClosed \cup {c}
  /\ UNCHANGED <<serverVars, connections, connVars, loopVars, userVars, fault>>

-----------------------------------------------------------------------------
(* The events of a connection, in its loop. *)

MayHandle(c) ==
  /\ LoopRuns(ioLoop[c]) /\ batch[ioLoop[c]] = << >>
  /\ c \in reading \cap registered /\ Alive(c)

(* handleRead with n > 0: messageCallback_.                                *)
HandleMessage(c) ==
  /\ MayHandle(c)
  /\ \E users \in SUBSET Users, shut \in BOOLEAN :
        /\ Keep(c, users)
        /\ IF shut /\ state[c] = "kConnected"
              THEN /\ state' = [state EXCEPT ![c] = "kDisconnecting"]
                   /\ ShutdownWrite(c)
              ELSE UNCHANGED <<state, finSent>>
  /\ UNCHANGED <<serverVars, connections, ioLoop, registered, reading, ups, downs,
                 destroyed, peerClosed, loopVars, fault>>

(* Faulty variant: handleClose leaves the channel enabled.                 *)
BadDisableAll(c) == reading' = reading

(* channel_->disableAll() *)
DisableAll(c) == reading' = reading \ {c}

(* handleRead with n = 0: handleClose.                                     *)
HandleClose(c) ==
  /\ MayHandle(c) /\ c \in peerClosed
  /\ state' = [state EXCEPT ![c] = "kDisconnected"]
  /\ DisableAll(c)
  /\ downs' = [downs EXCEPT ![c] = @ + 1]
  /\ \E users \in SUBSET Users : Keep(c, users)
  /\ IF state[c] \in {"kConnected", "kDisconnecting"}
        THEN RemoveConnection(c)
        ELSE Fail("assertion") /\ UNCHANGED <<connections, pending>>
  /\ UNCHANGED <<serverVars, ioLoop, registered, finSent, ups, destroyed,
                 peerClosed, batch, ran>>

-----------------------------------------------------------------------------
(* The functors of a loop. *)

TakeBatch(l) ==
  /\ LoopRuns(l) /\ batch[l] = << >> /\ pending[l] # << >>
  /\ batch' = [batch EXCEPT ![l] = pending[l]]
  /\ pending' = [pending EXCEPT ![l] = << >>]
  /\ ran' = [ran EXCEPT ![l] = 0]
  /\ UNCHANGED <<serverVars, connections, connVars, peerClosed, userVars, fault>>

RunFunctor(l) ==
  LET f == batch[l][ran[l] + 1]
      c == f.conn
  IN
  /\ LoopRuns(l) /\ ran[l] < Len(batch[l])
  /\ ran' = [ran EXCEPT ![l] = @ + 1]
  /\ \/ /\ f.op = "listen"
        /\ IF server = "up" THEN Listen /\ UNCHANGED fault
           ELSE Fail("dead acceptor") /\ UNCHANGED acceptorVars
        /\ UNCHANGED <<connections, connVars, userVars, pending>>
     \/ /\ f.op = "connectEstablished"
        /\ \E users \in SUBSET Users, shut \in BOOLEAN :
              Establish(c, state[c], users, shut)
        /\ UNCHANGED <<acceptorVars, connections, ioLoop, pending>>
     \/ /\ f.op = "removeConnectionInLoop"
        /\ Remove(c)
        /\ UNCHANGED <<acceptorVars, connVars, userVars>>
     \/ /\ f.op = "connectDestroyed"
        /\ \E users \in SUBSET Users : TearDown({c}, users)
        /\ UNCHANGED <<acceptorVars, connections, pending, fault>>
     \/ /\ f.op \in Raw
        /\ IF Alive(c) THEN fault' = fault ELSE Fail("use after free")
        /\ IF f.op = "shutdownInLoop" THEN ShutdownWrite(c) ELSE UNCHANGED finSent
        /\ UNCHANGED <<acceptorVars, connections, ioLoop, state, registered, reading,
                       ups, downs, destroyed, userVars, pending>>
  /\ UNCHANGED <<server, started, numThreads, nextConn, next, peerClosed, batch>>

(* The batch's functors, run and kept until now, are destroyed.            *)
EndBatch(l) ==
  /\ batch[l] # << >> /\ ran[l] = Len(batch[l])
  /\ batch' = [batch EXCEPT ![l] = << >>]
  /\ UNCHANGED <<serverVars, connections, connVars, peerClosed, pending, ran,
                 userVars, fault>>

-----------------------------------------------------------------------------
(* Calls of send and shutdown in other threads: the test of state_, then   *)
(* the rest of the call.                                                   *)

CallTest(u, c, op) ==
  /\ call[u] = Idle /\ c \in held[u]
  /\ calls < MaxCalls /\ calls' = calls + 1
  /\ state[c] = "kConnected"
  /\ call' = [call EXCEPT ![u] = Functor(op, c)]
  /\ UNCHANGED <<serverVars, connections, connVars, peerClosed, loopVars, held, fault>>

(* The EventLoop of an IO thread lives on that thread's stack.             *)
Gone(l) == server = "destroyed" /\ l # Base

CallDone(u) ==
  LET f == call[u] IN
  /\ f # Idle
  /\ call' = [call EXCEPT ![u] = Idle]
  /\ state' = IF f.op = "shutdownInLoop"
                 THEN [state EXCEPT ![f.conn] = "kDisconnecting"] ELSE state
  /\ IF Gone(ioLoop[f.conn]) THEN Fail("use after free") /\ UNCHANGED pending
     ELSE pending' = Queued(ioLoop[f.conn], f) /\ UNCHANGED fault
  /\ UNCHANGED <<serverVars, connections, ioLoop, registered, reading, finSent,
                 ups, downs, destroyed, peerClosed, batch, ran, held, calls>>

Drop(u, c) ==
  /\ UsersDrop
  /\ c \in held[u] /\ call[u].conn # c
  /\ held' = [held EXCEPT ![u] = @ \ {c}]
  /\ UNCHANGED <<serverVars, connections, connVars, peerClosed, loopVars, call,
                 calls, fault>>

-----------------------------------------------------------------------------
(* The map is walked in the order of the connections' names.               *)
Orders(S) == {s \in [1..Cardinality(S) -> S] : Elements(s) = S}
Destroyers(s) == [i \in DOMAIN s |-> Functor("connectDestroyed", s[i])]

(* ~TcpServer, in the base loop: connectDestroyed for what is in the map,  *)
(* at once or as a functor; then the pool quits and joins its threads.     *)
DestroyServer ==
  LET here == {c \in connections : ioLoop[c] = Base}
      away(l) == {c \in connections \ here : ioLoop[c] = l}
      order(l) == Orders(away(l))
  IN
  /\ MayDestroy /\ server = "up" /\ LoopRuns(Base) /\ batch[Base] = << >>
  /\ server' = "closing"
  /\ connections' = {}
  /\ \E users \in SUBSET Users : TearDown(here, users)
  /\ \E left \in [Loops -> UNION {order(l) : l \in Loops}] :
        /\ \A l \in Loops : left[l] \in order(l)
        /\ pending' = [l \in Loops |-> pending[l] \o Destroyers(left[l])]
  /\ UNCHANGED <<started, numThreads, nextConn, next, acceptorVars, peerClosed, batch, ran,
                 fault>>

(* Every IO loop has seen its quit after a batch and gone, with what was   *)
(* still queued in it and with its poller; then the acceptor goes.         *)
ServerDestroyed ==
  /\ server = "closing"
  /\ \A l \in IOLoops \ {Base} : batch[l] = << >>
  /\ server' = "destroyed"
  /\ pending' = [l \in Loops |-> IF l = Base THEN pending[l] ELSE << >>]
  /\ registered' = {c \in registered : ioLoop[c] = Base}
  /\ reading' = {c \in reading : ioLoop[c] = Base}
  /\ CloseAcceptor
  /\ UNCHANGED <<started, numThreads, nextConn, next, connections, ioLoop, state,
                 finSent, ups, downs, destroyed, peerClosed, batch, ran, userVars,
                 fault>>

-----------------------------------------------------------------------------
LoopStep(l) == TakeBatch(l) \/ RunFunctor(l) \/ EndBatch(l)

Step ==
  \/ \E n \in 0..MaxThreads : SetThreadNum(n)
  \/ Start \/ NewConnection \/ RefuseConnection \/ OthersStep
  \/ DestroyServer \/ ServerDestroyed
  \/ \E c \in Conns : PeerCloses(c) \/ HandleMessage(c) \/ HandleClose(c)
  \/ \E l \in Loops : LoopStep(l)
  \/ \E u \in Users :
        \/ UserStart(u) \/ CallDone(u)
        \/ \E c \in Conns : Drop(u, c) \/ \E op \in Raw : CallTest(u, c, op)

Next == \/ fault = "none" /\ Step
        \/ (fault # "none" \/ server = "destroyed") /\ UNCHANGED vars

Spec == Init /\ [][Next]_vars

(* Every loop thread goes on, and so does a user thread inside a call.     *)
FairSpec ==
  /\ Spec
  /\ \A l \in Loops : WF_vars(fault = "none" /\ LoopStep(l))
  /\ WF_vars(fault = "none" /\ (NewConnection \/ RefuseConnection))
  /\ \A c \in Conns : WF_vars(fault = "none" /\ HandleClose(c))
  /\ \A u \in Users : WF_vars(fault = "none" /\ CallDone(u))

-----------------------------------------------------------------------------
(* No assertion of TcpServer and TcpConnection fails, whatever the order   *)
(* of closes, removals and calls from other threads: connectEstablished    *)
(* finds kConnecting, handleClose an open connection, and                  *)
(* removeConnectionInLoop the connection in the map.                       *)
AssertionsHold == fault # "assertion"

(* A channel never outlives its connection in a poller: from the accept to *)
(* the end of connectDestroyed some TcpConnectionPtr is on its way, in the *)
(* map or in a functor, even when the user holds none.                     *)
PollerHoldsLiveChannels == \A c \in registered : Alive(c)

(* connectDestroyed runs once, after the connection has left the map, and  *)
(* nothing of the connection is enabled afterwards (TcpConnection.h:84).   *)
TornDownOnce ==
  \A c \in Conns : destroyed[c] > 0 =>
     destroyed[c] = 1 /\ c \notin connections \cup registered

(* The user hears of every connection once when it comes up and once when  *)
(* it goes down, and of the latter before it is torn down; only            *)
(* ~TcpServer may tear down a half-closed connection without a word.       *)
UpThenDown ==
  \A c \in Conns : /\ downs[c] <= ups[c] /\ ups[c] <= 1
                   /\ destroyed[c] > 0 => downs[c] = ups[c] \/ server # "up"

(* Of connections that come up the user hears what chapter 23 promises:    *)
(* once each, and only from a server that listens, whatever hops there are *)
(* between accept and connectEstablished.                                  *)
Early == INSTANCE EarlyTcpServer
ImplementsEarly == Early!Spec

(* The pool deals connections out evenly. *)
Balanced ==
  \A l, m \in IOLoops :
     LET load(n) == Cardinality({c \in 1..nextConn - 1 : ioLoop[c] = n})
     IN  load(l) <= load(m) + 1

(* A functor that binds a raw `this' never runs after the connection.      *)
NoUseAfterFree == fault # "use after free"

(* Without IO threads every connection the server had is torn down by      *)
(* connectDestroyed when the server is gone, or will be by the base loop,  *)
(* which outlives it (TcpConnection.h:83), and no removal is left that     *)
(* would run on the destroyed server.                                      *)
AllTornDown ==
  numThreads = 0 =>
    /\ fault # "dead server"
    /\ server = "destroyed" => \A c \in 1..nextConn - 1 :
          destroyed[c] = 1 \/ Functor("connectDestroyed", c)
                                 \in Elements(pending[Base] \o batch[Base])

(* The life of a connection, however its close, its removal, the user's    *)
(* calls and the end of the server fall together.                          *)
LifeCycle == TornDownOnce /\ UpThenDown /\ AllTornDown

(* A connection whose peer has closed is torn down, and freed unless the   *)
(* user keeps it, as long as the server is not destroyed.                  *)
ClosedAreFreed ==
  \A c \in Conns : c \in peerClosed
     ~> \/ destroyed[c] = 1 /\ (Alive(c) => \E u \in Users : c \in held[u])
        \/ server # "up"

(* Every client is accepted or refused: poll is level triggered, and would *)
(* report a client that is neither for ever (Acceptor.cc:73-77).  Only a   *)
(* thread that takes the idle descriptor's place while handleRead has      *)
(* given it up can bring that about.                                       *)
AcceptedOrRefused == backlog > 0 ~> backlog = 0 \/ IdleLost \/ server # "up"
=============================================================================
