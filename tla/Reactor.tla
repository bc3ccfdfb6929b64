------------------------------ MODULE Reactor -------------------------------
(***************************************************************************)
(* The first reactor (17_muduo_Reactor01/src): EventLoop, Poller and       *)
(* Channel before there was a wakeup descriptor, run by the repository's   *)
(* first test programs, with the threads and the thread-local objects of   *)
(* the chapters before, and by programs that share a loop between threads. *)
(*                                                                         *)
(* A loop is named after the thread that creates it, for a thread has one  *)
(* at most, and a channel after its descriptor; every channel is one of    *)
(* main's loop.  A step is one call of the program, or of the loop one of  *)
(* the test of quit_, the return of poll(2), and one handleEvent.          *)
(***************************************************************************)
EXTENDS ThreadLocal

CONSTANTS Other, Third, \* the threads besides Main
          Timer, Pipe   \* two descriptors

ASSUME ReactorAssumption ==
  Threads = {Main, Other, Third} /\ Cardinality(Threads) = 3 /\ Timer # Pipe

Fds == {Timer, Pipe}

VARIABLES
  callbacks, \* what the callback of each channel does
  loops,     \* EventLoops that exist: threads with a t_loopInThisThread
  threadId,  \* per loop: threadId_
  at,        \* per thread: "calls", or in loop() at "test", "poll", "handle"
  runs,      \* per thread: the loop whose loop() it is in
  looping, quit,   \* per loop: looping_ and quit_
  active,    \* per loop: activeChannels_, with their revents_
  pollfds,   \* per loop: the descriptors of pollfds_
  index,     \* per channel: index_
  ready      \* per descriptor: the events poll(2) would report

programVars == <<threadVars, localVars, callbacks>>
existVars == <<loops, threadId>>
loopVars == <<at, runs, looping, quit, active>>
pollVars == <<pollfds, index>>
vars == <<programVars, existVars, loopVars, pollVars, ready>>

-----------------------------------------------------------------------------
(* Programs: the calls of each thread, and what the callbacks of the       *)
(* channels do: read their descriptor, enable a channel, quit main's loop. *)
Ignore == [reads |-> FALSE, enables |-> {}, quits |-> FALSE]
NoCallbacks == [fd \in Fds |-> Ignore]
Program(main, other, third, does) ==
  [calls |-> [t \in Threads |-> IF t = Main THEN main ELSE IF t = Other THEN other ELSE third],
   callbacks |-> does]

Test1 ==
  Program(<<Call("new", Main), Call("start", Other), Call("loop", Main)>>,
          <<Call("new", Other), Call("loop", Other), Call("delete", Other)>>,
          << >>, NoCallbacks)

Test2 ==
  Program(<<Call("new", Main), Call("start", Other), Call("join", Other),
            Call("delete", Main), Call("exit", Main)>>,
          <<Call("loop", Main)>>, << >>, NoCallbacks)

Test3 ==
  Program(<<Call("new", Main), Call("enable", Timer), Call("loop", Main),
            Call("delete", Main), Call("exit", Main)>>,
          << >>, << >>, [NoCallbacks EXCEPT ![Timer].quits = TRUE])

TwoLoopsInAThread ==
  Program(<<Call("new", Main), Call("new", Main)>>, << >>, << >>, NoCallbacks)

(* The other thread quits main's loop, whose callbacks read; the timer's   *)
(* enables the other channel, again and again.                             *)
QuitByOther ==
  Program(<<Call("new", Main), Call("enable", Timer), Call("start", Other),
            Call("loop", Main), Call("join", Other), Call("delete", Main)>>,
          <<Call("quit", Main)>>, << >>,
          [fd \in Fds |-> [reads |-> TRUE, quits |-> FALSE,
                           enables |-> IF fd = Timer THEN {Pipe} ELSE {}]])

(* The other thread enables a channel of main's loop.                      *)
EnableByOther ==
  Program(<<Call("new", Main), Call("enable", Timer), Call("start", Other),
            Call("loop", Main)>>,
          <<Call("enable", Pipe)>>, << >>, NoCallbacks)

(* The process forks before it starts a loop in a thread and its own.      *)
ForkThenLoop ==
  Program(<<Call("new", Main), Call("fork", Main), Call("start", Other),
            Call("loop", Main)>>,
          <<Call("new", Other), Call("throw", Other)>>, << >>, NoCallbacks)

(* The tests of Singleton and of the two kinds of thread-local objects,    *)
(* main taking part at the same time as the threads; the last two end main *)
(* with pthread_exit, the first returns.                                   *)
TestSingleton ==
  Program(<<Call("start", Other), Call("start", Third), Call("instance", Main),
            Call("join", Other), Call("join", Third), Call("instance", Main),
            Call("exit", Main)>>,
          <<Call("instance", Other), Call("instance", Other)>>,
          <<Call("instance", Third)>>, NoCallbacks)

TestThreadLocal ==
  Program(<<Call("value", Main), Call("start", Other), Call("start", Third),
            Call("join", Other), Call("value", Main), Call("join", Third)>>,
          <<Call("value", Other), Call("value", Other)>>,
          <<Call("value", Third)>>, NoCallbacks)

TestThreadLocalSingleton ==
  Program(<<Call("tlsInstance", Main), Call("start", Other), Call("start", Third),
            Call("join", Other), Call("tlsInstance", Main), Call("join", Third)>>,
          <<Call("tlsInstance", Other), Call("tlsInstance", Other)>>,
          <<Call("tlsInstance", Third)>>, NoCallbacks)

TsdDemo ==
  Program(<<Call("start", Other), Call("start", Third), Call("join", Other),
            Call("join", Third), Call("deleteKey", "demo"), Call("exit", Main)>>,
          <<Call("set", Other)>>, <<Call("set", Third)>>, NoCallbacks)

Programs == {Test1, Test2, Test3, TwoLoopsInAThread, QuitByOther, EnableByOther,
             ForkThenLoop, TestSingleton, TestThreadLocal, TestThreadLocalSingleton,
             TsdDemo}

Init ==
  /\ \E program \in Programs :
       ThreadInit(program.calls) /\ callbacks = program.callbacks
  /\ LocalInit
  /\ loops = {} /\ threadId = [l \in Threads |-> 0]
  /\ at = [t \in Threads |-> "calls"] /\ runs = [t \in Threads |-> t]
  /\ looping = [l \in Threads |-> FALSE] /\ quit = [l \in Threads |-> FALSE]
  /\ active = [l \in Threads |-> << >>]
  /\ pollfds = [l \in Threads |-> << >>] /\ index = [fd \in Fds |-> -1]
  /\ ready = [fd \in Fds |-> {}]

-----------------------------------------------------------------------------
(* A call of the reactor changes nothing of the threads themselves unless  *)
(* it aborts.                                                              *)
GoesOn == UNCHANGED <<life, tid, cachedTid, lastTid, process>>
LogFatal == Abort /\ UNCHANGED <<existVars, loopVars, pollVars>>

(* Faulty variant: the assertion is compiled out.                          *)
BadInLoopThread(t, l) == TRUE

InLoopThread(t, l) == threadId[l] = CurrentTid(t)

NewEventLoop(t) ==
  /\ Calls(t, "new", t)
  /\ \/ t \in loops /\ LogFatal
     \/ /\ t \notin loops /\ loops' = loops \cup {t}
        /\ threadId' = [threadId EXCEPT ![t] = CurrentTid(t)]
        /\ GoesOn /\ UNCHANGED <<loopVars, pollVars>>

DeleteEventLoop(t) ==
  /\ Calls(t, "delete", t)
  /\ loops' = loops \ {t}
  /\ GoesOn /\ UNCHANGED <<threadId, loopVars, pollVars>>

Quit(t, l) ==
  /\ Calls(t, "quit", l)
  /\ quit' = [quit EXCEPT ![l] = TRUE]
  /\ GoesOn /\ UNCHANGED <<existVars, at, runs, looping, active, pollVars>>

(* Poller::updateChannel: a known channel keeps its place, and here its    *)
(* events, for nothing disables one.                                       *)
UpdateChannel(l, fd) ==
  IF index[fd] < 0
  THEN /\ pollfds' = [pollfds EXCEPT ![l] = Append(@, fd)]
       /\ index' = [index EXCEPT ![fd] = Len(pollfds[l])]
  ELSE UNCHANGED pollVars

EnableReading(t, fd) ==
  /\ Calls(t, "enable", fd)
  /\ \/ ~InLoopThread(t, Main) /\ LogFatal
     \/ /\ InLoopThread(t, Main) /\ UpdateChannel(Main, fd)
        /\ GoesOn /\ UNCHANGED <<existVars, loopVars>>

Loop(t, l) ==
  /\ Calls(t, "loop", l)
  /\ \/ ~InLoopThread(t, l) /\ LogFatal
     \/ /\ InLoopThread(t, l)
        /\ looping' = [looping EXCEPT ![l] = TRUE]
        /\ quit' = [quit EXCEPT ![l] = FALSE]
        /\ runs' = [runs EXCEPT ![t] = l] /\ at' = [at EXCEPT ![t] = "test"]
        /\ GoesOn /\ UNCHANGED <<existVars, active, pollVars>>

-----------------------------------------------------------------------------
Loops(t) == process # "aborted" /\ life[t] = "running"

(* while (!quit_)                                                          *)
TestQuit(t) ==
  LET l == runs[t] IN
  /\ Loops(t) /\ at[t] = "test"
  /\ IF quit[l] THEN /\ looping' = [looping EXCEPT ![l] = FALSE]
                     /\ at' = [at EXCEPT ![t] = "calls"]
                ELSE at' = [at EXCEPT ![t] = "poll"] /\ UNCHANGED looping
  /\ UNCHANGED <<programVars, existVars, runs, quit, active, pollVars, ready>>

(* Faulty variant: every pollfd looked at is counted as an event.          *)
BadFillActiveChannels(fds) ==
  LET polled == [i \in DOMAIN fds |-> [fd |-> fds[i], revents |-> ready[fds[i]]]]
      HasEvents(pfd) == pfd.revents # {}
      numEvents == Len(SelectSeq(polled, HasEvents))
  IN  SelectSeq(SubSeq(polled, 1, numEvents), HasEvents)

(* The first numEvents pollfds with revents, in the order of pollfds_: all *)
(* of them, with their revents_ of this poll.                              *)
FillActiveChannels(fds) ==
  LET polled == [i \in DOMAIN fds |-> [fd |-> fds[i], revents |-> ready[fds[i]]]]
      HasEvents(pfd) == pfd.revents # {}
  IN  SelectSeq(polled, HasEvents)

(* Faulty variant: poll waits without a limit.                             *)
BadPoll(t) ==
  LET l == runs[t] IN
  /\ Loops(t) /\ at[t] = "poll"
  /\ active' = [active EXCEPT ![l] = FillActiveChannels(pollfds[l])]
  /\ at' = [at EXCEPT ![t] = IF active'[l] = << >> THEN "poll" ELSE "handle"]
  /\ UNCHANGED <<programVars, existVars, runs, looping, quit, pollVars, ready>>

(* poll returns with what is ready, or with nothing after kPollTimeMs.     *)
Poll(t) ==
  LET l == runs[t] IN
  /\ Loops(t) /\ at[t] = "poll"
  /\ active' = [active EXCEPT ![l] = FillActiveChannels(pollfds[l])]
  /\ at' = [at EXCEPT ![t] = IF active'[l] = << >> THEN "test" ELSE "handle"]
  /\ UNCHANGED <<programVars, existVars, runs, looping, quit, pollVars, ready>>

(* handleEvent of the next active channel.  Of the events only POLLIN has  *)
(* a callback here; an error or a hang-up alone calls nothing.  What the   *)
(* callback enables is main's, as its own channel is, and it passes the    *)
(* assertion of updateChannel.                                             *)
HandleEvent(t) ==
  LET l == runs[t]
      fd == Head(active[l]).fd
      callback == IF "in" \in Head(active[l]).revents THEN callbacks[fd] ELSE Ignore
  IN
  /\ Loops(t) /\ at[t] = "handle"
  /\ active' = [active EXCEPT ![l] = Tail(@)]
  /\ at' = [at EXCEPT ![t] = IF active'[l] = << >> THEN "test" ELSE "handle"]
  /\ quit' = [quit EXCEPT ![l] = @ \/ callback.quits]
  /\ ready' = [ready EXCEPT ![fd] = IF callback.reads THEN @ \ {"in"} ELSE @]
  /\ \/ callback.enables = {} /\ UNCHANGED pollVars
     \/ /\ InLoopThread(t, Main)
        /\ \E other \in callback.enables : UpdateChannel(Main, other)
  /\ UNCHANGED <<programVars, existVars, runs, looping>>

(* Something happens to a descriptor.                                      *)
Event(fd, event) ==
  /\ process # "aborted" /\ event \notin ready[fd]
  /\ ready' = [ready EXCEPT ![fd] = @ \cup {event}]
  /\ UNCHANGED <<programVars, existVars, loopVars, pollVars>>

-----------------------------------------------------------------------------
ReactorCall(t) ==
  /\ \/ NewEventLoop(t) \/ DeleteEventLoop(t)
     \/ \E l \in Threads : Quit(t, l) \/ Loop(t, l)
     \/ \E fd \in Fds : EnableReading(t, fd)
  /\ UNCHANGED <<localVars, callbacks, ready>>

ThreadStep(t) ==
  \/ at[t] = "calls" /\ ReactorCall(t)
  \/ /\ at[t] = "calls" /\ LocalStep(t)
     /\ UNCHANGED <<callbacks, existVars, loopVars, pollVars, ready>>
  \/ TestQuit(t) \/ Poll(t) \/ HandleEvent(t)

(* After an abort, or when every thread has ended, nothing happens.        *)
Ended ==
  /\ \/ process = "aborted"
     \/ \A t \in Threads : life[t] \notin {"started", "running"}
  /\ UNCHANGED vars

Next ==
  \/ \E t \in Threads : ThreadStep(t)
  \/ \E fd \in Fds, event \in {"in", "hup"} : Event(fd, event)
  \/ Ended

Spec == Init /\ [][Next]_vars

(* A thread goes on, and poll returns within its timeout.                  *)
FairSpec == Spec /\ \A t \in Threads : WF_vars(ThreadStep(t))

-----------------------------------------------------------------------------
(* A channel's index_ finds its own pollfd, and no two channels share one, *)
(* however callbacks enable channels while the loop is dispatching: what   *)
(* the assertions of updateChannel and fillActiveChannels rely on.         *)
IndexFindsPollfd ==
  \A l \in loops : \A fd \in Fds :
    (l = Main /\ index[fd] >= 0) =>
      /\ index[fd] < Len(pollfds[l])
      /\ pollfds[l][index[fd] + 1] = fd

(* "XXX pollfds_ shouldn't change": while a thread is inside poll(2) no    *)
(* other one grows the vector under it, because every way in aborts when   *)
(* it is not called by the loop's thread.                                  *)
PollfdsStayInPoll ==
  [][\A t \in Threads :
       at[t] = "poll" /\ at'[t] = "poll" => pollfds'[runs[t]] = pollfds[runs[t]]]_vars

(* quit writes to no descriptor; it is the timeout of poll that makes a    *)
(* looping loop see it.                                                    *)
QuitStopsLoop ==
  \A l \in Threads : looping[l] /\ quit[l] ~> ~looping[l] \/ process = "aborted"

(* A readable channel gets its callback, wherever it is among the pollfds  *)
(* and whichever others hang up and stay ready, unless the loop ends.      *)
ReadableIsRead ==
  \A fd \in Fds :
    looping[Main] /\ index[fd] >= 0 /\ "in" \in ready[fd] /\ callbacks[fd].reads
      ~> "in" \notin ready[fd] \/ ~looping[Main] \/ process = "aborted"

(* A loop serves its channels until it is told to end, and then ends.      *)
LoopEndsOrReads == QuitStopsLoop /\ ReadableIsRead
=============================================================================
