----------------------------- MODULE Connector ------------------------------
(***************************************************************************)
(* Connector (28_muduo_TcpClient/src/Connector.cc): an active open with    *)
(* retries.  start and stop are called in any thread; they write connect_  *)
(* and queue a functor in the loop, and everything else runs there: in the *)
(* functors, in a timer of the back-off, in the events of the socket.  The *)
(* actions here are the loop thread's and a caller's; TcpClient adds what  *)
(* happens to an established connection, and the Next.                     *)
(*                                                                         *)
(* The loop runs its functors in batches (EventLoop): what an event queues *)
(* runs before the next poll, and what a functor queues in the next batch, *)
(* after the events of the poll in between.                                *)
(***************************************************************************)
EXTENDS Naturals, Sequences, FiniteSets

CONSTANTS Callers,     \* threads that call start and stop
          MaxStarts,   \* bound: calls of start
          MaxStops     \* bound: calls of stop

ASSUME ConnectorAssumption ==
  IsFiniteSet(Callers) /\ MaxStarts \in Nat /\ MaxStops \in Nat

kInitRetryDelayMs == 500
kMaxRetryDelayMs == 30 * 1000

VARIABLES
  wanted,     \* connect_ of the Connector
  state,      \* state_
  channel,    \* channel_: "none", "watched" by the poller, or "removed"
              \* from it and waiting for resetChannel
  delay,      \* retryDelayMs_
  timers,     \* timers of retry that have not expired
  sockets,    \* sockets created, neither closed nor handed over
  pending,    \* functors queued in the loop
  batch,      \* functors taken by the loop and not run yet
  due,        \* an event of this iteration has queued one: no poll before it
  call,       \* per caller: the functor it is about to queue, or "idle"
  starts, stops,  \* history: calls made
  stopped,    \* history: stop was called after the last start
  gaveUp,     \* history: connect failed with an errno that is not retried
  fault       \* "none", or the function an assertion of which has failed:
              \* the process stops there

channelVars == <<state, channel, sockets>>
retryVars == <<delay, timers, gaveUp>>
queueVars == <<pending, batch, due>>
callVars == <<call, starts, stops, stopped>>
connectorVars == <<wanted, channelVars, retryVars, queueVars, callVars, fault>>

ConnectorInit ==
  /\ wanted = FALSE /\ state = "kDisconnected" /\ channel = "none"
  /\ delay = kInitRetryDelayMs /\ timers = 0 /\ sockets = 0
  /\ pending = << >> /\ batch = << >> /\ due = FALSE
  /\ call = [t \in Callers |-> "idle"]
  /\ starts = 0 /\ stops = 0 /\ stopped = FALSE /\ gaveUp = FALSE
  /\ fault = "none"

Check(assertion, function) == fault' = IF assertion THEN fault ELSE function
Smaller(a, b) == IF a < b THEN a ELSE b

(* How often a functor is in a queue                                       *)
Queued(f, queue) == Cardinality({i \in DOMAIN queue : queue[i] = f})

-----------------------------------------------------------------------------
(* Faulty variant of retry: nobody tries again.                            *)
LostRetry(want, d, left) == timers' = left /\ delay' = d

(* retry: the timer and the back-off; the socket is closed and state_ set  *)
(* to kDisconnected by those who call it.  left counts the other timers.   *)
Retry(want, d, left) ==
  /\ timers' = IF want THEN left + 1 ELSE left
  /\ delay' = IF want THEN Smaller(d * 2, kMaxRetryDelayMs) ELSE d

(* connect, in kDisconnected: by errno the socket is connecting, closed to *)
(* be retried, or closed.                                                  *)
Connect(want, d, left) ==
  \/ /\ state' = "kConnecting" /\ Check(channel = "none", "connecting")
     /\ channel' = "watched" /\ sockets' = sockets + 1
     /\ timers' = left /\ delay' = d
     /\ UNCHANGED gaveUp
  \/ /\ state' = "kDisconnected"
     /\ Retry(want, d, left)
     /\ UNCHANGED <<channel, sockets, gaveUp, fault>>
  \/ /\ state' = "kDisconnected" /\ gaveUp' = TRUE
     /\ timers' = left /\ delay' = d
     /\ UNCHANGED <<channel, sockets, fault>>

StartInLoop(left) ==
  IF state = "kDisconnected" /\ wanted
     THEN Connect(wanted, delay, left)
     ELSE /\ Check(state = "kDisconnected", "startInLoop")
          /\ timers' = left
          /\ UNCHANGED <<channelVars, delay, gaveUp>>

(* restart, in the loop thread.                                            *)
Restart == wanted' = TRUE /\ Connect(TRUE, kInitRetryDelayMs, timers)

(* Faulty variants: the channel stays in the poller, or is never reset.    *)
BadRemoveAndResetChannel(queue) ==
  /\ UNCHANGED channel
  /\ pending' = Append(pending, "resetChannel") /\ batch' = queue
  /\ due' = (batch = << >>)
NeverResetChannel(queue) ==
  channel' = "removed" /\ batch' = queue /\ UNCHANGED <<pending, due>>

(* removeAndResetChannel, in an event or in a functor; queue is what the   *)
(* functor's batch still has to run.                                       *)
RemoveAndResetChannel(queue) ==
  /\ channel' = "removed"
  /\ pending' = Append(pending, "resetChannel") /\ batch' = queue
  /\ due' = (batch = << >>)

StopInLoop(want, queue) ==
  IF state = "kConnecting"
     THEN /\ state' = "kDisconnected" /\ sockets' = sockets - 1
          /\ RemoveAndResetChannel(queue)
          /\ Retry(want, delay, timers)
     ELSE batch' = queue /\ UNCHANGED <<channelVars, delay, timers, pending, due>>

-----------------------------------------------------------------------------
(* The steps of the loop thread.  Events come between batches.             *)

TakeFunctors ==
  /\ batch = << >> /\ pending # << >>
  /\ batch' = pending /\ pending' = << >> /\ due' = FALSE
  /\ UNCHANGED <<wanted, channelVars, retryVars, callVars, fault>>

RunFunctor ==
  /\ batch # << >>
  /\ \/ /\ Head(batch) = "startInLoop"
        /\ StartInLoop(timers)
        /\ batch' = Tail(batch) /\ UNCHANGED <<pending, due>>
     \/ /\ Head(batch) = "stopInLoop"
        /\ StopInLoop(wanted, Tail(batch))
        /\ UNCHANGED <<gaveUp, fault>>
     \/ /\ Head(batch) = "resetChannel"
        /\ channel' = "none"
        /\ batch' = Tail(batch)
        /\ UNCHANGED <<state, sockets, retryVars, pending, due, fault>>
  /\ UNCHANGED <<wanted, callVars>>

(* A timer of retry.  It waits 500 ms at least, but nothing else orders it *)
(* with the resetChannel of the attempt it follows.  What stopInLoop queued*)
(* has not run when the next poll reports the timerfd, if the rest of the  *)
(* batch has taken as long.  What an event queued runs before the next poll*)
(* and so comes first, unless the poll that reported the event has reported*)
(* the timerfd too, for another timer, and the handlers between them have  *)
(* taken as long.                                                          *)
TimerExpires ==
  /\ batch = << >> /\ timers > 0
  /\ StartInLoop(timers - 1)
  /\ UNCHANGED <<wanted, queueVars, callVars>>

(* What a socket is found to be once the poller reports it: its SO_ERROR    *)
(* and its two addresses.  Where nobody listens, a client on the server's  *)
(* host may be given the server's port and connect to itself.              *)
Events == {"error", "write"}
Outcomes == [error : {"none", "ECONNREFUSED"}, local : {"ours", "server's"},
             peer : {"server's"}]

GetSocketError(s) == s.error
IsSelfConnect(s)  == s.local = s.peer

Established(s) == GetSocketError(s) = "none" /\ ~IsSelfConnect(s)

(* The poller reports an error (handleError), or that the socket can be    *)
(* written (handleWrite), which does not mean that it is connected.        *)
ConnectFails(event, s) ==
  /\ batch = << >> /\ channel = "watched"
  /\ event = "write" => ~Established(s)
  /\ Check(state = "kConnecting", "handleError")
  /\ state' = "kDisconnected" /\ sockets' = sockets - 1
  /\ RemoveAndResetChannel(batch)
  /\ Retry(wanted, delay, timers)
  /\ UNCHANGED <<wanted, gaveUp, callVars>>

(* Faulty variant: the socket is handed over even if it is not wanted.     *)
BadHandsOver == TRUE

(* handleWrite tests connect_ before it calls newConnectionCallback_.      *)
HandsOver == wanted

(* Faulty variant: a socket that nobody wants any more is left open.       *)
BadConnectSucceeds(s) ==
  /\ batch = << >> /\ channel = "watched" /\ state = "kConnecting"
  /\ Established(s)
  /\ state' = "kConnected" /\ UNCHANGED sockets
  /\ RemoveAndResetChannel(batch)
  /\ UNCHANGED <<wanted, retryVars, callVars, fault>>

(* handleWrite finds the connection established: the socket is closed, if  *)
(* it is not wanted any more, and else kept for newConnectionCallback_.    *)
ConnectSucceeds(s) ==
  /\ batch = << >> /\ channel = "watched" /\ state = "kConnecting"
  /\ Established(s)
  /\ state' = "kConnected" /\ sockets' = IF HandsOver THEN sockets ELSE sockets - 1
  /\ RemoveAndResetChannel(batch)
  /\ UNCHANGED <<wanted, retryVars, callVars, fault>>

-----------------------------------------------------------------------------
(* start and stop in another thread: the write of connect_, then the call  *)
(* of queueInLoop.                                                         *)
Start(t) ==
  /\ call[t] = "idle" /\ starts < MaxStarts /\ starts' = starts + 1
  /\ wanted' = TRUE /\ stopped' = FALSE
  /\ call' = [call EXCEPT ![t] = "startInLoop"]
  /\ UNCHANGED <<channelVars, retryVars, queueVars, stops, fault>>

(* clean: the loop thread is not between a test of connect_ and the call   *)
(* that rests on it, which goes on whatever is written now.                *)
Stop(t, clean) ==
  /\ call[t] = "idle" /\ stops < MaxStops /\ stops' = stops + 1
  /\ wanted' = FALSE /\ stopped' = (stopped \/ clean)
  /\ call' = [call EXCEPT ![t] = "stopInLoop"]
  /\ UNCHANGED <<channelVars, retryVars, queueVars, starts, fault>>

QueueInLoop(t) ==
  /\ call[t] # "idle"
  /\ pending' = Append(pending, call[t])
  /\ call' = [call EXCEPT ![t] = "idle"]
  /\ UNCHANGED <<wanted, channelVars, retryVars, batch, due, starts, stops, stopped,
                 fault>>

-----------------------------------------------------------------------------
(* startInLoop finds kDisconnected and the events find a connection under  *)
(* way (Connector.cc:52, 199, 207), whatever the order of timers, functors,*)
(* events and stops; and connecting finds no channel (135), but where a    *)
(* timer of retry has come before the resetChannel it should follow.       *)
AssertionsHold ==
  [][TimerExpires /\ Queued("resetChannel", pending) > 0 /\ fault' = "connecting"]_fault

(* retryDelayMs_ doubles from 0.5 s to 30 s and stays there.               *)
BackOff == delay \in {500, 1000, 2000, 4000, 8000, 16000} \cup {kMaxRetryDelayMs}

(* Who is about to queue a startInLoop                                     *)
Starters == {t \in Callers : call[t] = "startInLoop"}

(* The connector makes one attempt at a time: what may lead to a connect   *)
(* is one call of start on its way, one timer, or one socket connecting.   *)
Starting ==
  Cardinality(Starters) + Queued("startInLoop", pending) + Queued("startInLoop", batch)
OneAttempt == Starting + timers + (IF state = "kConnecting" THEN 1 ELSE 0) <= 1
=============================================================================
