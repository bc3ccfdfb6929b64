----------------------------- MODULE TcpClient ------------------------------
(***************************************************************************)
(* TcpClient (28_muduo_TcpClient/src/TcpClient.cc) over its Connector: a   *)
(* client connects, disconnects and stops in any thread, hears of its      *)
(* connection in the loop thread and, if enableRetry was called, connects  *)
(* again when the connection closes.  handleWrite's and removeConnection's *)
(* tests of connect_, and the calls of newConnection and of restart that   *)
(* rest on them, are steps of their own: other threads may stop between.   *)
(* A connection itself is TcpServer's TcpConnection; here it is open until *)
(* its close callback.                                                     *)
(***************************************************************************)
EXTENDS Connector

CONSTANT MaxConns       \* bound: connections that may be closed

ASSUME TcpClientAssumption == MaxConns \in Nat

VARIABLES
  retry,        \* retry_
  connect,      \* connect_ of the TcpClient
  connection,   \* connection_: the number of a connection, or 0
  nextConnId,   \* nextConnId_
  open,         \* connections established and not closed
  calling,      \* what the loop thread calls next, its test of connect_ behind
                \* it: "newConnection", "restart" or "none"
  destroyed,    \* ~TcpClient has run
  stoppedAt     \* history: nextConnId_ at the first stop since connect, or 0

clientVars ==
  <<retry, connect, connection, nextConnId, open, calling, destroyed, stoppedAt>>
vars == <<connectorVars, clientVars>>

Init ==
  /\ ConnectorInit
  /\ retry \in BOOLEAN /\ connect = TRUE
  /\ connection = 0 /\ nextConnId = 1 /\ open = {}
  /\ calling = "none" /\ destroyed = FALSE /\ stoppedAt = 0

(* The first stop of those since connect, at the connection number id.     *)
FirstStop(id) == stoppedAt' = IF stoppedAt = 0 THEN id ELSE stoppedAt

(* stop called by the user in a callback: runInLoop runs stopInLoop at     *)
(* once, in kConnected, where it does nothing.  id is the next connection's*)
(* number.                                                                 *)
StopHere(stop, id) ==
  /\ wanted' = (wanted /\ ~stop)
  /\ connect' = (connect /\ ~stop)
  /\ stopped' = (stopped \/ stop)
  /\ stops' = IF stop THEN stops + 1 ELSE stops
  /\ stop => stops < MaxStops
  /\ IF stop THEN FirstStop(id) ELSE UNCHANGED stoppedAt
  /\ UNCHANGED <<call, starts>>

(* handleWrite up to its test of connect_.                                 *)
HandleWrite ==
  /\ calling = "none"
  /\ \E s \in Outcomes : ConnectSucceeds(s)
  /\ calling' = IF HandsOver THEN "newConnection" ELSE "none"
  /\ UNCHANGED <<retry, connect, connection, nextConnId, open, destroyed, stoppedAt>>

(* newConnection, with the user's connectionCallback_.                     *)
NewConnection ==
  /\ calling = "newConnection" /\ calling' = "none"
  /\ sockets' = sockets - 1
  /\ nextConnId' = nextConnId + 1
  /\ connection' = nextConnId
  /\ open' = open \cup {nextConnId}
  /\ \E stop \in BOOLEAN : StopHere(stop, nextConnId + 1)
  /\ UNCHANGED <<state, channel, retryVars, queueVars, fault, retry, destroyed>>

(* Faulty variant: connection_ still holds the connection that closed.     *)
BadForgetConnection == UNCHANGED connection

(* connection_.reset() *)
ForgetConnection == connection' = 0

(* Faulty variant: who was told to stop reconnects all the same.           *)
BadWantsReconnect == retry

(* removeConnection's test                                                 *)
WantsReconnect == retry /\ connect'

(* A connection closes, reported by a later poll than the one that found   *)
(* its socket connected: the user's callback, then removeConnection up to  *)
(* its test of retry_ and connect_.                                        *)
CloseConnection(c) ==
  /\ ~destroyed
  /\ batch = << >> /\ ~due /\ c \in open /\ nextConnId <= MaxConns
  /\ open' = open \ {c}
  /\ Check(connection = c, "removeConnection")
  /\ ForgetConnection
  /\ \E stop \in BOOLEAN : StopHere(stop, nextConnId)
  /\ calling' = IF WantsReconnect THEN "restart" ELSE "none"
  /\ UNCHANGED <<channelVars, retryVars, queueVars, retry, nextConnId, destroyed>>

(* removeConnection goes on with connector_->restart().                    *)
Reconnect ==
  /\ calling = "restart" /\ calling' = "none"
  /\ Restart
  /\ UNCHANGED <<queueVars, callVars, retry, connect, connection, nextConnId, open,
                 destroyed, stoppedAt>>

(* Faulty variant: an unconnected Connector is left as it is.              *)
BadStopConnector ==
  UNCHANGED <<wanted, channelVars, delay, timers, queueVars, callVars>>

(* ~TcpClient without a connection: connector_->stop() in the loop thread. *)
StopConnector ==
  /\ wanted' = FALSE
  /\ StopInLoop(FALSE, batch)
  /\ UNCHANGED callVars

(* With one: the connection gets a closeCallback_ that does without client.*)
KeepConnection ==
  UNCHANGED <<wanted, channelVars, delay, timers, queueVars, callVars>>

(* ~TcpClient in the loop thread, in an event of its own, while no other   *)
(* thread calls the client and no functor of one is left: those, like the  *)
(* resetChannel of this iteration, bind a raw pointer to the Connector.    *)
DestroyClient ==
  /\ calling = "none" /\ ~destroyed /\ destroyed' = TRUE
  /\ batch = << >> /\ pending = << >> /\ \A t \in Callers : call[t] = "idle"
  /\ IF connection = 0 THEN StopConnector ELSE KeepConnection
  /\ UNCHANGED <<gaveUp, fault, retry, connect, connection, nextConnId, open, calling,
                 stoppedAt>>

(* The connection of a client that is gone closes: detail::removeConnection*)
(* has it destroyed.                                                       *)
CloseOrphan(c) ==
  /\ destroyed /\ batch = << >> /\ ~due /\ c \in open
  /\ open' = open \ {c} /\ connection' = 0
  /\ UNCHANGED <<connectorVars, retry, connect, nextConnId, calling, destroyed, stoppedAt>>

LoopThread ==
  \/ /\ calling = "none"
     /\ \/ TakeFunctors \/ RunFunctor \/ TimerExpires
        \/ \E e \in Events, s \in Outcomes : ConnectFails(e, s)
     /\ UNCHANGED clientVars
  \/ HandleWrite
  \/ calling = "none" /\ \E c \in open : CloseConnection(c) \/ CloseOrphan(c)
  \/ NewConnection \/ Reconnect

(* connect, stop and disconnect in other threads; disconnect's shutdown    *)
(* of the connection is TcpServer's.  The two flags are written one after  *)
(* the other, the client's first; that is one step here, since the client's*)
(* is read only when a connection has closed, and the other no more then.  *)
ConnectClient(t) ==
  /\ ~destroyed
  /\ starts > 0 => stopped
  /\ Start(t) /\ connect' = TRUE /\ stoppedAt' = 0
  /\ UNCHANGED <<retry, connection, nextConnId, open, calling, destroyed>>

StopClient(t) ==
  /\ ~destroyed
  /\ Stop(t, calling = "none") /\ connect' = FALSE /\ FirstStop(nextConnId)
  /\ UNCHANGED <<retry, connection, nextConnId, open, calling, destroyed>>

QueueCall(t) == QueueInLoop(t) /\ UNCHANGED clientVars

Disconnect ==
  /\ ~destroyed
  /\ connect /\ connect' = FALSE
  /\ UNCHANGED <<connectorVars, retry, connection, nextConnId, open, calling, destroyed,
                 stoppedAt>>

Next ==
  /\ fault = "none"
  /\ \/ LoopThread \/ Disconnect \/ DestroyClient
     \/ \E t \in Callers : ConnectClient(t) \/ StopClient(t) \/ QueueCall(t)

Spec == Init /\ [][Next]_vars

(* The loop and a caller inside a call go on; and a server that is asked   *)
(* again and again sometimes accepts, which is the environment's part.     *)
FairSpec ==
  /\ Spec
  /\ WF_vars(LoopThread)
  /\ \A t \in Callers : WF_vars(QueueCall(t))
  /\ SF_vars(LoopThread /\ state = "kDisconnected" /\ state' = "kConnecting")
  /\ SF_vars(HandleWrite)

-----------------------------------------------------------------------------
(* Every socket is closed or handed over: one is open exactly while it is  *)
(* connecting, watched by the poller, or on its way to newConnection.      *)
SocketsAccounted ==
  /\ sockets = IF state = "kConnecting" \/ calling = "newConnection" THEN 1 ELSE 0
  /\ state = "kConnecting" <=> channel = "watched"

(* connection_ is the one connection that is open: none is forgotten, and  *)
(* while it is open, or about to be made or replaced, nothing else connects*)
OneConnection ==
  /\ open = IF connection = 0 THEN {} ELSE {connection}
  /\ connection # 0 \/ calling # "none" => state = "kConnected" /\ timers = 0

(* A client has one attempt, one socket or one connection at a time, and   *)
(* loses none, through all retries, stops, closes and reconnections.       *)
OneAtATime == BackOff /\ OneAttempt /\ SocketsAccounted /\ OneConnection

(* From a stop in any thread on, no connection is handed to the user until *)
(* connect is called again, unless the stop fell between a test of connect_*)
(* and the call that rests on it; and from ~TcpClient on there is none.    *)
StopHolds == [][stopped \/ destroyed => nextConnId' = nextConnId]_vars

(* Wherever a stop falls, in those two windows too, one more connection at *)
(* most is handed to the user until connect is called again, although      *)
(* restart has the Connector go on as if there had been no stop.           *)
OneMoreAtMost == stoppedAt # 0 => nextConnId <= stoppedAt + 1

(* Once connect was called the client is connected again and again, unless *)
(* the user stopped or destroyed it, or disconnected it or did not enable  *)
(* retry, or connect failed with an errno that is not retried, or an       *)
(* assertion has failed.                                                   *)
Reconnects ==
  starts > 0 ~> \/ connection # 0 \/ stops > 0 \/ gaveUp \/ fault # "none"
                \/ ~connect \/ (~retry /\ nextConnId > 1) \/ destroyed
=============================================================================
