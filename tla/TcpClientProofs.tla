-------------------------- MODULE TcpClientProofs ---------------------------
(* Theorems about TcpClient and its Connector, for every set of callers    *)
(* and any number of stops, connections and retries, if connect is called  *)
(* once: "FIXME: check state", says TcpClient::connect of the second call. *)
EXTENDS TcpClient, SequenceTheorems, FiniteSetTheorems, FunctionTheorems, TLAPS

Functors == {"startInLoop", "stopInLoop", "resetChannel"}
Delays == {500, 1000, 2000, 4000, 8000, 16000, kMaxRetryDelayMs}

TypeOK ==
  /\ state \in {"kDisconnected", "kConnecting", "kConnected"}
  /\ channel \in {"none", "watched", "removed"}
  /\ delay \in Delays /\ timers \in Nat /\ starts \in Nat
  /\ pending \in Seq(Functors) /\ batch \in Seq(Functors)
  /\ call \in [Callers -> {"idle", "startInLoop", "stopInLoop"}]
  /\ connection \in Nat /\ nextConnId \in Nat \ {0} /\ stoppedAt \in Nat
  /\ calling \in {"none", "newConnection", "restart"} /\ fault \in {"none", "connecting"}

Flags ==
  /\ wanted \in BOOLEAN /\ stopped \in BOOLEAN /\ gaveUp \in BOOLEAN
  /\ retry \in BOOLEAN /\ connect \in BOOLEAN
  /\ destroyed \in BOOLEAN /\ due \in BOOLEAN

(* One attempt or connection at a time, and the first before any other.    *)
One ==
  /\ Starting \in {0, 1} /\ timers \in {0, 1}
  /\ Starting = 1 \/ timers = 1 => state = "kDisconnected"
  /\ Starting = 1 => timers = 0 /\ channel = "none"
  /\ starts = 0 => Starting = 0 /\ timers = 0 /\ state = "kDisconnected" /\ channel = "none"

(* A channel that was removed has its reset before it, as long as nothing  *)
(* has connected too early; once connected, it is reset before a next poll.*)
Channels ==
  /\ SocketsAccounted
  /\ fault = "none" =>
       Queued("resetChannel", pending) + Queued("resetChannel", batch)
         = IF channel = "removed" THEN 1 ELSE 0
  /\ state = "kConnected" /\ ~due => Queued("resetChannel", pending) = 0

(* What the loop thread is about to call finds no connection.              *)
Connections ==
  /\ OneConnection
  /\ calling # "none" => connection = 0 /\ ~destroyed
  /\ calling = "restart" => channel = "none"

(* A stop holds against all that is under way, but for a call that is made *)
(* already; and a connection that comes of that one is the last.           *)
Stops ==
  /\ stopped => ~wanted /\ ~connect /\ calling = "none"
  /\ destroyed => ~wanted \/ state = "kConnected"
  /\ stoppedAt # 0 => /\ ~connect /\ nextConnId \in {stoppedAt, stoppedAt + 1}
                      /\ nextConnId # stoppedAt => state = "kConnected" /\ calling = "none"

IInv == TypeOK /\ Flags /\ One /\ Channels /\ Connections /\ Stops

-----------------------------------------------------------------------------
(* An empty queue counts no functor.                                       *)
LEMMA QueuedEmpty ==
  ASSUME NEW f PROVE Queued(f, << >>) = 0
<1>1. {i \in DOMAIN << >> : << >>[i] = f} = {}
  OBVIOUS
<1>2. QED
  BY <1>1, FS_EmptySet DEF Queued

(* What a queue counts is a number.                                        *)
LEMMA QueuedFinite ==
  ASSUME NEW f, NEW S, NEW q \in Seq(S)
  PROVE  /\ IsFiniteSet({i \in 1..Len(q) : q[i] = f}) /\ Queued(f, q) \in Nat
         /\ Queued(f, q) = Cardinality({i \in 1..Len(q) : q[i] = f})
<1>1. Len(q) \in Nat /\ DOMAIN q = 1..Len(q)
  BY LenProperties
<1>2. IsFiniteSet(1..Len(q))
  BY <1>1, FS_Interval
<1>3. IsFiniteSet({i \in 1..Len(q) : q[i] = f})
  BY <1>2, FS_Subset
<1>4. QED
  BY <1>1, <1>3, FS_CardinalityType DEF Queued

(* A functor that is queued is counted once more.                          *)
LEMMA QueuedAppend ==
  ASSUME NEW f, NEW S, NEW q \in Seq(S), NEW x \in S
  PROVE  /\ Append(q, x) \in Seq(S)
         /\ Queued(f, Append(q, x)) = Queued(f, q) + IF x = f THEN 1 ELSE 0
<1> DEFINE Old == {i \in 1..Len(q) : q[i] = f}
           New == {i \in 1..Len(Append(q, x)) : Append(q, x)[i] = f}
<1>1. /\ Append(q, x) \in Seq(S) /\ Len(Append(q, x)) = Len(q) + 1 /\ Len(q) \in Nat
      /\ \A i \in 1..Len(q) : Append(q, x)[i] = q[i]
      /\ Append(q, x)[Len(q) + 1] = x
  BY AppendProperties, LenProperties
<1>2. 1..Len(q) + 1 = (1..Len(q)) \cup {Len(q) + 1} /\ Len(q) + 1 \notin 1..Len(q)
  BY <1>1
<1>3. /\ Queued(f, q) = Cardinality(Old) /\ IsFiniteSet(Old) /\ Queued(f, q) \in Nat
      /\ Queued(f, Append(q, x)) = Cardinality(New)
  BY <1>1, QueuedFinite
<1>4. Len(q) + 1 \notin Old
  BY <1>2
<1>5. /\ x = f => New = Old \cup {Len(q) + 1}
      /\ x # f => New = Old
  BY <1>1, <1>2
<1> HIDE DEF Old, New
<1>6. x = f => Cardinality(New) = Cardinality(Old) + 1
  BY <1>3, <1>4, <1>5, FS_AddElement
<1>7. QED
  BY <1>1, <1>3, <1>5, <1>6

(* A functor that leaves the queue is counted once less.                   *)
LEMMA QueuedTail ==
  ASSUME NEW f, NEW S, NEW q \in Seq(S), q # << >>
  PROVE  /\ Tail(q) \in Seq(S) /\ Head(q) \in S /\ Queued(f, Tail(q)) \in Nat
         /\ Queued(f, q) = Queued(f, Tail(q)) + IF Head(q) = f THEN 1 ELSE 0
<1> DEFINE Old == {i \in 1..Len(q) : q[i] = f}
           New == {i \in 1..Len(Tail(q)) : Tail(q)[i] = f}
           Shift == [i \in New |-> i + 1]
<1>1. Len(q) \in Nat /\ Len(q) > 0
  BY EmptySeq, LenProperties
<1>2. /\ Tail(q) \in Seq(S) /\ Len(Tail(q)) = Len(q) - 1 /\ Head(q) = q[1] /\ Head(q) \in S
      /\ \A i \in 1..Len(q) - 1 : Tail(q)[i] = q[i + 1]
  BY <1>1, HeadTailProperties
<1>3. /\ Queued(f, q) = Cardinality(Old) /\ IsFiniteSet(Old)
      /\ Queued(f, Tail(q)) = Cardinality(New) /\ IsFiniteSet(New)
      /\ Cardinality(New) \in Nat
  <2>1. Queued(f, q) = Cardinality(Old) /\ IsFiniteSet(Old)
    BY QueuedFinite
  <2>2. Tail(q) \in Seq(S)
    BY <1>2
  <2> HIDE DEF Old
  <2>3. /\ Queued(f, Tail(q)) = Cardinality(New) /\ IsFiniteSet(New)
        /\ Queued(f, Tail(q)) \in Nat
    BY <2>2, QueuedFinite
  <2>4. QED
    BY <2>1, <2>3
<1>4. Shift \in Bijection(New, Old \ {1})
  <2>1. Shift \in [New -> Old \ {1}]
    <3>1. ASSUME NEW i \in New PROVE i + 1 \in Old \ {1}
      BY <1>1, <1>2
    <3>2. QED
      BY <3>1
  <2>2. \A i, j \in New : Shift[i] = Shift[j] => i = j
    <3>1. New \subseteq Nat
      OBVIOUS
    <3>2. \A i, j \in New : i + 1 = j + 1 => i = j
      BY <3>1
    <3>3. QED
      BY <3>2
  <2>3. ASSUME NEW j \in Old \ {1} PROVE \E i \in New : Shift[i] = j
    <3>1. j - 1 \in 1..Len(q) - 1 /\ (j - 1) + 1 = j
      BY <1>1
    <3>2. j - 1 \in New
      BY <1>2, <3>1
    <3>3. QED
      BY <3>1, <3>2
  <2>4. QED
    BY <2>1, <2>2, <2>3, Fun_IsBij
<1>5. /\ Head(q) = f => 1 \in Old
      /\ Head(q) # f => Old \ {1} = Old
  BY <1>1, <1>2
<1> HIDE DEF Old, New
<1>6. Cardinality(New) = Cardinality(Old \ {1})
  <2>1. ExistsBijection(New, Old \ {1})
    BY <1>4 DEF ExistsBijection
  <2>2. QED
    BY <1>3, <2>1, FS_Bijection
<1>7. Head(q) = f => Cardinality(Old) = Cardinality(New) + 1
  <2>1. Cardinality(Old) \in Nat
    BY <1>3, FS_CardinalityType
  <2>2. Head(q) = f => Cardinality(Old \ {1}) = Cardinality(Old) - 1
    BY <1>3, <1>5, FS_RemoveElement
  <2>3. QED
    BY <1>3, <1>6, <2>1, <2>2
<1>8. Head(q) # f => Cardinality(Old) = Cardinality(New)
  BY <1>5, <1>6
<1>9. QED
  BY <1>2, <1>3, <1>7, <1>8

(* The callers about to queue a start are counted.                         *)
LEMMA StartersStep ==
  ASSUME TypeOK, NEW t \in Callers, NEW v, call' = [call EXCEPT ![t] = v]
  PROVE  /\ Cardinality(Starters) \in Nat /\ Cardinality(Starters') \in Nat
         /\ Cardinality(Starters) + (IF v = "startInLoop" THEN 1 ELSE 0)
              = Cardinality(Starters') + (IF call[t] = "startInLoop" THEN 1 ELSE 0)
<1> DEFINE Rest == {u \in Callers \ {t} : call[u] = "startInLoop"}
<1>1. IsFiniteSet(Rest) /\ t \notin Rest
  <2>1. Rest \subseteq Callers
    OBVIOUS
  <2>2. QED
    BY <2>1, ConnectorAssumption, FS_Subset
<1>2. /\ Cardinality(Rest) \in Nat /\ Cardinality(Rest \cup {t}) = Cardinality(Rest) + 1
  BY <1>1, FS_AddElement, FS_CardinalityType
<1>3. Starters = IF call[t] = "startInLoop" THEN Rest \cup {t} ELSE Rest
  BY DEF Starters
<1>4. Starters' = IF v = "startInLoop" THEN Rest \cup {t} ELSE Rest
  BY DEF Starters, TypeOK
<1> HIDE DEF Rest
<1>5. QED
  BY <1>2, <1>3, <1>4

(* What sums of naturals come to.                                          *)
LEMMA Sums ==
  ASSUME NEW a \in Nat, NEW b \in Nat, NEW c \in Nat
  PROVE  /\ a + b + (c + 1) \in {0, 1} => a = 0 /\ b = 0 /\ c = 0 /\ a + b + (c + 1) = 1
         /\ a + b + c = 0 => a = 0 /\ b = 0 /\ c = 0
OBVIOUS

(* All these numbers are numbers.                                          *)
LEMMA Numbers ==
  ASSUME TypeOK
  PROVE  /\ Cardinality(Starters) \in Nat
         /\ Queued("startInLoop", pending) \in Nat /\ Queued("startInLoop", batch) \in Nat
         /\ Queued("resetChannel", pending) \in Nat /\ Queued("resetChannel", batch) \in Nat
         /\ Starting \in Nat /\ timers \in Nat
<1>1. Starters \subseteq Callers
  BY DEF Starters
<1>2. Cardinality(Starters) \in Nat
  BY <1>1, ConnectorAssumption, FS_Subset, FS_CardinalityType
<1>3. /\ Queued("startInLoop", pending) \in Nat /\ Queued("startInLoop", batch) \in Nat
      /\ Queued("resetChannel", pending) \in Nat /\ Queued("resetChannel", batch) \in Nat
  BY QueuedFinite DEF TypeOK
<1>4. QED
  BY <1>2, <1>3 DEF Starting, TypeOK

-----------------------------------------------------------------------------
(* The back-off stays on its steps.                                        *)
LEMMA RetryEffect ==
  ASSUME NEW want, NEW d \in Delays, NEW left, left = 0, Retry(want, d, left)
  PROVE  delay' \in Delays /\ timers' \in {0, 1}
<1>1. Smaller(d * 2, kMaxRetryDelayMs) \in Delays
  BY DEF Delays, Smaller, kMaxRetryDelayMs
<1>2. QED
  BY <1>1 DEF Retry

(* A connect leads to one socket, to one timer or to nothing.              *)
LEMMA ConnectEffect ==
  ASSUME NEW want, NEW d \in Delays, NEW left, left = 0, Connect(want, d, left),
         channel \in {"none", "removed"}, sockets = 0, fault = "none", gaveUp \in BOOLEAN
  PROVE  /\ delay' \in Delays /\ timers' \in {0, 1} /\ gaveUp' \in BOOLEAN
         /\ state' \in {"kConnecting", "kDisconnected"} /\ fault' \in {"none", "connecting"}
         /\ channel = "none" \/ state' = "kDisconnected" => fault' = "none"
         /\ channel = "removed" /\ state' = "kConnecting" => fault' = "connecting"
         /\ channel' = IF state' = "kConnecting" THEN "watched" ELSE channel
         /\ sockets' = IF state' = "kConnecting" THEN 1 ELSE 0
         /\ timers' = 1 => state' = "kDisconnected"
<1>1. CASE /\ state' = "kConnecting" /\ Check(channel = "none", "connecting")
           /\ channel' = "watched" /\ sockets' = sockets + 1
           /\ timers' = left /\ delay' = d
           /\ UNCHANGED gaveUp
  BY <1>1 DEF Check
<1>2. CASE /\ state' = "kDisconnected" /\ Retry(want, d, left)
           /\ UNCHANGED <<channel, sockets, gaveUp, fault>>
  <2>1. delay' \in Delays /\ timers' \in {0, 1}
    BY <1>2, RetryEffect
  <2>2. gaveUp' = gaveUp /\ fault' = fault /\ channel' = channel /\ sockets' = sockets
    BY <1>2
  <2>4. gaveUp' \in BOOLEAN
    BY <2>2, Zenon
  <2>5. state' = "kDisconnected" /\ channel' = channel /\ sockets' = 0 /\ fault' = "none"
    BY <1>2, <2>2
  <2>6. QED
    BY <2>1, <2>4, <2>5
<1>3. CASE /\ state' = "kDisconnected" /\ gaveUp' = TRUE
           /\ timers' = left /\ delay' = d
           /\ UNCHANGED <<channel, sockets, fault>>
  BY <1>3
<1>4. QED
  BY <1>1, <1>2, <1>3 DEF Connect

(* So does startInLoop.                                                    *)
LEMMA StartEffect ==
  ASSUME NEW left, left = 0, StartInLoop(left), delay \in Delays, state = "kDisconnected",
         channel \in {"none", "removed"}, sockets = 0, fault = "none", gaveUp \in BOOLEAN
  PROVE  /\ delay' \in Delays /\ timers' \in {0, 1} /\ gaveUp' \in BOOLEAN
         /\ state' \in {"kConnecting", "kDisconnected"} /\ fault' \in {"none", "connecting"}
         /\ channel = "none" \/ state' = "kDisconnected" => fault' = "none"
         /\ channel = "removed" /\ state' = "kConnecting" => fault' = "connecting"
         /\ channel' = IF state' = "kConnecting" THEN "watched" ELSE channel
         /\ sockets' = IF state' = "kConnecting" THEN 1 ELSE 0
         /\ timers' = 1 => state' = "kDisconnected"
<1>1. CASE wanted
  <2>1. Connect(wanted, delay, left)
    BY <1>1 DEF StartInLoop
  <2>2. QED
    BY <2>1, ConnectEffect
<1>2. CASE ~wanted
  BY <1>2 DEF StartInLoop, Check, channelVars
<1>3. QED
  BY <1>1, <1>2

(* A socket that was connecting gives way to the reset of its channel.     *)
LEMMA RemoveEffect ==
  ASSUME TypeOK, NEW queue, RemoveAndResetChannel(queue)
  PROVE  /\ channel' = "removed" /\ batch' = queue /\ pending' \in Seq(Functors)
         /\ due' \in BOOLEAN /\ (batch = << >> => due')
         /\ Queued("startInLoop", pending') = Queued("startInLoop", pending)
         /\ Queued("resetChannel", pending') = Queued("resetChannel", pending) + 1
<1>1. pending' = Append(pending, "resetChannel") /\ channel' = "removed" /\ batch' = queue
      /\ due' = (batch = << >>)
  BY DEF RemoveAndResetChannel
<1>2. pending \in Seq(Functors) /\ "resetChannel" \in Functors
  BY DEF TypeOK, Functors
<1>3. /\ pending' \in Seq(Functors)
      /\ Queued("startInLoop", pending')
           = Queued("startInLoop", pending) + IF "resetChannel" = "startInLoop" THEN 1 ELSE 0
  BY <1>1, <1>2, QueuedAppend
<1>4. Queued("resetChannel", pending')
        = Queued("resetChannel", pending) + IF "resetChannel" = "resetChannel" THEN 1 ELSE 0
  BY <1>1, <1>2, QueuedAppend
<1>5. due' \in BOOLEAN /\ (batch = << >> => due')
  BY <1>1, Zenon
<1>6. QED
  BY <1>1, <1>3, <1>4, <1>5, Numbers

-----------------------------------------------------------------------------
(* The state a client is constructed in.                                   *)
LEMMA InitCorrect == Init => IInv
<1> SUFFICES ASSUME Init PROVE IInv
  OBVIOUS
<1>1. /\ wanted = FALSE /\ state = "kDisconnected" /\ channel = "none"
      /\ delay = 500 /\ timers = 0 /\ sockets = 0 /\ pending = << >> /\ batch = << >>
      /\ starts = 0 /\ stopped = FALSE /\ fault = "none"
      /\ connection = 0 /\ nextConnId = 1 /\ open = {}
      /\ calling = "none" /\ destroyed = FALSE /\ stoppedAt = 0
  BY DEF Init, ConnectorInit, kInitRetryDelayMs
<1>2. TypeOK
  <2>1. call \in [Callers -> {"idle", "startInLoop", "stopInLoop"}]
    BY DEF Init, ConnectorInit
  <2>2. QED
    BY <1>1, <2>1 DEF TypeOK, Delays
<1>3. Flags
  BY Zenon DEF Init, ConnectorInit, Flags
<1>4. /\ \A f : Queued(f, pending) = 0 /\ Queued(f, batch) = 0
      /\ Cardinality(Starters) = 0
  <2>1. Starters = {}
    BY DEF Init, ConnectorInit, Starters
  <2>2. Cardinality(Starters) = 0
    BY <2>1, FS_EmptySet
  <2>3. QED
    BY <1>1, <2>2, QueuedEmpty
<1>5. Starting = 0
  BY <1>4 DEF Starting
<1>6. One /\ Channels /\ Connections /\ Stops
  BY <1>1, <1>4, <1>5 DEF One, Channels, SocketsAccounted, Connections,
                          OneConnection, Stops
<1>7. QED
  BY <1>2, <1>3, <1>6 DEF IInv

-----------------------------------------------------------------------------
(* The loop takes what is queued.                                          *)
LEMMA TakeFunctorsStep ==
  ASSUME IInv, fault = "none", TakeFunctors, UNCHANGED clientVars PROVE IInv'
<1>1. /\ batch = << >> /\ batch' = pending /\ pending' = << >> /\ due' = FALSE
      /\ UNCHANGED <<wanted, state, channel, sockets, delay, timers, gaveUp, call, starts,
                     stops, stopped, fault, retry, connect, connection, nextConnId, open,
                     calling, destroyed, stoppedAt>>
  BY DEF TakeFunctors, channelVars, retryVars, callVars, clientVars
<1>2. /\ TypeOK' /\ Flags'
  BY <1>1 DEF IInv, TypeOK, Flags
<1>3. \A f : /\ Queued(f, batch) = 0 /\ Queued(f, pending') = 0
            /\ Queued(f, batch') = Queued(f, pending)
  BY <1>1, QueuedEmpty
<1>4. Starting' = Starting /\ Starters' = Starters
  BY <1>1, <1>3, Numbers DEF Starting, Starters, IInv
<1>5. /\ One' /\ Connections' /\ Stops'
  BY <1>1, <1>4 DEF IInv, One, Connections, OneConnection, Stops
<1>6. Channels'
  BY <1>1, <1>3, Numbers DEF IInv, Channels, SocketsAccounted
<1>7. QED
  BY <1>2, <1>5, <1>6 DEF IInv

(* startInLoop, called by a functor or a timer, starts the one attempt; if *)
(* the channel of the last one is not reset yet, it may end the process.   *)
LEMMA StartStep ==
  ASSUME IInv, fault = "none", NEW left, left = 0, StartInLoop(left),
         state = "kDisconnected", starts # 0, Starting' = 0,
         pending' \in Seq(Functors), batch' \in Seq(Functors), UNCHANGED due,
         Queued("resetChannel", pending') + Queued("resetChannel", batch')
           = IF channel = "removed" THEN 1 ELSE 0,
         UNCHANGED <<wanted, callVars, clientVars>>
  PROVE  IInv'
<1>1. /\ delay \in Delays /\ sockets = 0 /\ gaveUp \in BOOLEAN
      /\ connection = 0 /\ calling = "none" /\ channel \in {"none", "removed"}
  BY DEF IInv, TypeOK, Channels, SocketsAccounted, Flags, Connections, OneConnection
<1>2. /\ delay' \in Delays /\ timers' \in {0, 1} /\ gaveUp' \in BOOLEAN
      /\ state' \in {"kConnecting", "kDisconnected"} /\ fault' \in {"none", "connecting"}
      /\ channel = "removed" /\ state' = "kConnecting" => fault' = "connecting"
      /\ channel' = IF state' = "kConnecting" THEN "watched" ELSE channel
      /\ sockets' = IF state' = "kConnecting" THEN 1 ELSE 0
      /\ timers' = 1 => state' = "kDisconnected"
  BY <1>1, StartEffect
<1>3. UNCHANGED <<wanted, call, starts, stops, stopped, retry, connect, connection,
                  nextConnId, open, calling, destroyed, stoppedAt>>
  BY DEF callVars, clientVars
<1>4. TypeOK'
  BY <1>1, <1>2, <1>3 DEF IInv, TypeOK
<1>5. Flags'
  BY <1>2, <1>3, Zenon DEF IInv, Flags
<1>7. One'
  BY <1>2, <1>3 DEF One
<1>8. Channels'
  BY <1>1, <1>2, <1>3 DEF Channels, SocketsAccounted
<1>9. Connections'
  BY <1>1, <1>2, <1>3 DEF IInv, Connections, OneConnection
<1>10. Stops'
  BY <1>1, <1>2, <1>3 DEF IInv, Stops
<1>11. QED
  BY <1>4, <1>5, <1>7, <1>8, <1>9, <1>10 DEF IInv

(* A connection is found closed by a poll that finds its channel reset.    *)
LEMMA NoReset ==
  ASSUME IInv, fault = "none", state = "kConnected", batch = << >>, ~due
  PROVE  channel = "none"
<1>1. Queued("resetChannel", pending) = 0 /\ Queued("resetChannel", batch) = 0
  BY QueuedEmpty DEF IInv, Channels
<1>2. QED
  BY <1>1 DEF IInv, TypeOK, Channels, SocketsAccounted

(* What a stop in a callback leaves, id the number the next connection has.*)
LEMMA StopHereEffect ==
  ASSUME IInv, NEW stop \in BOOLEAN, NEW id \in Nat, StopHere(stop, id)
  PROVE  /\ wanted' \in BOOLEAN /\ connect' \in BOOLEAN /\ stopped' \in BOOLEAN
         /\ wanted' => wanted
         /\ stopped' => ~wanted' /\ ~connect'
         /\ stoppedAt' \in Nat /\ stoppedAt' \in {stoppedAt, id}
         /\ stoppedAt' # 0 => ~connect'
         /\ stoppedAt # 0 => stoppedAt' = stoppedAt
         /\ UNCHANGED <<call, starts>>
<1>1. /\ wanted' = (wanted /\ ~stop) /\ connect' = (connect /\ ~stop)
      /\ stopped' = (stopped \/ stop) /\ UNCHANGED <<call, starts>>
  BY Zenon DEF StopHere
<1>2. /\ wanted \in BOOLEAN /\ connect \in BOOLEAN /\ stopped \in BOOLEAN
      /\ stopped => ~wanted /\ ~connect
  BY Zenon DEF IInv, Flags, Stops
<1>3. stoppedAt \in Nat /\ (stoppedAt # 0 => ~connect)
  BY DEF IInv, TypeOK, Stops
<1>4. /\ wanted' \in BOOLEAN /\ connect' \in BOOLEAN /\ stopped' \in BOOLEAN
      /\ wanted' => wanted
      /\ stopped' => ~wanted' /\ ~connect'
      /\ stoppedAt # 0 \/ stop => ~connect'
  BY <1>1, <1>2, <1>3, Zenon
<1>5. /\ stop => stoppedAt' = IF stoppedAt = 0 THEN id ELSE stoppedAt
      /\ ~stop => stoppedAt' = stoppedAt
  BY DEF StopHere, FirstStop
<1>6. CASE stop
  BY <1>1, <1>3, <1>4, <1>5, <1>6
<1>7. CASE ~stop
  BY <1>1, <1>3, <1>4, <1>5, <1>7
<1>8. QED
  BY <1>6, <1>7

(* An attempt is given up: its socket is closed, its channel removed.      *)
LEMMA GiveUpStep ==
  ASSUME IInv, fault = "none", NEW want, NEW queue \in Seq(Functors),
         state = "kConnecting", state' = "kDisconnected", sockets' = sockets - 1,
         RemoveAndResetChannel(queue), Retry(want, delay, timers),
         Queued("startInLoop", queue) = Queued("startInLoop", batch),
         Queued("resetChannel", queue) = Queued("resetChannel", batch),
         wanted' \in BOOLEAN, destroyed' \in BOOLEAN,
         wanted' => wanted /\ ~destroyed',
         UNCHANGED <<fault, gaveUp, callVars, retry, connect, connection, nextConnId, open,
                     calling, stoppedAt>>
  PROVE  IInv'
<1>1. /\ channel = "watched" /\ sockets = 1 /\ timers = 0 /\ Starting = 0
      /\ delay \in Delays /\ connection = 0 /\ calling = "none"
  BY DEF IInv, TypeOK, One, Channels, SocketsAccounted, Connections, OneConnection
<1>2. delay' \in Delays /\ timers' \in {0, 1}
  BY <1>1, RetryEffect
<1>3. /\ channel' = "removed" /\ batch' = queue /\ pending' \in Seq(Functors)
      /\ due' \in BOOLEAN
      /\ Queued("startInLoop", pending') = Queued("startInLoop", pending)
      /\ Queued("resetChannel", pending') = Queued("resetChannel", pending) + 1
  BY RemoveEffect DEF IInv
<1>4. UNCHANGED <<call, starts, stopped, retry, connect, connection, nextConnId, open,
                  calling, fault, gaveUp, stoppedAt>>
  BY DEF callVars
<1>5. TypeOK'
  BY <1>2, <1>3, <1>4 DEF IInv, TypeOK
<1>6. Flags'
  BY <1>3, <1>4, Zenon DEF IInv, Flags
<1>7. Starting' = 0
  <2>1. Starters' = Starters
    BY <1>4 DEF Starters
  <2>2. QED
    BY <1>1, <1>3, <2>1 DEF Starting
<1>8. One'
  <2>1. starts # 0
    BY DEF IInv, One
  <2>2. QED
    BY <1>2, <1>4, <1>7, <2>1 DEF One
<1>9. Channels'
  <2>1. Queued("resetChannel", pending) + Queued("resetChannel", batch) = 0
    BY <1>1 DEF IInv, Channels
  <2>2. Queued("resetChannel", pending') + Queued("resetChannel", batch') = 1
    BY <1>3, <2>1, Numbers DEF IInv
  <2>3. QED
    BY <1>1, <1>3, <2>2 DEF Channels, SocketsAccounted
<1>10. Connections'
  BY <1>1, <1>4 DEF IInv, Connections, OneConnection
<1>11. Stops'
  <2>1. stopped => ~wanted /\ ~connect /\ calling = "none"
    BY DEF IInv, Stops
  <2>2. stopped' = stopped /\ connect' = connect /\ calling' = calling
    BY <1>4
  <2>3. stopped' => ~wanted' /\ ~connect' /\ calling' = "none"
    BY <2>1, <2>2
  <2>4. destroyed' => ~wanted' \/ state' = "kConnected"
    OBVIOUS
  <2>5. stoppedAt' # 0 => ~connect' /\ nextConnId' = stoppedAt'
    BY <1>4 DEF IInv, Stops
  <2>6. QED
    BY <1>4, <2>3, <2>4, <2>5 DEF IInv, TypeOK, Stops
<1>12. QED
  BY <1>5, <1>6, <1>8, <1>9, <1>10, <1>11 DEF IInv

(* A functor that changes nothing leaves the queue.                        *)
LEMMA OthersStep ==
  ASSUME IInv, fault = "none", NEW queue \in Seq(Functors), batch' = queue,
         Queued("startInLoop", queue) = Queued("startInLoop", batch),
         Queued("resetChannel", queue) = Queued("resetChannel", batch),
         UNCHANGED <<wanted, channelVars, delay, timers, pending, due, gaveUp, fault,
                     callVars, clientVars>>
  PROVE  IInv'
<1>1. UNCHANGED <<wanted, state, channel, sockets, delay, timers, gaveUp, pending, due,
                  fault, call, starts, stopped, retry, connect, connection, nextConnId, open,
                  calling, destroyed, stoppedAt>>
  BY DEF channelVars, callVars, clientVars
<1>2. TypeOK'
  BY <1>1 DEF IInv, TypeOK
<1>3. Flags'
  BY <1>1, Zenon DEF IInv, Flags
<1>4. Starting' = Starting
  <2>1. Starters' = Starters
    BY <1>1 DEF Starters
  <2>2. QED
    BY <1>1, <2>1 DEF Starting
<1>5. One' /\ Connections' /\ Stops'
  BY <1>1, <1>4 DEF IInv, One, Connections, OneConnection, Stops
<1>6. Channels'
  BY <1>1 DEF IInv, Channels, SocketsAccounted
<1>7. QED
  BY <1>2, <1>3, <1>5, <1>6 DEF IInv

(* The loop runs the first functor of its batch.                           *)
LEMMA RunFunctorStep ==
  ASSUME IInv, fault = "none", RunFunctor, UNCHANGED clientVars PROVE IInv'
<1> USE DEF Functors
<1>1. batch # << >> /\ batch \in Seq(Functors) /\ UNCHANGED <<wanted, callVars, clientVars>>
  BY DEF RunFunctor, IInv, TypeOK
<1>2. /\ Tail(batch) \in Seq(Functors)
      /\ Queued("startInLoop", Tail(batch)) \in Nat
      /\ Queued("startInLoop", batch)
           = Queued("startInLoop", Tail(batch)) + IF Head(batch) = "startInLoop" THEN 1 ELSE 0
  BY <1>1, QueuedTail
<1>3. /\ Queued("resetChannel", Tail(batch)) \in Nat
      /\ Queued("resetChannel", batch)
           = Queued("resetChannel", Tail(batch)) + IF Head(batch) = "resetChannel" THEN 1 ELSE 0
  BY <1>1, QueuedTail
<1>4. CASE /\ Head(batch) = "startInLoop" /\ StartInLoop(timers)
           /\ batch' = Tail(batch) /\ UNCHANGED <<pending, due>>
  <2>1. Cardinality(Starters) = 0 /\ Queued("startInLoop", pending) = 0
        /\ Queued("startInLoop", Tail(batch)) = 0 /\ Starting = 1
    <3>1. Starting = Cardinality(Starters) + Queued("startInLoop", pending)
                       + (Queued("startInLoop", Tail(batch)) + 1)
      BY <1>2, <1>4 DEF Starting
    <3>2. Starting \in {0, 1}
      BY DEF IInv, One
    <3>3. QED
      BY <1>2, <3>1, <3>2, Numbers, Sums DEF IInv
  <2>2. Starting' = 0
    <3>1. Starters' = Starters
      BY <1>1 DEF callVars, Starters
    <3>2. QED
      BY <1>4, <2>1, <3>1 DEF Starting
  <2>3. state = "kDisconnected" /\ channel = "none" /\ timers = 0 /\ starts # 0
    BY <2>1 DEF IInv, One
  <2>4. Queued("resetChannel", pending') + Queued("resetChannel", batch')
          = IF channel = "removed" THEN 1 ELSE 0
    BY <1>3, <1>4, <2>3 DEF IInv, Channels
  <2>5. pending' \in Seq(Functors) /\ batch' \in Seq(Functors)
    BY <1>2, <1>4 DEF IInv, TypeOK
  <2>6. QED
    BY <1>1, <1>4, <2>2, <2>3, <2>4, <2>5, StartStep
<1>5. CASE /\ Head(batch) = "stopInLoop" /\ StopInLoop(wanted, Tail(batch))
           /\ UNCHANGED <<gaveUp, fault>>
  <2>1. /\ Queued("startInLoop", Tail(batch)) = Queued("startInLoop", batch)
        /\ Queued("resetChannel", Tail(batch)) = Queued("resetChannel", batch)
    BY <1>2, <1>3, <1>5
  <2>2. CASE state = "kConnecting"
    <3>1. /\ state' = "kDisconnected" /\ sockets' = sockets - 1
          /\ RemoveAndResetChannel(Tail(batch)) /\ Retry(wanted, delay, timers)
      BY <1>5, <2>2 DEF StopInLoop
    <3>2. /\ wanted' = wanted /\ destroyed' = destroyed
          /\ wanted' \in BOOLEAN /\ destroyed' \in BOOLEAN
      BY <1>1, Zenon DEF clientVars, IInv, Flags
    <3>3. wanted' => wanted /\ ~destroyed'
      BY <2>2, <3>2 DEF IInv, Stops
    <3>4. UNCHANGED <<fault, gaveUp, callVars, retry, connect, connection, nextConnId, open,
                      calling, stoppedAt>>
      BY <1>1, <1>5 DEF clientVars
    <3>5. QED
      BY <1>2, <2>1, <2>2, <3>1, <3>2, <3>3, <3>4, GiveUpStep
  <2>3. CASE state # "kConnecting"
    <3>1. /\ batch' = Tail(batch)
          /\ UNCHANGED <<channelVars, delay, timers, pending, due, gaveUp, fault>>
      BY <1>5, <2>3 DEF StopInLoop
    <3>2. QED
      BY <1>1, <1>2, <2>1, <3>1, OthersStep
  <2>4. QED
    BY <2>2, <2>3
<1>6. CASE /\ Head(batch) = "resetChannel" /\ channel' = "none" /\ batch' = Tail(batch)
           /\ UNCHANGED <<state, sockets, retryVars, pending, due, fault>>
  <2>1. /\ UNCHANGED <<wanted, state, sockets, delay, timers, gaveUp, pending, due, fault, call,
                       starts, stopped, retry, connect, connection, nextConnId, open,
                       calling, destroyed, stoppedAt>>
    BY <1>1, <1>6 DEF retryVars, callVars, clientVars
  <2>2. channel = "removed" /\ Queued("resetChannel", pending) = 0
        /\ Queued("resetChannel", Tail(batch)) = 0
    <3>1. Queued("resetChannel", pending) + Queued("resetChannel", batch)
            = IF channel = "removed" THEN 1 ELSE 0
      BY DEF IInv, Channels
    <3>2. QED
      BY <1>3, <1>6, <3>1, Numbers DEF IInv
  <2>3. TypeOK'
    BY <1>2, <1>6, <2>1 DEF IInv, TypeOK
  <2>4. Flags'
    BY <2>1, Zenon DEF IInv, Flags
  <2>5. One'
    <3>1. Starters' = Starters /\ Queued("startInLoop", batch') = Queued("startInLoop", batch)
      BY <1>2, <1>6, <2>1, Numbers DEF Starters, IInv
    <3>2. Starting' = Starting
      BY <2>1, <3>1 DEF Starting
    <3>3. QED
      BY <1>6, <2>1, <3>2 DEF IInv, One
  <2>6. Channels'
    BY <1>6, <2>1, <2>2 DEF IInv, Channels, SocketsAccounted
  <2>7. Connections' /\ Stops'
    BY <1>6, <2>1 DEF IInv, Connections, OneConnection, Stops
  <2>8. QED
    BY <2>3, <2>4, <2>5, <2>6, <2>7 DEF IInv
<1>7. QED
  BY <1>4, <1>5, <1>6 DEF RunFunctor

(* A timer of retry starts the next attempt.                               *)
LEMMA TimerExpiresStep ==
  ASSUME IInv, fault = "none", TimerExpires, UNCHANGED clientVars PROVE IInv'
<1>1. /\ timers > 0 /\ StartInLoop(timers - 1)
      /\ UNCHANGED <<wanted, pending, batch, due, callVars, clientVars>>
  BY DEF TimerExpires, queueVars
<1>2. timers = 1 /\ timers - 1 = 0 /\ Starting = 0 /\ state = "kDisconnected" /\ starts # 0
  BY <1>1 DEF IInv, One
<1>3. Starting' = 0
  <2>1. Starters' = Starters
    BY <1>1 DEF callVars, Starters
  <2>2. QED
    BY <1>1, <1>2, <2>1 DEF Starting
<1>4. /\ pending' \in Seq(Functors) /\ batch' \in Seq(Functors)
      /\ Queued("resetChannel", pending') + Queued("resetChannel", batch')
           = IF channel = "removed" THEN 1 ELSE 0
  BY <1>1 DEF IInv, TypeOK, Channels
<1>5. QED
  BY <1>1, <1>2, <1>3, <1>4, StartStep

(* Nothing that is queued, called or counted changes: Starting is the same.*)
LEMMA StartingSame ==
  ASSUME UNCHANGED <<pending, batch, due, call>>
  PROVE  /\ Starting' = Starting
         /\ Queued("resetChannel", pending') = Queued("resetChannel", pending)
         /\ Queued("resetChannel", batch') = Queued("resetChannel", batch)
<1>1. Starters' = Starters
  BY DEF Starters
<1>2. QED
  BY <1>1 DEF Starting

(* The poller reports that a connection cannot be established.             *)
LEMMA ConnectFailsStep ==
  ASSUME IInv, fault = "none", NEW e, NEW s, ConnectFails(e, s),
         UNCHANGED clientVars
  PROVE  IInv'
<1>1. /\ channel = "watched" /\ Check(state = "kConnecting", "handleError")
      /\ state' = "kDisconnected" /\ sockets' = sockets - 1
      /\ RemoveAndResetChannel(batch) /\ Retry(wanted, delay, timers)
      /\ UNCHANGED <<wanted, gaveUp, callVars, clientVars>>
  BY DEF ConnectFails
<1>2. state = "kConnecting" /\ batch \in Seq(Functors)
  BY <1>1 DEF IInv, Channels, SocketsAccounted, TypeOK
<1>3. /\ wanted' = wanted /\ destroyed' = destroyed
      /\ wanted' \in BOOLEAN /\ destroyed' \in BOOLEAN
  BY <1>1, Zenon DEF clientVars, IInv, Flags
<1>4. wanted' => wanted /\ ~destroyed'
  BY <1>2, <1>3 DEF IInv, Stops
<1>5. UNCHANGED <<fault, gaveUp, callVars, retry, connect, connection, nextConnId, open,
                  calling, stoppedAt>>
  BY <1>1, <1>2 DEF clientVars, Check
<1>6. QED
  BY <1>1, <1>2, <1>3, <1>4, <1>5, GiveUpStep

(* The socket is connected: to be handed over, or closed.                  *)
LEMMA HandleWriteStep ==
  ASSUME IInv, fault = "none", HandleWrite PROVE IInv'
<1>1. /\ batch = << >> /\ state = "kConnecting" /\ state' = "kConnected"
      /\ RemoveAndResetChannel(batch)
      /\ sockets' = IF wanted THEN sockets ELSE sockets - 1
      /\ calling' = IF wanted THEN "newConnection" ELSE "none"
      /\ UNCHANGED <<wanted, delay, timers, gaveUp, fault, call, starts, stopped, retry,
                     connect, connection, nextConnId, open, destroyed, stoppedAt>>
  <2>1. PICK s \in Outcomes : ConnectSucceeds(s)
    BY DEF HandleWrite
  <2>2. QED
    BY <2>1 DEF HandleWrite, ConnectSucceeds, HandsOver, retryVars, callVars
<1>2. /\ channel = "watched" /\ sockets = 1 /\ timers = 0 /\ Starting = 0 /\ starts # 0
      /\ connection = 0 /\ batch \in Seq(Functors) /\ calling = "none"
  BY <1>1 DEF IInv, TypeOK, One, Channels, SocketsAccounted, Connections, OneConnection
<1>3. /\ channel' = "removed" /\ batch' = batch /\ pending' \in Seq(Functors)
      /\ due' \in BOOLEAN /\ due'
      /\ Queued("startInLoop", pending') = Queued("startInLoop", pending)
      /\ Queued("resetChannel", pending') = Queued("resetChannel", pending) + 1
  BY <1>1, RemoveEffect DEF IInv
<1>4. One'
  <2>1. Starters' = Starters
    BY <1>1 DEF Starters
  <2>2. Starting' = 0
    BY <1>2, <1>3, <2>1 DEF Starting
  <2>3. QED
    BY <1>1, <1>2, <2>2 DEF One
<1>5. Channels'
  <2>1. Queued("resetChannel", pending) + Queued("resetChannel", batch) = 0
    BY <1>2 DEF IInv, Channels
  <2>2. Queued("resetChannel", pending') + Queued("resetChannel", batch') = 1
    BY <1>3, <2>1, Numbers DEF IInv
  <2>3. QED
    BY <1>1, <1>2, <1>3, <2>2 DEF Channels, SocketsAccounted
<1>6. TypeOK'
  BY <1>1, <1>2, <1>3 DEF IInv, TypeOK
<1>7. Flags'
  BY <1>1, <1>3, Zenon DEF IInv, Flags
<1>8. Connections'
  <2>1. wanted => ~destroyed
    BY <1>1 DEF IInv, Stops
  <2>2. QED
    BY <1>1, <1>2, <2>1 DEF IInv, Connections, OneConnection
<1>9. Stops'
  <2>1. stopped => ~wanted
    BY DEF IInv, Stops
  <2>2. QED
    BY <1>1, <2>1 DEF IInv, Stops
<1>10. QED
  BY <1>4, <1>5, <1>6, <1>7, <1>8, <1>9 DEF IInv

(* The connection is handed over, even if a stop came after the test.      *)
LEMMA NewConnectionStep ==
  ASSUME IInv, fault = "none", NewConnection PROVE IInv'
<1>1. /\ calling = "newConnection" /\ calling' = "none" /\ sockets' = sockets - 1
      /\ nextConnId' = nextConnId + 1 /\ connection' = nextConnId
      /\ open' = open \cup {nextConnId}
      /\ UNCHANGED <<state, channel, delay, timers, gaveUp, pending, batch, due, fault, retry,
                     destroyed>>
  BY DEF NewConnection, retryVars, queueVars
<1>2. /\ connection = 0 /\ open = {} /\ state = "kConnected" /\ timers = 0 /\ sockets = 1
      /\ ~destroyed /\ nextConnId \in Nat \ {0}
  BY <1>1 DEF IInv, TypeOK, Channels, SocketsAccounted, Connections, OneConnection
<1>3. /\ wanted' \in BOOLEAN /\ connect' \in BOOLEAN /\ stopped' \in BOOLEAN
      /\ stopped' => ~wanted' /\ ~connect'
      /\ stoppedAt' \in Nat /\ stoppedAt' \in {stoppedAt, nextConnId + 1}
      /\ stoppedAt' # 0 => ~connect'
      /\ stoppedAt # 0 => stoppedAt' = stoppedAt
      /\ UNCHANGED <<call, starts>>
  <2>1. PICK stop \in BOOLEAN : StopHere(stop, nextConnId + 1)
    BY DEF NewConnection
  <2>2. nextConnId + 1 \in Nat
    BY <1>2
  <2>3. QED
    BY <2>1, <2>2, StopHereEffect
<1>4. TypeOK'
  BY <1>1, <1>2, <1>3 DEF IInv, TypeOK
<1>5. Flags'
  BY <1>1, <1>3, Zenon DEF IInv, Flags
<1>6. One' /\ Channels'
  BY <1>1, <1>2, <1>3, StartingSame DEF IInv, One, Channels, SocketsAccounted
<1>7. Connections'
  BY <1>1, <1>2 DEF Connections, OneConnection
<1>8. Stops'
  <2>1. stoppedAt # 0 => nextConnId = stoppedAt
    BY <1>1 DEF IInv, Stops
  <2>2. stoppedAt' # 0 => nextConnId' \in {stoppedAt', stoppedAt' + 1}
    BY <1>1, <1>2, <1>3, <2>1
  <2>3. QED
    BY <1>1, <1>2, <1>3, <2>2 DEF Stops
<1>9. QED
  BY <1>4, <1>5, <1>6, <1>7, <1>8 DEF IInv

(* The connection closes.                                                  *)
LEMMA CloseConnectionStep ==
  ASSUME IInv, fault = "none", calling = "none", NEW c \in open, CloseConnection(c)
  PROVE  IInv'
<1>1. /\ batch = << >> /\ ~due /\ Check(connection = c, "removeConnection")
      /\ connection' = 0 /\ open' = open \ {c} /\ ~destroyed
      /\ calling' = IF retry /\ connect' THEN "restart" ELSE "none"
      /\ UNCHANGED <<state, channel, sockets, delay, timers, gaveUp, pending, batch, due, retry,
                     nextConnId, destroyed>>
  BY DEF CloseConnection, ForgetConnection, WantsReconnect, channelVars, retryVars, queueVars
<1>2. /\ wanted' \in BOOLEAN /\ connect' \in BOOLEAN /\ stopped' \in BOOLEAN
      /\ stopped' => ~wanted' /\ ~connect'
      /\ stoppedAt' \in Nat /\ stoppedAt' \in {stoppedAt, nextConnId}
      /\ stoppedAt' # 0 => ~connect'
      /\ stoppedAt # 0 => stoppedAt' = stoppedAt
      /\ UNCHANGED <<call, starts>>
  <2>1. PICK stop \in BOOLEAN : StopHere(stop, nextConnId)
    BY DEF CloseConnection
  <2>2. nextConnId \in Nat
    BY DEF IInv, TypeOK
  <2>3. QED
    BY <2>1, <2>2, StopHereEffect
<1>3. connection = c /\ open' = {} /\ state = "kConnected" /\ timers = 0 /\ fault' = "none"
  <2>1. connection = c /\ connection # 0
    BY DEF IInv, Connections, OneConnection
  <2>2. QED
    BY <1>1, <2>1 DEF IInv, Connections, OneConnection, Check
<1>4. channel = "none"
  BY <1>1, <1>3, NoReset
<1>5. TypeOK'
  BY <1>1, <1>2, <1>3 DEF IInv, TypeOK
<1>6. Flags'
  BY <1>1, <1>2, Zenon DEF IInv, Flags
<1>7. One' /\ Channels'
  BY <1>1, <1>2, <1>3, StartingSame DEF IInv, One, Channels, SocketsAccounted
<1>8. Connections'
  BY <1>1, <1>3, <1>4 DEF Connections, OneConnection
<1>9. Stops'
  <2>1. connect' = FALSE => calling' = "none"
    BY <1>1
  <2>2. stoppedAt' # 0 => nextConnId \in {stoppedAt', stoppedAt' + 1}
    BY <1>2 DEF IInv, Stops
  <2>3. QED
    BY <1>1, <1>2, <1>3, <2>1, <2>2 DEF Stops
<1>10. QED
  BY <1>5, <1>6, <1>7, <1>8, <1>9 DEF IInv

(* The connection of a client that is gone closes.                         *)
LEMMA CloseOrphanStep ==
  ASSUME IInv, fault = "none", NEW c \in open, CloseOrphan(c) PROVE IInv'
<1>1. /\ connection' = 0 /\ open' = open \ {c} /\ destroyed
      /\ UNCHANGED <<wanted, state, channel, sockets, delay, timers, gaveUp, pending, batch, due,
                     call, starts, stopped, fault, retry, connect, nextConnId, calling,
                     destroyed, stoppedAt>>
  BY DEF CloseOrphan, connectorVars, channelVars, retryVars, queueVars, callVars
<1>2. open' = {} /\ calling = "none"
  BY <1>1 DEF IInv, Connections, OneConnection
<1>3. TypeOK'
  BY <1>1 DEF IInv, TypeOK
<1>4. Flags'
  BY <1>1, Zenon DEF IInv, Flags
<1>5. One' /\ Channels'
  BY <1>1, StartingSame DEF IInv, One, Channels, SocketsAccounted
<1>6. Connections' /\ Stops'
  BY <1>1, <1>2 DEF IInv, Connections, OneConnection, Stops
<1>7. QED
  BY <1>3, <1>4, <1>5, <1>6 DEF IInv

(* The client connects again.                                              *)
LEMMA ReconnectStep ==
  ASSUME IInv, fault = "none", Reconnect PROVE IInv'
<1>1. /\ calling = "restart" /\ calling' = "none" /\ wanted' = TRUE
      /\ Connect(TRUE, kInitRetryDelayMs, timers)
      /\ UNCHANGED <<pending, batch, due, call, starts, stopped, retry, connect, connection,
                     nextConnId, open, destroyed, stoppedAt>>
  BY DEF Reconnect, Restart, queueVars, callVars
<1>2. /\ connection = 0 /\ channel = "none" /\ ~destroyed /\ state = "kConnected"
      /\ timers = 0 /\ sockets = 0 /\ Starting = 0 /\ starts # 0 /\ ~stopped
  BY <1>1 DEF IInv, Connections, OneConnection, Channels, SocketsAccounted, One, Stops
<1>3. kInitRetryDelayMs \in Delays /\ gaveUp \in BOOLEAN
  BY DEF kInitRetryDelayMs, Delays, IInv, Flags
<1>4. /\ delay' \in Delays /\ timers' \in {0, 1} /\ gaveUp' \in BOOLEAN
      /\ state' \in {"kConnecting", "kDisconnected"} /\ fault' = "none"
      /\ channel' = IF state' = "kConnecting" THEN "watched" ELSE "none"
      /\ sockets' = IF state' = "kConnecting" THEN 1 ELSE 0
      /\ timers' = 1 => state' = "kDisconnected"
  BY <1>1, <1>2, <1>3, ConnectEffect
<1>5. TypeOK'
  BY <1>1, <1>4 DEF IInv, TypeOK
<1>6. Flags'
  BY <1>1, <1>4, Zenon DEF IInv, Flags
<1>7. One'
  BY <1>1, <1>2, <1>4, StartingSame DEF One
<1>8. Channels'
  <2>1. Queued("resetChannel", pending) + Queued("resetChannel", batch) = 0
    BY <1>2 DEF IInv, Channels
  <2>2. QED
    BY <1>1, <1>4, <2>1, StartingSame DEF Channels, SocketsAccounted
<1>9. Connections' /\ Stops'
  BY <1>1, <1>2, <1>4 DEF IInv, Connections, OneConnection, Stops
<1>10. QED
  BY <1>5, <1>6, <1>7, <1>8, <1>9 DEF IInv

(* The client is destroyed: without a connection, its connector stops.     *)
LEMMA DestroyClientStep ==
  ASSUME IInv, fault = "none", DestroyClient PROVE IInv'
<1>1. /\ destroyed' = TRUE /\ calling = "none"
      /\ IF connection = 0 THEN StopConnector ELSE KeepConnection
      /\ UNCHANGED <<gaveUp, fault, retry, connect, connection, nextConnId, open, calling,
                     stoppedAt>>
  BY DEF DestroyClient
<1>2. CASE connection = 0 /\ state = "kConnecting"
  <2>1. /\ wanted' = FALSE /\ UNCHANGED callVars
        /\ state' = "kDisconnected" /\ sockets' = sockets - 1
        /\ RemoveAndResetChannel(batch) /\ Retry(FALSE, delay, timers)
    BY <1>1, <1>2 DEF StopConnector, StopInLoop
  <2>2. batch \in Seq(Functors) /\ wanted' \in BOOLEAN /\ destroyed' \in BOOLEAN
    BY <1>1, <2>1 DEF IInv, TypeOK
  <2>3. UNCHANGED <<fault, gaveUp, callVars, retry, connect, connection, nextConnId, open,
                    calling, stoppedAt>>
    BY <1>1, <2>1
  <2>4. wanted' => wanted /\ ~destroyed'
    BY <2>1
  <2>5. QED
    BY <1>2, <2>1, <2>2, <2>3, <2>4, GiveUpStep
<1>3. CASE connection # 0 \/ state # "kConnecting"
  <2>1. /\ UNCHANGED <<state, channel, sockets, delay, timers, pending, batch, due, call, starts,
                       stopped>>
    BY <1>1, <1>3 DEF StopConnector, KeepConnection, StopInLoop, channelVars, queueVars,
                      callVars
  <2>2. wanted' \in {wanted, FALSE} /\ (wanted' = FALSE \/ state = "kConnected")
    BY <1>1, <1>3 DEF StopConnector, KeepConnection, IInv, Connections, OneConnection
  <2>3. TypeOK'
    BY <1>1, <2>1 DEF IInv, TypeOK
  <2>4. Flags'
    <3>1. wanted' \in BOOLEAN
      BY <2>2, Zenon DEF IInv, Flags
    <3>2. QED
      BY <1>1, <2>1, <3>1, Zenon DEF IInv, Flags
  <2>5. One' /\ Channels'
    BY <1>1, <2>1, StartingSame DEF IInv, One, Channels, SocketsAccounted
  <2>6. Connections'
    BY <1>1, <2>1 DEF IInv, Connections, OneConnection
  <2>7. Stops'
    <3>1. stopped' => ~wanted' /\ ~connect' /\ calling = "none"'
      BY <1>1, <2>1, <2>2 DEF IInv, Stops
    <3>2. ~wanted' \/ state' = "kConnected"
      BY <2>1, <2>2
    <3>3. QED
      BY <1>1, <2>1, <3>1, <3>2 DEF IInv, Stops
  <2>8. QED
    BY <2>3, <2>4, <2>5, <2>6, <2>7 DEF IInv
<1>4. QED
  BY <1>2, <1>3

-----------------------------------------------------------------------------
(* connect is called, once.                                                *)
LEMMA ConnectClientStep ==
  ASSUME MaxStarts <= 1, IInv, fault = "none", NEW t \in Callers, ConnectClient(t) PROVE IInv'
<1>1. /\ ~destroyed /\ call[t] = "idle" /\ starts < MaxStarts /\ starts' = starts + 1
      /\ wanted' = TRUE /\ stopped' = FALSE /\ connect' = TRUE /\ stoppedAt' = 0
      /\ call' = [call EXCEPT ![t] = "startInLoop"]
      /\ UNCHANGED <<state, channel, sockets, delay, timers, gaveUp, pending, batch, due, fault,
                     retry, connection, nextConnId, open, calling, destroyed>>
  BY DEF ConnectClient, Start, channelVars, retryVars, queueVars
<1>2. starts = 0 /\ starts' = 1
  BY <1>1, ConnectorAssumption DEF IInv, TypeOK
<1>3. Starting = 0 /\ timers = 0 /\ state = "kDisconnected" /\ channel = "none"
  BY <1>2 DEF IInv, One
<1>4. Starting' = 1
  <2>1. Cardinality(Starters') = Cardinality(Starters) + 1
    <3>1. TypeOK
      BY DEF IInv
    <3>2. /\ Cardinality(Starters) \in Nat /\ Cardinality(Starters') \in Nat
          /\ Cardinality(Starters) + (IF "startInLoop" = "startInLoop" THEN 1 ELSE 0)
               = Cardinality(Starters') + (IF call[t] = "startInLoop" THEN 1 ELSE 0)
      BY <1>1, <3>1, StartersStep
    <3>3. call[t] # "startInLoop"
      BY <1>1
    <3>4. QED
      BY <3>2, <3>3
  <2>2. Cardinality(Starters) = 0 /\ Queued("startInLoop", pending) = 0
        /\ Queued("startInLoop", batch) = 0
    BY <1>3, Numbers, Sums DEF Starting, IInv
  <2>3. QED
    BY <1>1, <2>1, <2>2 DEF Starting
<1>5. TypeOK'
  BY <1>1, <1>2 DEF IInv, TypeOK
<1>6. Flags'
  BY <1>1, Zenon DEF IInv, Flags
<1>7. One' /\ Channels'
  BY <1>1, <1>2, <1>3, <1>4 DEF IInv, One, Channels, SocketsAccounted
<1>8. Connections' /\ Stops'
  BY <1>1 DEF IInv, Connections, OneConnection, Stops
<1>9. QED
  BY <1>5, <1>6, <1>7, <1>8 DEF IInv

(* stop is called.                                                         *)
LEMMA StopClientStep ==
  ASSUME IInv, fault = "none", NEW t \in Callers, StopClient(t) PROVE IInv'
<1>1. /\ call[t] = "idle" /\ wanted' = FALSE /\ stopped' = (stopped \/ calling = "none")
      /\ connect' = FALSE /\ call' = [call EXCEPT ![t] = "stopInLoop"]
      /\ UNCHANGED <<state, channel, sockets, delay, timers, gaveUp, pending, batch, due, starts,
                     fault, retry, connection, nextConnId, open, calling, destroyed>>
      /\ stoppedAt' = IF stoppedAt = 0 THEN nextConnId ELSE stoppedAt
  BY DEF StopClient, Stop, FirstStop, channelVars, retryVars, queueVars
<1>2. Starting' = Starting
  <2>1. Cardinality(Starters') = Cardinality(Starters)
    <3>1. TypeOK
      BY DEF IInv
    <3>2. /\ Cardinality(Starters) \in Nat /\ Cardinality(Starters') \in Nat
          /\ Cardinality(Starters) + (IF "stopInLoop" = "startInLoop" THEN 1 ELSE 0)
               = Cardinality(Starters') + (IF call[t] = "startInLoop" THEN 1 ELSE 0)
      BY <1>1, <3>1, StartersStep
    <3>3. call[t] # "startInLoop"
      BY <1>1
    <3>4. QED
      BY <3>2, <3>3
  <2>2. QED
    BY <1>1, <2>1 DEF Starting
<1>3. /\ stopped' \in BOOLEAN /\ stopped' => calling = "none"
  BY <1>1, Zenon DEF IInv, Flags, Stops
<1>4. TypeOK'
  BY <1>1 DEF IInv, TypeOK
<1>5. Flags'
  BY <1>1, <1>3, Zenon DEF IInv, Flags
<1>6. One' /\ Channels'
  BY <1>1, <1>2 DEF IInv, One, Channels, SocketsAccounted
<1>7. Connections'
  BY <1>1 DEF IInv, Connections, OneConnection
<1>8. Stops'
  BY <1>1, <1>3 DEF IInv, Stops
<1>9. QED
  BY <1>4, <1>5, <1>6, <1>7, <1>8 DEF IInv

(* The call queues its functor.                                            *)
LEMMA QueueCallStep ==
  ASSUME IInv, fault = "none", NEW t \in Callers, QueueCall(t) PROVE IInv'
<1>1. /\ call[t] # "idle" /\ pending' = Append(pending, call[t])
      /\ call' = [call EXCEPT ![t] = "idle"]
      /\ UNCHANGED <<wanted, state, channel, sockets, delay, timers, gaveUp, batch, due, starts,
                     stopped, fault, retry, connect, connection, nextConnId, open, calling,
                     destroyed, stoppedAt>>
  BY DEF QueueCall, QueueInLoop, channelVars, retryVars, clientVars
<1>2. pending \in Seq(Functors) /\ call[t] \in {"startInLoop", "stopInLoop"}
      /\ call[t] \in Functors
  BY <1>1 DEF IInv, TypeOK, Functors
<1>3. /\ pending' \in Seq(Functors)
      /\ Queued("startInLoop", pending')
           = Queued("startInLoop", pending) + IF call[t] = "startInLoop" THEN 1 ELSE 0
  BY <1>1, <1>2, QueuedAppend
<1>4. Queued("resetChannel", pending') = Queued("resetChannel", pending)
  <2>1. Queued("resetChannel", pending')
          = Queued("resetChannel", pending) + IF call[t] = "resetChannel" THEN 1 ELSE 0
    BY <1>1, <1>2, QueuedAppend
  <2>2. QED
    BY <1>2, <2>1, Numbers DEF IInv
<1>5. Starting' = Starting
  <2>1. /\ Cardinality(Starters) \in Nat /\ Cardinality(Starters') \in Nat
        /\ Cardinality(Starters)
             = Cardinality(Starters') + (IF call[t] = "startInLoop" THEN 1 ELSE 0)
    <3>1. TypeOK
      BY DEF IInv
    <3>2. /\ Cardinality(Starters) \in Nat /\ Cardinality(Starters') \in Nat
          /\ Cardinality(Starters) + (IF "idle" = "startInLoop" THEN 1 ELSE 0)
               = Cardinality(Starters') + (IF call[t] = "startInLoop" THEN 1 ELSE 0)
      BY <1>1, <3>1, StartersStep
    <3>3. QED
      BY <3>2
  <2>2. QED
    BY <1>1, <1>3, <2>1, Numbers DEF Starting, IInv
<1>6. TypeOK'
  BY <1>1, <1>3 DEF IInv, TypeOK
<1>7. Flags'
  BY <1>1, Zenon DEF IInv, Flags
<1>8. One' /\ Channels'
  BY <1>1, <1>4, <1>5 DEF IInv, One, Channels, SocketsAccounted
<1>9. Connections' /\ Stops'
  BY <1>1 DEF IInv, Connections, OneConnection, Stops
<1>10. QED
  BY <1>6, <1>7, <1>8, <1>9 DEF IInv

(* Every step keeps IInv.                                                  *)
LEMMA NextCorrect ==
  ASSUME MaxStarts <= 1, IInv, [Next]_vars PROVE IInv'
<1>1. CASE UNCHANGED <<connectorVars>> /\ UNCHANGED <<retry, connection, nextConnId, open,
                       calling, destroyed, stoppedAt>> /\ connect' \in {connect, FALSE}
  <2>1. UNCHANGED <<wanted, state, channel, sockets, delay, timers, gaveUp, pending, batch, due,
                    call, starts, stopped, fault, retry, connection, nextConnId, open,
                    calling, destroyed, stoppedAt>>
    BY <1>1 DEF connectorVars, channelVars, retryVars, queueVars, callVars
  <2>2. TypeOK'
    BY <2>1 DEF IInv, TypeOK
  <2>3. Flags'
    <3>1. connect' \in BOOLEAN
      BY <1>1, Zenon DEF IInv, Flags
    <3>2. QED
      BY <2>1, <3>1, Zenon DEF IInv, Flags
  <2>4. One' /\ Channels'
    BY <2>1, StartingSame DEF IInv, One, Channels, SocketsAccounted
  <2>5. Connections'
    BY <2>1 DEF IInv, Connections, OneConnection
  <2>6. Stops'
    <3>1. stopped => ~wanted /\ ~connect /\ calling = "none"
      BY DEF IInv, Stops
    <3>2. stopped' => ~wanted' /\ ~connect' /\ calling' = "none"
      <4>1. /\ wanted' = wanted /\ stopped' = stopped /\ calling' = calling
            /\ connect' = connect \/ connect' = FALSE
        BY <1>1, <2>1
      <4>2. QED
        BY <3>1, <4>1, Zenon
    <3>3. destroyed' => ~wanted' \/ state' = "kConnected"
      BY <2>1 DEF IInv, Stops
    <3>4. stoppedAt # 0 => ~connect'
      BY <1>1, <2>1 DEF IInv, Stops
    <3>5. QED
      BY <2>1, <3>2, <3>3, <3>4 DEF IInv, Stops
  <2>7. QED
    BY <2>2, <2>3, <2>4, <2>5, <2>6 DEF IInv
<1>2. CASE LoopThread /\ fault = "none"
  <2>1. CASE (TakeFunctors \/ RunFunctor \/ TimerExpires) /\ UNCHANGED clientVars
    BY <1>2, <2>1, TakeFunctorsStep, RunFunctorStep, TimerExpiresStep
  <2>2. CASE (\E e \in Events, s \in Outcomes : ConnectFails(e, s)) /\ UNCHANGED clientVars
    BY <1>2, <2>2, ConnectFailsStep
  <2>3. CASE calling = "none" /\ \E c \in open : CloseConnection(c) \/ CloseOrphan(c)
    BY <1>2, <2>3, CloseConnectionStep, CloseOrphanStep
  <2>4. CASE HandleWrite \/ NewConnection \/ Reconnect
    BY <1>2, <2>4, HandleWriteStep, NewConnectionStep, ReconnectStep
  <2>5. QED
    BY <1>2, <2>1, <2>2, <2>3, <2>4 DEF LoopThread
<1>3. CASE Disconnect
  BY <1>1, <1>3 DEF Disconnect
<1>4. CASE DestroyClient /\ fault = "none"
  BY <1>4, DestroyClientStep
<1>5. CASE /\ fault = "none"
           /\ \E t \in Callers : ConnectClient(t) \/ StopClient(t) \/ QueueCall(t)
  BY <1>5, ConnectClientStep, StopClientStep, QueueCallStep
<1>6. CASE UNCHANGED vars
  BY <1>1, <1>6 DEF vars, clientVars
<1>7. QED
  BY <1>2, <1>3, <1>4, <1>5, <1>6 DEF Next

(* No reachable state is outside IInv, if connect is called once at most.  *)
THEOREM Invariant == ASSUME MaxStarts <= 1 PROVE Spec => []IInv
<1>1. Init => IInv
  BY InitCorrect
<1>2. IInv /\ [Next]_vars => IInv'
  BY NextCorrect
<1>3. QED
  BY <1>1, <1>2, PTL DEF Spec

(* The one assertion that can fail is that of connecting, and the one step *)
(* at which it can is a timer of retry that comes before the resetChannel  *)
(* of the attempt it follows, however timers, functors, events, stops and  *)
(* closes are ordered otherwise.                                           *)
THEOREM OnlyALateResetFails == ASSUME MaxStarts <= 1 PROVE Spec => AssertionsHold
<1>1. ASSUME IInv, [Next]_vars, fault' # fault
      PROVE  TimerExpires /\ Queued("resetChannel", pending) > 0 /\ fault' = "connecting"
  <2>1. fault = "none" /\ Next
    BY <1>1 DEF Next, vars, connectorVars
  <2>2. IInv'
    BY <1>1, NextCorrect
  <2>3. fault' = "connecting"
    BY <1>1, <2>1, <2>2 DEF IInv, TypeOK
  <2>4. ASSUME NEW left, StartInLoop(left), fault' = "connecting"
        PROVE  channel # "none"
    BY <2>1, <2>4 DEF StartInLoop, Connect, Check
  <2>5. CASE RunFunctor
    <3>1. CASE Head(batch) = "startInLoop"
      <4>1. batch \in Seq(Functors) /\ batch # << >> /\ StartInLoop(timers)
        <5>1. batch # << >> /\ StartInLoop(timers)
          BY <2>5, <3>1 DEF RunFunctor
        <5>2. QED
          BY <1>1, <5>1 DEF IInv, TypeOK
      <4>2. Queued("startInLoop", batch) >= 1
        <5>1. /\ Queued("startInLoop", Tail(batch)) \in Nat
              /\ Queued("startInLoop", batch)
                   = Queued("startInLoop", Tail(batch))
                       + IF Head(batch) = "startInLoop" THEN 1 ELSE 0
          BY <4>1, QueuedTail
        <5>2. QED
          BY <3>1, <5>1
      <4>3. Starting = 1
        BY <1>1, <4>2, Numbers DEF Starting, IInv, One
      <4>4. QED
        BY <1>1, <2>3, <2>4, <4>1, <4>3 DEF IInv, One
    <3>2. QED
      BY <1>1, <2>5, <3>1 DEF RunFunctor
  <2>6. CASE TimerExpires
    <3>1. channel # "none"
      BY <2>3, <2>4, <2>6 DEF TimerExpires
    <3>2. channel = "removed"
      BY <1>1, <2>1, <2>6, <3>1 DEF TimerExpires, IInv, TypeOK, One, Channels, SocketsAccounted
    <3>3. QED
      BY <1>1, <2>1, <2>3, <2>6, <3>2, QueuedEmpty, Numbers DEF TimerExpires, IInv, Channels
  <2>7. CASE \E e \in Events, s \in Outcomes : ConnectFails(e, s)
    BY <1>1, <2>7 DEF ConnectFails, Check, IInv, Channels, SocketsAccounted
  <2>8. CASE HandleWrite
    BY <1>1, <2>8 DEF HandleWrite, ConnectSucceeds
  <2>9. CASE \E c \in open : CloseConnection(c)
    BY <2>1, <2>3, <2>9 DEF CloseConnection, Check
  <2>10. CASE Reconnect
    <3>1. channel = "none" /\ Connect(TRUE, kInitRetryDelayMs, timers)
      BY <1>1, <2>10 DEF Reconnect, Restart, IInv, Connections
    <3>2. fault' = fault
      BY <3>1 DEF Connect, Check
    <3>3. QED
      BY <1>1, <3>2
  <2>11. CASE \/ TakeFunctors \/ NewConnection \/ Disconnect \/ DestroyClient
              \/ \E c \in open : CloseOrphan(c)
    BY <1>1, <2>11 DEF TakeFunctors, NewConnection, Disconnect, DestroyClient, CloseOrphan,
                       connectorVars
  <2>12. CASE \E t \in Callers : ConnectClient(t) \/ StopClient(t) \/ QueueCall(t)
    BY <1>1, <2>12 DEF ConnectClient, StopClient, QueueCall, Start, Stop, QueueInLoop
  <2>13. QED
    BY <2>1, <2>5, <2>6, <2>7, <2>8, <2>9, <2>10, <2>11, <2>12 DEF Next, LoopThread
<1>2. IInv /\ [Next]_vars =>
        [TimerExpires /\ Queued("resetChannel", pending) > 0 /\ fault' = "connecting"]_fault
  BY <1>1
<1>3. QED
  BY <1>2, Invariant, PTL DEF Spec, AssertionsHold

(* A client has one attempt, one socket or one connection at a time, and   *)
(* loses none.                                                             *)
THEOREM OneClientOneConnection == ASSUME MaxStarts <= 1 PROVE Spec => []OneAtATime
<1>1. IInv => OneAtATime
  <2> SUFFICES ASSUME IInv PROVE OneAtATime
    OBVIOUS
  <2>1. BackOff
    BY DEF IInv, TypeOK, Delays, BackOff
  <2>2. OneAttempt
    BY DEF IInv, One, OneAttempt
  <2>3. QED
    BY <2>1, <2>2 DEF IInv, Channels, Connections, OneAtATime
<1>2. QED
  BY <1>1, Invariant, PTL

(* After stop, and after ~TcpClient, no connection is handed to the user,  *)
(* but for a stop between a test of connect_ and the call that rests on it.*)
THEOREM NoConnectionAfterStop == ASSUME MaxStarts <= 1 PROVE Spec => StopHolds
<1>1. IInv /\ [Next]_vars => [stopped \/ destroyed => nextConnId' = nextConnId]_vars
  <2> SUFFICES ASSUME IInv, [Next]_vars, stopped \/ destroyed
               PROVE  nextConnId' = nextConnId
    OBVIOUS
  <2>1. CASE NewConnection
    <3>1. calling = "newConnection"
      BY <2>1 DEF NewConnection
    <3>2. QED
      BY <3>1 DEF IInv, Stops, Connections
  <2>2. CASE LoopThread /\ ~NewConnection
    BY <2>2 DEF LoopThread, HandleWrite, CloseConnection, CloseOrphan, Reconnect, clientVars
  <2>3. CASE Disconnect \/ DestroyClient
    BY <2>3 DEF Disconnect, DestroyClient
  <2>4. CASE \E t \in Callers : ConnectClient(t) \/ StopClient(t) \/ QueueCall(t)
    BY <2>4 DEF ConnectClient, StopClient, QueueCall, clientVars
  <2>5. CASE UNCHANGED vars
    BY <2>5 DEF vars, clientVars
  <2>6. QED
    BY <2>1, <2>2, <2>3, <2>4, <2>5 DEF Next
<1>2. QED
  BY <1>1, Invariant, PTL DEF Spec, StopHolds

(* In those two windows too, a stop is followed by one connection at most. *)
THEOREM OneMoreConnectionAtMost == ASSUME MaxStarts <= 1 PROVE Spec => []OneMoreAtMost
<1>1. IInv => OneMoreAtMost
  BY DEF IInv, TypeOK, Stops, OneMoreAtMost
<1>2. QED
  BY <1>1, Invariant, PTL
=============================================================================
