--------------------------- MODULE EarlyTcpServer ---------------------------
(***************************************************************************)
(* TcpServer and TcpConnection as chapter 23 introduces them: one loop, in *)
(* which a connection is accepted and established in one go, and no        *)
(* connection is ever removed.  Later chapters add IO threads, closing and *)
(* teardown; what this server tells its user of connections that come up   *)
(* stays the promise of the later ones (TcpServer!ImplementsEarly).        *)
(***************************************************************************)
EXTENDS Naturals

CONSTANT Conns         \* connections that may be made

VARIABLES
  started,             \* started_
  listening,           \* Acceptor::listenning_
  ups                  \* per connection: connectionCallback_ calls with connected()

vars == <<started, listening, ups>>

Init ==
  /\ started = FALSE /\ listening = FALSE
  /\ ups = [c \in Conns |-> 0]

(* start may be called often and in any thread: listen runs in the loop,   *)
(* at once or later.                                                       *)
Start ==
  /\ started' = TRUE
  /\ listening' \in {listening, TRUE}
  /\ UNCHANGED ups

Listen ==
  /\ started
  /\ listening' = TRUE
  /\ UNCHANGED <<started, ups>>

(* A connection of which nothing is known: kConnecting.                    *)
Fresh(c) == ups[c] = 0

(* connectEstablished: kConnected, enabled, and the user is told.          *)
ConnectEstablished(c) ==
  /\ Fresh(c)
  /\ ups' = [ups EXCEPT ![c] = @ + 1]

NewConnection(c) ==
  /\ listening
  /\ ConnectEstablished(c)
  /\ UNCHANGED <<started, listening>>

(* handleRead passes on what read returns, the end of the data included.   *)
HandleRead(c) == ~Fresh(c) /\ UNCHANGED vars

(* ~TcpServer and with it ~Acceptor.                                       *)
Destroy ==
  /\ listening' = FALSE
  /\ UNCHANGED <<started, ups>>

Next ==
  \/ Start \/ Listen \/ Destroy
  \/ \E c \in Conns : NewConnection(c) \/ HandleRead(c)

Spec == Init /\ [][Next]_vars
=============================================================================
