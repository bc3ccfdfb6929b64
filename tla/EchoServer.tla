----------------------------- MODULE EchoServer -----------------------------
(***************************************************************************)
(* The echo servers of the first chapters, 01_poll/src/echosrv_poll.cpp    *)
(* and 02_epoll/src/echosrv_epoll.cpp, with their client echocli.cpp.      *)
(*                                                                         *)
(* A server is one thread: a step is the return of poll(2) or epoll_wait,  *)
(* one accept, or the handling of one connection.  A client writes a line  *)
(* and reads once, in turn; what is sent is a number of units, of which a  *)
(* read may find only some.  A connection is named after its client.       *)
(***************************************************************************)
EXTENDS Integers, Sequences, FiniteSets, SequencesExt

CONSTANTS Clients,
          Listen,      \* listenfd
          MaxConns,    \* descriptors the server has for connections
          FirstEvents, \* the first size of the epoll server's event list
          MaxLines,    \* bound: lines a client sends
          LineUnits    \* bound: units in a line

ASSUME EchoAssumption ==
  /\ Listen \notin Clients /\ IsFiniteSet(Clients)
  /\ {MaxConns, FirstEvents, LineUnits} \subseteq Nat \ {0} /\ MaxLines \in Nat

VARIABLES
  kind,     \* "poll" or "epoll"
  client,   \* per client: "start", "ready", "waiting" (in read) or "gone"
  lines,    \* per client: how many lines it has sent
  toServer, \* per client: units it has sent and the server has not read
  toClient, \* per client: units the server has written and it has not read
  end,      \* per client: how its end of the connection is: "open", "fin",
            \* "rst" (closed with units unread)
  backlog,  \* connections to accept, in order
  conns,    \* accepted connections: pollfds without its first, or clients
  hungUp,   \* connections the server has closed
  free,     \* descriptors it may still open
  idlefd,   \* the epoll server holds its idle descriptor
  at,       \* the server: "poll", "accept", "scan", "events" or "exited"
  due,      \* what the last poll reported and has not been handled
  nready,   \* nready, as counted down
  pos,      \* the iterator over pollfds
  size      \* events.size()

clientVars == <<client, lines, end>>
fdVars == <<free, idlefd>>
loopVars == <<at, due, nready, pos, size>>
echoVars == <<kind, clientVars, toServer, toClient, backlog, conns, hungUp, fdVars, loopVars>>

(* Only the epoll server opens an idle descriptor, and an event list.      *)
PollStarts == kind = "poll" /\ idlefd = FALSE
EpollStarts == kind = "epoll" /\ idlefd = TRUE

EchoInit ==
  /\ PollStarts \/ EpollStarts
  /\ client = [c \in Clients |-> "start"] /\ lines = [c \in Clients |-> 0]
  /\ toServer = [c \in Clients |-> 0] /\ toClient = [c \in Clients |-> 0]
  /\ end = [c \in Clients |-> "open"]
  /\ backlog = << >> /\ conns = << >> /\ hungUp = {}
  /\ free = MaxConns
  /\ at = "poll" /\ due = {} /\ nready = 0 /\ pos = 1 /\ size = FirstEvents

-----------------------------------------------------------------------------
(* The client: connect succeeds when the server listens, before it accepts *)
Connect(c) ==
  /\ client[c] = "start"
  /\ IF at = "exited" THEN client' = [client EXCEPT ![c] = "gone"] /\ UNCHANGED backlog
     ELSE client' = [client EXCEPT ![c] = "ready"] /\ backlog' = Append(backlog, c)
  /\ UNCHANGED <<kind, lines, end, toServer, toClient, conns, hungUp, fdVars, loopVars>>

Send(c) ==
  /\ client[c] = "ready" /\ lines[c] < MaxLines
  /\ lines' = [lines EXCEPT ![c] = @ + 1]
  /\ toServer' = [toServer EXCEPT ![c] = IF c \in hungUp THEN @ ELSE @ + LineUnits]
  /\ client' = [client EXCEPT ![c] = "waiting"]
  /\ UNCHANGED <<kind, end, toClient, backlog, conns, hungUp, fdVars, loopVars>>

(* read takes what is there, which may be a part of the line, or finds the *)
(* server's end closed; the client goes on with its next line either way.  *)
Receive(c) ==
  /\ client[c] = "waiting"
  /\ \/ \E n \in 1..toClient[c] : toClient' = [toClient EXCEPT ![c] = @ - n]
     \/ toClient[c] = 0 /\ c \in hungUp /\ UNCHANGED toClient
  /\ client' = [client EXCEPT ![c] = "ready"]
  /\ UNCHANGED <<kind, lines, end, toServer, backlog, conns, hungUp, fdVars, loopVars>>

(* The end of the input, or of the client itself, in read(2) too: the      *)
(* kernel sends a FIN, and a RST if there is something the client did not  *)
(* read.                                                                   *)
Close(c) ==
  /\ client[c] \in {"ready", "waiting"}
  /\ client' = [client EXCEPT ![c] = "gone"]
  /\ end' = [end EXCEPT ![c] = IF toClient[c] > 0 THEN "rst" ELSE "fin"]
  /\ UNCHANGED <<kind, lines, toServer, toClient, backlog, conns, hungUp, fdVars, loopVars>>

-----------------------------------------------------------------------------
Readable(c) == toServer[c] > 0 \/ end[c] # "open"
Ready == {c \in ToSet(conns) : Readable(c)} \cup IF backlog = << >> THEN {} ELSE {Listen}

(* exit(EXIT_FAILURE): every connection is closed.                         *)
Exit ==
  /\ at' = "exited" /\ due' = {}
  /\ hungUp' = Clients /\ conns' = << >> /\ backlog' = << >>
  /\ UNCHANGED <<toServer, toClient, fdVars, nready, pos, size>>

(* accept4 with a descriptor to give.                                      *)
Accept ==
  /\ free > 0
  /\ conns' = Append(conns, Head(backlog)) /\ backlog' = Tail(backlog)
  /\ free' = free - 1
  /\ due' = due \ {Listen}
  /\ UNCHANGED <<toServer, toClient, hungUp, idlefd>>

(* Faulty variant: the idle descriptor is not opened again.                *)
BadRefuse ==
  /\ free = 0
  /\ IF idlefd THEN hungUp' = hungUp \cup {Head(backlog)} /\ backlog' = Tail(backlog)
               ELSE UNCHANGED <<hungUp, backlog>>
  /\ idlefd' = FALSE
  /\ due' = due \ {Listen}
  /\ UNCHANGED <<toServer, toClient, conns, free>>

(* Faulty variant: the connection is left to be accepted later.            *)
BadLeave ==
  /\ free = 0 /\ due' = due \ {Listen}
  /\ UNCHANGED <<toServer, toClient, hungUp, backlog, conns, fdVars>>

(* EMFILE in the epoll server: close(idlefd) makes room to accept the      *)
(* connection and close it, and for idlefd again.                          *)
Refuse ==
  /\ free = 0
  /\ IF idlefd THEN hungUp' = hungUp \cup {Head(backlog)} /\ backlog' = Tail(backlog)
               ELSE UNCHANGED <<hungUp, backlog>>
  /\ due' = due \ {Listen}
  /\ UNCHANGED <<toServer, toClient, conns, fdVars>>

(* read and write of a connection; what is written to a client that is     *)
(* gone is lost.                                                           *)
Echo(c) ==
  /\ toServer[c] > 0
  /\ \E n \in 1..toServer[c] :
       /\ toServer' = [toServer EXCEPT ![c] = @ - n]
       /\ toClient' = [toClient EXCEPT ![c] = IF end[c] = "open" THEN @ + n ELSE @]
  /\ due' = due \ {c}
  /\ UNCHANGED <<backlog, conns, hungUp, fdVars>>

(* read returns 0: the connection is erased and closed.                    *)
HangUp(c) ==
  /\ toServer[c] = 0 /\ end[c] = "fin"
  /\ \E i \in DOMAIN conns : conns[i] = c /\ conns' = RemoveAt(conns, i)
  /\ hungUp' = hungUp \cup {c} /\ free' = free + 1
  /\ due' = due \ {c}
  /\ UNCHANGED <<toServer, toClient, backlog, idlefd>>

(* read returns -1 for a connection that was reset.                        *)
ReadFails(c) == toServer[c] = 0 /\ end[c] = "rst" /\ Exit

-----------------------------------------------------------------------------
(* echosrv_poll.cpp                                                        *)
PollReturns ==
  /\ kind = "poll" /\ at = "poll" /\ Ready # {}
  /\ due' = Ready /\ nready' = Cardinality(Ready)
  /\ at' = "accept" /\ pos' = 1
  /\ UNCHANGED <<kind, clientVars, toServer, toClient, backlog, conns, hungUp, fdVars, size>>

(* pollfds[0]: a server without descriptors ends.                          *)
AcceptFirst ==
  /\ at = "accept"
  /\ \/ /\ Listen \in due /\ Accept
        /\ nready' = nready - 1
        /\ at' = IF nready' = 0 THEN "poll" ELSE "scan"
        /\ UNCHANGED <<pos, size>>
     \/ Listen \in due /\ free = 0 /\ Exit
     \/ /\ Listen \notin due
        /\ at' = "scan"
        /\ UNCHANGED <<toServer, toClient, backlog, conns, hungUp, fdVars, due, nready,
                       pos, size>>
  /\ UNCHANGED <<kind, clientVars>>

(* Faulty variant: the iterator is not taken back after an erase.          *)
BadScanNext ==
  LET c == conns[pos] IN
  /\ \/ /\ c \in due /\ nready' = nready - 1 /\ UNCHANGED <<at, size>>
        /\ \/ (Echo(c) \/ HangUp(c)) /\ pos' = pos + 1
     \/ c \in due /\ ReadFails(c)
     \/ /\ c \notin due /\ pos' = pos + 1
        /\ UNCHANGED <<toServer, toClient, backlog, conns, hungUp, fdVars, at, due, nready,
                       size>>

(* The connection the iterator is at; an erase leaves it where it is.      *)
ScanNext ==
  LET c == conns[pos] IN
  /\ \/ /\ c \in due /\ nready' = nready - 1 /\ UNCHANGED <<at, size>>
        /\ \/ Echo(c) /\ pos' = pos + 1
           \/ HangUp(c) /\ UNCHANGED pos
     \/ c \in due /\ ReadFails(c)
     \/ /\ c \notin due /\ pos' = pos + 1
        /\ UNCHANGED <<toServer, toClient, backlog, conns, hungUp, fdVars, at, due, nready,
                       size>>

Scan ==
  /\ at = "scan" /\ pos <= Len(conns) /\ nready > 0
  /\ ScanNext
  /\ UNCHANGED <<kind, clientVars>>

EndScan ==
  /\ at = "scan" /\ (pos > Len(conns) \/ nready = 0)
  /\ at' = "poll"
  /\ UNCHANGED <<kind, clientVars, toServer, toClient, backlog, conns, hungUp, fdVars,
                 due, nready, pos, size>>

-----------------------------------------------------------------------------
(* echosrv_epoll.cpp                                                       *)

(* The event list is doubled when a wait has filled it.                    *)
Grown(n) == IF n = size THEN 2 * size ELSE size

(* epoll_wait reports as many as the list holds, whichever they are.       *)
WaitReturns ==
  /\ kind = "epoll" /\ at = "poll" /\ Ready # {}
  /\ \E reported \in SUBSET Ready :
       /\ Cardinality(reported) =
            IF Cardinality(Ready) < size THEN Cardinality(Ready) ELSE size
       /\ due' = reported /\ size' = Grown(Cardinality(reported))
  /\ at' = "events"
  /\ UNCHANGED <<kind, clientVars, toServer, toClient, backlog, conns, hungUp, fdVars,
                 nready, pos>>

HandleOne ==
  /\ at = "events"
  /\ \/ /\ \/ Listen \in due /\ (Accept \/ Refuse)
           \/ \E c \in due \cap Clients : Echo(c) \/ HangUp(c)
        /\ at' = IF due' = {} THEN "poll" ELSE "events"
        /\ UNCHANGED <<nready, pos, size>>
     \/ \E c \in due \cap Clients : ReadFails(c)
  /\ UNCHANGED <<kind, clientVars>>

-----------------------------------------------------------------------------
ServerStep == PollReturns \/ AcceptFirst \/ Scan \/ EndScan \/ WaitReturns \/ HandleOne

(* A client that has sent all its lines may sit at its terminal.           *)
Idle == at \in {"poll", "exited"} /\ (at = "exited" \/ Ready = {}) /\ UNCHANGED echoVars

EchoNext ==
  \/ \E c \in Clients : Connect(c) \/ Send(c) \/ Receive(c) \/ Close(c)
  \/ ServerStep \/ Idle

EchoSpec == EchoInit /\ [][EchoNext]_echoVars

(* The server and a read that has something go on; nobody has to type.     *)
EchoFairSpec ==
  EchoSpec /\ WF_echoVars(ServerStep) /\ \A c \in Clients : WF_echoVars(Receive(c))

-----------------------------------------------------------------------------
(* Whatever a poll reports is handled before the next one, although the    *)
(* poll server erases from and appends to the vector it scans, and stops   *)
(* the scan when nready has been counted down.                             *)
ReportedAreHandled == at = "poll" => due = {}

(* Every descriptor is a connection's or free, and the idle one, without   *)
(* which the next EMFILE would leave the loop spinning on listenfd, is     *)
(* back whenever the epoll server waits.                                   *)
DescriptorsKept ==
  at = "poll" => /\ free + Len(conns) = MaxConns
                 /\ idlefd = (kind = "epoll")

(* A client that waits for its echo gets something, accepted or refused,   *)
(* however many others are busy and however few events one wait reports,   *)
(* unless the server ends: then too its read returns.                      *)
Answered ==
  \A c \in Clients : client[c] = "waiting" ~> client[c] # "waiting"
=============================================================================
