------------------------------ MODULE Acceptor ------------------------------
(***************************************************************************)
(* Acceptor (22_muduo_acceptor), with the Socket and the SocketsOps it     *)
(* uses (21, 19): clients wait in the queue of the listening socket, poll  *)
(* reports it as long as one does, and handleRead accepts one.  When the   *)
(* process has no descriptor left, handleRead gives up an idle one, takes  *)
(* a client with it, closes both, and opens the idle one again; these are  *)
(* system calls of their own, between which other threads may open and     *)
(* close descriptors.                                                      *)
(***************************************************************************)
EXTENDS Naturals

CONSTANTS MaxClients,    \* bound: clients that connect
          MaxFds         \* descriptors left for the idle one and connections

ASSUME AcceptorAssumption == MaxClients \in Nat /\ MaxFds \in Nat \ {0}

VARIABLES
  listening,     \* listenning_, and the channel waits for events
  backlog,       \* clients waiting in the queue of the listening socket
  clients,       \* how many have connected so far
  idleFd,        \* idleFd_ is a descriptor
  refusing,      \* "no", or the system call handleRead makes next: "accept"
                 \* or "open"
  taken          \* descriptors opened by other threads: 0 or 1

acceptorVars == <<listening, backlog, clients, idleFd, refusing, taken>>

AcceptorInit ==
  /\ listening = FALSE /\ backlog = 0 /\ clients = 0
  /\ idleFd = TRUE /\ refusing = "no" /\ taken = 0

(* With sockets sockets open, a call of accept or open can succeed.        *)
FdFree(sockets) ==
  sockets + taken + (IF idleFd THEN 1 ELSE 0) < MaxFds

-----------------------------------------------------------------------------
Listen ==
  /\ listening' = TRUE
  /\ UNCHANGED <<backlog, clients, idleFd, refusing, taken>>

(* poll reports the listening socket, and the loop is not in handleRead.   *)
Acceptable == listening /\ backlog > 0 /\ refusing = "no"

(* sockets::accept takes a client; of its errors only EMFILE can occur     *)
(* here, and those it does not expect end the process.                     *)
AcceptSucceeds(sockets) == backlog > 0 /\ FdFree(sockets)

(* handleRead: accept succeeds, ...                                        *)
Accept(sockets) ==
  /\ Acceptable /\ AcceptSucceeds(sockets)
  /\ backlog' = backlog - 1
  /\ UNCHANGED <<listening, clients, idleFd, refusing, taken>>

(* ... or fails with EMFILE, and the idle descriptor is closed; ...        *)
CloseIdle(sockets) ==
  /\ Acceptable /\ ~AcceptSucceeds(sockets)
  /\ idleFd' = FALSE /\ refusing' = "accept"
  /\ UNCHANGED <<listening, backlog, clients, taken>>

(* Faulty variant: EMFILE is ignored like the other errors.                *)
BadAcceptAndClose(sockets) ==
  /\ refusing = "accept" /\ refusing' = "open"
  /\ UNCHANGED <<listening, backlog, clients, idleFd, taken>>

(* ... its place is used to accept the client and to close it, if nobody   *)
(* was faster; ...                                                         *)
AcceptAndClose(sockets) ==
  /\ refusing = "accept" /\ refusing' = "open"
  /\ backlog' = IF AcceptSucceeds(sockets) THEN backlog - 1 ELSE backlog
  /\ UNCHANGED <<listening, clients, idleFd, taken>>

(* ... and /dev/null is opened again.                                      *)
OpenIdle(sockets) ==
  /\ refusing = "open" /\ refusing' = "no"
  /\ idleFd' = FdFree(sockets)
  /\ UNCHANGED <<listening, backlog, clients, taken>>

(* ~Acceptor and ~Socket: the clients in the queue are lost.               *)
CloseAcceptor ==
  /\ listening' = FALSE /\ backlog' = 0 /\ idleFd' = FALSE
  /\ UNCHANGED <<clients, refusing, taken>>

-----------------------------------------------------------------------------
(* A client connects: the kernel completes the connection.                 *)
ClientConnects ==
  /\ listening /\ clients < MaxClients
  /\ clients' = clients + 1 /\ backlog' = backlog + 1
  /\ UNCHANGED <<listening, idleFd, refusing, taken>>

(* Another thread opens a descriptor of its own, or closes it: bounded to  *)
(* when a client waits, since descriptors are only looked for then.        *)
OthersOpen(sockets) ==
  /\ backlog > 0 /\ taken = 0 /\ FdFree(sockets) /\ taken' = 1
  /\ UNCHANGED <<listening, backlog, clients, idleFd, refusing>>

OthersClose ==
  /\ backlog > 0 /\ taken = 1 /\ taken' = 0
  /\ UNCHANGED <<listening, backlog, clients, idleFd, refusing>>

(* Another thread was faster than handleRead, between its two calls.       *)
IdleLost == ~idleFd /\ refusing = "no"
=============================================================================
