-------------------------- MODULE TcpServerProofs ---------------------------
(* Theorems about TcpServer, for every number of threads, clients and      *)
(* users, and every bound on the calls and descriptors.                    *)
EXTENDS TcpServer, SequenceTheorems, FiniteSetTheorems, TLAPS

-----------------------------------------------------------------------------
(* What a loop still has to run: the rest of its batch, then its queue.    *)
Todo(l) == SubSeq(batch[l], ran[l] + 1, Len(batch[l])) \o pending[l]

Has(q, f) == \E i \in 1..Len(q) : q[i] = f

Due(l, op, c) == Has(Todo(l), Functor(op, c))

EstablishDue(c) == Due(ioLoop[c], "connectEstablished", c)
DestroyDue(c)   == Due(ioLoop[c], "connectDestroyed", c)
RemoveDue(c)    == Due(Base, "removeConnectionInLoop", c)

(* No functor that owns its connection is queued twice, and a connection   *)
(* is not torn down before it is established.                              *)
InOrder(q) ==
  \A i, j \in 1..Len(q) :
     i < j /\ q[i].op \in Owning /\ q[i].conn = q[j].conn
       => q[i].op # q[j].op /\ ~(q[i].op = "connectDestroyed" /\ q[j].op = "connectEstablished")

(* A functor is in the loop of its connection, or in the base loop.        *)
Placed(l, f) ==
  /\ f.op = "listen" => l = Base /\ started
  /\ f.op # "listen" => f.conn < nextConn
  /\ f.op \in {"connectEstablished", "connectDestroyed"} \cup Raw => l = ioLoop[f.conn]
  /\ f.op = "connectEstablished" => l # Base
  /\ f.op = "removeConnectionInLoop" => l = Base /\ ioLoop[f.conn] # Base

-----------------------------------------------------------------------------
(* The life of a connection.                                               *)
States == {"none", "kConnecting", "kConnected", "kDisconnecting", "kDisconnected"}

(* Held by the map, or by the functor that ~TcpServer has queued.          *)
InMap(c) == c \in connections /\ ~DestroyDue(c)
Left(c) == c \notin connections /\ DestroyDue(c) /\ server # "up" /\ ioLoop[c] # Base

Unborn(c) ==
  /\ c >= nextConn /\ state[c] = "none" 
  /\ c \notin connections \cup registered \cup reading
  /\ ups[c] = 0 /\ downs[c] = 0 /\ destroyed[c] = 0

Made(c) ==
  /\ state[c] = "kConnecting" /\ EstablishDue(c) /\ ~RemoveDue(c)
  /\ c \notin registered \cup reading
  /\ ups[c] = 0 /\ downs[c] = 0 /\ destroyed[c] = 0
  /\ InMap(c) \/ Left(c)

IsUp(c) ==
  /\ state[c] \in {"kConnected", "kDisconnecting"} /\ ~EstablishDue(c) /\ ~RemoveDue(c)
  /\ c \in registered \cap reading
  /\ ups[c] = 1 /\ downs[c] = 0 /\ destroyed[c] = 0
  /\ InMap(c) \/ Left(c)

Closed(c) ==
  /\ state[c] \in {"kDisconnected", "kDisconnecting"} /\ ~EstablishDue(c)
  /\ c \in registered /\ c \notin reading
  /\ ups[c] = 1 /\ downs[c] = 1 /\ destroyed[c] = 0
  /\ \/ InMap(c) /\ RemoveDue(c)
     \/ c \notin connections /\ DestroyDue(c) /\ (RemoveDue(c) => server # "up")

TornDown(c) ==
  /\ state[c] \in {"kDisconnected", "kDisconnecting"} /\ ~EstablishDue(c) /\ ~DestroyDue(c)
  /\ c \notin connections \cup registered
  /\ ups[c] = 1 /\ destroyed[c] = 1
  /\ downs[c] = 1 \/ (downs[c] = 0 /\ server # "up")
  /\ RemoveDue(c) => server # "up"

(* Its loop has gone before it was torn down.                              *)
Lost(c) ==
  /\ Gone(ioLoop[c]) /\ state[c] # "none"
  /\ c \notin connections \cup registered
  /\ ups[c] <= 1 /\ downs[c] <= ups[c] /\ destroyed[c] = 0

Life(c) ==
  \/ Unborn(c)
  \/ /\ c < nextConn /\ ioLoop[c] \in IOLoops
     /\ Made(c) \/ IsUp(c) \/ Closed(c) \/ TornDown(c) \/ Lost(c)

-----------------------------------------------------------------------------
ServerTypes ==
  /\ server \in {"up", "closing", "destroyed"} /\ started \in BOOLEAN
  /\ listening \in BOOLEAN
  /\ numThreads \in 0..MaxThreads /\ nextConn \in Nat \ {0} /\ next \in Nat
  /\ backlog \in Nat /\ clients \in Nat
  /\ connections \subseteq Conns

ConnTypes ==
  /\ registered \subseteq Conns /\ reading \subseteq Conns
  /\ ioLoop \in [Conns -> Loops] /\ state \in [Conns -> States]
  /\ ups \in [Conns -> Nat] /\ downs \in [Conns -> Nat] /\ destroyed \in [Conns -> Nat]

LoopTypes ==
  /\ pending \in [Loops -> Seq(Functors)] /\ batch \in [Loops -> Seq(Functors)]
  /\ ran \in [Loops -> Nat]

TypeOK == ServerTypes /\ ConnTypes /\ LoopTypes

(* The queues of the loops.                                                *)
LoopOK(l) ==
  /\ batch[l] # << >> => ran[l] <= Len(batch[l])
  /\ InOrder(Todo(l))
  /\ \A f \in Functors : Has(Todo(l), f) => Placed(l, f)
  /\ Gone(l) \/ l \notin IOLoops \cup {Base} => batch[l] = << >> /\ pending[l] = << >>

Queues == \A l \in Loops : LoopOK(l)

(* The server and its acceptor.                                            *)
ServerInv ==
  /\ server # "up" => connections = {}
  /\ ~started => nextConn = 1 /\ next = 0
  /\ ~started /\ server = "up" => \A l \in Loops : batch[l] = << >> /\ pending[l] = << >>
  /\ listening => started /\ server # "destroyed"
  /\ nextConn > 1 => listening \/ server = "destroyed"
  /\ numThreads = 0 \/ next < numThreads
  /\ nextConn - 1 + backlog <= clients /\ clients <= MaxClients

(* A call in another thread is on a connection that was up.                *)
Calls ==
  /\ call \in [Users -> [op : Raw, conn : Conns] \cup {Idle}]
  /\ \A u \in Users : call[u] # Idle => state[call[u].conn] \notin {"none", "kConnecting"}

Faults ==
  /\ fault # "assertion"
  /\ fault = "dead server" => numThreads # 0

Lives == \A c \in Conns : Life(c)

IInv == TypeOK /\ Queues /\ ServerInv /\ Calls /\ Faults /\ Lives

-----------------------------------------------------------------------------
(* Functors are told apart by what they call and for which connection.     *)
LEMMA FunctorParts ==
  /\ \A f \in Functors : f = Functor(f.op, f.conn)
  /\ \A op, c : Functor(op, c).op = op /\ Functor(op, c).conn = c
BY DEF Functors, Functor

(* The functors the code queues for a connection are of the type.          *)
LEMMA FunctorOf ==
  ASSUME NEW c \in Conns, NEW op \in Owning \cup Raw PROVE Functor(op, c) \in Functors
BY DEF Functors, Functor

(* What is left when the first functor has been run, ...                   *)
IsTail(u, t) ==
  Len(u) \in Nat /\ Len(t) = Len(u) + 1 /\ \A i \in 1..Len(u) : u[i] = t[i + 1]

(* ... and when one is queued.                                             *)
IsAppend(u, t, f) ==
  /\ Len(t) \in Nat /\ Len(u) = Len(t) + 1
  /\ u[Len(t) + 1] = f /\ \A i \in 1..Len(t) : u[i] = t[i]

(* The rest of a batch and the queue behind it, element by element.        *)
IsRest(t, b, p, k) ==
  /\ Len(t) = Len(b) - k + Len(p)
  /\ \A i \in 1..Len(b) - k : t[i] = b[k + i]
  /\ \A i \in 1..Len(p) : t[Len(b) - k + i] = p[i]

(* The rest of a batch and the queue behind it have that shape, ...        *)
LEMMA Rest ==
  ASSUME NEW S, NEW b \in Seq(S), NEW p \in Seq(S), NEW k \in Nat, k <= Len(b)
  PROVE  IsRest(SubSeq(b, k + 1, Len(b)) \o p, b, p, k)
<1> DEFINE r == SubSeq(b, k + 1, Len(b))
           t == r \o p
<1>1. Len(b) \in Nat /\ Len(p) \in Nat /\ \A i \in 1..Len(b) : b[i] \in S
  BY LenProperties
<1>2. /\ r \in Seq(S) /\ Len(r) = Len(b) - k
      /\ \A i \in 1..Len(b) - k : r[i] = b[k + i]
  <2>1. k + 1 \in Int /\ Len(b) \in Int /\ \A i \in k + 1..Len(b) : b[i] \in S
    BY <1>1
  <2>2. /\ r \in Seq(S)
        /\ Len(r) = IF k + 1 <= Len(b) THEN Len(b) - (k + 1) + 1 ELSE 0
        /\ \A i \in 1..Len(b) - (k + 1) + 1 : r[i] = b[k + 1 + i - 1]
    BY <2>1, SubSeqProperties
  <2> HIDE DEF r
  <2>3. QED
    BY <1>1, <2>2
<1> HIDE DEF r
<1>3. /\ t \in Seq(S) /\ Len(t) = Len(r) + Len(p)
      /\ \A i \in 1..Len(r) + Len(p) : t[i] = IF i <= Len(r) THEN r[i] ELSE p[i - Len(r)]
  BY <1>2, ConcatProperties
<1> HIDE DEF t
<1>4. t \in Seq(S) /\ Len(t) = Len(b) - k + Len(p)
  BY <1>2, <1>3
<1>5. ASSUME NEW i \in 1..Len(b) - k PROVE t[i] = b[k + i]
  <2>1. i \in 1..Len(r) + Len(p) /\ i <= Len(r)
    BY <1>1, <1>2
  <2>2. QED
    BY <1>2, <1>3, <2>1
<1>6. ASSUME NEW i \in 1..Len(p) PROVE t[Len(b) - k + i] = p[i]
  <2> DEFINE j == Len(b) - k + i
  <2>1. j \in 1..Len(r) + Len(p) /\ ~(j <= Len(r)) /\ j - Len(r) = i
    BY <1>1, <1>2
  <2>2. QED
    BY <1>3, <2>1
<1>7. QED
  BY <1>4, <1>5, <1>6 DEF IsRest, t, r

(* ... running the functor at ran + 1 takes the first of them away, ...    *)
LEMMA RestTail ==
  ASSUME NEW S, NEW b \in Seq(S), NEW p \in Seq(S), NEW k \in Nat, k < Len(b),
         NEW m \in Nat, m = k + 1
  PROVE  /\ IsTail(SubSeq(b, m + 1, Len(b)) \o p, SubSeq(b, k + 1, Len(b)) \o p)
         /\ (SubSeq(b, k + 1, Len(b)) \o p)[1] = b[k + 1]
<1> DEFINE t == SubSeq(b, k + 1, Len(b)) \o p
           u == SubSeq(b, m + 1, Len(b)) \o p
<1>1. Len(b) \in Nat /\ Len(p) \in Nat /\ k <= Len(b) /\ m <= Len(b) 
  BY LenProperties
<1>2. IsRest(t, b, p, k)
  BY <1>1, Rest
<1>3. IsRest(u, b, p, m)
  BY <1>1, Rest
<1> HIDE DEF t, u
<1> USE DEF IsRest
<1>4. Len(u) \in Nat /\ Len(t) = Len(u) + 1
  BY <1>1, <1>2, <1>3
<1>5. ASSUME NEW i \in 1..Len(u) PROVE u[i] = t[i + 1]
  <2>1. CASE i <= Len(b) - m
    <3>1. i \in 1..Len(b) - m /\ i + 1 \in 1..Len(b) - k /\ m + i = k + (i + 1)
      BY <1>1, <1>4, <2>1
    <3>2. u[i] = b[m + i] /\ t[i + 1] = b[k + (i + 1)]
      BY <1>2, <1>3, <3>1
    <3>3. QED
      BY <3>1, <3>2
  <2>2. CASE ~(i <= Len(b) - m)
    <3> DEFINE j == i - (Len(b) - m)
    <3>1. j \in 1..Len(p) /\ i = Len(b) - m + j /\ i + 1 = Len(b) - k + j
      BY <1>1, <1>3, <1>4, <2>2
    <3> HIDE DEF j
    <3>2. u[i] = p[j] /\ t[i + 1] = p[j]
      BY <1>2, <1>3, <3>1
    <3>3. QED
      BY <3>2
  <2>3. QED
    BY <2>1, <2>2
<1>6. t[1] = b[k + 1]
  <2>1. 1 \in 1..Len(b) - k
    BY <1>1
  <2>2. QED
    BY <1>2, <2>1
<1>7. QED
  BY <1>4, <1>5, <1>6 DEF IsTail, t, u

(* ... and the rest is a sequence.                                         *)
LEMMA RestIsSeq ==
  ASSUME NEW S, NEW b \in Seq(S), NEW k \in Nat
  PROVE  SubSeq(b, k + 1, Len(b)) \in Seq(S)
<1>1. Len(b) \in Nat /\ \A i \in 1..Len(b) : b[i] \in S
  BY LenProperties
<1>2. k + 1 \in Int /\ Len(b) \in Int /\ \A i \in k + 1..Len(b) : b[i] \in S
  BY <1>1
<1>3. QED
  BY <1>2, SubSeqProperties

(* Appending to the queue appends to the two together.                     *)
LEMMA ConcatAppend ==
  ASSUME NEW S, NEW r \in Seq(S), NEW p \in Seq(S), NEW f \in S
  PROVE  r \o p \in Seq(S) /\ IsAppend(r \o Append(p, f), r \o p, f)
<1> DEFINE a == Append(p, f)
           t == r \o p
<1>1. a = p \o << f >> /\ << f >> \in Seq(S) /\ t \in Seq(S)
  BY AppendIsConcat, ConcatProperties
<1>2. r \o a = t \o << f >>
  <2> HIDE DEF a
  <2>1. QED
    BY <1>1, ConcatAssociative
<1> HIDE DEF a, t
<1>3. t \o << f >> = Append(t, f)
  BY <1>1, AppendIsConcat
<1> DEFINE v == Append(t, f)
<1>4. Len(t) \in Nat /\ Len(v) = Len(t) + 1 /\ v[Len(t) + 1] = f /\ \A i \in 1..Len(t) : v[i] = t[i]
  BY <1>1, AppendProperties, LenProperties
<1> HIDE DEF v
<1>5. IsAppend(v, t, f)
  BY <1>4 DEF IsAppend
<1>6. QED
  BY <1>1, <1>2, <1>3, <1>5 DEF a, t, v

(* With no batch only the queue is left.                                   *)
LEMMA NoRest ==
  ASSUME NEW S, NEW p \in Seq(S), NEW k \in Nat
  PROVE  SubSeq(<< >>, k + 1, Len(<< >>)) \o p = p
<1>1. Len(<< >>) = 0 /\ 0 < k + 1 /\ k + 1 \in Int /\ 0 \in Int
  OBVIOUS
<1>2. SubSeq(<< >>, k + 1, Len(<< >>)) = << >>
  BY <1>1, SubSeqEmpty
<1>3. QED
  BY <1>2, ConcatEmptySeq

-----------------------------------------------------------------------------
(* What is left of a sequence whose first element is taken, ...            *)
LEMMA TailHas ==
  ASSUME NEW t, NEW u, IsTail(u, t)
  PROVE  \A f : /\ Has(u, f) => Has(t, f)
                /\ Has(t, f) => f = t[1] \/ Has(u, f)
<1>1. ASSUME NEW f, Has(u, f) PROVE Has(t, f)
  <2>1. PICK i \in 1..Len(u) : u[i] = f
    BY <1>1 DEF Has
  <2>2. i + 1 \in 1..Len(t) /\ t[i + 1] = f
    BY <2>1 DEF IsTail
  <2>3. QED
    BY <2>2 DEF Has
<1>2. ASSUME NEW f, Has(t, f), f # t[1] PROVE Has(u, f)
  <2>1. PICK i \in 1..Len(t) : t[i] = f
    BY <1>2 DEF Has
  <2>2. i - 1 \in 1..Len(u) /\ (i - 1) + 1 = i
    BY <1>2, <2>1 DEF IsTail
  <2>3. u[i - 1] = f
    BY <2>1, <2>2 DEF IsTail
  <2>4. QED
    BY <2>2, <2>3 DEF Has
<1>3. QED
  BY <1>1, <1>2

(* ... which stays in order, and no longer has what the first excludes.    *)
LEMMA TailInOrder ==
  ASSUME NEW t, NEW u, IsTail(u, t), InOrder(t)
  PROVE  /\ InOrder(u)
         /\ \A f : Has(u, f) /\ t[1].op \in Owning /\ f.conn = t[1].conn
               => f.op # t[1].op /\ ~(t[1].op = "connectDestroyed" /\ f.op = "connectEstablished")
<1>1. Len(u) \in Nat /\ 1 \in 1..Len(t)
  BY DEF IsTail
<1>2. \A i \in 1..Len(u) : i + 1 \in 1..Len(t) /\ u[i] = t[i + 1] /\ 1 < i + 1
  BY DEF IsTail
<1>3. InOrder(u)
  <2>1. \A i, j \in 1..Len(u) : i < j => i + 1 < j + 1
    BY <1>1
  <2>2. QED
    BY <1>2, <2>1 DEF InOrder
<1>4. ASSUME NEW f, Has(u, f), t[1].op \in Owning, f.conn = t[1].conn
      PROVE  f.op # t[1].op /\ ~(t[1].op = "connectDestroyed" /\ f.op = "connectEstablished")
  <2>1. PICK i \in 1..Len(u) : u[i] = f
    BY <1>4 DEF Has
  <2>2. QED
    BY <1>1, <1>2, <1>4, <2>1 DEF InOrder
<1>5. QED
  BY <1>3, <1>4

(* What a sequence has that gets one more element, ...                     *)
LEMMA AppendHas ==
  ASSUME NEW t, NEW u, NEW f, IsAppend(u, t, f)
  PROVE  \A g : Has(u, g) <=> Has(t, g) \/ g = f
<1>1. 1..Len(u) = 1..Len(t) \cup {Len(t) + 1}
  BY DEF IsAppend
<1>2. QED
  BY <1>1 DEF IsAppend, Has

(* ... and when it stays in order.                                         *)
LEMMA AppendInOrder ==
  ASSUME NEW t \in Seq(Functors), NEW u, NEW f \in Functors, IsAppend(u, t, f), InOrder(t),
         f.op \in Owning => ~Has(t, f),
         f.op = "connectEstablished" => ~Has(t, Functor("connectDestroyed", f.conn))
  PROVE  InOrder(u)
<1> SUFFICES ASSUME NEW i \in 1..Len(u), NEW j \in 1..Len(u), i < j, u[i].op \in Owning,
                    u[i].conn = u[j].conn
             PROVE  /\ u[i].op # u[j].op
                    /\ ~(u[i].op = "connectDestroyed" /\ u[j].op = "connectEstablished")
  BY DEF InOrder
<1>1. i \in 1..Len(t) /\ u[i] = t[i] /\ (j \in 1..Len(t) \/ j = Len(t) + 1)
  BY DEF IsAppend
<1>2. CASE j \in 1..Len(t)
  BY <1>1, <1>2 DEF InOrder, IsAppend
<1>3. CASE j = Len(t) + 1
  <2>1. u[j] = f /\ t[i] \in Functors
    BY <1>1, <1>3, ElementOfSeq DEF IsAppend
  <2>2. t[i] = Functor(t[i].op, f.conn) /\ f = Functor(f.op, f.conn)
    BY <1>1, <2>1, FunctorParts
  <2>3. Has(t, Functor(t[i].op, f.conn))
    BY <1>1, <2>2 DEF Has
  <2>4. QED
    BY <1>1, <2>1, <2>2, <2>3
<1>4. QED
  BY <1>1, <1>2, <1>3

-----------------------------------------------------------------------------
(* What the steps of a loop, and those that queue in it, leave to be run.  *)
LEMMA TodoType ==
  ASSUME TypeOK, NEW l \in Loops
  PROVE  Todo(l) \in Seq(Functors) /\ (batch[l] = << >> => Todo(l) = pending[l])
<1>1. batch[l] \in Seq(Functors) /\ pending[l] \in Seq(Functors) /\ ran[l] \in Nat
  BY DEF TypeOK, LoopTypes
<1>2. Todo(l) \in Seq(Functors)
  BY <1>1, RestIsSeq, ConcatProperties DEF Todo
<1>3. ASSUME batch[l] = << >> PROVE Todo(l) = pending[l]
  <2>1. Todo(l) = SubSeq(<< >>, ran[l] + 1, Len(<< >>)) \o pending[l]
    BY <1>3, Zenon DEF Todo
  <2>2. QED
    BY <1>1, <2>1, NoRest
<1>4. QED
  BY <1>2, <1>3

(* Nothing else changes what is left: not a step in another loop, ...      *)
LEMMA TodoSame ==
  ASSUME NEW l, pending'[l] = pending[l], batch'[l] = batch[l], ran'[l] = ran[l]
  PROVE  Todo(l)' = Todo(l)
BY DEF Todo

(* ... not the swap that takes the batch, nor the end of a batch.          *)
LEMMA TodoTaken ==
  ASSUME TypeOK, NEW l \in Loops, batch[l] # << >> => ran[l] <= Len(batch[l]),
         \/ /\ batch[l] = << >> /\ batch'[l] = pending[l] /\ pending'[l] = << >> /\ ran'[l] = 0
         \/ /\ batch[l] # << >> /\ ran[l] = Len(batch[l]) /\ batch'[l] = << >>
            /\ pending'[l] = pending[l] /\ ran'[l] = ran[l]
  PROVE  Todo(l)' = Todo(l)
<1>1. batch[l] \in Seq(Functors) /\ pending[l] \in Seq(Functors) /\ ran[l] \in Nat
  BY DEF TypeOK, LoopTypes
<1>2. CASE /\ batch[l] = << >> /\ batch'[l] = pending[l] /\ pending'[l] = << >> /\ ran'[l] = 0
  <2>1. Todo(l)' = SubSeq(pending[l], 0 + 1, Len(pending[l])) \o << >>
    BY <1>2, Zenon DEF Todo
  <2>2. 0 + 1 = 1
    OBVIOUS
  <2>3. Todo(l)' = SubSeq(pending[l], 1, Len(pending[l])) \o << >>
    BY <2>1, <2>2, Zenon
  <2>4. Todo(l)' = pending[l]
    BY <1>1, <2>3, SubSeqFull, ConcatEmptySeq, Zenon
  <2>5. QED
    BY <1>2, <2>4, TodoType
<1>3. CASE /\ batch[l] # << >> /\ ran[l] = Len(batch[l]) /\ batch'[l] = << >>
           /\ pending'[l] = pending[l] /\ ran'[l] = ran[l]
  <2>1. Todo(l)' = SubSeq(<< >>, ran[l] + 1, Len(<< >>)) \o pending[l]
    BY <1>3, Zenon DEF Todo
  <2>2. Todo(l)' = pending[l]
    BY <1>1, <2>1, NoRest
  <2>3. SubSeq(batch[l], ran[l] + 1, Len(batch[l])) = << >>
    BY <1>1, <1>3, SubSeqEmpty, LenProperties
  <2>4. Todo(l) = << >> \o pending[l]
    BY <2>3, Zenon DEF Todo
  <2>5. QED
    BY <1>1, <2>2, <2>4, ConcatEmptySeq
<1>4. QED
  BY <1>2, <1>3

(* Running a functor takes the first away, ...                             *)
LEMMA TodoRun ==
  ASSUME TypeOK, NEW l \in Loops, ran[l] < Len(batch[l]),
         ran'[l] = ran[l] + 1, batch'[l] = batch[l], pending'[l] = pending[l]
  PROVE  IsTail(Todo(l)', Todo(l)) /\ Todo(l)[1] = batch[l][ran[l] + 1]
<1>1. batch[l] \in Seq(Functors) /\ pending[l] \in Seq(Functors) /\ ran[l] \in Nat
  BY DEF TypeOK, LoopTypes
<1>2. Todo(l)' = SubSeq(batch[l], ran'[l] + 1, Len(batch[l])) \o pending[l]
  BY Zenon DEF Todo
<1>3. ran'[l] \in Nat
  BY <1>1
<1>4. QED
  BY <1>1, <1>2, <1>3, RestTail, Zenon DEF Todo

(* ... and queueInLoop appends one.                                        *)
LEMMA TodoAppend ==
  ASSUME TypeOK, NEW l \in Loops, NEW f \in Functors,
         batch'[l] = batch[l], ran'[l] = ran[l], pending'[l] = Append(pending[l], f)
  PROVE  IsAppend(Todo(l)', Todo(l), f)
<1>1. batch[l] \in Seq(Functors) /\ pending[l] \in Seq(Functors) /\ ran[l] \in Nat
  BY DEF TypeOK, LoopTypes
<1>2. SubSeq(batch[l], ran[l] + 1, Len(batch[l])) \in Seq(Functors)
  BY <1>1, RestIsSeq
<1>3. Todo(l)' = SubSeq(batch[l], ran[l] + 1, Len(batch[l])) \o Append(pending[l], f)
  BY Zenon DEF Todo
<1>4. QED
  BY <1>1, <1>2, <1>3, ConcatAppend, Zenon DEF Todo

(* ~TcpServer queues several functors at once.                             *)
LEMMA TodoConcat ==
  ASSUME TypeOK, NEW l \in Loops, NEW d \in Seq(Functors),
         batch'[l] = batch[l], ran'[l] = ran[l], pending'[l] = pending[l] \o d
  PROVE  Todo(l)' = Todo(l) \o d
<1> DEFINE r == SubSeq(batch[l], ran[l] + 1, Len(batch[l]))
           p == pending[l]
<1>1. batch[l] \in Seq(Functors) /\ p \in Seq(Functors) /\ ran[l] \in Nat
  BY DEF TypeOK, LoopTypes
<1>2. r \in Seq(Functors)
  BY <1>1, RestIsSeq
<1>3. Todo(l)' = r \o (p \o d) /\ Todo(l) = r \o p
  BY Zenon DEF Todo
<1> HIDE DEF r, p
<1>4. \A q1, q2, q3 \in Seq(Functors) : (q1 \o q2) \o q3 = q1 \o (q2 \o q3)
  BY ConcatAssociative
<1>5. Todo(l)' = (r \o p) \o d
  BY <1>1, <1>2, <1>3, <1>4, Zenon
<1>6. QED
  BY <1>3, <1>5

(* What two sequences have together, ...                                   *)
LEMMA ConcatHas ==
  ASSUME NEW t \in Seq(Functors), NEW d \in Seq(Functors)
  PROVE  \A f : Has(t \o d, f) <=> Has(t, f) \/ Has(d, f)
<1> DEFINE u == t \o d
<1>1. /\ Len(t) \in Nat /\ Len(d) \in Nat /\ Len(u) = Len(t) + Len(d)
      /\ \A i \in 1..Len(t) + Len(d) : u[i] = IF i <= Len(t) THEN t[i] ELSE d[i - Len(t)]
  BY ConcatProperties, LenProperties
<1> HIDE DEF u
<1>2. \A i \in 1..Len(t) : i \in 1..Len(u) /\ u[i] = t[i]
  BY <1>1
<1>3. ASSUME NEW i \in 1..Len(d) PROVE Len(t) + i \in 1..Len(u) /\ u[Len(t) + i] = d[i]
  <2> DEFINE j == Len(t) + i
  <2>1. j \in 1..Len(t) + Len(d) /\ ~(j <= Len(t)) /\ j - Len(t) = i
    BY <1>1
  <2> HIDE DEF j
  <2>2. j \in 1..Len(u) /\ u[j] = d[i]
    BY <1>1, <2>1
  <2>3. QED
    BY <2>2 DEF j
<1>4. ASSUME NEW i \in 1..Len(u) PROVE i \in 1..Len(t) \/ \E j \in 1..Len(d) : i = Len(t) + j
  <2>1. CASE i <= Len(t)
    BY <1>1, <2>1
  <2>2. CASE ~(i <= Len(t))
    <3>1. i - Len(t) \in 1..Len(d) /\ i = Len(t) + (i - Len(t))
      BY <1>1, <2>2
    <3>2. QED
      BY <3>1
  <2>3. QED
    BY <2>1, <2>2
<1>5. ASSUME NEW f, Has(u, f) PROVE Has(t, f) \/ Has(d, f)
  <2>1. PICK i \in 1..Len(u) : u[i] = f
    BY <1>5 DEF Has
  <2>2. CASE i \in 1..Len(t)
    BY <1>2, <2>1, <2>2 DEF Has
  <2>3. ASSUME NEW j \in 1..Len(d), i = Len(t) + j PROVE Has(d, f)
    BY <1>3, <2>1, <2>3 DEF Has
  <2>4. QED
    BY <1>4, <2>2, <2>3
<1>6. ASSUME NEW f, Has(t, f) PROVE Has(u, f)
  BY <1>2, <1>6 DEF Has
<1>7. ASSUME NEW f, Has(d, f) PROVE Has(u, f)
  BY <1>3, <1>7 DEF Has
<1>8. QED
  BY <1>5, <1>6, <1>7 DEF u

(* They are for the connections of one loop that were in the map, each     *)
(* once.                                                                   *)
LEMMA DestroyersOnce ==
  ASSUME NEW A \in SUBSET Conns, NEW s \in Orders(A)
  PROVE  /\ Destroyers(s) \in Seq(Functors) /\ InOrder(Destroyers(s))
         /\ \A f : Has(Destroyers(s), f) <=>
                      f.conn \in A /\ f = Functor("connectDestroyed", f.conn)
<1> DEFINE n == Cardinality(A)
           d == Destroyers(s)
<1>1. IsFiniteSet(A) /\ n \in Nat
  <2>1. IsFiniteSet(Conns)
    BY AcceptorAssumption, FS_Interval DEF Conns
  <2>2. QED
    BY <2>1, FS_Subset, FS_CardinalityType
<1>2. s \in [1..n -> A] /\ Elements(s) = A
  BY DEF Orders
<1>3. IsFiniteSet(1..n) /\ Cardinality(1..n) = n
  <2>1. 1 \in Int /\ n \in Int
    BY <1>1
  <2>2. IsFiniteSet(1..n) /\ Cardinality(1..n) = IF 1 > n THEN 0 ELSE n - 1 + 1
    BY <2>1, FS_Interval
  <2>3. QED
    BY <1>1, <2>2
<1>4. s \in Surjection(1..n, A)
  BY <1>2 DEF Surjection, Elements
<1>5. s \in Injection(1..n, A)
  BY <1>1, <1>3, <1>4, FS_SurjSameCardinalityImpliesInj
<1>6. \A i, j \in 1..n : s[i] = s[j] => i = j
  BY <1>5 DEF Injection, IsInjective
<1> HIDE DEF n
<1>7. d = [i \in 1..n |-> Functor("connectDestroyed", s[i])]
  BY <1>2 DEF Destroyers
<1>8. \A i \in 1..n : Functor("connectDestroyed", s[i]) \in Functors
  BY <1>2, FunctorOf DEF Owning
<1>9. d \in Seq(Functors) /\ Len(d) = n /\ \A i \in 1..n : d[i] = Functor("connectDestroyed", s[i])
  BY <1>1, <1>7, <1>8
<1> HIDE DEF d
<1>10. InOrder(d)
  BY <1>1, <1>6, <1>9, FunctorParts DEF InOrder
<1>11. \A f : Has(d, f) <=> f.conn \in A /\ f = Functor("connectDestroyed", f.conn)
  <2>1. \A c : c \in A <=> \E i \in 1..n : s[i] = c
    BY <1>2 DEF Elements
  <2>2. QED
    BY <1>9, <2>1, FunctorParts DEF Has
<1>12. QED
  BY <1>9, <1>10, <1>11 DEF d

(* ... which are in order if the second only tears down what the first     *)
(* does not.                                                               *)
LEMMA ConcatInOrder ==
  ASSUME NEW t \in Seq(Functors), NEW d \in Seq(Functors), InOrder(t), InOrder(d),
         \A f \in Functors : Has(d, f) => f.op = "connectDestroyed" /\ ~Has(t, f)
  PROVE  InOrder(t \o d)
<1> DEFINE u == t \o d
<1>1. /\ Len(t) \in Nat /\ Len(d) \in Nat /\ Len(u) = Len(t) + Len(d)
      /\ \A i \in 1..Len(t) + Len(d) : u[i] = IF i <= Len(t) THEN t[i] ELSE d[i - Len(t)]
  BY ConcatProperties, LenProperties
<1>2. /\ \A i \in 1..Len(t) : t[i] \in Functors /\ Has(t, t[i])
      /\ \A i \in 1..Len(d) : d[i] \in Functors /\ Has(d, d[i])
  BY LenProperties DEF Has
<1> HIDE DEF u
<1> SUFFICES ASSUME NEW i \in 1..Len(u), NEW j \in 1..Len(u), i < j, u[i].op \in Owning,
                    u[i].conn = u[j].conn
             PROVE  /\ u[i].op # u[j].op
                    /\ ~(u[i].op = "connectDestroyed" /\ u[j].op = "connectEstablished")
  BY DEF InOrder, u
<1>3. CASE j <= Len(t)
  <2>1. i \in 1..Len(t) /\ j \in 1..Len(t) /\ u[i] = t[i] /\ u[j] = t[j]
    BY <1>1, <1>3
  <2>2. QED
    BY <2>1 DEF InOrder
<1>4. CASE ~(i <= Len(t))
  <2>1. /\ i - Len(t) \in 1..Len(d) /\ j - Len(t) \in 1..Len(d) /\ i - Len(t) < j - Len(t)
        /\ u[i] = d[i - Len(t)] /\ u[j] = d[j - Len(t)]
    BY <1>1, <1>4
  <2>2. QED
    BY <2>1 DEF InOrder
<1>5. CASE i <= Len(t) /\ ~(j <= Len(t))
  <2>1. /\ i \in 1..Len(t) /\ j - Len(t) \in 1..Len(d)
        /\ u[i] = t[i] /\ u[j] = d[j - Len(t)]
    BY <1>1, <1>5
  <2>2. u[i] \in Functors /\ u[j] \in Functors /\ Has(t, u[i]) /\ Has(d, u[j])
    BY <1>2, <2>1
  <2>3. u[j].op = "connectDestroyed" /\ u[i] # u[j]
    BY <2>2
  <2>4. QED
    BY <2>2, <2>3, FunctorParts
<1>6. QED
  BY <1>1, <1>3, <1>4, <1>5

-----------------------------------------------------------------------------
(* The functor a loop runs next.                                           *)
Front(l) == batch[l][ran[l] + 1]

(* It is one of the functors, for a connection unless it is listen.        *)
LEMMA FrontType ==
  ASSUME TypeOK, NEW l \in Loops, ran[l] < Len(batch[l])
  PROVE  /\ Front(l) \in Functors
         /\ Front(l).op # "listen" => Front(l).conn \in Conns /\ Front(l).op \in Owning \cup Raw
<1>1. batch[l] \in Seq(Functors) /\ ran[l] \in Nat
  BY DEF TypeOK, LoopTypes
<1>2. ran[l] + 1 \in 1..Len(batch[l])
  BY <1>1
<1>3. Front(l) \in Functors
  BY <1>1, <1>2, ElementOfSeq DEF Front
<1>4. QED
  BY <1>3 DEF Functors, Functor

(* No step gives a variable a value outside its type. *)
LEMMA QueuedType ==
  ASSUME LoopTypes, NEW l \in Loops, NEW f \in Functors
  PROVE  Queued(l, f) \in [Loops -> Seq(Functors)]
BY AppendProperties DEF LoopTypes, Queued

(* connectEstablished keeps the types of the connections, ...              *)
LEMMA EstablishType ==
  ASSUME ConnTypes, NEW c \in Conns, NEW old, NEW users, NEW shut, Establish(c, old, users, shut)
  PROVE  /\ registered' \subseteq Conns /\ reading' \subseteq Conns
         /\ state' \in [Conns -> States]
         /\ ups' \in [Conns -> Nat] /\ downs' \in [Conns -> Nat] /\ destroyed' \in [Conns -> Nat]
BY DEF ConnTypes, Establish, States

(* ... and so does connectDestroyed.                                       *)
LEMMA TearDownType ==
  ASSUME ConnTypes, NEW gone, NEW users, TearDown(gone, users)
  PROVE  ConnTypes'
BY DEF ConnTypes, TearDown, Unregister, States

(* getNextLoop answers one of the loops of the pool, or the base loop.     *)
LEMMA NextLoop ==
  ASSUME ServerTypes, ServerInv
  PROVE  /\ GetNextLoop \in Loops /\ GetNextLoop \in IOLoops
         /\ GetNextLoop = Base <=> numThreads = 0
<1>1. MaxThreads \in Nat /\ numThreads \in 0..MaxThreads /\ next \in Nat
  BY TcpServerAssumption DEF ServerTypes
<1>2. numThreads = 0 \/ next < numThreads
  BY DEF ServerInv
<1>3. QED
  BY <1>1, <1>2 DEF GetNextLoop, Loops, IOLoops, Base

-----------------------------------------------------------------------------
(* The initial state satisfies the invariant.                              *)
LEMMA InitCorrect == Init => IInv
<1> SUFFICES ASSUME Init PROVE IInv
  OBVIOUS
<1> USE DEF Init, AcceptorInit
<1>1. MaxThreads \in Nat /\ MaxClients \in Nat
  BY TcpServerAssumption, AcceptorAssumption
<1>2. TypeOK
  <2>1. ServerTypes
    <3>1. /\ server = "up" /\ started = FALSE /\ listening = FALSE /\ numThreads = 0
          /\ nextConn = 1 /\ next = 0 /\ backlog = 0 /\ clients = 0 /\ connections = {}
      BY Zenon
    <3> HIDE DEF Init, AcceptorInit
    <3>2. started \in BOOLEAN /\ listening \in BOOLEAN
      BY <3>1, Zenon
    <3>3. /\ numThreads \in 0..MaxThreads /\ nextConn \in Nat \ {0} /\ next \in Nat
          /\ backlog \in Nat /\ clients \in Nat
      BY <1>1, <3>1
    <3>4. QED
      BY <3>1, <3>2, <3>3, Zenon DEF ServerTypes
  <2>2. ConnTypes
    BY <1>1 DEF ConnTypes, States, Loops, Base
  <2>3. << >> \in Seq(Functors)
    OBVIOUS
  <2>4. LoopTypes
    BY <2>3 DEF LoopTypes
  <2>5. QED
    BY <2>1, <2>2, <2>4 DEF TypeOK
<1>3. Queues
  <2> SUFFICES ASSUME NEW l \in Loops PROVE LoopOK(l)
    BY DEF Queues
  <2>1. batch[l] = << >> /\ pending[l] = << >>
    OBVIOUS
  <2>2. Todo(l) = << >>
    BY <1>2, <2>1, TodoType
  <2>3. QED
    BY <2>1, <2>2 DEF LoopOK, InOrder, Has
<1>4. ServerInv
  BY <1>1 DEF ServerInv
<1>5. Calls /\ Faults
  BY DEF Calls, Faults, Idle
<1>6. Lives
  BY DEF Lives, Life, Unborn, Conns
<1>7. QED
  BY <1>2, <1>3, <1>4, <1>5, <1>6 DEF IInv

-----------------------------------------------------------------------------
(* Steps that leave the connections and the queues alone: those of the     *)
(* acceptor, of its clients and of the peers, and of other threads that do *)
(* not come to queue anything.                                             *)
Quiet ==
  /\ UNCHANGED <<server, numThreads, nextConn, next, connections, connVars, loopVars>>
  /\ started' \in BOOLEAN /\ listening' \in BOOLEAN
  /\ started => started'
  /\ listening => listening'
  /\ listening' => started' /\ server # "destroyed"
  /\ backlog' \in Nat /\ clients' \in Nat
  /\ nextConn - 1 + backlog' <= clients' /\ clients' <= MaxClients
  /\ fault' \in {fault, "not in loop thread"}

(* A second start, in another thread.                                      *)
ListenQueued ==
  /\ server = "up" /\ started
  /\ pending' = Queued(Base, Functor("listen", 0))
  /\ UNCHANGED <<server, started, acceptorVars, numThreads, nextConn, next, connections,
                 connVars, batch, ran, call, fault>>

(* They are all of one kind or the other.                                  *)
LEMMA QuietSteps ==
  ASSUME IInv, NEW u, NEW c, NEW op,
         Start \/ RefuseConnection \/ OthersStep \/ PeerCloses(c) \/ CallTest(u, c, op)
           \/ Drop(u, c) \/ UserStart(u) \/ UNCHANGED vars
  PROVE  Quiet \/ ListenQueued
<1>1. /\ started \in BOOLEAN /\ listening \in BOOLEAN
      /\ listening => started /\ server # "destroyed"
  BY DEF IInv, TypeOK, ServerTypes, ServerInv
<1>2. /\ backlog \in Nat /\ clients \in Nat /\ nextConn \in Nat
      /\ nextConn - 1 + backlog <= clients /\ clients <= MaxClients
      /\ MaxClients \in Nat
  BY AcceptorAssumption DEF IInv, TypeOK, ServerTypes, ServerInv
<1>3. CASE PeerCloses(c) \/ CallTest(u, c, op) \/ Drop(u, c) \/ UNCHANGED vars
  <2>1. /\ UNCHANGED <<server, numThreads, nextConn, next, connections, connVars, loopVars>>
        /\ UNCHANGED <<started, acceptorVars, fault>>
    BY <1>3 DEF PeerCloses, CallTest, Drop, vars, serverVars, connVars, loopVars
  <2>2. QED
    BY <1>1, <1>2, <2>1, Zenon DEF Quiet, acceptorVars
<1>4. CASE UserStart(u)
  <2>1. /\ UNCHANGED <<server, numThreads, nextConn, next, connections, connVars, batch, ran,
                       acceptorVars, call>>
        /\ server = "up"
        /\ \/ started' = TRUE /\ fault' = "not in loop thread" /\ UNCHANGED pending
           \/ started /\ pending' = Queued(Base, Functor("listen", 0)) /\ UNCHANGED <<started, fault>>
    BY <1>4 DEF UserStart, Fail
  <2>2. QED
    BY <1>1, <1>2, <2>1, Zenon DEF Quiet, ListenQueued, acceptorVars, loopVars
<1>5. CASE Start
  <2>1. /\ UNCHANGED <<server, numThreads, nextConn, next, connections, connVars, loopVars, fault>>
        /\ server = "up" /\ started' = TRUE /\ UNCHANGED <<backlog, clients>>
        /\ listening' = listening \/ listening' = TRUE
    BY <1>1, <1>5, Zenon DEF Start, Listen, acceptorVars
  <2>2. "up" # "destroyed"
    OBVIOUS
  <2>3. QED
    BY <1>1, <1>2, <2>1, <2>2, Zenon DEF Quiet
<1>6. CASE RefuseConnection \/ OthersStep
  <2>1. /\ UNCHANGED <<server, numThreads, nextConn, next, connections, connVars, loopVars, fault>>
        /\ UNCHANGED <<started, listening>>
        /\ clients' \in {clients, clients + 1}
        /\ clients' = clients => backlog' = backlog \/ (backlog > 0 /\ backlog' = backlog - 1)
        /\ clients' = clients + 1 => clients < MaxClients /\ backlog' = backlog + 1
    BY <1>2, <1>6 DEF RefuseConnection, OthersStep, CloseIdle, AcceptAndClose, OpenIdle, AcceptSucceeds,
       ClientConnects, OthersOpen, OthersClose
  <2>2. /\ backlog' \in Nat /\ clients' \in Nat
        /\ nextConn - 1 + backlog' <= clients' /\ clients' <= MaxClients
    BY <1>2, <2>1
  <2>3. QED
    BY <1>1, <2>1, <2>2, Zenon DEF Quiet
<1>7. QED
  BY <1>3, <1>4, <1>5, <1>6

(* The steps that are left.                                                *)
LEMMA Steps ==
  ASSUME IInv, [Next]_vars
  PROVE  \/ Quiet \/ ListenQueued
         \/ fault = "none" /\ \E n \in 0..MaxThreads : SetThreadNum(n)
         \/ NewConnection \/ DestroyServer \/ ServerDestroyed
         \/ \E c \in Conns : HandleMessage(c) \/ HandleClose(c)
         \/ \E l \in Loops : TakeBatch(l) \/ RunFunctor(l) \/ EndBatch(l)
         \/ \E u \in Users : CallDone(u)
BY QuietSteps, Zenon DEF Next, Step, LoopStep

(* A server that has not been started has no connections.                  *)
LEMMA NotStarted ==
  ASSUME IInv, ~started
  PROVE  nextConn = 1 /\ \A c \in Conns : Unborn(c)
<1>1. nextConn = 1 /\ \A c \in Conns : ~(c < nextConn)
  BY DEF IInv, ServerInv, Conns
<1>2. QED
  BY <1>1 DEF IInv, Lives, Life

(* What a loop runs next is the first thing it has to do.                  *)
LEMMA FrontDue ==
  ASSUME IInv, NEW l \in Loops, ran[l] < Len(batch[l])
  PROVE  /\ batch[l] # << >>
         /\ Front(l) \in Functors /\ Has(Todo(l), Front(l)) /\ Placed(l, Front(l))
<1>1. batch[l] \in Seq(Functors) /\ pending[l] \in Seq(Functors) /\ ran[l] \in Nat /\ Len(batch[l]) \in Nat
  BY LenProperties DEF IInv, TypeOK, LoopTypes
<1>2. batch[l] # << >>
  BY <1>1
<1>3. IsRest(Todo(l), batch[l], pending[l], ran[l])
  BY <1>1, Rest DEF Todo
<1>4. Len(pending[l]) \in Nat
  BY <1>1, LenProperties
<1>5. 1 \in 1..Len(batch[l]) - ran[l] /\ 1 \in 1..Len(Todo(l))
  BY <1>1, <1>3, <1>4 DEF IsRest
<1>6. Has(Todo(l), Front(l))
  BY <1>3, <1>5 DEF IsRest, Has, Front
<1>7. Front(l) \in Functors
  BY FrontType DEF IInv
<1>8. Placed(l, Front(l))
  BY <1>6, <1>7 DEF IInv, Queues, LoopOK
<1>9. QED
  BY <1>2, <1>6, <1>7, <1>8

(* The server's invariant is kept: its connections are numbered as they    *)
(* come, of clients that have connected while it listened.                 *)
LEMMA ServerStep ==
  ASSUME IInv, [Next]_vars PROVE ServerTypes' /\ ServerInv'
<1>1. ServerTypes /\ ServerInv
  BY DEF IInv, TypeOK
<1>2. MaxThreads \in Nat /\ MaxClients \in Nat
  BY TcpServerAssumption, AcceptorAssumption
<1>3. CASE Quiet
  <2>1. started' \in BOOLEAN /\ listening' \in BOOLEAN
    BY <1>3, Zenon DEF Quiet
  <2>2. /\ server' \in {"up", "closing", "destroyed"}
        /\ numThreads' \in 0..MaxThreads /\ nextConn' \in Nat \ {0} /\ next' \in Nat
        /\ backlog' \in Nat /\ clients' \in Nat /\ connections' \subseteq Conns
    BY <1>1, <1>3 DEF Quiet, ServerTypes
  <2>3. ServerInv'
    BY <1>1, <1>3 DEF Quiet, ServerInv, loopVars
  <2>4. QED
    BY <2>1, <2>2, <2>3, Zenon DEF ServerTypes
<1>4. ASSUME UNCHANGED <<server, started, numThreads, nextConn, next, acceptorVars>>,
             connections' \subseteq connections,
             started \/ server # "up" \/ UNCHANGED <<batch, pending>>
      PROVE  ServerTypes' /\ ServerInv'
  <2>1. started' \in BOOLEAN /\ listening' \in BOOLEAN
    BY <1>1, <1>4, Zenon DEF ServerTypes, acceptorVars
  <2>2. /\ server' \in {"up", "closing", "destroyed"}
        /\ numThreads' \in 0..MaxThreads /\ nextConn' \in Nat \ {0} /\ next' \in Nat
        /\ backlog' \in Nat /\ clients' \in Nat /\ connections' \subseteq Conns
    BY <1>1, <1>4 DEF ServerTypes, acceptorVars
  <2>3. ServerInv'
    BY <1>1, <1>4 DEF ServerInv, acceptorVars
  <2>4. QED
    BY <2>1, <2>2, <2>3, Zenon DEF ServerTypes
<1>5. CASE ListenQueued
  BY <1>4, <1>5, Zenon DEF ListenQueued
<1>6. ASSUME NEW n \in 0..MaxThreads, SetThreadNum(n) PROVE ServerTypes' /\ ServerInv'
  <2>1. /\ UNCHANGED <<server, started, nextConn, next, listening, backlog, clients, connections,
                       batch, pending>>
        /\ ~started /\ numThreads' = n
    BY <1>6 DEF SetThreadNum, acceptorVars, loopVars
  <2>2. started' \in BOOLEAN /\ listening' \in BOOLEAN
    BY <1>1, <2>1, Zenon DEF ServerTypes
  <2>3. /\ server' \in {"up", "closing", "destroyed"}
        /\ numThreads' \in 0..MaxThreads /\ nextConn' \in Nat \ {0} /\ next' \in Nat
        /\ backlog' \in Nat /\ clients' \in Nat /\ connections' \subseteq Conns
    BY <1>1, <2>1 DEF ServerTypes
  <2>4. ServerInv'
    BY <1>1, <1>2, <2>1 DEF ServerInv
  <2>5. QED
    BY <2>2, <2>3, <2>4, Zenon DEF ServerTypes
<1>7. CASE NewConnection
  <2>1. /\ UNCHANGED <<server, started, numThreads, listening, clients>>
        /\ listening /\ backlog > 0 /\ backlog' = backlog - 1
        /\ nextConn' = nextConn + 1 /\ connections' = connections \cup {nextConn}
        /\ LoopRuns(Base) /\ AdvanceNext
    BY <1>7 DEF NewConnection, Accept, Acceptable
  <2>2. started /\ server = "up"
    BY <1>1, <2>1 DEF LoopRuns, ServerTypes, ServerInv
  <2>3. nextConn \in Conns
    BY <1>1, <1>2, <2>1 DEF ServerTypes, ServerInv, Conns
  <2>4. next' \in Nat /\ (numThreads = 0 \/ next' < numThreads)
    BY <1>1, <1>2, <2>1 DEF ServerTypes, ServerInv, AdvanceNext
  <2>5. started' \in BOOLEAN /\ listening' \in BOOLEAN
    BY <1>1, <2>1, Zenon DEF ServerTypes
  <2>6. /\ server' \in {"up", "closing", "destroyed"}
        /\ numThreads' \in 0..MaxThreads /\ nextConn' \in Nat \ {0}
        /\ backlog' \in Nat /\ clients' \in Nat /\ connections' \subseteq Conns
    BY <1>1, <2>1, <2>3 DEF ServerTypes
  <2>7. ServerInv'
    BY <1>1, <2>1, <2>2, <2>4 DEF ServerTypes, ServerInv
  <2>8. QED
    BY <2>4, <2>5, <2>6, <2>7, Zenon DEF ServerTypes
<1>8. CASE DestroyServer
  <2>1. /\ UNCHANGED <<started, numThreads, nextConn, next, listening, backlog, clients>>
        /\ server = "up" /\ server' = "closing" /\ connections' = {}
    BY <1>8 DEF DestroyServer, acceptorVars
  <2>2. started' \in BOOLEAN /\ listening' \in BOOLEAN
    BY <1>1, <2>1, Zenon DEF ServerTypes
  <2>3. /\ server' \in {"up", "closing", "destroyed"}
        /\ numThreads' \in 0..MaxThreads /\ nextConn' \in Nat \ {0} /\ next' \in Nat
        /\ backlog' \in Nat /\ clients' \in Nat /\ connections' \subseteq Conns
    BY <1>1, <2>1 DEF ServerTypes
  <2>4. ServerInv'
    BY <1>1, <2>1 DEF ServerInv
  <2>5. QED
    BY <2>2, <2>3, <2>4, Zenon DEF ServerTypes
<1>9. CASE ServerDestroyed
  <2>1. /\ UNCHANGED <<started, numThreads, nextConn, next, clients, connections>>
        /\ server = "closing" /\ server' = "destroyed"
        /\ listening' = FALSE /\ backlog' = 0
    BY <1>9 DEF ServerDestroyed, CloseAcceptor
  <2>2. started' \in BOOLEAN /\ listening' \in BOOLEAN
    BY <1>1, <2>1, Zenon DEF ServerTypes
  <2>3. /\ server' \in {"up", "closing", "destroyed"}
        /\ numThreads' \in 0..MaxThreads /\ nextConn' \in Nat \ {0} /\ next' \in Nat
        /\ backlog' \in Nat /\ clients' \in Nat /\ connections' \subseteq Conns
    BY <1>1, <2>1 DEF ServerTypes
  <2>4. ServerInv'
    BY <1>1, <2>1 DEF ServerTypes, ServerInv
  <2>5. QED
    BY <2>2, <2>3, <2>4, Zenon DEF ServerTypes
<1>10. ASSUME NEW c \in Conns, HandleMessage(c) \/ HandleClose(c) PROVE ServerTypes' /\ ServerInv'
  <2>1. UNCHANGED <<server, started, numThreads, nextConn, next, acceptorVars>> /\ MayHandle(c)
    BY <1>10, Zenon DEF HandleMessage, HandleClose, serverVars
  <2>2. started
    BY <2>1, NotStarted DEF MayHandle, Unborn
  <2>3. connections' \subseteq connections
    BY <1>10 DEF HandleMessage, HandleClose, RemoveConnection, Remove
  <2>4. QED
    BY <1>4, <2>1, <2>2, <2>3
<1>11. ASSUME NEW l \in Loops, TakeBatch(l) \/ EndBatch(l) PROVE ServerTypes' /\ ServerInv'
  <2>1. UNCHANGED <<server, started, numThreads, nextConn, next, acceptorVars, connections>>
    BY <1>11, Zenon DEF TakeBatch, EndBatch, serverVars
  <2>2. batch[l] # << >> \/ pending[l] # << >>
    BY <1>11, Zenon DEF TakeBatch, EndBatch
  <2>3. started \/ server # "up"
    BY <1>1, <2>2, Zenon DEF ServerInv
  <2>4. QED
    BY <1>4, <2>1, <2>3
<1>12. ASSUME NEW l \in Loops, RunFunctor(l) PROVE ServerTypes' /\ ServerInv'
  <2>1. /\ UNCHANGED <<server, started, numThreads, nextConn, next>>
        /\ ran[l] < Len(batch[l])
        /\ \/ UNCHANGED acceptorVars
           \/ /\ Front(l).op = "listen" /\ server = "up" /\ listening' = TRUE
              /\ UNCHANGED <<connections, backlog, clients>>
        /\ connections' \subseteq connections
    BY <1>12 DEF RunFunctor, Front, Listen, Remove
  <2>2. /\ batch[l] # << >> /\ (Front(l).op = "listen" => started)
    BY <2>1, FrontDue DEF Placed
  <2>3. started \/ server # "up"
    BY <1>1, <2>2, Zenon DEF ServerInv
  <2>4. CASE UNCHANGED acceptorVars
    BY <1>4, <2>1, <2>3, <2>4
  <2>5. CASE /\ Front(l).op = "listen" /\ server = "up" /\ listening' = TRUE
             /\ UNCHANGED <<connections, backlog, clients>>
    <3>1. started' \in BOOLEAN /\ listening' \in BOOLEAN
      BY <1>1, <2>1, <2>5, Zenon DEF ServerTypes
    <3>2. /\ server' \in {"up", "closing", "destroyed"}
          /\ numThreads' \in 0..MaxThreads /\ nextConn' \in Nat \ {0} /\ next' \in Nat
          /\ backlog' \in Nat /\ clients' \in Nat /\ connections' \subseteq Conns
      BY <1>1, <2>1, <2>5 DEF ServerTypes
    <3>3. ServerInv'
      BY <1>1, <2>1, <2>2, <2>5 DEF ServerInv
    <3>4. QED
      BY <3>1, <3>2, <3>3, Zenon DEF ServerTypes
  <2>6. QED
    BY <2>1, <2>4, <2>5
<1>13. ASSUME NEW u \in Users, CallDone(u) PROVE ServerTypes' /\ ServerInv'
  <2>1. /\ UNCHANGED <<server, started, numThreads, nextConn, next, acceptorVars, connections>>
        /\ call[u] # Idle
    BY <1>13, Zenon DEF CallDone, serverVars
  <2>2. started
    BY <2>1, NotStarted DEF IInv, Calls, Unborn
  <2>3. QED
    BY <1>4, <2>1, <2>2
<1>14. QED
  BY <1>3, <1>5, <1>6, <1>7, <1>8, <1>9, <1>10, <1>11, <1>12, <1>13, Steps

-----------------------------------------------------------------------------
(* A new connection has a number of its own, and a loop of the pool.       *)
LEMMA NewIsFree ==
  ASSUME IInv, NewConnection
  PROVE  /\ nextConn \in Conns /\ Unborn(nextConn) /\ started /\ server = "up"
         /\ GetNextLoop \in Loops /\ GetNextLoop \in IOLoops
         /\ GetNextLoop = Base <=> numThreads = 0
<1>1. listening /\ backlog > 0 /\ LoopRuns(Base)
  BY DEF NewConnection, Accept, Acceptable
<1>2. ServerTypes /\ ServerInv
  BY DEF IInv, TypeOK
<1>3. nextConn \in Conns
  BY <1>1, <1>2, AcceptorAssumption DEF ServerTypes, ServerInv, Conns
<1>4. Unborn(nextConn)
  BY <1>2, <1>3 DEF IInv, Lives, Life, ServerTypes
<1>5. started /\ server = "up"
  BY <1>1, <1>2 DEF LoopRuns, ServerTypes, ServerInv
<1>6. QED
  BY <1>2, <1>3, <1>4, <1>5, NextLoop

(* No step gives a variable of a connection a value outside its type.      *)
LEMMA ConnTypesStep ==
  ASSUME IInv, [Next]_vars PROVE ConnTypes'
<1>1. ConnTypes
  BY DEF IInv, TypeOK
<1>2. CASE UNCHANGED connVars
  BY <1>1, <1>2 DEF ConnTypes, connVars
<1>3. CASE NewConnection
  <2>1. /\ ioLoop' = [ioLoop EXCEPT ![nextConn] = GetNextLoop]
        /\ \/ \E users \in SUBSET Users, shut \in BOOLEAN :
                Establish(nextConn, Constructed(nextConn)[nextConn], users, shut)
           \/ /\ state' = Constructed(nextConn)
              /\ UNCHANGED <<registered, reading, ups, downs, destroyed>>
    BY <1>3 DEF NewConnection
  <2>2. ioLoop' \in [Conns -> Loops]
    BY <1>1, <1>3, <2>1, NewIsFree DEF ConnTypes
  <2>3. /\ registered' \subseteq Conns /\ reading' \subseteq Conns
        /\ state' \in [Conns -> States]
        /\ ups' \in [Conns -> Nat] /\ downs' \in [Conns -> Nat] /\ destroyed' \in [Conns -> Nat]
    <3>1. CASE \E users \in SUBSET Users, shut \in BOOLEAN :
                  Establish(nextConn, Constructed(nextConn)[nextConn], users, shut)
      BY <1>1, <1>3, <3>1, NewIsFree, EstablishType
    <3>2. CASE /\ state' = Constructed(nextConn)
               /\ UNCHANGED <<registered, reading, ups, downs, destroyed>>
      BY <1>1, <3>2 DEF ConnTypes, Constructed, States
    <3>3. QED
      BY <2>1, <3>1, <3>2
  <2>4. QED
    BY <2>2, <2>3 DEF ConnTypes
<1>4. CASE DestroyServer
  <2>1. \E users \in SUBSET Users : TearDown({c \in connections : ioLoop[c] = Base}, users)
    BY <1>4 DEF DestroyServer
  <2>2. QED
    BY <1>1, <2>1, TearDownType
<1>5. CASE ServerDestroyed
  BY <1>1, <1>5 DEF ServerDestroyed, ConnTypes
<1>6. ASSUME NEW c \in Conns, HandleMessage(c) \/ HandleClose(c) PROVE ConnTypes'
  <2>1. /\ UNCHANGED <<ioLoop, registered, ups, destroyed>>
        /\ reading' \subseteq reading
        /\ \/ UNCHANGED state
           \/ state' = [state EXCEPT ![c] = "kDisconnecting"]
           \/ state' = [state EXCEPT ![c] = "kDisconnected"]
        /\ UNCHANGED downs \/ downs' = [downs EXCEPT ![c] = @ + 1]
    BY <1>6 DEF HandleMessage, HandleClose, DisableAll
  <2>2. state' \in [Conns -> States]
    BY <1>1, <2>1 DEF ConnTypes, States
  <2>3. downs' \in [Conns -> Nat]
    BY <1>1, <2>1 DEF ConnTypes
  <2>4. QED
    BY <1>1, <2>1, <2>2, <2>3 DEF ConnTypes
<1>7. ASSUME NEW l \in Loops, RunFunctor(l) PROVE ConnTypes'
  <2>1. ran[l] < Len(batch[l])
        /\ \/ UNCHANGED connVars
           \/ /\ Front(l).op = "connectEstablished" /\ UNCHANGED ioLoop
              /\ \E users \in SUBSET Users, shut \in BOOLEAN :
                    Establish(Front(l).conn, state[Front(l).conn], users, shut)
           \/ \E users \in SUBSET Users : TearDown({Front(l).conn}, users)
           \/ UNCHANGED <<ioLoop, state, registered, reading, ups, downs, destroyed>>
    BY <1>7 DEF RunFunctor, Front
  <2>2. CASE \E users \in SUBSET Users : TearDown({Front(l).conn}, users)
    BY <1>1, <2>2, TearDownType
  <2>3. CASE UNCHANGED <<ioLoop, state, registered, reading, ups, downs, destroyed>>
    BY <1>1, <2>3 DEF ConnTypes
  <2>4. CASE /\ Front(l).op = "connectEstablished" /\ UNCHANGED ioLoop
             /\ \E users \in SUBSET Users, shut \in BOOLEAN :
                   Establish(Front(l).conn, state[Front(l).conn], users, shut)
    <3>1. Front(l).conn \in Conns
      BY <2>1, <2>4, FrontType DEF IInv
    <3>2. /\ registered' \subseteq Conns /\ reading' \subseteq Conns
          /\ state' \in [Conns -> States]
          /\ ups' \in [Conns -> Nat] /\ downs' \in [Conns -> Nat] /\ destroyed' \in [Conns -> Nat]
      BY <1>1, <2>4, <3>1, EstablishType
    <3>3. QED
      BY <1>1, <2>4, <3>2 DEF ConnTypes
  <2>5. QED
    BY <1>2, <2>1, <2>2, <2>3, <2>4
<1>8. ASSUME NEW u \in Users, CallDone(u) PROVE ConnTypes'
  <2>1. /\ UNCHANGED <<ioLoop, registered, reading, ups, downs, destroyed>>
        /\ \/ UNCHANGED state
           \/ state' = [state EXCEPT ![call[u].conn] = "kDisconnecting"]
    BY <1>8 DEF CallDone
  <2>2. state' \in [Conns -> States]
    BY <1>1, <2>1 DEF ConnTypes, States
  <2>3. QED
    BY <1>1, <2>1, <2>2 DEF ConnTypes
<1>9. ASSUME ListenQueued \/ \E n \in 0..MaxThreads : SetThreadNum(n) PROVE UNCHANGED connVars
  BY <1>9, Zenon DEF ListenQueued, SetThreadNum
<1>10. ASSUME NEW l \in Loops, TakeBatch(l) \/ EndBatch(l) PROVE UNCHANGED connVars
  BY <1>10, Zenon DEF TakeBatch, EndBatch
<1>11. CASE Quiet
  BY <1>2, <1>11 DEF Quiet
<1>12. QED
  BY <1>2, <1>3, <1>4, <1>5, <1>6, <1>7, <1>8, <1>9, <1>10, <1>11, Steps, Zenon

-----------------------------------------------------------------------------
(* What a step does to one loop: nothing, run its next functor, or queue   *)
(* another.                                                                *)
Untouched(l) == pending'[l] = pending[l] /\ batch'[l] = batch[l] /\ ran'[l] = ran[l]

Runs(l) ==
  /\ ran[l] < Len(batch[l]) /\ ran'[l] = ran[l] + 1
  /\ batch'[l] = batch[l] /\ pending'[l] = pending[l]

Adds(l, f) ==
  /\ f \in Functors /\ pending'[l] = Append(pending[l], f)
  /\ batch'[l] = batch[l] /\ ran'[l] = ran[l]

(* Queueing in one loop leaves the others alone.                           *)
LEMMA QueuedAt ==
  ASSUME LoopTypes, NEW m \in Loops, NEW f \in Functors, pending' = Queued(m, f)
  PROVE  /\ pending'[m] = Append(pending[m], f)
         /\ \A l \in Loops : l # m => pending'[l] = pending[l]
BY DEF Queued, LoopTypes

(* A loop that has gone, or is none of the pool's, has nothing to do.      *)
LEMMA NothingDue ==
  ASSUME IInv, NEW l \in Loops, Gone(l) \/ l \notin IOLoops \cup {Base}
  PROVE  \A f : ~Has(Todo(l), f)
<1>1. batch[l] = << >> /\ pending[l] = << >>
  BY DEF IInv, Queues, LoopOK
<1>2. Todo(l) = << >>
  BY <1>1, TodoType DEF IInv
<1>3. QED
  BY <1>2 DEF Has

(* A connection has a loop.                                                *)
LEMMA LoopOf ==
  ASSUME IInv, NEW c \in Conns
  PROVE  ioLoop[c] \in Loops /\ Base \in Loops
BY TcpServerAssumption DEF IInv, TypeOK, ConnTypes, Loops, Base

(* An event of a connection is handled while it is up, in a loop that is   *)
(* there.                                                                  *)
LEMMA Handled ==
  ASSUME IInv, NEW c \in Conns, c \in reading \cap registered
  PROVE  /\ IsUp(c) /\ c < nextConn /\ ioLoop[c] \in IOLoops
         /\ ~Gone(ioLoop[c]) 
         /\ ioLoop[c] = Base => server = "up" /\ InMap(c)
<1>1. IsUp(c) /\ c < nextConn /\ ioLoop[c] \in IOLoops
  BY DEF IInv, Lives, Life, Unborn, Made, Closed, TornDown, Lost
<1>2. CASE InMap(c)
  <2>1. server = "up"
    BY <1>2 DEF IInv, ServerInv, InMap
  <2>2. QED
    BY <1>1, <1>2, <2>1 DEF Gone
<1>3. CASE Left(c)
  <2>1. ~Gone(ioLoop[c])
    BY <1>3, LoopOf, NothingDue DEF Left, DestroyDue, Due
  <2>2. QED
    BY <1>1, <1>3, <2>1 DEF Left
<1>4. QED
  BY <1>1, <1>2, <1>3 DEF IsUp

(* connectEstablished runs when the connection has been made, ...          *)
LEMMA EstablishRuns ==
  ASSUME IInv, NEW l \in Loops, ran[l] < Len(batch[l]), Front(l).op = "connectEstablished"
  PROVE  /\ Front(l).conn \in Conns /\ l = ioLoop[Front(l).conn] /\ l # Base
         /\ Made(Front(l).conn)
<1> DEFINE c == Front(l).conn
<1>1. c \in Conns
  BY FrontType DEF IInv
<1>2. l = ioLoop[c] /\ l # Base /\ c < nextConn
  BY FrontDue DEF Placed
<1>3. Front(l) = Functor("connectEstablished", c) /\ Has(Todo(l), Front(l))
  BY FrontDue, FunctorParts
<1> HIDE DEF c
<1>4. EstablishDue(c)
  BY <1>2, <1>3 DEF EstablishDue, Due
<1>5. ~Gone(l)
  BY <1>3, NothingDue
<1>6. nextConn \in Nat /\ ~(c >= nextConn)
  BY <1>1, <1>2 DEF IInv, TypeOK, ServerTypes, Conns
<1>7. Made(c)
  BY <1>1, <1>2, <1>4, <1>5, <1>6 DEF IInv, Lives, Life, Unborn, IsUp, Closed, TornDown, Lost
<1>8. QED
  BY <1>1, <1>2, <1>7 DEF c

(* ... removeConnectionInLoop when it has been closed, or long after the   *)
(* end of the server, ...                                                  *)
LEMMA RemoveRuns ==
  ASSUME IInv, NEW l \in Loops, LoopRuns(l), ran[l] < Len(batch[l]),
         Front(l).op = "removeConnectionInLoop"
  PROVE  /\ Front(l).conn \in Conns /\ l = Base /\ ioLoop[Front(l).conn] # Base
         /\ numThreads # 0
         /\ server # "destroyed" =>
               server = "up" /\ Closed(Front(l).conn) /\ InMap(Front(l).conn)
         /\ server = "destroyed" => TornDown(Front(l).conn) \/ Lost(Front(l).conn)
<1> DEFINE c == Front(l).conn
<1>1. c \in Conns
  BY FrontType DEF IInv
<1>2. l = Base /\ ioLoop[c] # Base /\ c < nextConn
  BY FrontDue DEF Placed
<1>3. Front(l) = Functor("removeConnectionInLoop", c) /\ Has(Todo(l), Front(l))
  BY FrontDue, FunctorParts
<1> HIDE DEF c
<1>4. RemoveDue(c)
  BY <1>2, <1>3 DEF RemoveDue, Due
<1>5. nextConn \in Nat /\ ~(c >= nextConn)
  BY <1>1, <1>2 DEF IInv, TypeOK, ServerTypes, Conns
<1>6. ioLoop[c] \in IOLoops /\ (Closed(c) \/ (TornDown(c) /\ server # "up") \/ Lost(c))
  BY <1>1, <1>4, <1>5 DEF IInv, Lives, Life, Unborn, Made, IsUp, TornDown
<1>7. numThreads # 0
  BY <1>2, <1>6 DEF IOLoops
<1>8. server \in {"up", "destroyed"}
  BY <1>2 DEF LoopRuns, IInv, TypeOK, ServerTypes
<1>9. ASSUME server # "destroyed" PROVE server = "up" /\ Closed(c) /\ InMap(c)
  BY <1>4, <1>6, <1>8, <1>9 DEF Lost, Gone, Closed
<1>10. ASSUME server = "destroyed" PROVE TornDown(c) \/ Lost(c)
  <2>1. c \notin connections
    BY <1>10 DEF IInv, ServerInv
  <2>2. Gone(ioLoop[c])
    BY <1>2, <1>10 DEF Gone
  <2>3. ~DestroyDue(c)
    BY <1>1, <2>2, LoopOf, NothingDue DEF DestroyDue, Due
  <2>4. QED
    BY <1>6, <2>1, <2>3 DEF Closed, InMap
<1>11. QED
  BY <1>1, <1>2, <1>7, <1>9, <1>10 DEF c

(* ... and connectDestroyed when it has been taken out of the map.         *)
LEMMA DestroyRuns ==
  ASSUME IInv, NEW l \in Loops, ran[l] < Len(batch[l]), Front(l).op = "connectDestroyed",
         ~Due(l, "connectEstablished", Front(l).conn)
  PROVE  /\ Front(l).conn \in Conns /\ l = ioLoop[Front(l).conn]
         /\ Front(l).conn \notin connections
         /\ (IsUp(Front(l).conn) /\ server # "up") \/ Closed(Front(l).conn)
<1> DEFINE c == Front(l).conn
<1>1. c \in Conns
  BY FrontType DEF IInv
<1>2. l = ioLoop[c] /\ c < nextConn
  BY FrontDue DEF Placed
<1>3. Front(l) = Functor("connectDestroyed", c) /\ Has(Todo(l), Front(l))
  BY FrontDue, FunctorParts
<1>4. ~Due(l, "connectEstablished", c)
  OBVIOUS
<1> HIDE DEF c
<1>5. DestroyDue(c) /\ ~EstablishDue(c)
  BY <1>2, <1>3, <1>4 DEF DestroyDue, EstablishDue, Due
<1>6. ~Gone(l)
  BY <1>3, NothingDue
<1>7. nextConn \in Nat /\ ~(c >= nextConn)
  BY <1>1, <1>2 DEF IInv, TypeOK, ServerTypes, Conns
<1>8. IsUp(c) \/ Closed(c)
  BY <1>1, <1>2, <1>5, <1>6, <1>7 DEF IInv, Lives, Life, Unborn, Made, TornDown, Lost
<1>9. c \notin connections /\ (IsUp(c) => server # "up")
  BY <1>5, <1>8 DEF IsUp, Closed, InMap, Left
<1>10. QED
  BY <1>1, <1>2, <1>8, <1>9 DEF c

(* What RunFunctor does to the loops, ...                                  *)
LEMMA RunEffect ==
  ASSUME IInv, NEW l \in Loops, RunFunctor(l)
  PROVE  /\ LoopRuns(l) /\ ran[l] < Len(batch[l])
         /\ batch' = batch /\ ran' = [ran EXCEPT ![l] = @ + 1]
         /\ \/ pending' = pending
            \/ /\ Front(l).op = "removeConnectionInLoop" /\ server # "destroyed"
               /\ ioLoop[Front(l).conn] \in Loops \ {l}
               /\ Functor("connectDestroyed", Front(l).conn) \in Functors
               /\ pending' = Queued(ioLoop[Front(l).conn],
                                    Functor("connectDestroyed", Front(l).conn))
<1>1. /\ LoopRuns(l) /\ ran[l] < Len(batch[l])
      /\ batch' = batch /\ ran' = [ran EXCEPT ![l] = @ + 1]
      /\ \/ pending' = pending
         \/ /\ Front(l).op = "removeConnectionInLoop" /\ server # "destroyed"
            /\ QueueDestroyed(Front(l).conn)
  BY DEF RunFunctor, Remove, Front
<1>2. ASSUME Front(l).op = "removeConnectionInLoop"
      PROVE  /\ ioLoop[Front(l).conn] \in Loops \ {l}
             /\ Functor("connectDestroyed", Front(l).conn) \in Functors
  BY <1>1, <1>2, RemoveRuns, LoopOf, FunctorOf DEF Owning
<1>3. QED
  BY <1>1, <1>2 DEF QueueDestroyed

(* ... and what handleClose does to them.                                  *)
LEMMA CloseEffect ==
  ASSUME IInv, NEW c \in Conns, HandleClose(c)
  PROVE  /\ c \in reading \cap registered /\ batch' = batch /\ ran' = ran /\ fault' = fault
         /\ \/ /\ ioLoop[c] = Base
               /\ connections' = connections \ {c}
               /\ Functor("connectDestroyed", c) \in Functors
               /\ pending' = Queued(ioLoop[c], Functor("connectDestroyed", c))
            \/ /\ ioLoop[c] # Base /\ UNCHANGED connections
               /\ Functor("removeConnectionInLoop", c) \in Functors
               /\ pending' = Queued(Base, Functor("removeConnectionInLoop", c))
<1>1. c \in reading \cap registered /\ batch' = batch /\ ran' = ran
  BY DEF HandleClose, MayHandle
<1>2. IsUp(c) /\ (ioLoop[c] = Base => server = "up" /\ InMap(c))
  BY <1>1, Handled
<1>3. state[c] \in {"kConnected", "kDisconnecting"}
  BY <1>2 DEF IsUp
<1>4. RemoveConnection(c)
  BY <1>3 DEF HandleClose
<1>5. \A op \in Owning : Functor(op, c) \in Functors
  BY FunctorOf
<1>6. CASE ioLoop[c] = Base
  <2>1. server # "destroyed" /\ c \in connections
    BY <1>2, <1>6 DEF InMap
  <2>2. QED
    BY <1>1, <1>4, <1>5, <1>6, <2>1 DEF RemoveConnection, Remove, QueueDestroyed, Owning
<1>7. CASE ioLoop[c] # Base
  BY <1>1, <1>4, <1>5, <1>7 DEF RemoveConnection, Owning
<1>8. QED
  BY <1>6, <1>7

(* A call from another thread comes to queue something if the loop is      *)
(* there.                                                                  *)
LEMMA CallEffect ==
  ASSUME IInv, NEW u \in Users, CallDone(u)
  PROVE  /\ call[u].conn \in Conns /\ call[u].op \in Raw /\ call[u] \in Functors
         /\ ~Unborn(call[u].conn) /\ ~Made(call[u].conn)
         /\ batch' = batch /\ ran' = ran
         /\ \/ pending' = pending
            \/ ~Gone(ioLoop[call[u].conn]) /\ pending' = Queued(ioLoop[call[u].conn], call[u])
<1>1. /\ call[u] # Idle /\ batch' = batch /\ ran' = ran
      /\ \/ pending' = pending
         \/ ~Gone(ioLoop[call[u].conn]) /\ pending' = Queued(ioLoop[call[u].conn], call[u])
  BY DEF CallDone
<1>2. /\ call[u] \in [op : Raw, conn : Conns]
      /\ state[call[u].conn] \notin {"none", "kConnecting"}
  BY <1>1 DEF IInv, Calls
<1>3. call[u].conn \in Conns /\ call[u].op \in Raw /\ call[u] \in Functors
  BY <1>2 DEF Functors
<1>4. QED
  BY <1>1, <1>2, <1>3 DEF Unborn, Made

(* The connections in the map whose loop is another than the base loop.    *)
Leaving(l) == {c \in connections : ioLoop[c] # Base /\ ioLoop[c] = l}

(* ~TcpServer queues connectDestroyed once for each connection in the map  *)
(* that has a loop of its own.                                             *)
LEMMA DestroyEffect ==
  ASSUME IInv, DestroyServer
  PROVE  /\ server = "up" /\ server' = "closing" /\ connections' = {} /\ LoopRuns(Base)
         /\ batch' = batch /\ ran' = ran
         /\ \E left \in [Loops -> Seq(Functors)] :
              /\ pending' = [l \in Loops |-> pending[l] \o left[l]]
              /\ \A l \in Loops : 
                   /\ InOrder(left[l])
                   /\ \A f : Has(left[l], f) <=>
                        f.conn \in Leaving(l) /\ f = Functor("connectDestroyed", f.conn)
<1> DEFINE here == {c \in connections : ioLoop[c] = Base}
           away(l) == {c \in connections \ here : ioLoop[c] = l}
           order(l) == Orders(away(l))
<1>1. PICK s \in [Loops -> UNION {order(l) : l \in Loops}] :
        /\ \A l \in Loops : s[l] \in order(l)
        /\ pending' = [l \in Loops |-> pending[l] \o Destroyers(s[l])]
  BY DEF DestroyServer
<1>2. ASSUME NEW l \in Loops
      PROVE  /\ Destroyers(s[l]) \in Seq(Functors) /\ InOrder(Destroyers(s[l]))
             /\ \A f : Has(Destroyers(s[l]), f) <=>
                        f.conn \in Leaving(l) /\ f = Functor("connectDestroyed", f.conn)
  <2>1. away(l) = Leaving(l)
    BY DEF Leaving
  <2>2. Leaving(l) \in SUBSET Conns
    BY DEF Leaving, IInv, TypeOK, ServerTypes
  <2>3. s[l] \in Orders(Leaving(l))
    BY <1>1, <2>1
  <2>4. QED
    BY <2>2, <2>3, DestroyersOnce
<1> DEFINE left == [l \in Loops |-> Destroyers(s[l])]
<1>3. /\ left \in [Loops -> Seq(Functors)]
      /\ pending' = [l \in Loops |-> pending[l] \o left[l]]
      /\ \A l \in Loops : 
           /\ InOrder(left[l])
           /\ \A f : Has(left[l], f) <=>
                f.conn \in Leaving(l) /\ f = Functor("connectDestroyed", f.conn)
  BY <1>1, <1>2
<1>4. /\ server = "up" /\ server' = "closing" /\ connections' = {} /\ LoopRuns(Base)
      /\ batch' = batch /\ ran' = ran
  BY DEF DestroyServer
<1> HIDE DEF left
<1>5. QED
  BY <1>3, <1>4

(* No step gives a loop a queue of anything but functors.                  *)
LEMMA LoopTypesStep ==
  ASSUME IInv, [Next]_vars PROVE LoopTypes'
<1>1. LoopTypes
  BY DEF IInv, TypeOK
<1>2. ASSUME UNCHANGED <<batch, ran>>, NEW m \in Loops, NEW f \in Functors, pending' = Queued(m, f)
      PROVE  LoopTypes'
  BY <1>1, <1>2, QueuedType DEF LoopTypes
<1>3. CASE UNCHANGED loopVars
  BY <1>1, <1>3 DEF LoopTypes, loopVars
<1>4. CASE ListenQueued
  <2>1. Functor("listen", 0) \in Functors /\ Base \in Loops
    BY TcpServerAssumption DEF Functors, Loops, Base
  <2>2. QED
    BY <1>2, <1>4, <2>1, Zenon DEF ListenQueued
<1>5. CASE NewConnection
  <2>1. /\ UNCHANGED <<batch, ran>>
        /\ \/ pending' = pending
           \/ pending' = Queued(GetNextLoop, Functor("connectEstablished", nextConn))
    BY <1>5 DEF NewConnection
  <2>2. Functor("connectEstablished", nextConn) \in Functors /\ GetNextLoop \in Loops
    BY <1>5, NewIsFree, FunctorOf DEF Owning
  <2>3. QED
    BY <1>2, <1>3, <2>1, <2>2, Zenon DEF loopVars
<1>6. CASE DestroyServer
  <2>1. PICK left \in [Loops -> Seq(Functors)] : pending' = [l \in Loops |-> pending[l] \o left[l]]
    BY <1>6, DestroyEffect
  <2>2. \A l \in Loops : pending[l] \o left[l] \in Seq(Functors)
    BY <1>1, ConcatProperties DEF LoopTypes
  <2>3. pending' \in [Loops -> Seq(Functors)]
    BY <2>1, <2>2
  <2>4. batch' = batch /\ ran' = ran
    BY <1>6, DestroyEffect
  <2>5. QED
    BY <1>1, <2>3, <2>4 DEF LoopTypes
<1>7. CASE ServerDestroyed
  <2>1. /\ pending' = [l \in Loops |-> IF l = Base THEN pending[l] ELSE << >>]
        /\ batch' = batch /\ ran' = ran
    BY <1>7 DEF ServerDestroyed
  <2>2. << >> \in Seq(Functors)
    OBVIOUS
  <2>3. pending' \in [Loops -> Seq(Functors)]
    BY <1>1, <2>1, <2>2 DEF LoopTypes
  <2>4. QED
    BY <1>1, <2>1, <2>3 DEF LoopTypes
<1>8. ASSUME NEW c \in Conns, HandleMessage(c) \/ HandleClose(c) PROVE LoopTypes'
  <2>1. CASE HandleMessage(c)
    BY <1>3, <2>1, Zenon DEF HandleMessage
  <2>2. CASE HandleClose(c)
    BY <1>2, <2>2, CloseEffect, LoopOf, Zenon
  <2>3. QED
    BY <1>8, <2>1, <2>2
<1>9. ASSUME NEW l \in Loops, TakeBatch(l) PROVE LoopTypes'
  <2>1. /\ batch' = [batch EXCEPT ![l] = pending[l]]
        /\ pending' = [pending EXCEPT ![l] = << >>]
        /\ ran' = [ran EXCEPT ![l] = 0]
    BY <1>9 DEF TakeBatch
  <2>2. << >> \in Seq(Functors)
    OBVIOUS
  <2>3. QED
    BY <1>1, <2>1, <2>2 DEF LoopTypes
<1>10. ASSUME NEW l \in Loops, EndBatch(l) PROVE LoopTypes'
  <2>1. batch' = [batch EXCEPT ![l] = << >>] /\ UNCHANGED <<pending, ran>>
    BY <1>10 DEF EndBatch
  <2>2. << >> \in Seq(Functors)
    OBVIOUS
  <2>3. QED
    BY <1>1, <2>1, <2>2 DEF LoopTypes
<1>11. ASSUME NEW l \in Loops, RunFunctor(l) PROVE LoopTypes'
  <2>1. batch' = batch /\ ran' = [ran EXCEPT ![l] = @ + 1]
    BY <1>11, RunEffect, Zenon
  <2>2. ran' \in [Loops -> Nat]
    BY <1>1, <2>1 DEF LoopTypes
  <2>3. pending' \in [Loops -> Seq(Functors)]
    <3>1. CASE pending' = pending
      BY <1>1, <3>1 DEF LoopTypes
    <3>2. ASSUME NEW m \in Loops, NEW f \in Functors, pending' = Queued(m, f)
          PROVE  pending' \in [Loops -> Seq(Functors)]
      BY <1>1, <3>2, QueuedType, Zenon
    <3>3. QED
      BY <1>11, <3>1, <3>2, RunEffect, Zenon
  <2>4. QED
    BY <1>1, <2>1, <2>2, <2>3 DEF LoopTypes
<1>12. ASSUME NEW u \in Users, CallDone(u) PROVE LoopTypes'
  BY <1>2, <1>3, <1>12, CallEffect, LoopOf, Zenon DEF loopVars
<1>13. ASSUME NEW n \in 0..MaxThreads, SetThreadNum(n) PROVE LoopTypes'
  BY <1>3, <1>13, Zenon DEF SetThreadNum
<1>14. CASE Quiet
  BY <1>3, <1>14, Zenon DEF Quiet
<1>15. QED
  BY <1>4, <1>5, <1>6, <1>7, <1>8, <1>9, <1>10, <1>11, <1>12, <1>13, <1>14, Steps, Zenon

-----------------------------------------------------------------------------
(* What may change without a functor being out of place.                   *)
PlacesKept ==
  /\ UNCHANGED <<server, numThreads>>
  /\ started => started'
  /\ nextConn' \in Nat /\ nextConn <= nextConn'
  /\ \A c \in Conns : c < nextConn => ioLoop'[c] = ioLoop[c]

(* A functor that was in place still is, ...                               *)
LEMMA PlacedKept ==
  ASSUME IInv, PlacesKept, NEW l \in Loops, NEW f \in Functors, Placed(l, f)
  PROVE  Placed(l, f)'
<1>1. nextConn \in Nat
  BY DEF IInv, TypeOK, ServerTypes
<1>2. f.op # "listen" => f.conn \in Conns /\ f.conn \in Nat
  BY DEF Functors, Functor, Conns
<1>3. f.op # "listen" => f.conn < nextConn /\ f.conn < nextConn' /\ ioLoop'[f.conn] = ioLoop[f.conn]
  BY <1>1, <1>2 DEF Placed, PlacesKept
<1>4. f.op = "listen" => l = Base /\ started'
  BY Zenon DEF Placed, PlacesKept
<1>5. f.op = "removeConnectionInLoop" => f.op # "listen"
  OBVIOUS
<1>6. f.op \in {"connectEstablished", "connectDestroyed"} \cup Raw => f.op # "listen"
  BY DEF Raw
<1>7. QED
  BY <1>3, <1>4, <1>5, <1>6 DEF Placed

(* ... and no loop has gone.                                               *)
LEMMA GoneKept ==
  ASSUME PlacesKept, NEW l
  PROVE  IOLoops' = IOLoops /\ (Gone(l)' <=> Gone(l))
BY DEF PlacesKept, IOLoops, Gone

(* A loop that is left alone, that runs a functor, or where one is queued  *)
(* that belongs there, stays in order.                                     *)
LEMMA UntouchedOK ==
  ASSUME IInv, PlacesKept, NEW l \in Loops, Untouched(l)
  PROVE  LoopOK(l)'
<1>1. LoopOK(l)
  BY DEF IInv, Queues
<1>2. Todo(l)' = Todo(l)
  BY TodoSame DEF Untouched
<1>3. \A f \in Functors : Has(Todo(l)', f) => Placed(l, f)'
  BY <1>1, <1>2, PlacedKept DEF LoopOK
<1>4. InOrder(Todo(l)')
  BY <1>1, <1>2 DEF LoopOK
<1>5. QED
  BY <1>1, <1>3, <1>4, GoneKept DEF LoopOK, Untouched

(* The loop that runs a functor keeps its queue in order, ...              *)
LEMMA RunsOK ==
  ASSUME IInv, PlacesKept, NEW l \in Loops, Runs(l)
  PROVE  LoopOK(l)'
<1>1. LoopOK(l)
  BY DEF IInv, Queues
<1>2. IsTail(Todo(l)', Todo(l))
  BY TodoRun DEF Runs, IInv
<1>3. \A f \in Functors : Has(Todo(l)', f) => Placed(l, f)'
  BY <1>1, <1>2, TailHas, PlacedKept DEF LoopOK
<1>4. InOrder(Todo(l)')
  BY <1>1, <1>2, TailInOrder DEF LoopOK
<1>5. batch[l] # << >>
  BY FrontDue DEF Runs
<1>6. ~(Gone(l) \/ l \notin IOLoops \cup {Base})
  BY <1>1, <1>5 DEF LoopOK
<1>7. ran'[l] <= Len(batch'[l])
  BY LenProperties DEF Runs, IInv, TypeOK, LoopTypes
<1>8. QED
  BY <1>3, <1>4, <1>6, <1>7, GoneKept DEF LoopOK

(* ... a loop where one is queued does when it belongs there, ...          *)
LEMMA AddsOK ==
  ASSUME IInv, PlacesKept, NEW l \in Loops, NEW f, Adds(l, f), Placed(l, f)', 
         ~Gone(l), l \in IOLoops \cup {Base},
         f.op \in Owning => ~Has(Todo(l), f),
         f.op = "connectEstablished" => ~Has(Todo(l), Functor("connectDestroyed", f.conn))
  PROVE  LoopOK(l)'
<1>1. LoopOK(l) /\ f \in Functors
  BY DEF IInv, Queues, Adds
<1>2. IsAppend(Todo(l)', Todo(l), f)
  BY TodoAppend DEF Adds, IInv
<1>3. \A g \in Functors : Has(Todo(l)', g) => Placed(l, g)'
  BY <1>1, <1>2, AppendHas, PlacedKept DEF LoopOK
<1>4. InOrder(Todo(l)')
  BY <1>1, <1>2, TodoType, AppendInOrder DEF LoopOK, IInv
<1>5. batch'[l] # << >> => ran'[l] <= Len(batch'[l])
  BY <1>1 DEF LoopOK, Adds
<1>6. QED
  BY <1>3, <1>4, <1>5, GoneKept DEF LoopOK

(* ... and then all the loops do.                                          *)
LEMMA QueuedOK ==
  ASSUME IInv, PlacesKept, UNCHANGED <<batch, ran>>,
         NEW m \in Loops, NEW f \in Functors, pending' = Queued(m, f), Placed(m, f)',
         ~Gone(m), m \in IOLoops \cup {Base},
         f.op \in Owning => ~Has(Todo(m), f),
         f.op = "connectEstablished" => ~Has(Todo(m), Functor("connectDestroyed", f.conn))
  PROVE  Queues'
<1> SUFFICES ASSUME NEW l \in Loops PROVE LoopOK(l)'
  BY DEF Queues
<1>1. pending'[m] = Append(pending[m], f) /\ (l # m => pending'[l] = pending[l])
  BY QueuedAt DEF IInv, TypeOK
<1>2. CASE l = m
  BY <1>1, <1>2, AddsOK DEF Adds
<1>3. CASE l # m
  BY <1>1, <1>3, UntouchedOK DEF Untouched
<1>4. QED
  BY <1>2, <1>3

(* Taking a batch and dropping it change nothing of what is to be run.     *)
LEMMA MovesTodo ==
  ASSUME IInv, NEW l \in Loops, TakeBatch(l) \/ EndBatch(l), NEW m \in Loops
  PROVE  Todo(m)' = Todo(m)
<1>1. LoopTypes /\ (batch[l] # << >> => ran[l] <= Len(batch[l]))
  BY DEF IInv, TypeOK, Queues, LoopOK
<1>2. CASE m # l
  <2>1. pending'[m] = pending[m] /\ batch'[m] = batch[m] /\ ran'[m] = ran[m]
    BY <1>1, <1>2 DEF TakeBatch, EndBatch, LoopTypes
  <2>2. QED
    BY <2>1, TodoSame
<1>3. CASE m = l
  <2>1. \/ /\ batch[l] = << >> /\ batch'[l] = pending[l] /\ pending'[l] = << >> /\ ran'[l] = 0
        \/ /\ batch[l] # << >> /\ ran[l] = Len(batch[l]) /\ batch'[l] = << >>
           /\ pending'[l] = pending[l] /\ ran'[l] = ran[l]
    BY <1>1 DEF TakeBatch, EndBatch, LoopTypes
  <2>2. QED
    BY <1>1, <1>3, <2>1, TodoTaken DEF IInv
<1>4. QED
  BY <1>2, <1>3

(* Every loop keeps its functors in order, whatever step is taken.         *)
LEMMA QueuesStep ==
  ASSUME IInv, [Next]_vars PROVE Queues'
<1>1. /\ nextConn \in Nat /\ nextConn <= nextConn
      /\ ServerInv /\ LoopTypes /\ Base \in Loops /\ \A l \in Loops : LoopOK(l)
  BY TcpServerAssumption DEF IInv, TypeOK, ServerTypes, Queues, Loops, Base
<1>2. ASSUME UNCHANGED <<server, numThreads, nextConn, ioLoop>>, started => started'
      PROVE  PlacesKept
  BY <1>1, <1>2, Zenon DEF PlacesKept
<1>3. ASSUME PlacesKept, UNCHANGED loopVars PROVE Queues'
  BY <1>3, UntouchedOK DEF Queues, Untouched, loopVars
<1>4. CASE Quiet
  <2>1. UNCHANGED loopVars
    BY <1>4, Zenon DEF Quiet
  <2>2. QED
    BY <1>2, <1>3, <1>4, <2>1, Zenon DEF Quiet, connVars
<1>5. CASE ListenQueued
  <2>1. PlacesKept /\ UNCHANGED <<batch, ran>> /\ pending' = Queued(Base, Functor("listen", 0))
    BY <1>2, <1>5, Zenon DEF ListenQueued, connVars
  <2>2. /\ Functor("listen", 0) \in Functors
        /\ Functor("listen", 0).op = "listen"
    BY DEF Functors, Functor
  <2>3. started'
    BY <1>5 DEF ListenQueued
  <2>4. Placed(Base, Functor("listen", 0))'
    BY <2>2, <2>3 DEF Placed, Raw
  <2>5. ~Gone(Base) /\ Base \in IOLoops \cup {Base}
    BY DEF Gone
  <2>6. QED
    BY <1>1, <2>1, <2>2, <2>4, <2>5, QueuedOK DEF Owning
<1>6. ASSUME NEW n \in 0..MaxThreads, SetThreadNum(n) PROVE Queues'
  <2>1. /\ ~started /\ server = "up" /\ server' = server
        /\ UNCHANGED <<pending, batch, ran>>
    BY <1>6 DEF SetThreadNum, loopVars
  <2>2. \A l \in Loops : batch[l] = << >> /\ pending[l] = << >>
    BY <1>1, <2>1, Zenon DEF ServerInv
  <2>3. ASSUME NEW l \in Loops PROVE LoopOK(l)'
    <3>1. Todo(l) = << >> /\ Todo(l)' = Todo(l)
      BY <2>1, <2>2, TodoType, TodoSame DEF IInv
    <3>2. InOrder(Todo(l)') /\ \A f : ~Has(Todo(l)', f)
      BY <3>1 DEF InOrder, Has
    <3>3. QED
      BY <2>1, <2>2, <3>2 DEF LoopOK
  <2>4. QED
    BY <2>3 DEF Queues
<1>7. CASE NewConnection
  <2>1. /\ UNCHANGED <<server, started, numThreads, batch, ran>>
        /\ nextConn' = nextConn + 1 /\ ioLoop' = [ioLoop EXCEPT ![nextConn] = GetNextLoop]
        /\ \/ pending' = pending
           \/ /\ GetNextLoop # Base
              /\ pending' = Queued(GetNextLoop, Functor("connectEstablished", nextConn))
    BY <1>7 DEF NewConnection
  <2>2. /\ nextConn \in Conns /\ GetNextLoop \in Loops /\ GetNextLoop \in IOLoops
        /\ server = "up" /\ ioLoop \in [Conns -> Loops]
    BY <1>7, NewIsFree DEF IInv, TypeOK, ConnTypes
  <2>3. PlacesKept
    <3>1. \A c \in Conns : c < nextConn => c # nextConn
      BY <1>1 DEF Conns
    <3>2. \A c \in Conns : c < nextConn => ioLoop'[c] = ioLoop[c]
      BY <2>1, <2>2, <3>1
    <3>3. nextConn' \in Nat /\ nextConn <= nextConn'
      BY <1>1, <2>1
    <3>4. QED
      BY <2>1, <3>2, <3>3, Zenon DEF PlacesKept
  <2>4. CASE pending' = pending
    BY <1>3, <2>1, <2>3, <2>4, Zenon DEF loopVars
  <2>5. ASSUME NEW c \in Conns, c = nextConn, NEW m \in Loops, m = GetNextLoop, m # Base,
               pending' = Queued(m, Functor("connectEstablished", c))
        PROVE  Queues'
    <3> DEFINE f == Functor("connectEstablished", c)
               g == Functor("connectDestroyed", c)
    <3>1. /\ f \in Functors /\ f.op = "connectEstablished" /\ f.conn = c
          /\ g \in Functors /\ g.op = "connectDestroyed" /\ g.conn = c
      BY FunctorOf, FunctorParts DEF Owning
    <3>2. ioLoop'[c] = m /\ c < nextConn'
      BY <1>1, <2>1, <2>2, <2>5
    <3>3. g = Functor("connectDestroyed", f.conn)
      BY <3>1
    <3>4. pending' = Queued(m, f)
      BY <2>5
    <3> HIDE DEF f, g
    <3>5. Placed(m, f)'
      BY <2>5, <3>1, <3>2 DEF Placed
    <3>6. ~Placed(m, f) /\ ~Placed(m, g)
      BY <1>1, <2>5, <3>1 DEF Placed
    <3>7. ~Has(Todo(m), f) /\ ~Has(Todo(m), g)
      BY <1>1, <3>1, <3>6 DEF LoopOK
    <3>8. ~Gone(m) /\ m \in IOLoops
      BY <2>2, <2>5 DEF Gone
    <3>9. QED
      BY <2>1, <2>3, <3>1, <3>3, <3>4, <3>5, <3>7, <3>8, QueuedOK
  <2>6. QED
    BY <2>1, <2>2, <2>4, <2>5
<1>8. CASE DestroyServer
  <2>1. /\ server = "up" /\ server' = "closing" /\ UNCHANGED <<batch, ran>>
    BY <1>8, DestroyEffect
  <2>2. PICK left \in [Loops -> Seq(Functors)] :
          /\ pending' = [l \in Loops |-> pending[l] \o left[l]]
          /\ \A l \in Loops : 
               /\ InOrder(left[l])
               /\ \A f : Has(left[l], f) <=>
                    f.conn \in Leaving(l) /\ f = Functor("connectDestroyed", f.conn)
    BY <1>8, DestroyEffect
  <2>3. /\ started' = started /\ nextConn' = nextConn /\ ioLoop' = ioLoop
        /\ numThreads' = numThreads
    BY <1>8 DEF DestroyServer, TearDown
  <2>4. ASSUME NEW l \in Loops PROVE LoopOK(l)'
    <3>1. /\ left[l] \in Seq(Functors) /\ pending'[l] = pending[l] \o left[l]
          /\ batch'[l] = batch[l] /\ ran'[l] = ran[l]
      BY <2>1, <2>2
    <3>2. Todo(l)' = Todo(l) \o left[l] /\ Todo(l) \in Seq(Functors)
      BY <3>1, TodoConcat, TodoType DEF IInv
    <3>3. \A f : Has(Todo(l)', f) <=> Has(Todo(l), f) \/ Has(left[l], f)
      BY <3>1, <3>2, ConcatHas
    <3>4. ASSUME NEW f \in Functors, Has(left[l], f)
          PROVE  /\ f.op = "connectDestroyed" /\ ~Has(Todo(l), f) /\ Placed(l, f)
                 /\ l \in IOLoops
      <4>1. f.conn \in Leaving(l) /\ f = Functor("connectDestroyed", f.conn)
        BY <2>2, <3>4
      <4>2. f.conn \in Conns /\ f.conn \in connections /\ ioLoop[f.conn] = l /\ l # Base
        BY <4>1 DEF Leaving, IInv, TypeOK, ServerTypes
      <4>3. /\ f.conn < nextConn /\ l \in IOLoops
            /\ ~DestroyDue(f.conn)
        BY <4>2 DEF IInv, Lives, Life, Unborn, Made, IsUp, Closed, TornDown, Lost, InMap, Left
      <4>4. ~Has(Todo(l), f)
        BY <4>1, <4>2, <4>3 DEF DestroyDue, Due
      <4>5. f.op = "connectDestroyed"
        BY <4>1, FunctorParts
      <4>6. QED
        BY <4>2, <4>3, <4>4, <4>5 DEF Placed
    <3>5. InOrder(Todo(l)')
      BY <1>1, <2>2, <3>1, <3>2, <3>4, ConcatInOrder DEF LoopOK
    <3>6. ASSUME NEW f \in Functors, Has(Todo(l)', f) PROVE Placed(l, f)'
      <4>1. Placed(l, f)
        BY <1>1, <3>3, <3>4, <3>6 DEF LoopOK
      <4>2. QED
        BY <2>3, <4>1 DEF Placed
    <3>7. ASSUME Gone(l)' \/ l \notin (IOLoops \cup {Base})'
          PROVE  batch'[l] = << >> /\ pending'[l] = << >>
      <4>1. l \notin IOLoops \cup {Base}
        BY <2>1, <2>3, <3>7 DEF Gone, IOLoops
      <4>2. batch[l] = << >> /\ pending[l] = << >>
        BY <1>1, <4>1 DEF LoopOK
      <4>3. \A f \in Functors : ~Has(left[l], f)
        BY <3>4, <4>1
      <4>4. left[l] = << >>
        <5>1. Len(left[l]) \in Nat /\ \A i \in 1..Len(left[l]) : left[l][i] \in Functors
          BY <3>1, LenProperties
        <5>2. ~(1 \in 1..Len(left[l]))
          BY <4>3, <5>1 DEF Has
        <5>3. QED
          BY <3>1, <5>1, <5>2, EmptySeq
      <4>5. QED
        BY <3>1, <4>2, <4>4
    <3>8. batch'[l] # << >> => ran'[l] <= Len(batch'[l])
      BY <1>1, <3>1 DEF LoopOK
    <3>9. QED
      BY <3>5, <3>6, <3>7, <3>8 DEF LoopOK
  <2>5. QED
    BY <2>4 DEF Queues
<1>9. CASE ServerDestroyed
  <2>1. /\ server = "closing" /\ server' = "destroyed" 
        /\ UNCHANGED <<started, nextConn, ioLoop, numThreads, batch, ran>>
        /\ \A l \in IOLoops \ {Base} : batch[l] = << >>
        /\ pending' = [l \in Loops |-> IF l = Base THEN pending[l] ELSE << >>]
    BY <1>9 DEF ServerDestroyed
  <2>2. LoopOK(Base)'
    <3>1. Todo(Base)' = Todo(Base)
      BY <1>1, <2>1, TodoSame
    <3>2. LoopOK(Base) /\ ~Gone(Base)'
      BY <1>1 DEF Gone
    <3>3. \A f \in Functors : Has(Todo(Base)', f) => Placed(Base, f)'
      BY <2>1, <3>1, <3>2 DEF LoopOK, Placed
    <3>4. InOrder(Todo(Base)')
      BY <3>1, <3>2 DEF LoopOK
    <3>5. QED
      BY <2>1, <3>2, <3>3, <3>4 DEF LoopOK
  <2>3. ASSUME NEW l \in Loops, l # Base PROVE LoopOK(l)'
    <3>1. batch[l] = << >> /\ batch'[l] = << >> /\ pending'[l] = << >> /\ ran[l] \in Nat
      BY <1>1, <2>1, <2>3 DEF LoopOK, LoopTypes
    <3>2. Todo(l)' = << >>
      <4>1. Todo(l)' = SubSeq(<< >>, ran[l] + 1, Len(<< >>)) \o << >>
        BY <2>1, <3>1, Zenon DEF Todo
      <4>2. << >> \in Seq(Functors)
        OBVIOUS
      <4>3. QED
        BY <3>1, <4>1, <4>2, NoRest
    <3>3. InOrder(Todo(l)') /\ \A f : ~Has(Todo(l)', f)
      BY <3>2 DEF InOrder, Has
    <3>4. QED
      BY <3>1, <3>3 DEF LoopOK
  <2>4. QED
    BY <2>2, <2>3 DEF Queues
<1>10. ASSUME NEW c \in Conns, HandleMessage(c) PROVE Queues'
  <2>1. /\ UNCHANGED <<server, numThreads, nextConn, ioLoop, started>> /\ UNCHANGED loopVars
    BY <1>10, Zenon DEF HandleMessage, serverVars
  <2>2. QED
    BY <1>2, <1>3, <2>1, Zenon
<1>11. ASSUME NEW c \in Conns, HandleClose(c) PROVE Queues'
  <2>1. PlacesKept /\ UNCHANGED <<batch, ran>>
    BY <1>2, <1>11, Zenon DEF HandleClose, serverVars
  <2>2. /\ IsUp(c) /\ c < nextConn /\ c < nextConn' /\ ioLoop[c] \in IOLoops /\ ~Gone(ioLoop[c])
        /\ ioLoop'[c] = ioLoop[c] /\ ioLoop[c] \in Loops
        /\ ioLoop[c] = Base => InMap(c)
    BY <1>11, <2>1, CloseEffect, Handled, LoopOf DEF HandleClose, serverVars
  <2>3. CASE /\ ioLoop[c] = Base
             /\ Functor("connectDestroyed", c) \in Functors
             /\ pending' = Queued(ioLoop[c], Functor("connectDestroyed", c))
    <3> DEFINE f == Functor("connectDestroyed", c)
    <3>1. f.op = "connectDestroyed" /\ f.conn = c
      BY FunctorParts
    <3>2. ~Has(Todo(ioLoop[c]), f)
      BY <2>2, <2>3 DEF InMap, DestroyDue, Due
    <3> HIDE DEF f
    <3>3. Placed(ioLoop[c], f)'
      BY <2>2, <3>1 DEF Placed
    <3>4. f \in Functors /\ pending' = Queued(ioLoop[c], f)
      BY <2>3 DEF f
    <3>5. QED
      BY <2>1, <2>2, <3>1, <3>2, <3>3, <3>4, QueuedOK
  <2>4. CASE /\ ioLoop[c] # Base
             /\ Functor("removeConnectionInLoop", c) \in Functors
             /\ pending' = Queued(Base, Functor("removeConnectionInLoop", c))
    <3> DEFINE f == Functor("removeConnectionInLoop", c)
    <3>1. f.op = "removeConnectionInLoop" /\ f.conn = c
      BY FunctorParts
    <3>2. ~Has(Todo(Base), f)
      BY <2>2 DEF IsUp, RemoveDue, Due
    <3> HIDE DEF f
    <3>3. Placed(Base, f)'
      BY <2>2, <2>4, <3>1 DEF Placed, Raw
    <3>4. f \in Functors /\ pending' = Queued(Base, f) /\ ~Gone(Base)
      BY <2>4 DEF f, Gone
    <3>5. QED
      BY <1>1, <2>1, <3>1, <3>2, <3>3, <3>4, QueuedOK
  <2>5. QED
    BY <1>11, <2>3, <2>4, CloseEffect
<1>12. ASSUME NEW l \in Loops, TakeBatch(l) \/ EndBatch(l) PROVE Queues'
  <2>1. PlacesKept
    BY <1>2, <1>12, Zenon DEF TakeBatch, EndBatch, serverVars, connVars
  <2>2. ASSUME NEW m \in Loops PROVE LoopOK(m)'
    <3>1. Todo(m)' = Todo(m) /\ LoopOK(m)
      BY <1>1, <1>12, MovesTodo
    <3>2. InOrder(Todo(m)') /\ \A f \in Functors : Has(Todo(m)', f) => Placed(m, f)'
      BY <2>1, <3>1, PlacedKept DEF LoopOK
    <3>3. CASE m # l
      <4>1. pending'[m] = pending[m] /\ batch'[m] = batch[m] /\ ran'[m] = ran[m]
        BY <1>1, <1>12, <3>3 DEF TakeBatch, EndBatch, LoopTypes
      <4>2. QED
        BY <2>1, <4>1, UntouchedOK DEF Untouched
    <3>4. CASE m = l
      <4>1. batch[l] # << >> \/ pending[l] # << >>
        BY <1>12, Zenon DEF TakeBatch, EndBatch
      <4>2. ~(Gone(l) \/ l \notin IOLoops \cup {Base})
        BY <3>1, <3>4, <4>1, Zenon DEF LoopOK
      <4>3. batch'[l] # << >> => ran'[l] <= Len(batch'[l])
        <5>1. CASE TakeBatch(l)
          <6>1. ran'[l] = 0 /\ batch'[l] = pending[l] /\ pending[l] \in Seq(Functors)
            BY <1>1, <5>1 DEF TakeBatch, LoopTypes
          <6>2. QED
            BY <6>1, LenProperties
        <5>2. CASE EndBatch(l)
          BY <1>1, <5>2 DEF EndBatch, LoopTypes
        <5>3. QED
          BY <1>12, <5>1, <5>2
      <4>4. QED
        BY <2>1, <3>2, <3>4, <4>2, <4>3, GoneKept DEF LoopOK
    <3>5. QED
      BY <3>3, <3>4
  <2>3. QED
    BY <2>2 DEF Queues
<1>13. ASSUME NEW l \in Loops, RunFunctor(l) PROVE Queues'
  <2>1. PlacesKept
    <3>1. UNCHANGED <<server, numThreads, nextConn, started, ioLoop>>
      BY <1>13 DEF RunFunctor, Establish, TearDown, connVars
    <3>2. QED
      BY <1>2, <3>1, Zenon
  <2>2. /\ batch' = batch /\ ran' = [ran EXCEPT ![l] = @ + 1] /\ ran[l] < Len(batch[l]) /\ LoopRuns(l)
    BY <1>13, RunEffect
  <2>3. ran'[l] = ran[l] + 1 /\ \A m \in Loops : m # l => ran'[m] = ran[m]
    BY <1>1, <2>2 DEF LoopTypes
  <2>4. CASE pending' = pending
    <3>1. ASSUME NEW m \in Loops PROVE LoopOK(m)'
      <4>1. m # l => Untouched(m)
        BY <2>2, <2>3, <2>4 DEF Untouched
      <4>2. m = l => Runs(m)
        BY <2>2, <2>3, <2>4 DEF Runs
      <4>3. QED
        BY <2>1, <4>1, <4>2, UntouchedOK, RunsOK
    <3>2. QED
      BY <3>1 DEF Queues
  <2>5. ASSUME NEW c, c = Front(l).conn, Front(l).op = "removeConnectionInLoop", server # "destroyed",
               NEW n \in Loops \ {l}, n = ioLoop[c],
               NEW f \in Functors, f = Functor("connectDestroyed", c), pending' = Queued(n, f)
        PROVE  Queues'
    <3>1. c \in Conns /\ Closed(c) /\ InMap(c) /\ server = "up"
      BY <2>2, <2>5, RemoveRuns
    <3>2. c < nextConn /\ c < nextConn' /\ n \in IOLoops /\ ioLoop'[c] = n /\ ~Gone(n)
      <4>1. c < nextConn /\ ioLoop[c] \in IOLoops
        BY <3>1 DEF IInv, Lives, Life, Closed, Unborn
      <4>2. nextConn' \in Nat /\ nextConn <= nextConn'
        BY <2>1 DEF PlacesKept
      <4>3. c \in Nat
        BY <3>1 DEF Conns
      <4>4. QED
        BY <1>1, <2>1, <2>5, <3>1, <4>1, <4>2, <4>3 DEF PlacesKept, Gone
    <3>3. f.op = "connectDestroyed" /\ f.conn = c
      BY <2>5, FunctorParts
    <3>4. ~Has(Todo(n), f)
      BY <2>5, <3>1 DEF InMap, DestroyDue, Due
    <3>5. Placed(n, f)'
      BY <3>2, <3>3 DEF Placed
    <3>6. /\ pending'[n] = Append(pending[n], f)
          /\ \A m \in Loops : m # n => pending'[m] = pending[m]
      BY <1>1, <2>5, QueuedAt
    <3>7. ASSUME NEW m \in Loops PROVE LoopOK(m)'
      <4>1. CASE m = l
        BY <2>1, <2>2, <2>3, <2>5, <3>6, <4>1, RunsOK DEF Runs
      <4>2. CASE m = n
        BY <2>1, <2>2, <2>3, <2>5, <3>2, <3>3, <3>4, <3>5, <3>6, <4>2, AddsOK DEF Adds
      <4>3. CASE m # l /\ m # n
        BY <2>1, <2>2, <2>3, <3>6, <4>3, UntouchedOK DEF Untouched
      <4>4. QED
        BY <4>1, <4>2, <4>3
    <3>8. QED
      BY <3>7 DEF Queues
  <2>6. QED
    BY <1>13, <2>4, <2>5, RunEffect
<1>14. ASSUME NEW u \in Users, CallDone(u) PROVE Queues'
  <2>1. PlacesKept /\ UNCHANGED <<batch, ran>>
    BY <1>2, <1>14, Zenon DEF CallDone, serverVars
  <2>2. /\ call[u].conn \in Conns /\ call[u].op \in Raw /\ call[u] \in Functors
        /\ ~Unborn(call[u].conn)
    BY <1>14, CallEffect
  <2>3. CASE pending' = pending
    BY <1>3, <2>1, <2>3, Zenon DEF loopVars
  <2>4. ASSUME NEW f \in Functors, f = call[u], NEW m \in Loops, m = ioLoop[f.conn], ~Gone(m),
               pending' = Queued(m, f)
        PROVE  Queues'
    <3>1. f.conn < nextConn /\ m \in IOLoops
      BY <2>2, <2>4 DEF IInv, Lives, Life
    <3>2. f.conn \in Nat /\ f.conn < nextConn' /\ ioLoop'[f.conn] = m
      BY <1>1, <2>1, <2>2, <2>4, <3>1 DEF PlacesKept, Conns
    <3>3. f.op # "listen" /\ f.op \notin Owning
      BY <2>2, <2>4 DEF Raw, Owning
    <3>4. Placed(m, f)'
      BY <3>2, <3>3 DEF Placed, Owning
    <3>5. QED
      BY <2>1, <2>4, <3>1, <3>3, <3>4, QueuedOK DEF Owning
  <2>5. QED
    BY <1>14, <2>2, <2>3, <2>4, CallEffect, LoopOf
<1>15. QED
  BY <1>4, <1>5, <1>6, <1>7, <1>8, <1>9, <1>10, <1>11, <1>12, <1>13, <1>14, Steps

-----------------------------------------------------------------------------
(* A connection that has come up is never taken for a new one.             *)
LEMMA StateStep ==
  ASSUME IInv, [Next]_vars, NEW c \in Conns, state[c] \notin {"none", "kConnecting"}
  PROVE  state'[c] \notin {"none", "kConnecting"}
<1>1. state \in [Conns -> States]
  BY DEF IInv, TypeOK, ConnTypes
<1>2. CASE UNCHANGED state
  BY <1>2
<1>3. ASSUME NEW k, NEW old, NEW users, NEW shut, Establish(k, old, users, shut)
      PROVE  state'[c] \notin {"none", "kConnecting"}
  BY <1>1, <1>3 DEF Establish
<1>4. ASSUME NEW gone, NEW users, TearDown(gone, users)
      PROVE  state'[c] \notin {"none", "kConnecting"}
  BY <1>1, <1>4 DEF TearDown
<1>5. CASE NewConnection
  <2>1. state[nextConn] = "none" /\ nextConn \in Conns
    BY <1>5, NewIsFree DEF Unborn
  <2>2. \/ state' = Constructed(nextConn)
        \/ \E users \in SUBSET Users, shut \in BOOLEAN :
              Establish(nextConn, Constructed(nextConn)[nextConn], users, shut)
    BY <1>5 DEF NewConnection
  <2>3. CASE state' = Constructed(nextConn)
    BY <1>1, <2>1, <2>3 DEF Constructed
  <2>4. QED
    BY <1>3, <2>2, <2>3
<1>6. CASE DestroyServer
  BY <1>4, <1>6 DEF DestroyServer
<1>7. CASE ServerDestroyed
  BY <1>2, <1>7 DEF ServerDestroyed
<1>8. ASSUME NEW k \in Conns, HandleMessage(k) \/ HandleClose(k)
      PROVE  state'[c] \notin {"none", "kConnecting"}
  BY <1>1, <1>8 DEF HandleMessage, HandleClose
<1>9. ASSUME NEW l \in Loops, RunFunctor(l) PROVE state'[c] \notin {"none", "kConnecting"}
  <2>1. \/ UNCHANGED state
        \/ \E users \in SUBSET Users, shut \in BOOLEAN :
              Establish(Front(l).conn, state[Front(l).conn], users, shut)
        \/ \E users \in SUBSET Users : TearDown({Front(l).conn}, users)
    BY <1>9 DEF RunFunctor, Front, connVars
  <2>2. QED
    BY <1>2, <1>3, <1>4, <2>1
<1>10. ASSUME NEW u \in Users, CallDone(u) PROVE state'[c] \notin {"none", "kConnecting"}
  BY <1>1, <1>10 DEF CallDone
<1>11. CASE Quiet \/ ListenQueued
  BY <1>2, <1>11 DEF Quiet, ListenQueued, connVars
<1>12. ASSUME NEW n \in 0..MaxThreads, SetThreadNum(n) PROVE UNCHANGED state
  BY <1>12 DEF SetThreadNum, connVars
<1>13. ASSUME NEW l \in Loops, TakeBatch(l) \/ EndBatch(l) PROVE UNCHANGED state
  BY <1>13 DEF TakeBatch, EndBatch, connVars
<1>14. QED
  BY <1>2, <1>5, <1>6, <1>7, <1>8, <1>9, <1>10, <1>11, <1>12, <1>13, Steps, Zenon

(* A call goes on only after its test has seen the connection up.          *)
LEMMA CallsStep ==
  ASSUME IInv, [Next]_vars PROVE Calls'
<1>1. /\ call \in [Users -> [op : Raw, conn : Conns] \cup {Idle}]
      /\ \A u \in Users : call[u] # Idle => state[call[u].conn] \notin {"none", "kConnecting"}
  BY DEF IInv, Calls
<1>2. \A u \in Users : call[u] # Idle => call[u].conn \in Conns
  BY <1>1
<1>3. \/ UNCHANGED call
      \/ \E u \in Users : call' = [call EXCEPT ![u] = Idle]
      \/ \E u \in Users, c \in Conns, op \in Raw :
            call' = [call EXCEPT ![u] = Functor(op, c)] /\ state[c] = "kConnected"
  <2>1. ASSUME Step
        PROVE  \/ UNCHANGED call
               \/ \E u \in Users : CallDone(u) \/ \E c \in Conns, op \in Raw : CallTest(u, c, op)
    <3>1. CASE NewConnection \/ DestroyServer \/ ServerDestroyed
      BY <3>1 DEF NewConnection, Establish, Keep, DestroyServer, TearDown, ServerDestroyed, userVars
    <3>2. CASE \E n \in 0..MaxThreads : SetThreadNum(n)
      BY <3>2 DEF SetThreadNum, userVars
    <3>3. CASE Start \/ RefuseConnection \/ OthersStep
      BY <3>3 DEF Start, RefuseConnection, OthersStep, userVars
    <3>4. ASSUME NEW c \in Conns, PeerCloses(c) \/ HandleMessage(c) \/ HandleClose(c)
          PROVE  UNCHANGED call
      BY <3>4 DEF PeerCloses, HandleMessage, HandleClose, Keep, userVars
    <3>5. ASSUME NEW l \in Loops, LoopStep(l) PROVE UNCHANGED call
      BY <3>5 DEF LoopStep, TakeBatch, RunFunctor, EndBatch, Establish, Keep, TearDown, userVars
    <3>6. ASSUME NEW u \in Users, UserStart(u) \/ \E c \in Conns : Drop(u, c)
          PROVE  UNCHANGED call
      BY <3>6 DEF UserStart, Drop
    <3>7. QED
      BY <2>1, <3>1, <3>2, <3>3, <3>4, <3>5, <3>6, Zenon DEF Step
  <2>2. ASSUME NEW u \in Users, CallDone(u) PROVE call' = [call EXCEPT ![u] = Idle]
    BY <2>2 DEF CallDone
  <2>3. ASSUME NEW u \in Users, NEW c \in Conns, NEW op \in Raw, CallTest(u, c, op)
        PROVE  call' = [call EXCEPT ![u] = Functor(op, c)] /\ state[c] = "kConnected"
    BY <2>3 DEF CallTest
  <2>4. CASE UNCHANGED vars
    BY <2>4 DEF vars, userVars
  <2>5. QED
    BY <2>1, <2>2, <2>3, <2>4, Zenon DEF Next
<1>4. \A c \in Conns : state[c] \notin {"none", "kConnecting"} => state'[c] \notin {"none", "kConnecting"}
  BY StateStep
<1>5. CASE UNCHANGED call
  BY <1>1, <1>2, <1>4, <1>5 DEF Calls
<1>6. ASSUME NEW u \in Users, call' = [call EXCEPT ![u] = Idle] PROVE Calls'
  BY <1>1, <1>2, <1>4, <1>6 DEF Calls
<1>7. ASSUME NEW u \in Users, NEW c \in Conns, NEW op \in Raw,
             call' = [call EXCEPT ![u] = Functor(op, c)], state[c] = "kConnected"
      PROVE  Calls'
  <2>1. Functor(op, c) \in [op : Raw, conn : Conns] /\ Functor(op, c).conn = c
    BY DEF Functor
  <2>2. state'[c] \notin {"none", "kConnecting"}
    BY <1>4, <1>7
  <2>3. call' \in [Users -> [op : Raw, conn : Conns] \cup {Idle}]
    BY <1>1, <1>7, <2>1
  <2>4. \A v \in Users : call'[v] = call[v] \/ call'[v] = Functor(op, c)
    BY <1>1, <1>7
  <2>5. QED
    BY <1>1, <1>2, <1>4, <2>1, <2>2, <2>3, <2>4 DEF Calls
<1>8. QED
  BY <1>3, <1>5, <1>6, <1>7

(* No assertion fails.                                                     *)
LEMMA FaultsStep ==
  ASSUME IInv, [Next]_vars PROVE Faults'
<1>1. Faults
  BY DEF IInv
<1>2. CASE UNCHANGED <<fault, numThreads>>
  BY <1>1, <1>2 DEF Faults
<1>3. CASE Quiet
  BY <1>1, <1>3 DEF Quiet, Faults
<1>4. CASE ListenQueued
  BY <1>2, <1>4, Zenon DEF ListenQueued
<1>5. ASSUME NEW n \in 0..MaxThreads, fault = "none", SetThreadNum(n) PROVE Faults'
  BY <1>5 DEF SetThreadNum, Faults
<1>6. CASE NewConnection
  <2>1. Constructed(nextConn)[nextConn] = "kConnecting"
    BY <1>6, NewIsFree DEF Constructed, IInv, TypeOK, ConnTypes
  <2>2. UNCHANGED numThreads
    BY <1>6 DEF NewConnection
  <2>3. UNCHANGED fault
    BY <1>6, <2>1 DEF NewConnection, Establish
  <2>4. QED
    BY <1>2, <2>2, <2>3
<1>7. CASE DestroyServer \/ ServerDestroyed
  BY <1>2, <1>7, Zenon DEF DestroyServer, ServerDestroyed
<1>8. ASSUME NEW c \in Conns, HandleMessage(c) \/ HandleClose(c) PROVE Faults'
  BY <1>2, <1>8, CloseEffect, Zenon DEF HandleMessage, HandleClose, serverVars
<1>9. ASSUME NEW l \in Loops, TakeBatch(l) \/ EndBatch(l) PROVE Faults'
  BY <1>2, <1>9, Zenon DEF TakeBatch, EndBatch, serverVars
<1>10. ASSUME NEW l \in Loops, RunFunctor(l) PROVE Faults'
  <2>1. LoopRuns(l) /\ ran[l] < Len(batch[l]) /\ UNCHANGED numThreads
    BY <1>10 DEF RunFunctor
  <2>2. \/ UNCHANGED fault
        \/ fault' \in {"dead acceptor", "use after free"}
        \/ /\ Front(l).op = "removeConnectionInLoop"
           /\ \/ fault' = "dead server"
              \/ server # "destroyed" /\ Front(l).conn \notin connections
        \/ Front(l).op = "connectEstablished" /\ state[Front(l).conn] # "kConnecting"
    BY <1>10 DEF RunFunctor, Front, Establish, Remove, Fail
  <2>3. Front(l).op = "connectEstablished" => state[Front(l).conn] = "kConnecting"
    BY <2>1, EstablishRuns DEF Made
  <2>4. Front(l).op = "removeConnectionInLoop" =>
           numThreads # 0 /\ (server # "destroyed" => Front(l).conn \in connections)
    BY <2>1, RemoveRuns DEF InMap
  <2>5. QED
    BY <1>1, <2>1, <2>2, <2>3, <2>4 DEF Faults
<1>11. ASSUME NEW u \in Users, CallDone(u) PROVE Faults'
  <2>1. UNCHANGED numThreads /\ (UNCHANGED fault \/ fault' = "use after free")
    BY <1>11, Zenon DEF CallDone, Fail, serverVars
  <2>2. QED
    BY <1>1, <2>1 DEF Faults
<1>12. QED
  BY <1>3, <1>4, <1>5, <1>6, <1>7, <1>8, <1>9, <1>10, <1>11, Steps

-----------------------------------------------------------------------------
(* What a connection has been told, and what is queued for it.             *)
SameConn(c) ==
  /\ state'[c] = state[c] /\ ioLoop'[c] = ioLoop[c]
  /\ c \in registered' <=> c \in registered
  /\ c \in reading' <=> c \in reading
  /\ c \in connections' <=> c \in connections
  /\ ups'[c] = ups[c] /\ downs'[c] = downs[c] /\ destroyed'[c] = destroyed[c]

SameDues(c) ==
  /\ EstablishDue(c)' <=> EstablishDue(c)
  /\ DestroyDue(c)' <=> DestroyDue(c)
  /\ RemoveDue(c)' <=> RemoveDue(c)

(* A step that has to do with other connections only, the next to come     *)
(* perhaps.                                                                *)
LEMMA LifeSame ==
  ASSUME IInv, NEW c \in Conns, SameConn(c), SameDues(c), UNCHANGED <<server, numThreads>>,
         nextConn' = nextConn \/ (nextConn' = nextConn + 1 /\ c # nextConn)
  PROVE  Life(c)'
<1>1. Life(c) /\ nextConn \in Nat /\ c \in Nat
  BY DEF IInv, Lives, TypeOK, ServerTypes, Conns
<1>2. /\ c < nextConn => c < nextConn'
      /\ c >= nextConn => c >= nextConn'
  BY <1>1
<1>3. IOLoops' = IOLoops /\ (Gone(ioLoop[c])' <=> Gone(ioLoop[c]))
  BY DEF IOLoops, Gone, SameConn
<1>4. /\ InMap(c)' <=> InMap(c)
      /\ Left(c)' <=> Left(c)
  BY DEF InMap, Left, SameConn, SameDues
<1>5. Unborn(c) => Unborn(c)'
  BY <1>2 DEF Unborn, SameConn
<1>6. Made(c) => Made(c)'
  BY <1>4 DEF Made, SameConn, SameDues
<1>7. IsUp(c) => IsUp(c)'
  BY <1>4 DEF IsUp, SameConn, SameDues
<1>8. Closed(c) => Closed(c)'
  BY <1>4 DEF Closed, SameConn, SameDues
<1>9. TornDown(c) => TornDown(c)'
  BY DEF TornDown, SameConn, SameDues
<1>10. Lost(c) => Lost(c)'
  BY <1>3 DEF Lost, SameConn
<1>11. ioLoop'[c] = ioLoop[c]
  BY DEF SameConn
<1>12. QED
  BY <1>1, <1>2, <1>3, <1>5, <1>6, <1>7, <1>8, <1>9, <1>10, <1>11 DEF Life

(* What is due to a connection is due in its loop, or in the base loop.    *)
LEMMA DuesAt ==
  ASSUME IInv, NEW c \in Conns, NEW m \in Loops, ioLoop[c] = m
  PROVE  /\ EstablishDue(c) <=> Due(m, "connectEstablished", c)
         /\ DestroyDue(c) <=> Due(m, "connectDestroyed", c)
         /\ RemoveDue(c) <=> Due(Base, "removeConnectionInLoop", c)
BY DEF EstablishDue, DestroyDue, RemoveDue

(* A functor is due after a step when it is left to be run.                *)
LEMMA DuesAtNext ==
  ASSUME IInv, NEW c \in Conns, NEW m \in Loops, ioLoop'[c] = m
  PROVE  /\ EstablishDue(c)' <=> Due(m, "connectEstablished", c)'
         /\ DestroyDue(c)' <=> Due(m, "connectDestroyed", c)'
         /\ RemoveDue(c)' <=> Due(Base, "removeConnectionInLoop", c)'
BY DEF EstablishDue, DestroyDue, RemoveDue, Due, Todo

(* A functor is due where it was if the loops have the same left to run.   *)
LEMMA DuesSame ==
  ASSUME IInv, NEW c \in Conns, ioLoop'[c] = ioLoop[c],
         \A l \in Loops : \A op \in Owning : Due(l, op, c)' <=> Due(l, op, c)
  PROVE  SameDues(c)
<1>1. PICK m \in Loops : ioLoop[c] = m
  BY LoopOf
<1>2. Base \in Loops
  BY LoopOf
<1>3. QED
  BY <1>1, <1>2, DuesAt, DuesAtNext DEF SameDues, Owning

(* The same of one loop and one functor.                                   *)
LEMMA DueTodo ==
  ASSUME NEW l, Todo(l)' = Todo(l), NEW op, NEW c
  PROVE  Due(l, op, c)' <=> Due(l, op, c)
BY DEF Due

(* What queueing a functor makes due, ...                                  *)
LEMMA DueQueued ==
  ASSUME IInv, UNCHANGED <<batch, ran>>, NEW m \in Loops, NEW f \in Functors,
         pending' = Queued(m, f), NEW l \in Loops, NEW op, NEW c
  PROVE  Due(l, op, c)' <=> Due(l, op, c) \/ (l = m /\ Functor(op, c) = f)
<1>1. /\ pending'[m] = Append(pending[m], f)
      /\ l # m => pending'[l] = pending[l]
  BY QueuedAt DEF IInv, TypeOK
<1>2. CASE l # m
  BY <1>1, <1>2, TodoSame DEF Due
<1>3. CASE l = m
  <2>1. IsAppend(Todo(m)', Todo(m), f)
    BY <1>1, TodoAppend DEF IInv
  <2>2. QED
    BY <1>3, <2>1, AppendHas DEF Due
<1>4. QED
  BY <1>2, <1>3

(* ... and what running one makes due no more.                             *)
LEMMA DueRun ==
  ASSUME IInv, NEW l \in Loops, Runs(l), NEW op, NEW c
  PROVE  /\ Functor(op, c) # Front(l) => (Due(l, op, c)' <=> Due(l, op, c))
         /\ Functor(op, c) = Front(l) /\ op \in Owning => ~Due(l, op, c)'
         /\ Front(l).op = "connectDestroyed" => ~Due(l, "connectEstablished", Front(l).conn)
<1>1. IsTail(Todo(l)', Todo(l)) /\ Todo(l)[1] = Front(l)
  BY TodoRun DEF Runs, Front, IInv
<1>2. InOrder(Todo(l))
  BY DEF IInv, Queues, LoopOK
<1>3. \A f : f # Front(l) => (Has(Todo(l)', f) <=> Has(Todo(l), f))
  BY <1>1, TailHas
<1>4. \A f : Has(Todo(l)', f) /\ Front(l).op \in Owning /\ f.conn = Front(l).conn
             => /\ f.op # Front(l).op
                /\ ~(Front(l).op = "connectDestroyed" /\ f.op = "connectEstablished")
  BY <1>1, <1>2, TailInOrder
<1>5. Functor(op, c).op = op /\ Functor(op, c).conn = c
  BY FunctorParts
<1>6. Functor(op, c) # Front(l) => (Due(l, op, c)' <=> Due(l, op, c))
  BY <1>3 DEF Due
<1>7. Functor(op, c) = Front(l) /\ op \in Owning => ~Due(l, op, c)'
  BY <1>4, <1>5 DEF Due
<1>8. ASSUME Front(l).op = "connectDestroyed" PROVE ~Due(l, "connectEstablished", Front(l).conn)
  <2> DEFINE f == Functor("connectEstablished", Front(l).conn)
  <2>1. f.op = "connectEstablished" /\ f.conn = Front(l).conn
    BY FunctorParts
  <2>2. ~Has(Todo(l)', f)
    BY <1>4, <1>8, <2>1 DEF Owning
  <2>3. f # Front(l)
    BY <1>8, <2>1
  <2>4. ~Has(Todo(l), f)
    BY <1>3, <2>2, <2>3
  <2>5. QED
    BY <2>4 DEF Due
<1>9. QED
  BY <1>6, <1>7, <1>8

(* A functor of one connection leaves the others alone, and of its own     *)
(* only connectDestroyed can come in addition.                             *)
LEMMA DueWhenRun ==
  ASSUME IInv, NEW l \in Loops, RunFunctor(l), NEW m \in Loops, NEW op, NEW c,
         Functor(op, c) # Front(l),
         pending' = pending \/ Functor(op, c) # Functor("connectDestroyed", Front(l).conn)
  PROVE  Due(m, op, c)' <=> Due(m, op, c)
<1>1. LoopTypes
  BY DEF IInv, TypeOK
<1>2. /\ ran[l] < Len(batch[l]) /\ batch' = batch
      /\ ran'[l] = ran[l] + 1 /\ \A k \in Loops : k # l => ran'[k] = ran[k]
  BY <1>1, RunEffect DEF LoopTypes
<1>3. ASSUME pending'[l] = pending[l], m = l PROVE Due(m, op, c)' <=> Due(m, op, c)
  BY <1>2, <1>3, DueRun DEF Runs
<1>4. ASSUME pending'[m] = pending[m], m # l PROVE Due(m, op, c)' <=> Due(m, op, c)
  BY <1>2, <1>4, TodoSame, DueTodo
<1>5. CASE pending' = pending
  BY <1>3, <1>4, <1>5
<1>6. ASSUME NEW n \in Loops \ {l}, NEW f \in Functors, f = Functor("connectDestroyed", Front(l).conn),
             pending' = Queued(n, f), Functor(op, c) # f
      PROVE  Due(m, op, c)' <=> Due(m, op, c)
  <2>1. /\ pending'[n] = Append(pending[n], f)
        /\ \A k \in Loops : k # n => pending'[k] = pending[k]
    BY <1>1, <1>6, QueuedAt
  <2>2. CASE m # n
    BY <1>3, <1>4, <1>6, <2>1, <2>2
  <2>3. CASE m = n
    <3>1. IsAppend(Todo(m)', Todo(m), f)
      BY <1>2, <1>6, <2>1, <2>3, TodoAppend DEF IInv
    <3>2. QED
      BY <1>6, <3>1, AppendHas DEF Due
  <2>4. QED
    BY <2>2, <2>3
<1>7. CASE pending' # pending
  <2>1. /\ ioLoop[Front(l).conn] \in Loops \ {l}
        /\ Functor("connectDestroyed", Front(l).conn) \in Functors
        /\ pending' = Queued(ioLoop[Front(l).conn], Functor("connectDestroyed", Front(l).conn))
    BY <1>7, RunEffect
  <2>2. QED
    BY <1>6, <1>7, <2>1
<1>8. QED
  BY <1>5, <1>7

(* A connection that has a loop is in one of the phases after a step.      *)
LEMMA LivesOn ==
  ASSUME NEW k, UNCHANGED <<numThreads, nextConn>>, ioLoop'[k] = ioLoop[k],
         k < nextConn, ioLoop[k] \in IOLoops,
         (Made(k) \/ IsUp(k) \/ Closed(k) \/ TornDown(k) \/ Lost(k))'
  PROVE  Life(k)'
<1>1. k < nextConn' /\ ioLoop'[k] \in IOLoops'
  BY DEF IOLoops
<1>2. QED
  BY <1>1, Zenon DEF Life

(* connectEstablished brings the connection up.                            *)
LEMMA EstablishLives ==
  ASSUME IInv, NEW l \in Loops, RunFunctor(l), Front(l).op = "connectEstablished",
         NEW k, k = Front(l).conn
  PROVE  Life(k)'
<1>1. ran[l] < Len(batch[l])
  BY RunEffect
<1>2. k \in Conns /\ l = ioLoop[k] /\ Made(k) /\ Front(l) = Functor("connectEstablished", k)
  BY <1>1, EstablishRuns, FrontDue, FunctorParts
<1>3. /\ \E users \in SUBSET Users, shut \in BOOLEAN : Establish(k, state[k], users, shut)
      /\ UNCHANGED <<connections, ioLoop, pending, server, numThreads, nextConn>>
  BY DEF RunFunctor, Front, Raw
<1>4. /\ k \in Conns /\ l = ioLoop[k] /\ Made(k) /\ ConnTypes
      /\ k < nextConn /\ ioLoop[k] \in IOLoops
  BY <1>2 DEF IInv, TypeOK, Lives, Life, Made, Unborn
<1>5. /\ state'[k] \in {"kConnected", "kDisconnecting"}
      /\ k \in registered' \cap reading'
      /\ ups'[k] = 1 /\ downs'[k] = 0 /\ destroyed'[k] = 0
  BY <1>3, <1>4 DEF Establish, Made, ConnTypes
<1>6. batch' = batch /\ ran' = [ran EXCEPT ![l] = @ + 1]
  BY RunEffect
<1>7. Runs(l)
  BY <1>1, <1>3, <1>6 DEF Runs, IInv, TypeOK, LoopTypes
<1>8. ~Due(l, "connectEstablished", k)'
  BY <1>2, <1>7, DueRun DEF Owning
<1>9. ASSUME NEW m \in Loops, NEW op, op \in {"connectDestroyed", "removeConnectionInLoop"}
      PROVE  Due(m, op, k)' <=> Due(m, op, k)
  <2>1. Functor(op, k) # Front(l)
    BY <1>9, FunctorParts
  <2>2. QED
    BY <1>3, <2>1, DueWhenRun
<1>10. ioLoop'[k] = l
  BY <1>3, <1>4
<1>11. /\ ~EstablishDue(k)' /\ (DestroyDue(k)' <=> DestroyDue(k)) /\ (RemoveDue(k)' <=> RemoveDue(k))
  BY <1>4, <1>8, <1>9, <1>10, LoopOf, DuesAt, DuesAtNext
<1>12. (InMap(k) \/ Left(k))'
  BY <1>3, <1>4, <1>11 DEF Made, InMap, Left
<1>13. IsUp(k)'
  BY <1>4, <1>5, <1>11, <1>12 DEF Made, IsUp
<1>14. QED
  BY <1>3, <1>4, <1>13, LivesOn

(* connectDestroyed tears it down.                                         *)
LEMMA DestroyLives ==
  ASSUME IInv, NEW l \in Loops, RunFunctor(l), Front(l).op = "connectDestroyed",
         NEW k, k = Front(l).conn
  PROVE  Life(k)'
<1>1. ran[l] < Len(batch[l]) /\ batch' = batch /\ ran' = [ran EXCEPT ![l] = @ + 1]
  BY RunEffect
<1>2. /\ \E users \in SUBSET Users : TearDown({k}, users)
      /\ UNCHANGED <<connections, pending, server, numThreads, nextConn>>
  BY DEF RunFunctor, Front, Raw
<1>3. Runs(l)
  BY <1>1, <1>2 DEF Runs, IInv, TypeOK, LoopTypes
<1>4. ~Due(l, "connectEstablished", k)
  BY <1>3, DueRun
<1>5. /\ k \in Conns /\ l = ioLoop[k] /\ k \notin connections
      /\ (IsUp(k) /\ server # "up") \/ Closed(k)
      /\ Front(l) = Functor("connectDestroyed", k)
  BY <1>1, <1>4, DestroyRuns, FrontDue, FunctorParts
<1>6. /\ k \in Conns /\ l = ioLoop[k] /\ ConnTypes /\ k \notin connections
      /\ k < nextConn /\ ioLoop[k] \in IOLoops
      /\ (IsUp(k) /\ server # "up") \/ Closed(k)
  BY <1>5 DEF IInv, TypeOK, Lives, Life, IsUp, Closed, Unborn
<1>7. /\ state'[k] \in {"kDisconnected", "kDisconnecting"}
      /\ k \notin registered' /\ ioLoop' = ioLoop
      /\ ups'[k] = 1 /\ destroyed'[k] = 1
      /\ downs'[k] = 1 \/ (downs'[k] = 0 /\ server # "up")
  <2>1. ups[k] = 1 /\ destroyed[k] = 0
    BY <1>6 DEF IsUp, Closed
  <2>2. ioLoop' = ioLoop /\ ups' = ups /\ k \notin registered' /\ destroyed'[k] = 1
    BY <1>2, <1>6, <2>1 DEF TearDown, Unregister, ConnTypes
  <2>3. /\ state[k] = "kConnected" => state'[k] = "kDisconnected"
        /\ state[k] # "kConnected" => state'[k] = state[k]
        /\ downs'[k] = downs[k] \/ (state[k] = "kConnected" /\ downs'[k] = downs[k] + 1)
    BY <1>2, <1>6 DEF TearDown, StillUp, ConnTypes
  <2>4. state[k] \in {"kConnected", "kDisconnecting", "kDisconnected"}
    BY <1>6 DEF IsUp, Closed
  <2>5. \/ downs[k] = 0 /\ server # "up"
        \/ downs[k] = 1 /\ state[k] # "kConnected"
    BY <1>6 DEF IsUp, Closed
  <2>6. QED
    BY <2>1, <2>2, <2>3, <2>4, <2>5
<1>8. ~Due(l, "connectDestroyed", k)'
  BY <1>3, <1>5, DueRun DEF Owning
<1>9. ASSUME NEW m \in Loops, NEW op, op \in {"connectEstablished", "removeConnectionInLoop"}
      PROVE  Due(m, op, k)' <=> Due(m, op, k)
  <2>1. Functor(op, k) # Front(l)
    BY <1>9, FunctorParts
  <2>2. QED
    BY <1>2, <2>1, DueWhenRun
<1>10. /\ ~EstablishDue(k)' /\ ~DestroyDue(k)' /\ (RemoveDue(k)' <=> RemoveDue(k))
  <2>1. ~EstablishDue(k)
    BY <1>6 DEF IsUp, Closed
  <2>2. ioLoop'[k] = l
    BY <1>6, <1>7
  <2>3. QED
    BY <1>6, <1>8, <1>9, <2>1, <2>2, LoopOf, DuesAt, DuesAtNext
<1>11. RemoveDue(k) => server # "up"
  BY <1>6 DEF IsUp, Closed, InMap
<1>12. TornDown(k)'
  BY <1>2, <1>6, <1>7, <1>10, <1>11 DEF TornDown
<1>13. QED
  BY <1>2, <1>6, <1>7, <1>12, LivesOn

(* removeConnectionInLoop takes it out of the map, and has it torn down.   *)
LEMMA RemoveLives ==
  ASSUME IInv, NEW l \in Loops, RunFunctor(l), Front(l).op = "removeConnectionInLoop",
         NEW k, k = Front(l).conn
  PROVE  Life(k)'
<1>1. LoopRuns(l) /\ ran[l] < Len(batch[l]) /\ batch' = batch /\ ran' = [ran EXCEPT ![l] = @ + 1]
  BY RunEffect
<1>2. /\ Remove(k)
      /\ UNCHANGED <<connVars, server, numThreads, nextConn>>
  BY DEF RunFunctor, Front, Raw
<1>3. /\ k \in Conns /\ l = Base /\ ioLoop[k] # Base
      /\ server # "destroyed" => server = "up" /\ Closed(k) /\ InMap(k)
      /\ server = "destroyed" => TornDown(k) \/ Lost(k)
      /\ Front(l) = Functor("removeConnectionInLoop", k)
  BY <1>1, RemoveRuns, FrontDue, FunctorParts
<1>4. pending'[l] = pending[l]
  <2>1. CASE pending' = pending
    BY <2>1
  <2>2. CASE pending' # pending
    <3>1. /\ ioLoop[k] \in Loops \ {l} /\ Functor("connectDestroyed", k) \in Functors
          /\ pending' = Queued(ioLoop[k], Functor("connectDestroyed", k))
      BY <2>2, RunEffect
    <3>2. QED
      BY <3>1, QueuedAt DEF IInv, TypeOK
  <2>3. QED
    BY <2>1, <2>2
<1>5. Runs(l)
  BY <1>1, <1>4 DEF Runs, IInv, TypeOK, LoopTypes
<1>6. /\ k \in Conns /\ l = Base /\ ioLoop[k] # Base /\ ConnTypes
      /\ k < nextConn /\ ioLoop[k] \in IOLoops
  BY <1>3 DEF IInv, TypeOK, Lives, Life, Closed, TornDown, Lost, Unborn, Gone
<1>7. ~Due(Base, "removeConnectionInLoop", k)'
  BY <1>3, <1>5, DueRun DEF Owning
<1>8. PICK m \in Loops : ioLoop[k] = m
  BY <1>6, LoopOf
<1>9. /\ state'[k] = state[k] /\ ioLoop'[k] = ioLoop[k]
      /\ registered' = registered /\ reading' = reading
      /\ ups'[k] = ups[k] /\ downs'[k] = downs[k] /\ destroyed'[k] = destroyed[k]
  BY <1>2, Zenon DEF connVars
<1>10. ASSUME NEW op \in Owning, op # "removeConnectionInLoop", op # "connectDestroyed" \/ pending' = pending
      PROVE  Due(m, op, k)' <=> Due(m, op, k)
  <2>1. Functor(op, k) # Front(l) /\ (op # "connectDestroyed" => Functor(op, k) # Functor("connectDestroyed", k))
    BY <1>3, <1>10, FunctorParts
  <2>2. QED
    BY <1>10, <2>1, DueWhenRun
<1>11. /\ ~RemoveDue(k)' /\ (EstablishDue(k)' <=> EstablishDue(k))
       /\ pending' = pending => (DestroyDue(k)' <=> DestroyDue(k))
  BY <1>6, <1>7, <1>8, <1>9, <1>10, DuesAt, DuesAtNext DEF Owning
<1>12. CASE server = "destroyed"
  <2>1. pending' = pending
    BY <1>2, <1>12 DEF Remove
  <2>2. connections' = connections
    BY <1>2, <1>12 DEF Remove
  <2>3. TornDown(k) => TornDown(k)'
    BY <1>2, <1>9, <1>11, <2>1, <2>2 DEF TornDown
  <2>4. Lost(k) => Lost(k)'
    BY <1>2, <1>9, <2>2 DEF Lost, Gone
  <2>5. TornDown(k) \/ Lost(k)
    BY <1>3, <1>12
  <2>6. QED
    BY <1>2, <1>6, <1>9, <2>3, <2>4, <2>5, LivesOn
<1>13. CASE server # "destroyed"
  <2>1. /\ Closed(k) /\ k \notin connections'
        /\ pending' = Queued(m, Functor("connectDestroyed", k))
        /\ Functor("connectDestroyed", k) \in Functors
    BY <1>2, <1>3, <1>6, <1>8, <1>13, FunctorOf DEF Remove, QueueDestroyed, Owning
  <2>2. Due(m, "connectDestroyed", k)'
    <3>1. pending'[m] = Append(pending[m], Functor("connectDestroyed", k))
      BY <2>1, QueuedAt DEF IInv, TypeOK
    <3>2. batch'[m] = batch[m] /\ ran'[m] = ran[m]
      BY <1>1, <1>6, <1>8 DEF IInv, TypeOK, LoopTypes
    <3>3. IsAppend(Todo(m)', Todo(m), Functor("connectDestroyed", k))
      BY <2>1, <3>1, <3>2, TodoAppend DEF IInv
    <3>4. QED
      BY <3>3, AppendHas DEF Due
  <2>3. DestroyDue(k)'
    BY <1>6, <1>8, <1>9, <2>2, DuesAtNext
  <2>4. Closed(k)'
    BY <1>9, <1>11, <2>1, <2>3 DEF Closed
  <2>5. QED
    BY <1>2, <1>6, <1>9, <2>4, LivesOn
<1>14. QED
  BY <1>12, <1>13

(* Other connections than the functor's are left alone.                    *)
LEMMA OthersLive ==
  ASSUME IInv, NEW l \in Loops, RunFunctor(l), NEW k \in Conns,
         k # Front(l).conn \/ Front(l).op \notin Owning
  PROVE  Life(k)'
<1>1. ConnTypes /\ UNCHANGED <<server, numThreads, nextConn>>
  BY DEF IInv, TypeOK, RunFunctor
<1>2. SameConn(k)
  <2>1. CASE Front(l).op = "connectEstablished"
    <3>1. /\ \E users \in SUBSET Users, shut \in BOOLEAN :
                Establish(Front(l).conn, state[Front(l).conn], users, shut)
          /\ UNCHANGED <<connections, ioLoop>> /\ k # Front(l).conn
      BY <2>1 DEF RunFunctor, Front, Raw, Owning
    <3>2. QED
      BY <1>1, <3>1 DEF SameConn, Establish, ConnTypes
  <2>2. CASE Front(l).op = "connectDestroyed"
    <3>1. /\ \E users \in SUBSET Users : TearDown({Front(l).conn}, users)
          /\ UNCHANGED connections /\ k # Front(l).conn
      BY <2>2 DEF RunFunctor, Front, Raw, Owning
    <3>2. QED
      BY <1>1, <3>1 DEF SameConn, TearDown, StillUp, Unregister, ConnTypes
  <2>3. CASE Front(l).op = "removeConnectionInLoop"
    <3>1. Remove(Front(l).conn) /\ UNCHANGED connVars /\ k # Front(l).conn
      BY <2>3 DEF RunFunctor, Front, Raw, Owning
    <3>2. k \in connections' <=> k \in connections
      BY <3>1 DEF Remove
    <3>3. QED
      BY <3>1, <3>2, Zenon DEF SameConn, connVars
  <2>4. CASE Front(l).op \notin Owning
    <3>1. UNCHANGED <<connections, ioLoop, state, registered, reading, ups, downs, destroyed>>
      BY <2>4 DEF RunFunctor, Front, Raw, Owning, connVars
    <3>2. QED
      BY <3>1 DEF SameConn
  <2>5. QED
    BY <2>1, <2>2, <2>3, <2>4 DEF Owning
<1>3. ASSUME NEW m \in Loops, NEW op \in Owning PROVE Due(m, op, k)' <=> Due(m, op, k)
  <2>1. Functor(op, k) # Front(l)
    BY FunctorParts
  <2>2. CASE pending' = pending
    BY <2>1, <2>2, DueWhenRun
  <2>3. CASE pending' # pending
    <3>1. k # Front(l).conn
      BY <2>3, RunEffect DEF Owning
    <3>2. Functor(op, k) # Functor("connectDestroyed", Front(l).conn)
      BY <3>1, FunctorParts
    <3>3. QED
      BY <2>1, <3>2, DueWhenRun
  <2>4. QED
    BY <2>2, <2>3
<1>4. SameDues(k)
  BY <1>2, <1>3, DuesSame DEF SameConn
<1>5. QED
  BY <1>1, <1>2, <1>4, LifeSame

(* A connection comes into the map, and is up at once if it has the base   *)
(* loop.                                                                   *)
LEMMA NewLives ==
  ASSUME IInv, NewConnection, NEW k \in Conns
  PROVE  Life(k)'
<1>1. /\ UNCHANGED <<server, numThreads, batch, ran>>
      /\ nextConn' = nextConn + 1 /\ connections' = connections \cup {nextConn}
      /\ ioLoop' = [ioLoop EXCEPT ![nextConn] = GetNextLoop]
      /\ \/ /\ GetNextLoop = Base /\ pending' = pending
            /\ \E users \in SUBSET Users, shut \in BOOLEAN :
                  Establish(nextConn, Constructed(nextConn)[nextConn], users, shut)
         \/ /\ GetNextLoop # Base
            /\ state' = Constructed(nextConn)
            /\ pending' = Queued(GetNextLoop, Functor("connectEstablished", nextConn))
            /\ UNCHANGED <<registered, reading, finSent, ups, downs, destroyed>>
  BY DEF NewConnection
<1>2. /\ nextConn \in Conns /\ Unborn(nextConn) /\ server = "up"
      /\ GetNextLoop \in Loops /\ GetNextLoop \in IOLoops /\ ConnTypes /\ nextConn \in Nat
  BY NewIsFree DEF IInv, TypeOK, ServerTypes
<1>3. \A l \in Loops : \A op \in Owning : ~Due(l, op, nextConn)
  <2>1. ASSUME NEW l \in Loops, NEW op \in Owning PROVE ~Due(l, op, nextConn)
    <3>1. /\ Functor(op, nextConn) \in Functors
          /\ Functor(op, nextConn).op # "listen" /\ Functor(op, nextConn).conn = nextConn
      BY <1>2, FunctorOf, FunctorParts DEF Owning
    <3>2. ~Placed(l, Functor(op, nextConn))
      BY <1>2, <3>1 DEF Placed
    <3>3. QED
      BY <3>1, <3>2 DEF Due, IInv, Queues, LoopOK
  <2>2. QED
    BY <2>1
<1>4. ASSUME NEW l \in Loops, NEW op \in Owning, NEW c \in Conns, 
             op # "connectEstablished" \/ c # nextConn \/ pending' = pending
      PROVE  Due(l, op, c)' <=> Due(l, op, c)
  <2>1. CASE pending' = pending
    BY <1>1, <2>1, TodoSame, DueTodo
  <2>2. ASSUME NEW m \in Loops, NEW f \in Functors, f = Functor("connectEstablished", nextConn),
               pending' = Queued(m, f), op # "connectEstablished" \/ c # nextConn
        PROVE  Due(l, op, c)' <=> Due(l, op, c)
    <3>1. Functor(op, c) # f
      BY <2>2, FunctorParts
    <3>2. QED
      BY <1>1, <2>2, <3>1, DueQueued
  <2>3. Functor("connectEstablished", nextConn) \in Functors
    BY <1>2, FunctorOf DEF Owning
  <2>4. QED
    BY <1>1, <1>2, <1>4, <2>1, <2>2, <2>3
<1>5. CASE k # nextConn
  <2>1. ioLoop'[k] = ioLoop[k] /\ (k \in connections' <=> k \in connections)
    BY <1>1, <1>2, <1>5 DEF ConnTypes
  <2>2. /\ state'[k] = state[k]
        /\ k \in registered' <=> k \in registered
        /\ k \in reading' <=> k \in reading
        /\ ups'[k] = ups[k] /\ downs'[k] = downs[k] /\ destroyed'[k] = destroyed[k]
    BY <1>1, <1>2, <1>5 DEF Establish, Constructed, ConnTypes
  <2>3. SameConn(k)
    BY <2>1, <2>2 DEF SameConn
  <2>4. SameDues(k)
    BY <1>4, <1>5, <2>1, DuesSame
  <2>5. QED
    BY <1>1, <1>5, <2>3, <2>4, LifeSame
<1>6. ASSUME k = nextConn, NEW m \in Loops, m = GetNextLoop PROVE Life(k)'
  <2>1. /\ ioLoop'[k] = m /\ k < nextConn' /\ m \in IOLoops' /\ k \in connections'
        /\ k \notin registered \cup reading
        /\ ups[k] = 0 /\ downs[k] = 0 /\ destroyed[k] = 0
    BY <1>1, <1>2, <1>6 DEF ConnTypes, IOLoops, Unborn
  <2>2. ~DestroyDue(k)' /\ ~RemoveDue(k)' /\ (EstablishDue(k)' <=> Due(m, "connectEstablished", k)')
    <3>1. ~Due(m, "connectDestroyed", k)' /\ ~Due(Base, "removeConnectionInLoop", k)'
      BY <1>3, <1>4, <1>6, LoopOf DEF Owning
    <3>2. QED
      BY <1>6, <2>1, <3>1, DuesAtNext
  <2>3. InMap(k)'
    BY <2>1, <2>2 DEF InMap
  <2>4. CASE m = Base
    <3>1. \E users \in SUBSET Users, shut \in BOOLEAN : Establish(k, Constructed(k)[k], users, shut)
      BY <1>1, <1>6, <2>4
    <3>2. /\ state'[k] \in {"kConnected", "kDisconnecting"} /\ k \in registered' \cap reading'
          /\ ups'[k] = 1 /\ downs'[k] = 0 /\ destroyed'[k] = 0
      BY <1>2, <2>1, <3>1 DEF Establish, ConnTypes
    <3>3. ~EstablishDue(k)'
      BY <1>1, <1>3, <1>4, <1>6, <2>2, <2>4 DEF Owning
    <3>4. IsUp(k)'
      BY <2>2, <2>3, <3>2, <3>3 DEF IsUp
    <3>5. QED
      BY <2>1, <3>4 DEF Life
  <2>5. CASE m # Base
    <3>1. /\ state'[k] = "kConnecting"
          /\ pending' = Queued(m, Functor("connectEstablished", k))
          /\ UNCHANGED <<registered, reading, ups, downs, destroyed>>
      BY <1>1, <1>2, <1>6, <2>5 DEF Constructed, ConnTypes
    <3>2. EstablishDue(k)'
      BY <1>1, <1>6, <2>2, <3>1, DueQueued, FunctorOf DEF Owning
    <3>3. Made(k)'
      BY <2>1, <2>2, <2>3, <3>1, <3>2 DEF Made
    <3>4. QED
      BY <2>1, <3>3 DEF Life
  <2>6. QED
    BY <2>4, <2>5
<1>7. QED
  BY <1>2, <1>5, <1>6

(* handleClose tells the user, and has the connection taken out of the map.*)
LEMMA CloseLives ==
  ASSUME IInv, NEW c \in Conns, HandleClose(c), NEW k \in Conns
  PROVE  Life(k)'
<1>1. /\ c \in reading \cap registered /\ batch' = batch /\ ran' = ran
      /\ \/ /\ ioLoop[c] = Base
            /\ connections' = connections \ {c}
            /\ Functor("connectDestroyed", c) \in Functors
            /\ pending' = Queued(ioLoop[c], Functor("connectDestroyed", c))
         \/ /\ ioLoop[c] # Base /\ UNCHANGED connections
            /\ Functor("removeConnectionInLoop", c) \in Functors
            /\ pending' = Queued(Base, Functor("removeConnectionInLoop", c))
  BY CloseEffect
<1>2. /\ IsUp(c) /\ c < nextConn /\ ioLoop[c] \in IOLoops /\ ConnTypes
      /\ ioLoop[c] = Base => server = "up" /\ InMap(c)
  BY <1>1, Handled DEF IInv, TypeOK
<1>3. /\ UNCHANGED <<server, numThreads, nextConn, ioLoop, registered, ups, destroyed>>
      /\ state' = [state EXCEPT ![c] = "kDisconnected"]
      /\ reading' = reading \ {c}
      /\ downs' = [downs EXCEPT ![c] = @ + 1]
  BY DEF HandleClose, DisableAll, serverVars
<1>4. PICK m \in Loops : ioLoop[c] = m
  BY LoopOf
<1>5. Base \in Loops
  BY LoopOf
<1>6. ASSUME NEW l \in Loops, NEW op \in Owning, NEW b \in Conns,
             b # c \/ op = "connectEstablished"
                   \/ (op = "connectDestroyed" /\ m # Base)
                   \/ (op = "removeConnectionInLoop" /\ m = Base)
      PROVE  Due(l, op, b)' <=> Due(l, op, b)
  <2>1. CASE m = Base
    <3>1. Functor(op, b) # Functor("connectDestroyed", c)
      BY <1>6, <2>1, FunctorParts
    <3>2. QED
      BY <1>1, <1>4, <1>5, <2>1, <3>1, DueQueued
  <2>2. CASE m # Base
    <3>1. Functor(op, b) # Functor("removeConnectionInLoop", c)
      BY <1>6, <2>2, FunctorParts
    <3>2. QED
      BY <1>1, <1>4, <1>5, <2>2, <3>1, DueQueued
  <2>3. QED
    BY <2>1, <2>2
<1>7. CASE k # c
  <2>1. SameConn(k)
    BY <1>1, <1>2, <1>3, <1>7 DEF SameConn, ConnTypes
  <2>2. SameDues(k)
    BY <1>3, <1>6, <1>7, DuesSame
  <2>3. QED
    BY <1>3, <2>1, <2>2, LifeSame
<1>8. CASE k = c
  <2>1. /\ state'[c] = "kDisconnected" /\ c \in registered' /\ c \notin reading'
        /\ ups'[c] = 1 /\ downs'[c] = 1 /\ destroyed'[c] = 0 /\ ioLoop'[c] = m
    BY <1>2, <1>3, <1>4 DEF IsUp, ConnTypes
  <2>2. ~EstablishDue(c)'
    BY <1>2, <1>4, <1>6, <2>1, DuesAt, DuesAtNext DEF IsUp, Owning
  <2>3. CASE m = Base
    <3>1. c \notin connections'
      BY <1>1, <1>4, <2>3
    <3>2. ~RemoveDue(c)'
      BY <1>2, <1>4, <1>5, <1>6, <2>1, <2>3, DuesAt, DuesAtNext DEF IsUp, Owning
    <3>3. DestroyDue(c)'
      BY <1>1, <1>4, <2>1, <2>3, DueQueued, DuesAtNext
    <3>4. Closed(c)'
      BY <2>1, <2>2, <3>1, <3>2, <3>3 DEF Closed
    <3>5. QED
      BY <1>2, <1>3, <1>8, <3>4, LivesOn
  <2>4. CASE m # Base
    <3>1. UNCHANGED connections
      BY <1>1, <1>4, <2>4
    <3>2. RemoveDue(c)'
      BY <1>1, <1>4, <1>5, <2>1, <2>4, DueQueued, DuesAtNext
    <3>3. DestroyDue(c)' <=> DestroyDue(c)
      BY <1>4, <1>6, <2>1, <2>4, DuesAt, DuesAtNext DEF Owning
    <3>4. InMap(c) \/ Left(c)
      BY <1>2 DEF IsUp
    <3>5. InMap(c)' \/ (c \notin connections /\ DestroyDue(c)' /\ server # "up")
      BY <3>1, <3>3, <3>4 DEF InMap, Left
    <3>6. Closed(c)'
      BY <1>3, <2>1, <2>2, <3>1, <3>2, <3>5 DEF Closed
    <3>7. QED
      BY <1>2, <1>3, <1>8, <3>6, LivesOn
  <2>5. QED
    BY <2>3, <2>4
<1>9. QED
  BY <1>7, <1>8

(* ~TcpServer tears down the connections of the base loop, and has the     *)
(* others torn down in theirs.                                             *)
LEMMA EndLives ==
  ASSUME IInv, DestroyServer, NEW k \in Conns
  PROVE  Life(k)'
<1> DEFINE here == {c \in connections : ioLoop[c] = Base}
<1>1. /\ server = "up" /\ server' = "closing" /\ connections' = {}
      /\ batch' = batch /\ ran' = ran
  BY DestroyEffect
<1>2. PICK left \in [Loops -> Seq(Functors)] :
        /\ pending' = [l \in Loops |-> pending[l] \o left[l]]
        /\ \A l \in Loops :
             \A f : Has(left[l], f) <=>
                f.conn \in Leaving(l) /\ f = Functor("connectDestroyed", f.conn)
  BY DestroyEffect
<1>3. /\ \E users \in SUBSET Users : TearDown(here, users)
      /\ UNCHANGED <<nextConn, numThreads, ioLoop>> /\ ConnTypes /\ Life(k)
      /\ connections \subseteq Conns
  BY DEF DestroyServer, TearDown, IInv, TypeOK, ServerTypes, Lives
<1>4. PICK m \in Loops : ioLoop[k] = m
  BY LoopOf
<1>5. Base \in Loops /\ ioLoop'[k] = m
  BY <1>3, <1>4, LoopOf
<1>6. ASSUME NEW l \in Loops, NEW op
      PROVE  Due(l, op, k)' <=> Due(l, op, k) \/ (op = "connectDestroyed" /\ k \in Leaving(l))
  <2>1. /\ left[l] \in Seq(Functors) /\ pending'[l] = pending[l] \o left[l]
        /\ batch'[l] = batch[l] /\ ran'[l] = ran[l]
    BY <1>1, <1>2
  <2>2. Todo(l)' = Todo(l) \o left[l] /\ Todo(l) \in Seq(Functors)
    BY <2>1, TodoConcat, TodoType DEF IInv
  <2>3. Has(Todo(l)', Functor(op, k)) <=> Has(Todo(l), Functor(op, k)) \/ Has(left[l], Functor(op, k))
    BY <2>1, <2>2, ConcatHas
  <2>4. Functor(op, k).conn = k /\ (Functor(op, k) = Functor("connectDestroyed", k) <=> op = "connectDestroyed")
    BY FunctorParts
  <2>5. Has(left[l], Functor(op, k)) <=> op = "connectDestroyed" /\ k \in Leaving(l)
    BY <1>2, <2>4
  <2>6. QED
    BY <2>3, <2>5 DEF Due
<1>7. k \in Leaving(m) <=> k \in connections /\ m # Base
  BY <1>4 DEF Leaving
<1>8. /\ EstablishDue(k)' <=> EstablishDue(k)
      /\ RemoveDue(k)' <=> RemoveDue(k)
      /\ DestroyDue(k)' <=> DestroyDue(k) \/ (k \in connections /\ m # Base)
  BY <1>4, <1>5, <1>6, <1>7, DuesAt, DuesAtNext
<1>9. ASSUME k \notin here
      PROVE  /\ state'[k] = state[k] /\ ioLoop'[k] = ioLoop[k]
             /\ k \in registered' <=> k \in registered
             /\ k \in reading' <=> k \in reading
             /\ ups'[k] = ups[k] /\ downs'[k] = downs[k] /\ destroyed'[k] = destroyed[k]
  BY <1>3, <1>9 DEF TearDown, StillUp, Unregister, ConnTypes
<1>10. CASE Unborn(k)
  <2>1. Unborn(k)'
    BY <1>1, <1>3, <1>9, <1>10 DEF Unborn
  <2>2. QED
    BY <2>1 DEF Life
<1>11. ASSUME ~Unborn(k) PROVE k < nextConn /\ ioLoop[k] \in IOLoops
  BY <1>3, <1>11 DEF Life
<1>12. CASE k \in here
  <2>1. k \in connections /\ m = Base
    BY <1>4, <1>12
  <2>2. ~EstablishDue(k) /\ ~RemoveDue(k)
    <3>1. ASSUME NEW op \in {"connectEstablished", "removeConnectionInLoop"}
          PROVE  ~Due(Base, op, k)
      <4>1. Functor(op, k) \in Functors /\ Functor(op, k).op = op /\ Functor(op, k).conn = k
        BY FunctorOf, FunctorParts DEF Owning
      <4>2. ~Placed(Base, Functor(op, k))
        BY <1>4, <2>1, <4>1 DEF Placed
      <4>3. QED
        BY <1>5, <4>1, <4>2 DEF Due, IInv, Queues, LoopOK
    <3>2. QED
      BY <1>4, <2>1, <3>1, DuesAt
  <2>3. IsUp(k) /\ InMap(k)
    BY <1>1, <1>3, <2>1, <2>2 DEF Life, Unborn, Made, IsUp, Closed, TornDown, Lost, Left
  <2>4. /\ ~EstablishDue(k)' /\ ~RemoveDue(k)' /\ ~DestroyDue(k)'
    BY <1>8, <2>1, <2>2, <2>3 DEF InMap
  <2>5. /\ state'[k] \in {"kDisconnected", "kDisconnecting"}
        /\ k \notin registered' /\ ups'[k] = 1 /\ destroyed'[k] = 1
        /\ downs'[k] = 1 \/ downs'[k] = 0
    BY <1>3, <1>12, <2>3 DEF TearDown, StillUp, Unregister, IsUp, ConnTypes
  <2>6. TornDown(k)'
    BY <1>1, <2>4, <2>5 DEF TornDown
  <2>7. QED
    BY <1>3, <1>11, <2>3, <2>6, LivesOn DEF IsUp, Unborn
<1>13. CASE k \notin here /\ k \in connections
  <2>1. m # Base /\ DestroyDue(k)' /\ k \notin connections'
    BY <1>1, <1>4, <1>8, <1>13
  <2>2. InMap(k) /\ (Made(k) \/ IsUp(k) \/ (Closed(k) /\ RemoveDue(k)))
    BY <1>3, <1>13 DEF Life, Unborn, Made, IsUp, Closed, TornDown, Lost, Left
  <2>3. Left(k)'
    BY <1>1, <1>5, <2>1 DEF Left
  <2>4. Made(k) => Made(k)'
    BY <1>8, <1>9, <1>13, <2>3 DEF Made
  <2>5. IsUp(k) => IsUp(k)'
    BY <1>8, <1>9, <1>13, <2>3 DEF IsUp
  <2>6. Closed(k) => Closed(k)'
    BY <1>1, <1>8, <1>9, <1>13, <2>1 DEF Closed
  <2>7. ~Unborn(k)
    BY <1>13 DEF Unborn
  <2>8. QED
    BY <1>3, <1>11, <2>2, <2>4, <2>5, <2>6, <2>7, LivesOn
<1>14. CASE k \notin connections /\ ~Unborn(k)
  <2>1. k \notin here /\ k \notin connections'
    BY <1>1, <1>14
  <2>2. Closed(k) \/ TornDown(k)
    BY <1>1, <1>3, <1>14 DEF Life, Made, IsUp, InMap, Left, Lost, Gone
  <2>3. Closed(k) => Closed(k)'
    BY <1>1, <1>8, <1>9, <1>14, <2>1 DEF Closed, InMap
  <2>4. TornDown(k) => TornDown(k)'
    BY <1>1, <1>8, <1>9, <1>14, <2>1 DEF TornDown
  <2>5. QED
    BY <1>3, <1>11, <1>14, <2>2, <2>3, <2>4, LivesOn
<1>15. QED
  BY <1>10, <1>12, <1>13, <1>14

(* Then the IO loops go, with what is queued in them.                      *)
LEMMA GoneLives ==
  ASSUME IInv, ServerDestroyed, NEW k \in Conns
  PROVE  Life(k)'
<1>1. /\ server = "closing" /\ server' = "destroyed" /\ connections = {}
      /\ UNCHANGED <<nextConn, ioLoop, numThreads, connections, batch, ran, state, ups, downs, destroyed>>
      /\ \A l \in IOLoops \ {Base} : batch[l] = << >>
      /\ pending' = [l \in Loops |-> IF l = Base THEN pending[l] ELSE << >>]
      /\ registered' = {c \in registered : ioLoop[c] = Base}
      /\ reading' = {c \in reading : ioLoop[c] = Base}
  BY DEF ServerDestroyed, IInv, ServerInv
<1>2. Base \in Loops /\ Life(k)
  BY LoopOf DEF IInv, Lives
<1>3. PICK m \in Loops : ioLoop[k] = m
  BY LoopOf
<1>4. ioLoop'[k] = m
  BY <1>1, <1>3
<1>5. \A op : Due(Base, op, k)' <=> Due(Base, op, k)
  BY <1>1, <1>2, TodoSame, DueTodo
<1>6. ASSUME m # Base, NEW op PROVE ~Due(m, op, k)'
  <2>1. batch[m] = << >> /\ batch'[m] = << >> /\ pending'[m] = << >> /\ ran[m] \in Nat
    BY <1>1, <1>6 DEF IInv, TypeOK, LoopTypes, Queues, LoopOK
  <2>2. Todo(m)' = SubSeq(<< >>, ran[m] + 1, Len(<< >>)) \o << >>
    BY <1>1, <2>1, Zenon DEF Todo
  <2>3. << >> \in Seq(Functors)
    OBVIOUS
  <2>4. Todo(m)' = << >>
    BY <2>1, <2>2, <2>3, NoRest
  <2>5. QED
    BY <2>4 DEF Due, Has
<1>7. RemoveDue(k)' <=> RemoveDue(k)
  BY <1>2, <1>3, <1>4, <1>5, DuesAt, DuesAtNext
<1>8. CASE Unborn(k)
  <2>1. Unborn(k)'
    BY <1>1, <1>8 DEF Unborn
  <2>2. QED
    BY <2>1 DEF Life
<1>9. CASE TornDown(k)
  <2>1. ~EstablishDue(k)' /\ ~DestroyDue(k)'
    <3>1. CASE m = Base
      BY <1>2, <1>3, <1>4, <1>5, <1>9, <3>1, DuesAt, DuesAtNext DEF TornDown
    <3>2. CASE m # Base
      BY <1>4, <1>6, <3>2, DuesAtNext
    <3>3. QED
      BY <3>1, <3>2
  <2>2. TornDown(k)'
    BY <1>1, <1>9, <2>1 DEF TornDown
  <2>3. ~Unborn(k)
    BY <1>9 DEF TornDown, Unborn
  <2>4. QED
    BY <1>1, <1>2, <2>2, <2>3, LivesOn DEF Life
<1>10. CASE m = Base /\ ~Unborn(k) /\ ~TornDown(k)
  <2>1. Closed(k)
    <3>1. Made(k) => Left(k)
      BY <1>1 DEF Made, InMap
    <3>2. IsUp(k) => Left(k)
      BY <1>1 DEF IsUp, InMap
    <3>3. ~Left(k) /\ ~Lost(k)
      BY <1>3, <1>10 DEF Left, Lost, Gone
    <3>4. QED
      BY <1>2, <1>10, <3>1, <3>2, <3>3 DEF Life
  <2>2. /\ EstablishDue(k)' <=> EstablishDue(k)
        /\ DestroyDue(k)' <=> DestroyDue(k)
    BY <1>2, <1>3, <1>4, <1>5, <1>10, DuesAt, DuesAtNext
  <2>3. k \in registered => k \in registered'
    BY <1>1, <1>3, <1>10
  <2>4. k \notin reading => k \notin reading'
    BY <1>1
  <2>5. Closed(k)'
    BY <1>1, <1>7, <2>1, <2>2, <2>3, <2>4 DEF Closed, InMap
  <2>6. QED
    BY <1>1, <1>2, <1>10, <2>5, LivesOn DEF Life
<1>11. CASE m # Base /\ ~Unborn(k) /\ ~TornDown(k)
  <2>1. Made(k) \/ IsUp(k) \/ Closed(k)
    BY <1>1, <1>2, <1>11 DEF Life, Lost, Gone
  <2>2. state[k] # "none" /\ ups[k] <= 1 /\ downs[k] <= ups[k] /\ destroyed[k] = 0
    BY <2>1 DEF Made, IsUp, Closed
  <2>3. Gone(ioLoop[k])' /\ k \notin registered' /\ k \notin connections'
    BY <1>1, <1>3, <1>4, <1>11 DEF Gone
  <2>4. Lost(k)'
    BY <1>1, <2>2, <2>3 DEF Lost
  <2>5. QED
    BY <1>1, <1>2, <1>11, <2>4, LivesOn DEF Life
<1>12. QED
  BY <1>8, <1>9, <1>10, <1>11

(* Every connection leads the life laid down for it.                       *)
LEMMA LivesStep ==
  ASSUME IInv, [Next]_vars PROVE Lives'
<1> SUFFICES ASSUME NEW k \in Conns PROVE Life(k)'
  BY DEF Lives
<1>1. ConnTypes /\ ServerTypes /\ Base \in Loops
  BY LoopOf DEF IInv, TypeOK
<1>2. ASSUME UNCHANGED <<server, numThreads, nextConn, connections, connVars>>,
             \A l \in Loops : Todo(l)' = Todo(l)
      PROVE  Life(k)'
  <2>1. SameConn(k) /\ ioLoop'[k] = ioLoop[k]
    BY <1>2, Zenon DEF SameConn, connVars
  <2>2. SameDues(k)
    BY <1>2, <2>1, DueTodo, DuesSame
  <2>3. QED
    BY <1>2, <2>1, <2>2, LifeSame
<1>3. ASSUME UNCHANGED loopVars PROVE \A l \in Loops : Todo(l)' = Todo(l)
  BY <1>3, TodoSame DEF loopVars
<1>4. CASE Quiet
  <2>1. UNCHANGED <<server, numThreads, nextConn, connections, connVars>> /\ UNCHANGED loopVars
    BY <1>4, Zenon DEF Quiet
  <2>2. QED
    BY <1>2, <1>3, <2>1
<1>5. CASE ListenQueued
  <2>1. /\ UNCHANGED <<server, numThreads, nextConn, connections, connVars, batch, ran>>
        /\ pending' = Queued(Base, Functor("listen", 0))
    BY <1>5, Zenon DEF ListenQueued
  <2>2. SameConn(k) /\ ioLoop'[k] = ioLoop[k]
    BY <2>1, Zenon DEF SameConn, connVars
  <2>3. Functor("listen", 0) \in Functors
    BY DEF Functors
  <2>4. ASSUME NEW l \in Loops, NEW op \in Owning PROVE Due(l, op, k)' <=> Due(l, op, k)
    <3>1. Functor(op, k) # Functor("listen", 0)
      BY FunctorParts DEF Owning
    <3>2. QED
      BY <1>1, <2>1, <2>3, <3>1, DueQueued
  <2>5. QED
    BY <2>1, <2>2, <2>4, DuesSame, LifeSame
<1>6. ASSUME NEW n \in 0..MaxThreads, SetThreadNum(n) PROVE Life(k)'
  <2>1. UNCHANGED <<nextConn, connections, connVars>> /\ ~started
    BY <1>6, Zenon DEF SetThreadNum
  <2>2. Unborn(k)
    BY <2>1, NotStarted
  <2>3. Unborn(k)'
    BY <2>1, <2>2 DEF Unborn, connVars
  <2>4. QED
    BY <2>3 DEF Life
<1>7. ASSUME NEW c \in Conns, HandleMessage(c) PROVE Life(k)'
  <2>1. /\ UNCHANGED <<server, numThreads, nextConn, connections, ioLoop, registered, reading, ups, downs,
                       destroyed>> /\ UNCHANGED loopVars
        /\ c \in reading \cap registered
        /\ state' = state \/ state' = [state EXCEPT ![c] = "kDisconnecting"]
    BY <1>7 DEF HandleMessage, MayHandle, serverVars
  <2>2. \A l \in Loops : Todo(l)' = Todo(l)
    BY <1>3, <2>1
  <2>3. SameDues(k)
    BY <2>1, <2>2, DueTodo, DuesSame
  <2>4. CASE state'[k] = state[k]
    <3>1. SameConn(k)
      BY <2>1, <2>4 DEF SameConn
    <3>2. QED
      BY <2>1, <2>3, <3>1, LifeSame
  <2>5. CASE state'[k] # state[k]
    <3>1. k = c /\ state'[c] = "kDisconnecting"
      BY <1>1, <2>1, <2>5 DEF ConnTypes
    <3>2. IsUp(k) /\ k < nextConn /\ ioLoop[k] \in IOLoops
      BY <2>1, <3>1, Handled
    <3>3. InMap(k)' \/ Left(k)'
      BY <2>1, <2>3, <3>2 DEF IsUp, InMap, Left, SameDues
    <3>4. IsUp(k)'
      BY <2>1, <2>3, <3>1, <3>2, <3>3 DEF IsUp, SameDues
    <3>5. QED
      BY <2>1, <3>2, <3>4, LivesOn
  <2>6. QED
    BY <2>4, <2>5
<1>8. ASSUME NEW l \in Loops, TakeBatch(l) \/ EndBatch(l) PROVE Life(k)'
  <2>1. UNCHANGED <<server, numThreads, nextConn, connections, connVars>>
    BY <1>8, Zenon DEF TakeBatch, EndBatch, serverVars
  <2>2. QED
    BY <1>2, <1>8, <2>1, MovesTodo
<1>9. ASSUME NEW l \in Loops, RunFunctor(l) PROVE Life(k)'
  <2>1. CASE k # Front(l).conn \/ Front(l).op \notin Owning
    BY <1>9, <2>1, OthersLive
  <2>2. CASE k = Front(l).conn /\ Front(l).op \in Owning
    BY <1>9, <2>2, EstablishLives, DestroyLives, RemoveLives DEF Owning
  <2>3. QED
    BY <2>1, <2>2
<1>10. ASSUME NEW u \in Users, CallDone(u) PROVE Life(k)'
  <2>1. /\ UNCHANGED <<server, numThreads, nextConn, connections, ioLoop, registered, reading, ups, downs,
                       destroyed>>
        /\ state' = state \/ state' = [state EXCEPT ![call[u].conn] = "kDisconnecting"]
    BY <1>10 DEF CallDone, serverVars
  <2>2. /\ call[u].conn \in Conns /\ call[u].op \in Raw /\ call[u] \in Functors
        /\ ~Unborn(call[u].conn) /\ ~Made(call[u].conn)
        /\ batch' = batch /\ ran' = ran
        /\ pending' = pending \/ pending' = Queued(ioLoop[call[u].conn], call[u])
    BY <1>10, CallEffect
  <2>3. ASSUME NEW l \in Loops, NEW op \in Owning PROVE Due(l, op, k)' <=> Due(l, op, k)
    <3>1. Functor(op, k) # call[u]
      BY <2>2, FunctorParts DEF Owning, Raw
    <3>2. CASE pending' = pending
      BY <2>2, <3>2, TodoSame, DueTodo
    <3>3. ASSUME NEW m \in Loops, NEW f \in Functors, pending' = Queued(m, f), Functor(op, k) # f
          PROVE  Due(l, op, k)' <=> Due(l, op, k)
      BY <2>2, <3>3, DueQueued
    <3>4. QED
      BY <2>2, <3>1, <3>2, <3>3, LoopOf
  <2>4. SameDues(k)
    BY <2>1, <2>3, DuesSame
  <2>5. CASE state'[k] = state[k]
    <3>1. SameConn(k)
      BY <2>1, <2>5 DEF SameConn
    <3>2. QED
      BY <2>1, <2>4, <3>1, LifeSame
  <2>6. CASE state'[k] # state[k]
    <3>1. k = call[u].conn /\ state'[k] = "kDisconnecting"
      BY <1>1, <2>1, <2>6 DEF ConnTypes
    <3>2. /\ k < nextConn /\ ioLoop[k] \in IOLoops
          /\ IsUp(k) \/ Closed(k) \/ TornDown(k) \/ Lost(k)
      BY <2>2, <3>1 DEF IInv, Lives, Life
    <3>3. /\ InMap(k)' <=> InMap(k)
          /\ Left(k)' <=> Left(k)
          /\ Gone(ioLoop[k])' <=> Gone(ioLoop[k])
      BY <2>1, <2>4 DEF InMap, Left, SameDues, Gone
    <3>4. IsUp(k) => IsUp(k)'
      BY <2>1, <2>4, <3>1, <3>3 DEF IsUp, SameDues
    <3>5. Closed(k) => Closed(k)'
      BY <2>1, <2>4, <3>1, <3>3 DEF Closed, SameDues
    <3>6. TornDown(k) => TornDown(k)'
      BY <2>1, <2>4, <3>1, <3>3 DEF TornDown, SameDues
    <3>7. Lost(k) => Lost(k)'
      BY <2>1, <3>1, <3>3 DEF Lost
    <3>8. QED
      BY <2>1, <3>2, <3>4, <3>5, <3>6, <3>7, LivesOn
  <2>7. QED
    BY <2>5, <2>6
<1>11. QED
  BY <1>4, <1>5, <1>6, <1>7, <1>8, <1>9, <1>10, NewLives, CloseLives, EndLives, GoneLives, Steps

-----------------------------------------------------------------------------
(* The invariant holds in every reachable state.                           *)
THEOREM Invariant == Spec => []IInv
<1>1. IInv /\ [Next]_vars => IInv'
  <2> SUFFICES ASSUME IInv, [Next]_vars PROVE IInv'
    OBVIOUS
  <2>1. TypeOK'
    BY ServerStep, ConnTypesStep, LoopTypesStep DEF TypeOK
  <2>2. Queues' /\ ServerInv' /\ Calls' /\ Faults' /\ Lives'
    BY QueuesStep, ServerStep, CallsStep, FaultsStep, LivesStep
  <2>3. QED
    BY <2>1, <2>2 DEF IInv
<1>2. QED
  BY InitCorrect, <1>1, PTL DEF Spec

(* No assertion of TcpServer and TcpConnection fails: connectEstablished   *)
(* finds kConnecting, handleClose an open connection, and                  *)
(* removeConnectionInLoop the connection in the map, with any number of    *)
(* loops and threads of the user.                                          *)
THEOREM NoAssertionFails == Spec => []AssertionsHold
<1>1. IInv => AssertionsHold
  BY DEF IInv, Faults, AssertionsHold
<1>2. QED
  BY Invariant, <1>1, PTL

(* A functor that is due is in the loop's queue or its batch, ...          *)
LEMMA DueIsQueued ==
  ASSUME IInv, NEW l \in Loops, NEW f, Has(Todo(l), f)
  PROVE  f \in Elements(pending[l] \o batch[l])
<1> DEFINE b == batch[l]
           p == pending[l]
<1>1. b \in Seq(Functors) /\ p \in Seq(Functors) /\ ran[l] \in Nat /\ (b # << >> => ran[l] <= Len(b))
  BY DEF IInv, TypeOK, LoopTypes, Queues, LoopOK
<1>2. (\E i \in 1..Len(p) : p[i] = f) \/ (\E i \in 1..Len(b) : b[i] = f)
  <2>1. CASE b = << >>
    BY <2>1, TodoType DEF Has, IInv
  <2>2. CASE b # << >>
    <3>1. IsRest(Todo(l), b, p, ran[l])
      BY <1>1, <2>2, Rest DEF Todo
    <3>2. PICK i \in 1..Len(Todo(l)) : Todo(l)[i] = f
      BY DEF Has
    <3>3. Len(b) \in Nat /\ Len(p) \in Nat /\ ran[l] <= Len(b)
      BY <1>1, <2>2, LenProperties
    <3> HIDE DEF b, p
    <3>4. CASE i <= Len(b) - ran[l]
      <4>1. i \in 1..Len(b) - ran[l] /\ ran[l] + i \in 1..Len(b)
        BY <1>1, <3>3, <3>4
      <4>2. b[ran[l] + i] = f
        BY <3>1, <3>2, <4>1 DEF IsRest
      <4>3. QED
        BY <4>1, <4>2
    <3>5. CASE ~(i <= Len(b) - ran[l])
      <4> DEFINE j == i - (Len(b) - ran[l])
      <4>1. j \in 1..Len(p) /\ i = Len(b) - ran[l] + j
        BY <1>1, <3>1, <3>2, <3>3, <3>5 DEF IsRest
      <4> HIDE DEF j
      <4>2. p[j] = f
        BY <3>1, <3>2, <4>1 DEF IsRest
      <4>3. QED
        BY <4>1, <4>2
    <3>6. QED
      BY <3>4, <3>5
  <2>3. QED
    BY <2>1, <2>2
<1> DEFINE s == p \o b
<1>3. /\ s \in Seq(Functors) /\ Len(s) = Len(p) + Len(b) /\ Len(p) \in Nat /\ Len(b) \in Nat
      /\ \A i \in 1..Len(p) + Len(b) : s[i] = IF i <= Len(p) THEN p[i] ELSE b[i - Len(p)]
  BY <1>1, ConcatProperties, LenProperties
<1>4. DOMAIN s = 1..Len(s)
  BY <1>3
<1> HIDE DEF s, b, p
<1>5. \E i \in 1..Len(s) : s[i] = f
  <2>1. ASSUME NEW i \in 1..Len(p), p[i] = f PROVE i \in 1..Len(s) /\ s[i] = f
    BY <1>3, <2>1
  <2>2. ASSUME NEW i \in 1..Len(b), b[i] = f PROVE \E j \in 1..Len(s) : s[j] = f
    <3> DEFINE j == Len(p) + i
    <3>1. j \in 1..Len(p) + Len(b) /\ ~(j <= Len(p)) /\ j - Len(p) = i
      BY <1>3
    <3> HIDE DEF j
    <3>2. j \in 1..Len(s) /\ s[j] = f
      BY <1>3, <2>2, <3>1
    <3>3. QED
      BY <3>2
  <2>3. QED
    BY <1>2, <2>1, <2>2
<1>6. QED
  BY <1>4, <1>5 DEF Elements, s, b, p

(* ... and holds its connection there.                                     *)
LEMMA DueIsAlive ==
  ASSUME IInv, NEW c \in Conns, NEW l \in Loops, NEW op \in Owning, Due(l, op, c)
  PROVE  Alive(c)
<1>1. Functor(op, c) \in Elements(pending[l] \o batch[l])
  BY DueIsQueued DEF Due
<1>2. Functor(op, c).op \in Owning /\ Functor(op, c).conn = c
  BY FunctorParts
<1>3. QED
  BY <1>1, <1>2 DEF Alive

(* A channel never outlives its connection in a poller, even when the user *)
(* holds no TcpConnectionPtr: the map or a queued functor does, from the   *)
(* accept to connectDestroyed.                                             *)
THEOREM ChannelsAlive == Spec => []PollerHoldsLiveChannels
<1>1. IInv => PollerHoldsLiveChannels
  <2> SUFFICES ASSUME IInv, NEW c \in registered PROVE Alive(c)
    BY DEF PollerHoldsLiveChannels
  <2>1. c \in Conns
    BY DEF IInv, TypeOK, ConnTypes
  <2>2. IsUp(c) \/ Closed(c)
    BY <2>1 DEF IInv, Lives, Life, Unborn, Made, TornDown, Lost
  <2>3. c \in connections \/ DestroyDue(c)
    BY <2>2 DEF IsUp, Closed, InMap, Left
  <2>4. CASE c \in connections
    BY <2>4 DEF Alive
  <2>5. CASE DestroyDue(c)
    BY <2>1, <2>5, LoopOf, DueIsAlive DEF DestroyDue, Owning
  <2>6. QED
    BY <2>3, <2>4, <2>5
<1>2. QED
  BY Invariant, <1>1, PTL

(* The user hears of a connection once when it comes up and once when it   *)
(* goes down, and connectDestroyed runs once, after it has left the map,   *)
(* however its close, its removal, the user's calls and the end of the     *)
(* server fall together; without IO threads it runs for every connection.  *)
THEOREM OneLife == Spec => []LifeCycle
<1>1. IInv => LifeCycle
  <2> SUFFICES ASSUME IInv PROVE LifeCycle
    OBVIOUS
  <2>1. ASSUME NEW c \in Conns
        PROVE  /\ destroyed[c] > 0 => TornDown(c)
               /\ downs[c] <= ups[c] /\ ups[c] <= 1
    BY DEF IInv, Lives, Life, Unborn, Made, IsUp, Closed, TornDown, Lost
  <2>2. TornDownOnce
    BY <2>1 DEF TornDownOnce, TornDown
  <2>3. UpThenDown
    <3>1. \A c \in Conns : TornDown(c) => downs[c] = ups[c] \/ server # "up"
      BY DEF TornDown
    <3>2. QED
      BY <2>1, <3>1 DEF UpThenDown
  <2>4. AllTornDown
    <3> SUFFICES ASSUME numThreads = 0
                 PROVE  /\ fault # "dead server"
                        /\ server = "destroyed" => \A c \in 1..nextConn - 1 :
                              destroyed[c] = 1 \/ Functor("connectDestroyed", c)
                                                     \in Elements(pending[Base] \o batch[Base])
      BY DEF AllTornDown
    <3>1. fault # "dead server"
      BY DEF IInv, Faults
    <3>2. ASSUME server = "destroyed", NEW c \in 1..nextConn - 1
          PROVE  destroyed[c] = 1 \/ Functor("connectDestroyed", c)
                                        \in Elements(pending[Base] \o batch[Base])
      <4>1. c \in Conns /\ c < nextConn /\ ~(c >= nextConn)
        BY AcceptorAssumption DEF IInv, TypeOK, ServerTypes, ServerInv, Conns
      <4>2. ioLoop[c] = Base
        BY <4>1 DEF IInv, Lives, Life, Unborn, IOLoops
      <4>3. connections = {}
        BY <3>2 DEF IInv, ServerInv
      <4>4. Closed(c) \/ TornDown(c)
        BY <4>1, <4>2, <4>3 DEF IInv, Lives, Life, Unborn, Made, IsUp, Lost, InMap, Left, Gone
      <4>5. CASE Closed(c)
        <5>1. Due(Base, "connectDestroyed", c)
          BY <4>2, <4>3, <4>5 DEF Closed, InMap, DestroyDue
        <5>2. QED
          BY <5>1, <4>1, LoopOf, DueIsQueued DEF Due
      <4>6. CASE TornDown(c)
        BY <4>6 DEF TornDown
      <4>7. QED
        BY <4>4, <4>5, <4>6
    <3>3. QED
      BY <3>1, <3>2
  <2>5. QED
    BY <2>2, <2>3, <2>4 DEF LifeCycle
<1>2. QED
  BY Invariant, <1>1, PTL

-----------------------------------------------------------------------------
(* The connections given to a loop so far: getNextLoop has come around to  *)
(* the loops up to next_ once more than to those after it.                 *)
Given(n) == {c \in 1..nextConn - 1 : ioLoop[c] = n}

Rounds ==
  numThreads # 0 =>
    \E q \in Nat : \A n \in 1..numThreads :
       Cardinality(Given(n)) = IF n <= next THEN q + 1 ELSE q

(* They can be counted.                                                    *)
LEMMA GivenFinite ==
  ASSUME IInv, NEW n
  PROVE  IsFiniteSet(Given(n)) /\ Cardinality(Given(n)) \in Nat
<1>1. nextConn - 1 \in Int /\ 1 \in Int
  BY DEF IInv, TypeOK, ServerTypes
<1>2. IsFiniteSet(1..nextConn - 1)
  BY <1>1, FS_Interval
<1>3. Given(n) \in SUBSET (1..nextConn - 1)
  BY DEF Given
<1>4. QED
  BY <1>2, <1>3, FS_Subset, FS_CardinalityType

(* No step breaks the rounds: a new connection goes to the loop after      *)
(* next_.                                                                  *)
LEMMA RoundsStep ==
  ASSUME IInv, Rounds, [Next]_vars
  PROVE  Rounds'
<1>1. nextConn \in Nat \ {0} /\ numThreads \in Nat /\ next \in Nat /\ ConnTypes
  BY DEF IInv, TypeOK, ServerTypes
<1>2. CASE UNCHANGED <<nextConn, next, numThreads, ioLoop>>
  BY <1>2 DEF Rounds, Given
<1>3. ASSUME NEW n \in 0..MaxThreads, SetThreadNum(n) PROVE Rounds'
  <2>1. UNCHANGED <<nextConn, next, started>> /\ ~started
    BY <1>3 DEF SetThreadNum
  <2>2. nextConn' = 1 /\ next' = 0
    BY <2>1 DEF IInv, ServerInv
  <2>3. \A k : Given(k)' = {}
    BY <2>2 DEF Given
  <2>4. ASSUME NEW k \in 1..numThreads' PROVE Cardinality(Given(k)') = IF k <= next' THEN 0 + 1 ELSE 0
    <3>1. ~(k <= next')
      BY <2>2
    <3>2. QED
      BY <2>3, <3>1, FS_EmptySet
  <2>5. QED
    BY <2>4 DEF Rounds
<1>4. CASE NewConnection /\ numThreads = 0
  <2>1. UNCHANGED numThreads
    BY <1>4 DEF NewConnection
  <2>2. QED
    BY <1>4, <2>1 DEF Rounds
<1>5. CASE NewConnection /\ numThreads # 0
  <2>1. /\ nextConn' = nextConn + 1 /\ UNCHANGED numThreads
        /\ ioLoop' = [ioLoop EXCEPT ![nextConn] = next + 1]
        /\ next' = IF next + 1 >= numThreads THEN 0 ELSE next + 1
    BY <1>5 DEF NewConnection, GetNextLoop, AdvanceNext
  <2>2. nextConn \in Conns /\ next < numThreads
    BY <1>5, NewIsFree DEF IInv, ServerInv
  <2>3. PICK q \in Nat : \A n \in 1..numThreads :
                           Cardinality(Given(n)) = IF n <= next THEN q + 1 ELSE q
    BY <1>5 DEF Rounds
  <2>4. \A c \in 1..nextConn' - 1 : c = nextConn \/ c \in 1..nextConn - 1
    BY <1>1, <2>1
  <2>5. \A c \in 1..nextConn - 1 : c # nextConn /\ c \in 1..nextConn' - 1
    BY <1>1, <2>1
  <2>6. nextConn \in 1..nextConn' - 1
    BY <1>1, <2>1
  <2>7. ioLoop'[nextConn] = next + 1 /\ \A c \in 1..nextConn - 1 : ioLoop'[c] = ioLoop[c]
    BY <1>1, <2>1, <2>2, <2>5 DEF ConnTypes
  <2>8. ASSUME NEW n \in 1..numThreads, n # next + 1 PROVE Given(n)' = Given(n)
    <3>1. \A c : c \in Given(n)' <=> c \in Given(n)
      BY <2>4, <2>5, <2>7, <2>8 DEF Given
    <3>2. QED
      BY <3>1, Zenon
  <2>9. ASSUME NEW n \in 1..numThreads, n = next + 1
        PROVE  Cardinality(Given(n)') = Cardinality(Given(n)) + 1
    <3>1. \A c : c \in Given(n)' <=> c \in Given(n) \cup {nextConn}
      BY <2>4, <2>5, <2>6, <2>7, <2>9 DEF Given
    <3>2. Given(n)' = Given(n) \cup {nextConn}
      BY <3>1, Zenon
    <3>3. nextConn \notin Given(n)
      BY <2>5 DEF Given
    <3>4. Cardinality(Given(n) \cup {nextConn}) = Cardinality(Given(n)) + 1
      BY <3>3, GivenFinite, FS_AddElement
    <3>5. QED
      BY <3>2, <3>4, Zenon
  <2>10. \A n \in 1..numThreads : Cardinality(Given(n)') = IF n <= next + 1 THEN q + 1 ELSE q
    <3> SUFFICES ASSUME NEW n \in 1..numThreads
                 PROVE  Cardinality(Given(n)') = IF n <= next + 1 THEN q + 1 ELSE q
      OBVIOUS
    <3>1. CASE n = next + 1
      <4>1. Cardinality(Given(n)) = q /\ Cardinality(Given(n)') = Cardinality(Given(n)) + 1
        BY <1>1, <2>3, <2>9, <3>1
      <4>2. QED
        BY <1>1, <3>1, <4>1
    <3>2. CASE n # next + 1
      <4>1. Cardinality(Given(n)') = Cardinality(Given(n))
        BY <2>8, <3>2, Zenon
      <4>2. Cardinality(Given(n)) = IF n <= next THEN q + 1 ELSE q
        BY <2>3
      <4>3. QED
        BY <1>1, <3>2, <4>1, <4>2
    <3>3. QED
      BY <3>1, <3>2
  <2>11. CASE next + 1 >= numThreads
    <3>1. next' = 0 /\ q + 1 \in Nat
      BY <2>1, <2>11
    <3>2. ASSUME NEW n \in 1..numThreads'
          PROVE  Cardinality(Given(n)') = IF n <= next' THEN (q + 1) + 1 ELSE q + 1
      <4>1. n \in 1..numThreads /\ n <= next + 1 /\ ~(n <= next')
        BY <1>1, <2>1, <2>11, <3>1
      <4>2. Cardinality(Given(n)') = q + 1
        BY <2>10, <4>1
      <4>3. QED
        BY <4>1, <4>2
    <3>3. QED
      BY <3>1, <3>2, Zenon DEF Rounds
  <2>12. CASE ~(next + 1 >= numThreads)
    <3>1. next' = next + 1
      BY <2>1, <2>12
    <3>2. ASSUME NEW n \in 1..numThreads'
          PROVE  Cardinality(Given(n)') = IF n <= next' THEN q + 1 ELSE q
      BY <2>1, <2>10, <3>1
    <3>3. QED
      BY <3>2, Zenon DEF Rounds
  <2>13. QED
    BY <2>11, <2>12
<1>6. CASE Quiet \/ ListenQueued
  BY <1>2, <1>6 DEF Quiet, ListenQueued, connVars
<1>7. CASE DestroyServer \/ ServerDestroyed
  BY <1>2, <1>7 DEF DestroyServer, TearDown, ServerDestroyed
<1>8. ASSUME NEW c \in Conns, HandleMessage(c) \/ HandleClose(c) PROVE Rounds'
  BY <1>2, <1>8 DEF HandleMessage, HandleClose, serverVars
<1>9. ASSUME NEW l \in Loops, TakeBatch(l) \/ RunFunctor(l) \/ EndBatch(l) PROVE Rounds'
  <2>1. UNCHANGED <<nextConn, next, numThreads, ioLoop>>
    BY <1>9 DEF TakeBatch, RunFunctor, EndBatch, Establish, TearDown, serverVars, connVars
  <2>2. QED
    BY <1>2, <2>1
<1>10. ASSUME NEW u \in Users, CallDone(u) PROVE Rounds'
  BY <1>2, <1>10 DEF CallDone, serverVars
<1>11. QED
  BY <1>3, <1>4, <1>5, <1>6, <1>7, <1>8, <1>9, <1>10, Steps

(* The pool deals connections out evenly, with any number of IO threads:   *)
(* no loop ever has more than one connection more than another.            *)
THEOREM EvenLoad == Spec => []Balanced
<1>1. Init => Rounds
  BY DEF Init, Rounds
<1>2. IInv /\ Rounds => Balanced
  <2> SUFFICES ASSUME IInv, Rounds, NEW l \in IOLoops, NEW m \in IOLoops
               PROVE  Cardinality(Given(l)) <= Cardinality(Given(m)) + 1
    BY DEF Balanced, Given
  <2>1. Cardinality(Given(l)) \in Nat /\ Cardinality(Given(m)) \in Nat
    BY GivenFinite
  <2>2. CASE numThreads = 0
    <3>1. l = m
      BY <2>2 DEF IOLoops
    <3>2. QED
      BY <2>1, <3>1
  <2>3. CASE numThreads # 0
    <3>1. l \in 1..numThreads /\ m \in 1..numThreads
      BY <2>3 DEF IOLoops
    <3>2. PICK q \in Nat : \A n \in 1..numThreads :
                             Cardinality(Given(n)) = IF n <= next THEN q + 1 ELSE q
      BY <2>3 DEF Rounds
    <3>3. Cardinality(Given(l)) \in {q, q + 1} /\ Cardinality(Given(m)) \in {q, q + 1}
      BY <3>1, <3>2
    <3>4. QED
      BY <3>3
  <2>4. QED
    BY <2>2, <2>3
<1>3. IInv /\ Rounds /\ [Next]_vars => Rounds'
  BY RoundsStep
<1>4. QED
  BY Invariant, <1>1, <1>2, <1>3, PTL DEF Spec

-----------------------------------------------------------------------------
(* Of connections that come up the user hears what chapter 23 promises,    *)
(* although connectEstablished may run in another thread than the accept:  *)
(* every step is one of EarlyTcpServer's or changes nothing it knows of.   *)
THEOREM Refinement == Spec => ImplementsEarly
<1>1. Init => Early!Init
  BY DEF Init, AcceptorInit, Early!Init
<1>2. IInv /\ [Next]_vars => [Early!Next]_(Early!vars)
  <2> SUFFICES ASSUME IInv, [Next]_vars PROVE [Early!Next]_(Early!vars)
    OBVIOUS
  <2>1. started \in BOOLEAN /\ listening \in BOOLEAN /\ ConnTypes
    BY DEF IInv, TypeOK, ServerTypes
  <2>2. CASE UNCHANGED <<started, listening, ups>>
    BY <2>2 DEF Early!vars
  <2>3. CASE Quiet
    <3>1. /\ started' \in BOOLEAN /\ listening' \in BOOLEAN
          /\ started => started'
          /\ listening => listening'
          /\ listening' => started'
          /\ UNCHANGED ups
      BY <2>3 DEF Quiet, connVars
    <3>2. Early!Start \/ UNCHANGED <<started, listening, ups>>
      BY <2>1, <3>1, Zenon DEF Early!Start
    <3>3. QED
      BY <2>2, <3>2 DEF Early!Next
  <2>4. ASSUME NEW c \in Conns, ups[c] = 0, listening, UNCHANGED <<started, listening>>,
               ups' = [ups EXCEPT ![c] = @ + 1]
        PROVE  Early!Next
    BY <2>4 DEF Early!Next, Early!NewConnection, Early!ConnectEstablished, Early!Fresh
  <2>5. CASE NewConnection
    <3>1. /\ nextConn \in Conns /\ ups[nextConn] = 0 /\ listening
          /\ UNCHANGED <<started, listening>>
          /\ UNCHANGED ups \/ ups' = [ups EXCEPT ![nextConn] = @ + 1]
      BY <2>5, NewIsFree DEF NewConnection, Accept, Acceptable, Establish, Unborn
    <3>2. QED
      BY <2>2, <2>4, <3>1
  <2>6. CASE ServerDestroyed
    <3>1. listening' = FALSE /\ UNCHANGED <<started, ups>>
      BY <2>6 DEF ServerDestroyed, CloseAcceptor
    <3>2. QED
      BY <3>1 DEF Early!Next, Early!Destroy
  <2>7. ASSUME NEW l \in Loops, RunFunctor(l) PROVE [Early!Next]_(Early!vars)
    <3>1. ran[l] < Len(batch[l]) /\ UNCHANGED started
      BY <2>7 DEF RunFunctor
    <3>2. CASE Front(l).op = "connectEstablished"
      <4>1. /\ Front(l).conn \in Conns /\ l # Base /\ Made(Front(l).conn)
            /\ Front(l).conn < nextConn
        BY <3>1, <3>2, EstablishRuns, FrontDue DEF Placed
      <4>2. ~Gone(l)
        BY <3>1, FrontDue, NothingDue
      <4>3. listening
        BY <4>1, <4>2 DEF Gone, IInv, TypeOK, ServerTypes, ServerInv, Conns
      <4>4. UNCHANGED listening /\ ups' = [ups EXCEPT ![Front(l).conn] = @ + 1]
        BY <2>7, <3>2 DEF RunFunctor, Front, Raw, Establish, acceptorVars
      <4>5. QED
        BY <2>4, <3>1, <4>1, <4>3, <4>4 DEF Made
    <3>3. CASE Front(l).op # "connectEstablished"
      <4>1. /\ UNCHANGED ups
            /\ \/ UNCHANGED listening
               \/ Front(l).op = "listen" /\ listening' = TRUE
        BY <2>7, <3>3 DEF RunFunctor, Front, Listen, TearDown, acceptorVars, connVars
      <4>2. CASE Front(l).op = "listen" /\ listening' = TRUE
        <5>1. started
          BY <3>1, <4>2, FrontDue DEF Placed
        <5>2. QED
          BY <3>1, <4>1, <4>2, <5>1 DEF Early!Next, Early!Listen
      <4>3. QED
        BY <2>2, <3>1, <4>1, <4>2
    <3>4. QED
      BY <3>2, <3>3
  <2>8. CASE ListenQueued \/ DestroyServer
    BY <2>2, <2>8 DEF ListenQueued, DestroyServer, TearDown, acceptorVars, connVars
  <2>9. ASSUME NEW n \in 0..MaxThreads, SetThreadNum(n) PROVE UNCHANGED <<started, listening, ups>>
    BY <2>9 DEF SetThreadNum, acceptorVars, connVars
  <2>10. ASSUME NEW c \in Conns, HandleMessage(c) \/ HandleClose(c)
         PROVE  UNCHANGED <<started, listening, ups>>
    BY <2>10 DEF HandleMessage, HandleClose, serverVars, acceptorVars
  <2>11. ASSUME NEW l \in Loops, TakeBatch(l) \/ EndBatch(l)
         PROVE  UNCHANGED <<started, listening, ups>>
    BY <2>11 DEF TakeBatch, EndBatch, serverVars, acceptorVars, connVars
  <2>12. ASSUME NEW u \in Users, CallDone(u) PROVE UNCHANGED <<started, listening, ups>>
    BY <2>12 DEF CallDone, serverVars, acceptorVars
  <2>13. QED
    BY <2>2, <2>3, <2>5, <2>6, <2>7, <2>8, <2>9, <2>10, <2>11, <2>12, Steps
<1>3. QED
  BY Invariant, <1>1, <1>2, PTL DEF ImplementsEarly, Early!Spec, Spec
=============================================================================
