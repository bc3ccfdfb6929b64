-------------------------- MODULE HttpServerProofs --------------------------
(***************************************************************************)
(* Proofs about Buffer and HttpServer, for every size of the vector, of    *)
(* the space in front and of extrabuf, all requests and any number of      *)
(* them.                                                                   *)
(*                                                                         *)
(* First Buffer: its operations keep its indices in order and treat the    *)
(* readable bytes as a sequence: what is appended or read comes behind     *)
(* them, what is prepended in front, what is retrieved is taken from the   *)
(* front, and nothing else changes them, wherever they are in the vector   *)
(* and however it grows.                                                   *)
(*                                                                         *)
(* Then HttpServer: what is readable and what is on the wire, together,    *)
(* are the end of what the client has sent, from the first byte that is    *)
(* not parsed; and that byte is where the parser's state says it is in the *)
(* request it is at.  From that the answers follow.                        *)
(***************************************************************************)
EXTENDS HttpServer, SequenceTheorems, WellFoundedInduction, NaturalsInduction, TLAPS

USE BufferAssumption

(* Buffers whose bytes are in S.                                           *)
IsBuffer(b, S) ==
  /\ b \in [vec : Seq(S), reader : Nat, writer : Nat]
  /\ b.reader <= b.writer /\ b.writer <= Len(b.vec)
  /\ CheapPrepend <= Len(b.vec)

-----------------------------------------------------------------------------
(* The readable bytes are those between the indices.                       *)
LEMMA ReadableProperties ==
  ASSUME NEW S, NEW b, IsBuffer(b, S)
  PROVE  /\ Readable(b) \in Seq(S)
         /\ Len(Readable(b)) = b.writer - b.reader
         /\ \A i \in 1..b.writer - b.reader : Readable(b)[i] = b.vec[b.reader + i]
<1> DEFINE m == b.reader + 1
           n == b.writer
<1>1. m \in Int /\ n \in Int /\ b.reader \in Nat /\ n \in Nat
  BY DEF IsBuffer
<1>2. b.vec \in Seq(S) /\ \A i \in m..n : b.vec[i] \in S
  BY ElementOfSeq DEF IsBuffer
<1>3. /\ SubSeq(b.vec, m, n) \in Seq(S)
      /\ Len(SubSeq(b.vec, m, n)) = IF m <= n THEN n - m + 1 ELSE 0
      /\ \A i \in 1..n - m + 1 : SubSeq(b.vec, m, n)[i] = b.vec[m + i - 1]
  <2> HIDE DEF m, n
  <2> QED BY <1>1, <1>2, SubSeqProperties
<1>4. n - m + 1 = b.writer - b.reader /\ (~(m <= n) => b.writer - b.reader = 0)
  BY <1>1 DEF IsBuffer
<1>5. \A i \in 1..b.writer - b.reader : m + i - 1 = b.reader + i
  BY <1>1
<1> QED BY <1>1, <1>3, <1>4, <1>5 DEF Readable

(* CopyTo writes the bytes and leaves the rest of the vector.              *)
LEMMA CopyToProperties ==
  ASSUME NEW S, NEW vec \in Seq(S), NEW bytes \in Seq(S), NEW n \in Nat
  PROVE  /\ CopyTo(vec, n, bytes) \in Seq(S)
         /\ Len(CopyTo(vec, n, bytes)) = Len(vec)
         /\ \A i \in 1..Len(vec) :
               CopyTo(vec, n, bytes)[i] = IF i - n \in 1..Len(bytes)
                                          THEN bytes[i - n] ELSE vec[i]
<1>1. /\ Len(vec) \in Nat /\ DOMAIN vec = 1..Len(vec) /\ DOMAIN bytes = 1..Len(bytes)
      /\ \A i \in 1..Len(vec) : vec[i] \in S
      /\ \A i \in 1..Len(bytes) : bytes[i] \in S
  BY LenProperties, ElementOfSeq
<1>2. CopyTo(vec, n, bytes)
        = [i \in 1..Len(vec) |-> IF i - n \in 1..Len(bytes) THEN bytes[i - n] ELSE vec[i]]
  BY <1>1 DEF CopyTo
<1>3. CopyTo(vec, n, bytes) \in [1..Len(vec) -> S]
  BY <1>1, <1>2
<1> QED BY <1>1, <1>2, <1>3

(* Resize keeps what there was and adds blank bytes.                       *)
LEMMA ResizeProperties ==
  ASSUME NEW S, NEW vec \in Seq(S), NEW size \in Nat, Blank \in S
  PROVE  /\ Resize(vec, size) \in Seq(S)
         /\ Len(Resize(vec, size)) = size
         /\ \A i \in 1..size : i <= Len(vec) => Resize(vec, size)[i] = vec[i]
<1>1. /\ Len(vec) \in Nat /\ DOMAIN vec = 1..Len(vec)
      /\ \A i \in 1..Len(vec) : vec[i] \in S
  BY LenProperties, ElementOfSeq
<1>2. Resize(vec, size)
        = [i \in 1..size |-> IF i \in 1..Len(vec) THEN vec[i] ELSE Blank]
  BY <1>1 DEF Resize
<1>3. Resize(vec, size) \in [1..size -> S]
  BY <1>1, <1>2
<1> QED BY <1>1, <1>2, <1>3

(* A buffer with the same indices' distance and the same bytes between     *)
(* them is the same sequence.                                              *)
LEMMA SameReadable ==
  ASSUME NEW S, NEW b, NEW c, IsBuffer(b, S), IsBuffer(c, S),
         c.writer - c.reader = b.writer - b.reader,
         \A i \in 1..b.writer - b.reader : c.vec[c.reader + i] = b.vec[b.reader + i]
  PROVE  Readable(c) = Readable(b)
<1>1. /\ Readable(b) \in Seq(S) /\ Len(Readable(b)) = b.writer - b.reader
      /\ \A i \in 1..b.writer - b.reader : Readable(b)[i] = b.vec[b.reader + i]
  BY ReadableProperties
<1>2. /\ Readable(c) \in Seq(S) /\ Len(Readable(c)) = c.writer - c.reader
      /\ \A i \in 1..c.writer - c.reader : Readable(c)[i] = c.vec[c.reader + i]
  BY ReadableProperties
<1>3. Len(Readable(c)) = Len(Readable(b))
  BY <1>1, <1>2
<1>4. \A i \in 1..Len(Readable(c)) : Readable(c)[i] = Readable(b)[i]
  BY <1>1, <1>2
<1> HIDE DEF IsBuffer
<1> QED BY <1>1, <1>2, <1>3, <1>4, SeqEqual

-----------------------------------------------------------------------------
(* makeSpace is called when there is not room enough behind the readable   *)
(* bytes.  If it finds room in front, its assertion holds (Buffer.h:325):  *)
(* there is something to gain by moving them.                              *)
THEOREM MakeSpaceAssertion ==
  ASSUME NEW S, NEW b, IsBuffer(b, S), NEW len \in Nat,
         WritableBytes(b) < len, RoomInFront(b, len)
  PROVE  CheapPrepend < b.reader
<1>1. Len(b.vec) \in Nat /\ b.reader \in Nat /\ b.writer \in Nat
  BY LenProperties DEF IsBuffer
<1> QED BY <1>1 DEF WritableBytes, RoomInFront, PrependableBytes, IsBuffer

(* makeSpace makes the space, and leaves the readable bytes as they are,   *)
(* though it may move them onto themselves.                                *)
LEMMA MakeSpaceKeeps ==
  ASSUME NEW S, Blank \in S, NEW b, IsBuffer(b, S), NEW len \in Nat,
         WritableBytes(b) < len
  PROVE  /\ IsBuffer(MakeSpace(b, len), S)
         /\ WritableBytes(MakeSpace(b, len)) >= len
         /\ Readable(MakeSpace(b, len)) = Readable(b)
<1>1. /\ Len(b.vec) \in Nat /\ b.reader \in Nat /\ b.writer \in Nat
      /\ b.vec \in Seq(S) /\ b.reader <= b.writer /\ b.writer <= Len(b.vec)
      /\ CheapPrepend <= Len(b.vec)
  BY LenProperties DEF IsBuffer
<1>2. CASE RoomInFront(b, len)
  <2> DEFINE c == MoveToFront(b)
  <2>1. MakeSpace(b, len) = c
    BY <1>2 DEF MakeSpace
  <2>2. CheapPrepend < b.reader
    BY <1>2, MakeSpaceAssertion
  <2>3. /\ Readable(b) \in Seq(S) /\ Len(Readable(b)) = b.writer - b.reader
        /\ \A i \in 1..b.writer - b.reader : Readable(b)[i] = b.vec[b.reader + i]
    BY ReadableProperties
  <2>4. /\ c.vec = CopyTo(b.vec, CheapPrepend, Readable(b))
        /\ c.reader = CheapPrepend
        /\ c.writer = CheapPrepend + (b.writer - b.reader)
        /\ c = [vec |-> c.vec, reader |-> c.reader, writer |-> c.writer]
    BY DEF MoveToFront, ReadableBytes
  <2>5. /\ c.vec \in Seq(S) /\ Len(c.vec) = Len(b.vec)
        /\ \A i \in 1..Len(b.vec) :
              c.vec[i] = IF i - CheapPrepend \in 1..Len(Readable(b))
                         THEN Readable(b)[i - CheapPrepend] ELSE b.vec[i]
    <3> DEFINE v == CopyTo(b.vec, CheapPrepend, Readable(b))
    <3>1. CheapPrepend \in Nat /\ b.vec \in Seq(S) /\ Readable(b) \in Seq(S)
      BY <1>1, <2>3
    <3>2. /\ v \in Seq(S) /\ Len(v) = Len(b.vec)
          /\ \A i \in 1..Len(b.vec) :
                v[i] = IF i - CheapPrepend \in 1..Len(Readable(b))
                       THEN Readable(b)[i - CheapPrepend] ELSE b.vec[i]
      BY <3>1, CopyToProperties
    <3>3. c.vec = v
      BY <2>4
    <3> HIDE DEF v, c
    <3> QED BY <3>2, <3>3
  <2> HIDE DEF c
  <2>6. IsBuffer(c, S)
    BY <1>1, <2>2, <2>4, <2>5 DEF IsBuffer
  <2>7. WritableBytes(c) >= len
    BY <1>1, <1>2, <2>4, <2>5 DEF WritableBytes, RoomInFront, PrependableBytes
  <2>8. c.writer - c.reader = b.writer - b.reader
    BY <1>1, <2>4
  <2>9. \A i \in 1..b.writer - b.reader : c.vec[c.reader + i] = b.vec[b.reader + i]
    <3> TAKE i \in 1..b.writer - b.reader
    <3>1. CheapPrepend + i \in 1..Len(b.vec) /\ (CheapPrepend + i) - CheapPrepend = i
      BY <1>1, <2>2
    <3> QED BY <3>1, <2>3, <2>4, <2>5
  <2> QED BY <2>1, <2>6, <2>7, <2>8, <2>9, SameReadable
<1>3. CASE ~RoomInFront(b, len)
  <2> DEFINE c == [b EXCEPT !.vec = Resize(b.vec, b.writer + len)]
  <2>1. MakeSpace(b, len) = c
    BY <1>3 DEF MakeSpace
  <2>2. /\ c.vec = Resize(b.vec, b.writer + len)
        /\ c.reader = b.reader /\ c.writer = b.writer
        /\ c = [vec |-> c.vec, reader |-> c.reader, writer |-> c.writer]
    BY DEF IsBuffer
  <2>3. /\ c.vec \in Seq(S) /\ Len(c.vec) = b.writer + len
        /\ \A i \in 1..b.writer + len : i <= Len(b.vec) => c.vec[i] = b.vec[i]
    <3> DEFINE v == Resize(b.vec, b.writer + len)
    <3>1. b.writer + len \in Nat /\ b.vec \in Seq(S)
      BY <1>1
    <3>2. /\ v \in Seq(S) /\ Len(v) = b.writer + len
          /\ \A i \in 1..b.writer + len : i <= Len(b.vec) => v[i] = b.vec[i]
      BY <3>1, ResizeProperties
    <3>3. c.vec = v
      BY <2>2
    <3> HIDE DEF v, c
    <3> QED BY <3>2, <3>3
  <2> HIDE DEF c
  <2>4. IsBuffer(c, S) /\ WritableBytes(c) >= len
    BY <1>1, <2>2, <2>3 DEF IsBuffer, WritableBytes
  <2>5. \A i \in 1..b.writer - b.reader : c.vec[c.reader + i] = b.vec[b.reader + i]
    <3> TAKE i \in 1..b.writer - b.reader
    <3>1. b.reader + i \in 1..b.writer + len /\ b.reader + i <= Len(b.vec)
      BY <1>1
    <3>2. c.vec[b.reader + i] = b.vec[b.reader + i]
      BY <2>3, <3>1
    <3> QED BY <2>2, <3>2
  <2> QED BY <2>1, <2>2, <2>4, <2>5, SameReadable
<1> QED BY <1>2, <1>3

(* ensureWritableBytes.                                                    *)
LEMMA EnsureKeeps ==
  ASSUME NEW S, Blank \in S, NEW b, IsBuffer(b, S), NEW len \in Nat
  PROVE  /\ IsBuffer(EnsureWritableBytes(b, len), S)
         /\ WritableBytes(EnsureWritableBytes(b, len)) >= len
         /\ Readable(EnsureWritableBytes(b, len)) = Readable(b)
<1>1. Len(b.vec) \in Nat /\ b.writer \in Nat
  BY LenProperties DEF IsBuffer
<1>2. CASE WritableBytes(b) < len
  BY <1>2, MakeSpaceKeeps DEF EnsureWritableBytes
<1>3. CASE ~(WritableBytes(b) < len)
  BY <1>1, <1>3 DEF EnsureWritableBytes, WritableBytes
<1> QED BY <1>2, <1>3

-----------------------------------------------------------------------------
(* Copying bytes behind the readable ones and moving writerIndex_ over the *)
(* first k of them adds these k.                                           *)
LEMMA WriteKeeps ==
  ASSUME NEW S, NEW b, IsBuffer(b, S), NEW bytes \in Seq(S), NEW k \in Nat,
         k <= Len(bytes), k <= WritableBytes(b)
  PROVE  /\ IsBuffer(Write(b, bytes, k), S)
         /\ Readable(Write(b, bytes, k)) = Readable(b) \o SubSeq(bytes, 1, k)
<1>1. /\ Len(b.vec) \in Nat /\ b.reader \in Nat /\ b.writer \in Nat
      /\ b.vec \in Seq(S) /\ b.reader <= b.writer /\ b.writer <= Len(b.vec)
      /\ CheapPrepend <= Len(b.vec) /\ b.writer + k <= Len(b.vec)
      /\ Len(bytes) \in Nat
  BY LenProperties DEF IsBuffer, WritableBytes
<1>2. /\ Readable(b) \in Seq(S) /\ Len(Readable(b)) = b.writer - b.reader
      /\ \A i \in 1..b.writer - b.reader : Readable(b)[i] = b.vec[b.reader + i]
  BY ReadableProperties
<1> DEFINE v == CopyTo(b.vec, b.writer, bytes)
           t == SubSeq(bytes, 1, k)
           c == Write(b, bytes, k)
<1>3. /\ v \in Seq(S) /\ Len(v) = Len(b.vec)
      /\ \A i \in 1..Len(b.vec) :
            v[i] = IF i - b.writer \in 1..Len(bytes)
                   THEN bytes[i - b.writer] ELSE b.vec[i]
  <2> DEFINE u == b.vec
             n == b.writer
  <2>1. u \in Seq(S) /\ n \in Nat
    BY <1>1
  <2>2. /\ CopyTo(u, n, bytes) \in Seq(S) /\ Len(CopyTo(u, n, bytes)) = Len(u)
        /\ \A i \in 1..Len(u) :
              CopyTo(u, n, bytes)[i] = IF i - n \in 1..Len(bytes)
                                       THEN bytes[i - n] ELSE u[i]
    <3> HIDE DEF u, n
    <3> QED BY <2>1, CopyToProperties
  <2> QED BY <2>2
<1>4. t \in Seq(S) /\ Len(t) = k /\ \A i \in 1..k : t[i] = bytes[i]
  <2>1. 1 \in Int /\ k \in Int /\ \A i \in 1..k : bytes[i] \in S
    BY <1>1, ElementOfSeq
  <2>2. /\ t \in Seq(S)
        /\ Len(t) = IF 1 <= k THEN k - 1 + 1 ELSE 0
        /\ \A i \in 1..k - 1 + 1 : t[i] = bytes[1 + i - 1]
    BY <2>1, SubSeqProperties
  <2>3. k - 1 + 1 = k /\ \A i \in 1..k : 1 + i - 1 = i
    OBVIOUS
  <2> HIDE DEF t
  <2> QED BY <2>2, <2>3
<1>5. c.vec = v /\ c.reader = b.reader /\ c.writer = b.writer + k
  BY DEF Write
<1>6. IsBuffer(c, S)
  <2>1. c = [vec |-> v, reader |-> b.reader, writer |-> b.writer + k]
    BY DEF Write
  <2> HIDE DEF v
  <2> QED BY <1>1, <1>3, <2>1 DEF IsBuffer
<1> HIDE DEF v, t, c
<1>7. /\ Readable(c) \in Seq(S) /\ Len(Readable(c)) = c.writer - c.reader
      /\ \A i \in 1..c.writer - c.reader : Readable(c)[i] = c.vec[c.reader + i]
  BY <1>6, ReadableProperties
<1> DEFINE w == Readable(b) \o t
<1>8. /\ w \in Seq(S) /\ Len(w) = Len(Readable(b)) + Len(t)
      /\ \A i \in 1..Len(Readable(b)) + Len(t) :
            w[i] = IF i <= Len(Readable(b)) THEN Readable(b)[i]
                   ELSE t[i - Len(Readable(b))]
  BY <1>2, <1>4, ConcatProperties
<1> HIDE DEF w
<1>9. Len(Readable(c)) = Len(w)
  BY <1>1, <1>2, <1>4, <1>5, <1>7, <1>8
<1>10. ASSUME NEW i \in 1..Len(Readable(c))
       PROVE  Readable(c)[i] = w[i]
  <2>1. i \in 1..b.writer + k - b.reader /\ b.reader + i \in 1..Len(b.vec)
    BY <1>1, <1>5, <1>7, SMTT(30)
  <2>2. Readable(c)[i] = v[b.reader + i]
    BY <1>5, <1>7
  <2>3. CASE i <= b.writer - b.reader
    <3>1. i \in 1..b.writer - b.reader /\ ~((b.reader + i) - b.writer \in 1..Len(bytes))
      BY <1>1, <2>1, <2>3
    <3>2. v[b.reader + i] = b.vec[b.reader + i]
      <4> DEFINE p == b.reader + i
      <4>1. p \in 1..Len(b.vec) /\ ~(p - b.writer \in 1..Len(bytes))
        BY <2>1, <3>1
      <4> HIDE DEF p
      <4>2. v[p] = b.vec[p]
        BY <1>3, <4>1
      <4> QED BY <4>2 DEF p
    <3>3. w[i] = b.vec[b.reader + i]
      BY <1>2, <1>4, <1>8, <2>1, <2>3, <3>1
    <3> QED BY <2>2, <3>2, <3>3
  <2>4. CASE ~(i <= b.writer - b.reader)
    <3> DEFINE j == b.reader + i - b.writer
    <3>1. /\ j \in 1..Len(bytes) /\ j \in 1..k
          /\ i - (b.writer - b.reader) = j
      <4>1. i - (b.writer - b.reader) \in 1..k
        <5>1. b.writer \in Nat /\ b.reader \in Nat /\ k \in Nat
          BY <1>1
        <5>2. QED
          BY <2>1, <2>4, <5>1, SMTT(30)
      <4>2. j = i - (b.writer - b.reader)
        BY <1>1, <2>1
      <4>3. k <= Len(bytes) /\ k \in Nat /\ Len(bytes) \in Nat
        BY <1>1, LenProperties
      <4> HIDE DEF j
      <4> QED BY <4>1, <4>2, <4>3
    <3>2. v[b.reader + i] = bytes[j]
      <4> DEFINE p == b.reader + i
      <4>1. p \in 1..Len(b.vec) /\ p - b.writer \in 1..Len(bytes) /\ p - b.writer = j
        BY <1>1, <2>1, <3>1, SMTT(30)
      <4> HIDE DEF p, j
      <4>2. v[p] = bytes[p - b.writer]
        BY <1>3, <4>1
      <4> QED BY <4>1, <4>2 DEF p
    <3>3. w[i] = t[j]
      BY <1>2, <1>4, <1>8, <2>1, <2>4, <3>1
    <3> HIDE DEF j
    <3> QED BY <1>4, <2>2, <3>1, <3>2, <3>3
  <2> QED BY <2>3, <2>4
<1>11. Readable(c) = w
  BY <1>7, <1>8, <1>9, <1>10, SeqEqual
<1> QED BY <1>6, <1>11 DEF w, t, c

(* append puts the bytes behind the readable ones.                         *)
THEOREM AppendKeeps ==
  ASSUME NEW S, Blank \in S, NEW b, IsBuffer(b, S), NEW bytes \in Seq(S)
  PROVE  /\ IsBuffer(AppendBytes(b, bytes), S)
         /\ Readable(AppendBytes(b, bytes)) = Readable(b) \o bytes
<1> DEFINE r == EnsureWritableBytes(b, Len(bytes))
<1>1. Len(bytes) \in Nat
  BY LenProperties
<1>2. /\ IsBuffer(r, S) /\ WritableBytes(r) >= Len(bytes)
      /\ Readable(r) = Readable(b)
  BY <1>1, EnsureKeeps
<1>3. Len(r.vec) \in Nat /\ r.writer \in Nat
  BY <1>2, LenProperties DEF IsBuffer
<1>4. Len(bytes) <= WritableBytes(r) /\ Len(bytes) <= Len(bytes)
  BY <1>1, <1>2, <1>3 DEF WritableBytes
<1>5. /\ IsBuffer(Write(r, bytes, Len(bytes)), S)
      /\ Readable(Write(r, bytes, Len(bytes)))
           = Readable(r) \o SubSeq(bytes, 1, Len(bytes))
  <2> HIDE DEF r
  <2> QED BY <1>1, <1>2, <1>4, WriteKeeps
<1>6. SubSeq(bytes, 1, Len(bytes)) = bytes
  BY SubSeqFull
<1>7. AppendBytes(b, bytes) = Write(r, bytes, Len(bytes))
  BY DEF AppendBytes
<1> HIDE DEF r
<1> QED BY <1>2, <1>5, <1>6, <1>7

(* readFd puts what it reads behind the readable bytes, whether it fits    *)
(* into the vector or has to be taken from extrabuf.                       *)
THEOREM ReadFdKeeps ==
  ASSUME NEW S, Blank \in S, NEW b, IsBuffer(b, S), NEW bytes \in Seq(S)
  PROVE  /\ IsBuffer(ReadFd(b, bytes), S)
         /\ Readable(ReadFd(b, bytes)) = Readable(b) \o bytes
<1> DEFINE n == WritableBytes(b)
           rest == SubSeq(bytes, n + 1, Len(bytes))
           front == SubSeq(bytes, 1, n)
<1>1. /\ Len(b.vec) \in Nat /\ b.writer \in Nat /\ b.writer <= Len(b.vec)
      /\ n \in Nat /\ Len(bytes) \in Nat
  BY LenProperties DEF IsBuffer, WritableBytes
<1>2. CASE Len(bytes) <= n
  <2>1. ReadFd(b, bytes) = Write(b, bytes, Len(bytes))
    BY <1>2 DEF ReadFd
  <2>2. Len(bytes) <= WritableBytes(b) /\ Len(bytes) <= Len(bytes)
    BY <1>1, <1>2
  <2>3. /\ IsBuffer(Write(b, bytes, Len(bytes)), S)
        /\ Readable(Write(b, bytes, Len(bytes)))
             = Readable(b) \o SubSeq(bytes, 1, Len(bytes))
    BY <1>1, <2>2, WriteKeeps
  <2> QED BY <2>1, <2>3, SubSeqFull
<1>3. CASE ~(Len(bytes) <= n)
  <2> DEFINE c == Write(b, bytes, n)
  <2>1. ReadFd(b, bytes) = AppendBytes(c, rest)
    BY <1>3 DEF ReadFd
  <2>2. n <= Len(bytes) /\ n <= WritableBytes(b)
    BY <1>1, <1>3
  <2>3. IsBuffer(c, S) /\ Readable(c) = Readable(b) \o front
    <3> HIDE DEF n
    <3> QED BY <1>1, <2>2, WriteKeeps
  <2>4. rest \in Seq(S) /\ front \in Seq(S) /\ Readable(b) \in Seq(S)
    <3>1. /\ n + 1 \in Int /\ Len(bytes) \in Int /\ 1 \in Int /\ n \in Int
          /\ \A i \in n + 1..Len(bytes) : bytes[i] \in S
          /\ \A i \in 1..n : bytes[i] \in S
      BY <1>1, <1>3, ElementOfSeq
    <3>2. rest \in Seq(S)
      <4> HIDE DEF n
      <4> QED BY <3>1, SubSeqProperties
    <3>3. front \in Seq(S)
      <4> HIDE DEF n
      <4> QED BY <3>1, SubSeqProperties
    <3> QED BY <3>2, <3>3, ReadableProperties
  <2>5. front \o rest = bytes
    <3>1. 1 \in 1..Len(bytes) + 1 /\ n \in 1 - 1..Len(bytes) /\ Len(bytes) \in n..Len(bytes)
      BY <1>1, <1>3
    <3>2. front \o rest = SubSeq(bytes, 1, Len(bytes))
      <4> HIDE DEF n
      <4> QED BY <3>1, ConcatAdjacentSubSeq
    <3> QED BY <3>2, SubSeqFull
  <2> HIDE DEF c, n, front, rest
  <2>6. /\ IsBuffer(AppendBytes(c, rest), S)
        /\ Readable(AppendBytes(c, rest)) = Readable(c) \o rest
    BY <2>3, <2>4, AppendKeeps
  <2>7. (Readable(b) \o front) \o rest = Readable(b) \o (front \o rest)
    BY <2>4, ConcatAssociative
  <2> QED BY <2>1, <2>3, <2>5, <2>6, <2>7
<1> QED BY <1>2, <1>3

-----------------------------------------------------------------------------
(* A new buffer is empty.                                                  *)
LEMMA NewBufferEmpty ==
  ASSUME NEW S, Blank \in S
  PROVE  IsBuffer(NewBuffer, S) /\ Readable(NewBuffer) = << >>
<1> DEFINE v == [i \in 1..CheapPrepend + InitialSize |-> Blank]
<1>1. v \in [1..CheapPrepend + InitialSize -> S]
  OBVIOUS
<1>2. CheapPrepend + InitialSize \in Nat
  OBVIOUS
<1>3. v \in Seq(S) /\ Len(v) = CheapPrepend + InitialSize
  <2> DEFINE n == CheapPrepend + InitialSize
  <2>1. n \in Nat /\ v \in [1..n -> S]
    BY <1>1, <1>2
  <2> HIDE DEF n, v
  <2>2. v \in Seq(S)
    BY <2>1, IsASeq
  <2>3. DOMAIN v = 1..n /\ DOMAIN v = 1..Len(v) /\ Len(v) \in Nat
    BY <2>1, <2>2, LenProperties
  <2>4. Len(v) = n
    BY <2>1, <2>3
  <2> QED BY <2>2, <2>4 DEF n
<1>4. NewBuffer = [vec |-> v, reader |-> CheapPrepend, writer |-> CheapPrepend]
  BY DEF NewBuffer
<1> HIDE DEF v
<1>5. IsBuffer(NewBuffer, S)
  BY <1>3, <1>4 DEF IsBuffer
<1>6. NewBuffer.writer = NewBuffer.reader /\ NewBuffer.reader \in Nat
  BY <1>4
<1>7. Readable(NewBuffer) \in Seq(S) /\ Len(Readable(NewBuffer)) = 0
  BY <1>5, <1>6, ReadableProperties
<1> QED BY <1>5, <1>7, EmptySeq

(* shrink keeps the readable bytes and makes the room that is reserved.    *)
THEOREM ShrinkKeeps ==
  ASSUME NEW S, Blank \in S, NEW b, IsBuffer(b, S), NEW reserve \in Nat
  PROVE  /\ IsBuffer(Shrink(b, reserve), S)
         /\ Readable(Shrink(b, reserve)) = Readable(b)
<1> DEFINE other == EnsureWritableBytes(NewBuffer, ReadableBytes(b) + reserve)
<1>1. ReadableBytes(b) + reserve \in Nat
  BY DEF ReadableBytes, IsBuffer
<1>2. IsBuffer(other, S) /\ Readable(other) = << >>
  BY <1>1, NewBufferEmpty, EnsureKeeps
<1>3. Readable(b) \in Seq(S)
  BY ReadableProperties
<1>4. Shrink(b, reserve) = AppendBytes(other, Readable(b))
  BY DEF Shrink
<1> HIDE DEF other
<1>5. /\ IsBuffer(AppendBytes(other, Readable(b)), S)
      /\ Readable(AppendBytes(other, Readable(b))) = Readable(other) \o Readable(b)
  BY <1>2, <1>3, AppendKeeps
<1>6. << >> \o Readable(b) = Readable(b)
  BY <1>3, ConcatEmptySeq
<1> QED BY <1>2, <1>4, <1>5, <1>6

(* retrieve takes len bytes from the front.                                *)
THEOREM RetrieveKeeps ==
  ASSUME NEW S, NEW b, IsBuffer(b, S), NEW len \in Nat, MayRetrieve(b, len)
  PROVE  /\ IsBuffer(Retrieve(b, len), S)
         /\ Readable(Retrieve(b, len))
              = SubSeq(Readable(b), len + 1, Len(Readable(b)))
<1> DEFINE c == Retrieve(b, len)
           r == Readable(b)
           m == Len(r)
           rest == SubSeq(r, len + 1, m)
<1>1. /\ b.reader \in Nat /\ b.writer \in Nat /\ b.vec \in Seq(S) /\ Len(b.vec) \in Nat
      /\ b.reader <= b.writer /\ b.writer <= Len(b.vec) /\ CheapPrepend <= Len(b.vec)
      /\ len <= b.writer - b.reader
      /\ b = [vec |-> b.vec, reader |-> b.reader, writer |-> b.writer]
  BY LenProperties DEF IsBuffer, MayRetrieve, ReadableBytes
<1>2. /\ r \in Seq(S) /\ m = b.writer - b.reader /\ m \in Nat
      /\ \A i \in 1..m : r[i] = b.vec[b.reader + i]
  BY <1>1, ReadableProperties
<1>3. /\ rest \in Seq(S)
      /\ Len(rest) = m - len
      /\ \A i \in 1..m - len : rest[i] = r[len + i]
  <2>1. /\ len + 1 \in Int /\ m \in Int
        /\ \A i \in len + 1..m : r[i] \in S
    <3> HIDE DEF r
    <3> QED BY <1>2, ElementOfSeq
  <2>2. /\ rest \in Seq(S)
        /\ Len(rest) = IF len + 1 <= m THEN m - (len + 1) + 1 ELSE 0
        /\ \A i \in 1..m - (len + 1) + 1 : rest[i] = r[len + 1 + i - 1]
    <3> HIDE DEF r, m
    <3> QED BY <2>1, SubSeqProperties
  <2>3. /\ m - (len + 1) + 1 = m - len /\ (~(len + 1 <= m) => m - len = 0)
        /\ \A i \in 1..m - len : len + 1 + i - 1 = len + i
    <3> HIDE DEF m
    <3> QED BY <1>1, <1>2
  <2> HIDE DEF rest, r, m
  <2> QED BY <2>2, <2>3
<1>4. CASE len < ReadableBytes(b)
  <2>1. c = [b EXCEPT !.reader = b.reader + len]
    BY <1>4 DEF Retrieve
  <2>2. c.vec = b.vec /\ c.reader = b.reader + len /\ c.writer = b.writer
    BY <1>1, <2>1
  <2>3. c = [vec |-> b.vec, reader |-> b.reader + len, writer |-> b.writer]
    BY <1>1, <2>1
  <2> HIDE DEF c
  <2>4. IsBuffer(c, S)
    BY <1>1, <2>3 DEF IsBuffer
  <2>5. /\ Readable(c) \in Seq(S) /\ Len(Readable(c)) = b.writer - (b.reader + len)
        /\ \A i \in 1..b.writer - (b.reader + len) :
              Readable(c)[i] = b.vec[b.reader + len + i]
    BY <2>2, <2>4, ReadableProperties
  <2>6. Len(Readable(c)) = Len(rest)
    <3> HIDE DEF rest, m
    <3> QED BY <1>1, <1>2, <1>3, <2>5
  <2>7. ASSUME NEW i \in 1..Len(Readable(c))
        PROVE  Readable(c)[i] = rest[i]
    <3> HIDE DEF rest, m, r
    <3>1. i \in 1..b.writer - (b.reader + len) /\ i \in 1..m - len
      BY <1>1, <1>2, <2>5
    <3>2. len + i \in 1..m /\ b.reader + len + i = b.reader + (len + i)
      BY <1>1, <1>2, <3>1
    <3>3. Readable(c)[i] = b.vec[b.reader + len + i]
      BY <2>5, <3>1
    <3>4. rest[i] = r[len + i]
      BY <1>3, <3>1
    <3>5. r[len + i] = b.vec[b.reader + (len + i)]
      BY <1>2, <3>2
    <3> QED BY <3>2, <3>3, <3>4, <3>5
  <2>8. Readable(c) = rest
    <3> HIDE DEF rest
    <3> QED BY <1>3, <2>5, <2>6, <2>7, SeqEqual
  <2> QED BY <2>4, <2>8 DEF c
<1>5. CASE ~(len < ReadableBytes(b))
  <2>1. c = [b EXCEPT !.reader = CheapPrepend, !.writer = CheapPrepend]
    BY <1>5 DEF Retrieve, RetrieveAll
  <2>2. c = [vec |-> b.vec, reader |-> CheapPrepend, writer |-> CheapPrepend]
    BY <1>1, <2>1
  <2>3. len = m
    BY <1>1, <1>2, <1>5 DEF ReadableBytes
  <2> HIDE DEF c
  <2>4. IsBuffer(c, S)
    BY <1>1, <2>2 DEF IsBuffer
  <2>5. Readable(c) \in Seq(S) /\ Len(Readable(c)) = 0
    BY <2>2, <2>4, ReadableProperties
  <2>6. rest = << >>
    <3> HIDE DEF m, r
    <3>1. len + 1 \in Int /\ m \in Int /\ m < len + 1
      BY <1>2, <2>3
    <3> QED BY <3>1, SubSeqEmpty
  <2>7. Readable(c) = rest
    <3> HIDE DEF rest
    <3> QED BY <2>5, <2>6, EmptySeq
  <2> QED BY <2>4, <2>7 DEF c
<1> QED BY <1>4, <1>5

(* prepend puts the bytes in front of the readable ones.                   *)
THEOREM PrependKeeps ==
  ASSUME NEW S, NEW b, IsBuffer(b, S), NEW bytes \in Seq(S), MayPrepend(b, bytes)
  PROVE  /\ IsBuffer(Prepend(b, bytes), S)
         /\ Readable(Prepend(b, bytes)) = bytes \o Readable(b)
<1> DEFINE c == Prepend(b, bytes)
           k == Len(bytes)
           n == b.reader - k
           u == b.vec
           v == CopyTo(u, n, bytes)
           w == bytes \o Readable(b)
<1>1. /\ b.reader \in Nat /\ b.writer \in Nat /\ u \in Seq(S) /\ Len(u) \in Nat
      /\ b.reader <= b.writer /\ b.writer <= Len(u) /\ CheapPrepend <= Len(u)
      /\ k \in Nat /\ k <= b.reader
  BY LenProperties DEF IsBuffer, MayPrepend, PrependableBytes
<1>2. n \in Nat /\ n + k = b.reader
  BY <1>1
<1>3. /\ v \in Seq(S) /\ Len(v) = Len(u)
      /\ \A i \in 1..Len(u) :
            v[i] = IF i - n \in 1..k THEN bytes[i - n] ELSE u[i]
  <2> HIDE DEF u, n
  <2> QED BY <1>1, <1>2, CopyToProperties
<1>4. /\ Readable(b) \in Seq(S) /\ Len(Readable(b)) = b.writer - b.reader
      /\ \A i \in 1..b.writer - b.reader : Readable(b)[i] = u[b.reader + i]
  BY ReadableProperties
<1>5. /\ w \in Seq(S) /\ Len(w) = k + Len(Readable(b))
      /\ \A i \in 1..k + Len(Readable(b)) :
            w[i] = IF i <= k THEN bytes[i] ELSE Readable(b)[i - k]
  BY <1>4, ConcatProperties
<1>6. c = [vec |-> v, reader |-> n, writer |-> b.writer]
  BY DEF Prepend
<1> HIDE DEF c, v, w, n, u, k
<1>7. IsBuffer(c, S)
  BY <1>1, <1>2, <1>3, <1>6 DEF IsBuffer
<1>8. /\ Readable(c) \in Seq(S) /\ Len(Readable(c)) = b.writer - n
      /\ \A i \in 1..b.writer - n : Readable(c)[i] = v[n + i]
  BY <1>6, <1>7, ReadableProperties
<1>9. Len(Readable(c)) = Len(w)
  BY <1>1, <1>2, <1>4, <1>5, <1>8
<1>10. ASSUME NEW i \in 1..Len(Readable(c))
       PROVE  Readable(c)[i] = w[i]
  <2>1. i \in 1..b.writer - n /\ n + i \in 1..Len(u) /\ (n + i) - n = i
        /\ i \in 1..k + Len(Readable(b))
    BY <1>1, <1>2, <1>4, <1>8, SMTT(30)
  <2> DEFINE p == n + i
  <2>2. p \in 1..Len(u) /\ p - n = i
    BY <2>1
  <2>3. v[p] = IF i \in 1..k THEN bytes[i] ELSE u[p]
    <3>1. v[p] = IF p - n \in 1..k THEN bytes[p - n] ELSE u[p]
      <4> HIDE DEF p
      <4> QED BY <1>3, <2>2
    <3> HIDE DEF p
    <3> QED BY <2>2, <3>1
  <2>4. Readable(c)[i] = v[p]
    BY <1>8, <2>1
  <2>5. CASE i <= k
    <3>1. i \in 1..k
      BY <1>1, <2>1, <2>5
    <3> HIDE DEF p
    <3> QED BY <1>5, <2>1, <2>3, <2>4, <2>5, <3>1
  <2>6. CASE ~(i <= k)
    <3>1. /\ ~(i \in 1..k) /\ i - k \in 1..b.writer - b.reader
          /\ p = b.reader + (i - k)
      BY <1>1, <1>2, <1>4, <2>1, <2>6, SMTT(30)
    <3> DEFINE j == i - k
    <3>2. j \in 1..b.writer - b.reader /\ p = b.reader + j
      BY <3>1
    <3>3. w[i] = Readable(b)[j]
      BY <1>5, <2>1, <2>6
    <3> HIDE DEF p, j
    <3>4. Readable(b)[j] = u[p]
      BY <1>4, <3>2
    <3> QED BY <2>3, <2>4, <3>1, <3>3, <3>4
  <2> QED BY <1>1, <2>1, <2>5, <2>6
<1>11. Readable(c) = w
  BY <1>5, <1>8, <1>9, <1>10, SeqEqual
<1> QED BY <1>7, <1>11 DEF c, w

-----------------------------------------------------------------------------
(* Integers.  The integers of each size, and the bytes they are made of.   *)
ByteValues == 0..255

IntOf(size) == -(128 * Place[size])..128 * Place[size] - 1

(* A place more: the quotient by 256 and the remainder.                    *)
LEMMA OneDigit ==
  ASSUME NEW N \in Nat, NEW x \in -(256 * N)..256 * N - 1
  PROVE  /\ x \div 256 \in -N..N - 1
         /\ x = 256 * (x \div 256) + (x % 256)
  OBVIOUS

(* Dividing by 256 and then by a power of it divides by the next power.    *)
LEMMA DivDiv ==
  ASSUME NEW x \in Int, NEW m \in Nat \ {0}
  PROVE  (x \div 256) \div m = x \div (256 * m)
<1> DEFINE q == x \div 256
           r == q \div m
<1>1. q \in Int /\ 256 * q <= x /\ x < 256 * q + 256
  OBVIOUS
<1> HIDE DEF q
<1>2. r \in Int /\ m * r <= q /\ q < m * r + m
  BY <1>1
<1> HIDE DEF r
<1>3. 256 * (m * r) <= x /\ x < 256 * (m * r) + 256 * m
  BY <1>1, <1>2
<1>4. (256 * m) * r <= x /\ x < (256 * m) * r + 256 * m
  BY <1>1, <1>2, <1>3
<1>5. x \div (256 * m) = r
  BY <1>2, <1>4
<1> QED BY <1>5 DEF q, r

(* The first byte gives the sign back.                                     *)
LEMMA SignedByte ==
  ASSUME NEW q \in -128..127
  PROVE  Signed(q % 256) = q
<1>1. CASE q >= 0
  <2>1. q % 256 = q
    BY <1>1
  <2> QED BY <2>1 DEF Signed
<1>2. CASE q < 0
  <2>1. q % 256 = q + 256
    BY <1>2
  <2> QED BY <2>1, <1>2 DEF Signed
<1> QED BY <1>1, <1>2

(* The bytes of an integer are bytes, and networkToHost undoes             *)
(* hostToNetwork, for negative integers too.                               *)
LEMMA NetworkOrder ==
  ASSUME NEW size \in {1, 2, 4}, NEW x \in IntOf(size)
  PROVE  /\ HostToNetwork(x, size) \in Seq(ByteValues)
         /\ Len(HostToNetwork(x, size)) = size
         /\ NetworkToHost(HostToNetwork(x, size)) = x
<1> DEFINE w == HostToNetwork(x, size)
<1>1. x \in Int /\ size \in Nat
  BY DEF IntOf
<1>2. \A i \in 1..size : Place[size - i + 1] \in Nat /\ Place[size - i + 1] > 0
  BY DEF Place
<1>3. \A i \in 1..size : (x \div Place[size - i + 1]) % 256 \in ByteValues
  <2> TAKE i \in 1..size
  <2>1. x \div Place[size - i + 1] \in Int
    BY <1>1, <1>2
  <2> QED BY <2>1 DEF ByteValues
<1>4. w = [i \in 1..size |-> (x \div Place[size - i + 1]) % 256] /\ w \in [1..size -> ByteValues]
  BY <1>3 DEF HostToNetwork
<1>5. w \in Seq(ByteValues) /\ Len(w) = size
  <2> HIDE DEF w
  <2>1. w \in Seq(ByteValues)
    BY <1>1, <1>4, SeqDef
  <2>2. DOMAIN w = 1..size /\ Len(w) \in Nat /\ DOMAIN w = 1..Len(w)
    BY <1>4, <2>1, LenProperties
  <2> QED BY <1>1, <2>1, <2>2
<1>6. \A i \in 1..size : w[i] = (x \div Place[size - i + 1]) % 256
  BY DEF HostToNetwork
<1>7. NetworkToHost(w) = x
  <2> HIDE DEF w
  <2>1. CASE size = 1
    <3>1. w[1] = (x \div 1) % 256
      BY <1>6, <2>1 DEF Place
    <3>2. NetworkToHost(w) = Signed(w[1])
      <4>1. w[1] \in Int
        BY <1>1, <3>1
      <4> QED BY <1>5, <2>1, <4>1 DEF NetworkToHost, Place, Signed
    <3>3. x \in -128..127
      BY <2>1 DEF IntOf, Place
    <3> QED BY <3>1, <3>2, <3>3 DEF Signed
  <2>2. CASE size = 2
    <3>1. w[1] = (x \div 256) % 256 /\ w[2] = (x \div 1) % 256
      BY <1>6, <2>2 DEF Place
    <3>2. NetworkToHost(w) = 256 * Signed(w[1]) + w[2]
      BY <1>5, <2>2 DEF NetworkToHost, Place
    <3>3. x \in -(128 * 256)..128 * 256 - 1
      BY <2>2 DEF IntOf, Place
    <3> DEFINE q == x \div 256
    <3>4. x = 256 * q + (x % 256) /\ q \in -128..127 /\ x \div 1 = x
      <4> DEFINE L == 128
      <4>1. L \in Nat /\ 256 * L = 128 * 256
        OBVIOUS
      <4> HIDE DEF L
      <4>2. x \in -(256 * L)..256 * L - 1
        BY <3>3, <4>1
      <4>3. x \div 256 \in -L..L - 1 /\ x = 256 * (x \div 256) + (x % 256)
        BY <4>1, <4>2, OneDigit
      <4>4. x \in Int
        BY <4>1, <4>2, SMTT(30)
      <4>5. x \div 1 = x
        BY <4>4
      <4> QED BY <4>3, <4>5 DEF L
    <3>5. Signed(w[1]) = q
      <4>1. w[1] = q % 256
        BY <3>1
      <4> HIDE DEF q
      <4>2. Signed(q % 256) = q
        BY <3>4, SignedByte
      <4> QED BY <4>1, <4>2, Zenon
    <3> HIDE DEF q
    <3>6. w[2] = x % 256
      BY <3>1, <3>4, Zenon
    <3>7. NetworkToHost(w) = 256 * q + (x % 256)
      BY <3>2, <3>5, <3>6, Zenon
    <3> QED BY <3>4, <3>7, Zenon
  <2>3. CASE size = 4
    <3> DEFINE T == 256 * 256 * 256
    <3>1. /\ w[1] = (x \div T) % 256 /\ w[2] = (x \div (256 * 256)) % 256
          /\ w[3] = (x \div 256) % 256 /\ w[4] = (x \div 1) % 256
      BY <1>6, <2>3 DEF Place
    <3>2. NetworkToHost(w) = T * Signed(w[1]) + 256 * 256 * w[2] + 256 * w[3] + w[4]
      BY <1>5, <2>3 DEF NetworkToHost, Place
    <3>3. x \in -(128 * T)..128 * T - 1
      BY <2>3 DEF IntOf, Place
    <3> DEFINE p == x \div 256
           q == p \div 256
           r == q \div 256
           M == 128 * 256
           N == 128 * 256 * 256
    <3>4. N \in Nat /\ M \in Nat /\ 256 * N = 128 * T /\ 256 * M = N /\ 256 * 128 = M
      OBVIOUS
    <3> HIDE DEF M, N, p, q, r
    <3>5. x = 256 * p + (x % 256) /\ p \in -N..N - 1 /\ x \in Int /\ x \div 1 = x
      <4>1. x \in -(256 * N)..256 * N - 1
        <5> HIDE DEF T
        <5> QED BY <3>3, <3>4
      <4>2. x \div 256 \in -N..N - 1 /\ x = 256 * (x \div 256) + (x % 256)
        BY <3>4, <4>1, OneDigit
      <4>3. x \in Int
        BY <3>4, <4>1
      <4> QED BY <4>2, <4>3 DEF p
    <3>6. p = 256 * q + (p % 256) /\ q \in -M..M - 1 /\ p \in Int
      <4>1. p \in -(256 * M)..256 * M - 1 /\ p \in Int
        BY <3>4, <3>5
      <4>2. p \div 256 \in -M..M - 1 /\ p = 256 * (p \div 256) + (p % 256)
        BY <3>4, <4>1, OneDigit
      <4> QED BY <4>1, <4>2 DEF q
    <3>7. q = 256 * r + (q % 256) /\ r \in -128..127
      <4> DEFINE L == 128
      <4>1. L \in Nat /\ 256 * L = M
        BY <3>4
      <4> HIDE DEF L
      <4>2. q \in -(256 * L)..256 * L - 1
        BY <3>4, <3>6, <4>1
      <4>3. q \div 256 \in -L..L - 1 /\ q = 256 * (q \div 256) + (q % 256)
        BY <4>1, <4>2, OneDigit
      <4> QED BY <4>3 DEF r, L
    <3>8. q = x \div (256 * 256)
      BY <3>5, DivDiv DEF p, q
    <3>9. r = x \div T
      <4>1. (p \div 256) \div 256 = p \div (256 * 256)
        BY <3>6, DivDiv
      <4>2. 256 * 256 \in Nat \ {0} /\ 256 * (256 * 256) = T
        OBVIOUS
      <4>3. (x \div 256) \div (256 * 256) = x \div (256 * (256 * 256))
        BY <3>5, <4>2, DivDiv
      <4> QED BY <4>1, <4>2, <4>3 DEF p, q, r
    <3>10. Signed(r % 256) = r
      BY <3>7, SignedByte
    <3>11. NetworkToHost(w) = T * r + 256 * 256 * (q % 256) + 256 * (p % 256) + (x % 256)
      <4>1. w[1] = r % 256 /\ w[2] = q % 256 /\ w[3] = p % 256 /\ w[4] = x % 256
        BY <3>1, <3>5, <3>8, <3>9 DEF p
      <4> HIDE DEF T
      <4> QED BY <3>2, <3>10, <4>1
    <3> QED BY <3>5, <3>6, <3>7, <3>11
  <2> QED BY <2>1, <2>2, <2>3
<1> QED BY <1>5, <1>7

(* The front and the back of a concatenation.                              *)
LEMMA SplitConcat ==
  ASSUME NEW S, NEW u \in Seq(S), NEW v \in Seq(S)
  PROVE  /\ SubSeq(u \o v, 1, Len(u)) = u
         /\ SubSeq(u \o v, Len(u) + 1, Len(u \o v)) = v
<1> DEFINE m == Len(u)
           n == Len(v)
           t == u \o v
           front == SubSeq(t, 1, m)
           back == SubSeq(t, m + 1, m + n)
<1>1. m \in Nat /\ n \in Nat
  BY LenProperties
<1>2. /\ t \in Seq(S) /\ Len(t) = m + n
      /\ \A i \in 1..m + n : t[i] = IF i <= m THEN u[i] ELSE v[i - m]
  BY ConcatProperties
<1> HIDE DEF m, n, t
<1>3. \A i \in 1..m + n : t[i] \in S
  BY <1>2, ElementOfSeq
<1>4. /\ front \in Seq(S) /\ Len(front) = m
      /\ \A i \in 1..m : front[i] = t[i]
  <2>1. \A i \in 1..m : t[i] \in S
    BY <1>1, <1>3
  <2>2. /\ front \in Seq(S) /\ Len(front) = IF 1 <= m THEN m - 1 + 1 ELSE 0
        /\ \A i \in 1..m - 1 + 1 : front[i] = t[1 + i - 1]
    BY <1>1, <2>1, SubSeqProperties
  <2> HIDE DEF front
  <2> QED BY <1>1, <2>2
<1>5. /\ back \in Seq(S) /\ Len(back) = n
      /\ \A i \in 1..n : back[i] = t[m + i]
  <2> DEFINE first == m + 1
             last == m + n
  <2>1. first \in Int /\ last \in Int /\ \A i \in first..last : t[i] \in S
    BY <1>1, <1>3
  <2>2. back = SubSeq(t, first, last)
    OBVIOUS
  <2>3. last - first + 1 = n /\ (~(first <= last) => n = 0)
    BY <1>1
  <2>4. \A i \in 1..n : first + i - 1 = m + i
    BY <1>1
  <2> HIDE DEF first, last, back
  <2>5. /\ back \in Seq(S)
        /\ Len(back) = IF first <= last THEN last - first + 1 ELSE 0
        /\ \A i \in 1..last - first + 1 : back[i] = t[first + i - 1]
    BY <2>1, <2>2, SubSeqProperties
  <2> QED BY <2>3, <2>4, <2>5
<1> HIDE DEF front, back
<1>6. front = u
  <2>1. \A i \in 1..m : front[i] = u[i]
    BY <1>1, <1>2, <1>4
  <2> QED BY <1>4, <2>1, SeqEqual DEF m
<1>7. back = v
  <2>1. ASSUME NEW i \in 1..n PROVE back[i] = v[i]
    <3>1. m + i \in 1..m + n /\ ~(m + i <= m) /\ (m + i) - m = i
      BY <1>1
    <3> QED BY <1>2, <1>5, <3>1
  <2> QED BY <1>5, <2>1, SeqEqual DEF n
<1> QED BY <1>2, <1>6, <1>7 DEF front, back, m, t

(* What prependInt puts in front readInt gives back, and the bytes that    *)
(* were there are there again (Buffer.h:116-129, 215-281): this is how a   *)
(* length is put before a message that is already in the buffer.           *)
THEOREM PrependedIntIsRead ==
  ASSUME NEW S, ByteValues \subseteq S, NEW b, IsBuffer(b, S),
         NEW size \in {1, 2, 4}, NEW x \in IntOf(size),
         MayPrepend(b, HostToNetwork(x, size))
  PROVE  LET r == ReadInt(PrependInt(b, x, size), size)
         IN  /\ MayRetrieve(PrependInt(b, x, size), size)
             /\ IsBuffer(r.buffer, S)
             /\ r.result = x
             /\ Readable(r.buffer) = Readable(b)
<1> DEFINE w == HostToNetwork(x, size)
           c == PrependInt(b, x, size)
<1>1. w \in Seq(S) /\ Len(w) = size /\ NetworkToHost(w) = x
  BY NetworkOrder, SeqMonotonic
<1> HIDE DEF w
<1>2. IsBuffer(c, S) /\ Readable(c) = w \o Readable(b)
  BY <1>1, PrependKeeps DEF PrependInt, w
<1> HIDE DEF c
<1>3. Readable(b) \in Seq(S)
  BY ReadableProperties
<1>4. MayRetrieve(c, size)
  <2>1. Len(w \o Readable(b)) = size + Len(Readable(b)) /\ Len(Readable(b)) \in Nat
    BY <1>1, <1>3, ConcatProperties, LenProperties
  <2>2. Len(Readable(c)) = ReadableBytes(c)
    BY <1>2, ReadableProperties DEF ReadableBytes
  <2> QED BY <1>2, <2>1, <2>2 DEF MayRetrieve
<1>5. PeekInt(c, size) = x
  BY <1>1, <1>2, <1>3, SplitConcat DEF PeekInt
<1>6. IsBuffer(Retrieve(c, size), S) /\ Readable(Retrieve(c, size)) = Readable(b)
  <2> DEFINE t == w \o Readable(b)
  <2>1. SubSeq(t, size + 1, Len(t)) = Readable(b)
    BY <1>1, <1>3, SplitConcat
  <2> HIDE DEF t
  <2>2. Readable(c) = t
    BY <1>2 DEF t
  <2>3. size \in Nat
    OBVIOUS
  <2> QED BY <1>2, <1>4, <2>1, <2>2, <2>3, RetrieveKeeps
<1> QED BY <1>4, <1>5, <1>6 DEF ReadInt, c

(* What appendInt puts behind the bytes readInt gives back once they are   *)
(* retrieved, and nothing of it is left (Buffer.h:194-254).                *)
THEOREM AppendedIntIsRead ==
  ASSUME NEW S, ByteValues \subseteq S, Blank \in S, NEW b, IsBuffer(b, S),
         NEW size \in {1, 2, 4}, NEW x \in IntOf(size)
  PROVE  LET c == Retrieve(AppendInt(b, x, size), ReadableBytes(b))
         IN  /\ MayRetrieve(AppendInt(b, x, size), ReadableBytes(b))
             /\ MayRetrieve(c, size)
             /\ ReadInt(c, size).result = x
             /\ ReadableBytes(ReadInt(c, size).buffer) = 0
<1> DEFINE w == HostToNetwork(x, size)
           a == AppendInt(b, x, size)
           n == ReadableBytes(b)
           c == Retrieve(a, n)
           d == Retrieve(c, size)
<1>1. w \in Seq(S) /\ Len(w) = size /\ NetworkToHost(w) = x /\ size \in Nat
  <2>1. w \in Seq(ByteValues) /\ Len(w) = size /\ NetworkToHost(w) = x
    BY NetworkOrder
  <2>2. w \in Seq(S)
    BY <2>1, SeqMonotonic
  <2> HIDE DEF w
  <2> QED BY <2>1, <2>2
<1> HIDE DEF w
<1>2. IsBuffer(a, S) /\ Readable(a) = Readable(b) \o w
  BY <1>1, AppendKeeps DEF AppendInt, w
<1>3. Readable(b) \in Seq(S) /\ Len(Readable(b)) = n /\ n \in Nat
  BY ReadableProperties, LenProperties DEF ReadableBytes
<1> HIDE DEF a, n
<1>4. MayRetrieve(a, n)
  <2>1. Len(Readable(a)) = n + size
    BY <1>1, <1>2, <1>3, ConcatProperties
  <2>2. Len(Readable(a)) = ReadableBytes(a)
    BY <1>2, ReadableProperties DEF ReadableBytes
  <2> QED BY <1>1, <1>3, <2>1, <2>2 DEF MayRetrieve
<1>5. IsBuffer(c, S) /\ Readable(c) = w
  <2>1. IsBuffer(c, S) /\ Readable(c) = SubSeq(Readable(a), n + 1, Len(Readable(a)))
    BY <1>2, <1>3, <1>4, RetrieveKeeps
  <2>2. SubSeq(Readable(b) \o w, Len(Readable(b)) + 1, Len(Readable(b) \o w)) = w
    BY <1>1, <1>3, SplitConcat
  <2> QED BY <1>2, <1>3, <2>1, <2>2
<1> HIDE DEF c
<1>6. ReadableBytes(c) = size /\ MayRetrieve(c, size)
  <2>1. Len(Readable(c)) = ReadableBytes(c)
    BY <1>5, ReadableProperties DEF ReadableBytes
  <2> QED BY <1>1, <1>5, <2>1 DEF MayRetrieve
<1>7. PeekInt(c, size) = x
  BY <1>1, <1>5, SubSeqFull DEF PeekInt
<1>8. ReadableBytes(d) = 0
  BY <1>6 DEF Retrieve, RetrieveAll, ReadableBytes
<1> QED BY <1>4, <1>6, <1>7, <1>8 DEF ReadInt, a, c, n

HIDE BufferAssumption

-----------------------------------------------------------------------------
(* There is a least among natural numbers.                                 *)
LEMMA Least ==
  ASSUME NEW T, T \subseteq Nat, T # {}
  PROVE  \E x \in T : \A y \in T : x <= y
<1>1. IsWellFoundedOn({p \in Nat \X Nat : p[1] < p[2]}, Nat)
  BY NatLessThanWellFounded, Zenon DEF OpToRel
<1>2. PICK x \in T : \A y \in T : <<y, x>> \notin {p \in Nat \X Nat : p[1] < p[2]}
  BY <1>1, WFMin, Zenon
<1>3. ASSUME NEW y \in T PROVE x <= y
  <2>1. <<y, x>> \in Nat \X Nat /\ <<y, x>>[1] = y /\ <<y, x>>[2] = x
    OBVIOUS
  <2>2. ~(y < x)
    BY <1>2, <2>1
  <2>3. QED
    BY <2>2
<1>4. QED
  BY <1>3

(* Induction: a set that has 0, and n + 1 with n, has every number.        *)
LEMMA Induction ==
  ASSUME NEW T, 0 \in T, \A n \in Nat : n \in T => n + 1 \in T
  PROVE  Nat \subseteq T
<1> DEFINE others == {n \in Nat : n \notin T}
<1>1. SUFFICES ASSUME others # {} PROVE FALSE
  OBVIOUS
<1>2. PICK m \in others : \A n \in others : m <= n
  <2>1. others \subseteq Nat
    OBVIOUS
  <2> HIDE DEF others
  <2>2. QED
    BY <1>1, <2>1, Least
<1>3. m \in Nat /\ m # 0
  OBVIOUS
<1>4. m - 1 \in Nat /\ m - 1 \in T
  BY <1>2, <1>3
<1>5. m \in T
  BY <1>3, <1>4
<1>6. QED
  BY <1>5

(* The sequences in e, one after the other: what the recursive functions   *)
(* in Encode and Stream put together.                                      *)
IsUpTo(f, n, e) ==
  f = [i \in 0..n |-> IF i = 0 THEN << >> ELSE f[i - 1] \o e[i]]

(* There is such a function, and its values are sequences.                 *)
LEMMA UpToExists ==
  ASSUME NEW S, NEW n \in Nat, NEW e, \A i \in 1..n : e[i] \in Seq(S)
  PROVE  \E f \in [0..n -> Seq(S)] : IsUpTo(f, n, e)
<1> DEFINE T == {m \in Nat : m <= n =>
                    \E f \in [0..m -> Seq(S)] : IsUpTo(f, m, e)}
<1>1. 0 \in T
  <2> DEFINE f == [i \in 0..0 |-> << >>]
  <2>1. f \in [0..0 -> Seq(S)] /\ IsUpTo(f, 0, e)
    BY DEF IsUpTo
  <2>2. QED
    BY <2>1
<1>2. ASSUME NEW m \in Nat, m \in T PROVE m + 1 \in T
  <2>1. CASE m + 1 <= n
    <3>1. PICK f \in [0..m -> Seq(S)] : IsUpTo(f, m, e)
      BY <1>2, <2>1
    <3> DEFINE g == [i \in 0..m + 1 |-> IF i = m + 1 THEN f[m] \o e[m + 1] ELSE f[i]]
    <3>2. e[m + 1] \in Seq(S) /\ f[m] \in Seq(S)
      BY <2>1
    <3>3. f[m] \o e[m + 1] \in Seq(S)
      BY <3>2, ConcatProperties
    <3>4. g \in [0..m + 1 -> Seq(S)]
      BY <3>3
    <3>5. \A i \in 0..m : f[i] = IF i = 0 THEN << >> ELSE f[i - 1] \o e[i]
      BY <3>1, Zenon DEF IsUpTo
    <3>6. \A i \in 0..m + 1 : g[i] = IF i = 0 THEN << >> ELSE g[i - 1] \o e[i]
      <4>1. ASSUME NEW i \in 0..m + 1
            PROVE  g[i] = IF i = 0 THEN << >> ELSE g[i - 1] \o e[i]
        <5>1. CASE i = m + 1
          <6>1. i - 1 = m /\ i # 0 /\ m \in 0..m + 1 /\ m # m + 1
            BY <5>1
          <6>2. g[i] = f[m] \o e[i] /\ g[m] = f[m]
            BY <5>1, <6>1
          <6>3. QED
            BY <6>1, <6>2, Zenon
        <5>2. CASE i # m + 1 /\ i # 0
          <6>1. i \in 0..m /\ i - 1 \in 0..m + 1 /\ i - 1 # m + 1
            BY <5>2
          <6>2. g[i] = f[i] /\ g[i - 1] = f[i - 1]
            BY <5>2, <6>1
          <6>3. QED
            BY <3>5, <5>2, <6>1, <6>2, Zenon
        <5>3. CASE i = 0
          <6>1. g[i] = f[i] /\ i \in 0..m
            BY <5>3
          <6>2. QED
            BY <3>5, <5>3, <6>1, Zenon
        <5>4. QED
          BY <5>1, <5>2, <5>3
      <4>2. QED
        BY <4>1
    <3>7. IsUpTo(g, m + 1, e)
      <4>1. g = [i \in 0..m + 1 |-> g[i]]
        OBVIOUS
      <4> HIDE DEF g
      <4>2. QED
        BY <3>6, <4>1, Zenon DEF IsUpTo
    <3>8. \E h \in [0..m + 1 -> Seq(S)] : IsUpTo(h, m + 1, e)
      <4> HIDE DEF g
      <4>1. QED
        BY <3>4, <3>7
    <3>9. QED
      BY <3>8
  <2>2. CASE ~(m + 1 <= n)
    BY <2>2
  <2>3. QED
    BY <2>1, <2>2
<1>3. Nat \subseteq T
  <2> HIDE DEF T
  <2>1. QED
    BY <1>1, <1>2, Induction, Zenon
<1>4. n \in T
  BY <1>3
<1>5. QED
  BY <1>4

Agree(d, e, n) == \A i \in 1..n : d[i] = e[i]

(* It is the only one, for a part of the sequences as for all of them.     *)
LEMMA UpToUnique ==
  ASSUME NEW m \in Nat, NEW n \in Nat, m <= n, NEW d, NEW e,
         Agree(d, e, m), NEW f, IsUpTo(f, m, d), NEW g, IsUpTo(g, n, e)
  PROVE  \A i \in 0..m : f[i] = g[i]
<1> DEFINE T == {i \in Nat : i <= m => f[i] = g[i]}
<1>1. \A i \in 0..m : f[i] = IF i = 0 THEN << >> ELSE f[i - 1] \o d[i]
  BY Zenon DEF IsUpTo
<1>2. \A i \in 0..n : g[i] = IF i = 0 THEN << >> ELSE g[i - 1] \o e[i]
  BY Zenon DEF IsUpTo
<1>3. 0 \in T
  <2>1. 0 \in 0..m /\ 0 \in 0..n
    OBVIOUS
  <2>2. QED
    BY <1>1, <1>2, <2>1
<1>4. ASSUME NEW i \in Nat, i \in T PROVE i + 1 \in T
  <2>1. CASE i + 1 <= m
    <3>1. i + 1 \in 0..m /\ i + 1 \in 0..n /\ i + 1 # 0 /\ (i + 1) - 1 = i
          /\ f[i] = g[i] /\ d[i + 1] = e[i + 1]
      BY <1>4, <2>1 DEF Agree
    <3>2. f[i + 1] = f[i] \o d[i + 1] /\ g[i + 1] = g[i] \o e[i + 1]
      BY <1>1, <1>2, <3>1, Zenon
    <3>3. f[i + 1] = g[i + 1]
      BY <3>1, <3>2, Zenon
    <3>4. QED
      BY <3>3
  <2>2. CASE ~(i + 1 <= m)
    BY <2>2
  <2>3. QED
    BY <2>1, <2>2
<1>5. Nat \subseteq T
  <2> HIDE DEF T
  <2>1. QED
    BY <1>3, <1>4, Induction, Zenon
<1>6. QED
  BY <1>5

-----------------------------------------------------------------------------
Texts == Lines \cup Headers
Bytes == [text : Texts \cup {"CR", "LF"}, path : Nat] \cup {Blank}
CR == Byte("CR", 0)
LF == Byte("LF", 0)

(* What is behind the first bytes does not change them.                    *)
LEMMA ConcatIndices ==
  ASSUME NEW S, NEW u \in Seq(S), NEW v \in Seq(S)
  PROVE  /\ u \o v \in Seq(S) /\ Len(u \o v) = Len(u) + Len(v)
         /\ \A i \in 1..Len(u) : (u \o v)[i] = u[i]
         /\ \A i \in 1..Len(v) : (u \o v)[Len(u) + i] = v[i]
<1>1. /\ u \o v \in Seq(S) /\ Len(u \o v) = Len(u) + Len(v)
      /\ \A i \in 1..Len(u) + Len(v) :
            (u \o v)[i] = IF i <= Len(u) THEN u[i] ELSE v[i - Len(u)]
  BY ConcatProperties
<1>2. Len(u) \in Nat /\ Len(v) \in Nat
  BY LenProperties
<1>3. ASSUME NEW i \in 1..Len(u) PROVE (u \o v)[i] = u[i]
  <2>1. i \in 1..Len(u) + Len(v) /\ i <= Len(u)
    BY <1>2
  <2>2. QED
    BY <1>1, <2>1, Zenon
<1>4. ASSUME NEW i \in 1..Len(v) PROVE (u \o v)[Len(u) + i] = v[i]
  <2>1. /\ Len(u) + i \in 1..Len(u) + Len(v) /\ ~(Len(u) + i <= Len(u))
        /\ (Len(u) + i) - Len(u) = i
    BY <1>2
  <2>2. QED
    BY <1>1, <2>1, Zenon
<1>5. QED
  BY <1>1, <1>3, <1>4

(* A line has a byte for its text and the two of its end.                  *)
LEMMA LineBytes ==
  ASSUME NEW text \in Texts, NEW path \in Nat
  PROVE  /\ <<Byte(text, path)>> \o CRLF \in Seq(Bytes)
         /\ <<Byte(text, path)>> \o CRLF = <<Byte(text, path), CR, LF>>
<1>1. Byte(text, path) \in Bytes /\ CR \in Bytes /\ LF \in Bytes
  BY DEF Byte, CR, LF, Bytes
<1>2. CRLF = <<CR, LF>>
  BY DEF CRLF, CR, LF
<1> DEFINE b == Byte(text, path)
           u == <<b>>
           v == <<CR, LF>>
           w == <<b, CR, LF>>
<1>3. /\ u \in Seq(Bytes) /\ Len(u) = 1 /\ u[1] = b
      /\ v \in Seq(Bytes) /\ Len(v) = 2 /\ v[1] = CR /\ v[2] = LF
      /\ w \in Seq(Bytes) /\ Len(w) = 3 /\ w[1] = b /\ w[2] = CR /\ w[3] = LF
  <2> HIDE DEF b
  <2>1. b \in Bytes /\ CR \in Bytes /\ LF \in Bytes
    BY <1>1 DEF b
  <2>2. QED
    BY <2>1
<1> HIDE DEF b, u, v, w
<1>4. /\ u \o v \in Seq(Bytes) /\ Len(u \o v) = Len(u) + Len(v)
      /\ \A i \in 1..Len(u) : (u \o v)[i] = u[i]
      /\ \A i \in 1..Len(v) : (u \o v)[Len(u) + i] = v[i]
  <2>1. u \in Seq(Bytes) /\ v \in Seq(Bytes)
    BY <1>3
  <2>2. QED
    BY <2>1, ConcatIndices
<1> DEFINE s == u \o v
<1> HIDE DEF s
<1>5. s \in Seq(Bytes) /\ Len(s) = 3 /\ s[1] = b /\ s[2] = CR /\ s[3] = LF
  <2>1. /\ s \in Seq(Bytes) /\ Len(s) = 1 + 2
        /\ \A i \in 1..1 : s[i] = u[i]
        /\ \A i \in 1..2 : s[1 + i] = v[i]
    BY <1>3, <1>4, Zenon DEF s
  <2>2. s[1] = u[1] /\ s[1 + 1] = v[1] /\ s[1 + 2] = v[2]
    BY <2>1
  <2>3. QED
    BY <1>3, <2>1, <2>2
<1>6. \A i \in 1..Len(s) : s[i] = w[i]
  BY <1>3, <1>5
<1>7. s = w
  BY <1>3, <1>5, <1>6, SeqEqual
<1>8. QED
  BY <1>2, <1>5, <1>7, Zenon DEF b, u, v, w, s

(* The lines of a request, each with its end.                              *)
LineSeq(r, path) == [i \in 1..Len(r) |-> <<Byte(r[i], path)>> \o CRLF]

(* Encode puts the lines one after the other, and the empty line at the    *)
(* end.                                                                    *)
LEMMA EncodeUpTo ==
  ASSUME NEW r \in Seq(Texts), NEW path \in Nat
  PROVE  \E f \in [0..Len(r) -> Seq(Bytes)] :
            /\ IsUpTo(f, Len(r), LineSeq(r, path))
            /\ Encode(r, path) = f[Len(r)] \o CRLF
<1> DEFINE n == Len(r)
           e == LineSeq(r, path)
           c == CHOOSE f : f = [i \in 0..Len(r) |->
                  IF i = 0 THEN << >> ELSE f[i - 1] \o (<<Byte(r[i], path)>> \o CRLF)]
<1>1. n \in Nat /\ \A i \in 1..n : e[i] \in Seq(Bytes)
  BY LineBytes, ElementOfSeq, LenProperties DEF LineSeq
<1>2. PICK f \in [0..n -> Seq(Bytes)] : IsUpTo(f, n, e)
  <2> HIDE DEF n, e
  <2>1. QED
    BY <1>1, UpToExists
<1>3. \A i \in 1..n : e[i] = <<Byte(r[i], path)>> \o CRLF
  BY DEF LineSeq
<1>4. \A g : [i \in 0..n |-> IF i = 0 THEN << >> ELSE g[i - 1] \o e[i]]
             = [i \in 0..n |-> IF i = 0 THEN << >>
                               ELSE g[i - 1] \o (<<Byte(r[i], path)>> \o CRLF)]
  <2>1. \A i \in 0..n : i # 0 => i \in 1..n
    BY <1>1
  <2> HIDE DEF n, e
  <2>2. QED
    BY <1>3, <2>1, Zenon
<1>5. f = [i \in 0..n |-> IF i = 0 THEN << >>
                          ELSE f[i - 1] \o (<<Byte(r[i], path)>> \o CRLF)]
  BY <1>2, <1>4, Zenon DEF IsUpTo
<1>6. c = [i \in 0..n |-> IF i = 0 THEN << >>
                          ELSE c[i - 1] \o (<<Byte(r[i], path)>> \o CRLF)]
  BY <1>5, Zenon
<1>7. IsUpTo(c, n, e)
  BY <1>4, <1>6, Zenon DEF IsUpTo
<1>8. c[n] = f[n]
  <2> HIDE DEF n, e, c
  <2>1. Agree(e, e, n) /\ n <= n
    BY <1>1 DEF Agree
  <2>2. \A i \in 0..n : c[i] = f[i]
    BY <1>1, <1>2, <1>7, <2>1, UpToUnique
  <2>3. QED
    BY <1>1, <2>2
<1>9. Encode(r, path) = c[n] \o CRLF
  BY Zenon DEF Encode
<1>10. QED
  BY <1>2, <1>8, <1>9, Zenon

(* The bytes of a request are at pos in s.                                 *)
LinesAt(s, pos, r, path) ==
  \A i \in 1..Len(r) :
     /\ s[pos + 3 * i - 2] = Byte(r[i], path)
     /\ s[pos + 3 * i - 1] = CR /\ s[pos + 3 * i] = LF
RequestAt(s, pos, r, path) ==
  /\ pos + 3 * Len(r) + 2 <= Len(s)
  /\ LinesAt(s, pos, r, path)
  /\ s[pos + 3 * Len(r) + 1] = CR /\ s[pos + 3 * Len(r) + 2] = LF

(* Where the lines are among the bytes of a request.                       *)
LEMMA EncodeProperties ==
  ASSUME NEW r \in Seq(Texts), NEW path \in Nat
  PROVE  /\ Encode(r, path) \in Seq(Bytes)
         /\ Len(Encode(r, path)) = 3 * Len(r) + 2
         /\ RequestAt(Encode(r, path), 0, r, path)
<1> DEFINE n == Len(r)
           e == LineSeq(r, path)
<1>1. n \in Nat /\ CRLF \in Seq(Bytes) /\ CRLF = <<CR, LF>> /\ Len(CRLF) = 2
  <2>1. CR \in Bytes /\ LF \in Bytes
    BY DEF CR, LF, Byte, Bytes
  <2>2. CRLF = <<CR, LF>>
    BY DEF CRLF, CR, LF
  <2>3. <<CR, LF>> \in Seq(Bytes) /\ Len(<<CR, LF>>) = 2
    BY <2>1
  <2>4. QED
    BY <2>2, <2>3, LenProperties
<1>2. PICK f \in [0..n -> Seq(Bytes)] :
         IsUpTo(f, n, e) /\ Encode(r, path) = f[n] \o CRLF
  BY EncodeUpTo
<1>3. \A i \in 1..n : e[i] = <<Byte(r[i], path), CR, LF>> /\ e[i] \in Seq(Bytes)
  BY LineBytes, ElementOfSeq DEF LineSeq
<1> HIDE DEF n, e
<1>4. f[0] = << >> /\ \A i \in 1..n : f[i] = f[i - 1] \o e[i]
  <2>1. \A i \in 0..n : f[i] = IF i = 0 THEN << >> ELSE f[i - 1] \o e[i]
    BY <1>2, Zenon DEF IsUpTo
  <2>2. 0 \in 0..n /\ \A i \in 1..n : i \in 0..n /\ i # 0
    BY <1>1
  <2>3. QED
    BY <2>1, <2>2, Zenon
<1> DEFINE Lay(m) == /\ Len(f[m]) = 3 * m
                     /\ \A i \in 1..m : /\ f[m][3 * i - 2] = Byte(r[i], path)
                                        /\ f[m][3 * i - 1] = CR /\ f[m][3 * i] = LF
           T == {m \in Nat : m <= n => Lay(m)}
<1>5. 0 \in T
  BY <1>4
<1>6. ASSUME NEW m \in Nat, m \in T PROVE m + 1 \in T
  <2>1. CASE m + 1 <= n
    <3>1. m + 1 \in 1..n /\ m \in 0..n /\ (m + 1) - 1 = m /\ Lay(m)
      BY <1>1, <1>6, <2>1
    <3> DEFINE u == f[m]
               v == e[m + 1]
               w == f[m + 1]
    <3>2. u \in Seq(Bytes) /\ v \in Seq(Bytes) /\ w = u \o v
      BY <1>2, <1>3, <1>4, <3>1, Zenon
    <3>3. v = <<Byte(r[m + 1], path), CR, LF>>
      BY <1>3, <3>1, Zenon
    <3>4. Len(v) = 3 /\ v[1] = Byte(r[m + 1], path) /\ v[2] = CR /\ v[3] = LF
      BY <3>3
    <3>5. /\ Len(u) = 3 * m
          /\ \A i \in 1..m : /\ u[3 * i - 2] = Byte(r[i], path)
                             /\ u[3 * i - 1] = CR /\ u[3 * i] = LF
      BY <3>1
    <3>6. /\ Len(w) = Len(u) + Len(v)
          /\ \A i \in 1..Len(u) : w[i] = u[i]
          /\ \A i \in 1..Len(v) : w[Len(u) + i] = v[i]
      <4> HIDE DEF u, v, w
      <4>1. QED
        BY <3>2, ConcatIndices
    <3> HIDE DEF u, v, w
    <3>7. Len(w) = 3 * (m + 1)
      BY <3>4, <3>5, <3>6
    <3>8. ASSUME NEW i \in 1..m + 1
          PROVE  w[3 * i - 2] = Byte(r[i], path) /\ w[3 * i - 1] = CR /\ w[3 * i] = LF
      <4>1. CASE i = m + 1
        <5>1. w[3 * m + 1] = v[1] /\ w[3 * m + 2] = v[2] /\ w[3 * m + 3] = v[3]
          BY <3>4, <3>5, <3>6
        <5>2. 3 * i - 2 = 3 * m + 1 /\ 3 * i - 1 = 3 * m + 2 /\ 3 * i = 3 * m + 3
          BY <4>1
        <5>3. QED
          BY <3>4, <4>1, <5>1, <5>2, Zenon
      <4>2. CASE i # m + 1
        <5>1. /\ i \in 1..m /\ 3 * i - 2 \in 1..Len(u) /\ 3 * i - 1 \in 1..Len(u)
              /\ 3 * i \in 1..Len(u)
          BY <3>5, <4>2
        <5>2. QED
          BY <3>5, <3>6, <5>1, Zenon
      <4>3. QED
        BY <4>1, <4>2
    <3>9. Lay(m + 1)
      BY <3>7, <3>8, Zenon DEF w
    <3>10. QED
      BY <3>9
  <2>2. CASE ~(m + 1 <= n)
    BY <2>2
  <2>3. QED
    BY <2>1, <2>2
<1>7. Nat \subseteq T
  <2> HIDE DEF T
  <2>1. QED
    BY <1>5, <1>6, Induction, Zenon
<1>8. Lay(n)
  <2> HIDE DEF Lay
  <2>1. n \in Nat /\ n <= n
    BY <1>1
  <2>2. n \in T
    <3> HIDE DEF T
    <3>1. QED
      BY <1>7, <2>1
  <2>3. QED
    BY <2>1, <2>2
<1> DEFINE u == f[n]
           w == u \o CRLF
<1>9. u \in Seq(Bytes) /\ Encode(r, path) = w
  BY <1>1, <1>2
<1>10. /\ Len(u) = 3 * n
       /\ \A i \in 1..n : /\ u[3 * i - 2] = Byte(r[i], path)
                          /\ u[3 * i - 1] = CR /\ u[3 * i] = LF
  BY <1>8
<1> HIDE DEF u
<1>11. /\ w \in Seq(Bytes) /\ Len(w) = 3 * n + 2
       /\ \A i \in 1..3 * n : w[i] = u[i]
       /\ w[3 * n + 1] = CR /\ w[3 * n + 2] = LF
  <2>1. /\ w \in Seq(Bytes) /\ Len(w) = Len(u) + Len(CRLF)
        /\ \A i \in 1..Len(u) : w[i] = u[i]
        /\ \A i \in 1..Len(CRLF) : w[Len(u) + i] = CRLF[i]
    BY <1>1, <1>9, ConcatIndices
  <2>2. CRLF[1] = CR /\ CRLF[2] = LF
    BY <1>1
  <2> HIDE DEF w
  <2>3. QED
    BY <1>1, <1>10, <2>1, <2>2
<1> HIDE DEF w
<1>12. ASSUME NEW i \in 1..n
       PROVE  w[0 + 3 * i - 2] = Byte(r[i], path) /\ w[0 + 3 * i - 1] = CR
              /\ w[0 + 3 * i] = LF
  <2>1. /\ 0 + 3 * i - 2 = 3 * i - 2 /\ 0 + 3 * i - 1 = 3 * i - 1 /\ 0 + 3 * i = 3 * i
        /\ 3 * i - 2 \in 1..3 * n /\ 3 * i - 1 \in 1..3 * n /\ 3 * i \in 1..3 * n
    BY <1>1
  <2>2. QED
    BY <1>10, <1>11, <2>1, Zenon
<1>13. RequestAt(w, 0, r, path)
  <2>1. LinesAt(w, 0, r, path)
    BY <1>12, Zenon DEF LinesAt, n
  <2>2. 0 + 3 * n + 2 <= Len(w) /\ 0 + 3 * n + 1 = 3 * n + 1 /\ 0 + 3 * n + 2 = 3 * n + 2
    BY <1>1, <1>11
  <2>3. QED
    BY <1>11, <2>1, <2>2, Zenon DEF RequestAt, n
<1>14. QED
  BY <1>9, <1>11, <1>13, Zenon DEF n

-----------------------------------------------------------------------------
(* Stream, of any requests.                                                *)
StreamOf(c) == LET upTo[i \in 0..Len(c)] ==
                     IF i = 0 THEN << >> ELSE upTo[i - 1] \o Encode(c[i], i)
               IN  upTo[Len(c)]
Encodings(c) == [i \in 1..Len(c) |-> Encode(c[i], i)]

(* A request's lines are texts.                                            *)
LEMMA RequestLines ==
  ASSUME NEW r \in Requests
  PROVE  r \in Seq(Texts) /\ Len(r) \in Nat \ {0} /\ r[1] \in Lines
         /\ \A i \in 2..Len(r) : r[i] \in Headers
<1>1. r \in Seq(Texts) /\ r # << >> /\ r[1] \in Lines
      /\ \A i \in 2..Len(r) : r[i] \in Headers
  BY HttpAssumption DEF Texts
<1>2. QED
  BY <1>1, EmptySeq, LenProperties

(* Stream puts the requests' bytes one after the other.                    *)
LEMMA StreamUpTo ==
  ASSUME NEW q \in Seq(Requests)
  PROVE  \E f : /\ IsUpTo(f, Len(q), Encodings(q))
                /\ StreamOf(q) = f[Len(q)] /\ f[Len(q)] \in Seq(Bytes)
<1> DEFINE n == Len(q)
           e == Encodings(q)
           c == CHOOSE f : f = [i \in 0..Len(q) |->
                  IF i = 0 THEN << >> ELSE f[i - 1] \o Encode(q[i], i)]
<1>1. n \in Nat /\ \A i \in 1..n : e[i] \in Seq(Bytes)
  BY EncodeProperties, RequestLines, ElementOfSeq, LenProperties DEF Encodings
<1>2. PICK f \in [0..n -> Seq(Bytes)] : IsUpTo(f, n, e)
  <2> HIDE DEF n, e
  <2>1. QED
    BY <1>1, UpToExists
<1>3. \A i \in 1..n : e[i] = Encode(q[i], i)
  BY DEF Encodings
<1>4. \A g : [i \in 0..n |-> IF i = 0 THEN << >> ELSE g[i - 1] \o e[i]]
             = [i \in 0..n |-> IF i = 0 THEN << >> ELSE g[i - 1] \o Encode(q[i], i)]
  <2>1. \A i \in 0..n : i # 0 => i \in 1..n
    BY <1>1
  <2> HIDE DEF n, e
  <2>2. QED
    BY <1>3, <2>1, Zenon
<1>5. f = [i \in 0..n |-> IF i = 0 THEN << >> ELSE f[i - 1] \o Encode(q[i], i)]
  BY <1>2, <1>4, Zenon DEF IsUpTo
<1>6. c = [i \in 0..n |-> IF i = 0 THEN << >> ELSE c[i - 1] \o Encode(q[i], i)]
  BY <1>5, Zenon
<1>7. IsUpTo(c, n, e)
  BY <1>4, <1>6, Zenon DEF IsUpTo
<1>8. c[n] = f[n]
  <2> HIDE DEF n, e, c
  <2>1. Agree(e, e, n) /\ n <= n
    BY <1>1 DEF Agree
  <2>2. \A i \in 0..n : c[i] = f[i]
    BY <1>1, <1>2, <1>7, <2>1, UpToUnique
  <2>3. QED
    BY <1>1, <2>2
<1>9. StreamOf(q) = c[n]
  BY Zenon DEF StreamOf
<1>10. f[n] \in Seq(Bytes)
  BY <1>1
<1>11. QED
  BY <1>2, <1>8, <1>9, <1>10, Zenon

(* The stream of a client that has sent nothing is empty.                  *)
LEMMA EmptyStream == StreamOf(<< >>) = << >>
<1>1. Len(<< >>) = 0 /\ << >> \in Seq(Requests)
  OBVIOUS
<1>2. PICK f :
         IsUpTo(f, 0, Encodings(<< >>)) /\ StreamOf(<< >>) = f[0]
  BY <1>1, StreamUpTo
<1>3. f[0] = << >>
  BY <1>2 DEF IsUpTo
<1>4. QED
  BY <1>2, <1>3

(* A request more is its bytes more, at the end.                           *)
LEMMA StreamGrows ==
  ASSUME NEW q \in Seq(Requests), NEW r \in Requests
  PROVE  /\ StreamOf(q) \in Seq(Bytes)
         /\ StreamOf(Append(q, r)) = StreamOf(q) \o Encode(r, Len(q) + 1)
<1> DEFINE n == Len(q)
           p == Append(q, r)
<1>1. /\ n \in Nat /\ p \in Seq(Requests) /\ Len(p) = n + 1 /\ p[n + 1] = r
      /\ \A i \in 1..n : p[i] = q[i]
  BY AppendProperties, LenProperties
<1>2. PICK f : IsUpTo(f, n, Encodings(q)) /\ StreamOf(q) = f[n] /\ f[n] \in Seq(Bytes)
  BY StreamUpTo
<1>3. PICK g : IsUpTo(g, n + 1, Encodings(p)) /\ StreamOf(p) = g[n + 1]
  <2> HIDE DEF p
  <2>1. QED
    BY <1>1, StreamUpTo
<1>4. Agree(Encodings(q), Encodings(p), n)
  <2>1. \A i \in 1..n : i \in 1..Len(p)
    BY <1>1
  <2> HIDE DEF p
  <2>2. QED
    BY <1>1, <2>1, Zenon DEF Encodings, Agree
<1>5. f[n] = g[n]
  <2>1. n <= n + 1 /\ n \in 0..n /\ n + 1 \in Nat
    BY <1>1
  <2> HIDE DEF p, n
  <2>2. \A i \in 0..n : f[i] = g[i]
    BY <1>1, <1>2, <1>3, <1>4, <2>1, UpToUnique
  <2>3. QED
    BY <2>1, <2>2
<1>6. g[n + 1] = g[n] \o Encode(r, n + 1)
  <2>1. n + 1 \in 0..n + 1 /\ n + 1 # 0 /\ (n + 1) - 1 = n /\ n + 1 \in 1..n + 1
    BY <1>1
  <2> HIDE DEF p, n
  <2>2. Encodings(p)[n + 1] = Encode(r, n + 1)
    BY <1>1, <2>1, Zenon DEF Encodings
  <2>3. g[n + 1] = IF n + 1 = 0 THEN << >> ELSE g[(n + 1) - 1] \o Encodings(p)[n + 1]
    BY <1>3, <2>1, Zenon DEF IsUpTo
  <2>4. QED
    BY <2>1, <2>2, <2>3, Zenon
<1>7. QED
  BY <1>2, <1>3, <1>5, <1>6, Zenon

-----------------------------------------------------------------------------
(* The inductive invariant of HttpServer.                                  *)

(* t is what is left of s behind its first pos bytes.                      *)
Suffix(s, t, pos) ==
  /\ pos \in Nat /\ pos + Len(t) = Len(s)
  /\ \A i \in 1..Len(t) : t[i] = s[pos + i]

(* What was sent and is not yet parsed.                                    *)
Rest == Readable(input) \o wire

Contexts == [state : {"kExpectRequestLine", "kExpectHeaders", "kGotAll"},
             method : {"none", "get"}, version : {"unknown", "1.0", "1.1"},
             path : Nat, connection : {"none", "keep", "close"}]
IsInput(b) == IsBuffer(b, Bytes) /\ CheapPrepend <= b.reader
TypeOK ==
  /\ client \in Seq(Requests) /\ wire \in Seq(Bytes) /\ IsInput(input)
  /\ httpCallback \in {"default", "user"}
  /\ conn \in {"kConnected", "kDisconnecting", "kDisconnected"}
  /\ pc \in {"poll", "parse", "failed", "parsed", "aborted"}
  /\ parser \in Contexts
  /\ answers \in Seq([status : {200, 400, 404}, path : Nat])
  /\ finSent \in BOOLEAN

(* What the client has sent from pos on is readable or on the wire.        *)
Left(pos) == Suffix(StreamOf(client), Rest, pos)

(* Where in the stream each request begins.                                *)
Starts(start, c) ==
  /\ start[1] = 0 /\ start[Len(c) + 1] = Len(StreamOf(c))
  /\ \A k \in 1..Len(c) :
        /\ start[k] \in Nat
        /\ start[k + 1] = start[k] + 3 * Len(c[k]) + 2
        /\ RequestAt(StreamOf(c), start[k], c[k], k)

Bad(r) == r[1] \in {"odd11", "get20"}

(* What getHeader("Connection") finds after the first lines of a request.  *)
LastOf(r, conns) ==
  IF conns = {} THEN "none" ELSE r[CHOOSE i \in conns : \A j \in conns : j <= i]
LastConnection(r, lines) == LastOf(r, {i \in 2..lines : r[i] # "other"})

(* The request line of r is what the parser has received, with so many     *)
(* lines of it.                                                            *)
Received(r, k, lines) ==
  /\ ~Bad(r) /\ parser.path = k
  /\ parser.version = IF r[1] = "get10" THEN "1.0" ELSE "1.1"
  /\ parser.connection = LastConnection(r, lines)

(* How far the parser is: request k is the one it expects or receives.     *)
ExpectsLine(k, start) ==
  /\ ExpectRequestLine /\ pc \in {"poll", "parse"}
  /\ parser.method = "none" /\ parser.connection = "none"
  /\ Left(start[k])

(* A bad request line stays in the buffer, and is parsed again if more     *)
(* comes, which nobody is told.                                            *)
HasFailed(k, start) ==
  /\ k <= Len(client) /\ Bad(client[k])
  /\ ExpectRequestLine /\ pc \in {"poll", "parse", "failed", "aborted"}
  /\ pc = "failed" \/ conn # "kConnected"
  /\ Left(start[k])

ExpectsHeader(k, start, lines) ==
  /\ k <= Len(client) /\ lines \in 1..Len(client[k])
  /\ ExpectHeaders /\ pc \in {"poll", "parse"}
  /\ Received(client[k], k, lines)
  /\ Left(start[k] + 3 * lines)

HasParsed(k, start) ==
  /\ k <= Len(client)
  /\ GotAll /\ pc = "parsed"
  /\ Received(client[k], k, Len(client[k]))
  /\ Left(start[k + 1])

At(k, start) ==
  \/ ExpectsLine(k, start)
  \/ HasFailed(k, start)
  \/ \E lines \in Nat : ExpectsHeader(k, start, lines)
  \/ HasParsed(k, start)

(* While the connection is up, the requests before are answered.           *)
Parses ==
  \E start : \E k \in Nat \ {0} :
     /\ Starts(start, client) /\ k <= Len(client) + 1 /\ At(k, start)
     /\ conn = "kConnected" => k = Len(answers) + 1

(* What Answer says, of a request at hand.                                 *)
AnswerTo(r, i, callback) ==
  LET lost == callback = "default" \/ r[1] = "lost11"
      last == LastConnection(r, Len(r))
  IN  [status |-> IF Bad(r) THEN 400 ELSE IF lost THEN 404 ELSE 200,
       path |-> IF Bad(r) THEN 0 ELSE i,
       closes |-> \/ Bad(r) \/ lost \/ last = "close"
                  \/ r[1] = "get10" /\ last # "keep"]
Expected(i) == AnswerTo(client[i], i, httpCallback)

(* What has been answered, and whether that was the last.                  *)
Answers ==
  /\ Len(answers) <= Len(client)
  /\ \A i \in 1..Len(answers) :
        /\ answers[i].status = Expected(i).status /\ answers[i].path = Expected(i).path
        /\ Expected(i).closes => i = Len(answers)
  /\ finSent <=> \E i \in 1..Len(answers) : Expected(i).closes
  /\ conn = "kConnected" => ~finSent

IInv == TypeOK /\ Parses /\ Answers

-----------------------------------------------------------------------------
(* What is sent behind a suffix belongs to it.                             *)
LEMMA SuffixGrows ==
  ASSUME NEW S, NEW s \in Seq(S), NEW t \in Seq(S), NEW u \in Seq(S),
         NEW pos \in Nat, Suffix(s, t, pos)
  PROVE  Suffix(s \o u, t \o u, pos)
<1>1. /\ Len(s \o u) = Len(s) + Len(u)
      /\ \A i \in 1..Len(s) : (s \o u)[i] = s[i]
      /\ \A i \in 1..Len(u) : (s \o u)[Len(s) + i] = u[i]
  BY ConcatIndices
<1>2. /\ Len(t \o u) = Len(t) + Len(u)
      /\ \A i \in 1..Len(t) : (t \o u)[i] = t[i]
      /\ \A i \in 1..Len(u) : (t \o u)[Len(t) + i] = u[i]
  BY ConcatIndices
<1>3. Len(s) \in Nat /\ Len(t) \in Nat /\ Len(u) \in Nat /\ pos + Len(t) = Len(s)
      /\ \A i \in 1..Len(t) : t[i] = s[pos + i]
  BY LenProperties DEF Suffix
<1>4. ASSUME NEW i \in 1..Len(t) + Len(u) PROVE (t \o u)[i] = (s \o u)[pos + i]
  <2>1. CASE i <= Len(t)
    <3>1. i \in 1..Len(t) /\ pos + i \in 1..Len(s)
      BY <1>3, <2>1
    <3>2. QED
      BY <1>1, <1>2, <1>3, <3>1, Zenon
  <2>2. CASE ~(i <= Len(t))
    <3> DEFINE j == i - Len(t)
    <3>1. j \in 1..Len(u) /\ i = Len(t) + j /\ pos + i = Len(s) + j
      BY <1>3, <2>2
    <3> HIDE DEF j
    <3>2. QED
      BY <1>1, <1>2, <3>1, Zenon
  <2>3. QED
    BY <2>1, <2>2
<1>5. pos + Len(t \o u) = Len(s \o u)
  <2>1. pos + (Len(t) + Len(u)) = Len(s) + Len(u)
    <3> DEFINE a == Len(s)
               b == Len(t)
               c == Len(u)
    <3>1. a \in Nat /\ b \in Nat /\ c \in Nat /\ pos + b = a
      BY <1>3, Zenon
    <3> HIDE DEF a, b, c
    <3>2. pos + (b + c) = a + c
      BY <3>1
    <3>3. QED
      BY <3>2, Zenon DEF a, b, c
  <2>2. QED
    BY <1>1, <1>2, <2>1, Zenon
<1>6. QED
  BY <1>2, <1>4, <1>5, Zenon DEF Suffix

(* The bytes behind the first n, as SubSeq gives them.                     *)
LEMMA BackSubSeq ==
  ASSUME NEW S, NEW t \in Seq(S), NEW n \in Nat, n <= Len(t)
  PROVE  /\ SubSeq(t, n + 1, Len(t)) \in Seq(S)
         /\ Len(SubSeq(t, n + 1, Len(t))) = Len(t) - n
         /\ \A i \in 1..Len(t) - n : SubSeq(t, n + 1, Len(t))[i] = t[n + i]
<1> DEFINE m == n + 1
           k == Len(t)
<1>1. k \in Nat /\ m \in Nat /\ \A i \in 1..k : t[i] \in S
  BY LenProperties, ElementOfSeq
<1>2. \A i \in 1..k - n : i \in 1..k - m + 1 /\ m + i - 1 = n + i
  BY <1>1
<1>3. (IF m <= k THEN k - m + 1 ELSE 0) = k - n
  BY <1>1
<1>4. \A i \in m..k : i \in 1..k
  BY <1>1
<1> HIDE DEF m, k
<1>5. /\ SubSeq(t, m, k) \in Seq(S)
      /\ Len(SubSeq(t, m, k)) = IF m <= k THEN k - m + 1 ELSE 0
      /\ \A i \in 1..k - m + 1 : SubSeq(t, m, k)[i] = t[m + i - 1]
  BY <1>1, <1>4, SubSeqProperties
<1>6. QED
  BY <1>2, <1>3, <1>5, Zenon DEF m, k

(* What is left when bytes are taken from the front is a suffix, too.      *)
LEMMA SuffixDrops ==
  ASSUME NEW S, NEW s \in Seq(S), NEW r \in Seq(S), NEW w \in Seq(S), NEW pos \in Nat,
         Suffix(s, r \o w, pos), NEW n \in Nat, n <= Len(r)
  PROVE  Suffix(s, SubSeq(r, n + 1, Len(r)) \o w, pos + n)
<1> DEFINE d == SubSeq(r, n + 1, Len(r))
           k == Len(r)
           l == Len(w)
<1>1. k \in Nat /\ l \in Nat
  BY LenProperties
<1>2. d \in Seq(S) /\ Len(d) = k - n /\ \A i \in 1..k - n : d[i] = r[n + i]
  BY BackSubSeq
<1> HIDE DEF d
<1>3. /\ Len(r \o w) = k + l
      /\ \A i \in 1..k : (r \o w)[i] = r[i]
      /\ \A i \in 1..l : (r \o w)[k + i] = w[i]
  BY ConcatIndices
<1>4. /\ Len(d \o w) = Len(d) + l
      /\ \A i \in 1..Len(d) : (d \o w)[i] = d[i]
      /\ \A i \in 1..l : (d \o w)[Len(d) + i] = w[i]
  <2>1. d \in Seq(S)
    BY <1>2
  <2>2. QED
    BY <2>1, ConcatIndices
<1>5. pos + (k + l) = Len(s) /\ \A i \in 1..k + l : (r \o w)[i] = s[pos + i]
  BY <1>3, Zenon DEF Suffix
<1> HIDE DEF k, l
<1>6. ASSUME NEW i \in 1..(k - n) + l PROVE (d \o w)[i] = s[(pos + n) + i]
  <2>1. n + i \in 1..k + l /\ (pos + n) + i = pos + (n + i)
    BY <1>1
  <2>2. CASE i <= k - n
    <3>1. i \in 1..k - n /\ n + i \in 1..k
      BY <1>1, <2>2
    <3>2. QED
      BY <1>2, <1>3, <1>4, <1>5, <2>1, <3>1, Zenon
  <2>3. CASE ~(i <= k - n)
    <3> DEFINE j == i - (k - n)
    <3>1. j \in 1..l /\ i = (k - n) + j /\ n + i = k + j
      BY <1>1, <2>3
    <3> HIDE DEF j
    <3>2. (d \o w)[i] = w[j]
      BY <1>2, <1>4, <3>1, Zenon
    <3>3. (r \o w)[n + i] = w[j]
      BY <1>3, <3>1, Zenon
    <3>4. (r \o w)[n + i] = s[(pos + n) + i]
      BY <1>5, <2>1, Zenon
    <3>5. QED
      BY <3>2, <3>3, <3>4, Zenon
  <2>4. QED
    BY <2>2, <2>3
<1>7. Len(d \o w) = (k - n) + l /\ pos + n \in Nat /\ (pos + n) + ((k - n) + l) = Len(s)
  <2>1. pos + n \in Nat /\ (pos + n) + ((k - n) + l) = pos + (k + l)
    BY <1>1
  <2>2. QED
    BY <1>2, <1>4, <1>5, <2>1, Zenon
<1>8. QED
  BY <1>6, <1>7, Zenon DEF Suffix, d, k

(* The bytes at the front, as SubSeq gives them.                           *)
LEMMA FrontSubSeq ==
  ASSUME NEW S, NEW s \in Seq(S), NEW n \in 0..Len(s)
  PROVE  /\ SubSeq(s, 1, n) \in Seq(S) /\ Len(SubSeq(s, 1, n)) = n
         /\ \A i \in 1..n : SubSeq(s, 1, n)[i] = s[i]
<1>1. Len(s) \in Nat
  BY LenProperties
<1>2. \A i \in 1..n : s[i] \in S
  BY <1>1, ElementOfSeq
<1>3. SubSeq(s, 1, n) = [i \in 1..n |-> s[i]]
  BY <1>1
<1>4. [i \in 1..n |-> s[i]] \in Seq(S) /\ Len([i \in 1..n |-> s[i]]) = n
  BY <1>1, <1>2
<1>5. QED
  BY <1>3, <1>4

(* findCRLF's pattern is there where a CR is followed by a LF.             *)
LEMMA PatternAt ==
  ASSUME NEW s \in Seq(Bytes), NEW n \in 0..Len(s) - 2
  PROVE  SubSeq(s, n + 1, n + 2) = CRLF <=> s[n + 1] = CR /\ s[n + 2] = LF
<1>1. Len(s) \in Nat /\ n \in Nat /\ n + 1 \in 1..Len(s) /\ n + 2 \in 1..Len(s)
  BY LenProperties
<1>2. CRLF = <<CR, LF>>
  BY DEF CRLF, CR, LF
<1> DEFINE a == n + 1
           b == n + 2
           t == SubSeq(s, a, b)
<1>3. /\ t \in Seq(Bytes) /\ Len(t) = IF a <= b THEN b - a + 1 ELSE 0
      /\ \A i \in 1..b - a + 1 : t[i] = s[a + i - 1]
  <2>1. a \in 1..Len(s) + 1 /\ b \in a - 1..Len(s) /\ \A i \in a..b : s[i] \in Bytes
    <3>1. a \in 1..Len(s) /\ b \in 1..Len(s) /\ b = a + 1
      BY <1>1
    <3>2. s[a] \in Bytes /\ s[b] \in Bytes
      BY <3>1, ElementOfSeq
    <3>3. QED
      BY <1>1, <3>1, <3>2
  <2> HIDE DEF a, b
  <2>2. QED
    BY <2>1, SubSeqProperties
<1>4. Len(t) = 2 /\ t[1] = s[n + 1] /\ t[2] = s[n + 2]
  <2>1. (IF a <= b THEN b - a + 1 ELSE 0) = 2 /\ 1 \in 1..b - a + 1 /\ 2 \in 1..b - a + 1
        /\ a + 1 - 1 = n + 1 /\ a + 2 - 1 = n + 2
    BY <1>1
  <2> HIDE DEF t, a, b
  <2>2. QED
    BY <1>3, <2>1, Zenon
<1> HIDE DEF t
<1>5. t = <<t[1], t[2]>>
  BY <1>3, <1>4
<1>6. QED
  BY <1>2, <1>4, <1>5 DEF t

-----------------------------------------------------------------------------
(* The bytes, and the texts of lines are none of the ends of lines.        *)
LEMMA SomeBytes ==
  /\ CR \in Bytes /\ LF \in Bytes /\ Blank \in Bytes
  /\ CRLF \in Seq(Bytes) /\ CR # LF
  /\ \A text \in Texts, path \in Nat :
        Byte(text, path) \in Bytes /\ Byte(text, path) # CR
<1>1. CR \in Bytes /\ LF \in Bytes /\ Blank \in Bytes
  BY DEF CR, LF, Byte, Bytes
<1>2. CRLF = <<CR, LF>>
  BY DEF CRLF, CR, LF
<1>3. CR # LF
  <2>1. CR.text = "CR" /\ LF.text = "LF"
    BY DEF CR, LF, Byte
  <2>2. QED
    BY <2>1
<1>4. ASSUME NEW text \in Texts, NEW path \in Nat
      PROVE  Byte(text, path) \in Bytes /\ Byte(text, path) # CR
  <2>1. Byte(text, path).text = text /\ CR.text = "CR" /\ text # "CR"
    BY DEF Byte, CR, Texts, Lines, Headers
  <2>2. Byte(text, path) \in Bytes
    BY DEF Byte, Bytes
  <2>3. QED
    BY <2>1, <2>2
<1>5. CRLF \in Seq(Bytes)
  BY <1>1, <1>2
<1>6. QED
  BY <1>1, <1>3, <1>4, <1>5

(* The readable bytes and what is behind them.                             *)
LEMMA RestProperties ==
  ASSUME TypeOK
  PROVE  /\ Readable(input) \in Seq(Bytes) /\ Rest \in Seq(Bytes)
         /\ Len(Readable(input)) \in Nat
         /\ Len(Rest) = Len(Readable(input)) + Len(wire)
         /\ \A i \in 1..Len(Readable(input)) : Rest[i] = Readable(input)[i]
<1>1. Readable(input) \in Seq(Bytes) /\ wire \in Seq(Bytes)
  BY ReadableProperties DEF TypeOK, IsInput
<1>2. Len(Readable(input)) \in Nat
  BY <1>1, LenProperties
<1>3. QED
  BY <1>1, <1>2, ConcatIndices DEF Rest

(* findCRLF gives the first place where there is a CRLF.                   *)
LEMMA FirstCRLF ==
  ASSUME TypeOK, HasCRLF
  PROVE  /\ FindCRLF \in 0..Len(Readable(input)) - 2
         /\ Readable(input)[FindCRLF + 1] = CR /\ Readable(input)[FindCRLF + 2] = LF
         /\ \A n \in 0..Len(Readable(input)) - 2 :
               Readable(input)[n + 1] = CR /\ Readable(input)[n + 2] = LF
               => FindCRLF <= n
<1> DEFINE s == Readable(input)
<1>1. s \in Seq(Bytes) /\ Len(s) \in Nat
  BY RestProperties
<1>2. CRLFs = {n \in 0..Len(s) - 2 : SubSeq(s, n + 1, n + 2) = CRLF}
  BY Zenon DEF CRLFs
<1> HIDE DEF s
<1>3. \A n \in 0..Len(s) - 2 :
         SubSeq(s, n + 1, n + 2) = CRLF <=> s[n + 1] = CR /\ s[n + 2] = LF
  BY <1>1, PatternAt
<1>4. CRLFs = {n \in 0..Len(s) - 2 : s[n + 1] = CR /\ s[n + 2] = LF}
  BY <1>2, <1>3, Zenon
<1>5. CRLFs \subseteq Nat /\ CRLFs # {}
  BY <1>1, <1>4 DEF HasCRLF
<1>6. \E n \in CRLFs : \A m \in CRLFs : n <= m
  BY <1>5, Least
<1>7. FindCRLF \in CRLFs /\ \A m \in CRLFs : FindCRLF <= m
  BY <1>6, Zenon DEF FindCRLF
<1> DEFINE f == FindCRLF
<1> HIDE DEF f
<1>8. f \in CRLFs /\ \A m \in CRLFs : f <= m
  BY <1>7, Zenon DEF f
<1>9. /\ f \in 0..Len(s) - 2 /\ s[f + 1] = CR /\ s[f + 2] = LF
      /\ \A n \in 0..Len(s) - 2 : s[n + 1] = CR /\ s[n + 2] = LF => f <= n
  BY <1>4, <1>8, Zenon
<1>10. QED
  BY <1>9, Zenon DEF f, s

(* Where the next line is one of a request, it is found as a whole.        *)
LEMMA FindText ==
  ASSUME TypeOK, HasCRLF, NEW s, NEW pos \in Nat, Suffix(s, Rest, pos),
         NEW text \in Texts, NEW path \in Nat,
         s[pos + 1] = Byte(text, path), s[pos + 2] = CR, s[pos + 3] = LF
  PROVE  FindCRLF = 1 /\ Line # << >> /\ Line[1] = Byte(text, path) /\ Len(Line) = 1
<1> DEFINE r == Readable(input)
           f == FindCRLF
<1>1. /\ f \in 0..Len(r) - 2 /\ r[f + 1] = CR /\ r[f + 2] = LF
      /\ \A n \in 0..Len(r) - 2 : r[n + 1] = CR /\ r[n + 2] = LF => f <= n
  BY FirstCRLF, Zenon
<1>2. r \in Seq(Bytes) /\ Len(r) \in Nat
  BY RestProperties
<1>3. \A i \in 1..Len(r) : r[i] = s[pos + i]
  <2>1. Len(Rest) = Len(r) + Len(wire) /\ Len(wire) \in Nat
        /\ \A i \in 1..Len(r) : Rest[i] = r[i]
    BY RestProperties, LenProperties DEF TypeOK
  <2>2. \A i \in 1..Len(Rest) : Rest[i] = s[pos + i]
    BY DEF Suffix
  <2>3. \A i \in 1..Len(r) : i \in 1..Len(Rest)
    BY <1>2, <2>1
  <2>4. QED
    BY <2>1, <2>2, <2>3, Zenon
<1>4. Line = SubSeq(r, 1, f)
  BY DEF Line
<1> HIDE DEF r, f
<1>5. f # 0
  <2>1. SUFFICES ASSUME f = 0 PROVE FALSE
    OBVIOUS
  <2>2. 0 + 1 = 1 /\ 1 \in 1..Len(r)
    BY <1>1, <1>2, <2>1
  <2>3. r[1] = CR /\ r[1] = s[pos + 1]
    BY <1>1, <1>3, <2>1, <2>2
  <2>4. QED
    BY <2>3, SomeBytes
<1>6. 3 <= Len(r)
  BY <1>1, <1>2, <1>5
<1>7. r[1] = Byte(text, path) /\ r[2] = CR /\ r[3] = LF
  <2>1. 1 \in 1..Len(r) /\ 2 \in 1..Len(r) /\ 3 \in 1..Len(r)
    BY <1>2, <1>6
  <2>2. QED
    BY <1>3, <2>1, Zenon
<1>8. f = 1
  <2>1. 1 \in 0..Len(r) - 2 /\ 1 + 1 = 2 /\ 1 + 2 = 3
    BY <1>2, <1>6
  <2>2. f <= 1
    BY <1>1, <1>7, <2>1
  <2>3. QED
    BY <1>1, <1>2, <1>5, <2>2
<1>9. Len(SubSeq(r, 1, 1)) = 1 /\ SubSeq(r, 1, 1)[1] = r[1]
  <2>1. 1 \in 0..Len(r) /\ 1 \in 1..1
    BY <1>2, <1>6
  <2>2. QED
    BY <1>2, <2>1, FrontSubSeq
<1>10. Line # << >> /\ Line[1] = Byte(text, path) /\ Len(Line) = 1
  <2>1. Line = SubSeq(r, 1, 1)
    BY <1>4, <1>8, Zenon
  <2>2. Len(Line) = 1 /\ Line[1] = Byte(text, path)
    BY <1>7, <1>9, <2>1, Zenon
  <2>3. Line # << >>
    <3>1. Len(<< >>) = 0 /\ 0 # 1
      OBVIOUS
    <3>2. QED
      BY <2>2, <3>1, Zenon
  <2>4. QED
    BY <2>2, <2>3
<1>11. QED
  BY <1>8, <1>10 DEF f

(* And where the request ends, the empty line is.                          *)
LEMMA FindEmpty ==
  ASSUME TypeOK, HasCRLF, NEW s, NEW pos \in Nat, Suffix(s, Rest, pos),
         s[pos + 1] = CR, s[pos + 2] = LF
  PROVE  FindCRLF = 0 /\ Line = << >>
<1> DEFINE r == Readable(input)
           f == FindCRLF
<1>1. /\ f \in 0..Len(r) - 2
      /\ \A n \in 0..Len(r) - 2 : r[n + 1] = CR /\ r[n + 2] = LF => f <= n
  BY FirstCRLF, Zenon
<1>2. r \in Seq(Bytes) /\ Len(r) \in Nat
  BY RestProperties
<1>3. \A i \in 1..Len(r) : r[i] = s[pos + i]
  <2>1. Len(Rest) = Len(r) + Len(wire) /\ Len(wire) \in Nat
        /\ \A i \in 1..Len(r) : Rest[i] = r[i]
    BY RestProperties, LenProperties DEF TypeOK
  <2>2. \A i \in 1..Len(Rest) : Rest[i] = s[pos + i]
    BY DEF Suffix
  <2>3. \A i \in 1..Len(r) : i \in 1..Len(Rest)
    BY <1>2, <2>1
  <2>4. QED
    BY <2>1, <2>2, <2>3, Zenon
<1>4. Line = SubSeq(r, 1, f)
  BY DEF Line
<1> HIDE DEF r, f
<1>5. 2 <= Len(r) /\ 0 \in 0..Len(r) - 2 /\ 1 \in 1..Len(r) /\ 2 \in 1..Len(r)
      /\ 0 + 1 = 1 /\ 0 + 2 = 2
  BY <1>1, <1>2
<1>6. r[0 + 1] = CR /\ r[0 + 2] = LF
  <2>1. r[1] = s[pos + 1] /\ r[2] = s[pos + 2]
    BY <1>3, <1>5
  <2>2. QED
    BY <1>5, <2>1, Zenon
<1>7. f <= 0
  BY <1>1, <1>5, <1>6, Zenon
<1>8. f = 0
  BY <1>1, <1>2, <1>7
<1>9. SubSeq(r, 1, 0) = << >>
  BY SubSeqEmpty
<1>10. QED
  BY <1>4, <1>8, <1>9, Zenon DEF f

(* Where nothing is left there is no line.                                 *)
LEMMA FindNothing ==
  ASSUME TypeOK, HasCRLF
  PROVE  Len(Rest) >= 2
<1>1. FindCRLF \in 0..Len(Readable(input)) - 2
  BY FirstCRLF
<1>2. Len(Rest) = Len(Readable(input)) + Len(wire) /\ Len(wire) \in Nat
      /\ Len(Readable(input)) \in Nat
  BY RestProperties, LenProperties DEF TypeOK
<1>3. QED
  BY <1>1, <1>2

(* What is retrieved leaves room in front.                                 *)
LEMMA RetrieveReader ==
  ASSUME NEW S, NEW b, IsBuffer(b, S), CheapPrepend <= b.reader, NEW n \in Nat
  PROVE  CheapPrepend <= Retrieve(b, n).reader
<1>1. b.reader \in Nat
  BY DEF IsBuffer
<1>2. Retrieve(b, n).reader \in {b.reader + n, CheapPrepend}
  BY DEF IsBuffer, Retrieve, RetrieveAll
<1>3. QED
  BY <1>1, <1>2, BufferAssumption

(* What is read, too.                                                      *)
LEMMA ReadFdReader ==
  ASSUME NEW S, NEW b, IsBuffer(b, S), CheapPrepend <= b.reader, NEW bytes
  PROVE  CheapPrepend <= ReadFd(b, bytes).reader
<1>1. ASSUME NEW c, NEW d, NEW len PROVE Write(c, d, len).reader = c.reader
  BY DEF Write
<1>2. ASSUME NEW k, NEW len
      PROVE  EnsureWritableBytes(Write(b, bytes, k), len).reader \in {b.reader, CheapPrepend}
  <2> DEFINE c == Write(b, bytes, k)
  <2>1. MoveToFront(c).reader = CheapPrepend
    BY DEF MoveToFront
  <2>2. [c EXCEPT !.vec = Resize(c.vec, c.writer + len)].reader = b.reader
    BY DEF Write
  <2> HIDE DEF c
  <2>3. MakeSpace(c, len).reader \in {b.reader, CheapPrepend}
    BY <2>1, <2>2 DEF MakeSpace
  <2>4. c.reader = b.reader
    BY <1>1 DEF c
  <2>5. QED
    BY <2>3, <2>4 DEF EnsureWritableBytes, c
<1>3. ReadFd(b, bytes).reader \in {b.reader, CheapPrepend}
  <2> DEFINE n == WritableBytes(b)
             c == Write(b, bytes, n)
             rest == SubSeq(bytes, n + 1, Len(bytes))
  <2>1. CASE Len(bytes) <= n
    <3>1. ReadFd(b, bytes) = Write(b, bytes, Len(bytes))
      BY <2>1 DEF ReadFd
    <3>2. QED
      BY <1>1, <3>1
  <2>2. CASE ~(Len(bytes) <= n)
    <3>1. ReadFd(b, bytes) = AppendBytes(c, rest)
      BY <2>2 DEF ReadFd
    <3> HIDE DEF rest, n
    <3>2. AppendBytes(c, rest).reader = EnsureWritableBytes(c, Len(rest)).reader
      BY <1>1 DEF AppendBytes
    <3>3. QED
      BY <1>2, <3>1, <3>2
  <2>3. QED
    BY <2>1, <2>2
<1>4. b.reader \in Nat
  BY DEF IsBuffer
<1>5. QED
  BY <1>3, <1>4, BufferAssumption

(* retrieveUntil takes the line and its end off the front.                 *)
LEMMA RetrieveTakes ==
  ASSUME TypeOK, HasCRLF, RetrieveLine, wire' = wire,
         NEW s \in Seq(Bytes), NEW pos \in Nat, Suffix(s, Rest, pos)
  PROVE  /\ IsInput(input)'
         /\ pos + (FindCRLF + 2) \in Nat
         /\ Suffix(s, Rest', pos + (FindCRLF + 2))
<1> DEFINE r == Readable(input)
           n == FindCRLF + 2
           d == SubSeq(r, n + 1, Len(r))
<1>1. r \in Seq(Bytes) /\ Len(r) \in Nat /\ wire \in Seq(Bytes) /\ Len(wire) \in Nat
      /\ IsBuffer(input, Bytes) /\ CheapPrepend <= input.reader
  BY RestProperties, LenProperties DEF TypeOK, IsInput
<1>2. n \in Nat /\ n <= Len(r)
  <2>1. FindCRLF \in 0..Len(r) - 2
    BY FirstCRLF
  <2>2. QED
    BY <1>1, <2>1
<1>3. MayRetrieve(input, n)
  <2>1. Len(r) = input.writer - input.reader
    BY <1>1, ReadableProperties
  <2>2. QED
    BY <1>2, <2>1 DEF MayRetrieve, ReadableBytes
<1>4. input' = Retrieve(input, n)
  BY Zenon DEF RetrieveLine
<1>5. IsBuffer(Retrieve(input, n), Bytes) /\ Readable(Retrieve(input, n)) = d
  <2> HIDE DEF n
  <2>1. QED
    BY <1>1, <1>2, <1>3, RetrieveKeeps
<1>6. IsInput(input)' /\ Readable(input') = d
  <2>1. CheapPrepend <= Retrieve(input, n).reader
    BY <1>1, <1>2, RetrieveReader
  <2>2. QED
    BY <1>4, <1>5, <2>1, Zenon DEF IsInput, IsBuffer
<1>7. Rest' = d \o wire
  BY <1>6, Zenon DEF Rest
<1>8. Suffix(s, d \o wire, pos + n)
  <2>1. Suffix(s, r \o wire, pos)
    BY Zenon DEF Rest
  <2> HIDE DEF n, r
  <2>2. QED
    BY <1>1, <1>2, <2>1, SuffixDrops
<1>9. pos + n \in Nat
  BY <1>2
<1>10. QED
  BY <1>6, <1>7, <1>8, <1>9, Zenon

-----------------------------------------------------------------------------
(* Properties of the requests and their answers.                           *)
LEMMA StreamTyped ==
  ASSUME NEW q \in Seq(Requests)
  PROVE  StreamOf(q) \in Seq(Bytes)
<1>1. PICK f : StreamOf(q) = f[Len(q)] /\ f[Len(q)] \in Seq(Bytes)
  BY StreamUpTo
<1>2. QED
  BY <1>1

(* A request stays where it is when others follow.                         *)
LEMMA RequestStays ==
  ASSUME NEW s \in Seq(Bytes), NEW u \in Seq(Bytes), NEW pos \in Nat,
         NEW r \in Seq(Texts), NEW path, RequestAt(s, pos, r, path)
  PROVE  RequestAt(s \o u, pos, r, path)
<1> DEFINE t == s \o u
<1>1. Len(t) = Len(s) + Len(u) /\ \A i \in 1..Len(s) : t[i] = s[i]
  BY ConcatIndices
<1>2. Len(s) \in Nat /\ Len(u) \in Nat /\ Len(r) \in Nat
  BY LenProperties
<1>3. pos + 3 * Len(r) + 2 <= Len(s)
  BY DEF RequestAt
<1> HIDE DEF t
<1>4. ASSUME NEW i \in 1..Len(r)
      PROVE  /\ t[pos + 3 * i - 2] = Byte(r[i], path)
             /\ t[pos + 3 * i - 1] = CR /\ t[pos + 3 * i] = LF
  <2>1. /\ s[pos + 3 * i - 2] = Byte(r[i], path)
        /\ s[pos + 3 * i - 1] = CR /\ s[pos + 3 * i] = LF
    BY DEF RequestAt, LinesAt
  <2>2. /\ pos + 3 * i - 2 \in 1..Len(s) /\ pos + 3 * i - 1 \in 1..Len(s)
        /\ pos + 3 * i \in 1..Len(s)
    BY <1>2, <1>3
  <2>3. QED
    BY <1>1, <2>1, <2>2, Zenon
<1>5. /\ pos + 3 * Len(r) + 1 \in 1..Len(s) /\ pos + 3 * Len(r) + 2 \in 1..Len(s)
      /\ pos + 3 * Len(r) + 2 <= Len(s) + Len(u)
  BY <1>2, <1>3
<1>6. s[pos + 3 * Len(r) + 1] = CR /\ s[pos + 3 * Len(r) + 2] = LF
  BY DEF RequestAt
<1>7. QED
  BY <1>1, <1>4, <1>5, <1>6, Zenon DEF RequestAt, LinesAt, t

(* A request sent is at the end of the stream.                             *)
LEMMA RequestArrives ==
  ASSUME NEW s \in Seq(Bytes), NEW u \in Seq(Bytes), NEW r \in Seq(Texts), NEW path
  PROVE  Len(u) = 3 * Len(r) + 2 /\ RequestAt(u, 0, r, path)
         => RequestAt(s \o u, Len(s), r, path)
<1> DEFINE t == s \o u
           n == Len(r)
           pos == Len(s)
<1>1. Len(t) = pos + Len(u) /\ \A i \in 1..Len(u) : t[pos + i] = u[i]
  BY ConcatIndices
<1>2. pos \in Nat /\ n \in Nat
  BY LenProperties
<1> HIDE DEF t, pos
<1> HAVE Len(u) = 3 * Len(r) + 2 /\ RequestAt(u, 0, r, path)
<1>3. ASSUME NEW i \in 1..n
      PROVE  /\ t[pos + 3 * i - 2] = Byte(r[i], path)
             /\ t[pos + 3 * i - 1] = CR /\ t[pos + 3 * i] = LF
  <2>1. /\ u[0 + 3 * i - 2] = Byte(r[i], path)
        /\ u[0 + 3 * i - 1] = CR /\ u[0 + 3 * i] = LF
    BY DEF RequestAt, LinesAt
  <2>2. /\ 3 * i - 2 \in 1..Len(u) /\ 3 * i - 1 \in 1..Len(u) /\ 3 * i \in 1..Len(u)
        /\ 0 + 3 * i - 2 = 3 * i - 2 /\ 0 + 3 * i - 1 = 3 * i - 1 /\ 0 + 3 * i = 3 * i
        /\ pos + 3 * i - 2 = pos + (3 * i - 2) /\ pos + 3 * i - 1 = pos + (3 * i - 1)
    BY <1>2
  <2>3. QED
    BY <1>1, <2>1, <2>2, Zenon
<1>4. t[pos + 3 * n + 1] = CR /\ t[pos + 3 * n + 2] = LF
  <2>1. u[0 + 3 * n + 1] = CR /\ u[0 + 3 * n + 2] = LF
    BY DEF RequestAt
  <2> DEFINE j == 3 * n + 1
             k == 3 * n + 2
  <2>2. /\ j \in 1..Len(u) /\ k \in 1..Len(u)
        /\ 0 + 3 * n + 1 = j /\ 0 + 3 * n + 2 = k
        /\ pos + 3 * n + 1 = pos + j /\ pos + 3 * n + 2 = pos + k
    BY <1>2
  <2> HIDE DEF j, k
  <2>3. t[pos + j] = u[j] /\ t[pos + k] = u[k]
    BY <1>1, <2>2
  <2>4. QED
    BY <2>1, <2>2, <2>3
<1>5. pos + 3 * n + 2 <= Len(t)
  BY <1>1, <1>2
<1>6. QED
  BY <1>3, <1>4, <1>5, Zenon DEF RequestAt, LinesAt, t, n, pos

(* Header by header, getHeader("Connection") finds the last one.           *)
LEMMA ConnectionStep ==
  ASSUME NEW r, NEW m \in Nat, m >= 1
  PROVE  /\ LastConnection(r, 1) = "none"
         /\ LastConnection(r, m + 1) =
               IF r[m + 1] = "other" THEN LastConnection(r, m) ELSE r[m + 1]
<1> DEFINE Conns(l) == {i \in 2..l : r[i] # "other"}
<1>1. Conns(1) = {}
  OBVIOUS
<1>2. LastConnection(r, 1) = "none"
  BY <1>1, Zenon DEF LastConnection, LastOf
<1>3. CASE r[m + 1] = "other"
  <2>1. Conns(m + 1) = Conns(m)
    BY <1>3
  <2>2. LastConnection(r, m + 1) = LastConnection(r, m)
    BY <2>1, Zenon DEF LastConnection
  <2>3. QED
    BY <1>2, <1>3, <2>2
<1>4. CASE r[m + 1] # "other"
  <2>1. /\ m + 1 \in Conns(m + 1) /\ \A j \in Conns(m + 1) : j <= m + 1
        /\ \A i \in Conns(m + 1) : i \in Int
    BY <1>4
  <2> DEFINE last == CHOOSE i \in Conns(m + 1) : \A j \in Conns(m + 1) : j <= i
  <2> HIDE DEF Conns
  <2>2. last \in Conns(m + 1) /\ \A j \in Conns(m + 1) : j <= last
    BY <2>1, Zenon
  <2> HIDE DEF last
  <2>3. last = m + 1
    BY <2>1, <2>2
  <2>4. Conns(m + 1) # {}
    BY <2>1
  <2>5. LastConnection(r, m + 1) = r[last]
    BY <2>4, Zenon DEF LastConnection, LastOf, Conns, last
  <2>6. QED
    BY <1>2, <1>4, <2>3, <2>5
<1>5. QED
  BY <1>3, <1>4

(* That is what Answer says.                                               *)
LEMMA AnswerIsExpected ==
  ASSUME NEW i
  PROVE  Answer(i) = Expected(i)
BY Zenon DEF Answer, Expected, AnswerTo, LastConnection, LastOf, Bad

(* What is expected does not depend on what is sent later.                 *)
LEMMA ExpectedStays ==
  ASSUME NEW i, httpCallback' = httpCallback, client'[i] = client[i]
  PROVE  Expected(i)' = Expected(i)
BY Zenon DEF Expected

(* One answer more, that of the next request, on a connection that is up.  *)
LEMMA OneMore ==
  ASSUME Answers, TypeOK, conn = "kConnected", NEW k, k = Len(answers) + 1,
         k <= Len(client), NEW answer,
         answer.status = Expected(k).status, answer.path = Expected(k).path,
         answers' = Append(answers, answer),
         finSent' <=> finSent \/ Expected(k).closes,
         conn' = "kConnected" => ~Expected(k).closes,
         httpCallback' = httpCallback, client' = client
  PROVE  Answers'
<1>1. Len(answers) \in Nat /\ Len(client) \in Nat
  BY LenProperties DEF TypeOK
<1>2. /\ Len(answers') = k /\ answers'[k] = answer
      /\ \A i \in 1..Len(answers) : answers'[i] = answers[i]
  <2>1. answers \in Seq([status : {200, 400, 404}, path : Nat])
    BY DEF TypeOK
  <2>2. \A i \in 1..Len(answers) : answers'[i] = answers[i]
    BY <2>1
  <2>3. Len(answers') = k
    BY <2>1
  <2>4. answers'[k] = answer
    BY <2>1
  <2>5. QED
    BY <2>2, <2>3, <2>4
<1>3. \A i : Expected(i)' = Expected(i)
  BY ExpectedStays
<1>4. ~finSent /\ \A i \in 1..Len(answers) :
                     /\ answers[i].status = Expected(i).status
                     /\ answers[i].path = Expected(i).path
                     /\ ~Expected(i).closes
  BY Zenon DEF Answers
<1>5. ASSUME NEW i \in 1..k
      PROVE  /\ answers'[i].status = Expected(i).status
             /\ answers'[i].path = Expected(i).path
             /\ Expected(i).closes => i = k
  <2>1. CASE i = k
    BY <1>2, <2>1
  <2>2. CASE i # k
    <3>1. i \in 1..Len(answers)
      BY <1>1, <2>2
    <3>2. QED
      BY <1>2, <1>4, <3>1
  <2>3. QED
    BY <2>1, <2>2
<1>6. finSent' <=> \E i \in 1..k : Expected(i).closes
  <2>1. CASE Expected(k).closes
    <3>1. k \in 1..k
      BY <1>1
    <3>2. QED
      BY <2>1, <3>1
  <2>2. CASE ~Expected(k).closes
    <3>1. \A i \in 1..k : ~Expected(i).closes
      <4>1. \A i \in 1..k : i = k \/ i \in 1..Len(answers)
        BY <1>1
      <4>2. QED
        BY <1>4, <2>2, <4>1, Zenon
    <3>2. QED
      BY <1>4, <2>2, <3>1
  <2>3. QED
    BY <2>1, <2>2
<1>7. conn' = "kConnected" => ~finSent'
  BY <1>4
<1>8. QED
  BY <1>2, <1>3, <1>5, <1>6, <1>7, Zenon DEF Answers

-----------------------------------------------------------------------------
(* The requests are behind one another in the stream.                      *)
LEMMA StartsTyped ==
  ASSUME NEW q \in Seq(Requests), NEW start, Starts(start, q),
         NEW k \in Nat \ {0}, k <= Len(q) + 1
  PROVE  start[k] \in Nat
<1>1. Len(q) \in Nat /\ Len(StreamOf(q)) \in Nat
  BY StreamTyped, LenProperties
<1>2. CASE k = Len(q) + 1
  BY <1>1, <1>2 DEF Starts
<1>3. CASE k # Len(q) + 1
  <2>1. k \in 1..Len(q)
    BY <1>1, <1>3
  <2>2. QED
    BY <2>1 DEF Starts
<1>4. QED
  BY <1>2, <1>3

(* In the beginning the parser expects the first request.                  *)
LEMMA InitHolds ==
  ASSUME Init
  PROVE  IInv
<1>1. /\ client = << >> /\ wire = << >> /\ conn = "kConnected" /\ input = NewBuffer
      /\ pc = "poll" /\ parser = NoContext /\ answers = << >> /\ finSent = FALSE
      /\ httpCallback \in {"default", "user"}
  BY DEF Init, HttpServerInit
<1>2. IsInput(input) /\ Readable(input) = << >>
  <2>1. CheapPrepend <= NewBuffer.reader
    BY BufferAssumption DEF NewBuffer
  <2>2. QED
    BY <1>1, <2>1, NewBufferEmpty, SomeBytes DEF IsInput
<1>3. Rest = << >> /\ Len(<< >>) = 0
  <2>1. << >> \o << >> = << >>
    OBVIOUS
  <2>2. QED
    BY <1>1, <1>2, <2>1, Zenon DEF Rest
<1>4. TypeOK
  <2>1. parser \in Contexts
    BY <1>1 DEF NoContext, Contexts
  <2>2. /\ client \in Seq(Requests) /\ wire \in Seq(Bytes)
        /\ answers \in Seq([status : {200, 400, 404}, path : Nat])
    BY <1>1, EmptySeq, Zenon
  <2>3. /\ conn \in {"kConnected", "kDisconnecting", "kDisconnected"}
        /\ pc \in {"poll", "parse", "failed", "parsed", "aborted"} /\ finSent \in BOOLEAN
    BY <1>1
  <2>4. QED
    BY <1>1, <1>2, <2>1, <2>2, <2>3, Zenon DEF TypeOK
<1>5. Answers
  BY <1>1 DEF Answers
<1> DEFINE start == [i \in {1} |-> 0]
<1>6. Starts(start, client)
  <2>1. start[1] = 0 /\ Len(client) = 0 /\ 0 + 1 = 1 /\ 1..0 = {}
    BY <1>1
  <2>2. Len(StreamOf(client)) = 0
    BY <1>1, <1>3, EmptyStream, Zenon
  <2> HIDE DEF start
  <2>3. QED
    BY <2>1, <2>2 DEF Starts
<1>7. Left(start[1])
  <2>1. start[1] = 0 /\ 0 \in Nat /\ 0 + 0 = 0 /\ 1..0 = {}
    OBVIOUS
  <2>2. Len(StreamOf(client)) = 0 /\ Len(Rest) = 0
    BY <1>1, <1>3, EmptyStream, Zenon
  <2> HIDE DEF start
  <2>3. QED
    BY <2>1, <2>2 DEF Left, Suffix
<1>8. ExpectsLine(1, start)
  BY <1>1, <1>7 DEF ExpectsLine, ExpectRequestLine, NoContext
<1>9. 1 \in Nat \ {0} /\ 1 <= Len(client) + 1 /\ 1 = Len(answers) + 1
  BY <1>1
<1> HIDE DEF start
<1>10. Parses
  BY <1>6, <1>8, <1>9, Zenon DEF Parses, At
<1>11. QED
  BY <1>4, <1>5, <1>10 DEF IInv

(* Answers only look at what is answered and how the connection is.        *)
LEMMA AnswersStay ==
  ASSUME Answers, answers' = answers, finSent' = finSent, httpCallback' = httpCallback,
         client' = client, conn' = "kConnected" => conn = "kConnected"
  PROVE  Answers'
<1>1. \A i : Expected(i)' = Expected(i)
  BY ExpectedStays
<1>2. QED
  BY <1>1, Zenon DEF Answers

(* What is left stays where it is when no byte is taken.                   *)
LEMMA LeftStays ==
  ASSUME client' = client, Rest' = Rest, NEW p
  PROVE  Left(p)' <=> Left(p)
BY Zenon DEF Left

(* A step that moves nothing but, maybe, bytes from the wire to the        *)
(* buffer, and that either does not change pc or has it at "poll" or       *)
(* "parse" before and after, leaves the parser where it is.                *)
LEMMA ParserStays ==
  ASSUME Parses, client' = client, Rest' = Rest, parser' = parser, answers' = answers,
         \/ pc' = pc
         \/ pc \in {"poll", "parse"} /\ pc' \in {"poll", "parse"},
         conn' = "kConnected" => conn = "kConnected"
  PROVE  Parses'
<1>1. PICK start : \E k \in Nat \ {0} :
         /\ Starts(start, client) /\ k <= Len(client) + 1 /\ At(k, start)
         /\ conn = "kConnected" => k = Len(answers) + 1
  BY Zenon DEF Parses
<1>2. PICK k \in Nat \ {0} :
         /\ Starts(start, client) /\ k <= Len(client) + 1 /\ At(k, start)
         /\ conn = "kConnected" => k = Len(answers) + 1
  BY <1>1, Zenon
<1>3. \A p : Left(p)' <=> Left(p)
  BY LeftStays
<1>4. pc' \in {"poll", "parse"} <=> pc \in {"poll", "parse"}
  OBVIOUS
<1>5. ASSUME ExpectsLine(k, start) PROVE ExpectsLine(k, start)'
  BY <1>3, <1>4, <1>5, Zenon DEF ExpectsLine, ExpectRequestLine
<1>6. ASSUME HasFailed(k, start) PROVE HasFailed(k, start)'
  <2>1. pc' \in {"poll", "parse", "failed", "aborted"}
        /\ (pc' = "failed" \/ conn' # "kConnected")
    BY <1>6 DEF HasFailed
  <2>2. QED
    BY <1>3, <1>6, <2>1, Zenon DEF HasFailed, ExpectRequestLine
<1>7. ASSUME NEW lines \in Nat, ExpectsHeader(k, start, lines)
      PROVE  ExpectsHeader(k, start, lines)'
  BY <1>3, <1>4, <1>7, Zenon DEF ExpectsHeader, ExpectHeaders, Received
<1>8. ASSUME HasParsed(k, start) PROVE HasParsed(k, start)'
  <2>1. pc' = "parsed"
    BY <1>8 DEF HasParsed
  <2>2. QED
    BY <1>3, <1>8, <2>1, Zenon DEF HasParsed, GotAll, Received
<1>9. At(k, start)'
  BY <1>2, <1>5, <1>6, <1>7, <1>8, Zenon DEF At
<1>10. /\ Starts(start, client') /\ k <= Len(client') + 1
       /\ conn' = "kConnected" => k = Len(answers') + 1
  BY <1>2, Zenon
<1>11. QED
  BY <1>9, <1>10, Zenon DEF Parses

-----------------------------------------------------------------------------
(* Every step keeps the invariant.  The client hangs up, or the server     *)
(* notices.                                                                *)
LEMMA HangUpKeeps ==
  ASSUME IInv, HangUp \/ HandleClose \/ NoLine \/ UNCHANGED vars
  PROVE  IInv'
<1>1. /\ TypeOK /\ Parses /\ Answers
      /\ client' = client /\ httpCallback' = httpCallback /\ wire' = wire /\ input' = input
      /\ parser' = parser /\ answers' = answers /\ finSent' = finSent
  BY DEF IInv, HangUp, HandleClose, NoLine, vars, clientVars
<1>2. /\ conn' = conn \/ conn' = "kDisconnected"
      /\ pc' = pc \/ (pc = "parse" /\ pc' = "poll")
  BY DEF HangUp, HandleClose, NoLine, vars, clientVars
<1>3. Rest' = Rest
  BY <1>1, Zenon DEF Rest
<1>4. TypeOK'
  <2>1. conn' \in {"kConnected", "kDisconnecting", "kDisconnected"}
        /\ pc' \in {"poll", "parse", "failed", "parsed", "aborted"}
    BY <1>1, <1>2 DEF TypeOK
  <2>2. QED
    BY <1>1, <2>1, Zenon DEF TypeOK
<1>5. /\ \/ pc' = pc
         \/ pc \in {"poll", "parse"} /\ pc' \in {"poll", "parse"}
      /\ conn' = "kConnected" => conn = "kConnected"
  BY <1>2
<1>6. Parses'
  BY <1>1, <1>3, <1>5, ParserStays
<1>7. Answers'
  BY <1>1, <1>5, AnswersStay
<1>8. QED
  BY <1>4, <1>6, <1>7 DEF IInv

(* Bytes go from the wire into the buffer, and are the same.               *)
LEMMA HandleReadKeeps ==
  ASSUME IInv, NEW n \in 1..Len(wire), HandleRead(n)
  PROVE  IInv'
<1>1. /\ TypeOK /\ Parses /\ Answers
      /\ client' = client /\ httpCallback' = httpCallback /\ conn' = conn
      /\ parser' = parser /\ answers' = answers /\ finSent' = finSent
      /\ pc = "poll" /\ pc' = "parse"
  BY DEF IInv, HandleRead, clientVars
<1> DEFINE front == SubSeq(wire, 1, n)
           back == SubSeq(wire, n + 1, Len(wire))
<1>2. input' = ReadFd(input, front) /\ wire' = back
  BY DEF HandleRead
<1>3. /\ wire \in Seq(Bytes) /\ Len(wire) \in Nat
      /\ IsBuffer(input, Bytes) /\ CheapPrepend <= input.reader
  BY <1>1, LenProperties DEF TypeOK, IsInput
<1>4. front \in Seq(Bytes)
  <2>1. n \in 0..Len(wire)
    BY <1>3
  <2>2. QED
    BY <1>3, <2>1, FrontSubSeq
<1>5. back \in Seq(Bytes)
  <2>1. n \in Nat /\ n <= Len(wire)
    BY <1>3
  <2>2. QED
    BY <1>3, <2>1, BackSubSeq
<1>6. front \o back = wire
  <2>1. 1 \in 1..Len(wire) + 1 /\ n \in 1 - 1..Len(wire) /\ Len(wire) \in n..Len(wire)
    BY <1>3
  <2>2. SubSeq(wire, 1, n) \o SubSeq(wire, n + 1, Len(wire)) = SubSeq(wire, 1, Len(wire))
    BY <1>3, <2>1, ConcatAdjacentSubSeq
  <2>3. SubSeq(wire, 1, Len(wire)) = wire
    BY <1>3, SubSeqFull
  <2>4. QED
    BY <2>2, <2>3
<1> HIDE DEF front, back
<1>7. /\ IsBuffer(ReadFd(input, front), Bytes)
      /\ Readable(ReadFd(input, front)) = Readable(input) \o front
  BY <1>3, <1>4, SomeBytes, ReadFdKeeps
<1>8. Rest' = Rest
  <2>1. Readable(input) \in Seq(Bytes)
    BY <1>3, ReadableProperties
  <2>2. (Readable(input) \o front) \o back = Readable(input) \o (front \o back)
    BY <1>4, <1>5, <2>1, ConcatAssociative
  <2>3. Rest' = Readable(ReadFd(input, front)) \o back
    BY <1>2, Zenon DEF Rest
  <2>4. QED
    BY <1>6, <1>7, <2>2, <2>3, Zenon DEF Rest
<1>9. TypeOK'
  <2>1. pc' \in {"poll", "parse", "failed", "parsed", "aborted"}
    BY <1>1
  <2>2. CheapPrepend <= ReadFd(input, front).reader
    BY <1>3, ReadFdReader
  <2>3. IsInput(input') /\ wire' \in Seq(Bytes)
    BY <1>2, <1>5, <1>7, <2>2, Zenon DEF IsInput
  <2>4. QED
    BY <1>1, <2>1, <2>3, Zenon DEF TypeOK
<1>10. pc \in {"poll", "parse"} /\ pc' \in {"poll", "parse"}
  BY <1>1
<1>11. Parses'
  BY <1>1, <1>8, <1>10, ParserStays
<1>12. Answers'
  BY <1>1, AnswersStay
<1>13. QED
  BY <1>9, <1>11, <1>12 DEF IInv

(* A request more, behind the others.                                      *)
LEMMA StartsGrow ==
  ASSUME NEW q \in Seq(Requests), NEW start, Starts(start, q), NEW r \in Requests
  PROVE  \E next : /\ Starts(next, Append(q, r))
                   /\ \A k \in 1..Len(q) + 1 : next[k] = start[k]
<1> DEFINE n == Len(q)
           c == Append(q, r)
           s == StreamOf(q)
           u == Encode(r, n + 1)
           t == StreamOf(c)
           next == [k \in 1..n + 2 |-> IF k = n + 2 THEN Len(t) ELSE start[k]]
<1>1. n \in Nat /\ n + 1 \in Nat
  BY LenProperties
<1>2. /\ c \in Seq(Requests) /\ Len(c) = n + 1 /\ c[n + 1] = r
      /\ \A k \in 1..n : c[k] = q[k]
  BY AppendProperties
<1>3. s \in Seq(Bytes) /\ t = s \o u
  BY StreamGrows
<1>4. r \in Seq(Texts) /\ Len(r) \in Nat
  BY RequestLines
<1>5. u \in Seq(Bytes) /\ Len(u) = 3 * Len(r) + 2 /\ RequestAt(u, 0, r, n + 1)
  BY <1>1, <1>4, EncodeProperties
<1> HIDE DEF c, s, u, t
<1>6. Len(t) = Len(s) + Len(u) /\ Len(s) \in Nat
  BY <1>3, <1>5, ConcatIndices, LenProperties
<1>7. start[1] = 0 /\ start[n + 1] = Len(s)
  BY Zenon DEF Starts, n, s
<1>8. /\ \A k \in 1..n + 1 : next[k] = start[k]
      /\ next[n + 2] = Len(t)
  BY <1>1
<1> HIDE DEF next
<1>9. ASSUME NEW k \in 1..n + 1
      PROVE  /\ next[k] \in Nat
             /\ next[k + 1] = next[k] + 3 * Len(c[k]) + 2
             /\ RequestAt(t, next[k], c[k], k)
  <2>1. CASE k = n + 1
    <3>1. next[k] = Len(s) /\ k + 1 = n + 2 /\ c[k] = r
      BY <1>2, <1>7, <1>8, <2>1
    <3>2. next[k + 1] = Len(s) + (3 * Len(r) + 2)
      BY <1>5, <1>6, <1>8, <3>1, Zenon
    <3>3. RequestAt(t, Len(s), r, n + 1)
      BY <1>3, <1>4, <1>5, RequestArrives, Zenon
    <3>4. QED
      <4>1. Len(s) + (3 * Len(r) + 2) = Len(s) + 3 * Len(r) + 2
        BY <1>4, <1>6
      <4>2. QED
        BY <1>6, <2>1, <3>1, <3>2, <3>3, <4>1, Zenon
  <2>2. CASE k # n + 1
    <3>1. k \in 1..n /\ k + 1 \in 1..n + 1
      BY <1>1, <2>2
    <3>2. /\ start[k] \in Nat /\ start[k + 1] = start[k] + 3 * Len(q[k]) + 2
          /\ RequestAt(s, start[k], q[k], k)
      BY <3>1, Zenon DEF Starts, n, s
    <3>3. q[k] \in Seq(Texts)
      BY <3>1, RequestLines, ElementOfSeq DEF n
    <3>4. RequestAt(t, start[k], q[k], k)
      BY <1>3, <1>5, <3>2, <3>3, RequestStays, Zenon
    <3>5. next[k] = start[k] /\ next[k + 1] = start[k + 1] /\ c[k] = q[k]
      BY <1>2, <1>8, <3>1, Zenon
    <3>6. QED
      BY <3>2, <3>4, <3>5, Zenon
  <2>3. QED
    BY <2>1, <2>2
<1>10. next[1] = 0 /\ next[(n + 1) + 1] = Len(t)
  <2>1. 1 \in 1..n + 1 /\ (n + 1) + 1 = n + 2
    BY <1>1
  <2>2. QED
    BY <1>7, <1>8, <2>1, Zenon
<1>11. Starts(next, c)
  BY <1>2, <1>9, <1>10, Zenon DEF Starts, t
<1>12. QED
  BY <1>8, <1>11, Zenon DEF c, n

(* The client sends: what is left grows, and nothing else is any different.*)
LEMMA SendRequestKeeps ==
  ASSUME IInv, SendRequest
  PROVE  IInv'
<1> DEFINE n == Len(client)
<1>1. PICK r \in Requests : /\ client' = Append(client, r)
                            /\ wire' = wire \o Encode(r, Len(client'))
  BY DEF SendRequest
<1>2. /\ TypeOK /\ Parses /\ Answers
      /\ httpCallback' = httpCallback /\ conn' = conn /\ input' = input /\ pc' = pc
      /\ parser' = parser /\ answers' = answers /\ finSent' = finSent
  BY DEF IInv, SendRequest
<1>3. client \in Seq(Requests) /\ wire \in Seq(Bytes) /\ n \in Nat
  BY <1>2, LenProperties DEF TypeOK
<1>4. /\ client' \in Seq(Requests) /\ Len(client') = n + 1
      /\ \A k \in 1..n : client'[k] = client[k]
  BY <1>1, <1>3, AppendProperties
<1> DEFINE u == Encode(r, n + 1)
           s == StreamOf(client)
<1>5. wire' = wire \o u
  BY <1>1, <1>4, Zenon
<1>6. u \in Seq(Bytes)
  BY <1>3, RequestLines, EncodeProperties
<1>7. s \in Seq(Bytes) /\ StreamOf(client') = s \o u
  BY <1>1, <1>3, StreamGrows
<1> HIDE DEF n, u, s
<1>8. /\ Readable(input) \in Seq(Bytes) /\ Rest \in Seq(Bytes) /\ Rest' = Rest \o u
  <2>1. Readable(input) \in Seq(Bytes) /\ Rest \in Seq(Bytes)
    BY <1>2, RestProperties
  <2>2. (Readable(input) \o wire) \o u = Readable(input) \o (wire \o u)
    BY <1>3, <1>6, <2>1, ConcatAssociative
  <2>3. QED
    BY <1>2, <1>5, <2>1, <2>2, Zenon DEF Rest
<1>9. ASSUME NEW p, Left(p)
      PROVE  Left(p)'
  <2>1. p \in Nat /\ Suffix(s, Rest, p)
    BY <1>9, Zenon DEF Left, Suffix, s
  <2>2. Suffix(s \o u, Rest \o u, p)
    BY <1>6, <1>7, <1>8, <2>1, SuffixGrows
  <2>3. QED
    BY <1>7, <1>8, <2>2, Zenon DEF Left
<1>10. TypeOK'
  <2>1. wire' \in Seq(Bytes)
    BY <1>3, <1>5, <1>6, ConcatProperties
  <2>2. QED
    BY <1>2, <1>4, <2>1, Zenon DEF TypeOK
<1>11. Answers'
  <2>1. Len(answers) \in Nat /\ Len(answers) <= n
    BY <1>2, LenProperties DEF TypeOK, Answers, n
  <2>2. Len(answers') <= Len(client') /\ \A i \in 1..Len(answers) : i \in 1..n
    BY <1>2, <1>3, <1>4, <2>1
  <2>3. \A i \in 1..Len(answers) : Expected(i)' = Expected(i)
    BY <1>2, <1>4, <2>2, ExpectedStays
  <2>4. QED
    BY <1>2, <2>2, <2>3, Zenon DEF Answers
<1>12. Parses'
  <2>1. PICK start : \E k \in Nat \ {0} :
           /\ Starts(start, client) /\ k <= Len(client) + 1 /\ At(k, start)
           /\ conn = "kConnected" => k = Len(answers) + 1
    BY <1>2, Zenon DEF Parses
  <2>2. PICK k \in Nat \ {0} :
           /\ Starts(start, client) /\ k <= Len(client) + 1 /\ At(k, start)
           /\ conn = "kConnected" => k = Len(answers) + 1
    BY <2>1, Zenon
  <2>3. PICK next : /\ Starts(next, client')
                    /\ \A i \in 1..n + 1 : next[i] = start[i]
    <3>1. Starts(start, client) /\ client \in Seq(Requests) /\ client' = Append(client, r)
      BY <1>1, <1>3, <2>2
    <3>2. \E next : /\ Starts(next, Append(client, r))
                    /\ \A i \in 1..Len(client) + 1 : next[i] = start[i]
      BY <3>1, StartsGrow
    <3>3. QED
      BY <3>1, <3>2, Zenon DEF n
  <2>4. next[k] = start[k]
    <3>1. k \in 1..n + 1
      BY <1>3, <2>2 DEF n
    <3>2. QED
      BY <2>3, <3>1
  <2>5. ASSUME k <= Len(client)
        PROVE  /\ k <= Len(client') /\ client'[k] = client[k]
               /\ next[k + 1] = start[k + 1]
    <3>1. k \in 1..n /\ k + 1 \in 1..n + 1
      BY <1>3, <2>5 DEF n
    <3>2. k <= Len(client')
      BY <1>3, <1>4, <3>1
    <3>3. QED
      BY <1>4, <2>3, <3>1, <3>2
  <2>6. ASSUME ExpectsLine(k, start) PROVE ExpectsLine(k, next)'
    BY <1>2, <1>9, <2>4, <2>6, Zenon DEF ExpectsLine, ExpectRequestLine
  <2>7. ASSUME HasFailed(k, start) PROVE HasFailed(k, next)'
    <3>1. k <= Len(client)
      BY <2>7 DEF HasFailed
    <3>2. k <= Len(client') /\ client'[k] = client[k]
      BY <2>5, <3>1
    <3>3. QED
      BY <1>2, <1>9, <2>4, <2>7, <3>2, Zenon DEF HasFailed, ExpectRequestLine
  <2>8. ASSUME NEW lines \in Nat, ExpectsHeader(k, start, lines)
        PROVE  ExpectsHeader(k, next, lines)'
    <3>1. k <= Len(client)
      BY <2>8 DEF ExpectsHeader
    <3>2. k <= Len(client') /\ client'[k] = client[k]
      BY <2>5, <3>1
    <3>3. QED
      BY <1>2, <1>9, <2>4, <2>8, <3>2, Zenon DEF ExpectsHeader, ExpectHeaders, Received
  <2>9. ASSUME HasParsed(k, start) PROVE HasParsed(k, next)'
    <3>1. k <= Len(client)
      BY <2>9 DEF HasParsed
    <3>2. k <= Len(client') /\ client'[k] = client[k] /\ next[k + 1] = start[k + 1]
      BY <2>5, <3>1
    <3>3. QED
      BY <1>2, <1>9, <2>9, <3>2, Zenon DEF HasParsed, GotAll, Received
  <2>10. At(k, next)'
    BY <2>2, <2>6, <2>7, <2>8, <2>9, Zenon DEF At
  <2>11. k <= Len(client') + 1 /\ (conn' = "kConnected" => k = Len(answers') + 1)
    <3>1. k <= Len(client') + 1
      BY <1>3, <1>4, <2>2 DEF n
    <3>2. QED
      BY <1>2, <2>2, <3>1, Zenon
  <2>12. QED
    BY <2>3, <2>10, <2>11, Zenon DEF Parses
<1>13. QED
  BY <1>10, <1>11, <1>12 DEF IInv

-----------------------------------------------------------------------------
(* What is known of request k.                                             *)
LEMMA RequestKnown ==
  ASSUME TypeOK, NEW start, Starts(start, client), NEW k \in 1..Len(client)
  PROVE  /\ client[k] \in Requests /\ client[k] \in Seq(Texts)
         /\ Len(client[k]) \in Nat \ {0}
         /\ client[k][1] \in Lines /\ \A i \in 2..Len(client[k]) : client[k][i] \in Headers
         /\ start[k] \in Nat /\ start[k + 1] = start[k] + 3 * Len(client[k]) + 2
         /\ RequestAt(StreamOf(client), start[k], client[k], k)
<1>1. client \in Seq(Requests)
  BY DEF TypeOK
<1>2. client[k] \in Requests
  BY <1>1, ElementOfSeq
<1>3. /\ start[k] \in Nat /\ start[k + 1] = start[k] + 3 * Len(client[k]) + 2
      /\ RequestAt(StreamOf(client), start[k], client[k], k)
  BY Zenon DEF Starts
<1>4. /\ client[k] \in Seq(Texts) /\ Len(client[k]) \in Nat \ {0}
      /\ client[k][1] \in Lines /\ \A i \in 2..Len(client[k]) : client[k][i] \in Headers
  BY <1>2, RequestLines
<1>5. QED
  BY <1>2, <1>3, <1>4, Zenon

(* The next line is the one behind the m lines received.                   *)
LEMMA TextNext ==
  ASSUME TypeOK, HasCRLF, NEW start, Starts(start, client), NEW k \in 1..Len(client),
         NEW m \in 0..Len(client[k]) - 1, Left(start[k] + 3 * m)
  PROVE  /\ FindCRLF = 1 /\ Line # << >> /\ Len(Line) = 1
         /\ Line[1] = Byte(client[k][m + 1], k)
<1> DEFINE s == StreamOf(client)
           r == client[k]
           pos == start[k] + 3 * m
<1>1. /\ r \in Seq(Texts) /\ Len(r) \in Nat /\ start[k] \in Nat
      /\ LinesAt(s, start[k], r, k)
  BY RequestKnown DEF RequestAt
<1>2. m + 1 \in 1..Len(r) /\ m \in Nat
  BY <1>1
<1>3. r[m + 1] \in Texts
  BY <1>1, <1>2, ElementOfSeq
<1>4. pos \in Nat
  BY <1>1, <1>2
<1>5. /\ s[start[k] + 3 * (m + 1) - 2] = Byte(r[m + 1], k)
      /\ s[start[k] + 3 * (m + 1) - 1] = CR /\ s[start[k] + 3 * (m + 1)] = LF
  BY <1>1, <1>2, Zenon DEF LinesAt
<1>6. /\ start[k] + 3 * (m + 1) - 2 = pos + 1 /\ start[k] + 3 * (m + 1) - 1 = pos + 2
      /\ start[k] + 3 * (m + 1) = pos + 3
  BY <1>1, <1>2
<1>7. Suffix(s, Rest, pos)
  BY Zenon DEF Left
<1>8. k \in Nat
  OBVIOUS
<1> HIDE DEF s, r, pos
<1>9. s[pos + 1] = Byte(r[m + 1], k) /\ s[pos + 2] = CR /\ s[pos + 3] = LF
  BY <1>5, <1>6, Zenon
<1>10. FindCRLF = 1 /\ Line # << >> /\ Line[1] = Byte(r[m + 1], k) /\ Len(Line) = 1
  BY <1>3, <1>4, <1>7, <1>8, <1>9, FindText
<1>11. QED
  BY <1>10 DEF r

(* Behind all lines of the request it is the empty one.                    *)
LEMMA EmptyNext ==
  ASSUME TypeOK, HasCRLF, NEW start, Starts(start, client), NEW k \in 1..Len(client),
         Left(start[k] + 3 * Len(client[k]))
  PROVE  FindCRLF = 0 /\ Line = << >>
<1> DEFINE s == StreamOf(client)
           pos == start[k] + 3 * Len(client[k])
<1>1. /\ Len(client[k]) \in Nat /\ start[k] \in Nat
      /\ s[pos + 1] = CR /\ s[pos + 2] = LF
  BY RequestKnown DEF RequestAt
<1>2. pos \in Nat
  BY <1>1
<1>3. Suffix(s, Rest, pos)
  BY Zenon DEF Left
<1> HIDE DEF s, pos
<1>4. QED
  BY <1>1, <1>2, <1>3, FindEmpty

(* Where the request line is expected and a line is there, a request is.   *)
LEMMA SomeRequest ==
  ASSUME TypeOK, HasCRLF, NEW start, Starts(start, client), NEW k \in Nat \ {0},
         k <= Len(client) + 1, Left(start[k])
  PROVE  k \in 1..Len(client)
<1>1. Len(client) \in Nat /\ client \in Seq(Requests)
  BY LenProperties DEF TypeOK
<1>2. ASSUME k = Len(client) + 1 PROVE FALSE
  <2>1. start[k] = Len(StreamOf(client))
    BY <1>2, Zenon DEF Starts
  <2>2. start[k] + Len(Rest) = Len(StreamOf(client)) /\ start[k] \in Nat
    BY Zenon DEF Left, Suffix
  <2>3. Len(Rest) >= 2 /\ Len(Rest) \in Nat
    BY FindNothing, RestProperties, LenProperties
  <2>4. QED
    BY <2>1, <2>2, <2>3
<1>3. QED
  BY <1>1, <1>2

(* retrieveUntil takes the line and its end from what is left.             *)
LEMMA LeftTakes ==
  ASSUME TypeOK, HasCRLF, RetrieveLine, wire' = wire, client' = client,
         NEW p \in Nat, Left(p), NEW q, q = p + (FindCRLF + 2)
  PROVE  IsInput(input)' /\ Left(q)'
<1> DEFINE s == StreamOf(client)
<1>1. s \in Seq(Bytes)
  BY StreamTyped DEF TypeOK
<1>2. Suffix(s, Rest, p)
  BY Zenon DEF Left
<1> HIDE DEF s
<1>3. IsInput(input)' /\ Suffix(s, Rest', q)
  BY <1>1, <1>2, RetrieveTakes
<1>4. QED
  BY <1>3, Zenon DEF Left, s

(* The request line: the parser goes on to the headers of request k if it  *)
(* is good, and if it is bad that stays so.                                *)
LEMMA ParseRequestLineKeeps ==
  ASSUME IInv, ParseRequestLine
  PROVE  IInv'
<1>1. /\ TypeOK /\ Parses /\ Answers
      /\ client' = client /\ httpCallback' = httpCallback /\ wire' = wire /\ conn' = conn
      /\ answers' = answers /\ finSent' = finSent
      /\ pc = "parse" /\ ExpectRequestLine /\ HasCRLF
  BY DEF IInv, ParseRequestLine, clientVars
<1>2. PICK start : \E k \in Nat \ {0} :
         /\ Starts(start, client) /\ k <= Len(client) + 1 /\ At(k, start)
         /\ conn = "kConnected" => k = Len(answers) + 1
  BY <1>1, Zenon DEF Parses
<1>3. PICK k \in Nat \ {0} :
         /\ Starts(start, client) /\ k <= Len(client) + 1 /\ At(k, start)
         /\ conn = "kConnected" => k = Len(answers) + 1
  BY <1>2, Zenon
<1>4. /\ Left(start[k])
      /\ \/ HasFailed(k, start) /\ conn # "kConnected"
         \/ ExpectsLine(k, start) /\ parser.method = "none" /\ parser.connection = "none"
  <2>1. ~(\E lines \in Nat : ExpectsHeader(k, start, lines)) /\ ~HasParsed(k, start)
    BY <1>1 DEF ExpectsHeader, HasParsed, ExpectHeaders, GotAll, ExpectRequestLine
  <2>2. CASE ExpectsLine(k, start)
    BY <2>2, Zenon DEF ExpectsLine
  <2>3. CASE HasFailed(k, start)
    BY <1>1, <2>3 DEF HasFailed
  <2>4. QED
    BY <1>3, <2>1, <2>2, <2>3, Zenon DEF At
<1>5. k \in 1..Len(client)
  BY <1>1, <1>3, <1>4, SomeRequest
<1> DEFINE r == client[k]
           method == MethodOf(Line)
           version == VersionOf(Line)
<1>6. r[1] \in Lines /\ start[k] \in Nat /\ Len(r) \in Nat \ {0}
  BY <1>1, <1>3, <1>5, RequestKnown
<1>7. FindCRLF = 1 /\ Len(Line) = 1 /\ Line[1].text = r[1] /\ Line[1].path = k
  <2>1. 0 \in 0..Len(r) - 1 /\ start[k] + 3 * 0 = start[k] /\ 0 + 1 = 1
    BY <1>6
  <2>2. FindCRLF = 1 /\ Len(Line) = 1 /\ Line[1] = Byte(r[0 + 1], k)
    BY <1>1, <1>3, <1>4, <1>5, <2>1, TextNext
  <2>3. QED
    BY <2>1, <2>2 DEF Byte
<1>8. method = IF r[1] # "odd11" THEN "get" ELSE "none"
  BY <1>6, <1>7 DEF MethodOf, Lines
<1>9. /\ version \in {"unknown", "1.0", "1.1"}
      /\ ~Bad(r) => version = IF r[1] = "get10" THEN "1.0" ELSE "1.1"
      /\ r[1] = "get20" => version = "unknown"
  BY <1>6, <1>7 DEF VersionOf, Lines, Bad
<1> HIDE DEF r, method, version
<1>10. Answers'
  BY <1>1, AnswersStay
<1>11. /\ \/ /\ parser.method # "none"
             /\ pc' = "aborted" /\ input' = input /\ parser' = parser
          \/ /\ parser.method = "none" /\ method # "none" /\ version # "unknown"
             /\ parser' = ReceiveRequestLine(SetPathAndVersion(
                             [parser EXCEPT !.method = method], Line[1].path, version))
             /\ RetrieveLine /\ pc' = pc
          \/ /\ parser.method = "none" /\ (method = "none" \/ version = "unknown")
             /\ parser' = [parser EXCEPT !.method = method,
                             !.path = IF method = "none" THEN @ ELSE Line[1].path]
             /\ pc' = "failed" /\ input' = input
  BY DEF ParseRequestLine, method, version
<1>12. parser \in Contexts
  BY <1>1 DEF TypeOK
<1>13. CASE /\ parser.method # "none"
            /\ pc' = "aborted" /\ input' = input /\ parser' = parser
  <2>1. HasFailed(k, start) /\ conn # "kConnected"
    BY <1>4, <1>13
  <2>2. Rest' = Rest
    BY <1>1, <1>13, Zenon DEF Rest
  <2>3. \A p : Left(p)' <=> Left(p)
    BY <1>1, <2>2, LeftStays
  <2>4. pc' \in {"poll", "parse", "failed", "aborted"}
    BY <1>13
  <2>5. HasFailed(k, start)'
    BY <1>1, <1>13, <2>1, <2>3, <2>4, Zenon DEF HasFailed, ExpectRequestLine
  <2>6. Parses'
    BY <1>1, <1>3, <2>5, Zenon DEF Parses, At
  <2>7. TypeOK'
    <3>1. pc' \in {"poll", "parse", "failed", "parsed", "aborted"}
      BY <1>13
    <3>2. QED
      BY <1>1, <1>13, <3>1, Zenon DEF TypeOK
  <2>8. QED
    BY <1>10, <2>6, <2>7 DEF IInv
<1>14. CASE /\ parser.method = "none" /\ method # "none" /\ version # "unknown"
            /\ parser' = ReceiveRequestLine(SetPathAndVersion(
                            [parser EXCEPT !.method = method], Line[1].path, version))
            /\ RetrieveLine /\ pc' = pc
  <2>1. ~Bad(r)
    BY <1>8, <1>9, <1>14 DEF Bad
  <2>2. ExpectsLine(k, start) /\ parser.connection = "none"
    BY <1>4, <2>1 DEF HasFailed, r
  <2>3. /\ parser' \in Contexts /\ parser'.state = "kExpectHeaders" /\ parser'.path = k
        /\ parser'.version = version /\ parser'.connection = "none"
    BY <1>7, <1>8, <1>9, <1>12, <1>14, <2>2
       DEF ReceiveRequestLine, SetPathAndVersion, Contexts
  <2>4. start[k] + 3 * 1 = start[k] + (FindCRLF + 2)
    BY <1>6, <1>7
  <2>5. IsInput(input)' /\ Left(start[k] + 3 * 1)'
    BY <1>1, <1>4, <1>6, <1>14, <2>4, LeftTakes
  <2>6. LastConnection(r, 1) = "none"
    <3>1. 1 \in Nat /\ 1 >= 1
      OBVIOUS
    <3>2. QED
      BY <3>1, ConnectionStep
  <2>7. Received(r, k, 1)'
    BY <1>1, <1>9, <2>1, <2>3, <2>6, Zenon DEF Received, r
  <2>8. k <= Len(client) /\ 1 \in 1..Len(r) /\ pc' \in {"poll", "parse"}
    BY <1>1, <1>5, <1>6, <1>14
  <2>9. ExpectsHeader(k, start, 1)'
    BY <1>1, <2>3, <2>5, <2>7, <2>8, Zenon DEF ExpectsHeader, ExpectHeaders, r
  <2>10. Parses'
    <3>1. 1 \in Nat
      OBVIOUS
    <3>2. QED
      BY <1>1, <1>3, <2>9, <3>1, Zenon DEF Parses, At
  <2>11. TypeOK'
    BY <1>1, <1>14, <2>3, <2>5, Zenon DEF TypeOK, IsInput, IsBuffer
  <2>12. QED
    BY <1>10, <2>10, <2>11 DEF IInv
<1>15. CASE /\ parser.method = "none" /\ (method = "none" \/ version = "unknown")
            /\ parser' = [parser EXCEPT !.method = method,
                            !.path = IF method = "none" THEN @ ELSE Line[1].path]
            /\ pc' = "failed" /\ input' = input
  <2>1. Bad(r)
    BY <1>8, <1>9, <1>15 DEF Bad
  <2>2. Rest' = Rest
    BY <1>1, <1>15, Zenon DEF Rest
  <2>3. \A p : Left(p)' <=> Left(p)
    BY <1>1, <2>2, LeftStays
  <2>4. parser' \in Contexts /\ parser'.state = "kExpectRequestLine"
    BY <1>1, <1>7, <1>8, <1>12, <1>15 DEF ExpectRequestLine, Contexts
  <2>5. pc' \in {"poll", "parse", "failed", "aborted"} /\ k <= Len(client)
    BY <1>5, <1>15
  <2>6. HasFailed(k, start)'
    BY <1>1, <1>4, <1>15, <2>1, <2>3, <2>4, <2>5, Zenon
       DEF HasFailed, ExpectRequestLine, r
  <2>7. Parses'
    BY <1>1, <1>3, <2>6, Zenon DEF Parses, At
  <2>8. TypeOK'
    <3>1. pc' \in {"poll", "parse", "failed", "parsed", "aborted"}
      BY <1>15
    <3>2. QED
      BY <1>1, <1>15, <2>4, <3>1, Zenon DEF TypeOK
  <2>9. QED
    BY <1>10, <2>7, <2>8 DEF IInv
<1>16. QED
  BY <1>11, <1>13, <1>14, <1>15

(* A header of request k, or the empty line behind its headers.            *)
LEMMA ParseHeaderKeeps ==
  ASSUME IInv, ParseHeader
  PROVE  IInv'
<1>1. /\ TypeOK /\ Parses /\ Answers
      /\ client' = client /\ httpCallback' = httpCallback /\ wire' = wire /\ conn' = conn
      /\ answers' = answers /\ finSent' = finSent
      /\ pc = "parse" /\ ExpectHeaders /\ HasCRLF /\ RetrieveLine
  BY DEF IInv, ParseHeader, clientVars
<1>2. PICK start : \E k \in Nat \ {0} :
         /\ Starts(start, client) /\ k <= Len(client) + 1 /\ At(k, start)
         /\ conn = "kConnected" => k = Len(answers) + 1
  BY <1>1, Zenon DEF Parses
<1>3. PICK k \in Nat \ {0} :
         /\ Starts(start, client) /\ k <= Len(client) + 1 /\ At(k, start)
         /\ conn = "kConnected" => k = Len(answers) + 1
  BY <1>2, Zenon
<1>4. PICK m \in Nat : ExpectsHeader(k, start, m)
  <2>1. ~ExpectsLine(k, start) /\ ~HasFailed(k, start) /\ ~HasParsed(k, start)
    BY <1>1 DEF ExpectsLine, HasFailed, HasParsed, ExpectHeaders, GotAll, ExpectRequestLine
  <2>2. QED
    BY <1>3, <2>1, Zenon DEF At
<1> DEFINE r == client[k]
<1>5. /\ k <= Len(client) /\ m \in 1..Len(r) /\ Received(r, k, m) /\ Left(start[k] + 3 * m)
  BY <1>4, Zenon DEF ExpectsHeader
<1>6. k \in 1..Len(client)
  BY <1>1, <1>5, LenProperties DEF TypeOK
<1>7. /\ Len(r) \in Nat \ {0} /\ \A i \in 2..Len(r) : r[i] \in Headers
      /\ start[k] \in Nat /\ start[k + 1] = start[k] + 3 * Len(r) + 2
  BY <1>1, <1>3, <1>6, RequestKnown
<1> HIDE DEF r
<1>8. Answers'
  BY <1>1, AnswersStay
<1>9. parser \in Contexts
  BY <1>1 DEF TypeOK
<1>10. start[k] + 3 * m \in Nat
  BY <1>5, <1>7
<1>11. CASE m # Len(r)
  <2>1. m \in 0..Len(r) - 1 /\ m + 1 \in 2..Len(r) /\ m + 1 \in 1..Len(r) /\ m + 1 \in Nat
    BY <1>5, <1>7, <1>11
  <2>2. /\ FindCRLF = 1 /\ Line # << >> /\ Line[1] = Byte(r[m + 1], k)
    BY <1>1, <1>3, <1>5, <1>6, <2>1, TextNext DEF r
  <2>3. Line[1].text = r[m + 1]
    BY <2>2 DEF Byte
  <2>4. AddHeader(r[m + 1]) /\ pc' = pc
    BY <2>2, <2>3 DEF ParseHeader
  <2>5. r[m + 1] \in {"keep", "close", "other"}
    BY <1>7, <2>1 DEF Headers
  <2>6. LastConnection(r, m + 1) = IF r[m + 1] = "other" THEN LastConnection(r, m)
                                   ELSE r[m + 1]
    <3>1. m >= 1
      BY <1>5
    <3>2. QED
      BY <3>1, ConnectionStep
  <2>7. /\ parser' \in Contexts /\ parser'.state = "kExpectHeaders"
        /\ parser'.path = parser.path /\ parser'.version = parser.version
        /\ parser'.connection = IF r[m + 1] = "other" THEN parser.connection
                                ELSE r[m + 1]
    <3>1. parser.state = "kExpectHeaders"
      BY <1>1 DEF ExpectHeaders
    <3>2. parser' = IF r[m + 1] = "other" THEN parser
                    ELSE [parser EXCEPT !.connection = r[m + 1]]
      BY <2>4 DEF AddHeader
    <3>3. QED
      BY <1>9, <2>5, <3>1, <3>2 DEF Contexts
  <2>8. Received(r, k, m + 1)'
    <3>1. parser'.connection = LastConnection(r, m + 1)
      BY <1>5, <2>6, <2>7, Zenon DEF Received
    <3>2. QED
      BY <1>1, <1>5, <2>7, <3>1, Zenon DEF Received, r
  <2>9. start[k] + 3 * (m + 1) = (start[k] + 3 * m) + (FindCRLF + 2)
    BY <1>7, <2>1, <2>2
  <2>10. IsInput(input)' /\ Left(start[k] + 3 * (m + 1))'
    BY <1>1, <1>5, <1>10, <2>9, LeftTakes
  <2>11. k <= Len(client') /\ m + 1 \in 1..Len(client'[k]) /\ pc' \in {"poll", "parse"}
    BY <1>1, <1>5, <2>1, <2>4 DEF r
  <2>12. ExpectsHeader(k, start, m + 1)'
    BY <1>1, <2>7, <2>8, <2>10, <2>11, Zenon DEF ExpectsHeader, ExpectHeaders, r
  <2>13. Parses'
    BY <1>1, <1>3, <2>1, <2>12, Zenon DEF Parses, At
  <2>14. TypeOK'
    BY <1>1, <2>4, <2>7, <2>10, Zenon DEF TypeOK, IsInput, IsBuffer
  <2>15. QED
    BY <1>8, <2>13, <2>14 DEF IInv
<1>12. CASE m = Len(r)
  <2>1. FindCRLF = 0 /\ Line = << >>
    BY <1>1, <1>3, <1>5, <1>6, <1>12, EmptyNext DEF r
  <2>2. parser' = ReceiveHeaders(parser) /\ pc' = "parsed"
    BY <2>1 DEF ParseHeader
  <2>3. /\ parser' \in Contexts /\ parser'.state = "kGotAll"
        /\ parser'.path = parser.path /\ parser'.version = parser.version
        /\ parser'.connection = parser.connection
    BY <1>9, <2>2 DEF ReceiveHeaders, Contexts
  <2>4. Received(r, k, Len(r))'
    BY <1>1, <1>5, <1>12, <2>3, Zenon DEF Received, r
  <2>5. start[k + 1] = (start[k] + 3 * m) + (FindCRLF + 2)
    BY <1>7, <1>12, <2>1
  <2>6. IsInput(input)' /\ Left(start[k + 1])'
    BY <1>1, <1>5, <1>10, <2>5, LeftTakes
  <2>7. HasParsed(k, start)'
    BY <1>1, <1>5, <2>2, <2>3, <2>4, <2>6, Zenon DEF HasParsed, GotAll, r
  <2>8. Parses'
    BY <1>1, <1>3, <2>7, Zenon DEF Parses, At
  <2>9. TypeOK'
    <3>1. pc' \in {"poll", "parse", "failed", "parsed", "aborted"}
      BY <2>2
    <3>2. QED
      BY <1>1, <2>3, <2>6, <3>1, Zenon DEF TypeOK, IsInput, IsBuffer
  <2>10. QED
    BY <1>8, <2>8, <2>9 DEF IInv
<1>13. QED
  BY <1>11, <1>12

(* A bad request is answered with a 400 that closes.                       *)
LEMMA BadRequestKeeps ==
  ASSUME IInv, BadRequest
  PROVE  IInv'
<1> DEFINE answer == [status |-> 400, path |-> 0]
<1>1. /\ TypeOK /\ Parses /\ Answers
      /\ client' = client /\ httpCallback' = httpCallback /\ wire' = wire /\ input' = input
      /\ parser' = parser
      /\ pc = "failed" /\ pc' = "poll" /\ Respond(answer, TRUE)
  BY DEF IInv, BadRequest, clientVars
<1>2. PICK start : \E k \in Nat \ {0} :
         /\ Starts(start, client) /\ k <= Len(client) + 1 /\ At(k, start)
         /\ conn = "kConnected" => k = Len(answers) + 1
  BY <1>1, Zenon DEF Parses
<1>3. PICK k \in Nat \ {0} :
         /\ Starts(start, client) /\ k <= Len(client) + 1 /\ At(k, start)
         /\ conn = "kConnected" => k = Len(answers) + 1
  BY <1>2, Zenon
<1>4. HasFailed(k, start)
  <2>1. ~ExpectsLine(k, start) /\ ~HasParsed(k, start)
        /\ \A lines \in Nat : ~ExpectsHeader(k, start, lines)
    BY <1>1 DEF ExpectsLine, ExpectsHeader, HasParsed
  <2>2. QED
    BY <1>3, <2>1, Zenon DEF At
<1>5. k <= Len(client) /\ Bad(client[k])
  BY <1>4 DEF HasFailed
<1>6. conn' # "kConnected"
  BY <1>1 DEF Respond
<1>7. Parses'
  <2>1. Rest' = Rest
    BY <1>1, Zenon DEF Rest
  <2>2. \A p : Left(p)' <=> Left(p)
    BY <1>1, <2>1, LeftStays
  <2>3. pc' \in {"poll", "parse", "failed", "aborted"}
    BY <1>1
  <2>4. HasFailed(k, start)'
    BY <1>1, <1>4, <1>6, <2>2, <2>3, Zenon DEF HasFailed, ExpectRequestLine
  <2>5. QED
    BY <1>1, <1>3, <1>6, <2>4, Zenon DEF Parses, At
<1>8. answer \in [status : {200, 400, 404}, path : Nat]
  OBVIOUS
<1> HIDE DEF answer
<1>9. TypeOK'
  <2>1. /\ conn' \in {"kConnected", "kDisconnecting", "kDisconnected"}
        /\ finSent' \in BOOLEAN
        /\ pc' \in {"poll", "parse", "failed", "parsed", "aborted"}
    BY <1>1 DEF Respond, TypeOK
  <2>2. answers' = answers \/ answers' = Append(answers, answer)
    BY <1>1 DEF Respond
  <2>3. answers' \in Seq([status : {200, 400, 404}, path : Nat])
    <3> DEFINE all == [status : {200, 400, 404}, path : Nat]
    <3>1. answers \in Seq(all) /\ answer \in all
      BY <1>1, <1>8 DEF TypeOK
    <3> HIDE DEF all
    <3>2. answers' \in Seq(all)
      BY <2>2, <3>1
    <3>3. QED
      BY <3>2 DEF all
  <2>4. QED
    BY <1>1, <2>1, <2>3, Zenon DEF TypeOK
<1>10. Answers'
  <2>1. CASE conn = "kConnected"
    <3>1. Expected(k).status = 400 /\ Expected(k).path = 0 /\ Expected(k).closes
      BY <1>5 DEF Expected, AnswerTo
    <3>2. answer.status = 400 /\ answer.path = 0
      BY DEF answer
    <3>3. answers' = Append(answers, answer) /\ finSent' = TRUE
      BY <1>1, <2>1 DEF Respond
    <3>4. k = Len(answers) + 1
      BY <1>3, <2>1
    <3>5. QED
      BY <1>1, <1>5, <1>6, <2>1, <3>1, <3>2, <3>3, <3>4, OneMore
  <2>2. CASE conn # "kConnected"
    <3>1. answers' = answers /\ finSent' = finSent /\ conn' = conn
      BY <1>1, <2>2 DEF Respond
    <3>2. QED
      BY <1>1, <3>1, AnswersStay
  <2>3. QED
    BY <2>1, <2>2
<1>11. QED
  BY <1>7, <1>9, <1>10 DEF IInv

(* A request that was received is answered as it asks for.                 *)
LEMMA OnRequestKeeps ==
  ASSUME IInv, OnRequest
  PROVE  IInv'
<1> DEFINE answer == Response(parser.path)
           close == Closes \/ ~Known(parser.path)
<1>1. /\ TypeOK /\ Parses /\ Answers
      /\ client' = client /\ httpCallback' = httpCallback /\ wire' = wire /\ input' = input
      /\ parser' = Swap(parser)
      /\ pc = "parsed" /\ pc' = "poll" /\ Respond(answer, close)
  BY DEF IInv, OnRequest, clientVars, Reset
<1>2. PICK start : \E k \in Nat \ {0} :
         /\ Starts(start, client) /\ k <= Len(client) + 1 /\ At(k, start)
         /\ conn = "kConnected" => k = Len(answers) + 1
  BY <1>1, Zenon DEF Parses
<1>3. PICK k \in Nat \ {0} :
         /\ Starts(start, client) /\ k <= Len(client) + 1 /\ At(k, start)
         /\ conn = "kConnected" => k = Len(answers) + 1
  BY <1>2, Zenon
<1>4. HasParsed(k, start)
  <2>1. ~ExpectsLine(k, start) /\ ~HasFailed(k, start)
        /\ \A lines \in Nat : ~ExpectsHeader(k, start, lines)
    BY <1>1 DEF ExpectsLine, ExpectsHeader, HasFailed, OnRequest, ExpectRequestLine, GotAll
  <2>2. QED
    BY <1>3, <2>1, Zenon DEF At
<1> DEFINE r == client[k]
<1>5. /\ k <= Len(client) /\ ~Bad(r) /\ parser.path = k
      /\ parser.version = IF r[1] = "get10" THEN "1.0" ELSE "1.1"
      /\ parser.connection = LastConnection(r, Len(r))
      /\ Left(start[k + 1])
  BY <1>4, Zenon DEF HasParsed, Received
<1>6. parser \in Contexts /\ httpCallback \in {"default", "user"}
  BY <1>1 DEF TypeOK
<1>7. /\ Expected(k).status = answer.status /\ Expected(k).path = answer.path
      /\ Expected(k).closes <=> close
  <2>1. Known(k) <=> ~(httpCallback = "default" \/ r[1] = "lost11")
    BY <1>6 DEF Known
  <2>2. Closes <=> \/ LastConnection(r, Len(r)) = "close"
                   \/ r[1] = "get10" /\ LastConnection(r, Len(r)) # "keep"
    <3>1. parser.version = "1.0" <=> r[1] = "get10"
      BY <1>5
    <3>2. QED
      BY <1>5, <3>1 DEF Closes
  <2>3. Expected(k) = AnswerTo(r, k, httpCallback)
    BY Zenon DEF Expected
  <2> HIDE DEF r
  <2>4. answer.status = (IF Known(k) THEN 200 ELSE 404) /\ answer.path = k
    BY <1>5 DEF Response
  <2>5. Expected(k).status = answer.status /\ Expected(k).path = answer.path
    BY <1>5, <2>1, <2>3, <2>4 DEF AnswerTo
  <2>6. Expected(k).closes <=> close
    BY <1>5, <2>1, <2>2, <2>3 DEF AnswerTo
  <2>7. QED
    BY <2>5, <2>6
<1>8. answer \in [status : {200, 400, 404}, path : Nat]
  BY <1>5 DEF Response
<1> HIDE DEF answer, close
<1>9. /\ parser' \in Contexts /\ parser'.state = "kExpectRequestLine"
      /\ parser'.method = "none" /\ parser'.connection = "none"
  BY <1>1, <1>6 DEF Swap, NoContext, Contexts
<1>10. TypeOK'
  <2>1. /\ conn' \in {"kConnected", "kDisconnecting", "kDisconnected"}
        /\ pc' \in {"poll", "parse", "failed", "parsed", "aborted"}
    BY <1>1 DEF Respond, TypeOK
  <2>2. finSent' \in BOOLEAN
    <3>1. finSent' = finSent \/ finSent' = (finSent \/ close)
      BY <1>1, Zenon DEF Respond
    <3>2. finSent \in BOOLEAN /\ close \in BOOLEAN
      BY <1>1 DEF TypeOK, close, Closes, Known
    <3>3. QED
      BY <3>1, <3>2
  <2>3. answers' = answers \/ answers' = Append(answers, answer)
    BY <1>1, Zenon DEF Respond
  <2>4. answers' \in Seq([status : {200, 400, 404}, path : Nat])
    <3> DEFINE all == [status : {200, 400, 404}, path : Nat]
    <3>1. answers \in Seq(all) /\ answer \in all
      BY <1>1, <1>8 DEF TypeOK
    <3> HIDE DEF all
    <3>2. answers' \in Seq(all)
      BY <2>3, <3>1
    <3>3. QED
      BY <3>2 DEF all
  <2>5. QED
    BY <1>1, <1>9, <2>1, <2>2, <2>4, Zenon DEF TypeOK
<1>11. Answers'
  <2>1. CASE conn = "kConnected"
    <3>1. answers' = Append(answers, answer) /\ (finSent' <=> finSent \/ close)
      BY <1>1, <2>1, Zenon DEF Respond
    <3>2. conn' = "kConnected" => ~close
      BY <1>1, <2>1 DEF Respond
    <3>3. k = Len(answers) + 1
      BY <1>3, <2>1
    <3>4. /\ finSent' <=> finSent \/ Expected(k).closes
          /\ conn' = "kConnected" => ~Expected(k).closes
      BY <1>7, <3>1, <3>2
    <3>5. QED
      BY <1>1, <1>5, <1>7, <2>1, <3>1, <3>3, <3>4, OneMore
  <2>2. CASE conn # "kConnected"
    <3>1. answers' = answers /\ finSent' = finSent /\ conn' = conn
      BY <1>1, <2>2 DEF Respond
    <3>2. QED
      BY <1>1, <3>1, AnswersStay
  <2>3. QED
    BY <2>1, <2>2
<1>12. Parses'
  <2>1. Rest' = Rest
    BY <1>1, Zenon DEF Rest
  <2>2. \A p : Left(p)' <=> Left(p)
    BY <1>1, <2>1, LeftStays
  <2>3. pc' \in {"poll", "parse"}
    BY <1>1
  <2>4. ExpectsLine(k + 1, start)'
    BY <1>5, <1>9, <2>2, <2>3, Zenon DEF ExpectsLine, ExpectRequestLine
  <2>5. conn' = "kConnected" => k + 1 = Len(answers') + 1
    <3>1. SUFFICES ASSUME conn' = "kConnected" PROVE k = Len(answers')
      OBVIOUS
    <3>2. conn = "kConnected"
      BY <1>1, <3>1 DEF Respond
    <3>3. answers' = Append(answers, answer) /\ k = Len(answers) + 1
      BY <1>1, <1>3, <3>2, Zenon DEF Respond
    <3>4. answers \in Seq([status : {200, 400, 404}, path : Nat])
      BY <1>1 DEF TypeOK
    <3>5. QED
      BY <1>8, <3>3, <3>4, AppendProperties
  <2>6. k + 1 \in Nat \ {0} /\ k + 1 <= Len(client') + 1
    BY <1>1, <1>5, LenProperties DEF TypeOK
  <2>7. Starts(start, client')
    BY <1>1, <1>3, Zenon
  <2>8. QED
    BY <2>4, <2>5, <2>6, <2>7, Zenon DEF Parses, At
<1>13. QED
  BY <1>10, <1>11, <1>12 DEF IInv

-----------------------------------------------------------------------------
(* The inductive invariant.                                                *)
THEOREM Invariant == Spec => []IInv
<1>1. Init => IInv
  BY InitHolds
<1>2. IInv /\ [Next]_vars => IInv'
  <2> SUFFICES ASSUME IInv, [Next]_vars PROVE IInv'
    OBVIOUS
  <2>1. CASE SendRequest
    BY <2>1, SendRequestKeeps
  <2>2. CASE \E n \in 1..Len(wire) : HandleRead(n)
    BY <2>2, HandleReadKeeps
  <2>3. CASE HangUp \/ HandleClose \/ NoLine \/ UNCHANGED vars
    BY <2>3, HangUpKeeps
  <2>4. CASE ParseRequestLine
    BY <2>4, ParseRequestLineKeeps
  <2>5. CASE ParseHeader
    BY <2>5, ParseHeaderKeeps
  <2>6. CASE BadRequest
    BY <2>6, BadRequestKeeps
  <2>7. CASE OnRequest
    BY <2>7, OnRequestKeeps
  <2>8. QED
    BY <2>1, <2>2, <2>3, <2>4, <2>5, <2>6, <2>7, Zenon DEF Next, ServerStep
<1>3. QED
  BY <1>1, <1>2, PTL DEF Spec

(* However the client's bytes are cut into pieces, and however many        *)
(* requests are on the way: one answer to each request, in their order,    *)
(* none after the one that closes.                                         *)
THEOREM AnswersRight == Spec => []AnswersInOrder
<1>1. IInv => AnswersInOrder
  <2> SUFFICES ASSUME IInv PROVE AnswersInOrder
    OBVIOUS
  <2>1. Answers /\ Len(answers) \in Nat /\ (answers = << >> <=> Len(answers) = 0)
    BY LenProperties, EmptySeq DEF IInv, TypeOK
  <2>2. \A i : Answer(i) = Expected(i)
    BY AnswerIsExpected
  <2>3. Len(answers) <= Len(client)
        /\ \A i \in 1..Len(answers) :
              /\ answers[i].status = Answer(i).status /\ answers[i].path = Answer(i).path
              /\ Answer(i).closes => i = Len(answers)
    BY <2>1, <2>2, Zenon DEF Answers
  <2>4. finSent <=> answers # << >> /\ Answer(Len(answers)).closes
    <3>1. finSent <=> \E i \in 1..Len(answers) : Answer(i).closes
      BY <2>1, <2>2, Zenon DEF Answers
    <3>2. answers # << >> => Len(answers) \in 1..Len(answers)
      BY <2>1
    <3>3. answers = << >> => 1..Len(answers) = {}
      BY <2>1
    <3>4. QED
      BY <2>3, <3>1, <3>2, <3>3, Zenon
  <2>5. QED
    BY <2>3, <2>4, Zenon DEF AnswersInOrder
<1>2. QED
  BY <1>1, Invariant, PTL

(* No byte is lost, invented or moved between the client and the parser.   *)
THEOREM NoByteLost == Spec => []BytesKept
<1>1. IInv => BytesKept
  <2> SUFFICES ASSUME IInv PROVE BytesKept
    OBVIOUS
  <2> DEFINE s == StreamOf(client)
             t == Rest
  <2>1. TypeOK /\ Parses
    BY DEF IInv
  <2>2. /\ CheapPrepend <= input.reader /\ input.reader <= input.writer
        /\ input.writer <= Len(input.vec)
    BY <2>1, Zenon DEF TypeOK, IsInput, IsBuffer
  <2>3. Stream = s
    BY Zenon DEF Stream, StreamOf
  <2>4. s \in Seq(Bytes) /\ t \in Seq(Bytes) /\ Len(s) \in Nat /\ Len(t) \in Nat
    BY <2>1, StreamTyped, RestProperties, LenProperties DEF TypeOK
  <2>5. PICK p : Left(p)
    BY <2>1, Zenon DEF Parses, At, ExpectsLine, HasFailed, ExpectsHeader, HasParsed
  <2>6. p \in Nat /\ p + Len(t) = Len(s) /\ \A i \in 1..Len(t) : t[i] = s[p + i]
    BY <2>5, Zenon DEF Left, Suffix
  <2> HIDE DEF s, t
  <2>7. Len(t) <= Len(s) /\ Len(s) - Len(t) + 1 = p + 1 /\ p <= Len(s)
        /\ Len(s) - p = Len(t)
    BY <2>4, <2>6
  <2>8. /\ SubSeq(s, p + 1, Len(s)) \in Seq(Bytes)
        /\ Len(SubSeq(s, p + 1, Len(s))) = Len(s) - p
        /\ \A i \in 1..Len(s) - p : SubSeq(s, p + 1, Len(s))[i] = s[p + i]
    BY <2>4, <2>6, <2>7, BackSubSeq
  <2>9. t = SubSeq(s, p + 1, Len(s))
    <3> DEFINE d == SubSeq(s, p + 1, Len(s))
    <3>1. d \in Seq(Bytes) /\ Len(t) = Len(d) /\ \A i \in 1..Len(t) : t[i] = d[i]
      BY <2>6, <2>7, <2>8, Zenon
    <3> HIDE DEF d
    <3>2. t = d
      BY <2>4, <3>1, SeqEqual
    <3>3. QED
      BY <3>2 DEF d
  <2>10. QED
    BY <2>2, <2>3, <2>7, <2>9, Zenon DEF BytesKept, Rest, t
<1>2. QED
  BY <1>1, Invariant, PTL

-----------------------------------------------------------------------------
(* A CRLF among the bytes that are read is found.                          *)
LEMMA LineThere ==
  ASSUME TypeOK, NEW s, NEW pos \in Nat, Suffix(s, Rest, pos),
         NEW n \in 0..Len(Readable(input)) - 2,
         s[pos + n + 1] = CR, s[pos + n + 2] = LF
  PROVE  HasCRLF
<1> DEFINE r == Readable(input)
<1>1. r \in Seq(Bytes) /\ Len(r) \in Nat
  BY RestProperties
<1>2. \A i \in 1..Len(r) : r[i] = s[pos + i]
  <2>1. Len(Rest) = Len(r) + Len(wire) /\ Len(wire) \in Nat
        /\ \A i \in 1..Len(r) : Rest[i] = r[i]
    BY RestProperties, LenProperties DEF TypeOK
  <2>2. \A i \in 1..Len(Rest) : Rest[i] = s[pos + i]
    BY DEF Suffix
  <2>3. \A i \in 1..Len(r) : i \in 1..Len(Rest)
    BY <1>1, <2>1
  <2>4. QED
    BY <2>1, <2>2, <2>3, Zenon
<1>3. CRLFs = {m \in 0..Len(r) - 2 : SubSeq(r, m + 1, m + 2) = CRLF}
  BY Zenon DEF CRLFs
<1>4. n \in 0..Len(r) - 2
  OBVIOUS
<1> HIDE DEF r
<1>5. /\ n + 1 \in 1..Len(r) /\ n + 2 \in 1..Len(r)
      /\ pos + (n + 1) = pos + n + 1 /\ pos + (n + 2) = pos + n + 2
  BY <1>1, <1>4
<1>6. r[n + 1] = CR /\ r[n + 2] = LF
  <2>1. r[n + 1] = s[pos + (n + 1)] /\ r[n + 2] = s[pos + (n + 2)]
    BY <1>2, <1>5, Zenon
  <2>2. QED
    BY <1>5, <2>1, Zenon
<1>7. SubSeq(r, n + 1, n + 2) = CRLF
  BY <1>1, <1>4, <1>6, PatternAt
<1>8. QED
  BY <1>3, <1>4, <1>7, Zenon DEF HasCRLF

(* ReadWhole counts the bytes behind a request as Starts does.             *)
LEMMA BytesBehind ==
  ASSUME TypeOK, NEW start, Starts(start, client), NEW i \in 1..Len(client),
         ReadWhole(i)
  PROVE  start[i + 1] + Len(wire) <= Len(StreamOf(client))
<1> DEFINE n == Len(client)
           len(k) == Len(Encode(client[k], k))
           behind == CHOOSE f : f = [k \in i..Len(client) |->
                        IF k = i THEN 0 ELSE f[k - 1] + Len(Encode(client[k], k))]
           from == [k \in i..Len(client) |-> start[k + 1] - start[i + 1]]
           T == {m \in Nat : i + m <= n => behind[i + m] = from[i + m]}
<1>1. n \in Nat /\ i \in Nat /\ i <= n
  BY LenProperties DEF TypeOK
<1>2. \A k \in 1..n : len(k) \in Nat /\ start[k] \in Nat /\ start[k + 1] = start[k] + len(k)
  <2>1. ASSUME NEW k \in 1..n
        PROVE  len(k) \in Nat /\ start[k] \in Nat /\ start[k + 1] = start[k] + len(k)
    <3>1. /\ client[k] \in Seq(Texts) /\ Len(client[k]) \in Nat /\ start[k] \in Nat
          /\ start[k + 1] = start[k] + 3 * Len(client[k]) + 2
      BY <2>1, RequestKnown
    <3>2. len(k) = 3 * Len(client[k]) + 2
      BY <3>1, EncodeProperties
    <3> HIDE DEF len
    <3>3. QED
      BY <3>1, <3>2
  <2>2. QED
    BY <2>1
<1>3. \A k \in i..n : from[k] = IF k = i THEN 0 ELSE from[k - 1] + len(k)
  <2>1. ASSUME NEW k \in i..n
        PROVE  from[k] = IF k = i THEN 0 ELSE from[k - 1] + len(k)
    <3> HIDE DEF len
    <3>1. k \in 1..n /\ i \in 1..n
      BY <1>1
    <3>2. CASE k = i
      <4>1. start[i + 1] \in Nat
        BY <1>2, <3>1
      <4>2. QED
        BY <3>2, <4>1
    <3>3. CASE k # i
      <4>1. k - 1 \in i..n /\ k - 1 + 1 = k
        BY <1>1, <3>3
      <4>2. start[k] \in Nat /\ start[i] \in Nat /\ len(k) \in Nat /\ len(i) \in Nat
            /\ start[k + 1] = start[k] + len(k) /\ start[i + 1] = start[i] + len(i)
        BY <1>2, <3>1
      <4>3. from[k] = start[k + 1] - start[i + 1] /\ from[k - 1] = start[k] - start[i + 1]
        BY <4>1
      <4> HIDE DEF from
      <4>4. QED
        BY <3>3, <4>2, <4>3
    <3>4. QED
      BY <3>2, <3>3
  <2>2. QED
    BY <2>1
<1>4. from = [k \in i..n |-> IF k = i THEN 0 ELSE from[k - 1] + len(k)]
  <2>1. from = [k \in i..n |-> from[k]]
    OBVIOUS
  <2> HIDE DEF from, len, n
  <2>2. QED
    BY <1>3, <2>1, Zenon
<1>5. behind = [k \in i..n |-> IF k = i THEN 0 ELSE behind[k - 1] + len(k)]
  <2> HIDE DEF from
  <2>1. QED
    BY <1>4, Zenon
<1>6. ReadWhole(i) <=> Len(wire) <= behind[n]
  BY Zenon DEF ReadWhole
<1> HIDE DEF from, len, n, behind
<1>7. \A k \in i..n : behind[k] = IF k = i THEN 0 ELSE behind[k - 1] + len(k)
  BY <1>5, Zenon
<1>8. 0 \in T
  <2>1. i + 0 = i /\ i \in i..n
    BY <1>1
  <2>2. behind[i] = from[i]
    BY <1>3, <1>7, <2>1, Zenon
  <2>3. QED
    BY <2>1, <2>2
<1>9. ASSUME NEW m \in Nat, m \in T PROVE m + 1 \in T
  <2>1. CASE i + (m + 1) <= n
    <3> DEFINE k == i + (m + 1)
    <3>1. k \in i..n /\ k # i /\ k - 1 = i + m /\ i + m <= n
      BY <1>1, <2>1
    <3>2. behind[i + m] = from[i + m]
      BY <1>9, <3>1
    <3> HIDE DEF k
    <3>3. behind[k] = from[k]
      BY <1>3, <1>7, <3>1, <3>2, Zenon
    <3>4. QED
      BY <3>3 DEF k
  <2>2. CASE ~(i + (m + 1) <= n)
    BY <2>2
  <2>3. QED
    BY <2>1, <2>2
<1>10. Nat \subseteq T
  <2> HIDE DEF T
  <2>1. QED
    BY <1>8, <1>9, Induction, Zenon
<1>11. behind[n] = from[n]
  <2>1. n - i \in Nat /\ i + (n - i) = n /\ n <= n
    BY <1>1
  <2>2. n - i \in T
    BY <1>10, <2>1
  <2>3. QED
    BY <2>1, <2>2
<1>12. from[n] = Len(StreamOf(client)) - start[i + 1]
  <2>1. start[n + 1] = Len(StreamOf(client))
    BY Zenon DEF Starts, n
  <2>2. n \in i..n
    BY <1>1
  <2>3. from[n] = start[n + 1] - start[i + 1]
    BY <2>2 DEF from, n
  <2>4. QED
    BY <2>1, <2>3
<1>13. start[i + 1] \in Nat /\ Len(StreamOf(client)) \in Nat /\ Len(wire) \in Nat
  <2>1. StreamOf(client) \in Seq(Bytes) /\ wire \in Seq(Bytes)
    BY StreamTyped DEF TypeOK
  <2>2. start[i + 1] \in Nat
    BY <1>1, <1>2
  <2>3. QED
    BY <2>1, <2>2, LenProperties
<1>14. QED
  BY <1>6, <1>11, <1>12, <1>13

(* A request that is read to its end leaves no iteration of the loop       *)
(* without a line, until it is received.                                   *)
LEMMA NextLineThere ==
  ASSUME IInv, pc = "parse", conn = "kConnected",
         Len(answers) + 1 <= Len(client), ReadWhole(Len(answers) + 1)
  PROVE  HasCRLF
<1>1. TypeOK /\ Parses /\ Len(answers) \in Nat
  BY LenProperties DEF IInv, TypeOK
<1>2. PICK start : \E k \in Nat \ {0} :
         /\ Starts(start, client) /\ k <= Len(client) + 1 /\ At(k, start)
         /\ conn = "kConnected" => k = Len(answers) + 1
  BY <1>1, Zenon DEF Parses
<1>3. PICK k \in Nat \ {0} :
         /\ Starts(start, client) /\ k <= Len(client) + 1 /\ At(k, start)
         /\ conn = "kConnected" => k = Len(answers) + 1
  BY <1>2, Zenon
<1> DEFINE r == client[k]
           s == StreamOf(client)
<1>4. k = Len(answers) + 1 /\ k \in 1..Len(client) /\ ReadWhole(k)
  <2>1. k = Len(answers) + 1
    BY <1>3
  <2>2. Len(client) \in Nat
    BY <1>1, LenProperties DEF TypeOK
  <2>3. QED
    BY <2>1, <2>2
<1>5. PICK m \in 0..Len(r) : Left(start[k] + 3 * m)
  <2>1. ~HasFailed(k, start) /\ ~HasParsed(k, start)
    BY DEF HasFailed, HasParsed
  <2>2. Len(r) \in Nat /\ start[k] \in Nat
    BY <1>1, <1>3, <1>4, RequestKnown
  <2>3. CASE ExpectsLine(k, start)
    <3>1. 0 \in 0..Len(r) /\ start[k] + 3 * 0 = start[k]
      BY <2>2
    <3>2. Left(start[k])
      BY <2>3, Zenon DEF ExpectsLine
    <3> HIDE DEF r
    <3>3. QED
      BY <3>1, <3>2, Zenon
  <2>4. CASE \E lines \in Nat : ExpectsHeader(k, start, lines)
    <3>1. PICK lines \in Nat : ExpectsHeader(k, start, lines)
      BY <2>4
    <3>2. lines \in 1..Len(r) /\ Left(start[k] + 3 * lines)
      BY <3>1, Zenon DEF ExpectsHeader
    <3>3. lines \in 0..Len(r)
      BY <3>2
    <3>4. QED
      BY <3>2, <3>3
  <2>5. QED
    BY <1>3, <2>1, <2>3, <2>4, Zenon DEF At
<1>6. /\ Len(r) \in Nat /\ start[k] \in Nat
      /\ start[k + 1] = start[k] + 3 * Len(r) + 2
      /\ LinesAt(s, start[k], r, k)
      /\ s[start[k] + 3 * Len(r) + 1] = CR /\ s[start[k] + 3 * Len(r) + 2] = LF
  BY <1>1, <1>3, <1>4, RequestKnown DEF RequestAt
<1>7. start[k + 1] + Len(wire) <= Len(s)
  BY <1>1, <1>3, <1>4, BytesBehind
<1>8. Suffix(s, Rest, start[k] + 3 * m)
  BY <1>5, Zenon DEF Left
<1>9. Len(Rest) = Len(Readable(input)) + Len(wire) /\ Len(Readable(input)) \in Nat
      /\ Len(wire) \in Nat /\ Len(s) \in Nat
  <2>1. s \in Seq(Bytes) /\ wire \in Seq(Bytes)
    BY <1>1, StreamTyped DEF TypeOK
  <2>2. QED
    BY <1>1, <2>1, RestProperties, LenProperties
<1> DEFINE pos == start[k] + 3 * m
<1> HIDE DEF r, s
<1>10. pos \in Nat /\ pos + Len(Readable(input)) + Len(wire) = Len(s)
  <2>1. pos \in Nat /\ pos + Len(Rest) = Len(s)
    BY <1>8, Zenon DEF Suffix
  <2> HIDE DEF pos
  <2>2. QED
    BY <1>9, <2>1
<1>11. Len(Readable(input)) >= 3 * (Len(r) - m) + 2
  <2> DEFINE read == Len(Readable(input))
  <2>1. read \in Nat /\ Len(wire) \in Nat /\ Len(s) \in Nat /\ Len(r) \in Nat
        /\ start[k] \in Nat /\ m \in Nat
    BY <1>5, <1>6, <1>9
  <2>2. start[k] + 3 * m + read + Len(wire) = Len(s)
    BY <1>10
  <2>3. start[k] + 3 * Len(r) + 2 + Len(wire) <= Len(s)
    BY <1>6, <1>7
  <2> HIDE DEF read
  <2>4. read >= 3 * (Len(r) - m) + 2
    BY <2>1, <2>2, <2>3
  <2>5. QED
    BY <2>4 DEF read
<1>12. CASE m # Len(r)
  <2>1. m + 1 \in 1..Len(r) /\ 1 \in 0..Len(Readable(input)) - 2
    BY <1>5, <1>6, <1>9, <1>11, <1>12
  <2>2. s[start[k] + 3 * (m + 1) - 1] = CR /\ s[start[k] + 3 * (m + 1)] = LF
    BY <1>6, <2>1, Zenon DEF LinesAt
  <2>3. /\ start[k] + 3 * (m + 1) - 1 = pos + 1 + 1
        /\ start[k] + 3 * (m + 1) = pos + 1 + 2
    BY <1>5, <1>6
  <2>4. s[pos + 1 + 1] = CR /\ s[pos + 1 + 2] = LF
    BY <2>2, <2>3, Zenon
  <2> HIDE DEF pos
  <2>5. Suffix(s, Rest, pos)
    BY <1>8 DEF pos
  <2>6. QED
    BY <1>1, <1>10, <2>1, <2>4, <2>5, LineThere
<1>13. CASE m = Len(r)
  <2>1. 0 \in 0..Len(Readable(input)) - 2
    BY <1>9, <1>11, <1>13, <1>6
  <2>2. pos + 0 + 1 = pos + 1 /\ pos + 0 + 2 = pos + 2
    BY <1>10
  <2>3. s[pos + 0 + 1] = CR /\ s[pos + 0 + 2] = LF
    BY <1>6, <1>13, <2>2, Zenon
  <2> HIDE DEF pos
  <2>4. Suffix(s, Rest, pos)
    BY <1>8 DEF pos
  <2>5. QED
    BY <1>1, <1>10, <2>1, <2>3, <2>4, LineThere
<1>14. QED
  BY <1>12, <1>13

(* However the requests before it and it itself were cut into pieces: the  *)
(* call of onMessage that finds a request's last byte read, and the        *)
(* request the next to answer, answers it.                                 *)
THEOREM NonePassedOver == Spec => AnsweredInTurn
<1> DEFINE next == Len(answers) + 1
           Turn == pc # "poll" /\ pc' = "poll" /\ conn = "kConnected"
                     /\ next <= Len(client) /\ ReadWhole(next)
                   => Len(answers') = next
<1>1. ASSUME IInv, [Next]_vars PROVE Turn
  <2> SUFFICES ASSUME pc # "poll", pc' = "poll", conn = "kConnected",
                      next <= Len(client), ReadWhole(next)
               PROVE  Len(answers') = next
    OBVIOUS
  <2>1. ASSUME NEW answer, NEW close, Respond(answer, close)
        PROVE  Len(answers') = next
    <3>1. answers' = Append(answers, answer)
      BY <2>1, Zenon DEF Respond
    <3>2. answers \in Seq([status : {200, 400, 404}, path : Nat])
      BY <1>1 DEF IInv, TypeOK
    <3>3. QED
      BY <3>1, <3>2
  <2>2. CASE BadRequest
    BY <2>1, <2>2, Zenon DEF BadRequest
  <2>3. CASE OnRequest
    BY <2>1, <2>3, Zenon DEF OnRequest
  <2>4. CASE NoLine
    <3>1. pc = "parse" /\ ~HasCRLF
      BY <2>4 DEF NoLine
    <3>2. HasCRLF
      BY <1>1, <3>1, NextLineThere
    <3>3. QED
      BY <3>1, <3>2
  <2>5. CASE \/ SendRequest \/ HangUp \/ HandleClose
             \/ \E n \in 1..Len(wire) : HandleRead(n)
    BY <2>5 DEF SendRequest, HangUp, HandleClose, HandleRead
  <2>6. CASE ParseRequestLine \/ ParseHeader
    BY <2>6 DEF ParseRequestLine, ParseHeader
  <2>7. CASE UNCHANGED vars
    BY <2>7 DEF vars
  <2>8. QED
    BY <1>1, <2>2, <2>3, <2>4, <2>5, <2>6, <2>7, Zenon DEF Next, ServerStep
<1>2. IInv /\ [Next]_vars => [Turn]_vars
  BY <1>1
<1>3. QED
  BY <1>2, Invariant, PTL DEF Spec, AnsweredInTurn
=============================================================================
