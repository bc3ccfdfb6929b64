------------------------------- MODULE Buffer -------------------------------
(***************************************************************************)
(* Buffer (26_muduo_Buffer/src/Buffer.h, Buffer.cc): a vector with a       *)
(* readable part between readerIndex_ and writerIndex_, free space behind  *)
(* it, and room in front of it for what is prepended.  A buffer is a value *)
(* here, and each operation a function from buffers to buffers.            *)
(***************************************************************************)
EXTENDS Integers, Sequences

CONSTANTS CheapPrepend,   \* kCheapPrepend
          InitialSize,    \* kInitialSize
          ExtraSize       \* the size of extrabuf in readFd

ASSUME BufferAssumption ==
  CheapPrepend \in Nat /\ InitialSize \in Nat /\ ExtraSize \in Nat

Blank == "blank"     \* a byte of the vector that was never written

NewBuffer == [vec |-> [i \in 1..CheapPrepend + InitialSize |-> Blank],
              reader |-> CheapPrepend, writer |-> CheapPrepend]

ReadableBytes(b)    == b.writer - b.reader
WritableBytes(b)    == Len(b.vec) - b.writer
PrependableBytes(b) == b.reader

(* toStringPiece: the readable bytes.                                      *)
Readable(b) == SubSeq(b.vec, b.reader + 1, b.writer)

(* What retrieve and readInt assert: so many bytes are readable.           *)
MayRetrieve(b, len) == len <= ReadableBytes(b)

RetrieveAll(b) == [b EXCEPT !.reader = CheapPrepend, !.writer = CheapPrepend]

Retrieve(b, len) ==
  IF len < ReadableBytes(b) THEN [b EXCEPT !.reader = @ + len]
  ELSE RetrieveAll(b)

(* vec with bytes copied into it behind its first n.                       *)
CopyTo(vec, n, bytes) ==
  [i \in DOMAIN vec |-> IF i - n \in DOMAIN bytes THEN bytes[i - n] ELSE vec[i]]

(* vector::resize, to more than the size.                                  *)
Resize(vec, size) == [i \in 1..size |-> IF i \in DOMAIN vec THEN vec[i] ELSE Blank]

(* There is room enough if the readable bytes are moved to the front.      *)
RoomInFront(b, len) == WritableBytes(b) + PrependableBytes(b) >= len + CheapPrepend

(* Faulty variant: the bytes are moved, the indices are left.              *)
BadMoveToFront(b) == [b EXCEPT !.vec = CopyTo(b.vec, CheapPrepend, Readable(b))]

MoveToFront(b) == [vec |-> CopyTo(b.vec, CheapPrepend, Readable(b)), reader |-> CheapPrepend,
                   writer |-> CheapPrepend + ReadableBytes(b)]

MakeSpace(b, len) ==
  IF RoomInFront(b, len) THEN MoveToFront(b)
  ELSE [b EXCEPT !.vec = Resize(b.vec, b.writer + len)]

EnsureWritableBytes(b, len) ==
  IF WritableBytes(b) < len THEN MakeSpace(b, len) ELSE b

(* bytes copied to beginWrite(), as many as fit, and hasWritten(len).      *)
Write(b, bytes, len) == [vec |-> CopyTo(b.vec, b.writer, bytes),
                         reader |-> b.reader, writer |-> b.writer + len]

AppendBytes(b, bytes) ==
  Write(EnsureWritableBytes(b, Len(bytes)), bytes, Len(bytes))

(* prepend, which asserts that there is room in front.                     *)
MayPrepend(b, bytes) == Len(bytes) <= PrependableBytes(b)

Prepend(b, bytes) == [vec |-> CopyTo(b.vec, b.reader - Len(bytes), bytes),
                      reader |-> b.reader - Len(bytes), writer |-> b.writer]

(* shrink: a new buffer with the readable bytes and room for reserve more. *)
Shrink(b, reserve) ==
  AppendBytes(EnsureWritableBytes(NewBuffer, ReadableBytes(b) + reserve), Readable(b))

(* readFd: what readv puts into the vector, and what it puts into extrabuf *)
(* and is appended.                                                        *)
MayRead(b, bytes) == Len(bytes) <= WritableBytes(b) + ExtraSize

ReadFd(b, bytes) ==
  LET writable == WritableBytes(b)
  IN  IF Len(bytes) <= writable THEN Write(b, bytes, Len(bytes))
      ELSE AppendBytes(Write(b, bytes, writable),
                       SubSeq(bytes, writable + 1, Len(bytes)))

(* hostToNetwork: the bytes of an integer of so many bytes, the most       *)
(* significant first; Place is what each place is worth, the least first.  *)
Place == <<1, 256, 256 * 256, 256 * 256 * 256>>

HostToNetwork(x, size) == [i \in 1..size |-> (x \div Place[size - i + 1]) % 256]

(* networkToHost: the first byte has the sign.                             *)
Signed(byte) == IF byte < 128 THEN byte ELSE byte - 256

NetworkToHost(bytes) ==
  LET n == Len(bytes)
      high == Place[n] * Signed(bytes[1])
  IN  IF n = 1 THEN high
      ELSE IF n = 2 THEN high + bytes[2]
      ELSE high + Place[3] * bytes[2] + Place[2] * bytes[3] + bytes[4]

(* appendInt8, 16 and 32, and so on: size is 1, 2 or 4.  A peek asserts    *)
(* that the integer is there, a read that it may be retrieved.             *)
AppendInt(b, x, size)  == AppendBytes(b, HostToNetwork(x, size))
PrependInt(b, x, size) == Prepend(b, HostToNetwork(x, size))
PeekInt(b, size)       == NetworkToHost(SubSeq(Readable(b), 1, size))
ReadInt(b, size)       == [result |-> PeekInt(b, size), buffer |-> Retrieve(b, size)]
=============================================================================
