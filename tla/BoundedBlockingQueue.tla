------------------------ MODULE BoundedBlockingQueue ------------------------
(***************************************************************************)
(* BoundedBlockingQueue and BlockingQueue (12_muduo_BlockinngQueue/src):   *)
(* put waits on notFull_ while the queue is full, take waits on notEmpty_  *)
(* while it is empty, and each tells one waiter of the other kind.  A      *)
(* BlockingQueue is one whose capacity is never reached.                   *)
(*                                                                         *)
(* Each operation runs under mutex_, so it is one step; one that has to    *)
(* wait gives the mutex up and starts again at its test, woken by a notify *)
(* or by nothing.                                                          *)
(***************************************************************************)
EXTENDS Naturals, Sequences

VARIABLES capacity,   \* of the circular_buffer queue_
          queue,      \* queue_
          notEmpty,   \* threads blocked in notEmpty_.wait()
          notFull     \* threads blocked in notFull_.wait()

queueVars == <<capacity, queue, notEmpty, notFull>>

QueueInit(capacities) ==
  /\ capacity \in capacities
  /\ queue = << >> /\ notEmpty = {} /\ notFull = {}

(* Condition::notify: one of the threads waiting, if any does.             *)
Notify(waiting, after) ==
  \/ \E t \in waiting : after = waiting \ {t}
  \/ waiting = {} /\ after = {}

(* Faulty variant: the test is off by one.                                 *)
BadFull == Len(queue) > capacity

Full == Len(queue) = capacity

(* boost::circular_buffer drops its oldest element to make room.           *)
PushBack(x) ==
  queue' = Append(IF Len(queue) < capacity THEN queue ELSE Tail(queue), x)

(* Faulty variant: nobody is told.                                         *)
BadPut(t, x) ==
  /\ t \notin notFull /\ ~Full
  /\ PushBack(x)
  /\ UNCHANGED <<capacity, notEmpty, notFull>>

Put(t, x) ==
  /\ t \notin notFull /\ ~Full
  /\ PushBack(x)
  /\ Notify(notEmpty, notEmpty')
  /\ UNCHANGED <<capacity, notFull>>

PutBlocks(t) ==
  /\ t \notin notFull /\ Full
  /\ notFull' = notFull \cup {t}
  /\ UNCHANGED <<capacity, queue, notEmpty>>

(* Faulty variant: only a thread that finds the queue full tells others.   *)
BadTake(t) ==
  /\ t \notin notEmpty /\ queue # << >>
  /\ queue' = Tail(queue)
  /\ IF Full THEN Notify(notFull, notFull') ELSE UNCHANGED notFull
  /\ UNCHANGED <<capacity, notEmpty>>

Take(t) ==
  /\ t \notin notEmpty /\ queue # << >>
  /\ queue' = Tail(queue)
  /\ Notify(notFull, notFull')
  /\ UNCHANGED <<capacity, notEmpty>>

TakeBlocks(t) ==
  /\ t \notin notEmpty /\ queue = << >>
  /\ notEmpty' = notEmpty \cup {t}
  /\ UNCHANGED <<capacity, queue, notFull>>

(* pthread_cond_wait may return without a notify.                          *)
QueueSpurious(t) ==
  /\ t \in notEmpty \cup notFull
  /\ notEmpty' = notEmpty \ {t} /\ notFull' = notFull \ {t}
  /\ UNCHANGED <<capacity, queue>>
=============================================================================
