--------------------------- MODULE CountDownLatch ---------------------------
(***************************************************************************)
(* CountDownLatch (11_muduo_CountDownLatch/src/CountDownLatch.cc): threads *)
(* wait until the count, decremented by others, is 0.  Each operation runs *)
(* under mutex_, so it is one step; a wait that blocks gives the mutex up  *)
(* and later starts again at the test, woken by notifyAll or by nothing.   *)
(***************************************************************************)
EXTENDS Naturals

VARIABLES count,        \* count_
          latchWaiting  \* threads blocked in condition_.wait()

latchVars == <<count, latchWaiting>>

LatchInit(n) == count = n /\ latchWaiting = {}

(* Faulty variant: an `if' in place of the while loop around the wait.     *)
BadLatchPasses(t) == t \notin latchWaiting

(* wait: t returns from it.                                                *)
LatchPasses(t) == t \notin latchWaiting /\ count = 0

(* wait: t blocks.                                                         *)
LatchBlocks(t) ==
  /\ t \notin latchWaiting /\ count > 0
  /\ latchWaiting' = latchWaiting \cup {t}
  /\ UNCHANGED count

(* pthread_cond_wait may return without a notify.                          *)
LatchSpurious(t) ==
  /\ t \in latchWaiting
  /\ latchWaiting' = latchWaiting \ {t}
  /\ UNCHANGED count

(* Faulty variant: the notify is forgotten.                                *)
BadCountDown == count' = count - 1 /\ UNCHANGED latchWaiting

CountDown ==
  /\ count' = count - 1
  /\ latchWaiting' = IF count' = 0 THEN {} ELSE latchWaiting
=============================================================================
