----------------------------- MODULE QueueTest ------------------------------
(***************************************************************************)
(* The programs that use BoundedBlockingQueue, BlockingQueue and           *)
(* CountDownLatch (11_muduo_CountDownLatch and 12_muduo_BlockinngQueue).   *)
(*   "queue"  Bounded- and BlockingQueue_test: takers count a latch down   *)
(*            as they start and take until they take "stop"; the owner     *)
(*            waits for the latch, puts a number of elements, then one     *)
(*            "stop" per taker, and joins the takers.  Other threads may   *)
(*            put as well, until the owner has joined them.                *)
(*   "bench"  BlockingQueue_bench: the same over a queue without limit;    *)
(*            the elements are Timestamps, an invalid one is the stop, and *)
(*            each taker counts the delays it has measured.                *)
(*   "one"    CountDownLatch_test1: the threads wait for the owner.        *)
(*   "all"    CountDownLatch_test2: the owner waits for the threads.       *)
(***************************************************************************)
EXTENDS BoundedBlockingQueue, CountDownLatch, FiniteSets, Functions

CONSTANTS Owner,        \* the thread of main
          Putters,      \* the other threads that put
          Takers,       \* the threads of threads_
          Capacities,   \* the capacities tried
          Unlimited,    \* one of them, never reached: a BlockingQueue
          Times,        \* what the owner puts before the stops
          MaxPuts       \* bound: what the Putters put, all together

ASSUME QueueTestAssumption ==
  /\ Times \in Nat /\ MaxPuts \in Nat /\ Capacities \subseteq Nat \ {0}
  /\ Unlimited \in Capacities /\ Unlimited > Times + MaxPuts + Cardinality(Takers)
  /\ IsFiniteSet(Takers) /\ Takers # {}
  /\ Owner \notin Putters \cup Takers /\ Putters \cap Takers = {}

VARIABLES
  program,   \* which of the programs runs
  owner,     \* "latch", "run", "stop", "join" or "joined"
  left,      \* how many puts of run, then of joinAll, the owner has before it
  putting,   \* Putters inside put
  puts,      \* how many calls of put the Putters have begun
  running,   \* takers inside their loop
  stopped,   \* takers that have taken a stop
  delays,    \* per taker: how many delays it has measured
  stops,     \* history: the elements that are stops
  taken      \* history: the elements taken, in order

testVars == <<program, owner, left, putting, puts, running, stopped, delays, stops,
              taken>>
vars == <<queueVars, latchVars, testVars>>

LatchCount == IF program = "one" THEN 1 ELSE Cardinality(Takers)

(* What main does after it has waited: run, or joinAll at once.            *)
AfterWait == IF program = "all" THEN "join" ELSE "run"

(* The constructors of the four programs.                                  *)
Init ==
  /\ program \in {"queue", "bench", "one", "all"}
  /\ QueueInit(IF program = "queue" THEN Capacities ELSE {Unlimited})
  /\ LatchInit(LatchCount)
  /\ owner = "latch" /\ left = Times
  /\ putting = {} /\ puts = 0
  /\ running = {} /\ stopped = {} /\ stops = {} /\ taken = << >>
  /\ delays = [t \in Takers |-> 0]

(* Elements are numbered in the order in which they are put.               *)
NextElement == Len(taken) + Len(queue) + 1

-----------------------------------------------------------------------------
(* The owner waits for the threads, and goes on to run, or to joinAll.     *)
OwnerWaits ==
  /\ program # "one" /\ owner = "latch"
  /\ \/ LatchPasses(Owner) /\ UNCHANGED latchVars
        /\ owner' = AfterWait
     \/ LatchBlocks(Owner) /\ UNCHANGED owner
  /\ UNCHANGED <<program, queueVars, left, putting, puts, running, stopped, delays,
                 stops, taken>>

(* The owner lets the threads go: run of CountDownLatch_test1.             *)
OwnerReleases ==
  /\ program = "one" /\ owner = "latch"
  /\ CountDown
  /\ owner' = "join"
  /\ UNCHANGED <<program, queueVars, left, putting, puts, running, stopped, delays,
                 stops, taken>>

OwnerPuts ==
  /\ owner \in {"run", "stop"} /\ left > 0
  /\ \/ /\ Put(Owner, NextElement)
        /\ left' = left - 1
        /\ stops' = IF owner = "stop" THEN stops \cup {NextElement} ELSE stops
     \/ PutBlocks(Owner) /\ UNCHANGED <<left, stops>>
  /\ UNCHANGED <<program, latchVars, owner, putting, puts, running, stopped, delays,
                 taken>>

(* From run to joinAll, once the other putters are done, and to its joins. *)
OwnerGoesOn ==
  /\ \/ /\ owner = "run" /\ left = 0 /\ putting = {}
        /\ owner' = "stop" /\ left' = Cardinality(Takers)
     \/ /\ owner = "stop" /\ left = 0 /\ owner' = "join" /\ UNCHANGED left
  /\ UNCHANGED <<program, queueVars, latchVars, putting, puts, running, stopped,
                 delays, stops, taken>>

(* joinAll: the joins, which return when the threads have ended.           *)
OwnerJoins ==
  /\ owner = "join" /\ stopped = Takers
  /\ owner' = "joined"
  /\ UNCHANGED <<program, queueVars, latchVars, left, putting, puts, running, stopped,
                 delays, stops, taken>>

CallPut(t) ==
  /\ program = "queue" /\ owner \in {"latch", "run"}
  /\ t \notin putting /\ puts < MaxPuts
  /\ putting' = putting \cup {t} /\ puts' = puts + 1
  /\ UNCHANGED <<program, queueVars, latchVars, owner, left, running, stopped, delays,
                 stops, taken>>

PutterPuts(t) ==
  /\ t \in putting
  /\ \/ Put(t, NextElement) /\ putting' = putting \ {t}
     \/ PutBlocks(t) /\ UNCHANGED putting
  /\ UNCHANGED <<program, latchVars, owner, left, puts, running, stopped, delays,
                 stops, taken>>

TakerStarts(t) ==
  /\ program # "one" /\ t \notin running \cup stopped
  /\ CountDown
  /\ running' = running \cup {t}
  /\ UNCHANGED <<program, queueVars, owner, left, putting, puts, stopped, delays,
                 stops, taken>>

(* An element that is not a stop is a valid Timestamp in the bench.        *)
Measures(t, x) ==
  delays' = IF program = "bench" /\ x \notin stops
               THEN [delays EXCEPT ![t] = @ + 1] ELSE delays

TakerTakes(t) ==
  /\ program \in {"queue", "bench"} /\ t \in running
  /\ \/ /\ Take(t)
        /\ taken' = Append(taken, Head(queue))
        /\ Measures(t, Head(queue))
        /\ IF Head(queue) \in stops
              THEN running' = running \ {t} /\ stopped' = stopped \cup {t}
              ELSE UNCHANGED <<running, stopped>>
     \/ TakeBlocks(t) /\ UNCHANGED <<running, stopped, delays, taken>>
  /\ UNCHANGED <<program, latchVars, owner, left, putting, puts, stops>>

(* threadFunc of CountDownLatch_test1: wait for the owner, and return.     *)
ThreadWaits(t) ==
  /\ program = "one" /\ t \notin stopped
  /\ \/ LatchPasses(t) /\ UNCHANGED latchVars /\ stopped' = stopped \cup {t}
     \/ LatchBlocks(t) /\ UNCHANGED stopped
  /\ UNCHANGED <<program, queueVars, owner, left, putting, puts, running, delays,
                 stops, taken>>

(* The rest of threadFunc of CountDownLatch_test2, after its countDown.    *)
ThreadEnds(t) ==
  /\ program = "all" /\ t \in running
  /\ running' = running \ {t} /\ stopped' = stopped \cup {t}
  /\ UNCHANGED <<program, queueVars, latchVars, owner, left, putting, puts, delays,
                 stops, taken>>

Spurious(t) ==
  \/ QueueSpurious(t) /\ UNCHANGED <<latchVars, testVars>>
  \/ LatchSpurious(t) /\ UNCHANGED <<queueVars, testVars>>

-----------------------------------------------------------------------------
Finished == owner = "joined" /\ UNCHANGED vars

OwnerStep == OwnerWaits \/ OwnerReleases \/ OwnerPuts \/ OwnerGoesOn \/ OwnerJoins
TakerStep(t) == TakerStarts(t) \/ TakerTakes(t) \/ ThreadWaits(t) \/ ThreadEnds(t)

Next ==
  \/ OwnerStep
  \/ \E t \in Putters : CallPut(t) \/ PutterPuts(t)
  \/ \E t \in Takers : TakerStep(t)
  \/ \E t \in Putters \cup Takers \cup {Owner} : Spurious(t)
  \/ Finished

Spec == Init /\ [][Next]_vars

(* A thread that is not blocked goes on; the Putters need not call put.    *)
FairSpec ==
  /\ Spec
  /\ WF_vars(OwnerStep)
  /\ \A t \in Putters : WF_vars(PutterPuts(t))
  /\ \A t \in Takers : WF_vars(TakerStep(t))

-----------------------------------------------------------------------------
(* While a thread sleeps in take, every queued element has an awake taker  *)
(* of its own on its way into take; while one sleeps in put, every free    *)
(* place has an awake putter.  One notify per put and per take is enough,  *)
(* whoever gets to the mutex first.                                        *)
NobodySleepsOnWork ==
  LET putters == putting \cup IF owner \in {"run", "stop"} /\ left > 0
                                 THEN {Owner} ELSE {}
  IN  /\ notEmpty # {} => Len(queue) <= Cardinality(running \ notEmpty)
      /\ notFull # {} => capacity <= Len(queue) + Cardinality(putters \ notFull)

(* What is put is taken once, in the order of the puts, and nothing is     *)
(* dropped from a full circular buffer.                                    *)
Elements == 1..Times + MaxPuts + Cardinality(Takers)
Abstract == INSTANCE FunctorQueue
              WITH Functors <- Elements, todo <- queue, done <- taken
ImplementsQueue == Abstract!Spec

(* However small the queue, joinAll returns: every taker gets a stop of    *)
(* its own, no put or take of the run is left asleep, no thread waits for  *)
(* a latch that is open, and the takers of the bench have measured every   *)
(* element that was put and is no stop.                                    *)
Measured == FoldFunction(+, 0, delays)
Joins == <>(owner = "joined" /\ (program = "bench" => Measured = Times))
=============================================================================
