--------------------------- MODULE ProgramProofs ----------------------------
(* Theorems about the programs of the early chapters: QueueTest, with the  *)
(* blocking queues in it, for every number of takers, every set of         *)
(* putters, all capacities and bounds, and then EchoServer, for every set  *)
(* of clients and any number of descriptors.                               *)
EXTENDS QueueTest, EchoServer, SequenceTheorems, FiniteSetTheorems, TLAPS

N == Cardinality(Takers)

(* The programs with a queue in them.                                      *)
WithQueue == program \in {"queue", "bench"}

(* The threads inside put.                                                 *)
AtPut == putting \cup IF owner \in {"run", "stop"} /\ left > 0 THEN {Owner} ELSE {}

TypeOK ==
  /\ program \in {"queue", "bench", "one", "all"}
  /\ capacity \in Nat \ {0} /\ queue \in Seq(Nat) /\ taken \in Seq(Nat)
  /\ running \subseteq Takers /\ stopped \subseteq Takers
  /\ putting \subseteq Putters /\ IsFiniteSet(putting) /\ puts \in 0..MaxPuts
  /\ owner \in {"latch", "run", "stop", "join", "joined"} /\ left \in Nat
  /\ delays \in [Takers -> Nat] /\ count \in Int

(* Who waits is inside the operation, and two of the programs have no      *)
(* queue.                                                                  *)
Inside ==
  /\ running \cap stopped = {}
  /\ notEmpty \subseteq running /\ notFull \subseteq AtPut
  /\ owner \notin {"latch", "run"} => putting = {}
  /\ program = "one" => running = {}
  /\ owner = "joined" => stopped = Takers
  /\ ~WithQueue => /\ queue = << >> /\ notEmpty = {} /\ putting = {}
                   /\ owner \in {"latch", "join", "joined"}

(* Elements are numbered from 1 without a gap in the order of the puts.    *)
Numbered ==
  /\ Len(queue) <= capacity
  /\ \A i \in 1..Len(taken) : taken[i] = i
  /\ \A i \in 1..Len(queue) : queue[i] = Len(taken) + i

(* What the owner has put, and how many stops are among it.                *)
OwnersPuts ==
  IF owner = "run" THEN Times - left
  ELSE IF owner = "stop" THEN Times + (N - left)
  ELSE IF owner \in {"join", "joined"} /\ WithQueue THEN Times + N ELSE 0

StopsPut ==
  IF owner = "stop" THEN N - left
  ELSE IF owner \in {"join", "joined"} /\ WithQueue THEN N ELSE 0

Total == Len(taken) + Len(queue)

(* Every put that has returned is accounted for.                           *)
Counted ==
  /\ owner \in {"latch", "run"} => left <= Times
  /\ owner = "latch" => left = Times
  /\ owner = "stop" => left <= N
  /\ Total + Cardinality(putting) = puts + OwnersPuts

(* The stops come last, and each that was taken has stopped a taker.       *)
StopsLast ==
  /\ StopsPut <= Total
  /\ stops = Total - StopsPut + 1..Total
  /\ WithQueue => Cardinality(stopped) = IF Len(queue) < StopsPut
                                            THEN StopsPut - Len(queue) ELSE 0

IInv == TypeOK /\ Inside /\ Numbered /\ Counted /\ StopsLast

-----------------------------------------------------------------------------
(* The takers are some, and can be counted.                                *)
LEMMA Counts ==
  /\ N \in Nat /\ N > 0
  /\ \A S \in SUBSET Takers : IsFiniteSet(S) /\ Cardinality(S) \in Nat
<1>1. IsFiniteSet(Takers) /\ Takers # {}
  BY QueueTestAssumption
<1>2. N \in Nat /\ N # 0
  BY <1>1, FS_CardinalityType, FS_EmptySet DEF N
<1>3. \A S \in SUBSET Takers : IsFiniteSet(S) /\ Cardinality(S) \in Nat
  BY <1>1, FS_Subset, FS_CardinalityType
<1>4. QED
  BY <1>2, <1>3

(* put appends the next number and fills no more than the capacity.        *)
LEMMA PutEffect ==
  ASSUME TypeOK, Numbered, NEW t, Put(t, NextElement)
  PROVE  /\ queue' = Append(queue, NextElement) /\ queue' \in Seq(Nat)
         /\ NextElement = Total + 1 /\ Total \in Nat
         /\ Len(queue) \in Nat /\ Len(taken) \in Nat
         /\ Len(queue') = Len(queue) + 1 /\ Len(queue') <= capacity
         /\ \A i \in 1..Len(queue') : queue'[i] = Len(taken) + i
         /\ notEmpty' \subseteq notEmpty /\ UNCHANGED <<capacity, notFull>>
<1>1. Len(queue) \in Nat /\ Len(taken) \in Nat /\ capacity \in Nat /\ queue \in Seq(Nat)
  BY DEF TypeOK
<1>2. NextElement = Len(taken) + Len(queue) + 1 /\ NextElement = Total + 1 /\ Total \in Nat
  BY <1>1 DEF NextElement, Total
<1>3. Len(queue) < capacity /\ queue' = Append(queue, NextElement)
  <2>1. Len(queue) < capacity
    BY <1>1 DEF Put, Full, Numbered
  <2>2. QED
    BY <2>1 DEF Put, PushBack
<1>4. /\ queue' \in Seq(Nat) /\ Len(queue') = Len(queue) + 1
      /\ \A i \in 1..Len(queue) : queue'[i] = queue[i]
      /\ queue'[Len(queue) + 1] = NextElement
  BY <1>1, <1>2, <1>3, AppendProperties
<1>5. ASSUME NEW i \in 1..Len(queue') PROVE queue'[i] = Len(taken) + i
  <2>1. CASE i \in 1..Len(queue)
    BY <1>4, <2>1 DEF Numbered
  <2>2. CASE i = Len(queue) + 1
    BY <1>1, <1>2, <1>4, <2>2
  <2>3. QED
    BY <1>1, <1>4, <2>1, <2>2
<1>6. notEmpty' \subseteq notEmpty /\ UNCHANGED <<capacity, notFull>>
  BY DEF Put, Notify
<1>7. QED
  BY <1>1, <1>2, <1>3, <1>4, <1>5, <1>6

(* take answers the oldest number.                                         *)
LEMMA TakeEffect ==
  ASSUME TypeOK, Numbered, NEW t, Take(t)
  PROVE  /\ queue # << >> /\ Head(queue) = Len(taken) + 1 /\ Head(queue) \in Nat
         /\ queue' = Tail(queue) /\ queue' \in Seq(Nat)
         /\ Len(queue) \in Nat \ {0} /\ Len(taken) \in Nat
         /\ Len(queue') = Len(queue) - 1 /\ Len(queue') <= capacity
         /\ \A i \in 1..Len(queue') : queue'[i] = Len(taken) + 1 + i
         /\ notFull' \subseteq notFull /\ UNCHANGED <<capacity, notEmpty>>
<1>1. Len(taken) \in Nat /\ capacity \in Nat /\ queue \in Seq(Nat)
  BY DEF TypeOK
<1>2. queue # << >> /\ queue' = Tail(queue)
  BY DEF Take
<1>3. /\ Len(queue) \in Nat \ {0} /\ Len(queue') = Len(queue) - 1 /\ queue' \in Seq(Nat)
      /\ Head(queue) = queue[1] /\ \A i \in 1..Len(queue') : queue'[i] = queue[i + 1]
  <2>1. Len(queue) \in Nat /\ Len(queue) # 0
    BY <1>1, <1>2, EmptySeq, LenProperties
  <2>2. QED
    BY <1>1, <1>2, <2>1, HeadTailProperties
<1>4. Head(queue) = Len(taken) + 1 /\ Len(queue') <= capacity
  BY <1>1, <1>3 DEF Numbered
<1>5. ASSUME NEW i \in 1..Len(queue') PROVE queue'[i] = Len(taken) + 1 + i
  <2>1. i + 1 \in 1..Len(queue) /\ Len(taken) + (i + 1) = Len(taken) + 1 + i
    BY <1>1, <1>3
  <2>2. QED
    BY <1>3, <2>1 DEF Numbered
<1>6. notFull' \subseteq notFull /\ UNCHANGED <<capacity, notEmpty>>
  BY DEF Take, Notify
<1>7. QED
  BY <1>1, <1>2, <1>3, <1>4, <1>5, <1>6

-----------------------------------------------------------------------------
(* The states the programs start in.                                       *)
LEMMA InitCorrect == Init => IInv
<1> SUFFICES ASSUME Init PROVE IInv
  OBVIOUS
<1>1. /\ queue = << >> /\ taken = << >> /\ notEmpty = {} /\ notFull = {}
      /\ owner = "latch" /\ left = Times /\ putting = {} /\ puts = 0
      /\ running = {} /\ stopped = {} /\ stops = {}
      /\ capacity \in Nat \ {0} /\ Times \in Nat /\ MaxPuts \in Nat
  BY QueueTestAssumption DEF Init, QueueInit
<1>2. Len(<< >>) = 0 /\ << >> \in Seq(Nat)
  OBVIOUS
<1>3. Cardinality({}) = 0 /\ IsFiniteSet({})
  BY FS_EmptySet
<1>4. TypeOK
  <2>1. count \in Int
    BY Counts DEF Init, LatchInit, LatchCount, N
  <2>2. program \in {"queue", "bench", "one", "all"} /\ delays \in [Takers -> Nat]
    BY DEF Init
  <2>3. left \in Nat /\ puts \in 0..MaxPuts
    BY <1>1
  <2>4. QED
    BY <1>1, <1>2, <1>3, <2>1, <2>2, <2>3, Zenon DEF TypeOK
<1>5. Inside /\ Numbered
  BY <1>1, <1>2 DEF Inside, Numbered, AtPut
<1>6. Total = 0 /\ OwnersPuts = 0 /\ StopsPut = 0
  BY <1>1, <1>2 DEF Total, OwnersPuts, StopsPut
<1>7. Counted /\ StopsLast
  BY <1>1, <1>2, <1>3, <1>6 DEF Counted, StopsLast
<1>8. QED
  BY <1>4, <1>5, <1>7 DEF IInv

(* No step gives a variable a value outside its type.                      *)
LEMMA TypeStep ==
  ASSUME IInv, [Next]_vars PROVE TypeOK'
<1>1. TypeOK /\ Numbered
  BY DEF IInv
<1> USE DEF TypeOK
<1>2. CASE OwnerWaits
  BY <1>1, <1>2 DEF OwnerWaits, LatchBlocks, AfterWait, queueVars, latchVars
<1>3. CASE OwnerReleases
  BY <1>1, <1>3 DEF OwnerReleases, CountDown, queueVars
<1>4. CASE OwnerPuts
  <2>1. CASE PutBlocks(Owner)
    BY <1>1, <1>4, <2>1 DEF OwnerPuts, PutBlocks, latchVars
  <2>2. CASE Put(Owner, NextElement) /\ left' = left - 1
    <3>1. queue' \in Seq(Nat) /\ capacity' = capacity
      BY <1>1, <2>2, PutEffect
    <3>2. left' \in Nat
      BY <1>1, <1>4, <2>2 DEF OwnerPuts
    <3>3. QED
      BY <1>1, <1>4, <3>1, <3>2 DEF OwnerPuts, latchVars
  <2>3. QED
    BY <1>4, <2>1, <2>2 DEF OwnerPuts
<1>5. CASE OwnerGoesOn
  BY <1>1, <1>5, Counts DEF OwnerGoesOn, N, queueVars, latchVars
<1>6. CASE OwnerJoins
  BY <1>1, <1>6 DEF OwnerJoins, queueVars, latchVars
<1>7. ASSUME NEW t \in Putters, CallPut(t) PROVE TypeOK'
  <2>1. IsFiniteSet(putting')
    BY <1>1, <1>7, FS_AddElement DEF CallPut
  <2>2. puts' \in 0..MaxPuts
    BY <1>1, <1>7, QueueTestAssumption DEF CallPut
  <2>3. QED
    BY <1>1, <1>7, <2>1, <2>2 DEF CallPut, queueVars, latchVars
<1>8. ASSUME NEW t \in Putters, PutterPuts(t) PROVE TypeOK'
  <2>1. CASE PutBlocks(t) /\ UNCHANGED putting
    BY <1>1, <1>8, <2>1 DEF PutterPuts, PutBlocks, latchVars
  <2>2. CASE Put(t, NextElement) /\ putting' = putting \ {t}
    <3>1. queue' \in Seq(Nat) /\ capacity' = capacity
      BY <1>1, <2>2, PutEffect
    <3>2. IsFiniteSet(putting')
      BY <1>1, <2>2, FS_Subset
    <3>3. QED
      BY <1>1, <1>8, <2>2, <3>1, <3>2 DEF PutterPuts, latchVars
  <2>3. QED
    BY <1>8, <2>1, <2>2 DEF PutterPuts
<1>9. ASSUME NEW t \in Takers, TakerStarts(t) PROVE TypeOK'
  BY <1>1, <1>9 DEF TakerStarts, CountDown, queueVars
<1>10. ASSUME NEW t \in Takers, TakerTakes(t) PROVE TypeOK'
  <2>1. CASE TakeBlocks(t) /\ UNCHANGED <<running, stopped, delays, taken>>
    BY <1>1, <1>10, <2>1 DEF TakerTakes, TakeBlocks, latchVars
  <2>2. CASE Take(t) /\ taken' = Append(taken, Head(queue)) /\ Measures(t, Head(queue))
    <3>1. queue' \in Seq(Nat) /\ capacity' = capacity /\ Head(queue) \in Nat
      BY <1>1, <2>2, TakeEffect
    <3>2. taken' \in Seq(Nat)
      BY <1>1, <2>2, <3>1, AppendProperties
    <3>3. delays' \in [Takers -> Nat]
      BY <1>1, <2>2 DEF Measures
    <3>4. running' \subseteq Takers /\ stopped' \subseteq Takers
      BY <1>1, <1>10 DEF TakerTakes
    <3>5. QED
      BY <1>1, <1>10, <3>1, <3>2, <3>3, <3>4 DEF TakerTakes, latchVars
  <2>3. QED
    BY <1>10, <2>1, <2>2 DEF TakerTakes
<1>11. ASSUME NEW t \in Takers, ThreadWaits(t) PROVE TypeOK'
  BY <1>1, <1>11 DEF ThreadWaits, LatchBlocks, queueVars, latchVars
<1>12. ASSUME NEW t \in Takers, ThreadEnds(t) PROVE TypeOK'
  BY <1>1, <1>12 DEF ThreadEnds, queueVars, latchVars
<1>13. ASSUME NEW t, Spurious(t) PROVE TypeOK'
  BY <1>1, <1>13 DEF Spurious, QueueSpurious, LatchSpurious, queueVars, latchVars, testVars
<1>14. CASE UNCHANGED vars
  BY <1>1, <1>14 DEF vars, queueVars, latchVars, testVars
<1>15. QED
  BY <1>2, <1>3, <1>4, <1>5, <1>6, <1>7, <1>8, <1>9, <1>10, <1>11, <1>12, <1>13, <1>14
     DEF Next, OwnerStep, TakerStep, Finished

-----------------------------------------------------------------------------
(* The threads in a wait stay inside the operation that waits.             *)
LEMMA InsideStep ==
  ASSUME IInv, [Next]_vars PROVE Inside'
<1>1. TypeOK /\ Numbered /\ Inside /\ Owner \notin Putters \cup Takers
  BY QueueTestAssumption DEF IInv
<1>2. CASE OwnerWaits
  BY <1>1, <1>2 DEF OwnerWaits, AfterWait, Inside, AtPut, WithQueue, TypeOK, queueVars
<1>3. CASE OwnerReleases
  BY <1>1, <1>3 DEF OwnerReleases, Inside, AtPut, WithQueue, queueVars
<1>4. CASE OwnerPuts
  <2>1. WithQueue /\ WithQueue' /\ Owner \in AtPut /\ UNCHANGED <<program, running, stopped, putting, owner>>
    BY <1>1, <1>4 DEF OwnerPuts, Inside, WithQueue, AtPut
  <2>2. CASE PutBlocks(Owner) /\ UNCHANGED left
    BY <1>1, <2>1, <2>2 DEF PutBlocks, Inside, AtPut
  <2>3. CASE Put(Owner, NextElement) /\ left' = left - 1
    <3>1. notEmpty' \subseteq notEmpty /\ notFull' = notFull /\ Owner \notin notFull
      BY <1>1, <2>3, PutEffect DEF Put
    <3>2. notFull \subseteq AtPut'
      BY <1>1, <2>1, <3>1 DEF Inside, AtPut
    <3>3. QED
      BY <1>1, <2>1, <3>1, <3>2 DEF Inside
  <2>4. QED
    BY <1>4, <2>2, <2>3 DEF OwnerPuts
<1>5. CASE OwnerGoesOn
  <2>1. Owner \notin AtPut /\ AtPut \subseteq AtPut'
    BY <1>1, <1>5 DEF OwnerGoesOn, AtPut, TypeOK
  <2>2. QED
    BY <1>1, <1>5, <2>1 DEF OwnerGoesOn, Inside, WithQueue, queueVars
<1>6. CASE OwnerJoins
  BY <1>1, <1>6 DEF OwnerJoins, Inside, AtPut, WithQueue, queueVars
<1>7. ASSUME NEW t \in Putters, CallPut(t) PROVE Inside'
  BY <1>1, <1>7 DEF CallPut, Inside, AtPut, WithQueue, queueVars
<1>8. ASSUME NEW t \in Putters, PutterPuts(t) PROVE Inside'
  <2>1. WithQueue /\ WithQueue' /\ t \in AtPut /\ UNCHANGED <<program, running, stopped, owner, left>>
    BY <1>1, <1>8 DEF PutterPuts, Inside, WithQueue, AtPut
  <2>2. CASE PutBlocks(t) /\ UNCHANGED putting
    BY <1>1, <2>1, <2>2 DEF PutBlocks, Inside, AtPut
  <2>3. CASE Put(t, NextElement) /\ putting' = putting \ {t}
    <3>1. notEmpty' \subseteq notEmpty /\ notFull' = notFull /\ t \notin notFull
      BY <1>1, <2>3, PutEffect DEF Put
    <3>2. notFull \subseteq AtPut'
      BY <1>1, <2>1, <2>3, <3>1 DEF Inside, AtPut
    <3>3. QED
      BY <1>1, <2>1, <2>3, <3>1, <3>2 DEF Inside
  <2>4. QED
    BY <1>8, <2>2, <2>3 DEF PutterPuts
<1>9. ASSUME NEW t \in Takers, TakerStarts(t) PROVE Inside'
  BY <1>1, <1>9 DEF TakerStarts, Inside, AtPut, WithQueue, TypeOK, queueVars
<1>10. ASSUME NEW t \in Takers, TakerTakes(t) PROVE Inside'
  <2>1. WithQueue /\ WithQueue' /\ AtPut' = AtPut /\ t \in running /\ program' # "one"
    BY <1>10 DEF TakerTakes, WithQueue, AtPut
  <2>2. CASE TakeBlocks(t) /\ UNCHANGED <<running, stopped>>
    BY <1>1, <1>10, <2>1, <2>2 DEF TakerTakes, TakeBlocks, Inside
  <2>3. CASE Take(t)
    <3>1. notFull' \subseteq notFull /\ notEmpty' = notEmpty /\ t \notin notEmpty
      BY <1>1, <2>3, TakeEffect DEF Take
    <3>2. /\ running' \cap stopped' = {} /\ running \ {t} \subseteq running'
          /\ stopped \subseteq stopped' /\ stopped' \subseteq Takers
          /\ UNCHANGED <<putting, owner>>
      BY <1>1, <1>10, <2>3 DEF TakerTakes, Inside, TakeBlocks, TypeOK
    <3>3. QED
      BY <1>1, <2>1, <3>1, <3>2 DEF Inside
  <2>4. QED
    BY <1>10, <2>2, <2>3 DEF TakerTakes
<1>11. ASSUME NEW t \in Takers, ThreadWaits(t) PROVE Inside'
  BY <1>1, <1>11 DEF ThreadWaits, Inside, AtPut, WithQueue, TypeOK, queueVars
<1>12. ASSUME NEW t \in Takers, ThreadEnds(t) PROVE Inside'
  BY <1>1, <1>12 DEF ThreadEnds, Inside, AtPut, WithQueue, TypeOK, queueVars
<1>13. ASSUME NEW t, Spurious(t) PROVE Inside'
  BY <1>1, <1>13 DEF Spurious, QueueSpurious, LatchSpurious, Inside, AtPut, WithQueue,
                     queueVars, testVars
<1>14. CASE UNCHANGED vars
  BY <1>1, <1>14 DEF vars, queueVars, testVars, Inside, AtPut, WithQueue
<1>15. QED
  BY <1>2, <1>3, <1>4, <1>5, <1>6, <1>7, <1>8, <1>9, <1>10, <1>11, <1>12, <1>13, <1>14
     DEF Next, OwnerStep, TakerStep, Finished

-----------------------------------------------------------------------------
(* The steps that put or take nothing.                                     *)
Idles ==
  /\ UNCHANGED <<program, capacity, queue, taken, stops>>
  /\ WithQueue => stopped' = stopped
  /\ \/ UNCHANGED <<putting, puts>>
     \/ \E t \in Putters \ putting : putting' = putting \cup {t} /\ puts' = puts + 1

(* A put, and what it is counted as.                                       *)
OwnersPut ==
  /\ owner \in {"run", "stop"} /\ left > 0 /\ left' = left - 1
  /\ Put(Owner, NextElement)
  /\ stops' = IF owner = "stop" THEN stops \cup {NextElement} ELSE stops
  /\ UNCHANGED <<program, owner, taken, putting, puts, stopped, running>>

OthersPut(t) ==
  /\ t \in putting /\ putting' = putting \ {t}
  /\ Put(t, NextElement)
  /\ UNCHANGED <<program, owner, left, taken, puts, stopped, running, stops>>

(* A take, by a taker that goes on or by one that is stopped.              *)
Takes(t) ==
  /\ WithQueue /\ t \in running
  /\ Take(t) /\ taken' = Append(taken, Head(queue))
  /\ IF Head(queue) \in stops
        THEN running' = running \ {t} /\ stopped' = stopped \cup {t}
        ELSE UNCHANGED <<running, stopped>>
  /\ UNCHANGED <<program, owner, left, putting, puts, stops>>

(* A step puts, takes or does neither.                                     *)
LEMMA QueueSteps ==
  ASSUME [Next]_vars
  PROVE  Idles \/ OwnersPut \/ (\E t \in Putters : OthersPut(t)) \/ (\E t \in Takers : Takes(t))
<1>1. CASE OwnerWaits \/ OwnerReleases \/ OwnerGoesOn \/ OwnerJoins
  BY <1>1 DEF OwnerWaits, OwnerReleases, OwnerGoesOn, OwnerJoins, Idles, WithQueue,
              queueVars
<1>2. CASE OwnerPuts
  BY <1>2 DEF OwnerPuts, OwnersPut, PutBlocks, Idles
<1>3. ASSUME NEW t \in Putters, CallPut(t) \/ PutterPuts(t) PROVE Idles \/ OthersPut(t)
  BY <1>3 DEF CallPut, PutterPuts, OthersPut, PutBlocks, Idles, WithQueue, queueVars
<1>4. ASSUME NEW t \in Takers, TakerTakes(t) PROVE Idles \/ Takes(t)
  BY <1>4 DEF TakerTakes, Takes, TakeBlocks, WithQueue, Idles
<1>5. ASSUME NEW t \in Takers, TakerStarts(t) \/ ThreadWaits(t) \/ ThreadEnds(t) PROVE Idles
  BY <1>5 DEF TakerStarts, ThreadWaits, ThreadEnds, Idles, WithQueue, queueVars
<1>6. ASSUME NEW t, Spurious(t) PROVE Idles
  BY <1>6 DEF Spurious, QueueSpurious, LatchSpurious, Idles, queueVars, testVars
<1>7. CASE UNCHANGED vars
  BY <1>7 DEF vars, queueVars, testVars, Idles
<1>8. QED
  BY <1>1, <1>2, <1>3, <1>4, <1>5, <1>6, <1>7 DEF Next, OwnerStep, TakerStep, Finished

(* The elements stay numbered.                                             *)
LEMMA NumberedStep ==
  ASSUME IInv, [Next]_vars PROVE Numbered'
<1>1. TypeOK /\ Numbered
  BY DEF IInv
<1>2. CASE Idles
  BY <1>1, <1>2 DEF Idles, Numbered
<1>3. ASSUME NEW t, Put(t, NextElement), taken' = taken PROVE Numbered'
  BY <1>1, <1>3, PutEffect DEF Numbered
<1>4. ASSUME NEW t, Takes(t) PROVE Numbered'
  <2>1. /\ Head(queue) = Len(taken) + 1 /\ Head(queue) \in Nat
        /\ Len(queue') <= capacity /\ capacity' = capacity
        /\ \A i \in 1..Len(queue') : queue'[i] = Len(taken) + 1 + i
        /\ Len(taken) \in Nat
    BY <1>1, <1>4, TakeEffect DEF Takes
  <2>2. /\ Len(taken') = Len(taken) + 1 /\ taken'[Len(taken) + 1] = Head(queue)
        /\ \A i \in 1..Len(taken) : taken'[i] = taken[i]
    BY <1>1, <1>4, <2>1, AppendProperties DEF Takes, TypeOK
  <2>3. ASSUME NEW i \in 1..Len(taken') PROVE taken'[i] = i
    <3>1. CASE i \in 1..Len(taken)
      BY <1>1, <2>2, <3>1 DEF Numbered
    <3>2. CASE i = Len(taken) + 1
      BY <2>1, <2>2, <3>2
    <3>3. QED
      BY <2>1, <2>2, <3>1, <3>2
  <2>4. ASSUME NEW i \in 1..Len(queue') PROVE queue'[i] = Len(taken') + i
    BY <2>1, <2>2
  <2>5. QED
    BY <2>1, <2>3, <2>4 DEF Numbered
<1>5. QED
  BY <1>2, <1>3, <1>4, QueueSteps DEF OwnersPut, OthersPut

-----------------------------------------------------------------------------
(* What a put adds and a take moves, in numbers.                           *)
LEMMA TotalStep ==
  ASSUME IInv
  PROVE  /\ Total \in Nat /\ Len(queue) \in Nat /\ Len(taken) \in Nat
         /\ Idles => Total' = Total /\ Len(queue') = Len(queue)
         /\ \A t : Put(t, NextElement) /\ taken' = taken =>
               /\ NextElement = Total + 1
               /\ Total' = Total + 1 /\ Len(queue') = Len(queue) + 1
         /\ \A t : Takes(t) => /\ Len(queue) > 0 /\ Len(queue') = Len(queue) - 1
                               /\ Total' = Total /\ Head(queue) = Total - Len(queue) + 1
<1>1. TypeOK /\ Numbered /\ Len(queue) \in Nat /\ Len(taken) \in Nat /\ Total \in Nat
  BY DEF IInv, TypeOK, Total
<1>2. Idles => Total' = Total /\ Len(queue') = Len(queue)
  BY DEF Idles, Total
<1>3. ASSUME NEW t, Put(t, NextElement), taken' = taken
      PROVE  /\ NextElement = Total + 1
             /\ Total' = Total + 1 /\ Len(queue') = Len(queue) + 1
  <2>1. Len(queue') = Len(queue) + 1 /\ NextElement = Total + 1
    BY <1>1, <1>3, PutEffect
  <2>2. QED
    BY <1>1, <1>3, <2>1 DEF Total
<1>4. ASSUME NEW t, Takes(t)
      PROVE  /\ Len(queue) > 0 /\ Len(queue') = Len(queue) - 1
             /\ Total' = Total /\ Head(queue) = Total - Len(queue) + 1
  <2>1. /\ Head(queue) = Len(taken) + 1 /\ Head(queue) \in Nat
        /\ Len(queue) \in Nat \ {0} /\ Len(queue') = Len(queue) - 1
    BY <1>1, <1>4, TakeEffect DEF Takes
  <2>2. Len(taken') = Len(taken) + 1
    BY <1>1, <1>4, <2>1, AppendProperties DEF Takes, TypeOK
  <2>3. QED
    BY <1>1, <2>1, <2>2 DEF Total
<1>5. QED
  BY <1>1, <1>2, <1>3, <1>4

(* What the owner has put changes with its puts only.                      *)
LEMMA OwnersStep ==
  ASSUME IInv, [Next]_vars
  PROVE  /\ OwnersPuts \in Nat /\ StopsPut \in Nat
         /\ OwnersPut => /\ OwnersPuts' = OwnersPuts + 1
                         /\ StopsPut' = IF owner = "stop" THEN StopsPut + 1 ELSE StopsPut
         /\ ~OwnersPut => OwnersPuts' = OwnersPuts /\ StopsPut' = StopsPut
         /\ /\ owner' \in {"latch", "run"} => left' <= Times
            /\ owner' = "latch" => left' = Times
            /\ owner' = "stop" => left' <= N
<1>1. /\ left \in Nat /\ Times \in Nat /\ N \in Nat
      /\ owner \in {"latch", "run", "stop", "join", "joined"}
      /\ owner \in {"latch", "run"} => left <= Times
      /\ owner = "latch" => left = Times
      /\ owner = "stop" => left <= N
      /\ ~WithQueue => owner \in {"latch", "join", "joined"}
      /\ program \in {"queue", "bench", "one", "all"}
  BY QueueTestAssumption, Counts DEF IInv, TypeOK, Counted, Inside
<1> USE DEF OwnersPuts, StopsPut, WithQueue
<1>2. OwnersPuts \in Nat /\ StopsPut \in Nat
  BY <1>1
<1>3. CASE UNCHANGED <<program, owner, left>>
  BY <1>1, <1>3 DEF OwnersPut
<1>4. CASE OwnerWaits
  BY <1>1, <1>4 DEF OwnerWaits, AfterWait, OwnersPut
<1>5. CASE OwnerReleases
  BY <1>1, <1>5 DEF OwnerReleases, OwnersPut
<1>6. CASE OwnerPuts
  <2>1. OwnersPut \/ UNCHANGED <<program, owner, left>>
    BY <1>6 DEF OwnerPuts, OwnersPut
  <2>2. CASE OwnersPut
    BY <1>1, <2>2 DEF OwnersPut
  <2>3. QED
    BY <1>3, <2>1, <2>2
<1>7. CASE OwnerGoesOn
  BY <1>1, <1>7 DEF OwnerGoesOn, OwnersPut, N
<1>8. CASE OwnerJoins
  BY <1>1, <1>8 DEF OwnerJoins, OwnersPut
<1>9. ASSUME NEW t, CallPut(t) \/ PutterPuts(t) \/ TakerStep(t) \/ Spurious(t)
      PROVE  UNCHANGED <<program, owner, left>>
  BY <1>9 DEF CallPut, PutterPuts, TakerStep, TakerStarts, TakerTakes, ThreadWaits, ThreadEnds,
              Spurious, testVars
<1>10. CASE UNCHANGED vars
  BY <1>3, <1>10 DEF vars, testVars
<1>11. QED
  BY <1>2, <1>3, <1>4, <1>5, <1>6, <1>7, <1>8, <1>9, <1>10 DEF Next, OwnerStep, Finished

(* Every put that returns is one more element, and its taker's end no      *)
(* element less.                                                           *)
LEMMA CountedStep ==
  ASSUME IInv, [Next]_vars PROVE Counted'
<1>1. /\ IsFiniteSet(putting) /\ Cardinality(putting) \in Nat /\ puts \in Nat
      /\ Total + Cardinality(putting) = puts + OwnersPuts
  BY FS_CardinalityType, QueueTestAssumption DEF IInv, TypeOK, Counted
<1>2. /\ OwnersPuts \in Nat /\ Total \in Nat
      /\ OwnersPut => OwnersPuts' = OwnersPuts + 1
      /\ ~OwnersPut => OwnersPuts' = OwnersPuts
      /\ owner' \in {"latch", "run"} => left' <= Times
      /\ owner' = "latch" => left' = Times
      /\ owner' = "stop" => left' <= N
  BY OwnersStep, TotalStep
<1>3. CASE Idles
  <2>1. Total' = Total /\ ~OwnersPut
    BY <1>2, <1>3, TotalStep DEF OwnersPut
  <2>2. Cardinality(putting') - puts' = Cardinality(putting) - puts /\ puts' \in Nat
        /\ Cardinality(putting') \in Nat
    <3>1. ASSUME NEW t \in Putters \ putting, putting' = putting \cup {t}
          PROVE  Cardinality(putting') = Cardinality(putting) + 1
      BY <1>1, <3>1, FS_AddElement
    <3>2. QED
      BY <1>1, <1>3, <3>1 DEF Idles
  <2>3. QED
    BY <1>1, <1>2, <2>1, <2>2 DEF Counted
<1>4. CASE OwnersPut
  <2>1. Total' = Total + 1 /\ UNCHANGED <<putting, puts>>
    BY <1>4, TotalStep DEF OwnersPut
  <2>2. QED
    BY <1>1, <1>2, <1>4, <2>1 DEF Counted
<1>5. ASSUME NEW t \in Putters, OthersPut(t), ~OwnersPut PROVE Counted'
  <2>1. Total' = Total + 1 /\ puts' = puts
    BY <1>5, TotalStep DEF OthersPut
  <2>2. Cardinality(putting') = Cardinality(putting) - 1
    BY <1>1, <1>5, FS_RemoveElement DEF OthersPut
  <2>3. QED
    BY <1>1, <1>2, <1>5, <2>1, <2>2 DEF Counted
<1>6. ASSUME NEW t \in Takers, Takes(t) PROVE Counted'
  <2>1. Total' = Total /\ UNCHANGED <<putting, puts>>
    BY <1>6, TotalStep DEF Takes
  <2>2. ~OwnersPut
    BY <1>2, <2>1, TotalStep DEF OwnersPut
  <2>3. QED
    BY <1>1, <1>2, <2>1, <2>2 DEF Counted
<1>7. QED
  BY <1>3, <1>4, <1>5, <1>6, QueueSteps

(* The stops stay the last elements, and each stops the taker that takes   *)
(* it: nobody takes a second.                                              *)
LEMMA StopsStep ==
  ASSUME IInv, [Next]_vars PROVE StopsLast'
<1>1. /\ Total \in Nat /\ Len(queue) \in Nat /\ StopsPut \in Nat /\ StopsPut <= Total
      /\ stops = Total - StopsPut + 1..Total
      /\ WithQueue => Cardinality(stopped) = IF Len(queue) < StopsPut
                                                THEN StopsPut - Len(queue) ELSE 0
  BY TotalStep, OwnersStep DEF IInv, StopsLast
<1>2. /\ OwnersPut => StopsPut' = IF owner = "stop" THEN StopsPut + 1 ELSE StopsPut
      /\ ~OwnersPut => StopsPut' = StopsPut
      /\ owner \in {"latch", "run"} => StopsPut = 0
  BY OwnersStep DEF StopsPut
<1>3. CASE Idles
  <2>1. Total' = Total /\ Len(queue') = Len(queue) /\ ~OwnersPut
    BY <1>1, <1>3, TotalStep DEF OwnersPut
  <2>2. stops' = stops /\ (WithQueue' => WithQueue /\ stopped' = stopped)
    BY <1>3 DEF Idles, WithQueue
  <2>3. QED
    BY <1>1, <1>2, <2>1, <2>2 DEF StopsLast
<1>4. CASE OwnersPut
  <2>1. /\ Total' = Total + 1 /\ Len(queue') = Len(queue) + 1 /\ NextElement = Total + 1
        /\ stopped' = stopped /\ (WithQueue' => WithQueue)
    BY <1>4, TotalStep DEF OwnersPut, WithQueue
  <2>2. CASE owner = "stop"
    <3>1. StopsPut' = StopsPut + 1 /\ stops' = stops \cup {Total + 1}
      BY <1>2, <1>4, <2>1, <2>2 DEF OwnersPut
    <3>2. stops' = Total' - StopsPut' + 1..Total'
      BY <1>1, <2>1, <3>1
    <3>3. QED
      BY <1>1, <2>1, <3>1, <3>2 DEF StopsLast
  <2>3. CASE owner = "run"
    <3>1. StopsPut = 0 /\ StopsPut' = 0 /\ stops' = stops /\ stops = {}
      BY <1>1, <1>2, <1>4, <2>3 DEF OwnersPut
    <3>2. stops' = Total' - StopsPut' + 1..Total'
      BY <1>1, <2>1, <3>1
    <3>3. QED
      BY <1>1, <2>1, <3>1, <3>2 DEF StopsLast
  <2>4. QED
    BY <1>4, <2>2, <2>3 DEF OwnersPut
<1>5. ASSUME NEW t \in Putters, OthersPut(t), ~OwnersPut PROVE StopsLast'
  <2>1. owner \in {"latch", "run"}
    BY <1>5 DEF OthersPut, IInv, Inside
  <2>2. /\ Total' = Total + 1 /\ Len(queue') = Len(queue) + 1
        /\ UNCHANGED <<stops, stopped>> /\ (WithQueue' => WithQueue)
    BY <1>5, TotalStep DEF OthersPut, WithQueue
  <2>3. StopsPut = 0 /\ StopsPut' = 0 /\ stops = {}
    BY <1>1, <1>2, <1>5, <2>1
  <2>4. stops' = Total' - StopsPut' + 1..Total'
    BY <1>1, <2>2, <2>3
  <2>5. QED
    BY <1>1, <2>2, <2>3, <2>4 DEF StopsLast
<1>6. ASSUME NEW t \in Takers, Takes(t) PROVE StopsLast'
  <2>1. /\ Total' = Total /\ Len(queue) > 0 /\ Len(queue') = Len(queue) - 1 /\ stops' = stops
        /\ Head(queue) = Total - Len(queue) + 1
    BY <1>6, TotalStep DEF Takes
  <2>2. ~OwnersPut
    BY <1>1, <2>1, TotalStep DEF OwnersPut
  <2>3. Head(queue) \in stops <=> Len(queue) <= StopsPut
    <3>1. Len(queue) <= Total
      BY DEF IInv, TypeOK, Total
    <3>2. QED
      BY <1>1, <2>1, <3>1
  <2>4. IsFiniteSet(stopped) /\ Cardinality(stopped) \in Nat /\ t \notin stopped
    BY <1>6, Counts DEF IInv, TypeOK, Inside, Takes
  <2>5. Cardinality(stopped') = IF Len(queue) <= StopsPut THEN Cardinality(stopped) + 1
                                                          ELSE Cardinality(stopped)
    <3>1. CASE Head(queue) \in stops
      <4>1. Cardinality(stopped \cup {t}) = Cardinality(stopped) + 1
        BY <2>4, FS_AddElement
      <4>2. stopped' = stopped \cup {t}
        BY <1>6, <3>1 DEF Takes
      <4>3. QED
        BY <2>3, <3>1, <4>1, <4>2
    <3>2. CASE Head(queue) \notin stops
      BY <1>6, <2>3, <3>2 DEF Takes
    <3>3. QED
      BY <3>1, <3>2
  <2>6. WithQueue
    BY <1>6 DEF Takes
  <2>7. QED
    BY <1>1, <1>2, <2>1, <2>2, <2>5, <2>6 DEF StopsLast
<1>7. QED
  BY <1>3, <1>4, <1>5, <1>6, QueueSteps

(* The invariant holds in every reachable state.                           *)
THEOREM Invariant == Spec => []IInv
<1>1. IInv /\ [Next]_vars => IInv'
  BY TypeStep, InsideStep, NumberedStep, CountedStep, StopsStep DEF IInv
<1>2. QED
  BY InitCorrect, <1>1, PTL DEF Spec

-----------------------------------------------------------------------------
(* When the owner has joined its takers nothing is left in the queue: they *)
(* have taken all that it and the putters have put, and the stops, which   *)
(* each of them takes once, came last.                                     *)
NothingLeft ==
  owner = "joined" /\ WithQueue => queue = << >> /\ Len(taken) = puts + Times + N

(* When joinAll has returned, every element that was put has been taken.   *)
THEOREM AllIsTaken == Spec => []NothingLeft
<1>1. IInv => NothingLeft
  <2> SUFFICES ASSUME IInv, owner = "joined", WithQueue
               PROVE  queue = << >> /\ Len(taken) = puts + Times + N
    BY DEF NothingLeft
  <2>1. StopsPut = N /\ OwnersPuts = Times + N /\ N \in Nat /\ N > 0
    BY Counts DEF StopsPut, OwnersPuts
  <2>2. Cardinality(stopped) = N /\ putting = {}
    BY DEF IInv, Inside, N
  <2>3. Len(queue) \in Nat /\ queue \in Seq(Nat) /\ Len(taken) \in Nat
    BY DEF IInv, TypeOK
  <2>4. Len(queue) = 0
    BY <2>1, <2>2, <2>3 DEF IInv, StopsLast
  <2>5. queue = << >>
    BY <2>3, <2>4, EmptySeq
  <2>6. Cardinality(putting) = 0
    BY <2>2, FS_EmptySet
  <2>7. Len(taken) = puts + Times + N
    BY <2>1, <2>3, <2>4, <2>6, QueueTestAssumption DEF IInv, Counted, Total, TypeOK
  <2>8. QED
    BY <2>5, <2>7
<1>2. QED
  BY Invariant, <1>1, PTL

-----------------------------------------------------------------------------
(* The two halves of NobodySleepsOnWork.                                   *)
TakersAwake == notEmpty # {} => Len(queue) <= Cardinality(running \ notEmpty)
PuttersAwake == notFull # {} => capacity <= Len(queue) + Cardinality(AtPut \ notFull)

(* Who is awake can be counted.                                            *)
LEMMA AwakeFinite ==
  ASSUME TypeOK
  PROVE  /\ IsFiniteSet(running \ notEmpty) /\ Cardinality(running \ notEmpty) \in Nat
         /\ IsFiniteSet(AtPut \ notFull) /\ Cardinality(AtPut \ notFull) \in Nat
<1>1. running \ notEmpty \in SUBSET Takers
  BY DEF TypeOK
<1>2. IsFiniteSet(AtPut)
  <2>1. IsFiniteSet(putting)
    BY DEF TypeOK
  <2>2. AtPut = putting \/ AtPut = putting \cup {Owner}
    BY DEF AtPut
  <2>3. QED
    BY <2>1, <2>2, FS_AddElement
<1>3. IsFiniteSet(AtPut \ notFull)
  BY <1>2, FS_Subset
<1>4. QED
  BY <1>1, <1>3, Counts, FS_CardinalityType

(* The same after a step.                                                  *)
LEMMA AtPutFinite ==
  ASSUME TypeOK' PROVE IsFiniteSet(AtPut')
<1>1. IsFiniteSet(putting')
  BY DEF TypeOK
<1>2. AtPut' = putting' \/ AtPut' = putting' \cup {Owner}
  BY DEF AtPut
<1>3. QED
  BY <1>1, <1>2, FS_AddElement

(* More threads awake, and no fewer elements or places for them, is no     *)
(* worse.                                                                  *)
LEMMA MoreAwake ==
  ASSUME IInv, TypeOK'
  PROVE  /\ /\ TakersAwake /\ notEmpty' \subseteq notEmpty
            /\ running \ notEmpty \subseteq running' \ notEmpty' /\ Len(queue') = Len(queue)
            => TakersAwake'
         /\ /\ PuttersAwake /\ notFull' \subseteq notFull /\ capacity' = capacity
            /\ AtPut \ notFull \subseteq AtPut' \ notFull' /\ Len(queue') = Len(queue)
            => PuttersAwake'
<1>1. /\ Len(queue) \in Nat /\ capacity \in Nat
      /\ Cardinality(running \ notEmpty) \in Nat /\ Cardinality(AtPut \ notFull) \in Nat
  BY AwakeFinite DEF IInv, TypeOK
<1>2. /\ IsFiniteSet(running' \ notEmpty') /\ Cardinality(running' \ notEmpty') \in Nat
      /\ IsFiniteSet(AtPut' \ notFull') /\ Cardinality(AtPut' \ notFull') \in Nat
  <2>1. running' \ notEmpty' \in SUBSET Takers
    BY DEF TypeOK
  <2>2. IsFiniteSet(AtPut')
    BY AtPutFinite
  <2>3. IsFiniteSet(AtPut' \ notFull')
    BY <2>2, FS_Subset
  <2>4. QED
    BY <2>1, <2>3, Counts, FS_CardinalityType
<1>3. ASSUME running \ notEmpty \subseteq running' \ notEmpty'
      PROVE  Cardinality(running \ notEmpty) <= Cardinality(running' \ notEmpty')
  BY <1>2, <1>3, FS_Subset
<1>4. ASSUME AtPut \ notFull \subseteq AtPut' \ notFull'
      PROVE  Cardinality(AtPut \ notFull) <= Cardinality(AtPut' \ notFull')
  BY <1>2, <1>4, FS_Subset
<1>5. QED
  BY <1>1, <1>2, <1>3, <1>4 DEF TakersAwake, PuttersAwake

(* Condition::notify wakes one up, if any waits.                           *)
LEMMA NotifyWakes ==
  ASSUME NEW waiting, NEW after, NEW all, waiting \subseteq all, Notify(waiting, after),
         waiting # {}, IsFiniteSet(all \ waiting)
  PROVE  Cardinality(all \ after) = Cardinality(all \ waiting) + 1
<1>1. PICK t \in waiting : after = waiting \ {t}
  BY DEF Notify
<1>2. all \ after = (all \ waiting) \cup {t} /\ t \notin all \ waiting
  BY <1>1
<1>3. QED
  BY <1>2, FS_AddElement

(* One thread that leaves takes one awake thread away.                     *)
LEMMA OneLeaves ==
  ASSUME NEW waiting, NEW all, NEW rest, NEW t, all \ {t} \subseteq rest,
         IsFiniteSet(all \ waiting), IsFiniteSet(rest \ waiting)
  PROVE  Cardinality(all \ waiting) <= Cardinality(rest \ waiting) + 1
<1>1. all \ waiting \subseteq (rest \ waiting) \cup {t}
  OBVIOUS
<1>2. IsFiniteSet((rest \ waiting) \cup {t})
  BY FS_AddElement
<1>3. Cardinality(all \ waiting) <= Cardinality((rest \ waiting) \cup {t})
  BY <1>1, <1>2, FS_Subset
<1>4. /\ Cardinality((rest \ waiting) \cup {t}) <= Cardinality(rest \ waiting) + 1
      /\ Cardinality(rest \ waiting) \in Nat /\ Cardinality(all \ waiting) \in Nat
      /\ Cardinality((rest \ waiting) \cup {t}) \in Nat
  BY <1>2, FS_AddElement, FS_CardinalityType, SMTT(30)
<1>5. QED
  BY <1>3, <1>4

(* A put leaves an awake taker for what it puts, and takes one of the      *)
(* awake threads with it that there are for the free places.               *)
LEMMA PutWakes ==
  ASSUME IInv, TypeOK', NEW t, Put(t, NextElement), AtPut \ {t} \subseteq AtPut',
         running' = running, TakersAwake, PuttersAwake
  PROVE  TakersAwake' /\ PuttersAwake'
<1>1. /\ Len(queue) \in Nat /\ Len(queue') = Len(queue) + 1
      /\ UNCHANGED <<capacity, notFull>> /\ Notify(notEmpty, notEmpty')
  BY PutEffect DEF IInv, Put
<1>2. /\ IsFiniteSet(running \ notEmpty) /\ Cardinality(running \ notEmpty) \in Nat
      /\ IsFiniteSet(AtPut \ notFull) /\ Cardinality(AtPut \ notFull) \in Nat
      /\ capacity \in Nat /\ notEmpty \subseteq running
  BY AwakeFinite DEF IInv, TypeOK, Inside
<1>3. TakersAwake'
  <2>1. CASE notEmpty = {}
    BY <1>1, <2>1 DEF Notify, TakersAwake
  <2>2. CASE notEmpty # {}
    <3>1. Cardinality(running \ notEmpty') = Cardinality(running \ notEmpty) + 1
      BY <1>1, <1>2, <2>2, NotifyWakes
    <3>2. QED
      BY <1>1, <1>2, <2>2, <3>1 DEF TakersAwake
  <2>3. QED
    BY <2>1, <2>2
<1>4. PuttersAwake'
  <2>1. IsFiniteSet(AtPut')
    BY AtPutFinite
  <2>2. IsFiniteSet(AtPut' \ notFull) /\ Cardinality(AtPut' \ notFull) \in Nat
    BY <2>1, FS_Subset, FS_CardinalityType
  <2>3. Cardinality(AtPut \ notFull) <= Cardinality(AtPut' \ notFull) + 1
    BY <1>2, <2>2, OneLeaves
  <2>4. QED
    BY <1>1, <1>2, <2>2, <2>3 DEF PuttersAwake
<1>5. QED
  BY <1>3, <1>4

(* A take wakes a putter for the place it frees, and a taker that stops    *)
(* has taken the element it was awake for.                                 *)
LEMMA TakeWakes ==
  ASSUME IInv, TypeOK', NEW t, Takes(t), AtPut' = AtPut, TakersAwake, PuttersAwake
  PROVE  TakersAwake' /\ PuttersAwake'
<1>1. /\ Len(queue) \in Nat \ {0} /\ Len(queue') = Len(queue) - 1
      /\ UNCHANGED <<capacity, notEmpty>> /\ Notify(notFull, notFull')
      /\ running \ {t} \subseteq running'
  BY TakeEffect DEF IInv, Takes, Take
<1>2. /\ IsFiniteSet(running \ notEmpty) /\ Cardinality(running \ notEmpty) \in Nat
      /\ IsFiniteSet(AtPut \ notFull) /\ Cardinality(AtPut \ notFull) \in Nat
      /\ capacity \in Nat /\ notFull \subseteq AtPut
  BY AwakeFinite DEF IInv, TypeOK, Inside
<1>3. TakersAwake'
  <2>1. running' \ notEmpty \in SUBSET Takers
    BY DEF TypeOK
  <2>2. IsFiniteSet(running' \ notEmpty) /\ Cardinality(running' \ notEmpty) \in Nat
    BY <2>1, Counts
  <2>3. Cardinality(running \ notEmpty) <= Cardinality(running' \ notEmpty) + 1
    BY <1>1, <1>2, <2>2, OneLeaves
  <2>4. QED
    BY <1>1, <1>2, <2>2, <2>3 DEF TakersAwake
<1>4. PuttersAwake'
  <2>1. CASE notFull = {}
    BY <1>1, <2>1 DEF Notify, PuttersAwake
  <2>2. CASE notFull # {}
    <3>1. Cardinality(AtPut \ notFull') = Cardinality(AtPut \ notFull) + 1
      BY <1>1, <1>2, <2>2, NotifyWakes
    <3>2. QED
      BY <1>1, <1>2, <2>2, <3>1 DEF PuttersAwake
  <2>3. QED
    BY <2>1, <2>2
<1>5. QED
  BY <1>3, <1>4

(* A put that blocks finds no place that is free.                          *)
LEMMA BlockedPut ==
  ASSUME IInv, TypeOK', NEW t, PutBlocks(t), UNCHANGED <<AtPut, running>>,
         TakersAwake, PuttersAwake
  PROVE  TakersAwake' /\ PuttersAwake'
<1>1. UNCHANGED <<capacity, queue, notEmpty>> /\ Len(queue') = capacity' /\ capacity' \in Nat
  BY DEF PutBlocks, Full, TypeOK
<1>2. IsFiniteSet(AtPut')
  BY AtPutFinite
<1>3. Cardinality(AtPut' \ notFull') \in Nat
  BY <1>2, FS_Subset, FS_CardinalityType
<1>4. QED
  BY <1>1, <1>3 DEF TakersAwake, PuttersAwake

(* The steps that only let threads in, or wake them.                       *)
LEMMA OthersWake ==
  ASSUME IInv, TypeOK', TakersAwake, PuttersAwake, UNCHANGED <<queue, capacity>>,
         notEmpty' \subseteq notEmpty, running \subseteq running',
         notFull' \subseteq notFull, AtPut \subseteq AtPut'
  PROVE  TakersAwake' /\ PuttersAwake'
<1>1. /\ running \ notEmpty \subseteq running' \ notEmpty'
      /\ AtPut \ notFull \subseteq AtPut' \ notFull'
  OBVIOUS
<1>2. QED
  BY <1>1, MoreAwake

(* Neither do the rest leave anybody asleep who is needed.                 *)
LEMMA AwakeStep ==
  ASSUME IInv, TypeOK', TakersAwake, PuttersAwake, [Next]_vars
  PROVE  TakersAwake' /\ PuttersAwake'
<1>1. CASE OwnerWaits
  BY <1>1, OthersWake DEF OwnerWaits, AtPut, queueVars
<1>2. CASE OwnerReleases \/ OwnerJoins
  BY <1>2, OthersWake DEF OwnerReleases, OwnerJoins, AtPut, queueVars
<1>3. CASE OwnerPuts
  <2>1. CASE Put(Owner, NextElement)
    <3>1. AtPut \ {Owner} \subseteq AtPut' /\ running' = running
      BY <1>3 DEF OwnerPuts, AtPut
    <3>2. QED
      BY <2>1, <3>1, PutWakes
  <2>2. CASE PutBlocks(Owner) /\ UNCHANGED left
    <3>1. /\ UNCHANGED <<AtPut, running>>
      BY <1>3, <2>2 DEF OwnerPuts, AtPut
    <3>2. QED
      BY <2>2, <3>1, BlockedPut
  <2>3. QED
    BY <1>3, <2>1, <2>2 DEF OwnerPuts
<1>4. CASE OwnerGoesOn
  BY <1>4, OthersWake DEF OwnerGoesOn, AtPut, queueVars
<1>5. ASSUME NEW t \in Putters, CallPut(t) PROVE TakersAwake' /\ PuttersAwake'
  BY <1>5, OthersWake DEF CallPut, AtPut, queueVars
<1>6. ASSUME NEW t \in Putters, PutterPuts(t) PROVE TakersAwake' /\ PuttersAwake'
  <2>1. CASE Put(t, NextElement) /\ putting' = putting \ {t}
    <3>1. AtPut \ {t} \subseteq AtPut' /\ running' = running
      BY <1>6, <2>1 DEF PutterPuts, AtPut
    <3>2. QED
      BY <2>1, <3>1, PutWakes
  <2>2. CASE PutBlocks(t) /\ UNCHANGED putting
    <3>1. UNCHANGED <<AtPut, running>>
      BY <1>6, <2>2 DEF PutterPuts, AtPut
    <3>2. QED
      BY <2>2, <3>1, BlockedPut
  <2>3. QED
    BY <1>6, <2>1, <2>2 DEF PutterPuts
<1>7. ASSUME NEW t \in Takers, TakerStarts(t) PROVE TakersAwake' /\ PuttersAwake'
  BY <1>7, OthersWake DEF TakerStarts, AtPut, queueVars
<1>8. ASSUME NEW t \in Takers, TakerTakes(t) PROVE TakersAwake' /\ PuttersAwake'
  <2>1. AtPut' = AtPut
    BY <1>8 DEF TakerTakes, AtPut
  <2>2. CASE TakeBlocks(t) /\ UNCHANGED <<running, stopped, delays, taken>>
    <3>1. running' \ notEmpty' \in SUBSET Takers
      BY DEF TypeOK
    <3>2. Cardinality(running' \ notEmpty') \in Nat /\ Len(queue') = 0
      BY <2>2, <3>1, Counts DEF TakeBlocks
    <3>3. TakersAwake'
      BY <3>2 DEF TakersAwake
    <3>4. PuttersAwake'
      BY <2>1, <2>2 DEF TakeBlocks, PuttersAwake
    <3>5. QED
      BY <3>3, <3>4
  <2>3. CASE Takes(t)
    BY <2>1, <2>3, TakeWakes
  <2>4. QED
    BY <1>8, <2>2, <2>3 DEF TakerTakes, Takes, WithQueue
<1>9. ASSUME NEW t \in Takers, ThreadWaits(t) PROVE TakersAwake' /\ PuttersAwake'
  BY <1>9, OthersWake DEF ThreadWaits, AtPut, queueVars
<1>10. ASSUME NEW t \in Takers, ThreadEnds(t) PROVE TakersAwake' /\ PuttersAwake'
  <2>1. notEmpty' = {}
    BY <1>10 DEF ThreadEnds, queueVars, IInv, Inside, WithQueue
  <2>2. PuttersAwake'
    BY <1>10 DEF ThreadEnds, queueVars, AtPut, PuttersAwake
  <2>3. QED
    BY <2>1, <2>2 DEF TakersAwake
<1>11. ASSUME NEW t, Spurious(t) PROVE TakersAwake' /\ PuttersAwake'
  BY <1>11, OthersWake DEF Spurious, QueueSpurious, LatchSpurious, AtPut, queueVars, testVars
<1>12. CASE UNCHANGED vars
  BY <1>12, OthersWake DEF vars, queueVars, testVars, AtPut
<1>13. QED
  BY <1>1, <1>2, <1>3, <1>4, <1>5, <1>6, <1>7, <1>8, <1>9, <1>10, <1>11, <1>12
     DEF Next, OwnerStep, TakerStep, Finished

(* While a thread sleeps in take there is an awake one for every element,  *)
(* while one sleeps in put there is one for every free place: one notify   *)
(* for each put and each take is enough.                                   *)
THEOREM OneNotifyIsEnough == Spec => []NobodySleepsOnWork
<1>1. Init => TakersAwake /\ PuttersAwake
  BY DEF Init, QueueInit, TakersAwake, PuttersAwake
<1>2. /\ IInv /\ IInv' /\ TakersAwake /\ PuttersAwake /\ [Next]_vars
      => TakersAwake' /\ PuttersAwake'
  BY AwakeStep DEF IInv
<1>3. TakersAwake /\ PuttersAwake => NobodySleepsOnWork
  BY DEF TakersAwake, PuttersAwake, NobodySleepsOnWork, AtPut
<1>4. QED
  BY Invariant, <1>1, <1>2, <1>3, PTL DEF Spec

-----------------------------------------------------------------------------
(* What is left of a number is no more than the number.                    *)
LEMMA Differences ==
  ASSUME NEW m \in Nat, NEW n \in Nat, NEW l \in Nat
  PROVE  /\ l <= m => m - l \in Nat /\ m - l <= m + n
         /\ l <= n => m + (n - l) \in Nat /\ m + (n - l) <= m + n
OBVIOUS

(* A sum is bounded by the bounds of its parts.                            *)
LEMMA Sums ==
  ASSUME NEW m \in Nat, NEW n \in Nat, NEW q \in Nat, NEW p \in 0..q, NEW o \in Nat,
         NEW t \in Nat, o <= m + n, t + 1 <= p + o
  PROVE  t + 1 <= q + m + n
OBVIOUS

(* The queue keeps what FunctorQueue promises: what is put is taken once,  *)
(* in the order of the puts, and nothing is dropped.                       *)
THEOREM Refinement == Spec => ImplementsQueue
<1>1. Init => Abstract!Init
  BY DEF Init, QueueInit, Abstract!Init
<1>2. IInv /\ IInv' /\ [Next]_vars => [Abstract!Next]_<<queue, taken>>
  <2> SUFFICES ASSUME IInv, IInv', [Next]_vars PROVE [Abstract!Next]_<<queue, taken>>
    OBVIOUS
  <2>1. ASSUME NEW t, Put(t, NextElement), taken' = taken PROVE Abstract!Post
    <3>1. /\ NextElement = Len(taken) + Len(queue) + 1
          /\ Len(taken) \in Nat /\ Len(queue) \in Nat
          /\ queue' = Append(queue, NextElement) /\ Total' = Total + 1 /\ Total \in Nat
      BY <2>1, PutEffect, TotalStep DEF IInv, Total
    <3>2. NextElement \in Elements
      <4>1. OwnersPuts' <= Times + N /\ OwnersPuts' \in Nat
        <5>1. left' \in Nat /\ Times \in Nat /\ N \in Nat
          BY Counts, QueueTestAssumption DEF IInv, TypeOK
        <5>2. CASE owner' = "run"
          <6>1. OwnersPuts' = Times - left' /\ left' <= Times
            BY <5>2 DEF OwnersPuts, IInv, Counted
          <6>2. QED
            BY <5>1, <6>1, Differences
        <5>3. CASE owner' = "stop"
          <6>1. OwnersPuts' = Times + (N - left') /\ left' <= N
            BY <5>3 DEF OwnersPuts, IInv, Counted, N
          <6>2. QED
            BY <5>1, <6>1, Differences
        <5>4. CASE owner' \notin {"run", "stop"}
          <6>1. OwnersPuts' = Times + N \/ OwnersPuts' = 0
            BY <5>4 DEF OwnersPuts, N
          <6>2. QED
            BY <5>1, <6>1
        <5>5. QED
          BY <5>2, <5>3, <5>4
      <4>2. Cardinality(putting') \in Nat /\ puts' \in 0..MaxPuts
        BY FS_CardinalityType DEF IInv, TypeOK
      <4>3. Total + 1 + Cardinality(putting') = puts' + OwnersPuts'
        BY <3>1 DEF IInv, Counted
      <4>4. Total + 1 <= MaxPuts + Times + N /\ NextElement = Total + 1
        <5>1. Times \in Nat /\ MaxPuts \in Nat /\ N \in Nat
          BY Counts, QueueTestAssumption
        <5>2. Total + 1 <= puts' + OwnersPuts' /\ NextElement = Total + 1
          BY <3>1, <4>1, <4>2, <4>3, SMTT(30) DEF Total
        <5>3. QED
          BY <3>1, <4>1, <4>2, <5>1, <5>2, Sums
      <4>5. QED
        BY <3>1, <4>4, Counts, QueueTestAssumption DEF Elements, N
    <3>3. NextElement \notin Abstract!Contents(queue) \cup Abstract!Contents(taken)
      <4>1. /\ \A i \in 1..Len(taken) : taken[i] # NextElement
            /\ \A i \in 1..Len(queue) : queue[i] # NextElement
        BY <3>1 DEF IInv, Numbered
      <4>2. DOMAIN taken = 1..Len(taken) /\ DOMAIN queue = 1..Len(queue)
        BY DEF IInv, TypeOK
      <4>3. QED
        BY <4>1, <4>2 DEF Abstract!Contents
    <3>4. QED
      BY <2>1, <3>1, <3>2, <3>3 DEF Abstract!Post
  <2>2. CASE Idles
    BY <2>2 DEF Idles
  <2>3. ASSUME NEW t, Takes(t) PROVE Abstract!Run
    BY <2>3 DEF Takes, Take, Abstract!Run
  <2>4. QED
    BY <2>1, <2>2, <2>3, QueueSteps DEF OwnersPut, OthersPut, Abstract!Next
<1>3. QED
  BY Invariant, <1>1, <1>2, PTL DEF ImplementsQueue, Abstract!Spec, Spec

-----------------------------------------------------------------------------
(* EchoServer.                                                             *)

(* The types of an echo server and its clients.                            *)
EchoTypes ==
  /\ (kind = "poll" /\ idlefd = FALSE) \/ (kind = "epoll" /\ idlefd = TRUE)
  /\ client \in [Clients -> {"start", "ready", "waiting", "gone"}]
  /\ lines \in [Clients -> Nat]
  /\ toServer \in [Clients -> Nat] /\ toClient \in [Clients -> Nat]
  /\ end \in [Clients -> {"open", "fin", "rst"}]
  /\ backlog \in Seq(Clients) /\ conns \in Seq(Clients) /\ hungUp \subseteq Clients
  /\ free \in Nat /\ at \in {"poll", "accept", "scan", "events", "exited"}
  /\ due \subseteq Clients \cup {Listen} /\ nready \in Int
  /\ pos \in Nat \ {0} /\ size \in Nat \ {0}

(* No element is there twice.                                              *)
Distinct(s) == \A i, j \in DOMAIN s : s[i] = s[j] => i = j

(* A connection waits to be accepted or is accepted, and is there once.    *)
Queued ==
  /\ Distinct(conns) /\ Distinct(backlog)
  /\ ToSet(conns) \cap ToSet(backlog) = {}
  /\ \A c \in ToSet(conns) \cup ToSet(backlog) : client[c] # "start"

(* Every descriptor is a connection's or free.                             *)
Descriptors == at # "exited" => free + Len(conns) = MaxConns

(* What is due: connections that are open, in the poll server at or after  *)
(* the iterator once it scans, as many as nready says.                     *)
Reported ==
  /\ Listen \in due => backlog # << >>
  /\ due \ {Listen} \subseteq ToSet(conns)
  /\ at \in {"poll", "exited"} => due = {}
  /\ at \in {"accept", "scan"} => nready = Cardinality(due)
  /\ at = "accept" => pos = 1
  /\ at = "scan" => due \subseteq {conns[i] : i \in pos..Len(conns)}

(* Neither server loses a report or a descriptor: the invariant of both.   *)
EchoInv == EchoTypes /\ Queued /\ Descriptors /\ Reported

-----------------------------------------------------------------------------
(* What the vector's erase leaves: every element but the one at the        *)
(* iterator, those after it one place nearer.                              *)
LEMMA Erased ==
  ASSUME NEW S, NEW s \in Seq(S), NEW i \in DOMAIN s
  PROVE  /\ RemoveAt(s, i) \in Seq(S)
         /\ Len(RemoveAt(s, i)) = Len(s) - 1
         /\ \A j \in 1..(Len(s) - 1) : RemoveAt(s, i)[j] = IF j < i THEN s[j] ELSE s[j + 1]
<1> DEFINE front == SubSeq(s, 1, i - 1)
           rest == SubSeq(s, i + 1, Len(s))
<1>1. i \in 1..Len(s)
  BY LenProperties
<1>2. front \in Seq(S) /\ Len(front) = i - 1 /\ \A j \in 1..(i - 1) : front[j] = s[j]
  BY <1>1
<1>3. /\ rest \in Seq(S) /\ Len(rest) = Len(s) - i
      /\ \A j \in 1..(Len(s) - i) : rest[j] = s[i + j]
  BY <1>1
<1>4. RemoveAt(s, i) = front \o rest
  BY DEF RemoveAt
<1> HIDE DEF front, rest
<1>5. Len(front \o rest) = Len(s) - 1 /\ front \o rest \in Seq(S)
  BY <1>1, <1>2, <1>3
<1>6. ASSUME NEW j \in 1..(Len(s) - 1)
      PROVE  (front \o rest)[j] = IF j < i THEN s[j] ELSE s[j + 1]
  <2>1. (front \o rest)[j] = IF j <= Len(front) THEN front[j] ELSE rest[j - Len(front)]
    <3>1. j \in 1..(Len(front) + Len(rest))
      BY <1>1, <1>2, <1>3
    <3> QED
      BY <1>2, <1>3, <3>1, ConcatProperties
  <2>2. CASE j < i
    BY <2>1, <2>2, <1>1, <1>2
  <2>3. CASE j >= i
    <3>1. (front \o rest)[j] = rest[j - (i - 1)]
      BY <2>1, <2>3, <1>1, <1>2
    <3>2. rest[j - (i - 1)] = s[i + (j - (i - 1))]
      <4>1. j - (i - 1) \in 1..(Len(s) - i)
        BY <2>3, <1>1
      <4> QED
        BY <1>3, <4>1
    <3>3. i + (j - (i - 1)) = j + 1
      BY <1>1
    <3>4. ~(j < i)
      BY <2>3, <1>1
    <3> QED
      BY <3>1, <3>2, <3>3, <3>4
  <2>4. j < i \/ j >= i
    BY <1>1
  <2> QED
    BY <2>2, <2>3, <2>4
<1> QED
  BY <1>4, <1>5, <1>6

(* What is left of a vector of different elements are the others.          *)
LEMMA ErasedSet ==
  ASSUME NEW S, NEW s \in Seq(S), Distinct(s), NEW i \in DOMAIN s
  PROVE  /\ Distinct(RemoveAt(s, i))
         /\ ToSet(RemoveAt(s, i)) = ToSet(s) \ {s[i]}
<1> DEFINE r == RemoveAt(s, i)
<1>1. r \in Seq(S) /\ Len(r) = Len(s) - 1
  BY Erased
<1>2. \A j \in 1..(Len(s) - 1) : r[j] = IF j < i THEN s[j] ELSE s[j + 1]
  BY Erased
<1>3. i \in 1..Len(s) /\ Len(s) \in Nat
  BY LenProperties
<1> HIDE DEF r
<1>4. DOMAIN r = 1..(Len(s) - 1) /\ DOMAIN s = 1..Len(s)
  BY <1>1, LenProperties
<1>5. Distinct(r)
  <2> SUFFICES ASSUME NEW j \in 1..(Len(s) - 1), NEW k \in 1..(Len(s) - 1), r[j] = r[k]
               PROVE  j = k
    BY <1>4 DEF Distinct
  <2> DEFINE J == IF j < i THEN j ELSE j + 1
             K == IF k < i THEN k ELSE k + 1
  <2>1. J \in DOMAIN s /\ K \in DOMAIN s /\ s[J] = s[K]
    BY <1>2, <1>3, <1>4
  <2>2. J = K
    BY <2>1 DEF Distinct
  <2> QED
    BY <2>2, <1>3
<1>6. ToSet(r) \subseteq ToSet(s) \ {s[i]}
  <2> SUFFICES ASSUME NEW j \in 1..(Len(s) - 1)
               PROVE  r[j] \in ToSet(s) \ {s[i]}
    BY <1>4 DEF ToSet
  <2> DEFINE J == IF j < i THEN j ELSE j + 1
  <2>1. J \in DOMAIN s /\ J # i /\ r[j] = s[J]
    BY <1>2, <1>3, <1>4
  <2> QED
    BY <2>1 DEF ToSet, Distinct
<1>7. ToSet(s) \ {s[i]} \subseteq ToSet(r)
  <2> SUFFICES ASSUME NEW j \in 1..Len(s), s[j] # s[i]
               PROVE  s[j] \in ToSet(r)
    BY <1>4 DEF ToSet
  <2> DEFINE J == IF j < i THEN j ELSE j - 1
  <2>1. J \in 1..(Len(s) - 1) /\ r[J] = s[j]
    BY <1>2, <1>3
  <2> QED
    BY <2>1, <1>4 DEF ToSet
<1> QED
  BY <1>5, <1>6, <1>7 DEF r

(* One more, at the end.                                                   *)
LEMMA AppendSet ==
  ASSUME NEW S, NEW s \in Seq(S), Distinct(s), NEW e \in S, e \notin ToSet(s)
  PROVE  Distinct(Append(s, e)) /\ ToSet(Append(s, e)) = ToSet(s) \cup {e}
<1> DEFINE r == Append(s, e)
<1>1. DOMAIN s = 1..Len(s) /\ DOMAIN r = 1..(Len(s) + 1) /\ Len(s) \in Nat
  OBVIOUS
<1>2. (\A j \in 1..Len(s) : r[j] = s[j]) /\ r[Len(s) + 1] = e
  OBVIOUS
<1>3. \A j \in 1..Len(s) : s[j] # e
  BY <1>1 DEF ToSet
<1> HIDE DEF r
<1>4. Distinct(r)
  BY <1>1, <1>2, <1>3 DEF Distinct
<1>5. ToSet(r) = ToSet(s) \cup {e}
  BY <1>1, <1>2 DEF ToSet
<1> QED
  BY <1>4, <1>5 DEF r

(* One less, at the front.                                                 *)
LEMMA TailSet ==
  ASSUME NEW S, NEW s \in Seq(S), Distinct(s), s # << >>
  PROVE  /\ Head(s) \in ToSet(s) /\ Distinct(Tail(s))
         /\ ToSet(Tail(s)) = ToSet(s) \ {Head(s)}
<1> DEFINE r == Tail(s)
<1>1. DOMAIN s = 1..Len(s) /\ DOMAIN r = 1..(Len(s) - 1) /\ Len(s) \in Nat \ {0}
  OBVIOUS
<1>2. (\A j \in 1..(Len(s) - 1) : r[j] = s[j + 1]) /\ Head(s) = s[1]
  OBVIOUS
<1> HIDE DEF r
<1>3. Distinct(r)
  <2> SUFFICES ASSUME NEW j \in 1..(Len(s) - 1), NEW k \in 1..(Len(s) - 1), r[j] = r[k]
               PROVE  j = k
    BY <1>1 DEF Distinct
  <2>1. j + 1 \in DOMAIN s /\ k + 1 \in DOMAIN s /\ s[j + 1] = s[k + 1]
    BY <1>1, <1>2
  <2> QED
    BY <2>1 DEF Distinct
<1>4. ToSet(r) \subseteq ToSet(s) \ {Head(s)}
  <2> SUFFICES ASSUME NEW j \in 1..(Len(s) - 1)
               PROVE  r[j] \in ToSet(s) \ {s[1]}
    BY <1>1, <1>2 DEF ToSet
  <2>1. j + 1 \in DOMAIN s /\ 1 \in DOMAIN s /\ j + 1 # 1 /\ r[j] = s[j + 1]
    BY <1>1, <1>2
  <2> QED
    BY <2>1 DEF ToSet, Distinct
<1>5. ToSet(s) \ {Head(s)} \subseteq ToSet(r)
  <2> SUFFICES ASSUME NEW j \in 1..Len(s), s[j] # s[1]
               PROVE  s[j] \in ToSet(r)
    BY <1>1, <1>2 DEF ToSet
  <2>1. j - 1 \in 1..(Len(s) - 1) /\ r[j - 1] = s[j]
    BY <1>1, <1>2
  <2> QED
    BY <2>1, <1>1 DEF ToSet
<1>6. Head(s) \in ToSet(s)
  BY <1>1, <1>2 DEF ToSet
<1> QED
  BY <1>3, <1>4, <1>5, <1>6 DEF r

-----------------------------------------------------------------------------
(* What a step does to the two queues and the descriptors.                 *)
QueuesStay == UNCHANGED <<conns, backlog, free>>
Arrives ==
  /\ UNCHANGED <<conns, free>>
  /\ \E c \in Clients :
       client[c] = "start" /\ client'[c] # "start" /\ backlog' = Append(backlog, c)
Accepted ==
  /\ free > 0 /\ free' = free - 1 /\ backlog # << >>
  /\ conns' = Append(conns, Head(backlog)) /\ backlog' = Tail(backlog)
TurnedAway == UNCHANGED <<conns, free>> /\ backlog # << >> /\ backlog' = Tail(backlog)
Erases ==
  /\ UNCHANGED backlog /\ free' = free + 1
  /\ \E i \in DOMAIN conns : conns' = RemoveAt(conns, i)
Ends == at' = "exited" /\ conns' = << >> /\ backlog' = << >> /\ UNCHANGED free

(* Every step is one of these; the kind of a server and its idle           *)
(* descriptor are there for good, and who has connected has connected.     *)
LEMMA EchoMoves ==
  ASSUME EchoInv, [EchoNext]_echoVars
  PROVE  /\ QueuesStay \/ Arrives \/ Accepted \/ TurnedAway \/ Erases \/ Ends
         /\ \A c \in Clients : client[c] # "start" => client'[c] # "start"
         /\ UNCHANGED <<kind, idlefd>>
         /\ at = "exited" => at' = "exited"
<1> USE DEF EchoInv, EchoTypes, clientVars, fdVars, loopVars
<1>1. CASE \E c \in Clients : Connect(c)
  BY <1>1 DEF Connect, QueuesStay, Arrives
<1>2. CASE \E c \in Clients : Send(c) \/ Receive(c) \/ Close(c)
  BY <1>2 DEF Send, Receive, Close, QueuesStay
<1>3. CASE PollReturns \/ WaitReturns \/ EndScan \/ Idle \/ UNCHANGED echoVars
  BY <1>3 DEF PollReturns, WaitReturns, EndScan, Idle, echoVars, QueuesStay
<1>4. CASE AcceptFirst
  BY <1>4 DEF AcceptFirst, Accept, Exit, Reported, QueuesStay, Accepted, Ends
<1>5. CASE Scan
  BY <1>5 DEF Scan, ScanNext, Echo, HangUp, ReadFails, Exit, QueuesStay, Erases, Ends
<1>6. CASE HandleOne
  BY <1>6 DEF HandleOne, Accept, Refuse, Echo, HangUp, ReadFails, Exit, Reported, QueuesStay,
              Accepted, TurnedAway, Erases, Ends
<1> QED
  BY <1>1, <1>2, <1>3, <1>4, <1>5, <1>6 DEF EchoNext, ServerStep

(* A connection goes from the backlog to the vector, and out of it once.   *)
LEMMA QueuedStep == EchoInv /\ [EchoNext]_echoVars => Queued'
<1> SUFFICES ASSUME EchoInv, [EchoNext]_echoVars
             PROVE  Queued'
  OBVIOUS
<1>0. \A c \in Clients : client[c] # "start" => client'[c] # "start"
  BY EchoMoves
<1>q. Queued /\ conns \in Seq(Clients) /\ backlog \in Seq(Clients)
  BY DEF EchoInv, EchoTypes
<1>t. ToSet(conns) \subseteq Clients /\ ToSet(backlog) \subseteq Clients
  BY <1>q DEF ToSet
<1>1. CASE QueuesStay
  <2>1. ToSet(conns') = ToSet(conns) /\ ToSet(backlog') = ToSet(backlog)
    BY <1>1 DEF QueuesStay
  <2>2. Distinct(conns') /\ Distinct(backlog')
    BY <1>1, <1>q DEF QueuesStay, Queued
  <2> QED
    BY <1>0, <1>q, <1>t, <2>1, <2>2 DEF Queued
<1>2. CASE Arrives
  <2> PICK c \in Clients :
        client[c] = "start" /\ client'[c] # "start" /\ backlog' = Append(backlog, c)
    BY <1>2 DEF Arrives
  <2>1. conns' = conns /\ c \notin ToSet(conns) \cup ToSet(backlog)
    BY <1>2, <1>q DEF Arrives, Queued
  <2>2. Distinct(backlog') /\ ToSet(backlog') = ToSet(backlog) \cup {c}
    BY <2>1, <1>q, AppendSet DEF Queued
  <2>3. Distinct(conns') /\ ToSet(conns') = ToSet(conns)
    BY <2>1, <1>q DEF Queued
  <2> QED
    BY <2>1, <2>2, <2>3, <1>0, <1>q, <1>t DEF Queued
<1>3. CASE Accepted
  <2> DEFINE c == Head(backlog)
  <2>1. /\ c \in ToSet(backlog) /\ Distinct(backlog')
        /\ ToSet(backlog') = ToSet(backlog) \ {c}
    BY <1>3, <1>q, TailSet DEF Accepted, Queued
  <2>2. c \in Clients /\ c \notin ToSet(conns) /\ conns' = Append(conns, c)
    BY <1>3, <1>q, <1>t, <2>1 DEF Queued, Accepted
  <2> HIDE DEF c
  <2>3. Distinct(conns') /\ ToSet(conns') = ToSet(conns) \cup {c}
    BY <1>q, <2>2, AppendSet DEF Queued
  <2> QED
    BY <2>1, <2>2, <2>3, <1>0, <1>q, <1>t DEF Queued
<1>4. CASE TurnedAway
  <2>1. Distinct(backlog') /\ ToSet(backlog') = ToSet(backlog) \ {Head(backlog)}
    BY <1>4, <1>q, TailSet DEF TurnedAway, Queued
  <2>2. Distinct(conns') /\ ToSet(conns') = ToSet(conns)
    BY <1>4, <1>q DEF TurnedAway, Queued
  <2> QED
    BY <2>1, <2>2, <1>0, <1>q, <1>t DEF Queued
<1>5. CASE Erases
  <2> PICK i \in DOMAIN conns : conns' = RemoveAt(conns, i)
    BY <1>5 DEF Erases
  <2>1. Distinct(conns') /\ ToSet(conns') = ToSet(conns) \ {conns[i]}
    BY <1>q, ErasedSet DEF Queued
  <2>2. Distinct(backlog') /\ ToSet(backlog') = ToSet(backlog)
    BY <1>5, <1>q DEF Erases, Queued
  <2> QED
    BY <2>1, <2>2, <1>0, <1>q, <1>t DEF Queued
<1>6. CASE Ends
  BY <1>6 DEF Ends, Queued, Distinct, ToSet
<1> QED
  BY <1>1, <1>2, <1>3, <1>4, <1>5, <1>6, EchoMoves

(* accept takes a descriptor for the connection it adds, an erase gives    *)
(* one back.                                                               *)
LEMMA DescriptorsStep == EchoInv /\ [EchoNext]_echoVars => Descriptors'
<1> SUFFICES ASSUME EchoInv, [EchoNext]_echoVars, at # "exited", at' # "exited"
             PROVE  free' + Len(conns') = MaxConns
  BY EchoMoves DEF Descriptors
<1> USE DEF EchoInv, EchoTypes, Descriptors
<1>1. CASE QueuesStay \/ Arrives \/ TurnedAway
  BY <1>1 DEF QueuesStay, Arrives, TurnedAway
<1>2. CASE Accepted
  BY <1>2 DEF Accepted
<1>3. CASE Erases
  <2> PICK i \in DOMAIN conns : conns' = RemoveAt(conns, i)
    BY <1>3 DEF Erases
  <2>1. Len(conns') = Len(conns) - 1
    BY Erased
  <2> QED
    BY <1>3, <2>1 DEF Erases
<1> QED
  BY <1>1, <1>2, <1>3, EchoMoves DEF Ends
(* Between two polls only clients come; what a server handles is due no    *)
(* more, and the others stay where they are.                               *)
LEMMA ReportedStep == EchoInv /\ [EchoNext]_echoVars => Reported'
<1> SUFFICES ASSUME EchoInv, [EchoNext]_echoVars
             PROVE  Reported'
  OBVIOUS
<1>0. /\ Reported /\ Queued /\ conns \in Seq(Clients) /\ backlog \in Seq(Clients)
      /\ due \subseteq Clients \cup {Listen} /\ pos \in Nat \ {0} /\ nready \in Int
      /\ at \in {"poll", "accept", "scan", "events", "exited"}
  BY DEF EchoInv, EchoTypes
<1>f. IsFiniteSet(due) /\ Cardinality(due) \in Nat
  BY <1>0, EchoAssumption, FS_Subset, FS_AddElement, FS_CardinalityType
<1>1. CASE \E c \in Clients : Connect(c)
  <2>1. UNCHANGED <<conns, due, at, nready, pos>> /\ (backlog # << >> => backlog' # << >>)
    BY <1>0, <1>1 DEF Connect, loopVars
  <2> QED
    BY <1>0, <2>1 DEF Reported, ToSet
<1>2. CASE (\E c \in Clients : Send(c) \/ Receive(c) \/ Close(c)) \/ Idle \/ UNCHANGED echoVars
  <2>1. UNCHANGED <<conns, backlog, due, at, nready, pos>>
    BY <1>2 DEF Send, Receive, Close, Idle, echoVars, loopVars
  <2> QED
    BY <1>0, <2>1 DEF Reported, ToSet
<1>3. CASE PollReturns
  <2>1. /\ due' = Ready /\ at' = "accept" /\ pos' = 1 /\ nready' = Cardinality(due')
        /\ UNCHANGED <<conns, backlog>>
    BY <1>3 DEF PollReturns
  <2>2. Ready \ {Listen} \subseteq ToSet(conns) /\ (Listen \in Ready => backlog # << >>)
    BY <1>0, EchoAssumption DEF Ready, ToSet
  <2>3. ToSet(conns') = ToSet(conns)
    BY <2>1
  <2> QED
    BY <2>1, <2>2, <2>3 DEF Reported
<1>4. CASE WaitReturns
  <2>1. due' \subseteq Ready /\ at' = "events" /\ UNCHANGED <<conns, backlog>>
    BY <1>4 DEF WaitReturns
  <2>2. Ready \ {Listen} \subseteq ToSet(conns) /\ (Listen \in Ready => backlog # << >>)
    BY <1>0, EchoAssumption DEF Ready, ToSet
  <2>3. ToSet(conns') = ToSet(conns)
    BY <2>1
  <2> QED
    BY <2>1, <2>2, <2>3 DEF Reported
<1>5. CASE EndScan
  <2>1. at = "scan" /\ at' = "poll" /\ UNCHANGED <<conns, backlog, due, nready, pos>>
    BY <1>5 DEF EndScan
  <2>2. pos > Len(conns) => due = {}
    BY <1>0, <2>1 DEF Reported
  <2>3. nready = 0 => due = {}
    BY <1>0, <1>f, <2>1, FS_EmptySet DEF Reported
  <2>4. due = {}
    BY <1>5, <2>2, <2>3 DEF EndScan
  <2> QED
    BY <2>1, <2>4 DEF Reported
<1>6. CASE AcceptFirst
  <2>1. CASE Listen \in due /\ Accept /\ nready' = nready - 1
    <3>1. /\ due' = due \ {Listen} /\ conns' = Append(conns, Head(backlog))
          /\ at = "accept" /\ at' = (IF nready' = 0 THEN "poll" ELSE "scan") /\ pos' = 1
      BY <1>0, <1>6, <2>1 DEF AcceptFirst, Accept, Reported, Exit
    <3>2. nready' = Cardinality(due') /\ (nready' = 0 => due' = {})
      <4>1. Cardinality(due') = Cardinality(due) - 1 /\ IsFiniteSet(due')
        BY <1>f, <2>1, <3>1, FS_RemoveElement
      <4> QED
        BY <1>0, <2>1, <3>1, <4>1, FS_EmptySet DEF Reported
    <3>3. \A x \in ToSet(conns) : \E i \in 1..Len(conns') : x = conns'[i]
      BY <1>0, <2>1, <3>1 DEF Accept, ToSet, Reported
    <3>4. due' \subseteq {conns'[i] : i \in 1..Len(conns')}
      BY <1>0, <3>1, <3>3 DEF Reported
    <3>5. ToSet(conns') = {conns'[i] : i \in 1..Len(conns')}
      <4>1. Head(backlog) \in Clients
        BY <1>0, <2>1 DEF Reported
      <4>2. conns' \in Seq(Clients)
        BY <1>0, <3>1, <4>1, AppendProperties
      <4> QED
        BY <4>2 DEF ToSet
    <3> QED
      BY <3>1, <3>2, <3>4, <3>5 DEF Reported
  <2>2. CASE Exit
    BY <2>2 DEF Exit, Reported
  <2>3. CASE Listen \notin due /\ at' = "scan" /\ UNCHANGED <<conns, backlog, due, nready, pos>>
    <3>1. due \subseteq {conns[i] : i \in 1..Len(conns)}
      BY <1>0, <2>3 DEF Reported, ToSet
    <3>2. pos = 1 /\ nready = Cardinality(due)
      BY <1>0, <1>6 DEF Reported, AcceptFirst
    <3>3. ToSet(conns') = ToSet(conns)
      BY <2>3
    <3> QED
      BY <1>0, <2>3, <3>1, <3>2, <3>3 DEF Reported
  <2> QED
    BY <1>6, <2>1, <2>2, <2>3 DEF AcceptFirst
<1>7. CASE Scan
  <2> DEFINE c == conns[pos]
  <2>1. /\ at = "scan" /\ pos \in 1..Len(conns) /\ nready = Cardinality(due)
        /\ due \subseteq {conns[i] : i \in pos..Len(conns)} /\ c \in Clients
    BY <1>0, <1>7 DEF Scan, Reported
  <2>2. Listen \notin due
    BY <1>0, <2>1, EchoAssumption
  <2>3. CASE c \in due /\ nready' = nready - 1 /\ at' = at /\ Echo(c) /\ pos' = pos + 1
    <3>1. due' = due \ {c} /\ conns' = conns /\ ToSet(conns') = ToSet(conns)
      BY <2>3 DEF Echo
    <3>2. nready' = Cardinality(due')
      BY <1>f, <2>1, <2>3, <3>1, FS_RemoveElement
    <3>3. due' \subseteq {conns'[i] : i \in pos'..Len(conns')}
      BY <2>1, <2>3, <3>1
    <3> QED
      BY <1>0, <2>1, <2>2, <2>3, <3>1, <3>2, <3>3 DEF Reported
  <2>4. CASE c \in due /\ nready' = nready - 1 /\ at' = at /\ HangUp(c) /\ pos' = pos
    <3>1. due' = due \ {c} /\ conns' = RemoveAt(conns, pos)
      BY <1>0, <2>1, <2>4 DEF HangUp, Queued, Distinct
    <3>2. nready' = Cardinality(due')
      BY <1>f, <2>1, <2>4, <3>1, FS_RemoveElement
    <3>3. ToSet(conns') = ToSet(conns) \ {c}
      BY <1>0, <2>1, <3>1, ErasedSet DEF Queued
    <3>4. /\ conns' \in Seq(Clients) /\ Len(conns') = Len(conns) - 1
          /\ \A j \in 1..(Len(conns) - 1) :
               conns'[j] = IF j < pos THEN conns[j] ELSE conns[j + 1]
      BY <1>0, <2>1, <3>1, Erased
    <3>5. \A j \in (pos + 1)..Len(conns) :
            j - 1 \in pos..Len(conns') /\ conns[j] = conns'[j - 1]
      BY <1>0, <2>1, <3>4
    <3>6. due' \subseteq {conns'[i] : i \in pos'..Len(conns')}
      <4> SUFFICES ASSUME NEW x \in due'
                   PROVE  \E i \in pos..Len(conns') : x = conns'[i]
        BY <2>4
      <4>1. PICK j \in pos..Len(conns) : x = conns[j] /\ j # pos
        BY <2>1, <3>1
      <4> QED
        BY <2>1, <3>5, <4>1
    <3>7. due' \ {Listen} \subseteq ToSet(conns') /\ Listen \notin due'
      BY <1>0, <2>2, <3>1, <3>3 DEF Reported
    <3> QED
      BY <2>1, <2>4, <3>2, <3>6, <3>7 DEF Reported
  <2>5. CASE ReadFails(c)
    BY <2>5 DEF ReadFails, Exit, Reported
  <2>6. CASE c \notin due /\ pos' = pos + 1 /\ UNCHANGED <<conns, backlog, due, nready, at>>
    <3>1. due' \subseteq {conns'[i] : i \in pos'..Len(conns')}
      BY <2>1, <2>6
    <3>2. ToSet(conns') = ToSet(conns)
      BY <2>6
    <3> QED
      BY <1>0, <2>1, <2>6, <3>1, <3>2 DEF Reported
  <2> QED
    BY <1>7, <2>3, <2>4, <2>5, <2>6 DEF Scan, ScanNext
<1>8. CASE HandleOne
  <2>1. at = "events" /\ (at' = (IF due' = {} THEN "poll" ELSE "events") \/ Exit)
    BY <1>8 DEF HandleOne, ReadFails
  <2>2. CASE Exit
    BY <2>2 DEF Exit, Reported
  <2>3. CASE Listen \in due /\ (Accept \/ Refuse) /\ ~Exit
    <3>1. due' = due \ {Listen}
      BY <2>3 DEF Accept, Refuse
    <3>2. ToSet(conns) \subseteq ToSet(conns')
      BY <1>0, <2>3 DEF Accept, Refuse, ToSet, Reported
    <3> QED
      BY <1>0, <2>1, <2>3, <3>1, <3>2 DEF Reported
  <2>4. CASE (\E c \in due \cap Clients : Echo(c)) /\ ~Exit
    <3>1. due' \subseteq due /\ UNCHANGED <<conns, backlog>>
      BY <2>4 DEF Echo
    <3>2. ToSet(conns) = ToSet(conns')
      BY <3>1
    <3> QED
      BY <1>0, <2>1, <2>4, <3>1, <3>2 DEF Reported
  <2>5. CASE (\E c \in due \cap Clients : HangUp(c)) /\ ~Exit
    <3> PICK c \in due \cap Clients : HangUp(c)
      BY <2>5
    <3> PICK i \in DOMAIN conns : conns[i] = c /\ conns' = RemoveAt(conns, i)
      BY DEF HangUp
    <3>1. due' = due \ {c} /\ backlog' = backlog
      BY DEF HangUp
    <3>2. ToSet(conns') = ToSet(conns) \ {c}
      BY <1>0, ErasedSet DEF Queued
    <3> QED
      BY <1>0, <2>1, <2>5, <3>1, <3>2 DEF Reported
  <2> QED
    BY <1>8, <2>2, <2>3, <2>4, <2>5 DEF HandleOne, ReadFails
<1> QED
  BY <1>1, <1>2, <1>3, <1>4, <1>5, <1>6, <1>7, <1>8 DEF EchoNext, ServerStep
(* The types are kept: what is counted down was not zero, and what is      *)
(* taken out of a queue was in it.                                         *)
LEMMA EchoTypesStep == EchoInv /\ [EchoNext]_echoVars => EchoTypes'
<1> SUFFICES ASSUME EchoInv, [EchoNext]_echoVars
             PROVE  EchoTypes'
  OBVIOUS
<1>0. EchoTypes /\ Reported
  BY DEF EchoInv
<1>s. EchoTypes /\ UNCHANGED <<clientVars, toServer, toClient, kind, idlefd, size>> =>
        /\ (kind' = "poll" /\ idlefd' = FALSE) \/ (kind' = "epoll" /\ idlefd' = TRUE)
        /\ client' \in [Clients -> {"start", "ready", "waiting", "gone"}]
        /\ lines' \in [Clients -> Nat]
        /\ toServer' \in [Clients -> Nat] /\ toClient' \in [Clients -> Nat]
        /\ end' \in [Clients -> {"open", "fin", "rst"}] /\ size' \in Nat \ {0}
  BY DEF EchoTypes, clientVars
<1>1. CASE \E c \in Clients : Connect(c)
  <2> PICK c \in Clients : Connect(c)
    BY <1>1
  <2>1. backlog' = backlog \/ backlog' = Append(backlog, c)
    BY DEF Connect
  <2>2. client' \in [Clients -> {"start", "ready", "waiting", "gone"}]
    BY <1>0 DEF Connect, EchoTypes
  <2>3. backlog \in Seq(Clients) /\ Append(backlog, c) \in Seq(Clients)
    BY <1>0, AppendProperties DEF EchoTypes
  <2> QED
    BY <1>0, <2>1, <2>2, <2>3 DEF Connect, EchoTypes, fdVars, loopVars
<1>2. CASE \E c \in Clients : Send(c)
  <2> PICK c \in Clients : Send(c)
    BY <1>2
  <2>1. lines' \in [Clients -> Nat]
    BY <1>0 DEF Send, EchoTypes
  <2>2. toServer' \in [Clients -> Nat]
    BY <1>0, EchoAssumption DEF Send, EchoTypes
  <2>3. client' \in [Clients -> {"start", "ready", "waiting", "gone"}]
    BY <1>0 DEF Send, EchoTypes
  <2> QED
    BY <1>0, <2>1, <2>2, <2>3 DEF Send, EchoTypes, fdVars, loopVars
<1>3. CASE \E c \in Clients : Receive(c)
  <2> PICK c \in Clients : Receive(c)
    BY <1>3
  <2>1. toClient \in [Clients -> Nat]
    BY <1>0 DEF EchoTypes
  <2>2. toClient' \in [Clients -> Nat]
    <3>1. CASE \E n \in 1..toClient[c] : toClient' = [toClient EXCEPT ![c] = @ - n]
      <4> PICK n \in 1..toClient[c] : toClient' = [toClient EXCEPT ![c] = @ - n]
        BY <3>1
      <4>1. toClient[c] - n \in Nat
        BY <2>1
      <4> QED
        BY <2>1, <4>1
    <3> QED
      BY <2>1, <3>1 DEF Receive
  <2> QED
    BY <1>0, <2>2 DEF Receive, EchoTypes, fdVars, loopVars
<1>4. CASE \E c \in Clients : Close(c)
  BY <1>0, <1>4 DEF Close, EchoTypes, fdVars, loopVars
<1>5. CASE Idle \/ UNCHANGED echoVars
  BY <1>0, <1>5 DEF Idle, EchoTypes, echoVars, clientVars, fdVars, loopVars
<1>6. Ready \subseteq Clients \cup {Listen} /\ Cardinality(Ready) \in Nat
  <2>1. Ready \subseteq Clients \cup {Listen}
    BY <1>0 DEF Ready, ToSet, EchoTypes
  <2> QED
    BY <2>1, EchoAssumption, FS_Subset, FS_AddElement, FS_CardinalityType
<1>7. CASE PollReturns
  BY <1>0, <1>6, <1>7 DEF PollReturns, EchoTypes, clientVars, fdVars
<1>8. CASE WaitReturns
  BY <1>0, <1>6, <1>8 DEF WaitReturns, Grown, EchoTypes, clientVars, fdVars
<1>9. CASE EndScan
  BY <1>0, <1>9 DEF EndScan, EchoTypes, clientVars, fdVars
<1>10. ASSUME Exit, UNCHANGED <<kind, clientVars>>
       PROVE  EchoTypes'
  BY <1>0, <1>10 DEF Exit, EchoTypes, clientVars, fdVars
<1>11. ASSUME Listen \in due, Accept
       PROVE  free' \in Nat /\ conns' \in Seq(Clients) /\ backlog' \in Seq(Clients)
  BY <1>0, <1>11 DEF Accept, EchoTypes, Reported
<1>12. CASE AcceptFirst
  <2>1. CASE Listen \in due /\ Accept
    <3>1. /\ due' \subseteq due /\ at' \in {"poll", "scan"} /\ nready' = nready - 1
          /\ UNCHANGED <<kind, clientVars, toServer, toClient, hungUp, idlefd, pos, size>>
      BY <1>0, <1>12, <2>1 DEF AcceptFirst, Accept, Exit, EchoTypes
    <3> QED
      BY <1>0, <1>s, <1>11, <2>1, <3>1 DEF EchoTypes
  <2>2. CASE Exit
    BY <1>10, <1>12, <2>2 DEF AcceptFirst
  <2>3. CASE Listen \notin due
    BY <1>0, <1>12, <2>3 DEF AcceptFirst, EchoTypes, clientVars, fdVars
  <2> QED
    BY <1>12, <2>1, <2>2, <2>3 DEF AcceptFirst
<1>13. ASSUME NEW c \in Clients, Echo(c)
       PROVE  toServer' \in [Clients -> Nat] /\ toClient' \in [Clients -> Nat]
  BY <1>0, <1>13 DEF Echo, EchoTypes
<1>14. ASSUME NEW c \in Clients, HangUp(c)
       PROVE  conns' \in Seq(Clients)
  BY <1>0, <1>14, Erased DEF HangUp, EchoTypes
<1>15. CASE Scan
  <2>1. conns[pos] \in Clients /\ UNCHANGED <<kind, clientVars>>
    BY <1>0, <1>15 DEF Scan, EchoTypes
  <2>0. \/ ReadFails(conns[pos])
        \/ nready' \in Int /\ pos' \in Nat \ {0} /\ UNCHANGED <<at, size>>
    <3>1. \/ ReadFails(conns[pos])
          \/ /\ nready' \in {nready, nready - 1} /\ pos' \in {pos, pos + 1}
             /\ UNCHANGED <<at, size>>
      BY <1>15 DEF Scan, ScanNext
    <3>2. nready \in Int /\ pos \in Nat \ {0}
      BY <1>0 DEF EchoTypes
    <3> QED
      BY <3>1, <3>2
  <2>2. CASE Echo(conns[pos])
    <3>2. due' \subseteq due /\ UNCHANGED <<backlog, conns, hungUp, fdVars>>
      BY <2>2 DEF Echo
    <3>3. CASE nready' \in Int /\ pos' \in Nat \ {0} /\ UNCHANGED <<at, size>>
      BY <1>0, <1>13, <2>1, <2>2, <3>2, <3>3 DEF EchoTypes, clientVars, fdVars
    <3> QED
      BY <1>10, <2>0, <2>1, <3>3 DEF ReadFails
  <2>3. CASE HangUp(conns[pos])
    <3>2. /\ due' \subseteq due /\ hungUp' \subseteq Clients /\ free' \in Nat
          /\ UNCHANGED <<toServer, toClient, backlog, idlefd>>
      BY <1>0, <2>1, <2>3 DEF HangUp, EchoTypes
    <3>3. CASE nready' \in Int /\ pos' \in Nat \ {0} /\ UNCHANGED <<at, size>>
      BY <1>0, <1>s, <1>14, <2>1, <2>3, <3>2, <3>3 DEF EchoTypes
    <3> QED
      BY <1>10, <2>0, <2>1, <3>3 DEF ReadFails
  <2>4. CASE ReadFails(conns[pos])
    BY <1>10, <2>1, <2>4 DEF ReadFails
  <2>5. CASE conns[pos] \notin due /\ pos' = pos + 1 /\
             UNCHANGED <<toServer, toClient, backlog, conns, hungUp, fdVars, at, due, nready,
                         size>>
    BY <1>0, <2>1, <2>5 DEF EchoTypes, clientVars, fdVars
  <2> QED
    BY <1>15, <2>2, <2>3, <2>4, <2>5 DEF Scan, ScanNext
<1>16. CASE HandleOne
  <2>1. UNCHANGED <<kind, clientVars>>
    BY <1>16 DEF HandleOne
  <2>2. CASE \E c \in due \cap Clients : ReadFails(c)
    BY <1>10, <2>1, <2>2 DEF ReadFails
  <2>3. CASE at' \in {"poll", "events"} /\ UNCHANGED <<nready, pos, size>>
    <3>1. CASE Listen \in due /\ Accept
      BY <1>0, <1>s, <1>11, <2>1, <2>3, <3>1 DEF Accept, EchoTypes
    <3>2. CASE Listen \in due /\ Refuse
      <4>1. backlog # << >> /\ backlog \in Seq(Clients)
        BY <1>0, <3>2 DEF EchoTypes, Reported
      <4>2. Head(backlog) \in Clients /\ Tail(backlog) \in Seq(Clients)
        BY <4>1
      <4>3. backlog' \in Seq(Clients) /\ hungUp' \subseteq Clients
        BY <1>0, <3>2, <4>2 DEF Refuse, EchoTypes
      <4> QED
        BY <1>0, <2>1, <2>3, <3>2, <4>3 DEF Refuse, EchoTypes, clientVars, fdVars
    <3>3. CASE \E c \in due \cap Clients : Echo(c)
      <4>1. due' \subseteq due /\ UNCHANGED <<backlog, conns, hungUp, fdVars>>
        BY <3>3 DEF Echo
      <4> QED
        BY <1>0, <1>13, <2>1, <2>3, <3>3, <4>1 DEF EchoTypes, clientVars, fdVars
    <3>4. CASE \E c \in due \cap Clients : HangUp(c)
      <4>1. /\ due' \subseteq due /\ hungUp' \subseteq Clients /\ free' \in Nat
            /\ UNCHANGED <<toServer, toClient, backlog, idlefd>>
        BY <1>0, <3>4 DEF HangUp, EchoTypes
      <4> QED
        BY <1>0, <1>14, <2>1, <2>3, <3>4, <4>1 DEF EchoTypes, clientVars
    <3> QED
      BY <1>16, <2>2, <3>1, <3>2, <3>3, <3>4 DEF HandleOne
  <2> QED
    BY <1>16, <2>2, <2>3 DEF HandleOne
<1> QED
  BY <1>1, <1>2, <1>3, <1>4, <1>5, <1>7, <1>8, <1>9, <1>12, <1>15, <1>16
     DEF EchoNext, ServerStep

(* A server starts with nobody to serve and all its descriptors.           *)
LEMMA EchoInitCorrect == EchoInit => EchoInv
<1> SUFFICES ASSUME EchoInit
             PROVE  EchoInv
  OBVIOUS
<1>1. EchoTypes
  BY EchoAssumption DEF EchoInit, EchoTypes, PollStarts, EpollStarts
<1>2. Queued /\ Descriptors
  BY EchoAssumption DEF EchoInit, Queued, Descriptors, Distinct, ToSet
<1>3. Reported
  BY EchoAssumption DEF EchoInit, Reported
<1> QED
  BY <1>1, <1>2, <1>3 DEF EchoInv

(* Where the connections are, whose the descriptors are, and what a poll   *)
(* has left to handle, for any number of clients and descriptors and any   *)
(* first size of the event list.                                           *)
THEOREM EchoInvariant == EchoSpec => []EchoInv
<1>1. EchoInv /\ [EchoNext]_echoVars => EchoInv'
  BY EchoTypesStep, QueuedStep, DescriptorsStep, ReportedStep DEF EchoInv
<1> QED
  BY <1>1, EchoInitCorrect, PTL DEF EchoSpec

(* Whatever a poll reports is handled before the next one, although the    *)
(* poll server changes the vector it scans.                                *)
THEOREM ReportsHandled == EchoSpec => []ReportedAreHandled
<1>1. EchoInv => ReportedAreHandled
  BY DEF EchoInv, Reported, ReportedAreHandled
<1> QED
  BY <1>1, EchoInvariant, PTL

(* Every descriptor is a connection's or free, and the epoll server has    *)
(* its idle one whenever it waits.                                         *)
THEOREM NoDescriptorLost == EchoSpec => []DescriptorsKept
<1>1. EchoInv => DescriptorsKept
  <2> SUFFICES ASSUME EchoInv
               PROVE  DescriptorsKept
    OBVIOUS
  <2>1. idlefd = (kind = "epoll")
    <3>1. CASE kind = "poll" /\ idlefd = FALSE
      <4>1. kind # "epoll"
        BY <3>1
      <4> QED
        BY <3>1, <4>1, Zenon
    <3>2. CASE kind = "epoll" /\ idlefd = TRUE
      BY <3>2, Zenon
    <3> QED
      BY <3>1, <3>2 DEF EchoInv, EchoTypes
  <2> QED
    BY <2>1 DEF EchoInv, Descriptors, DescriptorsKept
<1> QED
  BY <1>1, EchoInvariant, PTL

(* A client is never given more than it has sent: what it has not read and *)
(* what the server has not read come from its own lines.                   *)
NothingAdded == \A c \in Clients : toServer[c] + toClient[c] <= lines[c] * LineUnits

(* An echo moves units from one direction to the other; only Send adds.    *)
LEMMA NothingAddedStep ==
  EchoInv /\ NothingAdded /\ [EchoNext]_echoVars => NothingAdded'
<1> SUFFICES ASSUME EchoInv, NothingAdded, [EchoNext]_echoVars, NEW c \in Clients
             PROVE  toServer'[c] + toClient'[c] <= lines'[c] * LineUnits
  BY DEF NothingAdded
<1>0. /\ toServer \in [Clients -> Nat] /\ toClient \in [Clients -> Nat]
      /\ lines \in [Clients -> Nat] /\ LineUnits \in Nat
      /\ toServer[c] + toClient[c] <= lines[c] * LineUnits
  BY EchoAssumption DEF EchoInv, EchoTypes, NothingAdded
<1>1. CASE UNCHANGED <<toServer, toClient, lines>>
  BY <1>0, <1>1
<1>2. CASE \E other \in Clients : Send(other)
  <2> PICK other \in Clients : Send(other)
    BY <1>2
  <2>1. CASE other = c
    <3>1. /\ lines'[c] = lines[c] + 1 /\ toClient' = toClient
          /\ toServer'[c] \in {toServer[c], toServer[c] + LineUnits}
      BY <1>0, <2>1 DEF Send
    <3>2. (lines[c] + 1) * LineUnits = lines[c] * LineUnits + LineUnits
      BY <1>0
    <3>3. lines[c] * LineUnits \in Nat
      BY <1>0
    <3> QED
      BY <1>0, <3>1, <3>2, <3>3
  <2>2. CASE other # c
    BY <1>0, <2>2 DEF Send
  <2> QED
    BY <2>1, <2>2
<1>3. CASE \E other \in Clients : Receive(other)
  <2>1. lines' = lines /\ toServer' = toServer
    BY <1>3 DEF Receive
  <2>2. toClient'[c] <= toClient[c] /\ toClient'[c] \in Int
    BY <1>0, <1>3 DEF Receive
  <2>3. lines[c] * LineUnits \in Nat
    BY <1>0
  <2> QED
    BY <1>0, <2>1, <2>2, <2>3
<1>4. CASE \E other \in Clients : Echo(other) /\ lines' = lines
  <2>1. \/ toServer'[c] = toServer[c] /\ toClient'[c] = toClient[c]
        \/ \E n \in 1..toServer[c] : /\ toServer'[c] = toServer[c] - n
                                     /\ toClient'[c] \in {toClient[c], toClient[c] + n}
    BY <1>0, <1>4 DEF Echo
  <2>2. lines[c] * LineUnits \in Nat
    BY <1>0
  <2> QED
    BY <1>0, <1>4, <2>1, <2>2
<1>5. CASE \E other \in Clients : Connect(other) \/ Close(other)
  BY <1>1, <1>5 DEF Connect, Close
<1>6. CASE PollReturns \/ WaitReturns \/ EndScan \/ Idle \/ UNCHANGED echoVars
  BY <1>1, <1>6 DEF PollReturns, WaitReturns, EndScan, Idle, echoVars, clientVars
<1>7. CASE AcceptFirst
  BY <1>1, <1>7 DEF AcceptFirst, Accept, Exit, clientVars
<1>8. CASE Scan
  <2>1. conns[pos] \in Clients
    BY <1>8 DEF Scan, EchoInv, EchoTypes
  <2> QED
    BY <1>1, <1>4, <1>8, <2>1 DEF Scan, ScanNext, HangUp, ReadFails, Exit, clientVars
<1>9. CASE HandleOne
  BY <1>1, <1>4, <1>9 DEF HandleOne, Accept, Refuse, HangUp, ReadFails, Exit, clientVars
<1> QED
  BY <1>2, <1>3, <1>5, <1>6, <1>7, <1>8, <1>9 DEF EchoNext, ServerStep

(* However the reads and writes of both sides split a line.                *)
THEOREM EchoesOnlyWhatWasSent == EchoSpec => []NothingAdded
<1>1. EchoInit => NothingAdded
  BY EchoAssumption DEF EchoInit, NothingAdded
<1> QED
  BY <1>1, EchoInvariant, NothingAddedStep, PTL DEF EchoSpec
=============================================================================
