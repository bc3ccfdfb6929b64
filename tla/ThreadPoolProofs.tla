-------------------------- MODULE ThreadPoolProofs --------------------------
(* Theorems about ThreadPool, for every number of workers, every set of    *)
(* other threads that run tasks and every bound on the tasks.              *)
EXTENDS ThreadPool, SequenceTheorems, FiniteSetTheorems, TLAPS

(* Where a worker and where the owner can be.                              *)
WorkerPcs == {"new", "check", "take", "waiting", "task", "done"}
OwnerPcs == {"start", "run", "latch", "stop", "join", "stopped", "destroyed"}

TypeOK ==
  /\ size \in Nat /\ size <= NumThreads /\ created \in Nat /\ created <= size
  /\ running \in BOOLEAN /\ aborted \in BOOLEAN
  /\ pc \in [Workers -> WorkerPcs] /\ task \in [Workers -> Nat]
  /\ queue \in Seq(Nat) /\ posted \in Seq(Nat) /\ taken \in Seq(Nat)
  /\ owner \in OwnerPcs
  /\ latchTask \in Nat /\ finished \subseteq Nat
  /\ count \in Int

(* Tasks are numbered in the order of their runs, from 1 without a gap;    *)
(* what was queued is what was taken and then what is still queued.        *)
Known == NextTask - 1

Numbered ==
  /\ NextTask \in Nat \ {0}
  /\ size = 0 => finished = 1..Known /\ Len(posted) = 0
  /\ size > 0 => finished \subseteq 1..Len(taken) /\ Len(posted) = Known
  /\ Len(posted) = Len(taken) + Len(queue)
  /\ \A i \in 1..Len(posted) : posted[i] = i
  /\ \A i \in 1..Len(taken) : taken[i] = i
  /\ \A i \in 1..Len(queue) : queue[i] = Len(taken) + i
  /\ latchTask = 0 => NextTask <= MaxTasks

(* A task that was taken is in the hands of one worker until it has        *)
(* returned.                                                               *)
InHand ==
  /\ \A i \in 1..Len(taken) : i \in finished \/ \E w \in Workers : task[w] = i
  /\ \A w \in Workers :
        /\ task[w] # 0 <=> pc[w] = "task"
        /\ task[w] # 0 => task[w] \in 1..Len(taken) \ finished
        /\ \A v \in Workers : task[w] = task[v] /\ task[w] # 0 => v = w

(* The latch is open when its task has returned, and where the owner is    *)
(* tells whether it has waited for that.                                   *)
LatchCounts ==
  /\ latchTask \in 0..Known
  /\ count = IF latchTask # 0 /\ latchTask \in finished THEN 0 ELSE 1
  /\ owner \in {"start", "run"} => latchTask = 0
  /\ owner \in {"stop", "join", "stopped", "destroyed"} /\ latchTask # 0
        => latchTask \in finished

(* Threads run as long as the owner has not joined them.                   *)
Phases ==
  /\ owner = "run" => running
  /\ \A w \in Workers : w > created => pc[w] = "new"
  /\ owner \in {"stopped", "destroyed"} => \A w \in 1..created : pc[w] = "done"

IInv == TypeOK /\ Numbered /\ InHand /\ LatchCounts /\ Phases

-----------------------------------------------------------------------------
(* The number of the next task is found by counting those before it.       *)
LEMMA CountUpTo ==
  ASSUME NEW k \in Nat PROVE Cardinality(1..k) = k
<1>1. 1 \in Int /\ k \in Int
  OBVIOUS
<1>2. QED
  BY <1>1, FS_Interval

(* The states the system starts in. *)
LEMMA InitCorrect == Init => IInv
<1> SUFFICES ASSUME Init PROVE IInv
  OBVIOUS
<1>1. TypeOK
  <2>1. << >> \in Seq(Nat)
    OBVIOUS
  <2>2. pc \in [Workers -> WorkerPcs] /\ task \in [Workers -> Nat]
    BY DEF Init, WorkerPcs
  <2>3. size \in Nat /\ size <= NumThreads /\ created \in Nat /\ created <= size
    BY ThreadPoolAssumption DEF Init
  <2>4. 0 \in Nat /\ 1 \in Int
    OBVIOUS
  <2>5. QED
    BY <2>1, <2>2, <2>3, <2>4, Zenon DEF Init, TypeOK, LatchInit, OwnerPcs
<1>2. Elements(posted) \cup finished = 1..0
  BY DEF Init, Elements
<1>3. NextTask = 1
  <2>1. Cardinality(1..0) = 0
    BY CountUpTo
  <2>2. NextTask = 0 + 1
    BY <1>2, <2>1, Zenon DEF NextTask
  <2>3. QED
    BY <2>2
<1>4. Numbered /\ InHand /\ LatchCounts /\ Phases
  BY <1>3, ThreadPoolAssumption
     DEF Init, LatchInit, Numbered, Known, InHand, LatchCounts, Phases, Workers
<1>5. QED
  BY <1>1, <1>4 DEF IInv

-----------------------------------------------------------------------------
(* Running a task: the queue, the history and whom it wakes. *)
LEMMA RunType ==
  ASSUME TypeOK, NEW n \in Nat, Run(n)
  PROVE  queue' \in Seq(Nat) /\ posted' \in Seq(Nat) /\ pc' \in [Workers -> WorkerPcs]
<1>1. queue' \in Seq(Nat) /\ posted' \in Seq(Nat)
  BY AppendProperties DEF Run, TypeOK
<1>2. pc \in [Workers -> WorkerPcs] /\ Notify
  BY DEF TypeOK, Run
<1>3. pc' \in [Workers -> WorkerPcs]
  BY <1>2 DEF Notify, To, WorkerPcs
<1>4. QED
  BY <1>1, <1>3

(* No step gives a variable a value outside its type. *)
LEMMA TypeStep ==
  ASSUME TypeOK, NextTask \in Nat, [Next]_vars PROVE TypeOK'
<1> USE DEF TypeOK, WorkerPcs, OwnerPcs, To, latchVars
<1>1. CASE Start
  <2>1. size \in Nat /\ NumThreads \in Nat
    BY ThreadPoolAssumption
  <2>2. created' \in Nat /\ created' <= size
    BY <1>1, <2>1 DEF Start, MoreThreads
  <2>3. pc' \in [Workers -> WorkerPcs]
    BY <1>1, <2>1 DEF Start, MoreThreads
  <2>4. QED
    BY <1>1, <2>1, <2>2, <2>3 DEF Start
<1>2. CASE RunLatchTask
  <2>1. CASE Run(NextTask) /\ UNCHANGED <<finished, latchVars>>
    BY <1>2, <2>1, RunType DEF RunLatchTask
  <2>2. CASE /\ finished' = finished \cup {NextTask} /\ CountDown
             /\ UNCHANGED <<queue, posted, pc>>
    <3>1. finished' \subseteq Nat /\ count' \in Int
      BY <2>2 DEF CountDown
    <3>2. QED
      BY <1>2, <2>2, <3>1 DEF RunLatchTask
  <2>3. QED
    BY <1>2, <2>1, <2>2 DEF RunLatchTask
<1>3. CASE Wait \/ WithoutLatch \/ Join \/ Destroy
  <2>1. UNCHANGED <<size, aborted, running, created, workVars, count>>
    BY <1>3 DEF Wait, WithoutLatch, Join, Destroy, LatchPasses, LatchBlocks, LatchSpurious
  <2>2. owner' \in OwnerPcs
    BY <1>3 DEF Wait, WithoutLatch, Join, Destroy
  <2>3. QED
    BY <2>1, <2>2 DEF workVars
<1>4. CASE Stop
  <2>1. pc' \in [Workers -> WorkerPcs]
    BY <1>4 DEF Stop
  <2>2. QED
    BY <1>4, <2>1 DEF Stop
<1>5. ASSUME NEW t \in Posters \cup {Owner}, RunTask(t) PROVE TypeOK'
  BY <1>5, RunType DEF RunTask
<1>6. ASSUME NEW t \in Posters \cup {Owner}, RunHere(t) PROVE TypeOK'
  BY <1>6 DEF RunHere
<1>7. ASSUME NEW w \in Workers, Check(w) \/ SpuriousWakeup(w) PROVE TypeOK'
  <2>1. pc' \in [Workers -> WorkerPcs]
    BY <1>7 DEF Check, SpuriousWakeup
  <2>2. QED
    BY <1>7, <2>1 DEF Check, SpuriousWakeup
<1>8. ASSUME NEW w \in Workers, Take(w) PROVE TypeOK'
  <2>1. pc' \in [Workers -> WorkerPcs]
    BY <1>8 DEF Take, TakeFrom
  <2>2. CASE TakeFrom(w)
    <3>1. Head(queue) \in Nat /\ Tail(queue) \in Seq(Nat)
      BY <2>2, HeadTailProperties DEF TakeFrom
    <3>2. Append(taken, Head(queue)) \in Seq(Nat)
      BY <3>1, AppendProperties
    <3>3. QED
      BY <1>8, <2>1, <2>2, <3>1, <3>2 DEF Take, TakeFrom
  <2>3. CASE ~TakeFrom(w)
    BY <1>8, <2>1, <2>3 DEF Take
  <2>4. QED
    BY <2>2, <2>3
<1>9. ASSUME NEW w \in Workers, TaskPosts(w) PROVE TypeOK'
  BY <1>9, RunType DEF TaskPosts
<1>10. ASSUME NEW w \in Workers, TaskReturns(w) PROVE TypeOK'
  <2>1. pc' \in [Workers -> WorkerPcs] /\ task' \in [Workers -> Nat] /\ count' \in Int
    BY <1>10 DEF TaskReturns, CountDown
  <2>2. finished' \subseteq Nat
    BY <1>10 DEF TaskReturns
  <2>3. QED
    BY <1>10, <2>1, <2>2 DEF TaskReturns
<1>11. ASSUME NEW w \in Workers, TaskThrows(w) PROVE TypeOK'
  BY <1>11 DEF TaskThrows, workVars
<1>12. CASE UNCHANGED vars
  BY <1>12 DEF vars, poolVars, workVars
<1>13. QED
  BY <1>1, <1>2, <1>3, <1>4, <1>5, <1>6, <1>7, <1>8, <1>9, <1>10, <1>11, <1>12
     DEF Next, Step, Finished

(* A sequence of consecutive numbers goes on with the next one.            *)
LEMMA AppendNumber ==
  ASSUME NEW s \in Seq(Nat), NEW b \in Nat, NEW x \in Nat, x = b + Len(s) + 1,
         \A i \in 1..Len(s) : s[i] = b + i
  PROVE  /\ Append(s, x) \in Seq(Nat) /\ Len(Append(s, x)) = Len(s) + 1
         /\ \A i \in 1..Len(Append(s, x)) : Append(s, x)[i] = b + i
<1> DEFINE t == Append(s, x)
<1>1. /\ t \in Seq(Nat) /\ Len(t) = Len(s) + 1 /\ t[Len(s) + 1] = x
      /\ \A i \in 1..Len(s) : t[i] = s[i]
  BY AppendProperties
<1>2. Len(s) \in Nat
  OBVIOUS
<1> HIDE DEF t
<1>3. \A i \in 1..Len(t) : t[i] = b + i
  BY <1>1, <1>2
<1>4. QED
  BY <1>1, <1>3 DEF t

(* What running a task does to the queue and to the history.               *)
LEMMA RunNumbers ==
  ASSUME TypeOK, Numbered, size > 0, Run(NextTask), UNCHANGED <<finished, taken, size>>
  PROVE  /\ NextTask = Len(posted) + 1 /\ NextTask' = NextTask + 1 /\ NextTask \in Nat
         /\ Len(posted') = NextTask /\ Len(queue') = Len(queue) + 1
         /\ \A i \in 1..Len(posted') : posted'[i] = i
         /\ \A i \in 1..Len(queue') : queue'[i] = Len(taken) + i
         /\ posted' \in Seq(Nat)
<1> DEFINE n == NextTask
<1>1. NextTask \in Nat
  BY DEF Numbered
<1>2. n = Len(posted) + 1 /\ n = Len(taken) + Len(queue) + 1 /\ n \in Nat
  BY <1>1 DEF Numbered, Known, TypeOK
<1>3. posted' = Append(posted, n) /\ queue' = Append(queue, n)
  BY DEF Run
<1>4. /\ posted' \in Seq(Nat) /\ Len(posted') = Len(posted) + 1
      /\ \A i \in 1..Len(posted') : posted'[i] = i
  <2>1. posted \in Seq(Nat) /\ \A i \in 1..Len(posted) : posted[i] = 0 + i
    BY DEF TypeOK, Numbered
  <2>2. n = 0 + Len(posted) + 1
    BY <1>2
  <2>3. QED
    BY <1>2, <1>3, <2>1, <2>2, AppendNumber
<1>5. Len(queue') = Len(queue) + 1 /\ \A i \in 1..Len(queue') : queue'[i] = Len(taken) + i
  <2>1. /\ queue \in Seq(Nat) /\ \A i \in 1..Len(queue) : queue[i] = Len(taken) + i
        /\ Len(taken) \in Nat
    BY DEF TypeOK, Numbered
  <2>2. QED
    BY <1>2, <1>3, <2>1, AppendNumber
<1>6. finished' \subseteq 1..n
  <2>1. Len(taken) \in Nat /\ Len(queue) \in Nat
    BY DEF TypeOK
  <2>2. Len(taken) <= n /\ finished \subseteq 1..Len(taken)
    BY <1>2, <2>1 DEF Numbered
  <2>3. QED
    BY <1>2, <2>1, <2>2
<1>7. Elements(posted') = 1..n
  BY <1>2, <1>4 DEF Elements
<1>8. Elements(posted') \cup finished' = 1..n
  BY <1>6, <1>7
<1>9. NextTask' = n + 1
  <2>1. Cardinality(1..n) = n
    BY <1>2, CountUpTo
  <2>2. NextTask' = Cardinality(Elements(posted') \cup finished') + 1
    BY Zenon DEF NextTask
  <2>3. QED
    BY <1>8, <2>1, <2>2, Zenon
<1>10. QED
  BY <1>2, <1>4, <1>5, <1>9

(* A worker that is not new belongs to a pool with threads. *)
LEMMA WorkerOfPool ==
  ASSUME TypeOK, Phases, NEW w \in Workers, pc[w] # "new" PROVE size > 0
BY DEF TypeOK, Phases, Workers

(* What a task is called and where it is: every way of running a task.     *)
LEMMA RunKeepsNumbers ==
  ASSUME TypeOK, Numbered, size > 0, Run(NextTask), UNCHANGED <<finished, taken, size>>,
         latchTask' = 0 => NextTask < MaxTasks
  PROVE  Numbered'
<1>1. /\ NextTask' - 1 = NextTask /\ NextTask \in Nat /\ NextTask = Len(posted) + 1
      /\ NextTask' \in Nat \ {0}
  BY RunNumbers
<1>2. Len(posted') = Known'
  BY <1>1, RunNumbers DEF Known
<1>3. Len(posted') = Len(taken) + Len(queue')
  <2>1. Len(taken) \in Nat /\ Len(queue) \in Nat /\ Len(posted) = Len(taken) + Len(queue)
    BY DEF TypeOK, Numbered
  <2>2. Len(posted') = NextTask /\ Len(queue') = Len(queue) + 1
    BY RunNumbers
  <2>3. QED
    BY <1>1, <2>1, <2>2
<1>4. latchTask' = 0 => NextTask' <= MaxTasks
  BY <1>1, RunNumbers, ThreadPoolAssumption
<1>5. finished \subseteq 1..Len(taken) /\ \A i \in 1..Len(taken) : taken[i] = i
  BY DEF Numbered
<1>6. size' = size /\ finished' = finished /\ taken' = taken /\ ~(size' = 0)
  OBVIOUS
<1>7. QED
  BY <1>1, <1>2, <1>3, <1>4, <1>5, <1>6, RunNumbers, Zenon DEF Numbered

(* A pool without threads has no queue: the caller runs the task.          *)
LEMMA HereKeepsNumbers ==
  ASSUME TypeOK, Numbered, size = 0, finished' = finished \cup {NextTask},
         UNCHANGED <<queue, posted, taken, size>>,
         latchTask' = 0 => NextTask < MaxTasks
  PROVE  Numbered' /\ Known' = Known + 1
<1> DEFINE n == NextTask
<1>1. Known \in Nat /\ n = Known + 1
  BY DEF Numbered, Known
<1>2. finished' = 1..n
  BY <1>1 DEF Numbered
<1>3. posted' = posted /\ Len(posted) = 0 /\ DOMAIN posted = 1..Len(posted)
  BY DEF Numbered, TypeOK
<1>4. Elements(posted') \cup finished' = 1..n
  BY <1>2, <1>3 DEF Elements
<1>5. NextTask' = n + 1
  <2>1. Cardinality(1..n) = n
    BY <1>1, CountUpTo
  <2>2. NextTask' = Cardinality(Elements(posted') \cup finished') + 1
    BY Zenon DEF NextTask
  <2>3. QED
    BY <1>4, <2>1, <2>2, Zenon
<1>6. Known' = n /\ NextTask' \in Nat \ {0}
  BY <1>1, <1>5 DEF Known
<1>7. latchTask' = 0 => NextTask' <= MaxTasks
  BY <1>1, <1>5, ThreadPoolAssumption
<1>8. ~(size' > 0)
  OBVIOUS
<1>9. Numbered'
  BY <1>2, <1>6, <1>7, <1>8, Zenon DEF Numbered
<1>10. QED
  BY <1>1, <1>6, <1>9

(* What taking a task does to the queue and to the history.                *)
LEMMA TakeNumbers ==
  ASSUME TypeOK, Numbered, NEW w \in Workers, TakeFrom(w)
  PROVE  /\ Head(queue) = Len(taken) + 1
         /\ Len(taken') = Len(taken) + 1 /\ Len(posted) = Len(taken') + Len(queue')
         /\ \A i \in 1..Len(taken') : taken'[i] = i
         /\ \A i \in 1..Len(queue') : queue'[i] = Len(taken') + i
<1> DEFINE h == Head(queue)
           q == Tail(queue)
<1>1. /\ queue \in Seq(Nat) /\ taken \in Seq(Nat) /\ queue # << >>
      /\ queue' = q /\ taken' = Append(taken, h)
  BY DEF TypeOK, TakeFrom
<1>2. /\ h = queue[1] /\ h \in Nat /\ q \in Seq(Nat)
      /\ Len(q) = Len(queue) - 1 /\ \A i \in 1..Len(q) : q[i] = queue[i + 1]
  BY <1>1, HeadTailProperties
<1> HIDE DEF h, q
<1>3. Len(queue) \in Nat \ {0} /\ Len(taken) \in Nat /\ Len(q) \in Nat
  BY <1>1, <1>2, LenProperties
<1>4. /\ \A i \in 1..Len(queue) : queue[i] = Len(taken) + i
      /\ \A i \in 1..Len(taken) : taken[i] = i
      /\ Len(posted) = Len(taken) + Len(queue)
  BY DEF Numbered
<1>5. h = Len(taken) + 1
  BY <1>2, <1>3, <1>4
<1>6. Len(taken') = Len(taken) + 1 /\ \A i \in 1..Len(taken') : taken'[i] = i
  <2>1. h = 0 + Len(taken) + 1 /\ \A i \in 1..Len(taken) : taken[i] = 0 + i
    BY <1>3, <1>4, <1>5
  <2>2. QED
    BY <1>1, <1>2, <2>1, AppendNumber
<1>7. \A i \in 1..Len(q) : q[i] = Len(taken) + 1 + i
  <2>1. SUFFICES ASSUME NEW i \in 1..Len(q) PROVE q[i] = Len(taken) + 1 + i
    OBVIOUS
  <2>2. i + 1 \in 1..Len(queue) /\ q[i] = queue[i + 1]
    BY <1>2, <1>3
  <2>3. q[i] = Len(taken) + (i + 1)
    BY <1>4, <2>2
  <2>4. QED
    BY <1>3, <2>3
<1>8. QED
  BY <1>1, <1>2, <1>3, <1>4, <1>5, <1>6, <1>7 DEF h

(* Every step keeps the numbers.                                           *)
LEMMA NumberedStep ==
  ASSUME TypeOK, Numbered, InHand, Phases, [Next]_vars PROVE Numbered'
<1> USE DEF latchVars
<1>1. ASSUME UNCHANGED <<size, queue, posted, taken, finished>>, 
             latchTask' = latchTask \/ latchTask' # 0
      PROVE  Numbered'
  <2>1. NextTask' = NextTask
    BY <1>1 DEF NextTask, Elements
  <2>2. QED
    BY <1>1, <2>1 DEF Numbered, Known
<1>2. CASE RunLatchTask
  <2>1. latchTask' # 0
    BY <1>2 DEF RunLatchTask, Numbered, Known
  <2>2. CASE size > 0
    BY <1>2, <2>1, <2>2, RunKeepsNumbers DEF RunLatchTask
  <2>3. CASE size = 0
    BY <1>2, <2>1, <2>3, HereKeepsNumbers DEF RunLatchTask
  <2>4. QED
    BY <2>2, <2>3 DEF TypeOK
<1>3. CASE Start \/ Wait \/ WithoutLatch \/ Stop \/ Join \/ Destroy
  BY <1>1, <1>3 DEF Start, Wait, WithoutLatch, Stop, Join, Destroy, workVars
<1>4. ASSUME NEW t \in Posters \cup {Owner}, RunTask(t) PROVE Numbered'
  BY <1>4, RunKeepsNumbers DEF RunTask, MayPost
<1>5. ASSUME NEW t \in Posters \cup {Owner}, RunHere(t) PROVE Numbered'
  BY <1>5, HereKeepsNumbers DEF RunHere, MayPost
<1>6. ASSUME NEW w \in Workers, Check(w) \/ SpuriousWakeup(w) \/ TaskThrows(w)
      PROVE  Numbered'
  BY <1>1, <1>6 DEF Check, SpuriousWakeup, TaskThrows, workVars
<1>7. ASSUME NEW w \in Workers, Take(w), ~TakeFrom(w) PROVE Numbered'
  BY <1>1, <1>7 DEF Take
<1>8. ASSUME NEW w \in Workers, Take(w), TakeFrom(w) PROVE Numbered'
  <2>1. size > 0 /\ UNCHANGED <<size, posted, finished, latchTask>>
    BY <1>8, WorkerOfPool DEF Take
  <2>2. NextTask' = NextTask
    BY <2>1 DEF NextTask, Elements
  <2>3. finished \subseteq 1..Len(taken')
    <3>1. finished \subseteq 1..Len(taken) /\ Len(taken) \in Nat
      BY <2>1 DEF Numbered, TypeOK
    <3>2. Len(taken') = Len(taken) + 1
      BY <1>8, TakeNumbers
    <3>3. QED
      BY <3>1, <3>2
  <2>4. ~(size' = 0)
    BY <2>1
  <2>5. QED
    BY <1>8, <2>1, <2>2, <2>3, <2>4, TakeNumbers, Zenon DEF Numbered, Known
<1>9. ASSUME NEW w \in Workers, TaskPosts(w) PROVE Numbered'
  <2>1. size > 0
    BY <1>9, WorkerOfPool DEF TaskPosts
  <2>2. QED
    BY <1>9, <2>1, RunKeepsNumbers DEF TaskPosts
<1>10. ASSUME NEW w \in Workers, TaskReturns(w) PROVE Numbered'
  <2>1. /\ size > 0 /\ UNCHANGED <<size, queue, posted, taken, latchTask>>
        /\ finished' = finished \cup {task[w]}
    BY <1>10, WorkerOfPool DEF TaskReturns
  <2>2. task[w] \in 1..Len(taken)
    BY <1>10 DEF TaskReturns, InHand
  <2>3. finished' \subseteq 1..Len(taken) /\ finished \subseteq 1..Len(taken)
    BY <2>1, <2>2 DEF Numbered
  <2>4. Elements(posted) = 1..Len(posted)
    BY DEF Elements, Numbered, TypeOK
  <2>5. 1..Len(taken) \subseteq 1..Len(posted)
    BY DEF TypeOK, Numbered
  <2>6. Elements(posted) \cup finished' = Elements(posted) \cup finished
    BY <2>3, <2>4, <2>5
  <2>7. NextTask' = NextTask
    BY <2>1, <2>6, Zenon DEF NextTask, Elements
  <2>8. ~(size' = 0)
    BY <2>1
  <2>9. QED
    BY <2>1, <2>3, <2>7, <2>8, Zenon DEF Numbered, Known
<1>11. CASE UNCHANGED vars
  BY <1>1, <1>11 DEF vars, poolVars, workVars
<1>12. QED
  BY <1>2, <1>3, <1>4, <1>5, <1>6, <1>7, <1>8, <1>9, <1>10, <1>11
     DEF Next, Step, Finished

-----------------------------------------------------------------------------
(* Every task that was taken is in one pair of hands or has returned.      *)
LEMMA InHandStep ==
  ASSUME TypeOK, Numbered, InHand, Phases, [Next]_vars PROVE InHand'
<1> USE DEF latchVars
<1>1. ASSUME UNCHANGED <<task, taken, finished>>,
             \A w \in Workers : pc'[w] = "task" <=> pc[w] = "task"
      PROVE  InHand'
  BY <1>1, Zenon DEF InHand
<1>2. ASSUME Run(NextTask), UNCHANGED <<task, taken, finished>> PROVE InHand'
  <2>1. \A w \in Workers : pc'[w] = "task" <=> pc[w] = "task"
    BY <1>2 DEF Run, Notify, To, TypeOK
  <2>2. QED
    BY <1>1, <1>2, <2>1
<1>3. ASSUME size = 0, UNCHANGED <<task, taken, pc, size>> PROVE InHand'
  <2>1. Len(taken) = 0
    <3>1. Len(taken) \in Nat /\ Len(queue) \in Nat /\ Len(taken) + Len(queue) = 0
      BY <1>3 DEF Numbered, TypeOK
    <3>2. QED
      BY <3>1
  <2>2. \A w \in Workers : task[w] = 0
    BY <2>1 DEF InHand
  <2>3. QED
    BY <1>3, <2>1, <2>2 DEF InHand
<1>4. CASE RunLatchTask
  BY <1>2, <1>3, <1>4 DEF RunLatchTask
<1>5. CASE Start \/ Wait \/ WithoutLatch \/ Stop \/ Join \/ Destroy
  <2>1. UNCHANGED <<task, taken, finished>>
    BY <1>5 DEF Start, Wait, WithoutLatch, Stop, Join, Destroy, workVars
  <2>2. CASE Start
    <3>1. \A w \in Workers : pc'[w] = pc[w] \/ w = created'
      BY <2>2 DEF Start, To, TypeOK
    <3>2. CASE MoreThreads
      <4>1. created' = created + 1 /\ created' \in Workers
        BY <2>2, <3>2, ThreadPoolAssumption DEF Start, MoreThreads, TypeOK, Workers
      <4>2. pc[created'] = "new" /\ pc'[created'] = "check"
        BY <2>2, <3>2, <4>1 DEF Start, To, Phases, TypeOK
      <4>3. QED
        BY <1>1, <2>1, <3>1, <4>2
    <3>3. CASE ~MoreThreads
      BY <1>1, <2>1, <2>2, <3>3 DEF Start
    <3>4. QED
      BY <3>2, <3>3
  <2>3. CASE Stop
    BY <1>1, <2>1, <2>3 DEF Stop
  <2>4. CASE Wait \/ WithoutLatch \/ Join \/ Destroy
    BY <1>1, <2>1, <2>4 DEF Wait, WithoutLatch, Join, Destroy, workVars
  <2>5. QED
    BY <1>5, <2>2, <2>3, <2>4
<1>6. ASSUME NEW t \in Posters \cup {Owner}, RunTask(t) PROVE InHand'
  BY <1>2, <1>6 DEF RunTask
<1>7. ASSUME NEW t \in Posters \cup {Owner}, RunHere(t) PROVE InHand'
  BY <1>3, <1>7 DEF RunHere
<1>8. ASSUME NEW w \in Workers, Check(w) \/ SpuriousWakeup(w) PROVE InHand'
  BY <1>1, <1>8 DEF Check, SpuriousWakeup, To, TypeOK
<1>9. ASSUME NEW w \in Workers, Take(w), ~TakeFrom(w) PROVE InHand'
  BY <1>1, <1>9 DEF Take, To, TypeOK
<1>10. ASSUME NEW w \in Workers, Take(w), TakeFrom(w) PROVE InHand'
  <2> DEFINE h == Len(taken) + 1
  <2>1. Len(taken) \in Nat /\ finished \subseteq 1..Len(taken)
    BY <1>10, WorkerOfPool DEF Take, TypeOK, Numbered
  <2>2. Head(queue) = h /\ Len(taken') = h
    BY <1>10, TakeNumbers
  <2>3. /\ pc' = [pc EXCEPT ![w] = "task"] /\ pc[w] = "take"
        /\ task' = [task EXCEPT ![w] = h] /\ finished' = finished
    BY <1>10, <2>2 DEF Take, TakeFrom, To
  <2>4. /\ task'[w] = h /\ pc'[w] = "task" /\ task[w] = 0
        /\ \A v \in Workers \ {w} : task'[v] = task[v] /\ pc'[v] = pc[v]
    BY <2>3 DEF InHand, TypeOK
  <2>5. \A v \in Workers : task[v] # h
    BY <2>1 DEF InHand
  <2>6. \A i \in 1..Len(taken') : i \in finished' \/ \E v \in Workers : task'[v] = i
    <3>1. SUFFICES ASSUME NEW i \in 1..h PROVE i \in finished \/ \E v \in Workers : task'[v] = i
      BY <2>2, <2>3
    <3>2. CASE i = h
      BY <2>4, <3>2
    <3>3. CASE i # h
      <4>1. i \in 1..Len(taken) /\ i # 0
        BY <2>1, <3>3
      <4>2. i \in finished \/ \E v \in Workers : task[v] = i
        BY <4>1 DEF InHand
      <4>3. QED
        BY <2>4, <4>1, <4>2
    <3>4. QED
      BY <3>2, <3>3
  <2>7. \A v \in Workers : /\ task'[v] # 0 <=> pc'[v] = "task"
                           /\ task'[v] # 0 => task'[v] \in 1..h \ finished
    <3>1. h # 0 /\ h \in 1..h \ finished /\ 1..Len(taken) \subseteq 1..h
      BY <2>1
    <3>2. QED
      BY <2>4, <3>1 DEF InHand
  <2>8. \A v, u \in Workers : task'[v] = task'[u] /\ task'[v] # 0 => u = v
    BY <2>4, <2>5 DEF InHand
  <2>9. QED
    BY <2>2, <2>3, <2>6, <2>7, <2>8 DEF InHand
<1>11. ASSUME NEW w \in Workers, TaskPosts(w) PROVE InHand'
  BY <1>2, <1>11 DEF TaskPosts
<1>12. ASSUME NEW w \in Workers, TaskReturns(w) PROVE InHand'
  <2>1. /\ pc' = [pc EXCEPT ![w] = "check"] /\ task' = [task EXCEPT ![w] = 0]
        /\ finished' = finished \cup {task[w]} /\ taken' = taken
    BY <1>12 DEF TaskReturns, To
  <2>2. /\ task'[w] = 0 /\ pc'[w] = "check" /\ task[w] # 0
        /\ \A v \in Workers \ {w} : task'[v] = task[v] /\ pc'[v] = pc[v]
    BY <1>12, <2>1 DEF TaskReturns, InHand, TypeOK
  <2>3. \A v \in Workers \ {w} : task[v] # 0 => task[v] # task[w]
    BY DEF InHand
  <2>4. QED
    BY <2>1, <2>2, <2>3 DEF InHand
<1>13. ASSUME NEW w \in Workers, TaskThrows(w) PROVE InHand'
  BY <1>1, <1>13 DEF TaskThrows, workVars
<1>14. CASE UNCHANGED vars
  BY <1>1, <1>14 DEF vars, poolVars, workVars
<1>15. QED
  BY <1>4, <1>5, <1>6, <1>7, <1>8, <1>9, <1>10, <1>11, <1>12, <1>13, <1>14
     DEF Next, Step, Finished

(* The latch is counted down when its task returns, and at no other time.  *)
LEMMA LatchStep ==
  ASSUME TypeOK, Numbered, InHand, LatchCounts, Phases, [Next]_vars PROVE LatchCounts'
<1> USE DEF latchVars
<1>1. Known \in Nat /\ NextTask = Known + 1
  BY DEF Numbered, Known
<1>2. latchTask # NextTask /\ latchTask \in Nat
  BY <1>1 DEF LatchCounts
<1>3. ASSUME UNCHANGED <<posted, finished, latchTask, count>>,
             owner' = owner \/ (owner = "start" /\ owner' = "run")
      PROVE  LatchCounts'
  <2>1. NextTask' = NextTask
    BY <1>3 DEF NextTask, Elements
  <2>2. QED
    BY <1>3, <2>1 DEF LatchCounts, Known
<1>4. ASSUME Run(NextTask), size > 0, UNCHANGED <<finished, taken, size, latchTask, count, owner>>
      PROVE  LatchCounts'
  <2>1. NextTask' = NextTask + 1
    BY <1>4, RunNumbers
  <2>2. Known' = Known + 1
    BY <1>1, <2>1 DEF Known
  <2>3. latchTask' \in 0..Known'
    BY <1>1, <1>4, <2>2 DEF LatchCounts
  <2>4. QED
    BY <1>4, <2>3 DEF LatchCounts
<1>5. CASE RunLatchTask
  <2>1. /\ owner = "run" /\ owner' = "latch" /\ latchTask = 0 /\ count = 1
        /\ latchTask' = NextTask
    BY <1>5 DEF RunLatchTask, LatchCounts
  <2>2. NextTask < NextTask + 1
    BY <1>1
  <2>3. NextTask' = NextTask + 1
    BY <1>1, <1>5, RunNumbers, HereKeepsNumbers DEF RunLatchTask, Known, Numbered
  <2>4. latchTask' \in 0..Known' /\ latchTask' # 0
    BY <1>1, <2>1, <2>3 DEF Known
  <2>5. count' = IF latchTask' \in finished' THEN 0 ELSE 1
    <3>1. CASE size > 0 /\ UNCHANGED <<finished, latchVars>>
      <4>1. Len(taken) \in Nat /\ Len(taken) <= Len(posted) /\ Len(posted) = Known
        BY <3>1 DEF TypeOK, Numbered
      <4>2. NextTask \notin finished
        BY <1>1, <3>1, <4>1 DEF Numbered
      <4>3. QED
        BY <2>1, <3>1, <4>2
    <3>2. CASE finished' = finished \cup {NextTask} /\ CountDown
      BY <2>1, <3>2 DEF CountDown
    <3>3. QED
      BY <1>5, <3>1, <3>2 DEF RunLatchTask
  <2>6. QED
    BY <2>1, <2>4, <2>5 DEF LatchCounts
<1>6. CASE Start
  BY <1>3, <1>6 DEF Start
<1>7. CASE Wait \/ WithoutLatch \/ Stop \/ Join \/ Destroy
  <2>1. UNCHANGED <<posted, finished, latchTask, count>>
    BY <1>7 DEF Wait, WithoutLatch, Stop, Join, Destroy, workVars, LatchBlocks, LatchSpurious
  <2>2. NextTask' = NextTask
    BY <2>1 DEF NextTask, Elements
  <2>3. owner' \in {"start", "run"} => latchTask = 0
    BY <1>7 DEF Wait, WithoutLatch, Stop, Join, Destroy, LatchCounts
  <2>4. owner' \in {"stop", "join", "stopped", "destroyed"} /\ latchTask # 0
           => latchTask \in finished
    <3>1. CASE Wait
      BY <3>1 DEF Wait, LatchPasses, LatchCounts
    <3>2. CASE WithoutLatch \/ Stop \/ Join \/ Destroy
      BY <3>2 DEF WithoutLatch, Stop, Join, Destroy, LatchCounts
    <3>3. QED
      BY <1>7, <3>1, <3>2
  <2>5. QED
    BY <2>1, <2>2, <2>3, <2>4 DEF LatchCounts, Known
<1>8. ASSUME NEW t \in Posters \cup {Owner}, RunTask(t) PROVE LatchCounts'
  BY <1>4, <1>8 DEF RunTask
<1>9. ASSUME NEW t \in Posters \cup {Owner}, RunHere(t) PROVE LatchCounts'
  <2>1. Known' = Known + 1
    BY <1>9, HereKeepsNumbers DEF RunHere, MayPost
  <2>2. latchTask' \in 0..Known' /\ UNCHANGED <<latchTask, owner, count>>
    BY <1>1, <1>9, <2>1 DEF RunHere, LatchCounts
  <2>3. latchTask' \in finished' <=> latchTask \in finished
    BY <1>2, <1>9 DEF RunHere
  <2>4. QED
    BY <2>2, <2>3 DEF LatchCounts
<1>10. ASSUME NEW w \in Workers, Check(w) \/ Take(w) \/ SpuriousWakeup(w) PROVE LatchCounts'
  BY <1>3, <1>10 DEF Check, Take, SpuriousWakeup
<1>11. ASSUME NEW w \in Workers, TaskPosts(w) PROVE LatchCounts'
  BY <1>4, <1>11, WorkerOfPool DEF TaskPosts
<1>12. ASSUME NEW w \in Workers, TaskReturns(w) PROVE LatchCounts'
  <2>1. /\ finished' = finished \cup {task[w]} /\ UNCHANGED <<size, posted, owner, latchTask>>
        /\ IF task[w] = latchTask THEN CountDown ELSE UNCHANGED count
    BY <1>12 DEF TaskReturns
  <2>2. task[w] # 0 /\ task[w] \in 1..Len(posted) \ finished
    <3>1. task[w] # 0 /\ task[w] \in 1..Len(taken) \ finished
      BY <1>12 DEF TaskReturns, InHand
    <3>2. 1..Len(taken) \subseteq 1..Len(posted)
      BY DEF TypeOK, Numbered
    <3>3. QED
      BY <3>1, <3>2
  <2>3. Elements(posted) = 1..Len(posted)
    BY DEF Elements, Numbered, TypeOK
  <2>4. Elements(posted) \cup finished' = Elements(posted) \cup finished
    BY <2>1, <2>2, <2>3
  <2>5. Known' = Known
    BY <2>1, <2>4, Zenon DEF Known, NextTask, Elements
  <2>6. latchTask' \in 0..Known'
    BY <2>1, <2>5 DEF LatchCounts
  <2>7. count' = IF latchTask' # 0 /\ latchTask' \in finished' THEN 0 ELSE 1
    BY <2>1, <2>2 DEF LatchCounts, CountDown
  <2>8. QED
    BY <2>1, <2>6, <2>7 DEF LatchCounts
<1>13. ASSUME NEW w \in Workers, TaskThrows(w) PROVE LatchCounts'
  BY <1>3, <1>13 DEF TaskThrows, workVars
<1>14. CASE UNCHANGED vars
  BY <1>3, <1>14 DEF vars, poolVars, workVars
<1>15. QED
  BY <1>5, <1>6, <1>7, <1>8, <1>9, <1>10, <1>11, <1>12, <1>13, <1>14
     DEF Next, Step, Finished

(* Only start makes threads, and those that are gone stay gone.            *)
LEMMA PhasesStep ==
  ASSUME TypeOK, Phases, [Next]_vars PROVE Phases'
<1>1. ASSUME UNCHANGED <<running, created>>, owner' = owner,
             \A w \in Workers : pc'[w] = pc[w] \/ (pc[w] \notin {"new", "done"} /\ w <= created)
      PROVE  Phases'
  <2>1. 1..created \subseteq Workers
    BY ThreadPoolAssumption DEF TypeOK, Workers
  <2>2. QED
    BY <1>1, <2>1 DEF Phases, TypeOK, Workers
<1>2. \A w \in Workers : pc[w] # "new" => w <= created
  BY DEF Phases, TypeOK, Workers
<1>3. ASSUME Run(NextTask), UNCHANGED <<running, created>> 
      PROVE  \A w \in Workers : \/ pc'[w] = pc[w]
                                \/ pc[w] \notin {"new", "done"} /\ w <= created
  BY <1>2, <1>3 DEF Run, Notify, To, TypeOK
<1>4. CASE Start
  <2>1. \A w \in Workers : w > created' => pc'[w] = "new"
    <3>1. \A w \in Workers : w > created' => w > created /\ w # created'
      <4>1. created' = created \/ created' = created + 1
        BY <1>4 DEF Start
      <4>2. Workers \subseteq Int /\ created \in Nat
        BY DEF Workers, TypeOK
      <4>3. QED
        BY <4>1, <4>2
    <3>2. pc' = pc \/ (created' = created + 1 /\ pc' = [pc EXCEPT ![created'] = "check"])
      BY <1>4 DEF Start, To
    <3>3. \A w \in Workers : w > created' => pc'[w] = pc[w]
      BY <3>1, <3>2 DEF TypeOK
    <3>4. QED
      BY <3>1, <3>3 DEF Phases
  <2>2. QED
    BY <1>4, <2>1 DEF Start, Phases
<1>5. CASE RunLatchTask
  <2>1. owner = "run" /\ owner' = "latch" /\ UNCHANGED <<running, created>>
    BY <1>5 DEF RunLatchTask
  <2>2. \A w \in Workers : w > created' => pc'[w] = "new"
    BY <1>3, <1>5, <2>1 DEF RunLatchTask, Phases, TypeOK, Workers
  <2>3. QED
    BY <2>1, <2>2 DEF Phases
<1>6. CASE Wait \/ WithoutLatch \/ Stop
  <2>1. owner' \notin {"stopped", "destroyed", "run"} /\ UNCHANGED created
    BY <1>6 DEF Wait, WithoutLatch, Stop
  <2>2. \A w \in Workers : w > created' => pc'[w] = "new"
    BY <1>6 DEF Wait, WithoutLatch, Stop, Phases, workVars
  <2>3. QED
    BY <2>1, <2>2 DEF Phases
<1>7. CASE Join \/ Destroy
  BY <1>7 DEF Join, Destroy, Phases, workVars
<1>8. ASSUME NEW t \in Posters \cup {Owner}, RunTask(t) PROVE Phases'
  BY <1>1, <1>3, <1>8 DEF RunTask
<1>9. ASSUME NEW t \in Posters \cup {Owner}, RunHere(t) PROVE Phases'
  BY <1>1, <1>9 DEF RunHere
<1>10. ASSUME NEW w \in Workers, Check(w) \/ Take(w) \/ SpuriousWakeup(w) PROVE Phases'
  <2>1. \A v \in Workers : \/ pc'[v] = pc[v]
                           \/ pc[v] \notin {"new", "done"} /\ v <= created
    BY <1>2, <1>10 DEF Check, Take, TakeFrom, SpuriousWakeup, To, TypeOK
  <2>2. QED
    BY <1>1, <1>10, <2>1 DEF Check, Take, SpuriousWakeup
<1>11. ASSUME NEW w \in Workers, TaskPosts(w) PROVE Phases'
  BY <1>1, <1>3, <1>11 DEF TaskPosts
<1>12. ASSUME NEW w \in Workers, TaskReturns(w) PROVE Phases'
  <2>1. \A v \in Workers : \/ pc'[v] = pc[v]
                           \/ pc[v] \notin {"new", "done"} /\ v <= created
    BY <1>2, <1>12 DEF TaskReturns, To, TypeOK
  <2>2. QED
    BY <1>1, <1>12, <2>1 DEF TaskReturns
<1>13. ASSUME NEW w \in Workers, TaskThrows(w) PROVE Phases'
  BY <1>1, <1>13 DEF TaskThrows, workVars
<1>14. CASE UNCHANGED vars
  BY <1>1, <1>14 DEF vars, poolVars, workVars
<1>15. QED
  BY <1>4, <1>5, <1>6, <1>7, <1>8, <1>9, <1>10, <1>11, <1>12, <1>13, <1>14
     DEF Next, Step, Finished

(* The inductive invariant holds of every reachable state. *)
THEOREM Invariant == Spec => []IInv
<1>1. IInv /\ [Next]_vars => IInv'
  <2> SUFFICES ASSUME IInv, [Next]_vars PROVE IInv'
    OBVIOUS
  <2>1. NextTask \in Nat
    BY DEF IInv, Numbered
  <2>2. TypeOK'
    BY <2>1, TypeStep DEF IInv
  <2>3. Numbered' /\ InHand'
    BY NumberedStep, InHandStep DEF IInv
  <2>4. LatchCounts' /\ Phases'
    BY LatchStep, PhasesStep DEF IInv
  <2>5. QED
    BY <2>2, <2>3, <2>4 DEF IInv
<1>2. QED
  BY InitCorrect, <1>1, PTL DEF Spec

-----------------------------------------------------------------------------
(* An owner that waited for its latch before it stopped the pool knows     *)
(* that every task run before the latch's has returned: the latch alone    *)
(* says that its own task has, and the join the others.                    *)
THEOREM StopAfterLatch == Spec => []LatchThenStop
<1>1. IInv => LatchThenStop
  <2> SUFFICES ASSUME IInv, owner \in {"stopped", "destroyed"}, latchTask # 0
               PROVE  1..latchTask \subseteq finished
    BY DEF LatchThenStop
  <2>1. latchTask \in finished /\ latchTask \in Nat
    BY DEF IInv, LatchCounts, TypeOK
  <2>2. CASE size = 0
    <3>1. finished = 1..Known /\ latchTask \in 0..Known /\ Known \in Int
      BY <2>2 DEF IInv, Numbered, LatchCounts, Known
    <3>2. QED
      BY <2>1, <3>1
  <2>3. CASE size > 0
    <3>1. \A w \in Workers : pc[w] # "task"
      BY DEF IInv, Phases, TypeOK, Workers
    <3>2. \A i \in 1..Len(taken) : i \in finished
      BY <3>1 DEF IInv, InHand
    <3>3. latchTask <= Len(taken) /\ Len(taken) \in Nat
      BY <2>1, <2>3 DEF IInv, Numbered, TypeOK
    <3>4. QED
      BY <2>1, <3>2, <3>3
  <2>4. QED
    BY <2>2, <2>3 DEF IInv, TypeOK
<1>2. QED
  BY Invariant, <1>1, PTL

-----------------------------------------------------------------------------
(* The workers that are awake and will look into the queue.                *)
Coming == {w \in Workers : pc[w] \in {"check", "take"}}
Asleep == {w \in Workers : pc[w] = "waiting"}

(* They can be counted.                                                    *)
LEMMA ComingFinite ==
  ASSUME NEW S \in SUBSET Workers
  PROVE  IsFiniteSet(S) /\ Cardinality(S) \in Nat
<1>1. IsFiniteSet(Workers)
  BY ThreadPoolAssumption, FS_Interval DEF Workers
<1>2. QED
  BY <1>1, FS_Subset, FS_CardinalityType

(* A step that lets nobody fall asleep, keeps awake who is, and adds no    *)
(* work, keeps the balance.                                                *)
LEMMA StillAwake ==
  ASSUME NobodySleepsOnWork, Asleep' \subseteq Asleep, Coming \subseteq Coming',
         queue' = queue, queue \in Seq(Nat), running => running'
  PROVE  NobodySleepsOnWork'
<1>1. Cardinality(Coming) <= Cardinality(Coming')
  <2>1. Coming \in SUBSET Workers /\ Coming' \in SUBSET Workers
    BY DEF Coming
  <2>2. QED
    BY <2>1, ComingFinite, FS_Subset
<1>2. Cardinality(Coming) \in Nat /\ Cardinality(Coming') \in Nat
  BY ComingFinite DEF Coming
<1>3. Len(queue) \in Nat
  OBVIOUS
<1>4. Asleep # {} => running /\ Len(queue) <= Cardinality(Coming)
  BY DEF NobodySleepsOnWork, Asleep, Coming
<1>5. Asleep' # {} => running' /\ Len(queue') <= Cardinality(Coming')
  BY <1>1, <1>2, <1>3, <1>4
<1>6. QED
  BY <1>5 DEF NobodySleepsOnWork, Asleep, Coming

(* One notify for one task. *)
LEMMA NotifyIsEnough ==
  ASSUME TypeOK, NobodySleepsOnWork, Run(NextTask), NextTask \in Nat, running' = running
  PROVE  NobodySleepsOnWork'
<1>1. CASE Asleep = {}
  <2>1. Asleep' = {}
    BY <1>1 DEF Asleep, Run, Notify, To
  <2>2. QED
    BY <2>1 DEF Asleep, NobodySleepsOnWork
<1>2. CASE Asleep # {}
  <2>1. PICK w \in Workers : pc[w] = "waiting" /\ pc' = [pc EXCEPT ![w] = "take"]
    BY <1>2 DEF Asleep, Run, Notify, To
  <2>2. Coming' = Coming \cup {w} /\ w \notin Coming
    BY <2>1 DEF Coming, TypeOK
  <2>3. Cardinality(Coming') = Cardinality(Coming) + 1 /\ Cardinality(Coming) \in Nat
    <3>1. IsFiniteSet(Coming) /\ Cardinality(Coming) \in Nat
      BY ComingFinite DEF Coming
    <3>2. QED
      BY <2>2, <3>1, FS_AddElement
  <2>4. Len(queue') = Len(queue) + 1 /\ Len(queue) \in Nat
    BY AppendProperties DEF Run, TypeOK
  <2>5. running /\ Len(queue) <= Cardinality(Coming)
    BY <1>2 DEF NobodySleepsOnWork, Asleep, Coming
  <2>6. running' /\ Len(queue') <= Cardinality(Coming')
    BY <2>3, <2>4, <2>5
  <2>7. QED
    BY <2>6 DEF NobodySleepsOnWork, Coming
<1>3. QED
  BY <1>1, <1>2

(* While a worker sleeps, every queued task has an awake worker of its own *)
(* that will look into the queue, and nobody sleeps in a stopped pool: one *)
(* notify for one task is enough.                                          *)
THEOREM NotifyWakesEnough == Spec => []NobodySleepsOnWork
<1>1. Init => NobodySleepsOnWork
  BY DEF Init, NobodySleepsOnWork
<1>2. IInv /\ NobodySleepsOnWork /\ [Next]_vars => NobodySleepsOnWork'
  <2> SUFFICES ASSUME IInv, NobodySleepsOnWork, [Next]_vars PROVE NobodySleepsOnWork'
    OBVIOUS
  <2>1. TypeOK /\ queue \in Seq(Nat) /\ NextTask \in Nat /\ pc \in [Workers -> WorkerPcs]
    BY DEF IInv, TypeOK, Numbered
  <2>2. ASSUME UNCHANGED <<pc, queue, running>> PROVE NobodySleepsOnWork'
    BY <2>2 DEF NobodySleepsOnWork
  <2>3. CASE RunLatchTask
    BY <2>1, <2>2, <2>3, NotifyIsEnough DEF RunLatchTask
  <2>4. CASE Start
    <3>1. pc' = pc \/ pc' = [pc EXCEPT ![created'] = "check"]
      BY <2>4 DEF Start, To
    <3>2. Asleep' \subseteq Asleep /\ Coming \subseteq Coming'
      BY <2>1, <3>1 DEF Asleep, Coming
    <3>3. QED
      BY <2>1, <2>4, <3>2, StillAwake DEF Start
  <2>5. CASE Stop
    <3>1. Asleep' = {}
      BY <2>1, <2>5 DEF Stop, Asleep
    <3>2. QED
      BY <3>1 DEF Asleep, NobodySleepsOnWork
  <2>6. CASE Wait \/ WithoutLatch \/ Join \/ Destroy
    BY <2>2, <2>6 DEF Wait, WithoutLatch, Join, Destroy, workVars
  <2>7. ASSUME NEW t \in Posters \cup {Owner}, RunTask(t) PROVE NobodySleepsOnWork'
    BY <2>1, <2>7, NotifyIsEnough DEF RunTask
  <2>8. ASSUME NEW t \in Posters \cup {Owner}, RunHere(t) PROVE NobodySleepsOnWork'
    BY <2>2, <2>8 DEF RunHere
  <2>9. ASSUME NEW w \in Workers, Check(w) PROVE NobodySleepsOnWork'
    <3>1. UNCHANGED <<queue, running>> /\ pc[w] = "check"
      BY <2>9 DEF Check
    <3>2. Asleep' \subseteq Asleep
      BY <2>1, <2>9 DEF Check, To, Asleep
    <3>3. CASE running
      <4>1. Coming' = Coming
        BY <2>1, <2>9, <3>3 DEF Check, To, Coming
      <4>2. QED
        BY <2>1, <3>1, <3>2, <4>1, StillAwake
    <3>4. CASE ~running
      <4>1. Asleep' = {}
        BY <3>2, <3>4 DEF NobodySleepsOnWork, Asleep
      <4>2. QED
        BY <4>1 DEF Asleep, NobodySleepsOnWork
    <3>5. QED
      BY <3>3, <3>4
  <2>10. ASSUME NEW w \in Workers, Take(w) PROVE NobodySleepsOnWork'
    <3>1. pc[w] = "take" /\ running' = running
      BY <2>10 DEF Take
    <3>2. CASE TakeFrom(w)
      <4>1. pc' = [pc EXCEPT ![w] = "task"] /\ queue # << >> /\ queue' = Tail(queue)
        BY <3>2 DEF TakeFrom, To
      <4>2. Coming' = Coming \ {w} /\ w \in Coming /\ Asleep' = Asleep
        BY <2>1, <3>1, <4>1 DEF Coming, Asleep
      <4>3. IsFiniteSet(Coming) /\ Cardinality(Coming) \in Nat
        BY ComingFinite DEF Coming
      <4>4. Cardinality(Coming') = Cardinality(Coming) - 1
        BY <4>2, <4>3, FS_RemoveElement
      <4>5. Len(queue') = Len(queue) - 1 /\ Len(queue) \in Nat
        BY <2>1, <4>1, HeadTailProperties
      <4>6. Asleep # {} => running /\ Len(queue) <= Cardinality(Coming)
        BY DEF NobodySleepsOnWork, Asleep, Coming
      <4>7. Asleep' # {} => running' /\ Len(queue') <= Cardinality(Coming')
        BY <3>1, <4>2, <4>3, <4>4, <4>5, <4>6
      <4>8. QED
        BY <4>7 DEF NobodySleepsOnWork, Asleep, Coming
    <3>3. CASE /\ queue = << >> /\ queue' = queue
               /\ To(w, IF running THEN "waiting" ELSE "check")
      <4>1. CASE running
        <5>1. Len(queue') = 0 /\ Cardinality(Coming') \in Nat
          BY <3>3, ComingFinite DEF Coming
        <5>2. running' /\ Len(queue') <= Cardinality(Coming')
          BY <3>1, <4>1, <5>1
        <5>3. QED
          BY <5>2 DEF NobodySleepsOnWork, Coming
      <4>2. CASE ~running
        <5>1. Asleep' \subseteq Asleep /\ Coming \subseteq Coming'
          BY <2>1, <3>1, <3>3, <4>2 DEF Asleep, Coming, To
        <5>2. QED
          BY <2>1, <3>1, <3>3, <5>1, StillAwake
      <4>3. QED
        BY <4>1, <4>2
    <3>4. QED
      BY <2>10, <3>2, <3>3 DEF Take
  <2>11. ASSUME NEW w \in Workers, SpuriousWakeup(w) PROVE NobodySleepsOnWork'
    <3>1. Asleep' \subseteq Asleep /\ Coming \subseteq Coming'
      BY <2>1, <2>11 DEF SpuriousWakeup, To, Asleep, Coming
    <3>2. QED
      BY <2>1, <2>11, <3>1, StillAwake DEF SpuriousWakeup
  <2>12. ASSUME NEW w \in Workers, TaskPosts(w) PROVE NobodySleepsOnWork'
    BY <2>1, <2>12, NotifyIsEnough DEF TaskPosts
  <2>13. ASSUME NEW w \in Workers, TaskReturns(w) PROVE NobodySleepsOnWork'
    <3>1. Asleep' \subseteq Asleep /\ Coming \subseteq Coming'
      BY <2>1, <2>13 DEF TaskReturns, To, Asleep, Coming
    <3>2. QED
      BY <2>1, <2>13, <3>1, StillAwake DEF TaskReturns
  <2>14. ASSUME NEW w \in Workers, TaskThrows(w) PROVE NobodySleepsOnWork'
    BY <2>2, <2>14 DEF TaskThrows, workVars
  <2>15. CASE UNCHANGED vars
    BY <2>2, <2>15 DEF vars, poolVars, workVars
  <2>16. QED
    BY <2>3, <2>4, <2>5, <2>6, <2>7, <2>8, <2>9, <2>10, <2>11, <2>12, <2>13, <2>14, <2>15
       DEF Next, Step, Finished
<1>3. QED
  BY Invariant, <1>1, <1>2, PTL DEF Spec

-----------------------------------------------------------------------------
(* The pool's queue is a FIFO queue that loses and repeats nothing: run    *)
(* posts a task nobody knows, take runs the oldest.                        *)
THEOREM Refinement == Spec => ImplementsQueue
<1>1. Init => Pool!Init
  BY DEF Init, Pool!Init
<1>2. IInv /\ [Next]_vars => [Pool!Next]_<<queue, taken>>
  <2> SUFFICES ASSUME IInv, [Next]_vars PROVE [Pool!Next]_<<queue, taken>>
    OBVIOUS
  <2>1. ASSUME Run(NextTask), size > 0, taken' = taken, NextTask <= MaxTasks PROVE Pool!Post
    <3>1. NextTask \in Tasks
      BY <2>1, ThreadPoolAssumption DEF IInv, Numbered, Tasks
    <3>2. NextTask = Len(taken) + Len(queue) + 1 /\ Len(taken) \in Nat /\ Len(queue) \in Nat
      BY <2>1 DEF IInv, Numbered, Known, TypeOK
    <3>3. NextTask \notin Pool!Contents(queue) \cup Pool!Contents(taken)
      <4>1. /\ \A i \in 1..Len(taken) : taken[i] # NextTask
            /\ \A i \in 1..Len(queue) : queue[i] # NextTask
        BY <3>2 DEF IInv, Numbered
      <4>2. DOMAIN taken = 1..Len(taken) /\ DOMAIN queue = 1..Len(queue)
        BY DEF IInv, TypeOK
      <4>3. QED
        BY <4>1, <4>2 DEF Pool!Contents
    <3>4. queue' = Append(queue, NextTask)
      BY <2>1 DEF Run
    <3>5. QED
      BY <2>1, <3>1, <3>3, <3>4 DEF Pool!Post
  <2>2. CASE RunLatchTask
    <3>1. latchTask = 0
      BY <2>2 DEF RunLatchTask, IInv, LatchCounts
    <3>2. NextTask <= MaxTasks
      BY <3>1 DEF IInv, Numbered
    <3>3. QED
      BY <2>1, <2>2, <3>2 DEF RunLatchTask, Pool!Next
  <2>3. CASE Start \/ Wait \/ WithoutLatch \/ Stop \/ Join \/ Destroy
    BY <2>3 DEF Start, Wait, WithoutLatch, Stop, Join, Destroy, workVars
  <2>4. ASSUME NEW t \in Posters \cup {Owner}, RunTask(t) PROVE Pool!Next
    <3>1. NextTask < MaxTasks
      BY <2>4 DEF RunTask, MayPost
    <3>2. NextTask <= MaxTasks
      BY <3>1, ThreadPoolAssumption DEF IInv, Numbered
    <3>3. QED
      BY <2>1, <2>4, <3>2 DEF RunTask, Pool!Next
  <2>5. ASSUME NEW t \in Posters \cup {Owner}, RunHere(t) PROVE UNCHANGED <<queue, taken>>
    BY <2>5 DEF RunHere
  <2>6. ASSUME NEW w \in Workers,
               Check(w) \/ SpuriousWakeup(w) \/ TaskReturns(w) \/ TaskThrows(w)
        PROVE  UNCHANGED <<queue, taken>>
    BY <2>6 DEF Check, SpuriousWakeup, TaskReturns, TaskThrows, workVars
  <2>7. ASSUME NEW w \in Workers, Take(w) PROVE [Pool!Next]_<<queue, taken>>
    BY <2>7 DEF Take, TakeFrom, Pool!Next, Pool!Run
  <2>8. ASSUME NEW w \in Workers, TaskPosts(w) PROVE Pool!Next
    <3>1. NextTask < MaxTasks
      BY <2>8 DEF TaskPosts
    <3>2. NextTask <= MaxTasks
      BY <3>1, ThreadPoolAssumption DEF IInv, Numbered
    <3>3. size > 0
      BY <2>8, WorkerOfPool DEF TaskPosts, IInv
    <3>4. QED
      BY <2>1, <2>8, <3>2, <3>3 DEF TaskPosts, Pool!Next
  <2>9. CASE UNCHANGED vars
    BY <2>9 DEF vars, poolVars, workVars
  <2>10. QED
    BY <2>2, <2>3, <2>4, <2>5, <2>6, <2>7, <2>8, <2>9 DEF Next, Step, Finished
<1>3. QED
  BY Invariant, <1>1, <1>2, PTL DEF ImplementsQueue, Pool!Spec, Spec

=============================================================================
