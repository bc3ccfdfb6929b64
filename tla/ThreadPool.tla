----------------------------- MODULE ThreadPool -----------------------------
(***************************************************************************)
(* ThreadPool (13_muduo_ThreadPool/src/ThreadPool.cc), used by an owner    *)
(* the way ThreadPool_test.cc does: it starts the pool, runs tasks, and    *)
(* either waits on a CountDownLatch that its last task counts down, or     *)
(* not, and stops the pool or leaves that to the destructor.  Other        *)
(* threads, and tasks, run tasks meanwhile.  Without threads a pool calls  *)
(* the task in run itself.  A task that throws ends the process.           *)
(*                                                                         *)
(* A step is a critical section of mutex_, or what a worker does between   *)
(* two of them.  Workers blocked in cond_.wait() are "waiting"; one that   *)
(* is notified takes the mutex again in a step of its own, and tests again.*)
(***************************************************************************)
EXTENDS CountDownLatch, Sequences, FiniteSets

CONSTANTS NumThreads,   \* bound: numThreads of start
          Sizes,        \* the values of numThreads tried
          Posters,      \* threads other than the owner that call run
          Owner,        \* the thread that starts and stops the pool
          MaxTasks      \* bound: calls of run, the last is left to the owner

ASSUME ThreadPoolAssumption ==
  /\ NumThreads \in Nat /\ Sizes \subseteq 0..NumThreads
  /\ MaxTasks \in Nat \ {0} /\ Owner \notin Posters

Workers == 1..NumThreads
Tasks == 1..MaxTasks

VARIABLES
  size,      \* numThreads given to start
  running,   \* running_
  created,   \* how many threads start has created: threads_
  queue,     \* queue_
  pc,        \* per worker: "new", "check" (while), "take", "waiting", "task"
             \* or "done"
  task,      \* per worker: the task it took, 0 for none
  owner,     \* the owner: "start", "run", "latch", "stop", "join", "stopped"
             \* or "destroyed"
  aborted,   \* the process was ended by a task that threw
  latchTask, \* the task that counts the latch down, 0 if none was run
  posted,    \* history: tasks given to run that were queued, in order
  taken,     \* history: tasks taken by the workers, in order
  finished   \* history: tasks that have returned

workVars == <<queue, pc, task, latchTask, posted, taken, finished>>
poolVars == <<size, running, created, owner, aborted, workVars>>
vars == <<poolVars, latchVars>>

Init ==
  /\ size \in Sizes /\ aborted = FALSE
  /\ running = FALSE /\ created = 0 /\ queue = << >>
  /\ pc = [w \in Workers |-> "new"] /\ task = [w \in Workers |-> 0]
  /\ owner = "start" /\ latchTask = 0
  /\ posted = << >> /\ taken = << >> /\ finished = {}
  /\ LatchInit(1)

To(w, label) == pc' = [pc EXCEPT ![w] = label]
Elements(s) == {s[i] : i \in DOMAIN s}

-----------------------------------------------------------------------------
MoreThreads == created < size

(* start: running_ is set before the first thread exists.                  *)
Start ==
  /\ owner = "start"
  /\ running' = TRUE
  /\ IF MoreThreads
        THEN created' = created + 1 /\ To(created', "check") /\ UNCHANGED owner
        ELSE owner' = "run" /\ UNCHANGED <<created, pc>>
  /\ UNCHANGED <<size, aborted, queue, task, latchTask, posted, taken, finished,
                 latchVars>>

(* cond_.notify(): one waiting worker, if there is one.                    *)
Notify ==
  \/ \E w \in Workers : pc[w] = "waiting" /\ To(w, "take")
  \/ (\A w \in Workers : pc[w] # "waiting") /\ UNCHANGED pc

(* run of a pool with threads.                                             *)
Run(n) ==
  /\ queue' = Append(queue, n) /\ posted' = Append(posted, n)
  /\ Notify

NextTask == Cardinality(Elements(posted) \cup finished) + 1
MayPost(t) == \/ t = Owner /\ owner = "run" /\ NextTask < MaxTasks
              \/ /\ t \in Posters /\ owner \notin {"start", "destroyed"}
                 /\ NextTask < MaxTasks

RunTask(t) ==
  /\ MayPost(t) /\ size > 0
  /\ Run(NextTask)
  /\ UNCHANGED <<size, aborted, running, created, task, owner, latchTask, taken,
                 finished, latchVars>>

(* run of a pool without threads: the caller runs the task.                *)
RunHere(t) ==
  /\ MayPost(t) /\ size = 0
  /\ finished' = finished \cup {NextTask}
  /\ UNCHANGED <<size, aborted, running, created, queue, pc, task, owner, latchTask,
                 posted, taken, latchVars>>

(* The owner's last task counts its latch down; then it waits for it.      *)
RunLatchTask ==
  /\ owner = "run" /\ owner' = "latch"
  /\ latchTask' = NextTask
  /\ \/ size > 0 /\ Run(NextTask) /\ UNCHANGED <<finished, latchVars>>
     \/ /\ size = 0 /\ finished' = finished \cup {NextTask} /\ CountDown
        /\ UNCHANGED <<queue, posted, pc>>
  /\ UNCHANGED <<size, aborted, running, created, task, taken>>

Wait ==
  /\ owner = "latch"
  /\ \/ LatchPasses(Owner) /\ owner' = "stop" /\ UNCHANGED latchVars
     \/ (LatchBlocks(Owner) \/ LatchSpurious(Owner)) /\ UNCHANGED owner
  /\ UNCHANGED <<size, aborted, running, created, workVars>>

(* The owner stops the pool, with or without the wait.                     *)
WithoutLatch ==
  /\ owner = "run" /\ owner' = "stop"
  /\ UNCHANGED <<size, aborted, running, created, workVars, latchVars>>

(* ~ThreadPool stops a pool that is not stopped.                           *)
Destroy ==
  /\ owner \in {"run", "stopped"}
  /\ owner' = IF running THEN "stop" ELSE "destroyed"
  /\ UNCHANGED <<size, aborted, running, created, workVars, latchVars>>

(* Faulty variant: only one worker is told.                                *)
BadStop ==
  /\ owner = "stop" /\ owner' = "join"
  /\ running' = FALSE
  /\ Notify
  /\ UNCHANGED <<size, aborted, created, queue, task, latchTask, posted, taken,
                 finished, latchVars>>

(* stop: running_ and notifyAll under mutex_, ...                          *)
Stop ==
  /\ owner = "stop" /\ owner' = "join"
  /\ running' = FALSE
  /\ pc' = [w \in Workers |-> IF pc[w] = "waiting" THEN "take" ELSE pc[w]]
  /\ UNCHANGED <<size, aborted, created, queue, task, latchTask, posted, taken,
                 finished, latchVars>>

(* ... and the join of every thread.                                       *)
Join ==
  /\ owner = "join" /\ \A w \in 1..created : pc[w] = "done"
  /\ owner' = "stopped"
  /\ UNCHANGED <<size, aborted, running, created, workVars, latchVars>>

-----------------------------------------------------------------------------
(* A worker in runInThread: while (running_), read outside mutex_.         *)
Check(w) ==
  /\ pc[w] = "check"
  /\ To(w, IF running THEN "take" ELSE "done")
  /\ UNCHANGED <<size, aborted, running, created, queue, task, owner, latchTask,
                 posted, taken, finished, latchVars>>

(* Faulty variant: the newest task is taken.                               *)
BadTakeFrom(w) ==
  /\ queue # << >>
  /\ task' = [task EXCEPT ![w] = queue[Len(queue)]]
  /\ taken' = Append(taken, task'[w])
  /\ queue' = SubSeq(queue, 1, Len(queue) - 1)
  /\ To(w, "task")

(* queue_.front() and pop_front().                                         *)
TakeFrom(w) ==
  /\ queue # << >>
  /\ task' = [task EXCEPT ![w] = Head(queue)]
  /\ taken' = Append(taken, Head(queue))
  /\ queue' = Tail(queue)
  /\ To(w, "task")

(* take: blocks only if there is nothing to do and the pool runs; an empty *)
(* task goes back to the test of running_.                                 *)
Take(w) ==
  /\ pc[w] = "take"
  /\ \/ TakeFrom(w)
     \/ /\ queue = << >>
        /\ To(w, IF running THEN "waiting" ELSE "check")
        /\ UNCHANGED <<queue, task, taken>>
  /\ UNCHANGED <<size, aborted, running, created, owner, latchTask, posted, finished,
                 latchVars>>

SpuriousWakeup(w) ==
  /\ pc[w] = "waiting" /\ To(w, "take")
  /\ UNCHANGED <<size, aborted, running, created, queue, task, owner, latchTask,
                 posted, taken, finished, latchVars>>

(* task(), which may call run, and returns, ...                            *)
TaskPosts(w) ==
  /\ pc[w] = "task" /\ owner # "start" /\ NextTask < MaxTasks
  /\ Run(NextTask)
  /\ UNCHANGED <<size, aborted, running, created, task, owner, latchTask, taken,
                 finished, latchVars>>

TaskReturns(w) ==
  /\ pc[w] = "task"
  /\ finished' = finished \cup {task[w]}
  /\ task' = [task EXCEPT ![w] = 0]
  /\ IF task[w] = latchTask THEN CountDown ELSE UNCHANGED latchVars
  /\ To(w, "check")
  /\ UNCHANGED <<size, aborted, running, created, queue, owner, latchTask, posted,
                 taken>>

(* ... or throws: it is reported and the process aborts, whatever it threw.*)
TaskThrows(w) ==
  /\ pc[w] = "task"
  /\ aborted' = TRUE
  /\ UNCHANGED <<size, running, created, owner, workVars, latchVars>>

-----------------------------------------------------------------------------
WorkerStep(w) == Check(w) \/ Take(w) \/ TaskReturns(w)
OwnerGoesOn == \/ Start \/ Stop \/ Join
               \/ LatchPasses(Owner) /\ Wait

Step ==
  \/ Start \/ RunLatchTask \/ Wait \/ WithoutLatch \/ Stop \/ Join \/ Destroy
  \/ \E t \in Posters \cup {Owner} : RunTask(t) \/ RunHere(t)
  \/ \E w \in Workers : \/ Check(w) \/ Take(w) \/ SpuriousWakeup(w)
                        \/ TaskPosts(w) \/ TaskReturns(w) \/ TaskThrows(w)

Finished == (owner = "destroyed" \/ aborted) /\ UNCHANGED vars

Next == (~aborted /\ Step) \/ Finished

Spec == Init /\ [][Next]_vars

(* The threads that are not blocked go on; tasks return or throw.  An      *)
(* owner that is running tasks need not stop, and nobody has to run tasks. *)
FairSpec ==
  /\ Spec
  /\ WF_vars(~aborted /\ OwnerGoesOn)
  /\ \A w \in Workers : WF_vars(~aborted /\ WorkerStep(w))

-----------------------------------------------------------------------------
(* While a worker sleeps, every queued task has an awake worker of its own *)
(* that will look into the queue: one notify for one task is enough,       *)
(* whoever takes it.  And nobody sleeps once the pool is stopped.          *)
NobodySleepsOnWork ==
  LET coming == {w \in Workers : pc[w] \in {"check", "take"}}
  IN  (\E w \in Workers : pc[w] = "waiting")
         => running /\ Len(queue) <= Cardinality(coming)

(* An owner that waited for its latch before it stopped the pool knows     *)
(* that every task run before the latch's has run to its end, although the *)
(* latch alone says nothing of the tasks other workers have taken.         *)
LatchThenStop ==
  owner \in {"stopped", "destroyed"} /\ latchTask # 0 => 1..latchTask \subseteq finished

(* Tasks are taken once each and in the order in which they were run.      *)
Pool == INSTANCE FunctorQueue WITH Functors <- Tasks, todo <- queue, done <- taken
ImplementsQueue == Pool!Spec

(* stop returns, whatever is queued or running; and so does the owner's    *)
(* wait for the latch, unless a task throws.                               *)
OwnerReturns == owner \in {"latch", "stop"} ~> owner = "stopped" \/ aborted
=============================================================================
