------------------------------- MODULE Thread -------------------------------
(***************************************************************************)
(* Thread and CurrentThread (08_muduo_Thread/src/Thread.cc): the life of   *)
(* the threads of a program, the thread ids they cache, and what becomes   *)
(* of both when the process forks.                                         *)
(*                                                                         *)
(* A program is a sequence of calls per thread; the modules that extend    *)
(* this one say what their calls do.  After a fork the model follows the   *)
(* parent or the child.                                                    *)
(***************************************************************************)
EXTENDS Integers, Sequences

CONSTANTS Threads, Main

VARIABLES
  calls,      \* per thread: the calls of the program it has yet to make
  life,       \* per Thread: "new", "started", "failed" (pthread_create),
              \* "running", "finished", "crashed" or "lost" (in a fork)
  tid,        \* per thread: what gettid returns, 0 before it runs
  cachedTid,  \* per thread: t_cachedTid
  lastTid,    \* the last thread id the kernel has given
  process     \* "running", "exiting" (in exit) or "aborted"

threadVars == <<calls, life, tid, cachedTid, lastTid, process>>

(* ThreadNameInitializer caches main's id before main runs.                *)
ThreadInit(program) ==
  /\ calls = program
  /\ life = [t \in Threads |-> IF t = Main THEN "running" ELSE "new"]
  /\ lastTid = 1
  /\ tid = [t \in Threads |-> IF t = Main THEN 1 ELSE 0]
  /\ cachedTid = tid
  /\ process = "running"

Call(op, on) == [op |-> op, on |-> on]

(* Thread t makes the call op on x.                                        *)
CallsNow(t, op, x) ==
  /\ process # "aborted" /\ life[t] = "running"
  /\ calls[t] # << >> /\ Head(calls[t]) = Call(op, x)

Calls(t, op, x) ==
  /\ CallsNow(t, op, x)
  /\ calls' = [calls EXCEPT ![t] = Tail(@)]

(* abort(), and LOG_FATAL, which ends in it.                               *)
Abort ==
  /\ process' = "aborted"
  /\ UNCHANGED <<life, tid, cachedTid, lastTid>>

(* start: pthread_create may fail, and nobody is told.                     *)
StartThread(t, u) ==
  /\ Calls(t, "start", u) /\ life[u] = "new"
  /\ \E result \in {"started", "failed"} : life' = [life EXCEPT ![u] = result]
  /\ UNCHANGED <<tid, cachedTid, lastTid, process>>

(* runInThread: the new thread caches its id and calls func_.              *)
RunInThread(u) ==
  /\ process # "aborted" /\ life[u] = "started"
  /\ life' = [life EXCEPT ![u] = "running"]
  /\ lastTid' = lastTid + 1
  /\ tid' = [tid EXCEPT ![u] = lastTid'] /\ cachedTid' = [cachedTid EXCEPT ![u] = lastTid']
  /\ UNCHANGED <<calls, process>>

(* func_ returns; in main it is pthread_exit.                              *)
ThreadReturns(u) ==
  /\ process # "aborted" /\ life[u] = "running" /\ calls[u] = << >>
  /\ life' = [life EXCEPT ![u] = "finished"]
  /\ UNCHANGED <<calls, tid, cachedTid, lastTid, process>>

(* func_ throws: every handler ends the process.                           *)
ThreadThrows(u) ==
  /\ Calls(u, "throw", u)
  /\ life' = [life EXCEPT ![u] = "crashed"] /\ process' = "aborted"
  /\ UNCHANGED <<tid, cachedTid, lastTid>>

(* Faulty variant: the join does not wait.                                 *)
BadJoinThread(t, u) ==
  /\ Calls(t, "join", u)
  /\ UNCHANGED <<life, tid, cachedTid, lastTid, process>>

(* join; of a thread that could not be created it is undefined: here the   *)
(* process ends or the call returns.                                       *)
JoinThread(t, u) ==
  /\ Calls(t, "join", u)
  /\ \/ /\ life[u] \in {"finished", "failed"}
        /\ UNCHANGED <<life, tid, cachedTid, lastTid, process>>
     \/ life[u] = "failed" /\ Abort

(* Faulty variant: no handler is given to pthread_atfork.                  *)
BadAfterFork(t) == UNCHANGED cachedTid

(* afterFork, in the child: the cache is reset and filled again.           *)
AfterFork(t) == cachedTid' = [cachedTid EXCEPT ![t] = tid'[t]]

(* In the child there is only the thread that called fork.                 *)
Fork(t) ==
  /\ Calls(t, "fork", t)
  /\ \/ UNCHANGED <<life, tid, cachedTid, lastTid>>
     \/ /\ lastTid' = lastTid + 1 /\ tid' = [tid EXCEPT ![t] = lastTid']
        /\ life' = [u \in Threads |->
                      IF u # t /\ life[u] \in {"started", "running"} THEN "lost" ELSE life[u]]
        /\ AfterFork(t)
  /\ UNCHANGED process

(* CurrentThread::tid()                                                    *)
CurrentTid(t) == IF cachedTid[t] = 0 THEN tid[t] ELSE cachedTid[t]

-----------------------------------------------------------------------------
(* A running thread is never taken for another one: the id it has cached   *)
(* is the kernel's, in a forked child too.  EventLoop and MutexLock        *)
(* compare these ids.                                                      *)
TidIsCurrent ==
  \A t \in Threads : life[t] = "running" => CurrentTid(t) = tid[t]
=============================================================================
