-------------------------- MODULE EventLoopThread ---------------------------
(***************************************************************************)
(* EventLoopThread (24_muduo_EventLoop_EventLoopThread): an IO thread      *)
(* whose threadFunc keeps an EventLoop on its stack, and the owner, the    *)
(* thread that calls startLoop and later destroys the EventLoopThread.     *)
(* The EventLoop itself is the one of module EventLoop; here its code runs *)
(* only between the construction and the destruction of the stack object.  *)
(*                                                                         *)
(* exiting_ is written by the destructor and read by nobody: left out.     *)
(***************************************************************************)
EXTENDS EventLoop

CONSTANTS Owner,        \* the caller that owns the EventLoopThread
          OwnerWaits    \* TRUE: the owner destroys it only once loop() runs

ASSUME EventLoopThreadAssumption == Owner \in Callers /\ OwnerWaits \in BOOLEAN

VARIABLES thread,       \* where threadFunc is
          owner,        \* where the owner is in startLoop or the destructor
          alive,        \* the EventLoop on the IO thread's stack exists
          loopSet,      \* loop_ # NULL, guarded by mutex_
          dangling      \* history: a thread used the EventLoop after its end

loopVars   == vars
threadVars == <<thread, owner, alive, loopSet, dangling>>
allVars    == <<loopVars, threadVars>>

ThreadInit ==
  /\ Init
  /\ thread = "unstarted" /\ owner = "new"
  /\ alive = FALSE /\ loopSet = FALSE /\ dangling = FALSE

-----------------------------------------------------------------------------
(* The IO thread: threadFunc *)

ConstructLoop ==
  /\ thread = "started" /\ thread' = "callback"
  /\ alive' = TRUE
  /\ UNCHANGED <<owner, loopSet, dangling, loopVars>>

(* Faulty variant: loop_ is set, but nobody is notified. *)
BadPublishLoop ==
  /\ thread = "callback" /\ thread' = "published"
  /\ loopSet' = TRUE
  /\ UNCHANGED <<owner, alive, dangling, loopVars>>

(* The init callback has returned; loop_ = &loop and notify under mutex_. *)
PublishLoop ==
  /\ thread = "callback" /\ thread' = "published"
  /\ loopSet' = TRUE
  /\ owner' = IF owner = "waiting" THEN "starting" ELSE owner
  /\ UNCHANGED <<alive, dangling, loopVars>>

EnterLoop ==
  /\ thread = "published" /\ thread' = "looping"
  /\ Loop
  /\ UNCHANGED <<owner, alive, loopSet, dangling>>

(* The user's code in the IO thread is the init callback before loop(),    *)
(* channel callbacks and functors in it.                                   *)
InLoop ==
  /\ \/ /\ thread = "looping" /\ pc # "idle"
        /\ PollReturns \/ PollTimesOut \/ LoopStep \/ UserCodeReturns \/ UserCall
     \/ thread = "callback" /\ UserCall
  /\ UNCHANGED threadVars

(* loop() has returned: threadFunc returns and destroys the EventLoop.     *)
ExitThread ==
  /\ thread = "looping" /\ thread' = "exited"
  /\ pc = "idle"
  /\ alive' = FALSE
  /\ UNCHANGED <<owner, loopSet, dangling, loopVars>>

-----------------------------------------------------------------------------
(* The owner: startLoop and the destructor *)

StartThread ==
  /\ owner = "new" /\ owner' = "starting"
  /\ thread' = "started"
  /\ UNCHANGED <<alive, loopSet, dangling, loopVars>>

(* Faulty variant: startLoop does not wait for loop_. *)
BadCheckLoop ==
  /\ owner = "starting" /\ owner' = "using"
  /\ UNCHANGED <<thread, alive, loopSet, dangling, loopVars>>

(* while (loop_ == NULL) cond_.wait(), with mutex_ held. *)
CheckLoop ==
  /\ owner = "starting"
  /\ owner' = IF loopSet THEN "using" ELSE "waiting"
  /\ UNCHANGED <<thread, alive, loopSet, dangling, loopVars>>

(* A condition variable may return from wait unnotified.                   *)
SpuriousWakeup ==
  /\ owner = "waiting" /\ owner' = "starting"
  /\ UNCHANGED <<thread, alive, loopSet, dangling, loopVars>>

(* Faulty variant: the destructor sets the loop's flag and does not wake it. *)
BadDestroy ==
  /\ owner = "using" /\ owner' = "quitting"
  /\ cpc[Owner] = "idle"
  /\ OwnerWaits => looping \/ thread = "exited"
  /\ quit' = TRUE
  /\ UNCHANGED <<looping, eventHandling, callingPendingFunctors, functorVars,
                 channelVars, wakeups, pc, cpc, quits, dangling, thread, alive,
                 loopSet>>

(* loop_->quit() of the destructor: quit_ = true, wakeup() still to come.  *)
Destroy ==
  /\ owner = "using" /\ owner' = "quitting"
  /\ cpc[Owner] = "idle"
  /\ OwnerWaits => looping \/ thread = "exited"
  /\ IF alive
        THEN /\ quit' = TRUE
             /\ cpc' = [cpc EXCEPT ![Owner] = "wakeup"]
             /\ UNCHANGED <<looping, eventHandling, callingPendingFunctors,
                            functorVars, channelVars, wakeups, pc, quits, dangling>>
        ELSE dangling' = TRUE /\ UNCHANGED loopVars
  /\ UNCHANGED <<thread, alive, loopSet>>

(* Faulty variant: the destructor does not join. *)
BadJoin ==
  /\ owner = "quitting" /\ owner' = "done"
  /\ cpc[Owner] = "idle"
  /\ UNCHANGED <<thread, alive, loopSet, dangling, loopVars>>

(* thread_.join() *)
Join ==
  /\ owner = "quitting" /\ owner' = "done"
  /\ cpc[Owner] = "idle"
  /\ thread = "exited"
  /\ UNCHANGED <<thread, alive, loopSet, dangling, loopVars>>

(* The callers that were given the pointer startLoop returned, the owner   *)
(* too, use it until the owner starts to destroy the EventLoopThread.      *)
UseLoop(t) ==
  /\ alive
  /\ Wakeup(t) \/ (owner = "using" /\ CallerStep(t))
  /\ UNCHANGED threadVars

(* The same calls when the EventLoop is gone: undefined behaviour, here a  *)
(* call without effect that leaves its mark.                               *)
UseDeadLoop(t) ==
  /\ loopSet /\ ~alive
  /\ \/ cpc[t] = "wakeup"
     \/ /\ owner = "using" /\ cpc[t] = "idle"
        /\ posted < MaxPosts \/ quits < MaxQuits
  /\ dangling' = TRUE
  /\ cpc' = [cpc EXCEPT ![t] = "idle"]
  /\ UNCHANGED <<thread, owner, alive, loopSet, flagVars, functorVars, channelVars,
                 wakeups, pc, quits>>

(* The EventLoopThread is gone, or nobody destroys it.                     *)
Finished ==
  /\ owner = "done" \/ pc = "aborted"
  /\ UNCHANGED allVars

-----------------------------------------------------------------------------
ThreadNext ==
  \/ ConstructLoop \/ PublishLoop \/ EnterLoop \/ InLoop \/ ExitThread
  \/ StartThread \/ CheckLoop \/ SpuriousWakeup \/ Destroy \/ Join
  \/ \E t \in Callers : UseLoop(t) \/ UseDeadLoop(t)
  \/ Finished

ThreadSpec == ThreadInit /\ [][ThreadNext]_allVars

(* The IO thread runs whenever it can, as in EventLoop's FairSpec; the     *)
(* owner goes on inside startLoop, quit and join, but need not call them.  *)
ThreadFairSpec ==
  /\ ThreadSpec
  /\ WF_allVars(ConstructLoop \/ PublishLoop \/ EnterLoop \/ ExitThread)
  /\ WF_allVars(InLoop /\ LoopStep)
  /\ WF_allVars(InLoop /\ UserCodeReturns)
  /\ WF_allVars(wakeups > 0 /\ InLoop /\ PollReturns)
  /\ WF_allVars(CheckLoop)
  /\ WF_allVars(Join)
  /\ \A t \in Callers :
        WF_allVars(cpc[t] = "wakeup" /\ (UseLoop(t) \/ UseDeadLoop(t)))

-----------------------------------------------------------------------------
(* startLoop hands out a loop only after the IO thread has constructed it  *)
(* and the init callback has returned: loop_ is set last, under mutex_,    *)
(* and startLoop waits for it.                                             *)
LoopReadyWhenStarted ==
  owner \in {"using", "quitting", "done"} =>
    thread \in {"published", "looping", "exited"}

(* startLoop returns: the notify in threadFunc finds the owner waiting, or *)
(* the owner finds loop_ set.                                              *)
StartLoopReturns == owner = "starting" ~> owner = "using" \/ pc = "aborted"

(* What startLoop promises: it returns, and with a loop that is ready.     *)
StartLoopContract == []LoopReadyWhenStarted /\ StartLoopReturns

(* The destructor's join ends only after the stack object is gone, and the *)
(* stack object goes only after loop() has returned.                       *)
JoinedMeansStopped ==
  owner = "done" => thread = "exited" /\ ~alive /\ ~looping

(* Destroying the EventLoopThread ends its IO thread, as the destructor's  *)
(* comment says (EventLoopThread.cc:32).                                   *)
DestructorReturns ==
  owner = "quitting" ~> owner = "done" \/ dangling \/ pc = "aborted"

(* What the destructor promises: it returns, after the loop has ended.     *)
DestructorContract == []JoinedMeansStopped /\ DestructorReturns
=============================================================================
