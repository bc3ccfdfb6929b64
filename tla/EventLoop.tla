----------------------------- MODULE EventLoop -----------------------------
(***************************************************************************)
(* muduo's EventLoop (24_muduo_EventLoop_EventLoopThread): one loop thread *)
(* that polls, handles the active channels and runs the pending functors,  *)
(* and other threads that call queueInLoop (or runInLoop, which for them   *)
(* is the same) and quit.                                                  *)
(*                                                                         *)
(* The critical sections under mutex_ are one step each; everything a      *)
(* thread does outside the lock is a step of its own: another thread may   *)
(* run between push_back and wakeup(), and between quit_ = true and        *)
(* wakeup().  User code, the channel callbacks and the functors, may call  *)
(* back into the loop as often as it likes.                                *)
(***************************************************************************)
EXTENDS Naturals, Sequences

CONSTANTS Callers,       \* the threads other than the loop thread
          Channels,      \* the channels user code registers
          WakeupChannel, \* wakeupChannel_, on the eventfd
          NoChannel,     \* the NULL of currentActiveChannel_
          PostContexts,  \* where the loop thread's own code calls queueInLoop
          MaxPosts,      \* bound: functors posted in a behaviour
          MaxQuits       \* bound: calls of quit in a behaviour

(* User code runs in the loop thread outside loop(), in a channel's        *)
(* callback and in a functor.                                              *)
UserContexts == {"idle", "callback", "functor"}

ASSUME EventLoopAssumption ==
  /\ WakeupChannel \notin Channels
  /\ NoChannel \notin Channels \cup {WakeupChannel}
  /\ PostContexts \subseteq UserContexts
  /\ MaxPosts \in Nat
  /\ MaxQuits \in Nat

VARIABLES
  looping, quit, eventHandling, callingPendingFunctors,
  wakeups,               \* the counter of the eventfd wakeupFd_
  pendingFunctors,       \* guarded by mutex_
  functors,              \* doPendingFunctors' local vector, what is left of it
  registered,            \* the channels in the poller, beside wakeupChannel_
  activeChannels,        \* what the last poll returned
  undispatched,          \* those of them the for loop has not reached
  currentActiveChannel,
  pc,                    \* where the loop thread is
  cpc,                   \* where each caller is
  posted, executed,      \* history: functors are numbered as they are posted
  quits                  \* history: calls of quit so far

flagVars    == <<looping, quit, eventHandling, callingPendingFunctors>>
functorVars == <<pendingFunctors, functors, posted, executed>>
channelVars == <<registered, activeChannels, undispatched, currentActiveChannel>>
vars == <<flagVars, functorVars, channelVars, wakeups, pc, cpc, quits>>

Init ==
  /\ looping = FALSE /\ quit = FALSE
  /\ eventHandling = FALSE /\ callingPendingFunctors = FALSE
  /\ wakeups = 0
  /\ pendingFunctors = << >> /\ functors = << >>
  /\ registered = {} /\ activeChannels = {} /\ undispatched = {}
  /\ currentActiveChannel = NoChannel
  /\ pc = "idle"
  /\ cpc = [t \in Callers |-> "idle"]
  /\ posted = 0 /\ executed = << >> /\ quits = 0

GoTo(from, to) == pc = from /\ pc' = to

-----------------------------------------------------------------------------
(* loop() *)

Loop ==
  /\ GoTo("idle", "check")
  /\ looping' = TRUE /\ quit' = FALSE
  /\ UNCHANGED <<eventHandling, callingPendingFunctors, functorVars, channelVars,
                 wakeups, cpc, quits>>

KeepLooping ==
  /\ GoTo("check", "poll")
  /\ ~quit
  /\ activeChannels' = {}
  /\ UNCHANGED <<flagVars, functorVars, registered, undispatched,
                 currentActiveChannel, wakeups, cpc, quits>>

StopLooping ==
  /\ GoTo("check", "idle")
  /\ quit
  /\ looping' = FALSE
  /\ UNCHANGED <<quit, eventHandling, callingPendingFunctors, functorVars,
                 channelVars, wakeups, cpc, quits>>

(* The poll is level triggered: while the eventfd's counter is not zero it *)
(* reports wakeupChannel_; of the other channels it reports those whose    *)
(* descriptors happen to be ready.                                         *)
PollResult(active) ==
  /\ GoTo("poll", "handle")
  /\ WakeupChannel \in active <=> wakeups > 0
  /\ activeChannels' = active /\ undispatched' = active
  /\ eventHandling' = TRUE
  /\ UNCHANGED <<looping, quit, callingPendingFunctors, functorVars, registered,
                 currentActiveChannel, wakeups, cpc, quits>>

PollReturns ==
  \E active \in SUBSET (registered \cup {WakeupChannel}) :
     active # {} /\ PollResult(active)

(* kPollTimeMs elapsed. *)
PollTimesOut == PollResult({})

(* wakeupChannel_'s handleEvent: handleRead reads the counter back to 0. *)
HandleWakeup ==
  /\ pc = "handle" /\ pc' = pc
  /\ WakeupChannel \in undispatched
  /\ undispatched' = undispatched \ {WakeupChannel}
  /\ currentActiveChannel' = WakeupChannel
  /\ wakeups' = 0
  /\ UNCHANGED <<flagVars, functorVars, registered, activeChannels, cpc, quits>>

HandleEvent(ch) ==
  /\ GoTo("handle", "callback")
  /\ ch \in undispatched \ {WakeupChannel}
  /\ undispatched' = undispatched \ {ch}
  /\ currentActiveChannel' = ch
  /\ UNCHANGED <<flagVars, functorVars, registered, activeChannels, wakeups, cpc,
                 quits>>

CallbackReturns ==
  /\ GoTo("callback", "handle")
  /\ UNCHANGED <<flagVars, functorVars, channelVars, wakeups, cpc, quits>>

(* The end of the for loop and the entry of doPendingFunctors. *)
EndHandling ==
  /\ GoTo("handle", "swap")
  /\ undispatched = {}
  /\ currentActiveChannel' = NoChannel
  /\ eventHandling' = FALSE
  /\ callingPendingFunctors' = TRUE
  /\ UNCHANGED <<looping, quit, functorVars, registered, activeChannels,
                 undispatched, wakeups, cpc, quits>>

-----------------------------------------------------------------------------
(* doPendingFunctors() *)

(* Faulty variant: the pending functors are copied, not swapped. *)
BadSwapFunctors ==
  /\ GoTo("swap", "run")
  /\ functors' = pendingFunctors
  /\ UNCHANGED <<flagVars, pendingFunctors, posted, executed, channelVars, wakeups,
                 cpc, quits>>

SwapFunctors ==
  /\ GoTo("swap", "run")
  /\ functors' = pendingFunctors
  /\ pendingFunctors' = << >>
  /\ UNCHANGED <<flagVars, posted, executed, channelVars, wakeups, cpc, quits>>

(* Faulty variant: the batch is run from its end. *)
BadRunFunctor ==
  /\ GoTo("run", "functor")
  /\ functors # << >>
  /\ executed' = Append(executed, functors[Len(functors)])
  /\ functors' = SubSeq(functors, 1, Len(functors) - 1)
  /\ UNCHANGED <<flagVars, pendingFunctors, posted, channelVars, wakeups, cpc,
                 quits>>

RunFunctor ==
  /\ GoTo("run", "functor")
  /\ functors # << >>
  /\ executed' = Append(executed, Head(functors))
  /\ functors' = Tail(functors)
  /\ UNCHANGED <<flagVars, pendingFunctors, posted, channelVars, wakeups, cpc,
                 quits>>

FunctorReturns ==
  /\ GoTo("functor", "run")
  /\ UNCHANGED <<flagVars, functorVars, channelVars, wakeups, cpc, quits>>

EndFunctors ==
  /\ GoTo("run", "check")
  /\ functors = << >>
  /\ callingPendingFunctors' = FALSE
  /\ UNCHANGED <<looping, quit, eventHandling, functorVars, channelVars, wakeups,
                 cpc, quits>>

-----------------------------------------------------------------------------
(* What user code in the loop thread calls. *)

PushBack ==
  /\ posted < MaxPosts
  /\ posted' = posted + 1
  /\ pendingFunctors' = Append(pendingFunctors, posted + 1)
  /\ UNCHANGED <<functors, executed>>

(* Faulty variant: the loop thread never wakes itself up. *)
BadQueueInLoopHere ==
  /\ pc \in PostContexts
  /\ PushBack
  /\ UNCHANGED <<flagVars, channelVars, wakeups, pc, cpc, quits>>

(* queueInLoop called in the loop thread: push_back, then wakeup() only if *)
(* the functors are being run.  Nobody but the loop thread reads the       *)
(* eventfd, so the two are one step.                                       *)
QueueInLoopHere ==
  /\ pc \in PostContexts /\ pc' = pc
  /\ PushBack
  /\ wakeups' = IF callingPendingFunctors THEN wakeups + 1 ELSE wakeups
  /\ UNCHANGED <<flagVars, channelVars, cpc, quits>>

QuitHere ==
  /\ pc \in UserContexts /\ pc' = pc
  /\ quits < MaxQuits
  /\ quits' = quits + 1
  /\ quit' = TRUE
  /\ UNCHANGED <<looping, eventHandling, callingPendingFunctors, functorVars,
                 channelVars, wakeups, cpc>>

UpdateChannel(ch) ==
  /\ pc \in UserContexts /\ pc' = pc
  /\ registered' = registered \cup {ch}
  /\ UNCHANGED <<flagVars, functorVars, activeChannels, undispatched,
                 currentActiveChannel, wakeups, cpc, quits>>

(* Faulty variant: the assertion is made in the wrong phase of the loop. *)
BadMayRemove(ch) ==
  callingPendingFunctors => ch = currentActiveChannel \/ ch \notin activeChannels

MayRemove(ch) ==
  eventHandling => ch = currentActiveChannel \/ ch \notin activeChannels

(* A failed assertion aborts the process, all of its threads. *)
RemoveChannel(ch) ==
  /\ pc \in UserContexts
  /\ ch \in registered
  /\ IF MayRemove(ch)
        THEN registered' = registered \ {ch} /\ pc' = pc
        ELSE pc' = "aborted" /\ registered' = registered
  /\ UNCHANGED <<flagVars, functorVars, activeChannels, undispatched,
                 currentActiveChannel, wakeups, cpc, quits>>

-----------------------------------------------------------------------------
(* What the other threads call. *)

(* Faulty variants: push_back and quit_ = true that wake nobody. *)
BadQueueInLoop(t) ==
  /\ pc # "aborted"
  /\ cpc[t] = "idle"
  /\ PushBack
  /\ UNCHANGED <<flagVars, channelVars, wakeups, pc, cpc, quits>>

BadQuit(t) ==
  /\ pc # "aborted"
  /\ cpc[t] = "idle"
  /\ quits < MaxQuits
  /\ quits' = quits + 1
  /\ quit' = TRUE
  /\ UNCHANGED <<looping, eventHandling, callingPendingFunctors, functorVars,
                 channelVars, wakeups, pc, cpc>>

QueueInLoop(t) ==
  /\ pc # "aborted"
  /\ cpc[t] = "idle"
  /\ PushBack
  /\ cpc' = [cpc EXCEPT ![t] = "wakeup"]
  /\ UNCHANGED <<flagVars, channelVars, wakeups, pc, quits>>

Quit(t) ==
  /\ pc # "aborted"
  /\ cpc[t] = "idle"
  /\ quits < MaxQuits
  /\ quits' = quits + 1
  /\ quit' = TRUE
  /\ cpc' = [cpc EXCEPT ![t] = "wakeup"]
  /\ UNCHANGED <<looping, eventHandling, callingPendingFunctors, functorVars,
                 channelVars, wakeups, pc>>

Wakeup(t) ==
  /\ pc # "aborted"
  /\ cpc[t] = "wakeup"
  /\ wakeups' = wakeups + 1
  /\ cpc' = [cpc EXCEPT ![t] = "idle"]
  /\ UNCHANGED <<flagVars, functorVars, channelVars, pc, quits>>

Aborted == pc = "aborted" /\ UNCHANGED vars

-----------------------------------------------------------------------------
(* The loop thread's steps between two pieces of user code. *)
LoopStep ==
  \/ KeepLooping \/ StopLooping
  \/ HandleWakeup \/ (\E ch \in Channels : HandleEvent(ch)) \/ EndHandling
  \/ SwapFunctors \/ RunFunctor \/ EndFunctors

UserCodeReturns == CallbackReturns \/ FunctorReturns

UserCall ==
  \/ QueueInLoopHere \/ QuitHere
  \/ \E ch \in Channels : UpdateChannel(ch) \/ RemoveChannel(ch)

CallerStep(t) == QueueInLoop(t) \/ Quit(t) \/ Wakeup(t)

Next ==
  \/ Loop \/ PollReturns \/ PollTimesOut
  \/ LoopStep \/ UserCodeReturns \/ UserCall
  \/ \E t \in Callers : CallerStep(t)
  \/ Aborted

Spec == Init /\ [][Next]_vars

(***************************************************************************)
(* Fairness: a thread that is running code of EventLoop goes on, callbacks *)
(* and functors return, and poll returns when the eventfd is readable.     *)
(* Nothing is assumed of the poll's timeout or of the other descriptors:   *)
(* what is live below does not wait for kPollTimeMs.                       *)
(***************************************************************************)
FairSpec ==
  /\ Spec
  /\ WF_vars(LoopStep)
  /\ WF_vars(UserCodeReturns)
  /\ WF_vars(wakeups > 0 /\ PollReturns)
  /\ \A t \in Callers : WF_vars(Wakeup(t))

-----------------------------------------------------------------------------
LoopPcs == {"idle", "check", "poll", "handle", "callback", "swap", "run",
            "functor", "aborted"}

(* The types of the variables. *)
TypeOK ==
  /\ looping \in BOOLEAN /\ quit \in BOOLEAN
  /\ eventHandling \in BOOLEAN /\ callingPendingFunctors \in BOOLEAN
  /\ wakeups \in Nat
  /\ pendingFunctors \in Seq(Nat) /\ functors \in Seq(Nat)
  /\ registered \subseteq Channels
  /\ activeChannels \subseteq Channels \cup {WakeupChannel}
  /\ undispatched \subseteq Channels \cup {WakeupChannel}
  /\ currentActiveChannel \in Channels \cup {WakeupChannel, NoChannel}
  /\ pc \in LoopPcs
  /\ cpc \in [Callers -> {"idle", "wakeup"}]
  /\ posted \in Nat /\ executed \in Seq(Nat) /\ quits \in Nat

(* Somebody has written the eventfd, or is on the way to do so. *)
WakeupOwed == wakeups > 0 \/ \E t \in Callers : cpc[t] = "wakeup"

(* The loop never sleeps in poll on a functor it should run or on a quit   *)
(* it should obey: whatever the order of push_back, quit_ = true, the swap *)
(* of doPendingFunctors and the read of the eventfd, the eventfd is        *)
(* readable or a caller is about to make it so (queueInLoop's and quit's   *)
(* rules on when to call wakeup).                                          *)
NoLostWakeup ==
  pc = "poll" /\ (pendingFunctors # << >> \/ quit) => WakeupOwed

(* Every functor posted is in exactly one place, run, in the batch being   *)
(* run or pending, and the three are in the order of posting: the swap in  *)
(* doPendingFunctors neither loses, repeats nor reorders functors that are *)
(* pushed while a batch is run.                                            *)
NoFunctorLost ==
  executed \o functors \o pendingFunctors = [i \in 1..posted |-> i]

(* handleEvent is never called on a channel that was removed after the     *)
(* poll that reported it: what removeChannel's assertion is for.           *)
OnlyRegisteredDispatched ==
  pc # "aborted" => undispatched \ {WakeupChannel} \subseteq registered

(* A posted functor is run, unless the loop is stopped or never started,   *)
(* and without waiting for the poll to time out.                           *)
EveryFunctorRuns ==
  \A f \in 1..MaxPosts :
     posted >= f ~> Len(executed) >= f \/ pc \in {"idle", "aborted"}

(* A quit that is called while the loop runs stops it. *)
QuitStopsLoop == looping /\ quit ~> pc \in {"idle", "aborted"}

(***************************************************************************)
(* The inductive strengthening.  What the loop thread's flags say of where *)
(* it is decides whether queueInLoop calls wakeup, whether removeChannel's *)
(* assertion is evaluated, and that a batch is over when the next is taken.*)
(***************************************************************************)
PhaseInv ==
  pc # "aborted" =>
    /\ eventHandling <=> pc \in {"handle", "callback"}
    /\ callingPendingFunctors <=> pc \in {"swap", "run", "functor"}
    /\ functors # << >> => pc \in {"run", "functor"}

DispatchInv ==
  pc # "aborted" =>
    /\ undispatched \subseteq activeChannels
    /\ undispatched # {} => pc \in {"handle", "callback"}
    /\ pc = "callback" => currentActiveChannel \notin undispatched
    /\ OnlyRegisteredDispatched

(* Between two polls the functors pushed before the swap need no wakeup;   *)
(* at every other point a pending functor is owed one.                     *)
WakeupInv ==
  /\ pendingFunctors # << >> =>
        WakeupOwed \/ pc \in {"handle", "callback", "swap", "aborted"}
  /\ pc = "poll" /\ quit => WakeupOwed

(* The loop implements the abstract queue of functors. *)
Queue == INSTANCE FunctorQueue WITH
           Functors <- 1..MaxPosts, todo <- functors \o pendingFunctors,
           done <- executed
ImplementsQueue == Queue!Spec
=============================================================================
