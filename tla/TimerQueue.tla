----------------------------- MODULE TimerQueue -----------------------------
(***************************************************************************)
(* TimerQueue (18_muduo_TimerQueue/src/TimerQueue.cc): the timers of a     *)
(* loop, ordered by expiration, behind one timerfd that is armed for the   *)
(* earliest.  Everything but addTimer runs in the loop thread; a timer     *)
(* added by another thread comes as a functor, maybe after it is due.      *)
(*                                                                         *)
(* Expirations are times of the wall clock (gettimeofday), which may be    *)
(* set; the timerfd runs on the monotonic clock.  The unit of time is the  *)
(* 100 us below which howMuchTimeFromNow does not go.  Time 0 is the       *)
(* invalid Timestamp.                                                      *)
(***************************************************************************)
EXTENDS Naturals, Sequences, Functions

CONSTANTS Timers,      \* the Timer objects that may be created
          Intervals,   \* what runEvery is asked for
          Delays,      \* what runAfter is asked to wait
          LastAdd,     \* bound: timers are added up to here, for up to here
          MaxTime,     \* bound: the end of time
          MaxJump      \* bound: how far the wall clock is set, once

ASSUME TimerQueueAssumption ==
  /\ Timers \subseteq Nat /\ Intervals \subseteq Nat
  /\ LastAdd \in Nat /\ MaxTime \in Nat /\ MaxJump \in Nat
  /\ \A d \in Delays \cup Intervals : d \in Nat /\ LastAdd + d + MaxJump <= MaxTime

VARIABLES
  wall, mono,  \* the two clocks
  jumps,       \* history: the wall clock was set so many times
  armed,       \* when the timerfd expires, 0 if it is disarmed
  fired,       \* the timerfd is readable
  ready,       \* poll has reported it: handleRead will be called
  queued,      \* functors of the loop: timers to be added
  timers,      \* timers_
  expired,     \* in handleRead: expired timers not called back yet
  called,      \* in handleRead: those that were
  at,          \* expiration_ of each timer
  interval,    \* interval_ of each timer
  handling,    \* the now of handleRead, 0 outside of it
  lastRun      \* history: handleRead's now at each timer's last callback

clocks == <<wall, mono, jumps>>
timerfd == <<armed, fired>>
vars == <<clocks, timerfd, ready, queued, timers, expired, called, at, interval, handling,
          lastRun>>

Init ==
  /\ wall = 1 /\ mono = 1 /\ jumps = 0
  /\ armed = 0 /\ fired = FALSE /\ ready = FALSE
  /\ queued = << >> /\ timers = {} /\ expired = {} /\ called = {}
  /\ at = [t \in Timers |-> 0] /\ interval = [t \in Timers |-> 0]
  /\ handling = 0 /\ lastRun = [t \in Timers |-> 0]

Later(a, b) == IF a > b THEN a ELSE b
Earliest(set, when) == CHOOSE e \in {when[t] : t \in set} :
                          \A t \in set : e <= when[t]

-----------------------------------------------------------------------------
(* Faulty variant: a time that is past gives 0, which disarms the timerfd. *)
BadHowMuchTimeFromNow(when) == IF when > wall THEN mono + (when - wall) ELSE 0

(* howMuchTimeFromNow: at least 100 us.                                    *)
HowMuchTimeFromNow(when) ==
  IF when > wall THEN mono + (when - wall) ELSE mono + 1

(* resetTimerfd: timerfd_settime also takes back an unread expiration.     *)
ResetTimerfd(when) == armed' = HowMuchTimeFromNow(when) /\ fired' = FALSE

(* Faulty variant: the timerfd is only armed for the first timer.          *)
BadEarliestChanged(when) == timers = {}

(* insert's result.                                                        *)
EarliestChanged(when) == \A t \in timers : when < at[t]

AddTimerInLoop(t, when) ==
  /\ timers' = timers \cup {t}
  /\ IF EarliestChanged(when) THEN ResetTimerfd(when) ELSE UNCHANGED timerfd

Unused == {t \in Timers : t \notin timers \cup expired \cup called \cup Range(queued)
                          /\ lastRun[t] = 0}

(* runInLoop: in the loop thread, from an event or a callback, the timer   *)
(* is added at once, else by a functor.                                    *)
RunInLoop(t, when) ==
  \/ AddTimerInLoop(t, when) /\ UNCHANGED queued
  \/ queued' = Append(queued, t) /\ UNCHANGED <<timers, timerfd>>

(* A new Timer, the next number.                                           *)
AddTimer(when, every) ==
  \E t \in Unused :
     /\ \A u \in Unused : t <= u
     /\ at' = [at EXCEPT ![t] = when]
     /\ interval' = [interval EXCEPT ![t] = every]
     /\ RunInLoop(t, when)
     /\ UNCHANGED <<clocks, ready, expired, called, handling, lastRun>>

(* addTime *)
AddTime(time, seconds) == time + seconds

(* EventLoop's functions.  The time is taken before the hop to the loop.   *)
RunAt    == mono <= LastAdd /\ \E time \in 0..LastAdd : AddTimer(time, 0)
RunAfter == mono <= LastAdd /\ \E delay \in Delays : AddTimer(AddTime(wall, delay), 0)
RunEvery == mono <= LastAdd /\ \E every \in Intervals :
                                   AddTimer(AddTime(wall, every), every)

(* After the events of an iteration, the functors.                         *)
RunFunctor ==
  /\ handling = 0 /\ ~ready /\ queued # << >>
  /\ AddTimerInLoop(Head(queued), at[Head(queued)])
  /\ queued' = Tail(queued)
  /\ UNCHANGED <<clocks, ready, expired, called, at, interval, handling, lastRun>>

-----------------------------------------------------------------------------
(* The poller reports the timerfd; other handlers may come before it.      *)
Poll ==
  /\ handling = 0 /\ fired /\ ~ready
  /\ ready' = TRUE
  /\ UNCHANGED <<clocks, timerfd, queued, timers, expired, called, at, interval,
                 handling, lastRun>>

(* getExpired: the timers due are moved out.                               *)
GetExpired(due) == expired' = due /\ timers' = timers \ due

(* readTimerfd: an error is only logged, the timerfd stays as it is.       *)
ReadTimerfd == fired' = FALSE

(* handleRead, up to the callbacks.                                        *)
HandleRead ==
  /\ handling = 0 /\ ready
  /\ ready' = FALSE /\ ReadTimerfd
  /\ handling' = wall
  /\ GetExpired({t \in timers : at[t] <= wall})
  /\ UNCHANGED <<clocks, armed, queued, called, at, interval, lastRun>>

(* The callback of the next expired timer; AddTimer may come before its    *)
(* end, or before the next one, all in the loop thread.                    *)
RunCallback ==
  /\ expired # {}
  /\ \E t \in expired :
        /\ \A u \in expired : at[t] <= at[u]
        /\ expired' = expired \ {t} /\ called' = called \cup {t}
        /\ lastRun' = [lastRun EXCEPT ![t] = handling]
  /\ UNCHANGED <<clocks, timerfd, ready, queued, timers, at, interval, handling>>

(* Faulty variant: the next expiration follows the last, not the present.  *)
BadRestart(t) == at[t] + interval[t]

(* Timer::restart *)
Restart(t) == AddTime(handling, interval[t])

Valid(time) == time > 0

(* reset: repeated timers go back, the others are deleted, and the timerfd *)
(* is armed for the earliest that is valid.                                *)
Reset ==
  /\ handling # 0 /\ expired = {}
  /\ LET repeated == {t \in called : interval[t] > 0} IN
     /\ at' = [t \in Timers |-> IF t \in repeated THEN Restart(t) ELSE at[t]]
     /\ timers' = timers \cup repeated
     /\ IF timers' # {} /\ Valid(Earliest(timers', at'))
           THEN ResetTimerfd(Earliest(timers', at')) ELSE UNCHANGED timerfd
  /\ called' = {} /\ handling' = 0
  /\ UNCHANGED <<clocks, ready, queued, expired, interval, lastRun>>

-----------------------------------------------------------------------------
(* Time passes, whatever the loop is doing, and the timerfd expires.  At   *)
(* MaxTime the clocks stand still, but the timerfd still expires.          *)
Tick ==
  /\ mono < MaxTime
  /\ mono' = mono + 1 /\ wall' = wall + 1
  /\ IF armed # 0 /\ armed <= mono'
        THEN armed' = 0 /\ fired' = TRUE ELSE UNCHANGED timerfd
  /\ UNCHANGED <<jumps, ready, queued, timers, expired, called, at, interval,
                 handling, lastRun>>

LastTick ==
  /\ mono = MaxTime /\ armed # 0
  /\ armed' = 0 /\ fired' = TRUE
  /\ UNCHANGED <<clocks, ready, queued, timers, expired, called, at, interval,
                 handling, lastRun>>

(* Somebody sets the wall clock.                                           *)
SetClock ==
  /\ jumps = 0 /\ jumps' = 1
  /\ wall' \in {w \in 1..(wall + MaxJump) : w + MaxJump >= wall}
  /\ UNCHANGED <<mono, timerfd, ready, queued, timers, expired, called, at,
                 interval, handling, lastRun>>

Done == mono = MaxTime /\ UNCHANGED vars

Next == RunAt \/ RunAfter \/ RunEvery \/ RunFunctor \/ Poll \/ HandleRead
        \/ RunCallback \/ Reset \/ Tick \/ LastTick \/ SetClock \/ Done

Spec == Init /\ [][Next]_vars

(* The loop goes on, each iteration ends with the functors, and time goes  *)
(* on.                                                                     *)
FairSpec == /\ Spec
            /\ SF_vars(RunFunctor)
            /\ WF_vars(Poll \/ HandleRead \/ RunCallback \/ Reset)
            /\ WF_vars(Tick \/ LastTick)

-----------------------------------------------------------------------------
(* Outside handleRead, a queue that is not empty will be looked at: the    *)
(* timerfd has expired or is armed, and unless the clock was set it        *)
(* expires no later than the earliest timer, or 100 us from now.           *)
ArmedForEarliest ==
  handling = 0 /\ timers # {} =>
     \/ ready \/ fired
     \/ armed # 0 /\ (jumps = 0 => armed <= Later(mono + 1, Earliest(timers, at)))

(* A timer is never called back before its time, and a repeated one never  *)
(* sooner than its interval after the last call, even when a callback took *)
(* long or the clock was set.                                              *)
NeverEarly ==
  \A t \in expired :
     /\ at[t] <= handling
     /\ lastRun[t] > 0 => lastRun[t] + interval[t] <= handling

(* Every timer is called back, even if it was due before it was added, if  *)
(* the clock was set, or if its expiration was cleared by another timer's  *)
(* before handleRead could read it.                                        *)
EveryTimerRuns ==
  \A t \in Timers : t \in timers \cup Range(queued) ~> lastRun[t] > 0
=============================================================================
