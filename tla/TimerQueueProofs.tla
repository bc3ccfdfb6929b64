-------------------------- MODULE TimerQueueProofs --------------------------
(* Theorems about TimerQueue, for every set of timers, all intervals,      *)
(* delays and settings of the clock.                                       *)
EXTENDS TimerQueue, SequenceTheorems, WellFoundedInduction, TLAPS

TypeOK ==
  /\ wall \in Nat \ {0} /\ mono \in Nat /\ jumps \in 0..1 /\ armed \in Nat
  /\ fired \in BOOLEAN /\ ready \in BOOLEAN /\ handling \in Nat
  /\ queued \in Seq(Timers)
  /\ timers \subseteq Timers /\ expired \subseteq Timers /\ called \subseteq Timers
  /\ at \in [Timers -> Nat] /\ interval \in [Timers -> Nat]
  /\ lastRun \in [Timers -> Nat]

(* handleRead has timers in hand only while it runs, and the loop polls    *)
(* only while it does not.                                                 *)
Phases ==
  /\ handling = 0 => expired = {} /\ called = {}
  /\ handling # 0 => ~ready
  /\ jumps = 0 => wall = mono

Distinct(q) == \A i, j \in 1..Len(q) : q[i] = q[j] => i = j

(* A timer is in one place.                                                *)
Apart ==
  /\ timers \cap expired = {} /\ timers \cap called = {} /\ expired \cap called = {}
  /\ Range(queued) \cap (timers \cup expired \cup called) = {}
  /\ Distinct(queued)

(* What was called back has its interval before it.                        *)
Due ==
  /\ \A t \in expired : at[t] <= handling
  /\ \A t \in called : lastRun[t] = handling
  /\ \A t \in timers \cup expired : lastRun[t] > 0 => at[t] = lastRun[t] + interval[t]
  /\ \A t \in Range(queued) : lastRun[t] = 0

(* The timerfd expires at the next moment, or by the time of every timer.  *)
Soon == fired \/ (armed # 0 /\ armed <= mono + 1)
InTime == Soon \/ (armed # 0 /\ \A t \in timers : armed <= at[t])

(* Outside handleRead the timerfd is armed for the timers.  Inside, it is  *)
(* for those of an invalid time: reset does not do it for them.            *)
Watched ==
  /\ handling = 0 /\ timers # {} /\ ~ready => /\ fired \/ armed # 0
                                              /\ jumps = 0 => InTime
  /\ handling # 0 /\ (\E t \in timers : at[t] = 0) => Soon

IInv == TypeOK /\ Phases /\ Apart /\ Due /\ Watched

-----------------------------------------------------------------------------
(* What Append and Tail do to the elements of a sequence.                  *)
LEMMA AppendRange ==
  ASSUME NEW S, NEW q \in Seq(S), NEW t \in S
  PROVE  /\ Append(q, t) \in Seq(S) /\ Range(Append(q, t)) = Range(q) \cup {t}
         /\ Distinct(q) /\ t \notin Range(q) => Distinct(Append(q, t))
<1>1. /\ Append(q, t) \in Seq(S) /\ Len(Append(q, t)) = Len(q) + 1 /\ Len(q) \in Nat
      /\ \A i \in 1..Len(q) : Append(q, t)[i] = q[i]
      /\ Append(q, t)[Len(q) + 1] = t
  BY AppendProperties, LenProperties
<1>2. DOMAIN q = 1..Len(q) /\ DOMAIN Append(q, t) = 1..Len(q) + 1
  BY <1>1, LenProperties
<1>3. 1..Len(q) + 1 = (1..Len(q)) \cup {Len(q) + 1}
  BY <1>1
<1>4. Range(Append(q, t)) = Range(q) \cup {t}
  BY <1>1, <1>2, <1>3 DEF Range
<1>5. ASSUME Distinct(q), t \notin Range(q) PROVE Distinct(Append(q, t))
  <2>1. \A i \in 1..Len(q) : q[i] # t
    BY <1>2, <1>5 DEF Range
  <2>2. ASSUME NEW i \in 1..Len(q) + 1, NEW j \in 1..Len(q) + 1,
               Append(q, t)[i] = Append(q, t)[j]
        PROVE  i = j
    BY <1>1, <1>3, <1>5, <2>1, <2>2 DEF Distinct
  <2>3. QED
    BY <1>1, <2>2 DEF Distinct
<1>6. QED
  BY <1>1, <1>4, <1>5

LEMMA TailRange ==
  ASSUME NEW S, NEW q \in Seq(S), q # << >>
  PROVE  /\ Head(q) \in S /\ Head(q) \in Range(q)
         /\ Tail(q) \in Seq(S) /\ Range(Tail(q)) \subseteq Range(q)
         /\ Distinct(q) => Distinct(Tail(q)) /\ Head(q) \notin Range(Tail(q))
<1>1. Len(q) \in Nat /\ Len(q) > 0
  BY EmptySeq, LenProperties
<1>2. /\ Tail(q) \in Seq(S) /\ Len(Tail(q)) = Len(q) - 1 /\ Head(q) = q[1] /\ Head(q) \in S
      /\ \A i \in 1..Len(q) - 1 : Tail(q)[i] = q[i + 1]
  BY <1>1, HeadTailProperties
<1>3. DOMAIN q = 1..Len(q) /\ DOMAIN Tail(q) = 1..Len(q) - 1
  BY <1>2, LenProperties
<1>4. \A i \in 1..Len(q) - 1 : i + 1 \in 1..Len(q) /\ i + 1 # 1
  BY <1>1
<1>5. Head(q) \in Range(q) /\ Range(Tail(q)) \subseteq Range(q)
  BY <1>1, <1>2, <1>3, <1>4 DEF Range
<1>6. ASSUME Distinct(q) PROVE Distinct(Tail(q)) /\ Head(q) \notin Range(Tail(q))
  <2>1. Head(q) \notin Range(Tail(q))
    BY <1>1, <1>2, <1>3, <1>4, <1>6 DEF Range, Distinct
  <2>2. ASSUME NEW i \in 1..Len(q) - 1, NEW j \in 1..Len(q) - 1, Tail(q)[i] = Tail(q)[j]
        PROVE  i = j
    <3>1. i + 1 = j + 1
      BY <1>2, <1>4, <1>6, <2>2 DEF Distinct
    <3>2. QED
      BY <1>1, <3>1
  <2>3. QED
    BY <1>2, <2>1, <2>2 DEF Distinct
<1>7. QED
  BY <1>2, <1>5, <1>6

(* There is a least among natural numbers.                                 *)
LEMMA Least ==
  ASSUME NEW T, T \subseteq Nat, T # {}
  PROVE  \E x \in T : \A y \in T : x <= y
<1>1. IsWellFoundedOn({p \in Nat \X Nat : p[1] < p[2]}, Nat)
  BY NatLessThanWellFounded, Zenon DEF OpToRel
<1>2. PICK x \in T : \A y \in T : <<y, x>> \notin {p \in Nat \X Nat : p[1] < p[2]}
  BY <1>1, WFMin, Zenon
<1>3. ASSUME NEW y \in T PROVE x <= y
  <2>1. <<y, x>> \in Nat \X Nat /\ <<y, x>>[1] = y /\ <<y, x>>[2] = x
    OBVIOUS
  <2>2. ~(y < x)
    BY <1>2, <2>1
  <2>3. QED
    BY <2>2
<1>4. QED
  BY <1>3

(* Earliest is the time of one of the timers and late for none.            *)
LEMMA EarliestIsLeast ==
  ASSUME NEW set, NEW when, set # {}, \A t \in set : when[t] \in Nat
  PROVE  /\ \E t \in set : Earliest(set, when) = when[t]
         /\ \A t \in set : Earliest(set, when) <= when[t]
<1> DEFINE Times == {when[t] : t \in set}
<1>1. \E e \in Times : \A y \in Times : e <= y
  <2>1. Times \subseteq Nat /\ Times # {}
    OBVIOUS
  <2>2. QED
    BY <2>1, Least
<1>2. \E e \in Times : \A t \in set : e <= when[t]
  BY <1>1
<1>3. Earliest(set, when) \in Times /\ \A t \in set : Earliest(set, when) <= when[t]
  BY <1>2 DEF Earliest
<1>4. QED
  BY <1>3

(* resetTimerfd arms the timerfd for the given time, or for the next       *)
(* moment.                                                                 *)
LEMMA Rearmed ==
  ASSUME TypeOK, NEW when \in Nat, ResetTimerfd(when)
  PROVE  /\ armed' \in Nat /\ armed' # 0 /\ fired' = FALSE
         /\ when <= wall => armed' = mono + 1
         /\ wall = mono => armed' = mono + 1 \/ armed' = when
<1>1. wall \in Nat /\ mono \in Nat
  BY DEF TypeOK
<1>2. QED
  BY <1>1 DEF ResetTimerfd, HowMuchTimeFromNow

-----------------------------------------------------------------------------
(* What the three ways to add a timer have in common.                      *)
Adds(t, when, every) ==
  /\ t \in Unused
  /\ at' = [at EXCEPT ![t] = when] /\ interval' = [interval EXCEPT ![t] = every]
  /\ RunInLoop(t, when)
  /\ UNCHANGED <<clocks, ready, expired, called, handling, lastRun>>

LEMMA AddsOne ==
  ASSUME TypeOK, RunAt \/ RunAfter \/ RunEvery
  PROVE  \E t \in Timers, when \in Nat, every \in Nat : Adds(t, when, every)
<1>1. /\ \A when, every : AddTimer(when, every) => \E t \in Timers : Adds(t, when, every)
  BY DEF AddTimer, Adds, Unused
<1>2. wall \in Nat /\ LastAdd \in Nat /\ \A d \in Delays \cup Intervals : d \in Nat
  BY TimerQueueAssumption DEF TypeOK
<1>3. CASE RunAt
  BY <1>1, <1>2, <1>3 DEF RunAt
<1>4. CASE RunAfter
  <2>1. PICK d \in Delays : AddTimer(AddTime(wall, d), 0)
    BY <1>4 DEF RunAfter
  <2>2. AddTime(wall, d) \in Nat
    BY <1>2 DEF AddTime
  <2>3. QED
    BY <1>1, <2>1, <2>2
<1>5. CASE RunEvery
  <2>1. PICK d \in Intervals : AddTimer(AddTime(wall, d), d)
    BY <1>5 DEF RunEvery
  <2>2. AddTime(wall, d) \in Nat /\ d \in Nat
    BY <1>2 DEF AddTime
  <2>3. QED
    BY <1>1, <2>1, <2>2
<1>6. QED
  BY <1>3, <1>4, <1>5

(* A timer that was never used is nowhere, and an addition moves it to     *)
(* timers_ or behind the functors that wait.                               *)
LEMMA Added ==
  ASSUME TypeOK, Apart, NEW t \in Timers, NEW when \in Nat, NEW every \in Nat,
         Adds(t, when, every)
  PROVE  /\ t \notin timers \cup expired \cup called \cup Range(queued) /\ lastRun[t] = 0
         /\ queued' \in Seq(Timers) /\ Distinct(queued')
         /\ \/ timers' = timers \cup {t} /\ queued' = queued
            \/ timers' = timers /\ Range(queued') = Range(queued) \cup {t}
         /\ at' \in [Timers -> Nat] /\ at'[t] = when
         /\ \A u \in Timers \ {t} : at'[u] = at[u] /\ interval'[u] = interval[u]
         /\ interval' \in [Timers -> Nat]
<1>1. t \notin timers \cup expired \cup called \cup Range(queued) /\ lastRun[t] = 0
  BY DEF Adds, Unused
<1>2. /\ at' \in [Timers -> Nat] /\ at'[t] = when
      /\ \A u \in Timers \ {t} : at'[u] = at[u] /\ interval'[u] = interval[u]
      /\ interval' \in [Timers -> Nat]
  BY DEF Adds, TypeOK
<1>3. CASE AddTimerInLoop(t, when) /\ UNCHANGED queued
  BY <1>1, <1>2, <1>3 DEF AddTimerInLoop, TypeOK, Apart
<1>4. CASE queued' = Append(queued, t) /\ UNCHANGED timers
  BY <1>1, <1>2, <1>4, AppendRange DEF TypeOK, Apart
<1>5. QED
  BY <1>3, <1>4 DEF Adds, RunInLoop

(* The first functor moves its timer to timers_.                           *)
LEMMA Moved ==
  ASSUME TypeOK, Apart, RunFunctor
  PROVE  /\ Head(queued) \in Timers /\ Head(queued) \in Range(queued)
         /\ timers' = timers \cup {Head(queued)}
         /\ queued' \in Seq(Timers) /\ Range(queued') \subseteq Range(queued)
         /\ Distinct(queued') /\ Head(queued) \notin Range(queued')
         /\ UNCHANGED <<clocks, ready, expired, called, at, interval, handling, lastRun>>
<1>1. queued # << >> /\ queued' = Tail(queued) /\ queued \in Seq(Timers) /\ Distinct(queued)
  BY DEF RunFunctor, TypeOK, Apart
<1>2. QED
  BY <1>1, TailRange DEF RunFunctor, AddTimerInLoop

(* The timers that reset puts back.                                        *)
Repeated == {t \in called : interval[t] > 0}

(* What reset does to the timers.                                          *)
LEMMA ResetEffect ==
  ASSUME TypeOK, Phases, Reset
  PROVE  /\ handling # 0 /\ handling' = 0 /\ expired = {} /\ called' = {}
         /\ Repeated \subseteq called /\ Repeated \subseteq Timers
         /\ timers' = timers \cup Repeated
         /\ at' \in [Timers -> Nat]
         /\ \A t \in Repeated : at'[t] = handling + interval[t] /\ at'[t] # 0
         /\ \A t \in Timers \ Repeated : at'[t] = at[t]
         /\ IF timers' # {} /\ Valid(Earliest(timers', at'))
               THEN ResetTimerfd(Earliest(timers', at')) ELSE UNCHANGED timerfd
         /\ UNCHANGED <<clocks, ready, queued, expired, interval, lastRun>>
<1>1. /\ handling # 0 /\ handling' = 0 /\ expired = {} /\ called' = {}
      /\ timers' = timers \cup Repeated
      /\ at' = [t \in Timers |-> IF t \in Repeated THEN Restart(t) ELSE at[t]]
      /\ IF timers' # {} /\ Valid(Earliest(timers', at'))
            THEN ResetTimerfd(Earliest(timers', at')) ELSE UNCHANGED timerfd
      /\ UNCHANGED <<clocks, ready, queued, expired, interval, lastRun>>
  BY Zenon DEF Reset, Repeated
<1>2. Repeated \subseteq called /\ Repeated \subseteq Timers
  BY DEF Repeated, TypeOK
<1>3. \A t \in Repeated : Restart(t) = handling + interval[t] /\ Restart(t) \in Nat \ {0}
  <2>1. ASSUME NEW t \in Repeated
        PROVE  handling \in Nat /\ interval[t] \in Nat /\ interval[t] > 0
    BY <1>2 DEF TypeOK, Repeated
  <2>2. QED
    BY <2>1 DEF Restart, AddTime
<1>4. at' \in [Timers -> Nat]
  BY <1>1, <1>3 DEF TypeOK
<1>5. /\ \A t \in Repeated : at'[t] = handling + interval[t] /\ at'[t] # 0
      /\ \A t \in Timers \ Repeated : at'[t] = at[t]
  BY <1>1, <1>2, <1>3
<1>6. QED
  BY <1>1, <1>2, <1>4, <1>5, Zenon

-----------------------------------------------------------------------------
(* The state the queue is constructed in.                                  *)
LEMMA InitCorrect == Init => IInv
<1> SUFFICES ASSUME Init PROVE IInv
  OBVIOUS
<1>1. TypeOK
  <2>1. queued \in Seq(Timers)
    BY DEF Init
  <2>2. /\ at \in [Timers -> Nat] /\ interval \in [Timers -> Nat]
        /\ lastRun \in [Timers -> Nat]
    BY DEF Init
  <2>3. /\ wall \in Nat \ {0} /\ mono \in Nat /\ jumps \in 0..1 /\ armed \in Nat
        /\ handling \in Nat
    BY SMT DEF Init
  <2>4. /\ fired \in BOOLEAN /\ ready \in BOOLEAN
        /\ timers \subseteq Timers /\ expired \subseteq Timers /\ called \subseteq Timers
    BY Zenon DEF Init
  <2>5. QED
    BY <2>1, <2>2, <2>3, <2>4, Zenon DEF TypeOK
<1>2. Phases /\ Apart /\ Due /\ Watched
  BY DEF Init, Phases, Apart, Distinct, Range, Due, Watched
<1>3. QED
  BY <1>1, <1>2 DEF IInv

(* The time of the earliest is a time.                                     *)
LEMMA EarliestIsTime ==
  ASSUME NEW set \in SUBSET Timers, NEW when \in [Timers -> Nat], set # {}
  PROVE  Earliest(set, when) \in Nat
<1>1. \A t \in set : when[t] \in Nat
  OBVIOUS
<1>2. QED
  BY <1>1, EarliestIsLeast

(* No step gives a variable a value outside its type.                      *)
LEMMA TypeStep ==
  ASSUME IInv, [Next]_vars PROVE TypeOK'
<1>1. TypeOK /\ Phases /\ Apart
  BY DEF IInv
<1>2. ASSUME NEW t, NEW when \in Nat, AddTimerInLoop(t, when)
      PROVE  armed' \in Nat /\ fired' \in BOOLEAN
  <2>1. ResetTimerfd(when) \/ (armed' = armed /\ fired' = fired)
    BY <1>2, Zenon DEF AddTimerInLoop, timerfd
  <2>2. QED
    BY <1>1, <2>1, Rearmed DEF TypeOK
<1>3. CASE RunAt \/ RunAfter \/ RunEvery
  <2>1. PICK t \in Timers, when \in Nat, every \in Nat : Adds(t, when, every)
    BY <1>1, <1>3, AddsOne
  <2>2. armed' \in Nat /\ fired' \in BOOLEAN
    <3>1. AddTimerInLoop(t, when) \/ (armed' = armed /\ fired' = fired)
      BY <2>1, Zenon DEF Adds, RunInLoop, timerfd
    <3>2. QED
      BY <1>1, <1>2, <3>1 DEF TypeOK
  <2>3. /\ queued' \in Seq(Timers) /\ timers' \subseteq Timers
        /\ at' \in [Timers -> Nat] /\ interval' \in [Timers -> Nat]
    <3>1. /\ queued' \in Seq(Timers)
          /\ timers' = timers \cup {t} \/ timers' = timers
          /\ at' \in [Timers -> Nat] /\ interval' \in [Timers -> Nat]
      BY <1>1, <2>1, Added, Zenon
    <3>2. timers \subseteq Timers
      BY <1>1 DEF TypeOK
    <3>3. QED
      BY <3>1, <3>2
  <2>4. QED
    BY <1>1, <2>1, <2>2, <2>3 DEF Adds, TypeOK, clocks
<1>4. CASE RunFunctor
  <2>1. /\ Head(queued) \in Timers /\ timers' = timers \cup {Head(queued)}
        /\ queued' \in Seq(Timers)
        /\ UNCHANGED <<clocks, ready, expired, called, at, interval, handling, lastRun>>
    BY <1>1, <1>4, Moved
  <2>2. at[Head(queued)] \in Nat
    BY <1>1, <2>1 DEF TypeOK
  <2>3. armed' \in Nat /\ fired' \in BOOLEAN
    BY <1>2, <1>4, <2>2 DEF RunFunctor
  <2>4. QED
    BY <1>1, <2>1, <2>3 DEF TypeOK, clocks
<1>5. CASE Poll
  BY <1>1, <1>5 DEF Poll, TypeOK, clocks, timerfd
<1>6. CASE HandleRead
  BY <1>1, <1>6 DEF HandleRead, ReadTimerfd, GetExpired, TypeOK, clocks
<1>7. CASE RunCallback
  BY <1>1, <1>7 DEF RunCallback, TypeOK, clocks, timerfd
<1>8. CASE Reset
  <2>1. armed' \in Nat /\ fired' \in BOOLEAN
    <3>1. CASE timers' # {} /\ Valid(Earliest(timers', at'))
      <4>1. Earliest(timers', at') \in Nat
        BY <1>1, <1>8, <3>1, ResetEffect, EarliestIsTime DEF TypeOK
      <4>2. ResetTimerfd(Earliest(timers', at'))
        BY <1>1, <1>8, <3>1, ResetEffect
      <4>3. QED
        BY <1>1, <4>1, <4>2, Rearmed
    <3>2. CASE ~(timers' # {} /\ Valid(Earliest(timers', at')))
      BY <1>1, <1>8, <3>2, ResetEffect DEF TypeOK, timerfd
    <3>3. QED
      BY <3>1, <3>2
  <2>2. QED
    BY <1>1, <1>8, <2>1, ResetEffect DEF TypeOK, clocks
<1>9. CASE Tick
  <2>1. wall' \in Nat \ {0} /\ mono' \in Nat
    BY <1>1, <1>9 DEF Tick, TypeOK
  <2>2. armed' \in Nat /\ fired' \in BOOLEAN
    <3>1. (armed' = 0 /\ fired' = TRUE) \/ (armed' = armed /\ fired' = fired)
      BY <1>9, Zenon DEF Tick, timerfd
    <3>2. armed \in Nat /\ fired \in BOOLEAN /\ 0 \in Nat
      BY <1>1 DEF TypeOK
    <3>3. QED
      BY <3>1, <3>2, Zenon
  <2>3. QED
    BY <1>1, <1>9, <2>1, <2>2 DEF Tick, TypeOK
<1>10. CASE LastTick
  BY <1>1, <1>10 DEF LastTick, TypeOK, clocks
<1>11. CASE SetClock
  BY <1>1, <1>11 DEF SetClock, TypeOK, timerfd
<1>12. CASE UNCHANGED vars
  BY <1>1, <1>12 DEF vars, clocks, timerfd, TypeOK
<1>13. QED
  BY <1>3, <1>4, <1>5, <1>6, <1>7, <1>8, <1>9, <1>10, <1>11, <1>12 DEF Next, Done

(* handleRead is between a poll and the reset.                             *)
LEMMA PhasesStep ==
  ASSUME IInv, [Next]_vars PROVE Phases'
<1>1. TypeOK /\ Phases
  BY DEF IInv
<1>2. CASE RunAt \/ RunAfter \/ RunEvery
  BY <1>1, <1>2, AddsOne DEF Adds, Phases, clocks
<1>3. CASE RunFunctor
  BY <1>1, <1>3 DEF RunFunctor, Phases, clocks
<1>4. CASE Poll
  BY <1>1, <1>4 DEF Poll, Phases, clocks
<1>5. CASE HandleRead
  BY <1>1, <1>5 DEF HandleRead, Phases, TypeOK, clocks
<1>6. CASE RunCallback
  BY <1>1, <1>6 DEF RunCallback, Phases, clocks
<1>7. CASE Reset
  BY <1>1, <1>7, ResetEffect DEF Phases, clocks
<1>8. CASE Tick
  BY <1>1, <1>8 DEF Tick, Phases
<1>9. CASE LastTick
  BY <1>1, <1>9 DEF LastTick, Phases, clocks
<1>10. CASE SetClock
  BY <1>1, <1>10 DEF SetClock, Phases
<1>11. CASE UNCHANGED vars
  BY <1>1, <1>11 DEF vars, clocks, Phases
<1>12. QED
  BY <1>2, <1>3, <1>4, <1>5, <1>6, <1>7, <1>8, <1>9, <1>10, <1>11 DEF Next, Done

(* A timer moves from one place to the next.                               *)
LEMMA ApartStep ==
  ASSUME IInv, [Next]_vars PROVE Apart'
<1>1. TypeOK /\ Phases /\ Apart
  BY DEF IInv
<1>2. CASE RunAt \/ RunAfter \/ RunEvery
  <2>1. PICK t \in Timers, when \in Nat, every \in Nat : Adds(t, when, every)
    BY <1>1, <1>2, AddsOne
  <2>2. /\ t \notin timers \cup expired \cup called \cup Range(queued)
        /\ Distinct(queued')
        /\ \/ timers' = timers \cup {t} /\ queued' = queued
           \/ timers' = timers /\ Range(queued') = Range(queued) \cup {t}
        /\ UNCHANGED <<expired, called>>
    BY <1>1, <2>1, Added DEF Adds
  <2>3. QED
    BY <1>1, <2>2 DEF Apart
<1>3. CASE RunFunctor
  <2>1. /\ Head(queued) \in Range(queued) /\ timers' = timers \cup {Head(queued)}
        /\ Range(queued') \subseteq Range(queued) /\ Distinct(queued')
        /\ Head(queued) \notin Range(queued') /\ UNCHANGED <<expired, called>>
    BY <1>1, <1>3, Moved
  <2>2. QED
    BY <1>1, <2>1 DEF Apart
<1>4. CASE HandleRead
  <2>1. expired = {} /\ called = {}
    BY <1>1, <1>4 DEF HandleRead, Phases
  <2>2. /\ expired' \subseteq timers /\ timers' = timers \ expired'
        /\ UNCHANGED <<called, queued>>
    BY <1>4 DEF HandleRead, GetExpired
  <2>3. QED
    BY <1>1, <2>1, <2>2 DEF Apart
<1>5. CASE RunCallback
  <2>1. PICK t \in expired : expired' = expired \ {t} /\ called' = called \cup {t}
    BY <1>5 DEF RunCallback
  <2>2. UNCHANGED <<timers, queued>>
    BY <1>5 DEF RunCallback
  <2>3. QED
    BY <1>1, <2>1, <2>2 DEF Apart
<1>6. CASE Reset
  <2>1. /\ expired' = {} /\ called' = {} /\ timers' = timers \cup Repeated
        /\ Repeated \subseteq called /\ UNCHANGED queued
    BY <1>1, <1>6, ResetEffect
  <2>2. QED
    BY <1>1, <2>1 DEF Apart
<1>7. CASE Poll \/ Tick \/ LastTick \/ SetClock \/ UNCHANGED vars
  BY <1>1, <1>7 DEF Poll, Tick, LastTick, SetClock, vars, Apart
<1>8. QED
  BY <1>2, <1>3, <1>4, <1>5, <1>6, <1>7 DEF Next, Done

-----------------------------------------------------------------------------
(* A timer is due when it is called back, and not again before its         *)
(* interval is over.                                                       *)
LEMMA DueStep ==
  ASSUME IInv, [Next]_vars PROVE Due'
<1>1. TypeOK /\ Phases /\ Apart /\ Due
  BY DEF IInv
<1>2. CASE RunAt \/ RunAfter \/ RunEvery
  <2>1. PICK t \in Timers, when \in Nat, every \in Nat : Adds(t, when, every)
    BY <1>1, <1>2, AddsOne
  <2>2. /\ t \notin timers \cup expired \cup called \cup Range(queued) /\ lastRun[t] = 0
        /\ timers' \subseteq timers \cup {t} /\ Range(queued') \subseteq Range(queued) \cup {t}
        /\ \A u \in Timers \ {t} : at'[u] = at[u] /\ interval'[u] = interval[u]
        /\ UNCHANGED <<expired, called, handling, lastRun>>
    BY <1>1, <2>1, Added DEF Adds
  <2>3. \A u \in timers \cup expired : u # t /\ at'[u] = at[u] /\ interval'[u] = interval[u]
    BY <1>1, <2>2 DEF TypeOK
  <2>4. \A u \in timers' \cup expired' : u \in timers \cup expired \/ u = t
    BY <2>2
  <2>5. QED
    BY <1>1, <2>2, <2>3, <2>4 DEF Due
<1>3. CASE RunFunctor
  <2>1. /\ Head(queued) \in Range(queued) /\ timers' = timers \cup {Head(queued)}
        /\ Range(queued') \subseteq Range(queued)
        /\ UNCHANGED <<expired, called, at, interval, handling, lastRun>>
    BY <1>1, <1>3, Moved
  <2>2. QED
    BY <1>1, <2>1 DEF Due, TypeOK
<1>4. CASE HandleRead
  <2>1. called = {} /\ handling' = wall
    BY <1>1, <1>4 DEF HandleRead, Phases
  <2>2. /\ expired' \subseteq timers /\ timers' \subseteq timers
        /\ \A t \in expired' : at[t] <= wall
        /\ UNCHANGED <<called, queued, at, interval, lastRun>>
    BY <1>4 DEF HandleRead, GetExpired
  <2>3. QED
    BY <1>1, <2>1, <2>2 DEF Due
<1>5. CASE RunCallback
  <2>1. PICK t \in expired : /\ expired' = expired \ {t} /\ called' = called \cup {t}
                             /\ lastRun' = [lastRun EXCEPT ![t] = handling]
    BY <1>5 DEF RunCallback
  <2>2. UNCHANGED <<timers, queued, at, interval, handling>> /\ t \in Timers
    BY <1>1, <1>5 DEF RunCallback, TypeOK
  <2>3. /\ lastRun'[t] = handling /\ \A u \in Timers \ {t} : lastRun'[u] = lastRun[u]
        /\ Range(queued) \subseteq Timers
    BY <1>1, <2>1, <2>2 DEF TypeOK, Range
  <2>4. t \notin timers \cup expired' \cup Range(queued)
    BY <1>1, <2>1 DEF Apart
  <2>5. QED
    BY <1>1, <2>1, <2>2, <2>3, <2>4 DEF Due, TypeOK
<1>6. CASE Reset
  <2>1. /\ expired' = {} /\ called' = {} /\ timers' = timers \cup Repeated
        /\ Repeated \subseteq called /\ UNCHANGED <<queued, interval, lastRun>>
        /\ \A t \in Repeated : at'[t] = handling + interval[t]
        /\ \A t \in Timers \ Repeated : at'[t] = at[t]
    BY <1>1, <1>6, ResetEffect
  <2>2. \A t \in timers : t \notin Repeated /\ t \in Timers
    BY <1>1, <2>1 DEF Apart, TypeOK
  <2>3. QED
    BY <1>1, <2>1, <2>2 DEF Due
<1>7. CASE Poll \/ Tick \/ LastTick \/ SetClock \/ UNCHANGED vars
  BY <1>1, <1>7 DEF Poll, Tick, LastTick, SetClock, vars, Due
<1>8. QED
  BY <1>2, <1>3, <1>4, <1>5, <1>6, <1>7 DEF Next, Done

-----------------------------------------------------------------------------
(* A timer that is added re-arms the timerfd or is not the earliest.       *)
LEMMA AddKeepsWatch ==
  ASSUME IInv, NEW t \in Timers, NEW when \in Nat, AddTimerInLoop(t, when),
         at'[t] = when, \A u \in timers : at'[u] = at[u],
         UNCHANGED <<wall, mono, jumps, ready, handling>>
  PROVE  Watched'
<1>1. /\ TypeOK /\ Phases /\ Watched /\ timers' = timers \cup {t}
      /\ wall \in Nat \ {0} /\ mono \in Nat /\ armed \in Nat
      /\ \A u \in timers : at[u] \in Nat
  BY DEF IInv, AddTimerInLoop, TypeOK
<1>2. CASE EarliestChanged(when)
  <2>1. /\ armed' \in Nat /\ armed' # 0
        /\ when <= wall => armed' = mono + 1
        /\ wall = mono => armed' = mono + 1 \/ armed' = when
    BY <1>1, <1>2, Rearmed DEF AddTimerInLoop
  <2>2. \A u \in timers' : when <= at'[u] /\ (at'[u] = 0 => when = 0)
    BY <1>1, <1>2 DEF EarliestChanged
  <2>3. jumps = 0 => InTime'
    BY <1>1, <2>1, <2>2 DEF Phases, InTime, Soon
  <2>4. ASSUME NEW u \in timers', at'[u] = 0 PROVE Soon'
    BY <1>1, <2>1, <2>2, <2>4 DEF Soon
  <2>5. QED
    BY <2>1, <2>3, <2>4 DEF Watched
<1>3. CASE ~EarliestChanged(when)
  <2>1. PICK u \in timers : at[u] <= when
    BY <1>1, <1>3 DEF EarliestChanged
  <2>2. UNCHANGED <<armed, fired>>
    BY <1>3, Zenon DEF AddTimerInLoop, timerfd
  <2>3. ASSUME \A v \in timers : armed <= at[v] PROVE \A v \in timers' : armed <= at'[v]
    BY <1>1, <2>1, <2>3
  <2>4. InTime => InTime'
    BY <2>2, <2>3 DEF InTime, Soon
  <2>5. (\E v \in timers' : at'[v] = 0) => \E v \in timers : at[v] = 0
    BY <1>1, <2>1
  <2>6. Soon => Soon'
    BY <2>2 DEF Soon
  <2>7. QED
    BY <1>1, <2>1, <2>2, <2>4, <2>5, <2>6 DEF Watched
<1>4. QED
  BY <1>2, <1>3

(* reset arms the timerfd for the earliest of its timers; one of an        *)
(* invalid time was added since, and has armed it.                         *)
LEMMA ResetKeepsWatch ==
  ASSUME IInv, Reset PROVE Watched'
<1>1. /\ handling # 0 /\ handling' = 0 /\ timers' = timers \cup Repeated
      /\ at' \in [Timers -> Nat] /\ timers' \subseteq Timers
      /\ \A t \in Repeated : at'[t] # 0
      /\ \A t \in Timers \ Repeated : at'[t] = at[t]
      /\ IF timers' # {} /\ Valid(Earliest(timers', at'))
            THEN ResetTimerfd(Earliest(timers', at')) ELSE UNCHANGED timerfd
      /\ wall' = wall /\ mono' = mono /\ jumps' = jumps
      /\ TypeOK /\ Phases /\ Watched
  BY ResetEffect DEF IInv, TypeOK, clocks
<1>2. SUFFICES ASSUME timers' # {}
               PROVE  /\ fired' \/ armed' # 0
                      /\ jumps' = 0 => InTime'
  BY <1>1 DEF Watched
<1>3. /\ Earliest(timers', at') \in Nat
      /\ \E t \in timers' : Earliest(timers', at') = at'[t]
      /\ \A t \in timers' : Earliest(timers', at') <= at'[t]
  <2>1. \A t \in timers' : at'[t] \in Nat
    BY <1>1
  <2>2. QED
    BY <1>1, <1>2, <2>1, EarliestIsTime, EarliestIsLeast
<1>4. CASE Valid(Earliest(timers', at'))
  <2>1. /\ armed' \in Nat /\ armed' # 0
        /\ wall = mono => armed' = mono + 1 \/ armed' = Earliest(timers', at')
    BY <1>1, <1>2, <1>3, <1>4, Rearmed
  <2>2. mono + 1 <= mono + 1
    BY <1>1 DEF TypeOK
  <2>3. jumps' = 0 => InTime'
    BY <1>1, <1>3, <2>1, <2>2 DEF Phases, InTime, Soon
  <2>4. QED
    BY <2>1, <2>3
<1>5. CASE ~Valid(Earliest(timers', at'))
  <2>1. UNCHANGED <<armed, fired>>
    BY <1>1, <1>5, Zenon DEF timerfd
  <2>2. Earliest(timers', at') = 0
    BY <1>3, <1>5 DEF Valid
  <2>3. \E t \in timers : at[t] = 0
    BY <1>1, <1>3, <2>2
  <2>4. Soon
    BY <1>1, <2>3 DEF Watched
  <2>5. QED
    BY <1>1, <2>1, <2>4 DEF Soon, InTime
<1>6. QED
  BY <1>4, <1>5

(* The timerfd stays armed in time.                                        *)
LEMMA WatchedStep ==
  ASSUME IInv, [Next]_vars PROVE Watched'
<1>1. /\ TypeOK /\ Phases /\ Apart /\ Watched
      /\ mono \in Nat /\ armed \in Nat /\ wall \in Nat \ {0}
  BY DEF IInv, TypeOK
<1>2. CASE RunAt \/ RunAfter \/ RunEvery
  <2>1. PICK t \in Timers, when \in Nat, every \in Nat : Adds(t, when, every)
    BY <1>1, <1>2, AddsOne
  <2>2. /\ t \notin timers /\ at'[t] = when /\ \A u \in timers : at'[u] = at[u]
        /\ UNCHANGED <<wall, mono, jumps, ready, handling>>
    BY <1>1, <2>1, Added DEF Adds, TypeOK, clocks
  <2>3. CASE AddTimerInLoop(t, when)
    BY <2>2, <2>3, AddKeepsWatch
  <2>4. CASE UNCHANGED <<timers, timerfd>>
    BY <1>1, <2>2, <2>4 DEF Watched, Soon, InTime, timerfd
  <2>5. QED
    BY <2>1, <2>3, <2>4 DEF Adds, RunInLoop
<1>3. CASE RunFunctor
  <2>1. Head(queued) \in Timers /\ UNCHANGED <<wall, mono, jumps, ready, at, handling>>
    BY <1>1, <1>3, Moved DEF clocks
  <2>2. at[Head(queued)] \in Nat
    BY <1>1, <2>1 DEF TypeOK
  <2>3. QED
    BY <1>3, <2>1, <2>2, AddKeepsWatch DEF RunFunctor
<1>4. CASE Poll
  BY <1>1, <1>4 DEF Poll, Watched, Soon, InTime, clocks, timerfd
<1>5. CASE HandleRead
  <2>1. handling' # 0 /\ at' = at /\ timers' = {t \in timers : ~(at[t] <= wall)}
    BY <1>1, <1>5 DEF HandleRead, GetExpired
  <2>2. \A t \in timers' : at'[t] # 0
    BY <1>1, <2>1
  <2>3. QED
    BY <2>1, <2>2 DEF Watched
<1>6. CASE RunCallback
  BY <1>1, <1>6 DEF RunCallback, Watched, Soon, InTime, clocks, timerfd
<1>7. CASE Reset
  BY <1>7, ResetKeepsWatch
<1>8. CASE Tick
  <2>1. /\ mono' = mono + 1 /\ UNCHANGED <<jumps, ready, timers, at, handling>>
    BY <1>8 DEF Tick
  <2>2. CASE armed # 0 /\ armed <= mono'
    BY <1>8, <2>2 DEF Tick, Watched, Soon, InTime
  <2>3. CASE ~(armed # 0 /\ armed <= mono')
    <3>1. UNCHANGED <<armed, fired>>
      BY <1>8, <2>3, Zenon DEF Tick, timerfd
    <3>2. Soon => Soon'
      BY <1>1, <2>1, <3>1 DEF Soon
    <3>3. InTime => InTime'
      BY <2>1, <3>1, <3>2 DEF InTime
    <3>4. QED
      BY <1>1, <2>1, <3>1, <3>2, <3>3 DEF Watched
  <2>4. QED
    BY <2>2, <2>3
<1>9. CASE LastTick
  BY <1>9 DEF LastTick, Watched, Soon, InTime
<1>10. CASE SetClock
  BY <1>1, <1>10 DEF SetClock, Watched, Soon, InTime, timerfd
<1>11. CASE UNCHANGED vars
  BY <1>1, <1>11 DEF vars, clocks, timerfd, Watched, Soon, InTime
<1>12. QED
  BY <1>2, <1>3, <1>4, <1>5, <1>6, <1>7, <1>8, <1>9, <1>10, <1>11 DEF Next, Done

-----------------------------------------------------------------------------
(* The invariant holds in every reachable state.                           *)
THEOREM Invariant == Spec => []IInv
<1>1. IInv /\ [Next]_vars => IInv'
  BY TypeStep, PhasesStep, ApartStep, DueStep, WatchedStep DEF IInv
<1>2. QED
  BY InitCorrect, <1>1, PTL DEF Spec

(* A timer is never called back before its time, and a repeated one never  *)
(* sooner than its interval after the call before, whatever a callback     *)
(* does or how long it takes, and wherever the clock is set.               *)
THEOREM CallbacksInTime == Spec => []NeverEarly
<1>1. IInv => NeverEarly
  BY DEF IInv, Due, NeverEarly
<1>2. QED
  BY Invariant, <1>1, PTL

(* While a timer is in the queue and handleRead does not run, the timerfd  *)
(* has expired or will, by the time of the earliest if the clock was never *)
(* set.                                                                    *)
THEOREM NoTimerForgotten == Spec => []ArmedForEarliest
<1>1. IInv => ArmedForEarliest
  <2> SUFFICES ASSUME IInv, handling = 0, timers # {}, ~ready, ~fired
               PROVE  /\ armed # 0
                      /\ jumps = 0 => armed <= Later(mono + 1, Earliest(timers, at))
    BY DEF ArmedForEarliest
  <2>1. armed # 0 /\ (jumps = 0 => armed <= mono + 1 \/ \A t \in timers : armed <= at[t])
    BY DEF IInv, Watched, InTime, Soon
  <2>2. \A t \in timers : at[t] \in Nat
    BY DEF IInv, TypeOK
  <2>3. \E t \in timers : Earliest(timers, at) = at[t] /\ at[t] \in Nat
    BY <2>2, EarliestIsLeast
  <2>4. armed \in Nat /\ mono \in Nat
    BY DEF IInv, TypeOK
  <2>5. QED
    BY <2>1, <2>3, <2>4 DEF Later
<1>2. QED
  BY Invariant, <1>1, PTL
=============================================================================
