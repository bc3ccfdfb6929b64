-------------------------- MODULE EventLoopProofs ---------------------------
(* Theorems about EventLoop, and about the loop that EventLoopThread keeps *)
(* on its stack, for every set of callers and channels and every bound on  *)
(* the posts and the quits.                                                *)
EXTENDS EventLoopThread, SequenceTheorems, TLAPS

(* The variables have their types when the loop has been constructed.      *)
LEMMA TypeInit == Init => TypeOK
<1> SUFFICES ASSUME Init PROVE TypeOK
  OBVIOUS
<1>1. << >> \in Seq(Nat) /\ 0 \in Nat
  OBVIOUS
<1>2. cpc \in [Callers -> {"idle", "wakeup"}]
  BY DEF Init
<1>3. QED
  BY <1>1, <1>2, Zenon DEF Init, TypeOK, LoopPcs

(* No step of the loop thread or of a caller takes a variable out of its   *)
(* type.                                                                   *)
LEMMA TypeStep ==
  ASSUME TypeOK, [Next]_vars
  PROVE  TypeOK'
<1> USE DEF TypeOK, LoopPcs, GoTo, flagVars, functorVars, channelVars
<1>1. CASE Loop
  BY <1>1 DEF Loop
<1>2. CASE PollReturns \/ PollTimesOut
  <2>1. PICK active \in SUBSET (registered \cup {WakeupChannel}) :
           PollResult(active)
    BY <1>2 DEF PollReturns, PollTimesOut
  <2>2. QED
    BY <2>1 DEF PollResult
<1>3. CASE LoopStep
  <2>1. CASE KeepLooping \/ StopLooping
    BY <2>1 DEF KeepLooping, StopLooping
  <2>2. CASE HandleWakeup
    BY <2>2 DEF HandleWakeup
  <2>3. CASE \E ch \in Channels : HandleEvent(ch)
    BY <2>3 DEF HandleEvent
  <2>4. CASE EndHandling
    BY <2>4 DEF EndHandling
  <2>5. CASE SwapFunctors
    BY <2>5 DEF SwapFunctors
  <2>6. CASE RunFunctor
    BY <2>6 DEF RunFunctor
  <2>7. CASE EndFunctors
    BY <2>7 DEF EndFunctors
  <2>8. QED
    BY <1>3, <2>1, <2>2, <2>3, <2>4, <2>5, <2>6, <2>7 DEF LoopStep
<1>4. CASE UserCodeReturns
  BY <1>4 DEF UserCodeReturns, CallbackReturns, FunctorReturns
<1>5. CASE UserCall
  <2>1. CASE QueueInLoopHere
    BY <2>1 DEF QueueInLoopHere, PushBack
  <2>2. CASE QuitHere
    BY <2>2 DEF QuitHere
  <2>3. CASE \E ch \in Channels : UpdateChannel(ch)
    BY <2>3 DEF UpdateChannel
  <2>4. CASE \E ch \in Channels : RemoveChannel(ch)
    BY <2>4 DEF RemoveChannel
  <2>5. QED
    BY <1>5, <2>1, <2>2, <2>3, <2>4 DEF UserCall
<1>6. CASE \E t \in Callers : CallerStep(t)
  <2>1. CASE \E t \in Callers : QueueInLoop(t)
    BY <2>1 DEF QueueInLoop, PushBack
  <2>2. CASE \E t \in Callers : Quit(t)
    BY <2>2 DEF Quit
  <2>3. CASE \E t \in Callers : Wakeup(t)
    BY <2>3 DEF Wakeup
  <2>4. QED
    BY <1>6, <2>1, <2>2, <2>3 DEF CallerStep
<1>7. CASE UNCHANGED vars
  BY <1>7 DEF vars
<1>8. QED
  BY <1>1, <1>2, <1>3, <1>4, <1>5, <1>6, <1>7 DEF Next, Aborted

(* Every variable has its type in every reachable state of the loop. *)
THEOREM TypeCorrect == Spec => []TypeOK
<1>1. TypeOK /\ [Next]_vars => TypeOK'
  BY TypeStep
<1>2. QED
  BY <1>1, TypeInit, PTL DEF Spec

-----------------------------------------------------------------------------
(* The flags of the loop always tell where the loop thread is: what        *)
(* queueInLoop and removeChannel decide with them, they decide rightly.    *)
LEMMA PhaseStep ==
  ASSUME TypeOK, PhaseInv, [Next]_vars
  PROVE  PhaseInv'
<1> USE DEF PhaseInv, GoTo, flagVars, functorVars, channelVars, UserContexts
<1>1. CASE Loop
  BY <1>1 DEF Loop
<1>2. CASE PollReturns \/ PollTimesOut
  <2>1. PICK active : PollResult(active)
    BY <1>2 DEF PollReturns, PollTimesOut
  <2>2. QED
    BY <2>1 DEF PollResult
<1>3. CASE LoopStep
  <2>1. CASE KeepLooping \/ StopLooping
    BY <2>1 DEF KeepLooping, StopLooping
  <2>2. CASE HandleWakeup
    BY <2>2 DEF HandleWakeup
  <2>3. CASE \E ch \in Channels : HandleEvent(ch)
    BY <2>3 DEF HandleEvent
  <2>4. CASE EndHandling
    BY <2>4 DEF EndHandling
  <2>5. CASE SwapFunctors
    BY <2>5 DEF SwapFunctors
  <2>6. CASE RunFunctor
    BY <2>6 DEF RunFunctor
  <2>7. CASE EndFunctors
    BY <2>7 DEF EndFunctors
  <2>8. QED
    BY <1>3, <2>1, <2>2, <2>3, <2>4, <2>5, <2>6, <2>7 DEF LoopStep
<1>4. CASE UserCodeReturns
  BY <1>4 DEF UserCodeReturns, CallbackReturns, FunctorReturns
<1>5. CASE UserCall
  BY <1>5 DEF UserCall, QueueInLoopHere, PushBack, QuitHere, UpdateChannel,
              RemoveChannel
<1>6. CASE \E t \in Callers : CallerStep(t)
  BY <1>6 DEF CallerStep, QueueInLoop, PushBack, Quit, Wakeup
<1>7. CASE UNCHANGED vars
  BY <1>7 DEF vars
<1>8. QED
  BY <1>1, <1>2, <1>3, <1>4, <1>5, <1>6, <1>7 DEF Next, Aborted

(* The channels still to be dispatched stay registered: the assertion in   *)
(* removeChannel only lets the current channel go, which is not one of     *)
(* them, or one that the poll did not report.                              *)
LEMMA DispatchStep ==
  ASSUME TypeOK, PhaseInv, DispatchInv, [Next]_vars
  PROVE  DispatchInv'
<1> USE DEF DispatchInv, OnlyRegisteredDispatched, GoTo, flagVars, channelVars,
            UserContexts
<1>1. CASE Loop
  BY <1>1 DEF Loop
<1>2. CASE PollReturns \/ PollTimesOut
  <2>1. PICK active \in SUBSET (registered \cup {WakeupChannel}) :
           PollResult(active)
    BY <1>2 DEF PollReturns, PollTimesOut
  <2>2. QED
    BY <2>1 DEF PollResult
<1>3. CASE LoopStep
  <2>1. CASE KeepLooping \/ StopLooping
    BY <2>1 DEF KeepLooping, StopLooping
  <2>2. CASE HandleWakeup
    BY <2>2 DEF HandleWakeup
  <2>3. CASE \E ch \in Channels : HandleEvent(ch)
    BY <2>3 DEF HandleEvent
  <2>4. CASE EndHandling
    BY <2>4 DEF EndHandling
  <2>5. CASE SwapFunctors
    BY <2>5 DEF SwapFunctors
  <2>6. CASE RunFunctor
    BY <2>6 DEF RunFunctor
  <2>7. CASE EndFunctors
    BY <2>7 DEF EndFunctors
  <2>8. QED
    BY <1>3, <2>1, <2>2, <2>3, <2>4, <2>5, <2>6, <2>7 DEF LoopStep
<1>4. CASE UserCodeReturns
  BY <1>4 DEF UserCodeReturns, CallbackReturns, FunctorReturns
<1>5. CASE UserCall
  <2>1. CASE QueueInLoopHere \/ QuitHere
    BY <2>1 DEF QueueInLoopHere, QuitHere
  <2>2. CASE \E ch \in Channels : UpdateChannel(ch)
    BY <2>2 DEF UpdateChannel
  <2>3. ASSUME NEW ch \in Channels, RemoveChannel(ch) PROVE DispatchInv'
    <3>1. CASE ~MayRemove(ch)
      BY <2>3, <3>1 DEF RemoveChannel
    <3>2. CASE MayRemove(ch)
      <4>1. ch \notin undispatched
        BY <2>3, <3>2 DEF MayRemove, RemoveChannel, PhaseInv
      <4>2. QED
        BY <2>3, <3>2, <4>1 DEF RemoveChannel
    <3>3. QED
      BY <3>1, <3>2
  <2>4. QED
    BY <1>5, <2>1, <2>2, <2>3 DEF UserCall
<1>6. CASE \E t \in Callers : CallerStep(t)
  BY <1>6 DEF CallerStep, QueueInLoop, Quit, Wakeup
<1>7. CASE UNCHANGED vars
  BY <1>7 DEF vars
<1>8. QED
  BY <1>1, <1>2, <1>3, <1>4, <1>5, <1>6, <1>7 DEF Next, Aborted

(* Both invariants hold in every reachable state.                         *)
LEMMA PhaseCorrect == Spec => [](PhaseInv /\ DispatchInv)
<1>1. Init => PhaseInv /\ DispatchInv
  BY DEF Init, PhaseInv, DispatchInv, OnlyRegisteredDispatched
<1>2. TypeOK /\ PhaseInv /\ DispatchInv /\ [Next]_vars
      => (PhaseInv /\ DispatchInv)'
  BY PhaseStep, DispatchStep
<1>3. QED
  BY <1>1, <1>2, TypeCorrect, PTL DEF Spec

(* No removed channel is ever dispatched.                                  *)
THEOREM DispatchCorrect == Spec => []OnlyRegisteredDispatched
<1>1. DispatchInv => OnlyRegisteredDispatched
  BY DEF DispatchInv, OnlyRegisteredDispatched
<1>2. QED
  BY <1>1, PhaseCorrect, PTL

-----------------------------------------------------------------------------
(* A wakeup that is owed stays owed until the loop thread reads the        *)
(* eventfd: a caller on the way to wakeup() arrives there, and nobody but  *)
(* handleRead takes a written eventfd back.                                *)
LEMMA OwedStays ==
  ASSUME TypeOK, [Next]_vars, WakeupOwed, ~HandleWakeup
  PROVE  WakeupOwed'
<1> USE DEF TypeOK, WakeupOwed, flagVars, functorVars, channelVars
<1>1. CASE Loop
  BY <1>1 DEF Loop
<1>2. CASE PollReturns \/ PollTimesOut
  BY <1>2 DEF PollReturns, PollTimesOut, PollResult
<1>3. CASE LoopStep
  BY <1>3 DEF LoopStep, KeepLooping, StopLooping, HandleEvent, EndHandling,
              SwapFunctors, RunFunctor, EndFunctors
<1>4. CASE UserCodeReturns
  BY <1>4 DEF UserCodeReturns, CallbackReturns, FunctorReturns
<1>5. CASE UserCall
  BY <1>5 DEF UserCall, QueueInLoopHere, QuitHere, UpdateChannel, RemoveChannel
<1>6. ASSUME NEW t \in Callers, CallerStep(t) PROVE WakeupOwed'
  <2>1. CASE QueueInLoop(t) \/ Quit(t)
    BY <2>1 DEF QueueInLoop, Quit
  <2>2. CASE Wakeup(t)
    BY <2>2 DEF Wakeup
  <2>3. QED
    BY <1>6, <2>1, <2>2 DEF CallerStep
<1>7. CASE UNCHANGED vars
  BY <1>7 DEF vars
<1>8. QED
  BY <1>1, <1>2, <1>3, <1>4, <1>5, <1>6, <1>7 DEF Next, Aborted

(* The wakeup rule of queueInLoop and quit keeps WakeupInv, when the loop  *)
(* thread itself posts nothing before it calls loop().                     *)
LEMMA WakeupStep ==
  ASSUME "idle" \notin PostContexts,
         TypeOK, PhaseInv, WakeupInv, [Next]_vars
  PROVE  WakeupInv'
<1> USE DEF TypeOK, WakeupInv, GoTo, flagVars, functorVars, channelVars
<1>1. CASE WakeupOwed /\ ~HandleWakeup
  <2>1. WakeupOwed'
    BY <1>1, OwedStays
  <2>2. QED
    BY <2>1
<1>2. CASE HandleWakeup
  BY <1>2 DEF HandleWakeup
<1>3. CASE ~WakeupOwed /\ ~HandleWakeup
  <2>1. CASE Loop
    BY <1>3, <2>1 DEF Loop
  <2>2. CASE PollReturns \/ PollTimesOut
    BY <1>3, <2>2 DEF PollReturns, PollTimesOut, PollResult
  <2>3. CASE LoopStep
    BY <1>3, <2>3 DEF LoopStep, KeepLooping, StopLooping, HandleEvent, EndHandling,
              SwapFunctors, RunFunctor, EndFunctors
  <2>4. CASE UserCodeReturns
    BY <1>3, <2>4 DEF UserCodeReturns, CallbackReturns, FunctorReturns
  <2>5. CASE UserCall
    <3>1. CASE QueueInLoopHere
      <4>1. pc \in {"callback", "functor"}
        BY <3>1, EventLoopAssumption DEF QueueInLoopHere, UserContexts
      <4>2. CASE pc = "callback"
        BY <3>1, <4>2 DEF QueueInLoopHere
      <4>3. CASE pc = "functor"
        <5>1. wakeups' = wakeups + 1
          BY <3>1, <4>3 DEF QueueInLoopHere, PhaseInv
        <5>2. QED
          BY <5>1 DEF WakeupOwed
      <4>4. QED
        BY <4>1, <4>2, <4>3
    <3>2. CASE QuitHere
      BY <1>3, <3>2 DEF QuitHere, UserContexts
    <3>3. CASE \E ch \in Channels : UpdateChannel(ch) \/ RemoveChannel(ch)
      BY <1>3, <3>3 DEF UpdateChannel, RemoveChannel, UserContexts
    <3>4. QED
      BY <2>5, <3>1, <3>2, <3>3 DEF UserCall
  <2>6. ASSUME NEW t \in Callers, CallerStep(t) PROVE WakeupInv'
    <3>1. CASE QueueInLoop(t) \/ Quit(t)
      <4>1. cpc'[t] = "wakeup"
        BY <3>1 DEF QueueInLoop, Quit
      <4>2. QED
        BY <4>1 DEF WakeupOwed
    <3>2. CASE Wakeup(t)
      BY <1>3, <3>2 DEF Wakeup, WakeupOwed
    <3>3. QED
      BY <2>6, <3>1, <3>2 DEF CallerStep
  <2>7. CASE UNCHANGED vars
    BY <1>3, <2>7 DEF vars, WakeupOwed
  <2>8. QED
    BY <2>1, <2>2, <2>3, <2>4, <2>5, <2>6, <2>7 DEF Next, Aborted
<1>4. QED
  BY <1>1, <1>2, <1>3

(* The loop never sleeps on a pending functor or a quit with no wakeup on  *)
(* its way, for any number of threads, functors and quits.                 *)
THEOREM WakeupCorrect ==
  ASSUME "idle" \notin PostContexts
  PROVE  Spec => []NoLostWakeup
<1>1. Init => WakeupInv
  BY DEF Init, WakeupInv
<1>2. TypeOK /\ PhaseInv /\ WakeupInv /\ [Next]_vars => WakeupInv'
  BY WakeupStep
<1>3. WakeupInv => NoLostWakeup
  BY DEF WakeupInv, NoLostWakeup
<1>4. QED
  BY <1>1, <1>2, <1>3, TypeCorrect, PhaseCorrect, PTL DEF Spec

-----------------------------------------------------------------------------
(* Moving the oldest element of s from one sequence to the end of another  *)
(* does not change their concatenation.                                    *)
LEMMA MoveHead ==
  ASSUME NEW d \in Seq(Nat), NEW s \in Seq(Nat), NEW p \in Seq(Nat), s # << >>
  PROVE  /\ Append(d, Head(s)) \o Tail(s) \o p = d \o s \o p
         /\ Head(s \o p) = Head(s)
         /\ Tail(s \o p) = Tail(s) \o p
         /\ s \o p # << >>
<1>1. Len(s) > 0
  BY EmptySeq
<1>2. Tail(s) \in Seq(Nat) /\ Head(s) \in Nat /\ s = <<Head(s)>> \o Tail(s)
  BY SMT
<1>3. Append(d, Head(s)) = d \o <<Head(s)>>
  BY <1>2, AppendIsConcat
<1>4. (d \o <<Head(s)>>) \o Tail(s) = d \o s
  BY <1>2, ConcatAssociative, SMTT(30)
<1>5. s \o p = <<Head(s)>> \o (Tail(s) \o p)
  BY <1>2, ConcatAssociative
<1>6. Append(d, Head(s)) \o Tail(s) \o p = d \o s \o p
  BY <1>3, <1>4, Zenon
<1>7. Tail(s) \o p \in Seq(Nat)
  BY <1>2, ConcatProperties
<1>8. s \o p # << >> /\ Head(s \o p) = Head(s) /\ Tail(s \o p) = Tail(s) \o p
  <2> DEFINE h == Head(s)
             rest == Tail(s) \o p
  <2>1. h \in Nat /\ rest \in Seq(Nat)
    BY <1>2, <1>7
  <2> HIDE DEF h, rest
  <2>2. <<h>> \o rest # << >> /\ Head(<<h>> \o rest) = h /\ Tail(<<h>> \o rest) = rest
    BY <2>1, SMTT(30)
  <2>3. QED
    BY <1>5, <2>2, Zenon DEF h, rest
<1>9. QED
  BY <1>6, <1>8

(* The steps that touch the functors: everything else leaves them alone.   *)
LEMMA FunctorSteps ==
  ASSUME [Next]_vars
  PROVE  UNCHANGED functorVars \/ PushBack \/ SwapFunctors \/ RunFunctor
<1> USE DEF functorVars
<1>1. CASE Loop
  BY <1>1 DEF Loop
<1>2. CASE PollReturns \/ PollTimesOut
  BY <1>2 DEF PollReturns, PollTimesOut, PollResult
<1>3. CASE LoopStep
  BY <1>3 DEF LoopStep, KeepLooping, StopLooping, HandleWakeup, HandleEvent,
              EndHandling, EndFunctors
<1>4. CASE UserCodeReturns
  BY <1>4 DEF UserCodeReturns, CallbackReturns, FunctorReturns
<1>5. CASE UserCall
  BY <1>5 DEF UserCall, QueueInLoopHere, QuitHere, UpdateChannel, RemoveChannel
<1>6. CASE \E t \in Callers : CallerStep(t)
  BY <1>6 DEF CallerStep, QueueInLoop, Quit, Wakeup
<1>7. CASE UNCHANGED vars
  BY <1>7 DEF vars
<1>8. QED
  BY <1>1, <1>2, <1>3, <1>4, <1>5, <1>6, <1>7 DEF Next, Aborted

(* The batch is empty when doPendingFunctors takes the next one. *)
LEMMA SwapFromEmpty ==
  ASSUME PhaseInv, SwapFunctors
  PROVE  functors = << >>
BY DEF PhaseInv, SwapFunctors, GoTo

(* No step loses, repeats or reorders a functor.                          *)
LEMMA OrderStep ==
  ASSUME TypeOK, PhaseInv, NoFunctorLost, [Next]_vars
  PROVE  NoFunctorLost'
<1> DEFINE all == executed \o functors \o pendingFunctors
<1>1. executed \in Seq(Nat) /\ functors \in Seq(Nat) /\ pendingFunctors \in Seq(Nat)
      /\ posted \in Nat
  BY DEF TypeOK
<1>2. CASE UNCHANGED functorVars
  BY <1>2 DEF functorVars, NoFunctorLost
<1>3. CASE PushBack
  <2>1. executed \o functors \in Seq(Nat)
    BY <1>1, ConcatProperties
  <2>2. all' = (executed \o functors) \o (pendingFunctors \o <<posted + 1>>)
    <3>1. Append(pendingFunctors, posted + 1) = pendingFunctors \o <<posted + 1>>
      BY <1>1, AppendIsConcat
    <3>2. QED
      BY <1>3, <3>1, Zenon DEF PushBack
  <2>3. all' = all \o <<posted + 1>>
    BY <1>1, <2>1, <2>2, ConcatAssociative
  <2>4. all = [i \in 1..posted |-> i]
    BY DEF NoFunctorLost
  <2>5. [i \in 1..posted |-> i] \o <<posted + 1>> = [i \in 1..(posted + 1) |-> i]
    BY <1>1
  <2>6. QED
    BY <1>3, <2>3, <2>4, <2>5 DEF NoFunctorLost, PushBack
<1>4. CASE SwapFunctors
  <2>1. functors = << >> /\ functors' = pendingFunctors /\ pendingFunctors' = << >>
        /\ UNCHANGED <<executed, posted>>
    BY <1>4, SwapFromEmpty DEF SwapFunctors
  <2>2. all' = executed \o pendingFunctors
    BY <1>1, <2>1, ConcatProperties, ConcatEmptySeq
  <2>3. all = executed \o pendingFunctors
    BY <1>1, <2>1, ConcatEmptySeq
  <2>4. QED
    BY <2>1, <2>2, <2>3 DEF NoFunctorLost
<1>5. CASE RunFunctor
  <2>1. all' = all
    <3>1. Append(executed, Head(functors)) \o Tail(functors) \o pendingFunctors
          = executed \o functors \o pendingFunctors
      <4>1. functors # << >>
        BY <1>5 DEF RunFunctor
      <4>2. QED
        BY <1>1, <4>1, MoveHead, Zenon
    <3>2. QED
      BY <1>5, <3>1, Zenon DEF RunFunctor
  <2>2. QED
    BY <1>5, <2>1 DEF NoFunctorLost, RunFunctor
<1>6. QED
  BY <1>2, <1>3, <1>4, <1>5, FunctorSteps

(* Functors are never lost, repeated or reordered, however the threads'    *)
(* push_backs fall between the swaps of doPendingFunctors.                 *)
THEOREM OrderCorrect == Spec => []NoFunctorLost
<1>1. Init => NoFunctorLost
  BY DEF Init, NoFunctorLost
<1>2. TypeOK /\ PhaseInv /\ NoFunctorLost /\ [Next]_vars => NoFunctorLost'
  BY OrderStep
<1>3. QED
  BY <1>1, <1>2, TypeCorrect, PhaseCorrect, PTL DEF Spec

-----------------------------------------------------------------------------
(* A bound on the posts that holds because PushBack checks it. *)
LEMMA PostsBounded == Spec => [](posted <= MaxPosts)
<1>1. Init => posted <= MaxPosts
  BY EventLoopAssumption DEF Init
<1>2. TypeOK /\ posted <= MaxPosts /\ [Next]_vars => (posted <= MaxPosts)'
  <2> SUFFICES ASSUME TypeOK, posted <= MaxPosts, [Next]_vars
               PROVE  (posted <= MaxPosts)'
    OBVIOUS
  <2>1. QED
    BY FunctorSteps, EventLoopAssumption
       DEF TypeOK, functorVars, PushBack, SwapFunctors, RunFunctor
<1>3. QED
  BY <1>1, <1>2, TypeCorrect, PTL DEF Spec

(* When the numbers 1 to n are split into two sequences, n + 1 is in none. *)
LEMMA FreshNumber ==
  ASSUME NEW d \in Seq(Nat), NEW q \in Seq(Nat), NEW n \in Nat,
         d \o q = [i \in 1..n |-> i]
  PROVE  n + 1 \notin {q[i] : i \in DOMAIN q} \cup {d[i] : i \in DOMAIN d}
<1>1. Len(d) + Len(q) = n
  BY ConcatProperties
<1>2. \A j \in 1..Len(d) + Len(q) :
         (d \o q)[j] = IF j <= Len(d) THEN d[j] ELSE q[j - Len(d)]
  BY ConcatProperties, Zenon
<1>3. \A j \in 1..n : (d \o q)[j] = j
  OBVIOUS
<1>4. ASSUME NEW i \in 1..Len(q) PROVE q[i] # n + 1
  <2>1. /\ Len(d) + i \in 1..n /\ Len(d) + i # n + 1
        /\ ~(Len(d) + i <= Len(d)) /\ (Len(d) + i) - Len(d) = i
    BY <1>1, LenProperties
  <2>2. QED
    BY <1>1, <1>2, <1>3, <2>1, Zenon
<1>5. ASSUME NEW i \in 1..Len(d) PROVE d[i] # n + 1
  <2>1. i \in 1..n /\ i # n + 1 /\ i <= Len(d)
    BY <1>1, LenProperties
  <2>2. QED
    BY <1>1, <1>2, <1>3, <2>1, Zenon
<1>6. DOMAIN q = 1..Len(q) /\ DOMAIN d = 1..Len(d)
  BY LenProperties
<1>7. QED
  BY <1>4, <1>5, <1>6, Zenon

(* EventLoop implements FunctorQueue: what is pending and what is left of  *)
(* the batch, together, is the queue of accepted functors.                 *)
LEMMA QueueStep ==
  ASSUME TypeOK, PhaseInv, NoFunctorLost, posted <= MaxPosts, [Next]_vars
  PROVE  [Queue!Next]_<<functors \o pendingFunctors, executed>>
<1> DEFINE todo == functors \o pendingFunctors
           old == Queue!Contents(todo) \cup Queue!Contents(executed)
<1>1. executed \in Seq(Nat) /\ functors \in Seq(Nat) /\ pendingFunctors \in Seq(Nat)
      /\ posted \in Nat
  BY DEF TypeOK
<1>2. CASE UNCHANGED functorVars
  BY <1>2 DEF functorVars
<1>3. CASE PushBack
  <2>1. todo' = Append(todo, posted + 1)
    <3>1. todo \in Seq(Nat)
      BY <1>1, ConcatProperties
    <3>2. todo' = functors \o (pendingFunctors \o <<posted + 1>>)
      <4>1. Append(pendingFunctors, posted + 1) = pendingFunctors \o <<posted + 1>>
        BY <1>1, AppendIsConcat
      <4>2. QED
        BY <1>3, <4>1, Zenon DEF PushBack
    <3>3. todo' = todo \o <<posted + 1>>
      BY <1>1, <3>2, ConcatAssociative
    <3>4. QED
      BY <1>1, <3>1, <3>3, AppendIsConcat
  <2>2. posted + 1 \notin old
    <3>1. todo \in Seq(Nat) /\ executed \o todo = [i \in 1..posted |-> i]
      <4>1. todo \in Seq(Nat)
        BY <1>1, ConcatProperties
      <4>2. executed \o todo = executed \o functors \o pendingFunctors
        BY <1>1, ConcatAssociative, SMTT(30)
      <4>3. QED
        BY <4>1, <4>2, Zenon DEF NoFunctorLost
    <3>2. QED
      BY <1>1, <3>1, FreshNumber DEF Queue!Contents
  <2>3. posted + 1 \in 1..MaxPosts /\ executed' = executed
    BY <1>1, <1>3, EventLoopAssumption DEF PushBack
  <2>4. Queue!Post
    BY <2>1, <2>2, <2>3 DEF Queue!Post
  <2>5. QED
    BY <2>4 DEF Queue!Next
<1>4. CASE SwapFunctors
  <2>1. todo' = todo /\ executed' = executed
    BY <1>1, <1>4, SwapFromEmpty, ConcatEmptySeq DEF SwapFunctors
  <2>2. QED
    BY <2>1
<1>5. CASE RunFunctor
  <2>1. Queue!Run
    BY <1>1, <1>5, MoveHead DEF RunFunctor, Queue!Run
  <2>2. QED
    BY <2>1 DEF Queue!Next
<1>6. QED
  BY <1>2, <1>3, <1>4, <1>5, FunctorSteps

(* The loop is a queue that runs what is posted, once and in order: every  *)
(* step is a Post, a Run or a stutter of FunctorQueue.                     *)
THEOREM Refinement == Spec => ImplementsQueue
<1>1. Init => Queue!Init
  BY DEF Init, Queue!Init
<1>2. TypeOK /\ PhaseInv /\ NoFunctorLost /\ posted <= MaxPosts /\ [Next]_vars
      => [Queue!Next]_<<functors \o pendingFunctors, executed>>
  BY QueueStep
<1>3. QED
  BY <1>1, <1>2, TypeCorrect, PhaseCorrect, OrderCorrect, PostsBounded, PTL
  DEF Spec, ImplementsQueue, Queue!Spec

-----------------------------------------------------------------------------
(* The loop of an EventLoopThread *)

(* How far threadFunc and the owner are says what exists: the loop is on   *)
(* the IO thread's stack from its construction to the end of threadFunc,   *)
(* loop_ is set once the init callback is back, and loop() runs only       *)
(* between the two.                                                        *)
LifeInv ==
  /\ thread \in {"unstarted", "started", "callback", "published", "looping", "exited"}
  /\ owner \in {"new", "starting", "waiting", "using", "quitting", "done"}
  /\ owner = "new" <=> thread = "unstarted"
  /\ alive <=> thread \in {"callback", "published", "looping"}
  /\ loopSet <=> thread \in {"published", "looping", "exited"}
  /\ thread # "looping" => pc = "idle"
  /\ looping <=> pc # "idle"
  /\ owner \in {"using", "quitting", "done"} => loopSet
  /\ owner = "done" => thread = "exited"

(* What the thread, its owner and the other callers do to the loop is a    *)
(* step of EventLoop, but for the owner's quit, which the destructor calls *)
(* beyond the bound, and for the calls that come after the loop's end.     *)
LEMMA StepsOfLoop ==
  ASSUME [ThreadNext]_allVars
  PROVE  [Next]_vars \/ Destroy \/ \E t \in Callers : UseDeadLoop(t)
<1> USE DEF loopVars
<1>1. CASE ConstructLoop \/ PublishLoop \/ ExitThread
  BY <1>1 DEF ConstructLoop, PublishLoop, ExitThread
<1>2. CASE EnterLoop
  BY <1>2 DEF EnterLoop, Next
<1>3. CASE InLoop
  BY <1>3 DEF InLoop, Next
<1>4. CASE StartThread \/ CheckLoop \/ SpuriousWakeup \/ Join
  BY <1>4 DEF StartThread, CheckLoop, SpuriousWakeup, Join
<1>5. CASE \E t \in Callers : UseLoop(t)
  BY <1>5 DEF UseLoop, Next, CallerStep
<1>6. CASE Finished \/ UNCHANGED allVars
  BY <1>6 DEF Finished, allVars
<1>7. QED
  BY <1>1, <1>2, <1>3, <1>4, <1>5, <1>6 DEF ThreadNext

(* Of the loop, those two change quit_ and where a caller is, at most.     *)
LEMMA OtherSteps ==
  ASSUME TypeOK, Destroy \/ \E t \in Callers : UseDeadLoop(t)
  PROVE  /\ TypeOK'
         /\ UNCHANGED <<looping, eventHandling, callingPendingFunctors,
                        functorVars, channelVars, wakeups, pc>>
<1>1. CASE Destroy
  <2>1. quit' \in BOOLEAN /\ cpc' \in [Callers -> {"idle", "wakeup"}]
        /\ UNCHANGED <<looping, eventHandling, callingPendingFunctors,
                       functorVars, channelVars, wakeups, pc, quits>>
    BY <1>1, EventLoopThreadAssumption
       DEF Destroy, TypeOK, loopVars, vars, flagVars
  <2>2. QED
    BY <2>1 DEF TypeOK, functorVars, channelVars
<1>2. CASE \E t \in Callers : UseDeadLoop(t)
  <2>1. cpc' \in [Callers -> {"idle", "wakeup"}]
        /\ UNCHANGED <<flagVars, functorVars, channelVars, wakeups, pc, quits>>
    BY <1>2 DEF UseDeadLoop, TypeOK
  <2>2. QED
    BY <2>1 DEF TypeOK, flagVars, functorVars, channelVars
<1>3. QED
  BY <1>1, <1>2

(* What the loop keeps when it is run by itself, it keeps in the thread.   *)
LoopInv ==
  /\ TypeOK /\ PhaseInv /\ DispatchInv
  /\ NoFunctorLost /\ posted <= MaxPosts

(* The loop's own invariants hold where loop() is run by threadFunc, its   *)
(* user comes and goes, and the owner quits it from the destructor.        *)
LEMMA LoopInvStep ==
  ASSUME LoopInv, [ThreadNext]_allVars
  PROVE  LoopInv'
<1>1. CASE [Next]_vars
  <2>1. TypeOK' /\ PhaseInv' /\ DispatchInv' /\ NoFunctorLost'
    BY <1>1, TypeStep, PhaseStep, DispatchStep, OrderStep DEF LoopInv
  <2>2. (posted <= MaxPosts)'
    BY <1>1, FunctorSteps, EventLoopAssumption
       DEF LoopInv, TypeOK, functorVars, PushBack, SwapFunctors, RunFunctor
  <2>3. QED
    BY <2>1, <2>2 DEF LoopInv
<1>2. CASE Destroy \/ \E t \in Callers : UseDeadLoop(t)
  <2>1. TypeOK'
    BY <1>2, OtherSteps DEF LoopInv
  <2>2. UNCHANGED <<eventHandling, callingPendingFunctors, functors,
                    pendingFunctors, posted, executed, registered,
                    activeChannels, undispatched, currentActiveChannel, pc>>
    BY <1>2, OtherSteps DEF LoopInv, functorVars, channelVars
  <2>3. PhaseInv' /\ DispatchInv'
    BY <2>2 DEF LoopInv, PhaseInv, DispatchInv, OnlyRegisteredDispatched
  <2>4. NoFunctorLost' /\ (posted <= MaxPosts)'
    BY <2>2 DEF LoopInv, NoFunctorLost
  <2>5. QED
    BY <2>1, <2>3, <2>4 DEF LoopInv
<1>3. QED
  BY <1>1, <1>2, StepsOfLoop

(* loop() is entered once, after startLoop was given its loop, and left    *)
(* before the stack object goes: each of threadFunc's and the owner's      *)
(* steps keeps LifeInv.                                                    *)
LEMMA LifeStep ==
  ASSUME LoopInv, LifeInv, [ThreadNext]_allVars
  PROVE  LifeInv'
<1> USE DEF LifeInv, loopVars, vars, flagVars
<1>1. CASE ConstructLoop \/ PublishLoop \/ ExitThread
  BY <1>1 DEF ConstructLoop, PublishLoop, ExitThread
<1>2. CASE EnterLoop
  BY <1>2 DEF EnterLoop, Loop, GoTo
<1>3. CASE StartThread \/ CheckLoop \/ SpuriousWakeup \/ Join
  BY <1>3 DEF StartThread, CheckLoop, SpuriousWakeup, Join
<1>4. CASE Destroy
  BY <1>4 DEF Destroy
<1>5. CASE \E t \in Callers : UseLoop(t)
  BY <1>5 DEF UseLoop, threadVars, CallerStep, QueueInLoop, Quit, Wakeup
<1>6. CASE \E t \in Callers : UseDeadLoop(t)
  BY <1>6 DEF UseDeadLoop
<1>7. CASE InLoop
  <2>1. UNCHANGED threadVars
    BY <1>7 DEF InLoop
  <2>2. CASE UserCall
    <3>1. ASSUME NEW ch \in Channels, RemoveChannel(ch)
          PROVE  looping' = looping /\ (pc = "idle" => pc' = pc)
                 /\ (pc # "idle" => pc' # "idle")
      BY <3>1 DEF RemoveChannel, MayRemove, LoopInv, PhaseInv
    <3>2. looping' = looping /\ (pc = "idle" => pc' = pc)
          /\ (pc # "idle" => pc' # "idle")
      BY <2>2, <3>1 DEF UserCall, QueueInLoopHere, QuitHere, UpdateChannel
    <3>3. QED
      BY <2>1, <3>2 DEF threadVars
  <2>3. CASE /\ thread = "looping" /\ pc # "idle"
             /\ PollReturns \/ PollTimesOut \/ LoopStep \/ UserCodeReturns
    <3>1. looping' <=> pc' # "idle"
      <4>1. CASE PollReturns \/ PollTimesOut
        BY <2>3, <4>1 DEF PollReturns, PollTimesOut, PollResult, GoTo
      <4>2. CASE LoopStep
        BY <2>3, <4>2 DEF LoopStep, KeepLooping, StopLooping, HandleWakeup,
           HandleEvent, EndHandling, SwapFunctors, RunFunctor, EndFunctors, GoTo
      <4>3. CASE UserCodeReturns
        BY <2>3, <4>3 DEF UserCodeReturns, CallbackReturns, FunctorReturns, GoTo
      <4>4. QED
        BY <2>3, <4>1, <4>2, <4>3
    <3>2. QED
      BY <2>1, <2>3, <3>1 DEF threadVars
  <2>4. QED
    BY <1>7, <2>2, <2>3 DEF InLoop
<1>8. CASE Finished \/ UNCHANGED allVars
  BY <1>8 DEF Finished, allVars, threadVars
<1>9. QED
  BY <1>1, <1>2, <1>3, <1>4, <1>5, <1>6, <1>7, <1>8 DEF ThreadNext

(* The loop and the lives of the thread and its owner, in every reachable  *)
(* state of an EventLoopThread.                                            *)
LEMMA ThreadInvariant == ThreadSpec => [](LoopInv /\ LifeInv)
<1>1. ThreadInit => LoopInv
  <2> SUFFICES ASSUME ThreadInit PROVE LoopInv
    OBVIOUS
  <2>1. Init
    BY DEF ThreadInit
  <2>2. PhaseInv /\ DispatchInv /\ NoFunctorLost /\ posted <= MaxPosts
    BY <2>1, EventLoopAssumption
       DEF Init, PhaseInv, DispatchInv, OnlyRegisteredDispatched, NoFunctorLost
  <2>3. QED
    BY <2>1, <2>2, TypeInit DEF LoopInv
<1>2. ThreadInit => LifeInv
  BY DEF ThreadInit, Init, LifeInv
<1>3. LoopInv /\ LifeInv /\ [ThreadNext]_allVars => (LoopInv /\ LifeInv)'
  BY LoopInvStep, LifeStep
<1>4. QED
  BY <1>1, <1>2, <1>3, PTL DEF ThreadSpec

(* startLoop hands out the loop only when it is constructed and the init   *)
(* callback is back: the invariant of StartLoopContract.                   *)
THEOREM LoopIsReady == ThreadSpec => []LoopReadyWhenStarted
<1>1. LifeInv => LoopReadyWhenStarted
  BY DEF LifeInv, LoopReadyWhenStarted
<1>2. QED
  BY <1>1, ThreadInvariant, PTL

(* When the destructor's join is over, loop() has returned and the loop is *)
(* gone: the invariant of DestructorContract.                              *)
THEOREM JoinedIsStopped == ThreadSpec => []JoinedMeansStopped
<1>1. LifeInv => JoinedMeansStopped
  BY DEF LifeInv, JoinedMeansStopped
<1>2. QED
  BY <1>1, ThreadInvariant, PTL

(* In the thread too, whoever uses the loop and whenever its owner quits   *)
(* it: no removed channel is dispatched.                                   *)
THEOREM ThreadDispatches == ThreadSpec => []OnlyRegisteredDispatched
<1>1. LoopInv => OnlyRegisteredDispatched
  BY DEF LoopInv, DispatchInv, OnlyRegisteredDispatched
<1>2. QED
  BY <1>1, ThreadInvariant, PTL

(* In the thread too, the loop is a queue that runs what is posted, once   *)
(* and in order.                                                           *)
THEOREM ThreadRefinement == ThreadSpec => ImplementsQueue
<1>1. ThreadInit => Queue!Init
  BY DEF ThreadInit, Init, Queue!Init
<1>2. LoopInv /\ [ThreadNext]_allVars
      => [Queue!Next]_<<functors \o pendingFunctors, executed>>
  <2> SUFFICES ASSUME LoopInv, [ThreadNext]_allVars
               PROVE  [Queue!Next]_<<functors \o pendingFunctors, executed>>
    OBVIOUS
  <2>1. CASE [Next]_vars
    BY <2>1, QueueStep DEF LoopInv
  <2>2. CASE Destroy \/ \E t \in Callers : UseDeadLoop(t)
    BY <2>2, OtherSteps DEF LoopInv, functorVars
  <2>3. QED
    BY <2>1, <2>2, StepsOfLoop
<1>3. QED
  BY <1>1, <1>2, ThreadInvariant, PTL DEF ThreadSpec, ImplementsQueue, Queue!Spec

(* The wakeup rule holds as long as the loop exists: the calls that may    *)
(* lose a wakeup are those made after threadFunc has returned.             *)
LEMMA ThreadWakeupStep ==
  ASSUME "idle" \notin PostContexts, LoopInv, LifeInv, [ThreadNext]_allVars,
         thread # "exited" => WakeupInv
  PROVE  (thread # "exited" => WakeupInv)'
<1> SUFFICES ASSUME thread' # "exited" PROVE WakeupInv'
  OBVIOUS
<1>1. thread # "exited"
  <2>1. owner # "new" \/ thread # "exited"
    BY DEF LifeInv
  <2>2. QED
    BY <2>1 DEF ThreadNext, ConstructLoop, PublishLoop, EnterLoop, InLoop,
       ExitThread, StartThread, CheckLoop, SpuriousWakeup, Destroy, Join, UseLoop,
       UseDeadLoop, Finished, allVars, threadVars
<1>2. CASE [Next]_vars
  BY <1>1, <1>2, WakeupStep DEF LoopInv
<1>3. CASE Destroy
  <2>1. alive
    BY <1>1, <1>3 DEF Destroy, LifeInv
  <2>2. cpc'[Owner] = "wakeup"
    BY <1>3, <2>1, EventLoopThreadAssumption DEF Destroy, LoopInv, TypeOK
  <2>3. QED
    BY <2>2, EventLoopThreadAssumption DEF WakeupInv, WakeupOwed
<1>4. CASE \E t \in Callers : UseDeadLoop(t)
  BY <1>1, <1>4 DEF UseDeadLoop, LifeInv
<1>5. QED
  BY <1>2, <1>3, <1>4, StepsOfLoop

(* In the thread too, the loop never sleeps on a functor or on the         *)
(* destructor's quit, when the init callback posts nothing.                *)
THEOREM ThreadWakes ==
  ASSUME "idle" \notin PostContexts
  PROVE  ThreadSpec => []NoLostWakeup
<1>1. ThreadInit => (thread # "exited" => WakeupInv)
  BY DEF ThreadInit, Init, WakeupInv
<1>2. /\ LoopInv /\ LifeInv /\ (thread # "exited" => WakeupInv)
      /\ [ThreadNext]_allVars
      => (thread # "exited" => WakeupInv)'
  BY ThreadWakeupStep
<1>3. LifeInv /\ (thread # "exited" => WakeupInv) => NoLostWakeup
  BY DEF LifeInv, WakeupInv, NoLostWakeup
<1>4. QED
  BY <1>1, <1>2, <1>3, ThreadInvariant, PTL DEF ThreadSpec
=============================================================================
