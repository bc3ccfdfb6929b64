---------------------------- MODULE ReactorProofs ----------------------------
(* Theorems about the first reactor and the threads and singletons of its  *)
(* programs: whatever a program calls, in whatever threads, and wherever   *)
(* it forks.                                                               *)
EXTENDS Reactor, SequenceTheorems, FiniteSetTheorems, TLAPS

Lives == {"new", "started", "failed", "running", "finished", "crashed", "lost"}

ThreadTypes ==
  /\ life \in [Threads -> Lives] /\ lastTid \in Nat
  /\ tid \in [Threads -> Nat] /\ cachedTid \in [Threads -> Nat]
  /\ threadId \in [Threads -> Nat]

LoopTypes ==
  /\ at \in [Threads -> {"calls", "test", "poll", "handle"}]
  /\ runs \in [Threads -> Threads]
  /\ index \in [Fds -> Int] /\ DOMAIN pollfds = Threads
  /\ \E S : pollfds[Main] \in Seq(S)

(* A thread's id is its own, among the threads that run and the loops that *)
(* were made: the kernel's count is past all of them.                      *)
Ids ==
  /\ \A t \in Threads : tid[t] <= lastTid /\ threadId[t] <= lastTid
  /\ \A t \in Threads : life[t] = "running" => tid[t] > 0 /\ cachedTid[t] = tid[t]
  /\ \A t, u \in Threads :
       life[t] = "running" /\ life[u] = "running" /\ tid[t] = tid[u] => t = u
  /\ \A t, l \in Threads : life[t] = "running" /\ threadId[l] = tid[t] => t = l

(* A thread is in its own loop only, and has not forked since it made it.  *)
OwnLoops == \A t \in Threads : at[t] # "calls" => runs[t] = t /\ threadId[t] = tid[t]

(* The places of the known channels.                                       *)
Places ==
  \A fd \in Fds : index[fd] >= 0 =>
    index[fd] < Len(pollfds[Main]) /\ pollfds[Main][index[fd] + 1] = fd

(* The Singleton is made once, by the one thread in init.                  *)
Singletons == {o \in made : o.kind = "singleton"}
Once ==
  /\ once \in {"never", "running", "done"}
  /\ once = "never" => inInit = {} /\ Singletons = {}
  /\ once = "running" => Singletons = {} /\ \E t : inInit = {t}
  /\ once = "done" => inInit = {} /\ \E o : Singletons = {o}

(* The objects that the keys hold for a thread are its own.                *)
Own ==
  /\ \A k \in Keys : \A t \in Threads : \A o \in specific[k][t] : o.by = t
  /\ \A t \in Threads : \A o \in tValue[t] : o.by = t
  /\ DOMAIN specific = Keys /\ \A k \in Keys : DOMAIN specific[k] = Threads
  /\ DOMAIN tValue = Threads

IInv == ThreadTypes /\ LoopTypes /\ Ids /\ OwnLoops /\ Places /\ Once /\ Own

-----------------------------------------------------------------------------
(* The state a program starts in.                                          *)
LEMMA InitCorrect == Init => IInv
<1> SUFFICES ASSUME Init PROVE IInv
  OBVIOUS
<1>1. /\ life = [t \in Threads |-> IF t = Main THEN "running" ELSE "new"]
      /\ lastTid = 1 /\ tid = [t \in Threads |-> IF t = Main THEN 1 ELSE 0]
      /\ cachedTid = tid
  BY DEF Init, ThreadInit
<1>2. /\ threadId = [l \in Threads |-> 0] /\ at = [t \in Threads |-> "calls"]
      /\ runs = [t \in Threads |-> t]
      /\ pollfds = [l \in Threads |-> << >>] /\ index = [fd \in Fds |-> -1]
  BY DEF Init
<1>3. ThreadTypes
  BY <1>1, <1>2 DEF ThreadTypes, Lives
<1>4. LoopTypes
  <2>1. pollfds[Main] \in Seq(Fds)
    BY <1>2, ReactorAssumption, EmptySeq
  <2>2. QED
    BY <1>2, <2>1 DEF LoopTypes
<1>5. Ids
  BY <1>1, <1>2 DEF Ids
<1>6. OwnLoops /\ Places
  BY <1>2 DEF OwnLoops, Places
<1>7. Once /\ Own
  BY DEF Init, LocalInit, Once, Own, Singletons
<1>8. QED
  BY <1>3, <1>4, <1>5, <1>6, <1>7 DEF IInv

-----------------------------------------------------------------------------
(* What starts, ends or aborts threads leaves the ids as they are.         *)
LEMMA IdsKept ==
  ASSUME IInv, UNCHANGED <<tid, cachedTid, lastTid, threadId>>,
         life' \in [Threads -> Lives],
         \A u \in Threads : life'[u] = "running" => life[u] = "running"
  PROVE  ThreadTypes' /\ Ids'
<1>1. ThreadTypes'
  BY DEF IInv, ThreadTypes
<1>2. Ids'
  BY DEF IInv, Ids
<1>3. QED
  BY <1>1, <1>2

(* A thread that begins to run is given the next id.                       *)
LEMMA RunInThreadStep ==
  ASSUME IInv, NEW u \in Threads, RunInThread(u), UNCHANGED threadId
  PROVE  ThreadTypes' /\ Ids'
<1>1. /\ life' = [life EXCEPT ![u] = "running"] /\ lastTid' = lastTid + 1
      /\ tid' = [tid EXCEPT ![u] = lastTid + 1]
      /\ cachedTid' = [cachedTid EXCEPT ![u] = lastTid + 1]
  BY DEF RunInThread
<1>2. ThreadTypes'
  BY <1>1 DEF IInv, ThreadTypes, Lives
<1>3. \A t \in Threads : tid[t] <= lastTid /\ threadId[t] <= lastTid
  BY DEF IInv, Ids
<1>4. /\ \A t \in Threads : tid'[t] = (IF t = u THEN lastTid + 1 ELSE tid[t])
      /\ \A t \in Threads : cachedTid'[t] = (IF t = u THEN lastTid + 1 ELSE cachedTid[t])
      /\ \A t \in Threads : t # u => life'[t] = life[t]
      /\ \A t \in Threads : tid[t] \in Nat /\ threadId[t] \in Nat /\ threadId'[t] = threadId[t]
      /\ lastTid \in Nat
  BY <1>1 DEF IInv, ThreadTypes
<1>5. Ids'
  BY <1>1, <1>3, <1>4 DEF IInv, Ids
<1>6. QED
  BY <1>2, <1>5

(* So is the thread that has forked, in the child, which it is alone in.   *)
LEMMA ForkStep ==
  ASSUME IInv, NEW t \in Threads, Fork(t), UNCHANGED threadId
  PROVE  ThreadTypes' /\ Ids'
<1>1. CASE UNCHANGED <<life, tid, cachedTid, lastTid>>
  BY <1>1, IdsKept DEF IInv, ThreadTypes
<1>2. CASE /\ lastTid' = lastTid + 1 /\ tid' = [tid EXCEPT ![t] = lastTid']
           /\ life' = [u \in Threads |->
                         IF u # t /\ life[u] \in {"started", "running"} THEN "lost"
                                                                        ELSE life[u]]
           /\ AfterFork(t)
  <2>1. /\ tid' = [tid EXCEPT ![t] = lastTid + 1]
        /\ cachedTid' = [cachedTid EXCEPT ![t] = lastTid + 1]
    BY <1>2 DEF AfterFork, IInv, ThreadTypes
  <2>2. ThreadTypes'
    BY <1>2, <2>1 DEF IInv, ThreadTypes, Lives
  <2>3. \A u \in Threads : tid[u] <= lastTid /\ threadId[u] <= lastTid
    BY DEF IInv, Ids
  <2>4. /\ \A u \in Threads : tid'[u] = (IF u = t THEN lastTid + 1 ELSE tid[u])
        /\ cachedTid'[t] = lastTid + 1
        /\ \A u \in Threads : u # t => life'[u] # "running"
        /\ \A u \in Threads : tid[u] \in Nat /\ threadId[u] \in Nat /\ threadId'[u] = threadId[u]
        /\ lastTid \in Nat
    BY <1>2, <2>1 DEF IInv, ThreadTypes
  <2>5. Ids'
    BY <1>2, <2>3, <2>4 DEF Ids
  <2>6. QED
    BY <2>2, <2>5
<1>3. QED
  BY <1>1, <1>2 DEF Fork

(* The calls of the threads and of their own objects keep the ids.         *)
LEMMA LocalIds ==
  ASSUME IInv, NEW t \in Threads, LocalStep(t), UNCHANGED threadId
  PROVE  ThreadTypes' /\ Ids'
<1> DEFINE Keeps == /\ UNCHANGED <<tid, cachedTid, lastTid>>
                    /\ life' \in [Threads -> Lives]
                    /\ \A u \in Threads : life'[u] = "running" => life[u] = "running"
<1>1. Keeps => ThreadTypes' /\ Ids'
  BY IdsKept
<1>2. life \in [Threads -> Lives]
  BY DEF IInv, ThreadTypes
<1>3. CASE BeginInit(t) \/ EndInit(t)
  BY <1>1, <1>2, <1>3 DEF BeginInit, EndInit, threadVars
<1>4. CASE Instance(t) \/ Value(t) \/ TlsInstance(t) \/ SetSpecific(t)
           \/ \E k \in Keys : DeleteKey(t, k)
  BY <1>1, <1>2, <1>4 DEF Instance, Value, TlsInstance, SetSpecific, DeleteKey
<1>5. CASE Exit(t) \/ ThreadReturns(t)
  BY <1>1, <1>2, <1>5 DEF Exit, ThreadReturns, Lives
<1>6. CASE \E u \in Threads : StartThread(t, u)
  <2>1. PICK u \in Threads : StartThread(t, u)
    BY <1>6
  <2>2. PICK result \in {"started", "failed"} : life' = [life EXCEPT ![u] = result]
    BY <2>1 DEF StartThread
  <2>3. UNCHANGED <<tid, cachedTid, lastTid>>
    BY <2>1 DEF StartThread
  <2>4. QED
    BY <1>1, <1>2, <2>2, <2>3 DEF Lives
<1>7. CASE \E u \in Threads : JoinThread(t, u)
  BY <1>1, <1>2, <1>7 DEF JoinThread, Abort
<1>8. CASE RunInThread(t)
  BY <1>8, RunInThreadStep
<1>9. CASE ThreadThrows(t)
  BY <1>1, <1>2, <1>9 DEF ThreadThrows, Lives
<1>10. CASE Fork(t)
  BY <1>10, ForkStep
<1>11. QED
  BY <1>3, <1>4, <1>5, <1>6, <1>7, <1>8, <1>9, <1>10 DEF LocalStep

(* They change no other thread's id.                                       *)
LEMMA LocalTids ==
  ASSUME IInv, NEW t \in Threads, LocalStep(t)
  PROVE  \A u \in Threads : u # t => tid'[u] = tid[u]
<1>1. tid \in [Threads -> Nat]
  BY DEF IInv, ThreadTypes
<1>2. CASE UNCHANGED tid
  BY <1>2
<1>3. CASE BeginInit(t) \/ EndInit(t) \/ Instance(t) \/ Exit(t) \/ Value(t)
           \/ TlsInstance(t) \/ SetSpecific(t) \/ ThreadReturns(t) \/ ThreadThrows(t)
  BY <1>2, <1>3 DEF BeginInit, EndInit, Instance, Exit, Value, TlsInstance, SetSpecific,
                    ThreadReturns, ThreadThrows, threadVars
<1>4. CASE (\E k \in Keys : DeleteKey(t, k))
           \/ \E u \in Threads : StartThread(t, u) \/ JoinThread(t, u)
  BY <1>2, <1>4 DEF DeleteKey, StartThread, JoinThread, Abort
<1>5. CASE RunInThread(t) \/ Fork(t)
  BY <1>1, <1>5 DEF RunInThread, Fork
<1>6. QED
  BY <1>3, <1>4, <1>5 DEF LocalStep

-----------------------------------------------------------------------------
(* What makes no singleton leaves the others alone.                        *)
LEMMA OnceKept ==
  ASSUME IInv, UNCHANGED <<once, inInit>>,
         \/ UNCHANGED made
         \/ \E kind \in Keys, t \in Threads : Make(kind, t)
  PROVE  Once'
<1>1. Singletons' = Singletons
  <2>1. CASE UNCHANGED made
    BY <2>1 DEF Singletons
  <2>2. CASE \E kind \in Keys, t \in Threads : Make(kind, t)
    <3>1. PICK kind \in Keys, t \in Threads : Make(kind, t)
      BY <2>2
    <3>2. made' = made \cup {NewObject(kind, t)} /\ NewObject(kind, t).kind # "singleton"
      BY <3>1 DEF Make, NewObject, Keys
    <3>3. QED
      BY <3>2 DEF Singletons
  <2>3. QED
    BY <2>1, <2>2
<1>2. QED
  BY <1>1 DEF IInv, Once

(* pthread_once lets one thread into init, and that one once.              *)
LEMMA LocalOnce ==
  ASSUME IInv, NEW t \in Threads, LocalStep(t) PROVE Once'
<1>1. CASE BeginInit(t)
  <2>1. /\ once = "never" /\ once' = "running" /\ inInit' = inInit \cup {t}
        /\ made' = made
    BY <1>1 DEF BeginInit, MayInit
  <2>2. inInit' = {t} /\ Singletons' = {}
    BY <2>1 DEF IInv, Once, Singletons
  <2>3. QED
    BY <2>1, <2>2 DEF Once
<1>2. CASE EndInit(t)
  <2>1. /\ t \in inInit /\ made' = made \cup {NewObject("singleton", t)}
        /\ once' = "done" /\ inInit' = inInit \ {t}
    BY <1>2 DEF EndInit, Make
  <2>2. Singletons = {} /\ inInit = {t}
    BY <2>1 DEF IInv, Once
  <2>3. NewObject("singleton", t).kind = "singleton"
    BY DEF NewObject
  <2>4. Singletons' = {NewObject("singleton", t)}
    BY <2>1, <2>2, <2>3 DEF Singletons
  <2>5. QED
    BY <2>1, <2>2, <2>4 DEF Once
<1>3. CASE Value(t) \/ TlsInstance(t) \/ SetSpecific(t)
  <2>1. "local" \in Keys /\ "tls" \in Keys /\ "demo" \in Keys
    BY DEF Keys, Kinds
  <2>2. UNCHANGED <<once, inInit>>
    BY <1>3 DEF Value, TlsInstance, SetSpecific
  <2>3. UNCHANGED made \/ Make("local", t) \/ Make("tls", t) \/ Make("demo", t)
    BY <1>3 DEF Value, TlsInstance, SetSpecific
  <2>4. QED
    BY <2>1, <2>2, <2>3, OnceKept
<1>4. CASE Instance(t) \/ Exit(t) \/ \E k \in Keys : DeleteKey(t, k)
  BY <1>4, OnceKept DEF Instance, Exit, DeleteKey, localVars
<1>5. CASE ThreadReturns(t) /\ LocalsEnd(t)
  BY <1>5, OnceKept DEF LocalsEnd
<1>6. CASE UNCHANGED localVars
  BY <1>6, OnceKept DEF localVars
<1>7. QED
  BY <1>1, <1>2, <1>3, <1>4, <1>5, <1>6 DEF LocalStep

(* A thread puts its own objects where it looks for them.                  *)
LEMMA LocalOwn ==
  ASSUME IInv, NEW t \in Threads, LocalStep(t) PROVE Own'
<1>1. /\ "local" \in Keys /\ "tls" \in Keys /\ "demo" \in Keys
      /\ \A kind : NewObject(kind, t).by = t
  BY DEF Keys, Kinds, NewObject
<1>2. ASSUME NEW k \in Keys, NEW kind,
             specific' = [specific EXCEPT ![k][t] = {NewObject(kind, t)}],
             \/ UNCHANGED tValue \/ tValue' = [tValue EXCEPT ![t] = {NewObject(kind, t)}]
      PROVE  Own'
  <2>1. ASSUME NEW j \in Keys, NEW u \in Threads
        PROVE  specific'[j][u] = IF j = k /\ u = t THEN {NewObject(kind, t)} ELSE specific[j][u]
    BY <1>2 DEF IInv, Own
  <2>2. ASSUME NEW u \in Threads
        PROVE  tValue'[u] = IF tValue' # tValue /\ u = t THEN {NewObject(kind, t)}
                                                         ELSE tValue[u]
    BY <1>2 DEF IInv, Own
  <2>3. /\ DOMAIN specific' = Keys /\ \A j \in Keys : DOMAIN specific'[j] = Threads
        /\ DOMAIN tValue' = Threads
    BY <1>2 DEF IInv, Own
  <2>4. QED
    BY <1>1, <2>1, <2>2, <2>3 DEF IInv, Own
<1>3. CASE UNCHANGED <<specific, tValue>>
  BY <1>3 DEF IInv, Own
<1>4. CASE BeginInit(t) \/ EndInit(t) \/ Instance(t) \/ Exit(t)
           \/ (\E k \in Keys : DeleteKey(t, k)) \/ UNCHANGED localVars
  BY <1>3, <1>4 DEF BeginInit, EndInit, Instance, Exit, DeleteKey, localVars
<1>5. CASE Value(t)
  <2>1. UNCHANGED tValue
    BY <1>5 DEF Value
  <2>2. \/ UNCHANGED specific
        \/ specific' = [specific EXCEPT !["local"][t] = {NewObject("local", t)}]
    BY <1>5 DEF Value
  <2>3. QED
    BY <1>1, <1>2, <1>3, <2>1, <2>2
<1>6. CASE TlsInstance(t)
  <2>1. CASE tValue[t] = {}
    <3>1. tValue' = [tValue EXCEPT ![t] = {NewObject("tls", t)}]
      BY <1>6, <2>1 DEF TlsInstance
    <3>2. tValue'[t] = {NewObject("tls", t)}
      BY <3>1 DEF IInv, Own
    <3>3. specific' = [specific EXCEPT !["tls"][t] = {NewObject("tls", t)}]
      BY <1>6, <2>1, <3>2 DEF TlsInstance, DeleterSet
    <3>4. QED
      BY <1>1, <1>2, <3>1, <3>3
  <2>2. CASE tValue[t] # {}
    BY <1>3, <1>6, <2>2 DEF TlsInstance
  <2>3. QED
    BY <2>1, <2>2
<1>7. CASE SetSpecific(t)
  BY <1>1, <1>2, <1>7 DEF SetSpecific
<1>8. CASE LocalsEnd(t)
  <2>1. /\ specific' = [k \in Keys |-> [specific[k] EXCEPT ![t] = IF k \in keys THEN {} ELSE @]]
        /\ tValue' = [tValue EXCEPT ![t] = IF "tls" \in keys THEN {} ELSE @]
    BY <1>8 DEF LocalsEnd
  <2>2. \A k \in Keys : \A u \in Threads : specific'[k][u] \in {{}, specific[k][u]}
    BY <2>1 DEF IInv, Own
  <2>3. \A u \in Threads : tValue'[u] \in {{}, tValue[u]}
    BY <2>1 DEF IInv, Own
  <2>4. /\ DOMAIN specific' = Keys /\ \A k \in Keys : DOMAIN specific'[k] = Threads
        /\ DOMAIN tValue' = Threads
    BY <2>1 DEF IInv, Own
  <2>5. QED
    BY <2>2, <2>3, <2>4 DEF IInv, Own
<1>9. QED
  BY <1>4, <1>5, <1>6, <1>7, <1>8 DEF LocalStep

-----------------------------------------------------------------------------
(* A channel that is new gets the next place, and no other one moves.      *)
LEMMA UpdateChannelEffect ==
  ASSUME IInv, NEW fd, UpdateChannel(Main, fd)
  PROVE  /\ index' \in [Fds -> Int] /\ DOMAIN pollfds' = Threads
         /\ \E S : pollfds'[Main] \in Seq(S)
         /\ \A l \in Threads : l # Main => pollfds'[l] = pollfds[l]
         /\ Places'
<1>1. CASE index[fd] < 0
  <2>1. /\ pollfds' = [pollfds EXCEPT ![Main] = Append(@, fd)]
        /\ index' = [index EXCEPT ![fd] = Len(pollfds[Main])]
    BY <1>1 DEF UpdateChannel
  <2>2. Main \in Threads /\ DOMAIN pollfds = Threads /\ index \in [Fds -> Int]
    BY ReactorAssumption DEF IInv, LoopTypes
  <2>3. PICK S : pollfds[Main] \in Seq(S)
    BY DEF IInv, LoopTypes
  <2>4. pollfds'[Main] = Append(pollfds[Main], fd)
    BY <2>1, <2>2
  <2>5. pollfds[Main] \in Seq(S \cup {fd})
    BY <2>3
  <2>6. /\ pollfds'[Main] \in Seq(S \cup {fd})
        /\ Len(pollfds[Main]) \in Nat /\ Len(pollfds'[Main]) = Len(pollfds[Main]) + 1
        /\ \A i \in 1..Len(pollfds[Main]) : pollfds'[Main][i] = pollfds[Main][i]
        /\ pollfds'[Main][Len(pollfds[Main]) + 1] = fd
    BY <2>4, <2>5, AppendProperties, LenProperties
  <2>7. index' \in [Fds -> Int]
    <3>1. Len(pollfds[Main]) \in Int
      BY <2>6
    <3> HIDE DEF Fds
    <3>2. QED
      BY <2>1, <2>2, <3>1
  <2>8. ASSUME NEW g \in Fds, index'[g] >= 0
        PROVE  index'[g] < Len(pollfds'[Main]) /\ pollfds'[Main][index'[g] + 1] = g
    <3>1. CASE g = fd
      <4>1. index'[g] = Len(pollfds[Main])
        BY <2>1, <2>2, <3>1
      <4>2. QED
        BY <2>6, <3>1, <4>1
    <3>2. CASE g # fd
      <4>1. index'[g] = index[g] /\ index[g] \in Int
        BY <2>1, <2>2, <3>2
      <4>2. index[g] < Len(pollfds[Main]) /\ pollfds[Main][index[g] + 1] = g
        BY <2>8, <4>1 DEF IInv, Places
      <4>3. index[g] + 1 \in 1..Len(pollfds[Main])
        BY <2>6, <2>8, <4>1, <4>2
      <4>4. QED
        BY <2>6, <4>1, <4>2, <4>3
    <3>3. QED
      BY <3>1, <3>2
  <2>9. QED
    BY <2>1, <2>2, <2>6, <2>7, <2>8 DEF Places
<1>2. CASE ~(index[fd] < 0)
  BY <1>2 DEF UpdateChannel, pollVars, IInv, LoopTypes, Places
<1>3. QED
  BY <1>1, <1>2

(* Only main passes the assertion of its loop, and each thread that of its *)
(* own.                                                                    *)
LEMMA InLoopThreadMeans ==
  ASSUME IInv, NEW t \in Threads, NEW l \in Threads, life[t] = "running", InLoopThread(t, l)
  PROVE  t = l
<1>1. CurrentTid(t) = tid[t]
  BY DEF IInv, Ids, CurrentTid
<1>2. QED
  BY <1>1 DEF IInv, Ids, InLoopThread

(* A thread makes a loop: its id is in no other loop.                      *)
LEMMA NewEventLoopStep ==
  ASSUME IInv, NEW t \in Threads, NewEventLoop(t)
  PROVE  /\ ThreadTypes' /\ Ids' /\ UNCHANGED <<tid, loopVars, pollVars>>
         /\ \A u \in Threads : u # t => threadId'[u] = threadId[u]
<1>1. CASE LogFatal
  <2>1. UNCHANGED <<life, tid, cachedTid, lastTid, threadId, loopVars, pollVars>>
    BY <1>1 DEF LogFatal, Abort, existVars
  <2>2. QED
    BY <2>1, IdsKept DEF IInv, ThreadTypes
<1>2. CASE /\ threadId' = [threadId EXCEPT ![t] = CurrentTid(t)]
           /\ GoesOn /\ UNCHANGED <<loopVars, pollVars>>
  <2>1. life[t] = "running" /\ UNCHANGED <<life, tid, cachedTid, lastTid>>
    BY <1>2 DEF NewEventLoop, Calls, CallsNow, GoesOn
  <2>2. CurrentTid(t) = tid[t]
    BY <2>1 DEF IInv, Ids, CurrentTid
  <2>3. \A l \in Threads : threadId'[l] = IF l = t THEN tid[t] ELSE threadId[l]
    BY <1>2, <2>2 DEF IInv, ThreadTypes
  <2>4. ThreadTypes'
    BY <1>2, <2>1, <2>2 DEF IInv, ThreadTypes
  <2>5. Ids'
    BY <2>1, <2>3 DEF IInv, Ids
  <2>6. QED
    BY <1>2, <2>1, <2>3, <2>4, <2>5
<1>3. QED
  BY <1>1, <1>2 DEF NewEventLoop

(* What neither loops nor touches channels.                                *)
LEMMA LoopsKept ==
  ASSUME IInv, UNCHANGED <<at, runs, pollfds, index>>,
         \A t \in Threads : at[t] # "calls" => tid'[t] = tid[t] /\ threadId'[t] = threadId[t]
  PROVE  LoopTypes' /\ OwnLoops' /\ Places'
<1>1. LoopTypes'
  BY DEF IInv, LoopTypes
<1>2. OwnLoops' /\ Places'
  BY DEF IInv, OwnLoops, Places
<1>3. QED
  BY <1>1, <1>2

(* A call of the reactor.                                                  *)
LEMMA ReactorCallStep ==
  ASSUME IInv, NEW t \in Threads, at[t] = "calls", ReactorCall(t)
  PROVE  IInv'
<1>1. Once' /\ Own'
  <2>1. UNCHANGED localVars
    BY DEF ReactorCall
  <2>2. Once'
    BY <2>1, OnceKept DEF localVars
  <2>3. Own'
    BY <2>1 DEF IInv, Own, localVars
  <2>4. QED
    BY <2>2, <2>3
<1>2. /\ UNCHANGED <<life, tid, cachedTid, lastTid, threadId>> => ThreadTypes' /\ Ids'
  BY IdsKept DEF IInv, ThreadTypes
<1>3. CASE NewEventLoop(t)
  BY <1>1, <1>3, NewEventLoopStep, LoopsKept DEF loopVars, pollVars, IInv
<1>4. CASE DeleteEventLoop(t) \/ \E l \in Threads : Quit(t, l)
  <2>1. UNCHANGED <<life, tid, cachedTid, lastTid, threadId, at, runs, pollfds, index>>
    BY <1>4 DEF DeleteEventLoop, Quit, GoesOn, existVars, loopVars, pollVars
  <2>2. QED
    BY <1>1, <1>2, <2>1, LoopsKept DEF IInv
<1>5. CASE LogFatal
  <2>1. UNCHANGED <<life, tid, cachedTid, lastTid, threadId, at, runs, pollfds, index>>
    BY <1>5 DEF LogFatal, Abort, existVars, loopVars, pollVars
  <2>2. QED
    BY <1>1, <1>2, <2>1, LoopsKept DEF IInv
<1>6. CASE \E l \in Threads : Loop(t, l) /\ ~LogFatal
  <2>1. PICK l \in Threads : Loop(t, l) /\ ~LogFatal
    BY <1>6
  <2>2. /\ InLoopThread(t, l) /\ life[t] = "running"
        /\ runs' = [runs EXCEPT ![t] = l] /\ at' = [at EXCEPT ![t] = "test"]
        /\ UNCHANGED <<life, tid, cachedTid, lastTid, threadId, pollfds, index>>
    BY <2>1 DEF Loop, GoesOn, Calls, CallsNow, existVars, pollVars
  <2>3. l = t
    BY <2>2, InLoopThreadMeans
  <2>4. LoopTypes'
    BY <2>2 DEF IInv, LoopTypes
  <2>5. OwnLoops'
    <3>1. threadId[t] = tid[t]
      BY <2>2, <2>3 DEF InLoopThread, CurrentTid, IInv, Ids
    <3>2. QED
      BY <2>2, <2>3, <3>1 DEF IInv, LoopTypes, OwnLoops
  <2>6. Places'
    BY <2>2 DEF IInv, Places
  <2>7. QED
    BY <1>1, <1>2, <2>2, <2>4, <2>5, <2>6 DEF IInv
<1>7. CASE \E fd \in Fds : EnableReading(t, fd) /\ ~LogFatal
  <2>1. PICK fd \in Fds : EnableReading(t, fd) /\ ~LogFatal
    BY <1>7
  <2>2. /\ UpdateChannel(Main, fd)
        /\ UNCHANGED <<life, tid, cachedTid, lastTid, threadId, at, runs>>
    BY <2>1 DEF EnableReading, GoesOn, existVars, loopVars
  <2>3. LoopTypes' /\ Places'
    BY <2>2, UpdateChannelEffect DEF IInv, LoopTypes
  <2>4. OwnLoops'
    BY <2>2 DEF IInv, OwnLoops
  <2>5. QED
    BY <1>1, <1>2, <2>2, <2>3, <2>4 DEF IInv
<1>8. QED
  BY <1>3, <1>4, <1>5, <1>6, <1>7 DEF ReactorCall

(* A step of a loop, in the thread it belongs to.                          *)
LEMMA LoopStep ==
  ASSUME IInv, NEW t \in Threads, TestQuit(t) \/ Poll(t) \/ HandleEvent(t)
  PROVE  IInv'
<1>1. UNCHANGED <<programVars, existVars, runs>>
  BY DEF TestQuit, Poll, HandleEvent
<1>2. ThreadTypes' /\ Ids'
  <2>1. UNCHANGED <<life, tid, cachedTid, lastTid, threadId>>
    BY <1>1 DEF programVars, threadVars, existVars
  <2>2. QED
    BY <2>1, IdsKept DEF IInv, ThreadTypes
<1>3. Once' /\ Own'
  <2>1. UNCHANGED localVars
    BY <1>1 DEF programVars
  <2>2. Once'
    BY <2>1, OnceKept DEF localVars
  <2>3. Own'
    BY <2>1 DEF IInv, Own, localVars
  <2>4. QED
    BY <2>2, <2>3
<1>4. at[t] # "calls" /\ \E a \in {"calls", "test", "poll", "handle"} : at' = [at EXCEPT ![t] = a]
  BY DEF TestQuit, Poll, HandleEvent
<1>5. OwnLoops'
  <2>1. UNCHANGED <<runs, tid, threadId>>
    BY <1>1 DEF programVars, threadVars, existVars
  <2>2. \A u \in Threads : at'[u] # "calls" => at[u] # "calls"
    BY <1>4 DEF IInv, LoopTypes
  <2>3. QED
    BY <2>1, <2>2 DEF IInv, OwnLoops
<1>6. LoopTypes' /\ Places'
  <2>1. runs' \in [Threads -> Threads] /\ at' \in [Threads -> {"calls", "test", "poll", "handle"}]
    BY <1>1, <1>4 DEF IInv, LoopTypes
  <2>2. CASE UNCHANGED pollVars
    BY <2>1, <2>2 DEF pollVars, IInv, LoopTypes, Places
  <2>3. CASE \E other : UpdateChannel(Main, other)
    BY <2>1, <2>3, UpdateChannelEffect DEF LoopTypes
  <2>4. UNCHANGED pollVars \/ \E other : UpdateChannel(Main, other)
    BY DEF TestQuit, Poll, HandleEvent
  <2>5. QED
    BY <2>2, <2>3, <2>4
<1>7. QED
  BY <1>2, <1>3, <1>5, <1>6 DEF IInv

(* Every step keeps IInv.                                                  *)
LEMMA NextCorrect == IInv /\ [Next]_vars => IInv'
<1> SUFFICES ASSUME IInv, [Next]_vars PROVE IInv'
  OBVIOUS
<1>1. ASSUME UNCHANGED <<programVars, existVars, loopVars, pollVars>> PROVE IInv'
  <2>1. UNCHANGED <<life, tid, cachedTid, lastTid, threadId, at, runs, pollfds, index,
                    localVars>>
    BY <1>1 DEF programVars, threadVars, existVars, loopVars, pollVars
  <2>2. ThreadTypes' /\ Ids'
    BY <2>1, IdsKept DEF IInv, ThreadTypes
  <2>3. Once' /\ Own'
    BY <2>1, OnceKept DEF localVars, IInv, Own
  <2>4. QED
    BY <2>1, <2>2, <2>3, LoopsKept DEF IInv
<1>2. CASE \E t \in Threads : ThreadStep(t)
  <2>1. PICK t \in Threads : ThreadStep(t)
    BY <1>2
  <2>2. CASE at[t] = "calls" /\ LocalStep(t)
             /\ UNCHANGED <<callbacks, existVars, loopVars, pollVars, ready>>
    <3>1. ThreadTypes' /\ Ids' /\ Once' /\ Own'
      BY <2>2, LocalIds, LocalOnce, LocalOwn DEF existVars
    <3>2. \A u \in Threads : at[u] # "calls" => tid'[u] = tid[u] /\ threadId'[u] = threadId[u]
      BY <2>2, LocalTids DEF existVars
    <3>3. QED
      BY <2>2, <3>1, <3>2, LoopsKept DEF IInv, loopVars, pollVars
  <2>3. QED
    BY <2>1, <2>2, ReactorCallStep, LoopStep DEF ThreadStep
<1>3. CASE \E fd \in Fds, event \in {"in", "hup"} : Event(fd, event)
  BY <1>1, <1>3 DEF Event
<1>4. CASE Ended \/ UNCHANGED vars
  BY <1>1, <1>4 DEF Ended, vars
<1>5. QED
  BY <1>2, <1>3, <1>4 DEF Next

-----------------------------------------------------------------------------
(* The invariant holds in every reachable state.                           *)
THEOREM Invariant == Spec => []IInv
<1>1. QED
  BY InitCorrect, NextCorrect, PTL DEF Spec

(* A running thread is never taken for another one, in a forked child      *)
(* either.                                                                 *)
THEOREM ThreadsKnowThemselves == Spec => []TidIsCurrent
<1>1. IInv => TidIsCurrent
  BY DEF IInv, Ids, TidIsCurrent, CurrentTid
<1>2. QED
  BY <1>1, Invariant, PTL

(* index_ finds the channel's pollfd, however callbacks enable channels.   *)
THEOREM ChannelsKeepTheirPlaces == Spec => []IndexFindsPollfd
<1>1. IInv => IndexFindsPollfd
  BY DEF IInv, Places, IndexFindsPollfd
<1>2. QED
  BY <1>1, Invariant, PTL

(* Whoever runs a loop, and its callbacks, passes the assertion            *)
(* assertInLoopThread of that loop.                                        *)
LoopersInLoopThread ==
  \A t \in Threads : Loops(t) /\ at[t] # "calls" => InLoopThread(t, runs[t])

(* The callbacks of a loop run in its own thread.                          *)
THEOREM OneLoopPerThread == Spec => []LoopersInLoopThread
<1>1. IInv => LoopersInLoopThread
  BY DEF IInv, OwnLoops, Ids, Loops, InLoopThread, CurrentTid, LoopersInLoopThread
<1>2. QED
  BY <1>1, Invariant, PTL

(* However many threads ask for the Singleton first, one is made.          *)
OneSingletonMade == Cardinality({o \in made : o.kind = "singleton"}) <= 1

(* No thread finds an object of another one's in its keys.                 *)
OwnObjects == \A k \in Keys, t \in Threads : \A o \in specific[k][t] : o.by = t

(* The invariant says both.                                                *)
LEMMA OneOwner == IInv => OneSingletonMade /\ OwnObjects
<1> SUFFICES ASSUME IInv PROVE OneSingletonMade /\ OwnObjects
  OBVIOUS
<1>1. Singletons = {} \/ \E o : Singletons = {o}
  BY DEF IInv, Once
<1>2. Cardinality(Singletons) <= 1
  <2>1. Singletons = {} => Cardinality(Singletons) = 0
    BY FS_EmptySet
  <2>2. (\E o : Singletons = {o}) => Cardinality(Singletons) = 1
    BY FS_Singleton
  <2>3. QED
    BY <1>1, <2>1, <2>2
<1>3. QED
  BY <1>2 DEF IInv, Own, Singletons, OneSingletonMade, OwnObjects

(* There is never a second Singleton, and what a thread's keys give is its *)
(* own, in every program.                                                  *)
THEOREM ObjectsHaveOneOwner == Spec => [](OneSingletonMade /\ OwnObjects)
<1>1. QED
  BY OneOwner, Invariant, PTL

(* No thread changes pollfds_ while another is inside poll(2) with them:   *)
(* whoever gets to them is the loop's own thread.                          *)
THEOREM NobodyElseInPoll == Spec => PollfdsStayInPoll
<1> DEFINE Stay == \A t \in Threads :
                     at[t] = "poll" /\ at'[t] = "poll" => pollfds'[runs[t]] = pollfds[runs[t]]
<1>1. IInv /\ [Next]_vars => [Stay]_vars
  <2> SUFFICES ASSUME IInv, Next, NEW t \in Threads, at[t] = "poll", at'[t] = "poll"
               PROVE  pollfds'[runs[t]] = pollfds[runs[t]]
    OBVIOUS
  <2>1. runs[t] = t
    BY DEF IInv, OwnLoops
  <2>2. CASE UNCHANGED pollfds
    BY <2>2
  <2>3. ASSUME NEW fd, UpdateChannel(Main, fd), at[Main] # "poll" \/ at'[Main] # "poll"
        PROVE  pollfds'[runs[t]] = pollfds[runs[t]]
    BY <2>1, <2>3, UpdateChannelEffect
  <2>4. CASE \E u \in Threads : ThreadStep(u)
    <3>1. PICK u \in Threads : ThreadStep(u)
      BY <2>4
    <3>2. Main \in Threads
      BY ReactorAssumption
    <3>3. CASE \E fd \in Fds : at[u] = "calls" /\ EnableReading(u, fd)
      <4>1. PICK fd \in Fds : at[u] = "calls" /\ EnableReading(u, fd)
        BY <3>3
      <4>2. CASE LogFatal
        BY <2>2, <4>2 DEF LogFatal, pollVars
      <4>3. CASE InLoopThread(u, Main) /\ UpdateChannel(Main, fd)
        <5>1. u = Main
          BY <3>2, <4>1, <4>3, InLoopThreadMeans DEF EnableReading, Calls, CallsNow
        <5>2. QED
          BY <2>3, <4>1, <4>3, <5>1
      <4>4. QED
        BY <4>1, <4>2, <4>3 DEF EnableReading
    <3>4. CASE HandleEvent(u)
      <4>1. CASE UNCHANGED pollVars
        BY <2>2, <4>1 DEF pollVars
      <4>2. CASE InLoopThread(u, Main) /\ \E fd : UpdateChannel(Main, fd)
        <5>1. u = Main
          BY <3>2, <3>4, <4>2, InLoopThreadMeans DEF HandleEvent, Loops
        <5>2. at[Main] # "poll"
          BY <3>4, <5>1 DEF HandleEvent
        <5>3. QED
          BY <2>3, <4>2, <5>2
      <4>3. QED
        BY <3>4, <4>1, <4>2 DEF HandleEvent
    <3>5. CASE TestQuit(u) \/ Poll(u) \/ UNCHANGED pollVars
      BY <2>2, <3>5 DEF TestQuit, Poll, pollVars
    <3>6. CASE NewEventLoop(u) \/ DeleteEventLoop(u)
               \/ \E l \in Threads : Quit(u, l) \/ Loop(u, l)
      BY <2>2, <3>6 DEF NewEventLoop, DeleteEventLoop, Quit, Loop, LogFatal, pollVars
    <3>7. QED
      BY <3>1, <3>3, <3>4, <3>5, <3>6 DEF ThreadStep, ReactorCall
  <2>5. CASE (\E fd \in Fds, event \in {"in", "hup"} : Event(fd, event)) \/ Ended
    BY <2>2, <2>5 DEF Event, Ended, vars, pollVars
  <2>6. QED
    BY <2>4, <2>5 DEF Next
<1>2. QED
  BY <1>1, Invariant, PTL DEF Spec, PollfdsStayInPoll

-----------------------------------------------------------------------------
(* The calls of a program, and what a thread has yet to call.              *)
Ops == {"new", "start", "loop", "delete", "join", "exit", "enable", "quit", "fork", "throw",
        "instance", "value", "tlsInstance", "set", "deleteKey"}
Steps == [op : Ops, on : Threads \cup Fds \cup Keys]
Says(s, op) == \E i \in DOMAIN s : s[i].op = op
Does(t, op) == Says(calls[t], op)

(* A thread that will not ask for anything any more.                       *)
Over(t) == life[t] \in {"failed", "finished", "crashed", "lost"}

(* What the calls of a program are.                                        *)
CallTypes == calls \in [Threads -> Seq(Steps)]

(* Only the key of TSD_Demo is deleted.                                    *)
KeysStay ==
  /\ {"local", "tls"} \subseteq keys
  /\ \A t \in Threads : \A i \in DOMAIN calls[t] :
       calls[t][i].op = "deleteKey" => calls[t][i].on = "demo"

(* An object belongs to a thread that has not ended, whose key gives it.   *)
Held ==
  /\ \A t \in Threads : specific["tls"][t] = tValue[t]
  /\ \A o \in live : o.kind # "singleton" =>
       /\ o.kind \in Keys /\ o.by \in Threads /\ life[o.by] # "finished"
       /\ o.kind # "demo" => o \in specific[o.kind][o.by]

(* Who is to end the process has nothing of its own: exit calls no         *)
(* destructor of a key.                                                    *)
LeavesNothing ==
  \A t \in Threads : Does(t, "exit") =>
    /\ ~Does(t, "value") /\ ~Does(t, "tlsInstance") /\ ~Does(t, "set")
    /\ \A o \in live : o.by = t => o.kind = "singleton"

(* It joins, before, every thread that has yet to ask for the Singleton.   *)
JoinsAskers ==
  \A t, u \in Threads : t # u /\ Does(u, "instance") /\ ~Over(u) =>
    \A i \in DOMAIN calls[t] : calls[t][i].op = "exit" =>
      \E j \in 1..(i - 1) : calls[t][j] = Call("join", u)

(* Once the process exits, they are over.                                  *)
AskersOver == process = "exiting" => \A u \in Threads : Does(u, "instance") => Over(u)

(* What a program of the repository keeps besides IInv.                    *)
Tidy == CallTypes /\ KeysStay /\ Held /\ LeavesNothing /\ JoinsAskers /\ AskersOver

-----------------------------------------------------------------------------
(* The threads are three.                                                  *)
LEMMA DifferentThreads ==
  /\ Main \in Threads /\ Other \in Threads /\ Third \in Threads
  /\ Main # Other /\ Main # Third /\ Other # Third
<1>1. \A a, b : Cardinality({a, b}) <= 2
  <2> SUFFICES ASSUME NEW a, NEW b PROVE Cardinality({a, b}) <= 2
    OBVIOUS
  <2>1. IsFiniteSet({a}) /\ Cardinality({a}) = 1
    BY FS_Singleton
  <2>2. {a, b} = {a} \cup {b}
    OBVIOUS
  <2>3. Cardinality({a, b}) \in {1, 2}
    BY <2>1, <2>2, FS_AddElement
  <2> QED
    BY <2>3
<1>2. \A a, b : Threads # {a, b}
  <2>1. Cardinality(Threads) = 3
    BY ReactorAssumption
  <2> SUFFICES ASSUME NEW a, NEW b, Threads = {a, b} PROVE FALSE
    OBVIOUS
  <2>2. Cardinality(Threads) <= 2
    BY <1>1
  <2> QED
    BY <2>1, <2>2
<1>3. Main = Other => Threads = {Main, Third}
  BY ReactorAssumption
<1>4. Main = Third => Threads = {Main, Other}
  BY ReactorAssumption
<1>5. Other = Third => Threads = {Main, Other}
  BY ReactorAssumption
<1>6. Main \in Threads /\ Other \in Threads /\ Third \in Threads
  BY ReactorAssumption
<1> QED
  BY <1>2, <1>3, <1>4, <1>5, <1>6, Zenon

(* Main joins a thread that asks for the Singleton before it exits.        *)
Joins(main, asker, u) ==
  Says(asker, "instance") =>
    \A i \in DOMAIN main : main[i].op = "exit" => \E j \in 1..(i - 1) : main[j] = Call("join", u)

(* A program in which only main may exit, has then no object of its own,   *)
(* and has joined whoever asks for the Singleton.                          *)
Careful(main, other, third) ==
  /\ main \in Seq(Steps) /\ other \in Seq(Steps) /\ third \in Seq(Steps)
  /\ \A s \in {main, other, third} : \A i \in DOMAIN s : s[i].op = "deleteKey" => s[i].on = "demo"
  /\ ~Says(other, "exit") /\ ~Says(third, "exit")
  /\ Says(main, "exit") =>
       ~Says(main, "value") /\ ~Says(main, "tlsInstance") /\ ~Says(main, "set")
  /\ Joins(main, other, Other) /\ Joins(main, third, Third)

(* A careful program starts tidy.                                          *)
LEMMA CarefulStart ==
  ASSUME NEW main, NEW other, NEW third, NEW does, Careful(main, other, third),
         ThreadInit(Program(main, other, third, does).calls), LocalInit
  PROVE  Tidy
<1>1. /\ calls = [t \in Threads |-> IF t = Main THEN main ELSE IF t = Other THEN other ELSE third]
      /\ live = {} /\ keys = Keys /\ specific = [k \in Keys |-> [t \in Threads |-> {}]]
      /\ tValue = [t \in Threads |-> {}] /\ process = "running"
  BY DEF ThreadInit, LocalInit, Program
<1>2. calls[Main] = main /\ calls[Other] = other /\ calls[Third] = third
  BY <1>1, DifferentThreads
<1>3. CallTypes
  BY <1>1 DEF CallTypes, Careful
<1>4. KeysStay
  BY <1>1, <1>2, ReactorAssumption DEF KeysStay, Careful, Keys, Kinds
<1>5. Held
  BY <1>1 DEF Held, Keys, Kinds
<1>6. LeavesNothing
  BY <1>1, <1>2, ReactorAssumption DEF LeavesNothing, Does, Careful
<1>7. JoinsAskers
  <2> SUFFICES ASSUME NEW t \in Threads, NEW u \in Threads, t # u, Does(u, "instance"),
                      NEW i \in DOMAIN calls[t], calls[t][i].op = "exit"
               PROVE  \E j \in 1..(i - 1) : calls[t][j] = Call("join", u)
    BY DEF JoinsAskers
  <2>1. t = Main
    BY <1>2, ReactorAssumption DEF Careful, Says
  <2>2. u \in {Other, Third}
    BY <2>1, ReactorAssumption
  <2> QED
    BY <1>2, <2>1, <2>2 DEF Careful, Joins, Does
<1>8. AskersOver
  BY <1>1 DEF AskersOver
<1> QED
  BY <1>3, <1>4, <1>5, <1>6, <1>7, <1>8 DEF Tidy
-----------------------------------------------------------------------------
(* The calls of a thread that neither exits nor deletes a key, and those   *)
(* of one that exits and has nothing of its own.                           *)
PlainSteps == {s \in Steps : s.op \notin {"instance", "exit", "deleteKey"}}
LastSteps ==
  {s \in Steps : /\ s.op \notin {"instance", "value", "tlsInstance", "set"}
                 /\ s.op = "deleteKey" => s.on = "demo"}

(* Which calls these are.                                                  *)
LEMMA StepsAre ==
  ASSUME NEW op \in Ops, NEW x \in Threads \cup Fds
  PROVE  /\ Call(op, x) \in Steps
         /\ op \notin {"instance", "exit", "deleteKey"} => Call(op, x) \in PlainSteps
         /\ op \notin {"instance", "value", "tlsInstance", "set", "deleteKey"} =>
              Call(op, x) \in LastSteps
BY DEF Call, Steps, PlainSteps, LastSteps

(* A program that does not ask for the Singleton is careful if its threads *)
(* make such calls.                                                        *)
LEMMA NobodyAsks ==
  ASSUME NEW main, main \in Seq(PlainSteps) \/ main \in Seq(LastSteps),
         NEW other \in Seq(PlainSteps), NEW third \in Seq(PlainSteps)
  PROVE  Careful(main, other, third)
<1>1. /\ main \in Seq(Steps) /\ other \in Seq(Steps) /\ third \in Seq(Steps)
  BY SeqMonotonic DEF PlainSteps, LastSteps
<1>2. \A i \in DOMAIN main : main[i] \in PlainSteps \cup LastSteps
  BY ElementOfSeq
<1>3. /\ \A i \in DOMAIN other : other[i] \in PlainSteps
      /\ \A i \in DOMAIN third : third[i] \in PlainSteps
  BY ElementOfSeq
<1>4. Says(main, "exit") => \A i \in DOMAIN main : main[i] \in LastSteps
  BY ElementOfSeq DEF Says, PlainSteps
<1> QED
  BY <1>1, <1>2, <1>3, <1>4 DEF Careful, Joins, Says, PlainSteps, LastSteps

(* Each of the programs is careful.                                        *)
LEMMA ProgramsAreCareful ==
  ASSUME NEW p \in Programs
  PROVE  \E main, other, third, does :
           p = Program(main, other, third, does) /\ Careful(main, other, third)
<1> USE DifferentThreads, StepsAre DEF Ops, Fds
<1>0. << >> \in Seq(PlainSteps)
  OBVIOUS
<1>1. CASE p = Test1
  <2>1. <<Call("new", Main), Call("start", Other), Call("loop", Main)>>
          \in Seq(PlainSteps)
    OBVIOUS
  <2>2. <<Call("new", Other), Call("loop", Other), Call("delete", Other)>> \in Seq(PlainSteps)
    OBVIOUS
  <2> QED
    BY <1>1, <2>1, <2>2, <1>0, NobodyAsks DEF Test1
<1>2. CASE p = Test2
  <2>1. <<Call("new", Main), Call("start", Other), Call("join", Other), Call("delete", Main),
          Call("exit", Main)>> \in Seq(LastSteps)
    OBVIOUS
  <2>2. <<Call("loop", Main)>> \in Seq(PlainSteps)
    OBVIOUS
  <2> QED
    BY <1>2, <2>1, <2>2, <1>0, NobodyAsks DEF Test2
<1>3. CASE p = Test3
  <2>1. <<Call("new", Main), Call("enable", Timer), Call("loop", Main), Call("delete", Main),
          Call("exit", Main)>> \in Seq(LastSteps)
    OBVIOUS
  <2> QED
    BY <1>3, <2>1, <1>0, NobodyAsks DEF Test3
<1>4. CASE p = TwoLoopsInAThread
  <2>1. <<Call("new", Main), Call("new", Main)>> \in Seq(PlainSteps)
    OBVIOUS
  <2> QED
    BY <1>4, <2>1, <1>0, NobodyAsks DEF TwoLoopsInAThread
<1>5. CASE p = QuitByOther
  <2>1. <<Call("new", Main), Call("enable", Timer), Call("start", Other), Call("loop", Main),
          Call("join", Other), Call("delete", Main)>> \in Seq(PlainSteps)
    OBVIOUS
  <2>2. <<Call("quit", Main)>> \in Seq(PlainSteps)
    OBVIOUS
  <2> QED
    BY <1>5, <2>1, <2>2, <1>0, NobodyAsks DEF QuitByOther
<1>6. CASE p = EnableByOther
  <2>1. <<Call("new", Main), Call("enable", Timer), Call("start", Other), Call("loop", Main)>>
          \in Seq(PlainSteps)
    OBVIOUS
  <2>2. <<Call("enable", Pipe)>> \in Seq(PlainSteps)
    OBVIOUS
  <2> QED
    BY <1>6, <2>1, <2>2, <1>0, NobodyAsks DEF EnableByOther
<1>7. CASE p = ForkThenLoop
  <2>1. <<Call("new", Main), Call("fork", Main), Call("start", Other), Call("loop", Main)>>
          \in Seq(PlainSteps)
    OBVIOUS
  <2>2. <<Call("new", Other), Call("throw", Other)>> \in Seq(PlainSteps)
    OBVIOUS
  <2> QED
    BY <1>7, <2>1, <2>2, <1>0, NobodyAsks DEF ForkThenLoop
<1>8. CASE p = TestThreadLocal
  <2>1. <<Call("value", Main), Call("start", Other), Call("start", Third),
          Call("join", Other), Call("value", Main), Call("join", Third)>> \in Seq(PlainSteps)
    OBVIOUS
  <2>2. <<Call("value", Other), Call("value", Other)>> \in Seq(PlainSteps)
    OBVIOUS
  <2>3. <<Call("value", Third)>> \in Seq(PlainSteps)
    OBVIOUS
  <2> QED
    BY <1>8, <2>1, <2>2, <2>3, NobodyAsks DEF TestThreadLocal
<1>9. CASE p = TestThreadLocalSingleton
  <2>1. <<Call("tlsInstance", Main), Call("start", Other), Call("start", Third),
          Call("join", Other), Call("tlsInstance", Main), Call("join", Third)>>
          \in Seq(PlainSteps)
    OBVIOUS
  <2>2. <<Call("tlsInstance", Other), Call("tlsInstance", Other)>> \in Seq(PlainSteps)
    OBVIOUS
  <2>3. <<Call("tlsInstance", Third)>> \in Seq(PlainSteps)
    OBVIOUS
  <2> QED
    BY <1>9, <2>1, <2>2, <2>3, NobodyAsks DEF TestThreadLocalSingleton
<1>10. CASE p = TsdDemo
  <2>0. Call("deleteKey", "demo") \in LastSteps
    BY DEF Call, Steps, LastSteps, Keys, Kinds
  <2>1. <<Call("start", Other), Call("start", Third), Call("join", Other),
          Call("join", Third), Call("deleteKey", "demo"), Call("exit", Main)>> \in Seq(LastSteps)
    BY <2>0
  <2>2. <<Call("set", Other)>> \in Seq(PlainSteps)
    OBVIOUS
  <2>3. <<Call("set", Third)>> \in Seq(PlainSteps)
    OBVIOUS
  <2> QED
    BY <1>10, <2>1, <2>2, <2>3, NobodyAsks DEF TsdDemo
<1>11. CASE p = TestSingleton
  <2> DEFINE main == <<Call("start", Other), Call("start", Third), Call("instance", Main),
                       Call("join", Other), Call("join", Third), Call("instance", Main),
                       Call("exit", Main)>>
             other == <<Call("instance", Other), Call("instance", Other)>>
             third == <<Call("instance", Third)>>
  <2>1. main \in Seq(Steps) /\ DOMAIN main = 1..7
    OBVIOUS
  <2>2. other \in Seq(Steps)
    OBVIOUS
  <2>3. third \in Seq(Steps)
    OBVIOUS
  <2>4. \A i \in 1..7 : main[i].op \in {"start", "instance", "join", "exit"}
    BY DEF Call
  <2>5. \A i \in 1..6 : main[i].op # "exit"
    BY DEF Call
  <2>6. main[4] = Call("join", Other) /\ main[5] = Call("join", Third)
    OBVIOUS
  <2>7. \A i \in DOMAIN other : other[i].op = "instance"
    BY DEF Call
  <2>8. \A i \in DOMAIN third : third[i].op = "instance"
    BY DEF Call
  <2>9. p = Program(main, other, third, NoCallbacks)
    BY <1>11 DEF TestSingleton
  <2> HIDE DEF main, other, third
  <2>10. Joins(main, other, Other) /\ Joins(main, third, Third)
    BY <2>1, <2>5, <2>6 DEF Joins
  <2>11. Careful(main, other, third)
    BY <2>1, <2>2, <2>3, <2>4, <2>7, <2>8, <2>10 DEF Careful, Says
  <2> QED
    BY <2>9, <2>11
<1> QED
  BY <1>1, <1>2, <1>3, <1>4, <1>5, <1>6, <1>7, <1>8, <1>9, <1>10, <1>11 DEF Programs

(* So each of them starts tidy.                                            *)
LEMMA TidyStart == Init => Tidy
<1> SUFFICES ASSUME Init PROVE Tidy
  OBVIOUS
<1>1. PICK p \in Programs : ThreadInit(p.calls)
  BY DEF Init
<1>2. PICK main, other, third, does :
        p = Program(main, other, third, does) /\ Careful(main, other, third)
  BY ProgramsAreCareful
<1>3. LocalInit
  BY DEF Init
<1> QED
  BY <1>1, <1>2, <1>3, CarefulStart

-----------------------------------------------------------------------------
(* A step takes at most the next call of one thread, and takes a join only *)
(* when the other thread is over.                                          *)
Advances(t) ==
  /\ calls[t] # << >> /\ calls' = [calls EXCEPT ![t] = Tail(@)]
  /\ \A u : Head(calls[t]) = Call("join", u) => Over(u)

(* Every step does.                                                        *)
LEMMA CallsMove ==
  ASSUME [Next]_vars
  PROVE  UNCHANGED calls \/ \E t \in Threads : Advances(t)
<1>1. ASSUME NEW t, NEW op, NEW x, op # "join", Calls(t, op, x)
      PROVE  Advances(t)
  BY <1>1 DEF Calls, CallsNow, Advances, Call
<1>2. ASSUME NEW t, NEW v, JoinThread(t, v)
      PROVE  Advances(t)
  BY <1>2 DEF JoinThread, Calls, CallsNow, Advances, Call, Over
<1>3. ASSUME NEW t \in Threads, ThreadStep(t)
      PROVE  UNCHANGED calls \/ Advances(t)
  <2>1. CASE ReactorCall(t)
    BY <1>1, <2>1 DEF ReactorCall, NewEventLoop, DeleteEventLoop, Quit, Loop, EnableReading
  <2>2. CASE TestQuit(t) \/ Poll(t) \/ HandleEvent(t)
    BY <2>2 DEF TestQuit, Poll, HandleEvent, programVars, threadVars
  <2>3. CASE BeginInit(t) \/ EndInit(t) \/ RunInThread(t) \/ ThreadReturns(t)
    BY <2>3 DEF BeginInit, EndInit, RunInThread, ThreadReturns, threadVars
  <2>4. CASE Instance(t) \/ Exit(t) \/ Value(t) \/ TlsInstance(t) \/ SetSpecific(t)
    BY <1>1, <2>4 DEF Instance, Exit, Value, TlsInstance, SetSpecific
  <2>5. CASE (\E k \in Keys : DeleteKey(t, k)) \/ ThreadThrows(t) \/ Fork(t)
             \/ \E u \in Threads : StartThread(t, u)
    BY <1>1, <2>5 DEF DeleteKey, ThreadThrows, Fork, StartThread
  <2>6. CASE \E u \in Threads : JoinThread(t, u)
    BY <1>2, <2>6
  <2> QED
    BY <1>3, <2>1, <2>2, <2>3, <2>4, <2>5, <2>6 DEF ThreadStep, LocalStep
<1> QED
  BY <1>3 DEF Next, Event, Ended, vars, programVars, threadVars

(* What is left of the calls after that.                                   *)
LEMMA FewerCalls ==
  ASSUME CallTypes, [Next]_vars
  PROVE  /\ CallTypes'
         /\ \A op : \A t \in Threads : Does(t, op)' => Does(t, op)
         /\ \A t \in Threads : \A i \in DOMAIN calls'[t] : \E j \in DOMAIN calls[t] :
              calls'[t][i] = calls[t][j]
<1>1. CASE UNCHANGED calls
  BY <1>1 DEF CallTypes, Does, Says
<1>2. CASE \E t \in Threads : Advances(t)
  <2> PICK t \in Threads : Advances(t)
    BY <1>2
  <2>1. calls[t] \in Seq(Steps) /\ calls[t] # << >> /\ calls'[t] = Tail(calls[t])
    BY DEF CallTypes, Advances
  <2>2. /\ calls'[t] \in Seq(Steps)
        /\ \A i \in DOMAIN calls'[t] :
             i + 1 \in DOMAIN calls[t] /\ calls'[t][i] = calls[t][i + 1]
    BY <2>1
  <2>3. \A u \in Threads : u # t => calls'[u] = calls[u]
    BY DEF CallTypes, Advances
  <2>4. CallTypes'
    BY <2>2 DEF CallTypes, Advances
  <2>5. \A u \in Threads : \A i \in DOMAIN calls'[u] : \E j \in DOMAIN calls[u] :
          calls'[u][i] = calls[u][j]
    BY <2>2, <2>3
  <2> QED
    BY <2>4, <2>5 DEF Does, Says
<1> QED
  BY <1>1, <1>2, CallsMove

(* A thread that is over stays so, and only exit makes the process exit.   *)
LEMMA OverStays ==
  ASSUME IInv, [Next]_vars
  PROVE  /\ \A u \in Threads : Over(u) => Over(u)'
         /\ process' = "exiting" =>
              process = "exiting" \/ \E t \in Threads : Exit(t)
<1>0. life \in [Threads -> Lives]
  BY DEF IInv, ThreadTypes
<1>1. ASSUME NEW t \in Threads, ThreadStep(t)
      PROVE  /\ \A u \in Threads : Over(u) => Over(u)'
             /\ process' = "exiting" => process = "exiting" \/ Exit(t)
  <2>1. CASE ReactorCall(t)
    BY <2>1 DEF ReactorCall, NewEventLoop, DeleteEventLoop, Quit, Loop, EnableReading, GoesOn,
                LogFatal, Abort, Over
  <2>2. CASE TestQuit(t) \/ Poll(t) \/ HandleEvent(t) \/ BeginInit(t) \/ EndInit(t)
    BY <2>2 DEF TestQuit, Poll, HandleEvent, BeginInit, EndInit, programVars, threadVars, Over
  <2>3. CASE Instance(t) \/ Value(t) \/ TlsInstance(t) \/ SetSpecific(t)
             \/ \E k \in Keys : DeleteKey(t, k)
    BY <2>3 DEF Instance, Value, TlsInstance, SetSpecific, DeleteKey, Over
  <2>4. CASE Exit(t)
    BY <1>0, <2>4 DEF Exit, Over
  <2>5. CASE RunInThread(t) \/ ThreadReturns(t) \/ ThreadThrows(t)
    BY <1>0, <2>5 DEF RunInThread, ThreadReturns, ThreadThrows, Calls, CallsNow, Over
  <2>6. CASE \E u \in Threads : JoinThread(t, u) \/ StartThread(t, u)
    BY <1>0, <2>6 DEF JoinThread, StartThread, Abort, Over
  <2>7. CASE Fork(t)
    BY <1>0, <2>7 DEF Fork, Over
  <2> QED
    BY <1>1, <2>1, <2>2, <2>3, <2>4, <2>5, <2>6, <2>7 DEF ThreadStep, LocalStep
<1> QED
  BY <1>1 DEF Next, Event, Ended, vars, programVars, threadVars, Over

(* Whoever exits has joined those who would still ask.                     *)
LEMMA AskersStep ==
  ASSUME IInv, Tidy, [Next]_vars
  PROVE  JoinsAskers' /\ AskersOver'
<1>1. JoinsAskers'
  <2> SUFFICES ASSUME NEW t \in Threads, NEW u \in Threads, t # u,
                      Does(u, "instance")', ~Over(u)',
                      NEW i \in DOMAIN calls'[t], calls'[t][i].op = "exit"
               PROVE  \E j \in 1..(i - 1) : calls'[t][j] = Call("join", u)
    BY DEF JoinsAskers
  <2>1. Does(u, "instance") /\ ~Over(u)
    BY FewerCalls, OverStays DEF Tidy
  <2>2. CASE calls'[t] = calls[t]
    BY <2>1, <2>2 DEF Tidy, JoinsAskers
  <2>3. CASE Advances(t)
    <3>1. calls[t] \in Seq(Steps) /\ calls[t] # << >> /\ calls'[t] = Tail(calls[t])
      BY <2>3 DEF Tidy, CallTypes, Advances
    <3>2. /\ i \in Nat \ {0} /\ i + 1 \in DOMAIN calls[t]
          /\ calls[t][i + 1].op = "exit"
      BY <3>1
    <3>3. PICK j \in 1..i : calls[t][j] = Call("join", u)
      BY <2>1, <3>2 DEF Tidy, JoinsAskers
    <3>4. j # 1
      BY <2>1, <2>3, <3>1, <3>3 DEF Advances
    <3>5. j - 1 \in 1..(i - 1) /\ calls'[t][j - 1] = calls[t][j]
      BY <3>1, <3>2, <3>3, <3>4
    <3> QED
      BY <3>3, <3>5
  <2> QED
    BY <2>2, <2>3, CallsMove DEF Tidy, CallTypes, Advances
<1>2. AskersOver'
  <2> SUFFICES ASSUME process' = "exiting", NEW u \in Threads, Does(u, "instance")'
               PROVE  Over(u)'
    BY DEF AskersOver
  <2>1. Does(u, "instance")
    BY FewerCalls DEF Tidy
  <2>2. CASE process = "exiting"
    BY <2>1, <2>2, OverStays DEF Tidy, AskersOver
  <2>3. CASE \E t \in Threads : Exit(t)
    <3> PICK t \in Threads : Exit(t)
      BY <2>3
    <3>1. CASE t = u
      BY <3>1 DEF Exit, Over, IInv, ThreadTypes
    <3>2. CASE t # u
      <4>1. calls[t] \in Seq(Steps) /\ calls[t] # << >> /\ Head(calls[t]).op = "exit"
        BY DEF Exit, Calls, CallsNow, Call, Tidy, CallTypes
      <4>2. 1 \in DOMAIN calls[t] /\ calls[t][1].op = "exit"
        BY <4>1
      <4>3. Over(u)
        BY <2>1, <3>2, <4>2 DEF Tidy, JoinsAskers
      <4> QED
        BY <4>3, OverStays
    <3> QED
      BY <3>1, <3>2
  <2> QED
    BY <2>2, <2>3, OverStays
<1> QED
  BY <1>1, <1>2

(* A call that is made was there to be made.                               *)
LEMMA CalledIsThere ==
  ASSUME CallTypes, NEW t \in Threads, NEW op, NEW x, CallsNow(t, op, x)
  PROVE  /\ life[t] = "running" /\ Does(t, op)
         /\ \E i \in DOMAIN calls[t] : calls[t][i] = Call(op, x)
<1>1. calls[t] \in Seq(Steps) /\ calls[t] # << >> /\ Head(calls[t]) = Call(op, x)
  BY DEF CallsNow, CallTypes
<1>2. 1 \in DOMAIN calls[t] /\ calls[t][1] = Call(op, x)
  BY <1>1
<1> QED
  BY <1>2 DEF CallsNow, Does, Says, Call

(* No key is deleted but the demo's.                                       *)
LEMMA KeysStep ==
  ASSUME Tidy, [Next]_vars
  PROVE  KeysStay'
<1>1. UNCHANGED keys \/ \E t \in Threads, k \in Keys : DeleteKey(t, k)
  <2>1. ASSUME NEW t \in Threads, ThreadStep(t)
        PROVE  UNCHANGED keys \/ \E k \in Keys : DeleteKey(t, k)
    BY <2>1 DEF ThreadStep, ReactorCall, TestQuit, Poll, HandleEvent, LocalStep, BeginInit,
                EndInit, Instance, Exit, Value, TlsInstance, SetSpecific, LocalsEnd,
                localVars, programVars
  <2> QED
    BY <2>1 DEF Next, Event, Ended, vars, programVars, localVars
<1>2. {"local", "tls"} \subseteq keys'
  <2>1. ASSUME NEW t \in Threads, NEW k \in Keys, DeleteKey(t, k)
        PROVE  k = "demo"
    <3>1. \E i \in DOMAIN calls[t] : calls[t][i] = Call("deleteKey", k)
      BY <2>1, CalledIsThere DEF DeleteKey, Calls, Tidy
    <3> QED
      BY <3>1 DEF Tidy, KeysStay, Call
  <2> QED
    BY <1>1, <2>1 DEF DeleteKey, Tidy, KeysStay
<1>3. \A t \in Threads : \A i \in DOMAIN calls'[t] :
        calls'[t][i].op = "deleteKey" => calls'[t][i].on = "demo"
  BY FewerCalls DEF Tidy, KeysStay
<1> QED
  BY <1>2, <1>3 DEF KeysStay

(* Who makes an object of its own is not who exits.                        *)
LEMMA LeavesStep ==
  ASSUME Tidy, [Next]_vars
  PROVE  LeavesNothing'
<1>1. \A o \in live' : \/ o \in live \/ o.kind = "singleton"
                       \/ Does(o.by, "value") \/ Does(o.by, "tlsInstance") \/ Does(o.by, "set")
  <2>1. ASSUME NEW t \in Threads, Value(t) \/ TlsInstance(t) \/ SetSpecific(t)
        PROVE  Does(t, "value") \/ Does(t, "tlsInstance") \/ Does(t, "set")
    BY <2>1, CalledIsThere DEF Value, TlsInstance, SetSpecific, Calls, Tidy
  <2>2. ASSUME NEW t \in Threads, ThreadStep(t)
        PROVE  \/ live' \subseteq live
               \/ live' = live \cup {NewObject("singleton", t)}
               \/ /\ Value(t) \/ TlsInstance(t) \/ SetSpecific(t)
                  /\ \E kind : live' = live \cup {NewObject(kind, t)}
    BY <2>2 DEF ThreadStep, ReactorCall, TestQuit, Poll, HandleEvent, LocalStep, BeginInit,
                EndInit, Instance, Exit, Value, TlsInstance, SetSpecific, DeleteKey,
                LocalsEnd, Make, localVars, programVars
  <2>3. ASSUME NEW t \in Threads, ThreadStep(t), NEW o \in live'
        PROVE  \/ o \in live \/ o.kind = "singleton"
               \/ Does(o.by, "value") \/ Does(o.by, "tlsInstance") \/ Does(o.by, "set")
    BY <2>1, <2>2, <2>3 DEF NewObject
  <2>4. CASE UNCHANGED live
    BY <2>4
  <2> QED
    BY <2>3, <2>4 DEF Next, Event, Ended, vars, programVars, localVars
<1> QED
  BY <1>1, FewerCalls DEF Tidy, LeavesNothing

(* Nobody ends and nothing is made but a Singleton.                        *)
LEMMA HeldKept ==
  ASSUME Held, UNCHANGED <<specific, tValue>>,
         \A o \in live' : o \in live \/ o.kind = "singleton",
         \A t \in Threads : life'[t] = "finished" =>
           life[t] = "finished" \/ \A o \in live : o.by = t => o.kind = "singleton"
  PROVE  Held'
BY DEF Held

(* A thread has made its first object with a key, which gives it.          *)
LEMMA HeldMake ==
  ASSUME IInv, Held, NEW t \in Threads, NEW kind \in Keys, Make(kind, t), life' = life,
         life[t] = "running", kind # "demo" => specific[kind][t] = {},
         specific' = [specific EXCEPT ![kind][t] = {NewObject(kind, t)}],
         IF kind = "tls" THEN tValue' = [tValue EXCEPT ![t] = {NewObject(kind, t)}]
                         ELSE tValue' = tValue
  PROVE  Held'
<1>1. /\ DOMAIN specific = Keys /\ \A k \in Keys : DOMAIN specific[k] = Threads
      /\ DOMAIN tValue = Threads /\ "tls" \in Keys
  BY DEF IInv, Own, Keys, Kinds
<1>2. \A k \in Keys, u \in Threads :
        specific'[k][u] = IF k = kind /\ u = t THEN {NewObject(kind, t)} ELSE specific[k][u]
  BY <1>1
<1>3. ASSUME NEW u \in Threads
      PROVE  specific'["tls"][u] = tValue'[u]
  BY <1>1, <1>2 DEF Held
<1>4. ASSUME NEW o \in live', o.kind # "singleton"
      PROVE  /\ o.kind \in Keys /\ o.by \in Threads /\ life'[o.by] # "finished"
             /\ o.kind # "demo" => o \in specific'[o.kind][o.by]
  <2>1. CASE o = NewObject(kind, t)
    BY <1>2, <2>1 DEF NewObject
  <2>2. CASE o \in live
    BY <1>2, <1>4, <2>2 DEF Held
  <2> QED
    BY <2>1, <2>2 DEF Make
<1> QED
  BY <1>3, <1>4 DEF Held

(* A thread that ends takes its objects with it, by the keys and the end   *)
(* of its stack.                                                           *)
LEMMA HeldEnd ==
  ASSUME IInv, Tidy, NEW t \in Threads, ThreadReturns(t), LocalsEnd(t)
  PROVE  Held'
<1>1. /\ DOMAIN specific = Keys /\ \A k \in Keys : DOMAIN specific[k] = Threads
      /\ DOMAIN tValue = Threads /\ "tls" \in Keys /\ "tls" \in keys /\ "local" \in keys
      /\ life \in [Threads -> Lives]
  BY DEF IInv, Own, ThreadTypes, Keys, Kinds, Tidy, KeysStay
<1>2. \A k \in Keys, u \in Threads :
        specific'[k][u] = IF k \in keys /\ u = t THEN {} ELSE specific[k][u]
  BY <1>1 DEF LocalsEnd
<1>3. ASSUME NEW u \in Threads
      PROVE  specific'["tls"][u] = tValue'[u]
  BY <1>1, <1>2 DEF LocalsEnd, Tidy, Held
<1>4. ASSUME NEW o \in live', o.kind # "singleton"
      PROVE  /\ o.kind \in Keys /\ o.by \in Threads /\ life'[o.by] # "finished"
             /\ o.kind # "demo" => o \in specific'[o.kind][o.by]
  <2>1. o \in live /\ o \notin Destroyed(t)
    BY DEF LocalsEnd
  <2>2. /\ o.kind \in Keys /\ o.by \in Threads /\ life[o.by] # "finished"
        /\ o.kind # "demo" => o \in specific[o.kind][o.by]
    BY <1>4, <2>1 DEF Tidy, Held
  <2>3. ASSUME o.by = t
        PROVE  FALSE
    <3>1. CASE o.kind = "demo"
      <4>1. o \in {x \in live : x.kind = "demo" /\ x.by = t}
        BY <2>1, <2>3, <3>1
      <4> QED
        BY <2>1, <4>1 DEF Destroyed
    <3>2. CASE o.kind # "demo"
      <4>1. o.kind \in keys /\ o \in specific[o.kind][t]
        BY <1>1, <2>2, <2>3, <3>2 DEF Keys, Kinds
      <4>2. o \in UNION {specific[k][t] : k \in keys}
        BY <4>1
      <4> QED
        BY <2>1, <4>2 DEF Destroyed
    <3> QED
      BY <3>1, <3>2
  <2> QED
    BY <1>1, <1>2, <2>2, <2>3 DEF ThreadReturns
<1> QED
  BY <1>3, <1>4 DEF Held

(* Every step keeps the objects with their threads.                        *)
LEMMA HeldStep ==
  ASSUME IInv, Tidy, [Next]_vars
  PROVE  Held'
<1>0. life \in [Threads -> Lives] /\ CallTypes /\ Held
  BY DEF IInv, ThreadTypes, Tidy
<1>1. CASE UNCHANGED <<specific, tValue, live, life>>
  BY <1>0, <1>1, HeldKept
<1>2. ASSUME NEW t \in Threads, LocalStep(t)
      PROVE  Held'
  <2>1. CASE BeginInit(t) \/ Instance(t) \/ \E k \in Keys : DeleteKey(t, k)
    BY <1>1, <2>1 DEF BeginInit, Instance, DeleteKey, threadVars, localVars
  <2>2. CASE EndInit(t)
    <3>1. \A o \in live' : o \in live \/ o.kind = "singleton"
      BY <2>2 DEF EndInit, Make, NewObject
    <3>2. UNCHANGED <<specific, tValue, life>>
      BY <2>2 DEF EndInit, threadVars
    <3> QED
      BY <1>0, <3>1, <3>2, HeldKept
  <2>3. CASE Exit(t)
    <3>1. Does(t, "exit")
      BY <1>0, <2>3, CalledIsThere DEF Exit, Calls
    <3>2. \A o \in live : o.by = t => o.kind = "singleton"
      BY <3>1 DEF Tidy, LeavesNothing
    <3>3. UNCHANGED <<specific, tValue>> /\ life' = [life EXCEPT ![t] = "finished"]
          /\ live' \subseteq live
      BY <2>3 DEF Exit
    <3> QED
      BY <1>0, <3>2, <3>3, HeldKept
  <2>4. CASE Value(t)
    <3>1. life[t] = "running" /\ life' = life /\ tValue' = tValue /\ "local" \in Keys
      BY <2>4 DEF Value, Calls, CallsNow, Keys, Kinds
    <3>2. CASE specific["local"][t] = {}
      BY <1>0, <2>4, <3>1, <3>2, HeldMake DEF Value
    <3>3. CASE specific["local"][t] # {}
      BY <1>1, <2>4, <3>1, <3>3 DEF Value
    <3> QED
      BY <3>2, <3>3
  <2>5. CASE TlsInstance(t)
    <3>1. life[t] = "running" /\ life' = life /\ "tls" \in Keys
      BY <2>5 DEF TlsInstance, Calls, CallsNow, Keys, Kinds
    <3>2. CASE tValue[t] = {}
      <4>1. specific["tls"][t] = {}
        BY <1>0, <3>2 DEF Held
      <4>2. Make("tls", t) /\ tValue' = [tValue EXCEPT ![t] = {NewObject("tls", t)}]
        BY <2>5, <3>2 DEF TlsInstance
      <4>3. tValue'[t] = {NewObject("tls", t)}
        BY <4>2 DEF IInv, Own
      <4>4. specific' = [specific EXCEPT !["tls"][t] = {NewObject("tls", t)}]
        BY <2>5, <3>2, <4>3 DEF TlsInstance, DeleterSet
      <4> QED
        BY <1>0, <3>1, <4>1, <4>2, <4>4, HeldMake
    <3>3. CASE tValue[t] # {}
      BY <1>1, <2>5, <3>1, <3>3 DEF TlsInstance
    <3> QED
      BY <3>2, <3>3
  <2>6. CASE SetSpecific(t)
    <3>1. life[t] = "running" /\ life' = life /\ tValue' = tValue /\ "demo" \in Keys
      BY <2>6 DEF SetSpecific, Calls, CallsNow, Keys, Kinds
    <3> QED
      BY <1>0, <2>6, <3>1, HeldMake DEF SetSpecific
  <2>7. CASE ThreadReturns(t) /\ LocalsEnd(t)
    BY <2>7, HeldEnd
  <2>8. CASE /\ UNCHANGED localVars
             /\ \/ RunInThread(t) \/ ThreadThrows(t) \/ Fork(t)
                \/ \E u \in Threads : StartThread(t, u) \/ JoinThread(t, u)
    <3>1. \A u \in Threads : life'[u] = "finished" => life[u] = "finished"
      BY <1>0, <2>8 DEF RunInThread, ThreadThrows, Fork, StartThread, JoinThread, Abort
    <3>2. UNCHANGED <<specific, tValue, live>>
      BY <2>8 DEF localVars
    <3> QED
      BY <1>0, <3>1, <3>2, HeldKept
  <2> QED
    BY <1>2, <2>1, <2>2, <2>3, <2>4, <2>5, <2>6, <2>7, <2>8 DEF LocalStep
<1>3. ASSUME NEW t \in Threads, ReactorCall(t)
      PROVE  Held'
  BY <1>1, <1>3 DEF ReactorCall, NewEventLoop, DeleteEventLoop, Quit, Loop, EnableReading,
                    GoesOn, LogFatal, Abort, localVars
<1>4. CASE \E t \in Threads : TestQuit(t) \/ Poll(t) \/ HandleEvent(t)
  BY <1>1, <1>4 DEF TestQuit, Poll, HandleEvent, programVars, threadVars, localVars
<1>5. CASE (\E fd \in Fds, event \in {"in", "hup"} : Event(fd, event)) \/ Ended \/ UNCHANGED vars
  BY <1>1, <1>5 DEF Event, Ended, vars, programVars, threadVars, localVars
<1> QED
  BY <1>2, <1>3, <1>4, <1>5 DEF Next, ThreadStep

(* The repository's programs join a thread before they need it to have     *)
(* ended, in every interleaving, and wherever a thread is not created.     *)
THEOREM ProgramsAreTidy == Spec => []Tidy
<1>1. IInv /\ Tidy /\ [Next]_vars => Tidy'
  BY FewerCalls, KeysStep, HeldStep, LeavesStep, AskersStep DEF Tidy
<1> QED
  BY <1>1, TidyStart, Invariant, PTL DEF Spec

(* One Singleton, there for whoever has yet to ask for it, and of every    *)
(* thread its own objects, which end with it.                              *)
THEOREM OneForEachThread == Spec => []OneForEach
<1>1. IInv /\ Tidy => OneForEach
  <2> SUFFICES ASSUME IInv, Tidy PROVE OneForEach
    OBVIOUS
  <2>1. ASSUME process = "exiting", NEW t \in Threads, NEW i \in DOMAIN calls[t],
               life[t] = "running"
        PROVE  calls[t][i].op # "instance"
    BY <2>1 DEF Tidy, AskersOver, Over, Does, Says
  <2>2. OneSingletonMade /\ OwnObjects
    BY OneOwner
  <2>3. \A o \in live : o.kind = "singleton" \/ life[o.by] # "finished"
    BY DEF Tidy, Held
  <2> QED
    BY <2>1, <2>2, <2>3 DEF OneForEach, OneSingleton, LocalsEndWithThread, OwnObjects,
                                  OneSingletonMade
<1> QED
  BY <1>1, Invariant, ProgramsAreTidy, PTL
=============================================================================
