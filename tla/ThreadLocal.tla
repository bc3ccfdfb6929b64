---------------------------- MODULE ThreadLocal -----------------------------
(***************************************************************************)
(* Objects that are one per process or one per thread: Singleton           *)
(* (14_muduo_Singleton/src), ThreadLocal, ThreadLocalSingleton and the     *)
(* pthread key of TSD_Demo (15_muduo_ThreadLocal/src).                     *)
(*                                                                         *)
(* pthread_once and the keys are the library's; a step is one of its calls *)
(* and what follows up to the next one.  Objects are numbered in the order *)
(* in which they are made.                                                 *)
(***************************************************************************)
EXTENDS Thread, FiniteSets

Kinds == {"singleton", "local", "tls", "demo"}
Keys == Kinds \ {"singleton"}

VARIABLES
  once,      \* ponce_: "never", "running" or "done"
  inInit,    \* threads inside Singleton::init
  made,      \* objects ever made, with their kind and maker
  live,      \* objects not yet deleted
  specific,  \* per key and thread: the object pthread_getspecific gives
  tValue,    \* per thread: t_value_ of ThreadLocalSingleton
  keys       \* the keys that exist

localVars == <<once, inInit, made, live, specific, tValue, keys>>

LocalInit ==
  /\ once = "never" /\ inInit = {} /\ made = {} /\ live = {}
  /\ specific = [k \in Keys |-> [t \in Threads |-> {}]]
  /\ tValue = [t \in Threads |-> {}]
  /\ keys = Keys

NewObject(kind, t) == [kind |-> kind, by |-> t, n |-> Cardinality(made)]

Make(kind, t) ==
  /\ made' = made \cup {NewObject(kind, t)}
  /\ live' = live \cup {NewObject(kind, t)}

-----------------------------------------------------------------------------
(* Faulty variant: a test of value_ in place of pthread_once.              *)
BadMayInit == once # "done"

(* pthread_once lets one thread in; the others wait until it is done.      *)
MayInit == once = "never"

BeginInit(t) ==
  /\ CallsNow(t, "instance", t) /\ t \notin inInit /\ MayInit
  /\ once' = "running" /\ inInit' = inInit \cup {t}
  /\ UNCHANGED <<threadVars, made, live, specific, tValue, keys>>

EndInit(t) ==
  /\ process # "aborted" /\ t \in inInit
  /\ Make("singleton", t)
  /\ once' = "done" /\ inInit' = inInit \ {t}
  /\ UNCHANGED <<threadVars, specific, tValue, keys>>

Instance(t) ==
  /\ Calls(t, "instance", t) /\ t \notin inInit /\ once = "done"
  /\ UNCHANGED <<life, tid, cachedTid, lastTid, process, localVars>>

(* Main returns: exit runs the handlers, Singleton::destroy among them,    *)
(* while the other threads still run.                                      *)
Exit(t) ==
  /\ Calls(t, "exit", t)
  /\ process' = "exiting" /\ life' = [life EXCEPT ![t] = "finished"]
  /\ live' = {o \in live : o.kind # "singleton"}
  /\ UNCHANGED <<tid, cachedTid, lastTid, once, inInit, made, specific, tValue, keys>>

-----------------------------------------------------------------------------
(* ThreadLocal::value makes the thread's object when it is first asked for *)
Value(t) ==
  /\ Calls(t, "value", t)
  /\ IF specific["local"][t] = {}
        THEN /\ Make("local", t)
             /\ specific' = [specific EXCEPT !["local"][t] = {NewObject("local", t)}]
        ELSE UNCHANGED <<made, live, specific>>
  /\ UNCHANGED <<life, tid, cachedTid, lastTid, process, once, inInit, tValue, keys>>

(* Faulty variant: the key is not told, so nothing is deleted at the end.  *)
BadDeleterSet(t) == UNCHANGED specific

DeleterSet(t) == specific' = [specific EXCEPT !["tls"][t] = tValue'[t]]

(* ThreadLocalSingleton::instance keeps the object in t_value_, and in the *)
(* key for its destructor.                                                 *)
TlsInstance(t) ==
  /\ Calls(t, "tlsInstance", t)
  /\ IF tValue[t] = {}
        THEN /\ Make("tls", t)
             /\ tValue' = [tValue EXCEPT ![t] = {NewObject("tls", t)}]
             /\ DeleterSet(t)
        ELSE UNCHANGED <<made, live, specific, tValue>>
  /\ UNCHANGED <<life, tid, cachedTid, lastTid, process, once, inInit, keys>>

(* TSD_Demo: a child puts the address of its own variable in the key.      *)
SetSpecific(t) ==
  /\ Calls(t, "set", t)
  /\ Make("demo", t)
  /\ specific' = [specific EXCEPT !["demo"][t] = {NewObject("demo", t)}]
  /\ UNCHANGED <<life, tid, cachedTid, lastTid, process, once, inInit, tValue, keys>>

(* ~ThreadLocal, ~Deleter and the demo's pthread_key_delete: no destructor *)
(* is called for the values that are left.                                 *)
DeleteKey(t, k) ==
  /\ Calls(t, "deleteKey", k)
  /\ keys' = keys \ {k}
  /\ UNCHANGED <<life, tid, cachedTid, lastTid, process, once, inInit, made, live,
                 specific, tValue>>

(* The destructors of the keys that exist, at the end of a thread, and the *)
(* end of its stack.                                                       *)
Destroyed(t) ==
  (UNION {specific[k][t] : k \in keys}) \cup {o \in live : o.kind = "demo" /\ o.by = t}

LocalsEnd(t) ==
  /\ live' = live \ Destroyed(t)
  /\ specific' = [k \in Keys |-> [specific[k] EXCEPT ![t] = IF k \in keys THEN {} ELSE @]]
  /\ tValue' = [tValue EXCEPT ![t] = IF "tls" \in keys THEN {} ELSE @]
  /\ UNCHANGED <<once, inInit, made, keys>>

-----------------------------------------------------------------------------
LocalStep(t) ==
  \/ BeginInit(t) \/ EndInit(t) \/ Instance(t) \/ Exit(t)
  \/ Value(t) \/ TlsInstance(t) \/ SetSpecific(t)
  \/ \E k \in Keys : DeleteKey(t, k)
  \/ ThreadReturns(t) /\ LocalsEnd(t)
  \/ /\ \/ \E u \in Threads : StartThread(t, u) \/ JoinThread(t, u)
        \/ RunInThread(t) \/ ThreadThrows(t) \/ Fork(t)
     /\ UNCHANGED localVars

-----------------------------------------------------------------------------
(* However many threads ask for it first, there is one Singleton, and it   *)
(* is there for every thread that has yet to ask: exit deletes it, but     *)
(* these programs join their threads before they return from main.         *)
OneSingleton ==
  /\ Cardinality({o \in made : o.kind = "singleton"}) <= 1
  /\ process = "exiting" =>
       \A t \in Threads : \A i \in DOMAIN calls[t] :
         life[t] = "running" => calls[t][i].op # "instance"

(* A thread's objects are its own, and a thread that has ended has left    *)
(* none behind, whichever template made them: these programs delete a key  *)
(* after they have joined the threads that use it.                         *)
LocalsEndWithThread ==
  /\ \A k \in Keys, t \in Threads : \A o \in specific[k][t] : o.by = t
  /\ \A o \in live : o.kind = "singleton" \/ life[o.by] # "finished"

(* One Singleton for all threads, one object of each thread for itself.    *)
OneForEach == OneSingleton /\ LocalsEndWithThread
=============================================================================
