--------------------------- MODULE FunctorQueue ----------------------------
(***************************************************************************)
(* What EventLoop promises about the functors given to runInLoop and       *)
(* queueInLoop, stated without threads, locks or file descriptors: a       *)
(* functor is accepted once, and accepted functors are run one at a time,  *)
(* in the order in which they were accepted.                               *)
(***************************************************************************)
EXTENDS Naturals, Sequences

CONSTANT Functors       \* what may be posted

VARIABLES todo,         \* accepted and not yet run, oldest first
          done          \* run, oldest first

Contents(s) == {s[i] : i \in DOMAIN s}

Init == /\ todo = << >>
        /\ done = << >>

(* A thread hands over a functor that was never handed over before. *)
Post == \E f \in Functors \ (Contents(todo) \cup Contents(done)) :
           /\ todo' = Append(todo, f)
           /\ done' = done

(* The loop thread runs the oldest accepted functor. *)
Run == /\ todo # << >>
       /\ done' = Append(done, Head(todo))
       /\ todo' = Tail(todo)

Next == Post \/ Run

Spec == Init /\ [][Next]_<<todo, done>>
=============================================================================
