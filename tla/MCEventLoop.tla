---------------------------- MODULE MCEventLoop -----------------------------
(* Instances of EventLoop for TLC. *)
EXTENDS EventLoop

CONSTANTS t1, t2, c1, c2

MCCallers == {t1, t2}
MCChannels == {c1, c2}
InLoopOnly == {"callback", "functor"}
=============================================================================
