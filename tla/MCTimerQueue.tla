---------------------------- MODULE MCTimerQueue ----------------------------
(* Instances of TimerQueue for TLC. *)
EXTENDS TimerQueue

ThreeTimers == 1..3
EveryTwo == {2}
One == {1}
=============================================================================
