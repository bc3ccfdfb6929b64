---------------------------- MODULE MCQueueTest -----------------------------
(* Instances of QueueTest for TLC. *)
EXTENDS QueueTest

CONSTANTS main, p1, p2, t1, t2, t3

TwoPutters == {p1, p2}
ThreeTakers == {t1, t2, t3}
FewAndMany == {1, 2, 20}
=============================================================================
