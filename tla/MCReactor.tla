----------------------------- MODULE MCReactor ------------------------------
(* Instances of Reactor for TLC. *)
EXTENDS Reactor

ThreeThreads == {Main, Other, Third}

=============================================================================
