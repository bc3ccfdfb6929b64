----------------------------- MODULE MCTcpClient ----------------------------
(* Instances of TcpClient for TLC. *)
EXTENDS TcpClient

CONSTANTS user, main

TwoCallers == {user, main}
=============================================================================
