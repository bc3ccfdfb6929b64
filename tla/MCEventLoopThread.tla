------------------------- MODULE MCEventLoopThread --------------------------
(* Instances of EventLoopThread for TLC. *)
EXTENDS EventLoopThread

CONSTANTS main, user, c1

OwnerOnly == {main}
OwnerAndUser == {main, user}
NoChannels == {}
OneChannel == {c1}
InLoopOnly == {"callback", "functor"}
=============================================================================
