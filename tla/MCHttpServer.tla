---------------------------- MODULE MCHttpServer ----------------------------
(* Instances of HttpServer for TLC. *)
EXTENDS HttpServer

MixedRequests ==
  {<<"get11">>, <<"get11", "close">>, <<"get11", "close", "keep">>,
   <<"get10", "other">>, <<"get10", "keep">>, <<"lost11">>, <<"odd11", "other">>,
   <<"get20", "other">>}

=============================================================================
