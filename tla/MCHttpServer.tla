---------------------------- MODULE MCHttpServer ----------------------------
(* An instance of HttpServer for TLC: two connections are one in each list,
   two in either, or a dead one and one that waits. *)
EXTENDS HttpServer
CONSTANTS s, t
=============================================================================
