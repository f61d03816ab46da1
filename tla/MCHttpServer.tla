---------------------------- MODULE MCHttpServer ----------------------------
(* Instance of HttpServer for TLC: three peers, interchangeable. *)
EXTENDS HttpServer, TLC

Symmetry == Permutations(Conn)
=============================================================================
