---------------------------- MODULE MCHttpServer ----------------------------
(***************************************************************************)
(* Descriptors that are reused, a queue limit that three connections       *)
(* exceed, and an alarm that comes at any time.                            *)
(***************************************************************************)
EXTENDS HttpServer, TLC

Symmetry == Permutations(Workers)
=============================================================================
