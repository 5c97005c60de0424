---------------------------- MODULE MCThreadPool ----------------------------
(***************************************************************************)
(* The thread pool alone, for the limit of its queue: two workers and a    *)
(* limit of 1 are enough for a request more than that to wait.             *)
(***************************************************************************)
EXTENDS ThreadPool
=============================================================================
