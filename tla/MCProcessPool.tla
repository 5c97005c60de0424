---------------------------- MODULE MCProcessPool ----------------------------
(***************************************************************************)
(* The process pool alone, two children that may be killed: what becomes   *)
(* of a parent whose children have all ended.                              *)
(***************************************************************************)
EXTENDS ProcessPool
=============================================================================
