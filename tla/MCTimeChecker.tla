---------------------------- MODULE MCTimeChecker ----------------------------
(***************************************************************************)
(* Three descriptors, so that timers are first, last and between others,   *)
(* and enough slots for each to expire and to be moved.                    *)
(***************************************************************************)
EXTENDS TimeChecker
=============================================================================
