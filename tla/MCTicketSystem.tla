--------------------------- MODULE MCTicketSystem ---------------------------
(***************************************************************************)
(* Two pids that compete for two tickets, each client asking for two.      *)
(***************************************************************************)
EXTENDS TicketSystem
=============================================================================
