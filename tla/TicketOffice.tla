---------------------------- MODULE TicketOffice ----------------------------
(***************************************************************************)
(* What the licence server of src/TicktServ promises: a ticket has one     *)
(* owner, is taken up by nobody else, and is free again only when nobody   *)
(* works with it.  Messages, the alarm, the counter and the ends of        *)
(* processes are left to TicketSystem, which implements this module.       *)
(***************************************************************************)
EXTENDS Naturals

CONSTANTS
  Clients,
  Slots,      \* the tickets
  NoTicket,   \* the owner of a free ticket
  NoSlot      \* what a client without a ticket works with

VARIABLES
  owner,      \* whom each ticket was granted to
  works       \* the ticket that each client works with

vars == <<owner, works>>

Init ==
  /\ owner = [i \in Slots |-> NoTicket]
  /\ works = [c \in Clients |-> NoSlot]

(* A free ticket is granted ...                                            *)
Grant(i, c) ==
  /\ owner[i] = NoTicket
  /\ owner' = [owner EXCEPT ![i] = c]
  /\ UNCHANGED works

(* ... and its owner works with it, or never learns of it.                 *)
TakeUp(i, c) ==
  /\ owner[i] = c /\ works[c] = NoSlot
  /\ works' = [works EXCEPT ![c] = i]
  /\ UNCHANGED owner

(* The client gives it back, forgets it or ends.                           *)
Leave(c) ==
  /\ works[c] # NoSlot
  /\ works' = [works EXCEPT ![c] = NoSlot]
  /\ UNCHANGED owner

(* Tickets that nobody works with are free again.                          *)
Collect(S) ==
  /\ \A i \in S : owner[i] # NoTicket /\ \A c \in Clients : works[c] # i
  /\ owner' = [i \in Slots |-> IF i \in S THEN NoTicket ELSE owner[i]]
  /\ UNCHANGED works

Next ==
  \/ \E i \in Slots, c \in Clients : Grant(i, c) \/ TakeUp(i, c)
  \/ \E c \in Clients : Leave(c)
  \/ \E S \in SUBSET Slots : Collect(S)

Spec == Init /\ [][Next]_vars
=============================================================================
