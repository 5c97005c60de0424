---------------------------- MODULE TicketSystem ----------------------------
(***************************************************************************)
(* The licence server of src/TicktServ and its clients, src/TicktClnt.  A  *)
(* client takes a ticket, works, has the ticket validated, works on and    *)
(* gives it back; the server keeps an array of tickets and takes back the  *)
(* ones of dead processes on SIGALRM, which may come wherever the alarm is *)
(* on; a request is handled in less than the RECLAIM_INTERVAL seconds that *)
(* pass between two alarms.  Messages are datagrams between processes of   *)
(* one host: they may be dropped, and are neither doubled nor reordered.   *)
(***************************************************************************)
EXTENDS Integers, Sequences, FiniteSets

CONSTANTS
  Clients,    \* the pids that client processes get
  MaxUsers,   \* MAX_USERS
  NoTicket,   \* TICKET_AVAIL
  NoSlot,     \* a message without a ticket
  MaxSpawns,  \* bound: client processes started
  MaxKills,   \* bound: client processes killed
  MaxLosses   \* bound: datagrams dropped

ASSUME TicketSystemAssumption ==
  /\ IsFiniteSet(Clients) /\ NoTicket \notin Clients
  /\ MaxUsers \in Nat \ {0} /\ NoSlot \notin Nat
  /\ {MaxSpawns, MaxKills, MaxLosses} \subseteq Nat

Slots == 0..(MaxUsers - 1)

VARIABLES
  ticket_array,    \* of the server
  num_ticket_out,
  server,          \* pc; the request; the slot found; the answer; the alarm, which
                   \* is on, set in the middle of a request, or off; is time_left
                   \* more than 0; ghost: was the alarm cancelled
  inbox,           \* datagrams to the server
  client,          \* per pid: at, the request that waits for an answer, the
                   \* answer, have_ticket, ticket_buf
  budget           \* processes started and killed, datagrams dropped so far

vars == <<ticket_array, num_ticket_out, server, inbox, client, budget>>
serverVars == <<ticket_array, num_ticket_out, server>>

NoRequest == [op |-> "none", pid |-> NoTicket, slot |-> NoSlot, answered |-> FALSE]
NoAnswer == [kind |-> "none", slot |-> NoSlot]

Process(at) == [at |-> at, waits |-> "no", answer |-> NoAnswer,
                have_ticket |-> FALSE, ticket |-> NoSlot]

Init ==
  /\ ticket_array = [i \in Slots |-> NoTicket] /\ num_ticket_out = 0
  /\ server = [pc |-> "recv", request |-> NoRequest, slot |-> NoSlot,
               answer |-> NoAnswer, alarm |-> "on", left |-> FALSE, cancelled |-> FALSE]
  /\ inbox = <<>>
  /\ client = [c \in Clients |-> Process("ended")]
  /\ budget = [spawned |-> 0, killed |-> 0, lost |-> 0]

Alive(c) == client[c].at # "ended"

-----------------------------------------------------------------------------
(* The clients.                                                            *)

(* A process starts, perhaps with the pid of one that has ended.           *)
Spawn(c) ==
  /\ ~Alive(c) /\ budget.spawned < MaxSpawns
  /\ client' = [client EXCEPT ![c] = Process("start")]
  /\ budget' = [budget EXCEPT !.spawned = @ + 1]
  /\ UNCHANGED <<serverVars, inbox>>

(* The requests that c has sent are answered to a socket that is closed.   *)
Orphaned(c) ==
  [k \in 1..Len(inbox) |->
     IF inbox[k].pid = c THEN [inbox[k] EXCEPT !.answered = FALSE] ELSE inbox[k]]

End(c) ==
  /\ client' = [client EXCEPT ![c] = Process("ended")]
  /\ inbox' = Orphaned(c)
  /\ server' = IF server.request.pid = c
                 THEN [server EXCEPT !.request.answered = FALSE] ELSE server
  /\ UNCHANGED <<ticket_array, num_ticket_out>>

Kill(c) ==
  /\ Alive(c) /\ budget.killed < MaxKills
  /\ End(c)
  /\ budget' = [budget EXCEPT !.killed = @ + 1]

(* What main() of the client asks for where it is.                         *)
Op(c) == CASE client[c].at \in {"start", "again"} -> "HELO"
           [] client[c].at = "stage1" -> "VALD"
           [] OTHER -> "GBYE"

(* do_transaction(): the datagram is sent, or dropped and waited for.      *)
Ask(c) ==
  /\ Alive(c) /\ client[c].waits = "no"
  /\ LET request == [op |-> Op(c), pid |-> c, slot |-> client[c].ticket, answered |-> TRUE]
     IN \/ inbox' = Append(inbox, request) /\ budget' = budget
        \/ /\ budget.lost < MaxLosses
           /\ inbox' = inbox
           /\ budget' = [budget EXCEPT !.lost = @ + 1]
  /\ client' = [client EXCEPT ![c].waits = Op(c)]
  /\ UNCHANGED serverVars

Answered(c, op) == client[c].waits = op /\ client[c].answer # NoAnswer

Continues(c, at, have, slot) ==
  /\ client' = [client EXCEPT ![c] = [at |-> at, waits |-> "no", answer |-> NoAnswer,
                                      have_ticket |-> have, ticket |-> slot]]
  /\ UNCHANGED <<serverVars, inbox>>

(* get_ticket(): without a ticket main() exits.                            *)
GetTicket(c) ==
  /\ Answered(c, "HELO") /\ budget' = budget
  /\ IF client[c].answer.kind = "TICK"
       THEN Continues(c, IF client[c].at = "start" THEN "stage1" ELSE "stage2",
                      TRUE, client[c].answer.slot)
       ELSE End(c)

(* check_validate(): an answer other than GOOD counts as valid; after GOOD *)
(* the ticket is forgotten and main() asks for another.                    *)
CheckValidate(c) ==
  /\ Answered(c, "VALD") /\ budget' = budget
  /\ IF client[c].answer.kind # "GOOD"
       THEN Continues(c, "stage2", TRUE, client[c].ticket)
       ELSE Continues(c, "again", FALSE, client[c].ticket)

(* release_ticket() and shut_down(), whatever the answer.                  *)
ReleaseTicket(c) ==
  /\ Answered(c, "GBYE") /\ budget' = budget
  /\ End(c)

-----------------------------------------------------------------------------
(* The server.                                                             *)

Receive ==
  /\ server.pc = "recv" /\ inbox # <<>>
  /\ server' = [server EXCEPT !.pc = "hold", !.request = Head(inbox)]
  /\ inbox' = Tail(inbox)
  /\ UNCHANGED <<ticket_array, num_ticket_out, client, budget>>

(* Faulty variant: the alarm stays on while the request is handled.        *)
HoldNothing ==
  /\ server.pc = "hold"
  /\ server' = [server EXCEPT !.pc = "check", !.left = server.alarm = "on"]
  /\ UNCHANGED <<ticket_array, num_ticket_out, inbox, client, budget>>

(* ticket_reclaim() frees the slots in S.                                  *)
ReclaimSlots(S) ==
  /\ ticket_array' = [i \in Slots |-> IF i \in S THEN NoTicket ELSE ticket_array[i]]
  /\ num_ticket_out' = num_ticket_out - Cardinality(S)

DeadSlots ==
  {i \in Slots : ticket_array[i] # NoTicket /\ ~Alive(ticket_array[i])}

(* time_left = alarm(0).  When the time has just run out, it is 0, and the *)
(* signal comes on return: the handler sets the alarm again.               *)
Hold ==
  /\ server.pc = "hold"
  /\ \/ /\ server' = [server EXCEPT !.pc = "check", !.alarm = "off", !.left = server.alarm = "on"]
        /\ UNCHANGED <<ticket_array, num_ticket_out>>
     \/ /\ server.alarm = "on"
        /\ ReclaimSlots(DeadSlots)
        /\ server' = [server EXCEPT !.pc = "check", !.alarm = "set", !.left = FALSE]
  /\ UNCHANGED <<inbox, client, budget>>

Answers(kind, slot) ==
  server' = [server EXCEPT !.pc = "reply", !.answer = [kind |-> kind, slot |-> slot]]

Updates(slot) == server' = [server EXCEPT !.pc = "update", !.slot = slot]

Free == {i \in Slots : ticket_array[i] = NoTicket}

(* The request is looked at: do_hello() finds the first free slot,         *)
(* do_goodbye() compares the ticket, do_validate() accepts every ticket    *)
(* that can be read, and that the client sends.                            *)
Check ==
  /\ server.pc = "check"
  /\ LET request == server.request
     IN \/ /\ request.op = "HELO" /\ num_ticket_out >= MaxUsers
           /\ Answers("FAIL", NoSlot)
        \/ /\ request.op = "HELO" /\ num_ticket_out < MaxUsers
           /\ IF Free = {} THEN Answers("CORRUPT", NoSlot)
              ELSE Updates(CHOOSE i \in Free : \A j \in Free : i <= j)
        \/ /\ request.op = "GBYE"
           /\ IF ticket_array[request.slot] = request.pid
                THEN Updates(request.slot) ELSE Answers("FAIL", NoSlot)
        \/ /\ request.op = "VALD"
           /\ IF request.slot # NoSlot \/ ticket_array[request.slot] = request.pid
                THEN Answers("GOOD", NoSlot) ELSE Answers("FAIL", NoSlot)
  /\ UNCHANGED <<ticket_array, num_ticket_out, inbox, client, budget>>

(* do_hello() and do_goodbye() assign the slot and the count.              *)
Update ==
  /\ server.pc = "update"
  /\ \/ /\ server.request.op = "HELO"
        /\ ticket_array' = [ticket_array EXCEPT ![server.slot] = server.request.pid]
        /\ num_ticket_out' = num_ticket_out + 1
        /\ Answers("TICK", server.slot)
     \/ /\ server.request.op = "GBYE"
        /\ ticket_array' = [ticket_array EXCEPT ![server.slot] = NoTicket]
        /\ num_ticket_out' = num_ticket_out - 1
        /\ Answers("THNX", NoSlot)
  /\ UNCHANGED <<inbox, client, budget>>

(* alarm(time_left), which with 0 cancels the alarm that the handler set.  *)
Ready ==
  server' = [server EXCEPT !.pc = "recv", !.request = NoRequest, !.slot = NoSlot,
                           !.answer = NoAnswer, !.alarm = IF server.left THEN "on" ELSE "off",
                           !.cancelled = @ \/ server.alarm = "set"]

(* Faulty variant: no answer when there is no ticket.                      *)
ReplyToLucky ==
  /\ server.pc = "reply" /\ Ready
  /\ client' = IF server.request.answered /\ server.answer.kind # "FAIL"
                 THEN [client EXCEPT ![server.request.pid].answer = server.answer]
                 ELSE client
  /\ UNCHANGED <<ticket_array, num_ticket_out, inbox, budget>>

(* sendto(), whose datagram may be dropped, and the alarm.                 *)
Reply ==
  /\ server.pc = "reply" /\ Ready
  /\ \/ /\ client' = IF server.request.answered
                       THEN [client EXCEPT ![server.request.pid].answer = server.answer]
                       ELSE client
        /\ budget' = budget
     \/ /\ budget.lost < MaxLosses
        /\ budget' = [budget EXCEPT !.lost = @ + 1]
        /\ client' = client
  /\ UNCHANGED <<ticket_array, num_ticket_out, inbox>>

(* Faulty variants: the process is not looked for; the alarm is not set    *)
(* again.                                                                  *)
ReclaimAll ==
  /\ server.alarm = "on"
  /\ ReclaimSlots(Slots \ Free)
  /\ UNCHANGED <<server, inbox, client, budget>>

ReclaimOnce ==
  /\ server.alarm = "on"
  /\ ReclaimSlots(DeadSlots)
  /\ server' = [server EXCEPT !.alarm = "off"]
  /\ UNCHANGED <<inbox, client, budget>>

(* SIGALRM, wherever the server is while the alarm is on: kill(pid, 0)     *)
(* tells who is dead, and the alarm is set again.                          *)
Reclaim ==
  /\ server.alarm = "on"
  /\ ReclaimSlots(DeadSlots)
  /\ UNCHANGED <<server, inbox, client, budget>>

-----------------------------------------------------------------------------
Client(c) == Ask(c) \/ GetTicket(c) \/ CheckValidate(c) \/ ReleaseTicket(c)
Serve == Receive \/ Hold \/ Check \/ Update \/ Reply

Next ==
  \/ Serve \/ Reclaim
  \/ \E c \in Clients : Client(c) \/ Spawn(c) \/ Kill(c)

(* The processes run, and the alarm rings unless requests hold it back for *)
(* ever.                                                                   *)
Fairness ==
  WF_vars(Serve) /\ WF_vars(Reclaim) /\ \A c \in Clients : WF_vars(Client(c))

Spec == Init /\ [][Next]_vars /\ Fairness

-----------------------------------------------------------------------------
TypeOK ==
  /\ ticket_array \in [Slots -> Clients \cup {NoTicket}]
  /\ num_ticket_out \in 0..MaxUsers
  /\ server.pc \in {"recv", "hold", "check", "update", "reply"}
  /\ server.slot \in Slots \cup {NoSlot} /\ server.alarm \in {"on", "set", "off"}
  /\ \A c \in Clients :
       /\ client[c].at \in {"start", "stage1", "again", "stage2", "ended"}
       /\ client[c].waits \in {"no", "HELO", "VALD", "GBYE"}
       /\ client[c].ticket \in Slots \cup {NoSlot}

(* num_ticket_out, which request handlers and the signal handler both      *)
(* change, is the number of slots that are taken wherever SIGALRM can come *)
(* and between two requests.                                               *)
CountExact ==
  /\ TypeOK
  /\ server.pc # "update" => num_ticket_out = Cardinality(Slots \ Free)

(* The server implements TicketOffice: a client takes up only a ticket     *)
(* that is its own in the array, also when a process with its pid has died *)
(* with requests and answers under way, and no ticket is freed, by GBYE or *)
(* by SIGALRM, while somebody works with it.                               *)
Office == INSTANCE TicketOffice WITH
            owner <- ticket_array,
            works <- [c \in Clients |->
                        IF client[c].have_ticket /\ client[c].waits # "GBYE"
                          THEN client[c].ticket ELSE NoSlot]

ImplementsOffice == Office!Spec

(* A request is answered unless a datagram was dropped.                    *)
EveryRequestAnswered ==
  \A c \in Clients : client[c].waits # "no" ~> client[c].waits = "no" \/ budget.lost > 0

Collected(c) == \A i \in Slots : ticket_array[i] # c

(* The tickets of a process that has ended come back, also one that it has *)
(* forgotten or that was granted after its end, unless its pid is in use.  *)
(* This ends when alarm(time_left) cancels the alarm.                      *)
TicketsOfDeadReturn ==
  \A c \in Clients : ~Alive(c) ~> Collected(c) \/ Alive(c) \/ server.cancelled

(* The comment on ticket_reclaim(): clients are looked for, and of one     *)
(* that is no longer there the ticket is deleted.  Not after the alarm was *)
(* cancelled: nothing sets it again.                                       *)
DeadTicketsCollected == \A c \in Clients : ~Alive(c) ~> Collected(c) \/ Alive(c)
=============================================================================
