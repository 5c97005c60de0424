---------------------------- MODULE TicketProofs ----------------------------
(***************************************************************************)
(* What holds of the licence server for every number of tickets and every  *)
(* set of pids, however many processes start, are killed and lose          *)
(* datagrams: TicketInv is inductive, so the counter is exact, the server  *)
(* never finds its array corrupt, and TicketOffice is implemented.         *)
(***************************************************************************)
EXTENDS TicketSystem, FiniteSetTheorems, SequenceTheorems, WellFoundedInduction, TLAPS

Ops == {"HELO", "VALD", "GBYE"}
Requests == [op : Ops, pid : Clients, slot : Slots \cup {NoSlot}, answered : BOOLEAN]
Replies == [kind : {"none", "TICK", "FAIL", "CORRUPT", "GOOD", "THNX"},
            slot : Slots \cup {NoSlot}]
Processes == [at : {"start", "stage1", "again", "stage2", "ended"},
              waits : Ops \cup {"no"}, answer : Replies,
              have_ticket : BOOLEAN, ticket : Slots \cup {NoSlot}]

Handling == server.pc # "recv"
Taken == {i \in Slots : ticket_array[i] # NoTicket}

TypeInv ==
  /\ ticket_array \in [Slots -> Clients \cup {NoTicket}]
  /\ num_ticket_out \in Nat
  /\ server \in [pc : {"recv", "hold", "check", "update", "reply"},
                 request : Requests \cup {NoRequest}, slot : Slots \cup {NoSlot},
                 answer : Replies, alarm : {"on", "set", "off"},
                 left : BOOLEAN, cancelled : BOOLEAN]
  /\ Handling <=> server.request # NoRequest
  /\ inbox \in Seq(Requests)
  /\ client \in [Clients -> Processes]
  /\ budget \in [spawned : Nat, killed : Nat, lost : Nat]

(* Where main() of a client is says whether it has a ticket, which answer  *)
(* it may wait for, and what the answer can be.                            *)
ClientInv ==
  \A c \in Clients :
    /\ client[c].have_ticket <=> client[c].at \in {"stage1", "stage2"}
    /\ client[c].have_ticket => client[c].ticket \in Slots
    /\ client[c].waits # "no" => Alive(c) /\ client[c].waits = Op(c)
    /\ client[c].answer # NoAnswer => client[c].waits # "no"
    /\ client[c].answer.kind = "TICK" => client[c].waits = "HELO"

(* A request that will be answered is the one its client waits for; any    *)
(* other is left from a process that has ended, and whoever has its pid    *)
(* now has got no answer yet.                                              *)
RequestInv(r) ==
  LET c == client[r.pid]
  IN /\ r.op # "HELO" => r.slot \in Slots
     /\ r.answered => c.waits = r.op /\ c.answer = NoAnswer /\ c.ticket = r.slot
     /\ ~r.answered => c.at \in {"start", "ended"} /\ c.answer = NoAnswer

(* One request at most is to be answered for each client, the last one.    *)
PendingInv ==
  /\ \A k \in 1..Len(inbox) : RequestInv(inbox[k])
  /\ Handling => RequestInv(server.request)
  /\ \A j, k \in 1..Len(inbox) :
       j < k /\ inbox[j].pid = inbox[k].pid => ~inbox[j].answered
  /\ \A k \in 1..Len(inbox) :
       Handling /\ server.request.pid = inbox[k].pid => ~server.request.answered

(* No alarm rings while a request is handled; the slot that is about to    *)
(* change is free, or the sender's; there is always a free slot when the   *)
(* counter says so; and a granted ticket is its client's.                  *)
ServerInv ==
  LET request == server.request
  IN /\ server.pc \in {"check", "update", "reply"} => server.alarm # "on"
     /\ server.pc = "update" =>
          /\ server.slot \in Slots
          /\ \/ request.op = "HELO" /\ ticket_array[server.slot] = NoTicket
             \/ request.op = "GBYE" /\ ticket_array[server.slot] = request.pid
     /\ server.pc = "reply" => server.answer.kind \notin {"none", "CORRUPT"}
     /\ server.pc = "reply" /\ server.answer.kind = "TICK" =>
          /\ request.op = "HELO" /\ server.answer.slot \in Slots
          /\ request.answered => ticket_array[server.answer.slot] = request.pid

(* A ticket that a client works with, or is about to learn of, is its own. *)
OwnInv ==
  \A c \in Clients :
    /\ client[c].have_ticket /\ client[c].waits # "GBYE" =>
         ticket_array[client[c].ticket] = c
    /\ client[c].answer.kind = "TICK" =>
         client[c].answer.slot \in Slots /\ ticket_array[client[c].answer.slot] = c

CountInv == num_ticket_out = Cardinality(Taken)

TicketInv ==
  TypeInv /\ ClientInv /\ PendingInv /\ ServerInv /\ OwnInv /\ CountInv

-----------------------------------------------------------------------------
(* Slots and sequences.                                                    *)

LEMMA SlotsFinite ==
  /\ Slots \subseteq Nat /\ IsFiniteSet(Slots) /\ Cardinality(Slots) = MaxUsers
<1> USE TicketSystemAssumption DEF TicketSystemAssumption
<1>1. 0 \in Int /\ MaxUsers - 1 \in Int /\ MaxUsers > 0
  OBVIOUS
<1>2. /\ IsFiniteSet(0..(MaxUsers - 1))
      /\ Cardinality(0..(MaxUsers - 1)) = IF 0 > MaxUsers - 1 THEN 0 ELSE (MaxUsers - 1) - 0 + 1
  BY <1>1, FS_Interval, Zenon
<1> QED
  BY <1>2 DEF Slots

(* do_hello() finds the first free slot when there is one.                 *)
LEMMA FirstFree ==
  ASSUME Free # {}
  PROVE  (CHOOSE i \in Free : \A j \in Free : i <= j) \in Free
<1> DEFINE Below(i) == {j \in Free : j <= i}
           Parts == {Below(i) : i \in Free}
<1>1. Free \subseteq Nat /\ Free \in SUBSET Slots
  BY SlotsFinite DEF Free
<1>2. IsFiniteSet(Free)
  BY <1>1, SlotsFinite, FS_Subset
<1>3. Parts \subseteq FiniteSubsetsOf(Free) /\ Parts # {}
  <2>1. \A T \in SUBSET Free : IsFiniteSet(T)
    BY <1>2, FS_Subset
  <2>2. \A i \in Free : Below(i) \in SUBSET Free
    OBVIOUS
  <2> QED
    BY <2>1, <2>2 DEF FiniteSubsetsOf
<1>4. PICK P \in Parts : \A Q \in Parts : <<Q, P>> \notin StrictSubsetOrdering(Free)
  BY <1>3, FS_StrictSubsetOrderingWellFounded, WFMin
<1>5. PICK i \in Free : P = Below(i)
  OBVIOUS
<1>6. ASSUME NEW j \in Free, j < i PROVE FALSE
  <2>1. /\ i \in Nat /\ j \in Nat /\ j < i /\ i <= i /\ ~(i <= j)
        /\ \A k \in Nat : k <= j => k <= i
    BY <1>1, <1>6
  <2>2. Below(j) \subseteq Below(i) /\ i \notin Below(j) /\ i \in Below(i)
    BY <1>1, <2>1, Zenon
  <2>3. <<Below(j), P>> \in StrictSubsetOrdering(Free)
    BY <2>2, <1>5 DEF StrictSubsetOrdering
  <2> QED
    BY <2>3, <1>4
<1>7. \A j \in Free : i <= j
  BY <1>1, <1>6
<1> QED
  BY <1>7

(* Granting or freeing one slot moves the number of taken ones by one.     *)
LEMMA TakenFinite == IsFiniteSet(Taken) /\ Cardinality(Taken) \in 0..MaxUsers
<1>1. Taken \in SUBSET Slots
  BY DEF Taken
<1>2. IsFiniteSet(Taken) /\ Cardinality(Taken) <= Cardinality(Slots)
  BY <1>1, SlotsFinite, FS_Subset
<1> QED
  BY <1>2, SlotsFinite, FS_CardinalityType, TicketSystemAssumption DEF TicketSystemAssumption

LEMMA TakenGrows ==
  ASSUME TypeInv, NEW i \in Slots, NEW c \in Clients, ticket_array[i] = NoTicket,
         ticket_array' = [ticket_array EXCEPT ![i] = c]
  PROVE  Cardinality(Taken') = Cardinality(Taken) + 1
<1>1. i \notin Taken /\ Taken' = Taken \cup {i}
  BY TicketSystemAssumption DEF TicketSystemAssumption, Taken, TypeInv
<1> QED
  BY <1>1, TakenFinite, FS_AddElement

LEMMA TakenShrinks ==
  ASSUME TypeInv, NEW S \in SUBSET Taken,
         ticket_array' = [i \in Slots |-> IF i \in S THEN NoTicket ELSE ticket_array[i]]
  PROVE  /\ Cardinality(S) \in Nat /\ Cardinality(Taken) - Cardinality(S) \in Nat
         /\ Cardinality(Taken') = Cardinality(Taken) - Cardinality(S)
<1>1. Taken' = Taken \ S /\ Taken \cap S = S
  BY DEF Taken
<1>2. IsFiniteSet(S) /\ Cardinality(S) <= Cardinality(Taken) /\ Cardinality(S) \in Nat
  BY TakenFinite, FS_Subset, FS_CardinalityType
<1>3. Cardinality(Taken \ S) = Cardinality(Taken) - Cardinality(Taken \cap S)
  BY TakenFinite, FS_Difference
<1> QED
  BY <1>1, <1>2, <1>3, TakenFinite

(* The requests of one that ends are orphaned and no other changes.        *)
LEMMA OrphanedRequests ==
  ASSUME TypeInv, NEW c \in Clients
  PROVE  /\ Orphaned(c) \in Seq(Requests) /\ Len(Orphaned(c)) = Len(inbox)
         /\ \A k \in 1..Len(inbox) :
              /\ inbox[k].pid = c => Orphaned(c)[k] = [inbox[k] EXCEPT !.answered = FALSE]
              /\ inbox[k].pid # c => Orphaned(c)[k] = inbox[k]
<1>1. Len(inbox) \in Nat /\ \A k \in 1..Len(inbox) : inbox[k] \in Requests
  BY ElementOfSeq, LenProperties DEF TypeInv
<1>2. Orphaned(c) \in [1..Len(inbox) -> Requests]
  BY <1>1 DEF Orphaned, Requests
<1>3. Orphaned(c) \in Seq(Requests) /\ Len(Orphaned(c)) = Len(inbox)
  BY <1>1, <1>2, SeqDef, LenProperties
<1> QED
  BY <1>3 DEF Orphaned

LEMMA InitTicket == Init => TicketInv
<1> SUFFICES ASSUME Init PROVE TicketInv
  OBVIOUS
<1> USE TicketSystemAssumption DEF TicketSystemAssumption, Init
<1>1. TypeInv
  <2>1. ticket_array \in [Slots -> Clients \cup {NoTicket}] /\ num_ticket_out \in Nat
    OBVIOUS
  <2>2. server \in [pc : {"recv", "hold", "check", "update", "reply"},
                    request : Requests \cup {NoRequest}, slot : Slots \cup {NoSlot},
                    answer : Replies, alarm : {"on", "set", "off"},
                    left : BOOLEAN, cancelled : BOOLEAN]
    BY DEF Replies, NoAnswer
  <2>3. client \in [Clients -> Processes]
    BY DEF Processes, Process, Replies, NoAnswer
  <2> QED
    BY <2>1, <2>2, <2>3 DEF TypeInv, Handling
<1>2. ClientInv /\ OwnInv
  BY DEF ClientInv, OwnInv, Process, NoAnswer
<1>3. PendingInv /\ ServerInv
  BY DEF PendingInv, ServerInv, Handling
<1>4. Taken = {}
  BY DEF Taken
<1>5. CountInv
  BY <1>4, FS_EmptySet DEF CountInv
<1> QED
  BY <1>1, <1>2, <1>3, <1>5 DEF TicketInv

-----------------------------------------------------------------------------
(* The steps of clients.                                                   *)

(* The elements of the inbox, and what is known of each.                   *)
LEMMA InboxElements ==
  ASSUME TicketInv
  PROVE  /\ Len(inbox) \in Nat
         /\ \A k \in 1..Len(inbox) : inbox[k] \in Requests /\ RequestInv(inbox[k])
BY ElementOfSeq, LenProperties DEF TicketInv, TypeInv, PendingInv

(* What concerns the server and the array alone is not changed by a client *)
(* that starts or goes on.                                                 *)
LEMMA ClientFrame ==
  ASSUME TicketInv, UNCHANGED serverVars
  PROVE  CountInv' /\ ServerInv'
<1>1. Taken' = Taken
  BY DEF serverVars, Taken
<1> QED
  BY <1>1 DEF serverVars, TicketInv, CountInv, ServerInv

LEMMA SpawnKeeps ==
  ASSUME TicketInv, NEW c \in Clients, Spawn(c)
  PROVE  TicketInv'
<1> USE DEF Spawn, serverVars, Alive
<1>1. TypeInv'
  BY DEF TicketInv, TypeInv, Handling, Processes, Process, Replies, NoAnswer
<1>2. /\ client' \in [Clients -> Processes] /\ client'[c] = Process("start")
      /\ \A d \in Clients \ {c} : client'[d] = client[d]
  BY DEF TicketInv, TypeInv, Processes, Process, Replies, NoAnswer
<1>3. ClientInv' /\ OwnInv'
  BY <1>2 DEF TicketInv, ClientInv, OwnInv, Op, Process, NoAnswer
<1>4. \A r \in Requests : RequestInv(r) => RequestInv(r)'
  <2> SUFFICES ASSUME NEW r \in Requests, RequestInv(r) PROVE RequestInv(r)'
    OBVIOUS
  <2>1. CASE r.pid = c
    <3>1. client[c].waits = "no"
      BY DEF TicketInv, ClientInv, TypeInv, Processes
    <3>2. ~r.answered
      BY <2>1, <3>1 DEF RequestInv, Requests, Ops
    <3> QED
      BY <1>2, <2>1, <3>2 DEF RequestInv, Process
  <2>2. CASE r.pid # c
    BY <1>2, <2>2 DEF RequestInv, Requests
  <2> QED
    BY <2>1, <2>2
<1>5. PendingInv'
  BY <1>4, InboxElements DEF TicketInv, TypeInv, PendingInv, Handling
<1> QED
  BY <1>1, <1>3, <1>5, ClientFrame DEF TicketInv

(* do_transaction(): whoever asks does not wait yet, so that the new       *)
(* request is the only one of its pid that is to be answered.              *)
LEMMA AskKeeps ==
  ASSUME TicketInv, NEW c \in Clients, Ask(c)
  PROVE  TicketInv'
<1> USE DEF serverVars, Alive
<1>1. /\ UNCHANGED serverVars /\ Alive(c) /\ client[c].waits = "no" /\ client[c] \in Processes
      /\ client' = [client EXCEPT ![c].waits = Op(c)]
  BY DEF Ask, TicketInv, TypeInv
<1>2. Op(c) \in Ops
  BY <1>1 DEF Op, Ops
<1>3. PICK request \in Requests :
        /\ request.op = Op(c) /\ request.pid = c
        /\ request.slot = client[c].ticket /\ request.answered
        /\ inbox' = Append(inbox, request) \/ inbox' = inbox
  <2> DEFINE r == [op |-> Op(c), pid |-> c, slot |-> client[c].ticket, answered |-> TRUE]
  <2>1. r \in Requests
    BY <1>1, <1>2 DEF Requests, Processes
  <2>2. inbox' = Append(inbox, r) \/ inbox' = inbox
    BY DEF Ask
  <2> QED
    BY <2>1, <2>2
<1>4. /\ client' \in [Clients -> Processes]
      /\ client'[c] = [client[c] EXCEPT !.waits = Op(c)]
      /\ \A d \in Clients \ {c} : client'[d] = client[d]
  BY <1>1, <1>2 DEF TicketInv, TypeInv, Processes
<1>5. TypeInv'
  <2>1. inbox' \in Seq(Requests)
    BY <1>3, AppendProperties DEF TicketInv, TypeInv
  <2>2. budget' \in [spawned : Nat, killed : Nat, lost : Nat]
    BY DEF Ask, TicketInv, TypeInv
  <2> QED
    BY <1>1, <1>4, <2>1, <2>2 DEF TicketInv, TypeInv, Handling
<1>6. ClientInv'
  BY <1>1, <1>2, <1>4 DEF TicketInv, ClientInv, Op, Ops, Processes
<1>7. OwnInv'
  BY <1>1, <1>2, <1>4 DEF TicketInv, OwnInv, Ops, Processes
<1>8. ASSUME NEW r \in Requests, RequestInv(r)
      PROVE  RequestInv(r)' /\ (r.pid = c => ~r.answered)
  BY <1>1, <1>4, <1>8 DEF RequestInv, Requests, Ops, Processes
<1>9. RequestInv(request)'
  <2>1. client[c].answer = NoAnswer
    BY <1>1 DEF TicketInv, ClientInv
  <2>2. Op(c) # "HELO" => client[c].ticket \in Slots
    BY <1>1 DEF Op, Processes, TicketInv, ClientInv
  <2> QED
    BY <1>3, <1>1, <1>4, <2>1, <2>2 DEF RequestInv, Processes
<1>10. PendingInv'
  <2>1. CASE inbox' = inbox
    BY <1>1, <1>8, <2>1, InboxElements DEF TicketInv, TypeInv, PendingInv, Handling
  <2>2. CASE inbox' = Append(inbox, request)
    <3>1. /\ Len(inbox') = Len(inbox) + 1 /\ inbox'[Len(inbox) + 1] = request
          /\ \A k \in 1..Len(inbox) : inbox'[k] = inbox[k]
      BY <2>2, AppendProperties DEF TicketInv, TypeInv
    <3>2. \A k \in 1..Len(inbox) :
            RequestInv(inbox[k])' /\ (inbox[k].pid = c => ~inbox[k].answered)
      BY <1>8, <3>1, InboxElements
    <3>3. Handling => RequestInv(server.request)' /\ (server.request.pid = c => ~server.request.answered)
      BY <1>1, <1>8 DEF TicketInv, TypeInv, PendingInv, Handling
    <3> QED
      <4>1. \A k \in 1..Len(inbox') : RequestInv(inbox[k])'
        BY <1>9, <3>1, <3>2, InboxElements
      <4>2. Handling' => RequestInv(server.request)'
        BY <1>1, <3>3 DEF Handling
      <4>3. \A j, k \in 1..Len(inbox') :
              j < k /\ inbox'[j].pid = inbox'[k].pid => ~inbox'[j].answered
        <5> SUFFICES ASSUME NEW j \in 1..Len(inbox'), NEW k \in 1..Len(inbox'),
                            j < k, inbox'[j].pid = inbox'[k].pid
                     PROVE  ~inbox'[j].answered
          OBVIOUS
        <5>1. j \in 1..Len(inbox) /\ inbox'[j] = inbox[j]
          BY <3>1, InboxElements
        <5>2. CASE k = Len(inbox) + 1
          BY <5>1, <5>2, <1>3, <3>1, <3>2
        <5>3. CASE k # Len(inbox) + 1
          <6>1. k \in 1..Len(inbox) /\ inbox'[k] = inbox[k]
            BY <5>3, <3>1, InboxElements
          <6> QED
            BY <5>1, <6>1 DEF TicketInv, PendingInv
        <5> QED
          BY <5>2, <5>3
      <4>4. \A k \in 1..Len(inbox') :
              Handling' /\ server'.request.pid = inbox'[k].pid => ~server'.request.answered
        BY <1>1, <1>3, <3>1, <3>3, InboxElements DEF TicketInv, PendingInv, Handling
      <4> QED
        BY <4>1, <4>2, <4>3, <4>4 DEF PendingInv
  <2> QED
    BY <1>3, <2>1, <2>2
<1> QED
  BY <1>1, <1>5, <1>6, <1>7, <1>10, ClientFrame DEF TicketInv

(* A client that has got its answer has no request under way.              *)
LEMMA AnsweredHasNoRequest ==
  ASSUME TicketInv, NEW c \in Clients, client[c].answer # NoAnswer,
         NEW r, RequestInv(r)
  PROVE  r.pid # c
BY DEF RequestInv

(* It goes on to a place where it has a ticket of its own or none.         *)
LEMMA ContinuesKeeps ==
  ASSUME TicketInv, NEW c \in Clients, client[c].answer # NoAnswer,
         NEW at \in {"stage1", "again", "stage2"}, NEW have \in BOOLEAN,
         NEW slot \in Slots \cup {NoSlot}, have <=> at # "again",
         have => slot \in Slots /\ ticket_array[slot] = c,
         Continues(c, at, have, slot), budget' = budget
  PROVE  TicketInv'
<1> USE DEF Continues, serverVars
<1>1. /\ client' \in [Clients -> Processes]
      /\ client'[c] = [at |-> at, waits |-> "no", answer |-> NoAnswer,
                       have_ticket |-> have, ticket |-> slot]
      /\ \A d \in Clients \ {c} : client'[d] = client[d]
  BY DEF TicketInv, TypeInv, Processes, Replies, NoAnswer
<1>2. TypeInv'
  BY <1>1 DEF TicketInv, TypeInv, Handling
<1>3. ClientInv' /\ OwnInv'
  BY <1>1 DEF TicketInv, ClientInv, OwnInv, Op, Alive, NoAnswer
<1>4. ASSUME NEW r \in Requests, RequestInv(r) PROVE RequestInv(r)'
  <2>1. r.pid \in Clients \ {c}
    BY <1>4, AnsweredHasNoRequest DEF Requests
  <2> QED
    BY <1>1, <1>4, <2>1 DEF RequestInv
<1>5. PendingInv'
  BY <1>4, InboxElements DEF TicketInv, TypeInv, PendingInv, Handling
<1> QED
  BY <1>2, <1>3, <1>5, ClientFrame DEF TicketInv

(* The end of a client leaves requests that nobody waits for.              *)
LEMMA EndKeeps ==
  ASSUME TicketInv, NEW c \in Clients, End(c),
         budget' \in [spawned : Nat, killed : Nat, lost : Nat]
  PROVE  TicketInv'
<1> USE DEF End
<1>a. \A r \in Requests :
        /\ [r EXCEPT !.answered = FALSE] \in Requests
        /\ [r EXCEPT !.answered = FALSE].pid = r.pid
        /\ [r EXCEPT !.answered = FALSE].op = r.op
        /\ ~[r EXCEPT !.answered = FALSE].answered
        /\ r.pid # NoTicket
  BY TicketSystemAssumption DEF Requests, TicketSystemAssumption
<1>1. /\ client' \in [Clients -> Processes] /\ client'[c] = Process("ended")
      /\ \A d \in Clients \ {c} : client'[d] = client[d]
  BY DEF TicketInv, TypeInv, Processes, Process, Replies, NoAnswer
<1>2. /\ inbox' \in Seq(Requests) /\ Len(inbox') = Len(inbox)
      /\ \A k \in 1..Len(inbox) :
           /\ inbox[k] \in Requests
           /\ inbox[k].pid = c => inbox'[k] = [inbox[k] EXCEPT !.answered = FALSE]
           /\ inbox[k].pid # c => inbox'[k] = inbox[k]
  BY OrphanedRequests, InboxElements DEF TicketInv
<1>3. /\ server' \in [pc : {"recv", "hold", "check", "update", "reply"},
                      request : Requests \cup {NoRequest}, slot : Slots \cup {NoSlot},
                      answer : Replies, alarm : {"on", "set", "off"},
                      left : BOOLEAN, cancelled : BOOLEAN]
      /\ server'.pc = server.pc /\ server'.slot = server.slot
      /\ server'.answer = server.answer /\ server'.alarm = server.alarm
      /\ server.request.pid = c =>
           server'.request = [server.request EXCEPT !.answered = FALSE]
      /\ server.request.pid # c => server'.request = server.request
  <2>1. CASE server.request.pid = c
    <3>1. server.request \in Requests
      BY <2>1, TicketSystemAssumption DEF TicketInv, TypeInv, NoRequest, TicketSystemAssumption
    <3>2. server' = [server EXCEPT !.request = [server.request EXCEPT !.answered = FALSE]]
      BY <2>1 DEF TicketInv, TypeInv
    <3> QED
      BY <1>a, <3>1, <3>2, <2>1 DEF TicketInv, TypeInv
  <2>2. CASE server.request.pid # c
    BY <2>2 DEF TicketInv, TypeInv
  <2> QED
    BY <2>1, <2>2
<1>4. TypeInv'
  <2>1. Handling <=> server'.request # NoRequest
    <3>1. CASE server.request.pid = c
      <4>1. server.request # NoRequest
        BY <3>1, TicketSystemAssumption DEF NoRequest, TicketSystemAssumption
      <4>2. server.request \in Requests /\ Handling
        BY <4>1 DEF TicketInv, TypeInv
      <4>3. server'.request.pid # NoTicket
        BY <1>a, <1>3, <3>1, <4>2
      <4> QED
        BY <4>2, <4>3 DEF NoRequest
    <3>2. CASE server.request.pid # c
      BY <1>3, <3>2 DEF TicketInv, TypeInv
    <3> QED
      BY <3>1, <3>2
  <2> QED
    BY <1>1, <1>2, <1>3, <2>1 DEF TicketInv, TypeInv, Handling
<1>5. ClientInv' /\ OwnInv'
  BY <1>1 DEF TicketInv, ClientInv, OwnInv, Op, Alive, Process, NoAnswer
<1>6. ASSUME NEW r \in Requests, RequestInv(r)
      PROVE  /\ r.pid # c => RequestInv(r)'
             /\ \A s \in Requests : r.pid = c /\ s = [r EXCEPT !.answered = FALSE] => RequestInv(s)'
  BY <1>1, <1>6 DEF RequestInv, Process, Requests
<1>7. PendingInv'
  <2>1. \A k \in 1..Len(inbox') : RequestInv(inbox[k])'
    BY <1>a, <1>2, <1>6, InboxElements
  <2>2. Handling' => RequestInv(server.request)'
    <3> SUFFICES ASSUME Handling' PROVE RequestInv(server.request)'
      OBVIOUS
    <3>1. server.request \in Requests /\ RequestInv(server.request)
      BY <1>3 DEF TicketInv, TypeInv, PendingInv, Handling
    <3> QED
      BY <1>a, <1>3, <1>6, <3>1
  <2>3. \A k \in 1..Len(inbox) :
          inbox'[k].pid = inbox[k].pid /\ (inbox'[k].answered => inbox[k].answered)
    BY <1>a, <1>2
  <2>4. Handling' => /\ Handling /\ server'.request.pid = server.request.pid
                     /\ server'.request.answered => server.request.answered
    <3> SUFFICES ASSUME Handling' PROVE server.request \in Requests /\ Handling
      BY <1>a, <1>3
    <3> QED
      BY <1>3 DEF TicketInv, TypeInv, Handling
  <2> QED
    BY <1>2, <2>1, <2>2, <2>3, <2>4 DEF TicketInv, PendingInv
<1>8. Taken' = Taken
  BY DEF Taken
<1>9. CountInv' /\ ServerInv'
  <2>1. server.pc # "recv" => server'.request.pid = server.request.pid
          /\ server'.request.op = server.request.op
          /\ (server'.request.answered => server.request.answered)
    BY <1>3 DEF TicketInv, TypeInv, Requests, Handling
  <2> QED
    BY <1>3, <1>8, <2>1 DEF TicketInv, CountInv, ServerInv
<1> QED
  BY <1>4, <1>5, <1>7, <1>9 DEF TicketInv

(* The four calls of the client, and its death.                            *)
LEMMA ClientKeeps ==
  ASSUME TicketInv, NEW c \in Clients, Client(c) \/ Spawn(c) \/ Kill(c)
  PROVE  TicketInv'
<1>1. CASE Spawn(c)
  BY <1>1, SpawnKeeps
<1>2. CASE Ask(c)
  BY <1>2, AskKeeps
<1>3. ASSUME NEW op \in Ops, Answered(c, op)
      PROVE  /\ client[c].answer # NoAnswer /\ client[c].waits = op /\ client[c] \in Processes
             /\ op = "HELO" => client[c].at \in {"start", "again"}
             /\ op = "VALD" => client[c].at = "stage1"
             /\ op = "GBYE" => client[c].at = "stage2"
  BY <1>3 DEF Answered, Ops, TicketInv, TypeInv, ClientInv, Op, Alive, Processes
<1>4. CASE GetTicket(c)
  <2> USE <1>4 DEF GetTicket
  <2>1. Answered(c, "HELO") /\ "HELO" \in Ops /\ budget' = budget
    BY DEF Ops
  <2>2. CASE client[c].answer.kind = "TICK"
    <3>1. client[c].answer.slot \in Slots /\ ticket_array[client[c].answer.slot] = c
      BY <2>2 DEF TicketInv, OwnInv
    <3>2. PICK at \in {"stage1", "stage2"} : Continues(c, at, TRUE, client[c].answer.slot)
      BY <2>2
    <3> QED
      BY <1>3, <2>1, <3>1, <3>2, ContinuesKeeps
  <2>3. CASE client[c].answer.kind # "TICK"
    BY <2>1, <2>3, EndKeeps DEF TicketInv, TypeInv
  <2> QED
    BY <2>2, <2>3
<1>5. CASE CheckValidate(c)
  <2> USE <1>5 DEF CheckValidate
  <2>1. Answered(c, "VALD") /\ "VALD" \in Ops /\ budget' = budget
    BY DEF Ops
  <2>2. /\ client[c].answer # NoAnswer /\ client[c].have_ticket
        /\ client[c].ticket \in Slots /\ ticket_array[client[c].ticket] = c
    BY <2>1, <1>3 DEF TicketInv, ClientInv, OwnInv
  <2>3. CASE client[c].answer.kind # "GOOD"
    BY <2>1, <2>2, <2>3, ContinuesKeeps
  <2>4. CASE client[c].answer.kind = "GOOD"
    BY <2>1, <2>2, <2>4, ContinuesKeeps
  <2> QED
    BY <2>3, <2>4
<1>6. CASE ReleaseTicket(c)
  BY <1>6, EndKeeps DEF ReleaseTicket, TicketInv, TypeInv
<1>7. CASE Kill(c)
  <2>1. budget' \in [spawned : Nat, killed : Nat, lost : Nat]
    BY <1>7 DEF Kill, TicketInv, TypeInv
  <2> QED
    BY <1>7, <2>1, EndKeeps DEF Kill
<1> QED
  BY <1>1, <1>2, <1>4, <1>5, <1>6, <1>7 DEF Client

-----------------------------------------------------------------------------
(* The steps of the server.                                                *)

(* What is known of the request that is handled.                           *)
LEMMA RequestAtHand ==
  ASSUME TicketInv, Handling
  PROVE  server.request \in Requests /\ RequestInv(server.request)
BY DEF TicketInv, TypeInv, PendingInv

(* Steps of the server that leave the clients and the array alone.         *)
LEMMA ServerFrame ==
  ASSUME TicketInv, UNCHANGED <<ticket_array, num_ticket_out, client, budget>>
  PROVE  /\ ClientInv' /\ OwnInv' /\ CountInv'
         /\ \A r \in Requests : RequestInv(r) => RequestInv(r)'
<1>1. Taken' = Taken
  BY DEF Taken
<1> QED
  BY <1>1 DEF TicketInv, ClientInv, OwnInv, CountInv, RequestInv, Alive, Op

LEMMA ReceiveKeeps ==
  ASSUME TicketInv, Receive
  PROVE  TicketInv'
<1> USE DEF Receive
<1>1. /\ server.pc = "recv" /\ inbox # <<>> /\ inbox \in Seq(Requests)
      /\ server' = [server EXCEPT !.pc = "hold", !.request = Head(inbox)]
      /\ inbox' = Tail(inbox)
  BY DEF TicketInv, TypeInv
<1>2. /\ Len(inbox) \in Nat /\ Len(inbox) >= 1
      /\ Head(inbox) = inbox[1] /\ Head(inbox) \in Requests
      /\ inbox' \in Seq(Requests) /\ Len(inbox') = Len(inbox) - 1
      /\ \A k \in 1..Len(inbox') : inbox'[k] = inbox[k + 1] /\ k + 1 \in 1..Len(inbox)
  BY <1>1, HeadTailProperties, EmptySeq, LenProperties
<1>3. Head(inbox) # NoRequest
  BY <1>2, TicketSystemAssumption DEF Requests, Ops, NoRequest
<1>4. /\ server'.pc = "hold" /\ server'.request = inbox[1]
      /\ server'.slot = server.slot /\ server'.answer = server.answer
      /\ server' \in [pc : {"recv", "hold", "check", "update", "reply"},
                      request : Requests \cup {NoRequest}, slot : Slots \cup {NoSlot},
                      answer : Replies, alarm : {"on", "set", "off"},
                      left : BOOLEAN, cancelled : BOOLEAN]
  BY <1>1, <1>2 DEF TicketInv, TypeInv
<1>5. TypeInv'
  BY <1>2, <1>3, <1>4 DEF TicketInv, TypeInv, Handling
<1>6. PendingInv'
  <2>1. \A k \in 1..Len(inbox') : RequestInv(inbox[k])'
    BY <1>2, InboxElements, ServerFrame
  <2>2. RequestInv(server.request)'
    BY <1>2, <1>4, InboxElements, ServerFrame
  <2>3. \A j, k \in 1..Len(inbox) :
          j < k /\ inbox[j].pid = inbox[k].pid => ~inbox[j].answered
    BY DEF TicketInv, PendingInv
  <2>4. \A j, k \in 1..Len(inbox') :
          j < k /\ inbox'[j].pid = inbox'[k].pid => ~inbox'[j].answered
    BY <1>2, <2>3
  <2>5. \A k \in 1..Len(inbox') :
          server'.request.pid = inbox'[k].pid => ~server'.request.answered
    BY <1>2, <1>4, <2>3
  <2> QED
    BY <2>1, <2>2, <2>4, <2>5 DEF PendingInv
<1>7. ServerInv'
  BY <1>4 DEF ServerInv
<1> QED
  BY <1>5, <1>6, <1>7, ServerFrame DEF TicketInv

(* SIGALRM frees what no living process has.                               *)
LEMMA ReclaimKeepsOwn ==
  ASSUME TicketInv, ReclaimSlots(DeadSlots), client' = client
  PROVE  /\ ticket_array' \in [Slots -> Clients \cup {NoTicket}]
         /\ num_ticket_out' \in Nat /\ CountInv' /\ ClientInv' /\ OwnInv'
         /\ \A r \in Requests : RequestInv(r) => RequestInv(r)'
<1>1. /\ ticket_array' = [i \in Slots |-> IF i \in DeadSlots THEN NoTicket ELSE ticket_array[i]]
      /\ num_ticket_out' = num_ticket_out - Cardinality(DeadSlots)
  BY DEF ReclaimSlots
<1>2. DeadSlots \in SUBSET Taken
  BY DEF DeadSlots, Taken
<1>3. num_ticket_out' \in Nat /\ CountInv'
  <2>1. TypeInv /\ CountInv
    BY DEF TicketInv
  <2> QED
    BY <1>1, <1>2, <2>1, TakenShrinks DEF CountInv
<1>4. ticket_array' \in [Slots -> Clients \cup {NoTicket}]
  BY <1>1 DEF TicketInv, TypeInv
<1>5. ClientInv' /\ \A r \in Requests : RequestInv(r) => RequestInv(r)'
  BY DEF TicketInv, ClientInv, RequestInv, Alive, Op
<1>6. OwnInv'
  BY <1>1 DEF TicketInv, TypeInv, ClientInv, OwnInv, DeadSlots, Alive
<1> QED
  BY <1>3, <1>4, <1>5, <1>6

(* With the alarm on, no request is between the look at the array and its  *)
(* assignment.                                                             *)
LEMMA ReclaimKeeps ==
  ASSUME TicketInv, Reclaim
  PROVE  TicketInv'
<1>1. /\ ReclaimSlots(DeadSlots) /\ client' = client /\ server.alarm = "on"
      /\ UNCHANGED <<server, inbox, budget>>
  BY DEF Reclaim
<1>2. TypeInv'
  BY <1>1, ReclaimKeepsOwn DEF TicketInv, TypeInv, Handling
<1>3. PendingInv'
  BY <1>1, RequestAtHand, InboxElements, ReclaimKeepsOwn DEF TicketInv, PendingInv, Handling
<1>4. ServerInv'
  BY <1>1 DEF TicketInv, TypeInv, ServerInv
<1> QED
  BY <1>1, <1>2, <1>3, <1>4, ReclaimKeepsOwn DEF TicketInv

(* alarm(0), before which the handler may run once more.                   *)
LEMMA HoldKeeps ==
  ASSUME TicketInv, Hold
  PROVE  TicketInv'
<1>1. /\ server.pc = "hold" /\ server'.pc = "check"
      /\ server'.request = server.request /\ server'.alarm # "on"
      /\ server' \in [pc : {"recv", "hold", "check", "update", "reply"},
                      request : Requests \cup {NoRequest}, slot : Slots \cup {NoSlot},
                      answer : Replies, alarm : {"on", "set", "off"},
                      left : BOOLEAN, cancelled : BOOLEAN]
      /\ UNCHANGED <<inbox, client, budget>>
  <2>1. PICK left \in BOOLEAN, alarm \in {"set", "off"} :
          server' = [server EXCEPT !.pc = "check", !.alarm = alarm, !.left = left]
    <3>1. CASE server' = [server EXCEPT !.pc = "check", !.alarm = "off", !.left = server.alarm = "on"]
      BY <3>1
    <3>2. CASE server' = [server EXCEPT !.pc = "check", !.alarm = "set", !.left = FALSE]
      BY <3>2
    <3> QED
      BY <3>1, <3>2 DEF Hold
  <2>2. server.pc = "hold" /\ UNCHANGED <<inbox, client, budget>>
    BY DEF Hold
  <2> QED
    BY <2>1, <2>2 DEF TicketInv, TypeInv
<1>2. /\ ticket_array' \in [Slots -> Clients \cup {NoTicket}]
      /\ num_ticket_out' \in Nat /\ CountInv' /\ ClientInv' /\ OwnInv'
      /\ \A r \in Requests : RequestInv(r) => RequestInv(r)'
  <2>1. CASE UNCHANGED <<ticket_array, num_ticket_out>>
    BY <1>1, <2>1, ServerFrame DEF TicketInv, TypeInv
  <2>2. CASE ReclaimSlots(DeadSlots)
    BY <1>1, <2>2, ReclaimKeepsOwn
  <2> QED
    BY <2>1, <2>2 DEF Hold
<1>3. TypeInv'
  BY <1>1, <1>2 DEF TicketInv, TypeInv, Handling
<1>4. PendingInv'
  BY <1>1, <1>2, RequestAtHand, InboxElements DEF TicketInv, PendingInv, Handling
<1>5. ServerInv'
  BY <1>1 DEF ServerInv
<1> QED
  BY <1>2, <1>3, <1>4, <1>5 DEF TicketInv

(* What an answer changes of the server.                                   *)
LEMMA AnswersGives ==
  ASSUME TypeInv, NEW kind \in {"TICK", "FAIL", "GOOD", "THNX"},
         NEW slot \in Slots \cup {NoSlot}, Answers(kind, slot)
  PROVE  /\ server' \in [pc : {"recv", "hold", "check", "update", "reply"},
                         request : Requests \cup {NoRequest}, slot : Slots \cup {NoSlot},
                         answer : Replies, alarm : {"on", "set", "off"},
                         left : BOOLEAN, cancelled : BOOLEAN]
         /\ server'.pc = "reply" /\ server'.request = server.request
         /\ server'.alarm = server.alarm
         /\ server'.answer.kind = kind /\ server'.answer.slot = slot
<1>1. PICK answer \in Replies : answer = [kind |-> kind, slot |-> slot]
  BY DEF Replies
<1>2. server' = [server EXCEPT !.pc = "reply", !.answer = answer]
  BY <1>1 DEF Answers
<1>3. answer.kind = kind /\ answer.slot = slot
  BY <1>1
<1> QED
  BY <1>2, <1>3 DEF TypeInv

(* The counter is below MAX_USERS only when there is a free slot.          *)
LEMMA RoomIsThere ==
  ASSUME TicketInv, num_ticket_out < MaxUsers
  PROVE  Free # {}
<1> SUFFICES ASSUME Free = {} PROVE FALSE
  OBVIOUS
<1>1. Taken = Slots
  BY DEF Free, Taken
<1> QED
  BY <1>1, SlotsFinite, TicketSystemAssumption
  DEF TicketInv, CountInv, TypeInv, TicketSystemAssumption

LEMMA CheckKeeps ==
  ASSUME TicketInv, Check
  PROVE  TicketInv'
<1>1. /\ server.pc = "check" /\ server.alarm # "on" /\ Handling
      /\ server.request \in Requests
      /\ server.request.op # "HELO" => server.request.slot \in Slots
  BY RequestAtHand DEF Check, Handling, TicketInv, ServerInv, RequestInv
<1>2. \/ \E kind \in {"FAIL", "GOOD"} : Answers(kind, NoSlot)
      \/ \E i \in Slots :
           /\ Updates(i)
           /\ \/ server.request.op = "HELO" /\ ticket_array[i] = NoTicket
              \/ server.request.op = "GBYE" /\ ticket_array[i] = server.request.pid
  <2>1. CASE server.request.op = "HELO" /\ num_ticket_out >= MaxUsers
    BY <1>1, <2>1, TicketSystemAssumption DEF Check, TicketInv, TypeInv, TicketSystemAssumption, Ops
  <2>2. CASE server.request.op = "HELO" /\ num_ticket_out < MaxUsers
    <3>1. Free # {} /\ (CHOOSE i \in Free : \A j \in Free : i <= j) \in Free
      BY <2>2, RoomIsThere, FirstFree
    <3>2. num_ticket_out \in Nat /\ MaxUsers \in Nat
      BY TicketSystemAssumption DEF TicketSystemAssumption, TicketInv, TypeInv
    <3>3. Updates(CHOOSE i \in Free : \A j \in Free : i <= j)
      BY <2>2, <3>1, <3>2 DEF Check
    <3> QED
      BY <2>2, <3>1, <3>3 DEF Free
  <2>3. CASE server.request.op = "GBYE"
    BY <1>1, <2>3 DEF Check
  <2>4. CASE server.request.op = "VALD"
    BY <1>1, <2>4 DEF Check
  <2> QED
    BY <2>1, <2>2, <2>3, <2>4 DEF Check
<1>3. /\ UNCHANGED <<ticket_array, num_ticket_out, inbox, client, budget>>
      /\ server'.request = server.request /\ server'.alarm = server.alarm
      /\ server' \in [pc : {"recv", "hold", "check", "update", "reply"},
                      request : Requests \cup {NoRequest}, slot : Slots \cup {NoSlot},
                      answer : Replies, alarm : {"on", "set", "off"},
                      left : BOOLEAN, cancelled : BOOLEAN]
      /\ \/ server'.pc = "reply" /\ server'.answer.kind \in {"FAIL", "GOOD"}
         \/ /\ server'.pc = "update" /\ server'.slot \in Slots
            /\ \/ server.request.op = "HELO" /\ ticket_array[server'.slot] = NoTicket
               \/ server.request.op = "GBYE" /\ ticket_array[server'.slot] = server.request.pid
  <2>1. UNCHANGED <<ticket_array, num_ticket_out, inbox, client, budget>>
    BY DEF Check
  <2>2. CASE \E kind \in {"FAIL", "GOOD"} : Answers(kind, NoSlot)
    BY <2>1, <2>2, AnswersGives DEF TicketInv
  <2>3. CASE ~\E kind \in {"FAIL", "GOOD"} : Answers(kind, NoSlot)
    BY <1>1, <1>2, <2>1, <2>3 DEF Updates, TicketInv, TypeInv
  <2> QED
    BY <2>2, <2>3
<1>4. TypeInv'
  BY <1>1, <1>3 DEF TicketInv, TypeInv, Handling
<1>5. PendingInv'
  BY <1>1, <1>3, RequestAtHand, InboxElements, ServerFrame DEF TicketInv, PendingInv, Handling
<1>6. ServerInv'
  BY <1>1, <1>3 DEF ServerInv
<1> QED
  BY <1>3, <1>4, <1>5, <1>6, ServerFrame DEF TicketInv

(* A slot is granted that was free, or freed by the one it was granted to, *)
(* who has said good-bye or has ended.                                     *)
LEMMA UpdateKeeps ==
  ASSUME TicketInv, Update
  PROVE  TicketInv'
<1> DEFINE request == server.request
<1>1. /\ server.pc = "update" /\ Handling /\ server.slot \in Slots /\ server.alarm # "on"
      /\ request \in Requests /\ request.pid \in Clients /\ RequestInv(request)
      /\ UNCHANGED <<inbox, client, budget>>
  BY RequestAtHand DEF Update, Handling, TicketInv, ServerInv, Requests
<1>2. \/ /\ request.op = "HELO" /\ ticket_array[server.slot] = NoTicket
         /\ ticket_array' = [ticket_array EXCEPT ![server.slot] = request.pid]
         /\ num_ticket_out' = num_ticket_out + 1
         /\ Answers("TICK", server.slot)
      \/ /\ request.op = "GBYE" /\ ticket_array[server.slot] = request.pid
         /\ ticket_array' = [ticket_array EXCEPT ![server.slot] = NoTicket]
         /\ num_ticket_out' = num_ticket_out - 1
         /\ Answers("THNX", NoSlot)
  BY DEF Update, TicketInv, ServerInv
<1>3. /\ server'.request = request /\ server'.alarm = server.alarm /\ server'.pc = "reply"
      /\ server' \in [pc : {"recv", "hold", "check", "update", "reply"},
                      request : Requests \cup {NoRequest}, slot : Slots \cup {NoSlot},
                      answer : Replies, alarm : {"on", "set", "off"},
                      left : BOOLEAN, cancelled : BOOLEAN]
      /\ \/ /\ server'.answer.kind = "TICK" /\ server'.answer.slot = server.slot
            /\ request.op = "HELO"
         \/ server'.answer.kind = "THNX"
  BY <1>1, <1>2, AnswersGives DEF TicketInv
<1>4. /\ ticket_array' \in [Slots -> Clients \cup {NoTicket}]
      /\ num_ticket_out' \in Nat /\ num_ticket_out' = Cardinality(Taken')
  <2>1. CASE request.op = "HELO"
    BY <1>1, <1>2, <2>1, TakenGrows, TakenFinite DEF TicketInv, TypeInv, CountInv
  <2>2. CASE request.op = "GBYE"
    <3>1. {server.slot} \in SUBSET Taken
      BY <1>1, <1>2, <2>2, TicketSystemAssumption DEF Taken, TicketSystemAssumption
    <3>2. ticket_array' = [i \in Slots |-> IF i \in {server.slot} THEN NoTicket ELSE ticket_array[i]]
      BY <1>1, <1>2, <2>2 DEF TicketInv, TypeInv
    <3>3. Cardinality({server.slot}) = 1
      BY FS_Singleton
    <3>4. TypeInv /\ CountInv
      BY DEF TicketInv
    <3> QED
      BY <1>1, <1>2, <2>2, <3>1, <3>2, <3>3, <3>4, TakenShrinks DEF TypeInv, CountInv
  <2> QED
    BY <1>2, <2>1, <2>2
<1>5. TypeInv'
  BY <1>1, <1>3, <1>4 DEF TicketInv, TypeInv, Handling
<1>6. PendingInv' /\ ClientInv'
  BY <1>1, <1>3 DEF TicketInv, TypeInv, PendingInv, RequestInv, ClientInv, Handling, Alive, Op
<1>7. OwnInv'
  <2>1. CASE request.op = "HELO"
    BY <1>1, <1>2, <2>1, TicketSystemAssumption
    DEF TicketInv, OwnInv, TypeInv, TicketSystemAssumption, ClientInv
  <2>2. CASE request.op = "GBYE"
    <3>1. \A d \in Clients :
            /\ client[d].have_ticket /\ client[d].waits # "GBYE" => d # request.pid
            /\ client[d].answer.kind = "TICK" => d # request.pid
      BY <1>1, <2>2 DEF RequestInv, TicketInv, ClientInv, NoAnswer
    <3> QED
      BY <1>1, <1>2, <2>2, <3>1 DEF TicketInv, OwnInv, TypeInv, ClientInv
  <2> QED
    BY <1>2, <2>1, <2>2
<1>8. ServerInv'
  BY <1>1, <1>2, <1>3 DEF ServerInv, TicketInv, TypeInv
<1> QED
  BY <1>4, <1>5, <1>6, <1>7, <1>8 DEF TicketInv, CountInv

LEMMA ReplyKeeps ==
  ASSUME TicketInv, Reply
  PROVE  TicketInv'
<1> DEFINE request == server.request
<1>1. /\ server.pc = "reply" /\ Handling
      /\ request \in Requests /\ request.pid \in Clients /\ RequestInv(request)
      /\ UNCHANGED <<inbox, ticket_array, num_ticket_out>>
      /\ Ready
  BY RequestAtHand DEF Reply, Handling, TicketInv, Requests
<1>2. /\ server.answer \in Replies /\ server.answer # NoAnswer
      /\ server.answer.kind = "TICK" =>
           /\ request.op = "HELO" /\ server.answer.slot \in Slots
           /\ request.answered => ticket_array[server.answer.slot] = request.pid
  BY <1>1 DEF TicketInv, TypeInv, ServerInv, NoAnswer
<1>3. \/ client' = client
      \/ /\ request.answered
         /\ client' = [client EXCEPT ![request.pid].answer = server.answer]
  BY DEF Reply
<1>4. /\ client' \in [Clients -> Processes]
      /\ \A d \in Clients : d # request.pid => client'[d] = client[d]
      /\ \/ client'[request.pid] = client[request.pid]
         \/ /\ request.answered
            /\ client'[request.pid] = [client[request.pid] EXCEPT !.answer = server.answer]
  <2>1. client[request.pid] \in Processes /\ client \in [Clients -> Processes]
    BY <1>1 DEF TicketInv, TypeInv
  <2>2. PICK p : p = [client[request.pid] EXCEPT !.answer = server.answer]
    OBVIOUS
  <2>3. p \in Processes
    BY <1>2, <2>1, <2>2 DEF Processes
  <2>4. CASE client' = client
    BY <2>1, <2>4
  <2>5. CASE request.answered /\ client' = [client EXCEPT ![request.pid].answer = server.answer]
    <3>1. client' = [client EXCEPT ![request.pid] = p]
      BY <2>2, <2>5
    <3> QED
      BY <1>1, <2>1, <2>2, <2>3, <2>5, <3>1
  <2> QED
    BY <1>3, <2>4, <2>5
<1>5. TypeInv'
  <2>1. budget' \in [spawned : Nat, killed : Nat, lost : Nat]
    BY DEF Reply, TicketInv, TypeInv
  <2>2. server' \in [pc : {"recv", "hold", "check", "update", "reply"},
                     request : Requests \cup {NoRequest}, slot : Slots \cup {NoSlot},
                     answer : Replies, alarm : {"on", "set", "off"},
                     left : BOOLEAN, cancelled : BOOLEAN]
        /\ server'.pc = "recv" /\ server'.request = NoRequest
    BY <1>1 DEF Ready, TicketInv, TypeInv, Replies, NoAnswer
  <2> QED
    BY <1>1, <1>4, <2>1, <2>2 DEF TicketInv, TypeInv, Handling
<1>6. request.answered => client[request.pid].waits = request.op /\ request.op \in Ops
  BY <1>1 DEF RequestInv, Requests
<1>7. ClientInv' /\ OwnInv'
  <2>1. \A d \in Clients :
          /\ client'[d].at = client[d].at /\ client'[d].waits = client[d].waits
          /\ client'[d].have_ticket = client[d].have_ticket
          /\ client'[d].ticket = client[d].ticket
          /\ \/ client'[d].answer = client[d].answer
             \/ /\ d = request.pid /\ request.answered /\ client'[d].answer = server.answer
    BY <1>1, <1>4 DEF TicketInv, TypeInv, Processes
  <2>2. ClientInv'
    <3> SUFFICES ASSUME NEW d \in Clients
                 PROVE  /\ client'[d].answer # NoAnswer => client'[d].waits # "no"
                        /\ client'[d].answer.kind = "TICK" => client'[d].waits = "HELO"
      BY <2>1 DEF TicketInv, ClientInv, Alive, Op
    <3> QED
      BY <1>2, <1>6, <2>1 DEF TicketInv, ClientInv, Ops
  <2>3. OwnInv'
    BY <1>1, <1>2, <2>1 DEF TicketInv, OwnInv
  <2> QED
    BY <2>2, <2>3
<1>8. PendingInv'
  <2>1. ASSUME NEW k \in 1..Len(inbox) PROVE RequestInv(inbox[k])'
    <3>1. inbox[k] \in Requests /\ RequestInv(inbox[k])
      BY InboxElements
    <3>2. CASE request.answered
      <4>1. inbox[k].pid # request.pid
        BY <1>1, <3>2 DEF TicketInv, PendingInv
      <4> QED
        BY <1>1, <1>4, <3>1, <4>1 DEF RequestInv, Requests
    <3>3. CASE ~request.answered
      BY <1>1, <1>3, <3>1, <3>3 DEF RequestInv
    <3> QED
      BY <3>2, <3>3
  <2>2. ~Handling'
    BY <1>1 DEF Ready, Handling, TicketInv, TypeInv
  <2> QED
    BY <1>1, <2>1, <2>2 DEF TicketInv, PendingInv
<1>9. ServerInv' /\ CountInv'
  <2>1. server'.pc = "recv"
    BY <1>1 DEF Ready, TicketInv, TypeInv
  <2> QED
    BY <1>1, <2>1 DEF TicketInv, ServerInv, CountInv, Taken
<1> QED
  BY <1>5, <1>7, <1>8, <1>9 DEF TicketInv

LEMMA NextTicket == TicketInv /\ [Next]_vars => TicketInv'
<1> SUFFICES ASSUME TicketInv, [Next]_vars PROVE TicketInv'
  OBVIOUS
<1>1. CASE UNCHANGED vars
  BY <1>1 DEF vars, TicketInv, TypeInv, ClientInv, PendingInv, ServerInv, OwnInv, CountInv,
              RequestInv, Handling, Taken, Alive, Op
<1>2. CASE Serve
  BY <1>2, ReceiveKeeps, HoldKeeps, CheckKeeps, UpdateKeeps, ReplyKeeps DEF Serve
<1>3. CASE Reclaim
  BY <1>3, ReclaimKeeps
<1>4. CASE \E c \in Clients : Client(c) \/ Spawn(c) \/ Kill(c)
  BY <1>4, ClientKeeps
<1> QED
  BY <1>1, <1>2, <1>3, <1>4 DEF Next

THEOREM TicketInvariant == Spec => []TicketInv
<1>1. Init => TicketInv
  BY InitTicket
<1>2. TicketInv /\ [Next]_vars => TicketInv'
  BY NextTicket
<1> QED
  BY <1>1, <1>2, PTL DEF Spec

(* The counter that do_hello(), do_goodbye() and the handler of SIGALRM    *)
(* keep is the number of slots taken, for every number of slots.           *)
THEOREM CountExactHolds == Spec => []CountExact
<1>1. TicketInv => CountExact
  <2> SUFFICES ASSUME TicketInv PROVE CountExact
    OBVIOUS
  <2>1. Slots \ Free = Taken
    BY DEF Free, Taken
  <2>2. num_ticket_out \in 0..MaxUsers
    BY TakenFinite DEF TicketInv, CountInv
  <2>3. TypeOK
    BY <2>2 DEF TicketInv, TypeInv, Processes, Ops, TypeOK
  <2> QED
    BY <2>1, <2>3 DEF TicketInv, CountInv, CountExact
<1> QED
  BY <1>1, TicketInvariant, PTL

(* do_hello() never sends "FAIL ... database corrupt": when the counter is *)
(* below MAX_USERS, the array has a free slot.                             *)
THEOREM NeverCorrupt ==
  Spec => [](server.pc = "reply" => server.answer.kind # "CORRUPT")
<1>1. TicketInv => (server.pc = "reply" => server.answer.kind # "CORRUPT")
  BY DEF TicketInv, ServerInv
<1> QED
  BY <1>1, TicketInvariant, PTL

-----------------------------------------------------------------------------
(* The refinement of TicketOffice.                                         *)

Works(c) ==
  IF client[c].have_ticket /\ client[c].waits # "GBYE" THEN client[c].ticket ELSE NoSlot

LEMMA NoSlotIsNone == NoSlot \notin Slots
BY SlotsFinite, TicketSystemAssumption DEF TicketSystemAssumption

LEMMA InitImplements == Init => Office!Init
BY DEF Init, Process, Office!Init

(* A client that starts, goes on or ends is a stutter, or takes up its own *)
(* ticket, or leaves the one it worked with.                               *)
LEMMA ClientImplements ==
  ASSUME TicketInv, NEW c \in Clients, UNCHANGED ticket_array,
         \A d \in Clients \ {c} : client'[d] = client[d],
         \/ Works(c)' = Works(c)
         \/ Works(c) = NoSlot /\ Works(c)' \in Slots /\ ticket_array[Works(c)'] = c
         \/ Works(c)' = NoSlot
  PROVE  [Office!Next]_(Office!vars)
<1> DEFINE works == [d \in Clients |-> Works(d)]
<1>1. works' = [works EXCEPT ![c] = Works(c)']
  BY DEF Works
<1>2. CASE Works(c)' = Works(c)
  <2>1. works' = works
    BY <1>1, <1>2
  <2> QED
    BY <2>1 DEF Works, Office!vars
<1>3. CASE Works(c) = NoSlot /\ Works(c)' \in Slots /\ ticket_array[Works(c)'] = c
  <2>1. Office!TakeUp(Works(c)', c)
    BY <1>1, <1>3 DEF Works, Office!TakeUp
  <2> QED
    BY <1>3, <2>1 DEF Office!Next
<1>4. CASE Works(c)' = NoSlot /\ Works(c) # NoSlot
  <2>1. Office!Leave(c)
    BY <1>1, <1>4 DEF Works, Office!Leave
  <2> QED
    BY <2>1 DEF Office!Next
<1> QED
  BY <1>2, <1>3, <1>4

LEMMA ClientStepImplements ==
  ASSUME TicketInv, NEW c \in Clients, Client(c) \/ Spawn(c) \/ Kill(c)
  PROVE  [Office!Next]_(Office!vars)
<1> USE DEF Works
<1>1. /\ UNCHANGED ticket_array /\ client[c] \in Processes
      /\ \A d \in Clients \ {c} : client'[d] = client[d]
  BY DEF Client, Spawn, Kill, Ask, GetTicket, CheckValidate, ReleaseTicket, Continues, End,
         serverVars, TicketInv, TypeInv
<1>2. \/ Works(c)' = Works(c)
      \/ Works(c) = NoSlot /\ Works(c)' \in Slots /\ ticket_array[Works(c)'] = c
      \/ Works(c)' = NoSlot
  <2>1. CASE Spawn(c) \/ Kill(c) \/ ReleaseTicket(c)
    BY <2>1 DEF Spawn, Kill, ReleaseTicket, End, Process, TicketInv, TypeInv
  <2>2. CASE Ask(c)
    <3>1. client'[c] = [client[c] EXCEPT !.waits = Op(c)]
      BY <2>2 DEF Ask, TicketInv, TypeInv
    <3>2. client[c].waits = "no"
      BY <2>2 DEF Ask
    <3> QED
      BY <1>1, <3>1, <3>2 DEF Processes
  <2>3. CASE GetTicket(c)
    <3>1. client[c].answer # NoAnswer /\ client[c].waits = "HELO"
      BY <2>3 DEF GetTicket, Answered
    <3>2. ~client[c].have_ticket
      BY <3>1 DEF TicketInv, ClientInv, Op
    <3>3. CASE client[c].answer.kind = "TICK"
      <4>1. client'[c].have_ticket /\ client'[c].waits = "no" /\ client'[c].ticket = client[c].answer.slot
        BY <2>3, <3>3 DEF GetTicket, Continues, TicketInv, TypeInv
      <4> QED
        BY <3>2, <3>3, <4>1 DEF TicketInv, OwnInv
    <3>4. CASE client[c].answer.kind # "TICK"
      BY <2>3, <3>4 DEF GetTicket, End, Process, TicketInv, TypeInv
    <3> QED
      BY <3>3, <3>4
  <2>4. CASE CheckValidate(c)
    <3>1. client[c].waits = "VALD" /\ client[c].answer # NoAnswer
      BY <2>4 DEF CheckValidate, Answered
    <3>2. client[c].have_ticket
      BY <1>1, <3>1 DEF TicketInv, ClientInv, Op, Alive, Processes
    <3>3. \/ client'[c].have_ticket /\ client'[c].waits = "no" /\ client'[c].ticket = client[c].ticket
          \/ ~client'[c].have_ticket
      BY <2>4 DEF CheckValidate, Continues, TicketInv, TypeInv
    <3> QED
      BY <3>1, <3>2, <3>3
  <2> QED
    BY <2>1, <2>2, <2>3, <2>4 DEF Client
<1> QED
  BY <1>1, <1>2, ClientImplements

(* Slots that are freed together, when nobody works with one of them.      *)
LEMMA CollectImplements ==
  ASSUME TicketInv, UNCHANGED client, NEW S \in SUBSET Taken,
         \A i \in S, c \in Clients : Works(c) # i,
         ticket_array' = [i \in Slots |-> IF i \in S THEN NoTicket ELSE ticket_array[i]]
  PROVE  [Office!Next]_(Office!vars)
<1>1. S \in SUBSET Slots
  BY DEF Taken
<1>2. Office!Collect(S)
  BY <1>1 DEF Office!Collect, Taken, Works
<1> QED
  BY <1>1, <1>2 DEF Office!Next

(* What somebody works with is his in the array.                           *)
LEMMA WorksWithOwn ==
  ASSUME TicketInv, NEW c \in Clients, NEW i \in Slots, Works(c) = i
  PROVE  ticket_array[i] = c /\ Alive(c) /\ client[c].have_ticket /\ client[c].waits # "GBYE"
<1>1. client[c].have_ticket /\ client[c].waits # "GBYE" /\ client[c].ticket = i
  BY NoSlotIsNone DEF Works
<1> QED
  BY <1>1 DEF TicketInv, OwnInv, ClientInv, Alive

LEMMA ReclaimImplements ==
  ASSUME TicketInv, ReclaimSlots(DeadSlots), UNCHANGED client
  PROVE  [Office!Next]_(Office!vars)
<1>1. DeadSlots \in SUBSET Taken
  BY DEF DeadSlots, Taken
<1>2. \A i \in DeadSlots, c \in Clients : Works(c) # i
  BY WorksWithOwn DEF DeadSlots
<1> QED
  BY <1>1, <1>2, CollectImplements DEF ReclaimSlots

LEMMA ServeImplements ==
  ASSUME TicketInv, Serve
  PROVE  [Office!Next]_(Office!vars)
<1>1. CASE Receive \/ Check \/ (Hold /\ UNCHANGED ticket_array)
  BY <1>1 DEF Receive, Hold, Check, Office!vars
<1>4. CASE Hold /\ ReclaimSlots(DeadSlots)
  BY <1>4, ReclaimImplements DEF Hold
<1>2. CASE Reply
  <2>1. /\ ticket_array' = ticket_array
        /\ \A d \in Clients : client'[d].have_ticket = client[d].have_ticket
             /\ client'[d].waits = client[d].waits /\ client'[d].ticket = client[d].ticket
    <3>1. CASE client' = client
      BY <1>2, <3>1 DEF Reply
    <3>2. CASE client' = [client EXCEPT ![server.request.pid].answer = server.answer]
      BY <1>2, <3>2 DEF Reply, TicketInv, TypeInv, Processes
    <3> QED
      BY <1>2, <3>1, <3>2 DEF Reply
  <2> QED
    BY <2>1 DEF Office!vars
<1>3. CASE Update
  <2> DEFINE request == server.request
  <2>1. /\ server.pc = "update" /\ Handling /\ UNCHANGED client
        /\ server.slot \in Slots /\ request.pid \in Clients /\ RequestInv(request)
    BY <1>3, RequestAtHand DEF Update, Handling, TicketInv, ServerInv, Requests
  <2>2. CASE /\ request.op = "HELO" /\ ticket_array[server.slot] = NoTicket
             /\ ticket_array' = [ticket_array EXCEPT ![server.slot] = request.pid]
    <3>1. Office!Grant(server.slot, request.pid)
      BY <2>1, <2>2 DEF Office!Grant
    <3> QED
      BY <2>1, <3>1 DEF Office!Next
  <2>3. CASE /\ request.op = "GBYE" /\ ticket_array[server.slot] = request.pid
             /\ ticket_array' = [ticket_array EXCEPT ![server.slot] = NoTicket]
    <3>1. {server.slot} \in SUBSET Taken
      BY <2>1, <2>3, TicketSystemAssumption DEF Taken, TicketSystemAssumption
    <3>2. ticket_array' = [i \in Slots |-> IF i \in {server.slot} THEN NoTicket ELSE ticket_array[i]]
      BY <2>1, <2>3 DEF TicketInv, TypeInv
    <3>3. ASSUME NEW c \in Clients PROVE Works(c) # server.slot
      <4> SUFFICES ASSUME Works(c) = server.slot PROVE FALSE
        OBVIOUS
      <4>1. c = request.pid /\ client[c].have_ticket /\ client[c].waits # "GBYE"
        BY <2>1, <2>3, WorksWithOwn
      <4> QED
        BY <2>1, <2>3, <4>1 DEF RequestInv, TicketInv, ClientInv
    <3> QED
      BY <2>1, <3>1, <3>2, <3>3, CollectImplements
  <2> QED
    BY <1>3, <2>1, <2>2, <2>3 DEF Update, TicketInv, ServerInv
<1> QED
  BY <1>1, <1>2, <1>3, <1>4 DEF Serve, Hold

(* TicketSystem implements TicketOffice: a client works only with a ticket *)
(* that the array says is its own, and no ticket is freed, by GBYE or by   *)
(* SIGALRM, while somebody works with it, also when a process ends with    *)
(* requests and answers under way and another gets its pid.                *)
THEOREM OfficeImplemented == Spec => ImplementsOffice
<1>1. Init => Office!Init
  BY InitImplements
<1>2. TicketInv /\ [Next]_vars => [Office!Next]_(Office!vars)
  <2> SUFFICES ASSUME TicketInv, [Next]_vars PROVE [Office!Next]_(Office!vars)
    OBVIOUS
  <2>1. CASE UNCHANGED vars
    BY <2>1 DEF vars, Office!vars
  <2> QED
    BY <2>1, ServeImplements, ReclaimImplements, ClientStepImplements DEF Next, Reclaim
<1> QED
  BY <1>1, <1>2, TicketInvariant, PTL DEF Spec, ImplementsOffice, Office!Spec
=============================================================================
