----------------------------- MODULE TimeChecker -----------------------------
(***************************************************************************)
(* The server of src/TimeChecker/timechker.cpp: one thread, an epoll loop  *)
(* with edge-triggered descriptors, and a sorted list of timers that       *)
(* closes connections which are silent for three slots.                    *)
(***************************************************************************)
EXTENDS TimerList, FiniteSetsExt

CONSTANTS
  Fds,         \* the descriptor numbers that accept() returns
  NoFd,        \* in an event that is not a connection's
  Lifetime,    \* 3 * TIMESLOT, in slots
  MaxInput,    \* bound: reads' worth of input that waits on a connection
  MaxAccepts,  \* bound: connections made
  MaxTime      \* bound on the clock

ASSUME TimeCheckerAssumption ==
  /\ Fds \subseteq Nat /\ IsFiniteSet(Fds) /\ NoFd \notin Fds
  /\ {Lifetime, MaxInput} \subseteq Nat \ {0}
  /\ {MaxAccepts, MaxTime} \subseteq Nat

Timers == 1..MaxAccepts

VARIABLES
  kernel,     \* per descriptor: open, edge, input, gone
  listening,  \* backlog, edge, connections made
  signals,    \* bytes in the pipe; is the alarm set
  now,        \* time(nullptr)
  batch,      \* events collected and not yet handled
  stop,
  timer,      \* usrs[fd].timer
  timer_lst,  \* the sort_time_lst
  expire,     \* expire of each timer created
  owner,      \* usr_data of each timer
  deleted,    \* timers that were deleted
  ghosts      \* stale: a timeout closed a descriptor with an event in the batch;
              \* broken: a deleted timer was used, nothing is known any more

vars == <<kernel, listening, signals, now, batch, stop, timer, timer_lst, expire,
          owner, deleted, ghosts>>
timers == <<timer, timer_lst, expire, owner, deleted>>

Closed == [open |-> FALSE, edge |-> FALSE, input |-> 0, gone |-> FALSE]

Init ==
  /\ kernel = [f \in Fds |-> Closed]
  /\ listening = [backlog |-> 0, edge |-> FALSE, total |-> 0]
  /\ signals = [pending |-> {}, alarm |-> TRUE]
  /\ now = 0 /\ batch = {} /\ stop = FALSE
  /\ timer = [f \in Fds |-> Null] /\ timer_lst = EmptyList(Timers)
  /\ expire = <<>> /\ owner = <<>> /\ deleted = {}
  /\ ghosts = [stale |-> FALSE, broken |-> FALSE]

-----------------------------------------------------------------------------
(* There is always a descriptor left for a connection that is waited for.  *)
Connect ==
  /\ listening.total < MaxAccepts
  /\ Cardinality({f \in Fds : ~kernel[f].open}) > listening.backlog
  /\ listening' = [backlog |-> listening.backlog + 1, edge |-> TRUE,
                   total |-> listening.total + 1]
  /\ UNCHANGED <<kernel, signals, now, batch, stop, timers, ghosts>>

(* Input, or the end of it, is an edge of its own.                         *)
ClientActs(f) ==
  /\ kernel[f].open /\ ~kernel[f].gone
  /\ \/ /\ kernel[f].input < MaxInput
        /\ kernel' = [kernel EXCEPT ![f].input = @ + 1, ![f].edge = TRUE]
     \/ kernel' = [kernel EXCEPT ![f].gone = TRUE, ![f].edge = TRUE]
  /\ UNCHANGED <<listening, signals, now, batch, stop, timers, ghosts>>

(* A slot passes; sig_handler() writes into the pipe when it is over.      *)
Pass ==
  /\ now < MaxTime /\ now' = now + 1
  /\ signals' = IF signals.alarm
                  THEN [pending |-> signals.pending \cup {"alrm"}, alarm |-> FALSE]
                  ELSE signals
  /\ UNCHANGED <<kernel, listening, batch, stop, timers, ghosts>>

Terminate ==
  /\ signals' = [signals EXCEPT !.pending = @ \cup {"term"}]
  /\ UNCHANGED <<kernel, listening, now, batch, stop, timers, ghosts>>

EpollWait ==
  /\ batch = {} /\ ~stop /\ ~ghosts.broken
  /\ batch' = {<<"data", f>> : f \in {g \in Fds : kernel[g].edge}}
                \cup (IF listening.edge THEN {<<"accept", NoFd>>} ELSE {})
                \cup (IF signals.pending # {} THEN {<<"signal", NoFd>>} ELSE {})
  /\ batch' # {}
  /\ kernel' = [f \in Fds |-> [kernel[f] EXCEPT !.edge = FALSE]]
  /\ listening' = [listening EXCEPT !.edge = FALSE]
  /\ ghosts' = [ghosts EXCEPT !.stale = FALSE]
  /\ UNCHANGED <<signals, now, stop, timers>>

Handled(e) == e \in batch /\ ~ghosts.broken /\ batch' = batch \ {e}

-----------------------------------------------------------------------------
(* One accept() per edge, and a new timer for the connection.              *)
Accept ==
  /\ Handled(<<"accept", NoFd>>)
  /\ LET f == Min({g \in Fds : ~kernel[g].open})
         t == Len(expire) + 1
     IN /\ listening' = [listening EXCEPT !.backlog = @ - 1]
        /\ kernel' = [kernel EXCEPT ![f].open = TRUE]
        /\ expire' = Append(expire, now + Lifetime)
        /\ owner' = Append(owner, f)
        /\ timer_lst' = AddTime(timer_lst, expire', t)
        /\ timer' = [timer EXCEPT ![f] = t]
  /\ UNCHANGED <<signals, now, stop, deleted, ghosts>>

(* SIGTERM stops the loop after this batch; SIGALRM runs timer_handler():  *)
(* tick() and alarm().                                                     *)
Signal ==
  /\ Handled(<<"signal", NoFd>>)
  /\ stop' = (stop \/ "term" \in signals.pending)
  /\ IF "alrm" \in signals.pending
       THEN LET tick == AfterTick(timer_lst, expire, now)
                hit == {owner[t] : t \in tick.fired}
            IN /\ timer_lst' = tick.lst
               /\ deleted' = deleted \cup tick.fired
               /\ kernel' = [f \in Fds |-> IF f \in hit THEN Closed ELSE kernel[f]]
               /\ signals' = [pending |-> {}, alarm |-> TRUE]
               /\ ghosts' = [ghosts EXCEPT
                    !.stale = @ \/ \E f \in hit : <<"data", f>> \in batch]
       ELSE /\ signals' = [signals EXCEPT !.pending = {}]
            /\ UNCHANGED <<kernel, timer_lst, deleted, ghosts>>
  /\ UNCHANGED <<listening, now, timer, expire, owner>>

(* cb_func() and del_timer().                                              *)
Close(f) ==
  /\ kernel' = [kernel EXCEPT ![f] = Closed]
  /\ timer_lst' = DelTimer(timer_lst, timer[f])
  /\ deleted' = deleted \cup {timer[f]}
  /\ UNCHANGED <<expire, ghosts>>

(* What recv() finds.  On a descriptor that was closed since epoll_wait()  *)
(* it fails, which is handled like the end of the input.                   *)
Reads(f) == kernel[f].open /\ kernel[f].input > 0
Ends(f) == kernel[f].open => kernel[f].input = 0 /\ kernel[f].gone

(* One recv() of 63 bytes at most, after which the timer moves; or the end *)
(* of the connection; or nothing (EAGAIN).  A timer that tick() deleted    *)
(* must not be used any more.                                              *)
Data(f) ==
  /\ Handled(<<"data", f>>)
  /\ \/ /\ Reads(f) /\ timer[f] \notin deleted
        /\ kernel' = [kernel EXCEPT ![f].input = @ - 1]
        /\ expire' = [expire EXCEPT ![timer[f]] = now + Lifetime]
        /\ timer_lst' = AdjustTimer(timer_lst, expire', timer[f])
        /\ UNCHANGED <<deleted, ghosts>>
     \/ Ends(f) /\ timer[f] \notin deleted /\ Close(f)
     \/ /\ ~Reads(f) /\ ~Ends(f)
        /\ UNCHANGED <<kernel, expire, timer_lst, deleted, ghosts>>
     \/ /\ Reads(f) \/ Ends(f)
        /\ timer[f] \in deleted
        /\ ghosts' = [ghosts EXCEPT !.broken = TRUE]
        /\ UNCHANGED <<kernel, expire, timer_lst, deleted>>
  /\ UNCHANGED <<listening, signals, now, stop, timer, owner>>

-----------------------------------------------------------------------------
Next ==
  \/ Connect \/ Pass \/ Terminate \/ EpollWait \/ Accept \/ Signal
  \/ \E f \in Fds : ClientActs(f) \/ Data(f)

Spec == Init /\ [][Next]_vars

-----------------------------------------------------------------------------
TypeOK ==
  /\ kernel \in [Fds -> [open : BOOLEAN, edge : BOOLEAN, input : 0..MaxInput, gone : BOOLEAN]]
  /\ listening.backlog \in 0..MaxAccepts
  /\ timer \in [Fds -> Timers \cup {Null}]
  /\ timer_lst.head \in Timers \cup {Null} /\ timer_lst.tail \in Timers \cup {Null}
  /\ deleted \subseteq Timers

Live == (1..Len(expire)) \ deleted

(* The pointers make one list, the same from both ends, with every timer   *)
(* that was not deleted, sorted by expire: no operation leaves a timer     *)
(* half linked in.                                                         *)
ListConsistent ==
  ~ghosts.broken =>
    \E n \in 0..Len(expire) : \E order \in [1..n -> Live] :
      Live = {order[k] : k \in 1..n} /\ Chained(timer_lst, expire, order, n)

(* Each open connection has its own timer in the list, and each timer in   *)
(* the list closes an open connection: nothing is closed twice and nothing *)
(* outlives its silence.                                                   *)
TimerPerConnection ==
  ~ghosts.broken =>
    {<<owner[t], t>> : t \in Live}
      = {<<f, timer[f]>> : f \in {g \in Fds : kernel[g].open}}

(* A deleted timer is used only when a timeout and an event of the same    *)
(* connection fall into one batch.                                         *)
NoDeletedTimerUsed == ghosts.broken => ghosts.stale

(* The list and the connections through all operations: types, pointers,   *)
(* order and owners are right, and a deleted timer is used only as told.   *)
TimersConsistent == TypeOK /\ ListConsistent /\ TimerPerConnection /\ NoDeletedTimerUsed

(* tick() stops at the first timer that has not expired, be it the head;   *)
(* what any tick() leaves has not expired either, however often timers     *)
(* were moved, also when it fires nothing.                                 *)
TickFiresExpired ==
  [][(<<"signal", NoFd>> \in batch \ batch' /\ "alrm" \in signals.pending)
       => \A t \in (1..Len(expire)) \ deleted' : expire[t] > now]_vars
=============================================================================
