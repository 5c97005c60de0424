----------------------------- MODULE HttpServer -----------------------------
(***************************************************************************)
(* The reactor of src/Http/http.cpp: the main thread collects events with  *)
(* epoll_wait and handles them one by one, the workers of the thread pool  *)
(* process requests and arm the descriptors again, and SIGALRM, which main *)
(* asks for only after a first alarm has come from outside (the initial    *)
(* alarm() is commented out), runs the timers.                             *)
(*                                                                         *)
(* The content of a connection is HttpConn's: here it has input or not and *)
(* a response to send or not.  The pool is the WorkQueue that ThreadPool   *)
(* implements, the timers are kept by the algorithms of TimerHeapOps.      *)
(* close_conn() is one step here, though it closes the number twice, also  *)
(* when a worker calls it; only what that does to m_user_count is told.    *)
(***************************************************************************)
EXTENDS TimerHeapOps, Integers, FiniteSets

CONSTANTS
  Fds,          \* the descriptor numbers that accept() can return
  Workers,      \* the worker threads
  MaxRequests,  \* m_max_requests of the pool
  MaxUsers,     \* MAX_FD
  NoFd,         \* an idle worker's request
  MaxAccepts,   \* bound: connections accepted
  MaxBacklog,   \* bound: connections that wait for accept()
  MaxOutside    \* bound: signals sent from outside and clients that leave

ASSUME HttpServerAssumption ==
  /\ Fds \subseteq Nat /\ IsFiniteSet(Fds)
  /\ NoFd \notin Fds
  /\ {MaxRequests, MaxUsers, Lifetime} \subseteq Nat \ {0}
  /\ {MaxAccepts, MaxBacklog, MaxOutside, MaxTime} \subseteq Nat

VARIABLES
  kernel,      \* per descriptor: open, input waits, peer has gone
  armed,       \* per descriptor: "none", "new" (by addfd), "in" or "out"
  listening,   \* backlog of the listening socket, and the edge not yet seen
  signals,     \* pending signals in the pipe; is an alarm set
  batch,       \* events collected and not yet handled
  stop,        \* is_stop, and whether main() has left its loop
  users,       \* the http_conn objects: m_sockfd # -1, m_write_idx > 0, timer
  user_count,  \* m_user_count
  heap,        \* the array of timers, numbered as they were created
  owner,       \* conn_data of each timer, as a descriptor number
  workqueue,   \* the queue of the pool
  serving,     \* the request of each worker
  rearm,       \* the event each worker will pass to modfd()
  outside,     \* signals sent and clients gone so far
  ghosts       \* refused: connections that append() refused;
               \* intruded: a timeout closed a connection somebody held;
               \* touched: fresh_expire() was called on a deleted timer;
               \* raced: a worker has closed a connection and counted it

vars == <<kernel, armed, listening, signals, now, batch, stop, users, user_count,
          heap, expire, owner, workqueue, serving, rearm, outside, ghosts>>

poolVars == <<workqueue, serving, rearm>>
timerVars == <<heap, expire, owner>>
connVars == <<kernel, armed, users, user_count>>

Pool == INSTANCE WorkQueue WITH
          queue <- workqueue, closed <- stop.left,
          Requests <- Fds, Capacity <- MaxRequests + 1, NoRequest <- NoFd

Init ==
  /\ kernel = [f \in Fds |-> [open |-> FALSE, input |-> FALSE, gone |-> FALSE]]
  /\ armed = [f \in Fds |-> "none"]
  /\ listening = [backlog |-> 0, edge |-> FALSE]
  /\ signals = [pending |-> {}, alarm |-> FALSE]
  /\ now = 0 /\ batch = {} /\ outside = 0
  /\ stop = [asked |-> FALSE, left |-> FALSE]
  /\ users = [f \in Fds |-> [open |-> FALSE, out |-> FALSE, timer |-> 0]]
  /\ user_count = 0
  /\ heap = <<>> /\ expire = <<>> /\ owner = <<>>
  /\ Pool!Init /\ rearm = [w \in Workers |-> "none"]
  /\ ghosts = [refused |-> {}, intruded |-> FALSE, touched |-> FALSE, raced |-> FALSE]

-----------------------------------------------------------------------------
(* Clients, signals and the clock.                                         *)

Connect ==
  /\ listening.backlog < MaxBacklog
  /\ Len(owner) + listening.backlog < MaxAccepts
  /\ listening' = [backlog |-> listening.backlog + 1, edge |-> TRUE]
  /\ UNCHANGED <<connVars, signals, now, batch, stop, timerVars, poolVars, outside, ghosts>>

ClientSends(f) ==
  /\ kernel[f].open /\ ~kernel[f].gone /\ ~kernel[f].input
  /\ kernel' = [kernel EXCEPT ![f].input = TRUE]
  /\ UNCHANGED <<armed, listening, signals, now, batch, stop, users, user_count,
                 timerVars, poolVars, outside, ghosts>>

ClientLeaves(f) ==
  /\ kernel[f].open /\ ~kernel[f].gone
  /\ outside < MaxOutside /\ outside' = outside + 1
  /\ kernel' = [kernel EXCEPT ![f].gone = TRUE]
  /\ UNCHANGED <<armed, listening, signals, now, batch, stop, users, user_count,
                 timerVars, poolVars, ghosts>>

(* SIGALRM or SIGINT from outside; sig_handler writes into the pipe.       *)
Kick ==
  /\ outside < MaxOutside /\ outside' = outside + 1
  /\ \E s \in {"alrm", "int"} : signals' = [signals EXCEPT !.pending = @ \cup {s}]
  /\ UNCHANGED <<connVars, listening, now, batch, stop, timerVars, poolVars, ghosts>>

(* A slot passes, and with it the alarm that time_checker() has set.       *)
Pass ==
  /\ SlotPasses
  /\ signals' = IF signals.alarm
                  THEN [signals EXCEPT !.pending = @ \cup {"alrm"}, !.alarm = FALSE]
                  ELSE signals
  /\ UNCHANGED <<connVars, listening, batch, stop, timerVars, poolVars, outside, ghosts>>

-----------------------------------------------------------------------------
(* epoll_wait().  A descriptor is reported once and its interest is used   *)
(* up; the listening socket and the pipe are edge-triggered.               *)

(* The event that epoll reports for f, "none" when there is none.          *)
Ready(f) ==
  IF ~kernel[f].open \/ armed[f] = "none" THEN "none"
  ELSE IF kernel[f].gone /\ armed[f] # "new" THEN "hup"
  ELSE IF armed[f] = "out" THEN "out"
  ELSE IF kernel[f].input \/ kernel[f].gone THEN "in"
  ELSE "none"

Events ==
  {<<Ready(f), f>> : f \in {g \in Fds : Ready(g) # "none"}}
    \cup (IF listening.edge THEN {<<"accept", NoFd>>} ELSE {})
    \cup (IF signals.pending # {} THEN {<<"signal", NoFd>>} ELSE {})

(* Faulty variant: EPOLLONESHOT is left out, interest is not used up.      *)
EpollWaitManyShots ==
  /\ batch = {} /\ ~stop.asked /\ ~stop.left
  /\ Events # {}
  /\ batch' = Events
  /\ listening' = [listening EXCEPT !.edge = FALSE]
  /\ UNCHANGED <<kernel, armed, signals, now, stop, users, user_count, timerVars, poolVars, outside, ghosts>>

EpollWait ==
  /\ batch = {} /\ ~stop.asked /\ ~stop.left
  /\ Events # {}
  /\ batch' = Events
  /\ armed' = [f \in Fds |-> IF Ready(f) = "none" THEN armed[f] ELSE "none"]
  /\ listening' = [listening EXCEPT !.edge = FALSE]
  /\ UNCHANGED <<kernel, signals, now, stop, users, user_count, timerVars, poolVars, outside, ghosts>>

Handled(e) == e \in batch /\ batch' = batch \ {e}

(* What close_conn() does to open connections, but for the count.          *)
CloseOpen(open) ==
  /\ kernel' = [f \in Fds |-> IF f \in open
                  THEN [open |-> FALSE, input |-> FALSE, gone |-> FALSE]
                  ELSE kernel[f]]
  /\ armed' = [f \in Fds |-> IF f \in open THEN "none" ELSE armed[f]]
  /\ users' = [f \in Fds |-> IF f \in open
                 THEN [users[f] EXCEPT !.open = FALSE] ELSE users[f]]

(* close_conn() of the objects in S: nothing for one already closed.       *)
CloseConns(S) ==
  LET open == {f \in Fds \cap S : users[f].open}
  IN CloseOpen(open) /\ user_count' = user_count - Cardinality(open)

-----------------------------------------------------------------------------
(* The handlers of the main loop.                                          *)

(* Faulty variant: without set_timer().                                    *)
OpenKeepingTimer(f, t) ==
  /\ kernel' = [kernel EXCEPT ![f].open = TRUE]
  /\ armed' = [armed EXCEPT ![f] = "new"]
  /\ users' = [users EXCEPT ![f].open = TRUE, ![f].out = FALSE]
  /\ user_count' = user_count + 1
  /\ expire' = Append(expire, FreshExpire)
  /\ owner' = Append(owner, f)
  /\ heap' = AddTimer(heap, expire', t)
  /\ ghosts' = [ghosts EXCEPT !.refused = @ \ {f}]

(* init() of the object of descriptor f, its timer t and add_timer().      *)
Open(f, t) ==
  /\ kernel' = [kernel EXCEPT ![f].open = TRUE]
  /\ armed' = [armed EXCEPT ![f] = "new"]
  /\ users' = [users EXCEPT ![f] = [open |-> TRUE, out |-> FALSE, timer |-> t]]
  /\ user_count' = user_count + 1
  /\ expire' = Append(expire, FreshExpire)
  /\ owner' = Append(owner, f)
  /\ heap' = AddTimer(heap, expire', t)
  /\ ghosts' = [ghosts EXCEPT !.refused = @ \ {f}]

(* accept(): one connection per event, however many wait.  The kernel      *)
(* hands out the lowest free number.                                       *)
Accept ==
  /\ Handled(<<"accept", NoFd>>)
  /\ LET free == {f \in Fds : ~kernel[f].open}
     IN IF listening.backlog = 0 \/ free = {}
          THEN UNCHANGED <<connVars, listening, timerVars, ghosts>>
          ELSE /\ listening' = [listening EXCEPT !.backlog = @ - 1]
               /\ IF user_count >= MaxUsers
                    THEN UNCHANGED <<connVars, timerVars, ghosts>>
                    ELSE Open(Min(free), Len(owner) + 1)
  /\ UNCHANGED <<signals, now, stop, poolVars, outside>>

(* The connections that a queue entry, a worker or an event refers to.     *)
Held ==
  {workqueue[i] : i \in 1..Len(workqueue)}
    \cup {serving[w] : w \in Workers} \cup {e[2] : e \in batch}

(* The pipe is read to its end; SIGALRM runs time_checker(): tick() closes *)
(* the connection of every timer it fires, and the alarm is set again.     *)
Signal ==
  /\ Handled(<<"signal", NoFd>>)
  /\ stop' = [stop EXCEPT !.asked = @ \/ "int" \in signals.pending]
  /\ signals' = [signals EXCEPT !.pending = {}, !.alarm = @ \/ "alrm" \in signals.pending]
  /\ IF "alrm" \in signals.pending /\ heap # <<>>
       THEN /\ heap' = AfterTick(heap, expire, now)
            /\ LET hit == {owner[t] : t \in Elements(heap) \ Elements(heap')}
               IN /\ CloseConns(hit)
                  /\ ghosts' = [ghosts EXCEPT
                       !.intruded = @ \/ \E f \in hit : users[f].open /\ f \in Held]
       ELSE UNCHANGED <<connVars, heap, ghosts>>
  /\ UNCHANGED <<listening, now, expire, owner, poolVars, outside>>

HangUp(f) ==
  /\ Handled(<<"hup", f>>)
  /\ CloseConns({f})
  /\ UNCHANGED <<listening, signals, now, stop, timerVars, poolVars, outside, ghosts>>

(* EPOLLIN: the timer is refreshed where it is, read() takes the input and *)
(* append() queues the connection or refuses it.  Without input, or on an  *)
(* object closed meanwhile, read() fails.                                  *)
Input(f) ==
  /\ Handled(<<"in", f>>)
  /\ UNCHANGED <<listening, signals, now, stop, heap, owner, rearm, outside>>
  /\ LET t == users[f].timer
         live == t \in Elements(heap)
         received == users[f].open /\ kernel[f].input
         full == Len(workqueue) > MaxRequests
     IN /\ expire' = IF live THEN [expire EXCEPT ![t] = FreshExpire] ELSE expire
        /\ ghosts' = [ghosts EXCEPT
             !.touched = @ \/ ~live,
             !.refused = IF received /\ full THEN @ \cup {f} ELSE @]
        /\ IF received
             THEN /\ kernel' = [kernel EXCEPT ![f].input = FALSE]
                  /\ IF full THEN UNCHANGED <<workqueue, serving>> ELSE Pool!Submit(f)
                  /\ UNCHANGED <<armed, users, user_count>>
             ELSE CloseConns({f}) /\ UNCHANGED <<workqueue, serving>>

(* EPOLLOUT and write(): the response is sent, or there was none, and the  *)
(* connection is re-armed or closed.                                       *)
Flush(f) ==
  /\ Handled(<<"out", f>>)
  /\ \/ /\ users[f].open
        /\ armed' = [armed EXCEPT ![f] = "in"]
        /\ users' = [users EXCEPT ![f].out = FALSE]
        /\ UNCHANGED <<kernel, user_count>>
     \/ /\ users[f].open => users[f].out
        /\ CloseConns({f})
  /\ UNCHANGED <<listening, signals, now, stop, timerVars, poolVars, outside, ghosts>>

(* write() has sent a part and meets EAGAIN.                               *)
WriteBlocked(f) ==
  /\ Handled(<<"out", f>>)
  /\ users[f].open /\ users[f].out
  /\ armed' = [armed EXCEPT ![f] = "out"]
  /\ UNCHANGED <<kernel, listening, signals, now, stop, users, user_count,
                 timerVars, poolVars, outside, ghosts>>

(* After SIGINT main() handles the rest of the batch and leaves its loop.  *)
LeaveLoop ==
  /\ batch = {} /\ stop.asked /\ ~stop.left
  /\ stop' = [stop EXCEPT !.left = TRUE]
  /\ UNCHANGED <<connVars, listening, signals, now, batch, timerVars, poolVars, outside, ghosts>>

-----------------------------------------------------------------------------
(* The workers.                                                            *)

Take(w) ==
  /\ UNCHANGED <<connVars, listening, signals, now, batch, stop, timerVars, rearm, outside, ghosts>>
  /\ Pool!Take(w)

(* close_conn() by a worker.  Its --m_user_count is a load and a store, in *)
(* a race with those of the main thread, of whose changes any number may   *)
(* come between the two and be lost, as the worker's own may be.           *)
WorkerCloses(f) ==
  IF ~users[f].open THEN UNCHANGED <<connVars, ghosts>>
  ELSE /\ CloseOpen({f})
       /\ user_count' \in (user_count - MaxAccepts)..MaxUsers
       /\ ghosts' = [ghosts EXCEPT !.raced = TRUE]

(* process() up to its last call: the request is incomplete, or a response *)
(* is in m_write_buf, or it did not fit behind what an earlier one has     *)
(* left there: process_write() fails, and the object is closed.            *)
Process(w) ==
  /\ ~stop.left
  /\ serving[w] # NoFd /\ rearm[w] = "none"
  /\ \/ /\ rearm' = [rearm EXCEPT ![w] = "in"]
        /\ UNCHANGED <<connVars, ghosts>>
     \/ /\ rearm' = [rearm EXCEPT ![w] = "out"]
        /\ users' = [users EXCEPT ![serving[w]].out = TRUE]
        /\ UNCHANGED <<kernel, armed, user_count, ghosts>>
     \/ /\ users[serving[w]].out
        /\ rearm' = [rearm EXCEPT ![w] = "out"]
        /\ WorkerCloses(serving[w])
  /\ UNCHANGED <<listening, signals, now, batch, stop, timerVars, workqueue, serving, outside>>

(* Faulty variants: process() always arms EPOLLIN; it returns without      *)
(* modfd() when the request is incomplete.                                 *)
RearmForInput(w) ==
  /\ rearm[w] # "none"
  /\ UNCHANGED <<kernel, listening, signals, now, batch, stop, users, user_count,
                 timerVars, outside, ghosts>>
  /\ Pool!Finish(w)
  /\ armed' = IF users[serving[w]].open
                THEN [armed EXCEPT ![serving[w]] = "in"] ELSE armed
  /\ rearm' = [rearm EXCEPT ![w] = "none"]

RearmForOutputOnly(w) ==
  /\ rearm[w] # "none"
  /\ UNCHANGED <<kernel, listening, signals, now, batch, stop, users, user_count,
                 timerVars, outside, ghosts>>
  /\ Pool!Finish(w)
  /\ armed' = IF users[serving[w]].open /\ rearm[w] = "out"
                THEN [armed EXCEPT ![serving[w]] = "out"] ELSE armed
  /\ rearm' = [rearm EXCEPT ![w] = "none"]

(* modfd(m_epollfd, m_sockfd, ...), with m_sockfd as it is by now.         *)
Rearm(w) ==
  /\ rearm[w] # "none"
  /\ UNCHANGED <<kernel, listening, signals, now, batch, stop, users, user_count,
                 timerVars, outside, ghosts>>
  /\ Pool!Finish(w)
  /\ armed' = IF users[serving[w]].open
                THEN [armed EXCEPT ![serving[w]] = rearm[w]] ELSE armed
  /\ rearm' = [rearm EXCEPT ![w] = "none"]

-----------------------------------------------------------------------------
Environment ==
  \/ Connect \/ Kick \/ Pass
  \/ \E f \in Fds : ClientSends(f) \/ ClientLeaves(f)

MainThread ==
  \/ EpollWait \/ Accept \/ Signal \/ LeaveLoop
  \/ \E f \in Fds : HangUp(f) \/ Input(f) \/ Flush(f) \/ WriteBlocked(f)

Worker(w) == Take(w) \/ Process(w) \/ Rearm(w)

Next == Environment \/ MainThread \/ \E w \in Workers : Worker(w)

(* The threads run.  Every EPOLLOUT finds room, so a finite response is    *)
(* sent after finitely many writes as long as its reader reads.  Nobody is *)
(* obliged to connect, to send or to signal.                               *)
Fairness ==
  /\ WF_vars(MainThread)
  /\ \A w \in Workers : WF_vars(Worker(w))
  /\ \A f \in Fds : SF_vars(Flush(f))

Spec == Init /\ [][Next]_vars /\ Fairness

-----------------------------------------------------------------------------
TypeOK ==
  /\ kernel \in [Fds -> [open : BOOLEAN, input : BOOLEAN, gone : BOOLEAN]]
  /\ armed \in [Fds -> {"none", "new", "in", "out"}]
  /\ listening \in [backlog : 0..MaxBacklog, edge : BOOLEAN]
  /\ users \in [Fds -> [open : BOOLEAN, out : BOOLEAN, timer : 0..MaxAccepts]]
  /\ user_count \in Int /\ user_count <= MaxUsers
  /\ heap \in Seq(1..MaxAccepts)
  /\ serving \in [Workers -> Fds \cup {NoFd}]
  /\ rearm \in [Workers -> {"none", "in", "out"}]

(* m_user_count, changed by accepts, by errors and by timeouts, counts the *)
(* open connections, until a worker changes it as well; each of them is an *)
(* open descriptor, whoever closes connections.                            *)
UserCountExact ==
  /\ ~ghosts.raced => user_count = Cardinality({f \in Fds : users[f].open})
  /\ \A f \in Fds : users[f].open <=> kernel[f].open

(* The timer that an open connection refreshes is in the heap, and no      *)
(* other timer is in it twice or lost: a connection that falls silent is   *)
(* reached by tick(), and nothing but stale events uses a deleted timer.   *)
TimerOfConnection ==
  /\ \A f \in Fds : users[f].open =>
       users[f].timer \in Elements(heap) /\ owner[users[f].timer] = f
  /\ Cardinality(Elements(heap)) = Len(heap)

(* Who is in charge of connection f: its armed interest, an event, the     *)
(* queue or a worker.                                                      *)
Holders(f) ==
  (IF armed[f] # "none" THEN 1 ELSE 0)
    + Cardinality({e \in batch : e[2] = f})
    + Cardinality({i \in 1..Len(workqueue) : workqueue[i] = f})
    + Cardinality({w \in Workers : serving[w] = f})

(* As long as no timeout has hit a connection in somebody's hands, an open *)
(* connection has exactly one holder: never two threads, never none,       *)
(* unless append() refused it, after which nobody ever looks at it again.  *)
OneHolder ==
  ~ghosts.intruded =>
    \A f \in Fds : Holders(f) = IF users[f].open /\ f \notin ghosts.refused THEN 1 ELSE 0

(* fresh_expire() on a deleted timer also takes such a timeout, and so     *)
(* does a worker that finds a response in the buffer and closes.           *)
OnlyAfterIntrusion == ~ghosts.intruded => ~ghosts.touched /\ ~ghosts.raced

(* What the main thread keeps for each connection is right: the count, the *)
(* descriptor, the timer.                                                  *)
ConnectionsBooked == TypeOK /\ UserCountExact /\ TimerOfConnection /\ OnlyAfterIntrusion

(* A response in the buffer is waited for with EPOLLOUT, and input with    *)
(* EPOLLIN, through every interleaving of the two threads.                 *)
ArmedForWhatItHas ==
  ~ghosts.intruded =>
    \A f \in Fds : armed[f] # "none" => (armed[f] = "out" <=> users[f].out)

(* "this socket can only be handled by one thread at a time" (addfd).      *)
OneThreadPerSocket ==
  \A v, w \in Workers : v # w /\ serving[v] = serving[w] => serving[v] = NoFd

(* What a client sends is taken up, or the connection ends, as long as no  *)
(* timeout hit a held connection and append() did not refuse it.           *)
InputTakenUp ==
  \A f \in Fds :
    kernel[f].input ~>
      ~kernel[f].input \/ ghosts.intruded \/ f \in ghosts.refused \/ stop.asked
=============================================================================
