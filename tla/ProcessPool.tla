----------------------------- MODULE ProcessPool -----------------------------
(***************************************************************************)
(* The process pool of src/CGIserv/processpool.h with the connections of   *)
(* CGIserv.cpp: the parent watches the listening socket and tells a child, *)
(* round robin, over a datagram pipe that somebody has connected; the      *)
(* child accepts, reads a request and forks a CGI program.  Every process  *)
(* turns its signals into bytes in a pipe that its epoll loop reads.       *)
(***************************************************************************)
EXTENDS Integers, FiniteSets

CONSTANTS
  ProcessNumber,   \* m_process_number
  PipeCapacity,    \* datagrams that fit between parent and child
  MaxConnections,  \* bound: connections made
  MaxSignals       \* bound: SIGTERM to the parent and SIGKILL to children

ASSUME ProcessPoolAssumption ==
  /\ ProcessNumber \in 1..16
  /\ PipeCapacity \in Nat \ {0}
  /\ {MaxConnections, MaxSignals} \subseteq Nat

Children == 0..(ProcessNumber - 1)

VARIABLES
  listening,  \* backlog and its edge; connections so far; ghost: was there an
              \* accept() since the last of them
  parent,     \* phase, m_stop, sub_process_counter, signals in the pipe, the last of
              \* them, batch; ghost: children that ended before setup_sig_pipe()
  m_pid,      \* m_sub_process[i].m_pid
  child,      \* each child process
  sent        \* SIGTERM and SIGKILL sent so far

vars == <<listening, parent, m_pid, child, sent>>

(* The pid of child i; 1 is init.                                          *)
PidOf(i) == i + 2

Forked == [state |-> "start", stop |-> FALSE, signals |-> {}, batch |-> {},
           notices |-> 0, edge |-> FALSE, clients |-> 0, input |-> 0,
           cgi |-> 0, zombies |-> 0]

Init ==
  /\ listening = [backlog |-> 0, edge |-> FALSE, total |-> 0, served |-> TRUE]
  /\ parent = [phase |-> "start", stop |-> FALSE, counter |-> 0,
               signals |-> {}, last |-> "none", batch |-> {}, missed |-> {}]
  /\ m_pid = [i \in Children |-> PidOf(i)]
  /\ child = [i \in Children |-> Forked]
  /\ sent = 0

-----------------------------------------------------------------------------
(* What a process does to others.                                          *)

(* A signal becomes a byte in the pipe of the parent: which there are      *)
(* counts, and which is the last.                                          *)
Noted(s) == [parent EXCEPT !.signals = @ \cup {s}, !.last = s]

(* Child i ends, however it does.  The parent ignores SIGCHLD until it has *)
(* called setup_sig_pipe().                                                *)
Die(i) ==
  /\ child' = [child EXCEPT ![i] = [Forked EXCEPT !.state = "zombie"]]
  /\ parent' = IF parent.phase = "run"
                 THEN Noted("chld")
                 ELSE [parent EXCEPT !.missed = @ \cup {i}]

Alive(i) == child[i].state \in {"start", "run"}

-----------------------------------------------------------------------------
(* The environment.                                                        *)

Connect ==
  /\ listening.total < MaxConnections
  /\ listening' = [backlog |-> listening.backlog + 1, edge |-> parent.phase = "run",
                   total |-> listening.total + 1, served |-> FALSE]
  /\ UNCHANGED <<parent, m_pid, child, sent>>

ClientSends(i) ==
  /\ Alive(i) /\ child[i].input < child[i].clients
  /\ child' = [child EXCEPT ![i].input = @ + 1]
  /\ UNCHANGED <<listening, parent, m_pid, sent>>

CgiExits(i) ==
  /\ Alive(i) /\ child[i].cgi > 0
  /\ child' = [child EXCEPT ![i].cgi = @ - 1, ![i].zombies = @ + 1,
                            ![i].signals = @ \cup {"chld"}]
  /\ UNCHANGED <<listening, parent, m_pid, sent>>

(* SIGTERM or SIGINT to the parent: fatal before setup_sig_pipe().         *)
Terminate ==
  /\ sent < MaxSignals /\ sent' = sent + 1
  /\ \/ /\ parent.phase = "start"
        /\ parent' = [parent EXCEPT !.phase = "dead"]
     \/ /\ parent.phase = "run"
        /\ parent' = Noted("term")
  /\ UNCHANGED <<listening, m_pid, child>>

Crash(i) ==
  /\ sent < MaxSignals /\ sent' = sent + 1
  /\ Alive(i)
  /\ Die(i)
  /\ UNCHANGED <<listening, m_pid>>

-----------------------------------------------------------------------------
(* run_parent().                                                           *)

(* Faulty variant: the listening socket is watched before it has backlog.  *)
ParentSetupDeaf ==
  /\ parent.phase = "start"
  /\ parent' = [parent EXCEPT !.phase = "run"]
  /\ UNCHANGED <<listening, m_pid, child, sent>>

(* setup_sig_pipe() and addfd(): a connection that waits already is an     *)
(* event.                                                                  *)
ParentSetup ==
  /\ parent.phase = "start"
  /\ parent' = [parent EXCEPT !.phase = "run"]
  /\ listening' = [listening EXCEPT !.edge = @ \/ listening.backlog > 0]
  /\ UNCHANGED <<m_pid, child, sent>>

ParentWait ==
  /\ parent.phase = "run" /\ ~parent.stop /\ parent.batch = {}
  /\ LET events == (IF listening.edge THEN {"listen"} ELSE {})
                     \cup (IF parent.signals # {} THEN {"signal"} ELSE {})
     IN /\ events # {}
        /\ parent' = [parent EXCEPT !.batch = events]
        /\ listening' = [listening EXCEPT !.edge = FALSE]
  /\ UNCHANGED <<m_pid, child, sent>>

(* The first child from sub_process_counter on whose m_pid is not -1.      *)
Candidates == {k \in Children : m_pid[(parent.counter + k) % ProcessNumber] # -1}
Chosen == (parent.counter + CHOOSE k \in Candidates : \A l \in Candidates : k <= l)
            % ProcessNumber

(* send() to child i waits while the pipe is full, and fails unnoticed     *)
(* when the child has gone.                                                *)
SendNotice(i) ==
  IF Alive(i)
    THEN /\ child[i].notices < PipeCapacity
         /\ child' = [child EXCEPT ![i].notices = @ + 1,
                                   ![i].edge = @ \/ child[i].state = "run"]
    ELSE child' = child

(* A new connection; without any child the parent stops and the rest of    *)
(* the batch is dropped.                                                   *)
Notify ==
  /\ "listen" \in parent.batch
  /\ IF Candidates = {}
       THEN parent' = [parent EXCEPT !.batch = {}, !.stop = TRUE] /\ child' = child
       ELSE /\ parent' = [parent EXCEPT !.batch = @ \ {"listen"},
                                        !.counter = (Chosen + 1) % ProcessNumber]
            /\ SendNotice(Chosen)
  /\ UNCHANGED <<listening, m_pid, sent>>

Zombies == {i \in Children : child[i].state = "zombie"}

(* pid = waitpid(...) > 0: what is compared with the m_pid is 1.           *)
WaitResult == 1

(* The loop over the bytes of the pipe, with the children in reaped waited *)
(* for by SIGCHLD.  Both signals assign m_stop, so that the last one       *)
(* decides.                                                                *)
HandleSignals(reaped) ==
  LET chld == "chld" \in parent.signals
      term == "term" \in parent.signals
  IN /\ "signal" \in parent.batch
     /\ m_pid' = [i \in Children |->
          IF chld /\ reaped # {} /\ m_pid[i] = WaitResult THEN -1 ELSE m_pid[i]]
     /\ child' = [i \in Children |->
          IF chld /\ i \in reaped THEN [child[i] EXCEPT !.state = "gone"]
          ELSE IF term /\ m_pid[i] # -1 /\ Alive(i)
            THEN [child[i] EXCEPT !.signals = @ \cup {"term"}]
          ELSE child[i]]
     /\ parent' = [parent EXCEPT
          !.batch = @ \ {"signal"}, !.signals = {}, !.last = "none",
          !.stop = IF parent.last = "term" THEN TRUE ELSE \A i \in Children : m_pid'[i] = -1]
     /\ UNCHANGED <<listening, sent>>

(* Faulty variant: one waitpid() per SIGCHLD.                              *)
ParentSignalsOnce ==
  \E i \in Children :
    (Zombies # {} => i \in Zombies) /\ HandleSignals({i} \cap Zombies)

ParentSignals == HandleSignals(Zombies)

ParentLeave ==
  /\ parent.phase = "run" /\ parent.stop /\ parent.batch = {}
  /\ parent' = [parent EXCEPT !.phase = "left"]
  /\ UNCHANGED <<listening, m_pid, child, sent>>

-----------------------------------------------------------------------------
(* run_child().                                                            *)

(* A SIGTERM that comes before setup_sig_pipe() is fatal.                  *)
ChildSetup(i) ==
  /\ child[i].state = "start"
  /\ IF "term" \in child[i].signals
       THEN Die(i)
       ELSE /\ child' = [child EXCEPT ![i].state = "run",
                                      ![i].edge = child[i].notices > 0]
            /\ UNCHANGED parent
  /\ UNCHANGED <<listening, m_pid, sent>>

ChildWait(i) ==
  /\ child[i].state = "run" /\ ~child[i].stop /\ child[i].batch = {}
  /\ LET c == child[i]
         events == (IF c.edge THEN {"notice"} ELSE {})
                     \cup (IF c.signals # {} THEN {"signal"} ELSE {})
                     \cup (IF c.input > 0 THEN {"client"} ELSE {})
     IN /\ events # {}
        /\ child' = [child EXCEPT ![i].batch = events, ![i].edge = FALSE]
  /\ UNCHANGED <<listening, parent, m_pid, sent>>

(* Faulty variant: accept() until there is nothing left.                   *)
InviteAll(i) ==
  /\ "notice" \in child[i].batch
  /\ child' = [child EXCEPT ![i].batch = @ \ {"notice"}, ![i].notices = @ - 1,
                            ![i].clients = @ + listening.backlog]
  /\ listening' = [listening EXCEPT !.backlog = 0, !.served = TRUE]
  /\ UNCHANGED <<parent, m_pid, sent>>

(* One recv() and one accept() per event, however many notices wait.       *)
Invite(i) ==
  /\ "notice" \in child[i].batch
  /\ LET n == IF listening.backlog > 0 THEN 1 ELSE 0
     IN /\ child' = [child EXCEPT ![i].batch = @ \ {"notice"}, ![i].notices = @ - 1,
                                  ![i].clients = @ + n]
        /\ listening' = [listening EXCEPT !.backlog = @ - n, !.served = @ \/ n = 1]
  /\ UNCHANGED <<parent, m_pid, sent>>

(* process(): the request is not complete, or it is answered by a CGI      *)
(* program, or the connection is closed without one.                       *)
Serve(i) ==
  /\ "client" \in child[i].batch
  /\ \E closed, started \in {0, 1} :
       /\ started <= closed
       /\ child' = [child EXCEPT ![i].batch = @ \ {"client"}, ![i].input = @ - 1,
                                 ![i].clients = @ - closed, ![i].cgi = @ + started]
  /\ UNCHANGED <<listening, parent, m_pid, sent>>

(* Faulty variant: m_stop is forgotten when a CGI program has ended too.   *)
ChildSignalsOne(i) ==
  /\ "signal" \in child[i].batch
  /\ child' = [child EXCEPT ![i].batch = @ \ {"signal"}, ![i].signals = {},
                            ![i].zombies = IF "chld" \in child[i].signals THEN 0 ELSE @,
                            ![i].stop = child[i].signals = {"term"}]
  /\ UNCHANGED <<listening, parent, m_pid, sent>>

ChildSignals(i) ==
  /\ "signal" \in child[i].batch
  /\ child' = [child EXCEPT ![i].batch = @ \ {"signal"}, ![i].signals = {},
                            ![i].zombies = IF "chld" \in child[i].signals THEN 0 ELSE @,
                            ![i].stop = @ \/ "term" \in child[i].signals]
  /\ UNCHANGED <<listening, parent, m_pid, sent>>

ChildExit(i) ==
  /\ child[i].state = "run" /\ child[i].stop /\ child[i].batch = {}
  /\ Die(i)
  /\ UNCHANGED <<listening, m_pid, sent>>

-----------------------------------------------------------------------------
Parent == ParentSetup \/ ParentWait \/ Notify \/ ParentSignals \/ ParentLeave

Child(i) ==
  \/ ChildSetup(i) \/ ChildWait(i) \/ Invite(i) \/ Serve(i)
  \/ ChildSignals(i) \/ ChildExit(i)

Environment ==
  \/ Connect \/ Terminate
  \/ \E i \in Children : ClientSends(i) \/ CgiExits(i) \/ Crash(i)

Next == Parent \/ Environment \/ \E i \in Children : Child(i)

(* The processes are scheduled; clients and CGI programs owe nothing.      *)
Fairness == WF_vars(Parent) /\ \A i \in Children : WF_vars(Child(i))

Spec == Init /\ [][Next]_vars /\ Fairness

-----------------------------------------------------------------------------
TypeOK ==
  /\ listening.backlog \in 0..MaxConnections
  /\ parent.phase \in {"start", "run", "left", "dead"}
  /\ parent.counter \in Children
  /\ parent.batch \subseteq {"listen", "signal"}
  /\ m_pid \in [Children -> Nat \cup {-1}]
  /\ \A i \in Children :
       /\ child[i].state \in {"start", "run", "zombie", "gone"}
       /\ child[i].notices \in 0..PipeCapacity
       /\ child[i].input \in 0..child[i].clients
       /\ {child[i].cgi, child[i].zombies} \subseteq Nat

(* The notices in the pipes of the children.                               *)
Notices == {n \in Children \X (1..PipeCapacity) : n[2] <= child[n[1]].notices}

(* However the edges of the listening socket and of the pipes merge, and   *)
(* whoever accepts first: a notice stands for a connection of its own, so  *)
(* accept() in a child never finds the backlog empty.                      *)
EveryNoticeHasConnection ==
  /\ TypeOK
  /\ Cardinality(Notices) + (IF listening.edge \/ "listen" \in parent.batch THEN 1 ELSE 0)
       <= listening.backlog

(* SIGCHLD bytes merge, but no ended process is forgotten: while the       *)
(* parent runs, an ended child means a byte that is still to be read, and  *)
(* so for a child and its CGI programs.  A child that ended before the     *)
(* parent had its handler is the exception: it waits for the next one.     *)
NoZombieForgotten ==
  /\ \A i \in Children :
       child[i].state = "run" /\ child[i].zombies > 0 => "chld" \in child[i].signals
  /\ parent.phase = "run" /\ Zombies \ parent.missed # {} => "chld" \in parent.signals

(* "If all the children have exited, the parent exits too" (run_parent).   *)
ParentStopsWithChildren ==
  /\ parent.phase = "run" /\ parent.batch = {} /\ parent.signals = {}
  /\ \A i \in Children : child[i].state = "gone"
  => parent.stop

(* As long as nothing is killed, every connection is followed by an        *)
(* accept(), though not always its own: edges that merge leave connections *)
(* behind, and those that come later push them forward.                    *)
ServedAfterArrival == ~listening.served ~> listening.served \/ sent > 0

(* SIGTERM, once the parent can handle it, ends every child, at whatever   *)
(* point of its start, of its loop or of its end it is met.                *)
TermReachesChildren ==
  "term" \in parent.signals ~> \A i \in Children : ~Alive(i)
=============================================================================
