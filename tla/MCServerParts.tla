--------------------------- MODULE MCServerParts ---------------------------
(***************************************************************************)
(* The parts that the two HTTP servers and the CGI server are built from:  *)
(* the thread pool, the heap of timers and the process pool.  They share   *)
(* nothing, so a behaviour is one of one part, and the others stand still. *)
(*                                                                         *)
(* Three workers contend for one token and for the mutex of a queue that   *)
(* is full; five timers give the heap three levels, and an only child      *)
(* after a pop(); two children get as many connections as it takes for     *)
(* notices to merge in a pipe, and signals at any time.                    *)
(***************************************************************************)
EXTENDS ThreadPool, TimerHeap, ProcessPool

VARIABLE part

(* All workers wait; the processes of the CGI server have ended.           *)
PoolIdle ==
  /\ workqueue = <<>> /\ queuestat = 0 /\ locker = Nobody /\ stop = FALSE
  /\ pc = [t \in Threads |-> IF t = Main THEN "idle" ELSE "wait"]
  /\ request = [t \in Threads |-> NoRequest]

ProcessesIdle ==
  /\ listening = [backlog |-> 0, edge |-> FALSE, total |-> 0, served |-> TRUE]
  /\ parent = [phase |-> "dead", stop |-> FALSE, counter |-> 0,
               signals |-> {}, last |-> "none", batch |-> {}, missed |-> {}]
  /\ m_pid = [i \in Children |-> PidOf(i)]
  /\ child = [i \in Children |-> [Forked EXCEPT !.state = "gone"]]
  /\ sent = 0

PartsInit ==
  /\ HeapInit
  /\ \/ part = "pool" /\ PoolInit /\ ProcessesIdle
     \/ part = "processes" /\ Init /\ PoolIdle
     \/ part = "heap" /\ PoolIdle /\ ProcessesIdle

(* Timers are numbered in the order of their creation: one numbering of    *)
(* five objects that differ in nothing else stands for all.                *)
NumberedAsAdded ==
  \A t \in Timers :
    expire[t] = 0 /\ expire'[t] # 0 => \A s \in Timers : s < t => expire[s] # 0

PartsNext ==
  \/ part = "pool" /\ PoolNext /\ UNCHANGED <<heapVars, vars, part>>
  \/ part = "heap" /\ HeapNext /\ NumberedAsAdded /\ UNCHANGED <<poolVars, vars, part>>
  \/ part = "processes" /\ Next /\ UNCHANGED <<poolVars, heapVars, part>>

PartsSpec ==
  /\ PartsInit
  /\ [][PartsNext]_<<poolVars, heapVars, vars, part>>
  /\ PoolFairness /\ Fairness
=============================================================================
