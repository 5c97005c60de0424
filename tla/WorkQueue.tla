----------------------------- MODULE WorkQueue -----------------------------
(***************************************************************************)
(* What threadpool<T> (src/Http/threadpool.h) promises its users: a        *)
(* bounded FIFO from which each accepted request is handed to exactly one  *)
(* worker.  Locks, the semaphore and the program counters of the threads   *)
(* are left to ThreadPool, which implements this specification.            *)
(***************************************************************************)
EXTENDS Naturals, Sequences

CONSTANTS
  Workers,      \* the worker threads
  Requests,     \* the objects that append() is given
  Capacity,     \* the most requests that ever wait
  NoRequest     \* what a worker that serves nothing holds

VARIABLES
  queue,        \* accepted requests that no worker has taken
  serving,      \* serving[w] is the request w processes, or NoRequest
  closed        \* the pool has been destroyed

vars == <<queue, serving, closed>>

Init ==
  /\ queue = <<>>
  /\ serving = [w \in Workers |-> NoRequest]
  /\ closed = FALSE

(* A request is accepted; one that is refused changes nothing.             *)
Submit(r) ==
  /\ ~closed
  /\ Len(queue) < Capacity
  /\ queue' = Append(queue, r)
  /\ UNCHANGED <<serving, closed>>

(* An idle worker is given the oldest request.                             *)
Take(w) ==
  /\ ~closed
  /\ serving[w] = NoRequest
  /\ queue # <<>>
  /\ serving' = [serving EXCEPT ![w] = Head(queue)]
  /\ queue' = Tail(queue)
  /\ UNCHANGED closed

Finish(w) ==
  /\ ~closed
  /\ serving[w] # NoRequest
  /\ serving' = [serving EXCEPT ![w] = NoRequest]
  /\ UNCHANGED <<queue, closed>>

Close ==
  /\ ~closed
  /\ closed' = TRUE
  /\ UNCHANGED <<queue, serving>>

Next ==
  \/ \E r \in Requests : Submit(r)
  \/ \E w \in Workers : Take(w) \/ Finish(w)
  \/ Close

(* While the pool is open and some worker is idle, somebody takes what     *)
(* waits (which worker is not promised), and every worker finishes.        *)
TakeSome == \E w \in Workers : Take(w)

Fairness ==
  /\ WF_vars(TakeSome)
  /\ \A w \in Workers : WF_vars(Finish(w))

SafeSpec == Init /\ [][Next]_vars
Spec == SafeSpec /\ Fairness
=============================================================================
