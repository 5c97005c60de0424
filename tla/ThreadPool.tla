----------------------------- MODULE ThreadPool -----------------------------
(***************************************************************************)
(* threadpool<T> of src/Http/threadpool.h with the mutex and semaphore     *)
(* wrappers of src/Http/locker.h: one thread appends, the workers run().   *)
(* A step is what a thread does between two points where another thread    *)
(* can be seen to interleave: acquiring m_queuelocker, the critical        *)
(* section it protects (ended by unlock), and each semaphore operation.    *)
(*                                                                         *)
(* sem_wait is restarted after a signal (the handlers are installed with   *)
(* SA_RESTART), so wait() returns only after it has taken a token.         *)
(***************************************************************************)
EXTENDS Naturals, Sequences, FiniteSets

CONSTANTS
  Workers,       \* the threads created by the constructor (m_thread_number)
  Requests,      \* the T* values that append() is given, none of them null
  MaxRequests,   \* m_max_requests
  Main,          \* the thread that calls append() and the destructor
  Nobody,        \* the owner of a free mutex
  NoRequest      \* no T* at hand

ASSUME PoolAssumption ==
  /\ IsFiniteSet(Workers) /\ Workers # {}
  /\ MaxRequests \in Nat \ {0}
  /\ Main \notin Workers
  /\ Nobody \notin Workers \cup {Main}
  /\ NoRequest \notin Requests

VARIABLES
  workqueue,     \* m_workqueue
  queuestat,     \* the value of the semaphore m_queuestat
  locker,        \* the thread that holds m_queuelocker
  pc,            \* where each thread stands
  request,       \* the T* each thread has at hand
  stop           \* m_stop, set by the destructor

poolVars == <<workqueue, queuestat, locker, pc, request, stop>>

Threads == Workers \cup {Main}

PoolInit ==
  /\ workqueue = <<>>
  /\ queuestat = 0
  /\ locker = Nobody
  /\ pc = [t \in Threads |-> IF t = Main THEN "idle" ELSE "loop"]
  /\ request = [t \in Threads |-> NoRequest]
  /\ stop = FALSE

-----------------------------------------------------------------------------
(* append(), by the main thread.                                           *)

AppendLock(r) ==
  /\ pc[Main] = "idle"
  /\ ~stop
  /\ locker = Nobody
  /\ locker' = Main
  /\ request' = [request EXCEPT ![Main] = r]
  /\ pc' = [pc EXCEPT ![Main] = "locked"]
  /\ UNCHANGED <<workqueue, queuestat, stop>>

(* Faulty variants, each of which breaks a property below: a refused       *)
(* request is announced all the same; append() returns without post().     *)
AppendRefuseAndPost ==
  /\ pc[Main] = "locked"
  /\ Len(workqueue) > MaxRequests
  /\ locker' = Nobody
  /\ request' = [request EXCEPT ![Main] = NoRequest]
  /\ pc' = [pc EXCEPT ![Main] = "post"]
  /\ UNCHANGED <<workqueue, queuestat, stop>>

AppendPushSilently ==
  /\ pc[Main] = "locked"
  /\ Len(workqueue) <= MaxRequests
  /\ workqueue' = Append(workqueue, request[Main])
  /\ locker' = Nobody
  /\ request' = [request EXCEPT ![Main] = NoRequest]
  /\ pc' = [pc EXCEPT ![Main] = "idle"]
  /\ UNCHANGED <<queuestat, stop>>

(* The size test refuses a request only when the queue already holds more  *)
(* than m_max_requests of them.                                            *)
AppendRefuse ==
  /\ pc[Main] = "locked"
  /\ Len(workqueue) > MaxRequests
  /\ locker' = Nobody
  /\ request' = [request EXCEPT ![Main] = NoRequest]
  /\ pc' = [pc EXCEPT ![Main] = "idle"]
  /\ UNCHANGED <<workqueue, queuestat, stop>>

AppendPush ==
  /\ pc[Main] = "locked"
  /\ Len(workqueue) <= MaxRequests
  /\ workqueue' = Append(workqueue, request[Main])
  /\ locker' = Nobody
  /\ request' = [request EXCEPT ![Main] = NoRequest]
  /\ pc' = [pc EXCEPT ![Main] = "post"]
  /\ UNCHANGED <<queuestat, stop>>

(* m_queuestat.post(), after the mutex is released.                        *)
AppendPost ==
  /\ pc[Main] = "post"
  /\ queuestat' = queuestat + 1
  /\ pc' = [pc EXCEPT ![Main] = "idle"]
  /\ UNCHANGED <<workqueue, locker, request, stop>>

(* ~threadpool(): m_stop is set, nobody is woken, and nobody is joined.    *)
(* The members are destroyed and main() returns, which ends the process:   *)
(* a worker that is still inside run() then works in freed memory, so the  *)
(* model gives it no step but the test that may read m_stop.               *)
Destroy ==
  /\ pc[Main] = "idle"
  /\ ~stop
  /\ stop' = TRUE
  /\ UNCHANGED <<workqueue, queuestat, locker, pc, request>>

-----------------------------------------------------------------------------
(* run(), by worker w.                                                     *)

(* while (!m_stop)                                                         *)
CheckStop(w) ==
  /\ pc[w] = "loop"
  /\ pc' = [pc EXCEPT ![w] = IF stop THEN "exited" ELSE "wait"]
  /\ UNCHANGED <<workqueue, queuestat, locker, request, stop>>

Wait(w) ==
  /\ ~stop
  /\ pc[w] = "wait"
  /\ queuestat > 0
  /\ queuestat' = queuestat - 1
  /\ pc' = [pc EXCEPT ![w] = "woken"]
  /\ UNCHANGED <<workqueue, locker, request, stop>>

Lock(w) ==
  /\ ~stop
  /\ pc[w] = "woken"
  /\ locker = Nobody
  /\ locker' = w
  /\ pc' = [pc EXCEPT ![w] = "locked"]
  /\ UNCHANGED <<workqueue, queuestat, request, stop>>

(* Faulty variant: the request pushed last is taken first.                 *)
PopBack(w) ==
  /\ ~stop
  /\ pc[w] = "locked"
  /\ workqueue # <<>>
  /\ locker' = Nobody
  /\ request' = [request EXCEPT ![w] = workqueue[Len(workqueue)]]
  /\ workqueue' = SubSeq(workqueue, 1, Len(workqueue) - 1)
  /\ pc' = [pc EXCEPT ![w] = "serving"]
  /\ UNCHANGED <<queuestat, stop>>

(* The critical section: an empty queue sends the worker back to its loop. *)
PopFront(w) ==
  /\ ~stop
  /\ pc[w] = "locked"
  /\ locker' = Nobody
  /\ IF workqueue = <<>>
       THEN /\ pc' = [pc EXCEPT ![w] = "loop"]
            /\ UNCHANGED <<workqueue, request>>
       ELSE /\ request' = [request EXCEPT ![w] = Head(workqueue)]
            /\ workqueue' = Tail(workqueue)
            /\ pc' = [pc EXCEPT ![w] = "serving"]
  /\ UNCHANGED <<queuestat, stop>>

(* request->process() returns.                                             *)
Process(w) ==
  /\ ~stop
  /\ pc[w] = "serving"
  /\ request' = [request EXCEPT ![w] = NoRequest]
  /\ pc' = [pc EXCEPT ![w] = "loop"]
  /\ UNCHANGED <<workqueue, queuestat, locker, stop>>

-----------------------------------------------------------------------------
MainStep ==
  \/ \E r \in Requests : AppendLock(r)
  \/ AppendRefuse
  \/ AppendPush
  \/ AppendPost
  \/ Destroy

Run(w) == CheckStop(w) \/ Wait(w) \/ Lock(w) \/ PopFront(w) \/ Process(w)

PoolNext == MainStep \/ \E w \in Workers : Run(w)

(* A thread that can run does run, and one that waits for a mutex which is *)
(* released again and again gets it: the main thread sleeps in epoll_wait  *)
(* between two calls of append().  Nothing obliges anybody to append.      *)
PoolFairness ==
  /\ WF_poolVars(AppendRefuse \/ AppendPush \/ AppendPost)
  /\ \A w \in Workers :
       /\ WF_poolVars(CheckStop(w) \/ Wait(w) \/ PopFront(w) \/ Process(w))
       /\ SF_poolVars(Lock(w))

SafePoolSpec == PoolInit /\ [][PoolNext]_poolVars
PoolSpec == SafePoolSpec /\ PoolFairness

-----------------------------------------------------------------------------
PoolTypeOK ==
  /\ workqueue \in Seq(Requests)
  /\ queuestat \in Nat
  /\ locker \in Threads \cup {Nobody}
  /\ pc \in [Threads ->
             {"idle", "locked", "post", "loop", "wait", "woken", "serving", "exited"}]
  /\ pc[Main] \in {"idle", "locked", "post"}
  /\ \A w \in Workers : pc[w] \notin {"idle", "post"}
  /\ request \in [Threads -> Requests \cup {NoRequest}]
  /\ stop \in BOOLEAN

(* Who stands between lock() and unlock() owns the mutex, and only it:     *)
(* append() and run() never touch m_workqueue at the same time.            *)
MutexOwned == \A t \in Threads : locker = t <=> pc[t] = "locked"

(* A thread has a request at hand exactly while it puts one in the queue   *)
(* or serves one.                                                          *)
RequestAtHand ==
  /\ request[Main] # NoRequest <=> pc[Main] = "locked"
  /\ \A w \in Workers : request[w] # NoRequest <=> pc[w] = "serving"

(* The destructor is never called in the middle of an append().            *)
ClosedAtRest == stop => pc[Main] = "idle"

(* The workers that took a token and have not yet looked in the queue.     *)
Woken == {w \in Workers : pc[w] \in {"woken", "locked"}}

(* The token that append() still owes for the request it pushed.           *)
Owed == IF pc[Main] = "post" THEN 1 ELSE 0

(* Every queued request has exactly one token: in the semaphore, in the    *)
(* hands of a woken worker, or about to be posted.  Without it a request   *)
(* would stay in the queue for ever, or a worker would wake up for nothing.*)
TokensMatchQueue == Len(workqueue) = queuestat + Cardinality(Woken) + Owed

(* The comment on the constructor: m_max_requests is the greatest number   *)
(* of requests that may wait in m_workqueue.  append() tests the size with *)
(* > and before it pushes, so one request more than that may wait.         *)
QueueBounded == Len(workqueue) <= MaxRequests

(* What its test does ensure: one request more, never a second one.        *)
OneMoreAtMost == Len(workqueue) <= MaxRequests + 1

(* The inductive invariant: what the proofs of the properties rest on.     *)
PoolInv ==
  /\ PoolTypeOK
  /\ MutexOwned
  /\ RequestAtHand
  /\ ClosedAtRest
  /\ TokensMatchQueue
  /\ OneMoreAtMost

(* m_workqueue.empty() is never true in run(): a woken worker finds work.  *)
NoWakeForNothing ==
  [][\A w \in Workers : PopFront(w) => workqueue # <<>>]_poolVars

(* The pool implements the bounded FIFO of WorkQueue: each accepted        *)
(* request is handed to one worker, oldest first, and while the pool lives *)
(* some idle worker always comes for what waits.                           *)
WQ == INSTANCE WorkQueue WITH
        queue <- workqueue,
        serving <- [w \in Workers |-> request[w]],
        closed <- stop,
        Capacity <- MaxRequests + 1

ImplementsWorkQueue == WQ!Spec
=============================================================================
