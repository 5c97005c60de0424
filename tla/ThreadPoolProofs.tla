--------------------------- MODULE ThreadPoolProofs ---------------------------
(***************************************************************************)
(* What holds of the thread pool for every number of workers, every set of *)
(* requests and every limit: PoolInv is inductive, so the mutex protects   *)
(* the queue, every queued request has its token, no worker wakes up for   *)
(* nothing, the queue holds at most m_max_requests + 1 requests, and the   *)
(* safety part of WorkQueue is implemented.                                *)
(***************************************************************************)
EXTENDS ThreadPool, FiniteSetTheorems, TLAPS

(* The woken workers are a finite set, being a part of the workers.        *)
LEMMA WokenFinite == IsFiniteSet(Woken) /\ Cardinality(Woken) \in Nat
<1>1. Woken \in SUBSET Workers
  BY DEF Woken
<1>2. IsFiniteSet(Woken)
  BY <1>1, FS_Subset, PoolAssumption DEF PoolAssumption
<1> QED
  BY <1>2, FS_CardinalityType

(* A worker that takes a token joins the woken ones.                       *)
LEMMA WokenGains ==
  ASSUME NEW w \in Workers, pc[w] \notin {"woken", "locked"},
         Woken' = Woken \cup {w}
  PROVE  Cardinality(Woken') = Cardinality(Woken) + 1
<1>1. w \notin Woken
  BY DEF Woken
<1> QED
  BY <1>1, WokenFinite, FS_AddElement

(* A worker that has looked in the queue leaves them.                      *)
LEMMA WokenLoses ==
  ASSUME NEW w \in Workers, pc[w] \in {"woken", "locked"},
         Woken' = Woken \ {w}
  PROVE  Cardinality(Woken') = Cardinality(Woken) - 1
<1>1. w \in Woken
  BY DEF Woken
<1> QED
  BY <1>1, WokenFinite, FS_RemoveElement

(* A worker at the mutex or inside the critical section means that the     *)
(* queue is not empty.                                                     *)
LEMMA WokenFindsWork ==
  ASSUME PoolInv, NEW w \in Workers, pc[w] \in {"woken", "locked"}
  PROVE  workqueue # <<>>
<1>1. w \in Woken
  BY DEF Woken
<1>2. Cardinality(Woken) # 0
  BY <1>1, WokenFinite, FS_EmptySet
<1>3. Cardinality(Woken) >= 1
  BY <1>2, WokenFinite
<1>4. Len(workqueue) >= 1
  BY <1>3, WokenFinite DEF PoolInv, PoolTypeOK, TokensMatchQueue, Owed
<1> QED
  BY <1>4

-----------------------------------------------------------------------------
LEMMA InitPool == PoolInit => PoolInv
<1> SUFFICES ASSUME PoolInit PROVE PoolInv
  OBVIOUS
<1> USE PoolAssumption DEF PoolAssumption
<1>1. PoolTypeOK
  <2>1. workqueue \in Seq(Requests)
    BY DEF PoolInit
  <2>2. /\ pc \in [Threads -> {"idle", "loop"}]
        /\ pc[Main] = "idle"
        /\ \A w \in Workers : pc[w] = "loop"
    BY DEF PoolInit, Threads
  <2>3. request \in [Threads -> Requests \cup {NoRequest}]
    BY DEF PoolInit
  <2> QED
    BY <2>1, <2>2, <2>3 DEF PoolInit, PoolTypeOK
<1>2. MutexOwned /\ RequestAtHand /\ ClosedAtRest /\ OneMoreAtMost
  BY DEF PoolInit, MutexOwned, RequestAtHand, ClosedAtRest, OneMoreAtMost, Threads
<1>3. Woken = {}
  BY DEF PoolInit, Woken, Threads
<1>4. Cardinality(Woken) = 0
  BY <1>3, FS_EmptySet
<1>5. TokensMatchQueue
  BY <1>4 DEF PoolInit, TokensMatchQueue, Owed, Threads
<1> QED
  BY <1>1, <1>2, <1>5 DEF PoolInv

(* Everything but the count of tokens, by one step per action.             *)
LEMMA NextLocal ==
  ASSUME PoolInv, [PoolNext]_poolVars
  PROVE  (PoolTypeOK /\ MutexOwned /\ RequestAtHand /\ ClosedAtRest /\ OneMoreAtMost)'
<1> USE PoolAssumption DEF PoolAssumption, PoolInv
<1> DEFINE Local == PoolTypeOK /\ MutexOwned /\ RequestAtHand /\ ClosedAtRest /\ OneMoreAtMost
<1>1. CASE UNCHANGED poolVars
  BY <1>1 DEF poolVars, PoolTypeOK, MutexOwned, RequestAtHand, ClosedAtRest, OneMoreAtMost
<1>2. ASSUME NEW r \in Requests, AppendLock(r) PROVE Local'
  BY <1>2 DEF AppendLock, Threads, PoolTypeOK, MutexOwned, RequestAtHand, ClosedAtRest, OneMoreAtMost
<1>3. CASE AppendRefuse
  BY <1>3 DEF AppendRefuse, Threads, PoolTypeOK, MutexOwned, RequestAtHand, ClosedAtRest, OneMoreAtMost
<1>4. CASE AppendPush
  BY <1>4 DEF AppendPush, Threads, PoolTypeOK, MutexOwned, RequestAtHand, ClosedAtRest, OneMoreAtMost
<1>5. CASE AppendPost
  BY <1>5 DEF AppendPost, Threads, PoolTypeOK, MutexOwned, RequestAtHand, ClosedAtRest, OneMoreAtMost
<1>6. CASE Destroy
  BY <1>6 DEF Destroy, Threads, PoolTypeOK, MutexOwned, RequestAtHand, ClosedAtRest, OneMoreAtMost
<1>7. ASSUME NEW w \in Workers, CheckStop(w) PROVE Local'
  BY <1>7 DEF CheckStop, Threads, PoolTypeOK, MutexOwned, RequestAtHand, ClosedAtRest, OneMoreAtMost
<1>8. ASSUME NEW w \in Workers, Wait(w) PROVE Local'
  BY <1>8 DEF Wait, Threads, PoolTypeOK, MutexOwned, RequestAtHand, ClosedAtRest, OneMoreAtMost
<1>9. ASSUME NEW w \in Workers, Lock(w) PROVE Local'
  BY <1>9 DEF Lock, Threads, PoolTypeOK, MutexOwned, RequestAtHand, ClosedAtRest, OneMoreAtMost
<1>10. ASSUME NEW w \in Workers, PopFront(w) PROVE Local'
  <2>1. workqueue # <<>>
    BY <1>10, WokenFindsWork DEF PopFront
  <2>2. /\ Head(workqueue) \in Requests
        /\ Tail(workqueue) \in Seq(Requests)
        /\ Len(Tail(workqueue)) = Len(workqueue) - 1
    BY <2>1 DEF PoolTypeOK
  <2>3. PoolTypeOK'
    BY <1>10, <2>1, <2>2 DEF PopFront, Threads, PoolTypeOK
  <2>4. MutexOwned'
    BY <1>10, <2>1 DEF PopFront, Threads, PoolTypeOK, MutexOwned
  <2>5. RequestAtHand'
    BY <1>10, <2>1, <2>2 DEF PopFront, Threads, PoolTypeOK, RequestAtHand
  <2>6. ClosedAtRest' /\ OneMoreAtMost'
    BY <1>10, <2>1, <2>2 DEF PopFront, Threads, PoolTypeOK, ClosedAtRest, OneMoreAtMost
  <2> QED
    BY <2>3, <2>4, <2>5, <2>6
<1>11. ASSUME NEW w \in Workers, Process(w) PROVE Local'
  BY <1>11 DEF Process, Threads, PoolTypeOK, MutexOwned, RequestAtHand, ClosedAtRest, OneMoreAtMost
<1> QED
  BY <1>1, <1>2, <1>3, <1>4, <1>5, <1>6, <1>7, <1>8, <1>9, <1>10, <1>11
  DEF PoolNext, MainStep, Run

(* The count of tokens: push and post each move one unit, wait() and the   *)
(* critical section of run() move one more.                                *)
LEMMA NextTokens == ASSUME PoolInv, [PoolNext]_poolVars PROVE TokensMatchQueue'
<1> USE PoolAssumption DEF PoolAssumption, PoolInv
<1>1. CASE UNCHANGED poolVars
  BY <1>1 DEF poolVars, TokensMatchQueue, Woken, Owed
<1>2. ASSUME MainStep PROVE Woken' = Woken
  BY <1>2 DEF MainStep, AppendLock, AppendRefuse, AppendPush, AppendPost, Destroy,
              Woken, PoolTypeOK, Threads
<1>3. ASSUME MainStep PROVE TokensMatchQueue'
  <2>1. Woken' = Woken
    BY <1>3, <1>2
  <2> USE <2>1, WokenFinite DEF PoolTypeOK, Threads, TokensMatchQueue, Owed
  <2>2. ASSUME NEW r \in Requests, AppendLock(r) PROVE TokensMatchQueue'
    BY <2>2 DEF AppendLock
  <2>3. CASE AppendRefuse
    BY <2>3 DEF AppendRefuse
  <2>4. CASE AppendPush
    <3>1. request[Main] \in Requests
      BY <2>4 DEF AppendPush, RequestAtHand
    <3>2. Len(workqueue') = Len(workqueue) + 1
      BY <2>4, <3>1 DEF AppendPush
    <3> QED
      BY <2>4, <3>2 DEF AppendPush
  <2>5. CASE AppendPost
    BY <2>5 DEF AppendPost
  <2>6. CASE Destroy
    BY <2>6 DEF Destroy
  <2> QED
    BY <1>3, <2>2, <2>3, <2>4, <2>5, <2>6 DEF MainStep
<1>4. ASSUME NEW w \in Workers, CheckStop(w) \/ Lock(w) \/ Process(w)
      PROVE  TokensMatchQueue'
  <2>1. Woken' = Woken
    BY <1>4 DEF CheckStop, Lock, Process, Woken, PoolTypeOK, Threads
  <2> QED
    BY <1>4, <2>1 DEF CheckStop, Lock, Process, TokensMatchQueue, Owed, PoolTypeOK, Threads
<1>5. ASSUME NEW w \in Workers, Wait(w) PROVE TokensMatchQueue'
  <2>1. Woken' = Woken \cup {w}
    BY <1>5 DEF Wait, Woken, PoolTypeOK, Threads
  <2>2. Cardinality(Woken') = Cardinality(Woken) + 1
    BY <1>5, <2>1, WokenGains DEF Wait
  <2>3. Owed' = Owed
    BY <1>5 DEF Wait, Owed, PoolTypeOK, Threads
  <2> QED
    BY <1>5, <2>2, <2>3, WokenFinite DEF Wait, TokensMatchQueue, PoolTypeOK, Owed
<1>6. ASSUME NEW w \in Workers, PopFront(w) PROVE TokensMatchQueue'
  <2>1. workqueue # <<>>
    BY <1>6, WokenFindsWork DEF PopFront
  <2>2. Woken' = Woken \ {w}
    BY <1>6, <2>1 DEF PopFront, Woken, PoolTypeOK, Threads
  <2>3. Cardinality(Woken') = Cardinality(Woken) - 1
    BY <1>6, <2>2, WokenLoses DEF PopFront
  <2>4. Owed' = Owed
    BY <1>6, <2>1 DEF PopFront, Owed, PoolTypeOK, Threads
  <2>5. Len(workqueue') = Len(workqueue) - 1
    BY <1>6, <2>1 DEF PopFront, PoolTypeOK
  <2> QED
    BY <1>6, <2>3, <2>4, <2>5, WokenFinite DEF PopFront, TokensMatchQueue, PoolTypeOK, Owed
<1> QED
  BY <1>1, <1>3, <1>4, <1>5, <1>6 DEF PoolNext, Run

LEMMA NextPool == PoolInv /\ [PoolNext]_poolVars => PoolInv'
  BY NextLocal, NextTokens DEF PoolInv

(* The inductive invariant holds in every reachable state of the pool.     *)
THEOREM PoolInvariant == SafePoolSpec => []PoolInv
<1>1. PoolInit => PoolInv
  BY InitPool
<1>2. PoolInv /\ [PoolNext]_poolVars => PoolInv'
  BY NextPool
<1> QED
  BY <1>1, <1>2, PTL DEF SafePoolSpec

(* Every variable keeps its type, m_queuestat never falls below zero.      *)
THEOREM PoolTypes == SafePoolSpec => []PoolTypeOK
<1>1. PoolInv => PoolTypeOK
  BY DEF PoolInv
<1> QED
  BY <1>1, PoolInvariant, PTL

(* A request in m_workqueue and a token of m_queuestat go together, for    *)
(* any number of workers.                                                  *)
THEOREM PoolTokens == SafePoolSpec => []TokensMatchQueue
<1>1. PoolInv => TokensMatchQueue
  BY DEF PoolInv
<1> QED
  BY <1>1, PoolInvariant, PTL

(* At most m_max_requests + 1 requests ever wait in m_workqueue.           *)
THEOREM PoolBounded == SafePoolSpec => []OneMoreAtMost
<1>1. PoolInv => OneMoreAtMost
  BY DEF PoolInv
<1> QED
  BY <1>1, PoolInvariant, PTL

(* The branch of run() for an empty queue is never taken.                  *)
THEOREM PoolWakesForWork == SafePoolSpec => NoWakeForNothing
<1>1. PoolInv => \A w \in Workers : PopFront(w) => workqueue # <<>>
  BY WokenFindsWork DEF PopFront
<1>2. PoolInv => [\A w \in Workers : PopFront(w) => workqueue # <<>>]_poolVars
  BY <1>1
<1> QED
  BY <1>2, PoolInvariant, PTL DEF NoWakeForNothing

-----------------------------------------------------------------------------
(* The refinement of WorkQueue.                                            *)

LEMMA RefinesInit == PoolInit => WQ!Init
<1> QED
  BY PoolAssumption DEF PoolAssumption, PoolInit, WQ!Init, Threads

LEMMA RefinesStep ==
  ASSUME PoolInv, [PoolNext]_poolVars
  PROVE  [WQ!Next]_(WQ!vars)
<1> USE PoolAssumption DEF PoolAssumption, PoolInv
<1> USE DEF WQ!Next, WQ!vars
<1>1. CASE UNCHANGED poolVars
  BY <1>1 DEF poolVars
<1>2. ASSUME MainStep
      PROVE  [w \in Workers |-> request[w]]' = [w \in Workers |-> request[w]]
  BY <1>2 DEF MainStep, AppendLock, AppendRefuse, AppendPush, AppendPost, Destroy,
              PoolTypeOK, Threads
<1>3. ASSUME MainStep PROVE [WQ!Next]_(WQ!vars)
  <2>1. CASE AppendPush
    <3>1. request[Main] \in Requests
      BY <2>1 DEF AppendPush, RequestAtHand, PoolTypeOK, Threads
    <3>2. WQ!Submit(request[Main])
      BY <2>1, <1>3, <1>2 DEF AppendPush, WQ!Submit, ClosedAtRest, PoolTypeOK
    <3> QED
      BY <3>1, <3>2
  <2>2. CASE Destroy
    <3>1. WQ!Close
      BY <2>2, <1>3, <1>2 DEF Destroy, WQ!Close
    <3> QED
      BY <3>1
  <2>3. CASE (\E r \in Requests : AppendLock(r)) \/ AppendRefuse \/ AppendPost
    BY <2>3, <1>3, <1>2 DEF AppendLock, AppendRefuse, AppendPost
  <2> QED
    BY <1>3, <2>1, <2>2, <2>3 DEF MainStep
<1>4. ASSUME NEW w \in Workers, CheckStop(w) \/ Wait(w) \/ Lock(w)
      PROVE  [WQ!Next]_(WQ!vars)
  BY <1>4 DEF CheckStop, Wait, Lock
<1>5. ASSUME NEW w \in Workers, PopFront(w) PROVE [WQ!Next]_(WQ!vars)
  <2>1. workqueue # <<>>
    BY <1>5, WokenFindsWork DEF PopFront
  <2>2. request[w] = NoRequest
    BY <1>5 DEF PopFront, RequestAtHand
  <2>3. [v \in Workers |-> request[v]]' =
        [[v \in Workers |-> request[v]] EXCEPT ![w] = Head(workqueue)]
    BY <1>5, <2>1 DEF PopFront, PoolTypeOK, Threads
  <2>4. WQ!Take(w)
    BY <1>5, <2>1, <2>2, <2>3 DEF PopFront, WQ!Take
  <2> QED
    BY <2>4
<1>6. ASSUME NEW w \in Workers, Process(w) PROVE [WQ!Next]_(WQ!vars)
  <2>1. request[w] # NoRequest
    BY <1>6 DEF Process, RequestAtHand
  <2>2. [v \in Workers |-> request[v]]' =
        [[v \in Workers |-> request[v]] EXCEPT ![w] = NoRequest]
    BY <1>6 DEF Process, PoolTypeOK, Threads
  <2>3. WQ!Finish(w)
    BY <1>6, <2>1, <2>2 DEF Process, WQ!Finish
  <2> QED
    BY <2>3
<1> QED
  BY <1>1, <1>3, <1>4, <1>5, <1>6 DEF PoolNext, Run

(* Every behaviour of the threads is one of the bounded FIFO: a request is *)
(* handed out once, to one worker, in the order of the calls of append().  *)
THEOREM PoolImplementsQueue == SafePoolSpec => WQ!SafeSpec
<1>1. PoolInit => WQ!Init
  BY RefinesInit
<1>2. PoolInv /\ [PoolNext]_poolVars => [WQ!Next]_(WQ!vars)
  BY RefinesStep
<1> QED
  BY <1>1, <1>2, PoolInvariant, PTL DEF SafePoolSpec, WQ!SafeSpec
===============================================================================
