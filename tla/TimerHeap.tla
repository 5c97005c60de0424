------------------------------ MODULE TimerHeap ------------------------------
(***************************************************************************)
(* timer_heap of src/Http/http_time_minheap.h in the use that http.cpp     *)
(* makes of it: a timer per accepted connection, fresh_expire() on input,  *)
(* which changes the key of a timer inside the heap, and tick() on an      *)
(* alarm.  del_timer() is called by nobody.  expire is 0 for a timer that  *)
(* is not created yet.                                                     *)
(***************************************************************************)
EXTENDS TimerHeapOps, FiniteSets

CONSTANTS
  Timers,      \* the timer_unit objects
  Capacity,    \* the initial capacity of the array
  MaxRefresh   \* bound on the calls of fresh_expire()

ASSUME TimerHeapAssumption ==
  /\ IsFiniteSet(Timers)
  /\ {Lifetime, Capacity} \subseteq Nat \ {0}
  /\ {MaxTime, MaxRefresh} \subseteq Nat

VARIABLES
  arr,         \* the array
  capacity,    \* its size
  fired,       \* the timers whose callback ran and that were deleted
  disturbed,   \* a key was changed in place since the heap was last empty
  calls        \* fresh_expire() calls so far

heapVars == <<arr, capacity, expire, now, fired, disturbed, calls>>

HeapInit ==
  /\ arr = <<>> /\ capacity = Capacity
  /\ expire = [t \in Timers |-> 0]
  /\ now = 0 /\ fired = {} /\ disturbed = FALSE /\ calls = 0

(* The size of the array after resize(), which add_timer() calls when the  *)
(* n timers fill it.                                                       *)
Resized(c, n) == IF n >= c THEN 2 * c ELSE c

(* new timer_unit and add_timer(), with resize() when the array is full.   *)
Add(t) ==
  /\ expire[t] = 0
  /\ expire' = [expire EXCEPT ![t] = FreshExpire]
  /\ arr' = AddTimer(arr, expire', t)
  /\ capacity' = Resized(capacity, Len(arr))
  /\ UNCHANGED <<now, fired, disturbed, calls>>

(* fresh_expire() on a timer that sits in the heap: nothing is moved.      *)
Refresh(t) ==
  /\ t \in Elements(arr) /\ calls < MaxRefresh
  /\ expire' = [expire EXCEPT ![t] = FreshExpire]
  /\ disturbed' = TRUE
  /\ calls' = calls + 1
  /\ UNCHANGED <<arr, capacity, now, fired>>

HeapPass ==
  /\ SlotPasses
  /\ UNCHANGED <<arr, capacity, expire, fired, disturbed, calls>>

Tick ==
  /\ arr # <<>>
  /\ arr' = AfterTick(arr, expire, now)
  /\ fired' = fired \cup (Elements(arr) \ Elements(arr'))
  /\ disturbed' = (disturbed /\ arr' # <<>>)
  /\ UNCHANGED <<capacity, expire, now, calls>>

HeapNext == (\E t \in Timers : Add(t) \/ Refresh(t)) \/ HeapPass \/ Tick

HeapSpec == HeapInit /\ [][HeapNext]_heapVars

-----------------------------------------------------------------------------
HeapTypeOK ==
  /\ arr \in Seq(Timers)
  /\ capacity \in Nat /\ Len(arr) <= capacity
  /\ expire \in [Timers -> 0..(MaxTime + Lifetime)]
  /\ now \in 0..MaxTime
  /\ fired \subseteq Timers /\ disturbed \in BOOLEAN

(* Moving timers about loses none and doubles none, not even when          *)
(* fresh_expire() has put the keys out of order: what was added is in the  *)
(* heap once, until its callback has run.                                  *)
NothingLost ==
  /\ Cardinality(Elements(arr)) = Len(arr)
  /\ Elements(arr) = {t \in Timers : expire[t] # 0} \ fired

(* add_timer() and pop() keep the array a heap for as long as no key is    *)
(* changed in place.                                                       *)
HeapOrdered ==
  ~disturbed => \A i \in 2..Len(arr) : expire[arr[i \div 2]] <= expire[arr[i]]

(* The array through all operations: bounded, complete and in order.       *)
TimersIntact == HeapTypeOK /\ NothingLost /\ HeapOrdered

(* As long as no key was changed in place, tick() closes everything that   *)
(* has expired and not only what happens to be near the root.  After that  *)
(* fresh_expire() can hide an expired timer behind refreshed ones, but     *)
(* only for as long as some timer of the heap has not expired: once        *)
(* nothing was refreshed for a lifetime, tick() empties the heap.          *)
TickFiresExpired ==
  [][Tick => /\ ~disturbed => \A i \in 1..Len(arr') : expire[arr'[i]] > now
             /\ (\A t \in Elements(arr) : expire[t] <= now) => arr' = <<>>]_heapVars
=============================================================================
