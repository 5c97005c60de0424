---------------------------- MODULE TimerHeapOps ----------------------------
(***************************************************************************)
(* The array algorithms of timer_heap, src/Http/http_time_minheap.h.  An   *)
(* array is a sequence of timers, so that arr[0] of the code is arr[1]     *)
(* here, and key[t] is the expire field of timer t.  Whoever keeps timers  *)
(* shares the clock, which counts slots, and the way to expire.            *)
(***************************************************************************)
EXTENDS Naturals, Sequences, FiniteSetsExt

CONSTANTS
  Lifetime,    \* TIME_SLOT * 3, in slots
  MaxTime      \* bound on the clock

VARIABLES
  now,         \* time(nullptr)
  expire       \* expire of each timer

(* What fresh_expire() and the constructor of a timer put into expire.     *)
FreshExpire == now + Lifetime

SlotPasses == now < MaxTime /\ now' = now + 1

Elements(arr) == {arr[i] : i \in 1..Len(arr)}

(* The holes that a loop visits from h on, where next[p] is the hole after *)
(* p and 0 the end of the loop: the least set with h and with these.       *)
Holes(next, h) ==
  {p \in DOMAIN next :
     \A S \in SUBSET DOMAIN next :
       h \in S /\ (\A q \in S : next[q] # 0 => next[q] \in S) => p \in S}

(* Each hole gets the timer of the next one, the last one that of h.       *)
MoveHole(arr, next, h) ==
  LET holes == Holes(next, h)
  IN [p \in DOMAIN arr |->
        IF p \notin holes THEN arr[p]
        ELSE IF next[p] # 0 THEN arr[next[p]] ELSE arr[h]]

(* add_timer(): the hole moves up from the end while the parent expires    *)
(* later than the new timer.                                               *)
Upward(arr, key) ==
  [h \in 1..Len(arr) |->
     IF h = 1 \/ key[arr[h \div 2]] <= key[arr[Len(arr)]] THEN 0 ELSE h \div 2]

AddTimer(arr, key, t) ==
  LET grown == Append(arr, t)
  IN MoveHole(grown, Upward(grown, key), Len(grown))

(* percolate(0) on the first n elements.  The slot behind them still holds *)
(* the timer that pop() moved to the root, which the code compares with    *)
(* when the last parent has one child.                                     *)
Downward(arr, n, key) ==
  [h \in 1..n |->
     LET child == IF key[arr[2 * h]] > key[arr[2 * h + 1]] THEN 2 * h + 1 ELSE 2 * h
     IN IF 2 * h > n \/ key[arr[child]] >= key[arr[1]] THEN 0 ELSE child]

Percolate(arr, n, key) == MoveHole(arr, Downward(arr, n, key), 1)

(* Faulty variant: only the left child of the root is looked at.           *)
PopLeft(arr, key) ==
  LET n == Len(arr) - 1
      moved == [arr EXCEPT ![1] = arr[n + 1]]
  IN IF n >= 2 /\ key[moved[2]] < key[moved[1]]
       THEN SubSeq([moved EXCEPT ![1] = moved[2], ![2] = moved[1]], 1, n)
       ELSE SubSeq(moved, 1, n)

(* pop(): the last timer takes the root's place and sinks.                 *)
Pop(arr, key) ==
  LET n == Len(arr) - 1
  IN SubSeq(Percolate([arr EXCEPT ![1] = arr[n + 1]], n, key), 1, n)

(* One turn of the loop in tick(): pop() if the root has expired.          *)
Turn(key, cur) ==
  [arr \in Seq(DOMAIN key) |->
     IF arr # <<>> /\ key[arr[1]] <= cur THEN Pop(arr, key) ELSE arr]

(* The array after each turn.                                              *)
Turns(arr, key, cur) ==
  LET After[k \in 0..Len(arr)] == IF k = 0 THEN arr ELSE Turn(key, cur)[After[k - 1]]
  IN After

(* Faulty variant: if in the place of while.                               *)
AfterTickOnce(arr, key, cur) ==
  IF key[arr[1]] <= cur THEN Pop(arr, key) ELSE arr

AfterTick(arr, key, cur) == Turns(arr, key, cur)[Len(arr)]
=============================================================================
