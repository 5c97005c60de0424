------------------------------ MODULE TimerList ------------------------------
(***************************************************************************)
(* sort_time_lst of src/TimeChecker/time_util.h, pointer by pointer.  A    *)
(* list is a record of head, tail and of the next and prev fields of all   *)
(* timers; key[t] is the expire field of t, Null the null pointer.         *)
(***************************************************************************)
EXTENDS Naturals, Sequences

Null == 0

EmptyList(timers) ==
  [head |-> Null, tail |-> Null,
   next |-> [t \in timers |-> Null], prev |-> [t \in timers |-> Null]]

(* A walk from t along next that goes on while it meets timers of good:    *)
(* what it passes is the least set with t and with each next that is good. *)
Passed(lst, t, good) ==
  {p \in good :
     \A S \in SUBSET good :
       /\ t \in good => t \in S
       /\ \A q \in S : lst.next[q] \in good => lst.next[q] \in S
       => p \in S}

LastOf(lst, passed) == CHOOSE p \in passed : lst.next[p] \notin passed

(* The private add_time(): from h, which expires earlier than t, t is put  *)
(* before the first timer that does not, or behind the tail.               *)
AddBehind(lst, key, t, h) ==
  LET prev == LastOf(lst, Passed(lst, h, {p \in DOMAIN key : key[p] < key[t]}))
      tmp == lst.next[prev]
  IN IF tmp # Null
       THEN [lst EXCEPT !.next[prev] = t, !.prev[t] = prev,
                        !.prev[tmp] = t, !.next[t] = tmp]
       ELSE [lst EXCEPT !.next[t] = Null, !.prev[t] = lst.tail,
                        !.next[lst.tail] = t, !.tail = t]

AddTime(lst, key, t) ==
  IF lst.head = Null THEN [lst EXCEPT !.head = t, !.tail = t]
  ELSE IF key[t] <= key[lst.head]
    THEN [lst EXCEPT !.next[t] = lst.head, !.prev[lst.head] = t, !.head = t]
    ELSE AddBehind(lst, key, t, lst.head)

(* Faulty variant: the prev field of the successor is not assigned.        *)
AdjustTimerHalf(lst, key, t) ==
  LET tmp == lst.next[t]
  IN IF tmp = Null \/ key[t] <= key[tmp] THEN lst
     ELSE IF t = lst.head
       THEN AddBehind([lst EXCEPT !.head = tmp, !.prev[tmp] = Null, !.next[t] = Null],
                      key, t, tmp)
       ELSE AddBehind([lst EXCEPT !.next[lst.prev[t]] = tmp,
                                  !.next[t] = Null, !.prev[t] = Null],
                      key, t, tmp)

(* Faulty variant: a timer that expires later is left where it is.         *)
AdjustTimerNever(lst, key, t) == lst

(* adjust_timer(): for a timer whose expire has grown.                     *)
AdjustTimer(lst, key, t) ==
  LET tmp == lst.next[t]
  IN IF tmp = Null \/ key[t] <= key[tmp] THEN lst
     ELSE IF t = lst.head
       THEN AddBehind([lst EXCEPT !.head = tmp, !.prev[tmp] = Null, !.next[t] = Null],
                      key, t, tmp)
       ELSE AddBehind([lst EXCEPT !.next[lst.prev[t]] = tmp, !.prev[tmp] = lst.prev[t],
                                  !.next[t] = Null, !.prev[t] = Null],
                      key, t, tmp)

DelTimer(lst, t) ==
  IF t = lst.head /\ t = lst.tail THEN [lst EXCEPT !.head = Null, !.tail = Null]
  ELSE IF t = lst.head
    THEN [lst EXCEPT !.head = lst.next[t], !.prev[lst.next[t]] = Null]
  ELSE IF t = lst.tail
    THEN [lst EXCEPT !.tail = lst.prev[t], !.next[lst.prev[t]] = Null]
  ELSE [lst EXCEPT !.next[lst.prev[t]] = lst.next[t], !.prev[lst.next[t]] = lst.prev[t]]

(* tick(): the head is deleted while it has expired; each timer that takes *)
(* its place loses its prev, and with the last one the list is empty.      *)
AfterTick(lst, key, now) ==
  LET fired == Passed(lst, lst.head, {p \in DOMAIN key : key[p] <= now})
      rest == IF fired = {} THEN lst.head ELSE lst.next[LastOf(lst, fired)]
  IN [fired |-> fired,
      lst |-> [lst EXCEPT
        !.head = rest,
        !.tail = IF rest = Null THEN Null ELSE @,
        !.prev = [p \in DOMAIN @ |->
                    IF \E q \in fired : lst.next[q] = p THEN Null ELSE @[p]]]]

-----------------------------------------------------------------------------
(* From head to tail the list is order[1], ..., order[n], the same in both *)
(* directions, without a timer twice, and sorted.                          *)
Chained(lst, key, order, n) ==
  /\ lst.head = IF n = 0 THEN Null ELSE order[1]
  /\ lst.tail = IF n = 0 THEN Null ELSE order[n]
  /\ \A k \in 1..n :
       /\ lst.next[order[k]] = IF k = n THEN Null ELSE order[k + 1]
       /\ lst.prev[order[k]] = IF k = 1 THEN Null ELSE order[k - 1]
  /\ \A j, k \in 1..n :
       j < k => order[j] # order[k] /\ key[order[j]] <= key[order[k]]
=============================================================================
