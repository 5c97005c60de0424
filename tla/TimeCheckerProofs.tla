-------------------------- MODULE TimeCheckerProofs --------------------------
(***************************************************************************)
(* Proofs about TimeChecker and its sorted list.  The list is carried      *)
(* through every operation together with its order, a sequence of timers   *)
(* from head to tail.                                                      *)
(***************************************************************************)
EXTENDS TimeChecker, FiniteSetTheorems, SequenceTheorems, WellFoundedInduction, TLAPS

-----------------------------------------------------------------------------
(* A set of natural numbers that is not empty has a least element.         *)
LEMMA Least ==
  ASSUME NEW T, T \subseteq Nat, T # {}
  PROVE  \E x \in T : \A y \in T : x <= y
<1> DEFINE R == {ss \in Nat \X Nat : ss[1] < ss[2]}
<1>1. IsWellFoundedOn(R, Nat)
  BY NatLessThanWellFounded DEF OpToRel
<1> HIDE DEF R
<1>2. PICK x \in T : \A y \in T : ~ (<<y, x>> \in R)
  BY <1>1, WFMin
<1>3. \A y \in T : x <= y
  <2> TAKE y \in T
  <2>1. x \in Nat /\ y \in Nat
    OBVIOUS
  <2>2. ~ (y < x)
    BY <1>2, <2>1 DEF R
  <2> QED
    BY <2>1, <2>2
<1> QED
  BY <1>3

(* The last of the indexes from a on before the first that is not good.    *)
LEMMA LastGood ==
  ASSUME NEW n \in Nat, NEW a \in 1..n, NEW G, a \in G
  PROVE  \E m \in a..n : /\ \A j \in a..m : j \in G
                         /\ m = n \/ m + 1 \notin G
<1> DEFINE T == {j \in a..(n + 1) : j = n + 1 \/ j \notin G}
<1>1. T \subseteq Nat /\ n + 1 \in T
  OBVIOUS
<1>2. PICK x \in T : \A y \in T : x <= y
  BY <1>1, Least
<1>3. x \in (a + 1)..(n + 1)
  OBVIOUS
<1>4. x - 1 \in a..n
  BY <1>3
<1>5. ASSUME NEW j \in a..(x - 1) PROVE j \in G
  <2>1. j \in a..(n + 1) /\ ~ (x <= j) /\ j # n + 1
    BY <1>3
  <2>2. j \notin T
    BY <1>2, <2>1
  <2> QED
    BY <2>1, <2>2
<1>6. x - 1 = n \/ (x - 1) + 1 \notin G
  BY <1>3
<1> QED
  BY <1>4, <1>5, <1>6

-----------------------------------------------------------------------------
(* The fields of the list hold timers or null pointers.                    *)
ListType(lst, nodes) ==
  lst \in [head : nodes \cup {Null}, tail : nodes \cup {Null},
           next : [nodes -> nodes \cup {Null}], prev : [nodes -> nodes \cup {Null}]]

(* order[1], ..., order[n] are the timers of live, chained and sorted.     *)
Ordered(lst, key, live, order, n) ==
  /\ order \in [1..n -> live] /\ live = {order[k] : k \in 1..n}
  /\ Chained(lst, key, order, n)

LEMMA OrderInjective ==
  ASSUME NEW lst, NEW key, NEW live, NEW n \in Nat, NEW order,
         Ordered(lst, key, live, order, n)
  PROVE  \A j, k \in 1..n : j # k => order[j] # order[k]
<1>1. \A j, k \in 1..n : j < k => order[j] # order[k]
  BY DEF Ordered, Chained
<1> SUFFICES ASSUME NEW j \in 1..n, NEW k \in 1..n, j # k PROVE order[j] # order[k]
  OBVIOUS
<1>2. j < k \/ k < j
  OBVIOUS
<1> QED
  BY <1>1, <1>2

Part(order, a, m) == {order[j] : j \in a..m}

(* From order[a] to order[m] the timers are good, and then they are not.   *)
GoodUntil(order, n, good, a, m) ==
  /\ \A j \in a..m : order[j] \in good
  /\ m = n \/ order[m + 1] \notin good

(* A walk along a list passes the timers up to the first that is not good. *)
LEMMA PassedAlong ==
  ASSUME NEW lst, NEW key, NEW live, NEW n \in Nat, NEW order,
         Ordered(lst, key, live, order, n), Null \notin live,
         NEW good, Null \notin good,
         NEW a \in 1..n, NEW m \in a..n, GoodUntil(order, n, good, a, m)
  PROVE  /\ Passed(lst, order[a], good) = Part(order, a, m)
         /\ LastOf(lst, Passed(lst, order[a], good)) = order[m]
<1> DEFINE W == {order[j] : j \in a..m}
           P == Passed(lst, order[a], good)
<1>0. /\ \A j \in a..m : order[j] \in good
      /\ m = n \/ order[m + 1] \notin good
  BY DEF GoodUntil
<1>1. \A j \in a..m : j \in 1..n /\ order[j] \in W /\ order[j] \in good
  BY <1>0
<1>2. \A k \in 1..n : lst.next[order[k]] = IF k = n THEN Null ELSE order[k + 1]
  BY DEF Ordered, Chained
<1>3. \A j, k \in 1..n : j # k => order[j] # order[k]
  BY OrderInjective
<1>4. lst.next[order[m]] \notin W /\ lst.next[order[m]] \notin good
  <2>1. m = n \/ m + 1 \in 1..n
    OBVIOUS
  <2>2. m \in 1..n
    OBVIOUS
  <2>3. lst.next[order[m]] = IF m = n THEN Null ELSE order[m + 1]
    BY <1>2, <2>2
  <2>4. Null \notin W
    BY <1>1
  <2>5. m # n => order[m + 1] \notin W
    <3> SUFFICES ASSUME m # n, NEW j \in a..m, order[m + 1] = order[j] PROVE FALSE
      OBVIOUS
    <3> QED
      BY <1>1, <1>3, <2>1
  <2> QED
    BY <1>0, <2>3, <2>4, <2>5
<1>5. \A j \in a..m : j # m => lst.next[order[j]] \in W
  <2> SUFFICES ASSUME NEW j \in a..m, j # m PROVE lst.next[order[j]] \in W
    OBVIOUS
  <2>1. j \in 1..n /\ j # n /\ j + 1 \in a..m
    OBVIOUS
  <2>2. lst.next[order[j]] = order[j + 1]
    BY <1>2, <2>1
  <2> QED
    BY <1>1, <2>1, <2>2
<1>6. W \subseteq good
  BY <1>1
<1>7. order[a] \in W
  BY <1>1
<1>8. P \subseteq W
  <2>1. \A q \in W : lst.next[q] \in good => lst.next[q] \in W
    BY <1>4, <1>5
  <2> QED
    BY <1>6, <1>7, <2>1 DEF Passed
<1>9. W \subseteq P
  <2> SUFFICES ASSUME NEW S \in SUBSET good, order[a] \in good => order[a] \in S,
                      \A q \in S : lst.next[q] \in good => lst.next[q] \in S
               PROVE  W \subseteq S
    BY <1>6 DEF Passed
  <2> DEFINE T == {j \in a..m : order[j] \notin S}
  <2>1. SUFFICES ASSUME T # {} PROVE FALSE
    OBVIOUS
  <2>2. T \subseteq Nat
    OBVIOUS
  <2>3. PICK x \in T : \A y \in T : x <= y
    BY <2>1, <2>2, Least
  <2>4. x # a
    BY <1>1
  <2>5. x - 1 \in a..m /\ ~ (x <= x - 1) /\ x - 1 \in 1..n /\ x - 1 # n /\ (x - 1) + 1 = x
    BY <2>4
  <2>6. order[x - 1] \in S
    BY <2>3, <2>5
  <2>7. lst.next[order[x - 1]] = order[x]
    BY <1>2, <2>5
  <2>8. order[x] \in good
    BY <1>1
  <2> QED
    BY <2>6, <2>7, <2>8
<1>10. P = W
  BY <1>8, <1>9
<1> HIDE DEF P
<1>11. LastOf(lst, W) = order[m]
  <2>1. order[m] \in W /\ lst.next[order[m]] \notin W
    BY <1>1, <1>4
  <2>2. \A p \in W : lst.next[p] \notin W => p = order[m]
    BY <1>5
  <2> HIDE DEF W
  <2> QED
    BY <2>1, <2>2 DEF LastOf
<1>12. P = W /\ LastOf(lst, P) = order[m]
  BY <1>10, <1>11
<1> QED
  BY <1>12 DEF P, Part

-----------------------------------------------------------------------------
(* The list with t behind order[k], its fields named one by one.           *)
Inserted(new, lst, key, live, order, n, t, k) ==
  /\ new.head = lst.head
  /\ new.tail = IF k = n THEN t ELSE lst.tail
  /\ \A u \in live \cup {t} :
       /\ new.next[u] = IF u = order[k] THEN t
                        ELSE IF u = t THEN lst.next[order[k]] ELSE lst.next[u]
       /\ new.prev[u] = IF u = t THEN order[k]
                        ELSE IF k # n /\ u = order[k + 1] THEN t ELSE lst.prev[u]
  /\ \A j \in 1..n : j <= k => key[order[j]] <= key[t]
  /\ \A j \in 1..n : j > k => key[t] <= key[order[j]]

LEMMA OrderedInsert ==
  ASSUME NEW lst, NEW new, NEW key, NEW live, NEW n \in Nat, NEW order,
         Ordered(lst, key, live, order, n), Null \notin live,
         NEW t, t \notin live, t # Null,
         NEW k \in 1..n, Inserted(new, lst, key, live, order, n, t, k)
  PROVE  \E order2 : Ordered(new, key, live \cup {t}, order2, n + 1)
<1> DEFINE o2 == [j \in 1..(n + 1) |->
                    IF j <= k THEN order[j] ELSE IF j = k + 1 THEN t ELSE order[j - 1]]
<1> USE DEF Inserted
<1>1. order \in [1..n -> live] /\ live = {order[j] : j \in 1..n}
  BY DEF Ordered
<1>2. \A i, j \in 1..n : i # j => order[i] # order[j]
  BY OrderInjective
<1>3. /\ lst.head = order[1] /\ lst.tail = order[n]
      /\ \A j \in 1..n : lst.next[order[j]] = IF j = n THEN Null ELSE order[j + 1]
      /\ \A j \in 1..n : lst.prev[order[j]] = IF j = 1 THEN Null ELSE order[j - 1]
      /\ \A i, j \in 1..n : i < j => key[order[i]] <= key[order[j]]
  <2>1. n # 0
    OBVIOUS
  <2>2. Chained(lst, key, order, n)
    BY DEF Ordered
  <2>3. lst.head = order[1] /\ lst.tail = order[n]
    BY <2>1, <2>2 DEF Chained
  <2>4. /\ \A j \in 1..n : lst.next[order[j]] = IF j = n THEN Null ELSE order[j + 1]
        /\ \A j \in 1..n : lst.prev[order[j]] = IF j = 1 THEN Null ELSE order[j - 1]
    BY <2>2 DEF Chained
  <2>5. \A i, j \in 1..n : i < j => key[order[i]] <= key[order[j]]
    BY <2>2 DEF Chained
  <2> QED
    BY <2>3, <2>4, <2>5
<1>4. /\ \A j \in 1..(n + 1) : j <= k => j \in 1..n /\ o2[j] = order[j]
      /\ k + 1 \in 1..(n + 1) /\ o2[k + 1] = t
      /\ \A j \in 1..(n + 1) : j > k + 1 => j - 1 \in 1..n /\ o2[j] = order[j - 1]
  OBVIOUS
<1>5. o2 \in [1..(n + 1) -> live \cup {t}]
  <2> SUFFICES ASSUME NEW j \in 1..(n + 1)
               PROVE  (IF j <= k THEN order[j] ELSE IF j = k + 1 THEN t ELSE order[j - 1])
                        \in live \cup {t}
    OBVIOUS
  <2>1. j <= k => j \in 1..n
    OBVIOUS
  <2>2. ~ (j <= k) /\ j # k + 1 => j - 1 \in 1..n
    OBVIOUS
  <2> QED
    BY <1>1, <2>1, <2>2
<1>6. \A j \in 1..(n + 1) : j <= k \/ j = k + 1 \/ j > k + 1
  OBVIOUS
<1>7. \A j \in 1..n : o2[IF j <= k THEN j ELSE j + 1] = order[j]
                      /\ (IF j <= k THEN j ELSE j + 1) \in 1..(n + 1)
  OBVIOUS
<1> HIDE DEF o2
<1>8. live \cup {t} = {o2[j] : j \in 1..(n + 1)}
  <2>1. ASSUME NEW u \in live PROVE u \in {o2[j] : j \in 1..(n + 1)}
    <3>1. PICK j \in 1..n : u = order[j]
      BY <1>1
    <3> QED
      BY <1>7, <3>1
  <2>2. t \in {o2[j] : j \in 1..(n + 1)}
    BY <1>4
  <2>3. \A j \in 1..(n + 1) : o2[j] \in live \cup {t}
    BY <1>5
  <2> QED
    BY <2>1, <2>2, <2>3
<1>9. new.head = o2[1] /\ new.tail = o2[n + 1]
  <2>1. 1 \in 1..(n + 1) /\ n + 1 \in 1..(n + 1) /\ 1 <= k
    OBVIOUS
  <2>2. new.head = o2[1]
    BY <1>3, <1>4, <2>1
  <2>3. k = n => new.tail = o2[n + 1]
    BY <1>4
  <2>4. k # n => n + 1 > k + 1 /\ (n + 1) - 1 = n
    OBVIOUS
  <2>5. k # n => new.tail = o2[n + 1]
    BY <1>3, <1>4, <2>1, <2>4
  <2> QED
    BY <2>2, <2>3, <2>5
<1>10. ASSUME NEW j \in 1..(n + 1)
       PROVE  /\ new.next[o2[j]] = IF j = n + 1 THEN Null ELSE o2[j + 1]
              /\ new.prev[o2[j]] = IF j = 1 THEN Null ELSE o2[j - 1]
  <2>1. order[k] \in live /\ (k # n => k + 1 \in 1..n /\ order[k + 1] \in live)
    <3>1. k # n => k + 1 \in 1..n
      OBVIOUS
    <3> QED
      BY <1>1, <3>1
  <2>2. ASSUME j < k
        PROVE  /\ new.next[o2[j]] = o2[j + 1]
               /\ new.prev[o2[j]] = IF j = 1 THEN Null ELSE o2[j - 1]
    <3>1. j \in 1..n /\ j + 1 \in 1..(n + 1) /\ j + 1 <= k /\ j # n /\ j # k /\ j # k + 1
      BY <2>2
    <3>2. o2[j] = order[j] /\ o2[j + 1] = order[j + 1]
      BY <1>4, <2>2, <3>1
    <3>3. order[j] \in live /\ order[j] # t /\ order[j] # order[k]
          /\ (k # n => order[j] # order[k + 1])
      <4>1. order[j] \in live /\ order[j] # order[k]
        BY <1>1, <1>2, <3>1
      <4>2. k # n => order[j] # order[k + 1]
        BY <1>2, <3>1, <2>1
      <4> QED
        BY <4>1, <4>2
    <3>4. new.next[order[j]] = lst.next[order[j]] /\ new.prev[order[j]] = lst.prev[order[j]]
      BY <3>3
    <3>5. j # 1 => j - 1 \in 1..(n + 1) /\ j - 1 <= k
      BY <2>2
    <3>6. j # 1 => o2[j - 1] = order[j - 1]
      BY <1>4, <3>5
    <3> QED
      BY <1>3, <3>1, <3>2, <3>4, <3>6
  <2>3. ASSUME j = k
        PROVE  /\ new.next[o2[j]] = o2[j + 1]
               /\ new.prev[o2[j]] = IF j = 1 THEN Null ELSE o2[j - 1]
    <3>1. o2[j] = order[k] /\ order[k] # t
      BY <1>4, <2>1, <2>3
    <3>2. new.next[order[k]] = t
      BY <2>1
    <3>3. k # n => order[k] # order[k + 1]
      BY <1>2, <2>1
    <3>4. new.prev[order[k]] = lst.prev[order[k]]
      BY <2>1, <3>1, <3>3
    <3>5. j # 1 => j - 1 \in 1..(n + 1) /\ j - 1 <= k
      BY <2>3
    <3>6. j # 1 => o2[j - 1] = order[j - 1]
      BY <1>4, <3>5
    <3> QED
      BY <1>3, <1>4, <2>3, <3>1, <3>2, <3>4, <3>6
  <2>4. ASSUME j = k + 1
        PROVE  /\ new.next[o2[j]] = IF j = n + 1 THEN Null ELSE o2[j + 1]
               /\ new.prev[o2[j]] = o2[j - 1]
    <3>1. o2[j] = t /\ t # order[k] /\ j - 1 = k /\ (j = n + 1 <=> k = n)
      BY <1>4, <2>1, <2>4
    <3>2. new.next[t] = lst.next[order[k]] /\ new.prev[t] = order[k]
      BY <3>1
    <3>3. o2[k] = order[k]
      BY <1>4
    <3>4. j # n + 1 => j + 1 \in 1..(n + 1) /\ j + 1 > k + 1 /\ (j + 1) - 1 = k + 1
      BY <2>4
    <3>5. j # n + 1 => o2[j + 1] = order[k + 1]
      BY <1>4, <3>4
    <3> QED
      BY <1>3, <3>1, <3>2, <3>3, <3>5
  <2>5. ASSUME j > k + 1
        PROVE  /\ new.next[o2[j]] = IF j = n + 1 THEN Null ELSE o2[j + 1]
               /\ new.prev[o2[j]] = o2[j - 1]
    <3>1. /\ j - 1 \in 1..n /\ j - 1 # k /\ j - 1 # 1 /\ k # n
          /\ (j = n + 1 <=> j - 1 = n) /\ (j - 1) + 1 = j
      BY <2>5
    <3>2. o2[j] = order[j - 1] /\ order[j - 1] \in live /\ order[j - 1] # t
          /\ order[j - 1] # order[k]
      BY <1>1, <1>2, <1>4, <2>5, <3>1
    <3>3. new.next[o2[j]] = lst.next[order[j - 1]]
      BY <3>2
    <3>4. j # n + 1 => j + 1 \in 1..(n + 1) /\ j + 1 > k + 1 /\ (j + 1) - 1 = j
      BY <2>5
    <3>5. j # n + 1 => o2[j + 1] = order[j]
      BY <1>4, <3>4
    <3>6. new.next[o2[j]] = IF j = n + 1 THEN Null ELSE o2[j + 1]
      BY <1>3, <3>1, <3>3, <3>5
    <3>7. ASSUME j - 1 = k + 1 PROVE new.prev[o2[j]] = o2[j - 1]
      BY <1>4, <3>1, <3>2, <3>7
    <3>8. ASSUME j - 1 # k + 1 PROVE new.prev[o2[j]] = o2[j - 1]
      <4>1. order[j - 1] # order[k + 1]
        BY <1>2, <2>1, <3>1, <3>8
      <4>2. new.prev[o2[j]] = lst.prev[order[j - 1]]
        BY <3>2, <4>1
      <4>3. lst.prev[order[j - 1]] = order[(j - 1) - 1]
        BY <1>3, <3>1
      <4>4. j - 1 \in 1..(n + 1) /\ j - 1 > k + 1
        BY <2>5, <3>8
      <4> QED
        BY <1>4, <4>2, <4>3, <4>4
    <3> QED
      BY <3>6, <3>7, <3>8
  <2>6. j < k \/ j = k \/ j = k + 1 \/ j > k + 1
    OBVIOUS
  <2>7. (j < k \/ j = k) => j # n + 1
    OBVIOUS
  <2>8. (j = k + 1 \/ j > k + 1) => j # 1
    OBVIOUS
  <2> QED
    BY <2>2, <2>3, <2>4, <2>5, <2>6, <2>7, <2>8
<1>11. ASSUME NEW i \in 1..(n + 1), NEW j \in 1..(n + 1), i < j
       PROVE  o2[i] # o2[j] /\ key[o2[i]] <= key[o2[j]]
  <2>1. ASSUME i <= k, j <= k PROVE o2[i] # o2[j] /\ key[o2[i]] <= key[o2[j]]
    BY <1>2, <1>3, <1>4, <1>11, <2>1
  <2>2. ASSUME i <= k, j = k + 1 PROVE o2[i] # o2[j] /\ key[o2[i]] <= key[o2[j]]
    <3>1. o2[i] = order[i] /\ i \in 1..n /\ o2[j] = t
      BY <1>4, <2>2
    <3> QED
      BY <1>1, <2>2, <3>1
  <2>3. ASSUME i <= k, j > k + 1 PROVE o2[i] # o2[j] /\ key[o2[i]] <= key[o2[j]]
    <3>1. o2[i] = order[i] /\ i \in 1..n /\ o2[j] = order[j - 1] /\ j - 1 \in 1..n /\ i < j - 1
      BY <1>4, <2>3
    <3> QED
      BY <1>2, <1>3, <3>1
  <2>4. ASSUME i = k + 1, j > k + 1 PROVE o2[i] # o2[j] /\ key[o2[i]] <= key[o2[j]]
    <3>1. o2[i] = t /\ o2[j] = order[j - 1] /\ j - 1 \in 1..n /\ j - 1 > k
      BY <1>4, <2>4
    <3> QED
      BY <1>1, <3>1
  <2>5. ASSUME i > k + 1, j > k + 1 PROVE o2[i] # o2[j] /\ key[o2[i]] <= key[o2[j]]
    <3>1. /\ o2[i] = order[i - 1] /\ i - 1 \in 1..n
          /\ o2[j] = order[j - 1] /\ j - 1 \in 1..n /\ i - 1 < j - 1
      BY <1>4, <1>11, <2>5
    <3> QED
      BY <1>2, <1>3, <3>1
  <2>6. \/ i <= k /\ (j <= k \/ j = k + 1 \/ j > k + 1)
        \/ i = k + 1 /\ j > k + 1
        \/ i > k + 1 /\ j > k + 1
    BY <1>11
  <2> QED
    BY <2>1, <2>2, <2>3, <2>4, <2>5, <2>6
<1>12. Chained(new, key, o2, n + 1)
  <2>1. n + 1 # 0
    OBVIOUS
  <2> QED
    BY <1>9, <1>10, <1>11, <2>1 DEF Chained
<1> QED
  BY <1>5, <1>8, <1>12 DEF Ordered

(* The list with t before its head.                                        *)
Fronted(new, lst, key, live, order, n, t) ==
  /\ new.head = t
  /\ new.tail = IF n = 0 THEN t ELSE lst.tail
  /\ \A u \in live \cup {t} :
       /\ new.next[u] = IF u = t THEN lst.head ELSE lst.next[u]
       /\ new.prev[u] = IF u = t THEN Null
                        ELSE IF u = lst.head THEN t ELSE lst.prev[u]
  /\ \A j \in 1..n : key[t] <= key[order[j]]

LEMMA OrderedFront ==
  ASSUME NEW lst, NEW new, NEW key, NEW live, NEW n \in Nat, NEW order,
         Ordered(lst, key, live, order, n), Null \notin live,
         NEW t, t \notin live, t # Null, Fronted(new, lst, key, live, order, n, t)
  PROVE  \E order2 : Ordered(new, key, live \cup {t}, order2, n + 1)
<1> DEFINE o2 == [j \in 1..(n + 1) |-> IF j = 1 THEN t ELSE order[j - 1]]
<1> USE DEF Fronted
<1>1. order \in [1..n -> live] /\ live = {order[j] : j \in 1..n}
  BY DEF Ordered
<1>2. \A i, j \in 1..n : i # j => order[i] # order[j]
  BY OrderInjective
<1>3. /\ lst.head = IF n = 0 THEN Null ELSE order[1]
      /\ lst.tail = IF n = 0 THEN Null ELSE order[n]
      /\ \A j \in 1..n : lst.next[order[j]] = IF j = n THEN Null ELSE order[j + 1]
      /\ \A j \in 1..n : lst.prev[order[j]] = IF j = 1 THEN Null ELSE order[j - 1]
      /\ \A i, j \in 1..n : i < j => key[order[i]] <= key[order[j]]
  BY DEF Ordered, Chained
<1>4. /\ 1 \in 1..(n + 1) /\ o2[1] = t
      /\ \A j \in 1..(n + 1) : j # 1 => j - 1 \in 1..n /\ o2[j] = order[j - 1]
  OBVIOUS
<1>5. o2 \in [1..(n + 1) -> live \cup {t}]
  <2> SUFFICES ASSUME NEW j \in 1..(n + 1)
               PROVE  (IF j = 1 THEN t ELSE order[j - 1]) \in live \cup {t}
    OBVIOUS
  <2>1. j # 1 => j - 1 \in 1..n
    OBVIOUS
  <2> QED
    BY <1>1, <2>1
<1>6. \A j \in 1..n : j + 1 \in 1..(n + 1) /\ o2[j + 1] = order[j]
  OBVIOUS
<1> HIDE DEF o2
<1>7. live \cup {t} = {o2[j] : j \in 1..(n + 1)}
  <2>1. ASSUME NEW u \in live PROVE u \in {o2[j] : j \in 1..(n + 1)}
    <3>1. PICK j \in 1..n : u = order[j]
      BY <1>1
    <3> QED
      BY <1>6, <3>1
  <2>2. t \in {o2[j] : j \in 1..(n + 1)}
    BY <1>4
  <2>3. \A j \in 1..(n + 1) : o2[j] \in live \cup {t}
    BY <1>5
  <2> QED
    BY <2>1, <2>2, <2>3
<1>8. new.head = o2[1] /\ new.tail = o2[n + 1]
  <2>1. n = 0 => new.tail = o2[n + 1]
    BY <1>4
  <2>2. n # 0 => n + 1 \in 1..(n + 1) /\ n \in 1..n
    OBVIOUS
  <2>3. n # 0 => new.tail = o2[n + 1]
    BY <1>3, <1>6, <2>2
  <2> QED
    BY <1>4, <2>1, <2>3
<1>9. ASSUME NEW j \in 1..(n + 1)
      PROVE  /\ new.next[o2[j]] = IF j = n + 1 THEN Null ELSE o2[j + 1]
             /\ new.prev[o2[j]] = IF j = 1 THEN Null ELSE o2[j - 1]
  <2>1. ASSUME j = 1
        PROVE  /\ new.next[o2[j]] = IF j = n + 1 THEN Null ELSE o2[j + 1]
               /\ new.prev[o2[j]] = Null
    <3>1. new.next[o2[j]] = lst.head /\ new.prev[o2[j]] = Null
      BY <1>4, <2>1
    <3>2. j = n + 1 <=> n = 0
      BY <2>1
    <3>3. n # 0 => 1 \in 1..n
      OBVIOUS
    <3>4. n # 0 => o2[j + 1] = order[1]
      BY <1>6, <2>1, <3>3
    <3> QED
      BY <1>3, <3>1, <3>2, <3>4
  <2>2. ASSUME j # 1
        PROVE  /\ new.next[o2[j]] = IF j = n + 1 THEN Null ELSE o2[j + 1]
               /\ new.prev[o2[j]] = o2[j - 1]
    <3>1. /\ j - 1 \in 1..n /\ n # 0 /\ 1 \in 1..n
          /\ (j = n + 1 <=> j - 1 = n) /\ (j - 1) + 1 = j
      BY <2>2
    <3>2. o2[j] = order[j - 1] /\ order[j - 1] \in live /\ order[j - 1] # t
      <4>1. o2[j] = order[j - 1]
        BY <1>4, <2>2
      <4>2. order[j - 1] \in live
        BY <1>1, <3>1
      <4> QED
        BY <4>1, <4>2
    <3>3. new.next[o2[j]] = lst.next[order[j - 1]]
      BY <3>2
    <3>4. j # n + 1 => j \in 1..n
      OBVIOUS
    <3>5. j # n + 1 => o2[j + 1] = order[j]
      BY <1>6, <3>4
    <3>6. new.next[o2[j]] = IF j = n + 1 THEN Null ELSE o2[j + 1]
      BY <1>3, <3>1, <3>3, <3>5
    <3>7. ASSUME j - 1 = 1 PROVE new.prev[o2[j]] = o2[j - 1]
      <4>1. order[j - 1] = lst.head
        BY <1>3, <3>1, <3>7
      <4> QED
        BY <1>4, <3>2, <3>7, <4>1
    <3>8. ASSUME j - 1 # 1 PROVE new.prev[o2[j]] = o2[j - 1]
      <4>1. order[j - 1] # lst.head
        BY <1>2, <1>3, <3>1, <3>8
      <4>2. new.prev[o2[j]] = lst.prev[order[j - 1]]
        BY <3>2, <4>1
      <4>3. lst.prev[order[j - 1]] = order[(j - 1) - 1]
        BY <1>3, <3>1, <3>8
      <4>4. j - 1 \in 1..(n + 1) /\ j - 1 # 1
        BY <2>2, <3>8
      <4> QED
        BY <1>4, <4>2, <4>3, <4>4
    <3> QED
      BY <3>6, <3>7, <3>8
  <2> QED
    BY <2>1, <2>2
<1>10. ASSUME NEW i \in 1..(n + 1), NEW j \in 1..(n + 1), i < j
       PROVE  o2[i] # o2[j] /\ key[o2[i]] <= key[o2[j]]
  <2>1. j # 1
    BY <1>10
  <2>2. o2[j] = order[j - 1] /\ j - 1 \in 1..n /\ order[j - 1] \in live
    BY <1>1, <1>4, <2>1
  <2>3. i = 1 => o2[i] # o2[j] /\ key[o2[i]] <= key[o2[j]]
    BY <1>4, <2>2
  <2>4. i # 1 => o2[i] = order[i - 1] /\ i - 1 \in 1..n /\ i - 1 < j - 1
    BY <1>4, <1>10
  <2>5. i # 1 => o2[i] # o2[j] /\ key[o2[i]] <= key[o2[j]]
    BY <1>2, <1>3, <2>2, <2>4
  <2> QED
    BY <2>3, <2>5
<1>11. Chained(new, key, o2, n + 1)
  <2>1. n + 1 # 0
    OBVIOUS
  <2> QED
    BY <1>8, <1>9, <1>10, <2>1 DEF Chained
<1> QED
  BY <1>5, <1>7, <1>11 DEF Ordered

(* The list without order[k].                                              *)
Unlinked(new, lst, live, order, n, k) ==
  /\ new.head = IF k = 1 THEN lst.next[order[k]] ELSE lst.head
  /\ new.tail = IF k = n THEN lst.prev[order[k]] ELSE lst.tail
  /\ \A u \in live \ {order[k]} :
       /\ new.next[u] = IF u = lst.prev[order[k]] THEN lst.next[order[k]] ELSE lst.next[u]
       /\ new.prev[u] = IF u = lst.next[order[k]] THEN lst.prev[order[k]] ELSE lst.prev[u]

LEMMA OrderedDelete ==
  ASSUME NEW lst, NEW new, NEW key, NEW live, NEW n \in Nat, NEW order,
         Ordered(lst, key, live, order, n), Null \notin live,
         NEW k \in 1..n, Unlinked(new, lst, live, order, n, k)
  PROVE  \E order2 : Ordered(new, key, live \ {order[k]}, order2, n - 1)
<1> USE DEF Unlinked
<1> DEFINE o2 == [j \in 1..(n - 1) |-> IF j < k THEN order[j] ELSE order[j + 1]]
<1>1. order \in [1..n -> live] /\ live = {order[j] : j \in 1..n}
  BY DEF Ordered
<1>2. \A i, j \in 1..n : i # j => order[i] # order[j]
  BY OrderInjective
<1>3. /\ lst.head = order[1] /\ lst.tail = order[n]
      /\ \A j \in 1..n : lst.next[order[j]] = IF j = n THEN Null ELSE order[j + 1]
      /\ \A j \in 1..n : lst.prev[order[j]] = IF j = 1 THEN Null ELSE order[j - 1]
      /\ \A i, j \in 1..n : i < j => key[order[i]] <= key[order[j]]
  <2>1. n # 0
    OBVIOUS
  <2>2. Chained(lst, key, order, n)
    BY DEF Ordered
  <2>3. lst.head = order[1] /\ lst.tail = order[n]
    BY <2>1, <2>2 DEF Chained
  <2>4. /\ \A j \in 1..n : lst.next[order[j]] = IF j = n THEN Null ELSE order[j + 1]
        /\ \A j \in 1..n : lst.prev[order[j]] = IF j = 1 THEN Null ELSE order[j - 1]
    BY <2>2 DEF Chained
  <2>5. \A i, j \in 1..n : i < j => key[order[i]] <= key[order[j]]
    BY <2>2 DEF Chained
  <2> QED
    BY <2>3, <2>4, <2>5
<1>4. \A j \in 1..(n - 1) :
        /\ j < k => j \in 1..n /\ o2[j] = order[j]
        /\ ~ (j < k) => j + 1 \in 1..n /\ j + 1 # k /\ o2[j] = order[j + 1]
  OBVIOUS
<1>5. \A j \in 1..n : j # k =>
        /\ j < k => j \in 1..(n - 1) /\ o2[j] = order[j]
        /\ ~ (j < k) => j - 1 \in 1..(n - 1) /\ ~ (j - 1 < k) /\ o2[j - 1] = order[j]
  OBVIOUS
<1>6. ASSUME NEW j \in 1..(n - 1) PROVE o2[j] \in live \ {order[k]}
  <2>1. \A i \in 1..n : i # k => order[i] \in live \ {order[k]}
    BY <1>1, <1>2
  <2>2. j < k => j \in 1..n /\ j # k /\ o2[j] = order[j]
    BY <1>4
  <2>3. ~ (j < k) => j + 1 \in 1..n /\ j + 1 # k /\ o2[j] = order[j + 1]
    BY <1>4
  <2> HIDE DEF o2
  <2> QED
    BY <2>1, <2>2, <2>3
<1>7. o2 \in [1..(n - 1) -> live \ {order[k]}]
  BY <1>6
<1> HIDE DEF o2
<1>8. live \ {order[k]} = {o2[j] : j \in 1..(n - 1)}
  <2>1. ASSUME NEW u \in live \ {order[k]} PROVE u \in {o2[j] : j \in 1..(n - 1)}
    <3>1. PICK j \in 1..n : u = order[j]
      BY <1>1
    <3>2. j # k
      BY <3>1
    <3>3. j < k => u \in {o2[i] : i \in 1..(n - 1)}
      BY <1>5, <3>1, <3>2
    <3>4. ~ (j < k) => u \in {o2[i] : i \in 1..(n - 1)}
      BY <1>5, <3>1, <3>2
    <3> QED
      BY <3>3, <3>4
  <2> QED
    BY <1>6, <2>1
<1>9. n - 1 \in Nat /\ n - 1 # 0 => 1 \in 1..(n - 1) /\ n - 1 \in 1..(n - 1)
  OBVIOUS
<1>10. ASSUME n - 1 # 0 PROVE new.head = o2[1] /\ new.tail = o2[n - 1]
  <2>1. 1 \in 1..(n - 1) /\ n - 1 \in 1..(n - 1) /\ 1 \in 1..n /\ n \in 1..n
    BY <1>10
  <2>2. k = 1 => k # n /\ ~ (1 < k) /\ 1 + 1 = k + 1
    BY <1>10
  <2>3. k = 1 => new.head = o2[1]
    BY <1>3, <1>4, <2>1, <2>2
  <2>4. k # 1 => 1 < k
    OBVIOUS
  <2>5. k # 1 => new.head = o2[1]
    BY <1>3, <1>4, <2>1, <2>4
  <2>6. k = n => k # 1 /\ n - 1 < k /\ k - 1 = n - 1
    BY <1>10
  <2>7. k = n => new.tail = o2[n - 1]
    BY <1>3, <1>4, <2>1, <2>6
  <2>8. k # n => ~ (n - 1 < k) /\ (n - 1) + 1 = n
    OBVIOUS
  <2>9. k # n => new.tail = o2[n - 1]
    BY <1>3, <1>4, <2>1, <2>8
  <2> QED
    BY <2>3, <2>5, <2>7, <2>9
<1>11. ASSUME n - 1 = 0 PROVE new.head = Null /\ new.tail = Null
  <2>1. k = 1 /\ k = n
    BY <1>11
  <2> QED
    BY <1>3, <2>1
<1>12. ASSUME NEW j \in 1..(n - 1)
       PROVE  /\ new.next[o2[j]] = IF j = n - 1 THEN Null ELSE o2[j + 1]
              /\ new.prev[o2[j]] = IF j = 1 THEN Null ELSE o2[j - 1]
  <2>0. lst.next[order[k]] = (IF k = n THEN Null ELSE order[k + 1])
        /\ lst.prev[order[k]] = (IF k = 1 THEN Null ELSE order[k - 1])
    BY <1>3
  <2>1. ASSUME j < k
        PROVE  /\ new.next[o2[j]] = IF j = n - 1 THEN Null ELSE o2[j + 1]
               /\ new.prev[o2[j]] = IF j = 1 THEN Null ELSE o2[j - 1]
    <3>1. j \in 1..n /\ j # n /\ k # 1 /\ k - 1 \in 1..n /\ (k # n => k + 1 \in 1..n /\ j # k + 1)
      BY <2>1
    <3>2. o2[j] = order[j] /\ order[j] \in live \ {order[k]}
      BY <1>4, <1>6, <2>1
    <3>3. k # n => order[j] # order[k + 1]
      BY <1>2, <3>1
    <3>4. order[j] # lst.next[order[k]]
      BY <2>0, <3>2, <3>3
    <3>5. new.prev[o2[j]] = lst.prev[order[j]]
      BY <3>2, <3>4
    <3>6. j # 1 => j - 1 \in 1..(n - 1) /\ j - 1 < k
      BY <2>1
    <3>7. j # 1 => o2[j - 1] = order[j - 1]
      BY <1>4, <3>6
    <3>8. new.prev[o2[j]] = IF j = 1 THEN Null ELSE o2[j - 1]
      BY <1>3, <3>1, <3>5, <3>7
    <3>9. ASSUME j = k - 1 PROVE new.next[o2[j]] = IF j = n - 1 THEN Null ELSE o2[j + 1]
      <4>1. new.next[o2[j]] = lst.next[order[k]]
        BY <2>0, <3>1, <3>2, <3>9
      <4>2. j = n - 1 <=> k = n
        BY <3>9
      <4>3. k # n => j + 1 \in 1..(n - 1) /\ ~ (j + 1 < k) /\ (j + 1) + 1 = k + 1
        BY <3>9
      <4>4. k # n => o2[j + 1] = order[k + 1]
        BY <1>4, <4>3
      <4> QED
        BY <2>0, <4>1, <4>2, <4>4
    <3>10. ASSUME j # k - 1 PROVE new.next[o2[j]] = IF j = n - 1 THEN Null ELSE o2[j + 1]
      <4>1. order[j] # order[k - 1]
        BY <1>2, <3>1, <3>10
      <4>2. new.next[o2[j]] = lst.next[order[j]]
        BY <2>0, <3>1, <3>2, <4>1
      <4>3. j # n - 1 /\ j + 1 \in 1..(n - 1) /\ j + 1 < k
        BY <2>1, <3>10
      <4>4. o2[j + 1] = order[j + 1]
        BY <1>4, <4>3
      <4> QED
        BY <1>3, <3>1, <4>2, <4>3, <4>4
    <3> QED
      BY <3>8, <3>9, <3>10
  <2>2. ASSUME ~ (j < k)
        PROVE  /\ new.next[o2[j]] = IF j = n - 1 THEN Null ELSE o2[j + 1]
               /\ new.prev[o2[j]] = IF j = 1 THEN Null ELSE o2[j - 1]
    <3>1. /\ j + 1 \in 1..n /\ j + 1 # 1 /\ k # n /\ k + 1 \in 1..n
          /\ (k # 1 => k - 1 \in 1..n /\ j + 1 # k - 1)
          /\ (j + 1) - 1 = j
      BY <2>2
    <3>2. o2[j] = order[j + 1] /\ order[j + 1] \in live \ {order[k]}
      BY <1>4, <1>6, <2>2
    <3>3. k # 1 => order[j + 1] # order[k - 1]
      BY <1>2, <3>1
    <3>4. order[j + 1] # lst.prev[order[k]]
      BY <2>0, <3>2, <3>3
    <3>5. new.next[o2[j]] = lst.next[order[j + 1]]
      BY <3>2, <3>4
    <3>6. (j = n - 1 <=> j + 1 = n) /\ (j # n - 1 => j + 1 \in 1..(n - 1) /\ ~ (j + 1 < k))
      BY <2>2
    <3>7. j # n - 1 => o2[j + 1] = order[(j + 1) + 1]
      BY <1>4, <3>6
    <3>8. new.next[o2[j]] = IF j = n - 1 THEN Null ELSE o2[j + 1]
      BY <1>3, <3>1, <3>5, <3>6, <3>7
    <3>9. ASSUME j = k PROVE new.prev[o2[j]] = IF j = 1 THEN Null ELSE o2[j - 1]
      <4>1. new.prev[o2[j]] = lst.prev[order[k]]
        BY <2>0, <3>1, <3>2, <3>9
      <4>2. k # 1 => j - 1 \in 1..(n - 1) /\ j - 1 < k /\ j - 1 = k - 1
        BY <3>9
      <4>3. k # 1 => o2[j - 1] = order[k - 1]
        BY <1>4, <4>2
      <4> QED
        BY <2>0, <3>9, <4>1, <4>3
    <3>10. ASSUME j # k PROVE new.prev[o2[j]] = IF j = 1 THEN Null ELSE o2[j - 1]
      <4>1. j + 1 # k + 1
        BY <3>10
      <4>2. order[j + 1] # order[k + 1]
        BY <1>2, <3>1, <4>1
      <4>3. new.prev[o2[j]] = lst.prev[order[j + 1]]
        BY <2>0, <3>1, <3>2, <4>2
      <4>4. lst.prev[order[j + 1]] = order[j]
        BY <1>3, <3>1
      <4>5. j # 1 /\ j - 1 \in 1..(n - 1) /\ ~ (j - 1 < k) /\ (j - 1) + 1 = j
        BY <2>2, <3>10
      <4>6. o2[j - 1] = order[j]
        BY <1>4, <4>5
      <4> QED
        BY <4>3, <4>4, <4>5, <4>6
    <3> QED
      BY <3>8, <3>9, <3>10
  <2> QED
    BY <2>1, <2>2
<1>13. ASSUME NEW i \in 1..(n - 1), NEW j \in 1..(n - 1), i < j
       PROVE  o2[i] # o2[j] /\ key[o2[i]] <= key[o2[j]]
  <2> DEFINE p == IF i < k THEN i ELSE i + 1
             q == IF j < k THEN j ELSE j + 1
  <2>1. p \in 1..n /\ q \in 1..n /\ p < q
    BY <1>13
  <2>2. o2[i] = order[p] /\ o2[j] = order[q]
    BY <1>4
  <2> HIDE DEF p, q
  <2> QED
    BY <1>2, <1>3, <2>1, <2>2
<1>14. Chained(new, key, o2, n - 1)
  BY <1>10, <1>11, <1>12, <1>13 DEF Chained
<1> QED
  BY <1>7, <1>8, <1>14 DEF Ordered

(* The list without its first m timers.                                    *)
Shortened(new, lst, order, n, m) ==
  /\ new.head = lst.next[order[m]]
  /\ new.tail = IF m = n THEN Null ELSE lst.tail
  /\ \A j \in 1..n : j > m =>
       /\ new.next[order[j]] = lst.next[order[j]]
       /\ new.prev[order[j]] = IF j = m + 1 THEN Null ELSE lst.prev[order[j]]

LEMMA OrderedDrop ==
  ASSUME NEW lst, NEW new, NEW key, NEW live, NEW n \in Nat, NEW order,
         Ordered(lst, key, live, order, n), Null \notin live,
         NEW m \in 1..n, Shortened(new, lst, order, n, m)
  PROVE  \E order2 : Ordered(new, key, live \ Part(order, 1, m), order2, n - m)
<1>1. order \in [1..n -> live] /\ live = {order[j] : j \in 1..n}
  BY DEF Ordered
<1>2. \A i, j \in 1..n : i # j => order[i] # order[j]
  BY OrderInjective
<1> USE DEF Shortened
<1> DEFINE o2 == [j \in 1..(n - m) |-> order[j + m]]
           gone == {order[j] : j \in 1..m}
<1>3. /\ lst.head = order[1] /\ lst.tail = order[n]
      /\ \A j \in 1..n : lst.next[order[j]] = IF j = n THEN Null ELSE order[j + 1]
      /\ \A j \in 1..n : lst.prev[order[j]] = IF j = 1 THEN Null ELSE order[j - 1]
      /\ \A i, j \in 1..n : i < j => key[order[i]] <= key[order[j]]
  <2>1. n # 0
    OBVIOUS
  <2>2. Chained(lst, key, order, n)
    BY DEF Ordered
  <2>3. lst.head = order[1] /\ lst.tail = order[n]
    BY <2>1, <2>2 DEF Chained
  <2>4. /\ \A j \in 1..n : lst.next[order[j]] = IF j = n THEN Null ELSE order[j + 1]
        /\ \A j \in 1..n : lst.prev[order[j]] = IF j = 1 THEN Null ELSE order[j - 1]
    BY <2>2 DEF Chained
  <2>5. \A i, j \in 1..n : i < j => key[order[i]] <= key[order[j]]
    BY <2>2 DEF Chained
  <2> QED
    BY <2>3, <2>4, <2>5
<1>4. \A j \in 1..(n - m) : j + m \in 1..n /\ j + m > m /\ o2[j] = order[j + m]
  OBVIOUS
<1>5. \A j \in 1..n : order[j] \in gone <=> j <= m
  <2> TAKE j \in 1..n
  <2>1. j <= m => order[j] \in gone
    OBVIOUS
  <2>2. ASSUME NEW i \in 1..m, order[j] = order[i] PROVE j <= m
    <3>1. i \in 1..n
      OBVIOUS
    <3> QED
      BY <1>2, <2>2, <3>1
  <2> QED
    BY <2>1, <2>2
<1> HIDE DEF gone
<1>6. ASSUME NEW j \in 1..(n - m) PROVE o2[j] \in live \ gone
  <2>1. j + m \in 1..n /\ ~ (j + m <= m) /\ o2[j] = order[j + m]
    OBVIOUS
  <2> QED
    BY <1>1, <1>5, <2>1
<1>7. o2 \in [1..(n - m) -> live \ gone]
  BY <1>6
<1>8. \A j \in 1..n : j > m => j - m \in 1..(n - m) /\ (j - m) + m = j /\ o2[j - m] = order[j]
  OBVIOUS
<1> HIDE DEF o2
<1>9. live \ gone = {o2[j] : j \in 1..(n - m)}
  <2>1. ASSUME NEW u \in live \ gone PROVE u \in {o2[j] : j \in 1..(n - m)}
    <3>1. PICK j \in 1..n : u = order[j]
      BY <1>1
    <3>2. j > m
      BY <1>5, <3>1
    <3> QED
      BY <1>8, <3>1, <3>2
  <2> QED
    BY <1>6, <2>1
<1>10. new.head = IF n - m = 0 THEN Null ELSE o2[1]
  <2>1. lst.next[order[m]] = IF m = n THEN Null ELSE order[m + 1]
    BY <1>3
  <2>2. n - m = 0 <=> m = n
    OBVIOUS
  <2>3. m # n => 1 \in 1..(n - m) /\ 1 + m = m + 1
    OBVIOUS
  <2> QED
    BY <1>4, <2>1, <2>2, <2>3
<1>11. new.tail = IF n - m = 0 THEN Null ELSE o2[n - m]
  <2>1. n - m = 0 <=> m = n
    OBVIOUS
  <2>2. m # n => n - m \in 1..(n - m) /\ (n - m) + m = n
    OBVIOUS
  <2> QED
    BY <1>3, <1>4, <2>1, <2>2
<1>12. ASSUME NEW j \in 1..(n - m)
       PROVE  /\ new.next[o2[j]] = IF j = n - m THEN Null ELSE o2[j + 1]
              /\ new.prev[o2[j]] = IF j = 1 THEN Null ELSE o2[j - 1]
  <2>1. /\ j + m \in 1..n /\ j + m > m /\ j + m # 1
        /\ (j + m = n <=> j = n - m) /\ (j + m = m + 1 <=> j = 1)
    OBVIOUS
  <2>2. o2[j] = order[j + m]
    BY <1>4
  <2>3. j # n - m => j + 1 \in 1..(n - m) /\ (j + 1) + m = (j + m) + 1
    OBVIOUS
  <2>4. j # n - m => o2[j + 1] = order[(j + m) + 1]
    BY <1>4, <2>3
  <2>5. j # 1 => j - 1 \in 1..(n - m) /\ (j - 1) + m = (j + m) - 1
    OBVIOUS
  <2>6. j # 1 => o2[j - 1] = order[(j + m) - 1]
    BY <1>4, <2>5
  <2>7. new.next[o2[j]] = lst.next[order[j + m]]
        /\ new.prev[o2[j]] = IF j = 1 THEN Null ELSE lst.prev[order[j + m]]
    BY <2>1, <2>2
  <2>8. lst.next[order[j + m]] = IF j + m = n THEN Null ELSE order[(j + m) + 1]
    BY <1>3, <2>1
  <2>9. lst.prev[order[j + m]] = order[(j + m) - 1]
    BY <1>3, <2>1
  <2> QED
    BY <2>1, <2>4, <2>6, <2>7, <2>8, <2>9
<1>13. ASSUME NEW i \in 1..(n - m), NEW j \in 1..(n - m), i < j
       PROVE  o2[i] # o2[j] /\ key[o2[i]] <= key[o2[j]]
  <2> DEFINE p == i + m
             q == j + m
  <2>1. p \in 1..n /\ q \in 1..n /\ p < q
    BY <1>13
  <2>2. o2[i] = order[p] /\ o2[j] = order[q]
    BY <1>4
  <2> HIDE DEF p, q
  <2> QED
    BY <1>2, <1>3, <2>1, <2>2
<1>14. Chained(new, key, o2, n - m)
  BY <1>10, <1>11, <1>12, <1>13 DEF Chained
<1> QED
  BY <1>7, <1>9, <1>14 DEF Ordered, gone, Part

-----------------------------------------------------------------------------
(* What add_time() behind order[a], add_time(), adjust_timer(),            *)
(* del_timer() and tick() make of a list.                                  *)
Untouched(new, lst, unused) ==
  \A u \in unused : new.next[u] = lst.next[u] /\ new.prev[u] = lst.prev[u]

LEMMA AddBehindOrdered ==
  ASSUME NEW nodes, Null \notin nodes,
         NEW lst, ListType(lst, nodes),
         NEW D, Null \notin D, NEW key \in [D -> Nat],
         NEW live, live \subseteq nodes, live \subseteq D,
         NEW n \in Nat, NEW order, Ordered(lst, key, live, order, n),
         NEW t \in nodes, t \in D, t \notin live,
         NEW a \in 1..n, key[order[a]] < key[t]
  PROVE  /\ ListType(AddBehind(lst, key, t, order[a]), nodes)
         /\ Untouched(AddBehind(lst, key, t, order[a]), lst, nodes \ D)
         /\ \E order2 : Ordered(AddBehind(lst, key, t, order[a]), key, live \cup {t}, order2, n + 1)
<1> DEFINE good == {p \in DOMAIN key : key[p] < key[t]}
           new == AddBehind(lst, key, t, order[a])
<1>1. order \in [1..n -> live] /\ live = {order[j] : j \in 1..n}
  BY DEF Ordered
<1>2. \A i, j \in 1..n : i # j => order[i] # order[j]
  BY OrderInjective
<1>3. /\ \A j \in 1..n : lst.next[order[j]] = IF j = n THEN Null ELSE order[j + 1]
      /\ \A i, j \in 1..n : i < j => key[order[i]] <= key[order[j]]
      /\ lst.tail = order[n]
  <2>1. n # 0
    OBVIOUS
  <2>2. Chained(lst, key, order, n)
    BY DEF Ordered
  <2>3. lst.tail = order[n]
    BY <2>1, <2>2 DEF Chained
  <2>4. \A j \in 1..n : lst.next[order[j]] = IF j = n THEN Null ELSE order[j + 1]
    BY <2>2 DEF Chained
  <2>5. \A i, j \in 1..n : i < j => key[order[i]] <= key[order[j]]
    BY <2>2 DEF Chained
  <2> QED
    BY <2>3, <2>4, <2>5
<1>4. DOMAIN key = D /\ Null \notin live
  OBVIOUS
<1>5. \A j \in 1..n : order[j] \in good <=> key[order[j]] < key[t]
  BY <1>1, <1>4
<1>6. PICK m \in a..n : /\ \A j \in a..m : key[order[j]] < key[t]
                        /\ m = n \/ ~ (key[order[m + 1]] < key[t])
  <2> DEFINE G == {j \in 1..n : key[order[j]] < key[t]}
  <2>1. a \in G
    OBVIOUS
  <2> HIDE DEF G
  <2>2. PICK m \in a..n : /\ \A j \in a..m : j \in G
                          /\ m = n \/ m + 1 \notin G
    BY <2>1, LastGood, Zenon
  <2>3. m # n => m + 1 \in 1..n
    OBVIOUS
  <2> QED
    BY <2>2, <2>3 DEF G
<1>7. LastOf(lst, Passed(lst, order[a], good)) = order[m]
  <2>1. \A j \in a..m : order[j] \in good
    <3> SUFFICES ASSUME NEW j \in a..m PROVE order[j] \in good
      OBVIOUS
    <3>1. j \in 1..n
      OBVIOUS
    <3> QED
      BY <1>5, <1>6, <3>1
  <2>2. m # n => m + 1 \in 1..n
    OBVIOUS
  <2>3. m = n \/ order[m + 1] \notin good
    BY <1>5, <1>6, <2>2
  <2>4. Null \notin good
    BY <1>4
  <2> HIDE DEF good
  <2>5. GoodUntil(order, n, good, a, m)
    BY <2>1, <2>3 DEF GoodUntil
  <2> QED
    BY <1>4, <2>4, <2>5, PassedAlong
<1> DEFINE prev == order[m]
           tmp == lst.next[prev]
<1>8. m \in 1..n /\ prev \in live /\ tmp = (IF m = n THEN Null ELSE order[m + 1])
      /\ (m # n => m + 1 \in 1..n)
  <2>1. m \in 1..n /\ (m # n => m + 1 \in 1..n)
    OBVIOUS
  <2> QED
    BY <1>1, <1>3, <2>1
<1>9. m # n => tmp \in live /\ tmp # Null /\ tmp # prev
  <2>1. m # n => order[m + 1] \in live /\ order[m + 1] # order[m]
    BY <1>1, <1>2, <1>8
  <2> QED
    BY <1>4, <1>8, <2>1
<1>10. new = IF tmp # Null
               THEN [lst EXCEPT !.next[prev] = t, !.prev[t] = prev,
                                !.prev[tmp] = t, !.next[t] = tmp]
               ELSE [lst EXCEPT !.next[t] = Null, !.prev[t] = lst.tail,
                                !.next[lst.tail] = t, !.tail = t]
  BY <1>7 DEF AddBehind
<1> HIDE DEF new, good
<1>11. /\ lst.next \in [nodes -> nodes \cup {Null}]
       /\ lst.prev \in [nodes -> nodes \cup {Null}]
       /\ lst.head \in nodes \cup {Null} /\ lst.tail \in nodes \cup {Null}
       /\ lst = [head |-> lst.head, tail |-> lst.tail, next |-> lst.next, prev |-> lst.prev]
  BY DEF ListType
<1>12. ASSUME m # n
       PROVE  /\ ListType(new, nodes)
              /\ Untouched(new, lst, nodes \ D)
              /\ new.head = lst.head /\ new.tail = lst.tail
              /\ \A u \in live \cup {t} :
                   /\ new.next[u] = IF u = prev THEN t ELSE IF u = t THEN tmp ELSE lst.next[u]
                   /\ new.prev[u] = IF u = t THEN prev ELSE IF u = tmp THEN t ELSE lst.prev[u]
  <2>1. tmp \in live /\ tmp # Null /\ prev \in live /\ tmp # prev
    BY <1>8, <1>9, <1>12
  <2>2. new = [lst EXCEPT !.next[prev] = t, !.prev[t] = prev,
                          !.prev[tmp] = t, !.next[t] = tmp]
    BY <1>10, <2>1
  <2> HIDE DEF prev, tmp
  <2>3. new = [head |-> lst.head, tail |-> lst.tail,
               next |-> [[lst.next EXCEPT ![prev] = t] EXCEPT ![t] = tmp],
               prev |-> [[lst.prev EXCEPT ![t] = prev] EXCEPT ![tmp] = t]]
    BY <1>11, <2>2
  <2>4. /\ [[lst.next EXCEPT ![prev] = t] EXCEPT ![t] = tmp] \in [nodes -> nodes \cup {Null}]
        /\ [[lst.prev EXCEPT ![t] = prev] EXCEPT ![tmp] = t] \in [nodes -> nodes \cup {Null}]
    BY <1>11, <2>1
  <2>5. ListType(new, nodes)
    BY <1>11, <2>3, <2>4 DEF ListType
  <2>6. new.head = lst.head /\ new.tail = lst.tail
    BY <2>3
  <2>7. ASSUME NEW u \in live \cup {t}
        PROVE  /\ new.next[u] = IF u = prev THEN t ELSE IF u = t THEN tmp ELSE lst.next[u]
               /\ new.prev[u] = IF u = t THEN prev ELSE IF u = tmp THEN t ELSE lst.prev[u]
    BY <1>11, <2>1, <2>3
  <2>8. Untouched(new, lst, nodes \ D)
    BY <1>11, <2>1, <2>3 DEF Untouched
  <2> QED
    BY <2>5, <2>6, <2>7, <2>8
<1>13. ASSUME m = n
       PROVE  /\ ListType(new, nodes)
              /\ Untouched(new, lst, nodes \ D)
              /\ new.head = lst.head /\ new.tail = t
              /\ \A u \in live \cup {t} :
                   /\ new.next[u] = IF u = prev THEN t ELSE IF u = t THEN tmp ELSE lst.next[u]
                   /\ new.prev[u] = IF u = t THEN prev ELSE lst.prev[u]
  <2>1. tmp = Null /\ prev = lst.tail /\ prev \in live
    BY <1>3, <1>8, <1>13
  <2>2. new = [lst EXCEPT !.next[t] = Null, !.prev[t] = prev, !.next[prev] = t, !.tail = t]
    BY <1>10, <2>1
  <2> HIDE DEF prev, tmp
  <2>3. new = [head |-> lst.head, tail |-> t,
               next |-> [[lst.next EXCEPT ![t] = Null] EXCEPT ![prev] = t],
               prev |-> [lst.prev EXCEPT ![t] = prev]]
    BY <1>11, <2>2
  <2>4. /\ [[lst.next EXCEPT ![t] = Null] EXCEPT ![prev] = t] \in [nodes -> nodes \cup {Null}]
        /\ [lst.prev EXCEPT ![t] = prev] \in [nodes -> nodes \cup {Null}]
    BY <1>11, <2>1
  <2>5. ListType(new, nodes)
    BY <1>11, <2>3, <2>4 DEF ListType
  <2>6. new.head = lst.head /\ new.tail = t
    BY <2>3
  <2>7. ASSUME NEW u \in live \cup {t}
        PROVE  /\ new.next[u] = IF u = prev THEN t ELSE IF u = t THEN tmp ELSE lst.next[u]
               /\ new.prev[u] = IF u = t THEN prev ELSE lst.prev[u]
    BY <1>11, <2>1, <2>3
  <2>8. Untouched(new, lst, nodes \ D)
    BY <1>11, <2>1, <2>3 DEF Untouched
  <2> QED
    BY <2>5, <2>6, <2>7, <2>8
<1>14. ListType(new, nodes) /\ Untouched(new, lst, nodes \ D)
  BY <1>12, <1>13
<1>15. new.head = lst.head /\ new.tail = IF m = n THEN t ELSE lst.tail
  BY <1>12, <1>13
<1>16. \A u \in live \cup {t} :
         /\ new.next[u] = IF u = order[m] THEN t
                          ELSE IF u = t THEN lst.next[order[m]] ELSE lst.next[u]
         /\ new.prev[u] = IF u = t THEN order[m]
                          ELSE IF m # n /\ u = order[m + 1] THEN t ELSE lst.prev[u]
  <2>1. m # n => tmp = order[m + 1]
    BY <1>8
  <2>2. m # n => \A u \in live \cup {t} :
         /\ new.next[u] = IF u = order[m] THEN t
                          ELSE IF u = t THEN lst.next[order[m]] ELSE lst.next[u]
         /\ new.prev[u] = IF u = t THEN order[m]
                          ELSE IF m # n /\ u = order[m + 1] THEN t ELSE lst.prev[u]
    BY <1>12, <2>1
  <2>3. m = n => \A u \in live \cup {t} :
         /\ new.next[u] = IF u = order[m] THEN t
                          ELSE IF u = t THEN lst.next[order[m]] ELSE lst.next[u]
         /\ new.prev[u] = IF u = t THEN order[m]
                          ELSE IF m # n /\ u = order[m + 1] THEN t ELSE lst.prev[u]
    BY <1>13
  <2> QED
    BY <2>2, <2>3
<1>17. \A j \in 1..n : j <= m => key[order[j]] <= key[t]
  <2> SUFFICES ASSUME NEW j \in 1..n, j <= m PROVE key[order[j]] <= key[t]
    OBVIOUS
  <2>1. key[order[j]] \in Nat /\ key[order[m]] \in Nat /\ key[t] \in Nat
    BY <1>1, <1>8
  <2>2. key[order[m]] < key[t]
    BY <1>6
  <2>3. j = m \/ key[order[j]] <= key[order[m]]
    BY <1>3, <1>8
  <2> QED
    BY <2>1, <2>2, <2>3
<1>18. \A j \in 1..n : j > m => key[t] <= key[order[j]]
  <2> SUFFICES ASSUME NEW j \in 1..n, j > m PROVE key[t] <= key[order[j]]
    OBVIOUS
  <2>1. m # n /\ m + 1 \in 1..n /\ (j = m + 1 \/ m + 1 < j)
    OBVIOUS
  <2>2. key[order[j]] \in Nat /\ key[order[m + 1]] \in Nat /\ key[t] \in Nat
    BY <1>1, <2>1
  <2>3. ~ (key[order[m + 1]] < key[t])
    BY <1>6, <2>1
  <2>4. j = m + 1 \/ key[order[m + 1]] <= key[order[j]]
    BY <1>3, <2>1
  <2> QED
    BY <2>2, <2>3, <2>4
<1>19. t # Null /\ Null \notin live
  BY <1>4
<1>20. \E order2 : Ordered(new, key, live \cup {t}, order2, n + 1)
  <2>1. Inserted(new, lst, key, live, order, n, t, m)
    BY <1>15, <1>16, <1>17, <1>18 DEF Inserted
  <2> HIDE DEF prev, tmp
  <2> QED
    BY <1>8, <1>19, <2>1, OrderedInsert
<1> QED
  BY <1>14, <1>20 DEF new

(* The order does not depend on the keys of other timers.                  *)
LEMMA OrderedKey ==
  ASSUME NEW lst, NEW key, NEW key2, NEW live, NEW n \in Nat, NEW order,
         Ordered(lst, key, live, order, n), \A u \in live : key2[u] = key[u]
  PROVE  Ordered(lst, key2, live, order, n)
<1>1. \A j \in 1..n : key2[order[j]] = key[order[j]]
  BY DEF Ordered
<1>2. Chained(lst, key2, order, n)
  BY <1>1 DEF Ordered, Chained
<1> QED
  BY <1>2 DEF Ordered

LEMMA AddTimeOrdered ==
  ASSUME NEW nodes, Null \notin nodes,
         NEW lst, ListType(lst, nodes),
         NEW D, Null \notin D, NEW key \in [D -> Nat],
         NEW live, live \subseteq nodes, live \subseteq D,
         NEW n \in Nat, NEW order, Ordered(lst, key, live, order, n),
         NEW t \in nodes, t \in D, t \notin live,
         lst.next[t] = Null, lst.prev[t] = Null
  PROVE  /\ ListType(AddTime(lst, key, t), nodes)
         /\ Untouched(AddTime(lst, key, t), lst, nodes \ D)
         /\ \E order2 : Ordered(AddTime(lst, key, t), key, live \cup {t}, order2, n + 1)
<1> DEFINE new == AddTime(lst, key, t)
<1>1. order \in [1..n -> live] /\ live = {order[j] : j \in 1..n}
  BY DEF Ordered
<1>2. /\ lst.head = IF n = 0 THEN Null ELSE order[1]
      /\ \A i, j \in 1..n : i < j => key[order[i]] <= key[order[j]]
  BY DEF Ordered, Chained
<1>3. /\ lst.next \in [nodes -> nodes \cup {Null}]
      /\ lst.prev \in [nodes -> nodes \cup {Null}]
      /\ lst.head \in nodes \cup {Null} /\ lst.tail \in nodes \cup {Null}
      /\ lst = [head |-> lst.head, tail |-> lst.tail, next |-> lst.next, prev |-> lst.prev]
  BY DEF ListType
<1>4. n # 0 => 1 \in 1..n /\ order[1] \in live /\ order[1] # Null
  <2>1. n # 0 => 1 \in 1..n
    OBVIOUS
  <2> QED
    BY <1>1, <2>1
<1>5. t # Null /\ Null \notin live
  OBVIOUS
<1>6. ASSUME n = 0
      PROVE  ListType(new, nodes) /\ Untouched(new, lst, nodes \ D)
             /\ Fronted(new, lst, key, live, order, n, t)
  <2>1. new = [head |-> t, tail |-> t, next |-> lst.next, prev |-> lst.prev]
    BY <1>2, <1>3, <1>6 DEF AddTime
  <2>2. live = {}
    BY <1>1, <1>6
  <2>3. ListType(new, nodes)
    BY <1>3, <2>1 DEF ListType
  <2>4. Untouched(new, lst, nodes \ D)
    BY <2>1 DEF Untouched
  <2>5. Fronted(new, lst, key, live, order, n, t)
    BY <1>2, <1>6, <2>1, <2>2 DEF Fronted
  <2> QED
    BY <2>3, <2>4, <2>5
<1>7. ASSUME n # 0, key[t] <= key[lst.head]
      PROVE  ListType(new, nodes) /\ Untouched(new, lst, nodes \ D)
             /\ Fronted(new, lst, key, live, order, n, t)
  <2>1. lst.head \in live /\ lst.head # Null /\ lst.head # t /\ lst.head = order[1]
    BY <1>2, <1>4, <1>7
  <2>2. new = [head |-> t, tail |-> lst.tail,
               next |-> [lst.next EXCEPT ![t] = lst.head],
               prev |-> [lst.prev EXCEPT ![lst.head] = t]]
    BY <1>3, <1>7, <2>1 DEF AddTime
  <2>3. ListType(new, nodes)
    BY <1>3, <2>1, <2>2 DEF ListType
  <2>4. Untouched(new, lst, nodes \ D)
    BY <1>3, <2>1, <2>2 DEF Untouched
  <2>5. \A u \in live \cup {t} :
          /\ new.next[u] = IF u = t THEN lst.head ELSE lst.next[u]
          /\ new.prev[u] = IF u = t THEN Null ELSE IF u = lst.head THEN t ELSE lst.prev[u]
    BY <1>3, <2>1, <2>2
  <2>6. \A j \in 1..n : key[t] <= key[order[j]]
    <3> SUFFICES ASSUME NEW j \in 1..n PROVE key[t] <= key[order[j]]
      OBVIOUS
    <3>1. key[t] \in Nat /\ key[order[1]] \in Nat /\ key[order[j]] \in Nat
      BY <1>1, <1>4, <1>7
    <3>2. j = 1 \/ key[order[1]] <= key[order[j]]
      <4>1. j = 1 \/ (1 < j /\ 1 \in 1..n)
        OBVIOUS
      <4> QED
        BY <1>2, <4>1
    <3>3. key[t] <= key[order[1]]
      BY <1>7, <2>1
    <3> QED
      BY <3>1, <3>2, <3>3
  <2>7. Fronted(new, lst, key, live, order, n, t)
    BY <1>7, <2>2, <2>5, <2>6 DEF Fronted
  <2> QED
    BY <2>3, <2>4, <2>7
<1>8. ASSUME n # 0, ~ (key[t] <= key[lst.head])
      PROVE  /\ ListType(new, nodes) /\ Untouched(new, lst, nodes \ D)
             /\ \E order2 : Ordered(new, key, live \cup {t}, order2, n + 1)
  <2>1. lst.head = order[1] /\ lst.head # Null /\ 1 \in 1..n
    BY <1>2, <1>4, <1>8
  <2>2. new = AddBehind(lst, key, t, order[1])
    BY <1>8, <2>1 DEF AddTime
  <2>3. key[t] \in Nat /\ key[order[1]] \in Nat
    BY <1>1, <2>1
  <2>4. key[order[1]] < key[t]
    BY <1>8, <2>1, <2>3
  <2> HIDE DEF new
  <2> QED
    BY <2>1, <2>2, <2>4, AddBehindOrdered
<1> HIDE DEF new
<1>9. ASSUME Fronted(new, lst, key, live, order, n, t)
      PROVE  \E order2 : Ordered(new, key, live \cup {t}, order2, n + 1)
  BY <1>5, <1>9, OrderedFront
<1>10. /\ ListType(new, nodes) /\ Untouched(new, lst, nodes \ D)
       /\ \E order2 : Ordered(new, key, live \cup {t}, order2, n + 1)
  BY <1>6, <1>7, <1>8, <1>9
<1> QED
  BY <1>10 DEF new

LEMMA DelTimerOrdered ==
  ASSUME NEW nodes, Null \notin nodes,
         NEW lst, ListType(lst, nodes),
         NEW D, NEW key \in [D -> Nat],
         NEW live, live \subseteq nodes, live \subseteq D,
         NEW n \in Nat, NEW order, Ordered(lst, key, live, order, n),
         NEW t \in live
  PROVE  /\ ListType(DelTimer(lst, t), nodes)
         /\ Untouched(DelTimer(lst, t), lst, nodes \ D)
         /\ n # 0
         /\ \E order2 : Ordered(DelTimer(lst, t), key, live \ {t}, order2, n - 1)
<1> DEFINE new == DelTimer(lst, t)
<1>1. order \in [1..n -> live] /\ live = {order[j] : j \in 1..n}
  BY DEF Ordered
<1>2. \A i, j \in 1..n : i # j => order[i] # order[j]
  BY OrderInjective
<1>3. PICK k \in 1..n : t = order[k]
  BY <1>1
<1>4. n # 0 /\ 1 \in 1..n /\ n \in 1..n
  OBVIOUS
<1>5. /\ lst.head = order[1] /\ lst.tail = order[n]
      /\ lst.next[t] = IF k = n THEN Null ELSE order[k + 1]
      /\ lst.prev[t] = IF k = 1 THEN Null ELSE order[k - 1]
  BY <1>3, <1>4 DEF Ordered, Chained
<1>6. (t = lst.head <=> k = 1) /\ (t = lst.tail <=> k = n)
  BY <1>2, <1>3, <1>4, <1>5
<1>7. /\ lst.next \in [nodes -> nodes \cup {Null}]
      /\ lst.prev \in [nodes -> nodes \cup {Null}]
      /\ lst.head \in nodes \cup {Null} /\ lst.tail \in nodes \cup {Null}
      /\ lst = [head |-> lst.head, tail |-> lst.tail, next |-> lst.next, prev |-> lst.prev]
  BY DEF ListType
<1>8. k # n => k + 1 \in 1..n /\ lst.next[t] = order[k + 1] /\ lst.next[t] \in live
  <2>1. k # n => k + 1 \in 1..n
    OBVIOUS
  <2> QED
    BY <1>1, <1>5, <2>1
<1>9. k # 1 => k - 1 \in 1..n /\ lst.prev[t] = order[k - 1] /\ lst.prev[t] \in live
  <2>1. k # 1 => k - 1 \in 1..n
    OBVIOUS
  <2> QED
    BY <1>1, <1>5, <2>1
<1> DEFINE after == lst.next[t]
           before == lst.prev[t]
<1>10. after \in nodes \cup {Null} /\ before \in nodes \cup {Null}
       /\ (k = n <=> after = Null) /\ (k = 1 <=> before = Null)
       /\ after \in live \cup {Null} /\ before \in live \cup {Null}
  BY <1>5, <1>7, <1>8, <1>9
<1>11. new = [head |-> IF k = 1 THEN (IF k = n THEN Null ELSE after) ELSE lst.head,
              tail |-> IF k = n THEN (IF k = 1 THEN Null ELSE before) ELSE lst.tail,
              next |-> IF k = 1 THEN lst.next ELSE [lst.next EXCEPT ![before] = after],
              prev |-> IF k = n THEN lst.prev ELSE [lst.prev EXCEPT ![after] = before]]
  <2>1. ASSUME k = 1, k = n
        PROVE  new = [head |-> Null, tail |-> Null, next |-> lst.next, prev |-> lst.prev]
    BY <1>6, <1>7, <2>1 DEF DelTimer
  <2>2. ASSUME k = 1, k # n
        PROVE  new = [head |-> after, tail |-> lst.tail, next |-> lst.next,
                      prev |-> [lst.prev EXCEPT ![after] = before]]
    BY <1>6, <1>7, <1>10, <2>2 DEF DelTimer
  <2>3. ASSUME k # 1, k = n
        PROVE  new = [head |-> lst.head, tail |-> before,
                      next |-> [lst.next EXCEPT ![before] = after], prev |-> lst.prev]
    BY <1>6, <1>7, <1>10, <2>3 DEF DelTimer
  <2>4. ASSUME k # 1, k # n
        PROVE  new = [head |-> lst.head, tail |-> lst.tail,
                      next |-> [lst.next EXCEPT ![before] = after],
                      prev |-> [lst.prev EXCEPT ![after] = before]]
    BY <1>6, <1>7, <2>4 DEF DelTimer
  <2> HIDE DEF new, after, before
  <2> QED
    BY <2>1, <2>2, <2>3, <2>4
<1> HIDE DEF new
<1>12. ListType(new, nodes)
  <2>1. /\ (IF k = 1 THEN lst.next ELSE [lst.next EXCEPT ![before] = after])
             \in [nodes -> nodes \cup {Null}]
        /\ (IF k = n THEN lst.prev ELSE [lst.prev EXCEPT ![after] = before])
             \in [nodes -> nodes \cup {Null}]
    BY <1>7, <1>10
  <2> QED
    BY <1>7, <1>10, <1>11, <2>1 DEF ListType
<1>13. \A u \in nodes :
         /\ new.next[u] = IF u = before THEN after ELSE lst.next[u]
         /\ new.prev[u] = IF u = after THEN before ELSE lst.prev[u]
  BY <1>7, <1>10, <1>11
<1>14. Untouched(new, lst, nodes \ D)
  BY <1>10, <1>13 DEF Untouched
<1>15. Unlinked(new, lst, live, order, n, k)
  <2>1. new.head = IF k = 1 THEN after ELSE lst.head
    BY <1>10, <1>11
  <2>2. new.tail = IF k = n THEN before ELSE lst.tail
    BY <1>10, <1>11
  <2> QED
    BY <1>3, <1>13, <2>1, <2>2 DEF Unlinked
<1>16. Null \notin live
  OBVIOUS
<1>17. \E order2 : Ordered(new, key, live \ {order[k]}, order2, n - 1)
  BY <1>15, <1>16, OrderedDelete
<1> QED
  BY <1>3, <1>4, <1>12, <1>14, <1>17 DEF new

(* The timers of live but t expire as before, t not earlier.               *)
Postponed(key, old, live, t) ==
  /\ \A u \in live : u # t => key[u] = old[u]
  /\ old[t] <= key[t]

LEMMA AdjustTimerOrdered ==
  ASSUME NEW nodes, Null \notin nodes,
         NEW lst, ListType(lst, nodes),
         NEW D, Null \notin D, NEW old \in [D -> Nat], NEW key \in [D -> Nat],
         NEW live, live \subseteq nodes, live \subseteq D,
         NEW n \in Nat, NEW order, Ordered(lst, old, live, order, n),
         NEW t \in live, Postponed(key, old, live, t)
  PROVE  /\ ListType(AdjustTimer(lst, key, t), nodes)
         /\ Untouched(AdjustTimer(lst, key, t), lst, nodes \ D)
         /\ \E order2 : Ordered(AdjustTimer(lst, key, t), key, live, order2, n)
<1> DEFINE new == AdjustTimer(lst, key, t)
           tmp == lst.next[t]
           before == lst.prev[t]
           rest == live \ {t}
<1> USE DEF Postponed
<1>1. order \in [1..n -> live] /\ live = {order[j] : j \in 1..n}
  BY DEF Ordered
<1>2. \A i, j \in 1..n : i # j => order[i] # order[j]
  BY OrderInjective
<1>3. PICK k \in 1..n : t = order[k]
  BY <1>1
<1>4. n # 0 /\ 1 \in 1..n /\ n \in 1..n
  OBVIOUS
<1>5. /\ lst.head = order[1] /\ lst.tail = order[n]
      /\ tmp = IF k = n THEN Null ELSE order[k + 1]
      /\ before = IF k = 1 THEN Null ELSE order[k - 1]
  BY <1>3, <1>4 DEF Ordered, Chained
<1>6. t = lst.head <=> k = 1
  BY <1>2, <1>3, <1>4, <1>5
<1>7. /\ lst.next \in [nodes -> nodes \cup {Null}]
      /\ lst.prev \in [nodes -> nodes \cup {Null}]
      /\ lst.head \in nodes \cup {Null} /\ lst.tail \in nodes \cup {Null}
      /\ lst = [head |-> lst.head, tail |-> lst.tail, next |-> lst.next, prev |-> lst.prev]
  BY DEF ListType
<1>8. k # n => k + 1 \in 1..n /\ tmp = order[k + 1] /\ tmp \in rest
  <2>1. k # n => k + 1 \in 1..n /\ k + 1 # k
    OBVIOUS
  <2> QED
    BY <1>1, <1>2, <1>3, <1>5, <2>1
<1>9. k # 1 => before \in rest
  <2>1. k # 1 => k - 1 \in 1..n /\ k - 1 # k
    OBVIOUS
  <2> QED
    BY <1>1, <1>2, <1>3, <1>5, <2>1
<1>10. ASSUME tmp = Null \/ key[t] <= key[tmp]
       PROVE  /\ ListType(new, nodes) /\ Untouched(new, lst, nodes \ D)
              /\ \E order2 : Ordered(new, key, live, order2, n)
  <2>1. new = lst
    BY <1>10 DEF AdjustTimer
  <2>2. \A i, j \in 1..n : i < j => old[order[i]] <= old[order[j]]
    BY DEF Ordered, Chained
  <2>3. \A j \in 1..n : order[j] \in live /\ old[order[j]] \in Nat /\ key[order[j]] \in Nat
                        /\ (j # k => key[order[j]] = old[order[j]])
    BY <1>1, <1>2, <1>3
  <2>4. ASSUME NEW i \in 1..n, NEW j \in 1..n, i < j PROVE key[order[i]] <= key[order[j]]
    <3>1. old[order[i]] <= old[order[j]]
      BY <2>2, <2>4
    <3>2. ASSUME i # k, j # k PROVE key[order[i]] <= key[order[j]]
      BY <2>3, <3>1, <3>2
    <3>3. ASSUME j = k PROVE key[order[i]] <= key[order[j]]
      <4>1. i # k /\ key[order[i]] = old[order[i]] /\ old[order[j]] <= key[order[j]]
        BY <1>3, <2>3, <2>4, <3>3
      <4> QED
        BY <2>3, <3>1, <4>1
    <3>4. ASSUME i = k PROVE key[order[i]] <= key[order[j]]
      <4>1. k # n /\ j # k /\ (j = k + 1 \/ k + 1 < j) /\ k + 1 \in 1..n /\ k + 1 # k
        BY <2>4, <3>4
      <4>2. key[t] <= key[order[k + 1]]
        BY <1>8, <1>10, <4>1
      <4>3. j = k + 1 \/ old[order[k + 1]] <= old[order[j]]
        BY <2>2, <4>1
      <4>4. key[order[k + 1]] = old[order[k + 1]] /\ key[order[j]] = old[order[j]]
        BY <2>3, <4>1
      <4>5. order[i] = t /\ key[t] \in Nat /\ key[order[j]] \in Nat /\ key[order[k + 1]] \in Nat
        BY <1>3, <2>3, <3>4, <4>1
      <4> QED
        BY <4>2, <4>3, <4>4, <4>5
    <3> QED
      BY <3>2, <3>3, <3>4
  <2>5. Chained(lst, key, order, n)
    BY <1>2, <2>4 DEF Ordered, Chained
  <2>6. Ordered(lst, key, live, order, n)
    BY <1>1, <2>5 DEF Ordered
  <2>7. Untouched(lst, lst, nodes \ D)
    BY DEF Untouched
  <2> QED
    BY <2>1, <2>6, <2>7
<1>11. ASSUME ~ (tmp = Null \/ key[t] <= key[tmp])
       PROVE  /\ ListType(new, nodes) /\ Untouched(new, lst, nodes \ D)
              /\ \E order2 : Ordered(new, key, live, order2, n)
  <2> DEFINE mid == IF k = 1
                      THEN [lst EXCEPT !.head = tmp, !.prev[tmp] = Null, !.next[t] = Null]
                      ELSE [lst EXCEPT !.next[before] = tmp, !.prev[tmp] = before,
                                       !.next[t] = Null, !.prev[t] = Null]
  <2>1. k # n
    BY <1>5, <1>11
  <2>2. new = AddBehind(mid, key, t, tmp)
    BY <1>6, <1>11 DEF AdjustTimer
  <2>3. tmp \in live /\ tmp # t /\ tmp # Null /\ tmp \in nodes /\ t \in nodes
    BY <1>8, <2>1
  <2>4. before \in nodes \cup {Null} /\ before # t /\ (k = 1 <=> before = Null)
        /\ before \in live \cup {Null}
    BY <1>5, <1>9
  <2> HIDE DEF new, tmp, before
  <2>5. ASSUME k = 1
        PROVE  /\ mid = [head |-> tmp, tail |-> lst.tail,
                         next |-> [lst.next EXCEPT ![t] = Null],
                         prev |-> [lst.prev EXCEPT ![tmp] = before]]
               /\ mid.next \in [nodes -> nodes \cup {Null}]
               /\ mid.prev \in [nodes -> nodes \cup {Null}]
    <3>1. mid = [head |-> tmp, tail |-> lst.tail,
                 next |-> [lst.next EXCEPT ![t] = Null],
                 prev |-> [lst.prev EXCEPT ![tmp] = before]]
      BY <1>7, <2>4, <2>5
    <3> QED
      BY <1>7, <2>3, <2>4, <3>1
  <2>6. ASSUME k # 1
        PROVE  /\ mid = [head |-> lst.head, tail |-> lst.tail,
                         next |-> [[lst.next EXCEPT ![before] = tmp] EXCEPT ![t] = Null],
                         prev |-> [[lst.prev EXCEPT ![tmp] = before] EXCEPT ![t] = Null]]
               /\ mid.next \in [nodes -> nodes \cup {Null}]
               /\ mid.prev \in [nodes -> nodes \cup {Null}]
    <3>1. mid = [head |-> lst.head, tail |-> lst.tail,
                 next |-> [[lst.next EXCEPT ![before] = tmp] EXCEPT ![t] = Null],
                 prev |-> [[lst.prev EXCEPT ![tmp] = before] EXCEPT ![t] = Null]]
      BY <1>7, <2>6
    <3> QED
      BY <1>7, <2>3, <2>4, <2>6, <3>1
  <2> HIDE DEF mid
  <2>7. ListType(mid, nodes)
    BY <1>7, <2>3, <2>5, <2>6 DEF ListType
  <2>8. mid.head = (IF k = 1 THEN tmp ELSE lst.head) /\ mid.tail = lst.tail
    BY <2>5, <2>6
  <2>9. \A u \in nodes \ {t} :
          /\ mid.next[u] = IF u = before THEN tmp ELSE lst.next[u]
          /\ mid.prev[u] = IF u = tmp THEN before ELSE lst.prev[u]
    <3> TAKE u \in nodes \ {t}
    <3>1. k = 1 => /\ mid.next[u] = IF u = before THEN tmp ELSE lst.next[u]
                   /\ mid.prev[u] = IF u = tmp THEN before ELSE lst.prev[u]
      BY <1>7, <2>3, <2>4, <2>5
    <3>2. k # 1 => /\ mid.next[u] = IF u = before THEN tmp ELSE lst.next[u]
                   /\ mid.prev[u] = IF u = tmp THEN before ELSE lst.prev[u]
      BY <1>7, <2>3, <2>4, <2>6
    <3> QED
      BY <3>1, <3>2
  <2>10. Untouched(mid, lst, nodes \ D)
    BY <2>3, <2>4, <2>9 DEF Untouched
  <2>11. Unlinked(mid, lst, live, order, n, k)
    <3>1. mid.head = IF k = 1 THEN lst.next[order[k]] ELSE lst.head
      BY <1>3, <2>8 DEF tmp
    <3>2. mid.tail = IF k = n THEN lst.prev[order[k]] ELSE lst.tail
      BY <2>1, <2>8
    <3>3. \A u \in live \ {order[k]} :
            /\ mid.next[u] = IF u = lst.prev[order[k]] THEN lst.next[order[k]] ELSE lst.next[u]
            /\ mid.prev[u] = IF u = lst.next[order[k]] THEN lst.prev[order[k]] ELSE lst.prev[u]
      BY <1>3, <2>9 DEF tmp, before
    <3> QED
      BY <3>1, <3>2, <3>3 DEF Unlinked
  <2>12. Null \notin live
    OBVIOUS
  <2>13. PICK order2 : Ordered(mid, old, live \ {order[k]}, order2, n - 1)
    BY <2>11, <2>12, OrderedDelete
  <2>14. Ordered(mid, old, rest, order2, n - 1) /\ n - 1 \in Nat
    BY <1>3, <2>13
  <2>15. Ordered(mid, key, rest, order2, n - 1)
    <3>1. \A u \in rest : key[u] = old[u]
      OBVIOUS
    <3> HIDE DEF rest
    <3> QED
      BY <2>14, <3>1, OrderedKey
  <2>16. PICK a \in 1..(n - 1) : tmp = order2[a]
    <3>1. rest = {order2[j] : j \in 1..(n - 1)}
      BY <2>15 DEF Ordered
    <3>2. tmp \in rest
      BY <2>3
    <3> QED
      BY <3>1, <3>2
  <2>17. key[order2[a]] < key[t]
    <3>1. key[tmp] \in Nat /\ key[t] \in Nat
      BY <2>3
    <3> QED
      BY <1>11, <2>3, <2>16, <3>1
  <2>18. /\ rest \subseteq nodes /\ rest \subseteq D /\ t \notin rest /\ t \in nodes /\ t \in D
         /\ rest \cup {t} = live /\ (n - 1) + 1 = n
    OBVIOUS
  <2> HIDE DEF rest
  <2> DEFINE b == n - 1
  <2>19. b \in Nat /\ a \in 1..b /\ Ordered(mid, key, rest, order2, b) /\ b + 1 = n
    BY <2>14, <2>15, <2>18
  <2> HIDE DEF b
  <2>20. /\ ListType(AddBehind(mid, key, t, order2[a]), nodes)
         /\ Untouched(AddBehind(mid, key, t, order2[a]), mid, nodes \ D)
         /\ \E order3 : Ordered(AddBehind(mid, key, t, order2[a]), key, rest \cup {t}, order3, b + 1)
    BY <2>7, <2>17, <2>18, <2>19, AddBehindOrdered
  <2>21. /\ ListType(new, nodes)
         /\ Untouched(new, mid, nodes \ D)
         /\ \E order3 : Ordered(new, key, live, order3, n)
    BY <2>2, <2>16, <2>18, <2>19, <2>20
  <2>22. Untouched(new, lst, nodes \ D)
    BY <2>10, <2>21 DEF Untouched
  <2> QED
    BY <2>21, <2>22
<1> QED
  BY <1>10, <1>11

(* There is such an order, of at most most timers.                         *)
HasOrder(lst, key, live, most) ==
  \E n \in 0..most : \E order : Ordered(lst, key, live, order, n)

LEMMA AfterTickOrdered ==
  ASSUME NEW nodes, Null \notin nodes,
         NEW lst, ListType(lst, nodes),
         NEW D, Null \notin D, NEW key \in [D -> Nat],
         NEW live, live \subseteq nodes, live \subseteq D,
         NEW n \in Nat, NEW order, Ordered(lst, key, live, order, n),
         NEW now0 \in Nat
  PROVE  LET tick == AfterTick(lst, key, now0)
         IN /\ ListType(tick.lst, nodes)
            /\ Untouched(tick.lst, lst, nodes \ D)
            /\ tick.fired \subseteq live
            /\ \A u \in live \ tick.fired : key[u] > now0
            /\ HasOrder(tick.lst, key, live \ tick.fired, n)
<1> DEFINE good == {p \in DOMAIN key : key[p] <= now0}
           fired == Passed(lst, lst.head, good)
           rest == IF fired = {} THEN lst.head ELSE lst.next[LastOf(lst, fired)]
           new == [lst EXCEPT
                     !.head = rest,
                     !.tail = IF rest = Null THEN Null ELSE @,
                     !.prev = [p \in DOMAIN @ |->
                                 IF \E q \in fired : lst.next[q] = p THEN Null ELSE @[p]]]
<1>1. AfterTick(lst, key, now0).fired = fired /\ AfterTick(lst, key, now0).lst = new
  BY DEF AfterTick
<1>2. order \in [1..n -> live] /\ live = {order[j] : j \in 1..n}
  BY DEF Ordered
<1>3. \A i, j \in 1..n : i # j => order[i] # order[j]
  BY OrderInjective
<1>4. /\ lst.head = IF n = 0 THEN Null ELSE order[1]
      /\ lst.tail = IF n = 0 THEN Null ELSE order[n]
      /\ \A j \in 1..n : lst.next[order[j]] = IF j = n THEN Null ELSE order[j + 1]
      /\ \A i, j \in 1..n : i < j => key[order[i]] <= key[order[j]]
  BY DEF Ordered, Chained
<1>5. /\ lst.next \in [nodes -> nodes \cup {Null}]
      /\ lst.prev \in [nodes -> nodes \cup {Null}]
      /\ lst.head \in nodes \cup {Null} /\ lst.tail \in nodes \cup {Null}
      /\ lst = [head |-> lst.head, tail |-> lst.tail, next |-> lst.next, prev |-> lst.prev]
  BY DEF ListType
<1>6. DOMAIN key = D /\ Null \notin live /\ good \subseteq D /\ Null \notin good
  OBVIOUS
<1>7. \A j \in 1..n : order[j] \in live /\ key[order[j]] \in Nat
                      /\ (order[j] \in good <=> key[order[j]] <= now0)
  BY <1>2, <1>6
<1> HIDE DEF good
<1>8. new = [head |-> rest, tail |-> IF rest = Null THEN Null ELSE lst.tail,
             next |-> lst.next,
             prev |-> [p \in nodes |->
                         IF \E q \in fired : lst.next[q] = p THEN Null ELSE lst.prev[p]]]
  <2> HIDE DEF fired, rest
  <2> DEFINE pv == [p \in DOMAIN lst.prev |->
                      IF \E q \in fired : lst.next[q] = p THEN Null ELSE lst.prev[p]]
  <2>1. new = [lst EXCEPT !.head = rest, !.tail = IF rest = Null THEN Null ELSE lst.tail,
                          !.prev = pv]
    OBVIOUS
  <2>2. pv = [p \in nodes |->
                IF \E q \in fired : lst.next[q] = p THEN Null ELSE lst.prev[p]]
    BY <1>5
  <2> HIDE DEF pv, new
  <2>3. new = [head |-> rest, tail |-> IF rest = Null THEN Null ELSE lst.tail,
               next |-> lst.next, prev |-> pv]
    BY <1>5, <2>1
  <2> QED
    BY <2>2, <2>3
<1>9. ASSUME n = 0 \/ order[1] \notin good
      PROVE  fired = {} /\ new = lst /\ \A u \in live : key[u] > now0
  <2>1. lst.head \notin good
    BY <1>4, <1>6, <1>9
  <2>2. fired = {}
    <3>1. {} \in SUBSET good
      OBVIOUS
    <3> QED
      BY <2>1, <3>1 DEF Passed
  <2>3. rest = lst.head /\ (rest = Null => lst.tail = Null)
    <3>1. n # 0 => order[1] # Null
      <4>1. n # 0 => 1 \in 1..n
        OBVIOUS
      <4> QED
        BY <1>6, <1>7, <4>1
    <3> QED
      BY <1>4, <2>2, <3>1
  <2>4. [p \in nodes |-> IF \E q \in fired : lst.next[q] = p THEN Null ELSE lst.prev[p]] = lst.prev
    BY <1>5, <2>2
  <2> HIDE DEF fired, rest
  <2>5. new = lst
    BY <1>5, <1>8, <2>3, <2>4
  <2>6. ASSUME NEW u \in live PROVE key[u] > now0
    <3>1. PICK j \in 1..n : u = order[j]
      BY <1>2
    <3>2. n # 0 /\ 1 \in 1..n /\ (j = 1 \/ 1 < j)
      OBVIOUS
    <3>3. key[order[1]] \in Nat /\ key[order[j]] \in Nat /\ ~ (key[order[1]] <= now0)
      BY <1>7, <1>9, <3>2
    <3>4. j = 1 \/ key[order[1]] <= key[order[j]]
      BY <1>4, <3>2
    <3> QED
      BY <3>1, <3>3, <3>4
  <2> QED
    BY <2>2, <2>5, <2>6
<1>10. ASSUME ~ (n = 0 \/ order[1] \notin good)
       PROVE  /\ ListType(new, nodes)
              /\ Untouched(new, lst, nodes \ D)
              /\ fired \subseteq live
              /\ \A u \in live \ fired : key[u] > now0
              /\ HasOrder(new, key, live \ fired, n)
  <2>1. n # 0 /\ 1 \in 1..n /\ lst.head = order[1] /\ order[1] \in good
    BY <1>4, <1>10
  <2>2. PICK m \in 1..n : /\ \A j \in 1..m : order[j] \in good
                          /\ m = n \/ order[m + 1] \notin good
    <3> DEFINE G == {j \in 1..n : order[j] \in good}
    <3>1. 1 \in G
      BY <2>1
    <3> HIDE DEF G
    <3>2. PICK m \in 1..n : /\ \A j \in 1..m : j \in G
                            /\ m = n \/ m + 1 \notin G
      BY <2>1, <3>1, LastGood, Zenon
    <3>3. m # n => m + 1 \in 1..n
      OBVIOUS
    <3> QED
      BY <3>2, <3>3 DEF G
  <2>3. GoodUntil(order, n, good, 1, m)
    BY <2>2 DEF GoodUntil
  <2>4. /\ Passed(lst, order[1], good) = Part(order, 1, m)
        /\ LastOf(lst, Passed(lst, order[1], good)) = order[m]
    BY <1>6, <2>1, <2>3, PassedAlong
  <2>5. fired = Part(order, 1, m) /\ LastOf(lst, fired) = order[m]
    BY <2>1, <2>4
  <2> HIDE DEF fired
  <2>6. order[m] \in fired
    <3>1. m \in 1..m
      OBVIOUS
    <3> QED
      BY <2>5, <3>1 DEF Part
  <2>7. rest = lst.next[order[m]] /\ rest = IF m = n THEN Null ELSE order[m + 1]
    BY <1>4, <2>5, <2>6
  <2>8. rest = Null <=> m = n
    <3>1. m # n => m + 1 \in 1..n
      OBVIOUS
    <3>2. m # n => order[m + 1] # Null
      BY <1>6, <1>7, <3>1
    <3> QED
      BY <2>7, <3>2
  <2>9. rest \in nodes \cup {Null}
    BY <1>5, <1>7, <2>7
  <2>10. \A u \in nodes :
           new.prev[u] = IF \E q \in fired : lst.next[q] = u THEN Null ELSE lst.prev[u]
    BY <1>8
  <2>11. new.next = lst.next /\ new.head = rest
         /\ new.tail = IF m = n THEN Null ELSE lst.tail
    BY <1>8, <2>8
  <2>12. ListType(new, nodes)
    <3>1. [p \in nodes |-> IF \E q \in fired : lst.next[q] = p THEN Null ELSE lst.prev[p]]
            \in [nodes -> nodes \cup {Null}]
      BY <1>5
    <3> HIDE DEF rest
    <3> QED
      BY <1>5, <1>8, <2>9, <3>1 DEF ListType
  <2> HIDE DEF new, rest
  <2>13. fired \subseteq live
    <3>1. \A j \in 1..m : j \in 1..n
      OBVIOUS
    <3> QED
      BY <1>7, <2>5, <3>1 DEF Part
  <2>14. \A j \in 1..n : order[j] \in fired <=> j <= m
    <3> TAKE j \in 1..n
    <3>1. ASSUME j <= m PROVE order[j] \in fired
      <4>1. j \in 1..m
        BY <3>1
      <4> QED
        BY <2>5, <4>1 DEF Part
    <3>2. ASSUME order[j] \in fired PROVE j <= m
      <4>1. PICK i \in 1..m : order[j] = order[i]
        BY <2>5, <3>2 DEF Part
      <4>2. i \in 1..n
        OBVIOUS
      <4>3. i = j
        BY <1>3, <4>1, <4>2
      <4> QED
        BY <4>3
    <3> QED
      BY <3>1, <3>2
  <2>15. ASSUME NEW q \in fired
         PROVE  lst.next[q] \in live \cup {Null}
    <3>1. PICK i \in 1..n : q = order[i]
      BY <1>2, <2>13
    <3>2. i # n => i + 1 \in 1..n
      OBVIOUS
    <3> QED
      BY <1>4, <1>7, <3>1, <3>2
  <2>16. Untouched(new, lst, nodes \ D)
    BY <2>10, <2>11, <2>15 DEF Untouched
  <2>17. \A u \in live \ fired : key[u] > now0
    <3> SUFFICES ASSUME NEW u \in live \ fired PROVE key[u] > now0
      OBVIOUS
    <3>1. PICK j \in 1..n : u = order[j]
      BY <1>2
    <3>2. ~ (j <= m)
      BY <2>14, <3>1
    <3>3. m # n /\ m + 1 \in 1..n /\ (j = m + 1 \/ m + 1 < j)
      BY <3>2
    <3>4. key[order[m + 1]] \in Nat /\ key[order[j]] \in Nat /\ ~ (key[order[m + 1]] <= now0)
      BY <1>7, <2>2, <3>3
    <3>5. j = m + 1 \/ key[order[m + 1]] <= key[order[j]]
      BY <1>4, <3>3
    <3> QED
      BY <3>1, <3>4, <3>5
  <2>18. Shortened(new, lst, order, n, m)
    <3> SUFFICES ASSUME NEW j \in 1..n, j > m
                 PROVE  new.prev[order[j]] = IF j = m + 1 THEN Null ELSE lst.prev[order[j]]
      BY <2>7, <2>11 DEF Shortened
    <3>1. new.prev[order[j]] = IF \E q \in fired : lst.next[q] = order[j]
                                 THEN Null ELSE lst.prev[order[j]]
      BY <1>7, <2>10
    <3>2. ASSUME j = m + 1 PROVE \E q \in fired : lst.next[q] = order[j]
      <4>1. m # n
        BY <3>2
      <4> QED
        BY <1>4, <2>6, <3>2, <4>1
    <3>3. ASSUME NEW q \in fired, lst.next[q] = order[j] PROVE j = m + 1
      <4>1. PICK i \in 1..n : q = order[i]
        BY <1>2, <2>13
      <4>2. i <= m
        BY <2>14, <4>1
      <4>3. i # n /\ i + 1 \in 1..n
        BY <4>2
      <4>4. order[j] = order[i + 1]
        BY <1>4, <3>3, <4>1, <4>3
      <4>5. j = i + 1
        BY <1>3, <4>3, <4>4
      <4> QED
        BY <4>2, <4>5
    <3> QED
      BY <3>1, <3>2, <3>3
  <2>19. \E order2 : Ordered(new, key, live \ Part(order, 1, m), order2, n - m)
    BY <1>6, <2>18, OrderedDrop
  <2>20. n - m \in 0..n
    OBVIOUS
  <2> QED
    BY <2>5, <2>12, <2>13, <2>16, <2>17, <2>19, <2>20 DEF HasOrder
<1>11. ASSUME n = 0 \/ order[1] \notin good
       PROVE  /\ ListType(new, nodes)
              /\ Untouched(new, lst, nodes \ D)
              /\ fired \subseteq live
              /\ \A u \in live \ fired : key[u] > now0
              /\ HasOrder(new, key, live \ fired, n)
  <2>1. fired = {} /\ new = lst /\ \A u \in live : key[u] > now0
    BY <1>9, <1>11
  <2>2. live \ fired = live
    BY <2>1
  <2>3. Untouched(lst, lst, nodes \ D)
    BY DEF Untouched
  <2>4. n \in 0..n
    OBVIOUS
  <2> HIDE DEF new, fired
  <2> QED
    BY <2>1, <2>2, <2>3, <2>4 DEF HasOrder
<1> HIDE DEF new, fired
<1> QED
  BY <1>1, <1>10, <1>11

-----------------------------------------------------------------------------
Kernels == [open : BOOLEAN, edge : BOOLEAN, input : 0..MaxInput, gone : BOOLEAN]

TypeInv ==
  /\ kernel \in [Fds -> Kernels]
  /\ listening \in [backlog : Nat, edge : BOOLEAN, total : 0..MaxAccepts]
  /\ signals \in [pending : SUBSET {"alrm", "term"}, alarm : BOOLEAN]
  /\ now \in Nat
  /\ timer \in [Fds -> Timers \cup {Null}]
  /\ expire \in Seq(Nat) /\ owner \in Seq(Fds) /\ Len(owner) = Len(expire)
  /\ deleted \subseteq 1..Len(expire)
  /\ ghosts \in [stale : BOOLEAN, broken : BOOLEAN]

Free == {g \in Fds : ~kernel[g].open}

(* Whoever waits for accept() will find a descriptor and a timer.          *)
BacklogInv ==
  /\ Len(expire) + listening.backlog = listening.total
  /\ listening.edge => listening.backlog >= 1
  /\ <<"accept", NoFd>> \in batch => listening.backlog >= 1
  /\ listening.edge /\ <<"accept", NoFd>> \in batch => listening.backlog >= 2
  /\ Cardinality(Free) >= listening.backlog

(* The list has an order, and timers not yet created have no neighbours.   *)
ListInv ==
  /\ ListType(timer_lst, Timers)
  /\ \A u \in Timers \ (1..Len(expire)) :
       timer_lst.next[u] = Null /\ timer_lst.prev[u] = Null
  /\ \E n \in 0..Len(expire) : \E order \in [1..n -> Live] :
       Ordered(timer_lst, expire, Live, order, n)

(* A timer only ever moves into the future.                                *)
ExpireInv == \A t \in 1..Len(expire) : expire[t] <= now + Lifetime

OwnerInv ==
  /\ \A t \in Live : kernel[owner[t]].open /\ timer[owner[t]] = t
  /\ \A f \in Fds : IF kernel[f].open THEN timer[f] \in Live /\ owner[timer[f]] = f
                    ELSE timer[f] \in deleted \cup {Null}

(* An event stands for a connection that was made, and that is still open  *)
(* unless a timeout has closed it since.                                   *)
BatchInv ==
  /\ \A f \in Fds : kernel[f].edge => kernel[f].open
  /\ \A f \in Fds : <<"data", f>> \in batch =>
       timer[f] # Null /\ (kernel[f].open \/ ghosts.stale)
  /\ ghosts.broken => ghosts.stale

CheckerInv == TypeInv /\ BacklogInv /\ ListInv /\ ExpireInv /\ OwnerInv /\ BatchInv

LEMMA Basics ==
  ASSUME TypeInv, BacklogInv
  PROVE  /\ Null \notin Timers /\ Null \notin 1..Len(expire)
         /\ Len(expire) \in Nat /\ expire \in [1..Len(expire) -> Nat]
         /\ owner \in [1..Len(expire) -> Fds]
         /\ 1..Len(expire) \subseteq Timers
         /\ Live \subseteq 1..Len(expire) /\ Live \subseteq Timers
         /\ listening.backlog \in 0..MaxAccepts
         /\ listening.total \in 0..MaxAccepts
         /\ MaxAccepts \in Nat /\ Lifetime \in Nat /\ MaxInput \in Nat
         /\ IsFiniteSet(Free) /\ Cardinality(Free) \in Nat
<1>1. Null \notin Timers /\ Null \notin 1..Len(expire)
  BY DEF Null, Timers
<1>2. Len(expire) \in Nat /\ expire \in [1..Len(expire) -> Nat]
  BY DEF TypeInv
<1>3. owner \in [1..Len(expire) -> Fds]
  BY DEF TypeInv
<1>4. MaxAccepts \in Nat /\ Lifetime \in Nat /\ MaxInput \in Nat
  BY TimeCheckerAssumption
<1>5. listening.backlog \in Nat /\ listening.total \in 0..MaxAccepts
  BY DEF TypeInv
<1>6. Len(expire) <= MaxAccepts /\ listening.backlog \in 0..MaxAccepts
  <2> DEFINE l == Len(expire)
             b == listening.backlog
             c == listening.total
  <2>1. l \in Nat /\ b \in Nat /\ c \in 0..MaxAccepts /\ l + b = c
    BY <1>2, <1>5 DEF BacklogInv
  <2> HIDE DEF l, b, c
  <2>2. l <= MaxAccepts /\ b \in 0..MaxAccepts
    BY <1>4, <2>1
  <2> QED
    BY <2>2 DEF l, b
<1>7. 1..Len(expire) \subseteq Timers
  BY <1>2, <1>4, <1>6 DEF Timers
<1>8. Live \subseteq 1..Len(expire)
  BY DEF Live
<1>9. IsFiniteSet(Free)
  BY FS_Subset, TimeCheckerAssumption DEF Free
<1>10. Cardinality(Free) \in Nat
  BY <1>9, FS_CardinalityType
<1> QED
  BY <1>1, <1>2, <1>3, <1>4, <1>5, <1>6, <1>7, <1>8, <1>9, <1>10

LEMMA InitInv == Init => CheckerInv
<1> SUFFICES ASSUME Init PROVE CheckerInv
  OBVIOUS
<1> USE DEF Init
<1>1. expire = <<>> /\ Len(expire) = 0 /\ 1..Len(expire) = {} /\ Live = {}
  BY DEF Live
<1>2. TypeInv
  <2>1. 0 \in 0..MaxInput /\ 0 \in 0..MaxAccepts
    BY TimeCheckerAssumption
  <2>2. kernel \in [Fds -> Kernels]
    BY <2>1 DEF Kernels, Closed
  <2>3. listening \in [backlog : Nat, edge : BOOLEAN, total : 0..MaxAccepts]
    BY <2>1
  <2>4. expire \in Seq(Nat) /\ owner \in Seq(Fds) /\ Len(owner) = Len(expire)
    OBVIOUS
  <2> QED
    BY <1>1, <2>2, <2>3, <2>4 DEF TypeInv
<1>3. BacklogInv
  <2>1. IsFiniteSet(Free) /\ Cardinality(Free) \in Nat
    BY FS_Subset, FS_CardinalityType, TimeCheckerAssumption DEF Free
  <2> QED
    BY <1>1, <2>1 DEF BacklogInv
<1>4. ListInv
  <2> DEFINE o == [k \in 1..0 |-> k]
  <2>1. ListType(timer_lst, Timers)
    BY DEF ListType, EmptyList
  <2>2. \A u \in Timers : timer_lst.next[u] = Null /\ timer_lst.prev[u] = Null
    BY DEF EmptyList
  <2>3. 1..0 = {}
    OBVIOUS
  <2>4. o \in [1..0 -> Live]
    BY <2>3
  <2>5. Live = {o[k] : k \in 1..0}
    BY <1>1, <2>3
  <2>6. Chained(timer_lst, expire, o, 0)
    <3> HIDE DEF o
    <3>1. timer_lst.head = Null /\ timer_lst.tail = Null
      BY DEF EmptyList
    <3> QED
      BY <2>3, <3>1 DEF Chained
  <2>7. Ordered(timer_lst, expire, Live, o, 0)
    BY <2>4, <2>5, <2>6 DEF Ordered
  <2>8. 0 \in 0..Len(expire)
    BY <1>1
  <2> HIDE DEF o
  <2> QED
    BY <2>1, <2>2, <2>4, <2>7, <2>8 DEF ListInv
<1>5. ExpireInv
  BY <1>1 DEF ExpireInv
<1>6. OwnerInv
  BY <1>1 DEF OwnerInv, Closed
<1>7. BatchInv
  BY DEF BatchInv, Closed
<1> QED
  BY <1>2, <1>3, <1>4, <1>5, <1>6, <1>7 DEF CheckerInv

-----------------------------------------------------------------------------
(* The operations of the list, for the list of the server.                 *)
LEMMA ListUnchanged ==
  ASSUME ListInv, UNCHANGED <<timer_lst, expire, deleted>>
  PROVE  ListInv'
BY DEF ListInv, Live

LEMMA OwnerUnchanged ==
  ASSUME OwnerInv, UNCHANGED <<timers>>,
         \A f \in Fds : kernel'[f].open = kernel[f].open,
         owner \in [1..Len(expire) -> Fds]
  PROVE  OwnerInv'
<1>1. Live' = Live /\ timer' = timer /\ owner' = owner /\ deleted' = deleted
  BY DEF Live, timers
<1>2. \A t \in Live : owner[t] \in Fds
  BY DEF Live
<1> QED
  BY <1>1, <1>2 DEF OwnerInv

LEMMA ConnectKeeps == CheckerInv /\ Connect => CheckerInv'
<1> SUFFICES ASSUME CheckerInv, Connect PROVE CheckerInv'
  OBVIOUS
<1> USE DEF CheckerInv
<1>1. /\ Null \notin Timers /\ Len(expire) \in Nat /\ listening.backlog \in 0..MaxAccepts
      /\ listening.total \in 0..MaxAccepts /\ MaxAccepts \in Nat
      /\ Cardinality(Free) \in Nat /\ owner \in [1..Len(expire) -> Fds]
  BY Basics
<1>2. UNCHANGED <<kernel, signals, now, batch, stop, timer, timer_lst, expire, owner,
                  deleted, ghosts>>
  BY DEF Connect, timers
<1>3. /\ listening' = [backlog |-> listening.backlog + 1, edge |-> TRUE,
                       total |-> listening.total + 1]
      /\ listening.total < MaxAccepts
      /\ Cardinality(Free) > listening.backlog
  BY DEF Connect, Free
<1>4. TypeInv'
  <2>1. listening' \in [backlog : Nat, edge : BOOLEAN, total : 0..MaxAccepts]
    BY <1>1, <1>3
  <2> QED
    BY <1>2, <2>1 DEF TypeInv
<1>5. BacklogInv'
  <2>1. Free' = Free
    BY <1>2 DEF Free
  <2>2. /\ listening'.backlog = listening.backlog + 1
        /\ listening'.total = listening.total + 1
    BY <1>3
  <2>3. <<"accept", NoFd>> \in batch => listening.backlog >= 1
    BY DEF BacklogInv
  <2>4. Len(expire) + listening.backlog = listening.total
    BY DEF BacklogInv
  <2> DEFINE l == Len(expire)
             b == listening.backlog
             c == listening.total
             d == Cardinality(Free)
  <2>5. l \in Nat /\ b \in Nat /\ c \in Nat /\ d \in Nat /\ l + b = c /\ d > b
    BY <1>1, <1>3, <2>4
  <2>6. /\ l' = l /\ listening'.backlog = b + 1 /\ listening'.total = c + 1
        /\ Cardinality(Free') = d
    BY <1>2, <2>1, <2>2
  <2> HIDE DEF l, b, c, d
  <2>7. l + (b + 1) = c + 1 /\ b + 1 >= 1 /\ (b >= 1 => b + 1 >= 2) /\ d >= b + 1
    BY <2>5
  <2> QED
    BY <1>2, <2>3, <2>6, <2>7 DEF BacklogInv, l, b
<1>6. ListInv'
  BY <1>2, ListUnchanged
<1>7. ExpireInv'
  BY <1>2 DEF ExpireInv
<1>8. OwnerInv'
  BY <1>1, <1>2, OwnerUnchanged DEF timers
<1>9. BatchInv'
  BY <1>2 DEF BatchInv
<1> QED
  BY <1>4, <1>5, <1>6, <1>7, <1>8, <1>9

(* Steps that leave descriptors open or closed, and the timers alone.      *)
LEMMA OutsideKeeps ==
  ASSUME CheckerInv, UNCHANGED timers,
         TypeInv',
         \A f \in Fds : kernel'[f].open = kernel[f].open,
         \A f \in Fds : kernel'[f].edge => kernel[f].open,
         now <= now',
         batch' \subseteq batch, UNCHANGED listening,
         ghosts'.broken => ghosts'.stale, ghosts.stale => ghosts'.stale
  PROVE  CheckerInv'
<1> USE DEF CheckerInv
<1>1. owner \in [1..Len(expire) -> Fds]
  BY Basics
<1>2. UNCHANGED <<timer, timer_lst, expire, owner, deleted>>
  BY DEF timers
<1>3. BacklogInv'
  <2>1. Free' = Free
    BY DEF Free
  <2> QED
    BY <1>2, <2>1 DEF BacklogInv
<1>4. ListInv'
  BY <1>2, ListUnchanged
<1>5. ExpireInv'
  <2> SUFFICES ASSUME NEW t \in 1..Len(expire) PROVE expire[t] <= now' + Lifetime
    BY <1>2 DEF ExpireInv
  <2>1. expire[t] \in Nat /\ now \in Nat /\ now' \in Nat /\ Lifetime \in Nat
    BY Basics DEF TypeInv
  <2>2. expire[t] <= now + Lifetime
    BY DEF ExpireInv
  <2> QED
    BY <2>1, <2>2
<1>6. OwnerInv'
  BY <1>1, OwnerUnchanged
<1>7. BatchInv'
  BY <1>2 DEF BatchInv
<1> QED
  BY <1>3, <1>4, <1>5, <1>6, <1>7

LEMMA ClientActsKeeps ==
  ASSUME CheckerInv, NEW f \in Fds, ClientActs(f)
  PROVE  CheckerInv'
<1> USE DEF CheckerInv
<1>1. UNCHANGED <<listening, signals, now, batch, stop, timers, ghosts>> /\ kernel[f].open
  BY DEF ClientActs
<1>2. kernel \in [Fds -> Kernels] /\ MaxInput \in Nat
  BY Basics DEF TypeInv
<1>3. kernel' \in [Fds -> Kernels] /\ \A g \in Fds : g # f => kernel'[g] = kernel[g]
  <2>1. ASSUME kernel[f].input < MaxInput,
               kernel' = [kernel EXCEPT ![f].input = @ + 1, ![f].edge = TRUE]
        PROVE  kernel' \in [Fds -> Kernels] /\ \A g \in Fds : g # f => kernel'[g] = kernel[g]
    <3>1. kernel[f].input + 1 \in 0..MaxInput
      BY <1>2, <2>1 DEF Kernels
    <3> QED
      BY <1>2, <2>1, <3>1 DEF Kernels
  <2>2. ASSUME kernel' = [kernel EXCEPT ![f].gone = TRUE, ![f].edge = TRUE]
        PROVE  kernel' \in [Fds -> Kernels] /\ \A g \in Fds : g # f => kernel'[g] = kernel[g]
    BY <1>2, <2>2 DEF Kernels
  <2> QED
    BY <2>1, <2>2 DEF ClientActs
<1>4. kernel'[f].open = kernel[f].open
  BY <1>2 DEF ClientActs, Kernels
<1>5. TypeInv'
  BY <1>1, <1>3 DEF TypeInv, timers
<1>6. \A g \in Fds : kernel'[g].edge => kernel[g].open
  BY <1>1, <1>3 DEF BatchInv
<1>7. \A g \in Fds : kernel'[g].open = kernel[g].open
  BY <1>3, <1>4
<1>8. now <= now' /\ batch' \subseteq batch /\ (ghosts'.broken => ghosts'.stale)
      /\ (ghosts.stale => ghosts'.stale)
  BY <1>1 DEF TypeInv, BatchInv
<1> HIDE DEF CheckerInv
<1> QED
  BY <1>1, <1>5, <1>6, <1>7, <1>8, OutsideKeeps

LEMMA PassKeeps == CheckerInv /\ Pass => CheckerInv'
<1> SUFFICES ASSUME CheckerInv, Pass PROVE CheckerInv'
  OBVIOUS
<1> USE DEF CheckerInv
<1>1. UNCHANGED <<kernel, listening, batch, stop, timers, ghosts>> /\ now' = now + 1
  BY DEF Pass
<1>2. now' \in Nat /\ now <= now'
  BY <1>1 DEF TypeInv
<1>3. signals' \in [pending : SUBSET {"alrm", "term"}, alarm : BOOLEAN]
  BY DEF TypeInv, Pass
<1>4. TypeInv'
  BY <1>1, <1>2, <1>3 DEF TypeInv, timers
<1>5. \A f \in Fds : kernel'[f].edge => kernel[f].open
  BY <1>1 DEF BatchInv
<1>6. ghosts'.broken => ghosts'.stale
  BY <1>1 DEF BatchInv
<1> HIDE DEF CheckerInv
<1> QED
  BY <1>1, <1>2, <1>4, <1>5, <1>6, OutsideKeeps

LEMMA TerminateKeeps == CheckerInv /\ Terminate => CheckerInv'
<1> SUFFICES ASSUME CheckerInv, Terminate PROVE CheckerInv'
  OBVIOUS
<1> USE DEF CheckerInv
<1>1. UNCHANGED <<kernel, listening, now, batch, stop, timers, ghosts>>
  BY DEF Terminate
<1>2. now <= now'
  BY <1>1 DEF TypeInv
<1>3. signals' \in [pending : SUBSET {"alrm", "term"}, alarm : BOOLEAN]
  BY DEF TypeInv, Terminate
<1>4. TypeInv'
  BY <1>1, <1>3 DEF TypeInv, timers
<1>5. \A f \in Fds : kernel'[f].edge => kernel[f].open
  BY <1>1 DEF BatchInv
<1>6. ghosts'.broken => ghosts'.stale
  BY <1>1 DEF BatchInv
<1> HIDE DEF CheckerInv
<1> QED
  BY <1>1, <1>2, <1>4, <1>5, <1>6, OutsideKeeps

LEMMA EpollWaitKeeps == CheckerInv /\ EpollWait => CheckerInv'
<1> SUFFICES ASSUME CheckerInv, EpollWait PROVE CheckerInv'
  OBVIOUS
<1> USE DEF CheckerInv
<1>1. /\ kernel' = [f \in Fds |-> [kernel[f] EXCEPT !.edge = FALSE]]
      /\ listening' = [listening EXCEPT !.edge = FALSE]
      /\ ghosts' = [ghosts EXCEPT !.stale = FALSE] /\ ~ghosts.broken
      /\ UNCHANGED <<signals, now, stop, timer, timer_lst, expire, owner, deleted>>
      /\ batch' = {<<"data", f>> : f \in {g \in Fds : kernel[g].edge}}
                    \cup (IF listening.edge THEN {<<"accept", NoFd>>} ELSE {})
                    \cup (IF signals.pending # {} THEN {<<"signal", NoFd>>} ELSE {})
  BY DEF EpollWait, timers
<1>2. kernel \in [Fds -> Kernels] /\ owner \in [1..Len(expire) -> Fds]
  BY Basics DEF TypeInv
<1>3. \A f \in Fds : kernel'[f].open = kernel[f].open /\ ~kernel'[f].edge
  BY <1>1, <1>2 DEF Kernels
<1>4. /\ listening'.backlog = listening.backlog /\ listening'.total = listening.total
      /\ ~listening'.edge
      /\ listening' \in [backlog : Nat, edge : BOOLEAN, total : 0..MaxAccepts]
      /\ ghosts' \in [stale : BOOLEAN, broken : BOOLEAN] /\ ~ghosts'.broken
  BY <1>1 DEF TypeInv
<1>5. TypeInv'
  <2>1. kernel' \in [Fds -> Kernels]
    BY <1>1, <1>2 DEF Kernels
  <2> QED
    BY <1>1, <1>4, <2>1 DEF TypeInv
<1>6. BacklogInv'
  <2>1. Free' = Free
    BY <1>3 DEF Free
  <2>2. <<"accept", NoFd>> \in batch' => listening.edge
    BY <1>1
  <2> QED
    BY <1>1, <1>4, <2>1, <2>2 DEF BacklogInv
<1>7. ListInv'
  BY <1>1, ListUnchanged
<1>8. ExpireInv'
  BY <1>1 DEF ExpireInv
<1>9. OwnerInv'
  BY <1>1, <1>2, <1>3, OwnerUnchanged DEF timers
<1>10. BatchInv'
  <2> SUFFICES ASSUME NEW f \in Fds, <<"data", f>> \in batch'
               PROVE  timer[f] # Null /\ kernel[f].open
    BY <1>1, <1>3, <1>4 DEF BatchInv
  <2>1. kernel[f].edge
    BY <1>1
  <2>2. kernel[f].open
    BY <2>1 DEF BatchInv
  <2>3. timer[f] \in Live /\ Null \notin Live
    BY <2>2, Basics DEF OwnerInv
  <2> QED
    BY <2>2, <2>3
<1> QED
  BY <1>5, <1>6, <1>7, <1>8, <1>9, <1>10

LEMMA AcceptKeeps == CheckerInv /\ Accept => CheckerInv'
<1> SUFFICES ASSUME CheckerInv, Accept PROVE CheckerInv'
  OBVIOUS
<1> USE DEF CheckerInv
<1> DEFINE f == Min(Free)
           l == Len(expire)
           t == l + 1
<1>1. /\ <<"accept", NoFd>> \in batch /\ batch' = batch \ {<<"accept", NoFd>>}
      /\ listening' = [listening EXCEPT !.backlog = @ - 1]
      /\ kernel' = [kernel EXCEPT ![f].open = TRUE]
      /\ expire' = Append(expire, now + Lifetime)
      /\ owner' = Append(owner, f)
      /\ timer_lst' = AddTime(timer_lst, expire', t)
      /\ timer' = [timer EXCEPT ![f] = t]
      /\ UNCHANGED <<signals, now, stop, deleted, ghosts>>
  BY DEF Accept, Handled, Free
<1>2. /\ Null \notin Timers /\ Null \notin 1..l /\ l \in Nat
      /\ expire \in [1..l -> Nat] /\ owner \in [1..l -> Fds]
      /\ 1..l \subseteq Timers /\ Live \subseteq 1..l /\ Live \subseteq Timers
      /\ listening.backlog \in 0..MaxAccepts
      /\ listening.total \in 0..MaxAccepts
      /\ MaxAccepts \in Nat /\ Lifetime \in Nat
      /\ IsFiniteSet(Free) /\ Cardinality(Free) \in Nat
  BY Basics
<1>3. TypeInv
  OBVIOUS
<1>4. listening.backlog >= 1 /\ listening.backlog \in 1..MaxAccepts
      /\ l + listening.backlog = listening.total
  BY <1>1, <1>2 DEF BacklogInv
<1>5. f \in Free
  <2>1. Free # {}
    BY <1>2, <1>4, FS_EmptySet DEF BacklogInv
  <2>2. Free \subseteq Nat
    BY TimeCheckerAssumption DEF Free
  <2>3. \E x \in Free : \A y \in Free : x <= y
    BY <2>1, <2>2, Least
  <2> QED
    BY <2>3 DEF Min
<1>6. f \in Fds /\ ~kernel[f].open
  BY <1>5 DEF Free
<1> HIDE DEF f
<1>7. t \in Timers /\ t \notin 1..l /\ t # Null /\ t \in 1..t
  BY <1>2, <1>4 DEF Timers, Null
<1>8. Len(expire') = t /\ Len(owner') = t /\ expire' \in Seq(Nat) /\ owner' \in Seq(Fds)
      /\ expire' \in [1..t -> Nat]
  <2>1. expire \in Seq(Nat) /\ owner \in Seq(Fds) /\ Len(owner) = Len(expire) /\ now \in Nat
    BY <1>3 DEF TypeInv
  <2>2. now + Lifetime \in Nat
    BY <1>2, <2>1
  <2>3. expire' \in Seq(Nat) /\ Len(expire') = t
    BY <1>1, <2>1, <2>2
  <2>4. owner' \in Seq(Fds) /\ Len(owner') = t
    BY <1>1, <1>6, <2>1
  <2>5. expire' \in [1..t -> Nat]
    BY <2>3
  <2> QED
    BY <2>3, <2>4, <2>5
<1>9. /\ \A u \in 1..l : expire'[u] = expire[u] /\ owner'[u] = owner[u]
      /\ expire'[t] = now + Lifetime /\ owner'[t] = f
  <2>1. expire \in Seq(Nat) /\ owner \in Seq(Fds) /\ Len(owner) = Len(expire) /\ now \in Nat
    BY <1>3 DEF TypeInv
  <2>2. now + Lifetime \in Nat
    BY <1>2, <2>1
  <2>3. (\A u \in 1..l : expire'[u] = expire[u]) /\ expire'[t] = now + Lifetime
    BY <1>1, <2>1, <2>2
  <2>4. (\A u \in 1..l : owner'[u] = owner[u]) /\ owner'[t] = f
    BY <1>1, <1>6, <2>1
  <2> QED
    BY <2>3, <2>4
<1>10. Live' = Live \cup {t}
  <2>1. deleted \subseteq 1..l
    BY <1>3 DEF TypeInv
  <2>2. 1..t = 1..l \cup {t}
    BY <1>2
  <2> QED
    BY <1>1, <1>7, <1>8, <2>1, <2>2 DEF Live
<1>11. /\ kernel \in [Fds -> Kernels]
       /\ kernel'[f].open /\ \A g \in Fds : g # f => kernel'[g] = kernel[g]
       /\ kernel'[f].edge = kernel[f].edge
       /\ kernel' \in [Fds -> Kernels]
  BY <1>1, <1>3, <1>6 DEF TypeInv, Kernels
<1>12. /\ listening'.backlog = listening.backlog - 1 /\ listening'.total = listening.total
       /\ listening'.edge = listening.edge
       /\ listening' \in [backlog : Nat, edge : BOOLEAN, total : 0..MaxAccepts]
  <2>1. listening \in [backlog : Nat, edge : BOOLEAN, total : 0..MaxAccepts]
    BY <1>3 DEF TypeInv
  <2>2. listening.backlog - 1 \in Nat
    BY <1>4
  <2> QED
    BY <1>1, <2>1, <2>2
<1>13. /\ timer'[f] = t /\ \A g \in Fds : g # f => timer'[g] = timer[g]
       /\ timer' \in [Fds -> Timers \cup {Null}]
  BY <1>1, <1>3, <1>6, <1>7 DEF TypeInv
<1>14. TypeInv'
  <2>1. deleted' \subseteq 1..Len(expire')
    BY <1>1, <1>2, <1>3, <1>8 DEF TypeInv
  <2> QED
    BY <1>1, <1>3, <1>8, <1>11, <1>12, <1>13, <2>1 DEF TypeInv
<1>15. BacklogInv'
  <2>1. Free' = Free \ {f}
    BY <1>5, <1>11 DEF Free
  <2>2. Cardinality(Free') = Cardinality(Free) - 1
    BY <1>2, <1>5, <2>1, FS_RemoveElement
  <2>3. Cardinality(Free) >= listening.backlog
    BY DEF BacklogInv
  <2>4. listening.edge => listening.backlog >= 2
    BY <1>1 DEF BacklogInv
  <2> DEFINE b == listening.backlog
             c == listening.total
             d == Cardinality(Free)
             x == listening'.backlog
             y == Cardinality(Free')
  <2>5. b \in Nat /\ d \in Nat /\ l + b = c /\ d >= b /\ x = b - 1 /\ y = d - 1
        /\ (listening.edge => b >= 2) /\ l \in Nat
    BY <1>2, <1>4, <1>12, <2>2, <2>3, <2>4
  <2>6. listening'.total = c /\ <<"accept", NoFd>> \notin batch' /\ listening'.edge = listening.edge
    BY <1>1, <1>12
  <2> HIDE DEF b, c, d, x, y, l
  <2>7. t + x = c /\ (listening.edge => x >= 1) /\ y >= x
    BY <2>5
  <2> QED
    BY <1>8, <2>6, <2>7 DEF BacklogInv, x, y
<1>16. ListInv'
  <2>1. PICK n \in 0..l : \E order \in [1..n -> Live] :
          Ordered(timer_lst, expire, Live, order, n)
    BY DEF ListInv
  <2>2. PICK order : Ordered(timer_lst, expire, Live, order, n)
    BY <2>1
  <2>3. Ordered(timer_lst, expire', Live, order, n) /\ n \in Nat /\ t \notin Live
    <3>1. \A u \in Live : expire'[u] = expire[u]
      BY <1>2, <1>9
    <3>2. n \in Nat /\ t \notin Live
      BY <1>2, <1>7
    <3> QED
      BY <2>2, <3>1, <3>2, OrderedKey
  <2>4. ListType(timer_lst, Timers) /\ timer_lst.next[t] = Null /\ timer_lst.prev[t] = Null
    BY <1>7 DEF ListInv
  <2>5. Live \subseteq 1..t /\ Null \notin 1..t
    BY <1>2, <1>7 DEF Null
  <2> DEFINE new == AddTime(timer_lst, expire', t)
             D == 1..t
  <2>6. /\ expire' \in [D -> Nat] /\ Live \subseteq D /\ Null \notin D /\ t \in D
    BY <1>7, <1>8, <2>5
  <2> HIDE DEF D, t, l
  <2>7. /\ ListType(new, Timers)
        /\ Untouched(new, timer_lst, Timers \ D)
        /\ \E order2 : Ordered(new, expire', Live \cup {t}, order2, n + 1)
    BY <1>2, <1>7, <2>3, <2>4, <2>6, AddTimeOrdered
  <2> USE DEF t, l
  <2>8. \A u \in Timers \ (1..t) : new.next[u] = Null /\ new.prev[u] = Null
    <3>1. \A u \in Timers \ (1..t) : u \in Timers \ (1..l)
      BY <1>2
    <3> QED
      BY <2>7, <3>1 DEF Untouched, ListInv, D
  <2>9. n + 1 \in 0..t
    BY <1>2
  <2>10. PICK order2 : Ordered(new, expire', Live \cup {t}, order2, n + 1)
    BY <2>7
  <2>11. order2 \in [1..(n + 1) -> Live \cup {t}]
    BY <2>10 DEF Ordered
  <2> HIDE DEF new
  <2>12. timer_lst' = new
    BY <1>1 DEF new
  <2> QED
    BY <1>8, <1>10, <2>7, <2>8, <2>9, <2>10, <2>11, <2>12 DEF ListInv
<1>17. ExpireInv'
  <2>1. now' = now /\ now \in Nat
    BY <1>1, <1>3 DEF TypeInv
  <2>2. \A u \in 1..t : u \in 1..l \/ u = t
    BY <1>2
  <2>3. ASSUME NEW u \in 1..t PROVE expire'[u] <= now + Lifetime
    <3>1. u \in 1..l => expire'[u] <= now + Lifetime
      BY <1>9 DEF ExpireInv
    <3>2. now + Lifetime <= now + Lifetime
      BY <1>2, <2>1
    <3> QED
      BY <1>9, <2>2, <3>1, <3>2
  <2> QED
    BY <1>8, <2>1, <2>3 DEF ExpireInv
<1>18. OwnerInv'
  <2>1. ASSUME NEW u \in Live'
        PROVE  kernel'[owner'[u]].open /\ timer'[owner'[u]] = u
    <3>1. ASSUME u = t PROVE kernel'[owner'[u]].open /\ timer'[owner'[u]] = u
      BY <1>9, <1>11, <1>13, <3>1
    <3>2. ASSUME u # t PROVE kernel'[owner'[u]].open /\ timer'[owner'[u]] = u
      <4>1. u \in Live /\ u \in 1..l /\ owner'[u] = owner[u] /\ owner[u] \in Fds
        BY <1>2, <1>9, <1>10, <3>2
      <4>2. kernel[owner[u]].open /\ timer[owner[u]] = u
        BY <4>1 DEF OwnerInv
      <4>3. owner[u] # f
        BY <1>6, <4>2
      <4> QED
        BY <1>11, <1>13, <4>1, <4>2, <4>3
    <3> QED
      BY <3>1, <3>2
  <2>2. ASSUME NEW g \in Fds
        PROVE  IF kernel'[g].open THEN timer'[g] \in Live' /\ owner'[timer'[g]] = g
               ELSE timer'[g] \in deleted' \cup {Null}
    <3>1. g = f => kernel'[g].open /\ timer'[g] \in Live' /\ owner'[timer'[g]] = g
      BY <1>9, <1>10, <1>11, <1>13
    <3>2. ASSUME g # f
          PROVE  IF kernel'[g].open THEN timer'[g] \in Live' /\ owner'[timer'[g]] = g
                 ELSE timer'[g] \in deleted' \cup {Null}
      <4>1. kernel'[g] = kernel[g] /\ timer'[g] = timer[g] /\ deleted' = deleted
        BY <1>1, <1>11, <1>13, <3>2
      <4>2. kernel[g].open => timer[g] \in Live /\ owner[timer[g]] = g
        BY DEF OwnerInv
      <4>3. kernel[g].open => timer[g] \in Live' /\ owner'[timer[g]] = g
        BY <1>2, <1>9, <1>10, <4>2
      <4>4. ~kernel[g].open => timer[g] \in deleted \cup {Null}
        BY DEF OwnerInv
      <4> QED
        BY <4>1, <4>3, <4>4
    <3> QED
      BY <3>1, <3>2
  <2> QED
    BY <2>1, <2>2 DEF OwnerInv
<1>19. BatchInv'
  <2>1. \A g \in Fds : kernel'[g].edge => kernel'[g].open
    BY <1>11 DEF BatchInv
  <2>2. ASSUME NEW g \in Fds, <<"data", g>> \in batch'
        PROVE  timer'[g] # Null /\ (kernel'[g].open \/ ghosts'.stale)
    <3>1. <<"data", g>> \in batch /\ ghosts' = ghosts
      BY <1>1, <2>2
    <3>2. timer[g] # Null /\ (kernel[g].open \/ ghosts.stale)
      BY <3>1 DEF BatchInv
    <3> QED
      BY <1>7, <1>11, <1>13, <3>1, <3>2
  <2>3. ghosts'.broken => ghosts'.stale
    BY <1>1 DEF BatchInv
  <2> QED
    BY <2>1, <2>2, <2>3 DEF BatchInv
<1> QED
  BY <1>14, <1>15, <1>16, <1>17, <1>18, <1>19

(* What tick() leaves in the list has not expired.                         *)
LEMMA SignalFires ==
  ASSUME CheckerInv, Signal, "alrm" \in signals.pending
  PROVE  \A u \in (1..Len(expire)) \ deleted' : expire[u] > now
<1> USE DEF CheckerInv
<1>1. /\ Null \notin Timers /\ Null \notin 1..Len(expire)
      /\ expire \in [1..Len(expire) -> Nat]
      /\ Live \subseteq 1..Len(expire) /\ Live \subseteq Timers
  BY Basics
<1> DEFINE tick == AfterTick(timer_lst, expire, now)
           D == 1..Len(expire)
<1>2. deleted' = deleted \cup tick.fired
  BY DEF Signal
<1>3. PICK n \in 0..Len(expire) : \E order \in [1..n -> Live] :
        Ordered(timer_lst, expire, Live, order, n)
  BY DEF ListInv
<1>4. PICK order : Ordered(timer_lst, expire, Live, order, n)
  BY <1>3
<1>5. ListType(timer_lst, Timers) /\ now \in Nat /\ n \in Nat
  BY DEF ListInv, TypeInv
<1>6. Null \notin D /\ expire \in [D -> Nat] /\ Live \subseteq D
  BY <1>1
<1> HIDE DEF D
<1>7. \A u \in Live \ AfterTick(timer_lst, expire, now).fired : expire[u] > now
  BY <1>1, <1>4, <1>5, <1>6, AfterTickOrdered
<1> HIDE DEF tick
<1>8. (1..Len(expire)) \ deleted' = Live \ tick.fired
  BY <1>2 DEF Live
<1> QED
  BY <1>7, <1>8 DEF tick

LEMMA TickKeeps ==
  ASSUME CheckerInv, Signal, "alrm" \in signals.pending
  PROVE  CheckerInv'
<1> USE DEF CheckerInv
<1> DEFINE tick == AfterTick(timer_lst, expire, now)
           hit == {owner[t] : t \in tick.fired}
           D == 1..Len(expire)
<1>1. /\ <<"signal", NoFd>> \in batch /\ batch' = batch \ {<<"signal", NoFd>>}
      /\ timer_lst' = tick.lst
      /\ deleted' = deleted \cup tick.fired
      /\ kernel' = [f \in Fds |-> IF f \in hit THEN Closed ELSE kernel[f]]
      /\ signals' = [pending |-> {}, alarm |-> TRUE]
      /\ ghosts' = [ghosts EXCEPT !.stale = @ \/ \E f \in hit : <<"data", f>> \in batch]
      /\ UNCHANGED <<listening, now, timer, expire, owner>>
  BY DEF Signal, Handled
<1>2. /\ Null \notin Timers /\ Null \notin 1..Len(expire)
      /\ expire \in [1..Len(expire) -> Nat] /\ owner \in [1..Len(expire) -> Fds]
      /\ 1..Len(expire) \subseteq Timers /\ Len(expire) \in Nat
      /\ Live \subseteq 1..Len(expire) /\ Live \subseteq Timers
      /\ listening.backlog \in 0..MaxAccepts
      /\ IsFiniteSet(Free) /\ Cardinality(Free) \in Nat
  BY Basics
<1>3. TypeInv
  OBVIOUS
<1>4. PICK n \in 0..Len(expire) : \E order \in [1..n -> Live] :
        Ordered(timer_lst, expire, Live, order, n)
  BY DEF ListInv
<1>5. PICK order : Ordered(timer_lst, expire, Live, order, n)
  BY <1>4
<1>6. ListType(timer_lst, Timers) /\ now \in Nat /\ n \in Nat
  BY <1>3 DEF ListInv, TypeInv
<1>7. Null \notin D /\ expire \in [D -> Nat] /\ Live \subseteq D
  BY <1>2
<1> HIDE DEF D
<1>8. /\ ListType(tick.lst, Timers)
      /\ Untouched(tick.lst, timer_lst, Timers \ D)
      /\ tick.fired \subseteq Live
      /\ HasOrder(tick.lst, expire, Live \ tick.fired, n)
  <2>1. /\ ListType(tick.lst, Timers)
        /\ Untouched(tick.lst, timer_lst, Timers \ D)
        /\ tick.fired \subseteq Live
    BY <1>2, <1>5, <1>6, <1>7, AfterTickOrdered
  <2>2. HasOrder(tick.lst, expire, Live \ tick.fired, n)
    BY <1>2, <1>5, <1>6, <1>7, AfterTickOrdered
  <2> QED
    BY <2>1, <2>2
<1> HIDE DEF tick
<1>9. Live' = Live \ tick.fired
  BY <1>1 DEF Live
<1>10. /\ kernel \in [Fds -> Kernels]
       /\ \A f \in Fds : IF f \in hit THEN kernel'[f] = Closed ELSE kernel'[f] = kernel[f]
       /\ kernel' \in [Fds -> Kernels]
  <2>1. Closed \in Kernels
    BY TimeCheckerAssumption DEF Closed, Kernels
  <2>2. kernel \in [Fds -> Kernels]
    BY <1>3 DEF TypeInv
  <2> HIDE DEF hit
  <2> QED
    BY <1>1, <2>1, <2>2
<1>11. \A t \in tick.fired : t \in Live /\ owner[t] \in hit /\ owner[t] \in Fds
  BY <1>2, <1>8
<1>12. \A f \in hit : \E t \in Live : t \in tick.fired /\ f = owner[t]
                                      /\ timer[f] = t /\ kernel[f].open
  BY <1>11 DEF OwnerInv
<1> HIDE DEF hit
<1>13. ghosts' \in [stale : BOOLEAN, broken : BOOLEAN] /\ ghosts'.broken = ghosts.broken
       /\ (ghosts.stale => ghosts'.stale)
       /\ ((\E f \in hit : <<"data", f>> \in batch) => ghosts'.stale)
  <2>1. ghosts \in [stale : BOOLEAN, broken : BOOLEAN]
    BY <1>3 DEF TypeInv
  <2> DEFINE B == \E f \in hit : <<"data", f>> \in batch
  <2>2. B \in BOOLEAN /\ (ghosts.stale \/ B) \in BOOLEAN
    OBVIOUS
  <2>3. ghosts' = [ghosts EXCEPT !.stale = ghosts.stale \/ B]
    BY <1>1
  <2> HIDE DEF B
  <2>4. ghosts' \in [stale : BOOLEAN, broken : BOOLEAN] /\ ghosts'.broken = ghosts.broken
        /\ ghosts'.stale = (ghosts.stale \/ B)
    BY <2>1, <2>2, <2>3
  <2> QED
    BY <2>4 DEF B
<1>14. TypeInv'
  <2>1. deleted' \subseteq 1..Len(expire')
    BY <1>1, <1>2, <1>3, <1>8 DEF TypeInv
  <2>2. signals' \in [pending : SUBSET {"alrm", "term"}, alarm : BOOLEAN]
    BY <1>1
  <2> QED
    BY <1>1, <1>3, <1>10, <1>13, <2>1, <2>2 DEF TypeInv
<1>15. BacklogInv'
  <2>1. Free \subseteq Free' /\ IsFiniteSet(Free')
    <3>1. \A f \in Fds : ~kernel[f].open => ~kernel'[f].open
      BY <1>10 DEF Closed
    <3>2. Free \subseteq Free'
      BY <3>1 DEF Free
    <3>3. Free' \subseteq Fds
      BY DEF Free
    <3> QED
      BY <3>2, <3>3, FS_Subset, TimeCheckerAssumption
  <2>2. Cardinality(Free) <= Cardinality(Free') /\ Cardinality(Free') \in Nat
    BY <2>1, FS_Subset, FS_CardinalityType
  <2>3. Cardinality(Free) >= listening.backlog
    BY DEF BacklogInv
  <2>4. Cardinality(Free') >= listening.backlog
    BY <1>2, <2>2, <2>3
  <2>5. <<"accept", NoFd>> \in batch' => <<"accept", NoFd>> \in batch
    BY <1>1
  <2> QED
    BY <1>1, <2>4, <2>5 DEF BacklogInv
<1>16. ListInv'
  <2>1. PICK m \in 0..n : \E order2 : Ordered(tick.lst, expire, Live', order2, m)
    BY <1>8, <1>9 DEF HasOrder
  <2>2. PICK order2 : Ordered(tick.lst, expire, Live', order2, m)
    BY <2>1
  <2>3. order2 \in [1..m -> Live'] /\ m \in 0..Len(expire)
    BY <2>2 DEF Ordered
  <2>4. \A u \in Timers \ (1..Len(expire)) : tick.lst.next[u] = Null /\ tick.lst.prev[u] = Null
    BY <1>8 DEF Untouched, ListInv, D
  <2> QED
    BY <1>1, <1>8, <2>2, <2>3, <2>4 DEF ListInv
<1>17. ExpireInv'
  BY <1>1 DEF ExpireInv
<1>18. OwnerInv'
  <2>1. ASSUME NEW u \in Live' PROVE kernel'[owner'[u]].open /\ timer'[owner'[u]] = u
    <3>1. u \in Live /\ u \notin tick.fired
      BY <1>9
    <3>2. kernel[owner[u]].open /\ timer[owner[u]] = u /\ owner[u] \in Fds
      BY <1>2, <3>1 DEF OwnerInv
    <3>3. owner[u] \notin hit
      BY <1>12, <3>1, <3>2
    <3> QED
      BY <1>1, <1>10, <3>2, <3>3
  <2>2. ASSUME NEW g \in Fds
        PROVE  IF kernel'[g].open THEN timer'[g] \in Live' /\ owner'[timer'[g]] = g
               ELSE timer'[g] \in deleted' \cup {Null}
    <3>1. ASSUME g \in hit PROVE ~kernel'[g].open /\ timer'[g] \in deleted'
      <4>1. timer[g] \in tick.fired
        BY <1>12, <3>1
      <4> QED
        BY <1>1, <1>10, <3>1, <4>1 DEF Closed
    <3>2. ASSUME g \notin hit
          PROVE  IF kernel'[g].open THEN timer'[g] \in Live' /\ owner'[timer'[g]] = g
                 ELSE timer'[g] \in deleted' \cup {Null}
      <4>1. kernel'[g] = kernel[g] /\ timer' = timer /\ owner' = owner
        BY <1>1, <1>10, <3>2
      <4>2. kernel[g].open => timer[g] \in Live /\ owner[timer[g]] = g
        BY DEF OwnerInv
      <4>3. kernel[g].open => timer[g] \notin tick.fired
        BY <1>11, <3>2, <4>2
      <4>4. ~kernel[g].open => timer[g] \in deleted \cup {Null}
        BY DEF OwnerInv
      <4> QED
        BY <1>1, <1>9, <4>1, <4>2, <4>3, <4>4
    <3> QED
      BY <3>1, <3>2
  <2> QED
    BY <2>1, <2>2 DEF OwnerInv
<1>19. BatchInv'
  <2>1. \A g \in Fds : kernel'[g].edge => kernel'[g].open
    BY <1>10 DEF BatchInv, Closed
  <2>2. ASSUME NEW g \in Fds, <<"data", g>> \in batch'
        PROVE  timer'[g] # Null /\ (kernel'[g].open \/ ghosts'.stale)
    <3>1. <<"data", g>> \in batch /\ timer' = timer
      BY <1>1, <2>2
    <3>2. timer[g] # Null /\ (kernel[g].open \/ ghosts.stale)
      BY <3>1 DEF BatchInv
    <3> QED
      BY <1>10, <1>13, <3>1, <3>2
  <2>3. ghosts'.broken => ghosts'.stale
    BY <1>13 DEF BatchInv
  <2> QED
    BY <2>1, <2>2, <2>3 DEF BatchInv
<1> QED
  BY <1>14, <1>15, <1>16, <1>17, <1>18, <1>19

LEMMA SignalKeeps == CheckerInv /\ Signal => CheckerInv'
<1> SUFFICES ASSUME CheckerInv, Signal PROVE CheckerInv'
  OBVIOUS
<1>1. ASSUME "alrm" \in signals.pending PROVE CheckerInv'
  BY <1>1, TickKeeps
<1>2. ASSUME "alrm" \notin signals.pending PROVE CheckerInv'
  <2>1. /\ batch' \subseteq batch
        /\ signals' = [signals EXCEPT !.pending = {}]
        /\ UNCHANGED <<listening, now, timers, kernel, ghosts>>
    BY <1>2 DEF Signal, Handled, timers
  <2> USE DEF CheckerInv
  <2>2. now <= now'
    BY <2>1 DEF TypeInv
  <2>3. signals' \in [pending : SUBSET {"alrm", "term"}, alarm : BOOLEAN]
    BY <2>1 DEF TypeInv
  <2>4. TypeInv'
    BY <2>1, <2>3 DEF TypeInv, timers
  <2>5. \A f \in Fds : kernel'[f].edge => kernel[f].open
    BY <2>1 DEF BatchInv
  <2>6. ghosts'.broken => ghosts'.stale
    BY <2>1 DEF BatchInv
  <2> HIDE DEF CheckerInv
  <2> QED
    BY <2>1, <2>2, <2>4, <2>5, <2>6, OutsideKeeps
<1> QED
  BY <1>1, <1>2

LEMMA ReadKeeps ==
  ASSUME CheckerInv, NEW f \in Fds, Handled(<<"data", f>>),
         Reads(f), timer[f] \notin deleted,
         kernel' = [kernel EXCEPT ![f].input = @ - 1],
         expire' = [expire EXCEPT ![timer[f]] = now + Lifetime],
         timer_lst' = AdjustTimer(timer_lst, expire', timer[f]),
         UNCHANGED <<deleted, ghosts, listening, signals, now, stop, timer, owner>>
  PROVE  CheckerInv'
<1> USE DEF CheckerInv
<1> DEFINE t == timer[f]
           l == Len(expire)
           D == 1..l
<1>1. batch' \subseteq batch
  BY DEF Handled
<1>2. /\ Null \notin Timers /\ Null \notin 1..l /\ l \in Nat
      /\ expire \in [1..l -> Nat] /\ owner \in [1..l -> Fds]
      /\ Live \subseteq 1..l /\ Live \subseteq Timers
      /\ Lifetime \in Nat /\ MaxInput \in Nat
  BY Basics
<1>3. TypeInv /\ now \in Nat /\ kernel \in [Fds -> Kernels] /\ expire \in Seq(Nat)
  BY DEF TypeInv
<1>4. kernel[f].open /\ kernel[f].input > 0
  BY DEF Reads
<1>5. t \in Live
  BY <1>4 DEF OwnerInv
<1>6. /\ kernel' \in [Fds -> Kernels]
      /\ \A g \in Fds : kernel'[g].open = kernel[g].open /\ kernel'[g].edge = kernel[g].edge
  <2>1. kernel[f].input - 1 \in 0..MaxInput
    <3>1. kernel[f].input \in 0..MaxInput
      BY <1>3 DEF Kernels
    <3> QED
      BY <1>2, <1>4, <3>1
  <2> QED
    BY <1>3, <2>1 DEF Kernels
<1>7. now + Lifetime \in Nat
  BY <1>2, <1>3
<1>8. /\ expire' \in Seq(Nat) /\ Len(expire') = l /\ expire' \in [1..l -> Nat]
      /\ expire'[t] = now + Lifetime /\ \A u \in 1..l : u # t => expire'[u] = expire[u]
  <2> HIDE DEF t
  <2>1. expire' = [expire EXCEPT ![t] = now + Lifetime]
    BY DEF t
  <2>2. t \in 1..l
    BY <1>2, <1>5
  <2>3. expire' \in Seq(Nat) /\ Len(expire') = l
    <3>1. PICK e \in Nat : e = now + Lifetime
      BY <1>7
    <3>2. PICK i \in 1..Len(expire) : i = t
      BY <2>2
    <3>3. /\ [expire EXCEPT ![i] = e] \in Seq(Nat)
          /\ Len([expire EXCEPT ![i] = e]) = Len(expire)
      BY <1>3, ExceptSeq
    <3>4. expire' = [expire EXCEPT ![i] = e]
      BY <2>1, <3>1, <3>2
    <3> QED
      BY <3>3, <3>4
  <2>4. expire' \in [1..l -> Nat]
    BY <1>2, <1>7, <2>1
  <2> QED
    BY <1>2, <2>1, <2>2, <2>3, <2>4
<1>9. Live' = Live
  BY <1>8 DEF Live
<1>10. TypeInv'
  BY <1>3, <1>6, <1>8 DEF TypeInv
<1>11. BacklogInv'
  <2>1. Free' = Free
    BY <1>6 DEF Free
  <2> QED
    BY <1>1, <1>8, <2>1 DEF BacklogInv
<1>12. ListInv'
  <2>1. PICK n \in 0..l : \E order \in [1..n -> Live] :
          Ordered(timer_lst, expire, Live, order, n)
    BY DEF ListInv
  <2>2. PICK order : Ordered(timer_lst, expire, Live, order, n)
    BY <2>1
  <2>3. ListType(timer_lst, Timers) /\ n \in Nat
    BY DEF ListInv
  <2>4. expire[t] <= expire'[t]
    BY <1>2, <1>5, <1>8 DEF ExpireInv
  <2>5. /\ Null \notin D /\ expire \in [D -> Nat] /\ expire' \in [D -> Nat]
        /\ Live \subseteq D
    BY <1>2, <1>8
  <2>6. \A u \in Live : u # t => expire'[u] = expire[u]
    BY <1>2, <1>8
  <2>7. Postponed(expire', expire, Live, t)
    BY <2>4, <2>6 DEF Postponed
  <2> HIDE DEF D, l, t
  <2> DEFINE new == AdjustTimer(timer_lst, expire', t)
  <2>8. /\ ListType(new, Timers)
        /\ Untouched(new, timer_lst, Timers \ D)
        /\ \E order2 : Ordered(new, expire', Live, order2, n)
    BY <1>2, <1>5, <2>2, <2>3, <2>5, <2>7, AdjustTimerOrdered
  <2>9. timer_lst' = new
    BY DEF t
  <2>10. /\ ListType(timer_lst', Timers)
        /\ Untouched(timer_lst', timer_lst, Timers \ D)
        /\ \E order2 : Ordered(timer_lst', expire', Live, order2, n)
    BY <2>8, <2>9
  <2>11. Len(expire') = Len(expire)
    BY <1>8 DEF l
  <2>12. \A u \in Timers \ (1..Len(expire)) :
           timer_lst'.next[u] = Null /\ timer_lst'.prev[u] = Null
    BY <2>10 DEF Untouched, ListInv, D, l
  <2>13. PICK order2 : Ordered(timer_lst', expire', Live, order2, n)
    BY <2>10
  <2>14. order2 \in [1..n -> Live'] /\ Ordered(timer_lst', expire', Live', order2, n)
    BY <1>9, <2>13 DEF Ordered
  <2>15. n \in 0..Len(expire')
    BY <2>1, <2>11 DEF l
  <2>16. \A u \in Timers \ (1..Len(expire')) :
           timer_lst'.next[u] = Null /\ timer_lst'.prev[u] = Null
    <3>1. Timers \ (1..Len(expire')) = Timers \ (1..Len(expire))
      BY <2>11
    <3> QED
      BY <2>12, <3>1
  <2> QED
    BY <2>10, <2>14, <2>15, <2>16 DEF ListInv
<1>13. ExpireInv'
  <2> SUFFICES ASSUME NEW u \in 1..l PROVE expire'[u] <= now + Lifetime
    BY <1>8 DEF ExpireInv
  <2>1. u # t => expire'[u] <= now + Lifetime
    BY <1>8 DEF ExpireInv
  <2> QED
    BY <1>7, <1>8, <2>1
<1>14. OwnerInv'
  <2>1. \A u \in Live : owner[u] \in Fds
    BY <1>2
  <2> QED
    BY <1>6, <1>9, <2>1 DEF OwnerInv
<1>15. BatchInv'
  BY <1>1, <1>6 DEF BatchInv
<1> QED
  BY <1>10, <1>11, <1>12, <1>13, <1>14, <1>15

LEMMA CloseKeeps ==
  ASSUME CheckerInv, NEW f \in Fds, Handled(<<"data", f>>),
         timer[f] \notin deleted, Close(f),
         UNCHANGED <<listening, signals, now, stop, timer, owner>>
  PROVE  CheckerInv'
<1> USE DEF CheckerInv
<1> DEFINE t == timer[f]
           D == 1..Len(expire)
<1>1. /\ <<"data", f>> \in batch /\ batch' = batch \ {<<"data", f>>}
      /\ kernel' = [kernel EXCEPT ![f] = Closed]
      /\ timer_lst' = DelTimer(timer_lst, t)
      /\ deleted' = deleted \cup {t}
      /\ UNCHANGED <<expire, ghosts>>
  BY DEF Handled, Close
<1>2. /\ Null \notin Timers /\ Null \notin 1..Len(expire) /\ Len(expire) \in Nat
      /\ expire \in [1..Len(expire) -> Nat] /\ owner \in [1..Len(expire) -> Fds]
      /\ 1..Len(expire) \subseteq Timers
      /\ Live \subseteq 1..Len(expire) /\ Live \subseteq Timers
      /\ listening.backlog \in 0..MaxAccepts
      /\ IsFiniteSet(Free) /\ Cardinality(Free) \in Nat
  BY Basics
<1>3. TypeInv
  OBVIOUS
<1>4. t \in Live /\ kernel[f].open /\ owner[t] = f
  <2>1. t # Null
    BY <1>1 DEF BatchInv
  <2> QED
    BY <2>1 DEF OwnerInv
<1>5. Live' = Live \ {t}
  BY <1>1 DEF Live
<1>6. /\ kernel \in [Fds -> Kernels]
      /\ kernel'[f] = Closed /\ \A g \in Fds : g # f => kernel'[g] = kernel[g]
      /\ kernel' \in [Fds -> Kernels]
  <2>1. Closed \in Kernels
    BY TimeCheckerAssumption DEF Closed, Kernels
  <2>2. kernel \in [Fds -> Kernels]
    BY <1>3 DEF TypeInv
  <2> QED
    BY <1>1, <2>1, <2>2
<1>7. TypeInv'
  <2>1. deleted' \subseteq 1..Len(expire')
    BY <1>1, <1>2, <1>3, <1>4 DEF TypeInv
  <2> QED
    BY <1>1, <1>3, <1>6, <2>1 DEF TypeInv
<1>8. BacklogInv'
  <2>1. Free \subseteq Free' /\ IsFiniteSet(Free')
    <3>1. \A g \in Fds : ~kernel[g].open => ~kernel'[g].open
      BY <1>6 DEF Closed
    <3>2. Free \subseteq Free'
      BY <3>1 DEF Free
    <3>3. Free' \subseteq Fds
      BY DEF Free
    <3> QED
      BY <3>2, <3>3, FS_Subset, TimeCheckerAssumption
  <2>2. Cardinality(Free) <= Cardinality(Free') /\ Cardinality(Free') \in Nat
    BY <2>1, FS_Subset, FS_CardinalityType
  <2>3. Cardinality(Free) >= listening.backlog
    BY DEF BacklogInv
  <2>4. Cardinality(Free') >= listening.backlog
    BY <1>2, <2>2, <2>3
  <2>5. <<"accept", NoFd>> \in batch' => <<"accept", NoFd>> \in batch
    BY <1>1
  <2> QED
    BY <1>1, <2>4, <2>5 DEF BacklogInv
<1>9. ListInv'
  <2>1. PICK n \in 0..Len(expire) : \E order \in [1..n -> Live] :
          Ordered(timer_lst, expire, Live, order, n)
    BY DEF ListInv
  <2>2. PICK order : Ordered(timer_lst, expire, Live, order, n)
    BY <2>1
  <2>3. ListType(timer_lst, Timers) /\ n \in Nat
    BY DEF ListInv
  <2>4. expire \in [D -> Nat] /\ Live \subseteq D
    BY <1>2
  <2> HIDE DEF D, t
  <2> DEFINE new == DelTimer(timer_lst, t)
  <2>5. /\ ListType(new, Timers)
        /\ Untouched(new, timer_lst, Timers \ D)
        /\ n # 0
        /\ \E order2 : Ordered(new, expire, Live \ {t}, order2, n - 1)
    BY <1>2, <1>4, <2>2, <2>3, <2>4, DelTimerOrdered
  <2>6. timer_lst' = new
    BY <1>1
  <2> HIDE DEF new
  <2>7. \A u \in Timers \ (1..Len(expire)) : new.next[u] = Null /\ new.prev[u] = Null
    BY <2>5 DEF Untouched, ListInv, D
  <2>8. PICK order2 : Ordered(new, expire, Live', order2, n - 1)
    BY <1>5, <2>5
  <2>9. order2 \in [1..(n - 1) -> Live']
    BY <2>8 DEF Ordered
  <2>10. n - 1 \in 0..Len(expire)
    BY <1>2, <2>5
  <2> QED
    BY <1>1, <2>5, <2>6, <2>7, <2>8, <2>9, <2>10 DEF ListInv
<1>10. ExpireInv'
  BY <1>1 DEF ExpireInv
<1>11. OwnerInv'
  <2>1. ASSUME NEW u \in Live' PROVE kernel'[owner'[u]].open /\ timer'[owner'[u]] = u
    <3>1. u \in Live /\ u # t
      BY <1>5
    <3>2. kernel[owner[u]].open /\ timer[owner[u]] = u /\ owner[u] \in Fds
      BY <1>2, <3>1 DEF OwnerInv
    <3>3. owner[u] # f
      BY <3>1, <3>2
    <3> QED
      BY <1>1, <1>6, <3>2, <3>3
  <2>2. ASSUME NEW g \in Fds
        PROVE  IF kernel'[g].open THEN timer'[g] \in Live' /\ owner'[timer'[g]] = g
               ELSE timer'[g] \in deleted' \cup {Null}
    <3>1. g = f => ~kernel'[g].open /\ timer'[g] \in deleted'
      BY <1>1, <1>6 DEF Closed
    <3>2. ASSUME g # f
          PROVE  IF kernel'[g].open THEN timer'[g] \in Live' /\ owner'[timer'[g]] = g
                 ELSE timer'[g] \in deleted' \cup {Null}
      <4>1. kernel'[g] = kernel[g] /\ timer' = timer /\ owner' = owner
        BY <1>1, <1>6, <3>2
      <4>2. kernel[g].open => timer[g] \in Live /\ owner[timer[g]] = g
        BY DEF OwnerInv
      <4>3. kernel[g].open => timer[g] # t
        BY <1>4, <3>2, <4>2
      <4>4. ~kernel[g].open => timer[g] \in deleted \cup {Null}
        BY DEF OwnerInv
      <4> QED
        BY <1>1, <1>5, <4>1, <4>2, <4>3, <4>4
    <3> QED
      BY <3>1, <3>2
  <2> QED
    BY <2>1, <2>2 DEF OwnerInv
<1>12. BatchInv'
  <2>1. \A g \in Fds : kernel'[g].edge => kernel'[g].open
    BY <1>6 DEF BatchInv, Closed
  <2>2. ASSUME NEW g \in Fds, <<"data", g>> \in batch'
        PROVE  timer'[g] # Null /\ (kernel'[g].open \/ ghosts'.stale)
    <3>1. <<"data", g>> \in batch /\ g # f
      BY <1>1, <2>2
    <3>2. timer[g] # Null /\ (kernel[g].open \/ ghosts.stale)
      BY <3>1 DEF BatchInv
    <3> QED
      BY <1>1, <1>6, <3>1, <3>2
  <2>3. ghosts'.broken => ghosts'.stale
    BY <1>1 DEF BatchInv
  <2> QED
    BY <2>1, <2>2, <2>3 DEF BatchInv
<1> QED
  BY <1>7, <1>8, <1>9, <1>10, <1>11, <1>12

LEMMA DataKeeps ==
  ASSUME CheckerInv, NEW f \in Fds, Data(f)
  PROVE  CheckerInv'
<1>1. /\ Handled(<<"data", f>>)
      /\ UNCHANGED <<listening, signals, now, stop, timer, owner>>
  BY DEF Data
<1>2. <<"data", f>> \in batch /\ batch' \subseteq batch
  BY <1>1 DEF Handled
<1>3. ASSUME Reads(f), timer[f] \notin deleted,
             kernel' = [kernel EXCEPT ![f].input = @ - 1],
             expire' = [expire EXCEPT ![timer[f]] = now + Lifetime],
             timer_lst' = AdjustTimer(timer_lst, expire', timer[f]),
             UNCHANGED <<deleted, ghosts>>
      PROVE  CheckerInv'
  BY <1>1, <1>3, ReadKeeps
<1>4. ASSUME timer[f] \notin deleted, Close(f)
      PROVE  CheckerInv'
  BY <1>1, <1>4, CloseKeeps
<1>5. ASSUME UNCHANGED <<kernel, expire, timer_lst, deleted>>,
             ghosts' \in [stale : BOOLEAN, broken : BOOLEAN],
             ghosts'.stale = ghosts.stale, ghosts'.broken => ghosts.stale
      PROVE  CheckerInv'
  <2> USE DEF CheckerInv
  <2>1. TypeInv'
    BY <1>1, <1>5 DEF TypeInv
  <2>2. now <= now'
    BY <1>1 DEF TypeInv
  <2>3. \A g \in Fds : kernel'[g].edge => kernel[g].open
    BY <1>5 DEF BatchInv
  <2>4. UNCHANGED timers
    BY <1>1, <1>5 DEF timers
  <2> HIDE DEF CheckerInv
  <2> QED
    BY <1>1, <1>2, <1>5, <2>1, <2>2, <2>3, <2>4, OutsideKeeps
<1>6. ASSUME UNCHANGED <<kernel, expire, timer_lst, deleted, ghosts>> PROVE CheckerInv'
  <2>1. /\ ghosts' \in [stale : BOOLEAN, broken : BOOLEAN]
        /\ ghosts'.stale = ghosts.stale /\ (ghosts'.broken => ghosts.stale)
    BY <1>6 DEF CheckerInv, TypeInv, BatchInv
  <2> QED
    BY <1>5, <1>6, <2>1
<1>7. ASSUME Reads(f) \/ Ends(f), timer[f] \in deleted,
             ghosts' = [ghosts EXCEPT !.broken = TRUE],
             UNCHANGED <<kernel, expire, timer_lst, deleted>>
      PROVE  CheckerInv'
  <2>1. ~kernel[f].open
    BY <1>7 DEF CheckerInv, OwnerInv, Live
  <2>2. ghosts.stale
    BY <1>2, <2>1 DEF CheckerInv, BatchInv
  <2>3. /\ ghosts' \in [stale : BOOLEAN, broken : BOOLEAN]
        /\ ghosts'.stale = ghosts.stale /\ (ghosts'.broken => ghosts.stale)
    BY <1>7, <2>2 DEF CheckerInv, TypeInv
  <2> QED
    BY <1>5, <1>7, <2>3
<1> QED
  BY <1>3, <1>4, <1>6, <1>7 DEF Data

LEMMA NextKeeps == CheckerInv /\ [Next]_vars => CheckerInv'
<1> SUFFICES ASSUME CheckerInv, [Next]_vars PROVE CheckerInv'
  OBVIOUS
<1>1. ASSUME UNCHANGED vars PROVE CheckerInv'
  BY <1>1 DEF vars, CheckerInv, TypeInv, BacklogInv, Free, ListInv, Live, ExpireInv,
              OwnerInv, BatchInv
<1>2. ASSUME NEW f \in Fds, ClientActs(f) PROVE CheckerInv'
  BY <1>2, ClientActsKeeps
<1>3. ASSUME NEW f \in Fds, Data(f) PROVE CheckerInv'
  BY <1>3, DataKeeps
<1> QED
  BY <1>1, <1>2, <1>3, ConnectKeeps, PassKeeps, TerminateKeeps, EpollWaitKeeps,
     AcceptKeeps, SignalKeeps DEF Next

-----------------------------------------------------------------------------
(* In every reachable state the list of the server has an order, its       *)
(* timers belong to the open connections, and an event whose connection is *)
(* gone was collected before a timeout of the same batch.                  *)
THEOREM CheckerInvariant == Spec => []CheckerInv
<1>1. Init => CheckerInv
  BY InitInv
<1>2. CheckerInv /\ [Next]_vars => CheckerInv'
  BY NextKeeps
<1> QED
  BY <1>1, <1>2, PTL DEF Spec

LEMMA InvConsistent == CheckerInv => TimersConsistent
<1> SUFFICES ASSUME CheckerInv PROVE TimersConsistent
  OBVIOUS
<1> USE DEF CheckerInv
<1>1. /\ Null \notin Timers /\ Len(expire) \in Nat /\ owner \in [1..Len(expire) -> Fds]
      /\ 1..Len(expire) \subseteq Timers /\ Live \subseteq 1..Len(expire)
      /\ listening.backlog \in 0..MaxAccepts
  BY Basics
<1>2. TypeOK
  <2>1. timer_lst.head \in Timers \cup {Null} /\ timer_lst.tail \in Timers \cup {Null}
    BY DEF ListInv, ListType
  <2>2. deleted \subseteq Timers
    BY <1>1 DEF TypeInv
  <2> QED
    BY <1>1, <2>1, <2>2 DEF TypeOK, TypeInv, Kernels
<1>3. ListConsistent
  BY DEF ListInv, Ordered, ListConsistent
<1>4. TimerPerConnection
  <2>1. ASSUME NEW t \in Live
        PROVE  <<owner[t], t>> \in {<<f, timer[f]>> : f \in {g \in Fds : kernel[g].open}}
    <3>1. owner[t] \in Fds /\ kernel[owner[t]].open /\ timer[owner[t]] = t
      BY <1>1 DEF OwnerInv
    <3> QED
      BY <3>1
  <2>2. ASSUME NEW f \in Fds, kernel[f].open
        PROVE  <<f, timer[f]>> \in {<<owner[t], t>> : t \in Live}
    <3>1. timer[f] \in Live /\ owner[timer[f]] = f
      BY <2>2 DEF OwnerInv
    <3> QED
      BY <3>1
  <2> QED
    BY <2>1, <2>2 DEF TimerPerConnection
<1>5. NoDeletedTimerUsed
  BY DEF NoDeletedTimerUsed, BatchInv
<1> QED
  BY <1>2, <1>3, <1>4, <1>5 DEF TimersConsistent

(* The pointers that add_time(), adjust_timer(), del_timer() and tick()    *)
(* write make one sorted list in both directions, of exactly the timers of *)
(* the open connections; and a deleted timer is used only when a timeout   *)
(* and an event of one connection meet in one batch.                       *)
THEOREM TimersConsistentHolds == Spec => []TimersConsistent
BY CheckerInvariant, InvConsistent, PTL

(* After any tick(), one that fires nothing included, no timer is left     *)
(* whose time is over.                                                     *)
THEOREM TickFiresExpiredHolds == Spec => TickFiresExpired
<1> DEFINE A == <<"signal", NoFd>> \in batch \ batch' /\ "alrm" \in signals.pending
                  => \A t \in (1..Len(expire)) \ deleted' : expire[t] > now
<1>1. CheckerInv /\ [Next]_vars => [A]_vars
  <2> SUFFICES ASSUME CheckerInv, Next,
                      <<"signal", NoFd>> \in batch \ batch', "alrm" \in signals.pending
               PROVE  \A t \in (1..Len(expire)) \ deleted' : expire[t] > now
    OBVIOUS
  <2>1. ~Connect /\ ~Pass /\ ~Terminate /\ ~EpollWait /\ ~Accept
    BY DEF Connect, Pass, Terminate, EpollWait, Accept, Handled
  <2>2. \A f \in Fds : ~ClientActs(f)
    BY DEF ClientActs
  <2>3. \A f \in Fds : ~Data(f)
    <3> SUFFICES ASSUME NEW f \in Fds, Handled(<<"data", f>>) PROVE FALSE
      BY DEF Data
    <3> QED
      BY DEF Handled
  <2>4. Signal
    BY <2>1, <2>2, <2>3 DEF Next
  <2> QED
    BY <2>4, SignalFires
<1> QED
  BY <1>1, CheckerInvariant, PTL DEF Spec, TickFiresExpired
=============================================================================
