--------------------------- MODULE HttpServerProofs ---------------------------
(***************************************************************************)
(* What holds of the reactor of the HTTP server for any number of          *)
(* descriptors, workers, signals and timeouts: ServerInv is inductive, so  *)
(* a connection is in one pair of hands, whoever has it knows whether it   *)
(* has a response to send, and m_user_count is right, whichever timers     *)
(* tick() fires, until the close_conn() of a worker races on it.  The      *)
(* second part is about the array of timers: what the                      *)
(* algorithms of TimerHeapOps do to it, then what follows for the timers   *)
(* of the connections and for the timer heap taken by itself.              *)
(***************************************************************************)
EXTENDS HttpServer, TimerHeap, FiniteSetTheorems, SequenceTheorems, WellFoundedInduction, TLAPS

Kernels == [open : BOOLEAN, input : BOOLEAN, gone : BOOLEAN]
Conns == [open : BOOLEAN, out : BOOLEAN, timer : Nat]
ConnEvents == {"in", "out", "hup"} \X Fds
MainEvents == {<<"accept", NoFd>>, <<"signal", NoFd>>}

TypeInv ==
  /\ kernel \in [Fds -> Kernels]
  /\ armed \in [Fds -> {"none", "new", "in", "out"}]
  /\ users \in [Fds -> Conns]
  /\ user_count \in Int
  /\ batch \subseteq ConnEvents \cup MainEvents
  /\ owner \in Seq(Fds)
  /\ workqueue \in Seq(Fds)
  /\ serving \in [Workers -> Fds \cup {NoFd}]
  /\ rearm \in [Workers -> {"none", "in", "out"}]
  /\ \A w \in Workers : serving[w] = NoFd => rearm[w] = "none"
  /\ ghosts \in [refused : SUBSET Fds, intruded : BOOLEAN, touched : BOOLEAN, raced : BOOLEAN]

OpenConns == {f \in Fds : users[f].open}

(* m_user_count is right until a worker changes it, and an object is open  *)
(* exactly when its descriptor is.                                         *)
CountInv ==
  /\ ~ghosts.raced => user_count = Cardinality(OpenConns)
  /\ \A f \in Fds : users[f].open <=> kernel[f].open

(* The four places where a connection can be, and that it is in one place  *)
(* only, once.                                                             *)
InBatch(f) == \E e \in batch : e[2] = f
InQueue(f) == \E i \in 1..Len(workqueue) : workqueue[i] = f
InHands(f) == \E w \in Workers : serving[w] = f

Watched(f) == armed[f] # "none" \/ InBatch(f) \/ InQueue(f) \/ InHands(f)

Once(f) ==
  /\ \A d, e \in batch : d[2] = f /\ e[2] = f => d = e
  /\ \A i, j \in 1..Len(workqueue) : workqueue[i] = f /\ workqueue[j] = f => i = j
  /\ \A v, w \in Workers : serving[v] = f /\ serving[w] = f => v = w
  /\ armed[f] # "none" => ~InBatch(f) /\ ~InQueue(f) /\ ~InHands(f)
  /\ InBatch(f) => ~InQueue(f) /\ ~InHands(f)
  /\ InQueue(f) => ~InHands(f)

(* A connection is watched while it is open, unless append() refused it.   *)
HeldRight(f) ==
  /\ Once(f)
  /\ Watched(f) <=> users[f].open /\ f \notin ghosts.refused

(* Wherever it is, it is known whether a response waits to be sent.        *)
OutRight(f) ==
  /\ armed[f] # "none" => (armed[f] = "out" <=> users[f].out)
  /\ <<"in", f>> \in batch => ~users[f].out
  /\ InQueue(f) => ~users[f].out
  /\ \A w \in Workers : serving[w] = f => (rearm[w] = "out" <=> users[f].out)

HolderInv == ~ghosts.intruded => \A f \in Fds : HeldRight(f) /\ OutRight(f)

ServerInv == TypeInv /\ CountInv /\ HolderInv

-----------------------------------------------------------------------------
LEMMA OpenFinite == IsFiniteSet(OpenConns) /\ Cardinality(OpenConns) \in Nat
<1>1. OpenConns \in SUBSET Fds
  BY DEF OpenConns
<1>2. IsFiniteSet(OpenConns)
  BY <1>1, FS_Subset, HttpServerAssumption DEF HttpServerAssumption
<1> QED
  BY <1>2, FS_CardinalityType

(* accept() returns the lowest free descriptor when there is one.          *)
LEMMA LowestFree ==
  ASSUME NEW free \in SUBSET Fds, free # {}
  PROVE  Min(free) \in free
<1> DEFINE Below(f) == {g \in free : g <= f}
           Parts == {Below(f) : f \in free}
<1>1. free \subseteq Nat /\ IsFiniteSet(free)
  BY FS_Subset, HttpServerAssumption DEF HttpServerAssumption
<1>2. Parts \subseteq FiniteSubsetsOf(free) /\ Parts # {}
  <2>1. \A T \in SUBSET free : IsFiniteSet(T)
    BY <1>1, FS_Subset
  <2>2. \A f \in free : Below(f) \in SUBSET free
    OBVIOUS
  <2> QED
    BY <2>1, <2>2 DEF FiniteSubsetsOf
<1>3. PICK P \in Parts : \A Q \in Parts : <<Q, P>> \notin StrictSubsetOrdering(free)
  BY <1>2, FS_StrictSubsetOrderingWellFounded, WFMin
<1>4. PICK f \in free : P = Below(f)
  OBVIOUS
<1>5. ASSUME NEW g \in free, g < f PROVE FALSE
  <2>1. /\ f \in Nat /\ g \in Nat /\ f <= f /\ ~(f <= g)
        /\ \A h \in Nat : h <= g => h <= f
    BY <1>1, <1>5
  <2>2. Below(g) \subseteq Below(f) /\ f \notin Below(g) /\ f \in Below(f)
    BY <1>1, <2>1, Zenon
  <2>3. <<Below(g), P>> \in StrictSubsetOrdering(free)
    BY <2>2, <1>4 DEF StrictSubsetOrdering
  <2> QED
    BY <1>3, <2>3
<1>6. \A g \in free : f <= g
  BY <1>1, <1>5
<1> QED
  BY <1>6 DEF Min

LEMMA InitServer == Init => ServerInv
<1> SUFFICES ASSUME Init PROVE ServerInv
  OBVIOUS
<1> USE HttpServerAssumption DEF HttpServerAssumption, Init, Pool!Init
<1>1. TypeInv
  BY DEF TypeInv, Kernels, Conns
<1>2. OpenConns = {}
  BY DEF OpenConns
<1>3. CountInv
  BY <1>2, FS_EmptySet DEF CountInv
<1>4. HolderInv
  BY DEF HolderInv, HeldRight, OutRight, Once, Watched, InBatch, InQueue, InHands
<1> QED
  BY <1>1, <1>3, <1>4 DEF ServerInv

-----------------------------------------------------------------------------
(* What a step does not touch stays right.                                 *)
LEMMA HolderFrame ==
  ASSUME NEW f \in Fds, HeldRight(f), OutRight(f), UNCHANGED poolVars,
         armed'[f] = armed[f],
         users'[f].open <=> users[f].open, users'[f].out <=> users[f].out,
         f \in ghosts'.refused <=> f \in ghosts.refused,
         \A e : e[2] = f => (e \in batch' <=> e \in batch)
  PROVE  HeldRight(f)' /\ OutRight(f)'
<1> USE DEF poolVars
<1>1. /\ InBatch(f)' <=> InBatch(f)
      /\ InQueue(f)' <=> InQueue(f)
      /\ InHands(f)' <=> InHands(f)
  BY DEF InBatch, InQueue, InHands
<1>2. HeldRight(f)'
  BY <1>1 DEF HeldRight, Watched, Once
<1>3. <<"in", f>>[2] = f
  OBVIOUS
<1>4. OutRight(f)'
  BY <1>1, <1>3 DEF OutRight
<1> QED
  BY <1>2, <1>4

LEMMA CloseOpenGives ==
  ASSUME TypeInv, NEW open \in SUBSET Fds, CloseOpen(open)
  PROVE  /\ kernel' \in [Fds -> Kernels] /\ users' \in [Fds -> Conns]
         /\ armed' \in [Fds -> {"none", "new", "in", "out"}]
         /\ \A f \in Fds : /\ users'[f].open <=> users[f].open /\ f \notin open
                           /\ kernel'[f].open <=> kernel[f].open /\ f \notin open
                           /\ users'[f].out = users[f].out /\ users'[f].timer = users[f].timer
                           /\ armed'[f] = IF f \in open THEN "none" ELSE armed[f]
         /\ OpenConns' = OpenConns \ open
<1>1. /\ kernel' = [f \in Fds |-> IF f \in open
                      THEN [open |-> FALSE, input |-> FALSE, gone |-> FALSE] ELSE kernel[f]]
      /\ armed' = [f \in Fds |-> IF f \in open THEN "none" ELSE armed[f]]
      /\ users' = [f \in Fds |-> IF f \in open THEN [users[f] EXCEPT !.open = FALSE] ELSE users[f]]
  BY DEF CloseOpen
<1>2. kernel' \in [Fds -> Kernels]
  BY <1>1 DEF TypeInv, Kernels
<1>3. armed' \in [Fds -> {"none", "new", "in", "out"}]
  BY <1>1 DEF TypeInv
<1>4. ASSUME NEW f \in Fds
      PROVE  /\ users'[f] \in Conns
             /\ users'[f].open <=> users[f].open /\ f \notin open
             /\ kernel'[f].open <=> kernel[f].open /\ f \notin open
             /\ users'[f].out = users[f].out /\ users'[f].timer = users[f].timer
             /\ armed'[f] = IF f \in open THEN "none" ELSE armed[f]
  <2>1. users[f] \in Conns
    BY DEF TypeInv
  <2>2. CASE f \in open
    <3>1. /\ users'[f] = [users[f] EXCEPT !.open = FALSE] /\ armed'[f] = "none"
          /\ kernel'[f] = [open |-> FALSE, input |-> FALSE, gone |-> FALSE]
      BY <1>1, <2>2
    <3>2. PICK u \in Conns : u = [users[f] EXCEPT !.open = FALSE]
      BY <2>1 DEF Conns
    <3>3. ~u.open /\ u.out = users[f].out /\ u.timer = users[f].timer
      BY <2>1, <3>2 DEF Conns
    <3> QED
      BY <2>2, <3>1, <3>2, <3>3
  <2>3. CASE f \notin open
    <3>1. users'[f] = users[f] /\ armed'[f] = armed[f] /\ kernel'[f] = kernel[f]
      BY <1>1, <2>3
    <3> QED
      BY <2>1, <2>3, <3>1
  <2> QED
    BY <2>2, <2>3
<1>5. users' \in [Fds -> Conns]
  BY <1>1, <1>4
<1>6. OpenConns' = OpenConns \ open
  BY <1>4 DEF OpenConns
<1> QED
  BY <1>2, <1>3, <1>4, <1>5, <1>6

LEMMA CloseConnsGives ==
  ASSUME TypeInv, CountInv, NEW S, CloseConns(S), ghosts'.raced = ghosts.raced
  PROVE  /\ kernel' \in [Fds -> Kernels] /\ users' \in [Fds -> Conns]
         /\ armed' \in [Fds -> {"none", "new", "in", "out"}] /\ user_count' \in Int
         /\ user_count' <= user_count /\ CountInv'
         /\ \A f \in Fds : /\ users'[f].open <=> users[f].open /\ f \notin S
                           /\ users'[f].out = users[f].out /\ users'[f].timer = users[f].timer
                           /\ armed'[f] = IF f \in S /\ users[f].open THEN "none" ELSE armed[f]
<1>1. PICK open \in SUBSET Fds : /\ open = {f \in Fds \cap S : users[f].open}
                                 /\ CloseOpen(open)
                                 /\ user_count' = user_count - Cardinality(open)
  BY DEF CloseConns
<1>2. /\ kernel' \in [Fds -> Kernels] /\ users' \in [Fds -> Conns]
      /\ armed' \in [Fds -> {"none", "new", "in", "out"}]
      /\ \A f \in Fds : /\ users'[f].open <=> users[f].open /\ f \notin open
                        /\ kernel'[f].open <=> kernel[f].open /\ f \notin open
                        /\ users'[f].out = users[f].out /\ users'[f].timer = users[f].timer
                        /\ armed'[f] = IF f \in open THEN "none" ELSE armed[f]
      /\ OpenConns' = OpenConns \ open
  BY <1>1, CloseOpenGives
<1>3. open \in SUBSET OpenConns
  BY <1>1 DEF OpenConns
<1>4. Cardinality(OpenConns') = Cardinality(OpenConns) - Cardinality(open)
  <2>1. OpenConns \cap open = open
    BY <1>3
  <2>2. Cardinality(OpenConns \ open) = Cardinality(OpenConns) - Cardinality(OpenConns \cap open)
    BY OpenFinite, FS_Difference
  <2> QED
    BY <1>2, <2>1, <2>2
<1>5. Cardinality(open) \in Nat
  BY <1>3, OpenFinite, FS_Subset, FS_CardinalityType
<1>6. user_count \in Int
  BY DEF TypeInv
<1>7. user_count' \in Int /\ user_count' <= user_count
  BY <1>1, <1>5, <1>6
<1>8. CountInv'
  <2>1. \A f \in Fds : users'[f].open <=> kernel'[f].open
    BY <1>2 DEF CountInv
  <2>2. ~ghosts'.raced => user_count' = Cardinality(OpenConns')
    BY <1>1, <1>4 DEF CountInv
  <2> QED
    BY <2>1, <2>2 DEF CountInv
<1>9. \A f \in Fds : f \in open <=> f \in S /\ users[f].open
  BY <1>1
<1> QED
  BY <1>2, <1>7, <1>8, <1>9

-----------------------------------------------------------------------------
(* The steps outside, and those of the main loop that touch no connection. *)
LEMMA AsideKeeps ==
  ASSUME ServerInv, Connect \/ Kick \/ Pass \/ LeaveLoop
                      \/ \E f \in Fds : ClientSends(f) \/ ClientLeaves(f)
  PROVE  ServerInv'
<1>1. UNCHANGED <<armed, users, user_count, batch, owner, poolVars, ghosts>>
  BY DEF Connect, Kick, Pass, LeaveLoop, ClientSends, ClientLeaves, connVars, timerVars, poolVars
<1>2. kernel' \in [Fds -> Kernels] /\ \A f \in Fds : kernel'[f].open = kernel[f].open
  <2>1. CASE Connect \/ Kick \/ Pass \/ LeaveLoop
    BY <2>1 DEF Connect, Kick, Pass, LeaveLoop, connVars, ServerInv, TypeInv
  <2>2. ASSUME NEW f \in Fds, ClientSends(f) \/ ClientLeaves(f)
        PROVE  kernel' \in [Fds -> Kernels] /\ \A g \in Fds : kernel'[g].open = kernel[g].open
    <3>1. PICK k \in Kernels : k \in {[kernel[f] EXCEPT !.input = TRUE], [kernel[f] EXCEPT !.gone = TRUE]}
                               /\ kernel' = [kernel EXCEPT ![f] = k]
      <4>1. kernel[f] \in Kernels
        BY DEF ServerInv, TypeInv
      <4>2. /\ [kernel[f] EXCEPT !.input = TRUE] \in Kernels
            /\ [kernel[f] EXCEPT !.gone = TRUE] \in Kernels
        BY <4>1 DEF Kernels
      <4>3. \/ kernel' = [kernel EXCEPT ![f] = [kernel[f] EXCEPT !.input = TRUE]]
            \/ kernel' = [kernel EXCEPT ![f] = [kernel[f] EXCEPT !.gone = TRUE]]
        BY <2>2 DEF ClientSends, ClientLeaves
      <4> QED
        BY <4>2, <4>3
    <3>2. k.open = kernel[f].open
      BY <3>1 DEF ServerInv, TypeInv, Kernels
    <3> QED
      BY <3>1, <3>2 DEF ServerInv, TypeInv
  <2> QED
    BY <2>1, <2>2
<1>3. TypeInv'
  BY <1>1, <1>2 DEF ServerInv, TypeInv, poolVars
<1>4. CountInv'
  <2>1. OpenConns' = OpenConns
    BY <1>1 DEF OpenConns
  <2> QED
    BY <1>1, <1>2, <2>1 DEF ServerInv, CountInv
<1>5. HolderInv'
  BY <1>1, HolderFrame DEF ServerInv, HolderInv
<1> QED
  BY <1>3, <1>4, <1>5 DEF ServerInv

(* epoll_wait() reports a descriptor once and uses its interest up.        *)
LEMMA EpollWaitKeeps ==
  ASSUME ServerInv, EpollWait
  PROVE  ServerInv'
<1> USE HttpServerAssumption DEF HttpServerAssumption, ServerInv
<1>1. /\ UNCHANGED <<kernel, users, user_count, owner, poolVars, ghosts>>
      /\ batch = {} /\ batch' = Events
      /\ armed' = [f \in Fds |-> IF Ready(f) = "none" THEN armed[f] ELSE "none"]
  BY DEF EpollWait, timerVars
<1>2. \A f \in Fds : /\ Ready(f) \in {"none", "in", "out", "hup"}
                     /\ Ready(f) # "none" => armed[f] # "none"
                     /\ Ready(f) = "in" => armed[f] # "out"
  BY DEF Ready
<1>3. \A e : e \in batch' => \/ e \in MainEvents
                             \/ \E f \in Fds : Ready(f) # "none" /\ e = <<Ready(f), f>>
  BY <1>1 DEF Events, MainEvents
<1>4. \A e \in MainEvents : \A f \in Fds : e[2] # f
  BY DEF MainEvents
<1>5. \A f \in Fds : Ready(f) # "none" => <<Ready(f), f>> \in batch'
  BY <1>1 DEF Events
<1>6. \A f \in Fds, e \in batch' : e[2] = f => Ready(f) # "none" /\ e = <<Ready(f), f>>
  BY <1>3, <1>4
<1>7. TypeInv'
  <2>1. batch' \subseteq ConnEvents \cup MainEvents
    BY <1>2, <1>3 DEF ConnEvents
  <2>2. armed' \in [Fds -> {"none", "new", "in", "out"}]
    BY <1>1 DEF TypeInv
  <2> QED
    BY <1>1, <2>1, <2>2 DEF TypeInv, poolVars
<1>8. CountInv'
  <2>1. OpenConns' = OpenConns
    BY <1>1 DEF OpenConns
  <2> QED
    BY <1>1, <2>1 DEF CountInv
<1>9. ASSUME ~ghosts.intruded, NEW f \in Fds
      PROVE  HeldRight(f)' /\ OutRight(f)'
  <2>1. HeldRight(f) /\ OutRight(f) /\ ~InBatch(f)
    BY <1>1, <1>9 DEF HolderInv, InBatch
  <2>2. /\ InQueue(f)' <=> InQueue(f)
        /\ InHands(f)' <=> InHands(f)
        /\ InBatch(f)' <=> Ready(f) # "none"
        /\ armed'[f] = IF Ready(f) = "none" THEN armed[f] ELSE "none"
    BY <1>1, <1>5, <1>6 DEF InQueue, InHands, InBatch, poolVars
  <2>3. HeldRight(f)'
    <3>1. Watched(f)' <=> Watched(f)
      BY <1>2, <2>1, <2>2 DEF Watched
    <3>2. Once(f)'
      <4>1. Once(f)
        BY <2>1 DEF HeldRight
      <4>2. \A d, e \in batch' : d[2] = f /\ e[2] = f => d = e
        BY <1>6
      <4>3. (armed[f] # "none")' => ~InBatch(f)' /\ ~InQueue(f)' /\ ~InHands(f)'
        BY <2>2, <4>1 DEF Once
      <4>4. InBatch(f)' => ~InQueue(f)' /\ ~InHands(f)'
        BY <1>2, <2>2, <4>1 DEF Once
      <4>5. workqueue' = workqueue /\ serving' = serving
        BY <1>1 DEF poolVars
      <4> QED
        BY <2>2, <4>1, <4>2, <4>3, <4>4, <4>5 DEF Once
    <3> QED
      BY <1>1, <2>1, <3>1, <3>2 DEF HeldRight
  <2>4. OutRight(f)'
    <3>1. <<"in", f>> \in batch' => Ready(f) = "in"
      BY <1>6
    <3> QED
      BY <1>1, <1>2, <2>1, <2>2, <3>1 DEF OutRight, poolVars
  <2> QED
    BY <2>3, <2>4
<1> QED
  BY <1>1, <1>7, <1>8, <1>9 DEF HolderInv

(* An event of the main thread itself that touches no connection.          *)
LEMMA MainEventHandled ==
  ASSUME ServerInv, NEW e \in MainEvents, batch' = batch \ {e},
         UNCHANGED <<connVars, timerVars, poolVars>>, ghosts' = ghosts
  PROVE  ServerInv'
<1> USE HttpServerAssumption DEF HttpServerAssumption, ServerInv, connVars, timerVars
<1>1. TypeInv'
  BY DEF TypeInv, poolVars
<1>2. CountInv'
  <2>1. OpenConns' = OpenConns
    BY DEF OpenConns
  <2> QED
    BY <2>1 DEF CountInv
<1>3. \A f \in Fds : \A d : d[2] = f => (d \in batch' <=> d \in batch)
  BY DEF MainEvents
<1>4. HolderInv'
  BY <1>3, HolderFrame DEF HolderInv
<1> QED
  BY <1>1, <1>2, <1>4

(* A new connection is at no place yet, and armed by addfd().              *)
LEMMA OpenKeeps ==
  ASSUME ServerInv, NEW f \in Fds, ~kernel[f].open, NEW t \in Nat, Open(f, t),
         NEW e \in MainEvents, batch' = batch \ {e}, UNCHANGED poolVars
  PROVE  ServerInv'
<1> USE HttpServerAssumption DEF HttpServerAssumption, ServerInv
<1>1. ~users[f].open
  BY DEF CountInv
<1>2. kernel' \in [Fds -> Kernels] /\ \A g \in Fds : kernel'[g].open <=> g = f \/ kernel[g].open
  <2>1. PICK k \in Kernels : k = [kernel[f] EXCEPT !.open = TRUE]
    <3>1. kernel[f] \in Kernels
      BY DEF TypeInv
    <3>2. [kernel[f] EXCEPT !.open = TRUE] \in Kernels
      BY <3>1 DEF Kernels
    <3> QED
      BY <3>2
  <2>2. k.open
    BY <2>1 DEF TypeInv, Kernels
  <2>3. kernel' = [kernel EXCEPT ![f] = k]
    BY <2>1 DEF Open
  <2> QED
    BY <2>2, <2>3 DEF TypeInv
<1>3. /\ users' \in [Fds -> Conns] /\ users'[f].open /\ ~users'[f].out
      /\ \A g \in Fds \ {f} : users'[g] = users[g]
  <2>1. PICK u \in Conns : u = [open |-> TRUE, out |-> FALSE, timer |-> t]
    BY DEF Conns
  <2>2. users' = [users EXCEPT ![f] = u] /\ u.open /\ ~u.out
    BY <2>1 DEF Open
  <2> QED
    BY <2>2 DEF TypeInv
<1>4. /\ armed' \in [Fds -> {"none", "new", "in", "out"}] /\ armed'[f] = "new"
      /\ \A g \in Fds \ {f} : armed'[g] = armed[g]
  BY DEF Open, TypeInv
<1>5. /\ ghosts' \in [refused : SUBSET Fds, intruded : BOOLEAN, touched : BOOLEAN, raced : BOOLEAN]
      /\ ghosts'.intruded = ghosts.intruded /\ ghosts'.refused = ghosts.refused \ {f}
      /\ ghosts'.raced = ghosts.raced
  BY DEF Open, TypeInv
<1>6. TypeInv'
  <2>1. owner' \in Seq(Fds) /\ user_count' \in Int
    BY DEF Open, TypeInv
  <2> QED
    BY <1>2, <1>3, <1>4, <1>5, <2>1 DEF TypeInv, poolVars
<1>7. CountInv'
  <2>1. OpenConns' = OpenConns \cup {f} /\ f \notin OpenConns
    <3>1. \A g \in Fds : users'[g].open <=> g = f \/ users[g].open
      BY <1>3
    <3> QED
      BY <1>1, <3>1 DEF OpenConns
  <2>2. Cardinality(OpenConns') = Cardinality(OpenConns) + 1
    BY <2>1, OpenFinite, FS_AddElement
  <2>3. user_count' = user_count + 1
    BY DEF Open
  <2> QED
    BY <1>2, <1>3, <1>5, <2>2, <2>3 DEF CountInv
<1>8. ASSUME ~ghosts.intruded, NEW g \in Fds
      PROVE  HeldRight(g)' /\ OutRight(g)'
  <2>1. HeldRight(g) /\ OutRight(g)
    BY <1>8 DEF HolderInv
  <2>2. \A d : d[2] = g => (d \in batch' <=> d \in batch)
    BY DEF MainEvents
  <2>3. CASE g # f
    BY <1>3, <1>4, <1>5, <2>1, <2>2, <2>3, HolderFrame
  <2>4. CASE g = f
    <3>1. armed[g] = "none" /\ ~InBatch(g) /\ ~InQueue(g) /\ ~InHands(g) /\ Once(g)
      BY <1>1, <2>1, <2>4 DEF HeldRight, Watched
    <3>2. ~InBatch(g)' /\ ~InQueue(g)' /\ ~InHands(g)'
      BY <2>2, <3>1 DEF InBatch, InQueue, InHands, poolVars
    <3>3. HeldRight(g)'
      BY <1>3, <1>4, <1>5, <2>4, <3>2 DEF HeldRight, Watched, Once, InBatch, InQueue, InHands
    <3>4. <<"in", g>>[2] = g
      OBVIOUS
    <3>5. OutRight(g)'
      BY <1>3, <1>4, <2>4, <3>2, <3>4 DEF OutRight, InBatch, InHands
    <3> QED
      BY <3>3, <3>5
  <2> QED
    BY <2>3, <2>4
<1> QED
  BY <1>5, <1>6, <1>7, <1>8 DEF HolderInv

LEMMA AcceptKeeps ==
  ASSUME ServerInv, Accept
  PROVE  ServerInv'
<1> DEFINE free == {f \in Fds : ~kernel[f].open}
<1>1. batch' = batch \ {<<"accept", NoFd>>} /\ UNCHANGED poolVars
  BY DEF Accept, Handled
<1>2. CASE UNCHANGED <<connVars, timerVars, ghosts>>
  BY <1>1, <1>2, MainEventHandled DEF MainEvents
<1>3. CASE free # {} /\ Open(Min(free), Len(owner) + 1)
  <2>1. PICK f \in Fds : f = Min(free) /\ ~kernel[f].open
    BY <1>3, LowestFree
  <2>2. PICK t \in Nat : t = Len(owner) + 1
    BY DEF ServerInv, TypeInv
  <2> QED
    BY <1>1, <1>3, <2>1, <2>2, OpenKeeps DEF MainEvents
<1> QED
  BY <1>2, <1>3 DEF Accept

(* A connection that is closed while nobody has it, or by who has it, is   *)
(* nowhere afterwards.                                                     *)
LEMMA ClosedRight ==
  ASSUME NEW f \in Fds, armed'[f] = "none", ~users'[f].open,
         ~InBatch(f)', ~InQueue(f)', ~InHands(f)'
  PROVE  HeldRight(f)' /\ OutRight(f)'
<1>1. <<"in", f>>[2] = f
  OBVIOUS
<1> QED
  BY <1>1 DEF HeldRight, OutRight, Once, Watched, InBatch, InQueue, InHands

(* tick() closes connections, and the ghost says so if somebody had one.   *)
LEMMA SignalKeeps ==
  ASSUME ServerInv, Signal
  PROVE  ServerInv'
<1> USE HttpServerAssumption DEF HttpServerAssumption
<1>1. batch' = batch \ {<<"signal", NoFd>>} /\ UNCHANGED <<owner, poolVars>>
  BY DEF Signal, Handled
<1>2. CASE UNCHANGED <<connVars, heap, ghosts>> /\ UNCHANGED expire
  <2>1. UNCHANGED <<connVars, timerVars, poolVars>> /\ ghosts' = ghosts
    BY <1>1, <1>2 DEF timerVars
  <2> QED
    BY <1>1, <2>1, MainEventHandled DEF MainEvents
<1>3. ASSUME NEW hit, CloseConns(hit),
             ghosts' = [ghosts EXCEPT !.intruded = @ \/ \E f \in hit : users[f].open /\ f \in Held]
      PROVE  ServerInv'
  <2>2. PICK b \in BOOLEAN : b <=> ghosts.intruded \/ \E f \in hit : users[f].open /\ f \in Held
    OBVIOUS
  <2>3. /\ ghosts' \in [refused : SUBSET Fds, intruded : BOOLEAN, touched : BOOLEAN, raced : BOOLEAN]
        /\ ghosts'.refused = ghosts.refused /\ ghosts'.raced = ghosts.raced
        /\ ghosts'.intruded <=> ghosts.intruded \/ \E f \in hit : users[f].open /\ f \in Held
    <3>1. ghosts' = [ghosts EXCEPT !.intruded = b]
      <4>1. b = (ghosts.intruded \/ \E f \in hit : users[f].open /\ f \in Held)
        BY <2>2, Zenon
      <4> QED
        BY <1>3, <4>1, Zenon
    <3> QED
      BY <2>2, <3>1 DEF ServerInv, TypeInv
  <2>1. /\ kernel' \in [Fds -> Kernels] /\ users' \in [Fds -> Conns]
        /\ armed' \in [Fds -> {"none", "new", "in", "out"}] /\ user_count' \in Int
        /\ CountInv'
        /\ \A f \in Fds : /\ users'[f].open <=> users[f].open /\ f \notin hit
                          /\ users'[f].out = users[f].out
                          /\ armed'[f] = IF f \in hit /\ users[f].open THEN "none" ELSE armed[f]
    BY <1>3, <2>3, CloseConnsGives DEF ServerInv
  <2>4. TypeInv'
    BY <1>1, <2>1, <2>3 DEF ServerInv, TypeInv, poolVars
  <2>5. ASSUME ~ghosts'.intruded, NEW f \in Fds
        PROVE  HeldRight(f)' /\ OutRight(f)'
    <3>1. HeldRight(f) /\ OutRight(f)
      BY <2>3, <2>5 DEF ServerInv, HolderInv
    <3>2. \A d : d[2] = f => (d \in batch' <=> d \in batch)
      BY <1>1
    <3>3. CASE f \in hit /\ users[f].open
      <4>1. f \notin Held
        BY <2>3, <2>5, <3>3
      <4>2. ~InBatch(f) /\ ~InQueue(f) /\ ~InHands(f)
        BY <4>1 DEF Held, InBatch, InQueue, InHands
      <4>3. ~InBatch(f)' /\ ~InQueue(f)' /\ ~InHands(f)'
        BY <1>1, <4>2 DEF InBatch, InQueue, InHands, poolVars
      <4> QED
        BY <2>1, <3>3, <4>3, ClosedRight
    <3>4. CASE ~(f \in hit /\ users[f].open)
      <4>1. /\ armed'[f] = armed[f] /\ users'[f].out = users[f].out
            /\ users'[f].open <=> users[f].open
        BY <2>1, <3>4
      <4> QED
        BY <1>1, <2>3, <3>1, <3>2, <4>1, HolderFrame
    <3> QED
      BY <3>3, <3>4
  <2> QED
    BY <2>1, <2>4, <2>5 DEF ServerInv, HolderInv
<1> QED
  BY <1>2, <1>3 DEF Signal

(* Who handles the event of a connection is the only one that has it.      *)
LEMMA EventTaken ==
  ASSUME ServerInv, ~ghosts.intruded, NEW f \in Fds, NEW kind,
         <<kind, f>> \in batch, batch' = batch \ {<<kind, f>>}
  PROVE  /\ armed[f] = "none" /\ ~InQueue(f) /\ ~InHands(f) /\ ~InBatch(f)'
         /\ users[f].open /\ f \notin ghosts.refused
         /\ \A g \in Fds \ {f} : \A d : d[2] = g => (d \in batch' <=> d \in batch)
<1>1. HeldRight(f) /\ InBatch(f)
  BY DEF ServerInv, HolderInv, InBatch
<1> QED
  BY <1>1 DEF HeldRight, Once, Watched, InBatch

(* close_conn() of the connection whose event is handled.                  *)
LEMMA EventCloses ==
  ASSUME ServerInv, NEW f \in Fds, NEW kind, <<kind, f>> \in batch, batch' = batch \ {<<kind, f>>},
         CloseConns({f}), UNCHANGED <<owner, poolVars>>,
         ghosts' \in [refused : SUBSET Fds, intruded : BOOLEAN, touched : BOOLEAN, raced : BOOLEAN],
         ghosts'.intruded = ghosts.intruded, ghosts'.refused = ghosts.refused,
         ghosts'.raced = ghosts.raced
  PROVE  ServerInv'
<1>1. /\ kernel' \in [Fds -> Kernels] /\ users' \in [Fds -> Conns]
      /\ armed' \in [Fds -> {"none", "new", "in", "out"}] /\ user_count' \in Int
      /\ CountInv'
      /\ \A g \in Fds : /\ users'[g].open <=> users[g].open /\ g \notin {f}
                        /\ users'[g].out = users[g].out
                        /\ armed'[g] = IF g \in {f} /\ users[g].open THEN "none" ELSE armed[g]
  BY CloseConnsGives DEF ServerInv
<1>2. TypeInv'
  BY <1>1 DEF ServerInv, TypeInv, poolVars
<1>3. ASSUME ~ghosts.intruded, NEW g \in Fds
      PROVE  HeldRight(g)' /\ OutRight(g)'
  <2>1. HeldRight(g) /\ OutRight(g)
    BY <1>3 DEF ServerInv, HolderInv
  <2>2. /\ ~InQueue(f) /\ ~InHands(f) /\ ~InBatch(f)' /\ armed[f] = "none"
        /\ g # f => \A d : d[2] = g => (d \in batch' <=> d \in batch)
    BY <1>3, EventTaken
  <2>3. CASE g = f
    <3>1. ~InQueue(f)' /\ ~InHands(f)'
      BY <2>2 DEF InQueue, InHands, poolVars
    <3> QED
      BY <1>1, <2>2, <2>3, <3>1, ClosedRight
  <2>4. CASE g # f
    <3>1. users'[g].open <=> users[g].open
      BY <1>1, <2>4
    <3> QED
      BY <1>1, <2>1, <2>2, <2>4, <3>1, HolderFrame
  <2> QED
    BY <2>3, <2>4
<1> QED
  BY <1>1, <1>2, <1>3 DEF ServerInv, HolderInv

(* The connection whose event is handled goes to one place: it is armed    *)
(* again, queued, or refused.                                              *)
LEMMA EventPasses ==
  ASSUME ServerInv, NEW f \in Fds, NEW kind, <<kind, f>> \in batch, batch' = batch \ {<<kind, f>>},
         kernel' \in [Fds -> Kernels], \A g \in Fds : kernel'[g].open = kernel[g].open,
         UNCHANGED <<user_count, owner, serving, rearm>>,
         NEW arm \in {"none", "in", "out"}, armed' = [armed EXCEPT ![f] = arm],
         users' \in [Fds -> Conns], \A g \in Fds : users'[g].open = users[g].open,
         \A g \in Fds \ {f} : users'[g] = users[g],
         ghosts' \in [refused : SUBSET Fds, intruded : BOOLEAN, touched : BOOLEAN, raced : BOOLEAN],
         ghosts'.intruded = ghosts.intruded, ghosts'.raced = ghosts.raced,
         \/ workqueue' = workqueue /\ arm # "none" /\ ghosts'.refused = ghosts.refused
            /\ (arm = "out" <=> users'[f].out)
         \/ /\ arm = "none" /\ workqueue' = Append(workqueue, f)
            /\ ghosts'.refused = ghosts.refused /\ kind = "in" /\ users' = users
         \/ /\ arm = "none" /\ workqueue' = workqueue
            /\ ghosts'.refused = ghosts.refused \cup {f}
  PROVE  ServerInv'
<1>1. /\ armed' \in [Fds -> {"none", "new", "in", "out"}] /\ armed'[f] = arm
      /\ \A g \in Fds \ {f} : armed'[g] = armed[g]
  BY DEF ServerInv, TypeInv
<1>2. /\ workqueue' \in Seq(Fds)
      /\ workqueue' = Append(workqueue, f) =>
           /\ Len(workqueue') = Len(workqueue) + 1 /\ Len(workqueue) \in Nat
           /\ workqueue'[Len(workqueue) + 1] = f
           /\ \A i \in 1..Len(workqueue) : workqueue'[i] = workqueue[i]
  <2>1. workqueue \in Seq(Fds) /\ Len(workqueue) \in Nat
    BY LenProperties DEF ServerInv, TypeInv
  <2>2. CASE workqueue' = workqueue
    <3>1. workqueue' # Append(workqueue, f)
      BY <2>1, <2>2, AppendProperties
    <3> QED
      BY <2>1, <2>2, <3>1
  <2>3. CASE workqueue' = Append(workqueue, f)
    BY <2>1, <2>3, AppendProperties
  <2> QED
    BY <2>2, <2>3
<1>3. TypeInv'
  BY <1>1, <1>2 DEF ServerInv, TypeInv
<1>4. CountInv'
  <2>1. OpenConns' = OpenConns
    BY DEF OpenConns
  <2> QED
    BY <2>1 DEF ServerInv, CountInv
<1>5. \A g \in Fds \ {f} : \A i : i \in 1..Len(workqueue') /\ workqueue'[i] = g
                                    <=> i \in 1..Len(workqueue) /\ workqueue[i] = g
  <2>1. CASE workqueue' = workqueue
    BY <2>1
  <2>2. CASE workqueue' = Append(workqueue, f)
    <3>1. \A i : i \in 1..Len(workqueue') <=> i \in 1..Len(workqueue) \/ i = Len(workqueue) + 1
      BY <1>2, <2>2
    <3> QED
      BY <1>2, <2>2, <3>1
  <2> QED
    BY <2>1, <2>2
<1>6. ASSUME ~ghosts.intruded, NEW g \in Fds
      PROVE  HeldRight(g)' /\ OutRight(g)'
  <2>1. HeldRight(g) /\ OutRight(g)
    BY <1>6 DEF ServerInv, HolderInv
  <2>2. /\ armed[f] = "none" /\ ~InQueue(f) /\ ~InHands(f) /\ ~InBatch(f)'
        /\ users[f].open /\ f \notin ghosts.refused
        /\ g # f => \A d : d[2] = g => (d \in batch' <=> d \in batch)
    BY <1>6, EventTaken
  <2>3. CASE g # f
    <3>1. InBatch(g)' <=> InBatch(g)
      BY <2>2, <2>3 DEF InBatch
    <3>2. InQueue(g)' <=> InQueue(g)
      BY <1>5, <2>3 DEF InQueue
    <3>3. InHands(g)' <=> InHands(g)
      BY DEF InHands
    <3>4. armed'[g] = armed[g] /\ users'[g] = users[g] /\ (g \in ghosts'.refused <=> g \in ghosts.refused)
      BY <1>1, <2>3
    <3>5. HeldRight(g)'
      <4>1. Watched(g)' <=> Watched(g)
        BY <3>1, <3>2, <3>3, <3>4 DEF Watched
      <4>2. Once(g)'
        <5>1. Once(g)
          BY <2>1 DEF HeldRight
        <5>2. \A d, e \in batch' : d[2] = g /\ e[2] = g => d = e
          BY <5>1 DEF Once
        <5>3. \A i, j \in 1..Len(workqueue') : workqueue'[i] = g /\ workqueue'[j] = g => i = j
          BY <1>5, <2>3, <5>1 DEF Once
        <5> QED
          BY <3>1, <3>2, <3>3, <3>4, <5>1, <5>2, <5>3 DEF Once
      <4> QED
        BY <2>1, <3>4, <4>1, <4>2 DEF HeldRight
    <3>6. OutRight(g)'
      <4>1. <<"in", g>>[2] = g
        OBVIOUS
      <4> QED
        BY <2>1, <2>2, <2>3, <3>2, <3>4, <4>1 DEF OutRight
    <3> QED
      BY <3>5, <3>6
  <2>4. CASE g = f
    <3>1. ~InHands(f)' /\ users'[f].open
      BY <2>2 DEF InHands
    <3>2. ~InBatch(f)'
      BY <2>2
    <3>3. <<"in", f>>[2] = f
      OBVIOUS
    <3>4. CASE workqueue' = workqueue
      <4>1. ~InQueue(f)'
        BY <2>2, <3>4 DEF InQueue
      <4>2. workqueue' # Append(workqueue, f)
        BY <1>2, <3>4
      <4>3. HeldRight(f)'
        <5>1. Once(f)'
          BY <3>1, <3>2, <4>1 DEF Once, InBatch, InQueue, InHands
        <5> QED
          BY <1>1, <2>2, <3>1, <3>2, <4>1, <4>2, <5>1 DEF HeldRight, Watched
      <4>4. OutRight(f)'
        BY <1>1, <3>1, <3>2, <3>3, <4>1, <4>2 DEF OutRight, InBatch, InHands
      <4> QED
        BY <2>4, <4>3, <4>4
    <3>5. CASE workqueue' = Append(workqueue, f)
      <4>1. /\ arm = "none" /\ kind = "in" /\ users' = users /\ ghosts'.refused = ghosts.refused
        BY <1>2, <3>5
      <4>2. \A i \in 1..Len(workqueue') : workqueue'[i] = f => i = Len(workqueue) + 1
        <5>1. \A i : i \in 1..Len(workqueue') => i \in 1..Len(workqueue) \/ i = Len(workqueue) + 1
          BY <1>2, <3>5
        <5> QED
          BY <1>2, <2>2, <3>5, <5>1 DEF InQueue
      <4>3. InQueue(f)'
        <5>1. Len(workqueue) + 1 \in 1..Len(workqueue')
          BY <1>2, <3>5
        <5> QED
          BY <1>2, <3>5, <5>1 DEF InQueue
      <4>4. ~users[f].out
        BY <2>1, <2>4, <4>1 DEF OutRight
      <4>5. HeldRight(f)'
        <5>1. Once(f)'
          BY <1>1, <3>1, <3>2, <4>1, <4>2 DEF Once, InBatch, InHands
        <5> QED
          BY <2>2, <3>1, <4>1, <4>3, <5>1 DEF HeldRight, Watched
      <4>6. OutRight(f)'
        BY <1>1, <3>1, <3>2, <3>3, <4>1, <4>4 DEF OutRight, InBatch, InHands
      <4> QED
        BY <2>4, <4>5, <4>6
    <3> QED
      BY <3>4, <3>5
  <2> QED
    BY <2>3, <2>4
<1> QED
  BY <1>3, <1>4, <1>6 DEF ServerInv, HolderInv

(* After a timeout has hit a held connection only the count is promised.   *)
LEMMA IntrudedKeeps ==
  ASSUME ServerInv, ghosts'.intruded, UNCHANGED <<armed, users, user_count, owner, rearm, serving>>,
         batch' \subseteq batch, workqueue' \in Seq(Fds),
         kernel' \in [Fds -> Kernels], \A f \in Fds : kernel'[f].open = kernel[f].open,
         ghosts' \in [refused : SUBSET Fds, intruded : BOOLEAN, touched : BOOLEAN, raced : BOOLEAN],
         ghosts'.raced = ghosts.raced
  PROVE  ServerInv'
<1>1. TypeInv'
  BY DEF ServerInv, TypeInv
<1>2. OpenConns' = OpenConns
  BY DEF OpenConns
<1>3. CountInv'
  BY <1>2 DEF ServerInv, CountInv
<1> QED
  BY <1>1, <1>3 DEF ServerInv, HolderInv

(* read() of the input: the connection is queued, refused or closed.       *)
LEMMA InputKeeps ==
  ASSUME ServerInv, NEW f \in Fds, Input(f)
  PROVE  ServerInv'
<1> DEFINE t == users[f].timer
           live == t \in Elements(heap)
           received == users[f].open /\ kernel[f].input
           full == Len(workqueue) > MaxRequests
<1>1. /\ <<"in", f>> \in batch /\ batch' = batch \ {<<"in", f>>}
      /\ UNCHANGED <<owner, rearm>>
  BY DEF Input, Handled
<1>2. ghosts' = [ghosts EXCEPT !.touched = @ \/ ~live,
                               !.refused = IF received /\ full THEN @ \cup {f} ELSE @]
  BY DEF Input
<1>3. /\ ghosts' \in [refused : SUBSET Fds, intruded : BOOLEAN, touched : BOOLEAN, raced : BOOLEAN]
      /\ ghosts'.intruded = ghosts.intruded /\ ghosts'.raced = ghosts.raced
      /\ ghosts'.refused = IF received /\ full THEN ghosts.refused \cup {f} ELSE ghosts.refused
  <2>1. PICK b \in BOOLEAN : b = (ghosts.touched \/ ~live)
    BY Zenon
  <2>2. PICK r \in SUBSET Fds : r = IF received /\ full THEN ghosts.refused \cup {f} ELSE ghosts.refused
    BY DEF ServerInv, TypeInv
  <2>3. ghosts' = [ghosts EXCEPT !.touched = b, !.refused = r]
    BY <1>2, <2>1, <2>2, Zenon
  <2> QED
    BY <2>1, <2>2, <2>3 DEF ServerInv, TypeInv
<1>4. CASE ~received
  <2>1. CloseConns({f}) /\ UNCHANGED <<workqueue, serving>>
    BY <1>4 DEF Input
  <2>2. ghosts'.refused = ghosts.refused /\ UNCHANGED poolVars
    BY <1>1, <1>3, <1>4, <2>1 DEF poolVars
  <2> QED
    BY <1>1, <1>3, <2>1, <2>2, EventCloses
<1>5. CASE received
  <2>1. /\ kernel' = [kernel EXCEPT ![f].input = FALSE]
        /\ UNCHANGED <<armed, users, user_count>>
        /\ IF full THEN UNCHANGED <<workqueue, serving>> ELSE Pool!Submit(f)
    BY <1>5 DEF Input
  <2>2. kernel' \in [Fds -> Kernels] /\ \A g \in Fds : kernel'[g].open = kernel[g].open
    <3>1. kernel[f] \in Kernels
      BY DEF ServerInv, TypeInv
    <3>2. PICK k \in Kernels : k = [kernel[f] EXCEPT !.input = FALSE]
      BY <3>1 DEF Kernels
    <3>3. k.open = kernel[f].open
      BY <3>1, <3>2 DEF Kernels
    <3>4. kernel' = [kernel EXCEPT ![f] = k]
      BY <2>1, <3>2
    <3> QED
      BY <3>3, <3>4 DEF ServerInv, TypeInv
  <2>3. CASE ghosts.intruded
    <3>1. workqueue' \in Seq(Fds) /\ serving' = serving
      <4>1. workqueue \in Seq(Fds) /\ Append(workqueue, f) \in Seq(Fds)
        BY AppendProperties DEF ServerInv, TypeInv
      <4> QED
        BY <2>1, <4>1 DEF Pool!Submit
    <3>2. batch' \subseteq batch /\ ghosts'.intruded
      BY <1>1, <1>3, <2>3
    <3> QED
      BY <1>1, <1>3, <2>1, <2>2, <3>1, <3>2, IntrudedKeeps
  <2>4. CASE ~ghosts.intruded
    <3>1. armed[f] = "none"
      BY <1>1, <2>4, EventTaken
    <3>2. armed' = [armed EXCEPT ![f] = "none"]
      BY <2>1, <3>1 DEF ServerInv, TypeInv
    <3>3. users' \in [Fds -> Conns]
      BY <2>1 DEF ServerInv, TypeInv
    <3>4. CASE full
      <4>1. workqueue' = workqueue /\ serving' = serving /\ ghosts'.refused = ghosts.refused \cup {f}
        BY <1>3, <1>5, <2>1, <3>4
      <4> QED
        BY <1>1, <1>3, <2>1, <2>2, <3>2, <3>3, <4>1, EventPasses
    <3>5. CASE ~full
      <4>1. /\ workqueue' = Append(workqueue, f) /\ serving' = serving
            /\ ghosts'.refused = ghosts.refused
        BY <1>3, <2>1, <3>5 DEF Pool!Submit
      <4> QED
        BY <1>1, <1>3, <2>1, <2>2, <3>2, <3>3, <4>1, EventPasses
    <3> QED
      BY <3>4, <3>5
  <2> QED
    BY <2>3, <2>4
<1> QED
  BY <1>4, <1>5

(* write(): the connection is armed again or closed.                       *)
LEMMA OutputKeeps ==
  ASSUME ServerInv, NEW f \in Fds, Flush(f) \/ WriteBlocked(f) \/ HangUp(f)
  PROVE  ServerInv'
<1>1. /\ UNCHANGED <<owner, poolVars, serving, rearm, workqueue>> /\ ghosts' = ghosts
      /\ ghosts' \in [refused : SUBSET Fds, intruded : BOOLEAN, touched : BOOLEAN, raced : BOOLEAN]
  BY DEF Flush, WriteBlocked, HangUp, timerVars, poolVars, ServerInv, TypeInv
<1>2. PICK kind \in {"out", "hup"} : <<kind, f>> \in batch /\ batch' = batch \ {<<kind, f>>}
  BY DEF Flush, WriteBlocked, HangUp, Handled
<1>3. CASE CloseConns({f})
  BY <1>1, <1>2, <1>3, EventCloses
<1>4. ASSUME NEW arm \in {"in", "out"}, armed' = [armed EXCEPT ![f] = arm],
             UNCHANGED <<kernel, user_count>>,
             \/ arm = "in" /\ users' = [users EXCEPT ![f].out = FALSE]
             \/ arm = "out" /\ users' = users /\ users[f].out
      PROVE  ServerInv'
  <2>1. kernel' \in [Fds -> Kernels] /\ \A g \in Fds : kernel'[g].open = kernel[g].open
    BY <1>4 DEF ServerInv, TypeInv
  <2>2. /\ users' \in [Fds -> Conns] /\ \A g \in Fds \ {f} : users'[g] = users[g]
        /\ users'[f].open = users[f].open /\ (arm = "out" <=> users'[f].out)
    <3>1. users[f] \in Conns
      BY DEF ServerInv, TypeInv
    <3>2. PICK u \in Conns : u = [users[f] EXCEPT !.out = FALSE]
      BY <3>1 DEF Conns
    <3>3. u.open = users[f].open /\ ~u.out
      BY <3>1, <3>2 DEF Conns
    <3>4. CASE arm = "in"
      <4>1. users' = [users EXCEPT ![f] = u]
        BY <1>4, <3>2, <3>4
      <4> QED
        BY <3>3, <3>4, <4>1 DEF ServerInv, TypeInv
    <3>5. CASE arm = "out"
      BY <1>4, <3>5 DEF ServerInv, TypeInv
    <3> QED
      BY <3>4, <3>5
  <2>3. \A g \in Fds : users'[g].open = users[g].open
    BY <2>2
  <2> QED
    BY <1>1, <1>2, <1>4, <2>1, <2>2, <2>3, EventPasses
<1> QED
  BY <1>3, <1>4 DEF Flush, WriteBlocked, HangUp

-----------------------------------------------------------------------------
(* The workers.                                                            *)

(* The oldest entry of the queue is the worker's from now on.              *)
LEMMA TakeKeeps ==
  ASSUME ServerInv, NEW w \in Workers, Take(w)
  PROVE  ServerInv'
<1> USE HttpServerAssumption DEF HttpServerAssumption
<1>1. /\ UNCHANGED <<kernel, armed, users, user_count, batch, owner, rearm, ghosts>>
      /\ serving[w] = NoFd /\ workqueue # <<>>
      /\ serving' = [serving EXCEPT ![w] = Head(workqueue)] /\ workqueue' = Tail(workqueue)
  BY DEF Take, connVars, timerVars, Pool!Take
<1>2. PICK f \in Fds :
        /\ f = Head(workqueue) /\ f = workqueue[1]
        /\ workqueue' \in Seq(Fds) /\ Len(workqueue') = Len(workqueue) - 1
        /\ Len(workqueue) \in Nat \ {0}
        /\ \A i \in 1..Len(workqueue') : workqueue'[i] = workqueue[i + 1]
  <2>1. workqueue \in Seq(Fds) /\ workqueue # <<>> /\ TypeInv
    BY <1>1 DEF ServerInv, TypeInv
  <2>2. /\ Head(workqueue) \in Fds /\ Tail(workqueue) \in Seq(Fds)
        /\ Len(Tail(workqueue)) = Len(workqueue) - 1
        /\ \A i \in 1..Len(Tail(workqueue)) : Tail(workqueue)[i] = workqueue[i + 1]
    BY <2>1, HeadTailProperties
  <2>3. Len(workqueue) \in Nat \ {0}
    BY <2>1, EmptySeq, LenProperties
  <2>4. Head(workqueue) = workqueue[1]
    BY <2>1
  <2> QED
    BY <1>1, <2>2, <2>3, <2>4
<1>3. /\ serving' \in [Workers -> Fds \cup {NoFd}] /\ serving'[w] = f
      /\ \A v \in Workers \ {w} : serving'[v] = serving[v]
      /\ rearm[w] = "none"
  BY <1>1, <1>2 DEF ServerInv, TypeInv
<1>4. TypeInv'
  BY <1>1, <1>2, <1>3 DEF ServerInv, TypeInv
<1>5. CountInv'
  <2>1. OpenConns' = OpenConns
    BY <1>1 DEF OpenConns
  <2> QED
    BY <1>1, <2>1 DEF ServerInv, CountInv
<1>6. ASSUME ~ghosts.intruded, NEW g \in Fds
      PROVE  HeldRight(g)' /\ OutRight(g)'
  <2>1. HeldRight(g) /\ OutRight(g)
    BY <1>6 DEF ServerInv, HolderInv
  <2>2. InBatch(g)' <=> InBatch(g)
    BY <1>1 DEF InBatch
  <2>3. \A i \in 1..Len(workqueue') : i + 1 \in 1..Len(workqueue)
    BY <1>2
  <2>4. \A i, j \in 1..Len(workqueue') : workqueue'[i] = g /\ workqueue'[j] = g => i = j
    <3> SUFFICES ASSUME NEW i \in 1..Len(workqueue'), NEW j \in 1..Len(workqueue'),
                        workqueue'[i] = g, workqueue'[j] = g
                 PROVE  i = j
      OBVIOUS
    <3>1. workqueue[i + 1] = g /\ workqueue[j + 1] = g
      BY <1>2
    <3>2. i + 1 = j + 1
      BY <2>1, <2>3, <3>1 DEF HeldRight, Once
    <3> QED
      BY <1>2, <3>2
  <2>5. CASE g = f
    <3>1. 1 \in 1..Len(workqueue) /\ InQueue(g)
      BY <1>2, <2>5 DEF InQueue
    <3>2. ~InQueue(g)'
      <4> SUFFICES ASSUME NEW i \in 1..Len(workqueue'), workqueue'[i] = g PROVE FALSE
        BY DEF InQueue
      <4>1. workqueue[i + 1] = g /\ i + 1 \in 1..Len(workqueue) /\ i + 1 # 1
        BY <1>2, <2>3
      <4> QED
        BY <1>2, <2>1, <2>5, <3>1, <4>1 DEF HeldRight, Once
    <3>3. ~InHands(g) /\ ~InBatch(g) /\ armed[g] = "none" /\ ~users[g].out
      BY <2>1, <3>1 DEF HeldRight, Once, OutRight
    <3>4. \A v \in Workers : serving'[v] = g <=> v = w
      BY <1>3, <2>5, <3>3 DEF InHands
    <3>5. HeldRight(g)'
      <4>1. InHands(g)'
        BY <3>4 DEF InHands
      <4>2. Once(g)'
        BY <1>1, <2>1, <2>2, <3>2, <3>3, <3>4 DEF HeldRight, Once, InQueue
      <4> QED
        BY <1>1, <2>1, <3>1, <4>1, <4>2 DEF HeldRight, Watched
    <3>6. OutRight(g)'
      <4>1. <<"in", g>>[2] = g
        OBVIOUS
      <4> QED
        BY <1>1, <1>3, <2>5, <3>2, <3>3, <3>4, <4>1 DEF OutRight, InBatch
    <3> QED
      BY <3>5, <3>6
  <2>6. CASE g # f
    <3>1. InQueue(g)' <=> InQueue(g)
      <4>1. ASSUME NEW i \in 1..Len(workqueue), workqueue[i] = g PROVE InQueue(g)'
        <5>1. i - 1 \in 1..Len(workqueue') /\ (i - 1) + 1 = i
          BY <1>2, <2>6, <4>1
        <5>2. workqueue'[i - 1] = g
          BY <1>2, <4>1, <5>1
        <5> QED
          BY <5>1, <5>2 DEF InQueue
      <4> QED
        BY <1>2, <2>3, <4>1 DEF InQueue
    <3>2. \A v \in Workers : serving'[v] = g <=> serving[v] = g
      BY <1>1, <1>3, <2>6
    <3>3. InHands(g)' <=> InHands(g)
      BY <3>2 DEF InHands
    <3>4. HeldRight(g)'
      <4>1. Once(g)'
        BY <1>1, <2>1, <2>2, <2>4, <3>1, <3>2, <3>3 DEF HeldRight, Once
      <4> QED
        BY <1>1, <2>1, <2>2, <3>1, <3>3, <4>1 DEF HeldRight, Watched
    <3>5. OutRight(g)'
      BY <1>1, <2>1, <3>1, <3>2 DEF OutRight
    <3> QED
      BY <3>4, <3>5
  <2> QED
    BY <2>5, <2>6
<1> QED
  BY <1>1, <1>4, <1>5, <1>6 DEF ServerInv, HolderInv

(* The response is known to the worker that wrote it, who is alone.        *)
LEMMA AnswerKeeps ==
  ASSUME ServerInv, NEW w \in Workers, Process(w),
         UNCHANGED <<kernel, armed, user_count, ghosts>>,
         \/ rearm' = [rearm EXCEPT ![w] = "in"] /\ users' = users
         \/ rearm' = [rearm EXCEPT ![w] = "out"] /\ users' = [users EXCEPT ![serving[w]].out = TRUE]
  PROVE  ServerInv'
<1> USE HttpServerAssumption DEF HttpServerAssumption
<1>1. /\ UNCHANGED <<kernel, armed, batch, user_count, owner, workqueue, serving, ghosts>>
      /\ serving[w] # NoFd /\ rearm[w] = "none"
  BY DEF Process, timerVars
<1>2. PICK f \in Fds : f = serving[w]
  BY <1>1 DEF ServerInv, TypeInv
<1>3. PICK arm \in {"in", "out"} :
        /\ rearm' = [rearm EXCEPT ![w] = arm]
        /\ arm = "in" => users' = users
        /\ arm = "out" => users' = [users EXCEPT ![f].out = TRUE]
  BY <1>2
<1>4. /\ rearm' \in [Workers -> {"none", "in", "out"}] /\ rearm'[w] = arm
      /\ \A v \in Workers \ {w} : rearm'[v] = rearm[v]
  BY <1>3 DEF ServerInv, TypeInv
<1>5. /\ users' \in [Fds -> Conns] /\ \A g \in Fds \ {f} : users'[g] = users[g]
      /\ users'[f].open = users[f].open
      /\ users'[f].out <=> arm = "out" \/ users[f].out
  <2>1. users[f] \in Conns
    BY DEF ServerInv, TypeInv
  <2>2. PICK u \in Conns : u = [users[f] EXCEPT !.out = TRUE]
    BY <2>1 DEF Conns
  <2>3. u.open = users[f].open /\ u.out
    BY <2>1, <2>2 DEF Conns
  <2>4. CASE arm = "out"
    <3>1. users' = [users EXCEPT ![f] = u]
      BY <1>3, <2>2, <2>4
    <3> QED
      BY <2>3, <2>4, <3>1 DEF ServerInv, TypeInv
  <2>5. CASE arm = "in"
    BY <1>3, <2>5 DEF ServerInv, TypeInv
  <2> QED
    BY <2>4, <2>5
<1>6. TypeInv'
  BY <1>1, <1>4, <1>5 DEF ServerInv, TypeInv
<1>7. CountInv'
  <2>1. \A g \in Fds : users'[g].open <=> users[g].open
    BY <1>5
  <2>2. OpenConns' = OpenConns
    BY <2>1 DEF OpenConns
  <2> QED
    BY <1>1, <2>1, <2>2 DEF ServerInv, CountInv
<1>8. ASSUME ~ghosts.intruded, NEW g \in Fds
      PROVE  HeldRight(g)' /\ OutRight(g)'
  <2>1. HeldRight(g) /\ OutRight(g)
    BY <1>8 DEF ServerInv, HolderInv
  <2>2. InBatch(g)' = InBatch(g) /\ InQueue(g)' = InQueue(g) /\ InHands(g)' = InHands(g)
    BY <1>1 DEF InBatch, InQueue, InHands
  <2>3. users'[g].open <=> users[g].open
    BY <1>5
  <2>4. HeldRight(g)'
    BY <1>1, <2>1, <2>2, <2>3 DEF HeldRight, Watched, Once
  <2>5. OutRight(g)'
    <3>1. CASE g = f
      <4>1. ~InQueue(g) /\ ~InBatch(g) /\ armed[g] = "none" /\ ~users[g].out
            /\ \A v \in Workers : serving[v] = g => v = w
        BY <1>1, <1>2, <2>1, <3>1 DEF HeldRight, Once, InHands, OutRight
      <4>2. <<"in", g>>[2] = g
        OBVIOUS
      <4> QED
        BY <1>1, <1>4, <1>5, <2>2, <3>1, <4>1, <4>2 DEF OutRight, InBatch
    <3>2. CASE g # f
      BY <1>1, <1>2, <1>4, <1>5, <2>1, <2>2, <3>2 DEF OutRight
    <3> QED
      BY <3>1, <3>2
  <2> QED
    BY <2>4, <2>5
<1> QED
  BY <1>1, <1>6, <1>7, <1>8 DEF ServerInv, HolderInv

(* A worker finds a response in the buffer, and closes, only where a       *)
(* timeout has hit a connection in somebody's hands.                       *)
LEMMA ClosesOnlyIntruded ==
  ASSUME ServerInv, NEW w \in Workers, Process(w), users[serving[w]].out
  PROVE  ghosts.intruded
<1>1. PICK f \in Fds : f = serving[w] /\ rearm[w] = "none"
  BY DEF Process, ServerInv, TypeInv
<1> QED
  BY <1>1 DEF ServerInv, HolderInv, OutRight

LEMMA WorkerClosesKeeps ==
  ASSUME ServerInv, NEW w \in Workers, Process(w), users[serving[w]].out,
         rearm' = [rearm EXCEPT ![w] = "out"], WorkerCloses(serving[w])
  PROVE  ServerInv'
<1>1. /\ UNCHANGED <<batch, owner, workqueue, serving>>
      /\ serving[w] # NoFd /\ ghosts.intruded
  BY ClosesOnlyIntruded DEF Process, timerVars
<1>2. PICK f \in Fds : f = serving[w]
  BY <1>1 DEF ServerInv, TypeInv
<1>3. rearm' \in [Workers -> {"none", "in", "out"}] /\ \A v \in Workers : serving'[v] = NoFd => rearm'[v] = "none"
  BY <1>1 DEF ServerInv, TypeInv
<1>4. CASE UNCHANGED <<connVars, ghosts>>
  <2>1. TypeInv'
    BY <1>1, <1>3, <1>4 DEF ServerInv, TypeInv, connVars
  <2>2. OpenConns' = OpenConns
    BY <1>4 DEF OpenConns, connVars
  <2>3. CountInv'
    BY <1>4, <2>2 DEF ServerInv, CountInv, connVars
  <2> QED
    BY <1>1, <1>4, <2>1, <2>3 DEF ServerInv, HolderInv
<1>5. CASE /\ CloseOpen({f}) /\ user_count' \in (user_count - MaxAccepts)..MaxUsers
           /\ ghosts' = [ghosts EXCEPT !.raced = TRUE]
  <2>1. PICK open \in SUBSET Fds : open = {f}
    BY <1>2
  <2>2. /\ kernel' \in [Fds -> Kernels] /\ users' \in [Fds -> Conns]
        /\ armed' \in [Fds -> {"none", "new", "in", "out"}]
        /\ \A g \in Fds : /\ users'[g].open <=> users[g].open /\ g \notin open
                          /\ kernel'[g].open <=> kernel[g].open /\ g \notin open
    BY <1>5, <2>1, CloseOpenGives DEF ServerInv
  <2>3. /\ ghosts' \in [refused : SUBSET Fds, intruded : BOOLEAN, touched : BOOLEAN, raced : BOOLEAN]
        /\ ghosts'.intruded /\ ghosts'.raced /\ user_count' \in Int
    <3>1. /\ ghosts \in [refused : SUBSET Fds, intruded : BOOLEAN, touched : BOOLEAN, raced : BOOLEAN]
          /\ user_count \in Int
      BY DEF ServerInv, TypeInv
    <3>2. user_count' \in Int
      BY <1>5, <3>1
    <3> QED
      BY <1>1, <1>5, <3>1, <3>2
  <2>4. TypeInv'
    BY <1>1, <1>3, <2>2, <2>3 DEF ServerInv, TypeInv
  <2>5. CountInv'
    BY <2>2, <2>3 DEF ServerInv, CountInv
  <2> QED
    BY <2>3, <2>4, <2>5 DEF ServerInv, HolderInv
<1> QED
  BY <1>2, <1>4, <1>5 DEF WorkerCloses

LEMMA ProcessKeeps ==
  ASSUME ServerInv, NEW w \in Workers, Process(w)
  PROVE  ServerInv'
BY AnswerKeeps, WorkerClosesKeeps DEF Process, connVars

(* modfd(): the worker passes the connection on to epoll.                  *)
LEMMA RearmKeeps ==
  ASSUME ServerInv, NEW w \in Workers, Rearm(w)
  PROVE  ServerInv'
<1> USE HttpServerAssumption DEF HttpServerAssumption
<1>1. /\ UNCHANGED <<kernel, users, batch, user_count, owner, workqueue, ghosts>>
      /\ rearm[w] # "none" /\ serving[w] # NoFd
      /\ serving' = [serving EXCEPT ![w] = NoFd] /\ rearm' = [rearm EXCEPT ![w] = "none"]
      /\ armed' = IF users[serving[w]].open THEN [armed EXCEPT ![serving[w]] = rearm[w]] ELSE armed
  BY DEF Rearm, timerVars, Pool!Finish
<1>2. PICK f \in Fds : f = serving[w]
  BY <1>1 DEF ServerInv, TypeInv
<1>3. /\ rearm' \in [Workers -> {"none", "in", "out"}] /\ rearm'[w] = "none"
      /\ serving' \in [Workers -> Fds \cup {NoFd}] /\ serving'[w] = NoFd
      /\ \A v \in Workers \ {w} : rearm'[v] = rearm[v] /\ serving'[v] = serving[v]
      /\ rearm[w] \in {"in", "out"}
  BY <1>1 DEF ServerInv, TypeInv
<1>4. /\ armed' \in [Fds -> {"none", "new", "in", "out"}]
      /\ users[f].open => armed'[f] = rearm[w]
      /\ ~users[f].open => armed' = armed
      /\ \A g \in Fds \ {f} : armed'[g] = armed[g]
  BY <1>1, <1>2, <1>3 DEF ServerInv, TypeInv
<1>5. TypeInv'
  BY <1>1, <1>3, <1>4 DEF ServerInv, TypeInv
<1>6. CountInv'
  <2>1. OpenConns' = OpenConns
    BY <1>1 DEF OpenConns
  <2> QED
    BY <1>1, <2>1 DEF ServerInv, CountInv
<1>7. ASSUME ~ghosts.intruded, NEW g \in Fds
      PROVE  HeldRight(g)' /\ OutRight(g)'
  <2>1. HeldRight(g) /\ OutRight(g)
    BY <1>7 DEF ServerInv, HolderInv
  <2>2. InBatch(g)' = InBatch(g) /\ InQueue(g)' = InQueue(g)
    BY <1>1 DEF InBatch, InQueue
  <2>3. CASE g = f
    <3>1. /\ ~InQueue(g) /\ ~InBatch(g) /\ armed[g] = "none" /\ users[g].open /\ g \notin ghosts.refused
          /\ \A v \in Workers : serving[v] = g => v = w
          /\ rearm[w] = "out" <=> users[g].out
      BY <1>2, <2>1, <2>3 DEF HeldRight, Once, Watched, InHands, OutRight
    <3>2. \A v \in Workers : serving'[v] # g
      BY <1>3, <2>3, <3>1
    <3>3. ~InHands(g)'
      BY <3>2 DEF InHands
    <3>4. armed'[g] = rearm[w]
      BY <1>4, <2>3, <3>1
    <3>5. HeldRight(g)'
      <4>1. Once(g)'
        BY <1>1, <2>1, <2>2, <3>1, <3>2, <3>3 DEF HeldRight, Once
      <4> QED
        BY <1>1, <1>3, <3>1, <3>4, <4>1 DEF HeldRight, Watched
    <3>6. <<"in", g>>[2] = g
      OBVIOUS
    <3>7. OutRight(g)'
      BY <1>1, <1>3, <2>2, <3>1, <3>2, <3>4, <3>6 DEF OutRight, InBatch
    <3> QED
      BY <3>5, <3>7
  <2>4. CASE g # f
    <3>1. \A v \in Workers : serving'[v] = g <=> serving[v] = g
      BY <1>2, <1>3, <2>4
    <3>2. InHands(g)' <=> InHands(g)
      BY <3>1 DEF InHands
    <3>3. HeldRight(g)'
      <4>1. Once(g)'
        BY <1>1, <1>4, <2>1, <2>2, <2>4, <3>1, <3>2 DEF HeldRight, Once
      <4> QED
        BY <1>1, <1>4, <2>1, <2>2, <2>4, <3>2, <4>1 DEF HeldRight, Watched
    <3>4. \A v \in Workers : serving'[v] = g => rearm'[v] = rearm[v]
      BY <1>3
    <3>5. OutRight(g)'
      BY <1>1, <1>4, <2>1, <2>2, <2>4, <3>1, <3>4 DEF OutRight
    <3> QED
      BY <3>3, <3>5
  <2> QED
    BY <2>3, <2>4
<1> QED
  BY <1>1, <1>5, <1>6, <1>7 DEF ServerInv, HolderInv

LEMMA NextServer == ServerInv /\ [Next]_vars => ServerInv'
<1> SUFFICES ASSUME ServerInv, [Next]_vars PROVE ServerInv'
  OBVIOUS
<1>1. CASE Environment
  BY <1>1, AsideKeeps DEF Environment
<1>2. CASE MainThread
  BY <1>2, AsideKeeps, EpollWaitKeeps, AcceptKeeps, SignalKeeps, InputKeeps, OutputKeeps DEF MainThread
<1>3. ASSUME NEW w \in Workers, Worker(w) PROVE ServerInv'
  BY <1>3, TakeKeeps, ProcessKeeps, RearmKeeps DEF Worker
<1>4. CASE UNCHANGED vars
  <2>1. TypeInv'
    BY <1>4 DEF vars, ServerInv, TypeInv
  <2>2. OpenConns' = OpenConns
    BY <1>4 DEF vars, OpenConns
  <2>3. CountInv'
    BY <1>4, <2>2 DEF vars, ServerInv, CountInv
  <2>4. HolderInv'
    BY <1>4, HolderFrame DEF vars, poolVars, ServerInv, HolderInv
  <2> QED
    BY <2>1, <2>3, <2>4 DEF ServerInv
<1> QED
  BY <1>1, <1>2, <1>3, <1>4 DEF Next

-----------------------------------------------------------------------------
(* The invariant of the reactor.                                           *)
THEOREM ServerInvariant == Spec => []ServerInv
BY InitServer, NextServer, PTL DEF Spec

(* m_user_count, changed by accepts, errors and timeouts and by workers    *)
(* whose answer fails, counts the open connections until two threads have  *)
(* changed it at a time; whoever closes, a connection is open as long as   *)
(* its descriptor is.                                                      *)
THEOREM UserCountExactHolds == Spec => []UserCountExact
<1>1. ServerInv => UserCountExact
  BY DEF ServerInv, CountInv, UserCountExact, OpenConns
<1> QED
  BY <1>1, ServerInvariant, PTL

(* A set with at most one element counts one or none.                      *)
LEMMA CountOnce ==
  ASSUME NEW S, \A x, y \in S : x = y
  PROVE  Cardinality(S) = IF S = {} THEN 0 ELSE 1
<1>1. CASE S = {}
  BY <1>1, FS_EmptySet
<1>2. ASSUME NEW x \in S PROVE Cardinality(S) = 1
  <2>1. S = {x}
    OBVIOUS
  <2> QED
    BY <2>1, FS_Singleton
<1> QED
  BY <1>1, <1>2

(* As long as no timeout has hit a connection in somebody's hands, every   *)
(* open connection has exactly one holder, unless append() refused it.     *)
THEOREM OneHolderHolds == Spec => []OneHolder
<1>1. ServerInv => OneHolder
  <2> SUFFICES ASSUME ServerInv, ~ghosts.intruded, NEW f \in Fds
               PROVE  Holders(f) = IF users[f].open /\ f \notin ghosts.refused THEN 1 ELSE 0
    BY DEF OneHolder
  <2> DEFINE events == {e \in batch : e[2] = f}
             places == {i \in 1..Len(workqueue) : workqueue[i] = f}
             hands == {w \in Workers : serving[w] = f}
  <2>1. HeldRight(f)
    BY DEF ServerInv, HolderInv
  <2>2. Cardinality(events) = IF InBatch(f) THEN 1 ELSE 0
    <3>1. \A d, e \in events : d = e
      BY <2>1 DEF HeldRight, Once
    <3>2. Cardinality(events) = IF events = {} THEN 0 ELSE 1
      BY <3>1, CountOnce
    <3> QED
      BY <3>2 DEF InBatch
  <2>3. Cardinality(places) = IF InQueue(f) THEN 1 ELSE 0
    <3>1. \A i, j \in places : i = j
      BY <2>1 DEF HeldRight, Once
    <3>2. Cardinality(places) = IF places = {} THEN 0 ELSE 1
      BY <3>1, CountOnce
    <3> QED
      BY <3>2 DEF InQueue
  <2>4. Cardinality(hands) = IF InHands(f) THEN 1 ELSE 0
    <3>1. \A v, w \in hands : v = w
      BY <2>1 DEF HeldRight, Once
    <3>2. Cardinality(hands) = IF hands = {} THEN 0 ELSE 1
      BY <3>1, CountOnce
    <3> QED
      BY <3>2 DEF InHands
  <2> HIDE DEF events, places, hands
  <2>5. Holders(f) = (IF armed[f] # "none" THEN 1 ELSE 0) + Cardinality(events)
                       + Cardinality(places) + Cardinality(hands)
    BY DEF Holders, events, places, hands
  <2> QED
    BY <2>1, <2>2, <2>3, <2>4, <2>5 DEF HeldRight, Once, Watched
<1> QED
  BY <1>1, ServerInvariant, PTL

(* A response in the buffer is waited for with EPOLLOUT, and input with    *)
(* EPOLLIN.                                                                *)
THEOREM ArmedForWhatItHasHolds == Spec => []ArmedForWhatItHas
<1>1. ServerInv => ArmedForWhatItHas
  BY DEF ServerInv, HolderInv, OutRight, ArmedForWhatItHas
<1> QED
  BY <1>1, ServerInvariant, PTL

-----------------------------------------------------------------------------
(* The array of timers.  A loop that moves a hole permutes the array, so   *)
(* no timer is lost or doubled whatever the keys are; where the keys were  *)
(* in order but for the timer that is moved, they are in order again.      *)

LEMMA LeastNumber ==
  ASSUME NEW T, T \subseteq Nat, T # {}
  PROVE  \E x \in T : \A y \in T : x <= y
<1> DEFINE R == {ss \in Nat \X Nat : ss[1] < ss[2]}
<1>1. IsWellFoundedOn(R, Nat)
  BY NatLessThanWellFounded DEF OpToRel
<1> HIDE DEF R
<1>2. PICK x \in T : \A y \in T : ~ (<<y, x>> \in R)
  BY <1>1, WFMin
<1>3. \A y \in T : x <= y
  <2> TAKE y \in T
  <2>1. x \in Nat /\ y \in Nat
    OBVIOUS
  <2>2. ~ (y < x)
    BY <1>2, <2>1 DEF R
  <2> QED
    BY <2>1, <2>2
<1> QED
  BY <1>3

Distinct(slots) == \A i, j \in 1..Len(slots) : slots[i] = slots[j] => i = j

(* No timer expires before its parent.                                     *)
HeapOrder(slots, key) == \A i \in 2..Len(slots) : key[slots[i \div 2]] <= key[slots[i]]

LEMMA SameInterval ==
  ASSUME NEW m \in Nat, NEW n \in Nat, 1..m = 1..n
  PROVE  m = n
<1>1. \A i \in Int : (1 <= i /\ i <= m) <=> (1 <= i /\ i <= n)
  OBVIOUS
<1> QED
  BY <1>1

(* As many timers as slots: no timer is there twice.                       *)
LEMMA DistinctCount ==
  ASSUME NEW T, NEW slots \in Seq(T)
  PROVE  /\ IsFiniteSet(Elements(slots))
         /\ Cardinality(Elements(slots)) = Len(slots) <=> Distinct(slots)
<1> DEFINE D == 1..Len(slots)
           R == Elements(slots)
<1>1. slots \in [D -> T] /\ Len(slots) \in Nat /\ DOMAIN slots = D
  BY LenProperties
<1>2. IsFiniteSet(D) /\ Cardinality(D) = Len(slots)
  <2>1. PICK l \in Nat : l = Len(slots)
    BY <1>1
  <2>2. IsFiniteSet(1..l) /\ Cardinality(1..l) = IF 1 > l THEN 0 ELSE l - 1 + 1
    BY FS_Interval
  <2> QED
    BY <2>1, <2>2
<1>3. slots \in Surjection(D, R)
  BY <1>1 DEF Surjection, Elements
<1>4. slots \in Injection(D, R) <=> Distinct(slots)
  <2>1. slots \in [D -> R]
    BY <1>3 DEF Surjection
  <2> QED
    BY <1>1, <2>1 DEF Injection, IsInjective, Distinct
<1> HIDE DEF D, R
<1>5. IsFiniteSet(R) /\ (Cardinality(R) = Cardinality(D) <=> slots \in Injection(D, R))
  BY <1>2, <1>3, FS_Surjection
<1> QED
  BY <1>2, <1>4, <1>5 DEF R

-----------------------------------------------------------------------------
(* What the least set of holes is: h, what follows, and nothing else.      *)
LEMMA HolesFacts ==
  ASSUME NEW n \in Nat, NEW next \in [1..n -> 0..n], NEW h \in 1..n
  PROVE  /\ Holes(next, h) \subseteq 1..n
         /\ h \in Holes(next, h)
         /\ \A q \in Holes(next, h) : next[q] # 0 => next[q] \in Holes(next, h)
         /\ \A p \in Holes(next, h) : p # h => \E q \in Holes(next, h) : next[q] = p
<1> DEFINE D == 1..n
           H == Holes(next, h)
           Closed(S) == h \in S /\ \A q \in S : next[q] # 0 => next[q] \in S
<1>1. \A p : p \in H <=> p \in D /\ \A S \in SUBSET D : Closed(S) => p \in S
  BY DEF Holes
<1>2. H \subseteq D /\ h \in H
  BY <1>1
<1>3. ASSUME NEW q \in H, next[q] # 0 PROVE next[q] \in H
  <2>1. next[q] \in D
    BY <1>2, <1>3
  <2>2. ASSUME NEW S \in SUBSET D, Closed(S) PROVE next[q] \in S
    <3>1. q \in S
      BY <1>1, <2>2
    <3> QED
      BY <1>3, <2>2, <3>1
  <2> HIDE DEF Closed, H
  <2> QED
    BY <1>1, <2>1, <2>2
<1>4. ASSUME NEW p \in H, p # h PROVE \E q \in H : next[q] = p
  <2> SUFFICES ASSUME \A q \in H : next[q] # p PROVE FALSE
    OBVIOUS
  <2>1. H \ {p} \in SUBSET D
    BY <1>2
  <2>2. Closed(H \ {p})
    BY <1>2, <1>3, <1>4
  <2> HIDE DEF Closed, H
  <2>3. p \in H \ {p}
    BY <1>1, <2>1, <2>2
  <2> QED
    BY <2>3
<1> HIDE DEF H
<1> QED
  BY <1>2, <1>3, <1>4 DEF H

(* The hole goes only up or only down, so its way ends.                    *)
Straight(next, n) ==
  /\ next \in [1..n -> 0..n]
  /\ \/ \A q \in 1..n : next[q] < q
     \/ \A q \in 1..n : next[q] # 0 => next[q] > q

LEMMA HolesEnd ==
  ASSUME NEW n \in Nat, NEW next, NEW h \in 1..n, Straight(next, n)
  PROVE  \E e \in Holes(next, h) : next[e] = 0
<1> DEFINE H == Holes(next, h)
<1>1. /\ H \subseteq 1..n /\ h \in H
      /\ \A q \in H : next[q] # 0 => next[q] \in H
      /\ next \in [1..n -> 0..n]
  BY HolesFacts DEF Straight
<1> HIDE DEF H
<1>2. ASSUME \A q \in 1..n : next[q] < q PROVE \E e \in H : next[e] = 0
  <2>1. H \subseteq Nat /\ H # {}
    BY <1>1
  <2>2. PICK e \in H : \A q \in H : e <= q
    BY <2>1, LeastNumber
  <2>3. e \in 1..n /\ next[e] \in 0..n /\ next[e] < e
    BY <1>1, <1>2
  <2>4. next[e] \notin H
    BY <2>2, <2>3
  <2> QED
    BY <1>1, <2>4
<1>3. ASSUME \A q \in 1..n : next[q] # 0 => next[q] > q PROVE \E e \in H : next[e] = 0
  <2> DEFINE T == {k \in Nat : n - k \in H}
  <2>1. T \subseteq Nat /\ n - h \in T
    BY <1>1
  <2>2. PICK k \in T : \A j \in T : k <= j
    BY <2>1, LeastNumber
  <2>3. n - k \in H /\ k \in Nat /\ n - k \in 1..n /\ next[n - k] \in 0..n
    BY <1>1, <2>2
  <2>4. ASSUME next[n - k] # 0 PROVE FALSE
    <3> DEFINE m == next[n - k]
    <3>1. m > n - k /\ m \in H /\ m \in 1..n
      BY <1>1, <1>3, <2>3, <2>4
    <3> HIDE DEF m
    <3>2. n - m \in Nat /\ n - (n - m) = m /\ n - m < k
      BY <2>3, <3>1
    <3>3. n - m \in T
      BY <3>1, <3>2
    <3> QED
      BY <2>2, <2>3, <3>2, <3>3
  <2> QED
    BY <2>3, <2>4
<1> QED
  BY <1>2, <1>3 DEF Straight, H

SameTimers(new, slots, n) == {new[p] : p \in 1..n} = {slots[p] : p \in 1..n}

(* Moving the hole rearranges the first n slots and keeps the others.      *)
LEMMA MoveHoleRearranges ==
  ASSUME NEW T, NEW slots \in Seq(T), NEW n \in 0..Len(slots),
         NEW next, NEW h \in 1..n, Straight(next, n)
  PROVE  /\ MoveHole(slots, next, h) \in Seq(T)
         /\ Len(MoveHole(slots, next, h)) = Len(slots)
         /\ SameTimers(MoveHole(slots, next, h), slots, n)
<1> DEFINE l == Len(slots)
           H == Holes(next, h)
           new == MoveHole(slots, next, h)
<1>1. /\ slots \in [1..l -> T] /\ l \in Nat /\ DOMAIN slots = 1..l
      /\ n \in Nat /\ 1..n \subseteq 1..l /\ next \in [1..n -> 0..n]
  <2>1. slots \in [1..l -> T] /\ l \in Nat /\ DOMAIN slots = 1..l
    BY LenProperties
  <2> QED
    BY <2>1 DEF Straight
<1>2. /\ H \subseteq 1..n /\ h \in H
      /\ \A q \in H : next[q] # 0 => next[q] \in H
      /\ \A p \in H : p # h => \E q \in H : next[q] = p
  BY <1>1, HolesFacts
<1>3. PICK e \in H : next[e] = 0
  BY <1>1, HolesEnd
<1>4. new = [p \in 1..l |-> IF p \notin H THEN slots[p]
                            ELSE IF next[p] # 0 THEN slots[next[p]] ELSE slots[h]]
  BY <1>1 DEF MoveHole
<1> HIDE DEF H, l, new
<1>5. \A p \in 1..l : new[p] \in T
  <2> TAKE p \in 1..l
  <2>1. p \notin H => new[p] \in T
    BY <1>1, <1>4
  <2>2. p \in H /\ next[p] # 0 => new[p] \in T
    BY <1>1, <1>2, <1>4
  <2>3. p \in H /\ next[p] = 0 => new[p] \in T
    BY <1>1, <1>2, <1>4
  <2> QED
    BY <2>1, <2>2, <2>3
<1>6. new \in [1..l -> T]
  BY <1>4, <1>5
<1>7. new \in Seq(T) /\ Len(new) = l
  <2>1. new \in Seq(T)
    BY <1>1, <1>6, SeqDef
  <2>2. DOMAIN new = 1..l /\ DOMAIN new = 1..Len(new) /\ Len(new) \in Nat
    BY <1>6, <2>1, LenProperties
  <2> QED
    BY <1>1, <2>1, <2>2, SameInterval
<1>8. ASSUME NEW p \in 1..n PROVE \E q \in 1..n : new[p] = slots[q]
  <2>1. p \in 1..l
    BY <1>1
  <2>2. p \notin H => new[p] = slots[p]
    BY <1>4, <2>1
  <2>3. p \in H /\ next[p] # 0 => new[p] = slots[next[p]] /\ next[p] \in 1..n
    BY <1>2, <1>4, <2>1
  <2>4. p \in H /\ next[p] = 0 => new[p] = slots[h]
    BY <1>4, <2>1
  <2> QED
    BY <2>2, <2>3, <2>4
<1>9. ASSUME NEW q \in 1..n PROVE \E p \in 1..n : new[p] = slots[q]
  <2>1. q \in 1..l /\ e \in 1..n /\ e \in 1..l
    BY <1>1, <1>2, <1>3
  <2>2. q \notin H => new[q] = slots[q]
    BY <1>4, <2>1
  <2>3. new[e] = slots[h]
    BY <1>3, <1>4, <2>1
  <2>4. ASSUME q \in H, q # h PROVE \E p \in 1..n : new[p] = slots[q]
    <3>1. PICK p \in H : next[p] = q
      BY <1>2, <2>4
    <3>2. p \in 1..n /\ p \in 1..l /\ q # 0
      BY <1>1, <1>2
    <3>3. new[p] = slots[q]
      BY <1>4, <3>1, <3>2
    <3> QED
      BY <3>2, <3>3
  <2> QED
    BY <2>1, <2>2, <2>3, <2>4
<1>10. SameTimers(new, slots, n)
  <2> DEFINE A == {new[p] : p \in 1..n}
             B == {slots[p] : p \in 1..n}
  <2>1. \A x : x \in A => x \in B
    <3> SUFFICES ASSUME NEW p \in 1..n PROVE new[p] \in B
      OBVIOUS
    <3>1. PICK q \in 1..n : new[p] = slots[q]
      BY <1>8
    <3> QED
      BY <3>1
  <2>2. \A x : x \in B => x \in A
    BY <1>9
  <2> QED
    BY <2>1, <2>2 DEF SameTimers
<1> QED
  BY <1>7, <1>10 DEF new, l

-----------------------------------------------------------------------------
LEMMA Halves ==
  ASSUME NEW i \in Nat, i >= 2
  PROVE  /\ i \div 2 \in 1..(i - 1)
         /\ \A j \in Nat : i = 2 * j \/ i = 2 * j + 1 <=> i \div 2 = j
OBVIOUS

(* The way up from the last slot: past the parents that expire later.      *)
GoesUp(next, slots, key) ==
  \A q \in 1..Len(slots) :
    IF q = 1 \/ key[slots[q \div 2]] <= key[slots[Len(slots)]]
      THEN next[q] = 0
      ELSE next[q] = q \div 2 /\ q \div 2 \in 1..(q - 1)

LEMMA UpwardFacts ==
  ASSUME NEW T, NEW slots \in Seq(T), NEW key \in [T -> Nat], Len(slots) > 0
  PROVE  /\ Straight(Upward(slots, key), Len(slots))
         /\ GoesUp(Upward(slots, key), slots, key)
<1> DEFINE n == Len(slots)
           next == Upward(slots, key)
           stops(q) == q = 1 \/ key[slots[q \div 2]] <= key[slots[n]]
<1>1. n \in Nat
  BY LenProperties
<1>2. next = [q \in 1..n |-> IF stops(q) THEN 0 ELSE q \div 2]
  BY DEF Upward
<1>3. \A q \in 1..n : q # 1 => q \div 2 \in 1..(q - 1)
  BY <1>1, Halves
<1> HIDE DEF stops, next, n
<1>4. \A q \in 1..n : IF stops(q) THEN next[q] = 0
                      ELSE next[q] = q \div 2
  BY <1>2
<1>5. \A q \in 1..n : ~stops(q) => q \div 2 \in 1..(q - 1)
  BY <1>3 DEF stops
<1>6. \A q \in 1..n : next[q] \in 0..n /\ next[q] < q
  BY <1>1, <1>4, <1>5
<1>7. next \in [1..n -> 0..n]
  BY <1>2, <1>6
<1>8. Straight(next, n)
  BY <1>6, <1>7 DEF Straight
<1>9. \A q \in 1..n : IF stops(q) THEN next[q] = 0
                      ELSE next[q] = q \div 2 /\ q \div 2 \in 1..(q - 1)
  BY <1>4, <1>5
<1> QED
  BY <1>8, <1>9 DEF GoesUp, stops, next, n

(* The way down: to the child that expires first, if that is earlier.      *)
GoesDown(next, slots, n, key) ==
  \A q \in 1..n :
    \/ /\ next[q] = 0
       /\ \A i \in {2 * q, 2 * q + 1} : i <= n => key[slots[1]] <= key[slots[i]]
    \/ /\ next[q] \in {2 * q, 2 * q + 1} /\ next[q] <= n
       /\ key[slots[next[q]]] < key[slots[1]]
       /\ \A i \in {2 * q, 2 * q + 1} : i <= n => key[slots[next[q]]] <= key[slots[i]]

(* percolate() stays within the n elements, as the slot behind them holds  *)
(* the timer that sinks.                                                   *)
LEMMA DownwardFacts ==
  ASSUME NEW T, NEW slots \in Seq(T), NEW key \in [T -> Nat],
         NEW n \in Nat, n > 0, Len(slots) = n + 1, slots[n + 1] = slots[1]
  PROVE  /\ Straight(Downward(slots, n, key), n)
         /\ GoesDown(Downward(slots, n, key), slots, n, key)
<1> DEFINE next == Downward(slots, n, key)
           child(q) == IF key[slots[2 * q]] > key[slots[2 * q + 1]] THEN 2 * q + 1 ELSE 2 * q
           stops(q) == 2 * q > n \/ key[slots[child(q)]] >= key[slots[1]]
           k(i) == key[slots[i]]
<1>1. next = [q \in 1..n |-> IF stops(q) THEN 0 ELSE child(q)]
  BY DEF Downward
<1>2. \A i \in 1..(n + 1) : k(i) \in Nat
  <2>1. \A i \in 1..(n + 1) : slots[i] \in T
    BY ElementOfSeq
  <2> QED
    BY <2>1
<1>3. k(n + 1) = k(1)
  OBVIOUS
<1> HIDE DEF next
<1>4. ASSUME NEW q \in 1..n
      PROVE  \/ /\ next[q] = 0
                /\ \A i \in {2 * q, 2 * q + 1} : i <= n => k(1) <= k(i)
             \/ /\ next[q] \in {2 * q, 2 * q + 1} /\ next[q] <= n
                /\ k(next[q]) < k(1)
                /\ \A i \in {2 * q, 2 * q + 1} : i <= n => k(next[q]) <= k(i)
  <2>1. next[q] = IF 2 * q > n \/ k(child(q)) >= k(1) THEN 0 ELSE child(q)
    BY <1>1
  <2>2. child(q) = IF k(2 * q) > k(2 * q + 1) THEN 2 * q + 1 ELSE 2 * q
    OBVIOUS
  <2>3. 2 * q <= n => /\ 2 * q \in 1..(n + 1) /\ 2 * q + 1 \in 1..(n + 1)
                      /\ 1 \in 1..(n + 1)
    OBVIOUS
  <2> HIDE DEF k, child
  <2>4. ASSUME 2 * q > n
        PROVE  next[q] = 0 /\ \A i \in {2 * q, 2 * q + 1} : ~ (i <= n)
    BY <2>1, <2>4
  <2>5. ASSUME 2 * q <= n, k(2 * q) > k(2 * q + 1)
        PROVE  \/ next[q] = 0 /\ k(1) <= k(2 * q) /\ k(1) <= k(2 * q + 1)
               \/ /\ next[q] = 2 * q + 1 /\ 2 * q + 1 <= n
                  /\ k(2 * q + 1) < k(1) /\ k(2 * q + 1) <= k(2 * q)
    <3>1. child(q) = 2 * q + 1
      BY <2>2, <2>5
    <3>2. k(2 * q) \in Nat /\ k(2 * q + 1) \in Nat /\ k(1) \in Nat
      BY <1>2, <2>3, <2>5
    <3>3. k(2 * q + 1) < k(1) => 2 * q + 1 # n + 1
      <4>1. 2 * q + 1 = n + 1 => k(2 * q + 1) = k(1)
        BY <1>3
      <4> QED
        BY <3>2, <4>1
    <3>4. k(2 * q + 1) < k(1) => 2 * q + 1 <= n
      BY <2>5, <3>3
    <3> QED
      BY <2>1, <2>5, <3>1, <3>2, <3>4
  <2>6. ASSUME 2 * q <= n, ~ (k(2 * q) > k(2 * q + 1))
        PROVE  \/ next[q] = 0 /\ k(1) <= k(2 * q) /\ k(1) <= k(2 * q + 1)
               \/ /\ next[q] = 2 * q /\ k(2 * q) < k(1) /\ k(2 * q) <= k(2 * q + 1)
    <3>1. child(q) = 2 * q
      BY <2>2, <2>6
    <3>2. k(2 * q) \in Nat /\ k(2 * q + 1) \in Nat /\ k(1) \in Nat
      BY <1>2, <2>3, <2>6
    <3> QED
      BY <2>1, <2>6, <3>1, <3>2
  <2>7. 2 * q <= n => k(2 * q) <= k(2 * q) /\ k(2 * q + 1) <= k(2 * q + 1)
    BY <1>2, <2>3
  <2> QED
    BY <2>4, <2>5, <2>6, <2>7
<1>5. ASSUME NEW q \in 1..n PROVE next[q] \in 0..n /\ (next[q] # 0 => next[q] > q)
  <2>1. \/ next[q] = 0
        \/ next[q] \in {2 * q, 2 * q + 1} /\ next[q] <= n
    BY <1>4
  <2> QED
    BY <2>1
<1>6. next \in [1..n -> 0..n]
  BY <1>1, <1>5
<1>7. Straight(next, n)
  BY <1>5, <1>6 DEF Straight
<1> QED
  BY <1>4, <1>7 DEF GoesDown, next

-----------------------------------------------------------------------------
(* What add_timer() does to the array: it gains t, and stays in order.     *)
LEMMA AddTimerKeeps ==
  ASSUME NEW T, NEW slots \in Seq(T), NEW key \in [T -> Nat], NEW t \in T
  PROVE  /\ AddTimer(slots, key, t) \in Seq(T)
         /\ Len(AddTimer(slots, key, t)) = Len(slots) + 1
         /\ Elements(AddTimer(slots, key, t)) = Elements(slots) \cup {t}
         /\ HeapOrder(slots, key) => HeapOrder(AddTimer(slots, key, t), key)
<1> DEFINE grown == Append(slots, t)
           n == Len(grown)
           next == Upward(grown, key)
           new == AddTimer(slots, key, t)
           H == Holes(next, n)
<1>1. /\ grown \in Seq(T) /\ n = Len(slots) + 1 /\ Len(slots) \in Nat
      /\ \A i \in 1..Len(slots) : grown[i] = slots[i]
      /\ grown[n] = t
  BY AppendProperties, LenProperties
<1>2. new = MoveHole(grown, next, n)
  BY DEF AddTimer
<1>3. grown \in [1..n -> T] /\ DOMAIN grown = 1..n /\ n \in 1..n /\ n \in Nat
  <2> HIDE DEF grown
  <2>1. n \in Nat /\ n \in 1..n
    BY <1>1
  <2>2. grown \in [1..n -> T] /\ DOMAIN grown = 1..n
    BY <1>1, LenProperties
  <2> QED
    BY <2>1, <2>2
<1> HIDE DEF grown, n, next, new
<1>4. Straight(next, n) /\ GoesUp(next, grown, key)
  <2>1. n = Len(grown) /\ Len(grown) > 0
    BY <1>3 DEF n
  <2> QED
    BY <1>1, <2>1, UpwardFacts DEF next
<1>5. new \in Seq(T) /\ Len(new) = n /\ SameTimers(new, grown, n)
  <2>1. n \in 0..Len(grown) /\ Len(grown) = n
    BY <1>3 DEF n
  <2>2. grown \in Seq(T)
    BY <1>1
  <2>3. Straight(next, n)
    BY <1>4
  <2>4. /\ MoveHole(grown, next, n) \in Seq(T)
        /\ Len(MoveHole(grown, next, n)) = Len(grown)
        /\ SameTimers(MoveHole(grown, next, n), grown, n)
    BY <1>3, <2>1, <2>2, <2>3, MoveHoleRearranges
  <2> QED
    BY <1>2, <2>1, <2>4
<1>6. Elements(new) = Elements(slots) \cup {t}
  <2>1. Elements(new) = {grown[p] : p \in 1..n}
    BY <1>5 DEF SameTimers, Elements
  <2>2. ASSUME NEW p \in 1..n PROVE grown[p] \in Elements(slots) \cup {t}
    <3>1. p \in 1..Len(slots) \/ p = n
      BY <1>1
    <3> QED
      BY <1>1, <3>1 DEF Elements
  <2>3. ASSUME NEW p \in 1..Len(slots) PROVE slots[p] \in {grown[i] : i \in 1..n}
    <3>1. p \in 1..n /\ grown[p] = slots[p]
      BY <1>1
    <3> QED
      BY <3>1
  <2>4. t \in {grown[i] : i \in 1..n}
    BY <1>1, <1>3
  <2> QED
    BY <2>1, <2>2, <2>3, <2>4 DEF Elements
<1>7. ASSUME HeapOrder(slots, key) PROVE HeapOrder(new, key)
  <2> DEFINE k(i) == key[grown[i]]
             e(i) == key[new[i]]
  <2>1. /\ H \subseteq 1..n /\ n \in H
        /\ \A q \in H : next[q] # 0 => next[q] \in H
        /\ \A p \in H : p # n => \E q \in H : next[q] = p
    BY <1>3, <1>4, HolesFacts DEF Straight
  <2>2. new = [p \in 1..n |-> IF p \notin H THEN grown[p]
                              ELSE IF next[p] # 0 THEN grown[next[p]] ELSE grown[n]]
    BY <1>2, <1>3 DEF MoveHole
  <2> HIDE DEF H
  <2>3. \A i \in 1..n : k(i) \in Nat
    BY <1>3
  <2>4. \A i \in 1..n : e(i) = IF i \notin H THEN k(i)
                               ELSE IF next[i] # 0 THEN k(next[i]) ELSE k(n)
    BY <2>2
  <2>5. \A i \in 2..n : i # n => k(i \div 2) <= k(i)
    <3> TAKE i \in 2..n
    <3> HAVE i # n
    <3>1. i \in 2..Len(slots) /\ i \in 1..Len(slots)
      BY <1>1, <1>3
    <3>2. i \div 2 \in 1..Len(slots)
      BY <3>1, Halves
    <3>3. key[slots[i \div 2]] <= key[slots[i]]
      BY <1>7, <3>1 DEF HeapOrder
    <3> QED
      BY <1>1, <3>1, <3>2, <3>3
  <2>6. key[t] = k(n)
    BY <1>1
  <2>7. \A q \in 1..n : IF q = 1 \/ k(q \div 2) <= k(n)
                          THEN next[q] = 0
                          ELSE next[q] = q \div 2 /\ q \div 2 \in 1..(q - 1)
    BY <1>1, <1>4, <2>6 DEF GoesUp, n
  <2> HIDE DEF k, e
  <2>8. ASSUME NEW p \in H, p # n PROVE p \in 1..n /\ k(n) < k(p)
    <3>1. PICK q \in H : next[q] = p
      BY <2>1, <2>8
    <3>2. p \in 1..n /\ q \in 1..n /\ p # 0
      BY <1>3, <2>1
    <3>3. next[q] = q \div 2 /\ ~ (k(q \div 2) <= k(n))
      BY <2>7, <3>1, <3>2
    <3>4. k(p) \in Nat /\ k(n) \in Nat
      BY <1>3, <2>3, <3>2
    <3> QED
      BY <3>1, <3>2, <3>3, <3>4
  <2>9. ASSUME NEW i \in 2..n PROVE e(i \div 2) <= e(i)
    <3> DEFINE j == i \div 2
    <3>1. i \in Nat /\ i >= 2 /\ i \in 1..n /\ i # 1
      BY <1>3
    <3>2. j \in 1..(i - 1)
      BY <3>1, Halves
    <3>3. j \in 1..n /\ j # n
      BY <1>3, <3>1, <3>2
    <3>4. j # 1 => j \in 2..n
      BY <3>3
    <3>5. j \in H => k(n) < k(j)
      BY <2>8, <3>3
    <3>6. next[i] = 0 \/ next[i] = j
      BY <2>7, <3>1
    <3>7. next[i] = 0 => k(j) <= k(n)
      BY <2>7, <3>1, <3>2
    <3>8. i # n => k(j) <= k(i)
      BY <2>5
    <3>9. k(i) \in Nat /\ k(j) \in Nat /\ k(n) \in Nat
      BY <1>3, <2>3, <3>1, <3>3
    <3>10. /\ e(i) = IF i \notin H THEN k(i) ELSE IF next[i] # 0 THEN k(next[i]) ELSE k(n)
           /\ e(j) = IF j \notin H THEN k(j) ELSE IF next[j] # 0 THEN k(next[j]) ELSE k(n)
      BY <2>4, <3>1, <3>3
    <3>11. next[j] # 0 => /\ next[j] \in 1..n /\ k(next[j]) \in Nat
                          /\ k(next[j]) <= k(j)
      <4>1. next[j] # 0 => j # 1 /\ next[j] = j \div 2 /\ j \div 2 \in 1..(j - 1)
        BY <2>7, <3>3
      <4>2. next[j] # 0 => k(j \div 2) <= k(j)
        BY <2>5, <3>3, <3>4, <4>1
      <4>3. next[j] # 0 => next[j] \in 1..n
        BY <1>3, <3>3, <4>1
      <4> QED
        BY <2>3, <4>1, <4>2, <4>3
    <3>12. next[i] # 0 /\ i \in H => j \in H
      BY <2>1, <3>6
    <3>13. i \notin H => i # n
      BY <2>1
    <3> HIDE DEF j
    <3>14. e(j) <= k(j) \/ j \in H
      BY <3>9, <3>10
    <3>15. j \in H => e(j) <= k(j)
      BY <3>5, <3>9, <3>10, <3>11
    <3>16. e(j) <= k(j) /\ e(j) \in Nat
      BY <3>9, <3>10, <3>11, <3>14, <3>15
    <3>17. i \notin H => k(j) <= e(i)
      BY <3>8, <3>10, <3>13
    <3>18. i \in H /\ next[i] # 0 => e(i) = k(j)
      BY <3>6, <3>10
    <3>19. i \in H /\ next[i] = 0 => k(j) <= e(i)
      BY <3>7, <3>10
    <3>20. k(j) <= e(i)
      BY <3>9, <3>17, <3>18, <3>19
    <3>21. e(i) \in Nat
      BY <3>6, <3>9, <3>10
    <3> QED
      BY <3>9, <3>16, <3>20, <3>21 DEF j
  <2> QED
    BY <1>5, <2>9 DEF HeapOrder, e
<1> QED
  BY <1>1, <1>5, <1>6, <1>7 DEF new

-----------------------------------------------------------------------------
(* What pop() does: the array loses its root, and stays in order.          *)
LEMMA PopKeeps ==
  ASSUME NEW T, NEW slots \in Seq(T), NEW key \in [T -> Nat], slots # <<>>
  PROVE  /\ Pop(slots, key) \in Seq(T)
         /\ Len(Pop(slots, key)) = Len(slots) - 1
         /\ Distinct(slots) => Elements(Pop(slots, key)) = Elements(slots) \ {slots[1]}
         /\ HeapOrder(slots, key) => HeapOrder(Pop(slots, key), key)
<1> DEFINE n == Len(slots) - 1
           m == [slots EXCEPT ![1] = slots[n + 1]]
           next == Downward(m, n, key)
           moved == Percolate(m, n, key)
           new == Pop(slots, key)
           H == Holes(next, 1)
<1>1. /\ slots \in [1..(n + 1) -> T] /\ DOMAIN slots = 1..(n + 1) /\ Len(slots) = n + 1
      /\ n \in Nat
  <2>1. /\ slots \in [1..Len(slots) -> T] /\ DOMAIN slots = 1..Len(slots) /\ Len(slots) \in Nat
    BY LenProperties
  <2>2. Len(slots) # 0
    OBVIOUS
  <2> QED
    BY <2>1, <2>2
<1>2. new = SubSeq(moved, 1, n)
  BY DEF Pop
<1>3. moved = MoveHole(m, next, 1)
  BY DEF Percolate
<1> HIDE DEF n
<1>4. /\ m \in Seq(T) /\ Len(m) = n + 1
      /\ m[1] = slots[n + 1] /\ \A i \in 2..(n + 1) : m[i] = slots[i]
  <2>1. 1 \in 1..Len(slots) /\ slots[n + 1] \in T
    BY <1>1
  <2>2. PICK e \in T : e = slots[n + 1]
    BY <2>1
  <2>3. /\ [slots EXCEPT ![1] = e] \in Seq(T)
        /\ Len([slots EXCEPT ![1] = e]) = Len(slots)
        /\ \A i \in 1..Len(slots) : [slots EXCEPT ![1] = e][i] = IF i = 1 THEN e ELSE slots[i]
    BY <2>1, ExceptSeq
  <2>4. m = [slots EXCEPT ![1] = e]
    BY <2>2
  <2> HIDE DEF m
  <2>5. \A i \in 1..(n + 1) : m[i] = IF i = 1 THEN e ELSE slots[i]
    BY <1>1, <2>3, <2>4
  <2> QED
    BY <1>1, <2>2, <2>3, <2>4, <2>5
<1> HIDE DEF m, next, moved, new
<1>5. ASSUME n = 0
      PROVE  /\ new \in Seq(T) /\ Len(new) = n
             /\ Elements(new) = Elements(slots) \ {slots[1]}
             /\ HeapOrder(new, key)
  <2>1. new = <<>>
    BY <1>2, <1>5, SubSeqEmpty
  <2>2. new \in Seq(T) /\ Len(new) = 0
    BY <2>1
  <2>3. Elements(new) = {} /\ HeapOrder(new, key)
    BY <2>2 DEF Elements, HeapOrder
  <2>4. Elements(slots) = {slots[1]}
    BY <1>1, <1>5 DEF Elements
  <2> QED
    BY <1>5, <2>2, <2>3, <2>4
<1>6. ASSUME n # 0
      PROVE  Straight(next, n) /\ GoesDown(next, m, n, key)
  <2>1. n > 0 /\ m[n + 1] = m[1]
    BY <1>1, <1>4, <1>6
  <2> QED
    BY <1>1, <1>4, <2>1, DownwardFacts DEF next
<1>7. ASSUME n # 0
      PROVE  moved \in Seq(T) /\ Len(moved) = n + 1 /\ SameTimers(moved, m, n)
  <2>1. n \in 0..Len(m) /\ 1 \in 1..n /\ m \in Seq(T)
    BY <1>1, <1>4, <1>7
  <2>2. Straight(next, n)
    BY <1>6, <1>7
  <2>3. /\ MoveHole(m, next, 1) \in Seq(T)
        /\ Len(MoveHole(m, next, 1)) = Len(m)
        /\ SameTimers(MoveHole(m, next, 1), m, n)
    BY <2>1, <2>2, MoveHoleRearranges
  <2> QED
    BY <1>3, <1>4, <2>3
<1>8. ASSUME n # 0
      PROVE  /\ new \in Seq(T) /\ Len(new) = n
             /\ \A i \in 1..n : new[i] = moved[i]
  <2>1. \A i \in 1..n : moved[i] \in T
    <3>1. moved \in [1..(n + 1) -> T]
      BY <1>7, <1>8, LenProperties
    <3> QED
      BY <1>1, <3>1
  <2>2. /\ SubSeq(moved, 1, n) \in Seq(T)
        /\ Len(SubSeq(moved, 1, n)) = IF 1 <= n THEN n - 1 + 1 ELSE 0
        /\ \A i \in 1..(n - 1 + 1) : SubSeq(moved, 1, n)[i] = moved[1 + i - 1]
    BY <1>1, <2>1, SubSeqProperties
  <2>3. \A i \in 1..n : i \in 1..(n - 1 + 1) /\ 1 + i - 1 = i
    BY <1>1
  <2> QED
    BY <1>1, <1>2, <1>8, <2>2, <2>3
<1>9. ASSUME n # 0, Distinct(slots) PROVE Elements(new) = Elements(slots) \ {slots[1]}
  <2>1. Elements(new) = {new[i] : i \in 1..n}
    BY <1>8, <1>9 DEF Elements
  <2>2. {new[i] : i \in 1..n} = {moved[i] : i \in 1..n}
    BY <1>8, <1>9
  <2>3. Elements(new) = {m[i] : i \in 1..n}
    BY <1>7, <1>9, <2>1, <2>2 DEF SameTimers
  <2>4. 1 \in 1..(n + 1) /\ n + 1 \in 1..(n + 1) /\ Elements(slots) = {slots[i] : i \in 1..(n + 1)}
    BY <1>1 DEF Elements
  <2>5. ASSUME NEW i \in 1..n PROVE m[i] \in Elements(slots) \ {slots[1]}
    <3>1. PICK j \in 2..(n + 1) : m[i] = slots[j]
      <4>1. i = 1 \/ i \in 2..(n + 1)
        BY <1>1
      <4>2. n + 1 \in 2..(n + 1)
        BY <1>1, <1>9
      <4> QED
        BY <1>4, <4>1, <4>2
    <3>2. j \in 1..(n + 1) /\ j # 1
      BY <1>1
    <3>3. slots[j] # slots[1]
      BY <1>1, <1>9, <2>4, <3>2 DEF Distinct
    <3> QED
      BY <2>4, <3>1, <3>2, <3>3
  <2>6. ASSUME NEW j \in 1..(n + 1), slots[j] # slots[1] PROVE \E i \in 1..n : m[i] = slots[j]
    <3>1. j \in 2..(n + 1)
      BY <1>1, <2>6
    <3>2. j = n + 1 \/ j \in 1..n
      BY <1>1
    <3>3. 1 \in 1..n
      BY <1>1, <1>9
    <3> QED
      BY <1>4, <3>1, <3>2, <3>3
  <2>7. Elements(new) \subseteq Elements(slots) \ {slots[1]}
    BY <2>3, <2>5
  <2>8. Elements(slots) \ {slots[1]} \subseteq Elements(new)
    <3> SUFFICES ASSUME NEW j \in 1..(n + 1), slots[j] # slots[1]
                 PROVE  slots[j] \in {m[i] : i \in 1..n}
      BY <2>3, <2>4
    <3>1. PICK i \in 1..n : m[i] = slots[j]
      BY <2>6
    <3> QED
      BY <3>1
  <2> QED
    BY <2>7, <2>8
<1>10. ASSUME n # 0, HeapOrder(slots, key) PROVE HeapOrder(new, key)
  <2> DEFINE k(i) == key[m[i]]
             e(i) == key[new[i]]
  <2>1. /\ next \in [1..n -> 0..n] /\ 1 \in 1..n
        /\ H \subseteq 1..n /\ 1 \in H
        /\ \A q \in H : next[q] # 0 => next[q] \in H
        /\ \A p \in H : p # 1 => \E q \in H : next[q] = p
    <3>1. 1 \in 1..n /\ next \in [1..n -> 0..n]
      BY <1>1, <1>6, <1>10 DEF Straight
    <3> QED
      BY <1>1, <3>1, HolesFacts
  <2>2. moved = [p \in 1..(n + 1) |-> IF p \notin H THEN m[p]
                                      ELSE IF next[p] # 0 THEN m[next[p]] ELSE m[1]]
    <3>1. DOMAIN m = 1..(n + 1)
      BY <1>4, LenProperties
    <3> QED
      BY <1>3, <3>1 DEF MoveHole
  <2> HIDE DEF H
  <2>3. \A i \in 1..n : k(i) \in Nat
    <3>1. \A i \in 1..n : i \in 1..Len(m)
      BY <1>1, <1>4
    <3>2. \A i \in 1..n : m[i] \in T
      BY <1>4, <3>1, ElementOfSeq
    <3> QED
      BY <3>2
  <2>4. \A i \in 1..n : e(i) = IF i \notin H THEN k(i)
                               ELSE IF next[i] # 0 THEN k(next[i]) ELSE k(1)
    <3> TAKE i \in 1..n
    <3>1. i \in 1..(n + 1) /\ new[i] = moved[i]
      BY <1>1, <1>8, <1>10
    <3> QED
      BY <2>2, <3>1
  <2>5. \A i \in 2..n : i \div 2 # 1 => k(i \div 2) <= k(i)
    <3> TAKE i \in 2..n
    <3> HAVE i \div 2 # 1
    <3>1. i \in 2..(n + 1) /\ i \in 2..Len(slots)
      BY <1>1
    <3>2. i \div 2 \in 2..(n + 1)
      <4>1. i \in Nat /\ i >= 2 /\ i <= n
        BY <1>1
      <4>2. i \div 2 \in 1..(i - 1)
        BY <4>1, Halves
      <4> QED
        BY <1>1, <4>1, <4>2
    <3>3. key[slots[i \div 2]] <= key[slots[i]]
      BY <1>10, <3>1 DEF HeapOrder
    <3> QED
      BY <1>4, <3>1, <3>2, <3>3
  <2>6. \A q \in 1..n :
          \/ /\ next[q] = 0
             /\ \A i \in {2 * q, 2 * q + 1} : i <= n => k(1) <= k(i)
          \/ /\ next[q] \in {2 * q, 2 * q + 1} /\ next[q] <= n
             /\ k(next[q]) < k(1)
             /\ \A i \in {2 * q, 2 * q + 1} : i <= n => k(next[q]) <= k(i)
    BY <1>6, <1>10 DEF GoesDown
  <2> HIDE DEF k, e
  <2>7. ASSUME NEW i \in 2..n PROVE e(i \div 2) <= e(i)
    <3> DEFINE j == i \div 2
    <3>1. i \in Nat /\ i >= 2 /\ i \in 1..n /\ i # 1 /\ i <= n
      BY <1>1
    <3>2. j \in 1..n /\ i \in {2 * j, 2 * j + 1}
      BY <1>1, <3>1, Halves
    <3>3. \A q \in 1..n : i \in {2 * q, 2 * q + 1} => q = j
      BY <1>1, <3>1, Halves
    <3>4. j # 1 => k(j) <= k(i)
      BY <2>5
    <3>5. \A c \in 1..n : c \in {2 * i, 2 * i + 1} => k(i) <= k(c)
      <4> TAKE c \in 1..n
      <4> HAVE c \in {2 * i, 2 * i + 1}
      <4>1. c \in 2..n /\ c \in Nat /\ c >= 2
        BY <1>1, <3>1
      <4>2. c \div 2 = i
        BY <3>1, <4>1, Halves
      <4> QED
        BY <2>5, <3>1, <4>1, <4>2
    <3> HIDE DEF j
    <3>6. /\ e(i) = IF i \notin H THEN k(i) ELSE IF next[i] # 0 THEN k(next[i]) ELSE k(1)
          /\ e(j) = IF j \notin H THEN k(j) ELSE IF next[j] # 0 THEN k(next[j]) ELSE k(1)
      BY <2>4, <3>1, <3>2
    <3>7. ASSUME i \in H PROVE e(j) <= e(i)
      <4>1. PICK q \in H : next[q] = i
        BY <2>1, <3>1, <3>7
      <4>2. q \in 1..n /\ next[q] \in {2 * q, 2 * q + 1} /\ k(i) < k(1)
        <5>1. q \in 1..n /\ next[q] # 0
          BY <2>1, <3>1, <4>1
        <5>2. next[q] \in {2 * q, 2 * q + 1} /\ k(next[q]) < k(1)
          BY <2>6, <5>1
        <5> QED
          BY <4>1, <5>1, <5>2
      <4>3. q = j
        BY <3>3, <4>1, <4>2
      <4>4. e(j) = k(i)
        BY <3>1, <3>6, <4>1, <4>3
      <4>5. next[i] = 0 => e(i) = k(1)
        BY <3>6, <3>7
      <4>6. next[i] # 0 => e(i) = k(next[i]) /\ next[i] \in 1..n /\ k(i) <= k(next[i])
        <5>1. next[i] # 0 => next[i] \in {2 * i, 2 * i + 1} /\ next[i] \in 1..n
          BY <2>1, <2>6, <3>1
        <5> QED
          BY <3>5, <3>6, <3>7, <5>1
      <4>7. k(i) \in Nat /\ k(1) \in Nat
        BY <2>1, <2>3, <3>1
      <4> QED
        BY <4>2, <4>4, <4>5, <4>6, <4>7
    <3>8. ASSUME i \notin H PROVE e(j) <= e(i)
      <4>1. e(i) = k(i)
        BY <3>6, <3>8
      <4>2. j \notin H => e(j) = k(j) /\ j # 1
        BY <2>1, <3>6
      <4>3. j \in H /\ next[j] = 0 => e(j) = k(1) /\ k(1) <= k(i)
        <5>1. next[j] = 0 => \A c \in {2 * j, 2 * j + 1} : c <= n => k(1) <= k(c)
          <6>1. k(next[j]) < k(1) /\ next[j] <= n /\ next[j] \in {2 * j, 2 * j + 1}
                  => next[j] # 0
            BY <3>2
          <6> QED
            BY <2>6, <3>2, <6>1
        <5> QED
          BY <3>1, <3>2, <3>6, <5>1
      <4>4. j \in H /\ next[j] # 0 => e(j) = k(next[j]) /\ k(next[j]) <= k(i)
        BY <2>6, <3>1, <3>2, <3>6
      <4> QED
        BY <3>4, <4>1, <4>2, <4>3, <4>4
    <3> QED
      BY <3>7, <3>8 DEF j
  <2> QED
    BY <1>8, <1>10, <2>7 DEF HeapOrder, e
<1>11. new \in Seq(T) /\ Len(new) = n
  BY <1>5, <1>8
<1>12. Distinct(slots) => Elements(new) = Elements(slots) \ {slots[1]}
  BY <1>5, <1>9
<1>13. HeapOrder(slots, key) => HeapOrder(new, key)
  BY <1>5, <1>10
<1> QED
  BY <1>11, <1>12, <1>13 DEF new, n

-----------------------------------------------------------------------------
(* The root of an array in order expires first.                            *)
LEMMA RootFirst ==
  ASSUME NEW T, NEW slots \in Seq(T), NEW key \in [T -> Nat], HeapOrder(slots, key),
         NEW i \in 1..Len(slots)
  PROVE  key[slots[1]] <= key[slots[i]]
<1> DEFINE k(j) == key[slots[j]]
           B == {j \in 1..Len(slots) : ~ (k(1) <= k(j))}
<1>1. Len(slots) \in Nat
  BY LenProperties
<1>2. \A j \in 1..Len(slots) : k(j) \in Nat
  <2>1. \A j \in 1..Len(slots) : slots[j] \in T
    BY ElementOfSeq
  <2> QED
    BY <2>1
<1>3. \A j \in 2..Len(slots) : k(j \div 2) <= k(j)
  BY DEF HeapOrder
<1> HIDE DEF k
<1>4. 1 \in 1..Len(slots)
  BY <1>1
<1>5. ASSUME B # {} PROVE FALSE
  <2>1. B \subseteq Nat
    BY <1>1
  <2>2. PICK b \in B : \A y \in B : b <= y
    BY <1>5, <2>1, LeastNumber
  <2>3. b \in 1..Len(slots) /\ ~ (k(1) <= k(b)) /\ b # 1
    BY <1>2, <1>4
  <2>4. b \in Nat /\ b >= 2 /\ b \in 2..Len(slots)
    BY <1>1, <2>3
  <2>5. b \div 2 \in 1..(b - 1)
    BY <2>4, Halves
  <2>6. b \div 2 \in 1..Len(slots) /\ ~ (b <= b \div 2)
    BY <1>1, <2>4, <2>5
  <2>7. k(1) <= k(b \div 2)
    BY <2>2, <2>6
  <2>8. k(b \div 2) <= k(b)
    BY <1>3, <2>4
  <2>9. k(1) \in Nat /\ k(b) \in Nat /\ k(b \div 2) \in Nat
    BY <1>2, <1>4, <2>3, <2>6
  <2> QED
    BY <2>3, <2>7, <2>8, <2>9
<1>6. k(1) <= k(i)
  BY <1>5
<1> QED
  BY <1>6 DEF k

Iterates(f, turn, start, l) ==
  f = [k \in 0..l |-> IF k = 0 THEN start ELSE turn[f[k - 1]]]

(* A loop of l turns has a result.                                         *)
LEMMA TurnsExist ==
  ASSUME NEW turn, NEW start, NEW l \in Nat
  PROVE  \E f : Iterates(f, turn, start, l)
<1> DEFINE Has(m) == \E f : f = [k \in 0..m |-> IF k = 0 THEN start ELSE turn[f[k - 1]]]
           B == {m \in Nat : ~Has(m)}
<1>1. Has(0)
  <2> DEFINE f == [k \in 0..0 |-> start]
  <2>1. f = [k \in 0..0 |-> IF k = 0 THEN start ELSE turn[f[k - 1]]]
    OBVIOUS
  <2> QED
    BY <2>1
<1>2. ASSUME NEW m \in Nat, m # 0, Has(m - 1) PROVE Has(m)
  <2>1. PICK g : g = [k \in 0..(m - 1) |-> IF k = 0 THEN start ELSE turn[g[k - 1]]]
    BY <1>2
  <2> DEFINE f == [k \in 0..m |-> IF k = m THEN turn[g[m - 1]] ELSE g[k]]
  <2>2. ASSUME NEW k \in 0..m
        PROVE  f[k] = IF k = 0 THEN start ELSE turn[f[k - 1]]
    <3>1. k = m \/ k \in 0..(m - 1)
      OBVIOUS
    <3>2. k # 0 => k - 1 \in 0..m /\ k - 1 # m /\ f[k - 1] = g[k - 1]
      OBVIOUS
    <3>3. k = m => f[k] = turn[f[k - 1]] /\ k # 0
      BY <1>2, <3>2
    <3>4. k \in 0..(m - 1) => k # m /\ f[k] = g[k]
      OBVIOUS
    <3>5. k \in 0..(m - 1) => g[k] = IF k = 0 THEN start ELSE turn[g[k - 1]]
      BY <2>1
    <3> HIDE DEF f
    <3> QED
      BY <3>1, <3>2, <3>3, <3>4, <3>5
  <2>3. f = [k \in 0..m |-> f[k]]
    OBVIOUS
  <2>4. f = [k \in 0..m |-> IF k = 0 THEN start ELSE turn[f[k - 1]]]
    <3> HIDE DEF f
    <3> QED
      BY <2>2, <2>3
  <2> HIDE DEF f
  <2> QED
    BY <2>4
<1> HIDE DEF Has
<1>3. ASSUME B # {} PROVE FALSE
  <2>1. B \subseteq Nat
    OBVIOUS
  <2>2. PICK m \in B : \A y \in B : m <= y
    BY <1>3, <2>1, LeastNumber
  <2>3. m \in Nat /\ m # 0 /\ m - 1 \in Nat /\ m - 1 \notin B
    BY <1>1, <2>2
  <2>4. Has(m - 1)
    BY <2>3
  <2> QED
    BY <1>2, <2>3, <2>4
<1>4. Has(l)
  BY <1>3
<1> QED
  BY <1>4 DEF Has, Iterates

LEMMA TurnsFacts ==
  ASSUME NEW T, NEW slots \in Seq(T), NEW key, NEW limit
  PROVE  /\ Turns(slots, key, limit)[0] = slots
         /\ \A k \in 1..Len(slots) :
              Turns(slots, key, limit)[k] = Turn(key, limit)[Turns(slots, key, limit)[k - 1]]
<1> DEFINE l == Len(slots)
           turn == Turn(key, limit)
           a == Turns(slots, key, limit)
<1>1. l \in Nat
  BY LenProperties
<1> HIDE DEF turn, l
<1>2. \E f : Iterates(f, turn, slots, l)
  BY <1>1, TurnsExist
<1>3. a = CHOOSE f : Iterates(f, turn, slots, l)
  BY DEF Turns, Iterates, turn, l
<1> HIDE DEF a
<1>4. a = [k \in 0..l |-> IF k = 0 THEN slots ELSE turn[a[k - 1]]]
  BY <1>2, <1>3 DEF Iterates
<1>5. a[0] = slots
  BY <1>1, <1>4
<1>6. ASSUME NEW k \in 1..l PROVE a[k] = turn[a[k - 1]]
  <2>1. k \in 0..l /\ k # 0
    BY <1>1
  <2> QED
    BY <1>4, <2>1
<1> QED
  BY <1>5, <1>6 DEF a, turn, l

(* What is left after some turns: only expired timers were taken away, and *)
(* the order is kept.                                                      *)
Remains(new, slots, key, limit) ==
  /\ Distinct(new) /\ Elements(new) \subseteq Elements(slots)
  /\ \A t \in Elements(slots) \ Elements(new) : key[t] <= limit
  /\ HeapOrder(slots, key) => HeapOrder(new, key)

TickEnds(slots, key, limit) == slots = <<>> \/ ~ (key[slots[1]] <= limit)

LEMMA TurnKeeps ==
  ASSUME NEW T, NEW slots \in Seq(T), NEW a \in Seq(T), NEW key \in [T -> Nat], NEW limit,
         Remains(a, slots, key, limit)
  PROVE  /\ Turn(key, limit)[a] \in Seq(T)
         /\ Remains(Turn(key, limit)[a], slots, key, limit)
         /\ IF TickEnds(a, key, limit) THEN Turn(key, limit)[a] = a
            ELSE Len(Turn(key, limit)[a]) = Len(a) - 1
<1> DEFINE new == Turn(key, limit)[a]
<1>1. new = IF a # <<>> /\ key[a[1]] <= limit THEN Pop(a, key) ELSE a
  BY DEF Turn
<1> HIDE DEF new
<1>2. ASSUME TickEnds(a, key, limit) PROVE new = a
  BY <1>1, <1>2 DEF TickEnds
<1>3. ASSUME ~TickEnds(a, key, limit)
      PROVE  new \in Seq(T) /\ Len(new) = Len(a) - 1 /\ Remains(new, slots, key, limit)
  <2>1. a # <<>> /\ key[a[1]] <= limit /\ new = Pop(a, key)
    BY <1>1, <1>3 DEF TickEnds
  <2>2. Distinct(a)
    BY DEF Remains
  <2>3. /\ new \in Seq(T) /\ Len(new) = Len(a) - 1
        /\ Elements(new) = Elements(a) \ {a[1]}
        /\ HeapOrder(a, key) => HeapOrder(new, key)
    BY <2>1, <2>2, PopKeeps
  <2>4. a[1] \in Elements(a)
    <3>1. Len(a) \in Nat /\ Len(a) # 0
      BY <2>1
    <3>2. 1 \in 1..Len(a)
      BY <3>1
    <3> QED
      BY <3>2 DEF Elements
  <2>5. IsFiniteSet(Elements(a)) /\ Cardinality(Elements(a)) = Len(a)
    BY <2>2, DistinctCount
  <2>6. Cardinality(Elements(new)) = Len(a) - 1
    BY <2>3, <2>4, <2>5, FS_RemoveElement
  <2>7. Distinct(new)
    BY <2>3, <2>6, DistinctCount
  <2>8. Remains(new, slots, key, limit)
    BY <2>1, <2>3, <2>7 DEF Remains
  <2> QED
    BY <2>3, <2>8
<1> QED
  BY <1>2, <1>3 DEF new

(* What tick() does: it takes away expired timers only, and it ends when   *)
(* none is left or the root has not expired.                               *)
LEMMA AfterTickKeeps ==
  ASSUME NEW T, NEW slots \in Seq(T), NEW key \in [T -> Nat], NEW limit, Distinct(slots)
  PROVE  /\ AfterTick(slots, key, limit) \in Seq(T)
         /\ Len(AfterTick(slots, key, limit)) <= Len(slots)
         /\ Remains(AfterTick(slots, key, limit), slots, key, limit)
         /\ TickEnds(AfterTick(slots, key, limit), key, limit)
<1> DEFINE l == Len(slots)
           a(k) == Turns(slots, key, limit)[k]
           Good(k) == /\ a(k) \in Seq(T) /\ Remains(a(k), slots, key, limit)
                      /\ Len(a(k)) <= l
                      /\ TickEnds(a(k), key, limit) \/ Len(a(k)) = l - k
           B == {k \in 0..l : ~Good(k)}
<1>1. l \in Nat
  BY LenProperties
<1>2. a(0) = slots /\ \A k \in 1..l : a(k) = Turn(key, limit)[a(k - 1)]
  BY TurnsFacts
<1> HIDE DEF a
<1>3. Good(0)
  <2>1. Remains(slots, slots, key, limit)
    BY DEF Remains
  <2> QED
    BY <1>1, <1>2, <2>1
<1>4. ASSUME NEW k \in 1..l, Good(k - 1) PROVE Good(k)
  <2>1. /\ a(k) \in Seq(T) /\ Remains(a(k), slots, key, limit)
        /\ IF TickEnds(a(k - 1), key, limit) THEN a(k) = a(k - 1)
           ELSE Len(a(k)) = Len(a(k - 1)) - 1
    <3>1. a(k) = Turn(key, limit)[a(k - 1)]
      BY <1>2
    <3>2. a(k - 1) \in Seq(T) /\ Remains(a(k - 1), slots, key, limit)
      BY <1>4
    <3> QED
      BY <3>1, <3>2, TurnKeeps
  <2>2. Len(a(k - 1)) \in Nat /\ k \in Nat
    BY <1>1, <1>4, LenProperties
  <2>3. TickEnds(a(k - 1), key, limit) => TickEnds(a(k), key, limit) /\ Len(a(k)) <= l
    BY <1>4, <2>1
  <2>4. ~TickEnds(a(k - 1), key, limit) => Len(a(k)) = l - k /\ Len(a(k)) <= l
    BY <1>1, <1>4, <2>1, <2>2
  <2> QED
    BY <2>1, <2>3, <2>4
<1> HIDE DEF Good, l
<1>5. ASSUME B # {} PROVE FALSE
  <2>1. B \subseteq Nat
    BY <1>1
  <2>2. PICK k \in B : \A y \in B : k <= y
    BY <1>5, <2>1, LeastNumber
  <2>3. k \in 1..l /\ k - 1 \in 0..l /\ ~ (k <= k - 1)
    BY <1>1, <1>3, <2>2
  <2>4. Good(k - 1)
    BY <2>2, <2>3
  <2> QED
    BY <1>4, <2>2, <2>3, <2>4
<1>6. Good(l)
  BY <1>1, <1>5
<1>7. a(l) = AfterTick(slots, key, limit)
  BY DEF AfterTick, a, l
<1>8. Len(a(l)) = l - l => a(l) = <<>>
  <2>1. a(l) \in Seq(T)
    BY <1>6 DEF Good
  <2> QED
    BY <1>1, <2>1
<1>9. TickEnds(a(l), key, limit)
  BY <1>6, <1>8 DEF Good, TickEnds
<1> QED
  BY <1>6, <1>7, <1>9 DEF Good, l

-----------------------------------------------------------------------------
(* The timers of the connections: each open connection has one in the      *)
(* heap, and nobody else has that one.                                     *)
TimerRight(f) ==
  /\ users[f].timer \in 0..Len(owner)
  /\ users[f].open => users[f].timer \in Elements(heap) /\ owner[users[f].timer] = f

TimersKnown ==
  /\ now \in Nat
  /\ expire \in Seq(Nat) /\ Len(expire) = Len(owner)
  /\ heap \in Seq(1..Len(owner)) /\ Distinct(heap)
  /\ \A f \in Fds : TimerRight(f)

(* The listening socket promises no more than the bound, and the count     *)
(* never passes MAX_FD.                                                    *)
Limits ==
  /\ listening \in [backlog : 0..MaxBacklog, edge : BOOLEAN]
  /\ Len(owner) + listening.backlog <= MaxAccepts
  /\ user_count <= MaxUsers

BookInv == ServerInv /\ TimersKnown /\ Limits /\ OnlyAfterIntrusion

LEMMA ServerNumbers ==
  /\ Fds \subseteq Nat /\ MaxUsers \in Nat \ {0} /\ Lifetime \in Nat \ {0}
  /\ MaxAccepts \in Nat /\ MaxBacklog \in Nat
BY HttpServerAssumption DEF HttpServerAssumption

LEMMA OwnerLength == ServerInv => Len(owner) \in Nat /\ owner \in Seq(Fds) /\ user_count \in Int
BY LenProperties DEF ServerInv, TypeInv

LEMMA InitBooked == Init => BookInv
<1> SUFFICES ASSUME Init PROVE BookInv
  OBVIOUS
<1>1. heap = <<>> /\ expire = <<>> /\ owner = <<>> /\ now = 0 /\ user_count = 0
      /\ listening = [backlog |-> 0, edge |-> FALSE]
      /\ users = [f \in Fds |-> [open |-> FALSE, out |-> FALSE, timer |-> 0]]
      /\ ghosts = [refused |-> {}, intruded |-> FALSE, touched |-> FALSE, raced |-> FALSE]
  BY DEF Init
<1>2. TimersKnown
  <2>1. Distinct(heap)
    BY <1>1 DEF Distinct
  <2>2. \A f \in Fds : users[f].timer = 0 /\ ~users[f].open
    BY <1>1
  <2>3. Len(owner) = 0 /\ Len(expire) = 0
    BY <1>1
  <2>4. \A f \in Fds : TimerRight(f)
    BY <2>2, <2>3 DEF TimerRight
  <2> QED
    BY <1>1, <2>1, <2>3, <2>4 DEF TimersKnown
<1>3. Limits
  BY <1>1, ServerNumbers DEF Limits
<1>4. OnlyAfterIntrusion
  BY <1>1 DEF OnlyAfterIntrusion
<1> QED
  BY <1>2, <1>3, <1>4, InitServer DEF BookInv

(* No connection gets open, none changes its timer.                        *)
TimersKept == \A f \in Fds : /\ users'[f].timer = users[f].timer
                             /\ users'[f].open => users[f].open

(* A step that adds no timer and fires none.                               *)
LEMMA BookFrame ==
  ASSUME BookInv, ServerInv', UNCHANGED <<heap, owner>>, TimersKept,
         expire' \in Seq(Nat), Len(expire') = Len(expire), now' \in Nat,
         listening' \in [backlog : 0..MaxBacklog, edge : BOOLEAN],
         listening'.backlog <= listening.backlog \/ Len(owner) + listening'.backlog <= MaxAccepts,
         user_count' <= user_count \/ user_count' <= MaxUsers, OnlyAfterIntrusion'
  PROVE  BookInv'
<1>1. TimersKnown /\ Limits /\ ServerInv
  BY DEF BookInv
<1>2. TimersKnown'
  <2>1. ASSUME NEW f \in Fds PROVE TimerRight(f)'
    <3>1. TimerRight(f)
      BY <1>1 DEF TimersKnown
    <3>2. users'[f].timer = users[f].timer /\ (users'[f].open => users[f].open)
      BY DEF TimersKept
    <3>3. Elements(heap') = Elements(heap)
      OBVIOUS
    <3> QED
      BY <3>1, <3>2, <3>3 DEF TimerRight
  <2> QED
    BY <1>1, <2>1 DEF TimersKnown, Distinct
<1>3. Limits'
  <2>1. /\ Len(owner) \in Nat /\ user_count \in Int /\ user_count' \in Int
        /\ listening.backlog \in Int /\ listening'.backlog \in Int
    <3>1. user_count' \in Int
      BY DEF ServerInv, TypeInv
    <3> QED
      BY <1>1, <3>1, OwnerLength, ServerNumbers DEF Limits
  <2> QED
    BY <1>1, <2>1, ServerNumbers DEF Limits
<1> QED
  BY <1>2, <1>3 DEF BookInv

(* close_conn() leaves the timers alone, and the count does not grow.      *)
LEMMA CloseConnsBooks ==
  ASSUME ServerInv, NEW S, CloseConns(S), ghosts'.raced = ghosts.raced
  PROVE  /\ TimersKept /\ user_count' <= user_count
         /\ \A f \in Fds : users'[f].open => f \notin S
BY CloseConnsGives DEF ServerInv, TimersKept

(* The steps that have no part in the books.                               *)
LEMMA AsideBooks ==
  ASSUME BookInv, ServerInv',
         UNCHANGED <<heap, expire, owner, users, user_count, now, ghosts, listening>>
  PROVE  BookInv'
<1>1. TimersKept /\ OnlyAfterIntrusion'
  BY DEF TimersKept, BookInv, OnlyAfterIntrusion
<1>2. user_count' <= user_count /\ listening'.backlog <= listening.backlog
  <2>1. user_count \in Int /\ listening.backlog \in Int
    BY OwnerLength, ServerNumbers DEF BookInv, Limits
  <2> QED
    BY <2>1
<1>3. /\ expire' \in Seq(Nat) /\ Len(expire') = Len(expire) /\ now' \in Nat
      /\ listening' \in [backlog : 0..MaxBacklog, edge : BOOLEAN]
  BY DEF BookInv, TimersKnown, Limits
<1> QED
  BY <1>1, <1>2, <1>3, BookFrame

(* The listening socket and the clock.                                     *)
LEMMA SocketBooks ==
  ASSUME BookInv, ServerInv', Connect \/ EpollWait \/ Pass
  PROVE  BookInv'
<1>1. UNCHANGED <<heap, expire, owner, users, user_count, ghosts>>
  BY DEF Connect, EpollWait, Pass, connVars, timerVars
<1>2. /\ expire' \in Seq(Nat) /\ Len(expire') = Len(expire) /\ now \in Nat
      /\ listening \in [backlog : 0..MaxBacklog, edge : BOOLEAN]
      /\ Len(owner) \in Nat /\ user_count \in Int /\ MaxBacklog \in Nat /\ MaxAccepts \in Nat
  BY <1>1, OwnerLength, ServerNumbers DEF BookInv, TimersKnown, Limits
<1>3. TimersKept /\ OnlyAfterIntrusion' /\ user_count' <= user_count
  BY <1>1, <1>2 DEF TimersKept, BookInv, OnlyAfterIntrusion
<1>4. now' \in Nat
  BY <1>2 DEF Connect, EpollWait, Pass, SlotPasses
<1>5. /\ listening' \in [backlog : 0..MaxBacklog, edge : BOOLEAN]
      /\ listening'.backlog <= listening.backlog \/ Len(owner) + listening'.backlog <= MaxAccepts
  <2>1. ASSUME Connect
        PROVE  /\ listening' \in [backlog : 0..MaxBacklog, edge : BOOLEAN]
               /\ Len(owner) + listening'.backlog <= MaxAccepts
    <3>1. /\ listening.backlog < MaxBacklog /\ Len(owner) + listening.backlog < MaxAccepts
          /\ listening' = [backlog |-> listening.backlog + 1, edge |-> TRUE]
      BY <2>1 DEF Connect
    <3>2. listening.backlog + 1 \in 0..MaxBacklog /\ Len(owner) + (listening.backlog + 1) <= MaxAccepts
      BY <1>2, <3>1
    <3> QED
      BY <3>1, <3>2
  <2>2. ASSUME EpollWait
        PROVE  /\ listening' \in [backlog : 0..MaxBacklog, edge : BOOLEAN]
               /\ listening'.backlog <= listening.backlog
    <3>1. listening' = [listening EXCEPT !.edge = FALSE]
      BY <2>2 DEF EpollWait
    <3>2. listening.backlog \in Int
      BY <1>2
    <3>3. /\ listening' \in [backlog : 0..MaxBacklog, edge : BOOLEAN]
          /\ listening'.backlog = listening.backlog
      BY <1>2, <3>1
    <3> QED
      BY <3>2, <3>3
  <2>3. ASSUME Pass
        PROVE  /\ listening' \in [backlog : 0..MaxBacklog, edge : BOOLEAN]
               /\ listening'.backlog <= listening.backlog
    BY <1>2, <2>3 DEF Pass
  <2> QED
    BY <2>1, <2>2, <2>3
<1> QED
  BY <1>1, <1>2, <1>3, <1>4, <1>5, BookFrame

(* accept() of one connection too many.                                    *)
LEMMA RefuseBooks ==
  ASSUME BookInv, ServerInv', UNCHANGED <<connVars, timerVars, ghosts, now>>,
         listening.backlog # 0, listening' = [listening EXCEPT !.backlog = @ - 1]
  PROVE  BookInv'
<1>1. /\ expire' \in Seq(Nat) /\ Len(expire') = Len(expire) /\ now' \in Nat
      /\ listening \in [backlog : 0..MaxBacklog, edge : BOOLEAN]
      /\ user_count \in Int /\ MaxBacklog \in Nat
      /\ UNCHANGED <<heap, owner>>
  BY OwnerLength, ServerNumbers DEF BookInv, TimersKnown, Limits, timerVars
<1>2. TimersKept /\ OnlyAfterIntrusion' /\ user_count' <= user_count
  BY <1>1 DEF TimersKept, BookInv, OnlyAfterIntrusion, connVars
<1>3. /\ listening' \in [backlog : 0..MaxBacklog, edge : BOOLEAN]
      /\ listening'.backlog <= listening.backlog
  <2>1. listening.backlog - 1 \in 0..MaxBacklog /\ listening.backlog - 1 <= listening.backlog
    BY <1>1
  <2> QED
    BY <1>1, <2>1
<1> QED
  BY <1>1, <1>2, <1>3, BookFrame

(* A new connection gets the timer created last.                           *)
LEMMA OpenBooks ==
  ASSUME BookInv, ServerInv', NEW f \in Fds, Open(f, Len(owner) + 1),
         listening.backlog # 0, listening' = [listening EXCEPT !.backlog = @ - 1],
         user_count < MaxUsers, now' = now
  PROVE  BookInv'
<1> DEFINE l == Len(owner) + 1
<1>1. /\ ServerInv /\ TimersKnown /\ Limits /\ OnlyAfterIntrusion
      /\ Len(owner) \in Nat /\ owner \in Seq(Fds) /\ user_count \in Int
      /\ l \in Nat /\ 1..Len(owner) \subseteq 1..l /\ l \in 1..l /\ l \notin 1..Len(owner)
  <2>1. ServerInv /\ TimersKnown /\ Limits /\ OnlyAfterIntrusion
    BY DEF BookInv
  <2>2. Len(owner) \in Nat /\ owner \in Seq(Fds) /\ user_count \in Int
    BY <2>1, OwnerLength
  <2> QED
    BY <2>1, <2>2
<1>2. /\ users' = [users EXCEPT ![f] = [open |-> TRUE, out |-> FALSE, timer |-> l]]
      /\ user_count' = user_count + 1
      /\ expire' = Append(expire, now + Lifetime)
      /\ owner' = Append(owner, f)
      /\ heap' = AddTimer(heap, expire', l)
      /\ ghosts' = [ghosts EXCEPT !.refused = @ \ {f}]
  BY DEF Open, FreshExpire
<1>3. /\ owner' \in Seq(Fds) /\ Len(owner') = l /\ owner'[l] = f
      /\ \A i \in 1..Len(owner) : owner'[i] = owner[i]
  BY <1>1, <1>2, AppendProperties
<1>4. PICK key \in [1..l -> Nat] : key = expire' /\ expire' \in Seq(Nat) /\ Len(expire') = l
  <2>1. expire \in Seq(Nat) /\ Len(expire) = Len(owner) /\ now + Lifetime \in Nat
    BY <1>1, ServerNumbers DEF TimersKnown
  <2>2. expire' \in Seq(Nat) /\ Len(expire') = Len(expire) + 1
    BY <1>2, <2>1, AppendProperties
  <2>3. expire' \in [1..l -> Nat]
    BY <2>1, <2>2, LenProperties
  <2> QED
    BY <2>1, <2>2, <2>3
<1>5. /\ heap \in Seq(1..Len(owner)) /\ heap \in Seq(1..l) /\ Distinct(heap)
      /\ Elements(heap) \subseteq 1..Len(owner)
  <2>1. heap \in Seq(1..Len(owner)) /\ Distinct(heap)
    BY <1>1 DEF TimersKnown
  <2>2. \A i \in 1..Len(heap) : heap[i] \in 1..Len(owner)
    BY <2>1, ElementOfSeq
  <2>3. heap \in Seq(1..l)
    BY <1>1, <2>1, <2>2, SeqDef, LenProperties
  <2> QED
    BY <2>1, <2>2, <2>3 DEF Elements
<1> HIDE DEF l
<1>6. PICK new \in Seq(1..l) : /\ new = heap' /\ Len(new) = Len(heap) + 1
                               /\ Elements(new) = Elements(heap) \cup {l}
  <2>1. /\ AddTimer(heap, key, l) \in Seq(1..l)
        /\ Len(AddTimer(heap, key, l)) = Len(heap) + 1
        /\ Elements(AddTimer(heap, key, l)) = Elements(heap) \cup {l}
    <3>1. PICK T : T = 1..l
      OBVIOUS
    <3>2. heap \in Seq(T) /\ key \in [T -> Nat] /\ l \in T
      BY <1>1, <1>5, <3>1
    <3>3. /\ AddTimer(heap, key, l) \in Seq(T)
          /\ Len(AddTimer(heap, key, l)) = Len(heap) + 1
          /\ Elements(AddTimer(heap, key, l)) = Elements(heap) \cup {l}
      BY <3>2, AddTimerKeeps
    <3> QED
      BY <3>1, <3>3
  <2> QED
    BY <1>2, <1>4, <2>1
<1>7. Distinct(new)
  <2>1. IsFiniteSet(Elements(heap)) /\ Cardinality(Elements(heap)) = Len(heap)
    BY <1>5, DistinctCount
  <2>2. l \notin Elements(heap)
    BY <1>1, <1>5 DEF l
  <2>3. Cardinality(Elements(new)) = Len(new)
    BY <1>6, <2>1, <2>2, FS_AddElement
  <2> QED
    BY <2>3, DistinctCount
<1>8. ASSUME NEW g \in Fds PROVE TimerRight(g)'
  <2>1. Elements(heap') = Elements(heap) \cup {l} /\ Len(owner') = l
    BY <1>3, <1>6
  <2>2. users \in [Fds -> Conns]
    BY <1>1 DEF ServerInv, TypeInv
  <2>3. ASSUME g = f PROVE TimerRight(g)'
    <3>1. users'[g].timer = l /\ l \in 0..l
      BY <1>1, <1>2, <2>2, <2>3
    <3> QED
      BY <1>3, <2>1, <2>3, <3>1 DEF TimerRight
  <2>4. ASSUME g # f PROVE TimerRight(g)'
    <3>1. users'[g] = users[g]
      BY <1>2, <2>2, <2>4
    <3>2. TimerRight(g) /\ 0..Len(owner) \subseteq 0..l
      BY <1>1 DEF TimersKnown, l
    <3>3. users[g].open => owner'[users[g].timer] = owner[users[g].timer]
      BY <1>3, <1>5, <3>2 DEF TimerRight
    <3> QED
      BY <2>1, <3>1, <3>2, <3>3 DEF TimerRight
  <2> QED
    BY <2>3, <2>4
<1>9. TimersKnown'
  <2>1. heap' \in Seq(1..Len(owner'))
    BY <1>3, <1>6
  <2>2. Distinct(heap')
    BY <1>6, <1>7
  <2>3. expire' \in Seq(Nat) /\ Len(expire') = Len(owner')
    BY <1>3, <1>4
  <2>4. now' \in Nat
    BY <1>1 DEF TimersKnown
  <2> QED
    BY <1>8, <2>1, <2>2, <2>3, <2>4 DEF TimersKnown
<1>10. Limits'
  <2>1. /\ listening \in [backlog : 0..MaxBacklog, edge : BOOLEAN]
        /\ Len(owner) + listening.backlog <= MaxAccepts
    BY <1>1 DEF Limits
  <2>2. PICK k \in 0..MaxBacklog : k = listening.backlog - 1 /\ l + k <= MaxAccepts
    BY <1>1, <2>1, ServerNumbers DEF l
  <2>3. listening' = [listening EXCEPT !.backlog = k]
    BY <2>2
  <2>4. listening' \in [backlog : 0..MaxBacklog, edge : BOOLEAN] /\ listening'.backlog = k
    BY <2>1, <2>3
  <2>5. user_count' <= MaxUsers
    BY <1>1, <1>2, ServerNumbers
  <2> QED
    BY <1>3, <2>2, <2>4, <2>5 DEF Limits
<1>11. OnlyAfterIntrusion'
  <2>1. ghosts \in [refused : SUBSET Fds, intruded : BOOLEAN, touched : BOOLEAN, raced : BOOLEAN]
    BY <1>1 DEF ServerInv, TypeInv
  <2>2. /\ ghosts'.intruded = ghosts.intruded /\ ghosts'.touched = ghosts.touched
        /\ ghosts'.raced = ghosts.raced
    BY <1>2, <2>1
  <2> QED
    BY <1>1, <2>2 DEF OnlyAfterIntrusion
<1> QED
  BY <1>9, <1>10, <1>11 DEF BookInv

LEMMA AcceptBooks ==
  ASSUME BookInv, ServerInv', Accept
  PROVE  BookInv'
<1> DEFINE free == {f \in Fds : ~kernel[f].open}
<1>1. now' = now
  BY DEF Accept
<1>2. \/ UNCHANGED <<connVars, listening, timerVars, ghosts>>
      \/ /\ free # {} /\ listening.backlog # 0
         /\ listening' = [listening EXCEPT !.backlog = @ - 1]
         /\ \/ UNCHANGED <<connVars, timerVars, ghosts>>
            \/ ~ (user_count >= MaxUsers) /\ Open(Min(free), Len(owner) + 1)
  BY DEF Accept
<1>3. ASSUME free # {} PROVE Min(free) \in Fds
  BY <1>3, LowestFree
<1>4. ASSUME ~ (user_count >= MaxUsers) PROVE user_count < MaxUsers
  BY <1>4, OwnerLength, ServerNumbers DEF BookInv
<1> HIDE DEF free
<1>5. ASSUME UNCHANGED <<connVars, listening, timerVars, ghosts>> PROVE BookInv'
  <2>1. UNCHANGED <<heap, expire, owner, users, user_count, now, ghosts, listening>>
    BY <1>1, <1>5 DEF connVars, timerVars
  <2> QED
    BY <2>1, AsideBooks
<1>6. ASSUME UNCHANGED <<connVars, timerVars, ghosts>>, listening.backlog # 0,
             listening' = [listening EXCEPT !.backlog = @ - 1]
      PROVE  BookInv'
  BY <1>1, <1>6, RefuseBooks
<1>7. ASSUME free # {}, listening.backlog # 0,
             listening' = [listening EXCEPT !.backlog = @ - 1],
             ~ (user_count >= MaxUsers), Open(Min(free), Len(owner) + 1)
      PROVE  BookInv'
  BY <1>1, <1>3, <1>4, <1>7, OpenBooks
<1> QED
  BY <1>2, <1>5, <1>6, <1>7

(* tick(): whose timer fires is closed, so the others keep theirs.         *)
LEMMA SignalBooks ==
  ASSUME BookInv, ServerInv', Signal
  PROVE  BookInv'
<1>1. /\ ServerInv /\ TimersKnown /\ Limits /\ OnlyAfterIntrusion
      /\ Len(owner) \in Nat /\ owner \in Seq(Fds) /\ user_count \in Int
  BY OwnerLength DEF BookInv
<1>2. UNCHANGED <<listening, now, expire, owner>>
  BY DEF Signal
<1>3. ASSUME UNCHANGED <<connVars, heap, ghosts>> PROVE BookInv'
  <2>1. UNCHANGED <<heap, expire, owner, users, user_count, now, ghosts, listening>>
    BY <1>2, <1>3 DEF connVars
  <2> QED
    BY <2>1, AsideBooks
<1>4. ASSUME NEW hit, hit = {owner[t] : t \in Elements(heap) \ Elements(heap')}, CloseConns(hit),
             heap' = AfterTick(heap, expire, now),
             ghosts' = [ghosts EXCEPT !.intruded = @ \/ \E f \in hit : users[f].open /\ f \in Held]
      PROVE  BookInv'
  <2>1. PICK b \in BOOLEAN : /\ b <=> ghosts.intruded \/ \E f \in hit : users[f].open /\ f \in Held
                             /\ ghosts' = [ghosts EXCEPT !.intruded = b]
    <3>1. PICK b \in BOOLEAN : b <=> ghosts.intruded \/ \E f \in hit : users[f].open /\ f \in Held
      OBVIOUS
    <3>2. b = (ghosts.intruded \/ \E f \in hit : users[f].open /\ f \in Held)
      BY <3>1, Zenon
    <3>3. ghosts' = [ghosts EXCEPT !.intruded = b]
      BY <1>4, <3>2, Zenon
    <3> QED
      BY <3>1, <3>3
  <2>2. /\ ghosts'.touched = ghosts.touched /\ ghosts'.raced = ghosts.raced
        /\ ghosts'.intruded = b
    <3>1. ghosts \in [refused : SUBSET Fds, intruded : BOOLEAN, touched : BOOLEAN, raced : BOOLEAN]
      BY <1>1 DEF ServerInv, TypeInv
    <3> QED
      BY <2>1, <3>1
  <2>3. /\ TimersKept /\ user_count' <= user_count
        /\ \A f \in Fds : users'[f].open => f \notin hit
    BY <1>1, <1>4, <2>2, CloseConnsBooks
  <2>4. PICK T : T = 1..Len(owner)
    OBVIOUS
  <2>5. heap \in Seq(T) /\ expire \in [T -> Nat] /\ Distinct(heap)
    BY <1>1, <2>4, LenProperties DEF TimersKnown
  <2>6. heap' \in Seq(T) /\ Remains(heap', heap, expire, now)
    <3>1. /\ AfterTick(heap, expire, now) \in Seq(T)
          /\ Remains(AfterTick(heap, expire, now), heap, expire, now)
      BY <2>5, AfterTickKeeps
    <3> QED
      BY <1>4, <3>1
  <2>7. ASSUME NEW f \in Fds PROVE TimerRight(f)'
    <3>1. TimerRight(f)
      BY <1>1 DEF TimersKnown
    <3>2. users'[f].timer = users[f].timer /\ (users'[f].open => users[f].open /\ f \notin hit)
      BY <2>3 DEF TimersKept
    <3>3. users'[f].open => users[f].timer \in Elements(heap')
      BY <1>4, <3>1, <3>2 DEF TimerRight
    <3> QED
      BY <1>2, <3>1, <3>2, <3>3 DEF TimerRight
  <2>8. TimersKnown'
    <3>1. Distinct(heap')
      BY <2>6 DEF Remains
    <3>2. heap' \in Seq(1..Len(owner'))
      BY <1>2, <2>4, <2>6
    <3> QED
      BY <1>1, <1>2, <2>7, <3>1, <3>2 DEF TimersKnown
  <2>9. Limits'
    <3>1. user_count' \in Int
      BY DEF ServerInv, TypeInv
    <3>2. user_count' <= MaxUsers
      BY <1>1, <2>3, <3>1, ServerNumbers DEF Limits
    <3> QED
      BY <1>1, <1>2, <3>2 DEF Limits
  <2>10. OnlyAfterIntrusion'
    BY <1>1, <2>1, <2>2 DEF OnlyAfterIntrusion
  <2> QED
    BY <2>8, <2>9, <2>10 DEF BookInv
<1> QED
  BY <1>3, <1>4 DEF Signal

(* The handlers of a connection's event that close it or pass it on.       *)
LEMMA OutputBooks ==
  ASSUME BookInv, ServerInv', NEW f \in Fds, Flush(f) \/ HangUp(f)
  PROVE  BookInv'
<1>1. UNCHANGED <<heap, expire, owner, now, ghosts, listening>>
  BY DEF Flush, HangUp, timerVars
<1>2. TimersKept /\ user_count' <= user_count
  <2>1. ASSUME CloseConns({f}) PROVE TimersKept /\ user_count' <= user_count
    BY <1>1, <2>1, CloseConnsBooks DEF BookInv
  <2>2. ASSUME users' = [users EXCEPT ![f].out = FALSE], user_count' = user_count
        PROVE  TimersKept /\ user_count' <= user_count
    <3>1. users[f] \in Conns /\ users \in [Fds -> Conns] /\ user_count \in Int
      BY DEF BookInv, ServerInv, TypeInv
    <3>2. PICK u \in Conns : u = [users[f] EXCEPT !.out = FALSE]
      BY <3>1 DEF Conns
    <3>3. u.timer = users[f].timer /\ u.open = users[f].open
      BY <3>1, <3>2 DEF Conns
    <3>4. users' = [users EXCEPT ![f] = u]
      BY <2>2, <3>2
    <3> QED
      BY <2>2, <3>1, <3>3, <3>4 DEF TimersKept
  <2> QED
    BY <2>1, <2>2 DEF Flush, HangUp
<1>3. OnlyAfterIntrusion'
  BY <1>1 DEF BookInv, OnlyAfterIntrusion
<1>4. /\ expire' \in Seq(Nat) /\ Len(expire') = Len(expire) /\ now' \in Nat
      /\ listening' \in [backlog : 0..MaxBacklog, edge : BOOLEAN]
      /\ Len(owner) + listening'.backlog <= MaxAccepts
  BY <1>1 DEF BookInv, TimersKnown, Limits
<1> QED
  BY <1>1, <1>2, <1>3, <1>4, BookFrame

LEMMA ProcessBooks ==
  ASSUME BookInv, ServerInv', NEW w \in Workers, Process(w)
  PROVE  BookInv'
<1>1. /\ UNCHANGED <<heap, expire, owner, now, listening>> /\ serving[w] # NoFd
      /\ users \in [Fds -> Conns] /\ user_count \in Int
      /\ ghosts \in [refused : SUBSET Fds, intruded : BOOLEAN, touched : BOOLEAN, raced : BOOLEAN]
  BY DEF Process, timerVars, BookInv, ServerInv, TypeInv
<1>2. PICK f \in Fds : f = serving[w]
  BY <1>1 DEF BookInv, ServerInv, TypeInv
<1> DEFINE Kept == /\ TimersKept /\ OnlyAfterIntrusion'
                   /\ user_count' <= user_count \/ user_count' <= MaxUsers
<1>3. ASSUME UNCHANGED <<connVars, ghosts>> PROVE Kept
  BY <1>1, <1>3 DEF connVars, TimersKept, BookInv, OnlyAfterIntrusion
<1>4. ASSUME users' = [users EXCEPT ![f].out = TRUE], UNCHANGED <<user_count, ghosts>>
      PROVE  Kept
  <2>1. users[f] \in Conns
    BY <1>1
  <2>2. PICK u \in Conns : u = [users[f] EXCEPT !.out = TRUE]
    BY <2>1 DEF Conns
  <2>3. u.timer = users[f].timer /\ u.open = users[f].open
    BY <2>1, <2>2 DEF Conns
  <2>4. users' = [users EXCEPT ![f] = u]
    BY <1>4, <2>2
  <2> QED
    BY <1>1, <1>4, <2>3, <2>4 DEF TimersKept, BookInv, OnlyAfterIntrusion
<1>5. ASSUME users[f].out, CloseOpen({f}), user_count' \in (user_count - MaxAccepts)..MaxUsers,
             ghosts' = [ghosts EXCEPT !.raced = TRUE]
      PROVE  Kept
  <2>1. PICK open \in SUBSET Fds : open = {f}
    OBVIOUS
  <2>2. TimersKept
    BY <1>5, <2>1, CloseOpenGives DEF TimersKept, BookInv, ServerInv
  <2>3. ghosts.intruded
    BY <1>2, <1>5, ClosesOnlyIntruded DEF BookInv
  <2>4. ghosts'.intruded
    BY <1>1, <1>5, <2>3
  <2>5. user_count' <= MaxUsers
    BY <1>1, <1>5, ServerNumbers
  <2> QED
    BY <2>2, <2>4, <2>5 DEF OnlyAfterIntrusion
<1>6. Kept
  BY <1>2, <1>3, <1>4, <1>5 DEF Process, WorkerCloses, connVars
<1>7. /\ expire' \in Seq(Nat) /\ Len(expire') = Len(expire) /\ now' \in Nat
      /\ listening' \in [backlog : 0..MaxBacklog, edge : BOOLEAN]
      /\ Len(owner) + listening'.backlog <= MaxAccepts
  BY <1>1 DEF BookInv, TimersKnown, Limits
<1> QED
  BY <1>1, <1>6, <1>7, BookFrame

(* fresh_expire() and read(): the timer is in the heap, unless the event   *)
(* is one of a connection that a timeout has taken away.                   *)
LEMMA InputBooks ==
  ASSUME BookInv, ServerInv', NEW f \in Fds, Input(f)
  PROVE  BookInv'
<1> DEFINE t == users[f].timer
           live == t \in Elements(heap)
           received == users[f].open /\ kernel[f].input
           full == Len(workqueue) > MaxRequests
<1>1. /\ ServerInv /\ TimersKnown /\ Limits /\ OnlyAfterIntrusion /\ user_count \in Int
      /\ ghosts \in [refused : SUBSET Fds, intruded : BOOLEAN, touched : BOOLEAN, raced : BOOLEAN]
  BY OwnerLength DEF BookInv, ServerInv, TypeInv
<1>2. /\ UNCHANGED <<listening, now, heap, owner>>
      /\ <<"in", f>> \in batch /\ batch' = batch \ {<<"in", f>>}
  BY DEF Input, Handled
<1>3. /\ expire' = IF live THEN [expire EXCEPT ![t] = now + Lifetime] ELSE expire
      /\ ghosts' = [ghosts EXCEPT !.touched = @ \/ ~live,
                                  !.refused = IF received /\ full THEN @ \cup {f} ELSE @]
  BY DEF Input, FreshExpire
<1>4. /\ ghosts'.intruded = ghosts.intruded /\ ghosts'.raced = ghosts.raced
      /\ ghosts'.touched <=> ghosts.touched \/ ~live
  <2>1. PICK b \in BOOLEAN : b = (ghosts.touched \/ ~live)
    BY Zenon
  <2>2. PICK r \in SUBSET Fds : r = IF received /\ full THEN ghosts.refused \cup {f} ELSE ghosts.refused
    BY <1>1
  <2>3. ghosts' = [ghosts EXCEPT !.touched = b, !.refused = r]
    BY <1>3, <2>1, <2>2, Zenon
  <2> QED
    BY <1>1, <2>1, <2>3
<1>5. TimersKept /\ user_count' <= user_count
  <2>1. ASSUME received PROVE TimersKept /\ user_count' <= user_count
    <3>1. users' = users /\ user_count' = user_count
      BY <2>1 DEF Input
    <3> QED
      BY <1>1, <3>1 DEF TimersKept
  <2>2. ASSUME ~received PROVE TimersKept /\ user_count' <= user_count
    <3>1. CloseConns({f})
      BY <2>2 DEF Input
    <3> QED
      BY <1>1, <1>4, <3>1, CloseConnsBooks
  <2> QED
    BY <2>1, <2>2
<1>6. expire' \in Seq(Nat) /\ Len(expire') = Len(expire)
  <2>1. expire \in Seq(Nat) /\ now + Lifetime \in Nat /\ Len(expire) \in Nat
    BY <1>1, ServerNumbers, LenProperties DEF TimersKnown
  <2>2. live => t \in 1..Len(expire)
    <3>1. \A i \in 1..Len(heap) : heap[i] \in 1..Len(owner)
      BY <1>1, ElementOfSeq DEF TimersKnown
    <3> QED
      BY <1>1, <3>1 DEF TimersKnown, Elements
  <2>3. PICK e \in Nat : e = now + Lifetime
    BY <2>1
  <2>4. PICK i : i = t
    OBVIOUS
  <2>5. i \in 1..Len(expire) => /\ [expire EXCEPT ![i] = e] \in Seq(Nat)
                                /\ Len([expire EXCEPT ![i] = e]) = Len(expire)
    BY <2>1, ExceptSeq
  <2> QED
    BY <1>3, <2>1, <2>2, <2>3, <2>4, <2>5
<1>7. OnlyAfterIntrusion'
  <2> SUFFICES ASSUME ~ghosts.intruded PROVE ~ghosts'.touched /\ ~ghosts'.raced
    BY <1>4 DEF OnlyAfterIntrusion
  <2>1. users[f].open
    BY <1>1, <1>2, EventTaken
  <2>2. live
    BY <1>1, <2>1 DEF TimersKnown, TimerRight
  <2> QED
    BY <1>1, <1>4, <2>2 DEF OnlyAfterIntrusion
<1>8. /\ now' \in Nat /\ UNCHANGED <<heap, owner>>
      /\ listening' \in [backlog : 0..MaxBacklog, edge : BOOLEAN]
      /\ Len(owner) + listening'.backlog <= MaxAccepts
  BY <1>1, <1>2 DEF TimersKnown, Limits
<1> QED
  BY <1>5, <1>6, <1>7, <1>8, BookFrame

LEMMA NextBooked == BookInv /\ [Next]_vars => BookInv'
<1> SUFFICES ASSUME BookInv, [Next]_vars PROVE BookInv'
  OBVIOUS
<1>1. ServerInv'
  BY NextServer DEF BookInv
<1> DEFINE aside == UNCHANGED <<heap, expire, owner, users, user_count, now, ghosts, listening>>
<1>2. ASSUME Environment PROVE BookInv'
  <2>1. Kick \/ (\E f \in Fds : ClientSends(f) \/ ClientLeaves(f)) => aside
    BY DEF Kick, ClientSends, ClientLeaves, connVars, timerVars
  <2> QED
    BY <1>1, <1>2, <2>1, AsideBooks, SocketBooks DEF Environment
<1>3. ASSUME MainThread PROVE BookInv'
  <2>1. LeaveLoop \/ (\E f \in Fds : WriteBlocked(f)) => aside
    BY DEF LeaveLoop, WriteBlocked, connVars, timerVars
  <2> QED
    BY <1>1, <1>3, <2>1, AsideBooks, SocketBooks, AcceptBooks, SignalBooks, InputBooks, OutputBooks
    DEF MainThread
<1>4. ASSUME NEW w \in Workers, Worker(w) PROVE BookInv'
  <2>1. Take(w) \/ Rearm(w) => aside
    BY DEF Take, Rearm, connVars, timerVars
  <2> QED
    BY <1>1, <1>4, <2>1, AsideBooks, ProcessBooks DEF Worker
<1>5. ASSUME UNCHANGED vars PROVE BookInv'
  <2>1. aside
    BY <1>5 DEF vars
  <2> QED
    BY <1>1, <2>1, AsideBooks
<1> QED
  BY <1>2, <1>3, <1>4, <1>5 DEF Next

(* The invariant of the reactor and of the timers that the main thread     *)
(* keeps for its connections, over any sequence of events and timeouts.    *)
THEOREM BookInvariant == Spec => []BookInv
BY InitBooked, NextBooked, PTL DEF Spec

(* What the main thread keeps for each connection is right: the count, the *)
(* descriptor, and the timer, which is in the heap as long as the          *)
(* connection is open and is not used after tick() has deleted it.         *)
THEOREM ConnectionsBookedHolds == Spec => []ConnectionsBooked
<1>1. BookInv => ConnectionsBooked
  <2> SUFFICES ASSUME BookInv PROVE ConnectionsBooked
    OBVIOUS
  <2>1. /\ ServerInv /\ TypeInv /\ CountInv /\ TimersKnown /\ Limits /\ OnlyAfterIntrusion
        /\ Len(owner) \in Nat /\ owner \in Seq(Fds)
    BY OwnerLength DEF BookInv, ServerInv
  <2>2. Len(owner) <= MaxAccepts
    BY <2>1, ServerNumbers DEF Limits
  <2>3. \A i \in Nat : i <= Len(owner) => i <= MaxAccepts
    BY <2>1, <2>2, ServerNumbers
  <2>4. users \in [Fds -> [open : BOOLEAN, out : BOOLEAN, timer : 0..MaxAccepts]]
    <3>1. ASSUME NEW f \in Fds
          PROVE  users[f] \in [open : BOOLEAN, out : BOOLEAN, timer : 0..MaxAccepts]
      <4>1. users[f] \in Conns
        BY <2>1 DEF TypeInv
      <4>2. users[f].timer \in 0..Len(owner)
        BY <2>1 DEF TimersKnown, TimerRight
      <4>3. users[f].timer \in 0..MaxAccepts
        BY <2>1, <2>2, <4>2, ServerNumbers
      <4> QED
        BY <4>1, <4>3 DEF Conns
    <3> QED
      BY <2>1, <3>1 DEF TypeInv
  <2>5. user_count \in Int /\ user_count <= MaxUsers
    BY <2>1 DEF TypeInv, Limits
  <2>6. heap \in Seq(1..MaxAccepts)
    <3>1. heap \in Seq(1..Len(owner))
      BY <2>1 DEF TimersKnown
    <3>2. \A i \in 1..Len(heap) : heap[i] \in 1..Len(owner)
      BY <3>1, ElementOfSeq
    <3>3. 1..Len(owner) \subseteq 1..MaxAccepts
      BY <2>1, <2>2, ServerNumbers
    <3>4. \A i \in 1..Len(heap) : heap[i] \in 1..MaxAccepts
      BY <3>2, <3>3
    <3>5. Len(heap) \in Nat /\ heap \in [1..Len(heap) -> 1..MaxAccepts]
      BY <3>1, <3>4, LenProperties
    <3> QED
      BY <3>5, SeqDef
  <2>7. TypeOK
    <3>1. listening \in [backlog : 0..MaxBacklog, edge : BOOLEAN]
      BY <2>1 DEF Limits
    <3> QED
      BY <2>1, <2>4, <2>5, <2>6, <3>1 DEF TypeOK, TypeInv, Kernels
  <2>8. UserCountExact
    BY <2>1 DEF CountInv, UserCountExact, OpenConns
  <2>9. TimerOfConnection
    <3>1. Cardinality(Elements(heap)) = Len(heap)
      BY <2>1, DistinctCount DEF TimersKnown
    <3>2. \A f \in Fds : users[f].open =>
            users[f].timer \in Elements(heap) /\ owner[users[f].timer] = f
      BY <2>1 DEF TimersKnown, TimerRight
    <3> QED
      BY <3>1, <3>2 DEF TimerOfConnection
  <2> QED
    BY <2>1, <2>7, <2>8, <2>9 DEF ConnectionsBooked
<1> QED
  BY <1>1, BookInvariant, PTL

-----------------------------------------------------------------------------
(* The timer heap by itself, whatever its timers and its first capacity.   *)

HeapTypes ==
  /\ arr \in Seq(Timers)
  /\ capacity \in Nat \ {0} /\ Len(arr) <= capacity
  /\ expire \in [Timers -> 0..(MaxTime + Lifetime)]
  /\ now \in 0..MaxTime
  /\ fired \subseteq Timers /\ disturbed \in BOOLEAN

(* The array has each timer once that was added and has not fired.         *)
HeapComplete ==
  /\ Distinct(arr)
  /\ Elements(arr) = {t \in Timers : expire[t] # 0} \ fired
  /\ \A t \in fired : expire[t] # 0

HeapInv == HeapTypes /\ HeapComplete /\ (~disturbed => HeapOrder(arr, expire))

LEMMA HeapKeys ==
  ASSUME HeapTypes
  PROVE  expire \in [Timers -> Nat] /\ now \in Nat /\ now + Lifetime \in Nat \ {0}
<1>1. Lifetime \in Nat \ {0} /\ MaxTime \in Nat
  BY TimerHeapAssumption DEF TimerHeapAssumption
<1> QED
  BY <1>1 DEF HeapTypes

(* Keys of timers that are not in the array do not matter to its order.    *)
LEMMA OtherKeys ==
  ASSUME NEW T, NEW a \in Seq(T), NEW key, NEW other,
         \A t \in Elements(a) : other[t] = key[t], HeapOrder(a, key)
  PROVE  HeapOrder(a, other)
<1> SUFFICES ASSUME NEW i \in 2..Len(a) PROVE other[a[i \div 2]] <= other[a[i]]
  BY DEF HeapOrder
<1>1. Len(a) \in Nat
  BY LenProperties
<1>2. i \in Nat /\ i >= 2 /\ i \in 1..Len(a)
  BY <1>1
<1>3. i \div 2 \in 1..(i - 1)
  BY <1>2, Halves
<1>4. i \div 2 \in 1..Len(a)
  BY <1>1, <1>2, <1>3
<1>5. a[i] \in Elements(a) /\ a[i \div 2] \in Elements(a)
  BY <1>2, <1>4 DEF Elements
<1>6. key[a[i \div 2]] <= key[a[i]]
  BY DEF HeapOrder
<1> QED
  BY <1>5, <1>6

LEMMA InitHeap ==
  ASSUME HeapInit
  PROVE  HeapInv
<1>1. Lifetime \in Nat \ {0} /\ Capacity \in Nat \ {0} /\ MaxTime \in Nat
  BY TimerHeapAssumption DEF TimerHeapAssumption
<1>2. arr = <<>> /\ Len(arr) = 0 /\ arr \in Seq(Timers)
  BY DEF HeapInit
<1>3. HeapTypes
  <2>1. /\ capacity = Capacity /\ expire = [t \in Timers |-> 0] /\ now = 0
        /\ fired = {} /\ disturbed = FALSE
    BY DEF HeapInit
  <2>2. 0 \in 0..(MaxTime + Lifetime) /\ 0 \in 0..MaxTime
    BY <1>1
  <2>3. expire \in [Timers -> 0..(MaxTime + Lifetime)]
    BY <2>1, <2>2
  <2>4. Len(arr) <= capacity
    BY <1>1, <1>2, <2>1
  <2> QED
    BY <1>1, <1>2, <2>1, <2>2, <2>3, <2>4 DEF HeapTypes
<1>4. Elements(arr) = {} /\ Distinct(arr) /\ HeapOrder(arr, expire)
  BY <1>2 DEF Elements, Distinct, HeapOrder
<1>5. {t \in Timers : expire[t] # 0} = {} /\ fired = {}
  BY DEF HeapInit
<1> QED
  BY <1>3, <1>4, <1>5 DEF HeapInv, HeapComplete

LEMMA AddKeeps ==
  ASSUME HeapInv, NEW t \in Timers, Add(t)
  PROVE  HeapInv'
<1>1. /\ expire[t] = 0
      /\ expire' = [expire EXCEPT ![t] = now + Lifetime]
      /\ arr' = AddTimer(arr, expire', t)
      /\ capacity' = IF Len(arr) >= capacity THEN 2 * capacity ELSE capacity
      /\ UNCHANGED <<now, fired, disturbed>>
  BY DEF Add, Resized, FreshExpire
<1>2. HeapTypes /\ HeapComplete
  BY DEF HeapInv
<1>3. /\ expire \in [Timers -> Nat] /\ expire' \in [Timers -> Nat] /\ now + Lifetime # 0
      /\ \A s \in Timers : expire'[s] = IF s = t THEN now + Lifetime ELSE expire[s]
  BY <1>1, <1>2, HeapKeys DEF HeapTypes
<1>4. arr \in Seq(Timers) /\ Len(arr) \in Nat
  BY <1>2, LenProperties DEF HeapTypes
<1>5. /\ arr' \in Seq(Timers) /\ Len(arr') = Len(arr) + 1
      /\ Elements(arr') = Elements(arr) \cup {t}
      /\ HeapOrder(arr, expire') => HeapOrder(arr', expire')
  <2>1. PICK key \in [Timers -> Nat] : key = expire'
    BY <1>3
  <2>2. arr' = AddTimer(arr, key, t)
    BY <1>1, <2>1
  <2>3. /\ AddTimer(arr, key, t) \in Seq(Timers)
        /\ Len(AddTimer(arr, key, t)) = Len(arr) + 1
        /\ Elements(AddTimer(arr, key, t)) = Elements(arr) \cup {t}
        /\ HeapOrder(arr, key) => HeapOrder(AddTimer(arr, key, t), key)
    BY <1>4, AddTimerKeeps
  <2> QED
    BY <2>1, <2>2, <2>3
<1>6. HeapTypes'
  <2>1. expire' \in [Timers -> 0..(MaxTime + Lifetime)]
    <3>1. now + Lifetime \in 0..(MaxTime + Lifetime)
      BY <1>2, TimerHeapAssumption DEF TimerHeapAssumption, HeapTypes
    <3> QED
      BY <1>1, <1>2, <3>1 DEF HeapTypes
  <2>2. capacity' \in Nat \ {0} /\ Len(arr') <= capacity'
    <3>1. capacity \in Nat \ {0} /\ Len(arr) <= capacity
      BY <1>2 DEF HeapTypes
    <3> QED
      BY <1>1, <1>4, <1>5, <3>1
  <2> QED
    BY <1>1, <1>2, <1>5, <2>1, <2>2 DEF HeapTypes
<1>7. t \notin Elements(arr) /\ t \notin fired /\ Elements(arr) \subseteq Timers
  BY <1>1, <1>2 DEF HeapComplete
<1>8. HeapComplete'
  <2>1. IsFiniteSet(Elements(arr)) /\ Cardinality(Elements(arr)) = Len(arr)
    BY <1>2, <1>4, DistinctCount DEF HeapComplete
  <2>2. Cardinality(Elements(arr')) = Len(arr')
    BY <1>5, <1>7, <2>1, FS_AddElement
  <2>3. Distinct(arr')
    <3>1. PICK new \in Seq(Timers) : new = arr'
      BY <1>5
    <3>2. Distinct(new)
      BY <2>2, <3>1, DistinctCount
    <3> QED
      BY <3>1, <3>2
  <2>4. Elements(arr') = {s \in Timers : expire'[s] # 0} \ fired'
    <3>1. {s \in Timers : expire'[s] # 0} = {s \in Timers : expire[s] # 0} \cup {t}
      BY <1>3
    <3> QED
      BY <1>1, <1>2, <1>5, <1>7, <3>1 DEF HeapComplete
  <2>5. \A s \in fired' : expire'[s] # 0
    BY <1>1, <1>2, <1>3 DEF HeapComplete, HeapTypes
  <2> QED
    BY <2>3, <2>4, <2>5 DEF HeapComplete
<1>9. ~disturbed' => HeapOrder(arr', expire')
  <2> SUFFICES ASSUME ~disturbed' PROVE HeapOrder(arr', expire')
    OBVIOUS
  <2>1. HeapOrder(arr, expire)
    BY <1>1 DEF HeapInv
  <2>2. \A s \in Elements(arr) : expire'[s] = expire[s]
    BY <1>3, <1>7
  <2>3. HeapOrder(arr, expire')
    BY <1>4, <2>1, <2>2, OtherKeys
  <2> QED
    BY <1>5, <2>3
<1> QED
  BY <1>6, <1>8, <1>9 DEF HeapInv

LEMMA RefreshKeeps ==
  ASSUME HeapInv, NEW t \in Timers, Refresh(t)
  PROVE  HeapInv'
<1>1. /\ t \in Elements(arr)
      /\ expire' = [expire EXCEPT ![t] = now + Lifetime]
      /\ disturbed' = TRUE
      /\ UNCHANGED <<arr, capacity, now, fired>>
  BY DEF Refresh, FreshExpire
<1>2. HeapTypes /\ HeapComplete
  BY DEF HeapInv
<1>3. /\ now + Lifetime # 0
      /\ \A s \in Timers : expire'[s] = IF s = t THEN now + Lifetime ELSE expire[s]
  BY <1>1, <1>2, HeapKeys DEF HeapTypes
<1>4. HeapTypes'
  <2>1. now + Lifetime \in 0..(MaxTime + Lifetime)
    BY <1>2, TimerHeapAssumption DEF TimerHeapAssumption, HeapTypes
  <2> QED
    BY <1>1, <1>2, <2>1 DEF HeapTypes
<1>5. expire[t] # 0
  BY <1>1, <1>2 DEF HeapComplete
<1>6. \A s \in Timers : expire'[s] # 0 <=> expire[s] # 0
  BY <1>3, <1>5
<1>7. {s \in Timers : expire'[s] # 0} = {s \in Timers : expire[s] # 0}
  BY <1>6
<1>8. HeapComplete'
  BY <1>1, <1>2, <1>6, <1>7 DEF HeapComplete, HeapTypes, Elements, Distinct
<1> QED
  BY <1>1, <1>4, <1>8 DEF HeapInv

LEMMA TickGives ==
  ASSUME HeapInv, Tick
  PROVE  /\ arr' \in Seq(Timers) /\ Len(arr') <= Len(arr)
         /\ Remains(arr', arr, expire, now) /\ TickEnds(arr', expire, now)
         /\ fired' = fired \cup (Elements(arr) \ Elements(arr'))
         /\ disturbed' = (disturbed /\ arr' # <<>>)
         /\ UNCHANGED <<capacity, expire, now>>
<1>1. /\ arr' = AfterTick(arr, expire, now)
      /\ fired' = fired \cup (Elements(arr) \ Elements(arr'))
      /\ disturbed' = (disturbed /\ arr' # <<>>)
      /\ UNCHANGED <<capacity, expire, now>>
  BY DEF Tick
<1>2. arr \in Seq(Timers) /\ Distinct(arr) /\ expire \in [Timers -> Nat]
  BY HeapKeys DEF HeapInv, HeapTypes, HeapComplete
<1>3. /\ AfterTick(arr, expire, now) \in Seq(Timers)
      /\ Len(AfterTick(arr, expire, now)) <= Len(arr)
      /\ Remains(AfterTick(arr, expire, now), arr, expire, now)
      /\ TickEnds(AfterTick(arr, expire, now), expire, now)
  BY <1>2, AfterTickKeeps
<1> QED
  BY <1>1, <1>3

LEMMA TickKeeps ==
  ASSUME HeapInv, Tick
  PROVE  HeapInv'
<1>1. /\ arr' \in Seq(Timers) /\ Len(arr') <= Len(arr)
      /\ Distinct(arr') /\ Elements(arr') \subseteq Elements(arr)
      /\ HeapOrder(arr, expire) => HeapOrder(arr', expire)
      /\ fired' = fired \cup (Elements(arr) \ Elements(arr'))
      /\ disturbed' = (disturbed /\ arr' # <<>>)
      /\ UNCHANGED <<capacity, expire, now>>
  BY TickGives DEF Remains
<1>2. HeapTypes /\ HeapComplete
  BY DEF HeapInv
<1>3. Elements(arr) \subseteq Timers
  BY <1>2 DEF HeapComplete
<1>4. HeapTypes'
  <2>1. Len(arr) \in Nat /\ Len(arr') \in Nat
    BY <1>1, <1>2, LenProperties DEF HeapTypes
  <2>2. Len(arr') <= capacity'
    BY <1>1, <1>2, <2>1 DEF HeapTypes
  <2>3. disturbed' \in BOOLEAN
    BY <1>1
  <2> QED
    BY <1>1, <1>2, <1>3, <2>2, <2>3 DEF HeapTypes
<1>5. HeapComplete'
  BY <1>1, <1>2, <1>3 DEF HeapComplete
<1>6. ~disturbed' => HeapOrder(arr', expire')
  <2>1. disturbed /\ arr' = <<>> => HeapOrder(arr', expire')
    BY DEF HeapOrder
  <2>2. ~disturbed => HeapOrder(arr', expire')
    BY <1>1 DEF HeapInv
  <2> QED
    BY <1>1, <2>1, <2>2
<1> QED
  BY <1>4, <1>5, <1>6 DEF HeapInv

LEMMA NextHeap == HeapInv /\ [HeapNext]_heapVars => HeapInv'
<1> SUFFICES ASSUME HeapInv, [HeapNext]_heapVars PROVE HeapInv'
  OBVIOUS
<1>1. ASSUME UNCHANGED heapVars PROVE HeapInv'
  BY <1>1 DEF heapVars, HeapInv, HeapTypes, HeapComplete, Elements, Distinct, HeapOrder
<1>2. ASSUME HeapPass PROVE HeapInv'
  <2>1. now' \in 0..MaxTime
    BY <1>2, TimerHeapAssumption DEF TimerHeapAssumption, HeapPass, SlotPasses, HeapInv, HeapTypes
  <2>2. UNCHANGED <<arr, capacity, expire, fired, disturbed>>
    BY <1>2 DEF HeapPass
  <2>3. HeapTypes'
    BY <2>1, <2>2 DEF HeapInv, HeapTypes
  <2>4. HeapComplete'
    BY <2>2 DEF HeapInv, HeapComplete, Elements, Distinct
  <2>5. (~disturbed => HeapOrder(arr, expire))'
    BY <2>2 DEF HeapInv, HeapOrder
  <2> QED
    BY <2>3, <2>4, <2>5 DEF HeapInv
<1> QED
  BY <1>1, <1>2, AddKeeps, RefreshKeeps, TickKeeps DEF HeapNext

(* The invariant holds whatever timers are added, refreshed in place and   *)
(* fired, and however often resize() has doubled the array.                *)
THEOREM HeapInvariant == HeapSpec => []HeapInv
BY InitHeap, NextHeap, PTL DEF HeapSpec

(* Percolating timers up and down loses none and doubles none, whatever    *)
(* fresh_expire() has done to the keys, and keeps the array a heap for as  *)
(* long as no key was changed in place; resize() keeps room for all.       *)
THEOREM TimersIntactHolds == HeapSpec => []TimersIntact
<1>1. HeapInv => TimersIntact
  <2> SUFFICES ASSUME HeapInv PROVE TimersIntact
    OBVIOUS
  <2>1. HeapTypes /\ HeapComplete
    BY DEF HeapInv
  <2>2. HeapTypeOK
    BY <2>1 DEF HeapTypes, HeapTypeOK
  <2>3. NothingLost
    <3>1. Cardinality(Elements(arr)) = Len(arr)
      BY <2>1, DistinctCount DEF HeapTypes, HeapComplete
    <3> QED
      BY <2>1, <3>1 DEF NothingLost, HeapComplete
  <2>4. HeapOrdered
    BY DEF HeapInv, HeapOrder, HeapOrdered
  <2> QED
    BY <2>2, <2>3, <2>4 DEF TimersIntact
<1> QED
  BY <1>1, HeapInvariant, PTL

(* tick() closes all that has expired as long as no key was changed in     *)
(* place; and when all have expired it closes all in any case.             *)
THEOREM TickFiresExpiredHolds == HeapSpec => TickFiresExpired
<1> DEFINE A == Tick => /\ ~disturbed => \A i \in 1..Len(arr') : expire[arr'[i]] > now
                        /\ (\A t \in Elements(arr) : expire[t] <= now) => arr' = <<>>
<1>1. ASSUME HeapInv, Tick
      PROVE  /\ ~disturbed => \A i \in 1..Len(arr') : expire[arr'[i]] > now
             /\ (\A t \in Elements(arr) : expire[t] <= now) => arr' = <<>>
  <2>1. /\ arr' \in Seq(Timers) /\ TickEnds(arr', expire, now)
        /\ Elements(arr') \subseteq Elements(arr)
        /\ HeapOrder(arr, expire) => HeapOrder(arr', expire)
    BY <1>1, TickGives DEF Remains
  <2>2. expire \in [Timers -> Nat] /\ now \in Nat
    BY <1>1, HeapKeys DEF HeapInv
  <2>3. PICK new \in Seq(Timers) : new = arr'
    BY <2>1
  <2>4. Len(new) \in Nat /\ (new # <<>> => Len(new) # 0)
    BY LenProperties
  <2>5. ASSUME ~disturbed, NEW i \in 1..Len(new) PROVE expire[new[i]] > now
    <3>1. HeapOrder(new, expire)
      BY <1>1, <2>1, <2>3, <2>5 DEF HeapInv
    <3>2. expire[new[1]] <= expire[new[i]]
      BY <2>2, <3>1, RootFirst
    <3>3. new # <<>> /\ 1 \in 1..Len(new)
      BY <2>4
    <3>4. ~ (expire[new[1]] <= now)
      BY <2>1, <2>3, <3>3 DEF TickEnds
    <3>5. new[1] \in Timers /\ new[i] \in Timers
      BY <3>3, ElementOfSeq
    <3>6. expire[new[1]] \in Nat /\ expire[new[i]] \in Nat
      BY <2>2, <3>5
    <3> QED
      BY <2>2, <3>2, <3>4, <3>6
  <2>6. ASSUME \A t \in Elements(arr) : expire[t] <= now, new # <<>> PROVE FALSE
    <3>1. 1 \in 1..Len(new)
      BY <2>4, <2>6
    <3>2. new[1] \in Elements(arr)
      BY <2>1, <2>3, <3>1 DEF Elements
    <3> QED
      BY <2>1, <2>3, <2>6, <3>2 DEF TickEnds
  <2> QED
    BY <2>3, <2>5, <2>6
<1>2. HeapInv /\ [HeapNext]_heapVars => [A]_heapVars
  BY <1>1
<1> HIDE DEF A
<1>3. HeapSpec => [][A]_heapVars
  BY <1>2, HeapInvariant, PTL DEF HeapSpec
<1> QED
  BY <1>3 DEF TickFiresExpired, A
==============================================================================
