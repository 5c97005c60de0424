-------------------------- MODULE ProcessPoolProofs --------------------------
(***************************************************************************)
(* What holds of the process pool for any number of children, whatever the *)
(* capacity of the pipes: PoolInv is inductive, so accept() in a child     *)
(* finds a connection whenever there is a notice, and no process that has  *)
(* ended is forgotten.                                                     *)
(***************************************************************************)
EXTENDS ProcessPool, FiniteSetTheorems, TLAPS

Number(condition) == IF condition THEN 1 ELSE 0

ListenStates ==
  [backlog : Nat, edge : BOOLEAN, total : 0..MaxConnections, served : BOOLEAN]
ParentStates ==
  [phase : {"start", "run", "left", "dead"}, stop : BOOLEAN, counter : Children,
   signals : SUBSET {"chld", "term"}, last : {"none", "chld", "term"},
   batch : SUBSET {"listen", "signal"}, missed : SUBSET Children]
ChildStates ==
  [state : {"start", "run", "zombie", "gone"}, stop : BOOLEAN,
   signals : SUBSET {"chld", "term"}, batch : SUBSET {"notice", "signal", "client"},
   notices : 0..PipeCapacity, edge : BOOLEAN, clients : Nat, input : Nat,
   cgi : Nat, zombies : Nat]

TypeInv ==
  /\ listening \in ListenStates
  /\ listening.backlog <= listening.total
  /\ parent \in ParentStates
  /\ m_pid \in [Children -> Nat \cup {-1}]
  /\ child \in [Children -> ChildStates]

(* A child: behind an edge of its pipe there is a notice, and another one  *)
(* behind the event that it is about to handle; and its CGI programs that  *)
(* have ended are announced.                                               *)
ChildRight(c) ==
  /\ c.state = "start" => c.batch = {}
  /\ c.input <= c.clients
  /\ "client" \in c.batch => c.input > 0
  /\ Number(c.edge) + Number("notice" \in c.batch) <= c.notices
  /\ c.zombies > 0 => "chld" \in c.signals

ChildInv == \A i \in Children : ChildRight(child[i])

(* Before its loop the parent has told nobody of anything.                 *)
StartInv ==
  parent.phase = "start" =>
    /\ \A i \in Children : child[i].notices = 0
    /\ ~listening.edge /\ "listen" \notin parent.batch
    /\ Zombies \subseteq parent.missed

(* An edge of the listening socket, an event that the parent is about to   *)
(* handle and a notice each stand for a connection of their own.           *)
ListenInv ==
  Cardinality(Notices) + Number(listening.edge) + Number("listen" \in parent.batch)
    <= listening.backlog

ZombieInv ==
  parent.phase = "run" => Zombies \subseteq parent.missed \/ "chld" \in parent.signals

PoolInv == TypeInv /\ ChildInv /\ StartInv /\ ListenInv /\ ZombieInv

-----------------------------------------------------------------------------
(* The set of notices.                                                     *)

LEMMA NoticesFinite == IsFiniteSet(Notices) /\ Cardinality(Notices) \in Nat
<1> USE ProcessPoolAssumption DEF ProcessPoolAssumption
<1>1. IsFiniteSet(Children) /\ IsFiniteSet(1..PipeCapacity)
  <2>1. 0 \in Int /\ 1 \in Int /\ ProcessNumber - 1 \in Int /\ PipeCapacity \in Int
    OBVIOUS
  <2> QED
    BY <2>1, FS_Interval DEF Children
<1>2. IsFiniteSet(Children \X (1..PipeCapacity))
  BY <1>1, FS_Product
<1>3. Notices \subseteq Children \X (1..PipeCapacity)
  BY DEF Notices
<1> QED
  BY <1>2, <1>3, FS_Subset, FS_CardinalityType

(* A child that changes, with the pipes of the others as they were.        *)
LEMMA ChildChanges ==
  ASSUME TypeInv, ChildInv, NEW i \in Children, NEW r \in ChildStates, ChildRight(r),
         child' = [child EXCEPT ![i] = r]
  PROVE  /\ child' \in [Children -> ChildStates]
         /\ ChildInv'
         /\ child'[i] = r
         /\ \A j \in Children : j # i => child'[j] = child[j]
BY DEF TypeInv, ChildInv

LEMMA NoticesSame ==
  ASSUME TypeInv, \A j \in Children : child'[j].notices = child[j].notices
  PROVE  Notices' = Notices
BY DEF Notices

LEMMA NoticesFewer ==
  ASSUME TypeInv, \A j \in Children : /\ child'[j].notices \in Nat
                                      /\ child'[j].notices <= child[j].notices
  PROVE  Cardinality(Notices)' \in Nat /\ Cardinality(Notices)' <= Cardinality(Notices)
<1>1. Notices' \subseteq Notices
  <2> SUFFICES ASSUME NEW n \in Children \X (1..PipeCapacity), n[2] <= child'[n[1]].notices
               PROVE  n[2] <= child[n[1]].notices
    BY DEF Notices
  <2>1. n[1] \in Children /\ n[2] \in Nat
    BY ProcessPoolAssumption DEF ProcessPoolAssumption
  <2>2. child[n[1]].notices \in Nat
    BY <2>1 DEF TypeInv, ChildStates
  <2>3. /\ child'[n[1]].notices \in Nat
        /\ child'[n[1]].notices <= child[n[1]].notices
    BY <2>1
  <2> QED
    BY <2>1, <2>2, <2>3
<1> QED
  BY <1>1, NoticesFinite, FS_Subset, FS_CardinalityType

LEMMA NoticeAdded ==
  ASSUME TypeInv, NEW i \in Children, child[i].notices < PipeCapacity,
         child'[i].notices = child[i].notices + 1,
         \A j \in Children : j # i => child'[j] = child[j]
  PROVE  Cardinality(Notices)' = Cardinality(Notices) + 1
<1>1. PICK k \in 1..PipeCapacity : k = child[i].notices + 1
  BY ProcessPoolAssumption DEF ProcessPoolAssumption, TypeInv, ChildStates
<1>2. child[i].notices \in Nat
  BY DEF TypeInv, ChildStates
<1>3. Notices' = Notices \cup {<<i, k>>}
  <2>1. ASSUME NEW j \in Children, NEW l \in 1..PipeCapacity
        PROVE  l <= child'[j].notices <=> l <= child[j].notices \/ (j = i /\ l = k)
    BY <1>1, <1>2, ProcessPoolAssumption DEF ProcessPoolAssumption
  <2> QED
    BY <1>1, <2>1 DEF Notices
<1>4. <<i, k>> \notin Notices
  BY <1>1, <1>2 DEF Notices
<1> QED
  BY <1>3, <1>4, NoticesFinite, FS_AddElement

LEMMA NoticeTaken ==
  ASSUME TypeInv, NEW i \in Children, child[i].notices > 0,
         child'[i].notices = child[i].notices - 1,
         \A j \in Children : j # i => child'[j] = child[j]
  PROVE  Cardinality(Notices)' = Cardinality(Notices) - 1
<1>1. PICK k \in 1..PipeCapacity : k = child[i].notices
  BY ProcessPoolAssumption DEF ProcessPoolAssumption, TypeInv, ChildStates
<1>2. Notices' = Notices \ {<<i, k>>}
  <2>1. ASSUME NEW j \in Children, NEW l \in 1..PipeCapacity
        PROVE  l <= child'[j].notices <=> l <= child[j].notices /\ ~(j = i /\ l = k)
    BY <1>1, ProcessPoolAssumption DEF ProcessPoolAssumption
  <2> QED
    BY <1>1, <2>1 DEF Notices
<1>3. <<i, k>> \in Notices
  BY <1>1 DEF Notices
<1> QED
  BY <1>2, <1>3, NoticesFinite, FS_RemoveElement

LEMMA NoticeSomewhere ==
  ASSUME TypeInv, NEW i \in Children, child[i].notices > 0
  PROVE  Cardinality(Notices) > 0
<1>1. 1 \in 1..PipeCapacity /\ 1 <= child[i].notices
  BY ProcessPoolAssumption DEF ProcessPoolAssumption, TypeInv, ChildStates
<1>2. <<i, 1>> \in Notices
  BY <1>1 DEF Notices
<1> QED
  BY <1>2, NoticesFinite, FS_EmptySet

-----------------------------------------------------------------------------
(* The steps of a child.                                                   *)

(* A child whose notices stay and that does not end.                       *)
LEMMA ChildGoesOn ==
  ASSUME PoolInv, NEW i \in Children, NEW r \in ChildStates, ChildRight(r),
         r.notices = child[i].notices,
         r.state = "zombie" <=> child[i].state = "zombie",
         child' = [child EXCEPT ![i] = r], UNCHANGED <<listening, parent, m_pid>>
  PROVE  PoolInv'
<1> USE DEF PoolInv
<1>1. /\ child' \in [Children -> ChildStates]
      /\ ChildInv'
      /\ child'[i] = r
      /\ \A j \in Children : j # i => child'[j] = child[j]
  BY ChildChanges
<1>2. TypeInv'
  BY <1>1 DEF TypeInv
<1>3. \A j \in Children : /\ child'[j].notices = child[j].notices
                          /\ child'[j].state = "zombie" <=> child[j].state = "zombie"
  BY <1>1
<1>4. Notices' = Notices /\ Zombies' = Zombies
  BY <1>3, NoticesSame DEF Zombies
<1> QED
  BY <1>1, <1>2, <1>3, <1>4 DEF StartInv, ListenInv, ZombieInv

(* A child that ends, with the byte that this writes.                      *)
LEMMA ChildDies ==
  ASSUME PoolInv, NEW i \in Children, Die(i), UNCHANGED <<listening, m_pid>>
  PROVE  PoolInv'
<1> USE DEF PoolInv
<1> DEFINE r == [Forked EXCEPT !.state = "zombie"]
<1>1. /\ r \in ChildStates /\ ChildRight(r)
      /\ r.notices = 0 /\ r.state = "zombie"
  <2>1. /\ r.state = "zombie" /\ r.batch = {} /\ r.notices = 0 /\ ~r.edge
        /\ r.clients = 0 /\ r.input = 0 /\ r.zombies = 0
    BY DEF Forked
  <2>2. r \in ChildStates
    <3>1. 0 \in 0..PipeCapacity
      BY ProcessPoolAssumption DEF ProcessPoolAssumption
    <3>2. Forked \in ChildStates
      BY <3>1 DEF Forked, ChildStates
    <3> QED
      BY <3>2 DEF ChildStates
  <2> QED
    BY <2>1, <2>2 DEF ChildRight, Number
<1>2. child' = [child EXCEPT ![i] = r]
  BY DEF Die
<1> HIDE DEF r
<1>3. /\ child' \in [Children -> ChildStates]
      /\ ChildInv'
      /\ child'[i] = r
      /\ \A j \in Children : j # i => child'[j] = child[j]
  BY <1>1, <1>2, ChildChanges
<1>4. /\ parent' \in ParentStates
      /\ parent'.phase = parent.phase /\ parent'.batch = parent.batch
      /\ IF parent.phase = "run" THEN "chld" \in parent'.signals
                                 ELSE parent'.missed = parent.missed \cup {i}
  BY DEF Die, Noted, TypeInv, ParentStates
<1>5. TypeInv'
  BY <1>3, <1>4 DEF TypeInv
<1>6. \A j \in Children : /\ child'[j].notices \in Nat
                          /\ child'[j].notices <= child[j].notices
  BY <1>1, <1>3, <1>5, ProcessPoolAssumption
    DEF TypeInv, ChildStates, ProcessPoolAssumption
<1>7. Cardinality(Notices)' \in Nat /\ Cardinality(Notices)' <= Cardinality(Notices)
  BY <1>6, NoticesFewer
<1>8. Zombies' = Zombies \cup {i}
  BY <1>1, <1>3 DEF Zombies
<1>9. StartInv'
  <2>1. \A j \in Children : child[j].notices = 0 => child'[j].notices = 0
    BY <1>1, <1>3
  <2> QED
    BY <1>4, <1>8, <2>1 DEF StartInv
<1>10. ListenInv'
  BY <1>4, <1>7, NoticesFinite DEF ListenInv, Number, TypeInv, ListenStates
<1>11. ZombieInv'
  BY <1>4, <1>8 DEF ZombieInv
<1> QED
  BY <1>3, <1>5, <1>9, <1>10, <1>11

LEMMA ClientSendsKeeps ==
  ASSUME PoolInv, NEW i \in Children, ClientSends(i)
  PROVE  PoolInv'
<1>1. child[i] \in ChildStates /\ ChildRight(child[i])
  BY DEF PoolInv, TypeInv, ChildInv
<1>2. PICK n \in Nat : n = child[i].input + 1
  BY <1>1 DEF ChildStates
<1>3. PICK r \in ChildStates : r = [child[i] EXCEPT !.input = n]
  BY <1>1 DEF ChildStates
<1>4. child' = [child EXCEPT ![i] = r]
  BY <1>2, <1>3 DEF ClientSends
<1>5. child[i].input < child[i].clients /\ UNCHANGED <<listening, parent, m_pid>>
  BY DEF ClientSends
<1>6. ChildRight(r)
  BY <1>1, <1>2, <1>3, <1>5 DEF ChildRight, ChildStates
<1>7. r.notices = child[i].notices /\ r.state = child[i].state
  BY <1>1, <1>3 DEF ChildStates
<1> QED
  BY <1>4, <1>5, <1>6, <1>7, ChildGoesOn

LEMMA CgiExitsKeeps ==
  ASSUME PoolInv, NEW i \in Children, CgiExits(i)
  PROVE  PoolInv'
<1>1. child[i] \in ChildStates /\ ChildRight(child[i])
  BY DEF PoolInv, TypeInv, ChildInv
<1>2. child[i].cgi > 0 /\ UNCHANGED <<listening, parent, m_pid>>
  BY DEF CgiExits
<1>3. PICK n, m \in Nat : n = child[i].cgi - 1 /\ m = child[i].zombies + 1
  BY <1>1, <1>2 DEF ChildStates
<1>4. PICK r \in ChildStates :
        r = [child[i] EXCEPT !.cgi = n, !.zombies = m, !.signals = @ \cup {"chld"}]
  BY <1>1 DEF ChildStates
<1>5. child' = [child EXCEPT ![i] = r]
  BY <1>3, <1>4 DEF CgiExits
<1>6. ChildRight(r)
  BY <1>1, <1>4 DEF ChildRight, ChildStates
<1>7. r.notices = child[i].notices /\ r.state = child[i].state
  BY <1>1, <1>4 DEF ChildStates
<1> QED
  BY <1>2, <1>5, <1>6, <1>7, ChildGoesOn

LEMMA ChildSetupKeeps ==
  ASSUME PoolInv, NEW i \in Children, ChildSetup(i)
  PROVE  PoolInv'
<1>1. child[i] \in ChildStates /\ ChildRight(child[i])
  BY DEF PoolInv, TypeInv, ChildInv
<1>2. CASE "term" \in child[i].signals
  BY <1>2, ChildDies DEF ChildSetup
<1>3. CASE "term" \notin child[i].signals
  <2>1. PICK b \in BOOLEAN : b = (child[i].notices > 0)
    <3>1. (child[i].notices > 0) \in BOOLEAN
      OBVIOUS
    <3> QED
      BY <3>1, Zenon
  <2>2. PICK r \in ChildStates : r = [child[i] EXCEPT !.state = "run", !.edge = b]
    BY <1>1 DEF ChildStates
  <2>3. child[i].state = "start" /\ UNCHANGED <<listening, parent, m_pid>>
    BY <1>3 DEF ChildSetup
  <2>4. child' = [child EXCEPT ![i] = r]
    <3>1. child' = [child EXCEPT ![i].state = "run", ![i].edge = child[i].notices > 0]
      BY <1>3, Zenon DEF ChildSetup
    <3>2. child' = [child EXCEPT ![i].state = "run", ![i].edge = b]
      BY <2>1, <3>1, Zenon
    <3> QED
      BY <2>2, <3>2
  <2>5. /\ r.notices = child[i].notices /\ r.state = "run" /\ r.edge = b
        /\ r.batch = {} /\ r.input = child[i].input /\ r.clients = child[i].clients
        /\ r.zombies = child[i].zombies /\ r.signals = child[i].signals
    BY <1>1, <2>2, <2>3 DEF ChildStates, ChildRight
  <2>6. ChildRight(r)
    <3>1. child[i].notices \in Nat /\ (b <=> child[i].notices > 0)
      <4>1. child[i].notices \in Nat
        BY <1>1, ProcessPoolAssumption DEF ChildStates, ProcessPoolAssumption
      <4>2. b <=> child[i].notices > 0
        BY <2>1, Zenon
      <4> QED
        BY <4>1, <4>2
    <3> QED
      BY <1>1, <2>5, <3>1 DEF ChildRight, Number
  <2> QED
    BY <2>3, <2>4, <2>5, <2>6, ChildGoesOn
<1> QED
  BY <1>2, <1>3

LEMMA ChildWaitKeeps ==
  ASSUME PoolInv, NEW i \in Children, ChildWait(i)
  PROVE  PoolInv'
<1>1. child[i] \in ChildStates /\ ChildRight(child[i])
  BY DEF PoolInv, TypeInv, ChildInv
<1> DEFINE events == (IF child[i].edge THEN {"notice"} ELSE {})
                       \cup (IF child[i].signals # {} THEN {"signal"} ELSE {})
                       \cup (IF child[i].input > 0 THEN {"client"} ELSE {})
<1>2. /\ child[i].state = "run" /\ child[i].batch = {}
      /\ child' = [child EXCEPT ![i].batch = events, ![i].edge = FALSE]
      /\ UNCHANGED <<listening, parent, m_pid>>
  BY DEF ChildWait
<1>3. PICK B \in SUBSET {"notice", "signal", "client"} : B = events
  OBVIOUS
<1>4. PICK r \in ChildStates : r = [child[i] EXCEPT !.batch = B, !.edge = FALSE]
  BY <1>1 DEF ChildStates
<1>5. child' = [child EXCEPT ![i] = r]
  BY <1>2, <1>3, <1>4
<1>6. ("notice" \in B <=> child[i].edge) /\ ("client" \in B <=> child[i].input > 0)
  BY <1>3
<1>7. /\ r.notices = child[i].notices /\ r.state = "run" /\ ~r.edge
      /\ r.batch = B /\ r.input = child[i].input /\ r.clients = child[i].clients
      /\ r.zombies = child[i].zombies /\ r.signals = child[i].signals
  BY <1>1, <1>2, <1>4 DEF ChildStates
<1>8. ChildRight(r)
  BY <1>1, <1>2, <1>6, <1>7 DEF ChildRight, Number, ChildStates
<1> QED
  BY <1>2, <1>5, <1>7, <1>8, ChildGoesOn

LEMMA ServeKeeps ==
  ASSUME PoolInv, NEW i \in Children, Serve(i)
  PROVE  PoolInv'
<1>1. child[i] \in ChildStates /\ ChildRight(child[i])
  BY DEF PoolInv, TypeInv, ChildInv
<1>2. /\ "client" \in child[i].batch
      /\ UNCHANGED <<listening, parent, m_pid>>
  BY DEF Serve
<1>3. PICK closed, started \in {0, 1} :
        child' = [child EXCEPT ![i].batch = @ \ {"client"}, ![i].input = @ - 1,
                               ![i].clients = @ - closed, ![i].cgi = @ + started]
  BY DEF Serve
<1>4. child[i].input > 0 /\ child[i].input <= child[i].clients
  BY <1>1, <1>2 DEF ChildRight
<1>5. PICK n, m, k \in Nat : /\ n = child[i].input - 1
                             /\ m = child[i].clients - closed
                             /\ k = child[i].cgi + started
  <2>1. child[i].input \in Nat /\ child[i].clients \in Nat /\ child[i].cgi \in Nat
    BY <1>1 DEF ChildStates
  <2>2. child[i].input - 1 \in Nat /\ child[i].clients - closed \in Nat
    BY <1>4, <2>1
  <2>3. child[i].cgi + started \in Nat
    BY <2>1
  <2> QED
    BY <2>2, <2>3, Zenon
<1>6. PICK r \in ChildStates :
        r = [child[i] EXCEPT !.batch = @ \ {"client"}, !.input = n, !.clients = m, !.cgi = k]
  BY <1>1 DEF ChildStates
<1>7. child' = [child EXCEPT ![i] = r]
  BY <1>3, <1>5, <1>6
<1>8. /\ r.notices = child[i].notices /\ r.state = child[i].state
      /\ r.edge = child[i].edge /\ r.batch = child[i].batch \ {"client"}
      /\ r.input = n /\ r.clients = m
      /\ r.zombies = child[i].zombies /\ r.signals = child[i].signals
  BY <1>1, <1>6 DEF ChildStates
<1>9. ChildRight(r)
  <2>1. n <= m
    BY <1>1, <1>4, <1>5 DEF ChildStates
  <2>2. Number(r.edge) + Number("notice" \in r.batch) <= r.notices
    BY <1>1, <1>8 DEF ChildRight, Number
  <2> QED
    BY <1>1, <1>8, <2>1, <2>2 DEF ChildRight
<1> QED
  BY <1>2, <1>7, <1>8, <1>9, ChildGoesOn

LEMMA ChildSignalsKeeps ==
  ASSUME PoolInv, NEW i \in Children, ChildSignals(i)
  PROVE  PoolInv'
<1>1. child[i] \in ChildStates /\ ChildRight(child[i])
  BY DEF PoolInv, TypeInv, ChildInv
<1>2. /\ child' = [child EXCEPT ![i].batch = @ \ {"signal"}, ![i].signals = {},
                            ![i].zombies = IF "chld" \in child[i].signals THEN 0 ELSE @,
                            ![i].stop = @ \/ "term" \in child[i].signals]
      /\ UNCHANGED <<listening, parent, m_pid>>
  BY DEF ChildSignals
<1>3. PICK z \in Nat : z = IF "chld" \in child[i].signals THEN 0 ELSE child[i].zombies
  BY <1>1 DEF ChildStates
<1>4. PICK b \in BOOLEAN : b = (child[i].stop \/ "term" \in child[i].signals)
  OBVIOUS
<1>5. PICK r \in ChildStates :
        r = [child[i] EXCEPT !.batch = @ \ {"signal"}, !.signals = {}, !.zombies = z, !.stop = b]
  BY <1>1 DEF ChildStates
<1>6. child' = [child EXCEPT ![i] = r]
  <2>1. child' = [child EXCEPT ![i].batch = @ \ {"signal"}, ![i].signals = {},
                               ![i].zombies = z, ![i].stop = b]
    BY <1>2, <1>3, <1>4, Zenon
  <2> QED
    BY <1>5, <2>1
<1>7. z = 0
  BY <1>1, <1>3 DEF ChildRight, ChildStates
<1>8. /\ r.notices = child[i].notices /\ r.state = child[i].state
      /\ r.edge = child[i].edge /\ r.batch = child[i].batch \ {"signal"}
      /\ r.input = child[i].input /\ r.clients = child[i].clients
      /\ r.zombies = 0
  BY <1>1, <1>5, <1>7 DEF ChildStates
<1>9. ChildRight(r)
  BY <1>1, <1>8 DEF ChildRight, Number
<1> QED
  BY <1>2, <1>6, <1>8, <1>9, ChildGoesOn

(* accept() finds a connection, since there is a notice.                   *)
LEMMA InviteKeeps ==
  ASSUME PoolInv, NEW i \in Children, Invite(i)
  PROVE  PoolInv'
<1> USE DEF PoolInv
<1>1. child[i] \in ChildStates /\ ChildRight(child[i]) /\ "notice" \in child[i].batch
  BY DEF TypeInv, ChildInv, Invite
<1>2. child[i].notices \in Nat /\ child[i].notices > 0
  BY <1>1, ProcessPoolAssumption DEF ChildRight, Number, ChildStates, ProcessPoolAssumption
<1>3. listening.backlog \in Nat /\ listening.backlog > 0
  <2>1. Cardinality(Notices) > 0
    BY <1>2, NoticeSomewhere
  <2> QED
    BY <2>1, NoticesFinite DEF ListenInv, Number, TypeInv, ListenStates
<1>4. /\ child' = [child EXCEPT ![i].batch = @ \ {"notice"}, ![i].notices = @ - 1,
                                ![i].clients = @ + 1]
      /\ listening' = [listening EXCEPT !.backlog = @ - 1, !.served = @ \/ 1 = 1]
      /\ UNCHANGED <<parent, m_pid>>
  BY <1>3 DEF Invite
<1>5. PICK n \in 0..PipeCapacity, m \in Nat :
        n = child[i].notices - 1 /\ m = child[i].clients + 1
  BY <1>1, <1>2, ProcessPoolAssumption DEF ChildStates, ProcessPoolAssumption
<1>6. PICK r \in ChildStates :
        r = [child[i] EXCEPT !.batch = @ \ {"notice"}, !.notices = n, !.clients = m]
  BY <1>1 DEF ChildStates
<1>7. child' = [child EXCEPT ![i] = r]
  BY <1>4, <1>5, <1>6
<1>8. /\ r.notices = child[i].notices - 1 /\ r.state = child[i].state
      /\ r.edge = child[i].edge /\ r.batch = child[i].batch \ {"notice"}
      /\ r.input = child[i].input /\ r.clients = child[i].clients + 1
      /\ r.zombies = child[i].zombies /\ r.signals = child[i].signals
  BY <1>1, <1>5, <1>6 DEF ChildStates
<1>9. ChildRight(r)
  <2>1. r.input <= r.clients
    BY <1>1, <1>8 DEF ChildRight, ChildStates
  <2>2. Number(r.edge) + Number("notice" \in r.batch) <= r.notices
    BY <1>1, <1>2, <1>8 DEF ChildRight, Number
  <2> QED
    BY <1>1, <1>8, <2>1, <2>2 DEF ChildRight
<1>10. /\ child' \in [Children -> ChildStates]
       /\ ChildInv'
       /\ child'[i] = r
       /\ \A j \in Children : j # i => child'[j] = child[j]
  BY <1>7, <1>9, ChildChanges
<1>11. PICK k \in Nat : k = listening.backlog - 1
  BY <1>3
<1>12. /\ listening' \in ListenStates
       /\ listening'.backlog = k /\ listening'.edge = listening.edge
       /\ listening'.total = listening.total
  <2>1. listening' = [listening EXCEPT !.backlog = k, !.served = TRUE]
    BY <1>4, <1>11
  <2> QED
    BY <2>1 DEF TypeInv, ListenStates
<1>13. TypeInv'
  BY <1>3, <1>4, <1>10, <1>11, <1>12 DEF TypeInv, ListenStates
<1>14. Cardinality(Notices)' = Cardinality(Notices) - 1
  BY <1>2, <1>8, <1>10, NoticeTaken
<1>15. Zombies' = Zombies
  BY <1>8, <1>10 DEF Zombies
<1>16. ListenInv'
  BY <1>3, <1>4, <1>11, <1>12, <1>14, NoticesFinite DEF ListenInv, Number
<1>17. StartInv'
  BY <1>2, <1>4 DEF StartInv
<1>18. ZombieInv'
  BY <1>4, <1>15 DEF ZombieInv
<1> QED
  BY <1>10, <1>13, <1>16, <1>17, <1>18

LEMMA ChildKeeps ==
  ASSUME PoolInv, NEW i \in Children, Child(i)
  PROVE  PoolInv'
<1>1. CASE ChildExit(i)
  BY <1>1, ChildDies DEF ChildExit
<1> QED
  BY <1>1, ChildSetupKeeps, ChildWaitKeeps, InviteKeeps, ServeKeeps, ChildSignalsKeeps
    DEF Child

-----------------------------------------------------------------------------
(* The environment.                                                        *)

LEMMA EnvironmentKeeps ==
  ASSUME PoolInv, Environment
  PROVE  PoolInv'
<1> USE DEF PoolInv
<1>1. CASE Connect
  <2>1. /\ listening.total < MaxConnections
        /\ listening' = [backlog |-> listening.backlog + 1, edge |-> parent.phase = "run",
                         total |-> listening.total + 1, served |-> FALSE]
        /\ UNCHANGED <<parent, m_pid, child>>
    BY <1>1 DEF Connect
  <2>2. listening.backlog \in Nat /\ listening.total \in Nat /\ listening.edge \in BOOLEAN
    BY ProcessPoolAssumption DEF TypeInv, ListenStates, ProcessPoolAssumption
  <2>3. PICK n \in Nat, m \in 0..MaxConnections, e \in BOOLEAN :
          /\ n = listening.backlog + 1 /\ m = listening.total + 1
          /\ e = (parent.phase = "run")
    <3>1. /\ listening.backlog + 1 \in Nat /\ listening.total + 1 \in 0..MaxConnections
          /\ (parent.phase = "run") \in BOOLEAN
      BY <2>1, <2>2, ProcessPoolAssumption DEF ProcessPoolAssumption
    <3> QED
      BY <3>1, Zenon
  <2>4. listening' = [backlog |-> n, edge |-> e, total |-> m, served |-> FALSE]
    BY <2>1, <2>3, Zenon
  <2>5. /\ listening' \in ListenStates
        /\ listening'.backlog = n /\ listening'.total = m /\ (listening'.edge <=> e)
    BY <2>4 DEF ListenStates
  <2>6. e <=> parent.phase = "run"
    BY <2>3, Zenon
  <2>7. TypeInv'
    BY <2>1, <2>2, <2>3, <2>5 DEF TypeInv
  <2>8. Notices' = Notices /\ Zombies' = Zombies /\ ChildInv'
    BY <2>1 DEF Notices, Zombies, ChildInv
  <2>9. ListenInv'
    BY <2>1, <2>2, <2>3, <2>5, <2>8, NoticesFinite DEF ListenInv, Number
  <2>10. StartInv'
    BY <2>1, <2>5, <2>6, <2>8 DEF StartInv
  <2> QED
    BY <2>1, <2>7, <2>8, <2>9, <2>10 DEF ZombieInv
<1>2. CASE Terminate
  <2>1. /\ parent' \in ParentStates
        /\ parent'.batch = parent.batch /\ parent'.missed = parent.missed
        /\ parent.signals \subseteq parent'.signals
        /\ \/ parent'.phase = "dead"
           \/ parent.phase = "run" /\ parent'.phase = "run"
    <3>1. CASE parent.phase = "start" /\ parent' = [parent EXCEPT !.phase = "dead"]
      BY <3>1 DEF TypeInv, ParentStates
    <3>2. CASE parent.phase = "run" /\ parent' = Noted("term")
      BY <3>2 DEF Noted, TypeInv, ParentStates
    <3> QED
      BY <1>2, <3>1, <3>2 DEF Terminate
  <2>2. UNCHANGED <<listening, m_pid, child>>
    BY <1>2 DEF Terminate
  <2>3. TypeInv'
    BY <2>1, <2>2 DEF TypeInv
  <2>4. Notices' = Notices /\ Zombies' = Zombies /\ ChildInv'
    BY <2>2 DEF Notices, Zombies, ChildInv
  <2> QED
    BY <2>1, <2>2, <2>3, <2>4 DEF StartInv, ListenInv, ZombieInv
<1>3. ASSUME NEW i \in Children, Crash(i)
      PROVE  PoolInv'
  BY <1>3, ChildDies DEF Crash
<1> QED
  BY <1>1, <1>2, <1>3, ClientSendsKeeps, CgiExitsKeeps DEF Environment

-----------------------------------------------------------------------------
(* The steps of the parent.                                                *)

LEMMA ParentSetupKeeps ==
  ASSUME PoolInv, ParentSetup
  PROVE  PoolInv'
<1> USE DEF PoolInv
<1>1. /\ parent.phase = "start"
      /\ parent' = [parent EXCEPT !.phase = "run"]
      /\ listening' = [listening EXCEPT !.edge = @ \/ listening.backlog > 0]
      /\ UNCHANGED <<m_pid, child>>
  BY DEF ParentSetup
<1>2. /\ parent' \in ParentStates /\ parent'.phase = "run"
      /\ parent'.batch = parent.batch /\ parent'.missed = parent.missed
  BY <1>1 DEF TypeInv, ParentStates
<1>3. PICK b \in BOOLEAN : b = (listening.edge \/ listening.backlog > 0)
  <2>1. (listening.edge \/ listening.backlog > 0) \in BOOLEAN
    OBVIOUS
  <2> QED
    BY <2>1, Zenon
<1>4. listening' = [listening EXCEPT !.edge = b]
  BY <1>1, <1>3, Zenon
<1>5. /\ listening' \in ListenStates /\ (listening'.edge <=> b)
      /\ listening'.backlog = listening.backlog /\ listening'.total = listening.total
  BY <1>4 DEF TypeInv, ListenStates
<1>6. b <=> listening.edge \/ listening.backlog > 0
  BY <1>3, Zenon
<1>7. TypeInv'
  BY <1>1, <1>2, <1>5 DEF TypeInv
<1>8. Zombies' = Zombies /\ Notices' = Notices /\ ChildInv'
  BY <1>1 DEF Zombies, Notices, ChildInv
<1>9. Cardinality(Notices) = 0
  <2>1. \A i \in Children : child[i].notices = 0
    BY <1>1 DEF StartInv
  <2>2. ASSUME NEW n \in Notices
        PROVE  FALSE
    <3>1. n[1] \in Children /\ n[2] \in 1..PipeCapacity /\ n[2] <= child[n[1]].notices
      BY DEF Notices
    <3>2. child[n[1]].notices = 0
      BY <2>1, <3>1
    <3> QED
      BY <3>1, <3>2, ProcessPoolAssumption DEF ProcessPoolAssumption
  <2>3. Notices = {}
    BY <2>2
  <2> QED
    BY <2>3, FS_EmptySet
<1>10. ListenInv'
  <2>1. /\ listening.backlog \in Nat /\ ~listening.edge
        /\ "listen" \notin parent'.batch
    BY <1>1, <1>2 DEF StartInv, TypeInv, ListenStates
  <2> QED
    BY <1>5, <1>6, <1>8, <1>9, <2>1 DEF ListenInv, Number
<1> QED
  BY <1>1, <1>2, <1>7, <1>8, <1>10 DEF StartInv, ZombieInv

LEMMA ParentWaitKeeps ==
  ASSUME PoolInv, ParentWait
  PROVE  PoolInv'
<1> USE DEF PoolInv
<1> DEFINE events == (IF listening.edge THEN {"listen"} ELSE {})
                       \cup (IF parent.signals # {} THEN {"signal"} ELSE {})
<1>1. /\ parent.phase = "run" /\ parent.batch = {}
      /\ parent' = [parent EXCEPT !.batch = events]
      /\ listening' = [listening EXCEPT !.edge = FALSE]
      /\ UNCHANGED <<m_pid, child>>
  BY DEF ParentWait
<1>2. PICK B \in SUBSET {"listen", "signal"} : B = events
  OBVIOUS
<1>3. "listen" \in B <=> listening.edge
  BY <1>2
<1>4. /\ parent' \in ParentStates /\ parent'.phase = "run" /\ parent'.batch = B
      /\ parent'.missed = parent.missed /\ parent'.signals = parent.signals
  <2>1. parent' = [parent EXCEPT !.batch = B]
    BY <1>1, <1>2
  <2> QED
    BY <1>1, <2>1 DEF TypeInv, ParentStates
<1>5. /\ listening' \in ListenStates /\ ~listening'.edge
      /\ listening'.backlog = listening.backlog /\ listening'.total = listening.total
  BY <1>1 DEF TypeInv, ListenStates
<1>6. TypeInv'
  BY <1>1, <1>4, <1>5 DEF TypeInv
<1>7. Zombies' = Zombies /\ Notices' = Notices /\ ChildInv'
  BY <1>1 DEF Zombies, Notices, ChildInv
<1>8. ListenInv'
  <2>1. ~("listen" \in parent.batch) /\ listening.backlog \in Nat
    BY <1>1 DEF TypeInv, ListenStates
  <2> QED
    BY <1>3, <1>4, <1>5, <1>7, <2>1, NoticesFinite DEF ListenInv, Number
<1> QED
  BY <1>1, <1>4, <1>6, <1>7, <1>8 DEF StartInv, ZombieInv

(* The parent finds the nearest child that it takes for running.           *)
LEMMA ChosenIsChild ==
  ASSUME PoolInv, Candidates # {}
  PROVE  Chosen \in Children
<1> USE ProcessPoolAssumption DEF ProcessPoolAssumption
<1> DEFINE Below(k) == {l \in Candidates : l <= k}
           Parts == {Below(k) : k \in Candidates}
<1>1. Candidates \subseteq Nat /\ Candidates \subseteq Children
  BY DEF Candidates, Children
<1>2. IsFiniteSet(Candidates)
  <2>1. 0 \in Int /\ ProcessNumber - 1 \in Int
    OBVIOUS
  <2>2. IsFiniteSet(Children)
    BY <2>1, FS_Interval DEF Children
  <2> QED
    BY <1>1, <2>2, FS_Subset
<1>3. Parts \subseteq FiniteSubsetsOf(Candidates) /\ Parts # {}
  <2>1. \A T \in SUBSET Candidates : IsFiniteSet(T)
    BY <1>2, FS_Subset
  <2>2. \A k \in Candidates : Below(k) \in SUBSET Candidates
    OBVIOUS
  <2> QED
    BY <2>1, <2>2 DEF FiniteSubsetsOf
<1>4. PICK B \in Parts : \A Q \in Parts : <<Q, B>> \notin StrictSubsetOrdering(Candidates)
  BY <1>3, FS_StrictSubsetOrderingWellFounded, WFMin
<1>5. PICK k \in Candidates : B = Below(k)
  OBVIOUS
<1>6. ASSUME NEW l \in Candidates, l < k PROVE FALSE
  <2>1. /\ k \in Nat /\ l \in Nat /\ k <= k /\ ~(k <= l)
        /\ \A m \in Nat : m <= l => m <= k
    BY <1>1, <1>6
  <2>2. Below(l) \subseteq Below(k) /\ k \notin Below(l) /\ k \in Below(k)
    BY <1>1, <2>1, Zenon
  <2>3. <<Below(l), B>> \in StrictSubsetOrdering(Candidates)
    BY <2>2, <1>5 DEF StrictSubsetOrdering
  <2> QED
    BY <2>3, <1>4
<1>7. \A l \in Candidates : k <= l
  BY <1>1, <1>6
<1>8. PICK n \in Nat :
        n = CHOOSE m \in Candidates : \A l \in Candidates : m <= l
  BY <1>1, <1>7, Zenon
<1>9. Chosen = (parent.counter + n) % ProcessNumber
  BY <1>8 DEF Chosen
<1>10. parent.counter \in Nat
  BY DEF PoolInv, TypeInv, ParentStates, Children
<1> QED
  BY <1>9, <1>10 DEF Children

LEMMA NotifyKeeps ==
  ASSUME PoolInv, Notify
  PROVE  PoolInv'
<1> USE DEF PoolInv
<1>1. "listen" \in parent.batch /\ UNCHANGED <<listening, m_pid>>
  BY DEF Notify
<1>2. listening.backlog \in Nat /\ parent.phase # "start"
  BY <1>1 DEF StartInv, TypeInv, ListenStates
<1>3. CASE Candidates = {}
  <2>1. child' = child /\ parent' = [parent EXCEPT !.batch = {}, !.stop = TRUE]
    BY <1>3 DEF Notify
  <2>2. /\ parent' \in ParentStates /\ parent'.phase = parent.phase /\ parent'.batch = {}
        /\ parent'.missed = parent.missed /\ parent'.signals = parent.signals
    BY <2>1 DEF TypeInv, ParentStates
  <2>3. TypeInv'
    BY <1>1, <2>1, <2>2 DEF TypeInv
  <2>4. Zombies' = Zombies /\ Notices' = Notices /\ ChildInv'
    BY <2>1 DEF Zombies, Notices, ChildInv
  <2>5. ListenInv'
    BY <1>1, <1>2, <2>2, <2>4, NoticesFinite DEF ListenInv, Number
  <2> QED
    BY <1>2, <2>2, <2>3, <2>4, <2>5 DEF StartInv, ZombieInv
<1>4. CASE Candidates # {}
  <2>1. PICK i \in Children : i = Chosen
    BY <1>4, ChosenIsChild
  <2>2. /\ parent' = [parent EXCEPT !.batch = @ \ {"listen"},
                                    !.counter = (i + 1) % ProcessNumber]
        /\ SendNotice(i)
    BY <1>4, <2>1 DEF Notify
  <2>3. (i + 1) % ProcessNumber \in Children
    BY ProcessPoolAssumption DEF ProcessPoolAssumption, Children
  <2>4. /\ parent' \in ParentStates /\ parent'.phase = parent.phase
        /\ "listen" \notin parent'.batch
        /\ parent'.missed = parent.missed /\ parent'.signals = parent.signals
    <3>1. PICK n \in Children : n = (i + 1) % ProcessNumber
      BY <2>3
    <3>2. parent' = [parent EXCEPT !.batch = @ \ {"listen"}, !.counter = n]
      BY <2>2, <3>1
    <3> QED
      BY <3>2 DEF TypeInv, ParentStates
  <2>5. CASE ~Alive(i)
    <3>1. child' = child
      BY <2>2, <2>5 DEF SendNotice
    <3>2. TypeInv'
      BY <1>1, <2>4, <3>1 DEF TypeInv
    <3>3. Zombies' = Zombies /\ Notices' = Notices /\ ChildInv'
      BY <3>1 DEF Zombies, Notices, ChildInv
    <3>4. ListenInv'
      BY <1>1, <1>2, <2>4, <3>3, NoticesFinite DEF ListenInv, Number
    <3> QED
      BY <1>2, <2>4, <3>2, <3>3, <3>4 DEF StartInv, ZombieInv
  <2>6. CASE Alive(i)
    <3>1. /\ child[i].notices < PipeCapacity
          /\ child' = [child EXCEPT ![i].notices = @ + 1,
                                    ![i].edge = @ \/ child[i].state = "run"]
      BY <2>2, <2>6 DEF SendNotice
    <3>2. child[i] \in ChildStates /\ ChildRight(child[i])
      BY DEF TypeInv, ChildInv
    <3>3. PICK n \in 0..PipeCapacity : n = child[i].notices + 1
      BY <3>1, <3>2, ProcessPoolAssumption DEF ChildStates, ProcessPoolAssumption
    <3>4. PICK b \in BOOLEAN : b = (child[i].edge \/ child[i].state = "run")
      OBVIOUS
    <3>5. PICK r \in ChildStates : r = [child[i] EXCEPT !.notices = n, !.edge = b]
      BY <3>2 DEF ChildStates
    <3>6. child' = [child EXCEPT ![i] = r]
      <4>1. child' = [child EXCEPT ![i].notices = n, ![i].edge = b]
        BY <3>1, <3>3, <3>4, Zenon
      <4> QED
        BY <3>5, <4>1
    <3>7. /\ r.notices = n /\ r.state = child[i].state
          /\ r.batch = child[i].batch
          /\ r.input = child[i].input /\ r.clients = child[i].clients
          /\ r.zombies = child[i].zombies /\ r.signals = child[i].signals
      BY <3>2, <3>5 DEF ChildStates
    <3>8. ChildRight(r)
      <4>1. child[i].notices \in Nat
        BY <3>2, ProcessPoolAssumption DEF ChildStates, ProcessPoolAssumption
      <4>2. Number("notice" \in child[i].batch) <= child[i].notices
        BY <3>2, <4>1 DEF ChildRight, Number
      <4>3. Number(r.edge) + Number("notice" \in r.batch) <= r.notices
        BY <3>3, <3>7, <4>1, <4>2 DEF Number
      <4> QED
        BY <3>2, <3>7, <4>3 DEF ChildRight
    <3>9. /\ child' \in [Children -> ChildStates]
          /\ ChildInv'
          /\ child'[i] = r
          /\ \A j \in Children : j # i => child'[j] = child[j]
      BY <3>6, <3>8, ChildChanges
    <3>10. TypeInv'
      BY <1>1, <2>4, <3>9 DEF TypeInv
    <3>11. Cardinality(Notices)' = Cardinality(Notices) + 1
      BY <3>1, <3>3, <3>7, <3>9, NoticeAdded
    <3>12. Zombies' = Zombies
      BY <3>7, <3>9 DEF Zombies
    <3>13. ListenInv'
      BY <1>1, <1>2, <2>4, <3>11, NoticesFinite DEF ListenInv, Number
    <3> QED
      BY <1>2, <2>4, <3>9, <3>10, <3>12, <3>13 DEF StartInv, ZombieInv
  <2> QED
    BY <2>5, <2>6
<1> QED
  BY <1>3, <1>4

LEMMA ParentSignalsKeeps ==
  ASSUME PoolInv, ParentSignals
  PROVE  PoolInv'
<1> USE DEF PoolInv
<1> DEFINE chld == "chld" \in parent.signals
           term == "term" \in parent.signals
<1>1. /\ m_pid' = [i \in Children |->
           IF chld /\ Zombies # {} /\ m_pid[i] = WaitResult THEN -1 ELSE m_pid[i]]
      /\ child' = [i \in Children |->
           IF chld /\ i \in Zombies THEN [child[i] EXCEPT !.state = "gone"]
           ELSE IF term /\ m_pid[i] # -1 /\ Alive(i)
             THEN [child[i] EXCEPT !.signals = @ \cup {"term"}]
           ELSE child[i]]
      /\ UNCHANGED listening
  BY DEF ParentSignals, HandleSignals
<1>2. /\ parent' \in ParentStates /\ parent'.phase = parent.phase
      /\ parent'.batch = parent.batch \ {"signal"}
      /\ parent'.missed = parent.missed
  <2>1. PICK b : parent' = [parent EXCEPT !.batch = @ \ {"signal"}, !.signals = {},
                                          !.last = "none", !.stop = b]
                 /\ b \in BOOLEAN
    <3>1. PICK b \in BOOLEAN :
            b = IF parent.last = "term" THEN TRUE ELSE \A i \in Children : m_pid'[i] = -1
      OBVIOUS
    <3> QED
      BY <3>1 DEF ParentSignals, HandleSignals
  <2> QED
    BY <2>1 DEF TypeInv, ParentStates
<1>3. m_pid' \in [Children -> Nat \cup {-1}]
  BY <1>1 DEF TypeInv
<1>4. \A i \in Children :
        /\ child'[i] \in ChildStates /\ ChildRight(child'[i])
        /\ child'[i].notices = child[i].notices
        /\ child'[i].state = IF chld /\ i \in Zombies THEN "gone" ELSE child[i].state
  <2> SUFFICES ASSUME NEW i \in Children
               PROVE  /\ child'[i] \in ChildStates /\ ChildRight(child'[i])
                      /\ child'[i].notices = child[i].notices
                      /\ child'[i].state = IF chld /\ i \in Zombies THEN "gone"
                                                                    ELSE child[i].state
    OBVIOUS
  <2>1. child[i] \in ChildStates /\ ChildRight(child[i])
    BY DEF TypeInv, ChildInv
  <2>2. CASE chld /\ i \in Zombies
    <3>1. child'[i] = [child[i] EXCEPT !.state = "gone"]
      BY <1>1, <2>2
    <3> QED
      BY <2>1, <2>2, <3>1 DEF ChildStates, ChildRight
  <2>3. CASE ~(chld /\ i \in Zombies) /\ term /\ m_pid[i] # -1 /\ Alive(i)
    <3>1. child'[i] = [child[i] EXCEPT !.signals = @ \cup {"term"}]
      BY <1>1, <2>3
    <3> QED
      BY <2>1, <2>3, <3>1 DEF ChildStates, ChildRight
  <2>4. CASE ~(chld /\ i \in Zombies) /\ ~(term /\ m_pid[i] # -1 /\ Alive(i))
    <3>1. child'[i] = child[i]
      BY <1>1, <2>4
    <3> QED
      BY <2>1, <2>4, <3>1
  <2> QED
    BY <2>2, <2>3, <2>4
<1>5. TypeInv'
  <2>1. child' \in [Children -> ChildStates]
    BY <1>1, <1>4
  <2> QED
    BY <1>1, <1>2, <1>3, <2>1 DEF TypeInv
<1>6. ChildInv'
  BY <1>4 DEF ChildInv
<1>7. Notices' = Notices
  BY <1>4, NoticesSame
<1>8. Zombies' = IF chld THEN {} ELSE Zombies
  BY <1>4 DEF Zombies
<1>9. StartInv'
  BY <1>1, <1>2, <1>4, <1>8 DEF StartInv
<1>10. ListenInv'
  <2>1. "listen" \in parent'.batch <=> "listen" \in parent.batch
    BY <1>2
  <2> QED
    BY <1>1, <1>7, <2>1 DEF ListenInv, Number
<1>11. ZombieInv'
  BY <1>2, <1>8 DEF ZombieInv
<1> QED
  BY <1>5, <1>6, <1>9, <1>10, <1>11

LEMMA ParentLeaveKeeps ==
  ASSUME PoolInv, ParentLeave
  PROVE  PoolInv'
<1> USE DEF PoolInv
<1>1. /\ parent' = [parent EXCEPT !.phase = "left"]
      /\ UNCHANGED <<listening, m_pid, child>>
  BY DEF ParentLeave
<1>2. parent' \in ParentStates /\ parent'.phase = "left" /\ parent'.batch = parent.batch
  BY <1>1 DEF TypeInv, ParentStates
<1>3. TypeInv'
  BY <1>1, <1>2 DEF TypeInv
<1>4. Notices' = Notices /\ ChildInv'
  BY <1>1 DEF Notices, ChildInv
<1> QED
  BY <1>1, <1>2, <1>3, <1>4 DEF StartInv, ListenInv, ZombieInv

-----------------------------------------------------------------------------
(* Where main() has forked the children and nobody has connected.          *)
LEMMA PoolInvInit == Init => PoolInv
<1> SUFFICES ASSUME Init
             PROVE  PoolInv
  OBVIOUS
<1> USE ProcessPoolAssumption DEF ProcessPoolAssumption
<1>1. 0 \in 0..PipeCapacity /\ 0 \in 0..MaxConnections /\ 0 \in Children
  BY DEF Children
<1>2. /\ listening = [backlog |-> 0, edge |-> FALSE, total |-> 0, served |-> TRUE]
      /\ parent = [phase |-> "start", stop |-> FALSE, counter |-> 0, signals |-> {},
                   last |-> "none", batch |-> {}, missed |-> {}]
      /\ m_pid = [i \in Children |-> PidOf(i)]
      /\ child = [i \in Children |-> Forked]
  BY DEF Init
<1>3. Forked \in ChildStates
  BY <1>1 DEF Forked, ChildStates
<1>4. TypeInv
  <2>1. listening \in ListenStates /\ listening.backlog <= listening.total
    BY <1>1, <1>2 DEF ListenStates
  <2>2. parent \in ParentStates
    BY <1>1, <1>2 DEF ParentStates
  <2>3. m_pid \in [Children -> Nat \cup {-1}]
    BY <1>2 DEF PidOf, Children
  <2> QED
    BY <1>2, <1>3, <2>1, <2>2, <2>3 DEF TypeInv
<1>5. ChildInv
  BY <1>2 DEF ChildInv, ChildRight, Forked, Number
<1>6. \A i \in Children : child[i].notices = 0 /\ child[i].state = "start"
  BY <1>2 DEF Forked
<1>7. StartInv
  BY <1>2, <1>6 DEF StartInv, Zombies
<1>8. ListenInv
  <2>1. ASSUME NEW n \in Notices
        PROVE  FALSE
    BY <1>6 DEF Notices
  <2>2. Cardinality(Notices) = 0
    BY <2>1, FS_EmptySet
  <2> QED
    BY <1>2, <2>2 DEF ListenInv, Number
<1> QED
  BY <1>2, <1>4, <1>5, <1>7, <1>8 DEF PoolInv, ZombieInv

LEMMA PoolInvNext == PoolInv /\ [Next]_vars => PoolInv'
<1> SUFFICES ASSUME PoolInv, [Next]_vars
             PROVE  PoolInv'
  OBVIOUS
<1>1. CASE Parent
  BY <1>1, ParentSetupKeeps, ParentWaitKeeps, NotifyKeeps, ParentSignalsKeeps,
     ParentLeaveKeeps DEF Parent
<1>2. CASE Environment
  BY <1>2, EnvironmentKeeps
<1>3. CASE \E i \in Children : Child(i)
  BY <1>3, ChildKeeps
<1>4. CASE UNCHANGED vars
  BY <1>4 DEF vars, PoolInv, TypeInv, ChildInv, StartInv, ListenInv, ZombieInv, Notices,
              Zombies
<1> QED
  BY <1>1, <1>2, <1>3, <1>4 DEF Next

(* The invariant of the pool, for any number of children, connections and  *)
(* signals: src/CGIserv/processpool.h, run_parent() and run_child().       *)
THEOREM PoolInvariant == Spec => []PoolInv
BY PoolInvInit, PoolInvNext, PTL DEF Spec

(* A notice stands for a connection of its own: the accept() of run_child()*)
(* never finds the backlog empty, however the edges merge.                 *)
THEOREM EveryNoticeHasConnectionHolds == Spec => []EveryNoticeHasConnection
<1>1. PoolInv => EveryNoticeHasConnection
  <2> SUFFICES ASSUME PoolInv
               PROVE  EveryNoticeHasConnection
    OBVIOUS
  <2> USE DEF PoolInv
  <2>1. TypeOK
    <3>1. listening.backlog \in 0..MaxConnections
      BY ProcessPoolAssumption DEF TypeInv, ListenStates, ProcessPoolAssumption
    <3>2. \A i \in Children : /\ child[i] \in ChildStates
                              /\ child[i].input <= child[i].clients
      BY DEF TypeInv, ChildInv, ChildRight
    <3>3. \A i \in Children : child[i].input \in 0..child[i].clients
      BY <3>2 DEF ChildStates
    <3> QED
      BY <3>1, <3>2, <3>3 DEF TypeInv, ParentStates, ChildStates, TypeOK
  <2>2. listening.backlog \in Nat
    BY DEF TypeInv, ListenStates
  <2> QED
    BY <2>1, <2>2, NoticesFinite DEF EveryNoticeHasConnection, ListenInv, Number
<1> QED
  BY <1>1, PoolInvariant, PTL

(* A child that has ended after the parent had its handler is announced in *)
(* the pipe of the parent, and an ended CGI program in that of its child.  *)
THEOREM NoZombieForgottenHolds == Spec => []NoZombieForgotten
<1>1. PoolInv => NoZombieForgotten
  BY DEF PoolInv, ChildInv, ChildRight, ZombieInv, NoZombieForgotten
<1> QED
  BY <1>1, PoolInvariant, PTL
=============================================================================
