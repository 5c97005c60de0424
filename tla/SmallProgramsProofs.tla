------------------------- MODULE SmallProgramsProofs -------------------------
(***************************************************************************)
(* What holds of the small programs for every value of their constants.    *)
(* Each has an inductive invariant of its own; a behaviour of AllSpec is   *)
(* one of one program, whose invariant each of its steps preserves, while  *)
(* the variables of the others do not change.                              *)
(***************************************************************************)
EXTENDS MCSmallPrograms, FiniteSetTheorems, SequenceTheorems, TLAPS

-----------------------------------------------------------------------------
(* ThreadedWeb.                                                            *)

WebPlaces == {"none", "start", "read", "reply", "fopen", "copy", "fclose", "lock", "load",
              "store", "unlock", "close", "done"}
Answers == [by : Web!Connections, kind : Web!Kinds, shown : Nat]

ConnStates == [at : {"outside", "accepted", "sent", "read", "closed"},
               kind : Web!Kinds \cup {Web!Silent}, answers : SUBSET Answers]
ThreadStates == [pc : WebPlaces, fd : Nat, kind : Web!Kinds, file : Nat, loaded : Nat]

WebTypeInv ==
  /\ fds \in [Web!Fds -> Nat]
  /\ conn \in [Web!Connections -> ConnStates]
  /\ thread \in [Web!Connections -> ThreadStates]
  /\ serv \in [main_requests : Nat, requests : Nat, bytes : Nat]
  /\ webGhosts \in [sent : Nat, stolen : BOOLEAN, crashed : BOOLEAN]
  /\ \A t \in Web!Connections :
       /\ thread[t].pc # "none" => thread[t].fd \in Web!Fds
       /\ thread[t].pc = "copy" => thread[t].file \in Web!Fds

(* Whoever is between Lock() and Unlock() has the mutex, and the counter   *)
(* has not changed since it was loaded.                                    *)
BytesInv ==
  /\ \A t \in Web!Connections :
       /\ thread[t].pc \in {"load", "store", "unlock"} => bytes_mutex = t
       /\ thread[t].pc = "store" => thread[t].loaded = serv.bytes
  /\ serv.bytes = webGhosts.sent

Answered(c) ==
  \E x \in Answers : conn[c].answers = {x} /\ x.by = c /\ conn[c].kind \in {x.kind, Web!Silent}

Owns(c) == fds[thread[c].fd] = c

Gone(c) == conn[c].at = "closed" /\ \A n \in Web!Fds : fds[n] # c

(* As long as no number was closed for somebody else, a thread owns its    *)
(* number until it closes it, and its connection is as far as it is.       *)
Served(c) ==
  /\ \A n \in Web!Fds : fds[n] = c => n = thread[c].fd /\ thread[c].pc # "none"
  /\ thread[c].pc = "none" => conn[c].at = "outside" /\ conn[c].answers = {}
  /\ thread[c].pc \in {"start", "read"} =>
       Owns(c) /\ conn[c].at \in {"accepted", "sent"} /\ conn[c].answers = {}
  /\ thread[c].pc = "reply" =>
       /\ Owns(c) /\ conn[c].at = "read" /\ conn[c].answers = {}
       /\ conn[c].kind \in {thread[c].kind, Web!Silent}
  /\ thread[c].pc \in {"fopen", "copy", "fclose"} =>
       Owns(c) /\ conn[c].at = "read" /\ Answered(c)
  /\ thread[c].pc \in {"lock", "load", "store", "unlock"} => Gone(c) /\ Answered(c)
  /\ thread[c].pc = "close" =>
       \/ /\ Owns(c) /\ conn[c].at = "read" /\ conn[c].answers = {}
          /\ conn[c].kind \in {"bad", Web!Silent}
       \/ Gone(c) /\ Answered(c)
  /\ thread[c].pc = "done" =>
       /\ Gone(c)
       /\ Answered(c) \/ (conn[c].answers = {} /\ conn[c].kind \in {"bad", Web!Silent})

WebInv ==
  /\ WebTypeInv /\ BytesInv
  /\ ~webGhosts.stolen => \A c \in Web!Connections : Served(c)

(* The number that the system gives is a free one.                         *)
LEMMA LowestIsFree ==
  ASSUME WebTypeInv, Web!FreeFds # {}
  PROVE  Web!Lowest \in Web!FreeFds
<1> DEFINE F == Web!FreeFds
           Below(k) == {l \in F : l <= k}
           Parts == {Below(k) : k \in F}
<1>1. F \subseteq Nat /\ F \subseteq Web!Fds
  BY SmallProgramsAssumption DEF SmallProgramsAssumption, Web!FreeFds, Web!Fds
<1>2. IsFiniteSet(F)
  <2>1. 1 \in Int /\ MaxFds \in Int
    BY SmallProgramsAssumption DEF SmallProgramsAssumption
  <2>2. IsFiniteSet(Web!Fds)
    BY <2>1, FS_Interval DEF Web!Fds
  <2> QED
    BY <1>1, <2>2, FS_Subset
<1>3. Parts \subseteq FiniteSubsetsOf(F) /\ Parts # {}
  <2>1. \A T \in SUBSET F : IsFiniteSet(T)
    BY <1>2, FS_Subset
  <2>2. \A k \in F : Below(k) \in SUBSET F
    OBVIOUS
  <2> QED
    BY <2>1, <2>2 DEF FiniteSubsetsOf
<1>4. PICK B \in Parts : \A Q \in Parts : <<Q, B>> \notin StrictSubsetOrdering(F)
  BY <1>3, FS_StrictSubsetOrderingWellFounded, WFMin
<1>5. PICK k \in F : B = Below(k)
  OBVIOUS
<1>6. ASSUME NEW l \in F, l < k PROVE FALSE
  <2>1. /\ k \in Nat /\ l \in Nat /\ k <= k /\ ~(k <= l)
        /\ \A m \in Nat : m <= l => m <= k
    BY <1>1, <1>6
  <2>2. Below(l) \subseteq Below(k) /\ k \notin Below(l) /\ k \in Below(k)
    BY <1>1, <2>1, Zenon
  <2>3. <<Below(l), B>> \in StrictSubsetOrdering(F)
    BY <2>2, <1>5 DEF StrictSubsetOrdering
  <2> QED
    BY <2>3, <1>4
<1>7. \A l \in F : k <= l
  BY <1>1, <1>6
<1> QED
  BY <1>7 DEF Web!Lowest


(* A thread that goes on to the next place, or has something new in its    *)
(* variables.                                                              *)
LEMMA ThreadMoves ==
  ASSUME WebTypeInv, NEW t \in Web!Connections, NEW r \in ThreadStates,
         thread' = [thread EXCEPT ![t] = r]
  PROVE  /\ thread' \in [Web!Connections -> ThreadStates]
         /\ thread'[t] = r
         /\ \A d \in Web!Connections : d # t => thread'[d] = thread[d]
BY DEF WebTypeInv

LEMMA ThreadGoesTo ==
  ASSUME WebTypeInv, NEW t \in Web!Connections, NEW place \in WebPlaces,
         Web!GoTo(t, place)
  PROVE  /\ thread' \in [Web!Connections -> ThreadStates]
         /\ thread'[t].pc = place /\ thread'[t].fd = thread[t].fd
         /\ thread'[t].kind = thread[t].kind /\ thread'[t].file = thread[t].file
         /\ thread'[t].loaded = thread[t].loaded
         /\ \A d \in Web!Connections : d # t => thread'[d] = thread[d]
<1>1. thread[t] \in ThreadStates
  BY DEF WebTypeInv
<1>2. PICK r \in ThreadStates : r = [thread[t] EXCEPT !.pc = place]
  BY <1>1 DEF ThreadStates
<1>3. thread' = [thread EXCEPT ![t] = r]
  BY <1>2 DEF Web!GoTo
<1>4. /\ r.pc = place /\ r.fd = thread[t].fd /\ r.kind = thread[t].kind
      /\ r.file = thread[t].file /\ r.loaded = thread[t].loaded
  BY <1>1, <1>2 DEF ThreadStates
<1> QED
  BY <1>3, <1>4, ThreadMoves

(* close() of the number of a thread, and whose it was.                    *)
LEMMA FdCloses ==
  ASSUME WebTypeInv, NEW t \in Web!Connections, thread[t].pc # "none", Web!CloseFd(t)
  PROVE  /\ fds' \in [Web!Fds -> Nat] /\ conn' \in [Web!Connections -> ConnStates]
         /\ fds'[thread[t].fd] = Web!Free
         /\ \A n \in Web!Fds : n # thread[t].fd => fds'[n] = fds[n]
         /\ webGhosts' \in [sent : Nat, stolen : BOOLEAN, crashed : BOOLEAN]
         /\ webGhosts'.sent = webGhosts.sent
         /\ ~webGhosts'.stolen =>
              /\ ~webGhosts.stolen /\ fds[thread[t].fd] \in {Web!Free, t}
              /\ \A c \in Web!Connections : c # t => conn'[c] = conn[c]
              /\ conn'[t].kind = conn[t].kind /\ conn'[t].answers = conn[t].answers
              /\ conn'[t].at = IF fds[thread[t].fd] = t THEN "closed" ELSE conn[t].at
<1>1. thread[t].fd \in Web!Fds /\ fds \in [Web!Fds -> Nat] /\ Web!Free \in Nat
  <2>1. thread[t].fd \in Web!Fds /\ fds \in [Web!Fds -> Nat]
    BY DEF WebTypeInv
  <2> QED
    BY <2>1 DEF Web!Free
<1>2. /\ fds' = [fds EXCEPT ![thread[t].fd] = Web!Free]
      /\ conn' = IF fds[thread[t].fd] \in Web!Connections
                   THEN [conn EXCEPT ![fds[thread[t].fd]].at = "closed"] ELSE conn
      /\ webGhosts' = [webGhosts EXCEPT !.stolen = @ \/ fds[thread[t].fd] \notin {Web!Free, t}]
  BY DEF Web!CloseFd, Web!Object
<1>3. /\ fds' \in [Web!Fds -> Nat]
      /\ fds'[thread[t].fd] = Web!Free
      /\ \A n \in Web!Fds : n # thread[t].fd => fds'[n] = fds[n]
  BY <1>1, <1>2
<1>4. PICK theft \in BOOLEAN : theft = (webGhosts.stolen \/ fds[thread[t].fd] \notin {Web!Free, t})
  OBVIOUS
<1>5. webGhosts' = [webGhosts EXCEPT !.stolen = theft]
  BY <1>2, <1>4, Zenon
<1>6. theft <=> webGhosts.stolen \/ fds[thread[t].fd] \notin {Web!Free, t}
  BY <1>4, Zenon
<1>7. /\ webGhosts' \in [sent : Nat, stolen : BOOLEAN, crashed : BOOLEAN]
      /\ webGhosts'.sent = webGhosts.sent
      /\ webGhosts'.stolen <=> theft
  BY <1>5 DEF WebTypeInv
<1>8. conn \in [Web!Connections -> ConnStates]
  BY DEF WebTypeInv
<1>9. conn' \in [Web!Connections -> ConnStates]
  BY <1>2, <1>8 DEF ConnStates
<1>10. Web!Free \notin Web!Connections
  BY DEF Web!Free, Web!Connections
<1>11. ASSUME ~theft
       PROVE  /\ \A c \in Web!Connections : c # t => conn'[c] = conn[c]
              /\ conn'[t].kind = conn[t].kind /\ conn'[t].answers = conn[t].answers
              /\ conn'[t].at = IF fds[thread[t].fd] = t THEN "closed" ELSE conn[t].at
  <2>1. CASE fds[thread[t].fd] = t
    <3>1. conn' = [conn EXCEPT ![t].at = "closed"]
      BY <1>2, <2>1
    <3> QED
      BY <1>8, <2>1, <3>1 DEF ConnStates
  <2>2. CASE fds[thread[t].fd] = Web!Free
    <3>1. conn' = conn /\ fds[thread[t].fd] # t
      BY <1>2, <1>10, <2>2
    <3> QED
      BY <3>1
  <2> QED
    BY <1>6, <1>11, <2>1, <2>2
<1> QED
  BY <1>3, <1>6, <1>7, <1>9, <1>11

(* A connection that a step of another thread does not touch.              *)
LEMMA ServedElsewhere ==
  ASSUME WebTypeInv, NEW c \in Web!Connections, Served(c),
         thread'[c] = thread[c], conn'[c] = conn[c],
         \A n \in Web!Fds : fds'[n] = c <=> fds[n] = c
  PROVE  Served(c)'
<1>1. thread[c].pc # "none" => thread[c].fd \in Web!Fds
  BY DEF WebTypeInv
<1>2. thread[c].pc # "none" => (Owns(c)' <=> Owns(c))
  BY <1>1 DEF Owns
<1>3. (Gone(c)' <=> Gone(c)) /\ (Answered(c)' <=> Answered(c))
  BY DEF Gone, Answered
<1>4. thread[c].pc \in WebPlaces
  BY DEF WebTypeInv, ThreadStates
<1> QED
  BY <1>2, <1>3, <1>4 DEF Served

(* A step of a thread outside of the part that the mutex protects.         *)
LEMMA BytesElsewhere ==
  ASSUME WebTypeInv, BytesInv, NEW t \in Web!Connections,
         thread'[t].pc \notin {"load", "store", "unlock"},
         \A d \in Web!Connections : d # t => thread'[d] = thread[d],
         UNCHANGED <<bytes_mutex, serv>>, webGhosts'.sent = webGhosts.sent
  PROVE  BytesInv'
<1>1. ASSUME NEW d \in Web!Connections
      PROVE  /\ (thread[d].pc \in {"load", "store", "unlock"})' => bytes_mutex' = d
             /\ (thread[d].pc = "store")' => (thread[d].loaded = serv.bytes)'
  BY DEF BytesInv
<1> QED
  BY <1>1 DEF BytesInv

(* One that touches no descriptor and no connection.                       *)
LEMMA OnlyThread ==
  ASSUME WebInv, NEW t \in Web!Connections, NEW place \in WebPlaces,
         place # "none", thread[t].pc # "none", place # "copy",
         Web!GoTo(t, place),
         UNCHANGED <<fds, conn>>,
         serv' \in [main_requests : Nat, requests : Nat, bytes : Nat],
         webGhosts' \in [sent : Nat, stolen : BOOLEAN, crashed : BOOLEAN],
         webGhosts'.stolen <=> webGhosts.stolen,
         BytesInv', ~webGhosts.stolen => Served(t)'
  PROVE  WebInv'
<1>1. /\ thread' \in [Web!Connections -> ThreadStates]
      /\ thread'[t].pc = place /\ thread'[t].fd = thread[t].fd
      /\ \A d \in Web!Connections : d # t => thread'[d] = thread[d]
  BY ThreadGoesTo DEF WebInv
<1>2. WebTypeInv'
  BY <1>1 DEF WebInv, WebTypeInv
<1>3. ASSUME ~webGhosts.stolen, NEW c \in Web!Connections
      PROVE  Served(c)'
  <2>1. CASE c = t
    BY <1>3, <2>1
  <2>2. CASE c # t
    <3>1. thread'[c] = thread[c] /\ conn'[c] = conn[c] /\ fds' = fds
      BY <1>1, <2>2
    <3>2. WebTypeInv /\ Served(c)
      BY <1>3 DEF WebInv
    <3> QED
      BY <3>1, <3>2, ServedElsewhere
  <2> QED
    BY <2>1, <2>2
<1> QED
  BY <1>2, <1>3 DEF WebInv

LEMMA CrashKeeps ==
  ASSUME WebInv, NEW t \in Web!Connections, Web!Crash(t)
  PROVE  WebInv'
<1>1. /\ webGhosts' \in [sent : Nat, stolen : BOOLEAN, crashed : BOOLEAN]
      /\ webGhosts'.sent = webGhosts.sent /\ (webGhosts'.stolen <=> webGhosts.stolen)
      /\ UNCHANGED <<fds, conn, thread, bytes_mutex, serv>>
  BY DEF Web!Crash, WebInv, WebTypeInv
<1>2. WebTypeInv' /\ BytesInv'
  BY <1>1 DEF WebInv, WebTypeInv, BytesInv
<1>3. \A c \in Web!Connections : Served(c)' <=> Served(c)
  BY <1>1 DEF Served, Owns, Gone, Answered
<1> QED
  BY <1>1, <1>2, <1>3 DEF WebInv

LEMMA OpenInputKeeps ==
  ASSUME WebInv, NEW t \in Web!Connections, Web!OpenInput(t)
  PROVE  WebInv'
<1>1. CASE Web!Crash(t)
  BY <1>1, CrashKeeps
<1>2. CASE ~Web!Crash(t)
  <2>1. /\ thread[t].pc = "start" /\ Web!GoTo(t, "read")
        /\ UNCHANGED <<fds, conn, bytes_mutex, serv, webGhosts>>
    BY <1>2 DEF Web!OpenInput, Web!At
  <2>2. /\ thread'[t].pc = "read" /\ thread'[t].fd = thread[t].fd
        /\ \A d \in Web!Connections : d # t => thread'[d] = thread[d]
    BY <2>1, ThreadGoesTo DEF WebInv, WebPlaces
  <2>3. BytesInv'
    BY <2>1, <2>2, BytesElsewhere DEF WebInv
  <2>4. ~webGhosts.stolen => Served(t)'
    BY <2>1, <2>2 DEF WebInv, Served, Owns
  <2> QED
    BY <2>1, <2>3, <2>4, OnlyThread DEF WebInv, WebTypeInv, WebPlaces
<1> QED
  BY <1>1, <1>2

LEMMA SyntaxErrorKeeps ==
  ASSUME WebInv, NEW t \in Web!Connections, Web!SyntaxError(t)
  PROVE  WebInv'
<1>1. /\ thread[t].pc = "reply" /\ thread[t].kind = "bad" /\ Web!GoTo(t, "close")
      /\ UNCHANGED <<fds, conn, bytes_mutex, serv, webGhosts>>
  BY DEF Web!SyntaxError, Web!At
<1>2. /\ thread'[t].pc = "close" /\ thread'[t].fd = thread[t].fd
      /\ \A d \in Web!Connections : d # t => thread'[d] = thread[d]
  BY <1>1, ThreadGoesTo DEF WebInv, WebPlaces
<1>3. BytesInv'
  BY <1>1, <1>2, BytesElsewhere DEF WebInv
<1>4. ~webGhosts.stolen => Served(t)'
  BY <1>1, <1>2 DEF WebInv, Served, Owns, Gone, Answered
<1> QED
  BY <1>1, <1>3, <1>4, OnlyThread DEF WebInv, WebTypeInv, WebPlaces

(* The mutex and the counter.                                              *)
LEMMA LockKeeps ==
  ASSUME WebInv, NEW t \in Web!Connections, Web!Lock(t)
  PROVE  WebInv'
<1>1. /\ thread[t].pc = "lock" /\ Web!GoTo(t, "load") /\ bytes_mutex = Web!Free
      /\ bytes_mutex' = t /\ UNCHANGED <<fds, conn, serv, webGhosts>>
  BY DEF Web!Lock, Web!At
<1>2. /\ thread'[t].pc = "load" /\ thread'[t].fd = thread[t].fd
      /\ \A d \in Web!Connections : d # t => thread'[d] = thread[d]
  BY <1>1, ThreadGoesTo DEF WebInv, WebPlaces
<1>3. Web!Free \notin Web!Connections
  BY DEF Web!Free, Web!Connections
<1>4. \A d \in Web!Connections : d # t => thread[d].pc \notin {"load", "store", "unlock"}
  BY <1>1, <1>3 DEF WebInv, BytesInv
<1>5. BytesInv'
  BY <1>1, <1>2, <1>4 DEF WebInv, BytesInv
<1>6. ~webGhosts.stolen => Served(t)'
  BY <1>1, <1>2 DEF WebInv, Served, Owns, Gone, Answered
<1> QED
  BY <1>1, <1>5, <1>6, OnlyThread DEF WebInv, WebTypeInv, WebPlaces

LEMMA StoreKeeps ==
  ASSUME WebInv, NEW t \in Web!Connections, Web!Store(t)
  PROVE  WebInv'
<1>1. /\ thread[t].pc = "store" /\ Web!GoTo(t, "unlock")
      /\ serv' = [serv EXCEPT !.bytes = thread[t].loaded + 1]
      /\ webGhosts' = [webGhosts EXCEPT !.sent = @ + 1]
      /\ UNCHANGED <<fds, conn, bytes_mutex>>
  BY DEF Web!Store, Web!At
<1>2. /\ thread'[t].pc = "unlock" /\ thread'[t].fd = thread[t].fd
      /\ \A d \in Web!Connections : d # t => thread'[d] = thread[d]
  BY <1>1, ThreadGoesTo DEF WebInv, WebPlaces
<1>3. thread[t].loaded = serv.bytes /\ serv.bytes = webGhosts.sent /\ bytes_mutex = t
  BY <1>1 DEF WebInv, BytesInv
<1>4. PICK n \in Nat : n = webGhosts.sent + 1
  BY DEF WebInv, WebTypeInv
<1>5. serv' = [serv EXCEPT !.bytes = n] /\ webGhosts' = [webGhosts EXCEPT !.sent = n]
  BY <1>1, <1>3, <1>4
<1>6. /\ serv' \in [main_requests : Nat, requests : Nat, bytes : Nat]
      /\ webGhosts' \in [sent : Nat, stolen : BOOLEAN, crashed : BOOLEAN]
      /\ serv'.bytes = n /\ webGhosts'.sent = n
      /\ webGhosts'.stolen <=> webGhosts.stolen
  BY <1>5 DEF WebInv, WebTypeInv
<1>7. \A d \in Web!Connections : d # t => thread[d].pc \notin {"load", "store", "unlock"}
  BY <1>3 DEF WebInv, BytesInv
<1>8. BytesInv'
  BY <1>1, <1>2, <1>3, <1>6, <1>7 DEF BytesInv
<1>9. ~webGhosts.stolen => Served(t)'
  BY <1>1, <1>2 DEF WebInv, Served, Owns, Gone, Answered
<1> QED
  BY <1>1, <1>6, <1>8, <1>9, OnlyThread DEF WebPlaces

LEMMA UnlockKeeps ==
  ASSUME WebInv, NEW t \in Web!Connections, Web!Unlock(t)
  PROVE  WebInv'
<1>1. /\ thread[t].pc = "unlock" /\ Web!GoTo(t, "close") /\ bytes_mutex' = Web!Free
      /\ UNCHANGED <<fds, conn, serv, webGhosts>>
  BY DEF Web!Unlock, Web!At
<1>2. /\ thread'[t].pc = "close" /\ thread'[t].fd = thread[t].fd
      /\ \A d \in Web!Connections : d # t => thread'[d] = thread[d]
  BY <1>1, ThreadGoesTo DEF WebInv, WebPlaces
<1>3. \A d \in Web!Connections : d # t => thread[d].pc \notin {"load", "store", "unlock"}
  BY <1>1 DEF WebInv, BytesInv
<1>4. BytesInv'
  BY <1>1, <1>2, <1>3 DEF WebInv, BytesInv
<1>5. ~webGhosts.stolen => Served(t)'
  BY <1>1, <1>2 DEF WebInv, Served, Owns, Gone, Answered
<1> QED
  BY <1>1, <1>4, <1>5, OnlyThread DEF WebInv, WebTypeInv, WebPlaces

LEMMA LoadKeeps ==
  ASSUME WebInv, NEW t \in Web!Connections, Web!Load(t)
  PROVE  WebInv'
<1>1. /\ thread[t].pc = "load"
      /\ thread' = [thread EXCEPT ![t].pc = "store", ![t].loaded = serv.bytes]
      /\ UNCHANGED <<fds, conn, bytes_mutex, serv, webGhosts>>
  BY DEF Web!Load, Web!At
<1>2. thread[t] \in ThreadStates /\ serv.bytes \in Nat
  BY DEF WebInv, WebTypeInv
<1>3. PICK r \in ThreadStates : r = [thread[t] EXCEPT !.pc = "store", !.loaded = serv.bytes]
  BY <1>2 DEF ThreadStates, WebPlaces
<1>4. thread' = [thread EXCEPT ![t] = r]
  BY <1>1, <1>3
<1>5. r.pc = "store" /\ r.loaded = serv.bytes /\ r.fd = thread[t].fd /\ r.kind = thread[t].kind
  BY <1>2, <1>3 DEF ThreadStates
<1>6. /\ thread' \in [Web!Connections -> ThreadStates]
      /\ thread'[t] = r
      /\ \A d \in Web!Connections : d # t => thread'[d] = thread[d]
  BY <1>4, ThreadMoves DEF WebInv
<1>7. WebTypeInv'
  BY <1>1, <1>5, <1>6 DEF WebInv, WebTypeInv
<1>8. BytesInv'
  <2>1. bytes_mutex = t
    BY <1>1 DEF WebInv, BytesInv
  <2> QED
    BY <1>1, <1>5, <1>6, <2>1 DEF WebInv, BytesInv
<1>9. ASSUME ~webGhosts.stolen, NEW c \in Web!Connections
      PROVE  Served(c)'
  <2>1. Served(c)
    BY <1>9 DEF WebInv
  <2>2. CASE c = t
    BY <1>1, <1>5, <1>6, <2>1, <2>2 DEF Served, Owns, Gone, Answered
  <2>3. CASE c # t
    BY <1>1, <1>6, <2>1, <2>3, ServedElsewhere DEF WebInv
  <2> QED
    BY <2>2, <2>3
<1> QED
  BY <1>1, <1>7, <1>8, <1>9 DEF WebInv

(* A step that leaves all numbers and all other connections alone.         *)
LEMMA OwnConnection ==
  ASSUME WebInv, NEW t \in Web!Connections, thread[t].pc # "none",
         NEW r \in ThreadStates, NEW k \in ConnStates,
         thread' = [thread EXCEPT ![t] = r], conn' = [conn EXCEPT ![t] = k],
         UNCHANGED <<fds, bytes_mutex, serv, webGhosts>>,
         r.pc \notin {"none", "copy", "load", "store", "unlock"}, r.fd = thread[t].fd,
         ~webGhosts.stolen => Served(t)'
  PROVE  WebInv'
<1>1. /\ thread' \in [Web!Connections -> ThreadStates]
      /\ thread'[t] = r
      /\ \A d \in Web!Connections : d # t => thread'[d] = thread[d]
  BY ThreadMoves DEF WebInv
<1>2. /\ conn' \in [Web!Connections -> ConnStates]
      /\ \A d \in Web!Connections : d # t => conn'[d] = conn[d]
  BY DEF WebInv, WebTypeInv
<1>3. WebTypeInv'
  BY <1>1, <1>2 DEF WebInv, WebTypeInv
<1>4. BytesInv'
  BY <1>1, BytesElsewhere DEF WebInv
<1>5. ASSUME ~webGhosts.stolen, NEW c \in Web!Connections, c # t
      PROVE  Served(c)'
  <2>1. Served(c) /\ WebTypeInv
    BY <1>5 DEF WebInv
  <2>2. thread'[c] = thread[c] /\ conn'[c] = conn[c] /\ fds' = fds
    BY <1>1, <1>2, <1>5
  <2> QED
    BY <2>1, <2>2, ServedElsewhere
<1> QED
  BY <1>3, <1>4, <1>5 DEF WebInv

(* As long as no number was stolen, a thread reads its own connection; and *)
(* later it may read whatever has its number.                              *)
LEMMA ReadRequestKeeps ==
  ASSUME WebInv, NEW t \in Web!Connections, Web!ReadRequest(t)
  PROVE  WebInv'
<1>1. thread[t].pc = "read" /\ UNCHANGED <<fds, bytes_mutex, serv, webGhosts>>
  BY DEF Web!ReadRequest, Web!At
<1>2. thread[t] \in ThreadStates /\ thread[t].fd \in Web!Fds
  BY <1>1 DEF WebInv, WebTypeInv
<1> DEFINE o == fds[thread[t].fd]
<1>3. PICK kind \in Web!Kinds :
        /\ thread' = [thread EXCEPT ![t].pc = "reply", ![t].kind = kind]
        /\ o \in Web!Connections => conn[o].kind \in {kind, Web!Silent}
  <2> DEFINE own == {conn[c].kind : c \in {o} \cap Web!Connections} \cap Web!Kinds
  <2>1. PICK kind \in (IF own # {} THEN own ELSE Web!Kinds) :
          thread' = [thread EXCEPT ![t].pc = "reply", ![t].kind = kind]
    BY DEF Web!ReadRequest, Web!Object
  <2>2. kind \in Web!Kinds
    BY <2>1
  <2>3. ASSUME o \in Web!Connections PROVE conn[o].kind \in {kind, Web!Silent}
    <3>1. conn[o].kind \in Web!Kinds \cup {Web!Silent}
      BY <2>3 DEF WebInv, WebTypeInv, ConnStates
    <3>2. CASE conn[o].kind \in Web!Kinds
      <4>1. own = {conn[o].kind}
        BY <2>3, <3>2
      <4> QED
        BY <2>1, <4>1
    <3> QED
      BY <3>1, <3>2
  <2> QED
    BY <2>1, <2>2, <2>3
<1>4. PICK r \in ThreadStates : r = [thread[t] EXCEPT !.pc = "reply", !.kind = kind]
  BY <1>2, <1>3 DEF ThreadStates, WebPlaces
<1>5. /\ r.pc = "reply" /\ r.kind = kind /\ r.fd = thread[t].fd
      /\ thread' = [thread EXCEPT ![t] = r]
  BY <1>2, <1>3, <1>4 DEF ThreadStates
<1>6. /\ o \in Web!Connections => conn[o].at = "sent"
      /\ conn' = [c \in Web!Connections |->
                    IF c = o THEN [conn[c] EXCEPT !.at = "read"] ELSE conn[c]]
      /\ conn \in [Web!Connections -> ConnStates]
  BY DEF Web!ReadRequest, Web!Object, WebInv, WebTypeInv
<1>7. CASE o \in Web!Connections
  <2>1. conn[o] \in ConnStates
    BY <1>6, <1>7
  <2>2. PICK k \in ConnStates : k = [conn[o] EXCEPT !.at = "read"]
    BY <2>1 DEF ConnStates
  <2>3. k.at = "read" /\ k.kind = conn[o].kind /\ k.answers = conn[o].answers
    BY <2>1, <2>2 DEF ConnStates
  <2>4. /\ thread' \in [Web!Connections -> ThreadStates]
        /\ thread'[t] = r
        /\ \A d \in Web!Connections : d # t => thread'[d] = thread[d]
    BY <1>5, ThreadMoves DEF WebInv
  <2>5. /\ \A d \in Web!Connections : d # o => conn'[d] = conn[d]
        /\ conn'[o] = k /\ conn' \in [Web!Connections -> ConnStates]
    BY <1>6, <1>7, <2>2
  <2>6. WebTypeInv'
    BY <1>1, <1>2, <1>5, <2>4, <2>5 DEF WebInv, WebTypeInv
  <2>7. BytesInv'
    BY <1>1, <1>5, <2>4, BytesElsewhere DEF WebInv
  <2>8. ASSUME ~webGhosts.stolen, NEW c \in Web!Connections
        PROVE  Served(c)'
    <3>1. Served(c) /\ Served(t) /\ WebTypeInv
      BY <2>8 DEF WebInv
    <3>2. o = t
      BY <1>1, <3>1 DEF Served, Owns
    <3>3. CASE c = t
      <4>1. conn'[t].kind \in {thread'[t].kind, Web!Silent}
        BY <1>3, <1>5, <1>7, <2>3, <2>4, <2>5, <3>2
      <4> QED
        BY <1>1, <1>5, <2>3, <2>4, <2>5, <3>1, <3>2, <3>3, <4>1 DEF Served, Owns
    <3>4. CASE c # t
      <4>1. thread'[c] = thread[c] /\ conn'[c] = conn[c] /\ fds' = fds
        BY <1>1, <2>4, <2>5, <3>2, <3>4
      <4> QED
        BY <3>1, <4>1, ServedElsewhere
    <3> QED
      BY <3>3, <3>4
  <2> QED
    BY <1>1, <2>6, <2>7, <2>8 DEF WebInv
<1>8. CASE o \notin Web!Connections
  <2>1. PICK k \in ConnStates : k = conn[t]
    BY <1>6
  <2>2. conn' = [conn EXCEPT ![t] = k]
    BY <1>6, <1>8, <2>1
  <2>3. webGhosts.stolen
    BY <1>1, <1>8 DEF WebInv, Served, Owns
  <2> QED
    BY <1>1, <1>5, <2>2, <2>3, OwnConnection
<1> QED
  BY <1>7, <1>8

(* An answer goes to the connection that has the number of the thread.     *)
LEMMA ReplyKeeps ==
  ASSUME WebInv, NEW t \in Web!Connections, Web!Reply(t)
  PROVE  WebInv'
<1>1. /\ thread[t].pc = "reply" /\ thread[t].kind # "bad"
      /\ thread[t] \in ThreadStates /\ thread[t].fd \in Web!Fds
  BY DEF Web!Reply, Web!At, WebInv, WebTypeInv
<1> DEFINE o == fds[thread[t].fd]
           x == [by |-> t, kind |-> thread[t].kind, shown |-> serv.requests]
           place == IF thread[t].kind = "page" THEN "fopen" ELSE "fclose"
<1>2. Web!Free \notin Web!Connections
  BY DEF Web!Free, Web!Connections
<1>3. x \in Answers /\ x.by = t /\ x.kind = thread[t].kind
  BY <1>1 DEF Answers, ThreadStates, WebInv, WebTypeInv
<1>4. CASE Web!Crash(t)
  BY <1>4, CrashKeeps
<1>5. CASE o = Web!Free /\ Web!GoTo(t, "close")
           /\ UNCHANGED <<fds, conn, bytes_mutex, serv, webGhosts>>
  <2>1. /\ thread'[t].pc = "close"
        /\ \A d \in Web!Connections : d # t => thread'[d] = thread[d]
    BY <1>5, ThreadGoesTo DEF WebInv, WebPlaces
  <2>2. BytesInv'
    BY <1>5, <2>1, BytesElsewhere DEF WebInv
  <2>3. webGhosts.stolen
    BY <1>1, <1>2, <1>5 DEF WebInv, Served, Owns
  <2> QED
    BY <1>1, <1>5, <2>2, <2>3, OnlyThread DEF WebInv, WebTypeInv, WebPlaces
<1>6. CASE /\ o # Web!Free
           /\ conn' = IF o \in Web!Connections THEN [conn EXCEPT ![o].answers = @ \cup {x}]
                      ELSE conn
           /\ Web!GoTo(t, place)
           /\ UNCHANGED <<fds, bytes_mutex, serv, webGhosts>>
  <2>1. /\ thread' \in [Web!Connections -> ThreadStates]
        /\ thread'[t].pc = place /\ thread'[t].fd = thread[t].fd
        /\ \A d \in Web!Connections : d # t => thread'[d] = thread[d]
    BY <1>6, ThreadGoesTo DEF WebInv, WebPlaces
  <2>2. conn' \in [Web!Connections -> ConnStates]
    <3>1. conn \in [Web!Connections -> ConnStates]
      BY DEF WebInv, WebTypeInv
    <3>2. CASE o \in Web!Connections
      <4>1. PICK k \in ConnStates : k = [conn[o] EXCEPT !.answers = @ \cup {x}]
        BY <1>3, <3>1, <3>2 DEF ConnStates
      <4>2. conn' = [conn EXCEPT ![o] = k]
        BY <1>6, <3>2, <4>1
      <4> QED
        BY <3>1, <4>2
    <3> QED
      BY <1>6, <3>1, <3>2
  <2>3. WebTypeInv'
    BY <1>1, <1>6, <2>1, <2>2 DEF WebInv, WebTypeInv
  <2>4. BytesInv'
    BY <1>6, <2>1, BytesElsewhere DEF WebInv
  <2>5. ASSUME ~webGhosts.stolen, NEW c \in Web!Connections
        PROVE  Served(c)'
    <3>1. Served(c) /\ Served(t) /\ WebTypeInv
      BY <2>5 DEF WebInv
    <3>2. /\ o = t /\ conn[t].answers = {} /\ conn[t].at = "read"
          /\ conn[t].kind \in {thread[t].kind, Web!Silent}
      BY <1>1, <3>1 DEF Served, Owns
    <3>3. /\ \A d \in Web!Connections : d # t => conn'[d] = conn[d]
          /\ conn'[t].answers = {x} /\ conn'[t].kind = conn[t].kind /\ conn'[t].at = "read"
      <4>1. conn' = [conn EXCEPT ![t].answers = @ \cup {x}]
        BY <1>6, <3>2
      <4> HIDE DEF x
      <4> QED
        BY <3>1, <3>2, <4>1 DEF WebTypeInv, ConnStates
    <3>4. CASE c = t
      <4>1. Answered(t)'
        BY <1>3, <3>2, <3>3 DEF Answered
      <4>2. Owns(t)'
        BY <1>1, <1>6, <2>1, <3>2 DEF Owns
      <4>3. \A n \in Web!Fds : fds'[n] = t => n = thread'[t].fd
        BY <1>6, <2>1, <3>1 DEF Served
      <4> QED
        BY <1>6, <2>1, <3>3, <3>4, <4>1, <4>2, <4>3 DEF Served
    <3>5. CASE c # t
      <4>1. thread'[c] = thread[c] /\ conn'[c] = conn[c] /\ fds' = fds
        BY <1>6, <2>1, <3>3, <3>5
      <4> QED
        BY <3>1, <4>1, ServedElsewhere
    <3> QED
      BY <3>4, <3>5
  <2> QED
    BY <1>6, <2>3, <2>4, <2>5 DEF WebInv
<1> QED
  BY <1>4, <1>5, <1>6 DEF Web!Reply, Web!Object

(* do_exec() and do_ls(): whatever is done to a free number, or to one of  *)
(* a file, concerns no connection.                                         *)
LEMMA FilesKeep ==
  ASSUME WebInv, NEW t \in Web!Connections, NEW r \in ThreadStates,
         thread[t].pc \in {"fopen", "copy"}, r.pc \in {"copy", "fclose"},
         r.fd = thread[t].fd, r.kind = thread[t].kind,
         r.pc = "copy" => r.file \in Web!Fds,
         thread' = [thread EXCEPT ![t] = r],
         fds' \in [Web!Fds -> Nat],
         \A n \in Web!Fds, c \in Web!Connections : fds'[n] = c <=> fds[n] = c,
         UNCHANGED <<conn, bytes_mutex, serv, webGhosts>>
  PROVE  WebInv'
<1>1. /\ thread' \in [Web!Connections -> ThreadStates]
      /\ thread'[t] = r
      /\ \A d \in Web!Connections : d # t => thread'[d] = thread[d]
  BY ThreadMoves DEF WebInv
<1>2. WebTypeInv'
  BY <1>1 DEF WebInv, WebTypeInv
<1>3. BytesInv'
  BY <1>1, BytesElsewhere DEF WebInv
<1>4. ASSUME ~webGhosts.stolen, NEW c \in Web!Connections
      PROVE  Served(c)'
  <2>1. Served(c) /\ WebTypeInv
    BY <1>4 DEF WebInv
  <2>2. CASE c = t
    <3>1. thread[t].fd \in Web!Fds
      BY <2>1 DEF WebTypeInv
    <3>2. Owns(t)' /\ conn[t].at = "read" /\ Answered(t)'
      BY <1>1, <2>1, <2>2, <3>1 DEF Served, Owns, Answered
    <3>3. \A n \in Web!Fds : fds'[n] = t => n = thread'[t].fd
      BY <1>1, <2>1, <2>2 DEF Served
    <3> QED
      BY <1>1, <2>2, <3>2, <3>3 DEF Served
  <2>3. CASE c # t
    BY <1>1, <2>1, <2>3, ServedElsewhere
  <2> QED
    BY <2>2, <2>3
<1> QED
  BY <1>2, <1>3, <1>4 DEF WebInv

LEMMA FileNoConnection == Web!File \in Nat /\ Web!File \notin Web!Connections
BY SmallProgramsAssumption DEF SmallProgramsAssumption, Web!File, Web!Connections

LEMMA OpenFileKeeps ==
  ASSUME WebInv, NEW t \in Web!Connections, Web!OpenFile(t)
  PROVE  WebInv'
<1>1. /\ thread[t].pc = "fopen" /\ Web!FreeFds # {}
      /\ fds' = [fds EXCEPT ![Web!Lowest] = Web!File]
      /\ thread' = [thread EXCEPT ![t].pc = "copy", ![t].file = Web!Lowest]
      /\ UNCHANGED <<conn, bytes_mutex, serv, webGhosts>>
  BY DEF Web!OpenFile, Web!At
<1>2. PICK n \in Web!Fds : n = Web!Lowest /\ fds[n] = Web!Free
  BY <1>1, LowestIsFree DEF WebInv, Web!FreeFds
<1>3. n \in Nat
  BY SmallProgramsAssumption DEF SmallProgramsAssumption, Web!Fds
<1>4. thread[t] \in ThreadStates /\ fds \in [Web!Fds -> Nat]
  BY DEF WebInv, WebTypeInv
<1>5. PICK r \in ThreadStates : r = [thread[t] EXCEPT !.pc = "copy", !.file = n]
  BY <1>3, <1>4 DEF ThreadStates, WebPlaces
<1>6. r.pc = "copy" /\ r.file = n /\ r.fd = thread[t].fd /\ r.kind = thread[t].kind
  BY <1>4, <1>5 DEF ThreadStates
<1>7. thread' = [thread EXCEPT ![t] = r] /\ fds' = [fds EXCEPT ![n] = Web!File]
  BY <1>1, <1>2, <1>5
<1>8. fds' \in [Web!Fds -> Nat]
  BY <1>4, <1>7, FileNoConnection
<1>9. Web!Free \notin Web!Connections
  BY DEF Web!Free, Web!Connections
<1>10. \A m \in Web!Fds, c \in Web!Connections : fds'[m] = c <=> fds[m] = c
  BY <1>2, <1>4, <1>7, <1>9, FileNoConnection
<1> QED
  BY <1>1, <1>6, <1>7, <1>8, <1>10, FilesKeep

LEMMA CopyFileKeeps ==
  ASSUME WebInv, NEW t \in Web!Connections, Web!CopyFile(t)
  PROVE  WebInv'
<1>1. /\ thread[t].pc = "copy" /\ Web!GoTo(t, "fclose")
      /\ fds' = IF fds[thread[t].file] = Web!File
                  THEN [fds EXCEPT ![thread[t].file] = Web!Free] ELSE fds
      /\ UNCHANGED <<conn, bytes_mutex, serv, webGhosts>>
  BY DEF Web!CopyFile, Web!At
<1>2. /\ thread[t] \in ThreadStates /\ fds \in [Web!Fds -> Nat]
      /\ thread[t].file \in Web!Fds
  BY <1>1 DEF WebInv, WebTypeInv
<1>3. PICK r \in ThreadStates : r = [thread[t] EXCEPT !.pc = "fclose"]
  BY <1>2 DEF ThreadStates, WebPlaces
<1>4. r.pc = "fclose" /\ r.fd = thread[t].fd /\ r.kind = thread[t].kind
  BY <1>2, <1>3 DEF ThreadStates
<1>5. thread' = [thread EXCEPT ![t] = r]
  BY <1>1, <1>3 DEF Web!GoTo
<1>6. Web!Free \notin Web!Connections /\ Web!Free \in Nat
  BY DEF Web!Free, Web!Connections
<1>7. fds' \in [Web!Fds -> Nat]
  BY <1>1, <1>2, <1>6
<1>8. \A m \in Web!Fds, c \in Web!Connections : fds'[m] = c <=> fds[m] = c
  BY <1>1, <1>2, <1>6, FileNoConnection
<1> QED
  BY <1>1, <1>4, <1>5, <1>7, <1>8, FilesKeep

(* Both closes of a thread: the first one ends its connection.             *)
LEMMA ClosesKeep ==
  ASSUME WebInv, NEW t \in Web!Connections, NEW place \in {"lock", "close", "done"},
         IF place = "done" THEN thread[t].pc = "close" ELSE thread[t].pc = "fclose",
         Web!GoTo(t, place), Web!CloseFd(t), UNCHANGED <<bytes_mutex, serv>>
  PROVE  WebInv'
<1>1. /\ thread' \in [Web!Connections -> ThreadStates]
      /\ thread'[t].pc = place /\ thread'[t].fd = thread[t].fd
      /\ \A d \in Web!Connections : d # t => thread'[d] = thread[d]
  BY ThreadGoesTo DEF WebInv, WebPlaces
<1>2. thread[t].fd \in Web!Fds /\ thread[t].pc # "none"
  BY DEF WebInv, WebTypeInv
<1>3. /\ fds' \in [Web!Fds -> Nat] /\ conn' \in [Web!Connections -> ConnStates]
      /\ fds'[thread[t].fd] = Web!Free
      /\ \A n \in Web!Fds : n # thread[t].fd => fds'[n] = fds[n]
      /\ webGhosts' \in [sent : Nat, stolen : BOOLEAN, crashed : BOOLEAN]
      /\ webGhosts'.sent = webGhosts.sent
  BY <1>2, FdCloses DEF WebInv
<1>4. ASSUME ~webGhosts'.stolen
      PROVE  /\ ~webGhosts.stolen /\ fds[thread[t].fd] \in {Web!Free, t}
             /\ \A c \in Web!Connections : c # t => conn'[c] = conn[c]
             /\ conn'[t].kind = conn[t].kind /\ conn'[t].answers = conn[t].answers
             /\ conn'[t].at = IF fds[thread[t].fd] = t THEN "closed" ELSE conn[t].at
  BY <1>2, <1>4, FdCloses DEF WebInv
<1>5. WebTypeInv'
  BY <1>1, <1>2, <1>3 DEF WebInv, WebTypeInv
<1>6. BytesInv'
  BY <1>1, <1>3, BytesElsewhere DEF WebInv
<1>7. Web!Free \notin Web!Connections
  BY DEF Web!Free, Web!Connections
<1>8. ASSUME ~webGhosts'.stolen, NEW c \in Web!Connections
      PROVE  Served(c)'
  <2>1. Served(c) /\ WebTypeInv
    BY <1>4, <1>8 DEF WebInv
  <2>2. CASE c = t
    <3>1. \A n \in Web!Fds : fds'[n] # t
      BY <1>2, <1>3, <1>7, <2>1, <2>2 DEF Served
    <3>2. Answered(t)' <=> Answered(t)
      BY <1>4, <1>8 DEF Answered
    <3>3. CASE thread[t].pc = "fclose"
      <4>1. Owns(t) /\ Answered(t)
        BY <2>1, <2>2, <3>3 DEF Served
      <4>2. Gone(t)'
        BY <1>4, <1>8, <3>1, <4>1 DEF Owns, Gone
      <4> QED
        BY <1>1, <2>2, <3>1, <3>2, <3>3, <4>1, <4>2 DEF Served
    <3>4. CASE thread[t].pc = "close"
      <4>1. \/ Owns(t) /\ conn[t].answers = {} /\ conn[t].kind \in {"bad", Web!Silent}
            \/ conn[t].at = "closed" /\ Answered(t)
        BY <2>1, <2>2, <3>4 DEF Served, Gone
      <4>2. Gone(t)'
        BY <1>4, <1>8, <3>1, <4>1 DEF Owns, Gone
      <4> QED
        BY <1>1, <1>4, <1>8, <2>2, <3>1, <3>2, <3>4, <4>1, <4>2 DEF Served
    <3> QED
      BY <3>3, <3>4
  <2>3. CASE c # t
    <3>1. thread'[c] = thread[c] /\ conn'[c] = conn[c]
      BY <1>1, <1>4, <1>8, <2>3
    <3>2. \A n \in Web!Fds : fds'[n] = c <=> fds[n] = c
      BY <1>2, <1>3, <1>4, <1>7, <1>8, <2>3
    <3> QED
      BY <2>1, <3>1, <3>2, ServedElsewhere
  <2> QED
    BY <2>2, <2>3
<1> QED
  BY <1>5, <1>6, <1>8 DEF WebInv

LEMMA ThreadStepKeeps ==
  ASSUME WebInv, NEW t \in Web!Connections, Web!ThreadStep(t)
  PROVE  WebInv'
<1>1. CASE Web!CloseOutput(t)
  <2>1. PICK place \in {"lock", "close"} :
          place = IF thread[t].kind = "page" THEN "lock" ELSE "close"
    OBVIOUS
  <2>2. /\ thread[t].pc = "fclose" /\ Web!GoTo(t, place) /\ Web!CloseFd(t)
        /\ UNCHANGED <<bytes_mutex, serv>>
    BY <1>1, <2>1 DEF Web!CloseOutput, Web!At
  <2>3. place \in {"lock", "close", "done"} /\ place # "done"
    BY <2>1
  <2> QED
    BY <2>2, <2>3, ClosesKeep
<1>2. CASE Web!CloseInput(t)
  BY <1>2, ClosesKeep DEF Web!CloseInput, Web!At
<1> QED
  BY <1>1, <1>2, OpenInputKeeps, ReadRequestKeeps, SyntaxErrorKeeps, ReplyKeeps,
     OpenFileKeeps, CopyFileKeeps, LockKeeps, LoadKeeps, StoreKeeps, UnlockKeeps
     DEF Web!ThreadStep

(* A request arrives where no other has.                                   *)
LEMMA SendKeeps ==
  ASSUME WebInv, NEW t \in Web!Connections, Web!Send(t)
  PROVE  WebInv'
<1>1. conn[t].at = "accepted" /\ UNCHANGED <<fds, thread, bytes_mutex, serv, webGhosts>>
  BY DEF Web!Send
<1>2. PICK kind \in Web!Kinds \cup {Web!Silent} :
        conn' = [conn EXCEPT ![t].at = "sent", ![t].kind = kind]
  BY DEF Web!Send
<1>3. conn[t] \in ConnStates /\ conn \in [Web!Connections -> ConnStates]
  BY DEF WebInv, WebTypeInv
<1>4. PICK k \in ConnStates : k = [conn[t] EXCEPT !.at = "sent", !.kind = kind]
  BY <1>3 DEF ConnStates
<1>5. k.at = "sent" /\ k.answers = conn[t].answers
  BY <1>3, <1>4 DEF ConnStates
<1>6. /\ conn' \in [Web!Connections -> ConnStates] /\ conn'[t] = k
      /\ \A d \in Web!Connections : d # t => conn'[d] = conn[d]
  <2>1. conn' = [conn EXCEPT ![t] = k]
    BY <1>2, <1>4
  <2> QED
    BY <1>3, <2>1
<1>7. WebTypeInv' /\ BytesInv'
  BY <1>1, <1>6 DEF WebInv, WebTypeInv, BytesInv
<1>8. ASSUME ~webGhosts.stolen, NEW c \in Web!Connections
      PROVE  Served(c)'
  <2>1. Served(c) /\ WebTypeInv
    BY <1>8 DEF WebInv
  <2>2. CASE c = t
    <3>1. thread[t].pc \in {"start", "read"}
      <4>1. thread[t].pc \in WebPlaces
        BY <2>1 DEF WebTypeInv, ThreadStates
      <4> QED
        BY <1>1, <2>1, <2>2, <4>1 DEF Served, Gone, WebPlaces
    <3>2. Owns(t)' /\ conn[t].answers = {}
      BY <1>1, <2>1, <2>2, <3>1 DEF Served, Owns
    <3> QED
      BY <1>1, <1>5, <1>6, <2>1, <2>2, <3>1, <3>2 DEF Served
  <2>3. CASE c # t
    <3>1. thread'[c] = thread[c] /\ conn'[c] = conn[c] /\ fds' = fds
      BY <1>1, <1>6, <2>3
    <3> QED
      BY <2>1, <3>1, ServedElsewhere
  <2> QED
    BY <2>2, <2>3
<1> QED
  BY <1>1, <1>7, <1>8 DEF WebInv

(* A new connection gets a number that nobody owns.                        *)
LEMMA AcceptKeeps ==
  ASSUME WebInv, NEW t \in Web!Connections, Web!Accept(t)
  PROVE  WebInv'
<1>1. /\ conn[t].at = "outside" /\ Web!FreeFds # {}
      /\ fds' = [fds EXCEPT ![Web!Lowest] = t]
      /\ conn' = [conn EXCEPT ![t].at = "accepted"]
      /\ thread' = [thread EXCEPT ![t].pc = "start", ![t].fd = Web!Lowest]
      /\ serv' = [serv EXCEPT !.main_requests = @ + 1]
      /\ UNCHANGED <<bytes_mutex, webGhosts>>
  BY DEF Web!Accept
<1>2. PICK n \in Web!Fds : n = Web!Lowest /\ fds[n] = Web!Free
  BY <1>1, LowestIsFree DEF WebInv, Web!FreeFds
<1>3. n \in Nat /\ t \in Nat /\ t # Web!Free
  BY SmallProgramsAssumption DEF SmallProgramsAssumption, Web!Fds, Web!Connections, Web!Free
<1>4. /\ thread[t] \in ThreadStates /\ fds \in [Web!Fds -> Nat]
      /\ conn[t] \in ConnStates /\ conn \in [Web!Connections -> ConnStates]
  BY DEF WebInv, WebTypeInv
<1>5. PICK r \in ThreadStates : r = [thread[t] EXCEPT !.pc = "start", !.fd = n]
  BY <1>3, <1>4 DEF ThreadStates, WebPlaces
<1>6. r.pc = "start" /\ r.fd = n
  BY <1>4, <1>5 DEF ThreadStates
<1>7. PICK k \in ConnStates : k = [conn[t] EXCEPT !.at = "accepted"]
  BY <1>4 DEF ConnStates
<1>8. k.at = "accepted" /\ k.answers = conn[t].answers
  BY <1>4, <1>7 DEF ConnStates
<1>9. /\ thread' = [thread EXCEPT ![t] = r] /\ fds' = [fds EXCEPT ![n] = t]
      /\ conn' = [conn EXCEPT ![t] = k]
  BY <1>1, <1>2, <1>5, <1>7
<1>10. /\ thread' \in [Web!Connections -> ThreadStates]
       /\ thread'[t] = r
       /\ \A d \in Web!Connections : d # t => thread'[d] = thread[d]
  BY <1>9, ThreadMoves DEF WebInv
<1>11. /\ conn' \in [Web!Connections -> ConnStates] /\ conn'[t] = k
       /\ \A d \in Web!Connections : d # t => conn'[d] = conn[d]
       /\ fds' \in [Web!Fds -> Nat] /\ fds'[n] = t
       /\ \A m \in Web!Fds : m # n => fds'[m] = fds[m]
  BY <1>3, <1>4, <1>9
<1>12. /\ serv' \in [main_requests : Nat, requests : Nat, bytes : Nat]
       /\ serv'.bytes = serv.bytes
  BY <1>1 DEF WebInv, WebTypeInv
<1>13. WebTypeInv'
  BY <1>1, <1>6, <1>10, <1>11, <1>12 DEF WebInv, WebTypeInv
<1>14. BytesInv'
  BY <1>1, <1>6, <1>10, <1>12 DEF WebInv, BytesInv
<1>15. ASSUME ~webGhosts.stolen, NEW c \in Web!Connections
       PROVE  Served(c)'
  <2>1. Served(c) /\ WebTypeInv
    BY <1>15 DEF WebInv
  <2>2. CASE c = t
    <3>1. thread[t].pc = "none"
      <4>1. thread[t].pc \in WebPlaces
        BY <2>1 DEF WebTypeInv, ThreadStates
      <4> QED
        BY <1>1, <2>1, <2>2, <4>1 DEF Served, Gone, WebPlaces
    <3>2. conn[t].answers = {} /\ \A m \in Web!Fds : fds[m] # t
      BY <2>1, <2>2, <3>1 DEF Served
    <3> QED
      BY <1>6, <1>8, <1>10, <1>11, <2>2, <3>2 DEF Served, Owns
  <2>3. CASE c # t
    <3>1. thread'[c] = thread[c] /\ conn'[c] = conn[c]
      BY <1>10, <1>11, <2>3
    <3>2. Web!Free # c
      BY DEF Web!Free, Web!Connections
    <3>3. \A m \in Web!Fds : fds'[m] = c <=> fds[m] = c
      BY <1>2, <1>11, <2>3, <3>2
    <3> QED
      BY <2>1, <3>1, <3>3, ServedElsewhere
  <2> QED
    BY <2>2, <2>3
<1> QED
  BY <1>1, <1>13, <1>14, <1>15 DEF WebInv

LEMMA WebInvInit ==
  ASSUME Web!Init
  PROVE  WebInv
<1>1. /\ fds = [n \in Web!Fds |-> Web!Free]
      /\ conn = [c \in Web!Connections |-> [at |-> "outside", kind |-> "bad", answers |-> {}]]
      /\ thread = [c \in Web!Connections |->
                     [pc |-> "none", fd |-> 0, kind |-> "bad", file |-> 0, loaded |-> 0]]
      /\ serv = [main_requests |-> 0, requests |-> 0, bytes |-> 0]
      /\ webGhosts = [sent |-> 0, stolen |-> FALSE, crashed |-> FALSE]
  BY DEF Web!Init
<1>2. Web!Free \in Nat /\ Web!Free \notin Web!Connections /\ "bad" \in Web!Kinds
  BY DEF Web!Free, Web!Connections, Web!Kinds
<1>3. /\ \A c \in Web!Connections :
           /\ conn[c] \in ConnStates /\ thread[c] \in ThreadStates
           /\ conn[c].at = "outside" /\ conn[c].answers = {} /\ thread[c].pc = "none"
  BY <1>1, <1>2 DEF ConnStates, ThreadStates, WebPlaces
<1>4. WebTypeInv
  <2>1. conn \in [Web!Connections -> ConnStates] /\ thread \in [Web!Connections -> ThreadStates]
    BY <1>1, <1>3
  <2> QED
    BY <1>1, <1>2, <1>3, <2>1 DEF WebTypeInv
<1>5. BytesInv
  BY <1>1, <1>3 DEF BytesInv
<1>6. \A c \in Web!Connections : Served(c)
  BY <1>1, <1>2, <1>3 DEF Served
<1> QED
  BY <1>4, <1>5, <1>6 DEF WebInv

LEMMA WebInvNext ==
  ASSUME WebInv, [Web!Next]_webVars
  PROVE  WebInv'
<1>1. CASE Web!Next
  BY <1>1, SendKeeps, AcceptKeeps, ThreadStepKeeps DEF Web!Next
<1>2. CASE UNCHANGED webVars
  <2>1. WebTypeInv' /\ BytesInv' /\ (\A c \in Web!Connections : Served(c)' <=> Served(c))
    BY <1>2 DEF webVars, WebInv, WebTypeInv, BytesInv, Served, Owns, Gone, Answered
  <2> QED
    BY <1>2, <2>1 DEF webVars, WebInv
<1> QED
  BY <1>1, <1>2

(* The invariant of the threaded web server, for any number of connections *)
(* and descriptors: src/TWebServ/tservlib.c, handle_call().                *)
THEOREM WebInvariant == AllSpec => []WebInv
<1>1. AllInit => WebInv
  BY WebInvInit DEF AllInit
<1>2. WebInv /\ [AllNext]_allVars => WebInv'
  <2>1. [AllNext]_allVars => [Web!Next]_webVars
    BY DEF AllNext, allVars
  <2> QED
    BY <2>1, WebInvNext
<1> QED
  BY <1>1, <1>2, PTL DEF AllSpec

(* No update of the shared counter serv_bytes_num is lost.                 *)
THEOREM BytesExactHolds == AllSpec => []BytesExact
<1>1. WebInv => BytesExact
  BY DEF WebInv, BytesInv, BytesExact, Web!BytesExact
<1> QED
  BY <1>1, WebInvariant, PTL

(* A connection gets at most one answer, from its own thread and to its    *)
(* own request if it sent one, and is not closed without it: handle_call() *)
(* and what it calls, until a number is closed that was somebody else's.   *)
(* A client that closes without a request may get an answer all the same.  *)
THEOREM AnswersOwnRequestHolds == AllSpec => []AnswersOwnRequest
<1>1. ASSUME WebInv
      PROVE  AnswersOwnRequest
  <2> SUFFICES ASSUME ~webGhosts.stolen, NEW c \in Web!Connections
               PROVE  /\ \A x \in conn[c].answers :
                           x.by = c /\ conn[c].kind \in {x.kind, Web!Silent}
                      /\ \A x, y \in conn[c].answers : x = y
                      /\ conn[c].at = "closed" =>
                           conn[c].answers # {} \/ conn[c].kind \in {"bad", Web!Silent}
    BY DEF AnswersOwnRequest, Web!AnswersOwnRequest
  <2>1. Served(c) /\ thread[c].pc \in WebPlaces
    BY <1>1 DEF WebInv, WebTypeInv, ThreadStates
  <2>2. conn[c].answers = {} \/ Answered(c)
    BY <2>1 DEF Served, WebPlaces
  <2>3. conn[c].at = "closed" => Answered(c) \/ conn[c].kind \in {"bad", Web!Silent}
    BY <2>1 DEF Served, WebPlaces
  <2> QED
    BY <2>2, <2>3, <2>3 DEF Answered
<1> QED
  BY <1>1, WebInvariant, PTL

-----------------------------------------------------------------------------
(* Animate.                                                                *)

UnitPlaces == {"start", "move", "bounce", "lock", "wait", "waiting", "hand_over"}
AgentPlaces == {"wait", "waiting", "draw"}
MainPlaces == {"getch", "lock", "ended"}
UnitStates == [col : Int, dir : {1, -1}]

AniTypeInv ==
  /\ pc \in [Animation!Threads -> UnitPlaces \cup AgentPlaces \cup MainPlaces]
  /\ \A u \in Units : pc[u] \in UnitPlaces
  /\ pc[Agent] \in AgentPlaces /\ pc[Main] \in MainPlaces
  /\ waiting \subseteq Units \cup {Agent}
  /\ up \in Units \cup {NoUnit}
  /\ units \in [Units -> UnitStates]
  /\ aniGhosts \in [out : SUBSET Units, spurious : BOOLEAN, null : BOOLEAN, outside : Nat]

(* A thread that was woken, and one that has gone on from there.           *)
Summoned(t) == (pc[t] = "waiting" /\ t \notin waiting) \/ pc[t] \in {"hand_over", "draw"}

(* Who has handed something over has summoned a thread, which hands over   *)
(* in its turn or draws; while there is nothing to draw some unit is about *)
(* to bring something; and the agent is summoned to draw something.        *)
HandOverInv ==
  /\ \A t \in waiting : pc[t] = "waiting"
  /\ \A u \in Units : pc[u] \in {"wait", "hand_over"} => mv_mutex = u
  /\ \A u \in Units : pc[u] = "wait" => up # NoUnit
  /\ pc[Agent] = "wait" => mv_mutex \in {Agent, Main}
  /\ pc[Agent] = "draw" => mv_mutex = Agent
  /\ up = NoUnit => \E u \in Units : u \notin waiting
  /\ up # NoUnit => \E t \in Units \cup {Agent} : Summoned(t)
  /\ ~aniGhosts.spurious => /\ Summoned(Agent) => up # NoUnit
                            /\ ~aniGhosts.null

(* A unit that nobody has sent over a border is on the screen, and it      *)
(* leaves its border between Bounce() and Move().                          *)
ScreenInv ==
  \A u \in Units \ aniGhosts.out :
    /\ units[u].col \in 0..LastCol
    /\ pc[u] \notin {"start", "bounce"} => ~Animation!Outward(units[u])

AniInv == AniTypeInv /\ HandOverInv /\ ScreenInv

LEMMA AniGoesTo ==
  ASSUME AniTypeInv, NEW t \in Animation!Threads,
         NEW place \in UnitPlaces \cup AgentPlaces \cup MainPlaces, Animation!GoTo(t, place)
  PROVE  /\ pc' \in [Animation!Threads -> UnitPlaces \cup AgentPlaces \cup MainPlaces]
         /\ pc'[t] = place
         /\ \A d \in Animation!Threads : d # t => pc'[d] = pc[d]
BY DEF AniTypeInv, Animation!GoTo

LEMMA AniThreads ==
  /\ Units \subseteq Animation!Threads
  /\ Agent \in Animation!Threads /\ Main \in Animation!Threads
  /\ Agent \notin Units /\ Main \notin Units /\ NoUnit \notin Units
  /\ Agent # Main /\ NoUnit # Agent /\ NoUnit # Main
  /\ Animation!NoThread = NoUnit
BY SmallProgramsAssumption DEF SmallProgramsAssumption, Animation!Threads, Animation!NoThread

(* A step of a unit that moves it on the screen and touches nothing else.  *)
LEMMA UnitMoves ==
  ASSUME AniInv, NEW u \in Units, NEW place \in {"move", "bounce", "lock"},
         pc[u] \in {"start", "move", "bounce"},
         Animation!GoTo(u, place), NEW r \in UnitStates,
         units' = [units EXCEPT ![u] = r],
         UNCHANGED <<up, mv_mutex, waiting>>,
         aniGhosts' \in [out : SUBSET Units, spurious : BOOLEAN, null : BOOLEAN, outside : Nat],
         aniGhosts'.spurious <=> aniGhosts.spurious,
         aniGhosts'.null <=> aniGhosts.null,
         aniGhosts.out \subseteq aniGhosts'.out,
         u \notin aniGhosts'.out =>
           /\ r.col \in 0..LastCol
           /\ place # "bounce" => ~Animation!Outward(r)
  PROVE  AniInv'
<1> USE AniThreads
<1>1. /\ pc' \in [Animation!Threads -> UnitPlaces \cup AgentPlaces \cup MainPlaces]
      /\ pc'[u] = place
      /\ \A d \in Animation!Threads : d # u => pc'[d] = pc[d]
  BY AniGoesTo DEF AniInv, UnitPlaces
<1>2. units' \in [Units -> UnitStates] /\ units'[u] = r
      /\ \A v \in Units : v # u => units'[v] = units[v]
  BY DEF AniInv, AniTypeInv
<1>3. AniTypeInv'
  BY <1>1, <1>2 DEF AniInv, AniTypeInv, UnitPlaces
<1>4. \A t \in Units \cup {Agent} : Summoned(t)' <=> Summoned(t)
  BY <1>1 DEF Summoned
<1>5. HandOverInv'
  <2>1. \A t \in waiting : t # u
    BY DEF AniInv, HandOverInv
  <2>2. \A t \in waiting : pc'[t] = "waiting"
    BY <1>1, <2>1 DEF AniInv, HandOverInv, AniTypeInv
  <2>3. \A v \in Units : pc'[v] \in {"wait", "hand_over"} => pc'[v] = pc[v]
    BY <1>1
  <2> QED
    BY <1>1, <1>4, <2>2, <2>3 DEF AniInv, HandOverInv
<1>6. ScreenInv'
  BY <1>1, <1>2 DEF AniInv, ScreenInv
<1> QED
  BY <1>3, <1>5, <1>6 DEF AniInv

LEMMA PlaceKeeps ==
  ASSUME AniInv, NEW u \in Units, Animation!Place(u)
  PROVE  AniInv'
<1>1. /\ pc[u] = "start" /\ Animation!GoTo(u, "move")
      /\ UNCHANGED <<up, mv_mutex, waiting>>
  BY DEF Animation!Place, Animation!At
<1>2. PICK col \in 0..LastCol : units' = [units EXCEPT ![u].col = col]
  BY DEF Animation!Place
<1>3. units[u] \in UnitStates /\ units \in [Units -> UnitStates] /\ col \in Int
  BY SmallProgramsAssumption DEF AniInv, AniTypeInv, SmallProgramsAssumption
<1>4. PICK r \in UnitStates : r = [units[u] EXCEPT !.col = col]
  BY <1>3 DEF UnitStates
<1>5. units' = [units EXCEPT ![u] = r] /\ r.col = col
  BY <1>2, <1>3, <1>4 DEF UnitStates
<1>6. units'[u] = r
  BY <1>3, <1>5
<1>7. aniGhosts' = [aniGhosts EXCEPT !.out =
                      IF Animation!Outward(r) THEN @ \cup {u} ELSE @]
  BY <1>6 DEF Animation!Place
<1>8. /\ aniGhosts' \in [out : SUBSET Units, spurious : BOOLEAN, null : BOOLEAN, outside : Nat]
      /\ aniGhosts'.spurious <=> aniGhosts.spurious
      /\ aniGhosts'.null <=> aniGhosts.null
      /\ aniGhosts'.out = IF Animation!Outward(r) THEN aniGhosts.out \cup {u} ELSE aniGhosts.out
  BY <1>7 DEF AniInv, AniTypeInv
<1> QED
  BY <1>1, <1>5, <1>8, UnitMoves

LEMMA MoveKeeps ==
  ASSUME AniInv, NEW u \in Units, Animation!Move(u)
  PROVE  AniInv'
<1>1. /\ pc[u] = "move" /\ Animation!GoTo(u, "bounce")
      /\ units' = IF units[u].col \notin 0..LastCol THEN units
                  ELSE [units EXCEPT ![u].col = @ + units[u].dir]
      /\ UNCHANGED <<up, mv_mutex, waiting, aniGhosts>>
  BY DEF Animation!Move, Animation!At
<1>2. units[u] \in UnitStates /\ units \in [Units -> UnitStates]
  BY DEF AniInv, AniTypeInv
<1>3. PICK n \in Int : n = IF units[u].col \notin 0..LastCol THEN units[u].col
                           ELSE units[u].col + units[u].dir
  BY <1>2 DEF UnitStates
<1>4. PICK r \in UnitStates : r = [units[u] EXCEPT !.col = n]
  BY <1>2 DEF UnitStates
<1>5. units' = [units EXCEPT ![u] = r] /\ r.col = n
  <2>1. CASE units[u].col \notin 0..LastCol
    <3>1. r = units[u]
      BY <1>2, <1>3, <1>4, <2>1 DEF UnitStates
    <3> QED
      BY <1>1, <1>2, <1>3, <2>1, <3>1
  <2>2. CASE units[u].col \in 0..LastCol
    BY <1>1, <1>2, <1>3, <1>4, <2>2 DEF UnitStates
  <2> QED
    BY <2>1, <2>2
<1>6. ASSUME u \notin aniGhosts.out
      PROVE  r.col \in 0..LastCol
  <2>1. units[u].col \in 0..LastCol /\ ~Animation!Outward(units[u])
    BY <1>1, <1>6 DEF AniInv, ScreenInv
  <2> QED
    BY <1>2, <1>3, <1>5, <2>1, SmallProgramsAssumption
      DEF UnitStates, Animation!Outward, SmallProgramsAssumption
<1> QED
  BY <1>1, <1>5, <1>6, UnitMoves DEF AniInv, AniTypeInv

LEMMA BounceKeeps ==
  ASSUME AniInv, NEW u \in Units, Animation!Bounce(u)
  PROVE  AniInv'
<1>1. /\ pc[u] = "bounce" /\ Animation!GoTo(u, "lock")
      /\ units' = IF Animation!Outward(units[u])
                    THEN [units EXCEPT ![u] = Animation!Turned(@)] ELSE units
      /\ UNCHANGED <<up, mv_mutex, waiting, aniGhosts>>
  BY DEF Animation!Bounce, Animation!At
<1>2. units[u] \in UnitStates /\ units \in [Units -> UnitStates]
  BY DEF AniInv, AniTypeInv
<1>3. PICK r \in UnitStates : /\ r = IF Animation!Outward(units[u])
                                       THEN Animation!Turned(units[u]) ELSE units[u]
                              /\ r.col = units[u].col
                              /\ r.dir = IF Animation!Outward(units[u])
                                           THEN -units[u].dir ELSE units[u].dir
  <2>1. /\ Animation!Turned(units[u]) \in UnitStates
        /\ Animation!Turned(units[u]).col = units[u].col
        /\ Animation!Turned(units[u]).dir = -units[u].dir
    BY <1>2 DEF UnitStates, Animation!Turned
  <2> QED
    BY <1>2, <2>1
<1>4. units' = [units EXCEPT ![u] = r]
  BY <1>1, <1>2, <1>3
<1>5. ASSUME u \notin aniGhosts.out
      PROVE  r.col \in 0..LastCol /\ ~Animation!Outward(r)
  <2>1. units[u].col \in 0..LastCol
    BY <1>5 DEF AniInv, ScreenInv
  <2>2. ~Animation!Outward(r)
    BY <1>2, <1>3, <2>1, SmallProgramsAssumption
      DEF UnitStates, Animation!Outward, SmallProgramsAssumption
  <2> QED
    BY <1>3, <2>1, <2>2
<1> QED
  BY <1>1, <1>4, <1>5, UnitMoves DEF AniInv, AniTypeInv

(* A step of the hand-over: the screen does not change.                    *)
LEMMA ScreenSame ==
  ASSUME AniInv, UNCHANGED units, aniGhosts'.out = aniGhosts.out,
         \A u \in Units : pc[u] \in {"start", "bounce"} => pc'[u] \in {"start", "bounce"}
  PROVE  ScreenInv'
BY DEF AniInv, ScreenInv

LEMMA AniLockKeeps ==
  ASSUME AniInv, NEW u \in Units, Animation!Lock(u)
  PROVE  AniInv'
<1> USE AniThreads
<1>1. /\ pc[u] = "lock" /\ mv_mutex = NoUnit /\ mv_mutex' = u
      /\ UNCHANGED <<up, waiting, units, aniGhosts>>
  BY DEF Animation!Lock, Animation!At
<1>2. PICK place \in UnitPlaces :
        /\ place = IF up # NoUnit THEN "wait" ELSE "hand_over"
        /\ Animation!GoTo(u, place)
  BY DEF Animation!Lock, UnitPlaces
<1>3. /\ pc' \in [Animation!Threads -> UnitPlaces \cup AgentPlaces \cup MainPlaces]
      /\ pc'[u] = place
      /\ \A d \in Animation!Threads : d # u => pc'[d] = pc[d]
  BY <1>2, AniGoesTo DEF AniInv
<1>4. AniTypeInv'
  BY <1>1, <1>2, <1>3 DEF AniInv, AniTypeInv
<1>5. /\ \A v \in Units : pc[v] \notin {"wait", "hand_over"}
      /\ pc[Agent] = "waiting"
  BY <1>1 DEF AniInv, HandOverInv, AniTypeInv, AgentPlaces
<1>6. u \notin waiting
  BY <1>1 DEF AniInv, HandOverInv
<1>7. \A t \in Units \cup {Agent} : Summoned(t) => Summoned(t)'
  BY <1>1, <1>3 DEF Summoned
<1>8. Summoned(Agent)' <=> Summoned(Agent)
  BY <1>1, <1>3 DEF Summoned
<1>9. HandOverInv'
  <2>1. \A t \in waiting : pc'[t] = "waiting"
    BY <1>3, <1>6 DEF AniInv, HandOverInv, AniTypeInv
  <2>2. \A v \in Units : pc'[v] \in {"wait", "hand_over"} => v = u
    BY <1>3, <1>5
  <2>3. \A v \in Units : pc'[v] = "wait" => up # NoUnit
    BY <1>2, <1>3, <2>2
  <2>4. pc'[Agent] = "waiting"
    BY <1>3, <1>5
  <2>5. up # NoUnit => \E t \in Units \cup {Agent} : Summoned(t)'
    BY <1>7 DEF AniInv, HandOverInv
  <2> QED
    BY <1>1, <1>8, <2>1, <2>2, <2>3, <2>4, <2>5 DEF AniInv, HandOverInv
<1>10. ScreenInv'
  BY <1>1, <1>3, ScreenSame
<1> QED
  BY <1>4, <1>9, <1>10 DEF AniInv

(* Somebody else was summoned before a thread waits, or has been by Draw.  *)
LEMMA AniWaitKeeps ==
  ASSUME AniInv, NEW t \in Units \cup {Agent}, Animation!Wait(t)
  PROVE  AniInv'
<1> USE AniThreads
<1>1. /\ pc[t] = "wait" /\ Animation!GoTo(t, "waiting")
      /\ waiting' = waiting \cup {t} /\ mv_mutex' = NoUnit
      /\ UNCHANGED <<up, units, aniGhosts>>
  BY DEF Animation!Wait, Animation!At
<1>2. /\ pc' \in [Animation!Threads -> UnitPlaces \cup AgentPlaces \cup MainPlaces]
      /\ pc'[t] = "waiting"
      /\ \A d \in Animation!Threads : d # t => pc'[d] = pc[d]
  BY <1>1, AniGoesTo DEF AniInv, UnitPlaces
<1>3. AniTypeInv'
  BY <1>1, <1>2 DEF AniInv, AniTypeInv, UnitPlaces, AgentPlaces
<1>4. /\ \A v \in Units : v # t => pc[v] \notin {"wait", "hand_over"}
      /\ t # Agent => pc[Agent] = "waiting"
  BY <1>1 DEF AniInv, HandOverInv, AniTypeInv, AgentPlaces
<1>5. \A d \in Units \cup {Agent} : Summoned(d)' <=> Summoned(d)
  <2>1. ~Summoned(t) /\ ~Summoned(t)'
    BY <1>1, <1>2 DEF Summoned
  <2>2. \A d \in Units \cup {Agent} : d # t => (Summoned(d)' <=> Summoned(d))
    BY <1>1, <1>2 DEF Summoned
  <2> QED
    BY <2>1, <2>2
<1>6. up = NoUnit => \E u \in Units : u \notin waiting'
  <2>1. CASE t = Agent
    BY <1>1, <2>1 DEF AniInv, HandOverInv
  <2>2. CASE t # Agent
    BY <1>1, <2>2 DEF AniInv, HandOverInv
  <2> QED
    BY <2>1, <2>2
<1>7. HandOverInv'
  <2>1. \A d \in waiting' : pc'[d] = "waiting"
    BY <1>1, <1>2 DEF AniInv, HandOverInv, AniTypeInv
  <2>2. \A v \in Units : pc'[v] \notin {"wait", "hand_over"}
    BY <1>2, <1>4
  <2>3. pc'[Agent] = "waiting"
    BY <1>2, <1>4
  <2>4. up # NoUnit => \E d \in Units \cup {Agent} : Summoned(d)'
    BY <1>5 DEF AniInv, HandOverInv
  <2>5. Summoned(Agent)' <=> Summoned(Agent)
    BY <1>5
  <2> QED
    BY <1>1, <1>6, <2>1, <2>2, <2>3, <2>4, <2>5 DEF AniInv, HandOverInv
<1>8. ScreenInv'
  BY <1>1, <1>2, ScreenSame
<1> QED
  BY <1>3, <1>7, <1>8 DEF AniInv

LEMMA AniWokenKeeps ==
  ASSUME AniInv, NEW t \in Units \cup {Agent}, Animation!Woken(t)
  PROVE  AniInv'
<1> USE AniThreads
<1>1. /\ pc[t] = "waiting" /\ t \notin waiting /\ mv_mutex = NoUnit /\ mv_mutex' = t
      /\ UNCHANGED <<up, waiting, units, aniGhosts>>
  BY DEF Animation!Woken, Animation!At
<1>2. PICK place \in UnitPlaces \cup AgentPlaces :
        /\ place = IF t = Agent THEN "draw" ELSE "hand_over"
        /\ Animation!GoTo(t, place)
  BY DEF Animation!Woken, UnitPlaces, AgentPlaces
<1>3. /\ pc' \in [Animation!Threads -> UnitPlaces \cup AgentPlaces \cup MainPlaces]
      /\ pc'[t] = place
      /\ \A d \in Animation!Threads : d # t => pc'[d] = pc[d]
  BY <1>2, AniGoesTo DEF AniInv
<1>4. AniTypeInv'
  BY <1>1, <1>2, <1>3 DEF AniInv, AniTypeInv, UnitPlaces, AgentPlaces
<1>5. /\ \A v \in Units : pc[v] \notin {"wait", "hand_over"}
      /\ pc[Agent] = "waiting"
  BY <1>1 DEF AniInv, HandOverInv, AniTypeInv, AgentPlaces
<1>6. \A d \in Units \cup {Agent} : Summoned(d)' <=> Summoned(d)
  <2>1. Summoned(t) /\ Summoned(t)'
    BY <1>1, <1>2, <1>3 DEF Summoned
  <2>2. \A d \in Units \cup {Agent} : d # t => (Summoned(d)' <=> Summoned(d))
    BY <1>1, <1>3 DEF Summoned
  <2> QED
    BY <2>1, <2>2
<1>7. HandOverInv'
  <2>1. \A d \in waiting : pc'[d] = "waiting"
    BY <1>1, <1>3 DEF AniInv, HandOverInv, AniTypeInv
  <2>2. \A v \in Units : pc'[v] \in {"wait", "hand_over"} => v = t /\ pc'[v] = "hand_over"
    BY <1>2, <1>3, <1>5
  <2>3. \/ t = Agent /\ pc'[Agent] = "draw"
        \/ t # Agent /\ pc'[Agent] = "waiting"
    BY <1>2, <1>3, <1>5
  <2>4. up # NoUnit => \E d \in Units \cup {Agent} : Summoned(d)'
    BY <1>6 DEF AniInv, HandOverInv
  <2>5. Summoned(Agent)' <=> Summoned(Agent)
    BY <1>6
  <2> QED
    BY <1>1, <2>1, <2>2, <2>3, <2>4, <2>5 DEF AniInv, HandOverInv
<1>8. ScreenInv'
  BY <1>1, <1>2, <1>3, ScreenSame
<1> QED
  BY <1>4, <1>7, <1>8 DEF AniInv

LEMMA AniSpuriousKeeps ==
  ASSUME AniInv, NEW t \in Units \cup {Agent}, Animation!Spurious(t)
  PROVE  AniInv'
<1> USE AniThreads
<1>1. /\ pc[t] = "waiting" /\ waiting' = waiting \ {t}
      /\ aniGhosts' = [aniGhosts EXCEPT !.spurious = TRUE, !.outside = @ + 1]
      /\ UNCHANGED <<up, mv_mutex, pc, units>>
  BY DEF Animation!Spurious, Animation!At
<1>2. /\ aniGhosts' \in [out : SUBSET Units, spurious : BOOLEAN, null : BOOLEAN, outside : Nat]
      /\ aniGhosts'.spurious /\ aniGhosts'.out = aniGhosts.out
  <2>1. PICK n \in Nat : n = aniGhosts.outside + 1
    BY DEF AniInv, AniTypeInv
  <2>2. aniGhosts' = [aniGhosts EXCEPT !.spurious = TRUE, !.outside = n]
    BY <1>1, <2>1
  <2> QED
    BY <2>2 DEF AniInv, AniTypeInv
<1>3. AniTypeInv'
  BY <1>1, <1>2 DEF AniInv, AniTypeInv
<1>4. \A d \in Units \cup {Agent} : Summoned(d) => Summoned(d)'
  BY <1>1 DEF Summoned
<1>5. HandOverInv'
  <2>1. up # NoUnit => \E d \in Units \cup {Agent} : Summoned(d)'
    BY <1>4 DEF AniInv, HandOverInv
  <2> QED
    BY <1>1, <1>2, <2>1 DEF AniInv, HandOverInv
<1>6. ScreenInv'
  BY <1>1, <1>2, ScreenSame
<1> QED
  BY <1>3, <1>5, <1>6 DEF AniInv

(* A signal wakes somebody if anybody waits.                               *)
LEMMA SignalWakes ==
  ASSUME Animation!Signal
  PROVE  \/ waiting = {} /\ waiting' = {}
         \/ \E d \in waiting : waiting' = waiting \ {d}
BY DEF Animation!Signal

LEMMA AniHandOverKeeps ==
  ASSUME AniInv, NEW u \in Units, Animation!HandOver(u)
  PROVE  AniInv'
<1> USE AniThreads
<1>1. /\ pc[u] = "hand_over" /\ Animation!GoTo(u, "move")
      /\ up' = u /\ mv_mutex' = NoUnit
      /\ UNCHANGED <<units, aniGhosts>>
  BY DEF Animation!HandOver, Animation!At
<1>2. /\ pc' \in [Animation!Threads -> UnitPlaces \cup AgentPlaces \cup MainPlaces]
      /\ pc'[u] = "move"
      /\ \A d \in Animation!Threads : d # u => pc'[d] = pc[d]
  BY <1>1, AniGoesTo DEF AniInv, UnitPlaces
<1>3. \/ waiting = {} /\ waiting' = {}
      \/ \E d \in waiting : waiting' = waiting \ {d}
  BY SignalWakes DEF Animation!HandOver
<1>4. AniTypeInv'
  BY <1>1, <1>2, <1>3 DEF AniInv, AniTypeInv, UnitPlaces
<1>5. mv_mutex = u
  BY <1>1 DEF AniInv, HandOverInv
<1>6. /\ \A v \in Units : v # u => pc[v] \notin {"wait", "hand_over"}
      /\ pc[Agent] = "waiting"
  BY <1>5 DEF AniInv, HandOverInv, AniTypeInv, AgentPlaces
<1>7. \A t \in waiting : pc[t] = "waiting" /\ t # u /\ t \in Units \cup {Agent}
  BY <1>1 DEF AniInv, HandOverInv, AniTypeInv
<1>8. \E t \in Units \cup {Agent} : Summoned(t)'
  <2>1. CASE waiting = {} /\ waiting' = {}
    <3>1. pc'[Agent] = "waiting" /\ Agent \notin waiting'
      BY <1>2, <1>6, <2>1
    <3> QED
      BY <3>1 DEF Summoned
  <2>2. CASE \E d \in waiting : waiting' = waiting \ {d}
    <3>1. PICK d \in waiting : waiting' = waiting \ {d}
      BY <2>2
    <3>2. d \in Units \cup {Agent} /\ pc'[d] = "waiting" /\ d \notin waiting'
      BY <1>2, <1>7, <3>1
    <3> QED
      BY <3>2 DEF Summoned
  <2> QED
    BY <1>3, <2>1, <2>2
<1>9. HandOverInv'
  <2>1. \A t \in waiting' : pc'[t] = "waiting"
    BY <1>2, <1>3, <1>7
  <2>2. \A v \in Units : pc'[v] \notin {"wait", "hand_over"}
    BY <1>2, <1>6
  <2>3. pc'[Agent] = "waiting"
    BY <1>2, <1>6
  <2>4. up' # NoUnit
    BY <1>1
  <2>5. ~aniGhosts.spurious => ~aniGhosts.null
    BY DEF AniInv, HandOverInv
  <2> QED
    BY <1>1, <1>8, <2>1, <2>2, <2>3, <2>4, <2>5 DEF HandOverInv
<1>10. ScreenInv'
  BY <1>1, <1>2, ScreenSame
<1> QED
  BY <1>4, <1>9, <1>10 DEF AniInv

(* The agent draws, unless a wake-up was spurious, what was handed over.   *)
LEMMA AniDrawKeeps ==
  ASSUME AniInv, Animation!Draw
  PROVE  AniInv'
<1> USE AniThreads
<1>1. /\ pc[Agent] = "draw" /\ Animation!GoTo(Agent, "wait")
      /\ up' = NoUnit
      /\ aniGhosts' = [aniGhosts EXCEPT !.null = up = NoUnit]
      /\ UNCHANGED <<mv_mutex, units>>
  BY DEF Animation!Draw, Animation!At
<1>2. /\ pc' \in [Animation!Threads -> UnitPlaces \cup AgentPlaces \cup MainPlaces]
      /\ pc'[Agent] = "wait"
      /\ \A d \in Animation!Threads : d # Agent => pc'[d] = pc[d]
  BY <1>1, AniGoesTo DEF AniInv, AgentPlaces
<1>3. \/ waiting = {} /\ waiting' = {}
      \/ \E d \in waiting : waiting' = waiting \ {d}
  BY SignalWakes DEF Animation!Draw
<1>4. PICK nothing \in BOOLEAN : nothing = (up = NoUnit)
  OBVIOUS
<1>5. aniGhosts' = [aniGhosts EXCEPT !.null = nothing]
  BY <1>1, <1>4, Zenon
<1>6. nothing <=> up = NoUnit
  BY <1>4, Zenon
<1>7. /\ aniGhosts' \in [out : SUBSET Units, spurious : BOOLEAN, null : BOOLEAN, outside : Nat]
      /\ aniGhosts'.spurious <=> aniGhosts.spurious
      /\ aniGhosts'.null <=> nothing
      /\ aniGhosts'.out = aniGhosts.out
  BY <1>5 DEF AniInv, AniTypeInv
<1>8. AniTypeInv'
  BY <1>1, <1>2, <1>3, <1>7 DEF AniInv, AniTypeInv, AgentPlaces
<1>9. mv_mutex = Agent
  BY <1>1 DEF AniInv, HandOverInv
<1>10. \A v \in Units : pc[v] \notin {"wait", "hand_over"}
  BY <1>9 DEF AniInv, HandOverInv
<1>11. \A t \in waiting : pc[t] = "waiting" /\ t \in Units
  BY <1>1 DEF AniInv, HandOverInv, AniTypeInv
<1>12. \E v \in Units : v \notin waiting'
  BY <1>3, <1>11, SmallProgramsAssumption DEF SmallProgramsAssumption
<1>13. HandOverInv'
  <2>1. \A t \in waiting' : pc'[t] = "waiting"
    BY <1>2, <1>3, <1>11
  <2>2. \A v \in Units : pc'[v] \notin {"wait", "hand_over"}
    BY <1>2, <1>10
  <2>3. ~Summoned(Agent)'
    BY <1>2 DEF Summoned
  <2>4. ~aniGhosts.spurious => up # NoUnit
    BY <1>1 DEF AniInv, HandOverInv, Summoned
  <2> QED
    BY <1>1, <1>2, <1>6, <1>7, <1>9, <1>12, <2>1, <2>2, <2>3, <2>4 DEF HandOverInv
<1>14. ScreenInv'
  BY <1>1, <1>2, <1>7, ScreenSame
<1> QED
  BY <1>8, <1>13, <1>14 DEF AniInv

(* Keys turn units, and send those over the border that stand there.       *)
LEMMA AniTurnKeeps ==
  ASSUME AniInv, Animation!Turn
  PROVE  AniInv'
<1> USE AniThreads
<1>1. PICK S \in SUBSET Units :
        /\ units' = [u \in Units |-> IF u \in S THEN Animation!Turned(units[u]) ELSE units[u]]
        /\ aniGhosts' = [aniGhosts EXCEPT !.outside = @ + 1,
             !.out = @ \cup {u \in S : Animation!Outward(units'[u]) /\ pc[u] # "bounce"}]
  <2>1. \A S \in {{u} : u \in Units} \cup {Units} : S \in SUBSET Units
    OBVIOUS
  <2> QED
    BY <2>1 DEF Animation!Turn
<1>2. UNCHANGED <<up, mv_mutex, waiting, pc>>
  BY DEF Animation!Turn
<1>3. \A u \in Units : Animation!Turned(units[u]) \in UnitStates
                       /\ Animation!Turned(units[u]).col = units[u].col
  BY DEF AniInv, AniTypeInv, UnitStates, Animation!Turned
<1>4. units' \in [Units -> UnitStates]
  BY <1>1, <1>3 DEF AniInv, AniTypeInv
<1>5. PICK sent \in SUBSET Units :
        sent = {u \in S : Animation!Outward(units'[u]) /\ pc[u] # "bounce"}
  OBVIOUS
<1>6. PICK n \in Nat : n = aniGhosts.outside + 1
  BY DEF AniInv, AniTypeInv
<1>7. aniGhosts' = [aniGhosts EXCEPT !.outside = n, !.out = @ \cup sent]
  BY <1>1, <1>5, <1>6
<1>8. /\ aniGhosts' \in [out : SUBSET Units, spurious : BOOLEAN, null : BOOLEAN, outside : Nat]
      /\ aniGhosts'.spurious <=> aniGhosts.spurious
      /\ aniGhosts'.null <=> aniGhosts.null
      /\ aniGhosts'.out = aniGhosts.out \cup sent
  BY <1>7 DEF AniInv, AniTypeInv
<1>9. AniTypeInv'
  BY <1>2, <1>4, <1>8 DEF AniInv, AniTypeInv
<1>10. HandOverInv'
  <2>1. \A t \in Units \cup {Agent} : Summoned(t)' <=> Summoned(t)
    BY <1>2 DEF Summoned
  <2> QED
    BY <1>2, <1>8, <2>1 DEF AniInv, HandOverInv
<1>11. ScreenInv'
  <2> SUFFICES ASSUME NEW u \in Units, u \notin aniGhosts'.out
               PROVE  /\ units'[u].col \in 0..LastCol
                      /\ pc[u] \notin {"start", "bounce"} => ~Animation!Outward(units'[u])
    BY <1>2 DEF ScreenInv, Animation!Outward
  <2>1. /\ units[u].col \in 0..LastCol
        /\ pc[u] \notin {"start", "bounce"} => ~Animation!Outward(units[u])
    BY <1>8 DEF AniInv, ScreenInv
  <2>2. CASE u \in S
    <3>1. units'[u].col = units[u].col
      BY <1>1, <1>3, <2>2
    <3>2. u \notin sent
      BY <1>8
    <3> QED
      BY <1>5, <2>1, <2>2, <3>1, <3>2
  <2>3. CASE u \notin S
    BY <1>1, <2>1, <2>3
  <2> QED
    BY <2>2, <2>3
<1> QED
  BY <1>9, <1>10, <1>11 DEF AniInv

(* main() on its way out: it takes the mutex only when it is free.         *)
LEMMA AniQuitKeeps ==
  ASSUME AniInv, NEW place \in {"lock", "ended"}, Animation!GoTo(Main, place),
         UNCHANGED <<up, waiting, units, aniGhosts>>,
         mv_mutex' = mv_mutex \/ (mv_mutex = NoUnit /\ mv_mutex' = Main)
  PROVE  AniInv'
<1> USE AniThreads
<1>1. /\ pc' \in [Animation!Threads -> UnitPlaces \cup AgentPlaces \cup MainPlaces]
      /\ pc'[Main] = place
      /\ \A d \in Animation!Threads : d # Main => pc'[d] = pc[d]
  BY AniGoesTo DEF AniInv, MainPlaces
<1>2. /\ \A u \in Units : u \in Animation!Threads /\ pc'[u] = pc[u]
      /\ pc'[Agent] = pc[Agent]
  BY <1>1
<1>3. AniTypeInv'
  BY <1>1, <1>2 DEF AniInv, AniTypeInv, MainPlaces
<1>4. HandOverInv'
  <2>1. \A t \in Units \cup {Agent} : pc'[t] = pc[t]
    BY <1>2
  <2>2. \A t \in Units \cup {Agent} : Summoned(t)' <=> Summoned(t)
    BY <2>1 DEF Summoned
  <2>3. \A t \in waiting : pc'[t] = "waiting"
    BY <2>1 DEF AniInv, AniTypeInv, HandOverInv
  <2>4. \A u \in Units : pc'[u] \in {"wait", "hand_over"} => mv_mutex' = u
    BY <1>2 DEF AniInv, HandOverInv
  <2>5. /\ pc'[Agent] = "wait" => mv_mutex' \in {Agent, Main}
        /\ pc'[Agent] = "draw" => mv_mutex' = Agent
    BY <1>2 DEF AniInv, HandOverInv
  <2> QED
    BY <1>2, <2>2, <2>3, <2>4, <2>5 DEF AniInv, HandOverInv
<1>5. ScreenInv'
  BY <1>2, ScreenSame
<1> QED
  BY <1>3, <1>4, <1>5 DEF AniInv

LEMMA AniInvInit ==
  ASSUME Animation!Init
  PROVE  AniInv
<1> USE AniThreads
<1>1. /\ up = NoUnit /\ mv_mutex = Main /\ waiting = {}
      /\ units \in [Units -> [col : {0}, dir : {1, -1}]]
      /\ aniGhosts = [out |-> {}, spurious |-> FALSE, null |-> FALSE, outside |-> 0]
  BY DEF Animation!Init
<1>2. /\ pc \in [Animation!Threads -> UnitPlaces \cup AgentPlaces \cup MainPlaces]
      /\ pc[Agent] = "wait" /\ pc[Main] = "getch"
      /\ \A u \in Units : pc[u] = "start"
  BY DEF Animation!Init, UnitPlaces, AgentPlaces, MainPlaces
<1>3. \A u \in Units : units[u] \in UnitStates /\ units[u].col \in 0..LastCol
  BY <1>1, SmallProgramsAssumption DEF UnitStates, SmallProgramsAssumption
<1>4. AniTypeInv
  <2>1. units \in [Units -> UnitStates]
    BY <1>1, <1>3
  <2> QED
    BY <1>1, <1>2, <2>1 DEF AniTypeInv, UnitPlaces, AgentPlaces, MainPlaces
<1>5. HandOverInv
  BY <1>1, <1>2, SmallProgramsAssumption DEF HandOverInv, Summoned, SmallProgramsAssumption
<1>6. ScreenInv
  BY <1>2, <1>3 DEF ScreenInv
<1> QED
  BY <1>4, <1>5, <1>6 DEF AniInv

LEMMA AniInvNext ==
  ASSUME AniInv, [Animation!Next]_aniVars
  PROVE  AniInv'
<1>1. CASE \E u \in Units : Animation!AnimateStep(u) \/ Animation!Spurious(u)
  BY <1>1, PlaceKeeps, MoveKeeps, BounceKeeps, AniLockKeeps, AniWaitKeeps, AniWokenKeeps,
     AniHandOverKeeps, AniSpuriousKeeps DEF Animation!AnimateStep
<1>2. CASE Animation!AgentStep \/ Animation!Spurious(Agent)
  BY <1>2, AniWaitKeeps, AniWokenKeeps, AniDrawKeeps, AniSpuriousKeeps DEF Animation!AgentStep
<1>3. CASE Animation!Turn
  BY <1>3, AniTurnKeeps
<1>4. CASE Animation!Quit
  BY <1>4, AniQuitKeeps DEF Animation!Quit
<1>5. CASE Animation!LockAndEnd
  BY <1>5, AniThreads, AniQuitKeeps DEF Animation!LockAndEnd
<1>6. CASE UNCHANGED aniVars
  BY <1>6 DEF aniVars, AniInv, AniTypeInv, HandOverInv, Summoned, ScreenInv, Animation!Outward
<1> QED
  BY <1>1, <1>2, <1>3, <1>4, <1>5, <1>6 DEF Animation!Next

(* The invariant of the animation, for any number of strings, any width of *)
(* the screen and any number of keys and of returns from                   *)
(* pthread_cond_wait() without a signal: src/Tanimate/tanimate.c.          *)
THEOREM AnimationInvariant == AllSpec => [](program = "animate" => AniInv)
<1>1. AllInit => (program = "animate" => AniInv)
  BY AniInvInit DEF AllInit
<1>2. (program = "animate" => AniInv) /\ [AllNext]_allVars => (program = "animate" => AniInv)'
  <2>1. [AllNext]_allVars => [Animation!Next]_aniVars /\ program' = program
    BY DEF AllNext, allVars
  <2> QED
    BY <2>1, AniInvNext
<1> QED
  BY <1>1, <1>2, PTL DEF AllSpec

(* The threads of the animation never all wait, whichever of them a signal *)
(* of the one condition variable wakes, and the agent, which does not test *)
(* `up', draws no null pointer unless a wake-up was spurious.              *)
THEOREM HandOverWorksHolds == AllSpec => []HandOverWorks
<1>1. ASSUME program = "animate" => AniInv
      PROVE  HandOverWorks
  <2> SUFFICES ASSUME AniInv
               PROVE  Animation!HandOverWorks
    BY <1>1 DEF HandOverWorks
  <2>1. Animation!Threads \ {Main} = Units \cup {Agent}
    BY AniThreads DEF Animation!Threads
  <2>2. \E t \in Units \cup {Agent} : t \notin waiting
    <3>1. CASE up = NoUnit
      BY <3>1 DEF AniInv, HandOverInv
    <3>2. CASE up # NoUnit
      BY <3>2 DEF AniInv, HandOverInv, Summoned
    <3> QED
      BY <3>1, <3>2
  <2>3. aniGhosts.null => aniGhosts.spurious
    BY DEF AniInv, HandOverInv
  <2> QED
    BY <2>1, <2>2, <2>3 DEF Animation!HandOverWorks
<1> QED
  BY <1>1, AnimationInvariant, PTL

(* A string leaves the screen only if it was sent over the border: placed  *)
(* there with its direction outward, or turned by a key where it stood     *)
(* there; a key between the step and the test does no harm.                *)
THEOREM OnScreenHolds == AllSpec => []OnScreen
<1>1. ASSUME program = "animate" => AniInv
      PROVE  OnScreen
  BY <1>1 DEF OnScreen, Animation!OnScreen, AniInv, ScreenInv
<1> QED
  BY <1>1, AnimationInvariant, PTL

-----------------------------------------------------------------------------
(* Shell: if, then, else and fi.                                           *)

ThenScript(r) == <<Sh!Condition(r), "then">>
ElseScript(r) == <<Sh!Condition(r), "then", "else">>

(* How far a well formed script has come is what the state machine says,   *)
(* and it has the result of the script's own condition.                    *)
ScriptFits ==
  \/ script = Sh!Broken
  \/ script = <<>> /\ if_state = "neutral"
  \/ script = <<Sh!Condition(if_result)>> /\ if_state = "want_then"
  \/ script = ThenScript(if_result) /\ if_state = "then_block"
  \/ script = ElseScript(if_result) /\ if_state = "else_block"

RanWhereItStands ==
  last.command /\ Len(script) # 1 =>
    last.executed = (script = <<>> \/ script[1] = Sh!Condition(~Sh!Among("else", script)))

BranchInv ==
  /\ if_result \in BOOLEAN
  /\ if_state \in {"neutral", "want_then", "then_block", "else_block"}
  /\ ~last.crashed => ScriptFits /\ RanWhereItStands

LEMMA AppendTuple ==
  ASSUME NEW x, NEW y, NEW z
  PROVE  Append(<<x>>, y) = <<x, y>> /\ Append(<<x, y>>, z) = <<x, y, z>>
<1> DEFINE S == {x, y, z}
<1>1. Append(<<x>>, y) = <<x, y>>
  <2>1. <<x>> \in Seq(S) /\ Append(<<x>>, y) \in Seq(S) /\ <<x, y>> \in Seq(S)
    OBVIOUS
  <2>2. Len(Append(<<x>>, y)) = 2 /\ Len(<<x, y>>) = 2
    BY <2>1
  <2>3. Append(<<x>>, y)[1] = <<x, y>>[1] /\ Append(<<x>>, y)[2] = <<x, y>>[2]
    BY <2>1
  <2>4. \A i \in 1..2 : i = 1 \/ i = 2
    OBVIOUS
  <2>5. \A i \in 1..Len(Append(<<x>>, y)) : Append(<<x>>, y)[i] = <<x, y>>[i]
    BY <2>2, <2>3, <2>4
  <2> HIDE DEF S
  <2> QED
    BY <2>1, <2>2, <2>5, SeqEqual
<1>2. Append(<<x, y>>, z) = <<x, y, z>>
  <2>1. <<x, y>> \in Seq(S) /\ Append(<<x, y>>, z) \in Seq(S) /\ <<x, y, z>> \in Seq(S)
    OBVIOUS
  <2>2. Len(Append(<<x, y>>, z)) = 3 /\ Len(<<x, y, z>>) = 3
    BY <2>1
  <2>3. /\ Append(<<x, y>>, z)[1] = <<x, y, z>>[1]
        /\ Append(<<x, y>>, z)[2] = <<x, y, z>>[2]
        /\ Append(<<x, y>>, z)[3] = <<x, y, z>>[3]
    BY <2>1
  <2>4. \A i \in 1..3 : i = 1 \/ i = 2 \/ i = 3
    OBVIOUS
  <2>5. \A i \in 1..Len(Append(<<x, y>>, z)) : Append(<<x, y>>, z)[i] = <<x, y, z>>[i]
    BY <2>2, <2>3, <2>4
  <2> HIDE DEF S
  <2> QED
    BY <2>1, <2>2, <2>5, SeqEqual
<1> QED
  BY <1>1, <1>2

(* What there is to know about the scripts.                                *)
LEMMA ScriptFacts ==
  ASSUME NEW r \in BOOLEAN
  PROVE  /\ <<Sh!Condition(r)>> # Sh!Broken /\ <<Sh!Condition(r)>> # <<>>
         /\ ThenScript(r) # Sh!Broken /\ ThenScript(r) # <<>>
         /\ ElseScript(r) # Sh!Broken /\ ElseScript(r) # <<>> /\ Sh!Broken # <<>>
         /\ Len(<<Sh!Condition(r)>>) = 1 /\ Len(Sh!Broken) = 1 /\ Len(<<>>) = 0
         /\ Len(ThenScript(r)) = 2 /\ Len(ElseScript(r)) = 3
         /\ ThenScript(r)[1] = Sh!Condition(r) /\ ElseScript(r)[1] = Sh!Condition(r)
         /\ ~Sh!Among("else", ThenScript(r)) /\ Sh!Among("else", ElseScript(r))
         /\ Append(<<Sh!Condition(r)>>, "then") = ThenScript(r)
         /\ Append(ThenScript(r), "else") = ElseScript(r)
<1>1. Sh!Condition(r) \in {"if true", "if false"}
  BY DEF Sh!Condition
<1>2. /\ <<Sh!Condition(r)>> # Sh!Broken /\ <<Sh!Condition(r)>> # <<>>
      /\ ThenScript(r) # Sh!Broken /\ ThenScript(r) # <<>>
      /\ ElseScript(r) # Sh!Broken /\ ElseScript(r) # <<>> /\ Sh!Broken # <<>>
  BY <1>1 DEF ThenScript, ElseScript, Sh!Broken
<1>3. /\ Len(<<Sh!Condition(r)>>) = 1 /\ Len(Sh!Broken) = 1 /\ Len(<<>>) = 0
      /\ Len(ThenScript(r)) = 2 /\ Len(ElseScript(r)) = 3
      /\ ThenScript(r)[1] = Sh!Condition(r) /\ ElseScript(r)[1] = Sh!Condition(r)
  BY DEF ThenScript, ElseScript, Sh!Broken
<1>4. ~Sh!Among("else", ThenScript(r))
  <2>1. ThenScript(r)[1] # "else" /\ ThenScript(r)[2] # "else"
    BY <1>1 DEF ThenScript
  <2>2. \A i \in 1..Len(ThenScript(r)) : i = 1 \/ i = 2
    BY <1>3
  <2> QED
    BY <2>1, <2>2 DEF Sh!Among
<1>5. Sh!Among("else", ElseScript(r))
  <2>1. 3 \in 1..Len(ElseScript(r)) /\ ElseScript(r)[3] = "else"
    BY <1>3 DEF ElseScript
  <2> QED
    BY <2>1 DEF Sh!Among
<1>6. /\ Append(<<Sh!Condition(r)>>, "then") = ThenScript(r)
      /\ Append(ThenScript(r), "else") = ElseScript(r)
  BY <1>1, AppendTuple DEF ThenScript, ElseScript
<1> QED
  BY <1>2, <1>3, <1>4, <1>5, <1>6

(* A command that is performed leaves a mark of it, or the shell crashes.  *)
LEMMA Performed ==
  ASSUME NEW c, NEW ok, Sh!Perform(c, ok)
  PROVE  last'.command /\ (last'.crashed \/ last'.executed = TRUE)
BY DEF Sh!Perform, Sh!Run, Sh!Assign, Sh!Export, Sh!Executed, Sh!Other

LEMMA ControlKeeps ==
  ASSUME BranchInv, NEW line \in Sh!Controls, Sh!Control(line)
  PROVE  BranchInv'
<1>1. /\ if_state' = Sh!NextState(line) /\ if_result' = if_result
      /\ Sh!Continue(line) /\ ~last.crashed /\ ~last'.command
  BY DEF Sh!Control, Sh!Nothing, Sh!Other, Sh!Calm
<1>2. if_result \in BOOLEAN /\ ScriptFits
  BY <1>1 DEF BranchInv
<1>3. if_state' \in {"neutral", "want_then", "then_block", "else_block"}
  BY <1>1 DEF Sh!NextState, Sh!THEN_BLOCK, Sh!ELSE_BLOCK, Sh!NEUTRAL, Sh!WANT_THEN
<1>4. ScriptFits'
  <2> SUFFICES ASSUME script' # Sh!Broken
               PROVE  ScriptFits'
    BY DEF ScriptFits, Sh!Broken
  <2>1. script # Sh!Broken
    BY <1>1 DEF Sh!Continue, Sh!Fits
  <2>2. line \in {"then", "else", "fi"}
    BY DEF Sh!Controls
  <2>3. CASE script = <<>>
    BY <1>1, <1>2, <2>1, <2>3, ScriptFacts DEF Sh!Continue, Sh!Fits
  <2>4. CASE script = <<Sh!Condition(if_result)>> /\ if_state = "want_then"
    <3>1. line = "then" /\ script' = ThenScript(if_result)
      BY <1>1, <1>2, <2>1, <2>2, <2>4, ScriptFacts DEF Sh!Continue, Sh!Fits
    <3> QED
      BY <1>1, <1>2, <2>4, <3>1
         DEF ScriptFits, ThenScript, Sh!Condition, Sh!NextState, Sh!WANT_THEN, Sh!THEN_BLOCK
  <2>5. CASE script = ThenScript(if_result) /\ if_state = "then_block"
    <3>1. \/ line = "else" /\ script' = ElseScript(if_result)
          \/ line = "fi" /\ script' = <<>>
      <4>1. Len(script) = 2 /\ Append(script, "else") = ElseScript(if_result)
        BY <1>2, <2>5, ScriptFacts
      <4> QED
        BY <1>1, <2>2, <4>1 DEF Sh!Continue, Sh!Fits
    <3> QED
      BY <1>1, <1>2, <2>5, <3>1
         DEF ScriptFits, ElseScript, Sh!Condition, Sh!NextState, Sh!WANT_THEN, Sh!THEN_BLOCK,
             Sh!ELSE_BLOCK, Sh!NEUTRAL
  <2>6. CASE script = ElseScript(if_result) /\ if_state = "else_block"
    <3>1. line = "fi" /\ script' = <<>>
      <4>1. Len(script) = 3 /\ Sh!Among("else", script)
        BY <1>2, <2>6, ScriptFacts
      <4> QED
        BY <1>1, <2>2, <4>1 DEF Sh!Continue, Sh!Fits
    <3> QED
      BY <1>1, <3>1 DEF ScriptFits, Sh!NextState, Sh!NEUTRAL
  <2> QED
    BY <1>2, <2>1, <2>3, <2>4, <2>5, <2>6 DEF ScriptFits
<1> QED
  BY <1>1, <1>2, <1>3, <1>4 DEF BranchInv, RanWhereItStands

LEMMA CommandKeeps ==
  ASSUME BranchInv, NEW c \in Sh!Commands, Sh!Command(c)
  PROVE  BranchInv'
<1>1. ~last.crashed /\ script' = IF Len(script) = 1 THEN Sh!Broken ELSE script
  BY DEF Sh!Command, Sh!Calm, Sh!WriteCommand
<1>2. if_result \in BOOLEAN /\ ScriptFits
  BY <1>1 DEF BranchInv
<1>3. /\ if_result' \in BOOLEAN
      /\ if_state' \in {"neutral", "want_then", "then_block", "else_block"}
  BY DEF Sh!Command, Sh!syn_err, Sh!NEUTRAL, BranchInv
<1>4. CASE Len(script) = 1
  <2>1. script' = Sh!Broken
    BY <1>1, <1>4
  <2> QED
    BY <1>2, <1>3, <2>1, ScriptFacts DEF BranchInv, ScriptFits, RanWhereItStands, Sh!Broken
<1>5. CASE Len(script) # 1
  <2>1. script' = script /\ script # Sh!Broken /\ if_state # "want_then"
    BY <1>1, <1>2, <1>5, ScriptFacts DEF ScriptFits
  <2>2. UNCHANGED <<if_state, if_result>>
    BY <2>1 DEF Sh!Command, Sh!WANT_THEN
  <2>3. /\ last'.command
        /\ last'.crashed \/ last'.executed = ~Sh!Skipped
    <3>1. CASE Sh!Skipped
      BY <2>1, <3>1 DEF Sh!Command, Sh!WANT_THEN, Sh!Other
    <3>2. CASE ~Sh!Skipped
      BY <2>1, <3>2, Performed DEF Sh!Command, Sh!WANT_THEN
    <3> QED
      BY <3>1, <3>2
  <2>4. ScriptFits'
    BY <1>2, <2>1, <2>2 DEF ScriptFits, ThenScript, ElseScript, Sh!Broken, Sh!Condition
  <2>5. ~Sh!Skipped <=> script = <<>> \/ script[1] = Sh!Condition(~Sh!Among("else", script))
    <3>1. CASE script = <<>> /\ if_state = "neutral"
      BY <3>1 DEF Sh!Skipped, Sh!THEN_BLOCK, Sh!ELSE_BLOCK
    <3>2. CASE script = ThenScript(if_result) /\ if_state = "then_block"
      BY <1>2, <3>2, ScriptFacts DEF Sh!Skipped, Sh!THEN_BLOCK, Sh!ELSE_BLOCK, Sh!Condition
    <3>3. CASE script = ElseScript(if_result) /\ if_state = "else_block"
      BY <1>2, <3>3, ScriptFacts DEF Sh!Skipped, Sh!THEN_BLOCK, Sh!ELSE_BLOCK, Sh!Condition
    <3> QED
      BY <1>2, <1>5, <2>1, <3>1, <3>2, <3>3, ScriptFacts DEF ScriptFits
  <2> QED
    BY <1>3, <2>1, <2>3, <2>4, <2>5 DEF BranchInv, RanWhereItStands, Sh!Among, Sh!Condition
<1> QED
  BY <1>4, <1>5

LEMMA IfKeeps ==
  ASSUME BranchInv, NEW c \in Sh!Commands,
         Sh!IfCommand(c) \/ Sh!IfIfCommand(c) \/ Sh!IfOther \/ Sh!IfUnexpected
  PROVE  BranchInv'
<1>1. ~last.crashed /\ ScriptFits /\ if_result \in BOOLEAN
  BY DEF BranchInv, Sh!IfCommand, Sh!IfIfCommand, Sh!IfOther, Sh!IfUnexpected, Sh!Calm
<1>2. CASE script' = Sh!Broken
  <2>1. /\ if_result' \in BOOLEAN
        /\ if_state' \in {"neutral", "want_then", "then_block", "else_block"}
    BY <1>1 DEF Sh!IfCommand, Sh!IfIfCommand, Sh!IfOther, Sh!IfUnexpected, Sh!syn_err,
                Sh!NEUTRAL, Sh!WANT_THEN
  <2> QED
    BY <1>1, <1>2, <2>1, ScriptFacts DEF BranchInv, ScriptFits, RanWhereItStands, Sh!Broken
<1>3. CASE script' # Sh!Broken
  <2>1. PICK ok \in BOOLEAN : /\ if_result' = ok /\ if_state' = "want_then"
                              /\ script' = <<Sh!Condition(ok)>>
    BY <1>3 DEF Sh!IfCommand, Sh!IfIfCommand, Sh!IfOther, Sh!IfUnexpected, Sh!WANT_THEN
  <2> QED
    BY <2>1, ScriptFacts DEF BranchInv, ScriptFits, RanWhereItStands, Sh!Condition
<1> QED
  BY <1>2, <1>3

LEMMA BranchInvInit ==
  ASSUME Sh!Init
  PROVE  BranchInv
<1>1. if_state = "neutral" /\ if_result = TRUE /\ script = <<>> /\ ~last.command
  BY DEF Sh!Init, Sh!NEUTRAL, Sh!Other
<1> QED
  BY <1>1 DEF BranchInv, ScriptFits, RanWhereItStands

LEMMA BranchInvNext ==
  ASSUME BranchInv, [Sh!Next]_shellVars
  PROVE  BranchInv'
<1>1. CASE \E c \in Sh!Commands : Sh!IfCommand(c) \/ Sh!IfIfCommand(c) \/ Sh!Command(c)
  BY <1>1, IfKeeps, CommandKeeps
<1>2. CASE Sh!IfOther \/ Sh!IfUnexpected
  <2>1. \E c \in Sh!Commands : TRUE
    <3>1. [kind |-> "export", name |-> ab] \in Sh!Commands
      BY DEF Sh!Commands
    <3> QED
      BY <3>1
  <2> QED
    BY <1>2, <2>1, IfKeeps
<1>3. CASE \E line \in Sh!Controls : Sh!Control(line)
  BY <1>3, ControlKeeps
<1>4. CASE UNCHANGED shellVars
  BY <1>4 DEF shellVars, BranchInv, ScriptFits, RanWhereItStands, ThenScript, ElseScript,
              Sh!Broken, Sh!Condition, Sh!Among
<1> QED
  BY <1>1, <1>2, <1>3, <1>4 DEF Sh!Next

-----------------------------------------------------------------------------
(* Shell: the table of variables.                                          *)

Entries == [name : {a, ab, b}, value : Values \cup {Empty, Inherited}, global : BOOLEAN]

(* An entry says of its name what was promised.                            *)
TableOK ==
  /\ tab \in Seq(Entries)
  /\ {tab[i].name : i \in 1..Len(tab)} = DOMAIN promised
  /\ Len(tab) <= MAXVARS
  /\ \A i, j \in 1..Len(tab) : tab[i].name = tab[j].name => i = j
  /\ \A i \in 1..Len(tab) : /\ tab[i].value = promised[tab[i].name].value
                            /\ tab[i].global = promised[tab[i].name].global

TableInv == Sh!PrefixFree => TableOK

(* find_item() finds the entry of a name that is no prefix of another.     *)
LEMMA FindItem ==
  ASSUME TableOK, NEW name, \A m \in DOMAIN promised : <<name, m>> \notin {<<a, ab>>}
  PROVE  \/ Sh!find_item(name) = 0 /\ name \notin DOMAIN promised
         \/ /\ Sh!find_item(name) \in 1..Len(tab) /\ Sh!find_item(name) # 0
            /\ tab[Sh!find_item(name)].name = name
<1> DEFINE found == {i \in 1..Len(tab) : Sh!Matches(i, name)}
<1>1. Sh!find_item(name) =
        IF found = {} THEN 0 ELSE CHOOSE i \in found : \A j \in found : i <= j
  BY DEF Sh!find_item
<1>2. \A i \in 1..Len(tab) : tab[i].name \in DOMAIN promised
  BY DEF TableOK
<1>3. \A i \in 1..Len(tab) : Sh!Matches(i, name) <=> tab[i].name = name
  BY <1>2 DEF Sh!Matches
<1>4. CASE found = {}
  <2>1. \A i \in 1..Len(tab) : tab[i].name # name
    BY <1>3, <1>4
  <2>2. name \notin DOMAIN promised
    BY <2>1 DEF TableOK
  <2> QED
    BY <1>1, <1>4, <2>2
<1>5. ASSUME found # {}
      PROVE  /\ Sh!find_item(name) \in 1..Len(tab) /\ Sh!find_item(name) # 0
             /\ tab[Sh!find_item(name)].name = name
  <2>1. PICK k \in found : TRUE
    BY <1>5
  <2>2. k \in 1..Len(tab) /\ tab[k].name = name
    BY <1>3, <2>1
  <2>3. \A j \in found : j = k
    BY <1>3, <2>2 DEF TableOK
  <2>4. k \in Nat
    BY <2>2
  <2>5. k \in found /\ \A j \in found : k <= j
    BY <2>1, <2>3, <2>4
  <2> HIDE DEF found
  <2>6. Sh!find_item(name) \in found
    BY <1>1, <1>5, <2>5
  <2>7. Sh!find_item(name) = k
    BY <2>3, <2>6
  <2> QED
    BY <2>2, <2>4, <2>7
<1> QED
  BY <1>4, <1>5

(* An entry is overwritten, and a new one appended.                        *)
LEMMA TableOverwrite ==
  ASSUME TableOK, NEW i \in 1..Len(tab), NEW r \in Entries, r.name = tab[i].name,
         tab' = [tab EXCEPT ![i] = r],
         promised' = [n \in DOMAIN promised \cup {r.name} |->
                        IF n = r.name THEN [value |-> r.value, global |-> r.global]
                        ELSE promised[n]]
  PROVE  TableOK'
<1>1. /\ tab' \in Seq(Entries) /\ Len(tab') = Len(tab)
      /\ tab'[i] = r /\ \A j \in 1..Len(tab) : j # i => tab'[j] = tab[j]
  BY DEF TableOK
<1>2. \A j \in 1..Len(tab) : tab'[j].name = tab[j].name
  BY <1>1
<1>3. DOMAIN promised' = DOMAIN promised
  <2>1. r.name \in DOMAIN promised
    BY DEF TableOK
  <2>2. DOMAIN promised' = DOMAIN promised \cup {r.name}
    OBVIOUS
  <2> QED
    BY <2>1, <2>2
<1>4. {tab'[j].name : j \in 1..Len(tab')} = DOMAIN promised'
  <2>1. {tab'[j].name : j \in 1..Len(tab')} = {tab[j].name : j \in 1..Len(tab)}
    BY <1>1, <1>2
  <2> QED
    BY <1>3, <2>1 DEF TableOK
<1>5. \A j, k \in 1..Len(tab') : tab'[j].name = tab'[k].name => j = k
  BY <1>1, <1>2 DEF TableOK
<1>6. ASSUME NEW j \in 1..Len(tab')
      PROVE  /\ tab'[j].value = promised'[tab'[j].name].value
             /\ tab'[j].global = promised'[tab'[j].name].global
  <2>1. CASE j = i
    BY <1>1, <2>1
  <2>2. CASE j # i
    <3>1. tab'[j] = tab[j] /\ tab[j].name # r.name /\ tab[j].name \in DOMAIN promised
      BY <1>1, <1>6, <2>2 DEF TableOK
    <3> QED
      BY <1>1, <1>6, <3>1 DEF TableOK
  <2> QED
    BY <2>1, <2>2
<1> QED
  BY <1>1, <1>4, <1>5, <1>6 DEF TableOK

LEMMA TableAppend ==
  ASSUME TableOK, NEW r \in Entries, r.name \notin DOMAIN promised, Len(tab) < MAXVARS,
         tab' = Append(tab, r),
         promised' = [n \in DOMAIN promised \cup {r.name} |->
                        IF n = r.name THEN [value |-> r.value, global |-> r.global]
                        ELSE promised[n]]
  PROVE  TableOK'
<1>1. /\ tab' \in Seq(Entries) /\ Len(tab') = Len(tab) + 1 /\ Len(tab) \in Nat
      /\ tab'[Len(tab) + 1] = r /\ \A j \in 1..Len(tab) : tab'[j] = tab[j]
  BY DEF TableOK
<1>2. \A j \in 1..Len(tab) : tab[j].name \in DOMAIN promised /\ tab[j].name # r.name
  BY DEF TableOK
<1>3. \A j \in 1..Len(tab') : j = Len(tab) + 1 \/ j \in 1..Len(tab)
  BY <1>1
<1>4. {tab'[j].name : j \in 1..Len(tab')} = DOMAIN promised'
  <2>1. \A j \in 1..Len(tab') : tab'[j].name \in DOMAIN promised'
    BY <1>1, <1>2, <1>3
  <2>2. ASSUME NEW n \in DOMAIN promised'
        PROVE  \E j \in 1..Len(tab') : tab'[j].name = n
    <3>1. CASE n = r.name
      BY <1>1, <3>1
    <3>2. CASE n # r.name
      <4>1. PICK j \in 1..Len(tab) : tab[j].name = n
        BY <2>2, <3>2 DEF TableOK
      <4> QED
        BY <1>1, <4>1
    <3> QED
      BY <3>1, <3>2
  <2> QED
    BY <2>1, <2>2
<1>5. \A j, k \in 1..Len(tab') : tab'[j].name = tab'[k].name => j = k
  <2> SUFFICES ASSUME NEW j \in 1..Len(tab'), NEW k \in 1..Len(tab'),
                      tab'[j].name = tab'[k].name
               PROVE  j = k
    OBVIOUS
  <2>1. CASE j \in 1..Len(tab) /\ k \in 1..Len(tab)
    BY <1>1, <2>1 DEF TableOK
  <2>2. CASE j = Len(tab) + 1 \/ k = Len(tab) + 1
    BY <1>1, <1>2, <1>3, <2>2
  <2> QED
    BY <1>3, <2>1, <2>2
<1>6. ASSUME NEW j \in 1..Len(tab')
      PROVE  /\ tab'[j].value = promised'[tab'[j].name].value
             /\ tab'[j].global = promised'[tab'[j].name].global
  <2>1. CASE j = Len(tab) + 1
    BY <1>1, <2>1
  <2>2. CASE j \in 1..Len(tab)
    BY <1>1, <1>2, <2>2 DEF TableOK
  <2> QED
    BY <1>3, <2>1, <2>2
<1>7. Len(tab') <= MAXVARS
  BY <1>1, SmallProgramsAssumption DEF SmallProgramsAssumption
<1> QED
  BY <1>1, <1>4, <1>5, <1>6, <1>7 DEF TableOK

LEMMA AssignKeeps ==
  ASSUME TableOK, Sh!PrefixFree', NEW c \in Sh!Commands, NEW ok \in BOOLEAN,
         Sh!Assign(c, ok)
  PROVE  TableOK'
<1>1. /\ c.name \in {a, ab, b} /\ c.value \in Values
      /\ ok = Sh!HasRoom(c.name) /\ tab' = Sh!Stored(c.name, c.value)
      /\ IF ok THEN Sh!Promise(c.name, c.value, Sh!IsGlobal(c.name)) ELSE UNCHANGED promised
  BY DEF Sh!Assign, Sh!Commands
<1>2. CASE ~Sh!HasRoom(c.name)
  <2>1. UNCHANGED promised /\ tab' = tab
    BY <1>1, <1>2 DEF Sh!HasRoom, Sh!Stored
  <2> QED
    BY <2>1 DEF TableOK
<1>3. CASE Sh!HasRoom(c.name)
  <2>1. Sh!Promise(c.name, c.value, Sh!IsGlobal(c.name))
    BY <1>1, <1>3
  <2>2. \A m \in DOMAIN promised : <<c.name, m>> \notin {<<a, ab>>}
    BY <2>1 DEF Sh!PrefixFree, Sh!Promise
  <2>3. CASE Sh!find_item(c.name) = 0
    <3>1. c.name \notin DOMAIN promised
      BY <2>2, <2>3, FindItem
    <3>2. Sh!IsGlobal(c.name) = FALSE
      BY <3>1, Zenon DEF Sh!IsGlobal
    <3>3. PICK r \in Entries : r = [name |-> c.name, value |-> c.value, global |-> FALSE]
      BY <1>1 DEF Entries
    <3>4. tab' = Append(tab, r) /\ Len(tab) < MAXVARS
      BY <1>1, <1>3, <2>3, <3>3 DEF Sh!Stored, Sh!HasRoom
    <3>5. promised' = [n \in DOMAIN promised \cup {r.name} |->
                         IF n = r.name THEN [value |-> r.value, global |-> r.global]
                         ELSE promised[n]]
      BY <2>1, <3>2, <3>3 DEF Sh!Promise
    <3> QED
      BY <3>1, <3>3, <3>4, <3>5, TableAppend
  <2>4. CASE Sh!find_item(c.name) # 0
    <3>1. PICK i \in 1..Len(tab) : i = Sh!find_item(c.name) /\ tab[i].name = c.name
      BY <2>2, <2>4, FindItem
    <3>2. tab[i] \in Entries /\ c.name \in DOMAIN promised
          /\ tab[i].global = promised[c.name].global
      BY <3>1 DEF TableOK
    <3>3. PICK r \in Entries : /\ r = [tab[i] EXCEPT !.name = c.name, !.value = c.value]
                               /\ r.name = c.name /\ r.value = c.value
                               /\ r.global = tab[i].global
      <4> DEFINE new == [tab[i] EXCEPT !.name = c.name, !.value = c.value]
      <4>1. new.name = c.name /\ new.value = c.value /\ new.global = tab[i].global
        BY <3>2 DEF Entries
      <4>2. new \in Entries
        BY <1>1, <3>2 DEF Entries
      <4> HIDE DEF new
      <4>3. PICK r \in Entries : r = new
        BY <4>2
      <4> QED
        BY <4>1, <4>3 DEF new
    <3>4. Sh!IsGlobal(c.name) = r.global
      <4>1. r.global \in BOOLEAN /\ r.global = promised[c.name].global
        BY <3>2, <3>3 DEF Entries
      <4> QED
        BY <3>2, <4>1, Zenon DEF Sh!IsGlobal
    <3>5. tab' = [tab EXCEPT ![i] = r]
      <4>1. tab' = [tab EXCEPT ![i].name = c.name, ![i].value = c.value]
        BY <1>1, <2>4, <3>1 DEF Sh!Stored
      <4> QED
        BY <3>1, <3>3, <4>1 DEF TableOK
    <3>6. promised' = [n \in DOMAIN promised \cup {r.name} |->
                         IF n = r.name THEN [value |-> r.value, global |-> r.global]
                         ELSE promised[n]]
      BY <2>1, <3>3, <3>4 DEF Sh!Promise
    <3> QED
      BY <3>1, <3>3, <3>5, <3>6, TableOverwrite
  <2> QED
    BY <2>3, <2>4
<1> QED
  BY <1>2, <1>3

LEMMA ExportKeeps ==
  ASSUME TableOK, Sh!PrefixFree', NEW c \in Sh!Commands, NEW ok \in BOOLEAN,
         Sh!Export(c, ok)
  PROVE  TableOK'
<1>1. c.name \in {a, ab, b}
  BY DEF Sh!Export, Sh!Commands
<1>2. CASE Sh!find_item(c.name) # 0
  <2> DEFINE k == Sh!find_item(c.name)
  <2>1. /\ tab' = [tab EXCEPT ![k].global = TRUE]
        /\ Sh!Promise(c.name, IF c.name \in DOMAIN promised
                                THEN promised[c.name].value ELSE Unset, TRUE)
    BY <1>2 DEF Sh!Export, Sh!HasRoom
  <2>2. \A m \in DOMAIN promised : <<c.name, m>> \notin {<<a, ab>>}
    BY <2>1 DEF Sh!PrefixFree, Sh!Promise
  <2>3. PICK i \in 1..Len(tab) : i = k /\ tab[i].name = c.name
    BY <1>2, <2>2, FindItem
  <2>4. tab[i] \in Entries /\ c.name \in DOMAIN promised
        /\ tab[i].value = promised[c.name].value
    BY <2>3 DEF TableOK
  <2>5. PICK r \in Entries : /\ r = [tab[i] EXCEPT !.global = TRUE]
                             /\ r.name = c.name /\ r.value = tab[i].value
                             /\ r.global = TRUE
    <3> DEFINE new == [tab[i] EXCEPT !.global = TRUE]
    <3>1. new.name = c.name /\ new.value = tab[i].value /\ new.global = TRUE
      BY <2>3, <2>4 DEF Entries
    <3>2. new \in Entries
      BY <2>4 DEF Entries
    <3> HIDE DEF new
    <3>3. PICK r \in Entries : r = new
      BY <3>2
    <3> QED
      BY <3>1, <3>3 DEF new
  <2>6. tab' = [tab EXCEPT ![i] = r]
    BY <2>1, <2>3, <2>5 DEF TableOK
  <2>7. promised' = [n \in DOMAIN promised \cup {r.name} |->
                       IF n = r.name THEN [value |-> r.value, global |-> r.global]
                       ELSE promised[n]]
    BY <2>1, <2>4, <2>5 DEF Sh!Promise
  <2> QED
    BY <2>3, <2>5, <2>6, <2>7, TableOverwrite
<1>3. CASE Sh!find_item(c.name) = 0 /\ Sh!HasRoom(c.name)
  <2>1. tab' = Sh!Stored(c.name, Empty) /\ Sh!Promise(c.name, Empty, FALSE)
    BY <1>3 DEF Sh!Export
  <2>2. \A m \in DOMAIN promised : <<c.name, m>> \notin {<<a, ab>>}
    BY <2>1 DEF Sh!PrefixFree, Sh!Promise
  <2>3. c.name \notin DOMAIN promised
    BY <1>3, <2>2, FindItem
  <2>4. PICK r \in Entries : r = [name |-> c.name, value |-> Empty, global |-> FALSE]
    BY <1>1 DEF Entries
  <2>5. tab' = Append(tab, r) /\ Len(tab) < MAXVARS
    BY <1>3, <2>1, <2>4 DEF Sh!Stored, Sh!HasRoom
  <2>6. promised' = [n \in DOMAIN promised \cup {r.name} |->
                       IF n = r.name THEN [value |-> r.value, global |-> r.global]
                       ELSE promised[n]]
    BY <2>1, <2>4 DEF Sh!Promise
  <2> QED
    BY <2>3, <2>4, <2>5, <2>6, TableAppend
<1>4. CASE ~Sh!HasRoom(c.name)
  <2>1. UNCHANGED <<tab, promised>>
    BY <1>4 DEF Sh!Export, Sh!HasRoom
  <2> QED
    BY <2>1 DEF TableOK
<1> QED
  BY <1>2, <1>3, <1>4

LEMMA TableInvNext ==
  ASSUME TableInv, [Sh!Next]_shellVars
  PROVE  TableInv'
<1> SUFFICES ASSUME Sh!PrefixFree'
             PROVE  TableOK'
  BY DEF TableInv
<1>1. CASE \E c \in Sh!Commands, ok \in BOOLEAN : Sh!Perform(c, ok)
  <2>1. PICK c \in Sh!Commands, ok \in BOOLEAN : Sh!Perform(c, ok)
    BY <1>1
  <2>2. Sh!PrefixFree
    <3>1. DOMAIN promised \subseteq DOMAIN promised'
      BY <2>1 DEF Sh!Perform, Sh!Run, Sh!Assign, Sh!Export, Sh!Promise
    <3> QED
      BY <3>1 DEF Sh!PrefixFree
  <2>3. TableOK
    BY <2>2 DEF TableInv
  <2>4. CASE Sh!Run(c, ok)
    BY <2>3, <2>4 DEF Sh!Run, TableOK
  <2> QED
    BY <2>1, <2>3, <2>4, AssignKeeps, ExportKeeps DEF Sh!Perform
<1>2. CASE UNCHANGED <<tab, promised>>
  BY <1>2 DEF TableInv, TableOK, Sh!PrefixFree
<1> QED
  BY <1>1, <1>2 DEF Sh!Next, Sh!IfCommand, Sh!IfIfCommand, Sh!Command, Sh!IfOther,
                    Sh!IfUnexpected, Sh!Control, Sh!Nothing, shellVars

LEMMA TableInvInit ==
  ASSUME Sh!Init
  PROVE  TableInv
<1> DEFINE entry == [name |-> ab, value |-> Inherited, global |-> TRUE]
<1>1. Len(<<ab>>) = 1 /\ <<ab>>[1] = ab /\ 1..1 = {1}
  OBVIOUS
<1>2. tab = [i \in {1} |-> entry]
  BY <1>1 DEF Sh!Init
<1>3. tab \in Seq(Entries) /\ Len(tab) = 1 /\ tab[1] = entry
  <2>1. entry \in Entries
    BY DEF Entries
  <2>2. tab \in [1..1 -> Entries] /\ tab[1] = entry
    BY <1>1, <1>2, <2>1
  <2>3. tab \in Seq(Entries)
    BY <2>2, SeqDef, 1 \in Nat
  <2>4. Len(tab) = 1
    BY <1>1, <1>2, <2>3
  <2> QED
    BY <2>2, <2>3, <2>4
<1>4. {<<ab>>[i] : i \in 1..Len(<<ab>>)} = {ab}
  BY <1>1
<1>5. promised = [n \in {ab} |-> [value |-> Inherited, global |-> TRUE]]
  BY <1>4 DEF Sh!Init
<1>6. /\ DOMAIN promised = {ab}
      /\ promised[ab].value = Inherited /\ promised[ab].global = TRUE
  BY <1>5
<1>7. {tab[i].name : i \in 1..Len(tab)} = {ab}
  BY <1>1, <1>3
<1> HIDE DEF entry
<1>8. \A i \in 1..Len(tab) : tab[i] = entry /\ i = 1
  BY <1>1, <1>3
<1>9. entry.name = ab /\ entry.value = Inherited /\ entry.global = TRUE
  BY DEF entry
<1>10. Len(tab) <= MAXVARS
  <2>1. MAXVARS \in Nat /\ MAXVARS # 0
    BY SmallProgramsAssumption DEF SmallProgramsAssumption
  <2> QED
    BY <1>3, <2>1
<1>11. \A i, j \in 1..Len(tab) : tab[i].name = tab[j].name => i = j
  BY <1>8
<1>12. \A i \in 1..Len(tab) : /\ tab[i].value = promised[tab[i].name].value
                              /\ tab[i].global = promised[tab[i].name].global
  BY <1>6, <1>8, <1>9
<1> QED
  BY <1>3, <1>6, <1>7, <1>10, <1>11, <1>12 DEF TableInv, TableOK

ShellInv == BranchInv /\ TableInv

(* The invariant of the shell, for any size of the table and any values:   *)
(* src/MySh/controlflow.c, varlib.c and bulitin.c.                         *)
THEOREM ShellInvariant == AllSpec => []ShellInv
<1>1. AllInit => ShellInv
  BY BranchInvInit, TableInvInit DEF AllInit, ShellInv
<1>2. ShellInv /\ [AllNext]_allVars => ShellInv'
  <2>1. [AllNext]_allVars => [Sh!Next]_shellVars
    BY DEF AllNext, allVars
  <2> QED
    BY <2>1, BranchInvNext, TableInvNext DEF ShellInv
<1> QED
  BY <1>1, <1>2, PTL DEF AllSpec

(* Commands between if and fi run in the branch they stand in, and after   *)
(* fi nothing is left of the last condition.                               *)
THEOREM RightBranchRunsHolds == AllSpec => []RightBranchRuns
<1>1. ASSUME ShellInv
      PROVE  RightBranchRuns
  <2> SUFFICES ASSUME script # Sh!Broken, ~last.crashed
               PROVE  /\ RanWhereItStands
                      /\ script = <<>> <=> if_state = "neutral"
    BY DEF RightBranchRuns, Sh!RightBranchRuns, RanWhereItStands, Sh!NEUTRAL, Sh!Condition,
           Sh!Among
  <2>1. ScriptFits /\ RanWhereItStands /\ if_result \in BOOLEAN
    BY <1>1 DEF ShellInv, BranchInv
  <2>2. script = <<>> <=> if_state = "neutral"
    BY <2>1, ScriptFacts DEF ScriptFits
  <2> QED
    BY <2>1, <2>2
<1> QED
  BY <1>1, ShellInvariant, PTL

(* As long as no name that was used is a prefix of another, the table      *)
(* holds of each name what was assigned and exported last, and a program   *)
(* gets the environment of what was exported: VLstore(), VLlookup(),       *)
(* VLexport() and VLtable2environ().                                       *)
THEOREM VariablesHoldHolds == AllSpec => []VariablesHold
<1>1. ASSUME ShellInv
      PROVE  VariablesHold
  <2> SUFFICES ASSUME Sh!PrefixFree
               PROVE  /\ {tab[i].name : i \in 1..Len(tab)} = DOMAIN promised
                      /\ Len(tab) <= MAXVARS
                      /\ \A i, j \in 1..Len(tab) : tab[i].name = tab[j].name => i = j
                      /\ \A n \in DOMAIN promised : Sh!VLlookup(n) = promised[n].value
                      /\ Sh!VLtable2environ = {<<n, promised[n].value>> :
                                                 n \in {m \in DOMAIN promised : promised[m].global}}
    BY DEF VariablesHold, Sh!VariablesHold
  <2>1. TableOK
    BY <1>1 DEF ShellInv, TableInv
  <2>2. ASSUME NEW n \in DOMAIN promised
        PROVE  Sh!VLlookup(n) = promised[n].value
    <3>1. \A m \in DOMAIN promised : <<n, m>> \notin {<<a, ab>>}
      BY DEF Sh!PrefixFree
    <3>2. PICK i \in 1..Len(tab) : i = Sh!find_item(n) /\ i # 0 /\ tab[i].name = n
      BY <2>1, <2>2, <3>1, FindItem
    <3> QED
      BY <2>1, <3>2 DEF Sh!VLlookup, TableOK
  <2>3. Sh!VLtable2environ = {<<n, promised[n].value>> :
                                n \in {m \in DOMAIN promised : promised[m].global}}
    <3>1. \A i \in 1..Len(tab) : /\ tab[i].name \in DOMAIN promised
                                 /\ tab[i].value = promised[tab[i].name].value
                                 /\ tab[i].global = promised[tab[i].name].global
      BY <2>1 DEF TableOK
    <3>2. \A n \in DOMAIN promised : \E i \in 1..Len(tab) : tab[i].name = n
      BY <2>1 DEF TableOK
    <3>3. \A x \in Sh!VLtable2environ :
            x \in {<<n, promised[n].value>> : n \in {m \in DOMAIN promised : promised[m].global}}
      BY <3>1 DEF Sh!VLtable2environ
    <3>4. ASSUME NEW n \in DOMAIN promised, promised[n].global
          PROVE  <<n, promised[n].value>> \in Sh!VLtable2environ
      <4>1. PICK i \in 1..Len(tab) : tab[i].name = n
        BY <3>2, <3>4
      <4>2. tab[i].global /\ tab[i].value = promised[n].value
        BY <3>1, <3>4, <4>1
      <4> QED
        BY <4>1, <4>2 DEF Sh!VLtable2environ
    <3> QED
      BY <3>3, <3>4
  <2> QED
    BY <2>1, <2>2, <2>3 DEF TableOK
<1> QED
  BY <1>1, ShellInvariant, PTL

-----------------------------------------------------------------------------
(* CgiConn.                                                                *)

Tokens == Letters \cup {"cr", "lf"}
LineAt(i) == text[i - 1] = "cr" /\ text[i] = "lf"
NotRun == [name |-> Cgi!NoName, failed |-> FALSE]

Asked(t) ==
  IF Cgi!HasLine(t) /\ Cgi!NameIn(t) \in {<<"a">>, <<"a", "a">>} THEN Cgi!NameIn(t)
  ELSE Cgi!NoName

(* The buffer holds what was taken so far, and no whole line while the     *)
(* connection is open.                                                     *)
CgiInv ==
  /\ text \in Seq(Tokens)
  /\ arrived \in 0..Len(text) /\ taken \in 0..arrived /\ taken < BufferSize
  /\ peer \in {"open", "closed", "reset"}
  /\ cgi \in {"idle", "event", "recv", "closed"}
  /\ m_buf = SubSeq(text, 1, taken)
  /\ cgi # "closed" => (\A i \in 2..taken : ~LineAt(i)) /\ ran = NotRun
  /\ cgi = "closed" /\ peer # "reset" /\ ~ran.failed =>
       ran.name = Asked(SubSeq(text, 1, arrived))

(* The beginning of a text.                                                *)
LEMMA Beginning ==
  ASSUME NEW S, NEW s \in Seq(S), NEW k \in 0..Len(s)
  PROVE  /\ SubSeq(s, 1, k) \in Seq(S) /\ Len(SubSeq(s, 1, k)) = k
         /\ \A i \in 1..k : SubSeq(s, 1, k)[i] = s[i]
<1>1. \A i \in 1..k : s[i] \in S
  OBVIOUS
<1> QED
  BY <1>1, SubSeqProperties

LEMMA BeginningGrows ==
  ASSUME NEW S, NEW s \in Seq(S), NEW k \in 0..Len(s), NEW n \in 0..(Len(s) - k)
  PROVE  SubSeq(s, 1, k) \o SubSeq(s, k + 1, k + n) = SubSeq(s, 1, k + n)
<1>1. 1 \in 1..(Len(s) + 1) /\ k \in (1 - 1)..Len(s) /\ k + n \in k..Len(s)
  OBVIOUS
<1> QED
  BY <1>1, ConcatAdjacentSubSeq

LEMMA BeginningOfBeginning ==
  ASSUME NEW S, NEW s \in Seq(S), NEW k \in 0..Len(s), NEW n \in 0..k
  PROVE  SubSeq(SubSeq(s, 1, k), 1, n) = SubSeq(s, 1, n)
<1> DEFINE x == SubSeq(s, 1, k)
<1>1. x \in Seq(S) /\ Len(x) = k /\ \A i \in 1..k : x[i] = s[i]
  BY Beginning
<1> HIDE DEF x
<1>2. /\ SubSeq(x, 1, n) \in Seq(S) /\ Len(SubSeq(x, 1, n)) = n
      /\ \A i \in 1..n : SubSeq(x, 1, n)[i] = x[i]
  BY <1>1, Beginning
<1>3. /\ SubSeq(s, 1, n) \in Seq(S) /\ Len(SubSeq(s, 1, n)) = n
      /\ \A i \in 1..n : SubSeq(s, 1, n)[i] = s[i]
  BY Beginning
<1>4. SubSeq(x, 1, n) = SubSeq(s, 1, n)
  BY <1>1, <1>2, <1>3, SeqEqual
<1> QED
  BY <1>4 DEF x

(* What a beginning of the text asks for: nothing without a whole line,    *)
(* and what stands before the first end of a line otherwise.               *)
LEMMA NothingAsked ==
  ASSUME text \in Seq(Tokens), NEW k \in 0..Len(text),
         \A i \in 2..k : i < BufferSize => ~LineAt(i)
  PROVE  ~Cgi!HasLine(SubSeq(text, 1, k)) /\ Asked(SubSeq(text, 1, k)) = Cgi!NoName
<1>1. Len(SubSeq(text, 1, k)) = k /\ \A i \in 1..k : SubSeq(text, 1, k)[i] = text[i]
  BY Beginning
<1>2. \A i \in 2..k : i - 1 \in 1..k /\ i \in 1..k
  OBVIOUS
<1>3. ~Cgi!HasLine(SubSeq(text, 1, k))
  BY <1>1, <1>2 DEF Cgi!HasLine, LineAt, Cgi!CR, Cgi!LF
<1> QED
  BY <1>3 DEF Asked

LEMMA FirstLineAsked ==
  ASSUME text \in Seq(Tokens), NEW k \in 0..Len(text), NEW n \in 2..k, n < BufferSize,
         LineAt(n), \A j \in 2..(n - 1) : ~LineAt(j)
  PROVE  Asked(SubSeq(text, 1, k)) =
           IF SubSeq(text, 1, n - 2) \in {<<"a">>, <<"a", "a">>} THEN SubSeq(text, 1, n - 2)
           ELSE Cgi!NoName
<1> DEFINE t == SubSeq(text, 1, k)
<1>1. t \in Seq(Tokens) /\ Len(t) = k /\ \A i \in 1..k : t[i] = text[i]
  BY Beginning
<1>2. \A i \in 2..k : i - 1 \in 1..k /\ i \in 1..k
  OBVIOUS
<1>3. SubSeq(t, 1, n - 2) = SubSeq(text, 1, n - 2)
  <2>1. n - 2 \in 0..k
    OBVIOUS
  <2> QED
    BY <2>1, BeginningOfBeginning
<1> HIDE DEF t
<1>4. \A i \in 2..Len(t) : (t[i - 1] = Cgi!CR /\ t[i] = Cgi!LF) <=> LineAt(i)
  BY <1>1, <1>2 DEF LineAt, Cgi!CR, Cgi!LF
<1>5. Cgi!HasLine(t)
  BY <1>1, <1>4 DEF Cgi!HasLine
<1>6. \A i \in 2..Len(t) : \A j \in 2..(i - 1) : j \in 2..Len(t)
  BY <1>1
<1>7. n = CHOOSE i \in 2..Len(t) : /\ t[i - 1] = Cgi!CR /\ t[i] = Cgi!LF
                                   /\ \A j \in 2..(i - 1) : ~(t[j - 1] = Cgi!CR /\ t[j] = Cgi!LF)
  <2>1. n \in 2..Len(t) /\ t[n - 1] = Cgi!CR /\ t[n] = Cgi!LF
    BY <1>1, <1>4
  <2>2. \A j \in 2..(n - 1) : ~(t[j - 1] = Cgi!CR /\ t[j] = Cgi!LF)
    BY <1>4, <1>6, <2>1
  <2>3. ASSUME NEW i \in 2..Len(t), t[i - 1] = Cgi!CR, t[i] = Cgi!LF,
               \A j \in 2..(i - 1) : ~(t[j - 1] = Cgi!CR /\ t[j] = Cgi!LF)
        PROVE  i = n
    <3>1. ~(i < n)
      BY <2>2, <2>3
    <3>2. ~(n < i)
      BY <2>1, <2>3
    <3> QED
      BY <2>1, <3>1, <3>2
  <2> QED
    BY <2>1, <2>2, <2>3
<1>8. Cgi!NameIn(t) = SubSeq(t, 1, n - 2)
  BY <1>7 DEF Cgi!NameIn
<1>9. Asked(t) = IF SubSeq(text, 1, n - 2) \in {<<"a">>, <<"a", "a">>}
                   THEN SubSeq(text, 1, n - 2) ELSE Cgi!NoName
  BY <1>3, <1>5, <1>8 DEF Asked
<1> QED
  BY <1>9 DEF t

LEMMA CgiOutsideKeeps ==
  ASSUME CgiInv, Cgi!Arrive \/ Cgi!Leave \/ Cgi!Process
  PROVE  CgiInv'
<1>1. /\ UNCHANGED <<text, taken, m_buf, ran>>
      /\ cgi # "closed" /\ cgi' \in {"idle", "event", "recv"}
      /\ peer' \in {"open", "closed", "reset"}
  BY DEF Cgi!Arrive, Cgi!Leave, Cgi!Process, Cgi!Event, CgiInv
<1>2. arrived' \in 0..Len(text) /\ taken \in 0..arrived'
  BY DEF Cgi!Arrive, Cgi!Leave, Cgi!Process, CgiInv
<1> QED
  BY <1>1, <1>2 DEF CgiInv, LineAt

LEMMA RecvNothingKeeps ==
  ASSUME CgiInv, Cgi!RecvNothing
  PROVE  CgiInv'
<1>1. UNCHANGED <<text, arrived, taken, peer, m_buf, ran>> /\ cgi = "recv"
  BY DEF Cgi!RecvNothing
<1>2. /\ text \in Seq(Tokens) /\ taken \in 0..arrived /\ arrived \in 0..Len(text)
      /\ \A i \in 2..taken : ~LineAt(i)
      /\ ran = NotRun
      /\ BufferSize \in Nat /\ Len(m_buf) = taken
  <2>1. taken \in 0..Len(text)
    BY DEF CgiInv
  <2> QED
    BY <1>1, <2>1, Beginning, SmallProgramsAssumption DEF CgiInv, SmallProgramsAssumption
<1>3. CASE cgi' = "idle"
  BY <1>1, <1>3 DEF CgiInv, LineAt
<1>4. CASE cgi' = "closed"
  <2>1. taken = BufferSize - 1 \/ taken = arrived \/ peer = "reset"
    BY <1>2, <1>4 DEF Cgi!RecvNothing, Cgi!Room, Cgi!Waiting
  <2>2. peer # "reset" => Asked(SubSeq(text, 1, arrived)) = Cgi!NoName
    <3>1. ASSUME peer # "reset"
          PROVE  \A i \in 2..arrived : i < BufferSize => ~LineAt(i)
      BY <1>2, <2>1, <3>1
    <3> QED
      BY <1>2, <3>1, NothingAsked
  <2>3. ran.name = Cgi!NoName
    BY <1>2 DEF NotRun
  <2> QED
    BY <1>1, <1>4, <2>2, <2>3 DEF CgiInv, Asked, Cgi!HasLine, Cgi!NameIn
<1> QED
  BY <1>3, <1>4 DEF Cgi!RecvNothing

LEMMA RecvKeeps ==
  ASSUME CgiInv, Cgi!Recv
  PROVE  CgiInv'
<1> DEFINE n == Cgi!Least(Cgi!Room, Cgi!Waiting)
           buf == m_buf \o SubSeq(text, taken + 1, taken + n)
           ends == Cgi!LineEnds(buf, Len(m_buf))
<1>1. /\ UNCHANGED <<text, arrived, peer>> /\ cgi = "recv"
      /\ m_buf' = buf /\ taken' = taken + n
      /\ \/ ends = {} /\ UNCHANGED <<cgi, ran>>
         \/ \E i \in ends : (\A j \in ends : i <= j) /\ Cgi!Run(SubSeq(buf, 1, i - 2))
      /\ Cgi!Room > 0 /\ Cgi!Waiting > 0
  BY DEF Cgi!Recv
<1>2. /\ text \in Seq(Tokens) /\ taken \in 0..arrived /\ arrived \in 0..Len(text)
      /\ \A i \in 2..taken : ~LineAt(i)
      /\ ran = NotRun
      /\ BufferSize \in Nat /\ Len(m_buf) = taken
      /\ m_buf = SubSeq(text, 1, taken)
      /\ peer \in {"open", "closed", "reset"}
  <2>1. taken \in 0..Len(text)
    BY DEF CgiInv
  <2> QED
    BY <1>1, <2>1, Beginning, SmallProgramsAssumption DEF CgiInv, SmallProgramsAssumption
<1>3. n \in 1..(arrived - taken) /\ taken + n < BufferSize
  BY <1>1, <1>2 DEF Cgi!Least, Cgi!Room, Cgi!Waiting
<1> HIDE DEF n
<1>4. taken + n \in 0..Len(text) /\ taken + n \in 0..arrived /\ taken \in 0..Len(text)
      /\ n \in 0..(Len(text) - taken)
  BY <1>2, <1>3
<1>5. buf = SubSeq(text, 1, taken + n)
  BY <1>2, <1>4, BeginningGrows
<1>6. Len(buf) = taken + n /\ \A i \in 1..(taken + n) : buf[i] = text[i]
  BY <1>2, <1>4, <1>5, Beginning
<1>7. ends = {i \in (taken + 1)..(taken + n) : i > 1 /\ LineAt(i)}
  <2>1. \A i \in (taken + 1)..(taken + n) :
          i > 1 => (buf[i - 1] = Cgi!CR /\ buf[i] = Cgi!LF <=> LineAt(i))
    <3> SUFFICES ASSUME NEW i \in (taken + 1)..(taken + n), i > 1
                 PROVE  buf[i - 1] = Cgi!CR /\ buf[i] = Cgi!LF <=> LineAt(i)
      OBVIOUS
    <3>1. i - 1 \in 1..(taken + n) /\ i \in 1..(taken + n)
      BY <1>2, <1>3
    <3> QED
      BY <1>6, <3>1 DEF LineAt, Cgi!CR, Cgi!LF
  <2> QED
    BY <1>2, <1>6, <2>1 DEF Cgi!LineEnds
<1>8. m_buf' = SubSeq(text, 1, taken')
  BY <1>1, <1>5
<1> HIDE DEF buf
<1>9. CASE ends = {} /\ UNCHANGED <<cgi, ran>>
  <2>1. \A i \in 2..(taken + n) : ~LineAt(i)
    <3> SUFFICES ASSUME NEW i \in 2..(taken + n), LineAt(i)
                 PROVE  FALSE
      OBVIOUS
    <3>1. i \in 2..taken \/ i \in (taken + 1)..(taken + n)
      BY <1>2, <1>3
    <3>2. i > 1
      OBVIOUS
    <3> QED
      BY <1>2, <1>7, <1>9, <3>1, <3>2
  <2> QED
    BY <1>1, <1>2, <1>3, <1>4, <1>8, <1>9, <2>1 DEF CgiInv, LineAt
<1>10. CASE \E i \in ends : (\A j \in ends : i <= j) /\ Cgi!Run(SubSeq(buf, 1, i - 2))
  <2>1. PICK i \in ends : (\A j \in ends : i <= j) /\ Cgi!Run(SubSeq(buf, 1, i - 2))
    BY <1>10
  <2>2. i \in (taken + 1)..(taken + n) /\ i > 1 /\ LineAt(i)
    BY <1>7, <2>1
  <2>3. \A j \in 2..(i - 1) : ~LineAt(j)
    <3> SUFFICES ASSUME NEW j \in 2..(i - 1), LineAt(j)
                 PROVE  FALSE
      OBVIOUS
    <3>1. j \in 2..taken \/ j \in (taken + 1)..(taken + n)
      BY <1>2, <1>3, <2>2
    <3>2. j > 1 /\ ~(i <= j)
      BY <1>2, <1>3, <2>2
    <3> QED
      BY <1>2, <1>7, <2>1, <3>1, <3>2
  <2>4. i \in 2..arrived /\ i < BufferSize /\ i - 2 \in 0..(taken + n)
    BY <1>2, <1>3, <2>2
  <2>5. SubSeq(buf, 1, i - 2) = SubSeq(text, 1, i - 2)
    BY <1>2, <1>4, <1>5, <2>4, BeginningOfBeginning
  <2>6. Asked(SubSeq(text, 1, arrived)) =
          IF SubSeq(text, 1, i - 2) \in {<<"a">>, <<"a", "a">>} THEN SubSeq(text, 1, i - 2)
          ELSE Cgi!NoName
    BY <1>2, <2>2, <2>3, <2>4, FirstLineAsked
  <2>7. /\ cgi' = "closed"
        /\ ~ran'.failed => ran'.name = Asked(SubSeq(text, 1, arrived))
    <3>1. Cgi!Run(SubSeq(text, 1, i - 2))
      BY <2>1, <2>5
    <3>2. CASE SubSeq(text, 1, i - 2) \notin {<<"a">>, <<"a", "a">>} /\ ran' = ran
      BY <1>2, <2>6, <3>1, <3>2 DEF Cgi!Run, NotRun
    <3>3. CASE /\ SubSeq(text, 1, i - 2) \in {<<"a">>, <<"a", "a">>}
               /\ \E failed \in BOOLEAN :
                    ran' = [name |-> IF failed THEN Cgi!NoName ELSE SubSeq(text, 1, i - 2),
                            failed |-> failed]
      <4>1. PICK failed \in BOOLEAN :
              ran' = [name |-> IF failed THEN Cgi!NoName ELSE SubSeq(text, 1, i - 2),
                      failed |-> failed]
        BY <3>3
      <4>2. cgi' = "closed"
        BY <3>1 DEF Cgi!Run
      <4>3. CASE failed
        <5>1. ran'.failed
          BY <4>1, <4>3
        <5> QED
          BY <4>2, <5>1
      <4>4. CASE ~failed
        BY <2>6, <3>3, <4>1, <4>2, <4>4
      <4> QED
        BY <4>3, <4>4
    <3> QED
      BY <3>1, <3>2, <3>3 DEF Cgi!Run
  <2>8. taken' \in 0..arrived /\ taken' < BufferSize
    BY <1>1, <1>3, <1>4
  <2>9. /\ text' \in Seq(Tokens) /\ arrived' \in 0..Len(text') /\ taken' \in 0..arrived'
        /\ peer' \in {"open", "closed", "reset"} /\ m_buf' = SubSeq(text', 1, taken')
        /\ ~ran'.failed => ran'.name = Asked(SubSeq(text, 1, arrived))'
    BY <1>1, <1>2, <1>8, <2>7, <2>8 DEF Asked, Cgi!HasLine, Cgi!NameIn
  <2>10. cgi' # "closed" => (\A j \in 2..taken' : ~LineAt(j)') /\ ran' = NotRun
    BY <2>7
  <2>11. cgi' \in {"idle", "event", "recv", "closed"}
    BY <2>7
  <2> QED
    BY <2>8, <2>9, <2>10, <2>11 DEF CgiInv
<1> QED
  BY <1>1, <1>9, <1>10

LEMMA CgiInvInit ==
  ASSUME Cgi!Init
  PROVE  CgiInv
<1>1. /\ arrived = 0 /\ taken = 0 /\ peer = "open" /\ m_buf = <<>>
      /\ cgi = "idle" /\ ran = NotRun
  BY DEF Cgi!Init, NotRun
<1>2. PICK n \in 0..MaxText : text \in [1..n -> Tokens]
  BY DEF Cgi!Init, Cgi!Texts, Tokens, Cgi!CR, Cgi!LF
<1>3. text \in Seq(Tokens)
  BY <1>2, SeqDef
<1>4. SubSeq(text, 1, 0) = <<>>
  BY SubSeqEmpty
<1>5. BufferSize \in Nat /\ BufferSize # 0
  BY SmallProgramsAssumption DEF SmallProgramsAssumption
<1> QED
  BY <1>1, <1>3, <1>4, <1>5 DEF CgiInv

LEMMA CgiInvNext ==
  ASSUME CgiInv, [Cgi!Next]_cgiVars
  PROVE  CgiInv'
<1>1. CASE UNCHANGED cgiVars
  BY <1>1 DEF cgiVars, CgiInv, LineAt, Asked, Cgi!HasLine, Cgi!NameIn
<1> QED
  BY <1>1, CgiOutsideKeeps, RecvNothingKeeps, RecvKeeps DEF Cgi!Next, Cgi!Work

(* The invariant of a connection of the CGI server, for any size of the    *)
(* buffer, any letters and texts of any length: src/CGIserv/CGIserv.cpp,   *)
(* cgi_conn::process().                                                    *)
THEOREM CgiInvariant == AllSpec => [](program = "cgi" => CgiInv)
<1>1. AllInit => (program = "cgi" => CgiInv)
  BY CgiInvInit DEF AllInit
<1>2. (program = "cgi" => CgiInv) /\ [AllNext]_allVars => (program = "cgi" => CgiInv)'
  <2>1. [AllNext]_allVars => [Cgi!Next]_cgiVars /\ program' = program
    BY DEF AllNext, allVars
  <2> QED
    BY <2>1, CgiInvNext
<1> QED
  BY <1>1, <1>2, PTL DEF AllSpec

(* However a request is cut into pieces, the program that its first line   *)
(* names is run and no other, and process() never goes back to waiting     *)
(* with a whole line in the buffer.                                        *)
THEOREM RunsWhatIsAskedHolds == AllSpec => []RunsWhatIsAsked
<1>1. ASSUME program = "cgi" => CgiInv
      PROVE  RunsWhatIsAsked
  <2> SUFFICES ASSUME CgiInv
               PROVE  /\ cgi = "closed" /\ peer # "reset" /\ ~ran.failed =>
                           ran.name = Asked(SubSeq(text, 1, arrived))
                      /\ cgi \in {"idle", "event"} => ~Cgi!HasLine(m_buf)
    BY <1>1 DEF RunsWhatIsAsked, Cgi!RunsWhatIsAsked, Asked
  <2>1. cgi \in {"idle", "event"} => ~Cgi!HasLine(SubSeq(text, 1, taken))
    <3>1. taken \in 0..Len(text) /\ text \in Seq(Tokens)
      BY DEF CgiInv
    <3> QED
      BY <3>1, NothingAsked DEF CgiInv
  <2> QED
    BY <2>1 DEF CgiInv
<1> QED
  BY <1>1, CgiInvariant, PTL

-----------------------------------------------------------------------------
(* Pong.                                                                   *)

TestY == <<"test", "y">>
TestX == <<"test", "x">>
ReloadY == <<"reload", "y">>
ReloadX == <<"reload", "x">>
Bouncing == <<"bounce">>
BallPlaces == {TestY, ReloadY, TestX, ReloadX, Bouncing}

NoKey == <<"key">>
AddX(n) == <<"add", n, "x">>
AddY(n) == <<"add", n, "y">>
KeyPlaces == {NoKey, <<"left">>, <<"right">>, AddX(1), AddX(-1), AddY(1), AddY(-1)}

(* The handlers that may be on the stack, the innermost last.              *)
OnlyBall == <<"ball_move">>
OnlyKey == <<"on_input">>
KeyInBall == <<"ball_move", "on_input">>
BallInKey == <<"on_input", "ball_move">>
Stacks == {<<>>, OnlyBall, OnlyKey, KeyInBall, BallInKey}
InBall == running \in {OnlyBall, KeyInBall, BallInKey}
InKey == running \in {OnlyKey, KeyInBall, BallInKey}

AxisStates == [pos : Int, dir : {1, -1}, ttm : Int, ttg : Int]
Y == ball["y"]
X == ball["x"]
BallAt == at["ball_move"]
KeyAt == at["on_input"]

PongGhostStates == [raced : SUBSET Game!Axes, leftover : BOOLEAN, mixed : BOOLEAN,
                    caught : BOOLEAN, lost : BOOLEAN, keys : Nat]

PongTypeInv ==
  /\ ball \in [Game!Axes -> AxisStates]
  /\ plate \in (-PlateDir)..(Width + PlateDir)
  /\ running \in Stacks
  /\ at \in [{"ball_move", "on_input"} -> BallPlaces \cup KeyPlaces]
  /\ BallAt \in BallPlaces /\ KeyAt \in KeyPlaces
  /\ moved \in BOOLEAN
  /\ pongGhosts \in PongGhostStates

(* A handler that does not run stands where it starts.                     *)
StackInv ==
  /\ ~InBall => BallAt = TestY
  /\ ~InKey => KeyAt = NoKey

(* The ball is in the field, and it does not fly out of it: an axis on     *)
(* which it has moved is looked at before it moves there again.            *)
FieldInv ==
  /\ Y.pos \in 0..Height /\ X.pos \in (-Before)..Width
  /\ ~pongGhosts.lost =>
       /\ BallAt \in {TestY, ReloadY} \/ ~moved =>
            (Y.dir = 1 => Y.pos < Height) /\ (Y.dir = -1 => Y.pos > 0)
       /\ BallAt # Bouncing \/ ~moved =>
            (X.dir = 1 => X.pos < Width) /\ (X.dir = -1 => X.pos > 0)

(* An axis has ticks to go but between Test and Reload.                    *)
TicksInv ==
  /\ "y" \in pongGhosts.raced \/ Y.ttg >= 1 \/ BallAt = ReloadY
  /\ "x" \in pongGhosts.raced \/ X.ttg >= 1 \/ BallAt = ReloadX

(* Unless a speed key and a tick interrupted each other the two axes move  *)
(* at the same ticks; and unless moved was left over a ball that was       *)
(* caught is looked at only after it has left the bottom row.              *)
LockstepInv ==
  /\ ~pongGhosts.mixed =>
       /\ \A n \in {1, -1} : KeyAt = AddY(n) => running = OnlyKey /\ X.ttm = Y.ttm + n
       /\ KeyAt \notin {AddY(1), AddY(-1)} => X.ttm = Y.ttm
       /\ BallAt = TestY => X.ttg = Y.ttg
       /\ BallAt = ReloadY => Y.ttg = 0 /\ X.ttg = 1 /\ Y.ttm > 0
       /\ BallAt = TestX =>
            \/ ~pongGhosts.caught /\ X.ttg = 1 /\ X.ttm > 0 /\ Y.ttg = Y.ttm
            \/ /\ ~pongGhosts.leftover => ~moved
               /\ \/ X.ttm > 0 /\ X.ttg = Y.ttg + 1 /\ X.ttg # 1
                  \/ X.ttm <= 0 /\ X.ttg = Y.ttg
       /\ BallAt = ReloadX => ~pongGhosts.caught /\ Y.ttg = Y.ttm
       /\ BallAt = Bouncing =>
            /\ X.ttg = Y.ttg
            /\ ~pongGhosts.leftover /\ moved => ~pongGhosts.caught
  /\ ~pongGhosts.leftover /\ InBall /\ BallAt \in {TestY, ReloadY} => ~moved
  /\ pongGhosts.lost /\ pongGhosts.caught => pongGhosts.leftover \/ pongGhosts.mixed

PongInv == PongTypeInv /\ StackInv /\ FieldInv /\ TicksInv /\ LockstepInv

LEMMA PlacesDiffer ==
  /\ TestY # TestX /\ TestY # ReloadY /\ TestY # ReloadX /\ TestY # Bouncing
  /\ TestX # ReloadY /\ TestX # ReloadX /\ TestX # Bouncing
  /\ ReloadY # ReloadX /\ ReloadY # Bouncing /\ ReloadX # Bouncing
BY DEF TestY, TestX, ReloadY, ReloadX, Bouncing

LEMMA KeyPlacesDiffer ==
  /\ \A n \in {1, -1} : /\ AddX(n) \in KeyPlaces /\ AddY(n) \in KeyPlaces
                        /\ AddX(n)[1] = "add" /\ AddY(n)[1] = "add" /\ AddX(n) # NoKey
                        /\ AddY(n) # NoKey
                        /\ \A m \in {1, -1} : AddX(n) # AddY(m) /\ (AddY(n) = AddY(m) => n = m)
                        /\ AddY(n) # <<"left">> /\ AddY(n) # <<"right">>
  /\ NoKey[1] # "add"
<1>1. ASSUME NEW n \in {1, -1}
      PROVE  /\ AddX(n) \in KeyPlaces /\ AddY(n) \in KeyPlaces
             /\ AddX(n)[1] = "add" /\ AddY(n)[1] = "add" /\ AddX(n) # NoKey
             /\ AddY(n) # NoKey
             /\ AddY(n) # <<"left">> /\ AddY(n) # <<"right">>
  <2>1. AddX(n) \in KeyPlaces /\ AddY(n) \in KeyPlaces
    BY DEF KeyPlaces
  <2>2. AddX(n)[1] = "add" /\ AddY(n)[1] = "add"
    BY DEF AddX, AddY
  <2>3. NoKey[1] = "key" /\ <<"left">>[1] = "left" /\ <<"right">>[1] = "right"
    BY DEF NoKey
  <2> QED
    BY <2>1, <2>2, <2>3
<1>2. ASSUME NEW n \in {1, -1}, NEW m \in {1, -1}
      PROVE  AddX(n) # AddY(m) /\ (AddY(n) = AddY(m) => n = m)
  <2>1. AddX(n)[3] = "x" /\ AddY(m)[3] = "y" /\ AddY(n)[2] = n /\ AddY(m)[2] = m
    BY DEF AddX, AddY
  <2> QED
    BY <2>1
<1> QED
  BY <1>1, <1>2 DEF NoKey

LEMMA StacksDiffer ==
  /\ OnlyBall # OnlyKey /\ OnlyBall # KeyInBall /\ OnlyBall # BallInKey
  /\ OnlyKey # KeyInBall /\ OnlyKey # BallInKey /\ KeyInBall # BallInKey
  /\ <<>> \notin {OnlyBall, OnlyKey, KeyInBall, BallInKey}
  /\ Len(<<>>) = 0 /\ Len(OnlyBall) = 1 /\ Len(OnlyKey) = 1
  /\ Len(KeyInBall) = 2 /\ Len(BallInKey) = 2
  /\ OnlyBall[1] = "ball_move" /\ OnlyKey[1] = "on_input"
  /\ KeyInBall[1] = "ball_move" /\ KeyInBall[2] = "on_input"
  /\ BallInKey[1] = "on_input" /\ BallInKey[2] = "ball_move"
BY DEF OnlyBall, OnlyKey, KeyInBall, BallInKey

(* Which handler runs, interrupts and returns.                             *)
LEMMA StackRuns ==
  ASSUME running \in Stacks, NEW handler \in {"ball_move", "on_input"}, NEW where,
         Game!Runs(handler, where)
  PROVE  /\ handler = "ball_move" => running \in {OnlyBall, BallInKey} /\ BallAt = where
         /\ handler = "on_input" => running \in {OnlyKey, KeyInBall} /\ KeyAt = where
         /\ ~pongGhosts.lost
BY StacksDiffer DEF Stacks, Game!Runs, BallAt, KeyAt

LEMMA StackInterrupted ==
  ASSUME running \in Stacks, NEW handler \in {"ball_move", "on_input"},
         Game!Interrupts(handler)
  PROVE  /\ handler = "ball_move" => \/ running = <<>> /\ running' = OnlyBall
                                     \/ running = OnlyKey /\ running' = BallInKey
         /\ handler = "on_input" => \/ running = <<>> /\ running' = OnlyKey
                                    \/ running = OnlyBall /\ running' = KeyInBall
         /\ ~pongGhosts.lost
<1>1. /\ \A i \in 1..Len(running) : running[i] # handler
      /\ ~pongGhosts.lost /\ running' = Append(running, handler)
  BY DEF Game!Interrupts
<1>2. /\ Append(OnlyKey, "ball_move") = BallInKey
      /\ Append(OnlyBall, "on_input") = KeyInBall
  BY AppendTuple DEF OnlyKey, OnlyBall, BallInKey, KeyInBall
<1>3. /\ Append(<<>>, "ball_move") = OnlyBall
      /\ Append(<<>>, "on_input") = OnlyKey
  BY DEF OnlyKey, OnlyBall
<1>4. /\ 1 \in 1..Len(OnlyBall) /\ 1 \in 1..Len(OnlyKey)
      /\ \A i \in {1, 2} : i \in 1..Len(KeyInBall) /\ i \in 1..Len(BallInKey)
  BY StacksDiffer
<1> QED
  BY <1>1, <1>2, <1>3, <1>4, StacksDiffer DEF Stacks

LEMMA StackReturns ==
  ASSUME running \in Stacks, running # <<>>, NEW handler, NEW first,
         Game!Returns(handler, first)
  PROVE  /\ running \in {OnlyBall, OnlyKey} => running' = <<>>
         /\ running = KeyInBall => running' = OnlyBall
         /\ running = BallInKey => running' = OnlyKey
<1>1. running' = SubSeq(running, 1, Len(running) - 1)
  BY DEF Game!Returns
<1>2. SubSeq(OnlyBall, 1, 0) = <<>> /\ SubSeq(OnlyKey, 1, 0) = <<>>
  BY SubSeqEmpty
<1>3. ASSUME NEW x, NEW y
      PROVE  SubSeq(<<x, y>>, 1, 1) = <<x>>
  <2> DEFINE S == {x, y}
  <2>1. <<x, y>> \in Seq(S) /\ <<x>> \in Seq(S) /\ Len(<<x, y>>) = 2 /\ 1 \in 0..2
    OBVIOUS
  <2>2. <<x, y>>[1] = x /\ <<x>>[1] = x /\ Len(<<x>>) = 1
    OBVIOUS
  <2> HIDE DEF S
  <2>3. /\ SubSeq(<<x, y>>, 1, 1) \in Seq(S) /\ Len(SubSeq(<<x, y>>, 1, 1)) = 1
        /\ \A i \in 1..1 : SubSeq(<<x, y>>, 1, 1)[i] = <<x, y>>[i]
    BY <2>1, Beginning
  <2>4. \A i \in 1..1 : SubSeq(<<x, y>>, 1, 1)[i] = <<x>>[i]
    BY <2>2, <2>3
  <2> QED
    BY <2>1, <2>2, <2>3, <2>4, SeqEqual
<1>4. SubSeq(KeyInBall, 1, 1) = OnlyBall /\ SubSeq(BallInKey, 1, 1) = OnlyKey
  BY <1>3 DEF KeyInBall, BallInKey, OnlyBall, OnlyKey
<1>5. CASE running \in {OnlyBall, OnlyKey}
  <2>1. Len(running) - 1 = 0
    BY <1>5, StacksDiffer
  <2> QED
    BY <1>1, <1>2, <1>5, <2>1, StacksDiffer
<1>6. CASE running \in {KeyInBall, BallInKey}
  <2>1. Len(running) - 1 = 1
    BY <1>6, StacksDiffer
  <2> QED
    BY <1>1, <1>4, <1>6, <2>1, StacksDiffer
<1> QED
  BY <1>5, <1>6 DEF Stacks

(* One of the two places changes.                                          *)
LEMMA BallGoes ==
  ASSUME PongTypeInv, NEW where \in BallPlaces, at' = [at EXCEPT !["ball_move"] = where]
  PROVE  /\ at' \in [{"ball_move", "on_input"} -> BallPlaces \cup KeyPlaces]
         /\ BallAt' = where /\ KeyAt' = KeyAt
BY DEF PongTypeInv, BallAt, KeyAt

LEMMA KeyGoes ==
  ASSUME PongTypeInv, NEW where \in KeyPlaces, at' = [at EXCEPT !["on_input"] = where]
  PROVE  /\ at' \in [{"ball_move", "on_input"} -> BallPlaces \cup KeyPlaces]
         /\ KeyAt' = where /\ BallAt' = BallAt
BY DEF PongTypeInv, BallAt, KeyAt

LEMMA PongTypes ==
  ASSUME PongTypeInv
  PROVE  /\ Y \in AxisStates /\ X \in AxisStates
         /\ Y.pos \in Int /\ Y.dir \in {1, -1} /\ Y.ttm \in Int /\ Y.ttg \in Int
         /\ X.pos \in Int /\ X.dir \in {1, -1} /\ X.ttm \in Int /\ X.ttg \in Int
         /\ pongGhosts.raced \subseteq Game!Axes
         /\ pongGhosts.leftover \in BOOLEAN /\ pongGhosts.mixed \in BOOLEAN
         /\ pongGhosts.caught \in BOOLEAN /\ pongGhosts.lost \in BOOLEAN
<1>1. Y \in AxisStates /\ X \in AxisStates
  BY DEF PongTypeInv, X, Y, Game!Axes
<1> QED
  BY <1>1 DEF AxisStates, PongTypeInv, PongGhostStates

(* One axis changes.                                                       *)
LEMMA YChanges ==
  ASSUME PongTypeInv, NEW r \in AxisStates, ball' = [ball EXCEPT !["y"] = r]
  PROVE  ball' \in [Game!Axes -> AxisStates] /\ Y' = r /\ X' = X
BY DEF PongTypeInv, X, Y, Game!Axes

LEMMA XChanges ==
  ASSUME PongTypeInv, NEW r \in AxisStates, ball' = [ball EXCEPT !["x"] = r]
  PROVE  ball' \in [Game!Axes -> AxisStates] /\ X' = r /\ Y' = Y
BY DEF PongTypeInv, X, Y, Game!Axes

LEMMA AxisWithTtg ==
  ASSUME NEW q \in AxisStates, NEW n \in Int
  PROVE  \E r \in AxisStates : /\ r = [q EXCEPT !.ttg = n]
                               /\ r.pos = q.pos /\ r.dir = q.dir /\ r.ttm = q.ttm /\ r.ttg = n
<1> DEFINE r == [q EXCEPT !.ttg = n]
<1>1. r \in AxisStates
  BY DEF AxisStates
<1>2. r.pos = q.pos /\ r.dir = q.dir /\ r.ttm = q.ttm /\ r.ttg = n
  BY DEF AxisStates
<1> HIDE DEF r
<1>3. r = [q EXCEPT !.ttg = n]
  BY DEF r
<1> QED
  BY <1>1, <1>2, <1>3

LEMMA AxisMoves ==
  ASSUME NEW q \in AxisStates, NEW n \in Int
  PROVE  \E r \in AxisStates : /\ r = [q EXCEPT !.pos = n, !.ttg = q.ttm]
                               /\ r.pos = n /\ r.dir = q.dir /\ r.ttm = q.ttm /\ r.ttg = q.ttm
<1> DEFINE r == [q EXCEPT !.pos = n, !.ttg = q.ttm]
<1>1. r \in AxisStates
  BY DEF AxisStates
<1>2. r.pos = n /\ r.dir = q.dir /\ r.ttm = q.ttm /\ r.ttg = q.ttm
  BY DEF AxisStates
<1> HIDE DEF r
<1>3. r = [q EXCEPT !.pos = n, !.ttg = q.ttm]
  BY DEF r
<1> QED
  BY <1>1, <1>2, <1>3

LEMMA TickKeeps ==
  ASSUME PongInv, Game!Tick
  PROVE  PongInv'
<1>1. /\ Game!Interrupts("ball_move") /\ moved' \in BOOLEAN
      /\ pongGhosts' = [pongGhosts EXCEPT
           !.leftover = @ \/ moved', !.mixed = @ \/ KeyAt[1] = "add"]
      /\ UNCHANGED <<ball, plate, at>>
  BY DEF Game!Tick, KeyAt
<1>2. /\ \/ running = <<>> /\ running' = OnlyBall
         \/ running = OnlyKey /\ running' = BallInKey
      /\ ~pongGhosts.lost
  BY <1>1, StackInterrupted DEF PongInv, PongTypeInv
<1>3. PongTypeInv /\ StackInv
  BY DEF PongInv
<1>4. ~InBall /\ InBall' /\ (InKey' <=> InKey) /\ running' \in Stacks /\ running' # OnlyKey
  BY <1>2, StacksDiffer DEF InBall, InKey, Stacks
<1>5. BallAt = TestY /\ BallAt' = TestY /\ KeyAt' = KeyAt /\ X' = X /\ Y' = Y
  BY <1>1, <1>3, <1>4 DEF StackInv, BallAt, KeyAt, X, Y
<1>6. (pongGhosts.leftover \/ moved') \in BOOLEAN /\ (pongGhosts.mixed \/ KeyAt[1] = "add") \in BOOLEAN
  OBVIOUS
<1>7. PICK left \in BOOLEAN : left = (pongGhosts.leftover \/ moved')
  BY <1>6, Zenon
<1>8. PICK mix \in BOOLEAN : mix = (pongGhosts.mixed \/ KeyAt[1] = "add")
  BY <1>6, Zenon
<1>9. pongGhosts' = [pongGhosts EXCEPT !.leftover = left, !.mixed = mix]
  BY <1>1, <1>7, <1>8, Zenon
<1>10. (left <=> pongGhosts.leftover \/ moved') /\ (mix <=> pongGhosts.mixed \/ KeyAt[1] = "add")
  BY <1>7, <1>8, Zenon
<1>11. /\ pongGhosts' \in PongGhostStates
       /\ pongGhosts'.leftover = left /\ pongGhosts'.mixed = mix
       /\ pongGhosts'.raced = pongGhosts.raced /\ pongGhosts'.caught = pongGhosts.caught
       /\ pongGhosts'.lost = pongGhosts.lost
  BY <1>3, <1>9 DEF PongTypeInv, PongGhostStates
<1>12. PongTypeInv'
  BY <1>1, <1>3, <1>4, <1>5, <1>11 DEF PongTypeInv
<1>13. StackInv'
  BY <1>3, <1>4, <1>5 DEF StackInv
<1>14. FieldInv'
  BY <1>5, <1>11, PlacesDiffer DEF PongInv, FieldInv
<1>15. TicksInv'
  BY <1>5, <1>11, PlacesDiffer DEF PongInv, TicksInv
<1>16. LockstepInv'
  <2>1. ASSUME ~mix
        PROVE  KeyAt \notin {AddY(1), AddY(-1)} /\ ~pongGhosts.mixed
    BY <1>10, <2>1, KeyPlacesDiffer
  <2>2. ~mix => X.ttm = Y.ttm /\ X.ttg = Y.ttg
    BY <1>5, <2>1 DEF PongInv, LockstepInv
  <2> QED
    BY <1>2, <1>4, <1>5, <1>10, <1>11, <2>1, <2>2, PlacesDiffer DEF LockstepInv
<1> QED
  BY <1>12, <1>13, <1>14, <1>15, <1>16 DEF PongInv

(* What a step of ball_move() does not change.                             *)
LEMMA InsideBall ==
  ASSUME PongInv, NEW where, Game!Runs("ball_move", where)
  PROVE  /\ PongTypeInv /\ StackInv /\ running \in {OnlyBall, BallInKey} /\ running # OnlyKey
         /\ BallAt = where /\ InBall /\ ~pongGhosts.lost
         /\ ~pongGhosts.mixed => KeyAt \notin {AddY(1), AddY(-1)} /\ X.ttm = Y.ttm
<1>1. PongTypeInv /\ StackInv /\ LockstepInv /\ running \in Stacks
  BY DEF PongInv, PongTypeInv
<1>2. running \in {OnlyBall, BallInKey} /\ BallAt = where /\ ~pongGhosts.lost
  BY <1>1, StackRuns
<1>3. running # OnlyKey /\ InBall
  BY <1>2, StacksDiffer DEF InBall
<1> QED
  BY <1>1, <1>2, <1>3 DEF LockstepInv

LEMMA TestYKeeps ==
  ASSUME PongInv, Game!Test("y")
  PROVE  PongInv'
<1>1. /\ Game!Runs("ball_move", TestY)
      /\ ball' = IF Y.ttm > 0 THEN [ball EXCEPT !["y"].ttg = @ - 1] ELSE ball
      /\ Game!GoTo("ball_move", IF Y.ttm > 0 /\ Y.ttg = 1 THEN ReloadY ELSE TestX)
      /\ UNCHANGED <<plate, moved, pongGhosts>>
  BY DEF Game!Test, Game!After, TestY, ReloadY, TestX, Y
<1>2. /\ PongTypeInv /\ StackInv /\ running \in {OnlyBall, BallInKey} /\ running # OnlyKey
      /\ BallAt = TestY /\ InBall /\ ~pongGhosts.lost
      /\ ~pongGhosts.mixed => KeyAt \notin {AddY(1), AddY(-1)} /\ X.ttm = Y.ttm
  BY <1>1, InsideBall
<1>3. PICK where \in BallPlaces : where = IF Y.ttm > 0 /\ Y.ttg = 1 THEN ReloadY ELSE TestX
  BY DEF BallPlaces
<1>4. /\ at' \in [{"ball_move", "on_input"} -> BallPlaces \cup KeyPlaces]
      /\ BallAt' = where /\ KeyAt' = KeyAt /\ running' = running
  BY <1>1, <1>2, <1>3, BallGoes DEF Game!GoTo
<1>5. /\ Y \in AxisStates /\ Y.ttg \in Int /\ Y.ttm \in Int /\ X.ttg \in Int /\ X.ttm \in Int
      /\ Y.pos \in Int /\ Y.dir \in {1, -1}
  BY <1>2, PongTypes
<1>6. PICK n \in Int : n = IF Y.ttm > 0 THEN Y.ttg - 1 ELSE Y.ttg
  BY <1>5
<1>7. PICK r \in AxisStates : /\ r = [Y EXCEPT !.ttg = n]
                              /\ r.pos = Y.pos /\ r.dir = Y.dir /\ r.ttm = Y.ttm /\ r.ttg = n
  BY <1>5, AxisWithTtg
<1>8. ball' = [ball EXCEPT !["y"] = r]
  <2>1. CASE Y.ttm > 0
    BY <1>1, <1>2, <1>6, <1>7, <2>1 DEF PongTypeInv, Game!Axes, Y
  <2>2. CASE ~(Y.ttm > 0)
    <3>1. r = Y
      BY <1>5, <1>6, <1>7, <2>2 DEF AxisStates
    <3> QED
      BY <1>1, <1>2, <2>2, <3>1 DEF PongTypeInv, Game!Axes, Y
  <2> QED
    BY <2>1, <2>2
<1>9. ball' \in [Game!Axes -> AxisStates] /\ Y' = r /\ X' = X
  BY <1>2, <1>8, YChanges
<1>10. PongTypeInv'
  BY <1>1, <1>2, <1>3, <1>4, <1>9 DEF PongTypeInv
<1>11. StackInv'
  BY <1>2, <1>4 DEF StackInv, InBall, InKey
<1>12. FieldInv'
  BY <1>1, <1>2, <1>4, <1>7, <1>9, PlacesDiffer DEF PongInv, FieldInv
<1>13. TicksInv'
  BY <1>1, <1>2, <1>3, <1>4, <1>5, <1>6, <1>7, <1>9, PlacesDiffer DEF PongInv, TicksInv
<1>14. LockstepInv'
  <2>1. /\ ~pongGhosts.mixed => X.ttg = Y.ttg
        /\ ~pongGhosts.leftover => ~moved
        /\ pongGhosts.lost /\ pongGhosts.caught => pongGhosts.leftover \/ pongGhosts.mixed
    BY <1>2 DEF PongInv, LockstepInv
  <2>2. CASE Y.ttm > 0 /\ Y.ttg = 1
    <3>1. where = ReloadY /\ n = 0
      BY <1>3, <1>6, <2>2
    <3> QED
      BY <1>1, <1>2, <1>4, <1>5, <1>7, <1>9, <2>1, <2>2, <3>1, PlacesDiffer DEF LockstepInv
  <2>3. CASE ~(Y.ttm > 0 /\ Y.ttg = 1)
    <3>1. where = TestX
      BY <1>3, <2>3
    <3> QED
      BY <1>1, <1>2, <1>4, <1>5, <1>6, <1>7, <1>9, <2>1, <2>3, <3>1, PlacesDiffer DEF LockstepInv
  <2> QED
    BY <2>2, <2>3
<1> QED
  BY <1>10, <1>11, <1>12, <1>13, <1>14 DEF PongInv

LEMMA TestXKeeps ==
  ASSUME PongInv, Game!Test("x")
  PROVE  PongInv'
<1>1. /\ Game!Runs("ball_move", TestX)
      /\ ball' = IF X.ttm > 0 THEN [ball EXCEPT !["x"].ttg = @ - 1] ELSE ball
      /\ Game!GoTo("ball_move", IF X.ttm > 0 /\ X.ttg = 1 THEN ReloadX ELSE Bouncing)
      /\ UNCHANGED <<plate, moved, pongGhosts>>
  BY DEF Game!Test, Game!After, TestX, ReloadX, Bouncing, X
<1>2. /\ PongTypeInv /\ StackInv /\ running \in {OnlyBall, BallInKey} /\ running # OnlyKey
      /\ BallAt = TestX /\ InBall /\ ~pongGhosts.lost
      /\ ~pongGhosts.mixed => KeyAt \notin {AddY(1), AddY(-1)} /\ X.ttm = Y.ttm
  BY <1>1, InsideBall
<1>3. PICK where \in BallPlaces : where = IF X.ttm > 0 /\ X.ttg = 1 THEN ReloadX ELSE Bouncing
  BY DEF BallPlaces
<1>4. /\ at' \in [{"ball_move", "on_input"} -> BallPlaces \cup KeyPlaces]
      /\ BallAt' = where /\ KeyAt' = KeyAt /\ running' = running
  BY <1>1, <1>2, <1>3, BallGoes DEF Game!GoTo
<1>5. /\ X \in AxisStates /\ Y.ttg \in Int /\ Y.ttm \in Int /\ X.ttg \in Int /\ X.ttm \in Int
      /\ X.pos \in Int /\ X.dir \in {1, -1}
  BY <1>2, PongTypes
<1>6. PICK n \in Int : n = IF X.ttm > 0 THEN X.ttg - 1 ELSE X.ttg
  BY <1>5
<1>7. PICK r \in AxisStates : /\ r = [X EXCEPT !.ttg = n]
                              /\ r.pos = X.pos /\ r.dir = X.dir /\ r.ttm = X.ttm /\ r.ttg = n
  BY <1>5, AxisWithTtg
<1>8. ball' = [ball EXCEPT !["x"] = r]
  <2>1. CASE X.ttm > 0
    BY <1>1, <1>2, <1>6, <1>7, <2>1 DEF PongTypeInv, Game!Axes, X
  <2>2. CASE ~(X.ttm > 0)
    <3>1. r = X
      BY <1>5, <1>6, <1>7, <2>2 DEF AxisStates
    <3> QED
      BY <1>1, <1>2, <2>2, <3>1 DEF PongTypeInv, Game!Axes, X
  <2> QED
    BY <2>1, <2>2
<1>9. ball' \in [Game!Axes -> AxisStates] /\ X' = r /\ Y' = Y
  BY <1>2, <1>8, XChanges
<1>10. PongTypeInv'
  BY <1>1, <1>2, <1>3, <1>4, <1>9 DEF PongTypeInv
<1>11. StackInv'
  BY <1>2, <1>4 DEF StackInv, InBall, InKey
<1>12. FieldInv'
  BY <1>1, <1>2, <1>3, <1>4, <1>7, <1>9, PlacesDiffer DEF PongInv, FieldInv
<1>13. TicksInv'
  BY <1>1, <1>2, <1>3, <1>4, <1>5, <1>6, <1>7, <1>9, PlacesDiffer DEF PongInv, TicksInv
<1>14. LockstepInv'
  <2>1. /\ ~pongGhosts.mixed =>
             \/ ~pongGhosts.caught /\ X.ttg = 1 /\ X.ttm > 0 /\ Y.ttg = Y.ttm
             \/ /\ ~pongGhosts.leftover => ~moved
                /\ \/ X.ttm > 0 /\ X.ttg = Y.ttg + 1 /\ X.ttg # 1
                   \/ X.ttm <= 0 /\ X.ttg = Y.ttg
        /\ pongGhosts.lost /\ pongGhosts.caught => pongGhosts.leftover \/ pongGhosts.mixed
    BY <1>2, PlacesDiffer DEF PongInv, LockstepInv
  <2>2. CASE X.ttm > 0 /\ X.ttg = 1
    <3>1. where = ReloadX
      BY <1>3, <2>2
    <3>2. ~pongGhosts.mixed => ~pongGhosts.caught /\ Y.ttg = Y.ttm
      BY <1>5, <2>1, <2>2
    <3> QED
      BY <1>1, <1>2, <1>4, <1>5, <1>7, <1>9, <2>1, <3>1, <3>2, PlacesDiffer DEF LockstepInv
  <2>3. CASE ~(X.ttm > 0 /\ X.ttg = 1)
    <3>1. where = Bouncing
      BY <1>3, <2>3
    <3>2. ~pongGhosts.mixed => n = Y.ttg /\ (~pongGhosts.leftover => ~moved)
      BY <1>5, <1>6, <2>1, <2>3
    <3> QED
      BY <1>1, <1>2, <1>4, <1>5, <1>7, <1>9, <2>1, <3>1, <3>2, PlacesDiffer DEF LockstepInv
  <2> QED
    BY <2>2, <2>3
<1> QED
  BY <1>10, <1>11, <1>12, <1>13, <1>14 DEF PongInv

LEMMA ReloadYKeeps ==
  ASSUME PongInv, Game!Reload("y")
  PROVE  PongInv'
<1>1. /\ Game!Runs("ball_move", ReloadY)
      /\ ball' = [ball EXCEPT !["y"].pos = @ + Y.dir, !["y"].ttg = Y.ttm]
      /\ moved' = TRUE
      /\ Game!GoTo("ball_move", TestX)
      /\ pongGhosts' = [pongGhosts EXCEPT
           !.raced = IF Y.ttm <= 0 THEN @ \cup {"y"} ELSE @, !.caught = @ /\ "y" # "y"]
      /\ UNCHANGED plate
  BY DEF Game!Reload, Game!After, ReloadY, TestX, Y
<1>2. /\ PongTypeInv /\ StackInv /\ running \in {OnlyBall, BallInKey} /\ running # OnlyKey
      /\ BallAt = ReloadY /\ InBall /\ ~pongGhosts.lost
      /\ ~pongGhosts.mixed => KeyAt \notin {AddY(1), AddY(-1)} /\ X.ttm = Y.ttm
  BY <1>1, InsideBall
<1>3. TestX \in BallPlaces
  BY DEF BallPlaces
<1>4. /\ at' \in [{"ball_move", "on_input"} -> BallPlaces \cup KeyPlaces]
      /\ BallAt' = TestX /\ KeyAt' = KeyAt /\ running' = running
  BY <1>1, <1>2, <1>3, BallGoes DEF Game!GoTo
<1>5. /\ Y \in AxisStates /\ Y.ttg \in Int /\ Y.ttm \in Int /\ X.ttg \in Int /\ X.ttm \in Int
      /\ Y.pos \in Int /\ Y.dir \in {1, -1} /\ pongGhosts.raced \subseteq Game!Axes
  BY <1>2, PongTypes
<1>6. PICK n \in Int : n = Y.pos + Y.dir
  BY <1>5
<1>7. PICK r \in AxisStates : /\ r = [Y EXCEPT !.pos = n, !.ttg = Y.ttm]
                              /\ r.pos = n /\ r.dir = Y.dir /\ r.ttm = Y.ttm /\ r.ttg = Y.ttm
  BY <1>5, AxisMoves
<1>8. ball' = [ball EXCEPT !["y"] = r]
  BY <1>1, <1>2, <1>6, <1>7 DEF PongTypeInv, Game!Axes, Y
<1>9. ball' \in [Game!Axes -> AxisStates] /\ Y' = r /\ X' = X
  BY <1>2, <1>8, YChanges
<1>10. PICK race \in SUBSET Game!Axes :
         race = IF Y.ttm <= 0 THEN pongGhosts.raced \cup {"y"} ELSE pongGhosts.raced
  BY <1>5 DEF Game!Axes
<1>11. pongGhosts' = [pongGhosts EXCEPT !.raced = race, !.caught = FALSE]
  BY <1>1, <1>10
<1>12. /\ pongGhosts' \in PongGhostStates
       /\ pongGhosts'.raced = race /\ pongGhosts'.caught = FALSE
       /\ pongGhosts'.leftover = pongGhosts.leftover /\ pongGhosts'.mixed = pongGhosts.mixed
       /\ pongGhosts'.lost = pongGhosts.lost
  BY <1>2, <1>11 DEF PongTypeInv, PongGhostStates
<1>13. PongTypeInv'
  BY <1>1, <1>2, <1>3, <1>4, <1>9, <1>12 DEF PongTypeInv
<1>14. StackInv'
  BY <1>2, <1>4 DEF StackInv, InBall, InKey
<1>15. FieldInv'
  <2>1. /\ Y.pos \in 0..Height /\ X.pos \in (-Before)..Width
        /\ (Y.dir = 1 => Y.pos < Height) /\ (Y.dir = -1 => Y.pos > 0)
        /\ (X.dir = 1 => X.pos < Width) /\ (X.dir = -1 => X.pos > 0)
    BY <1>2, PlacesDiffer DEF PongInv, FieldInv
  <2>2. n \in 0..Height
    BY <1>5, <1>6, <2>1, SmallProgramsAssumption DEF SmallProgramsAssumption
  <2> QED
    BY <1>1, <1>4, <1>7, <1>9, <1>12, <2>1, <2>2, PlacesDiffer DEF FieldInv
<1>16. TicksInv'
  BY <1>2, <1>4, <1>5, <1>7, <1>9, <1>10, <1>12, PlacesDiffer DEF PongInv, TicksInv
<1>17. LockstepInv'
  <2>1. ~pongGhosts.mixed => X.ttg = 1 /\ Y.ttm > 0
    BY <1>2, PlacesDiffer DEF PongInv, LockstepInv
  <2> QED
    BY <1>2, <1>4, <1>5, <1>7, <1>9, <1>12, <2>1, PlacesDiffer DEF LockstepInv
<1> QED
  BY <1>13, <1>14, <1>15, <1>16, <1>17 DEF PongInv

LEMMA ReloadXKeeps ==
  ASSUME PongInv, Game!Reload("x")
  PROVE  PongInv'
<1>1. /\ Game!Runs("ball_move", ReloadX)
      /\ ball' = [ball EXCEPT !["x"].pos = @ + X.dir, !["x"].ttg = X.ttm]
      /\ moved' = TRUE
      /\ Game!GoTo("ball_move", Bouncing)
      /\ pongGhosts' = [pongGhosts EXCEPT
           !.raced = IF X.ttm <= 0 THEN @ \cup {"x"} ELSE @, !.caught = @ /\ "x" # "y"]
      /\ UNCHANGED plate
  BY DEF Game!Reload, Game!After, ReloadX, Bouncing, X
<1>2. /\ PongTypeInv /\ StackInv /\ running \in {OnlyBall, BallInKey} /\ running # OnlyKey
      /\ BallAt = ReloadX /\ InBall /\ ~pongGhosts.lost
      /\ ~pongGhosts.mixed => KeyAt \notin {AddY(1), AddY(-1)} /\ X.ttm = Y.ttm
  BY <1>1, InsideBall
<1>3. Bouncing \in BallPlaces
  BY DEF BallPlaces
<1>4. /\ at' \in [{"ball_move", "on_input"} -> BallPlaces \cup KeyPlaces]
      /\ BallAt' = Bouncing /\ KeyAt' = KeyAt /\ running' = running
  BY <1>1, <1>2, <1>3, BallGoes DEF Game!GoTo
<1>5. /\ X \in AxisStates /\ Y.ttg \in Int /\ Y.ttm \in Int /\ X.ttg \in Int /\ X.ttm \in Int
      /\ X.pos \in Int /\ X.dir \in {1, -1} /\ pongGhosts.raced \subseteq Game!Axes
      /\ pongGhosts.caught \in BOOLEAN
  BY <1>2, PongTypes
<1>6. PICK n \in Int : n = X.pos + X.dir
  BY <1>5
<1>7. PICK r \in AxisStates : /\ r = [X EXCEPT !.pos = n, !.ttg = X.ttm]
                              /\ r.pos = n /\ r.dir = X.dir /\ r.ttm = X.ttm /\ r.ttg = X.ttm
  BY <1>5, AxisMoves
<1>8. ball' = [ball EXCEPT !["x"] = r]
  BY <1>1, <1>2, <1>6, <1>7 DEF PongTypeInv, Game!Axes, X
<1>9. ball' \in [Game!Axes -> AxisStates] /\ X' = r /\ Y' = Y
  BY <1>2, <1>8, XChanges
<1>10. PICK race \in SUBSET Game!Axes :
         race = IF X.ttm <= 0 THEN pongGhosts.raced \cup {"x"} ELSE pongGhosts.raced
  BY <1>5 DEF Game!Axes
<1>11. pongGhosts' = [pongGhosts EXCEPT !.raced = race]
  <2>1. (pongGhosts.caught /\ "x" # "y") = pongGhosts.caught
    BY <1>5
  <2>2. pongGhosts' = [pongGhosts EXCEPT !.raced = race, !.caught = pongGhosts.caught]
    BY <1>1, <1>10, <2>1
  <2> QED
    BY <1>2, <2>2 DEF PongTypeInv, PongGhostStates
<1>12. /\ pongGhosts' \in PongGhostStates
       /\ pongGhosts'.raced = race /\ pongGhosts'.caught = pongGhosts.caught
       /\ pongGhosts'.leftover = pongGhosts.leftover /\ pongGhosts'.mixed = pongGhosts.mixed
       /\ pongGhosts'.lost = pongGhosts.lost
  BY <1>2, <1>11 DEF PongTypeInv, PongGhostStates
<1>13. PongTypeInv'
  BY <1>1, <1>2, <1>3, <1>4, <1>9, <1>12 DEF PongTypeInv
<1>14. StackInv'
  BY <1>2, <1>4 DEF StackInv, InBall, InKey
<1>15. FieldInv'
  <2>1. /\ Y.pos \in 0..Height /\ X.pos \in (-Before)..Width
        /\ (X.dir = 1 => X.pos < Width) /\ (X.dir = -1 => X.pos > 0)
    BY <1>2, PlacesDiffer DEF PongInv, FieldInv
  <2>2. n \in (-Before)..Width
    BY <1>5, <1>6, <2>1, SmallProgramsAssumption DEF SmallProgramsAssumption
  <2> QED
    BY <1>1, <1>4, <1>7, <1>9, <1>12, <2>1, <2>2, PlacesDiffer DEF FieldInv
<1>16. TicksInv'
  BY <1>2, <1>4, <1>5, <1>7, <1>9, <1>10, <1>12, PlacesDiffer DEF PongInv, TicksInv
<1>17. LockstepInv'
  <2>1. ~pongGhosts.mixed => ~pongGhosts.caught /\ Y.ttg = Y.ttm
    BY <1>2, PlacesDiffer DEF PongInv, LockstepInv
  <2> QED
    BY <1>2, <1>4, <1>5, <1>7, <1>9, <1>12, <2>1, PlacesDiffer DEF LockstepInv
<1> QED
  BY <1>13, <1>14, <1>15, <1>16, <1>17 DEF PongInv

(* Where the ball is turned.                                               *)
LEMMA BouncedFacts ==
  ASSUME PongTypeInv, ball' = Game!Bounced
  PROVE  /\ ball' \in [Game!Axes -> AxisStates]
         /\ Y'.pos = Y.pos /\ Y'.ttm = Y.ttm /\ Y'.ttg = Y.ttg
         /\ X'.pos = X.pos /\ X'.ttm = X.ttm /\ X'.ttg = X.ttg
         /\ Y'.dir = IF Y.pos <= 0 THEN 1 ELSE IF Y.pos >= Height THEN -1 ELSE Y.dir
         /\ X'.dir = IF X.pos <= 0 THEN 1 ELSE IF X.pos >= Width THEN -1 ELSE X.dir
<1>1. ASSUME NEW q \in AxisStates, NEW d \in {1, -1}
      PROVE  /\ [q EXCEPT !.dir = d] \in AxisStates
             /\ [q EXCEPT !.dir = d].pos = q.pos /\ [q EXCEPT !.dir = d].ttm = q.ttm
             /\ [q EXCEPT !.dir = d].ttg = q.ttg /\ [q EXCEPT !.dir = d].dir = d
  BY DEF AxisStates
<1>2. ball \in [Game!Axes -> AxisStates] /\ ball["y"] = Y /\ ball["x"] = X
      /\ Y \in AxisStates /\ X \in AxisStates
  BY PongTypes DEF PongTypeInv, Y, X
<1>3. "y" \in Game!Axes /\ "x" \in Game!Axes
  BY DEF Game!Axes
<1>4. \A q, d : [q EXCEPT !["y"].dir = d] = [q EXCEPT !["y"] = [q["y"] EXCEPT !.dir = d]]
  OBVIOUS
<1>5. PICK q \in [Game!Axes -> AxisStates] :
        /\ Game!Bounced = Game!TurnX(q) /\ q["x"] = X
        /\ q["y"].pos = Y.pos /\ q["y"].ttm = Y.ttm /\ q["y"].ttg = Y.ttg
        /\ q["y"].dir = IF Y.pos <= 0 THEN 1 ELSE IF Y.pos >= Height THEN -1 ELSE Y.dir
  <2>1. PICK d \in {1, -1} : d = IF Y.pos <= 0 THEN 1 ELSE IF Y.pos >= Height THEN -1 ELSE Y.dir
    BY PongTypes
  <2>2. PICK r \in AxisStates : r = [Y EXCEPT !.dir = d]
    BY <1>1, <1>2
  <2>3. r.pos = Y.pos /\ r.ttm = Y.ttm /\ r.ttg = Y.ttg /\ r.dir = d
    BY <1>1, <1>2, <2>2
  <2>4. PICK q \in [Game!Axes -> AxisStates] : q = [ball EXCEPT !["y"] = r]
    BY <1>2
  <2>5. q["y"] = r /\ q["x"] = X
    BY <1>2, <1>3, <2>4
  <2>6. Game!Bounced = Game!TurnX(q)
    <3>1. CASE Y.pos <= 0
      BY <1>2, <2>1, <2>2, <2>4, <3>1 DEF Game!Bounced
    <3>2. CASE ~(Y.pos <= 0) /\ Y.pos >= Height
      BY <1>2, <2>1, <2>2, <2>4, <3>2 DEF Game!Bounced
    <3>3. CASE ~(Y.pos <= 0) /\ ~(Y.pos >= Height)
      <4>1. d = Y.dir
        BY <2>1, <3>3
      <4>2. r = Y
        BY <1>2, <2>2, <4>1 DEF AxisStates
      <4>3. q = ball
        BY <1>2, <2>4, <4>2
      <4> QED
        BY <1>2, <3>3, <4>3 DEF Game!Bounced
    <3> QED
      BY <3>1, <3>2, <3>3
  <2> QED
    BY <2>1, <2>3, <2>4, <2>5, <2>6
<1>6. PICK d \in {1, -1} : d = IF X.pos <= 0 THEN 1 ELSE IF X.pos >= Width THEN -1 ELSE X.dir
  BY PongTypes
<1>7. PICK r \in AxisStates : r = [X EXCEPT !.dir = d]
  BY <1>1, <1>2
<1>8. r.pos = X.pos /\ r.ttm = X.ttm /\ r.ttg = X.ttg /\ r.dir = d
  BY <1>1, <1>2, <1>7
<1>9. ball' = [q EXCEPT !["x"] = r]
  <2>1. CASE X.pos <= 0
    BY <1>5, <1>6, <1>7, <2>1 DEF Game!TurnX
  <2>2. CASE ~(X.pos <= 0) /\ X.pos >= Width
    BY <1>5, <1>6, <1>7, <2>2 DEF Game!TurnX
  <2>3. CASE ~(X.pos <= 0) /\ ~(X.pos >= Width)
    <3>1. d = X.dir
      BY <1>6, <2>3
    <3>2. r = X
      BY <1>2, <1>7, <3>1 DEF AxisStates
    <3> QED
      BY <1>5, <2>3, <3>2 DEF Game!TurnX
  <2> QED
    BY <2>1, <2>2, <2>3
<1>10. ball' \in [Game!Axes -> AxisStates] /\ X' = r /\ Y' = q["y"]
  BY <1>3, <1>5, <1>9 DEF X, Y, Game!Axes
<1> QED
  BY <1>5, <1>6, <1>8, <1>10

LEMMA BounceOrLoseKeeps ==
  ASSUME PongInv, Game!BounceOrLose
  PROVE  PongInv'
<1>1. /\ Game!Runs("ball_move", Bouncing)
      /\ IF moved THEN Game!BounceOrLoseNow ELSE UNCHANGED <<ball, pongGhosts>>
      /\ Game!Returns("ball_move", TestY)
      /\ UNCHANGED <<plate, moved>>
  BY DEF Game!BounceOrLose, Game!First, TestY, Bouncing
<1>2. /\ PongTypeInv /\ StackInv /\ running \in {OnlyBall, BallInKey} /\ running # OnlyKey
      /\ BallAt = Bouncing /\ InBall /\ ~pongGhosts.lost
      /\ ~pongGhosts.mixed => KeyAt \notin {AddY(1), AddY(-1)} /\ X.ttm = Y.ttm
  BY <1>1, InsideBall
<1>3. /\ at' \in [{"ball_move", "on_input"} -> BallPlaces \cup KeyPlaces]
      /\ BallAt' = TestY /\ KeyAt' = KeyAt
  <2>1. TestY \in BallPlaces
    BY DEF BallPlaces
  <2> QED
    BY <1>1, <1>2, <2>1, BallGoes DEF Game!Returns
<1>4. /\ running' \in Stacks /\ ~InBall' /\ (InKey' <=> InKey)
  <2>1. \/ running = OnlyBall /\ running' = <<>>
        \/ running = BallInKey /\ running' = OnlyKey
    BY <1>1, <1>2, StackReturns, StacksDiffer DEF PongTypeInv
  <2> QED
    BY <2>1, StacksDiffer DEF Stacks, InBall, InKey
<1>5. StackInv'
  BY <1>2, <1>3, <1>4 DEF StackInv
<1>6. /\ Y.pos \in 0..Height /\ X.pos \in (-Before)..Width
      /\ ~moved => /\ (Y.dir = 1 => Y.pos < Height) /\ (Y.dir = -1 => Y.pos > 0)
                   /\ (X.dir = 1 => X.pos < Width) /\ (X.dir = -1 => X.pos > 0)
      /\ "y" \in pongGhosts.raced \/ Y.ttg >= 1
      /\ "x" \in pongGhosts.raced \/ X.ttg >= 1
      /\ ~pongGhosts.mixed => /\ X.ttg = Y.ttg
                              /\ ~pongGhosts.leftover /\ moved => ~pongGhosts.caught
      /\ pongGhosts.lost /\ pongGhosts.caught => pongGhosts.leftover \/ pongGhosts.mixed
  BY <1>2, PlacesDiffer DEF PongInv, FieldInv, TicksInv, LockstepInv
<1>7. CASE ~moved
  <2>1. ball' = ball /\ pongGhosts' = pongGhosts /\ X' = X /\ Y' = Y
    BY <1>1, <1>7 DEF X, Y
  <2>2. PongTypeInv'
    BY <1>1, <1>2, <1>3, <1>4, <2>1 DEF PongTypeInv, BallPlaces
  <2>3. FieldInv'
    BY <1>6, <1>7, <2>1 DEF FieldInv
  <2>4. TicksInv'
    BY <1>6, <2>1 DEF TicksInv
  <2>5. LockstepInv'
    BY <1>2, <1>3, <1>4, <1>6, <2>1, PlacesDiffer DEF LockstepInv
  <2> QED
    BY <1>5, <2>2, <2>3, <2>4, <2>5 DEF PongInv
<1>8. CASE moved /\ ball' = Game!Bounced
           /\ pongGhosts' = [pongGhosts EXCEPT !.caught = Y.pos >= Height]
  <2>1. /\ ball' \in [Game!Axes -> AxisStates]
        /\ Y'.pos = Y.pos /\ Y'.ttm = Y.ttm /\ Y'.ttg = Y.ttg
        /\ X'.pos = X.pos /\ X'.ttm = X.ttm /\ X'.ttg = X.ttg
        /\ Y'.dir = IF Y.pos <= 0 THEN 1 ELSE IF Y.pos >= Height THEN -1 ELSE Y.dir
        /\ X'.dir = IF X.pos <= 0 THEN 1 ELSE IF X.pos >= Width THEN -1 ELSE X.dir
    BY <1>2, <1>8, BouncedFacts
  <2>2. (Y.pos >= Height) \in BOOLEAN
    OBVIOUS
  <2>3. PICK caught \in BOOLEAN : caught = (Y.pos >= Height)
    BY <2>2, Zenon
  <2>4. pongGhosts' = [pongGhosts EXCEPT !.caught = caught]
    BY <1>8, <2>3, Zenon
  <2>5. /\ pongGhosts' \in PongGhostStates
        /\ pongGhosts'.raced = pongGhosts.raced /\ pongGhosts'.lost = pongGhosts.lost
        /\ pongGhosts'.leftover = pongGhosts.leftover /\ pongGhosts'.mixed = pongGhosts.mixed
    BY <1>2, <2>4 DEF PongTypeInv, PongGhostStates
  <2>6. PongTypeInv'
    BY <1>1, <1>2, <1>3, <1>4, <2>1, <2>5 DEF PongTypeInv, BallPlaces
  <2>7. FieldInv'
    <3>1. (Y'.dir = 1 => Y'.pos < Height) /\ (Y'.dir = -1 => Y'.pos > 0)
      BY <1>2, <1>6, <2>1, PongTypes, SmallProgramsAssumption DEF SmallProgramsAssumption
    <3>2. (X'.dir = 1 => X'.pos < Width) /\ (X'.dir = -1 => X'.pos > 0)
      BY <1>2, <1>6, <2>1, PongTypes, SmallProgramsAssumption DEF SmallProgramsAssumption
    <3> QED
      BY <1>6, <2>1, <3>1, <3>2 DEF FieldInv
  <2>8. TicksInv'
    BY <1>6, <2>1, <2>5 DEF TicksInv
  <2>9. LockstepInv'
    BY <1>2, <1>3, <1>4, <1>6, <2>1, <2>5, PlacesDiffer DEF LockstepInv
  <2> QED
    BY <1>5, <2>6, <2>7, <2>8, <2>9 DEF PongInv
<1>9. CASE moved /\ ball' = ball /\ pongGhosts' = [pongGhosts EXCEPT !.lost = TRUE]
  <2>1. X' = X /\ Y' = Y
    BY <1>9 DEF X, Y
  <2>2. /\ pongGhosts' \in PongGhostStates
        /\ pongGhosts'.raced = pongGhosts.raced /\ pongGhosts'.lost
        /\ pongGhosts'.leftover = pongGhosts.leftover /\ pongGhosts'.mixed = pongGhosts.mixed
        /\ pongGhosts'.caught = pongGhosts.caught
    BY <1>2, <1>9 DEF PongTypeInv, PongGhostStates
  <2>3. PongTypeInv'
    BY <1>1, <1>2, <1>3, <1>4, <1>9, <2>2 DEF PongTypeInv, BallPlaces
  <2>4. FieldInv'
    BY <1>6, <2>1, <2>2 DEF FieldInv
  <2>5. TicksInv'
    BY <1>6, <2>1, <2>2 DEF TicksInv
  <2>6. LockstepInv'
    BY <1>2, <1>3, <1>4, <1>6, <1>9, <2>1, <2>2, PlacesDiffer DEF LockstepInv
  <2> QED
    BY <1>5, <2>3, <2>4, <2>5, <2>6 DEF PongInv
<1> QED
  BY <1>1, <1>7, <1>8, <1>9 DEF Game!BounceOrLoseNow, Y

LEMMA KeyKeeps ==
  ASSUME PongInv, Game!Key
  PROVE  PongInv'
<1>1. /\ Game!Interrupts("on_input")
      /\ pongGhosts' = [pongGhosts EXCEPT !.keys = @ + 1]
      /\ UNCHANGED <<ball, plate, moved>>
  BY DEF Game!Key
<1>2. PongTypeInv /\ StackInv
  BY DEF PongInv
<1>3. /\ \/ running = <<>> /\ running' = OnlyKey
         \/ running = OnlyBall /\ running' = KeyInBall
      /\ ~pongGhosts.lost
  BY <1>1, <1>2, StackInterrupted DEF PongTypeInv
<1>4. ~InKey /\ InKey' /\ (InBall' <=> InBall) /\ running' \in Stacks /\ running # OnlyKey
  BY <1>3, StacksDiffer DEF InBall, InKey, Stacks
<1>5. PICK where \in KeyPlaces : /\ at' = [at EXCEPT !["on_input"] = where]
                                 /\ where \notin {AddY(1), AddY(-1)}
  <2>1. PICK key \in Game!Keys :
          at' = [at EXCEPT !["on_input"] =
                   CASE key \in {"p", "f"} -> AddX(-1) [] key = "s" -> AddX(1)
                     [] key = "a" -> <<"left">> [] OTHER -> <<"right">>]
    BY DEF Game!Key, AddX
  <2>2. PICK where \in {AddX(-1), AddX(1), <<"left">>, <<"right">>} :
          where = CASE key \in {"p", "f"} -> AddX(-1) [] key = "s" -> AddX(1)
                    [] key = "a" -> <<"left">> [] OTHER -> <<"right">>
    OBVIOUS
  <2> QED
    BY <2>1, <2>2, KeyPlacesDiffer DEF KeyPlaces
<1>6. /\ at' \in [{"ball_move", "on_input"} -> BallPlaces \cup KeyPlaces]
      /\ KeyAt' = where /\ BallAt' = BallAt /\ X' = X /\ Y' = Y
  BY <1>1, <1>2, <1>5, KeyGoes DEF X, Y
<1>7. PICK n \in Nat : n = pongGhosts.keys + 1
  BY <1>2 DEF PongTypeInv, PongGhostStates
<1>8. /\ pongGhosts' \in PongGhostStates
      /\ pongGhosts'.raced = pongGhosts.raced /\ pongGhosts'.lost = pongGhosts.lost
      /\ pongGhosts'.leftover = pongGhosts.leftover /\ pongGhosts'.mixed = pongGhosts.mixed
      /\ pongGhosts'.caught = pongGhosts.caught
  BY <1>1, <1>2, <1>7 DEF PongTypeInv, PongGhostStates
<1>9. PongTypeInv'
  BY <1>1, <1>2, <1>4, <1>6, <1>8 DEF PongTypeInv
<1>10. StackInv'
  BY <1>2, <1>4, <1>6 DEF StackInv
<1>11. FieldInv'
  BY <1>1, <1>6, <1>8 DEF PongInv, FieldInv
<1>12. TicksInv'
  BY <1>6, <1>8 DEF PongInv, TicksInv
<1>13. LockstepInv'
  <2>1. KeyAt \notin {AddY(1), AddY(-1)}
    BY <1>2, <1>4, KeyPlacesDiffer DEF StackInv
  <2> QED
    BY <1>1, <1>4, <1>5, <1>6, <1>8, <2>1 DEF PongInv, LockstepInv
<1> QED
  BY <1>9, <1>10, <1>11, <1>12, <1>13 DEF PongInv

(* What a step of on_input() does not change.                              *)
LEMMA InsideKey ==
  ASSUME PongInv, NEW where, Game!Runs("on_input", where)
  PROVE  /\ PongTypeInv /\ StackInv /\ running \in {OnlyKey, KeyInBall} /\ running \in Stacks
         /\ KeyAt = where /\ InKey /\ ~pongGhosts.lost
         /\ ~(Len(running) > 1) => ~InBall /\ running = OnlyKey
         /\ Len(running) \in Nat
<1>1. PongTypeInv /\ StackInv /\ running \in Stacks
  BY DEF PongInv, PongTypeInv
<1>2. running \in {OnlyKey, KeyInBall} /\ KeyAt = where /\ ~pongGhosts.lost
  BY <1>1, StackRuns
<1>3. Len(running) \in Nat /\ (~(Len(running) > 1) => running = OnlyKey)
  BY <1>2, StacksDiffer
<1>4. InKey /\ (running = OnlyKey => ~InBall)
  BY <1>2, StacksDiffer DEF InKey, InBall
<1> QED
  BY <1>1, <1>2, <1>3, <1>4

(* A key changes ttm, and a tick was interrupted if one is on the stack.   *)
LEMMA KeyMixes ==
  ASSUME PongTypeInv, NEW deep \in BOOLEAN,
         pongGhosts' = [pongGhosts EXCEPT !.mixed = @ \/ deep]
  PROVE  /\ pongGhosts' \in PongGhostStates
         /\ pongGhosts'.mixed <=> pongGhosts.mixed \/ deep
         /\ pongGhosts'.raced = pongGhosts.raced /\ pongGhosts'.lost = pongGhosts.lost
         /\ pongGhosts'.leftover = pongGhosts.leftover /\ pongGhosts'.caught = pongGhosts.caught
<1>1. (pongGhosts.mixed \/ deep) \in BOOLEAN
  OBVIOUS
<1>2. PICK mix \in BOOLEAN : mix = (pongGhosts.mixed \/ deep)
  BY <1>1, Zenon
<1>3. pongGhosts' = [pongGhosts EXCEPT !.mixed = mix]
  BY <1>2, Zenon
<1>4. mix <=> pongGhosts.mixed \/ deep
  BY <1>2, Zenon
<1> QED
  BY <1>3, <1>4 DEF PongTypeInv, PongGhostStates

LEMMA AxisWithTtm ==
  ASSUME NEW q \in AxisStates, NEW n \in Int
  PROVE  \E r \in AxisStates : /\ r = [q EXCEPT !.ttm = n]
                               /\ r.pos = q.pos /\ r.dir = q.dir /\ r.ttm = n /\ r.ttg = q.ttg
<1> DEFINE r == [q EXCEPT !.ttm = n]
<1>1. r \in AxisStates
  BY DEF AxisStates
<1>2. r.pos = q.pos /\ r.dir = q.dir /\ r.ttm = n /\ r.ttg = q.ttg
  BY DEF AxisStates
<1> HIDE DEF r
<1>3. r = [q EXCEPT !.ttm = n]
  BY DEF r
<1> QED
  BY <1>1, <1>2, <1>3

LEMMA AddToXKeeps ==
  ASSUME PongInv, NEW n \in {1, -1}, Game!AddTo("x", n)
  PROVE  PongInv'
<1>1. /\ Game!Runs("on_input", AddX(n))
      /\ ball' = [ball EXCEPT !["x"].ttm = @ + n]
      /\ Game!GoTo("on_input", AddY(n))
      /\ pongGhosts' = [pongGhosts EXCEPT !.mixed = @ \/ Len(running) > 1]
      /\ UNCHANGED <<plate, moved>>
  BY DEF Game!AddTo, AddX, AddY
<1>2. /\ PongTypeInv /\ StackInv /\ running \in {OnlyKey, KeyInBall} /\ running \in Stacks
      /\ KeyAt = AddX(n) /\ InKey /\ ~pongGhosts.lost
      /\ ~(Len(running) > 1) => ~InBall /\ running = OnlyKey
  BY <1>1, InsideKey
<1>3. /\ at' \in [{"ball_move", "on_input"} -> BallPlaces \cup KeyPlaces]
      /\ KeyAt' = AddY(n) /\ BallAt' = BallAt /\ running' = running
  BY <1>1, <1>2, KeyGoes, KeyPlacesDiffer DEF Game!GoTo
<1>4. X \in AxisStates /\ X.ttm \in Int /\ Y.ttm \in Int /\ X.ttg \in Int /\ Y.ttg \in Int
  BY <1>2, PongTypes
<1>5. PICK m \in Int : m = X.ttm + n
  BY <1>4
<1>6. PICK r \in AxisStates : /\ r = [X EXCEPT !.ttm = m]
                              /\ r.pos = X.pos /\ r.dir = X.dir /\ r.ttm = m /\ r.ttg = X.ttg
  BY <1>4, AxisWithTtm
<1>7. ball' = [ball EXCEPT !["x"] = r]
  BY <1>1, <1>2, <1>5, <1>6 DEF PongTypeInv, Game!Axes, X
<1>8. ball' \in [Game!Axes -> AxisStates] /\ X' = r /\ Y' = Y
  BY <1>2, <1>7, XChanges
<1>9. (Len(running) > 1) \in BOOLEAN
  OBVIOUS
<1>10. PICK deep \in BOOLEAN : deep = (Len(running) > 1)
  BY <1>9, Zenon
<1>11. /\ pongGhosts' = [pongGhosts EXCEPT !.mixed = @ \/ deep]
       /\ deep <=> Len(running) > 1
  BY <1>1, <1>10, Zenon
<1>12. /\ pongGhosts' \in PongGhostStates
       /\ pongGhosts'.mixed <=> pongGhosts.mixed \/ deep
       /\ pongGhosts'.raced = pongGhosts.raced /\ pongGhosts'.lost = pongGhosts.lost
       /\ pongGhosts'.leftover = pongGhosts.leftover /\ pongGhosts'.caught = pongGhosts.caught
  BY <1>2, <1>11, KeyMixes
<1>13. PongTypeInv'
  BY <1>1, <1>2, <1>3, <1>8, <1>12, KeyPlacesDiffer DEF PongTypeInv
<1>14. StackInv'
  BY <1>2, <1>3 DEF StackInv, InBall, InKey
<1>15. FieldInv'
  BY <1>1, <1>3, <1>6, <1>8, <1>12 DEF PongInv, FieldInv
<1>16. TicksInv'
  BY <1>3, <1>6, <1>8, <1>12 DEF PongInv, TicksInv
<1>17. LockstepInv'
  <2>1. ASSUME ~pongGhosts'.mixed
        PROVE  running = OnlyKey /\ BallAt = TestY /\ X.ttm = Y.ttm /\ X.ttg = Y.ttg
    BY <1>2, <1>11, <1>12, <2>1, KeyPlacesDiffer DEF PongInv, LockstepInv, StackInv
  <2>2. /\ ~pongGhosts.leftover /\ InBall /\ BallAt \in {TestY, ReloadY} => ~moved
        /\ ~pongGhosts.lost
    BY <1>2 DEF PongInv, LockstepInv
  <2>3. ~pongGhosts'.mixed => \A k \in {1, -1} : KeyAt' = AddY(k) => X'.ttm = Y'.ttm + k
    BY <1>3, <1>4, <1>5, <1>6, <1>8, <2>1, KeyPlacesDiffer
  <2>4. KeyAt' \in {AddY(1), AddY(-1)}
    BY <1>3
  <2> QED
    BY <1>1, <1>3, <1>6, <1>8, <1>12, <2>1, <2>2, <2>3, <2>4, PlacesDiffer
       DEF LockstepInv, InBall
<1> QED
  BY <1>13, <1>14, <1>15, <1>16, <1>17 DEF PongInv

LEMMA AddToYKeeps ==
  ASSUME PongInv, NEW n \in {1, -1}, Game!AddTo("y", n)
  PROVE  PongInv'
<1>1. /\ Game!Runs("on_input", AddY(n))
      /\ ball' = [ball EXCEPT !["y"].ttm = @ + n]
      /\ Game!Returns("on_input", NoKey)
      /\ pongGhosts' = [pongGhosts EXCEPT !.mixed = @ \/ Len(running) > 1]
      /\ UNCHANGED <<plate, moved>>
  BY DEF Game!AddTo, AddY, NoKey
<1>2. /\ PongTypeInv /\ StackInv /\ running \in {OnlyKey, KeyInBall} /\ running \in Stacks
      /\ KeyAt = AddY(n) /\ InKey /\ ~pongGhosts.lost
      /\ ~(Len(running) > 1) => ~InBall /\ running = OnlyKey
  BY <1>1, InsideKey
<1>3. /\ at' \in [{"ball_move", "on_input"} -> BallPlaces \cup KeyPlaces]
      /\ KeyAt' = NoKey /\ BallAt' = BallAt
  <2>1. NoKey \in KeyPlaces
    BY DEF KeyPlaces
  <2> QED
    BY <1>1, <1>2, <2>1, KeyGoes DEF Game!Returns
<1>4. running' \in Stacks /\ ~InKey' /\ (InBall' <=> InBall)
  <2>1. \/ running = OnlyKey /\ running' = <<>>
        \/ running = KeyInBall /\ running' = OnlyBall
    BY <1>1, <1>2, StackReturns, StacksDiffer
  <2> QED
    BY <2>1, StacksDiffer DEF Stacks, InBall, InKey
<1>5. Y \in AxisStates /\ X.ttm \in Int /\ Y.ttm \in Int /\ X.ttg \in Int /\ Y.ttg \in Int
  BY <1>2, PongTypes
<1>6. PICK m \in Int : m = Y.ttm + n
  BY <1>5
<1>7. PICK r \in AxisStates : /\ r = [Y EXCEPT !.ttm = m]
                              /\ r.pos = Y.pos /\ r.dir = Y.dir /\ r.ttm = m /\ r.ttg = Y.ttg
  BY <1>5, AxisWithTtm
<1>8. ball' = [ball EXCEPT !["y"] = r]
  BY <1>1, <1>2, <1>6, <1>7 DEF PongTypeInv, Game!Axes, Y
<1>9. ball' \in [Game!Axes -> AxisStates] /\ Y' = r /\ X' = X
  BY <1>2, <1>8, YChanges
<1>10. (Len(running) > 1) \in BOOLEAN
  OBVIOUS
<1>11. PICK deep \in BOOLEAN : deep = (Len(running) > 1)
  BY <1>10, Zenon
<1>12. /\ pongGhosts' = [pongGhosts EXCEPT !.mixed = @ \/ deep]
       /\ deep <=> Len(running) > 1
  BY <1>1, <1>11, Zenon
<1>13. /\ pongGhosts' \in PongGhostStates
       /\ pongGhosts'.mixed <=> pongGhosts.mixed \/ deep
       /\ pongGhosts'.raced = pongGhosts.raced /\ pongGhosts'.lost = pongGhosts.lost
       /\ pongGhosts'.leftover = pongGhosts.leftover /\ pongGhosts'.caught = pongGhosts.caught
  BY <1>2, <1>12, KeyMixes
<1>14. PongTypeInv'
  <2>1. NoKey \in KeyPlaces
    BY DEF KeyPlaces
  <2> QED
    BY <1>1, <1>2, <1>3, <1>4, <1>9, <1>13, <2>1 DEF PongTypeInv
<1>15. StackInv'
  BY <1>2, <1>3, <1>4 DEF StackInv
<1>16. FieldInv'
  BY <1>1, <1>3, <1>7, <1>9, <1>13 DEF PongInv, FieldInv
<1>17. TicksInv'
  BY <1>3, <1>7, <1>9, <1>13 DEF PongInv, TicksInv
<1>18. LockstepInv'
  <2>1. ASSUME ~pongGhosts'.mixed
        PROVE  BallAt = TestY /\ X.ttm = Y.ttm + n /\ X.ttg = Y.ttg
    BY <1>2, <1>12, <1>13, <2>1, KeyPlacesDiffer DEF PongInv, LockstepInv, StackInv
  <2>2. /\ ~pongGhosts.leftover /\ InBall /\ BallAt \in {TestY, ReloadY} => ~moved
        /\ ~pongGhosts.lost
    BY <1>2 DEF PongInv, LockstepInv
  <2>3. \A k \in {1, -1} : KeyAt' # AddY(k)
    BY <1>3, KeyPlacesDiffer
  <2> QED
    BY <1>1, <1>3, <1>4, <1>6, <1>7, <1>9, <1>13, <2>1, <2>2, <2>3, PlacesDiffer
       DEF LockstepInv
<1> QED
  BY <1>14, <1>15, <1>16, <1>17, <1>18 DEF PongInv

LEMMA MovePlateKeeps ==
  ASSUME PongInv, Game!MovePlate
  PROVE  PongInv'
<1>1. PICK where \in {<<"left">>, <<"right">>} :
        /\ Game!Runs("on_input", where)
        /\ where = <<"left">> => plate' = IF plate >= 0 THEN plate - PlateDir ELSE plate
        /\ where = <<"right">> => plate' = IF plate <= Width THEN plate + PlateDir ELSE plate
  <2>1. <<"left">> # <<"right">>
    OBVIOUS
  <2> QED
    BY <2>1 DEF Game!MovePlate
<1>2. Game!Returns("on_input", NoKey) /\ UNCHANGED <<ball, moved, pongGhosts>>
  BY DEF Game!MovePlate, NoKey
<1>3. /\ PongTypeInv /\ StackInv /\ running \in {OnlyKey, KeyInBall} /\ running \in Stacks
      /\ KeyAt = where /\ InKey
  BY <1>1, InsideKey
<1>4. /\ at' \in [{"ball_move", "on_input"} -> BallPlaces \cup KeyPlaces]
      /\ KeyAt' = NoKey /\ BallAt' = BallAt /\ NoKey \in KeyPlaces
  <2>1. NoKey \in KeyPlaces
    BY DEF KeyPlaces
  <2> QED
    BY <1>2, <1>3, <2>1, KeyGoes DEF Game!Returns
<1>5. running' \in Stacks /\ ~InKey' /\ (InBall' <=> InBall)
  <2>1. \/ running = OnlyKey /\ running' = <<>>
        \/ running = KeyInBall /\ running' = OnlyBall
    BY <1>2, <1>3, StackReturns, StacksDiffer
  <2> QED
    BY <2>1, StacksDiffer DEF Stacks, InBall, InKey
<1>6. plate' \in (-PlateDir)..(Width + PlateDir)
  BY <1>1, <1>3, SmallProgramsAssumption DEF PongTypeInv, SmallProgramsAssumption
<1>7. X' = X /\ Y' = Y
  BY <1>2 DEF X, Y
<1>8. PongTypeInv'
  BY <1>2, <1>3, <1>4, <1>5, <1>6 DEF PongTypeInv
<1>9. StackInv'
  BY <1>3, <1>4, <1>5 DEF StackInv
<1>10. FieldInv' /\ TicksInv'
  BY <1>2, <1>4, <1>7 DEF PongInv, FieldInv, TicksInv
<1>11. LockstepInv'
  <2>1. \A k \in {1, -1} : KeyAt' # AddY(k) /\ KeyAt # AddY(k)
    BY <1>1, <1>3, <1>4, KeyPlacesDiffer
  <2> QED
    BY <1>2, <1>4, <1>5, <1>7, <2>1 DEF PongInv, LockstepInv
<1> QED
  BY <1>8, <1>9, <1>10, <1>11 DEF PongInv

LEMMA PongInvInit ==
  ASSUME Game!Init
  PROVE  PongInv
<1>1. /\ ball = [axis \in Game!Axes |-> [pos |-> IF axis = "x" THEN -Before ELSE Height \div 2,
                                         dir |-> 1, ttm |-> Delay, ttg |-> Delay]]
      /\ plate = Width \div 2
      /\ running = <<>> /\ moved = FALSE
      /\ at = [ball_move |-> TestY, on_input |-> NoKey]
      /\ pongGhosts = [raced |-> {}, leftover |-> FALSE, mixed |-> FALSE, caught |-> FALSE,
                       lost |-> FALSE, keys |-> 0]
  BY DEF Game!Init, Game!First, TestY, NoKey
<1>2. /\ Height \in Nat \ {0} /\ Width \in Nat \ {0} /\ Delay \in Nat \ {0}
      /\ Before \in Nat /\ PlateDir \in Nat
  BY SmallProgramsAssumption DEF SmallProgramsAssumption
<1>3. Height \div 2 \in 0..(Height - 1) /\ Width \div 2 \in 0..Width
  BY <1>2
<1>4. /\ Y = [pos |-> Height \div 2, dir |-> 1, ttm |-> Delay, ttg |-> Delay]
      /\ X = [pos |-> -Before, dir |-> 1, ttm |-> Delay, ttg |-> Delay]
  BY <1>1 DEF X, Y, Game!Axes
<1>5. X \in AxisStates /\ Y \in AxisStates
  BY <1>2, <1>3, <1>4 DEF AxisStates
<1>6. ball \in [Game!Axes -> AxisStates]
  <2>1. ball["y"] \in AxisStates /\ ball["x"] \in AxisStates
    BY <1>5 DEF X, Y
  <2> QED
    BY <1>1, <2>1 DEF Game!Axes
<1>7. BallAt = TestY /\ KeyAt = NoKey /\ TestY \in BallPlaces /\ NoKey \in KeyPlaces
  BY <1>1 DEF BallAt, KeyAt, BallPlaces, KeyPlaces
<1>8. at \in [{"ball_move", "on_input"} -> BallPlaces \cup KeyPlaces]
  BY <1>1, <1>7
<1>9. ~InBall /\ ~InKey /\ running \in Stacks
  BY <1>1, StacksDiffer DEF InBall, InKey, Stacks
<1>10. PongTypeInv
  <2>1. plate \in (-PlateDir)..(Width + PlateDir)
    BY <1>1, <1>2, <1>3
  <2>2. pongGhosts \in PongGhostStates
    BY <1>1 DEF PongGhostStates
  <2> QED
    BY <1>1, <1>6, <1>7, <1>8, <1>9, <2>1, <2>2 DEF PongTypeInv
<1>11. StackInv
  BY <1>7 DEF StackInv
<1>12. FieldInv
  BY <1>1, <1>2, <1>3, <1>4 DEF FieldInv
<1>13. TicksInv
  BY <1>2, <1>4 DEF TicksInv
<1>14. LockstepInv
  BY <1>1, <1>4, <1>7, <1>9, PlacesDiffer, KeyPlacesDiffer DEF LockstepInv
<1> QED
  BY <1>10, <1>11, <1>12, <1>13, <1>14 DEF PongInv

LEMMA PongInvNext ==
  ASSUME PongInv, [Game!Next]_pongVars
  PROVE  PongInv'
<1>1. CASE Game!BallMove
  BY <1>1, TickKeeps, TestYKeeps, TestXKeeps, ReloadYKeeps, ReloadXKeeps, BounceOrLoseKeeps
     DEF Game!BallMove, Game!Axes
<1>2. CASE Game!OnInput
  BY <1>2, KeyKeeps, AddToXKeeps, AddToYKeeps, MovePlateKeeps DEF Game!OnInput, Game!Axes
<1>3. CASE UNCHANGED pongVars
  BY <1>3 DEF pongVars, PongInv, PongTypeInv, StackInv, FieldInv, TicksInv, LockstepInv,
              InBall, InKey, BallAt, KeyAt, X, Y
<1> QED
  BY <1>1, <1>2, <1>3 DEF Game!Next

(* The invariant of the ball game, for any size of the field, any plate,   *)
(* any delay and any number of keys: src/Pong/pong.c, ball_move() and      *)
(* on_input().                                                             *)
THEOREM PongInvariant == AllSpec => [](program = "pong" => PongInv)
<1>1. AllInit => (program = "pong" => PongInv)
  BY PongInvInit DEF AllInit
<1>2. (program = "pong" => PongInv) /\ [AllNext]_allVars => (program = "pong" => PongInv)'
  <2>1. [AllNext]_allVars => [Game!Next]_pongVars /\ program' = program
    BY DEF AllNext, allVars
  <2> QED
    BY <2>1, PongInvNext
<1> QED
  BY <1>1, <1>2, PTL DEF AllSpec

(* Whatever keys come in the middle of a move, the ball stays in the field *)
(* and has ticks to go, unless ttm was taken to zero between its test and  *)
(* its use.                                                                *)
THEOREM BallGoesOnHolds == AllSpec => []BallGoesOn
<1>1. ASSUME program = "pong" => PongInv
      PROVE  BallGoesOn
  <2> SUFFICES ASSUME PongInv
               PROVE  Game!BallGoesOn
    BY <1>1 DEF BallGoesOn
  <2>1. ball["y"].pos \in 0..Height /\ ball["x"].pos \in (-Before)..Width
    BY DEF PongInv, FieldInv, X, Y
  <2>2. plate \in (-PlateDir)..(Width + PlateDir)
    BY DEF PongInv, PongTypeInv
  <2>3. InBall => \E i \in 1..Len(running) : running[i] = "ball_move"
    <3>1. /\ 1 \in 1..Len(OnlyBall) /\ 1 \in 1..Len(KeyInBall) /\ 2 \in 1..Len(BallInKey)
      BY StacksDiffer
    <3> QED
      BY <3>1, StacksDiffer DEF InBall
  <2>4. ~InBall => BallAt # ReloadY /\ BallAt # ReloadX
    BY PlacesDiffer DEF PongInv, StackInv
  <2>5. /\ ball["y"].ttg >= 1 \/ "y" \in pongGhosts.raced \/ InBall
        /\ ball["x"].ttg >= 1 \/ "x" \in pongGhosts.raced \/ InBall
    BY <2>4 DEF PongInv, TicksInv, X, Y
  <2> QED
    BY <2>1, <2>2, <2>3, <2>5 DEF Game!BallGoesOn, Game!Axes
<1> QED
  BY <1>1, PongInvariant, PTL

(* A ball that the plate has caught is not lost while it stands there,     *)
(* though the plate moves away, unless moved was left over or a speed key  *)
(* and a tick interrupted each other.                                      *)
THEOREM CaughtIsSafeHolds == AllSpec => []CaughtIsSafe
<1>1. ASSUME program = "pong" => PongInv
      PROVE  CaughtIsSafe
  BY <1>1 DEF CaughtIsSafe, Game!CaughtIsSafe, PongInv, LockstepInv
<1> QED
  BY <1>1, PongInvariant, PTL
=============================================================================
