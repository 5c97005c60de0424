---------------------------- MODULE ShmTimeProofs ----------------------------
(***************************************************************************)
(* What holds of the time server in shared memory for any number of        *)
(* servers and clients, started, interrupted and killed at any moment:     *)
(* ShmInv is inductive, so the semaphores count who holds a lock, a client *)
(* prints only whole texts, and no set of semaphores stays behind but that *)
(* of a killed server.                                                     *)
(***************************************************************************)
EXTENDS ShmTime, FiniteSetTheorems, SequenceTheorems, TLAPS

Texts == {Blank} \cup (Servers \X Nat)
Halves == Texts \X Texts
WritePlaces == {"write", "write_on", "release"}
ServerLoop == {"lock", "clean_seg", "clean_set"} \cup WritePlaces
ReadPlaces == {"read", "release"}

ServerStates ==
  [pc : {"start", "semget", "set_readers", "set_writer", "ended"} \cup ServerLoop,
   handler : {"none", "clean_seg", "clean_set"},
   seg : Nat, set : Nat, undo : -1..0, round : Nat]
ClientStates ==
  [pc : {"start", "semget", "lock", "leave", "ended"} \cup ReadPlaces,
   seg : Nat, set : Nat, undo : -1..1, seen : Halves]
GhostStates ==
  [early : SUBSET Nat, killed : SUBSET (Servers \cup Clients), torn : SUBSET Nat,
   starts : Nat, faults : Nat]

TypeInv ==
  /\ seg \in [key : Nat, text : Seq(Halves)]
  /\ seg.key \in {None, Len(seg.text)}
  /\ sem \in [key : Nat, made : Nat, val : [0..1 -> Nat]]
  /\ sem.key \in {None, sem.made}
  /\ server \in [Servers -> ServerStates]
  /\ client \in [Clients -> ClientStates]
  /\ shmGhosts \in GhostStates
  /\ shmGhosts.early \subseteq 1..sem.made

(* Every set was made by one server, which has it under its key until it   *)
(* has initialized the values and installed its handler.                   *)
SetInv ==
  /\ \A n \in 1..sem.made : \E s \in Servers : server[s].set = n
  /\ \A s, t \in Servers : server[s].set = server[t].set /\ server[s].set # None => s = t
  /\ \A s \in Servers :
       /\ server[s].set \in 0..sem.made
       /\ server[s].pc \in {"start", "semget"} => server[s].set = None
       /\ server[s].pc \in {"set_readers", "set_writer"} =>
            server[s].set = sem.key /\ server[s].set # None
       /\ server[s].pc \in ServerLoop => server[s].set # None
       /\ server[s].handler # "none" => server[s].pc \in ServerLoop
  /\ \A c \in Clients :
       /\ client[c].set \in 0..sem.made
       /\ client[c].pc \in {"start", "semget", "ended"} => client[c].set = None
       /\ client[c].pc \in ReadPlaces \cup {"leave"} => client[c].set # None

(* What the kernel would undo is what a process holds, also of a set that  *)
(* is gone; the clients of a set whose readers were set to zero excepted.  *)
UndoInv ==
  /\ \A s \in Servers : server[s].undo = IF server[s].pc \in WritePlaces THEN -1 ELSE 0
  /\ \A c \in Clients :
       /\ client[c].set \notin shmGhosts.early =>
            client[c].undo = IF client[c].pc \in ReadPlaces THEN -1 ELSE 0
       /\ client[c].pc \in {"start", "semget", "lock", "ended"} => client[c].undo = 0
       /\ client[c].pc \in ReadPlaces => client[c].undo \in -1..0
       /\ client[c].pc = "leave" => client[c].undo \in 0..1

CountInv ==
  sem.key \notin shmGhosts.early \cup {None} =>
    sem.val[0] = Cardinality(Reading) /\ sem.val[1] = Cardinality(Writing)

(* The clients of a set read or its server writes, also after it was       *)
(* removed.                                                                *)
ExclusionInv ==
  \A c \in Clients, s \in Servers :
    /\ client[c].set = server[s].set /\ client[c].set \notin shmGhosts.early
    /\ client[c].pc \in ReadPlaces
    => server[s].pc \notin WritePlaces

(* The only server with a set among those of a segment.                    *)
WritesAlone(s) ==
  \A t \in Servers \ {s} : server[t].set # None => server[t].seg # server[s].seg

(* A segment is blank until a server of it has a set.  Of a server that    *)
(* writes alone the text is whole, or its first half is the new text.      *)
TextInv ==
  /\ \A s \in Servers : server[s].pc # "start" => server[s].seg \in 1..Len(seg.text)
  /\ \A g \in 1..Len(seg.text) :
       (\A s \in Servers : server[s].set # None => server[s].seg # g)
       => seg.text[g] = <<Blank, Blank>>
  /\ \A s \in Servers :
       server[s].set # None /\ WritesAlone(s) /\ server[s].seg \notin shmGhosts.torn =>
         /\ server[s].pc # "write_on" =>
              seg.text[server[s].seg][1] = seg.text[server[s].seg][2]
         /\ server[s].pc = "write_on" =>
              seg.text[server[s].seg][1] = <<s, server[s].round>>

(* What a client looks at is there, and was not read before it is.         *)
SeenInv ==
  \A c \in Clients :
    /\ client[c].pc \notin {"start", "ended"} => client[c].seg \in 1..Len(seg.text)
    /\ client[c].pc \notin {"release", "leave"} => client[c].seen = <<Blank, Blank>>

ShmInv ==
  /\ TypeInv /\ SetInv /\ UndoInv /\ CountInv /\ ExclusionInv
  /\ TextInv /\ SeenInv /\ NoTornText /\ SetHasServer

-----------------------------------------------------------------------------
(* Readers and writers are finitely many, and one more or one less of them *)
(* counts one.                                                             *)
LEMMA HoldersFinite ==
  /\ IsFiniteSet(Reading) /\ Cardinality(Reading) \in Nat
  /\ IsFiniteSet(Writing) /\ Cardinality(Writing) \in Nat
  /\ Cardinality(Reading) = 0 <=> Reading = {}
  /\ Cardinality(Writing) = 0 <=> Writing = {}
<1>1. Reading \in SUBSET Clients /\ Writing \in SUBSET Servers
  BY DEF Reading, Writing
<1>2. IsFiniteSet(Reading) /\ IsFiniteSet(Writing)
  BY <1>1, FS_Subset, ShmTimeAssumption DEF ShmTimeAssumption
<1> QED
  BY <1>2, FS_CardinalityType, FS_EmptySet

LEMMA HolderJoins ==
  ASSUME NEW x
  PROVE  /\ x \notin Reading /\ Reading' = Reading \cup {x} =>
              Cardinality(Reading') = Cardinality(Reading) + 1
         /\ x \notin Writing /\ Writing' = Writing \cup {x} =>
              Cardinality(Writing') = Cardinality(Writing) + 1
BY HoldersFinite, FS_AddElement

LEMMA HolderLeaves ==
  ASSUME NEW x
  PROVE  /\ x \in Reading /\ Reading' = Reading \ {x} =>
              Cardinality(Reading') = Cardinality(Reading) - 1
         /\ x \in Writing /\ Writing' = Writing \ {x} =>
              Cardinality(Writing') = Cardinality(Writing) - 1
BY HoldersFinite, FS_RemoveElement

(* What a semaphore is set to, and what that leaves as it was.             *)
LEMMA SemSet ==
  ASSUME TypeInv, NEW i \in 0..1, NEW v \in Nat, sem' = [sem EXCEPT !.val[i] = v]
  PROVE  /\ sem' \in [key : Nat, made : Nat, val : [0..1 -> Nat]]
         /\ sem'.key = sem.key /\ sem'.made = sem.made /\ sem'.val[i] = v
         /\ \A j \in (0..1) \ {i} : sem'.val[j] = sem.val[j]
<1>1. PICK val \in [0..1 -> Nat] : val = [sem.val EXCEPT ![i] = v]
  BY DEF TypeInv
<1>2. val[i] = v /\ \A j \in (0..1) \ {i} : val[j] = sem.val[j]
  BY <1>1 DEF TypeInv
<1>3. sem' = [sem EXCEPT !.val = val]
  BY <1>1 DEF TypeInv
<1> QED
  BY <1>2, <1>3 DEF TypeInv

LEMMA InitShm == Init => ShmInv
<1> SUFFICES ASSUME Init PROVE ShmInv
  OBVIOUS
<1> USE ShmTimeAssumption DEF ShmTimeAssumption, Init, Client, None, Blank
<1>1. TypeInv
  BY DEF TypeInv, ServerStates, ClientStates, GhostStates, ServerLoop, Texts, Halves
<1>2. SetInv /\ UndoInv /\ ExclusionInv /\ CountInv /\ SetHasServer
  BY DEF SetInv, UndoInv, ExclusionInv, CountInv, SetHasServer, ReadPlaces, ServerLoop, WritePlaces
<1>3. TextInv /\ SeenInv /\ NoTornText
  BY DEF TextInv, SeenInv, NoTornText
<1> QED
  BY <1>1, <1>2, <1>3 DEF ShmInv

-----------------------------------------------------------------------------
(* The steps of clients.                                                   *)

ClientBecomes(c, r) ==
  /\ client' \in [Clients -> ClientStates] /\ client'[c] = r
  /\ \A d \in Clients \ {c} : client'[d] = client[d]

LEMMA ClientSet ==
  ASSUME TypeInv, NEW c \in Clients, NEW r \in ClientStates, client' = [client EXCEPT ![c] = r]
  PROVE  ClientBecomes(c, r)
BY DEF ClientBecomes, TypeInv

(* A client that only moves on between its calls.                          *)
LEMMA ClientMoves ==
  ASSUME ShmInv, NEW c \in Clients, UNCHANGED <<sem, server>>,
         shmGhosts' \in GhostStates, shmGhosts'.early = shmGhosts.early,
         shmGhosts'.killed = shmGhosts.killed, shmGhosts'.torn = shmGhosts.torn,
         client[c].pc \notin ReadPlaces,
         NEW r \in ClientStates, ClientBecomes(c, r),
         r.pc \in {"semget", "lock"}, r.seg \in 1..Len(seg'.text), r.set \in 0..sem.made,
         r.pc = "semget" => r.set = None, r.undo = 0, r.seen = <<Blank, Blank>>,
         seg' \in [key : Nat, text : Seq(Halves)], seg'.key \in {None, Len(seg'.text)},
         seg' = seg \/ seg'.text = Append(seg.text, <<Blank, Blank>>)
  PROVE  ShmInv'
<1> USE ShmTimeAssumption DEF ShmTimeAssumption, None, Blank, ShmInv
<1>1. /\ client' \in [Clients -> ClientStates]
      /\ client'[c].pc = r.pc /\ client'[c].seg = r.seg /\ client'[c].set = r.set
      /\ client'[c].undo = 0 /\ client'[c].seen = <<Blank, Blank>>
      /\ r.pc \notin ReadPlaces \cup {"start", "leave", "ended"}
      /\ \A d \in Clients \ {c} : client'[d] = client[d]
  BY DEF ClientBecomes, ReadPlaces
<1>2. TypeInv'
  BY <1>1 DEF TypeInv
<1>3. SetInv' /\ UndoInv' /\ ExclusionInv' /\ SetHasServer'
  <2>1. SetInv'
    BY <1>1 DEF SetInv
  <2>2. UndoInv'
    BY <1>1 DEF UndoInv
  <2>3. ExclusionInv' /\ SetHasServer'
    BY <1>1 DEF ExclusionInv, SetHasServer
  <2> QED
    BY <2>1, <2>2, <2>3
<1>4. Reading' = Reading /\ Writing' = Writing
  BY <1>1 DEF Reading, Writing, Exists, ReadPlaces
<1>5. CountInv'
  BY <1>4 DEF CountInv
<1>6. TextInv'
  <2>1. CASE seg' = seg
    BY <2>1 DEF TextInv, WritesAlone
  <2>2. CASE seg'.text = Append(seg.text, <<Blank, Blank>>)
    <3>1. /\ Len(seg'.text) = Len(seg.text) + 1 /\ Len(seg.text) \in Nat
          /\ seg'.text[Len(seg.text) + 1] = <<Blank, Blank>>
          /\ \A g \in 1..Len(seg.text) : seg'.text[g] = seg.text[g]
      <4>1. <<Blank, Blank>> \in Halves /\ seg.text \in Seq(Halves)
        BY DEF TypeInv, Halves, Texts
      <4> QED
        BY <2>2, <4>1, AppendProperties, LenProperties
    <3>2. \A s \in Servers : server[s].set # None => server[s].seg \in 1..Len(seg.text)
      BY DEF TextInv, SetInv
    <3>3. \A s \in Servers : server[s].seg \in 1..Len(seg.text) => server[s].seg \in 1..Len(seg'.text)
      BY <3>1
    <3>4. \A g \in 1..Len(seg'.text) : g \in 1..Len(seg.text) \/ g = Len(seg.text) + 1
      BY <3>1
    <3>5. \A s \in Servers : server[s].pc # "start" => server[s].seg \in 1..Len(seg'.text)
      BY <3>3 DEF TextInv
    <3>6. \A n \in 1..Len(seg'.text) :
            (\A s \in Servers : server[s].set # None => server[s].seg # n)
            => seg'.text[n] = <<Blank, Blank>>
      BY <3>1, <3>4 DEF TextInv
    <3>7. \A s \in Servers : server[s].set # None =>
            seg'.text[server[s].seg] = seg.text[server[s].seg]
      BY <3>1, <3>2
    <3> QED
      BY <3>5, <3>6, <3>7 DEF TextInv, WritesAlone
  <2> QED
    BY <2>1, <2>2
<1>7. NoTornText'
  BY <1>1 DEF NoTornText
<1>8. SeenInv'
  <2>1. \A n \in 1..Len(seg.text) : n \in 1..Len(seg'.text)
    <3>1. <<Blank, Blank>> \in Halves /\ seg.text \in Seq(Halves)
      BY DEF TypeInv, Halves, Texts
    <3>2. Len(seg.text) \in Nat /\ Len(seg'.text) \in {Len(seg.text), Len(seg.text) + 1}
      BY <3>1, AppendProperties, LenProperties
    <3> QED
      BY <3>2
  <2> QED
    BY <1>1, <2>1 DEF SeenInv
<1> QED
  BY <1>2, <1>3, <1>5, <1>6, <1>7, <1>8

(* What the segments hold is the servers' affair.                          *)
LEMMA TextFrame ==
  ASSUME ShmInv, UNCHANGED <<seg, server>>, shmGhosts'.torn = shmGhosts.torn
  PROVE  TextInv'
BY DEF ShmInv, TextInv, WritesAlone

LEMMA StartGives ==
  ASSUME TypeInv, Start
  PROVE  /\ shmGhosts' \in GhostStates /\ shmGhosts'.early = shmGhosts.early
         /\ shmGhosts'.killed = shmGhosts.killed /\ shmGhosts'.torn = shmGhosts.torn
<1>1. PICK n \in Nat : n = shmGhosts.starts + 1
  BY DEF TypeInv, GhostStates
<1>2. shmGhosts' = [shmGhosts EXCEPT !.starts = n]
  BY <1>1 DEF Start
<1> QED
  BY <1>2 DEF TypeInv, GhostStates

LEMMA KillGives ==
  ASSUME TypeInv, NEW p \in Servers \cup Clients, NEW g \in SUBSET Nat,
         shmGhosts' = [shmGhosts EXCEPT !.faults = @ + 1, !.killed = @ \cup {p}, !.torn = @ \cup g]
  PROVE  /\ shmGhosts' \in GhostStates /\ shmGhosts'.early = shmGhosts.early
         /\ shmGhosts'.killed = shmGhosts.killed \cup {p}
         /\ shmGhosts'.torn = shmGhosts.torn \cup g
<1>1. PICK f \in Nat : f = shmGhosts.faults + 1
  BY DEF TypeInv, GhostStates
<1>2. PICK k \in SUBSET (Servers \cup Clients) : k = shmGhosts.killed \cup {p}
  BY DEF TypeInv, GhostStates
<1>3. PICK t \in SUBSET Nat : t = shmGhosts.torn \cup g
  BY DEF TypeInv, GhostStates
<1>4. shmGhosts' = [shmGhosts EXCEPT !.faults = f, !.killed = k, !.torn = t]
  BY <1>1, <1>2, <1>3
<1> QED
  BY <1>2, <1>3, <1>4 DEF TypeInv, GhostStates

(* There is a segment after shmget().                                      *)
LEMMA ShmgetGives ==
  ASSUME TypeInv, Shmget
  PROVE  /\ seg' \in [key : Nat, text : Seq(Halves)]
         /\ seg'.key = Len(seg'.text) /\ seg'.key \in 1..Len(seg'.text) /\ seg'.key \in Nat
         /\ seg' = seg \/ seg'.text = Append(seg.text, <<Blank, Blank>>)
<1> USE DEF Shmget, None
<1>1. <<Blank, Blank>> \in Halves /\ seg.text \in Seq(Halves) /\ Len(seg.text) \in Nat
  BY LenProperties DEF Halves, Texts, TypeInv
<1>2. CASE seg.key = None
  BY <1>1, <1>2, AppendProperties
<1>3. CASE seg.key # None
  BY <1>1, <1>3 DEF TypeInv
<1> QED
  BY <1>2, <1>3

LEMMA LockClientKeeps ==
  ASSUME ShmInv, NEW c \in Clients, LockClient(c)
  PROVE  ShmInv'
<1> USE ShmTimeAssumption DEF ShmTimeAssumption, None, Blank, ShmInv, LockClient, At
<1>1. /\ client' \in [Clients -> ClientStates]
      /\ client[c].pc = "lock" /\ client[c].undo = 0
      /\ client'[c].pc = "read" /\ client'[c].undo = -1
      /\ client'[c].seg = client[c].seg /\ client'[c].set = client[c].set
      /\ client'[c].seen = client[c].seen
      /\ \A d \in Clients \ {c} : client'[d] = client[d]
      /\ UNCHANGED <<seg, server, shmGhosts>>
  BY DEF TypeInv, ClientStates, UndoInv, ReadPlaces
<1>2. /\ client[c].set = sem.key /\ sem.key # None /\ sem.val[1] = 0
      /\ sem'.key = sem.key /\ sem'.made = sem.made
      /\ sem'.val[0] = sem.val[0] + 1 /\ sem'.val[1] = sem.val[1]
      /\ sem' \in [key : Nat, made : Nat, val : [0..1 -> Nat]]
  <2>1. PICK v \in Nat : v = sem.val[0] + 1
    BY DEF TypeInv
  <2>2. sem' = [sem EXCEPT !.val[0] = v] /\ TypeInv
    BY <2>1 DEF Plus
  <2> QED
    BY <2>1, <2>2, SemSet DEF Exists
<1>3. TypeInv'
  BY <1>1, <1>2 DEF TypeInv
<1>4. SetInv' /\ UndoInv' /\ SetHasServer' /\ SeenInv'
  BY <1>1, <1>2 DEF SetInv, UndoInv, SetHasServer, SeenInv, ReadPlaces
<1>5. sem.key \notin shmGhosts.early => Writing = {}
  BY <1>2, HoldersFinite DEF CountInv
<1>6. ExclusionInv'
  BY <1>1, <1>2, <1>5 DEF ExclusionInv, Writing, Exists, WritePlaces
<1>7. CountInv'
  <2>1. c \notin Reading /\ Writing' = Writing
    BY <1>1, <1>2 DEF Reading, Writing, Exists
  <2>2. \A d \in Clients : d \in Reading' <=> d \in Reading \cup {c}
    BY <1>1, <1>2 DEF Reading, Exists
  <2>3. Reading' = Reading \cup {c}
    BY <2>2 DEF Reading
  <2> QED
    BY <1>1, <1>2, <2>1, <2>3, HolderJoins DEF CountInv
<1>8. NoTornText'
  BY <1>1 DEF NoTornText
<1> QED
  BY <1>1, <1>3, <1>4, <1>6, <1>7, <1>8, TextFrame

(* A reader reads while the only server of its segment does not write.     *)
LEMMA ReadKeeps ==
  ASSUME ShmInv, NEW c \in Clients, Read(c)
  PROVE  ShmInv'
<1> USE ShmTimeAssumption DEF ShmTimeAssumption, None, Blank, ShmInv, Read, At
<1>1. /\ client[c].pc = "read" /\ client[c].seg \in 1..Len(seg.text)
      /\ seg.text[client[c].seg] \in Halves
  BY ElementOfSeq DEF SeenInv, TypeInv
<1>2. /\ client' \in [Clients -> ClientStates]
      /\ client'[c].pc = "release" /\ client'[c].undo = client[c].undo
      /\ client'[c].seg = client[c].seg /\ client'[c].set = client[c].set
      /\ client'[c].seen = seg.text[client[c].seg]
      /\ \A d \in Clients \ {c} : client'[d] = client[d]
      /\ UNCHANGED <<seg, sem, server, shmGhosts>>
  <2>1. PICK r \in ClientStates :
          r = [client[c] EXCEPT !.pc = "release", !.seen = seg.text[client[c].seg]]
    BY <1>1 DEF TypeInv, ClientStates, ReadPlaces
  <2>2. /\ r.pc = "release" /\ r.undo = client[c].undo /\ r.seg = client[c].seg
        /\ r.set = client[c].set /\ r.seen = seg.text[client[c].seg]
    BY <2>1 DEF TypeInv, ClientStates
  <2>3. client' = [client EXCEPT ![c] = r]
    BY <2>1 DEF TypeInv
  <2> QED
    BY <2>2, <2>3 DEF TypeInv
<1>3. TypeInv'
  BY <1>2 DEF TypeInv
<1>4. SetInv' /\ UndoInv' /\ ExclusionInv' /\ SetHasServer' /\ SeenInv'
  <2>1. SetInv' /\ SetHasServer'
    BY <1>1, <1>2 DEF SetInv, SetHasServer, ReadPlaces
  <2>2. UndoInv'
    BY <1>1, <1>2 DEF UndoInv, ReadPlaces
  <2>3. ExclusionInv' /\ SeenInv'
    BY <1>1, <1>2 DEF ExclusionInv, SeenInv, ReadPlaces
  <2> QED
    BY <2>1, <2>2, <2>3
<1>5. Reading' = Reading /\ Writing' = Writing
  BY <1>1, <1>2 DEF Reading, Writing, Exists
<1>6. CountInv'
  BY <1>2, <1>5 DEF CountInv
<1>7. NoTornText'
  <2> SUFFICES ASSUME \A s \in Servers :
                        server[s].seg = client[c].seg /\ server[s].set # None
                          <=> server[s].set = client[c].set,
                      client[c].set \notin shmGhosts.early, client[c].seg \notin shmGhosts.torn
               PROVE  seg.text[client[c].seg][1] = seg.text[client[c].seg][2]
    BY <1>2 DEF NoTornText
  <2>1. client[c].set \in 1..sem.made
    BY <1>1 DEF SetInv, ReadPlaces, TypeInv
  <2>2. PICK s \in Servers : server[s].set = client[c].set
    BY <2>1 DEF SetInv
  <2>3. server[s].seg = client[c].seg /\ server[s].set # None /\ WritesAlone(s)
    BY <2>1, <2>2 DEF WritesAlone, SetInv
  <2>4. server[s].pc # "write_on"
    BY <1>1, <2>2 DEF ExclusionInv, ReadPlaces, WritePlaces
  <2> QED
    BY <2>3, <2>4 DEF TextInv
<1> QED
  BY <1>2, <1>3, <1>4, <1>6, <1>7, TextFrame

LEMMA ReleaseClientKeeps ==
  ASSUME ShmInv, NEW c \in Clients, ReleaseClient(c)
  PROVE  ShmInv'
<1> USE ShmTimeAssumption DEF ShmTimeAssumption, None, Blank, ShmInv, ReleaseClient, At
<1>1. /\ client[c].pc = "release" /\ client[c].undo \in -1..0
      /\ client[c].set = sem.key /\ sem.key # None /\ sem.val[0] > 0
  BY DEF UndoInv, ReadPlaces, Exists
<1>2. /\ client' \in [Clients -> ClientStates]
      /\ client'[c].pc = "leave" /\ client'[c].undo = client[c].undo + 1
      /\ client'[c].seg = client[c].seg /\ client'[c].set = client[c].set
      /\ client'[c].seen = client[c].seen
      /\ \A d \in Clients \ {c} : client'[d] = client[d]
      /\ UNCHANGED <<seg, server, shmGhosts>>
  BY <1>1 DEF TypeInv, ClientStates
<1>3. /\ sem'.key = sem.key /\ sem'.made = sem.made
      /\ sem'.val[0] = sem.val[0] - 1 /\ sem'.val[1] = sem.val[1]
      /\ sem' \in [key : Nat, made : Nat, val : [0..1 -> Nat]]
  <2>1. PICK v \in Nat : v = sem.val[0] - 1
    BY <1>1 DEF TypeInv
  <2>2. sem' = [sem EXCEPT !.val[0] = v] /\ TypeInv
    BY <2>1 DEF Plus, TypeInv
  <2> QED
    BY <2>1, <2>2, SemSet
<1>4. TypeInv'
  BY <1>2, <1>3 DEF TypeInv
<1>5. SetInv' /\ UndoInv' /\ ExclusionInv' /\ SetHasServer' /\ SeenInv'
  <2>1. SetInv' /\ SetHasServer'
    BY <1>1, <1>2, <1>3 DEF SetInv, SetHasServer, ReadPlaces
  <2>2. UndoInv'
    BY <1>1, <1>2, <1>3 DEF UndoInv, ReadPlaces
  <2>3. ExclusionInv' /\ SeenInv'
    BY <1>1, <1>2, <1>3 DEF ExclusionInv, SeenInv, ReadPlaces
  <2> QED
    BY <2>1, <2>2, <2>3
<1>6. CountInv'
  <2>1. c \in Reading /\ Writing' = Writing
    BY <1>1, <1>2, <1>3 DEF Reading, Writing, Exists
  <2>2. \A d \in Clients : d \in Reading' <=> d \in Reading \ {c}
    BY <1>1, <1>2, <1>3 DEF Reading, Exists
  <2>3. Reading' = Reading \ {c}
    BY <2>2 DEF Reading
  <2> QED
    BY <1>1, <1>2, <1>3, <2>1, <2>3, HolderLeaves DEF CountInv
<1>7. NoTornText'
  BY <1>2 DEF NoTornText
<1> QED
  BY <1>2, <1>4, <1>5, <1>6, <1>7, TextFrame

(* The kernel undoes what a client held, and that is one of the readers    *)
(* counted.                                                                *)
LEMMA EndClientKeeps ==
  ASSUME ShmInv, NEW c \in Clients, EndClient(c), UNCHANGED <<seg, server>>,
         shmGhosts' \in GhostStates, shmGhosts'.early = shmGhosts.early,
         shmGhosts.killed \subseteq shmGhosts'.killed, shmGhosts'.torn = shmGhosts.torn
  PROVE  ShmInv'
<1> USE ShmTimeAssumption DEF ShmTimeAssumption, None, Blank, ShmInv, EndClient
<1>1. /\ client' \in [Clients -> ClientStates]
      /\ client'[c].pc = "ended" /\ client'[c].undo = 0 /\ client'[c].set = None
      /\ client'[c].seen = <<Blank, Blank>>
      /\ \A d \in Clients \ {c} : client'[d] = client[d]
  BY DEF TypeInv, ClientStates, Client, Halves, Texts
<1>2. /\ sem'.key = sem.key /\ sem'.made = sem.made /\ sem'.val[1] = sem.val[1]
      /\ sem' \in [key : Nat, made : Nat, val : [0..1 -> Nat]]
      /\ ~Exists(client[c].set) => sem' = sem
      /\ Exists(client[c].set) /\ sem.val[0] + client[c].undo >= 0 =>
           sem'.val[0] = sem.val[0] + client[c].undo
  <2>1. CASE ~Exists(client[c].set)
    BY <2>1 DEF Undone, TypeInv
  <2>2. CASE Exists(client[c].set)
    <3>1. client[c].undo \in -1..1 /\ sem.val[0] \in Nat
      BY DEF TypeInv, ClientStates
    <3>2. PICK v \in Nat : v = IF sem.val[0] + client[c].undo < 0 THEN 0
                               ELSE sem.val[0] + client[c].undo
      BY <3>1
    <3>3. sem' = [sem EXCEPT !.val[0] = v] /\ TypeInv
      BY <2>2, <3>2 DEF Undone
    <3> QED
      BY <2>2, <3>1, <3>2, <3>3, SemSet
  <2> QED
    BY <2>1, <2>2
<1>3. TypeInv'
  BY <1>1, <1>2 DEF TypeInv
<1>4. SetInv' /\ UndoInv' /\ ExclusionInv' /\ SetHasServer' /\ SeenInv'
  <2>1. SetInv' /\ SetHasServer'
    BY <1>1, <1>2 DEF SetInv, SetHasServer, ReadPlaces, TypeInv
  <2>2. UndoInv'
    BY <1>1, <1>2 DEF UndoInv, ReadPlaces
  <2>3. ExclusionInv' /\ SeenInv'
    BY <1>1, <1>2 DEF ExclusionInv, SeenInv, ReadPlaces
  <2> QED
    BY <2>1, <2>2, <2>3
<1>5. Writing' = Writing /\ Reading' = Reading \ {c}
  <2>1. \A d \in Clients : d \in Reading' <=> d \in Reading \ {c}
    BY <1>1, <1>2 DEF Reading, Exists
  <2> QED
    BY <1>2, <2>1 DEF Reading, Writing, Exists
<1>6. CountInv'
  <2> SUFFICES ASSUME sem.key \notin shmGhosts.early \cup {None}
               PROVE  sem'.val[0] = Cardinality(Reading')
    BY <1>2, <1>5 DEF CountInv
  <2>1. sem.val[0] = Cardinality(Reading)
    BY DEF CountInv
  <2>2. CASE c \in Reading
    <3>1. Exists(client[c].set) /\ client[c].undo = -1
      BY <2>2 DEF Reading, UndoInv, Exists, ReadPlaces
    <3>2. Cardinality(Reading) >= 1
      BY <2>2, HoldersFinite
    <3>3. Cardinality(Reading') = Cardinality(Reading) - 1
      BY <1>5, <2>2, HolderLeaves
    <3> QED
      BY <1>2, <2>1, <3>1, <3>2, <3>3, HoldersFinite
  <2>3. CASE c \notin Reading
    <3>1. Exists(client[c].set) => client[c].undo = 0
      BY <2>3 DEF Reading, UndoInv, Exists, ReadPlaces
    <3>2. Reading' = Reading
      BY <1>5, <2>3
    <3> QED
      BY <1>2, <2>1, <3>1, <3>2, HoldersFinite
  <2> QED
    BY <2>2, <2>3
<1>7. NoTornText'
  BY <1>1 DEF NoTornText
<1> QED
  BY <1>3, <1>4, <1>6, <1>7, TextFrame

LEMMA AttachClientKeeps ==
  ASSUME ShmInv, NEW c \in Clients, AttachClient(c)
  PROVE  ShmInv'
<1> USE DEF AttachClient, At, None
<1>1. /\ client[c].set = None /\ client[c].undo = 0 /\ client[c].seen = <<Blank, Blank>>
      /\ client[c] \in ClientStates /\ client[c].pc \notin ReadPlaces
  BY DEF ShmInv, SetInv, UndoInv, SeenInv, TypeInv, ReadPlaces
<1>2. /\ seg' \in [key : Nat, text : Seq(Halves)]
      /\ seg'.key = Len(seg'.text) /\ seg'.key \in 1..Len(seg'.text) /\ seg'.key \in Nat
      /\ seg' = seg \/ seg'.text = Append(seg.text, <<Blank, Blank>>)
  BY ShmgetGives DEF ShmInv
<1>3. PICK r \in ClientStates : r = [client[c] EXCEPT !.pc = "semget", !.seg = seg'.key]
  BY <1>1, <1>2 DEF ClientStates
<1>4. /\ r.pc = "semget" /\ r.undo = 0 /\ r.seg = seg'.key /\ r.set = 0
      /\ r.seen = <<Blank, Blank>>
  BY <1>1, <1>3 DEF ClientStates
<1>5. ClientBecomes(c, r)
  <2>1. client' = [client EXCEPT ![c] = r]
    BY <1>3 DEF ShmInv, TypeInv
  <2> QED
    BY <2>1, ClientSet DEF ShmInv
<1>6. /\ shmGhosts' \in GhostStates /\ shmGhosts'.early = shmGhosts.early
      /\ shmGhosts'.killed = shmGhosts.killed /\ shmGhosts'.torn = shmGhosts.torn
      /\ 0 \in 0..sem.made
  BY StartGives DEF ShmInv, TypeInv
<1> QED
  BY <1>1, <1>2, <1>4, <1>5, <1>6, ClientMoves

LEMMA FindSetKeeps ==
  ASSUME ShmInv, NEW c \in Clients, FindSet(c)
  PROVE  ShmInv'
<1> USE DEF FindSet, At, None
<1>1. /\ client[c].undo = 0 /\ client[c].seen = <<Blank, Blank>>
      /\ client[c].seg \in 1..Len(seg.text)
      /\ client[c] \in ClientStates /\ client[c].pc \notin ReadPlaces
      /\ sem.key \in Nat /\ sem.key \in 0..sem.made
  BY DEF ShmInv, SetInv, UndoInv, SeenInv, TypeInv, ReadPlaces
<1>2. PICK r \in ClientStates : r = [client[c] EXCEPT !.pc = "lock", !.set = sem.key]
  BY <1>1 DEF ClientStates
<1>3. /\ r.pc = "lock" /\ r.undo = 0 /\ r.seg = client[c].seg /\ r.set = sem.key
      /\ r.seen = <<Blank, Blank>>
  BY <1>1, <1>2 DEF ClientStates
<1>4. ClientBecomes(c, r)
  <2>1. client' = [client EXCEPT ![c] = r]
    BY <1>2 DEF ShmInv, TypeInv
  <2> QED
    BY <2>1, ClientSet DEF ShmInv
<1>5. /\ shmGhosts' \in GhostStates /\ shmGhosts' = shmGhosts /\ seg' = seg
      /\ seg' \in [key : Nat, text : Seq(Halves)] /\ seg'.key \in {None, Len(seg'.text)}
  BY DEF ShmInv, TypeInv
<1> QED
  BY <1>1, <1>3, <1>4, <1>5, ClientMoves

LEMMA ClientKeeps ==
  ASSUME ShmInv, NEW c \in Clients, AttachClient(c) \/ ClientStep(c) \/ KillClient(c)
  PROVE  ShmInv'
<1>1. CASE LeaveClient(c)
  BY <1>1, EndClientKeeps DEF LeaveClient, ShmInv, TypeInv
<1>2. CASE KillClient(c)
  <2>1. PICK g \in SUBSET Nat : g = {}
    OBVIOUS
  <2>2. shmGhosts' = [shmGhosts EXCEPT !.faults = @ + 1, !.killed = @ \cup {c}, !.torn = @ \cup g]
    BY <1>2, <2>1 DEF KillClient, ShmInv, TypeInv, GhostStates
  <2>3. /\ shmGhosts' \in GhostStates /\ shmGhosts'.early = shmGhosts.early
        /\ shmGhosts'.killed = shmGhosts.killed \cup {c}
        /\ shmGhosts'.torn = shmGhosts.torn \cup g
    BY <2>2, KillGives DEF ShmInv
  <2> QED
    BY <1>2, <2>1, <2>3, EndClientKeeps DEF KillClient
<1> QED
  BY <1>1, <1>2, AttachClientKeeps, FindSetKeeps, LockClientKeeps, ReadKeeps, ReleaseClientKeeps
  DEF ClientStep

-----------------------------------------------------------------------------
(* The steps of servers.                                                   *)

ServerBecomes(s, r) ==
  /\ server' \in [Servers -> ServerStates] /\ server'[s] = r
  /\ \A t \in Servers \ {s} : server'[t] = server[t]

LEMMA ServerSet ==
  ASSUME TypeInv, NEW s \in Servers, NEW r \in ServerStates, server' = [server EXCEPT ![s] = r]
  PROVE  ServerBecomes(s, r)
BY DEF ServerBecomes, TypeInv

LEMMA GoToGives ==
  ASSUME TypeInv, NEW s \in Servers,
         NEW pc \in {"set_writer", "write_on", "release", "lock", "clean_set", "ended"}, GoTo(s, pc)
  PROVE  \E r \in ServerStates :
           /\ ServerBecomes(s, r) /\ r.pc = pc /\ r.handler = server[s].handler
           /\ r.seg = server[s].seg /\ r.set = server[s].set
           /\ r.undo = server[s].undo /\ r.round = server[s].round
<1>1. server[s] \in ServerStates
  BY DEF TypeInv
<1>2. PICK r \in ServerStates : r = [server[s] EXCEPT !.pc = pc]
  BY <1>1 DEF ServerStates, ServerLoop, WritePlaces
<1>3. server' = [server EXCEPT ![s] = r]
  BY <1>2 DEF GoTo, TypeInv
<1>4. ServerBecomes(s, r)
  BY <1>3, ServerSet
<1> QED
  BY <1>1, <1>2, <1>4 DEF ServerStates

LEMMA HandlerGives ==
  ASSUME TypeInv, NEW s \in Servers, NEW handler \in {"none", "clean_seg", "clean_set"},
         server' = [server EXCEPT ![s].handler = handler]
  PROVE  \E r \in ServerStates :
           /\ ServerBecomes(s, r) /\ r.pc = server[s].pc /\ r.handler = handler
           /\ r.seg = server[s].seg /\ r.set = server[s].set
           /\ r.undo = server[s].undo /\ r.round = server[s].round
<1>1. server[s] \in ServerStates
  BY DEF TypeInv
<1>2. PICK r \in ServerStates : r = [server[s] EXCEPT !.handler = handler]
  BY <1>1 DEF ServerStates
<1>3. server' = [server EXCEPT ![s] = r]
  BY <1>2 DEF TypeInv
<1>4. ServerBecomes(s, r)
  BY <1>3, ServerSet
<1> QED
  BY <1>1, <1>2, <1>4 DEF ServerStates

(* Of a server that moves on between the operations on its set.            *)
LEMMA LoopMoves ==
  ASSUME ShmInv, NEW s \in Servers, NEW r \in ServerStates, ServerBecomes(s, r), UNCHANGED client,
         r.seg = server[s].seg, r.set = server[s].set, r.set # None, r.pc \in ServerLoop,
         r.undo = IF r.pc \in WritePlaces THEN -1 ELSE 0,
         server[s].pc \notin {"start", "ended"},
         r.pc \in WritePlaces => \/ server[s].pc \in WritePlaces
                                 \/ sem.key = r.set /\ (sem.key \notin shmGhosts.early => Reading = {}),
         sem' \in [key : Nat, made : Nat, val : [0..1 -> Nat]],
         sem'.key = sem.key, sem'.made = sem.made,
         seg' \in [key : Nat, text : Seq(Halves)], seg'.key \in {None, Len(seg'.text)},
         Len(seg'.text) = Len(seg.text),
         shmGhosts' \in GhostStates, shmGhosts'.early = shmGhosts.early,
         shmGhosts'.killed = shmGhosts.killed, shmGhosts'.torn = shmGhosts.torn
  PROVE  CountInv' /\ TextInv' => ShmInv'
<1> USE DEF ShmInv, ServerBecomes, None
<1>0. \A t \in Servers :
        /\ server'[t].set = server[t].set /\ server'[t].seg = server[t].seg
        /\ t = s \/ server'[t] = server[t]
  OBVIOUS
<1>1. TypeInv'
  BY DEF TypeInv
<1>2. SetInv' /\ UndoInv'
  <2>1. r.pc \notin {"start", "semget", "set_readers", "set_writer"}
    BY DEF ServerLoop, WritePlaces
  <2>2. SetInv'
    <3>1. \A n \in 1..sem.made : \E t \in Servers : server'[t].set = n
      BY <1>0 DEF SetInv
    <3>2. \A t, u \in Servers : server'[t].set = server'[u].set /\ server'[t].set # None => t = u
      BY <1>0 DEF SetInv
    <3>3. ASSUME NEW t \in Servers
          PROVE  /\ server'[t].set \in 0..sem.made
                 /\ server'[t].pc \in {"start", "semget"} => server'[t].set = None
                 /\ server'[t].pc \in {"set_readers", "set_writer"} =>
                      server'[t].set = sem.key /\ server'[t].set # None
                 /\ server'[t].pc \in ServerLoop => server'[t].set # None
                 /\ server'[t].handler # "none" => server'[t].pc \in ServerLoop
      <4>1. CASE t = s
        BY <1>0, <2>1, <4>1 DEF SetInv
      <4>2. CASE t # s
        BY <1>0, <4>2 DEF SetInv
      <4> QED
        BY <4>1, <4>2
    <3> QED
      BY <3>1, <3>2, <3>3 DEF SetInv
  <2>3. UndoInv'
    BY DEF UndoInv
  <2> QED
    BY <2>2, <2>3
<1>3. ExclusionInv'
  <2> SUFFICES ASSUME NEW c \in Clients, NEW t \in Servers, client[c].set = server'[t].set,
                      client[c].set \notin shmGhosts.early, client[c].pc \in ReadPlaces
               PROVE  server'[t].pc \notin WritePlaces
    BY DEF ExclusionInv
  <2>1. CASE t # s \/ server[s].pc \in WritePlaces
    BY <2>1 DEF ExclusionInv
  <2>2. CASE t = s /\ sem.key = r.set /\ Reading = {}
    BY <2>2 DEF Reading, Exists, ReadPlaces
  <2> QED
    BY <2>1, <2>2
<1>4. SeenInv' /\ NoTornText'
  <2>1. SeenInv'
    BY DEF SeenInv
  <2>2. NoTornText'
    BY <1>0 DEF NoTornText
  <2> QED
    BY <2>1, <2>2
<1>5. SetHasServer'
  BY DEF SetHasServer, ServerLoop, WritePlaces
<1> QED
  BY <1>1, <1>2, <1>3, <1>4, <1>5

(* A server that writes before it moves on writes after it, or neither.    *)
LEMMA WritingSame ==
  ASSUME ShmInv, NEW s \in Servers, NEW r, ServerBecomes(s, r), UNCHANGED client,
         r.set = server[s].set, r.pc \in WritePlaces <=> server[s].pc \in WritePlaces,
         UNCHANGED <<sem>>, shmGhosts'.early = shmGhosts.early
  PROVE  CountInv'
<1>1. Reading' = Reading
  BY DEF Reading, Exists
<1>2. \A t \in Servers : t \in Writing' <=> t \in Writing
  BY DEF Writing, Exists, WritePlaces, ServerBecomes
<1>3. Writing' = Writing
  BY <1>2 DEF Writing
<1> QED
  BY <1>1, <1>3 DEF ShmInv, CountInv

(* A server that is not in the middle of strcpy(), before and after.       *)
LEMMA TextSame ==
  ASSUME ShmInv, NEW s \in Servers, NEW r, ServerBecomes(s, r),
         r.seg = server[s].seg, r.set = server[s].set, server[s].pc # "start",
         r.pc = "write_on" <=> server[s].pc = "write_on", r.round = server[s].round \/ r.pc # "write_on",
         seg'.text = seg.text, shmGhosts.torn \subseteq shmGhosts'.torn
  PROVE  TextInv'
BY DEF ShmInv, TextInv, WritesAlone, ServerBecomes

LEMMA SetWriterKeeps ==
  ASSUME ShmInv, NEW s \in Servers, SetWriter(s)
  PROVE  ShmInv'
<1> USE DEF SetWriter, Runs
<1>1. PICK r \in ServerStates :
        /\ ServerBecomes(s, r) /\ r.pc = "lock" /\ r.seg = server[s].seg /\ r.set = server[s].set
        /\ r.undo = server[s].undo
  BY GoToGives DEF ShmInv
<1>2. server[s].set = sem.key /\ sem.key # None /\ server[s].undo = 0
  BY DEF ShmInv, SetInv, UndoInv, WritePlaces
<1>3. /\ sem' \in [key : Nat, made : Nat, val : [0..1 -> Nat]]
      /\ sem'.key = sem.key /\ sem'.made = sem.made
      /\ sem'.val[0] = sem.val[0] /\ sem'.val[1] = 0
  BY SemSet DEF ShmInv
<1>4. CountInv'
  <2>1. Reading' = Reading
    BY <1>3 DEF Reading, Exists
  <2>2. Writing' = {}
    BY <1>1, <1>2, <1>3 DEF Writing, Exists, ServerBecomes, ShmInv, SetInv
  <2> QED
    BY <1>3, <2>1, <2>2, FS_EmptySet DEF CountInv, ShmInv
<1>5. TextInv'
  BY <1>1, TextSame
<1> QED
  BY <1>1, <1>2, <1>3, <1>4, <1>5, LoopMoves DEF ShmInv, TypeInv, ServerLoop, WritePlaces

LEMMA LockServerKeeps ==
  ASSUME ShmInv, NEW s \in Servers, LockServer(s)
  PROVE  ShmInv'
<1> USE DEF LockServer, Runs
<1>1. /\ server[s] \in ServerStates /\ server[s].undo = 0 /\ server[s].round \in Nat
      /\ server[s].set = sem.key /\ sem.key # None
  BY DEF ShmInv, TypeInv, ServerStates, UndoInv, WritePlaces, Exists
<1>2. PICK r \in ServerStates :
        r = [server[s] EXCEPT !.pc = "write", !.undo = server[s].undo - 1, !.round = server[s].round + 1]
  <2>1. PICK n \in Nat, u \in -1..0 : n = server[s].round + 1 /\ u = server[s].undo - 1
    BY <1>1
  <2>2. [server[s] EXCEPT !.pc = "write", !.undo = u, !.round = n] \in ServerStates
    BY <1>1 DEF ServerStates, ServerLoop, WritePlaces
  <2> QED
    BY <2>1, <2>2
<1>3. /\ r.pc = "write" /\ r.seg = server[s].seg /\ r.set = server[s].set /\ r.undo = -1
  BY <1>1, <1>2 DEF ServerStates
<1>4. ServerBecomes(s, r)
  <2>1. server' = [server EXCEPT ![s] = r]
    BY <1>2 DEF ShmInv, TypeInv
  <2> QED
    BY <2>1, ServerSet DEF ShmInv
<1>5. /\ sem' \in [key : Nat, made : Nat, val : [0..1 -> Nat]]
      /\ sem'.key = sem.key /\ sem'.made = sem.made
      /\ sem'.val[0] = sem.val[0] /\ sem'.val[1] = sem.val[1] + 1
  <2>1. PICK v \in Nat : v = sem.val[1] + 1
    BY DEF ShmInv, TypeInv
  <2>2. sem' = [sem EXCEPT !.val[1] = v]
    BY <2>1 DEF Plus
  <2> QED
    BY <2>1, <2>2, SemSet DEF ShmInv
<1>6. sem.key \notin shmGhosts.early => Reading = {}
  BY <1>1, HoldersFinite DEF ShmInv, CountInv
<1>7. CountInv'
  <2>1. Reading' = Reading
    BY <1>5 DEF Reading, Exists
  <2>2. s \notin Writing
    BY DEF Writing
  <2>3. \A t \in Servers : t \in Writing' <=> t \in Writing \cup {s}
    BY <1>1, <1>3, <1>4, <1>5 DEF Writing, Exists, ServerBecomes
  <2>4. Writing' = Writing \cup {s}
    BY <2>3 DEF Writing
  <2>5. Cardinality(Writing') = Cardinality(Writing) + 1
    BY <2>2, <2>4, HolderJoins
  <2> QED
    BY <1>5, <2>1, <2>5 DEF CountInv, ShmInv
<1>8. TextInv'
  BY <1>3, <1>4, TextSame
<1> QED
  BY <1>1, <1>3, <1>4, <1>5, <1>6, <1>7, <1>8, LoopMoves DEF ShmInv, TypeInv, ServerLoop, WritePlaces

LEMMA ReleaseServerKeeps ==
  ASSUME ShmInv, NEW s \in Servers, ReleaseServer(s)
  PROVE  ShmInv'
<1> USE DEF ReleaseServer, Runs
<1>1. /\ server[s] \in ServerStates /\ server[s].undo = -1
      /\ server[s].set = sem.key /\ sem.key # None
  BY DEF ShmInv, TypeInv, UndoInv, WritePlaces, Exists
<1>2. PICK pc \in {"lock", "clean_seg"} :
        pc = IF server[s].round < MaxRounds THEN "lock" ELSE "clean_seg"
  OBVIOUS
<1>3. PICK r \in ServerStates : r = [server[s] EXCEPT !.undo = server[s].undo + 1, !.pc = pc]
  <2>1. PICK u \in -1..0 : u = server[s].undo + 1
    BY <1>1
  <2>2. [server[s] EXCEPT !.undo = u, !.pc = pc] \in ServerStates
    BY <1>1, <1>2 DEF ServerStates, ServerLoop
  <2> QED
    BY <2>1, <2>2
<1>4. r.pc = pc /\ r.seg = server[s].seg /\ r.set = server[s].set /\ r.undo = 0
  BY <1>1, <1>3 DEF ServerStates
<1>5. ServerBecomes(s, r)
  <2>1. server' = [server EXCEPT ![s] = r]
    BY <1>2, <1>3 DEF ShmInv, TypeInv
  <2> QED
    BY <2>1, ServerSet DEF ShmInv
<1>6. /\ sem' \in [key : Nat, made : Nat, val : [0..1 -> Nat]]
      /\ sem'.key = sem.key /\ sem'.made = sem.made
      /\ sem'.val[0] = sem.val[0] /\ sem'.val[1] = sem.val[1] - 1
  <2>1. PICK v \in Nat : v = sem.val[1] - 1
    BY DEF ShmInv, TypeInv
  <2>2. sem' = [sem EXCEPT !.val[1] = v]
    BY <2>1 DEF Plus, ShmInv, TypeInv
  <2> QED
    BY <2>1, <2>2, SemSet DEF ShmInv
<1>7. CountInv'
  <2>1. Reading' = Reading
    BY <1>6 DEF Reading, Exists
  <2>2. s \in Writing
    BY <1>1 DEF Writing, Exists
  <2>3. \A t \in Servers : t \in Writing' <=> t \in Writing \ {s}
    BY <1>1, <1>4, <1>5, <1>6 DEF Writing, Exists, ServerBecomes
  <2>4. Writing' = Writing \ {s}
    BY <2>3 DEF Writing
  <2>5. Cardinality(Writing') = Cardinality(Writing) - 1
    BY <2>2, <2>4, HolderLeaves
  <2> QED
    BY <1>6, <2>1, <2>5 DEF CountInv, ShmInv
<1>8. TextInv'
  BY <1>4, <1>5, TextSame
<1> QED
  BY <1>1, <1>4, <1>5, <1>6, <1>7, <1>8, LoopMoves DEF ShmInv, TypeInv, ServerLoop, WritePlaces

TextWritten(g, i, text) == seg' = [seg EXCEPT !.text[g][i] = text]

(* strcpy() leaves the texts of every other segment alone.                 *)
LEMMA TextSet ==
  ASSUME TypeInv, NEW g \in 1..Len(seg.text), NEW i \in 1..2, NEW text \in Servers \X Nat,
         TextWritten(g, i, text)
  PROVE  /\ seg' \in [key : Nat, text : Seq(Halves)] /\ seg'.key = seg.key
         /\ Len(seg'.text) = Len(seg.text)
         /\ \A h \in (1..Len(seg.text)) \ {g} : seg'.text[h] = seg.text[h]
         /\ seg'.text[g][i] = text
         /\ \A j \in (1..2) \ {i} : seg'.text[g][j] = seg.text[g][j]
<1>1. seg.text \in Seq(Halves) /\ seg.text[g] \in Halves
  BY ElementOfSeq DEF TypeInv
<1>2. PICK half \in Halves : /\ half = [seg.text[g] EXCEPT ![i] = text] /\ half[i] = text
                             /\ \A j \in (1..2) \ {i} : half[j] = seg.text[g][j]
  <2>1. PICK a \in Texts, b \in Texts : seg.text[g] = <<a, b>>
    BY <1>1 DEF Halves
  <2>2. text \in Texts
    BY DEF Texts
  <2>3. CASE i = 1
    <3>1. [<<a, b>> EXCEPT ![1] = text] = <<text, b>>
      OBVIOUS
    <3>2. <<text, b>> \in Halves
      BY <2>2 DEF Halves
    <3> QED
      BY <2>1, <2>3, <3>1, <3>2
  <2>4. CASE i = 2
    <3>1. [<<a, b>> EXCEPT ![2] = text] = <<a, text>>
      OBVIOUS
    <3>2. <<a, text>> \in Halves
      BY <2>2 DEF Halves
    <3> QED
      BY <2>1, <2>4, <3>1, <3>2
  <2> QED
    BY <2>3, <2>4
<1>3. PICK texts \in Seq(Halves) : texts = [seg.text EXCEPT ![g] = half]
  BY <1>1, ExceptSeq
<1>4. /\ Len(texts) = Len(seg.text) /\ texts[g] = half
      /\ \A h \in (1..Len(seg.text)) \ {g} : texts[h] = seg.text[h]
  BY <1>1, <1>3, ExceptSeq
<1>5. seg' = [seg EXCEPT !.text = texts]
  BY <1>2, <1>3 DEF TextWritten
<1>6. seg'.text = texts /\ seg'.key = seg.key
      /\ seg' \in [key : Nat, text : Seq(Halves)]
  BY <1>5 DEF TypeInv
<1> QED
  BY <1>2, <1>4, <1>6

(* A server that writes alone has the text whole again after the second    *)
(* half, and no other one is disturbed.                                    *)
LEMMA WriteKeeps ==
  ASSUME ShmInv, NEW s \in Servers, Write(s)
  PROVE  ShmInv'
<1> USE DEF Write, Runs
<1>1. /\ server[s].pc \in {"write", "write_on"} /\ server[s].undo = -1 /\ server[s].set # None
      /\ server[s].seg \in 1..Len(seg.text) /\ <<s, server[s].round>> \in Servers \X Nat
  BY DEF ShmInv, UndoInv, SetInv, TextInv, TypeInv, ServerStates, ServerLoop, WritePlaces
<1>2. PICK text \in Servers \X Nat : text = <<s, server[s].round>>
  BY <1>1
<1>3. PICK i \in 1..2 : /\ i = IF server[s].pc = "write" THEN 1 ELSE 2
                        /\ TextWritten(server[s].seg, i, text)
  BY <1>2 DEF TextWritten
<1>4. /\ seg' \in [key : Nat, text : Seq(Halves)] /\ seg'.key = seg.key
      /\ Len(seg'.text) = Len(seg.text)
      /\ \A h \in (1..Len(seg.text)) \ {server[s].seg} : seg'.text[h] = seg.text[h]
      /\ seg'.text[server[s].seg][i] = text
      /\ \A j \in (1..2) \ {i} : seg'.text[server[s].seg][j] = seg.text[server[s].seg][j]
  <2>1. PICK g \in 1..Len(seg.text) : g = server[s].seg
    BY <1>1
  <2>2. TypeInv /\ TextWritten(g, i, text)
    BY <1>3, <2>1 DEF ShmInv
  <2>3. /\ seg' \in [key : Nat, text : Seq(Halves)] /\ seg'.key = seg.key
        /\ Len(seg'.text) = Len(seg.text)
        /\ \A h \in (1..Len(seg.text)) \ {g} : seg'.text[h] = seg.text[h]
        /\ seg'.text[g][i] = text
        /\ \A j \in (1..2) \ {i} : seg'.text[g][j] = seg.text[g][j]
    BY <2>2, TextSet
  <2> QED
    BY <2>1, <2>3
<1>5. PICK r \in ServerStates :
        /\ ServerBecomes(s, r) /\ r.pc = IF server[s].pc = "write" THEN "write_on" ELSE "release"
        /\ r.seg = server[s].seg /\ r.set = server[s].set
        /\ r.undo = server[s].undo /\ r.round = server[s].round
  BY GoToGives DEF ShmInv
<1>6. CountInv'
  BY <1>1, <1>5, WritingSame DEF WritePlaces
<1>7. TextInv'
  <2>1. \A t \in Servers :
          /\ server'[t].seg = server[t].seg /\ server'[t].set = server[t].set
          /\ server'[t].pc = "start" <=> server[t].pc = "start"
          /\ t # s => server'[t] = server[t]
    BY <1>1, <1>5 DEF ServerBecomes
  <2>2. \A t \in Servers : server'[t].pc # "start" => server'[t].seg \in 1..Len(seg'.text)
    BY <1>4, <2>1 DEF ShmInv, TextInv
  <2>3. \A g \in 1..Len(seg'.text) :
          (\A t \in Servers : server'[t].set # None => server'[t].seg # g)
          => seg'.text[g] = <<Blank, Blank>>
    <3> SUFFICES ASSUME NEW g \in 1..Len(seg'.text),
                        \A t \in Servers : server'[t].set # None => server'[t].seg # g
                 PROVE  seg'.text[g] = <<Blank, Blank>>
      OBVIOUS
    <3>1. g # server[s].seg /\ \A t \in Servers : server[t].set # None => server[t].seg # g
      BY <1>1, <2>1
    <3> QED
      BY <1>4, <3>1 DEF ShmInv, TextInv
  <2>4. ASSUME NEW t \in Servers, server'[t].set # None, WritesAlone(t)',
               server'[t].seg \notin shmGhosts'.torn
        PROVE  /\ server'[t].pc # "write_on" =>
                    seg'.text[server'[t].seg][1] = seg'.text[server'[t].seg][2]
               /\ server'[t].pc = "write_on" =>
                    seg'.text[server'[t].seg][1] = <<t, server'[t].round>>
    <3>1. WritesAlone(t) /\ server[t].set # None
      BY <2>1, <2>4 DEF WritesAlone
    <3>2. CASE t = s
      <4>1. CASE server[s].pc = "write"
        BY <1>2, <1>3, <1>4, <1>5, <3>2, <4>1 DEF ServerBecomes
      <4>2. CASE server[s].pc = "write_on"
        <5>1. server[s].seg \notin shmGhosts.torn
          BY <2>1, <2>4, <3>2
        <5>2. seg.text[server[s].seg][1] = text
          BY <1>2, <3>1, <3>2, <4>2, <5>1 DEF ShmInv, TextInv
        <5>3. i = 2 /\ server'[s].pc = "release" /\ server'[s].seg = server[s].seg
          BY <1>3, <1>5, <4>2 DEF ServerBecomes
        <5> QED
          BY <1>4, <3>2, <5>2, <5>3
      <4> QED
        BY <1>1, <4>1, <4>2
    <3>3. CASE t # s
      <4>1. server[t].seg \in (1..Len(seg.text)) \ {server[s].seg}
        BY <1>1, <3>1, <3>3 DEF WritesAlone, ShmInv, TextInv, SetInv
      <4>2. seg'.text[server[t].seg] = seg.text[server[t].seg]
        BY <1>4, <4>1
      <4> QED
        BY <2>1, <2>4, <3>1, <3>3, <4>2 DEF ShmInv, TextInv
    <3> QED
      BY <3>2, <3>3
  <2> QED
    BY <2>2, <2>3, <2>4 DEF TextInv
<1>8. /\ sem' \in [key : Nat, made : Nat, val : [0..1 -> Nat]]
      /\ sem' = sem /\ shmGhosts' = shmGhosts /\ client' = client
      /\ seg'.key \in {None, Len(seg'.text)} /\ shmGhosts' \in GhostStates
      /\ server[s].pc \in WritePlaces /\ r.pc \in ServerLoop /\ r.pc \in WritePlaces
  BY <1>1, <1>4, <1>5 DEF ShmInv, TypeInv, ServerLoop, WritePlaces
<1> QED
  BY <1>1, <1>4, <1>5, <1>6, <1>7, <1>8, LoopMoves

(* A set that a server removes is its own, so that no other server is      *)
(* about to initialize it.                                                 *)
LEMMA RemoveSetKeeps ==
  ASSUME ShmInv, NEW s \in Servers, RemoveSet(s), server[s].pc \in ServerLoop,
         NEW r \in ServerStates, ServerBecomes(s, r),
         r.seg = server[s].seg, r.set = server[s].set, r.undo = server[s].undo,
         r.round = server[s].round, r.handler = "none",
         r.pc = server[s].pc \/ (r.pc = "ended" /\ server[s].pc = "clean_set")
  PROVE  ShmInv'
<1> USE DEF None
<1>1. /\ seg' = seg /\ client' = client /\ shmGhosts' = shmGhosts
      /\ sem' \in [key : Nat, made : Nat, val : [0..1 -> Nat]] /\ sem'.made = sem.made
      /\ sem' = sem \/ sem'.key = None
      /\ sem'.key # None => sem.key = sem'.key /\ server[s].set # sem.key
  BY DEF RemoveSet, Exists, ShmInv, TypeInv
<1>2. /\ \A t \in Servers :
           /\ server'[t].set = server[t].set /\ server'[t].seg = server[t].seg
           /\ t = s \/ server'[t] = server[t]
      /\ server'[s].handler = "none" /\ server'[s].undo = server[s].undo
      /\ server'[s].pc = r.pc /\ server[s].pc \notin {"start", "semget", "set_readers", "set_writer"}
      /\ r.pc \in WritePlaces <=> server[s].pc \in WritePlaces
  BY DEF ServerBecomes, ServerLoop, WritePlaces
<1>3. TypeInv'
  BY <1>1 DEF ShmInv, TypeInv, ServerBecomes
<1>4. SetInv'
  <2>1. \A t \in Servers \ {s} :
          server[t].pc \in {"set_readers", "set_writer"} => sem'.key = sem.key
    <3> SUFFICES ASSUME NEW t \in Servers \ {s}, server[t].pc \in {"set_readers", "set_writer"}
                 PROVE  server[s].set # sem.key
      BY <1>1 DEF RemoveSet, Exists
    <3> QED
      BY DEF ShmInv, SetInv
  <2>2. \A t \in Servers :
          /\ server'[t].pc \in {"start", "semget"} => t # s
          /\ server'[t].pc \in {"set_readers", "set_writer"} => t # s
          /\ server'[t].pc \in ServerLoop => server[t].pc \in ServerLoop
          /\ server'[t].handler # "none" => t # s
    BY <1>2 DEF ServerLoop, WritePlaces
  <2> QED
    BY <1>1, <1>2, <2>1, <2>2 DEF ShmInv, SetInv
<1>5. UndoInv' /\ ExclusionInv'
  BY <1>1, <1>2 DEF ShmInv, UndoInv, ExclusionInv
<1>6. CountInv'
  <2>1. CASE sem' = sem
    BY <1>1, <1>2, <2>1, WritingSame
  <2>2. CASE sem'.key = None
    BY <2>2 DEF CountInv
  <2> QED
    BY <1>1, <2>1, <2>2
<1>7. TextInv'
  BY <1>1, <1>2, TextSame
<1>8. SeenInv' /\ NoTornText'
  <2>1. SeenInv'
    BY <1>1 DEF ShmInv, SeenInv
  <2>2. NoTornText'
    BY <1>1, <1>2 DEF ShmInv, NoTornText
  <2> QED
    BY <2>1, <2>2
<1>9. SetHasServer'
  BY <1>1, <1>2 DEF ShmInv, SetHasServer
<1> QED
  BY <1>3, <1>4, <1>5, <1>6, <1>7, <1>8, <1>9 DEF ShmInv

(* clean_up() at the end of main(), and as the handler wherever main()     *)
(* stands.                                                                 *)
LEMMA CleanUpKeeps ==
  ASSUME ShmInv, NEW s \in Servers, CleanUp(s) \/ Interrupt(s)
  PROVE  ShmInv'
<1>1. TypeInv /\ server[s] \in ServerStates
  BY DEF ShmInv, TypeInv
<1>2. server[s].handler # "none" => server[s].pc \in ServerLoop
  BY DEF ShmInv, SetInv
<1>3. CASE \/ Runs(s, "clean_set") /\ RemoveSet(s) /\ GoTo(s, "ended")
           \/ /\ server[s].handler = "clean_set" /\ RemoveSet(s)
              /\ server' = [server EXCEPT ![s].handler = "none"]
  <2>1. CASE Runs(s, "clean_set") /\ RemoveSet(s) /\ GoTo(s, "ended")
    <3>1. PICK r \in ServerStates :
            /\ ServerBecomes(s, r) /\ r.pc = "ended" /\ r.handler = server[s].handler
            /\ r.seg = server[s].seg /\ r.set = server[s].set
            /\ r.undo = server[s].undo /\ r.round = server[s].round
      BY <1>1, <2>1, GoToGives
    <3> QED
      BY <2>1, <3>1, RemoveSetKeeps DEF Runs, ServerLoop
  <2>2. CASE /\ server[s].handler = "clean_set" /\ RemoveSet(s)
             /\ server' = [server EXCEPT ![s].handler = "none"]
    <3>1. PICK r \in ServerStates :
            /\ ServerBecomes(s, r) /\ r.pc = server[s].pc /\ r.handler = "none"
            /\ r.seg = server[s].seg /\ r.set = server[s].set
            /\ r.undo = server[s].undo /\ r.round = server[s].round
      BY <1>1, <2>2, HandlerGives
    <3>2. RemoveSet(s) /\ server[s].pc \in ServerLoop
      BY <1>2, <2>2
    <3> QED
      BY <3>1, <3>2, RemoveSetKeeps
  <2> QED
    BY <1>3, <2>1, <2>2
<1>4. ASSUME NEW r \in ServerStates, ServerBecomes(s, r), server[s].pc \in ServerLoop,
             r.seg = server[s].seg, r.set = server[s].set, r.undo = server[s].undo,
             r.round = server[s].round,
             r.pc = server[s].pc \/ (Runs(s, "clean_seg") /\ r.pc = "clean_set"),
             sem' = sem, client' = client, seg'.text = seg.text,
             seg' \in [key : Nat, text : Seq(Halves)], seg'.key \in {None, Len(seg'.text)},
             shmGhosts' \in GhostStates, shmGhosts'.early = shmGhosts.early,
             shmGhosts'.killed = shmGhosts.killed, shmGhosts'.torn = shmGhosts.torn
      PROVE  ShmInv'
  <2>1. /\ r.pc \in ServerLoop /\ (r.pc \in WritePlaces <=> server[s].pc \in WritePlaces)
        /\ r.pc = "write_on" <=> server[s].pc = "write_on"
        /\ server[s].pc \notin {"start", "ended"}
    BY <1>4 DEF ServerLoop, WritePlaces, Runs
  <2>2. server[s].set # None /\ r.undo = IF r.pc \in WritePlaces THEN -1 ELSE 0
    BY <1>4, <2>1 DEF ShmInv, SetInv, UndoInv
  <2>3. CountInv' /\ TextInv'
    BY <1>4, <2>1, WritingSame, TextSame
  <2>4. sem' \in [key : Nat, made : Nat, val : [0..1 -> Nat]]
    BY <1>4 DEF ShmInv, TypeInv
  <2> QED
    BY <1>4, <2>1, <2>2, <2>3, <2>4, LoopMoves
<1>5. CASE Runs(s, "clean_seg") /\ RemoveSeg(s) /\ GoTo(s, "clean_set")
  <2>1. PICK r \in ServerStates :
          /\ ServerBecomes(s, r) /\ r.pc = "clean_set" /\ r.handler = server[s].handler
          /\ r.seg = server[s].seg /\ r.set = server[s].set
          /\ r.undo = server[s].undo /\ r.round = server[s].round
    BY <1>1, <1>5, GoToGives
  <2>2. /\ sem' = sem /\ client' = client /\ shmGhosts' = shmGhosts /\ seg'.text = seg.text
        /\ seg' \in [key : Nat, text : Seq(Halves)] /\ seg'.key \in {None, Len(seg'.text)}
        /\ shmGhosts' \in GhostStates /\ server[s].pc \in ServerLoop
    BY <1>5 DEF RemoveSeg, ShmInv, TypeInv, None, Runs, ServerLoop
  <2> QED
    BY <1>4, <1>5, <2>1, <2>2
<1>6. CASE /\ server[s].handler = "clean_seg" /\ RemoveSeg(s)
           /\ server' = [server EXCEPT ![s].handler = "clean_set"]
  <2>1. PICK r \in ServerStates :
          /\ ServerBecomes(s, r) /\ r.pc = server[s].pc /\ r.handler = "clean_set"
          /\ r.seg = server[s].seg /\ r.set = server[s].set
          /\ r.undo = server[s].undo /\ r.round = server[s].round
    BY <1>1, <1>6, HandlerGives
  <2>2. /\ sem' = sem /\ client' = client /\ shmGhosts' = shmGhosts /\ seg'.text = seg.text
        /\ seg' \in [key : Nat, text : Seq(Halves)] /\ seg'.key \in {None, Len(seg'.text)}
        /\ shmGhosts' \in GhostStates
    BY <1>6 DEF RemoveSeg, ShmInv, TypeInv, None
  <2>3. server[s].pc \in ServerLoop
    BY <1>2, <1>6
  <2> QED
    BY <1>4, <2>1, <2>2, <2>3
<1>7. CASE Interrupt(s)
  <2>1. PICK r \in ServerStates :
          /\ ServerBecomes(s, r) /\ r.pc = server[s].pc /\ r.handler = "clean_seg"
          /\ r.seg = server[s].seg /\ r.set = server[s].set
          /\ r.undo = server[s].undo /\ r.round = server[s].round
    BY <1>1, <1>7, HandlerGives DEF Interrupt
  <2>2. PICK f \in Nat : f = shmGhosts.faults + 1
    BY <1>1 DEF TypeInv, GhostStates
  <2>3. shmGhosts' = [shmGhosts EXCEPT !.faults = f]
    BY <1>7, <2>2 DEF Interrupt
  <2>4. /\ sem' = sem /\ client' = client /\ seg' = seg
        /\ seg' \in [key : Nat, text : Seq(Halves)] /\ seg'.key \in {None, Len(seg'.text)}
    BY <1>1, <1>7 DEF Interrupt, TypeInv
  <2>5. /\ shmGhosts' \in GhostStates /\ shmGhosts'.early = shmGhosts.early
        /\ shmGhosts'.killed = shmGhosts.killed /\ shmGhosts'.torn = shmGhosts.torn
    BY <1>1, <2>3 DEF TypeInv, GhostStates
  <2>6. server[s].pc \in ServerLoop
    BY <1>7 DEF Interrupt, Runs, ServerLoop, WritePlaces
  <2>7. seg'.text = seg.text
    BY <2>4
  <2> QED
    BY <1>4, <2>1, <2>4, <2>5, <2>6, <2>7
<1> QED
  BY <1>3, <1>5, <1>6, <1>7 DEF CleanUp

LEMMA TextsGrow ==
  ASSUME TypeInv, seg' = seg \/ seg'.text = Append(seg.text, <<Blank, Blank>>)
  PROVE  /\ 1..Len(seg.text) \subseteq 1..Len(seg'.text)
         /\ \A g \in 1..Len(seg.text) : seg'.text[g] = seg.text[g]
         /\ \A g \in 1..Len(seg'.text) : g \in 1..Len(seg.text) \/ seg'.text[g] = <<Blank, Blank>>
<1>1. <<Blank, Blank>> \in Halves /\ seg.text \in Seq(Halves) /\ Len(seg.text) \in Nat
  BY LenProperties DEF TypeInv, Halves, Texts
<1>2. CASE seg' = seg
  BY <1>2
<1>3. CASE seg'.text = Append(seg.text, <<Blank, Blank>>)
  <2>1. /\ Len(seg'.text) = Len(seg.text) + 1
        /\ seg'.text[Len(seg.text) + 1] = <<Blank, Blank>>
        /\ \A g \in 1..Len(seg.text) : seg'.text[g] = seg.text[g]
    BY <1>1, <1>3, AppendProperties
  <2>2. \A g \in 1..Len(seg'.text) : g \in 1..Len(seg.text) \/ g = Len(seg.text) + 1
    BY <1>1, <2>1
  <2> QED
    BY <1>1, <2>1, <2>2
<1> QED
  BY <1>2, <1>3

LEMMA AttachServerKeeps ==
  ASSUME ShmInv, NEW s \in Servers, AttachServer(s)
  PROVE  ShmInv'
<1> USE DEF None
<1>1. /\ TypeInv /\ server[s] \in ServerStates /\ server[s].set = None /\ server[s].undo = 0
      /\ server[s].pc = "start" /\ server[s].handler = "none"
  BY DEF AttachServer, Runs, ShmInv, TypeInv, SetInv, UndoInv, WritePlaces
<1>2. /\ seg' \in [key : Nat, text : Seq(Halves)] /\ seg'.key = Len(seg'.text)
      /\ seg'.key \in 1..Len(seg'.text) /\ seg'.key \in Nat
      /\ seg' = seg \/ seg'.text = Append(seg.text, <<Blank, Blank>>)
  BY <1>1, ShmgetGives DEF AttachServer
<1>3. PICK r \in ServerStates : r = [server[s] EXCEPT !.pc = "semget", !.seg = seg'.key]
  BY <1>1, <1>2 DEF ServerStates
<1>4. r.pc = "semget" /\ r.seg = seg'.key /\ r.set = None /\ r.undo = 0 /\ r.handler = "none"
  BY <1>1, <1>3 DEF ServerStates
<1>5. ServerBecomes(s, r)
  <2>1. server' = [server EXCEPT ![s] = r]
    BY <1>3 DEF AttachServer, ShmInv, TypeInv
  <2> QED
    BY <1>1, <2>1, ServerSet
<1>6. /\ shmGhosts' \in GhostStates /\ shmGhosts'.early = shmGhosts.early
      /\ shmGhosts'.killed = shmGhosts.killed /\ shmGhosts'.torn = shmGhosts.torn
      /\ sem' = sem /\ client' = client
  BY <1>1, StartGives DEF AttachServer
<1>7. /\ \A t \in Servers : t = s \/ server'[t] = server[t]
      /\ \A t \in Servers : server'[t].set = server[t].set
      /\ \A t \in Servers : server[t].set # None => server'[t] = server[t]
      /\ server'[s].pc = "semget" /\ server'[s].undo = 0 /\ server'[s].handler = "none"
      /\ server'[s].seg = seg'.key /\ server[s].pc = "start"
  BY <1>1, <1>4, <1>5 DEF ServerBecomes, AttachServer, Runs
<1>8. TypeInv'
  BY <1>1, <1>2, <1>5, <1>6 DEF TypeInv, ServerBecomes
<1>9. SetInv' /\ UndoInv' /\ ExclusionInv' /\ SetHasServer'
  <2>1. SetInv'
    <3>1. "semget" \notin ServerLoop \cup {"set_readers", "set_writer"}
      BY DEF ServerLoop, WritePlaces
    <3>2. \A t, u \in Servers : server'[t].set = server'[u].set /\ server'[t].set # None => t = u
      BY <1>7 DEF ShmInv, SetInv
    <3>3. \A n \in 1..sem.made : \E t \in Servers : server'[t].set = n
      BY <1>7 DEF ShmInv, SetInv
    <3>4. ASSUME NEW t \in Servers
          PROVE  /\ server'[t].set \in 0..sem.made
                 /\ server'[t].pc \in {"start", "semget"} => server'[t].set = None
                 /\ server'[t].pc \in {"set_readers", "set_writer"} =>
                      server'[t].set = sem.key /\ server'[t].set # None
                 /\ server'[t].pc \in ServerLoop => server'[t].set # None
                 /\ server'[t].handler # "none" => server'[t].pc \in ServerLoop
      <4>1. CASE t = s
        BY <1>1, <1>7, <3>1, <4>1 DEF ShmInv, SetInv
      <4>2. CASE t # s
        BY <1>7, <4>2 DEF ShmInv, SetInv
      <4> QED
        BY <4>1, <4>2
    <3> QED
      BY <1>6, <3>2, <3>3, <3>4 DEF ShmInv, SetInv
  <2>2. UndoInv'
    BY <1>6, <1>7 DEF ShmInv, UndoInv, WritePlaces
  <2>3. ExclusionInv'
    BY <1>6, <1>7 DEF ShmInv, ExclusionInv, WritePlaces
  <2>4. SetHasServer'
    BY <1>6, <1>7 DEF ShmInv, SetHasServer
  <2> QED
    BY <2>1, <2>2, <2>3, <2>4
<1>10. CountInv'
  <2>1. sem' = sem /\ client' = client /\ shmGhosts'.early = shmGhosts.early
    BY <1>6
  <2>2. r.set = server[s].set /\ (r.pc \in WritePlaces <=> server[s].pc \in WritePlaces)
    BY <1>1, <1>4 DEF WritePlaces
  <2> QED
    BY <1>5, <2>1, <2>2, WritingSame
<1>11. /\ 1..Len(seg.text) \subseteq 1..Len(seg'.text)
       /\ \A g \in 1..Len(seg.text) : seg'.text[g] = seg.text[g]
       /\ \A g \in 1..Len(seg'.text) : g \in 1..Len(seg.text) \/ seg'.text[g] = <<Blank, Blank>>
  BY <1>1, <1>2, TextsGrow
<1>12. TextInv'
  <2>1. \A t \in Servers : server'[t].pc # "start" => server'[t].seg \in 1..Len(seg'.text)
    BY <1>2, <1>7, <1>11 DEF ShmInv, TextInv
  <2>2. \A g \in 1..Len(seg'.text) :
          (\A t \in Servers : server'[t].set # None => server'[t].seg # g)
          => seg'.text[g] = <<Blank, Blank>>
    <3> SUFFICES ASSUME NEW g \in 1..Len(seg.text),
                        \A t \in Servers : server'[t].set # None => server'[t].seg # g
                 PROVE  seg.text[g] = <<Blank, Blank>>
      BY <1>11
    <3> QED
      BY <1>7 DEF ShmInv, TextInv
  <2>3. \A t \in Servers : server[t].set # None => seg'.text[server[t].seg] = seg.text[server[t].seg]
    BY <1>11 DEF ShmInv, TextInv, SetInv
  <2>4. \A t \in Servers : WritesAlone(t)' /\ server[t].set # None => WritesAlone(t)
    BY <1>7 DEF WritesAlone
  <2>5. ASSUME NEW t \in Servers, server'[t].set # None, WritesAlone(t)',
               server'[t].seg \notin shmGhosts'.torn
        PROVE  /\ server'[t].pc # "write_on" =>
                    seg'.text[server'[t].seg][1] = seg'.text[server'[t].seg][2]
               /\ server'[t].pc = "write_on" =>
                    seg'.text[server'[t].seg][1] = <<t, server'[t].round>>
    <3>1. /\ WritesAlone(t) /\ server[t].set # None /\ server'[t] = server[t]
          /\ seg'.text[server[t].seg] = seg.text[server[t].seg]
          /\ server[t].seg \notin shmGhosts.torn
      BY <1>6, <1>7, <2>3, <2>4, <2>5
    <3> QED
      BY <3>1 DEF ShmInv, TextInv
  <2> QED
    BY <2>1, <2>2, <2>5 DEF TextInv
<1>13. SeenInv' /\ NoTornText'
  <2>1. SeenInv'
    BY <1>6, <1>11 DEF ShmInv, SeenInv
  <2>2. NoTornText'
    BY <1>6, <1>7 DEF ShmInv, NoTornText
  <2> QED
    BY <2>1, <2>2
<1> QED
  BY <1>8, <1>9, <1>10, <1>12, <1>13 DEF ShmInv

(* The identifier of a new set is nobody's yet, so that who has read a     *)
(* text read it before the server wrote.                                   *)
LEMMA MakeSetKeeps ==
  ASSUME ShmInv, NEW s \in Servers, MakeSet(s), sem.key = None
  PROVE  ShmInv'
<1> USE DEF MakeSet, Runs, None
<1>1. TypeInv /\ server[s] \in ServerStates /\ server[s].set = None /\ server[s].undo = 0
  BY DEF ShmInv, TypeInv, SetInv, UndoInv, WritePlaces
<1>2. PICK n \in Nat \ {0} : n = sem.made + 1
  BY <1>1 DEF TypeInv
<1>3. /\ sem' = [key |-> n, made |-> n, val |-> [i \in 0..1 |-> 0]]
      /\ seg' = seg /\ client' = client /\ shmGhosts' = shmGhosts
  BY <1>2
<1>4. /\ sem'.key = n /\ sem'.made = n /\ sem'.val[0] = 0 /\ sem'.val[1] = 0
      /\ sem' \in [key : Nat, made : Nat, val : [0..1 -> Nat]]
  BY <1>3
<1>5. PICK r \in ServerStates : r = [server[s] EXCEPT !.pc = "set_readers", !.set = n]
  BY <1>1 DEF ServerStates
<1>6. r.pc = "set_readers" /\ r.seg = server[s].seg /\ r.set = n /\ r.undo = 0 /\ r.handler = "none"
  BY <1>1, <1>5 DEF ServerStates
<1>7. ServerBecomes(s, r)
  <2>1. server' = [server EXCEPT ![s].pc = "set_readers", ![s].set = n]
    BY <1>2, <1>3, <1>4
  <2>2. server' = [server EXCEPT ![s] = r]
    BY <1>1, <1>5, <2>1 DEF TypeInv
  <2> QED
    BY <1>1, <2>2, ServerSet
<1>8. /\ \A t \in Servers \ {s} : server'[t] = server[t]
      /\ server'[s].pc = "set_readers" /\ server'[s].undo = 0 /\ server'[s].handler = "none"
      /\ server'[s].set = n /\ server'[s].seg = server[s].seg
  BY <1>6, <1>7 DEF ServerBecomes
<1>9. /\ \A t \in Servers : server[t].set \in Nat /\ server[t].set < n
      /\ \A c \in Clients : client[c].set \in Nat /\ client[c].set < n
      /\ n \notin shmGhosts.early
  BY <1>1, <1>2 DEF ShmInv, SetInv, TypeInv
<1>10. TypeInv'
  BY <1>1, <1>2, <1>3, <1>4, <1>7 DEF TypeInv, ServerBecomes
<1>11. SetInv'
  <2>1. \A m \in 1..n : \E t \in Servers : server'[t].set = m
    <3> SUFFICES ASSUME NEW m \in 1..sem.made PROVE \E t \in Servers : server'[t].set = m
      BY <1>1, <1>2, <1>8 DEF TypeInv
    <3>1. PICK t \in Servers : server[t].set = m
      BY DEF ShmInv, SetInv
    <3> QED
      BY <1>1, <1>8, <3>1
  <2>2. \A t, u \in Servers : server'[t].set = server'[u].set /\ server'[t].set # None => t = u
    BY <1>2, <1>8, <1>9 DEF ShmInv, SetInv
  <2>3. \A t \in Servers \ {s} : server[t].pc \notin {"set_readers", "set_writer"}
    BY DEF ShmInv, SetInv
  <2>4. "set_readers" \notin ServerLoop
    BY DEF ServerLoop, WritePlaces
  <2>5. \A m \in 0..sem.made : m \in 0..n
    BY <1>1, <1>2 DEF TypeInv
  <2> QED
    BY <1>3, <1>4, <1>8, <2>1, <2>2, <2>3, <2>4, <2>5 DEF ShmInv, SetInv
<1>12. UndoInv' /\ ExclusionInv' /\ SetHasServer'
  <2>1. UndoInv'
    BY <1>3, <1>8 DEF ShmInv, UndoInv, WritePlaces
  <2>2. ExclusionInv'
    BY <1>3, <1>8 DEF ShmInv, ExclusionInv, WritePlaces
  <2>3. SetHasServer'
    BY <1>4, <1>8 DEF SetHasServer
  <2> QED
    BY <2>1, <2>2, <2>3
<1>13. CountInv'
  <2>1. Reading' = {}
    BY <1>3, <1>4, <1>9 DEF Reading, Exists
  <2>2. Writing' = {}
    BY <1>3, <1>4, <1>8, <1>9 DEF Writing, Exists
  <2> QED
    BY <1>4, <2>1, <2>2, FS_EmptySet DEF CountInv
<1>14. TextInv'
  <2>1. \A t \in Servers : /\ server'[t].seg = server[t].seg
                           /\ server'[t].pc # "start" => server[t].pc # "start"
                           /\ server[t].set # None => server'[t].set # None
                           /\ t # s => server'[t] = server[t]
    BY <1>1, <1>8
  <2>2. ASSUME NEW t \in Servers, server'[t].set # None, WritesAlone(t)',
               server'[t].seg \notin shmGhosts'.torn
        PROVE  /\ server'[t].pc # "write_on" =>
                    seg.text[server'[t].seg][1] = seg.text[server'[t].seg][2]
               /\ server'[t].pc = "write_on" =>
                    seg.text[server'[t].seg][1] = <<t, server'[t].round>>
    <3>1. WritesAlone(t)
      BY <2>1, <2>2 DEF WritesAlone
    <3>2. CASE t = s
      <4>1. \A u \in Servers : server[u].set # None => server[u].seg # server[s].seg
        BY <1>1, <3>1, <3>2 DEF WritesAlone
      <4>2. seg.text[server[s].seg] = <<Blank, Blank>>
        BY <4>1 DEF ShmInv, TextInv
      <4> QED
        BY <1>8, <3>2, <4>2
    <3>3. CASE t # s
      BY <1>3, <2>1, <2>2, <3>1, <3>3 DEF ShmInv, TextInv
    <3> QED
      BY <3>2, <3>3
  <2>3. \A g \in 1..Len(seg.text) :
          (\A t \in Servers : server'[t].set # None => server'[t].seg # g)
          => seg.text[g] = <<Blank, Blank>>
    BY <2>1 DEF ShmInv, TextInv
  <2> QED
    BY <1>3, <2>1, <2>2, <2>3 DEF ShmInv, TextInv
<1>15. SeenInv'
  BY <1>3 DEF ShmInv, SeenInv
<1>16. NoTornText'
  <2> SUFFICES ASSUME NEW c \in Clients,
                      \A t \in Servers : server'[t].seg = client[c].seg /\ server'[t].set # None
                                           <=> server'[t].set = client[c].set,
                      client[c].set \notin shmGhosts.early, client[c].seg \notin shmGhosts.torn
               PROVE  client[c].seen[1] = client[c].seen[2]
    BY <1>3 DEF NoTornText
  <2>1. CASE client[c].set = None
    <3>1. client[c].seen = <<Blank, Blank>>
      BY <2>1 DEF ShmInv, SetInv, SeenInv, ReadPlaces
    <3> QED
      BY <3>1
  <2>2. CASE client[c].set # None
    <3>1. \A t \in Servers : server[t].seg = client[c].seg /\ server[t].set # None
                               <=> server[t].set = client[c].set
      BY <1>1, <1>2, <1>8, <1>9, <2>2
    <3> QED
      BY <3>1 DEF ShmInv, NoTornText
  <2> QED
    BY <2>1, <2>2
<1> QED
  BY <1>10, <1>11, <1>12, <1>13, <1>14, <1>15, <1>16 DEF ShmInv

(* Unless a client was early, nobody reads what a server initializes.      *)
LEMMA SetReadersKeeps ==
  ASSUME ShmInv, NEW s \in Servers, SetReaders(s)
  PROVE  ShmInv'
<1> USE DEF SetReaders, Runs, None
<1>1. TypeInv /\ server[s].set = sem.key /\ sem.key # None /\ sem.key \in 1..sem.made
      /\ sem.made \in Nat
  BY DEF ShmInv, TypeInv, SetInv
<1>2. PICK r \in ServerStates :
        /\ ServerBecomes(s, r) /\ r.pc = "set_writer" /\ r.handler = server[s].handler
        /\ r.seg = server[s].seg /\ r.set = server[s].set
        /\ r.undo = server[s].undo /\ r.round = server[s].round
  BY <1>1, GoToGives
<1>3. /\ sem' \in [key : Nat, made : Nat, val : [0..1 -> Nat]]
      /\ sem'.key = sem.key /\ sem'.made = sem.made
      /\ sem'.val[0] = 0 /\ sem'.val[1] = sem.val[1]
  BY <1>1, SemSet
<1>4. \A c \in Clients :
        /\ client'[c] \in ClientStates /\ client'[c].pc = client[c].pc
        /\ client'[c].seg = client[c].seg /\ client'[c].set = client[c].set
        /\ client'[c].seen = client[c].seen
        /\ client'[c].undo = IF client[c].set = sem.key THEN 0 ELSE client[c].undo
  <2> TAKE c \in Clients
  <2>1. client[c] \in ClientStates
    BY <1>1 DEF TypeInv
  <2>2. client'[c] = IF client[c].set = sem.key THEN [client[c] EXCEPT !.undo = 0] ELSE client[c]
    BY <1>1
  <2> QED
    BY <2>1, <2>2 DEF ClientStates
<1>5. /\ shmGhosts' \in GhostStates /\ shmGhosts'.killed = shmGhosts.killed
      /\ shmGhosts'.torn = shmGhosts.torn
      /\ shmGhosts.early \subseteq shmGhosts'.early
      /\ shmGhosts'.early \subseteq shmGhosts.early \cup {sem.key}
      /\ sem.key \notin shmGhosts'.early =>
           \A c \in Clients : client[c].set = sem.key => client[c].undo = 0
  <2>1. CASE \E c \in Clients : client[c].set = server[s].set /\ client[c].undo # 0
    <3>1. PICK e \in SUBSET Nat : e = shmGhosts.early \cup {sem.key}
      BY <1>1 DEF TypeInv, GhostStates
    <3>2. shmGhosts' = [shmGhosts EXCEPT !.early = e]
      BY <1>1, <2>1, <3>1
    <3> QED
      BY <1>1, <3>1, <3>2 DEF TypeInv, GhostStates
  <2>2. CASE ~ \E c \in Clients : client[c].set = server[s].set /\ client[c].undo # 0
    <3>1. shmGhosts' = shmGhosts
      BY <2>2
    <3> QED
      BY <1>1, <2>2, <3>1 DEF TypeInv
  <2> QED
    BY <2>1, <2>2
<1>6. /\ \A t \in Servers : /\ server'[t].set = server[t].set /\ server'[t].seg = server[t].seg
                            /\ t = s \/ server'[t] = server[t]
      /\ server'[s].pc = "set_writer" /\ server'[s].undo = server[s].undo
      /\ server'[s].handler = server[s].handler
  BY <1>2 DEF ServerBecomes
<1>7. TypeInv'
  <2>1. client' \in [Clients -> ClientStates]
    BY <1>4
  <2> QED
    BY <1>1, <1>2, <1>3, <1>5, <2>1 DEF TypeInv, ServerBecomes
<1>8. SetInv'
  <2>1. "set_writer" \notin ServerLoop
    BY DEF ServerLoop, WritePlaces
  <2>2. server[s].pc \notin ServerLoop
    BY DEF ServerLoop, WritePlaces
  <2> QED
    BY <1>1, <1>3, <1>4, <1>6, <2>1, <2>2 DEF ShmInv, SetInv
<1>9. UndoInv'
  <2>1. \A t \in Servers : server'[t].undo = IF server'[t].pc \in WritePlaces THEN -1 ELSE 0
    BY <1>6 DEF ShmInv, UndoInv, WritePlaces
  <2>2. ASSUME NEW c \in Clients
        PROVE  /\ client'[c].set \notin shmGhosts'.early =>
                    client'[c].undo = IF client'[c].pc \in ReadPlaces THEN -1 ELSE 0
               /\ client'[c].pc \in {"start", "semget", "lock", "ended"} => client'[c].undo = 0
               /\ client'[c].pc \in ReadPlaces => client'[c].undo \in -1..0
               /\ client'[c].pc = "leave" => client'[c].undo \in 0..1
    <3>1. client[c].set = sem.key /\ sem.key \notin shmGhosts'.early => client[c].undo = 0
      BY <1>5
    <3> QED
      BY <1>4, <1>5, <3>1 DEF ShmInv, UndoInv
  <2> QED
    BY <2>1, <2>2 DEF UndoInv
<1>10. ExclusionInv' /\ SetHasServer'
  <2>1. ExclusionInv'
    BY <1>4, <1>5, <1>6 DEF ShmInv, ExclusionInv, WritePlaces
  <2>2. SetHasServer'
    BY <1>1, <1>3, <1>6 DEF SetHasServer
  <2> QED
    BY <2>1, <2>2
<1>11. CountInv'
  <2> SUFFICES ASSUME sem.key \notin shmGhosts'.early
               PROVE  0 = Cardinality(Reading') /\ sem.val[1] = Cardinality(Writing')
    BY <1>3 DEF CountInv
  <2>1. Reading' = {}
    <3>1. \A c \in Clients : client[c].set = sem.key => client[c].pc \notin ReadPlaces
      BY <1>5 DEF ShmInv, UndoInv
    <3> QED
      BY <1>3, <1>4, <3>1 DEF Reading, Exists, ReadPlaces
  <2>2. \A t \in Servers : t \in Writing' <=> t \in Writing
    BY <1>3, <1>6 DEF Writing, Exists
  <2>3. Writing' = Writing
    BY <2>2 DEF Writing
  <2>4. sem.key \notin shmGhosts.early
    BY <1>5
  <2> QED
    BY <1>1, <2>1, <2>3, <2>4, FS_EmptySet DEF ShmInv, CountInv
<1>12. TextInv'
  <2>1. /\ r.pc = "write_on" <=> server[s].pc = "write_on"
        /\ server[s].pc # "start" /\ seg'.text = seg.text
        /\ r.round = server[s].round \/ r.pc # "write_on"
    BY <1>2
  <2> QED
    BY <1>2, <1>5, <2>1, TextSame
<1>13. SeenInv' /\ NoTornText'
  <2>1. SeenInv'
    BY <1>4 DEF ShmInv, SeenInv
  <2>2. NoTornText'
    BY <1>4, <1>5, <1>6 DEF ShmInv, NoTornText
  <2> QED
    BY <2>1, <2>2
<1> QED
  BY <1>7, <1>8, <1>9, <1>10, <1>11, <1>12, <1>13 DEF ShmInv

(* The kernel undoes the lock of a server that ends.  It has a set only if *)
(* it was killed or the set is gone.                                       *)
LEMMA EndServerKeeps ==
  ASSUME ShmInv, NEW s \in Servers, EndServer(s), UNCHANGED <<seg, client>>,
         shmGhosts' \in GhostStates, shmGhosts'.early = shmGhosts.early,
         shmGhosts.killed \subseteq shmGhosts'.killed,
         shmGhosts.torn \subseteq shmGhosts'.torn,
         server[s].pc = "write_on" => server[s].seg \in shmGhosts'.torn,
         s \in shmGhosts'.killed \/ ~Exists(server[s].set),
         server[s].pc # "start"
  PROVE  ShmInv'
<1> USE DEF None
<1>1. /\ TypeInv /\ server[s] \in ServerStates
      /\ server[s].undo = IF server[s].pc \in WritePlaces THEN -1 ELSE 0
  BY DEF ShmInv, TypeInv, UndoInv
<1>2. PICK r \in ServerStates :
        r = [server[s] EXCEPT !.pc = "ended", !.handler = "none", !.undo = 0, !.round = 0]
  <2>1. PICK u \in -1..0, n \in Nat : u = 0 /\ n = 0
    OBVIOUS
  <2>2. [server[s] EXCEPT !.pc = "ended", !.handler = "none", !.undo = u, !.round = n] \in ServerStates
    BY <1>1 DEF ServerStates
  <2> QED
    BY <2>1, <2>2
<1>3. /\ r.pc = "ended" /\ r.handler = "none" /\ r.undo = 0
      /\ r.seg = server[s].seg /\ r.set = server[s].set
  BY <1>1, <1>2 DEF ServerStates
<1>4. ServerBecomes(s, r)
  <2>1. server' = [server EXCEPT ![s] = r]
    BY <1>2 DEF EndServer, ShmInv, TypeInv
  <2> QED
    BY <1>1, <2>1, ServerSet
<1>5. /\ \A t \in Servers : /\ server'[t].set = server[t].set /\ server'[t].seg = server[t].seg
                            /\ t = s \/ server'[t] = server[t]
      /\ server'[s].pc = "ended" /\ server'[s].handler = "none" /\ server'[s].undo = 0
      /\ "ended" \notin WritePlaces \cup ServerLoop
  BY <1>3, <1>4 DEF ServerBecomes, ServerLoop, WritePlaces
<1>6. /\ sem'.key = sem.key /\ sem'.made = sem.made /\ sem'.val[0] = sem.val[0]
      /\ sem' \in [key : Nat, made : Nat, val : [0..1 -> Nat]]
      /\ ~Exists(server[s].set) => sem' = sem
      /\ Exists(server[s].set) /\ sem.val[1] + server[s].undo >= 0 =>
           sem'.val[1] = sem.val[1] + server[s].undo
  <2>1. CASE ~Exists(server[s].set)
    BY <1>1, <2>1 DEF EndServer, Undone, TypeInv
  <2>2. CASE Exists(server[s].set)
    <3>1. server[s].undo \in -1..0 /\ sem.val[1] \in Nat
      BY <1>1 DEF TypeInv
    <3>2. PICK v \in Nat : v = IF sem.val[1] + server[s].undo < 0 THEN 0
                               ELSE sem.val[1] + server[s].undo
      BY <3>1
    <3>3. sem' = [sem EXCEPT !.val[1] = v]
      BY <2>2, <3>2 DEF EndServer, Undone
    <3> QED
      BY <1>1, <2>2, <3>1, <3>2, <3>3, SemSet
  <2> QED
    BY <2>1, <2>2
<1>7. TypeInv'
  BY <1>1, <1>4, <1>6 DEF TypeInv, ServerBecomes
<1>8. SetInv'
  <2>1. \A t \in Servers : server'[t].pc \in ServerLoop \cup {"start", "semget", "set_readers", "set_writer"}
                             => server'[t] = server[t]
    BY <1>5
  <2> QED
    BY <1>5, <1>6, <2>1 DEF ShmInv, SetInv
<1>9. UndoInv' /\ ExclusionInv'
  <2>1. UndoInv'
    BY <1>5 DEF ShmInv, UndoInv
  <2>2. ExclusionInv'
    BY <1>5 DEF ShmInv, ExclusionInv
  <2> QED
    BY <2>1, <2>2
<1>10. CountInv'
  <2> SUFFICES ASSUME sem.key \notin shmGhosts.early \cup {None}
               PROVE  sem'.val[0] = Cardinality(Reading') /\ sem'.val[1] = Cardinality(Writing')
    BY <1>6 DEF CountInv
  <2>1. sem.val[0] = Cardinality(Reading) /\ sem.val[1] = Cardinality(Writing)
    BY DEF ShmInv, CountInv
  <2>2. Reading' = Reading
    BY <1>6 DEF Reading, Exists
  <2>3. \A t \in Servers : t \in Writing' <=> t \in Writing \ {s}
    BY <1>5, <1>6 DEF Writing, Exists, WritePlaces
  <2>4. Writing' = Writing \ {s}
    BY <2>3 DEF Writing
  <2>5. CASE s \in Writing
    <3>1. Exists(server[s].set) /\ server[s].undo = -1
      BY <1>1, <2>5 DEF Writing, WritePlaces
    <3>2. Cardinality(Writing) >= 1
      BY <2>5, HoldersFinite
    <3>3. Cardinality(Writing') = Cardinality(Writing) - 1
      BY <2>4, <2>5, HolderLeaves
    <3> QED
      BY <1>6, <2>1, <2>2, <3>1, <3>2, <3>3, HoldersFinite
  <2>6. CASE s \notin Writing
    <3>1. Exists(server[s].set) => server[s].undo = 0
      BY <1>1, <2>6 DEF Writing, WritePlaces
    <3>2. Writing' = Writing
      BY <2>4, <2>6
    <3> QED
      BY <1>6, <2>1, <2>2, <3>1, <3>2, HoldersFinite
  <2> QED
    BY <2>5, <2>6
<1>11. TextInv'
  <2>1. CASE server[s].pc # "write_on"
    BY <1>3, <1>4, <2>1, TextSame
  <2>2. CASE server[s].pc = "write_on"
    <3>1. \A t \in Servers : server'[t].pc # "start" => server'[t].seg \in 1..Len(seg'.text)
      BY <1>5 DEF ShmInv, TextInv
    <3>2. \A g \in 1..Len(seg'.text) :
            (\A t \in Servers : server'[t].set # None => server'[t].seg # g)
            => seg'.text[g] = <<Blank, Blank>>
      BY <1>5 DEF ShmInv, TextInv
    <3>3. ASSUME NEW t \in Servers, server'[t].set # None, WritesAlone(t)',
                 server'[t].seg \notin shmGhosts'.torn
          PROVE  /\ server'[t].pc # "write_on" =>
                      seg.text[server'[t].seg][1] = seg.text[server'[t].seg][2]
                 /\ server'[t].pc = "write_on" =>
                      seg.text[server'[t].seg][1] = <<t, server'[t].round>>
      <4>1. t # s /\ server'[t] = server[t]
        BY <1>5, <2>2, <3>3
      <4>2. WritesAlone(t) /\ server[t].set # None /\ server[t].seg \notin shmGhosts.torn
        BY <1>5, <3>3, <4>1 DEF WritesAlone
      <4> QED
        BY <4>1, <4>2 DEF ShmInv, TextInv
    <3> QED
      BY <3>1, <3>2, <3>3 DEF TextInv
  <2> QED
    BY <2>1, <2>2
<1>12. SeenInv' /\ NoTornText'
  <2>1. SeenInv'
    BY DEF ShmInv, SeenInv
  <2>2. NoTornText'
    BY <1>5 DEF ShmInv, NoTornText
  <2> QED
    BY <2>1, <2>2
<1>13. SetHasServer'
  <2>1. CASE s \in shmGhosts'.killed
    BY <1>5, <1>6, <2>1 DEF ShmInv, SetHasServer
  <2>2. CASE ~Exists(server[s].set)
    BY <1>5, <1>6, <2>2 DEF ShmInv, SetHasServer, Exists
  <2> QED
    BY <2>1, <2>2
<1> QED
  BY <1>7, <1>8, <1>9, <1>10, <1>11, <1>12, <1>13 DEF ShmInv

LEMMA ServerKeeps ==
  ASSUME ShmInv, NEW s \in Servers,
         AttachServer(s) \/ ServerStep(s) \/ Interrupt(s) \/ KillServer(s)
  PROVE  ShmInv'
<1>1. shmGhosts \in GhostStates /\ TypeInv
  BY DEF ShmInv, TypeInv
<1>2. CASE MakeSet(s)
  <2>1. CASE sem.key = None
    BY <1>2, <2>1, MakeSetKeeps
  <2>2. CASE sem.key # None
    <3>1. EndServer(s) /\ UNCHANGED <<seg, client, shmGhosts>> /\ server[s].pc = "semget"
      BY <1>2, <2>2 DEF MakeSet, Runs
    <3>2. ~Exists(server[s].set)
      BY <3>1 DEF ShmInv, SetInv, Exists
    <3> QED
      BY <1>1, <3>1, <3>2, EndServerKeeps
  <2> QED
    BY <2>1, <2>2
<1>3. CASE LeaveServer(s)
  <2>1. /\ EndServer(s) /\ UNCHANGED <<seg, client, shmGhosts>>
        /\ server[s].pc \in {"lock", "release"} /\ ~Exists(server[s].set)
    BY <1>3 DEF LeaveServer, Runs
  <2> QED
    BY <1>1, <2>1, EndServerKeeps
<1>4. CASE KillServer(s)
  <2>1. PICK g \in SUBSET Nat : g = IF server[s].pc = "write_on" THEN {server[s].seg} ELSE {}
    <3>1. server[s].seg \in Nat
      BY <1>1 DEF TypeInv, ServerStates
    <3>2. (IF server[s].pc = "write_on" THEN {server[s].seg} ELSE {}) \in SUBSET Nat
      BY <3>1
    <3> QED
      BY <3>2
  <2>2. /\ EndServer(s) /\ UNCHANGED <<seg, client>> /\ server[s].pc # "start"
        /\ shmGhosts' = [shmGhosts EXCEPT !.faults = @ + 1, !.killed = @ \cup {s},
                                          !.torn = @ \cup g]
    BY <1>4, <2>1 DEF KillServer
  <2>3. /\ shmGhosts' \in GhostStates /\ shmGhosts'.early = shmGhosts.early
        /\ shmGhosts'.killed = shmGhosts.killed \cup {s}
        /\ shmGhosts'.torn = shmGhosts.torn \cup g
    BY <1>1, <2>2, KillGives
  <2>4. /\ s \in shmGhosts'.killed /\ shmGhosts.killed \subseteq shmGhosts'.killed
        /\ shmGhosts.torn \subseteq shmGhosts'.torn
        /\ server[s].pc = "write_on" => server[s].seg \in shmGhosts'.torn
    BY <2>1, <2>3
  <2> QED
    BY <2>2, <2>3, <2>4, EndServerKeeps
<1> QED
  BY <1>2, <1>3, <1>4, AttachServerKeeps, SetReadersKeeps, SetWriterKeeps, LockServerKeeps,
     WriteKeeps, ReleaseServerKeeps, CleanUpKeeps
  DEF ServerStep

LEMMA NextShm == ShmInv /\ [Next]_vars => ShmInv'
<1> SUFFICES ASSUME ShmInv, [Next]_vars PROVE ShmInv'
  OBVIOUS
<1>1. CASE Next
  BY <1>1, ClientKeeps, ServerKeeps DEF Next
<1>2. CASE UNCHANGED vars
  <2> USE <1>2 DEF vars, ShmInv
  <2>1. TypeInv' /\ SetInv' /\ SetHasServer'
    BY DEF TypeInv, SetInv, SetHasServer
  <2>2. UndoInv' /\ ExclusionInv'
    BY DEF UndoInv, ExclusionInv
  <2>3. Reading' = Reading /\ Writing' = Writing
    BY DEF Reading, Writing, Exists
  <2>4. CountInv'
    BY <2>3 DEF CountInv
  <2>5. TextInv'
    BY DEF TextInv, WritesAlone
  <2>6. SeenInv' /\ NoTornText'
    BY DEF SeenInv, NoTornText
  <2> QED
    BY <2>1, <2>2, <2>4, <2>5, <2>6
<1> QED
  BY <1>1, <1>2

-----------------------------------------------------------------------------
(* The invariant of the time server in shared memory.                      *)
THEOREM ShmInvariant == Spec => []ShmInv
BY InitShm, NextShm, PTL DEF Spec

(* The semaphores count the processes that hold a lock, and the kernel     *)
(* owes exactly what they hold, for any number of servers and clients.     *)
THEOREM LocksMatchHoldersHolds == Spec => []LocksMatchHolders
<1>1. ShmInv => LocksMatchHolders
  <2> SUFFICES ASSUME ShmInv PROVE LocksMatchHolders
    OBVIOUS
  <2> USE DEF ShmInv, None
  <2>1. ShmTypeOK
    BY DEF TypeInv, SetInv, ShmTypeOK, ServerStates, ClientStates
  <2> SUFFICES ASSUME sem.key \notin shmGhosts.early \cup {None}
               PROVE  /\ \A c \in Clients : Exists(client[c].set) =>
                           client[c].undo = IF c \in Reading THEN -1 ELSE 0
                      /\ \A s \in Servers : Exists(server[s].set) =>
                           server[s].undo = IF s \in Writing THEN -1 ELSE 0
                      /\ Reading = {} \/ Writing = {}
    BY <2>1 DEF LocksMatchHolders, CountInv
  <2>2. \A c \in Clients : Exists(client[c].set) =>
          client[c].undo = IF c \in Reading THEN -1 ELSE 0
    BY DEF UndoInv, Reading, Exists, ReadPlaces
  <2>3. \A s \in Servers : Exists(server[s].set) =>
          server[s].undo = IF s \in Writing THEN -1 ELSE 0
    BY DEF UndoInv, Writing, Exists, WritePlaces
  <2>4. Reading = {} \/ Writing = {}
    BY DEF ExclusionInv, Reading, Writing, Exists, ReadPlaces, WritePlaces
  <2> QED
    BY <2>2, <2>3, <2>4
<1> QED
  BY <1>1, ShmInvariant, PTL

(* A client prints a text that the server wrote in one piece, whatever     *)
(* servers and clients come and go, and wherever but inside strcpy() they  *)
(* are killed.                                                             *)
THEOREM NoTornTextHolds == Spec => []NoTornText
<1>1. ShmInv => NoTornText
  BY DEF ShmInv
<1> QED
  BY <1>1, ShmInvariant, PTL

(* A set of semaphores that exists has a server that will remove it, or    *)
(* the server that made this very set was killed.                          *)
THEOREM SetHasServerHolds == Spec => []SetHasServer
<1>1. ShmInv => SetHasServer
  BY DEF ShmInv
<1> QED
  BY <1>1, ShmInvariant, PTL
=============================================================================
