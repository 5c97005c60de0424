------------------------------- MODULE ShmTime -------------------------------
(***************************************************************************)
(* The time server of src/ShmTServ and its clients, src/ShmTClnt.  They    *)
(* share a segment with the text of the time; of two System V semaphores,  *)
(* 0 counts the readers and 1 the writer.  A semop() over both semaphores  *)
(* is one step, and the kernel undoes the operations of a process that     *)
(* ends (SEM_UNDO).  Servers and clients are processes that are started at *)
(* any time, each at most once.  Identifiers of segments and of semaphore  *)
(* sets are not reused: a removed one names nothing any more.              *)
(***************************************************************************)
EXTENDS Integers, Sequences, FiniteSets

CONSTANTS
  Servers, Clients,   \* processes
  MaxRounds,          \* how often a server writes the time, 60
  MaxStarts,          \* bound: processes started
  MaxFaults           \* bound: processes killed and servers interrupted

ASSUME ShmTimeAssumption ==
  /\ IsFiniteSet(Servers) /\ IsFiniteSet(Clients) /\ Servers \cap Clients = {}
  /\ MaxRounds \in Nat \ {0} /\ {MaxStarts, MaxFaults} \subseteq Nat

None == 0     \* no segment, no set of semaphores; identifiers count from 1
Blank == <<>> \* the text of a new segment; a written one is <<server, round>>

VARIABLES
  seg,       \* the segment under TIME_MEM_KEY, and the texts of all segments:
             \* two halves each, since strcpy() is not one step
  sem,       \* the set under TIME_SEM_KEY, the number of sets made, its values
  server,    \* per server: pc, handler, segment, set, undo of semaphore 1, round
  client,    \* per client: pc, segment, set, undo of semaphore 0, what it read
  shmGhosts  \* what happened: sets whose readers were set to zero, processes that
             \* were killed, segments whose server was killed between the two
             \* halves of a text; and the bounds

vars == <<seg, sem, server, client, shmGhosts>>

Client(pc) ==
  [pc |-> pc, seg |-> None, set |-> None, undo |-> 0, seen |-> <<Blank, Blank>>]

Init ==
  /\ seg = [key |-> None, text |-> <<>>]
  /\ sem = [key |-> None, made |-> 0, val |-> [i \in 0..1 |-> 0]]
  /\ server = [s \in Servers |-> [pc |-> "start", handler |-> "none", seg |-> None,
                                  set |-> None, undo |-> 0, round |-> 0]]
  /\ client = [c \in Clients |-> Client("start")]
  /\ shmGhosts = [early |-> {}, killed |-> {}, torn |-> {}, starts |-> 0, faults |-> 0]

-----------------------------------------------------------------------------
(* The kernel.                                                             *)

Exists(set) == set # None /\ set = sem.key

Plus(i, n) == [sem EXCEPT !.val[i] = @ + n]

(* A process ends: what it still owes to semaphore i is undone, though no  *)
(* value falls below zero.                                                 *)
Undone(i, set, undo) ==
  IF ~Exists(set) THEN sem
  ELSE [sem EXCEPT !.val[i] = IF @ + undo < 0 THEN 0 ELSE @ + undo]

(* shmget(TIME_MEM_KEY, 100, IPC_CREAT) and shmat().                       *)
Shmget ==
  seg' = IF seg.key # None THEN seg
         ELSE [key |-> Len(seg.text) + 1, text |-> Append(seg.text, <<Blank, Blank>>)]

Start ==
  /\ shmGhosts.starts < MaxStarts
  /\ shmGhosts' = [shmGhosts EXCEPT !.starts = @ + 1]

EndServer(s) ==
  /\ server' = [server EXCEPT ![s].pc = "ended", ![s].handler = "none",
                              ![s].undo = 0, ![s].round = 0]
  /\ sem' = Undone(1, server[s].set, server[s].undo)

EndClient(c) ==
  /\ client' = [client EXCEPT ![c] = Client("ended")]
  /\ sem' = Undone(0, client[c].set, client[c].undo)

-----------------------------------------------------------------------------
(* A client.                                                               *)

At(c, pc) == client[c].pc = pc

AttachClient(c) ==
  /\ At(c, "start") /\ Start /\ Shmget
  /\ client' = [client EXCEPT ![c].pc = "semget", ![c].seg = seg'.key]
  /\ UNCHANGED <<sem, server>>

(* semget(): without a set the identifier is -1.                           *)
FindSet(c) ==
  /\ At(c, "semget")
  /\ client' = [client EXCEPT ![c].pc = "lock", ![c].set = sem.key]
  /\ UNCHANGED <<seg, sem, server, shmGhosts>>

(* Faulty variant: the writer is not waited for.                           *)
LockClientAtOnce(c) ==
  /\ At(c, "lock") /\ Exists(client[c].set)
  /\ sem' = Plus(0, 1)
  /\ client' = [client EXCEPT ![c].pc = "read", ![c].undo = @ - 1]
  /\ UNCHANGED <<seg, server, shmGhosts>>

(* wait_and_lock(): no writer, and one reader more.                        *)
LockClient(c) ==
  /\ At(c, "lock") /\ Exists(client[c].set) /\ sem.val[1] = 0
  /\ sem' = Plus(0, 1)
  /\ client' = [client EXCEPT ![c].pc = "read", ![c].undo = @ - 1]
  /\ UNCHANGED <<seg, server, shmGhosts>>

(* printf() reads the text, at some moment of its call.                    *)
Read(c) ==
  /\ At(c, "read")
  /\ client' = [client EXCEPT ![c].pc = "release", ![c].seen = seg.text[client[c].seg]]
  /\ UNCHANGED <<seg, sem, server, shmGhosts>>

(* Faulty variant: release_lock() without SEM_UNDO leaves the undo of      *)
(* wait_and_lock() standing.                                               *)
ReleaseClientTwice(c) ==
  /\ At(c, "release") /\ Exists(client[c].set) /\ sem.val[0] > 0
  /\ sem' = Plus(0, -1)
  /\ client' = [client EXCEPT ![c].pc = "leave"]
  /\ UNCHANGED <<seg, server, shmGhosts>>

(* release_lock() waits while the semaphore is zero.                       *)
ReleaseClient(c) ==
  /\ At(c, "release") /\ Exists(client[c].set) /\ sem.val[0] > 0
  /\ sem' = Plus(0, -1)
  /\ client' = [client EXCEPT ![c].pc = "leave", ![c].undo = @ + 1]
  /\ UNCHANGED <<seg, server, shmGhosts>>

(* main() returns, or a semop() finds its set gone and oops() exits.       *)
LeaveClient(c) ==
  /\ \/ At(c, "leave")
     \/ client[c].pc \in {"lock", "release"} /\ ~Exists(client[c].set)
  /\ EndClient(c)
  /\ UNCHANGED <<seg, server, shmGhosts>>

-----------------------------------------------------------------------------
(* A server.  Its main program stands still while the handler runs.        *)

Runs(s, pc) == server[s].pc = pc /\ server[s].handler = "none"

GoTo(s, pc) == server' = [server EXCEPT ![s].pc = pc]

AttachServer(s) ==
  /\ Runs(s, "start") /\ Start /\ Shmget
  /\ server' = [server EXCEPT ![s].pc = "semget", ![s].seg = seg'.key]
  /\ UNCHANGED <<sem, client>>

(* semget(IPC_EXCL) fails if there is a set, and then semctl() does, which *)
(* ends the server.                                                        *)
MakeSet(s) ==
  /\ Runs(s, "semget")
  /\ IF sem.key # None
       THEN EndServer(s)
       ELSE /\ sem' = [key |-> sem.made + 1, made |-> sem.made + 1, val |-> [i \in 0..1 |-> 0]]
            /\ server' = [server EXCEPT ![s].pc = "set_readers", ![s].set = sem'.key]
  /\ UNCHANGED <<seg, client, shmGhosts>>

(* SETVAL of semaphore 0 forgets what clients owe to it.                   *)
SetReaders(s) ==
  /\ Runs(s, "set_readers") /\ GoTo(s, "set_writer")
  /\ sem' = [sem EXCEPT !.val[0] = 0]
  /\ client' = [c \in Clients |-> IF client[c].set = server[s].set
                                    THEN [client[c] EXCEPT !.undo = 0] ELSE client[c]]
  /\ shmGhosts' = IF \E c \in Clients : client[c].set = server[s].set /\ client[c].undo # 0
                    THEN [shmGhosts EXCEPT !.early = @ \cup {server[s].set}] ELSE shmGhosts
  /\ UNCHANGED seg

(* SETVAL of semaphore 1, which nobody but this server operates on, and    *)
(* signal(SIGINT, clean_up).                                               *)
SetWriter(s) ==
  /\ Runs(s, "set_writer") /\ GoTo(s, "lock")
  /\ sem' = [sem EXCEPT !.val[1] = 0]
  /\ UNCHANGED <<seg, client, shmGhosts>>

(* Faulty variant: without SEM_UNDO the kernel owes nothing.               *)
LockServerForGood(s) ==
  /\ Runs(s, "lock") /\ Exists(server[s].set) /\ sem.val[0] = 0
  /\ sem' = Plus(1, 1)
  /\ server' = [server EXCEPT ![s].pc = "write", ![s].round = @ + 1]
  /\ UNCHANGED <<seg, client, shmGhosts>>

(* wait_and_lock(): no readers, and a writer.                              *)
LockServer(s) ==
  /\ Runs(s, "lock") /\ Exists(server[s].set) /\ sem.val[0] = 0
  /\ sem' = Plus(1, 1)
  /\ server' = [server EXCEPT ![s].pc = "write", ![s].undo = @ - 1, ![s].round = @ + 1]
  /\ UNCHANGED <<seg, client, shmGhosts>>

(* strcpy() writes one half of the text and then the other.                *)
Write(s) ==
  LET text == <<s, server[s].round>>
  IN /\ \/ /\ Runs(s, "write") /\ GoTo(s, "write_on")
           /\ seg' = [seg EXCEPT !.text[server[s].seg][1] = text]
        \/ /\ Runs(s, "write_on") /\ GoTo(s, "release")
           /\ seg' = [seg EXCEPT !.text[server[s].seg][2] = text]
     /\ UNCHANGED <<sem, client, shmGhosts>>

(* release_lock(); the last round is followed by clean_up(0).              *)
ReleaseServer(s) ==
  /\ Runs(s, "release") /\ Exists(server[s].set) /\ sem.val[1] > 0
  /\ sem' = Plus(1, -1)
  /\ server' = [server EXCEPT ![s].undo = @ + 1,
                              ![s].pc = IF server[s].round < MaxRounds THEN "lock" ELSE "clean_seg"]
  /\ UNCHANGED <<seg, client, shmGhosts>>

(* shmctl(IPC_RMID) and semctl(IPC_RMID) of what this server has.          *)
RemoveSeg(s) ==
  /\ seg' = IF seg.key = server[s].seg THEN [seg EXCEPT !.key = None] ELSE seg
  /\ UNCHANGED <<sem, client, shmGhosts>>

RemoveSet(s) ==
  /\ sem' = IF Exists(server[s].set) THEN [sem EXCEPT !.key = None] ELSE sem
  /\ UNCHANGED <<seg, client, shmGhosts>>

(* Faulty variant: clean_up() forgets the semaphores.                      *)
CleanUpHalf(s) ==
  \/ Runs(s, "clean_seg") /\ RemoveSeg(s) /\ GoTo(s, "ended")
  \/ /\ server[s].handler = "clean_seg" /\ RemoveSeg(s)
     /\ server' = [server EXCEPT ![s].handler = "none"]

(* clean_up(), called at the end of main() and as the handler of SIGINT.   *)
CleanUp(s) ==
  \/ Runs(s, "clean_seg") /\ RemoveSeg(s) /\ GoTo(s, "clean_set")
  \/ Runs(s, "clean_set") /\ RemoveSet(s) /\ GoTo(s, "ended")
  \/ /\ server[s].handler = "clean_seg" /\ RemoveSeg(s)
     /\ server' = [server EXCEPT ![s].handler = "clean_set"]
  \/ /\ server[s].handler = "clean_set" /\ RemoveSet(s)
     /\ server' = [server EXCEPT ![s].handler = "none"]

(* A semop() finds the set gone, and oops() exits.                         *)
LeaveServer(s) ==
  /\ (Runs(s, "lock") \/ Runs(s, "release")) /\ ~Exists(server[s].set)
  /\ EndServer(s)
  /\ UNCHANGED <<seg, client, shmGhosts>>

-----------------------------------------------------------------------------
(* From outside.                                                           *)

(* SIGINT once the handler is installed.                                   *)
Interrupt(s) ==
  /\ shmGhosts.faults < MaxFaults
  /\ \E pc \in {"lock", "write", "write_on", "release", "clean_seg", "clean_set"} :
       Runs(s, pc)
  /\ server' = [server EXCEPT ![s].handler = "clean_seg"]
  /\ shmGhosts' = [shmGhosts EXCEPT !.faults = @ + 1]
  /\ UNCHANGED <<seg, sem, client>>

(* A process is killed, also by a SIGINT it does not handle.               *)
KillServer(s) ==
  /\ shmGhosts.faults < MaxFaults /\ server[s].pc \notin {"start", "ended"}
  /\ EndServer(s)
  /\ shmGhosts' = [shmGhosts EXCEPT
                     !.faults = @ + 1, !.killed = @ \cup {s},
                     !.torn = @ \cup IF server[s].pc = "write_on" THEN {server[s].seg} ELSE {}]
  /\ UNCHANGED <<seg, client>>

KillClient(c) ==
  /\ shmGhosts.faults < MaxFaults /\ client[c].pc \notin {"start", "ended"}
  /\ EndClient(c)
  /\ shmGhosts' = [shmGhosts EXCEPT !.faults = @ + 1, !.killed = @ \cup {c}]
  /\ UNCHANGED <<seg, server>>

-----------------------------------------------------------------------------
ClientStep(c) ==
  FindSet(c) \/ LockClient(c) \/ Read(c) \/ ReleaseClient(c) \/ LeaveClient(c)

ServerStep(s) ==
  \/ MakeSet(s) \/ SetReaders(s) \/ SetWriter(s) \/ LockServer(s)
  \/ Write(s) \/ ReleaseServer(s) \/ CleanUp(s) \/ LeaveServer(s)

Next ==
  \/ \E c \in Clients : AttachClient(c) \/ ClientStep(c) \/ KillClient(c)
  \/ \E s \in Servers : AttachServer(s) \/ ServerStep(s) \/ Interrupt(s) \/ KillServer(s)

(* Processes run once they are started; nobody has to start, interrupt or  *)
(* kill one.                                                               *)
Fairness ==
  /\ \A c \in Clients : WF_vars(ClientStep(c))
  /\ \A s \in Servers : WF_vars(ServerStep(s))

Spec == Init /\ [][Next]_vars /\ Fairness

-----------------------------------------------------------------------------
Reading == {c \in Clients : client[c].pc \in {"read", "release"}
                              /\ Exists(client[c].set)}
Writing == {s \in Servers : server[s].pc \in {"write", "write_on", "release"}
                              /\ Exists(server[s].set)}

ShmTypeOK ==
  /\ sem.key \in {None, sem.made} /\ sem.made \in Nat /\ sem.val \in [0..1 -> Nat]
  /\ seg.key \in {None, Len(seg.text)}
  /\ \A c \in Clients : client[c].set \in 0..sem.made /\ client[c].undo \in -1..1
  /\ \A s \in Servers : server[s].set \in 0..sem.made /\ server[s].undo \in -1..0

(* The semaphores count the processes that hold a lock, and what the       *)
(* kernel would undo is what each of them holds, whatever process is       *)
(* killed and however often servers come and go; so there is one writer or *)
(* there are readers.  A set whose readers were set to zero is excepted.   *)
LocksMatchHolders ==
  /\ ShmTypeOK
  /\ sem.key \notin shmGhosts.early \cup {None} =>
    /\ sem.val[0] = Cardinality(Reading) /\ sem.val[1] = Cardinality(Writing)
    /\ \A c \in Clients : Exists(client[c].set) => client[c].undo = IF c \in Reading THEN -1 ELSE 0
    /\ \A s \in Servers : Exists(server[s].set) => server[s].undo = IF s \in Writing THEN -1 ELSE 0
    /\ Reading = {} \/ Writing = {}

(* A client prints a text that the server wrote in one piece, whoever is   *)
(* interrupted between the two halves, and whatever sets and segments      *)
(* clean_up() removes around it, and wherever else a server is killed.     *)
(* Excepted are a segment that two servers write, the lock of a server     *)
(* that writes another segment, a set whose readers were set to zero, and  *)
(* a segment whose server was killed in the middle of strcpy().            *)
NoTornText ==
  \A c \in Clients :
    LET OneServer == \A s \in Servers :
          server[s].seg = client[c].seg /\ server[s].set # None
            <=> server[s].set = client[c].set
    IN /\ OneServer /\ client[c].set \notin shmGhosts.early /\ client[c].seg \notin shmGhosts.torn
       => client[c].seen[1] = client[c].seen[2]

(* No set of semaphores stays behind, which would keep every later server  *)
(* from starting: one that exists has a server that will remove it, unless *)
(* the server that made this very set was killed.                          *)
SetHasServer ==
  sem.key # None =>
    \E s \in Servers : /\ server[s].set = sem.key
                       /\ server[s].pc \notin {"start", "ended"} \/ s \in shmGhosts.killed

(* No process is stuck: again and again all that were started have ended,  *)
(* since the lock of a killed one is undone and a removed set wakes who    *)
(* waits for it.  A set whose readers were set to zero keeps this promise  *)
(* only while nothing is killed.                                           *)
NobodyStuck ==
  []<>(\/ /\ \A c \in Clients : client[c].pc \in {"start", "ended"}
          /\ \A s \in Servers : server[s].pc \in {"start", "ended"}
       \/ shmGhosts.early # {} /\ shmGhosts.killed # {})
=============================================================================
