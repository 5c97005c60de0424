----------------------------- MODULE ThreadedWeb -----------------------------
(***************************************************************************)
(* The web server of src/TWebServ: main() accepts connections and starts a *)
(* thread for each; a thread reads the request, answers it and adds the    *)
(* bytes of a page to a counter that all threads share.  Threads know      *)
(* their connection by its descriptor number only, and every operation on  *)
(* a number is one on whatever has that number at the moment.              *)
(***************************************************************************)
EXTENDS Naturals

CONSTANTS
  MaxConnections,  \* bound: connections accepted
  MaxFds           \* bound: descriptor numbers, enough for all that is open at once

(* What a request asks for: no two words, something that is answered by an *)
(* error page, the counters, a file or a directory.                        *)
Kinds == {"bad", "error", "status", "page"}
Silent == "none"   \* of a client that closes before it has sent a line

Connections == 1..MaxConnections
Fds == 1..MaxFds
Free == 0
File == MaxConnections + 1   \* what fopen() or opendir() has opened

VARIABLES
  fds,         \* what each number is open for
  conn,        \* per connection: its request, how far it is, the answers it got
  thread,      \* per connection: the thread started for it
  bytes_mutex,
  serv,        \* the counters: serv_requset_num as main() and as the threads
               \* see it, which are two variables, and serv_bytes_num
  webGhosts    \* what happened: bytes sent, a number closed for its new owner,
               \* a crash of the process

webVars == <<fds, conn, thread, bytes_mutex, serv, webGhosts>>

Init ==
  /\ fds = [n \in Fds |-> Free]
  /\ conn = [c \in Connections |-> [at |-> "outside", kind |-> "bad", answers |-> {}]]
  /\ thread = [c \in Connections |->
                 [pc |-> "none", fd |-> 0, kind |-> "bad", file |-> 0, loaded |-> 0]]
  /\ bytes_mutex = Free
  /\ serv = [main_requests |-> 0, requests |-> 0, bytes |-> 0]
  /\ webGhosts = [sent |-> 0, stolen |-> FALSE, crashed |-> FALSE]

-----------------------------------------------------------------------------
FreeFds == {n \in Fds : fds[n] = Free}
Lowest == CHOOSE n \in FreeFds : \A m \in FreeFds : n <= m

At(t, pc) == thread[t].pc = pc /\ ~webGhosts.crashed

GoTo(t, pc) == thread' = [thread EXCEPT ![t].pc = pc]

Object(t) == fds[thread[t].fd]

Crash(t) ==
  /\ webGhosts' = [webGhosts EXCEPT !.crashed = TRUE]
  /\ UNCHANGED <<fds, conn, thread, bytes_mutex, serv>>

(* close() of the number of thread t, whoever has it.                      *)
CloseFd(t) ==
  /\ fds' = [fds EXCEPT ![thread[t].fd] = Free]
  /\ conn' = IF Object(t) \in Connections
               THEN [conn EXCEPT ![Object(t)].at = "closed"] ELSE conn
  /\ webGhosts' = [webGhosts EXCEPT !.stolen = @ \/ Object(t) \notin {Free, t}]

-----------------------------------------------------------------------------
(* A client sends its request after it was accepted, or never; or it       *)
(* closes the connection, or its side of it, without one.                  *)
Send(c) ==
  /\ conn[c].at = "accepted"
  /\ \E kind \in Kinds \cup {Silent} : conn' = [conn EXCEPT ![c].at = "sent", ![c].kind = kind]
  /\ UNCHANGED <<fds, thread, bytes_mutex, serv, webGhosts>>

(* Faulty variant: the thread is given the address of client_fd, which     *)
(* main() assigns again: a thread that has not read it yet finds the new   *)
(* number there.                                                           *)
AcceptShared(c) ==
  /\ ~webGhosts.crashed /\ conn[c].at = "outside" /\ FreeFds # {}
  /\ \A d \in 1..(c - 1) : conn[d].at # "outside"
  /\ fds' = [fds EXCEPT ![Lowest] = c]
  /\ conn' = [conn EXCEPT ![c].at = "accepted"]
  /\ thread' = [d \in Connections |->
                  IF d = c \/ thread[d].pc = "start"
                    THEN [thread[d] EXCEPT !.pc = "start", !.fd = Lowest] ELSE thread[d]]
  /\ serv' = [serv EXCEPT !.main_requests = @ + 1]
  /\ UNCHANGED <<bytes_mutex, webGhosts>>

(* main(): accept(), the count in main()'s own variable, a thread.         *)
Accept(c) ==
  /\ ~webGhosts.crashed /\ conn[c].at = "outside" /\ FreeFds # {}
  /\ \A d \in 1..(c - 1) : conn[d].at # "outside"
  /\ fds' = [fds EXCEPT ![Lowest] = c]
  /\ conn' = [conn EXCEPT ![c].at = "accepted"]
  /\ thread' = [thread EXCEPT ![c].pc = "start", ![c].fd = Lowest]
  /\ serv' = [serv EXCEPT !.main_requests = @ + 1]
  /\ UNCHANGED <<bytes_mutex, webGhosts>>

(* handle_call(): fdopen(fd, "r"), whose null pointer fgets() follows.     *)
OpenInput(t) ==
  /\ At(t, "start")
  /\ \/ /\ Object(t) # Free /\ GoTo(t, "read")
        /\ UNCHANGED <<fds, conn, bytes_mutex, serv, webGhosts>>
     \/ Object(t) = Free /\ Crash(t)

(* fgets() and handle_rest(): the request of the connection that has the   *)
(* number.  Nobody looks at what fgets() returns: if the client has closed *)
(* without a request, or a file or nothing has the number, what is in the  *)
(* buffer, which nobody has initialized, is taken for the request.         *)
ReadRequest(t) ==
  LET own  == {conn[c].kind : c \in {Object(t)} \cap Connections} \cap Kinds
      read == IF own # {} THEN own ELSE Kinds
  IN /\ At(t, "read")
     /\ Object(t) \in Connections => conn[Object(t)].at = "sent"
     /\ conn' = [c \in Connections |->
                   IF c = Object(t) THEN [conn[c] EXCEPT !.at = "read"] ELSE conn[c]]
     /\ \E kind \in read : thread' = [thread EXCEPT ![t].pc = "reply", ![t].kind = kind]
     /\ UNCHANGED <<fds, bytes_mutex, serv, webGhosts>>

(* process_rq() returns at once from a syntax error.                       *)
SyntaxError(t) ==
  /\ At(t, "reply") /\ thread[t].kind = "bad" /\ GoTo(t, "close")
  /\ UNCHANGED <<fds, conn, bytes_mutex, serv, webGhosts>>

(* http_reply(): a second stream on the number.  When fdopen() fails, the  *)
(* error pages are given up and the others use a pointer nobody has set.   *)
Reply(t) ==
  /\ At(t, "reply") /\ thread[t].kind # "bad"
  /\ \/ /\ Object(t) # Free
        /\ conn' = IF Object(t) \in Connections
                     THEN [conn EXCEPT ![Object(t)].answers = @ \cup
                             {[by |-> t, kind |-> thread[t].kind, shown |-> serv.requests]}]
                     ELSE conn
        /\ GoTo(t, IF thread[t].kind = "page" THEN "fopen" ELSE "fclose")
        /\ UNCHANGED <<fds, bytes_mutex, serv, webGhosts>>
     \/ /\ Object(t) = Free /\ thread[t].kind = "error" /\ GoTo(t, "close")
        /\ UNCHANGED <<fds, conn, bytes_mutex, serv, webGhosts>>
     \/ Object(t) = Free /\ thread[t].kind # "error" /\ Crash(t)

(* do_exec() and do_ls() open a file or a directory, copy it and close it. *)
OpenFile(t) ==
  /\ At(t, "fopen")
  /\ FreeFds # {}
  /\ fds' = [fds EXCEPT ![Lowest] = File]
  /\ thread' = [thread EXCEPT ![t].pc = "copy", ![t].file = Lowest]
  /\ UNCHANGED <<conn, bytes_mutex, serv, webGhosts>>

CopyFile(t) ==
  /\ At(t, "copy") /\ GoTo(t, "fclose")
  /\ fds' = IF fds[thread[t].file] = File
              THEN [fds EXCEPT ![thread[t].file] = Free] ELSE fds
  /\ UNCHANGED <<conn, bytes_mutex, serv, webGhosts>>

(* fclose() of the stream that http_reply() has opened.                    *)
CloseOutput(t) ==
  /\ At(t, "fclose")
  /\ GoTo(t, IF thread[t].kind = "page" THEN "lock" ELSE "close")
  /\ CloseFd(t)
  /\ UNCHANGED <<bytes_mutex, serv>>

(* Faulty variant: the mutex is not taken.                                 *)
LockNothing(t) ==
  /\ At(t, "lock") /\ GoTo(t, "load")
  /\ UNCHANGED <<fds, conn, bytes_mutex, serv, webGhosts>>

Lock(t) ==
  /\ At(t, "lock") /\ bytes_mutex = Free
  /\ bytes_mutex' = t /\ GoTo(t, "load")
  /\ UNCHANGED <<fds, conn, serv, webGhosts>>

(* serv_bytes_num += bytes_num is a load and a store.                      *)
Load(t) ==
  /\ At(t, "load")
  /\ thread' = [thread EXCEPT ![t].pc = "store", ![t].loaded = serv.bytes]
  /\ UNCHANGED <<fds, conn, bytes_mutex, serv, webGhosts>>

Store(t) ==
  /\ At(t, "store") /\ GoTo(t, "unlock")
  /\ serv' = [serv EXCEPT !.bytes = thread[t].loaded + 1]
  /\ webGhosts' = [webGhosts EXCEPT !.sent = @ + 1]
  /\ UNCHANGED <<fds, conn, bytes_mutex>>

Unlock(t) ==
  /\ At(t, "unlock") /\ bytes_mutex' = Free /\ GoTo(t, "close")
  /\ UNCHANGED <<fds, conn, serv, webGhosts>>

(* fclose(fpin) closes the number, for the second time if there was an     *)
(* answer.                                                                 *)
CloseInput(t) ==
  /\ At(t, "close") /\ GoTo(t, "done")
  /\ CloseFd(t)
  /\ UNCHANGED <<bytes_mutex, serv>>

-----------------------------------------------------------------------------
ThreadStep(t) ==
  \/ OpenInput(t) \/ ReadRequest(t) \/ SyntaxError(t) \/ Reply(t)
  \/ OpenFile(t) \/ CopyFile(t) \/ CloseOutput(t)
  \/ Lock(t) \/ Load(t) \/ Store(t) \/ Unlock(t) \/ CloseInput(t)

Next == \E c \in Connections : Send(c) \/ Accept(c) \/ ThreadStep(c)

WebSpec == Init /\ [][Next]_webVars

-----------------------------------------------------------------------------
(* No update of serv_bytes_num is lost, though the threads load it and     *)
(* store it: it is the sum of what they have added.                        *)
BytesExact == serv.bytes = webGhosts.sent

(* The answers of a connection come from its own thread, at most one of    *)
(* them, to its own request if it sent one, and it is closed by that       *)
(* thread after the answer.  A client that closes before it has sent a     *)
(* line may get an answer all the same, to a request that nobody made.     *)
(* All of this ends when a thread closes its number once more while        *)
(* another connection or a file has it.                                    *)
AnswersOwnRequest ==
  webGhosts.stolen \/
    \A c \in Connections :
      /\ \A a \in conn[c].answers : a.by = c /\ conn[c].kind \in {a.kind, Silent}
      /\ \A a, e \in conn[c].answers : a = e
      /\ conn[c].at = "closed" => conn[c].answers # {} \/ conn[c].kind \in {"bad", Silent}

=============================================================================
