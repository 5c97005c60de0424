------------------------------- MODULE CgiConn -------------------------------
(***************************************************************************)
(* cgi_conn of src/CGIserv/CGIserv.cpp for one connection of a child of    *)
(* the process pool: the name of a program is read up to CR LF, in as many *)
(* pieces as the network makes of it, and the program is run.  A text is a *)
(* sequence of tokens and the buffer has a size in tokens.                 *)
(***************************************************************************)
EXTENDS Naturals, Sequences

CONSTANTS
  Letters,      \* what names consist of
  Programs,     \* the names that access() finds
  BufferSize,   \* BUFFER_SIZE
  MaxText       \* bound: tokens that a client sends

CR == "cr"
LF == "lf"
Texts == UNION {[1..n -> Letters \cup {CR, LF}] : n \in 0..MaxText}

NoName == <<CR>>   \* no program was run

VARIABLES
  text,      \* what the client sends
  arrived,   \* how much of it has reached the socket
  taken,     \* and how much of it recv() has taken
  peer,      \* open, closed or reset
  m_buf,     \* the first m_read_idx tokens of the buffer
  cgi,       \* idle in epoll_wait() with or without an event to come, inside
             \* process(), closed
  ran        \* the program that was run; a fork() that failed

cgiVars == <<text, arrived, taken, peer, m_buf, cgi, ran>>

Init ==
  /\ text \in Texts /\ arrived = 0 /\ taken = 0 /\ peer = "open"
  /\ m_buf = <<>> /\ cgi = "idle" /\ ran = [name |-> NoName, failed |-> FALSE]

-----------------------------------------------------------------------------
Event == cgi' = IF cgi = "idle" THEN "event" ELSE cgi

(* Some of the text arrives.                                               *)
Arrive ==
  /\ peer = "open" /\ cgi # "closed" /\ arrived < Len(text)
  /\ arrived' \in (arrived + 1)..Len(text)
  /\ Event
  /\ UNCHANGED <<text, taken, peer, m_buf, ran>>

(* The client ends, or it resets the connection and what is in the socket  *)
(* is lost.                                                                *)
Leave ==
  /\ peer = "open" /\ cgi # "closed"
  /\ peer' \in {"closed", "reset"}
  /\ Event
  /\ UNCHANGED <<text, arrived, taken, m_buf, ran>>

(* epoll_wait() reports the connection, and process() is called.           *)
Process ==
  /\ cgi = "event" /\ cgi' = "recv"
  /\ UNCHANGED <<text, arrived, taken, peer, m_buf, ran>>

Room == BufferSize - 1 - Len(m_buf)
Waiting == arrived - taken
Least(a, b) == IF a < b THEN a ELSE b

(* recv() finds nothing and process() returns; an end, an error, and a     *)
(* buffer without room, for which recv() returns 0 as well, close.         *)
RecvNothing ==
  /\ cgi = "recv"
  /\ \/ Room > 0 /\ Waiting = 0 /\ peer = "open" /\ cgi' = "idle"
     \/ (Room = 0 \/ (Waiting = 0 /\ peer = "closed") \/ peer = "reset") /\ cgi' = "closed"
  /\ UNCHANGED <<text, arrived, taken, peer, m_buf, ran>>

(* Faulty variant: only the new part of the buffer is searched.            *)
LineEndsNew(buf, idx) == {i \in (idx + 2)..Len(buf) : buf[i - 1] = CR /\ buf[i] = LF}

(* Where the line may end when idx tokens were there before: the search    *)
(* looks one token back.                                                   *)
LineEnds(buf, idx) == {i \in (idx + 1)..Len(buf) : i > 1 /\ buf[i - 1] = CR /\ buf[i] = LF}

(* access(), fork() and execl(); the child of the pool closes in any case. *)
Run(name) ==
  /\ cgi' = "closed"
  /\ \/ name \notin Programs /\ ran' = ran
     \/ name \in Programs /\ \E failed \in BOOLEAN :
          ran' = [name |-> IF failed THEN NoName ELSE name, failed |-> failed]

(* recv() takes what has room; the line is looked for.                     *)
Recv ==
  /\ cgi = "recv" /\ peer # "reset" /\ Room > 0 /\ Waiting > 0
  /\ LET n == Least(Room, Waiting)
         buf == m_buf \o SubSeq(text, taken + 1, taken + n)
         ends == LineEnds(buf, Len(m_buf))
     IN /\ m_buf' = buf /\ taken' = taken + n
        /\ \/ ends = {} /\ UNCHANGED <<cgi, ran>>
           \/ \E i \in ends : (\A j \in ends : i <= j) /\ Run(SubSeq(buf, 1, i - 2))
  /\ UNCHANGED <<text, arrived, peer>>

-----------------------------------------------------------------------------
Work == Process \/ RecvNothing \/ Recv

Next == Arrive \/ Leave \/ Work

CgiSpec == Init /\ [][Next]_cgiVars

-----------------------------------------------------------------------------
(* The name in the first line of a text, if the line fits the buffer.      *)
HasLine(t) == \E i \in 2..Len(t) : i < BufferSize /\ t[i - 1] = CR /\ t[i] = LF

NameIn(t) ==
  LET end == CHOOSE i \in 2..Len(t) :
               /\ t[i - 1] = CR /\ t[i] = LF
               /\ \A j \in 2..(i - 1) : ~(t[j - 1] = CR /\ t[j] = LF)
  IN SubSeq(t, 1, end - 2)

(* However the text is cut, a connection that is closed has run the        *)
(* program that the first line names, if there is such a line and such a   *)
(* program, and nothing else; and process() never goes back to waiting     *)
(* with a whole line in the buffer.                                        *)
RunsWhatIsAsked ==
  /\ cgi = "closed" /\ peer # "reset" /\ ~ran.failed =>
       LET came == SubSeq(text, 1, arrived)
       IN ran.name = IF HasLine(came) /\ NameIn(came) \in Programs THEN NameIn(came) ELSE NoName
  /\ cgi \in {"idle", "event"} => ~HasLine(m_buf)
=============================================================================
