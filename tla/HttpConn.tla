------------------------------ MODULE HttpConn ------------------------------
(***************************************************************************)
(* One http_conn object of src/Http/http_conn.cpp, from the accept of its  *)
(* connection to close_conn(): the events the main thread receives for it, *)
(* read(), the line parser and the request state machine run by a worker,  *)
(* process_write(), and write() against a socket whose send buffer fills.  *)
(*                                                                         *)
(* Data.  The text of a line, which parse_line() only walks over, is one   *)
(* token; CR and LF are tokens of their own, because where they are cut    *)
(* decides what parse_line() returns.  A response is a sequence of units:  *)
(* status line, headers, body pieces.  Sizes count tokens and units.       *)
(*                                                                         *)
(* No timer closes the connection here: http.cpp never calls alarm() by    *)
(* itself.  HttpServer has the timers.                                     *)
(***************************************************************************)
EXTENDS Naturals, Integers, Sequences, FiniteSetsExt

CONSTANTS
  Requests,         \* the requests that a client may send, see IsRequest
  ReadBufferSize,   \* READ_BUFFER_SIZE
  WriteBufferSize,  \* WRITE_BUFFER_SIZE
  SendBufferSize,   \* room in the kernel's send buffer of the socket
  WriteRoom,        \* the free room at which the kernel reports EPOLLOUT
  MaxRequests       \* bound: requests sent on the connection

CR  == <<"CR">>
LF  == <<"LF">>
NUL == <<"NUL">>

Paths == {"file", "empty", "gone", "private", "dir"}
Lines == {"GET", "POST"} \X Paths \cup {<<"PUT", "file">>}

(* A request by its fields.  "keep" is the header Connection: keep-alive,  *)
(* "length" is Content-Length with the length of the body.  A body has no  *)
(* line end in it, and it is announced: what follows a request that does   *)
(* not announce it is the beginning of the next one.                       *)
IsRequest(r) ==
  /\ r.line \in Lines
  /\ r.headers \in Seq({"keep", "length", "host"})
  /\ r.body \in Seq({"name=admin", "name=other", "pwd=admin", "pwd=other"})
  /\ r.eol \in {<<CR, LF>>, <<LF>>}
  /\ r.body # <<>> => \E i \in 1..Len(r.headers) : r.headers[i] = "length"

ASSUME HttpConnAssumption ==
  /\ \A r \in Requests : IsRequest(r)
  /\ {ReadBufferSize, WriteBufferSize, SendBufferSize, MaxRequests} \subseteq Nat \ {0}
  /\ WriteRoom \in 1..SendBufferSize

(* The text of a line: the request line has the number 0.                  *)
LineToken(r, k) ==
  IF k = 0 THEN r.line
  ELSE IF r.headers[k] = "length" THEN <<"length", Len(r.body)>>
  ELSE <<r.headers[k]>>

(* What the client puts on the wire: lines of one token and their ends, a  *)
(* blank line, the body.                                                   *)
Encode(r) ==
  LET width == 1 + Len(r.eol)
      lines == width * (1 + Len(r.headers))
      head == lines + Len(r.eol)
  IN [i \in 1..(head + Len(r.body)) |->
        IF i > head THEN <<r.body[i - head]>>
        ELSE IF i > lines THEN r.eol[i - lines]
        ELSE IF (i - 1) % width = 0 THEN LineToken(r, (i - 1) \div width)
        ELSE r.eol[(i - 1) % width]]

VARIABLES
  request,    \* the request the client sends, or has sent last
  client,     \* "idle", "asking", or how it left: "fin", "rst"
  asked,      \* requests begun so far
  script,     \* tokens of request not yet sent
  inbox,      \* tokens that wait in the socket
  unsent,     \* units in the kernel's send buffer
  armed,      \* the EPOLLONESHOT interest: "in", "out" or "none"
  rdhup,      \* the interest includes EPOLLRDHUP (set by modfd, not by addfd)
  phase,      \* who has the object: see TypeOK
  conn,       \* the members of http_conn that init() resets
  iv,         \* m_iv: the units that writev() is offered
  left,       \* bytes_to_send of write(), line_status of process_read()
  code,       \* the HTTP_CODE of the last process_read()
  emitted,    \* units accepted by the kernel for the current response
  cut,        \* some writev() took less than the response
  finished    \* write() has reported the current response as sent

vars == <<request, client, asked, script, inbox, unsent, armed, rdhup, phase,
          conn, iv, left, code, emitted, cut, finished>>

clientVars == <<request, client, asked, script>>
outVars == <<iv, unsent, emitted, cut, finished>>

(* init()                                                                  *)
Fresh ==
  [check_state |-> "REQUESTLINE", linger |-> FALSE, method |-> "GET",
   url |-> "none", content_length |-> 0, start_line |-> 0, checked_idx |-> 0,
   read_buf |-> <<>>, write_buf |-> <<>>]

(* init() of an object in use, after two faulty variants in which m_linger *)
(* or the write buffer keeps its content.                                  *)
ResetKeepingLinger == [Fresh EXCEPT !.linger = conn.linger]
ResetKeepingOutput == [Fresh EXCEPT !.write_buf = conn.write_buf]
Reset == Fresh

NoRequestYet == [line |-> <<"GET", "file">>, headers |-> <<>>, body |-> <<>>,
                 eol |-> <<CR, LF>>]

Init ==
  /\ request = NoRequestYet /\ client = "idle" /\ asked = 0 /\ script = <<>>
  /\ inbox = <<>> /\ unsent = 0
  /\ armed = "in" /\ rdhup = FALSE
  /\ phase = "polling" /\ conn = Fresh /\ iv = <<>> /\ left = 0
  /\ code = "NO_REQUEST"
  /\ emitted = <<>> /\ cut = FALSE /\ finished = FALSE

-----------------------------------------------------------------------------
(* The client.  It waits for the answer before it asks again, and may      *)
(* leave at any moment, by a FIN or by a reset.                            *)

Ask ==
  /\ client = "idle" /\ asked < MaxRequests /\ phase # "closed"
  /\ \E r \in Requests : request' = r /\ script' = Encode(r)
  /\ client' = "asking"
  /\ asked' = asked + 1
  /\ code' = "NO_REQUEST" /\ emitted' = <<>> /\ cut' = FALSE /\ finished' = FALSE
  /\ UNCHANGED <<inbox, unsent, armed, rdhup, phase, conn, iv, left>>

Send ==
  /\ script # <<>> /\ phase # "closed"
  /\ inbox' = Append(inbox, Head(script))
  /\ script' = Tail(script)
  /\ UNCHANGED <<request, client, asked, armed, rdhup, phase, conn, left, code, outVars>>

Leave ==
  /\ client \in {"idle", "asking"} /\ phase # "closed"
  /\ client' \in {"fin", "rst"}
  /\ script' = <<>>
  /\ UNCHANGED <<request, asked, inbox, armed, rdhup, phase, conn, left, code, outVars>>

(* The network takes a unit from the send buffer.                          *)
Deliver ==
  /\ unsent > 0 /\ phase # "closed"
  /\ unsent' = unsent - 1
  /\ UNCHANGED <<clientVars, inbox, armed, rdhup, phase, conn, iv, left, code,
                 emitted, cut, finished>>

-----------------------------------------------------------------------------
(* close_conn(); what SO_LINGER {1, 0} makes of unsent bytes is left out.  *)
CloseConn ==
  /\ phase' = "closed" /\ armed' = "none"

Modfd(event) == armed' = event /\ rdhup' = TRUE

(* Events of the main loop.  EPOLLRDHUP, EPOLLHUP and EPOLLERR are looked  *)
(* at first; an event consumes the one-shot interest.                      *)
HangUp == client = "rst" \/ (client = "fin" /\ rdhup)

EventHangUp ==
  /\ phase = "polling" /\ armed # "none" /\ HangUp
  /\ unsent' = unsent
  /\ CloseConn
  /\ UNCHANGED <<clientVars, inbox, rdhup, conn, iv, left, code, emitted, cut, finished>>

(* EPOLLIN and read(), when the buffer has no room left or the peer has    *)
(* closed and everything is read.                                          *)
ReadFails ==
  /\ phase = "polling" /\ armed = "in" /\ ~HangUp
  /\ inbox # <<>> \/ client = "fin"
  /\ Len(conn.read_buf) >= ReadBufferSize \/ inbox = <<>>
  /\ unsent' = unsent
  /\ CloseConn
  /\ UNCHANGED <<clientVars, inbox, rdhup, conn, iv, left, code, emitted, cut, finished>>

(* Faulty variant: recv() is given the whole size of the buffer.           *)
ReadWholeSize ==
  /\ phase = "polling" /\ armed = "in" /\ ~HangUp
  /\ inbox # <<>> /\ Len(conn.read_buf) < ReadBufferSize
  /\ LET n == Min({Len(inbox), ReadBufferSize})
     IN /\ conn' = [conn EXCEPT !.read_buf = @ \o SubSeq(inbox, 1, n)]
        /\ inbox' = SubSeq(inbox, n + 1, Len(inbox))
  /\ armed' = "none"
  /\ phase' = "queued"
  /\ UNCHANGED <<clientVars, rdhup, left, code, outVars>>

(* One recv() of what is there, then append() to the thread pool.          *)
Read ==
  /\ phase = "polling" /\ armed = "in" /\ ~HangUp
  /\ inbox # <<>> /\ Len(conn.read_buf) < ReadBufferSize
  /\ LET n == Min({Len(inbox), ReadBufferSize - Len(conn.read_buf)})
     IN /\ conn' = [conn EXCEPT !.read_buf = @ \o SubSeq(inbox, 1, n)]
        /\ inbox' = SubSeq(inbox, n + 1, Len(inbox))
  /\ armed' = "none"
  /\ phase' = "queued"
  /\ UNCHANGED <<clientVars, rdhup, left, code, outVars>>

-----------------------------------------------------------------------------
(* process(), by a worker.                                                 *)

(* Faulty variant: what has arrived is taken for a line.                   *)
ParseLineEagerly ==
  LET buf == conn.read_buf
      ends == {i \in (conn.checked_idx + 1)..Len(buf) : buf[i] = CR}
      i == Min(ends)
  IN IF ends # {} /\ i < Len(buf)
       THEN [status |-> "OK", at |-> i + 1, mark |-> i]
     ELSE [status |-> IF conn.checked_idx < Len(buf) THEN "OK" ELSE "OPEN",
           at |-> Len(buf), mark |-> Len(buf) + 1]

(* parse_line(): from m_checked_idx to the next CR or LF.  "at" is the     *)
(* new m_checked_idx, "mark" the place of the line's end.                  *)
ParseLine ==
  LET buf == conn.read_buf
      ends == {i \in (conn.checked_idx + 1)..Len(buf) : buf[i] \in {CR, LF}}
      i == Min(ends)
  IN IF ends = {} THEN [status |-> "OPEN", at |-> Len(buf), mark |-> 0]
     ELSE IF buf[i] = CR /\ i = Len(buf)
       THEN [status |-> "OPEN", at |-> i - 1, mark |-> 0]
     ELSE IF buf[i] = CR /\ buf[i + 1] = LF
       THEN [status |-> "OK", at |-> i + 1, mark |-> i]
     ELSE IF buf[i] = LF /\ i > 1 /\ buf[i - 1] = CR
       THEN [status |-> "OK", at |-> i, mark |-> i - 1]
     ELSE [status |-> "BAD", at |-> i - 1, mark |-> 0]

(* The text of the line that ParseLine has found.                          *)
LineText == SubSeq(conn.read_buf, conn.start_line + 1, ParseLine.mark - 1)

(* The object after a line: its end is overwritten, m_start_line follows.  *)
PastLine ==
  [conn EXCEPT !.read_buf = [@ EXCEPT ![ParseLine.mark] = NUL,
                                      ![ParseLine.mark + 1] = NUL],
               !.checked_idx = ParseLine.at,
               !.start_line = ParseLine.at]

(* process() begins: line_status is LINE_OK.                               *)
ProcessBegin ==
  /\ phase = "queued"
  /\ phase' = "parsing" /\ left' = 0
  /\ UNCHANGED <<clientVars, inbox, armed, rdhup, conn, code, outVars>>

(* line_status is LINE_OPEN once parse_content() has failed in this call.  *)
ContentTried == left = 1

(* do_request(): what stat() says of the path, and whether the file could  *)
(* be opened and mapped after that (the results are not looked at).        *)
DoRequest(url) ==
  IF url = "gone" THEN "NO_RESOURCE"
  ELSE IF url = "private" THEN "FORBIDDEN_REQUEST"
  ELSE IF url = "dir" THEN "BAD_REQUEST"
  ELSE "FILE_REQUEST"

File == <<"file1", "file2">>

(* open() or mmap() failed after stat(): m_file_address is MAP_FAILED.     *)
NotMapped == <<"fault">>

Page(status) == <<status, "headers", "form">>

(* Faulty variant: another case without its break.                         *)
ComposedFallingThrough(ret, url) ==
  IF ret = "FORBIDDEN_REQUEST" THEN Page("403") \o Page("500")
  ELSE IF ret = "FILE_REQUEST" THEN <<"200", "headers">>
  ELSE Page("400")

(* process_write(): what each case adds to m_write_buf.  The case of an    *)
(* empty file has no break and runs on into INTERNAL_ERROR.                *)
Composed(ret, url) ==
  IF ret = "BAD_REQUEST" THEN Page("400")
  ELSE IF ret = "NO_RESOURCE" THEN Page("404")
  ELSE IF ret = "FORBIDDEN_REQUEST" THEN Page("403")
  ELSE IF url = "empty" THEN <<"200", "headers", "html">> \o Page("500")
  ELSE <<"200", "headers">>

(* process() after process_read() returned ret: the response is composed,  *)
(* or does not fit and the worker closes the connection itself.            *)
Answer(ret, c) ==
  LET out == c.write_buf \o Composed(ret, c.url)
      body == IF ret = "FILE_REQUEST" /\ c.url = "file" THEN {File, NotMapped} ELSE {<<>>}
  IN /\ code' = ret
     /\ emitted' = <<>> /\ cut' = FALSE /\ finished' = FALSE
     /\ unsent' = unsent
     /\ IF Len(out) <= WriteBufferSize
          THEN /\ conn' = [c EXCEPT !.write_buf = out]
               /\ \E b \in body : iv' = out \o b
               /\ Modfd("out")
               /\ phase' = "polling"
          ELSE CloseConn /\ conn' = c /\ UNCHANGED <<iv, rdhup>>

(* parse_request_line()                                                    *)
ParseRequestLine ==
  /\ phase = "parsing" /\ conn.check_state = "REQUESTLINE"
  /\ ParseLine.status = "OK"
  /\ IF LineText # <<>> /\ LineText[1] \in {"GET", "POST"} \X Paths
       THEN /\ conn' = [PastLine EXCEPT !.check_state = "HEADER",
                                        !.method = LineText[1][1],
                                        !.url = LineText[1][2]]
            /\ UNCHANGED <<armed, rdhup, phase, code, outVars>>
       ELSE Answer("BAD_REQUEST", PastLine)
  /\ UNCHANGED <<clientVars, inbox, left>>

(* parse_headers(): the blank line ends the request or starts its body.    *)
ParseHeaders ==
  /\ phase = "parsing" /\ conn.check_state = "HEADER"
  /\ ParseLine.status = "OK"
  /\ IF LineText = <<>> /\ conn.content_length = 0
       THEN Answer(DoRequest(conn.url), PastLine)
       ELSE /\ conn' =
                 IF LineText = <<>> THEN [PastLine EXCEPT !.check_state = "CONTENT"]
                 ELSE IF LineText[1] = <<"keep">> THEN [PastLine EXCEPT !.linger = TRUE]
                 ELSE IF LineText[1][1] = "length"
                   THEN [PastLine EXCEPT !.content_length = LineText[1][2]]
                 ELSE PastLine
            /\ UNCHANGED <<armed, rdhup, phase, code, outVars>>
  /\ UNCHANGED <<clientVars, inbox, left>>

(* parse_content(): a POST whose body is in the buffer, with m_checked_idx *)
(* for the place where the body begins.                                    *)
ContentCode(text) ==
  IF conn.method # "POST" \/ Len(conn.read_buf) < conn.content_length + conn.checked_idx
    THEN "NO_REQUEST"
  ELSE IF text \notin {<<n, p>> : n \in {<<"name=admin">>, <<"name=other">>},
                               p \in {<<"pwd=admin">>, <<"pwd=other">>}}
    THEN "INTERNAL_ERROR"
  ELSE IF text = << <<"name=other">>, <<"pwd=other">> >> THEN "FORBIDDEN_REQUEST"
  ELSE "GET_REQUEST"

(* The first turn of the loop in this call is taken without parse_line().  *)
(* Every result but GET_REQUEST sets line_status to LINE_OPEN and is       *)
(* forgotten, and m_start_line goes to m_checked_idx.                      *)
ParseContent ==
  /\ phase = "parsing" /\ conn.check_state = "CONTENT" /\ ~ContentTried
  /\ LET text == SubSeq(conn.read_buf, conn.start_line + 1,
                        conn.start_line + conn.content_length)
         after == [conn EXCEPT !.start_line = conn.checked_idx]
     IN IF ContentCode(text) = "GET_REQUEST"
          THEN Answer(DoRequest(conn.url), after) /\ left' = left
          ELSE /\ conn' = after
               /\ left' = 1
               /\ UNCHANGED <<armed, rdhup, phase, code, outVars>>
  /\ UNCHANGED <<clientVars, inbox>>

(* Faulty variant: the interest is not armed again.                        *)
NeedMoreDisarmed ==
  /\ phase = "parsing"
  /\ conn.check_state = "CONTENT" => ContentTried
  /\ ParseLine.status # "OK"
  /\ conn' = [conn EXCEPT !.checked_idx = ParseLine.at]
  /\ code' = "NO_REQUEST"
  /\ phase' = "polling"
  /\ UNCHANGED <<clientVars, inbox, armed, rdhup, left, outVars>>

(* process_read() ends with NO_REQUEST: no further line.  m_checked_idx    *)
(* keeps what parse_line() has walked over, of a body too.                 *)
NeedMore ==
  /\ phase = "parsing"
  /\ conn.check_state = "CONTENT" => ContentTried
  /\ ParseLine.status # "OK"
  /\ conn' = [conn EXCEPT !.checked_idx = ParseLine.at]
  /\ code' = "NO_REQUEST"
  /\ Modfd("in")
  /\ phase' = "polling"
  /\ UNCHANGED <<clientVars, inbox, left, outVars>>

-----------------------------------------------------------------------------
(* EPOLLOUT and write(), by the main thread.                               *)
EventOut ==
  /\ phase = "polling" /\ armed = "out" /\ ~HangUp
  /\ SendBufferSize - unsent >= WriteRoom
  /\ IF conn.write_buf = <<>>
       THEN Modfd("in") /\ conn' = Reset /\ UNCHANGED <<phase, left>>
       ELSE /\ armed' = "none" /\ phase' = "writing"
            /\ left' = Len(conn.write_buf)
            /\ UNCHANGED <<rdhup, conn>>
  /\ UNCHANGED <<clientVars, inbox, code, outVars>>

(* writev() refuses a vector with an address that is none (EFAULT) before  *)
(* it sends a unit of it or looks for room.                                *)
Unmapped == iv # <<>> /\ iv[Len(iv)] = "fault"

(* writev() fails for want of room: wait for EPOLLOUT again.               *)
WriteAgain ==
  /\ phase = "writing" /\ unsent = SendBufferSize /\ client # "rst" /\ ~Unmapped
  /\ Modfd("out")
  /\ phase' = "polling"
  /\ UNCHANGED <<clientVars, inbox, conn, left, code, outVars>>

(* writev() fails for another reason: nothing is sent, write() returns     *)
(* false and the main thread closes the connection.                        *)
WriteFails ==
  /\ phase = "writing" /\ (client = "rst" \/ Unmapped)
  /\ unsent' = unsent
  /\ CloseConn
  /\ UNCHANGED <<clientVars, inbox, rdhup, conn, iv, left, code, emitted, cut, finished>>

(* What is recorded of a response that is sent over and over: enough to    *)
(* see that it is longer than any response.                                *)
MaxResponse == WriteBufferSize + Len(File)
Recorded(units) == SubSeq(units, 1, Min({Len(units), MaxResponse + 1}))

(* writev() takes what fits, always from the start of m_iv; bytes_to_send  *)
(* began as m_write_idx, the part of the response in m_write_buf.          *)
WriteV ==
  /\ phase = "writing" /\ unsent < SendBufferSize /\ client # "rst" /\ ~Unmapped
  /\ LET n == Min({Len(iv), SendBufferSize - unsent})
     IN /\ unsent' = unsent + n
        /\ emitted' = Recorded(emitted \o SubSeq(iv, 1, n))
        /\ cut' = (cut \/ n < Len(iv))
        /\ left' = IF n < left THEN left - n ELSE 0
  /\ IF left' > 0
       THEN UNCHANGED <<client, armed, rdhup, phase, conn, finished>>
       ELSE /\ finished' = TRUE
            /\ client' = IF client = "asking" THEN "idle" ELSE client
            /\ IF conn.linger
                 THEN /\ conn' = Reset
                      /\ Modfd("in") /\ phase' = "polling"
                 ELSE CloseConn /\ rdhup' = TRUE /\ conn' = conn
  /\ UNCHANGED <<request, asked, script, inbox, iv, code>>

-----------------------------------------------------------------------------
Client == Ask \/ Send \/ Leave

Worker == ProcessBegin \/ ParseRequestLine \/ ParseHeaders \/ ParseContent \/ NeedMore

MainThread ==
  EventHangUp \/ ReadFails \/ Read \/ EventOut \/ WriteAgain \/ WriteFails \/ WriteV

Next == Client \/ Deliver \/ Worker \/ MainThread

(* The threads run, the network carries, and a client that has begun a     *)
(* request goes on sending it.                                             *)
Fairness ==
  /\ WF_vars(Send) /\ WF_vars(Deliver)
  /\ WF_vars(Worker) /\ WF_vars(MainThread)

Spec == Init /\ [][Next]_vars /\ Fairness

-----------------------------------------------------------------------------
(* A reference for what the server should make of a request, from the      *)
(* fields of the request and not from the bytes or how they were cut.      *)

Malformed(r) == r.line \notin {"GET", "POST"} \X Paths
HasBody(r) == "length" \in {r.headers[i] : i \in 1..Len(r.headers)} /\ r.body # <<>>
KeepAlive(r) == "keep" \in {r.headers[i] : i \in 1..Len(r.headers)} /\ ~Malformed(r)
GoodForm(r) == Len(r.body) = 2 /\ {"name=admin", "pwd=admin"} \cap {r.body[1], r.body[2]} # {}

Verdict(r) ==
  IF r.eol = <<LF>> THEN "NO_REQUEST"
  ELSE IF Malformed(r) THEN "BAD_REQUEST"
  ELSE IF HasBody(r) /\ ~(r.line[1] = "POST" /\ GoodForm(r)) THEN "NO_REQUEST"
  ELSE DoRequest(r.line[2])

Expected(r) ==
  IF Verdict(r) = "BAD_REQUEST" THEN Page("400")
  ELSE IF Verdict(r) = "NO_RESOURCE" THEN Page("404")
  ELSE IF Verdict(r) = "FORBIDDEN_REQUEST" THEN Page("403")
  ELSE IF r.line[2] = "empty" THEN <<"200", "headers", "html">>
  ELSE <<"200", "headers">> \o File

TypeOK ==
  /\ client \in {"idle", "asking", "fin", "rst"}
  /\ asked \in 0..MaxRequests
  /\ unsent \in 0..SendBufferSize
  /\ armed \in {"in", "out", "none"} /\ rdhup \in BOOLEAN
  /\ phase \in {"polling", "queued", "parsing", "writing", "closed"}
  /\ conn.check_state \in {"REQUESTLINE", "HEADER", "CONTENT"}
  /\ conn.start_line \in 0..conn.checked_idx
  /\ conn.checked_idx \in 0..Len(conn.read_buf)
  /\ Len(conn.read_buf) <= ReadBufferSize
  /\ Len(conn.write_buf) <= WriteBufferSize
  /\ left \in 0..WriteBufferSize
  /\ {cut, finished} \subseteq BOOLEAN

(* However the bytes of a request are cut by the network, and whatever the *)
(* connection served before, a worker that answers a request answers what  *)
(* its fields call for.                                                    *)
AnswerMatchesRequest ==
  phase = "polling" /\ armed = "out" => code = Verdict(request)

(* Between two events the interest says what the object waits for: room    *)
(* to send exactly while m_write_buf holds a response, input otherwise.    *)
(* So the connection is never forgotten, no input is read into an object   *)
(* that still answers, and a worker finds m_write_buf empty.               *)
InterestMatchesBuffer ==
  /\ phase = "polling" => armed = IF conn.write_buf = <<>> THEN "in" ELSE "out"
  /\ phase \in {"queued", "parsing"} => conn.write_buf = <<>>

(* The connection stays open after a response exactly when this request,   *)
(* and not an earlier one, asked for it in a header that was read.         *)
KeepAliveHonoured ==
  [][~finished /\ finished' => (phase' = "closed" <=> ~KeepAlive(request))]_vars

(* A response that no writev() has cut reaches the kernel once and whole   *)
(* (an empty file apart, whose response is followed by a 500 page).        *)
UncutResponseIntact ==
  finished /\ ~cut /\ request.line[2] # "empty" => emitted = Expected(request)

(* "this guarantees the integrity of the connection" (write(), where the   *)
(* send buffer is full): a response that is reported as sent was sent      *)
(* whole, its file too.                                                    *)
ResponseIntact ==
  finished /\ request.line[2] # "empty" => emitted = Expected(request)

(* A request that fits into the buffers, has no body and ends its lines    *)
(* with CR LF.                                                             *)
Answerable(r) ==
  /\ r.eol = <<CR, LF>> /\ ~HasBody(r)
  /\ Len(Encode(r)) <= ReadBufferSize
  /\ Malformed(r) \/ r.line[2] # "empty"

(* Such a request is answered, unless the client leaves first: no cut of   *)
(* its bytes, no full send buffer and no one-shot event makes the server   *)
(* wait for ever.  A file that could not be opened or mapped is the one    *)
(* exception: the client gets nothing then, and the connection is closed.  *)
AnswerableAnswered ==
  client = "asking" /\ Answerable(request) ~>
    client # "asking" \/ (Unmapped /\ phase = "closed")
=============================================================================
