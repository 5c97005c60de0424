--------------------------- MODULE HttpConnProofs ---------------------------
(***************************************************************************)
(* Theorems about HttpConn, for any set of requests, any sizes of buffers  *)
(* and any number of requests on the connection.  The parser is followed   *)
(* along the text that the client has put on the wire: whatever was cut,   *)
(* it stands at the beginning of a line, or behind the text of one, or in  *)
(* the body, and it knows of the request what the lines before it say.     *)
(***************************************************************************)
EXTENDS HttpConn, SequenceTheorems, TLAPS

Words == {"keep", "host", "length", "name=admin", "name=other", "pwd=admin", "pwd=other"}
Tokens == Lines \cup {CR, LF, NUL} \cup ({"length"} \X Nat) \cup {<<w>> : w \in Words}
Crlf == <<CR, LF>>
Units == {"200", "400", "403", "404", "500", "headers", "form", "html",
          "file1", "file2", "fault"}

ConnStates ==
  [check_state : {"REQUESTLINE", "HEADER", "CONTENT"}, linger : BOOLEAN,
   method : {"GET", "POST"}, url : Paths \cup {"none"}, content_length : Nat,
   start_line : Nat, checked_idx : Nat, read_buf : Seq(Tokens), write_buf : Seq(Units)]

(* The request on the wire: its number of headers, and where its body      *)
(* begins.                                                                 *)
Wire == Encode(request)
Headers == Len(request.headers)
Body == request.body
BodyLen == Len(request.body)
BodyAt == 3 * (Headers + 1) + 2
Read_idx == Len(conn.read_buf)
Arrived == Read_idx + Len(inbox)

BodyToken(r, i) == <<r.body[i]>>

(* A header with this name is before the line k.                           *)
Seen(name, k) == \E i \in 1..(k - 1) : request.headers[i] = name

ConnTypeInv ==
  /\ TypeOK
  /\ IsRequest(request)
  /\ conn \in ConnStates
  /\ inbox \in Seq(Tokens) /\ script \in Seq(Tokens)
  /\ iv \in Seq(Units) /\ emitted \in Seq(Units)

(* What was sent is a beginning of the text, what is left is the rest of   *)
(* it, and what is read and not yet a parsed line is as it was sent.       *)
WireInv ==
  /\ Arrived <= Len(Wire)
  /\ \A i \in 1..Len(inbox) : inbox[i] = Wire[Read_idx + i]
  /\ script # <<>> => Arrived + Len(script) = Len(Wire)
  /\ \A i \in 1..Len(script) : script[i] = Wire[Arrived + i]
  /\ \A i \in (conn.start_line + 1)..Read_idx : conn.read_buf[i] = Wire[i]

(* The parser stands at the beginning of line k, or behind its text.       *)
AtLine(k) ==
  /\ conn.start_line = 3 * k
  /\ conn.checked_idx \in {3 * k, 3 * k + 1}
  /\ k = Headers + 1 => conn.checked_idx = 3 * k

(* What the lines before k say of the request.                             *)
Knows(k) ==
  /\ request.eol = Crlf /\ ~Malformed(request)
  /\ conn.method = request.line[1] /\ conn.url = request.line[2]
  /\ conn.linger = Seen("keep", k)
  /\ conn.content_length = IF Seen("length", k) THEN BodyLen ELSE 0

ParseInv ==
  /\ conn.check_state = "REQUESTLINE" =>
       AtLine(0) /\ ~conn.linger /\ conn.content_length = 0
  /\ conn.check_state = "HEADER" => \E k \in 1..(Headers + 1) : AtLine(k) /\ Knows(k)
  /\ conn.check_state = "CONTENT" =>
       Knows(Headers + 1) /\ conn.content_length > 0 /\ BodyAt <= conn.start_line

(* A response in the buffer is the one the request calls for, nothing of   *)
(* it was sent but by a writev() that cut it, and of a connection that is  *)
(* kept nothing is left to be read.                                        *)
AnswerInv ==
  /\ code = Verdict(request) /\ code # "NO_REQUEST" /\ ~finished
  /\ ~Malformed(request) => conn.url = request.line[2]
  /\ conn.write_buf = Composed(code, conn.url)
  /\ IF code = "FILE_REQUEST" /\ conn.url = "file"
       THEN iv \in {conn.write_buf \o File, conn.write_buf \o NotMapped}
       ELSE iv = conn.write_buf
  /\ conn.linger = KeepAlive(request)
  /\ conn.linger => inbox = <<>> /\ script = <<>>
  /\ ~cut => emitted = <<>>

AtRest ==
  phase = "polling" /\ conn = Fresh /\ inbox = <<>> /\ script = <<>>

ConnInv ==
  /\ ConnTypeInv
  /\ WireInv
  /\ InterestMatchesBuffer
  /\ phase # "closed" /\ conn.write_buf = <<>> => ParseInv
  /\ phase # "closed" /\ conn.write_buf # <<>> => AnswerInv
  /\ phase = "writing" => conn.write_buf # <<>> /\ left <= Len(conn.write_buf)
  /\ client = "idle" /\ phase # "closed" => AtRest
  /\ UncutResponseIntact

-----------------------------------------------------------------------------
(* Texts.                                                                  *)

(* Min, as the library has it, is the least element.                       *)
LEMMA MinIs ==
  ASSUME NEW S \in SUBSET Int, NEW m \in S, \A y \in S : m <= y
  PROVE  Min(S) = m
<1>1. Min(S) \in S /\ \A y \in S : Min(S) <= y
  BY Zenon DEF Min
<1>2. PICK n \in S : n = Min(S)
  BY <1>1
<1>3. n \in Int /\ m \in Int /\ n <= m /\ m <= n
  BY <1>1, <1>2
<1> QED
  BY <1>2, <1>3

(* The lesser of two numbers is one of them.                               *)
LEMMA MinOfTwo ==
  ASSUME NEW a \in Int, NEW b \in Int
  PROVE  /\ Min({a, b}) \in {a, b}
         /\ Min({a, b}) <= a /\ Min({a, b}) <= b
<1>1. CASE a <= b
  BY <1>1, MinIs
<1>2. CASE b < a
  BY <1>2, MinIs
<1> QED
  BY <1>1, <1>2

(* No text of a line or of a body is taken for a line end.                 *)
LEMMA TokensDiffer ==
  /\ CR # LF /\ CR # NUL /\ LF # NUL
  /\ CR \in Tokens /\ LF \in Tokens /\ NUL \in Tokens
  /\ \A l \in Lines : l \in Tokens /\ l \notin {CR, LF}
  /\ \A w \in Words : <<w>> \in Tokens /\ <<w>> \notin {CR, LF}
  /\ \A n \in Nat : <<"length", n>> \in Tokens /\ <<"length", n>> \notin {CR, LF}
<1>1. \A w \in Words : <<w>> \notin {CR, LF}
  BY DEF Words, CR, LF
<1>2. \A n \in Nat : <<"length", n>> \notin {CR, LF}
  <2> TAKE n \in Nat
  <2>1. <<"length", n>>[1] = "length" /\ CR[1] = "CR" /\ LF[1] = "LF"
    BY DEF CR, LF
  <2> QED
    BY <2>1
<1>3. \A l \in Lines : l \notin {CR, LF}
  <2> TAKE l \in Lines
  <2>1. l[1] \in {"GET", "POST", "PUT"} /\ CR[1] = "CR" /\ LF[1] = "LF"
    BY DEF Lines, CR, LF
  <2> QED
    BY <2>1
<1>4. CR # LF /\ CR # NUL /\ LF # NUL
  BY DEF CR, LF, NUL
<1> QED
  BY <1>1, <1>2, <1>3, <1>4 DEF Tokens

(* The token of a line is no line end, and says what the line is.          *)
LEMMA LineTokens ==
  ASSUME NEW r, IsRequest(r), NEW k \in 0..Len(r.headers)
  PROVE  LineToken(r, k) \in Tokens \ {CR, LF}
<1>1. r.line \in Lines /\ r.headers \in Seq({"keep", "length", "host"})
  BY DEF IsRequest
<1>2. Len(r.body) \in Nat
  BY LenProperties DEF IsRequest
<1>3. k # 0 => r.headers[k] \in {"keep", "length", "host"}
  BY <1>1, ElementOfSeq
<1>4. {"keep", "length", "host"} \subseteq Words
  BY DEF Words
<1>5. CASE k = 0
  BY <1>1, <1>5, TokensDiffer DEF LineToken
<1>6. CASE k # 0
  BY <1>2, <1>3, <1>4, <1>6, TokensDiffer DEF LineToken
<1> QED
  BY <1>5, <1>6

(* The text of a request whose lines end with CR LF.                       *)
LEMMA CrlfText ==
  ASSUME NEW r, IsRequest(r), NEW eol, r.eol = eol, eol = Crlf,
         NEW h, Len(r.headers) = h, NEW body, r.body = body, NEW b, Len(body) = b
  PROVE  /\ h \in Nat /\ b \in Nat
         /\ Encode(r) \in Seq(Tokens)
         /\ Len(Encode(r)) = 3 * (h + 1) + 2 + b
         /\ \A k \in 0..h : /\ Encode(r)[3 * k + 1] = LineToken(r, k)
                            /\ Encode(r)[3 * k + 2] = CR
                            /\ Encode(r)[3 * k + 3] = LF
         /\ Encode(r)[3 * (h + 1) + 1] = CR
         /\ Encode(r)[3 * (h + 1) + 2] = LF
         /\ \A i \in (3 * (h + 1) + 3)..Len(Encode(r)) :
              Encode(r)[i] = BodyToken(r, i - (3 * (h + 1) + 2))
         /\ \A i \in 1..b : body[i] \in Words
<1>1. h \in Nat /\ b \in Nat
  <2>1. /\ r.headers \in Seq({"keep", "length", "host"})
        /\ body \in Seq({"name=admin", "name=other", "pwd=admin", "pwd=other"})
    BY DEF IsRequest
  <2> QED
    BY <2>1, LenProperties
<1>2. Len(eol) = 2 /\ eol[1] = CR /\ eol[2] = LF
  BY DEF Crlf
<1> DEFINE N == 3 * (h + 1) + 2 + b
           E(i) == IF i > 3 * (h + 1) + 2 THEN <<body[i - (3 * (h + 1) + 2)]>>
                   ELSE IF i > 3 * (h + 1) THEN eol[i - 3 * (h + 1)]
                   ELSE IF (i - 1) % 3 = 0 THEN LineToken(r, (i - 1) \div 3)
                   ELSE eol[(i - 1) % 3]
<1>3. Encode(r) = [i \in 1..N |-> E(i)]
  BY <1>1, <1>2 DEF Encode
<1>4. N \in Nat
  BY <1>1
<1>5. \A k \in 0..h : E(3 * k + 1) = LineToken(r, k) /\ E(3 * k + 2) = CR /\ E(3 * k + 3) = LF
  <2> TAKE k \in 0..h
  <2>1. /\ 3 * k + 1 <= 3 * (h + 1) /\ (3 * k + 1 - 1) % 3 = 0 /\ (3 * k + 1 - 1) \div 3 = k
        /\ 3 * k + 2 <= 3 * (h + 1) /\ (3 * k + 2 - 1) % 3 = 1
        /\ 3 * k + 3 <= 3 * (h + 1) /\ (3 * k + 3 - 1) % 3 = 2
    BY <1>1
  <2>2. E(3 * k + 1) = LineToken(r, k)
    BY <1>1, <2>1
  <2>3. E(3 * k + 2) = CR /\ E(3 * k + 3) = LF
    BY <1>1, <1>2, <2>1
  <2> QED
    BY <2>2, <2>3
<1>6. E(3 * (h + 1) + 1) = CR /\ E(3 * (h + 1) + 2) = LF
  BY <1>1, <1>2
<1>7. \A i \in 1..b : body[i] \in Words
  <2> TAKE i \in 1..b
  <2>1. body[i] \in {"name=admin", "name=other", "pwd=admin", "pwd=other"}
    BY ElementOfSeq DEF IsRequest
  <2> QED
    BY <2>1 DEF Words
<1>8. \A i \in 1..N : E(i) \in Tokens
  <2> TAKE i \in 1..N
  <2>1. CASE i > 3 * (h + 1) + 2
    <3>1. i - (3 * (h + 1) + 2) \in 1..b
      BY <1>1, <2>1
    <3>2. body[i - (3 * (h + 1) + 2)] \in Words
      BY <1>7, <3>1
    <3> QED
      BY <2>1, <3>2, TokensDiffer
  <2>2. CASE i <= 3 * (h + 1) + 2 /\ i > 3 * (h + 1)
    <3>1. i - 3 * (h + 1) \in {1, 2}
      BY <1>1, <2>2
    <3>2. eol[i - 3 * (h + 1)] \in Tokens
      BY <1>2, <3>1, TokensDiffer
    <3>3. E(i) = eol[i - 3 * (h + 1)]
      BY <1>1, <2>2
    <3> QED
      BY <3>2, <3>3
  <2>3. CASE i <= 3 * (h + 1)
    <3>1. (i - 1) \div 3 \in 0..h /\ (i - 1) % 3 \in {0, 1, 2}
      BY <1>1, <2>3
    <3>2. LineToken(r, (i - 1) \div 3) \in Tokens
      BY <3>1, LineTokens
    <3>3. (i - 1) % 3 # 0 => eol[(i - 1) % 3] \in Tokens
      BY <1>2, <3>1, TokensDiffer
    <3>4. E(i) = IF (i - 1) % 3 = 0 THEN LineToken(r, (i - 1) \div 3) ELSE eol[(i - 1) % 3]
      BY <1>1, <2>3
    <3> QED
      BY <3>2, <3>3, <3>4
  <2> QED
    BY <1>1, <2>1, <2>2, <2>3
<1> HIDE DEF E
<1>9. Encode(r) \in [1..N -> Tokens] /\ Len(Encode(r)) = N
  BY <1>3, <1>4, <1>8
<1>10. Encode(r) \in Seq(Tokens)
  <2>1. \A n \in Nat : [1..n -> Tokens] \subseteq Seq(Tokens)
    BY SeqDef
  <2> QED
    BY <1>4, <1>9, <2>1
<1>11. \A i \in 1..N : Encode(r)[i] = E(i)
  BY <1>3
<1>12. \A k \in 0..h : 3 * k + 1 \in 1..N /\ 3 * k + 2 \in 1..N /\ 3 * k + 3 \in 1..N
  BY <1>1
<1>13. 3 * (h + 1) + 1 \in 1..N /\ 3 * (h + 1) + 2 \in 1..N
  BY <1>1
<1>14. \A i \in (3 * (h + 1) + 3)..N : E(i) = BodyToken(r, i - (3 * (h + 1) + 2))
  <2> TAKE i \in (3 * (h + 1) + 3)..N
  <2>1. i > 3 * (h + 1) + 2
    BY <1>1
  <2> QED
    BY <2>1 DEF E, BodyToken
<1>15. \A k \in 0..h : /\ Encode(r)[3 * k + 1] = LineToken(r, k)
                       /\ Encode(r)[3 * k + 2] = CR
                       /\ Encode(r)[3 * k + 3] = LF
  BY <1>5, <1>11, <1>12
<1>16. Encode(r)[3 * (h + 1) + 1] = CR /\ Encode(r)[3 * (h + 1) + 2] = LF
  BY <1>6, <1>11, <1>13
<1>17. \A i \in (3 * (h + 1) + 3)..N : Encode(r)[i] = BodyToken(r, i - (3 * (h + 1) + 2))
  <2>1. \A i \in (3 * (h + 1) + 3)..N : i \in 1..N
    BY <1>1
  <2> QED
    BY <1>11, <1>14, <2>1
<1> QED
  BY <1>1, <1>7, <1>9, <1>10, <1>15, <1>16, <1>17

(* The text of a request whose lines end with LF alone.                    *)
LEMMA LfText ==
  ASSUME NEW r, IsRequest(r), NEW eol, r.eol = eol, eol # Crlf,
         NEW h, Len(r.headers) = h, NEW body, r.body = body, NEW b, Len(body) = b
  PROVE  /\ Encode(r) \in Seq(Tokens)
         /\ Len(Encode(r)) >= 2
         /\ Encode(r)[1] \notin {CR, LF} /\ Encode(r)[2] = LF
<1> DEFINE N == 2 * (h + 1) + 1 + b
           E(i) == IF i > 2 * (h + 1) + 1 THEN <<body[i - (2 * (h + 1) + 1)]>>
                   ELSE IF i > 2 * (h + 1) THEN eol[i - 2 * (h + 1)]
                   ELSE IF (i - 1) % 2 = 0 THEN LineToken(r, (i - 1) \div 2)
                   ELSE eol[(i - 1) % 2]
<1>1. h \in Nat /\ b \in Nat
  <2>1. /\ r.headers \in Seq({"keep", "length", "host"})
        /\ body \in Seq({"name=admin", "name=other", "pwd=admin", "pwd=other"})
    BY DEF IsRequest
  <2> QED
    BY <2>1, LenProperties
<1>2. Len(eol) = 1 /\ eol[1] = LF
  BY DEF Crlf, IsRequest
<1>3. Encode(r) = [i \in 1..N |-> E(i)]
  BY <1>1, <1>2 DEF Encode
<1>4. N \in Nat /\ N >= 2
  BY <1>1
<1>5. E(1) = LineToken(r, 0) /\ E(2) = LF
  <2>1. /\ 1 <= 2 * (h + 1) /\ (1 - 1) % 2 = 0 /\ (1 - 1) \div 2 = 0
        /\ 2 <= 2 * (h + 1) /\ (2 - 1) % 2 = 1
    BY <1>1
  <2> QED
    BY <1>1, <1>2, <2>1
<1>6. \A i \in 1..N : E(i) \in Tokens
  <2> TAKE i \in 1..N
  <2>1. CASE i > 2 * (h + 1) + 1
    <3>1. i - (2 * (h + 1) + 1) \in 1..b
      BY <1>1, <2>1
    <3>2. body[i - (2 * (h + 1) + 1)] \in {"name=admin", "name=other", "pwd=admin", "pwd=other"}
      BY <3>1, ElementOfSeq DEF IsRequest
    <3>3. body[i - (2 * (h + 1) + 1)] \in Words
      BY <3>2 DEF Words
    <3> QED
      BY <2>1, <3>3, TokensDiffer
  <2>2. CASE i = 2 * (h + 1) + 1
    BY <1>1, <1>2, <2>2, TokensDiffer
  <2>3. CASE i <= 2 * (h + 1)
    <3>1. (i - 1) \div 2 \in 0..h /\ (i - 1) % 2 \in {0, 1}
      BY <1>1, <2>3
    <3>2. LineToken(r, (i - 1) \div 2) \in Tokens
      BY <3>1, LineTokens
    <3>3. (i - 1) % 2 # 0 => eol[(i - 1) % 2] \in Tokens
      BY <1>2, <3>1, TokensDiffer
    <3>4. E(i) = IF (i - 1) % 2 = 0 THEN LineToken(r, (i - 1) \div 2) ELSE eol[(i - 1) % 2]
      BY <1>1, <2>3
    <3> QED
      BY <3>2, <3>3, <3>4
  <2> QED
    BY <1>1, <2>1, <2>2, <2>3
<1> HIDE DEF E
<1>7. Encode(r) \in [1..N -> Tokens] /\ Len(Encode(r)) = N
  BY <1>3, <1>4, <1>6
<1>8. Encode(r) \in Seq(Tokens)
  BY <1>4, <1>7, SeqDef
<1>9. Encode(r)[1] = LineToken(r, 0) /\ Encode(r)[2] = LF
  BY <1>3, <1>4, <1>5
<1>10. LineToken(r, 0) \notin {CR, LF}
  BY <1>1, LineTokens
<1> QED
  BY <1>4, <1>7, <1>8, <1>9, <1>10

(* A text is a sequence of tokens, however its lines end.                  *)
LEMMA SomeText ==
  ASSUME NEW r, IsRequest(r)
  PROVE  Encode(r) \in Seq(Tokens) /\ Len(Encode(r)) \in Nat /\ Len(r.headers) \in Nat
<1>1. Encode(r) \in Seq(Tokens)
  <2>1. CASE r.eol = Crlf
    BY <2>1, CrlfText
  <2>2. CASE r.eol # Crlf
    BY <2>2, LfText
  <2> QED
    BY <2>1, <2>2
<1>2. r.headers \in Seq({"keep", "length", "host"})
  BY DEF IsRequest
<1> QED
  BY <1>1, <1>2, LenProperties

(* The text of the request of the moment, for either line end.             *)
LEMMA Text ==
  ASSUME IsRequest(request)
  PROVE  /\ Headers \in Nat /\ BodyLen \in Nat
         /\ Wire \in Seq(Tokens) /\ Len(Wire) \in Nat
         /\ request.eol # Crlf =>
              Len(Wire) >= 2 /\ Wire[1] \notin {CR, LF} /\ Wire[2] = LF
         /\ request.eol = Crlf =>
              /\ Len(Wire) = BodyAt + BodyLen
              /\ \A k \in 0..Headers : /\ Wire[3 * k + 1] = LineToken(request, k)
                                       /\ Wire[3 * k + 1] \notin {CR, LF}
                                       /\ Wire[3 * k + 2] = CR
                                       /\ Wire[3 * k + 3] = LF
              /\ Wire[3 * (Headers + 1) + 1] = CR
              /\ Wire[3 * (Headers + 1) + 2] = LF
              /\ \A i \in (BodyAt + 1)..Len(Wire) :
                   /\ Wire[i] = <<Body[i - BodyAt]>>
                   /\ Wire[i] \notin {CR, LF}
<1>1. Headers \in Nat /\ BodyLen \in Nat
  <2>1. /\ request.headers \in Seq({"keep", "length", "host"})
        /\ request.body \in Seq({"name=admin", "name=other", "pwd=admin", "pwd=other"})
    BY DEF IsRequest
  <2> QED
    BY <2>1, LenProperties DEF Headers, BodyLen
<1>2. CASE request.eol # Crlf
  <2>1. /\ Encode(request) \in Seq(Tokens)
        /\ Len(Encode(request)) >= 2
        /\ Encode(request)[1] \notin {CR, LF} /\ Encode(request)[2] = LF
    BY <1>2, LfText
  <2> QED
    BY <1>1, <1>2, <2>1, LenProperties DEF Wire
<1>3. CASE request.eol = Crlf
  <2>1. Len(request.headers) = Headers /\ request.body = Body /\ Len(Body) = BodyLen
    BY DEF Headers, Body, BodyLen
  <2>2. /\ Encode(request) \in Seq(Tokens)
        /\ Len(Encode(request)) = 3 * (Headers + 1) + 2 + BodyLen
    BY <1>3, <2>1, CrlfText
  <2>3. \A k \in 0..Headers : /\ Encode(request)[3 * k + 1] = LineToken(request, k)
                               /\ Encode(request)[3 * k + 2] = CR
                               /\ Encode(request)[3 * k + 3] = LF
    BY <1>3, <2>1, CrlfText
  <2>4. /\ Encode(request)[3 * (Headers + 1) + 1] = CR
        /\ Encode(request)[3 * (Headers + 1) + 2] = LF
    BY <1>3, <2>1, CrlfText
  <2>5. \A i \in (3 * (Headers + 1) + 3)..Len(Encode(request)) :
          Encode(request)[i] = BodyToken(request, i - (3 * (Headers + 1) + 2))
    BY <1>3, <2>1, CrlfText, ZenonT(60)
  <2>6. \A k \in 0..Headers : LineToken(request, k) \notin {CR, LF}
    BY LineTokens DEF Headers
  <2>7. \A i \in 1..BodyLen : BodyToken(request, i) \notin {CR, LF}
    <3>1. \A i \in 1..BodyLen : Body[i] \in Words
      BY <1>3, <2>1, CrlfText
    <3> QED
      BY <2>1, <3>1, TokensDiffer DEF BodyToken
  <2>8. \A i \in (BodyAt + 1)..Len(Wire) :
          /\ Wire[i] = BodyToken(request, i - BodyAt)
          /\ i - BodyAt \in 1..BodyLen
    BY <1>1, <2>2, <2>5 DEF Wire, BodyAt
  <2>9. \A i \in (BodyAt + 1)..Len(Wire) : Wire[i] = <<Body[i - BodyAt]>>
    BY <2>8 DEF BodyToken, Body
  <2> QED
    BY <1>1, <1>3, <2>2, <2>3, <2>4, <2>6, <2>7, <2>8, <2>9, LenProperties DEF Wire, BodyAt
<1> QED
  BY <1>2, <1>3

-----------------------------------------------------------------------------
(* What parse_line() finds, by what it sees.                               *)

(* No line end is there.                                                   *)
LEMMA NoEnd ==
  ASSUME NEW n, Len(conn.read_buf) = n, NEW c, conn.checked_idx = c,
         NEW buf, conn.read_buf = buf, n \in Nat, c \in Nat,
         \A i \in (c + 1)..n : buf[i] \notin {CR, LF}
  PROVE  ParseLine.status = "OPEN" /\ ParseLine.at = n
BY DEF ParseLine

(* The first line end is at i.                                             *)
LEMMA FirstEnd ==
  ASSUME NEW n, Len(conn.read_buf) = n, NEW c, conn.checked_idx = c,
         NEW buf, conn.read_buf = buf, n \in Nat, c \in Nat,
         NEW i \in (c + 1)..n, buf[i] \in {CR, LF},
         \A j \in (c + 1)..(i - 1) : buf[j] \notin {CR, LF}
  PROVE  /\ buf[i] = CR /\ i = n => ParseLine.status = "OPEN" /\ ParseLine.at = i - 1
         /\ buf[i] = CR /\ i < n /\ buf[i + 1] = LF =>
              ParseLine.status = "OK" /\ ParseLine.at = i + 1 /\ ParseLine.mark = i
         /\ buf[i] = LF /\ i > 1 /\ buf[i - 1] # CR =>
              ParseLine.status = "BAD" /\ ParseLine.at = i - 1
<1> DEFINE ends == {j \in (c + 1)..n : buf[j] \in {CR, LF}}
<1>1. ends \in SUBSET Int /\ i \in ends /\ \A y \in ends : i <= y
  OBVIOUS
<1>2. Min(ends) = i
  BY <1>1, MinIs
<1> HIDE DEF ends
<1>3. ends # {}
  BY <1>1
<1>4. CR # LF
  BY TokensDiffer
<1>5. ParseLine =
        IF buf[i] = CR /\ i = n THEN [status |-> "OPEN", at |-> i - 1, mark |-> 0]
        ELSE IF buf[i] = CR /\ buf[i + 1] = LF
          THEN [status |-> "OK", at |-> i + 1, mark |-> i]
        ELSE IF buf[i] = LF /\ i > 1 /\ buf[i - 1] = CR
          THEN [status |-> "OK", at |-> i, mark |-> i - 1]
        ELSE [status |-> "BAD", at |-> i - 1, mark |-> 0]
  BY <1>2, <1>3 DEF ParseLine, ends
<1> QED
  BY <1>4, <1>5

(* What parse_line() finds in line k of a request whose lines end with     *)
(* CR LF.                                                                  *)
LEMMA LineFound ==
  ASSUME ConnTypeInv, WireInv, request.eol = Crlf, NEW k \in 0..Headers, AtLine(k)
  PROVE  /\ ParseLine.status = "OK" =>
              /\ ParseLine.at = 3 * k + 3 /\ ParseLine.mark = 3 * k + 2
              /\ ParseLine.at <= Read_idx
              /\ LineText = <<LineToken(request, k)>>
         /\ ParseLine.status # "OK" =>
              ParseLine.at \in {3 * k, 3 * k + 1} /\ ParseLine.at <= Read_idx
<1> DEFINE buf == conn.read_buf
           n == Read_idx
           c == conn.checked_idx
<1>1. /\ Headers \in Nat /\ BodyLen \in Nat /\ Len(Wire) = BodyAt + BodyLen
      /\ Wire[3 * k + 1] = LineToken(request, k)
      /\ Wire[3 * k + 1] \notin {CR, LF} /\ Wire[3 * k + 2] = CR /\ Wire[3 * k + 3] = LF
  BY Text DEF ConnTypeInv
<1>2. buf \in Seq(Tokens) /\ n = Len(buf) /\ n \in Nat /\ c \in 0..n
  BY LenProperties DEF ConnTypeInv, TypeOK, ConnStates, Read_idx
<1>3. c \in {3 * k, 3 * k + 1} /\ conn.start_line = 3 * k
  BY DEF AtLine
<1>4. \A i \in (3 * k + 1)..n : buf[i] = Wire[i]
  BY <1>3 DEF WireInv
<1>5. CASE n <= 3 * k + 1
  <2>1. \A i \in (c + 1)..n : buf[i] \notin {CR, LF}
    <3> TAKE i \in (c + 1)..n
    <3>1. i = 3 * k + 1 /\ i \in (3 * k + 1)..n
      BY <1>2, <1>3, <1>5
    <3>2. buf[i] = Wire[i]
      BY <1>4, <3>1
    <3> QED
      BY <1>1, <3>1, <3>2
  <2>2. ParseLine.status = "OPEN" /\ ParseLine.at = n
    BY <1>2, <2>1, NoEnd DEF Read_idx
  <2> QED
    BY <1>2, <1>3, <1>5, <2>2
<1>6. CASE n >= 3 * k + 2
  <2>0. \A j \in (c + 1)..(3 * k + 2 - 1) : j = 3 * k + 1 /\ j \in (3 * k + 1)..n
    BY <1>2, <1>3, <1>6
  <2>1. /\ 3 * k + 2 \in (c + 1)..n /\ buf[3 * k + 2] = CR
        /\ \A j \in (c + 1)..(3 * k + 2 - 1) : buf[j] \notin {CR, LF}
    <3>1. 3 * k + 2 \in (c + 1)..n /\ 3 * k + 2 \in (3 * k + 1)..n
      BY <1>2, <1>3, <1>6
    <3>2. buf[3 * k + 2] = CR
      BY <1>1, <1>4, <3>1
    <3>3. \A j \in (c + 1)..(3 * k + 2 - 1) : buf[j] \notin {CR, LF}
      BY <1>1, <1>4, <2>0
    <3> QED
      BY <3>1, <3>2, <3>3
  <2>2. /\ 3 * k + 2 = n => ParseLine.status = "OPEN" /\ ParseLine.at = 3 * k + 2 - 1
        /\ 3 * k + 2 < n /\ buf[3 * k + 2 + 1] = LF =>
             /\ ParseLine.status = "OK" /\ ParseLine.at = 3 * k + 2 + 1
             /\ ParseLine.mark = 3 * k + 2
    BY <1>2, <2>1, FirstEnd DEF Read_idx
  <2>3. CASE n = 3 * k + 2
    BY <1>2, <2>2, <2>3
  <2>4. CASE n > 3 * k + 2
    <3>1. buf[3 * k + 2 + 1] = LF
      BY <1>1, <1>2, <1>4, <2>4
    <3>2. /\ ParseLine.status = "OK" /\ ParseLine.at = 3 * k + 3
          /\ ParseLine.mark = 3 * k + 2
      BY <1>2, <2>2, <2>4, <3>1
    <3>3. LineText = SubSeq(buf, 3 * k + 1, 3 * k + 1)
      BY <1>3, <3>2 DEF LineText
    <3>4. \A i \in (3 * k + 1)..(3 * k + 1) : buf[i] \in Tokens
      BY <1>2, <2>4, ElementOfSeq
    <3>5. /\ LineText \in Seq(Tokens) /\ Len(LineText) = 1
          /\ LineText[1] = buf[3 * k + 1]
      BY <3>3, <3>4, SubSeqProperties
    <3>6. LineText[1] = LineToken(request, k)
      BY <1>1, <1>2, <1>4, <2>4, <3>5
    <3>7. LineText = <<LineToken(request, k)>>
      BY <3>5, <3>6, LineTokens, SeqEqual DEF ConnTypeInv, Headers
    <3> QED
      BY <1>2, <2>4, <3>2, <3>7
  <2> QED
    BY <1>2, <1>6, <2>3, <2>4
<1> QED
  BY <1>2, <1>5, <1>6

(* What it finds at the blank line.                                        *)
LEMMA BlankFound ==
  ASSUME ConnTypeInv, WireInv, request.eol = Crlf, NEW k, k = Headers + 1, AtLine(k)
  PROVE  /\ ParseLine.status = "OK" =>
              /\ ParseLine.at = 3 * k + 2 /\ ParseLine.mark = 3 * k + 1
              /\ ParseLine.at <= Read_idx
              /\ LineText = <<>>
         /\ ParseLine.status # "OK" =>
              ParseLine.at = 3 * k /\ ParseLine.at <= Read_idx
<1> DEFINE buf == conn.read_buf
           n == Read_idx
           c == conn.checked_idx
<1>1. /\ k \in Nat /\ BodyLen \in Nat /\ Len(Wire) = BodyAt + BodyLen
      /\ Wire[3 * k + 1] = CR /\ Wire[3 * k + 2] = LF
  BY Text DEF ConnTypeInv
<1>2. buf \in Seq(Tokens) /\ n = Len(buf) /\ n \in Nat /\ c \in 0..n
  BY LenProperties DEF ConnTypeInv, TypeOK, ConnStates, Read_idx
<1>3. c = 3 * k /\ conn.start_line = 3 * k
  BY DEF AtLine
<1>4. \A i \in (3 * k + 1)..n : buf[i] = Wire[i]
  BY <1>3 DEF WireInv
<1>5. CASE n = 3 * k
  <2>1. \A i \in (c + 1)..n : buf[i] \notin {CR, LF}
    BY <1>1, <1>2, <1>3, <1>5
  <2>2. ParseLine.status = "OPEN" /\ ParseLine.at = n
    BY <1>2, <2>1, NoEnd DEF Read_idx
  <2> QED
    BY <1>2, <1>3, <1>5, <2>2
<1>6. CASE n >= 3 * k + 1
  <2>1. PICK i \in Int : i = 3 * k + 1
    BY <1>1
  <2>2. i \in (c + 1)..n /\ buf[i] = CR /\ \A j \in (c + 1)..(i - 1) : buf[j] \notin {CR, LF}
    <3>1. i \in (c + 1)..n /\ i \in (3 * k + 1)..n
      BY <1>1, <1>2, <1>3, <1>6, <2>1
    <3>2. buf[i] = CR
      BY <1>1, <1>4, <2>1, <3>1
    <3>3. \A j \in (c + 1)..(i - 1) : FALSE
      BY <1>1, <1>2, <1>3, <2>1
    <3> QED
      BY <3>1, <3>2, <3>3
  <2>3. /\ i = n => ParseLine.status = "OPEN" /\ ParseLine.at = i - 1
        /\ i < n /\ buf[i + 1] = LF =>
             ParseLine.status = "OK" /\ ParseLine.at = i + 1 /\ ParseLine.mark = i
    BY <1>2, <2>2, FirstEnd DEF Read_idx
  <2>4. CASE n = i
    <3>1. ParseLine.status = "OPEN" /\ ParseLine.at = i - 1
      BY <2>3, <2>4
    <3>2. i - 1 = 3 * k /\ i - 1 <= n
      BY <1>1, <1>2, <2>1, <2>4
    <3> QED
      BY <3>1, <3>2
  <2>5. CASE n > i
    <3>1. buf[i + 1] = LF
      <4>1. i + 1 = 3 * k + 2 /\ i + 1 \in (3 * k + 1)..n
        BY <1>1, <1>2, <2>1, <2>5
      <4> QED
        BY <1>1, <1>4, <4>1
    <3>2. ParseLine.status = "OK" /\ ParseLine.at = i + 1 /\ ParseLine.mark = i
      BY <1>2, <2>3, <2>5, <3>1
    <3>3. LineText = SubSeq(buf, 3 * k + 1, i - 1)
      BY <1>3, <3>2 DEF LineText
    <3>4. LineText = <<>>
      BY <1>1, <1>2, <2>1, <3>3, SubSeqEmpty
    <3>5. i + 1 = 3 * k + 2 /\ i + 1 <= n
      BY <1>1, <1>2, <2>1, <2>5
    <3> QED
      BY <2>1, <3>2, <3>4, <3>5
  <2>6. n = i \/ n > i
    BY <1>2, <1>6, <2>1, <2>2
  <2> QED
    BY <2>4, <2>5, <2>6
<1> QED
  BY <1>1, <1>2, <1>3, <1>5, <1>6

(* A bare LF is never taken for a line end.                                *)
LEMMA BareFound ==
  ASSUME ConnTypeInv, WireInv, request.eol # Crlf, AtLine(0)
  PROVE  /\ ParseLine.status # "OK"
         /\ ParseLine.at \in {0, 1} /\ ParseLine.at <= Read_idx
<1> DEFINE buf == conn.read_buf
           n == Read_idx
           c == conn.checked_idx
<1>1. Wire[1] \notin {CR, LF} /\ Wire[2] = LF
  BY Text DEF ConnTypeInv
<1>2. buf \in Seq(Tokens) /\ n = Len(buf) /\ n \in Nat /\ c \in 0..n
  BY LenProperties DEF ConnTypeInv, TypeOK, ConnStates, Read_idx
<1>3. c \in {0, 1} /\ conn.start_line = 0
  BY DEF AtLine
<1>4. \A i \in 1..n : buf[i] = Wire[i]
  BY <1>3 DEF WireInv
<1>5. CASE n <= 1
  <2>1. \A i \in (c + 1)..n : buf[i] \notin {CR, LF}
    BY <1>1, <1>2, <1>3, <1>4, <1>5
  <2>2. ParseLine.status = "OPEN" /\ ParseLine.at = n
    BY <1>2, <2>1, NoEnd DEF Read_idx
  <2>3. n \in {0, 1}
    <3>1. n \in Nat
      BY <1>2
    <3> QED
      BY <1>5, <3>1
  <2> QED
    BY <2>2, <2>3
<1>6. CASE n >= 2
  <2>1. /\ 2 \in (c + 1)..n /\ buf[2] = LF /\ buf[2 - 1] # CR
        /\ \A j \in (c + 1)..(2 - 1) : buf[j] \notin {CR, LF}
    BY <1>1, <1>2, <1>3, <1>4, <1>6
  <2>2. ParseLine.status = "BAD" /\ ParseLine.at = 2 - 1
    BY <1>2, <2>1, FirstEnd DEF Read_idx
  <2>3. ParseLine.at = 1 /\ 1 <= n
    BY <1>2, <1>6, <2>2
  <2> QED
    BY <2>2, <2>3
<1> QED
  BY <1>2, <1>5, <1>6

(* A body has no line end.                                                 *)
LEMMA BodyFound ==
  ASSUME ConnTypeInv, WireInv, request.eol = Crlf, BodyAt <= conn.start_line
  PROVE  ParseLine.status # "OK" /\ ParseLine.at = Read_idx
<1> DEFINE buf == conn.read_buf
           n == Read_idx
           c == conn.checked_idx
<1>1. /\ Headers \in Nat /\ BodyLen \in Nat /\ Len(Wire) = BodyAt + BodyLen
      /\ \A i \in (BodyAt + 1)..Len(Wire) : Wire[i] \notin {CR, LF}
  BY Text DEF ConnTypeInv
<1>2. /\ buf \in Seq(Tokens) /\ n = Len(buf) /\ n \in Nat /\ c \in 0..n
      /\ conn.start_line \in 0..c
  BY LenProperties DEF ConnTypeInv, TypeOK, ConnStates, Read_idx
<1>3. n <= Len(Wire)
  <2>1. Len(inbox) \in Nat
    BY LenProperties DEF ConnTypeInv
  <2> QED
    BY <1>1, <1>2, <2>1 DEF WireInv, Arrived, BodyAt
<1>4. \A i \in (conn.start_line + 1)..n : buf[i] = Wire[i]
  BY DEF WireInv
<1>5. \A i \in (c + 1)..n : buf[i] \notin {CR, LF}
  <2> TAKE i \in (c + 1)..n
  <2>1. i \in (BodyAt + 1)..Len(Wire)
    BY <1>1, <1>2, <1>3 DEF BodyAt
  <2>2. Wire[i] \notin {CR, LF}
    BY <1>1, <2>1
  <2> QED
    BY <1>2, <1>4, <2>2
<1>6. ParseLine.status = "OPEN" /\ ParseLine.at = n
  BY <1>2, <1>5, NoEnd DEF Read_idx
<1> QED
  BY <1>6

-----------------------------------------------------------------------------
(* Records and responses.                                                  *)

(* process_write() never leaves an empty response.                         *)
LEMMA ResponseShape ==
  ASSUME NEW ret, NEW url
  PROVE  /\ Composed(ret, url) \in Seq(Units)
         /\ Len(Composed(ret, url)) > 0 /\ Composed(ret, url) # <<>>
<1>1. \A s \in Units : Page(s) \in Seq(Units) /\ Len(Page(s)) = 3
  BY DEF Page, Units
<1>2. /\ <<"200", "headers", "html">> \in Seq(Units) /\ Len(<<"200", "headers", "html">>) = 3
      /\ <<"200", "headers">> \in Seq(Units) /\ Len(<<"200", "headers">>) = 2
  BY DEF Units
<1>3. /\ <<"200", "headers", "html">> \o Page("500") \in Seq(Units)
      /\ Len(<<"200", "headers", "html">> \o Page("500")) = 6
  <2>1. Page("500") \in Seq(Units) /\ Len(Page("500")) = 3
    BY <1>1 DEF Units
  <2>2. ASSUME NEW s \in Seq(Units), NEW t \in Seq(Units), Len(s) = 3, Len(t) = 3
        PROVE  s \o t \in Seq(Units) /\ Len(s \o t) = 6
    <3>1. s \o t \in Seq(Units) /\ Len(s \o t) = Len(s) + Len(t)
      BY ConcatProperties, Zenon
    <3> QED
      BY <2>2, <3>1
  <2> QED
    BY <1>2, <2>1, <2>2
<1>4. Composed(ret, url) \in Seq(Units) /\ Len(Composed(ret, url)) \in {2, 3, 6}
  <2>1. {"400", "403", "404"} \subseteq Units
    BY DEF Units
  <2> QED
    BY <1>1, <1>2, <1>3, <2>1 DEF Composed
<1> QED
  BY <1>4, EmptySeq

(* What init() leaves.                                                     *)
LEMMA FreshState ==
  /\ Fresh \in ConnStates
  /\ Fresh.write_buf = <<>> /\ Fresh.read_buf = <<>>
  /\ Fresh.start_line = 0 /\ Fresh.checked_idx = 0
  /\ Fresh.check_state = "REQUESTLINE" /\ Fresh.linger = FALSE /\ Fresh.content_length = 0
BY DEF Fresh, ConnStates

(* An object that is reset is at the beginning of a request.               *)
LEMMA FreshParses ==
  ASSUME conn = Fresh, inbox = <<>>, script = <<>>, IsRequest(request)
  PROVE  WireInv /\ ParseInv
<1>1. Len(Wire) \in Nat /\ Headers \in Nat
  BY Text
<1>2. Read_idx = 0 /\ Arrived = 0
  BY FreshState DEF Read_idx, Arrived
<1>3. WireInv
  <2>1. /\ Len(inbox) = 0 /\ Len(script) = 0 /\ script = <<>>
        /\ conn.start_line = 0
    BY FreshState
  <2> QED
    BY <1>1, <1>2, <2>1 DEF WireInv
<1>4. AtLine(0)
  BY <1>1, FreshState DEF AtLine
<1>5. ParseInv
  BY <1>4, FreshState DEF ParseInv
<1> QED
  BY <1>3, <1>5

(* The same for the state after a step.                                    *)
LEMMA FreshParsesNext ==
  ASSUME conn' = Fresh, inbox' = <<>>, script' \in {<<>>, Wire'}, IsRequest(request)'
  PROVE  WireInv' /\ ParseInv'
<1>1. PICK r : r = request'
  OBVIOUS
<1>2. IsRequest(r)
  BY <1>1 DEF IsRequest
<1>3. Wire' \in Seq(Tokens) /\ Len(Wire)' \in Nat /\ Headers' \in Nat
  BY <1>1, <1>2, SomeText DEF Wire, Headers
<1>4. Read_idx' = 0 /\ Arrived' = 0 /\ conn'.start_line = 0 /\ Len(inbox') = 0
  BY FreshState DEF Read_idx, Arrived
<1>5. WireInv'
  <2>1. CASE script' = <<>>
    <3>1. Len(script') = 0
      BY <2>1
    <3> QED
      BY <1>3, <1>4, <2>1, <3>1 DEF WireInv
  <2>2. CASE script' = Wire'
    BY <1>3, <1>4, <2>2 DEF WireInv
  <2> QED
    BY <2>1, <2>2
<1>6. AtLine(0)'
  BY <1>3, FreshState DEF AtLine
<1>7. ParseInv'
  BY <1>6, FreshState DEF ParseInv
<1> QED
  BY <1>5, <1>7

(* The object after a line whose end is at m.                              *)
LEMMA LinePassed ==
  ASSUME ConnTypeInv, NEW m \in Nat, ParseLine.mark = m, ParseLine.at = m + 1,
         m >= 1, m + 1 <= Read_idx
  PROVE  /\ PastLine \in ConnStates
         /\ PastLine.start_line = m + 1 /\ PastLine.checked_idx = m + 1
         /\ Len(PastLine.read_buf) = Read_idx
         /\ \A i \in (m + 2)..Read_idx : PastLine.read_buf[i] = conn.read_buf[i]
         /\ PastLine.check_state = conn.check_state /\ PastLine.linger = conn.linger
         /\ PastLine.method = conn.method /\ PastLine.url = conn.url
         /\ PastLine.content_length = conn.content_length
         /\ PastLine.write_buf = conn.write_buf
<1> DEFINE buf == conn.read_buf
           one == [buf EXCEPT ![m] = NUL]
           two == [one EXCEPT ![m + 1] = NUL]
<1>1. conn \in ConnStates /\ buf \in Seq(Tokens) /\ NUL \in Tokens
  BY TokensDiffer DEF ConnTypeInv, ConnStates
<1>2. Len(buf) = Read_idx
  BY DEF Read_idx
<1>3. Read_idx \in Nat
  BY <1>1, <1>2, LenProperties
<1>4. m \in 1..Len(buf) /\ m + 1 \in 1..Len(buf)
  BY <1>2, <1>3
<1> HIDE DEF buf
<1>5. /\ one \in Seq(Tokens) /\ Len(one) = Len(buf)
      /\ \A j \in 1..Len(buf) : one[j] = IF j = m THEN NUL ELSE buf[j]
  BY <1>1, <1>4, ExceptSeq
<1> HIDE DEF one
<1>6. /\ two \in Seq(Tokens) /\ Len(two) = Len(one)
      /\ \A j \in 1..Len(one) : two[j] = IF j = m + 1 THEN NUL ELSE one[j]
  BY <1>1, <1>4, <1>5, ExceptSeq
<1> HIDE DEF two
<1>7. PastLine = [conn EXCEPT !.read_buf = two, !.checked_idx = m + 1, !.start_line = m + 1]
  <2>1. two = [buf EXCEPT ![m] = NUL, ![m + 1] = NUL]
    BY DEF two, one
  <2> QED
    BY <2>1 DEF PastLine, buf
<1>8. /\ PastLine \in ConnStates
      /\ PastLine.start_line = m + 1 /\ PastLine.checked_idx = m + 1
      /\ PastLine.read_buf = two
      /\ PastLine.check_state = conn.check_state /\ PastLine.linger = conn.linger
      /\ PastLine.method = conn.method /\ PastLine.url = conn.url
      /\ PastLine.content_length = conn.content_length
      /\ PastLine.write_buf = conn.write_buf
  <2>1. m + 1 \in Nat /\ two \in Seq(Tokens)
    BY <1>5, <1>6
  <2>2. /\ conn = [f \in DOMAIN conn |-> conn[f]]
        /\ {"read_buf", "checked_idx", "start_line"} \subseteq DOMAIN conn
    BY <1>1 DEF ConnStates
  <2>3. /\ PastLine.start_line = m + 1 /\ PastLine.checked_idx = m + 1
        /\ PastLine.read_buf = two
        /\ PastLine.check_state = conn.check_state /\ PastLine.linger = conn.linger
        /\ PastLine.method = conn.method /\ PastLine.url = conn.url
        /\ PastLine.content_length = conn.content_length
        /\ PastLine.write_buf = conn.write_buf
    BY <1>7, <2>2
  <2>4. PastLine \in ConnStates
    BY <1>1, <1>7, <2>1 DEF ConnStates
  <2> QED
    BY <2>3, <2>4
<1>9. \A i \in (m + 2)..Read_idx : two[i] = buf[i]
  <2> TAKE i \in (m + 2)..Read_idx
  <2>1. i \in 1..Read_idx /\ i # m /\ i # m + 1
    BY <1>3
  <2> QED
    BY <1>2, <1>5, <1>6, <2>1
<1> QED
  BY <1>2, <1>5, <1>6, <1>8, <1>9 DEF buf

-----------------------------------------------------------------------------
(* The accepted connection has the invariant.                              *)
THEOREM InitConn == Init => ConnInv
<1> SUFFICES ASSUME Init PROVE ConnInv
  OBVIOUS
<1>1. IsRequest(request)
  BY DEF Init, NoRequestYet, IsRequest, Lines, Paths
<1>2. conn = Fresh /\ inbox = <<>> /\ script = <<>> /\ iv = <<>> /\ emitted = <<>>
  BY DEF Init
<1>3. WireInv /\ ParseInv
  BY <1>1, <1>2, FreshParses
<1>4. ConnTypeInv
  <2>1. /\ ReadBufferSize \in Nat /\ WriteBufferSize \in Nat /\ SendBufferSize \in Nat
        /\ MaxRequests \in Nat
    BY HttpConnAssumption
  <2>2. TypeOK
    <3>1. /\ conn.check_state = "REQUESTLINE" /\ conn.start_line = 0 /\ conn.checked_idx = 0
          /\ Len(conn.read_buf) = 0 /\ Len(conn.write_buf) = 0
      BY <1>2, FreshState
    <3>2. cut \in BOOLEAN /\ finished \in BOOLEAN /\ rdhup \in BOOLEAN
      BY DEF Init
    <3>3. asked \in 0..MaxRequests /\ unsent \in 0..SendBufferSize /\ left \in 0..WriteBufferSize
      BY <2>1 DEF Init
    <3>4. /\ client \in {"idle", "asking", "fin", "rst"} /\ armed \in {"in", "out", "none"}
          /\ phase \in {"polling", "queued", "parsing", "writing", "closed"}
      BY DEF Init
    <3> QED
      BY <2>1, <3>1, <3>2, <3>3, <3>4 DEF TypeOK
  <2>3. <<>> \in Seq(Tokens) /\ <<>> \in Seq(Units)
    OBVIOUS
  <2> QED
    BY <1>1, <1>2, <2>2, <2>3, FreshState DEF ConnTypeInv
<1>5. InterestMatchesBuffer /\ UncutResponseIntact /\ (client = "idle" => AtRest)
  BY FreshState DEF Init, InterestMatchesBuffer, UncutResponseIntact, AtRest
<1>6. conn.write_buf = <<>> /\ phase = "polling"
  BY FreshState DEF Init
<1> QED
  BY <1>3, <1>4, <1>5, <1>6 DEF ConnInv

-----------------------------------------------------------------------------
(* The client and the network.                                             *)

(* The parser and the response do not see who waits for them.              *)
LEMMA NothingParsed ==
  ASSUME UNCHANGED <<request, conn>>
  PROVE  /\ ParseInv => ParseInv'
         /\ \A k : AtLine(k) => AtLine(k)'
         /\ Wire' = Wire /\ Read_idx' = Read_idx /\ conn' = conn
BY DEF ParseInv, AtLine, Knows, Seen, Malformed, Headers, BodyLen, BodyAt, Wire, Read_idx

(* The response does not depend on who waits for it.                       *)
LEMMA NothingAnswered ==
  ASSUME UNCHANGED <<request, code, finished, conn, iv, inbox, cut, emitted>>,
         script' \in {script, <<>>}
  PROVE  AnswerInv => AnswerInv'
BY DEF AnswerInv, Verdict, Malformed, KeepAlive, HasBody, GoodForm, Composed, Page, DoRequest

(* A new request finds the object as init() leaves it.                     *)
LEMMA AskKeeps == ConnInv /\ Ask => ConnInv'
<1> SUFFICES ASSUME ConnInv, Ask PROVE ConnInv'
  OBVIOUS
<1>1. PICK r \in Requests : request' = r /\ script' = Encode(r)
  BY DEF Ask
<1>2. /\ phase # "closed" /\ client = "idle" /\ client' = "asking" /\ asked < MaxRequests
      /\ asked' = asked + 1 /\ emitted' = <<>> /\ cut' = FALSE /\ finished' = FALSE
      /\ UNCHANGED <<inbox, unsent, armed, rdhup, phase, conn, iv, left>>
  BY DEF Ask
<1>3. AtRest
  BY <1>2 DEF ConnInv
<1>4. IsRequest(r) /\ IsRequest(request)'
  BY <1>1, HttpConnAssumption DEF IsRequest
<1>5. script' \in Seq(Tokens)
  BY <1>1, <1>4, SomeText
<1>6. conn' = Fresh /\ inbox' = <<>>
  BY <1>2, <1>3 DEF AtRest
<1>7. script' = Wire'
  BY <1>1 DEF Wire
<1>8. WireInv' /\ ParseInv'
  BY <1>4, <1>6, <1>7, FreshParsesNext
<1>9. ConnTypeInv'
  <2>1. asked' \in 0..MaxRequests
    BY <1>2, HttpConnAssumption DEF ConnInv, ConnTypeInv, TypeOK
  <2>2. TypeOK'
    BY <1>2, <2>1 DEF ConnInv, ConnTypeInv, TypeOK
  <2>3. emitted' \in Seq(Units)
    BY <1>2
  <2> QED
    BY <1>2, <1>4, <1>5, <2>2, <2>3 DEF ConnInv, ConnTypeInv
<1>10. InterestMatchesBuffer' /\ UncutResponseIntact'
  BY <1>2 DEF ConnInv, InterestMatchesBuffer, UncutResponseIntact
<1>11. conn'.write_buf = <<>> /\ phase' = "polling"
  BY <1>2, <1>3, FreshState DEF AtRest
<1> QED
  BY <1>2, <1>8, <1>9, <1>10, <1>11 DEF ConnInv

(* What the client sends is the next token of the text.                    *)
LEMMA SendKeeps == ConnInv /\ Send => ConnInv'
<1> SUFFICES ASSUME ConnInv, Send PROVE ConnInv'
  OBVIOUS
<1>1. /\ script # <<>> /\ phase # "closed"
      /\ inbox' = Append(inbox, Head(script)) /\ script' = Tail(script)
      /\ UNCHANGED <<request, client, asked, armed, rdhup, phase, conn, left, code,
                     iv, unsent, emitted, cut, finished>>
  BY DEF Send, outVars
<1>2. client # "idle"
  BY <1>1 DEF ConnInv, AtRest
<1>3. inbox \in Seq(Tokens) /\ script \in Seq(Tokens)
  BY DEF ConnInv, ConnTypeInv
<1>4. Len(inbox) \in Nat /\ Len(script) \in Nat /\ Len(script) > 0
  BY <1>1, <1>3, LenProperties, EmptySeq
<1>5. Read_idx \in Nat
  BY LenProperties DEF ConnInv, ConnTypeInv, ConnStates, Read_idx
<1>6. /\ Head(script) = script[1] /\ Head(script) \in Tokens
      /\ Tail(script) \in Seq(Tokens) /\ Len(Tail(script)) = Len(script) - 1
      /\ \A i \in 1..(Len(script) - 1) : Tail(script)[i] = script[i + 1]
  BY <1>1, <1>3, <1>4, HeadTailProperties
<1>7. /\ inbox' \in Seq(Tokens) /\ Len(inbox') = Len(inbox) + 1
      /\ \A i \in 1..Len(inbox) : inbox'[i] = inbox[i]
      /\ inbox'[Len(inbox) + 1] = Head(script)
  BY <1>1, <1>3, <1>6, AppendProperties
<1>8. /\ Wire' = Wire /\ Read_idx' = Read_idx /\ Arrived' = Arrived + 1
      /\ Arrived = Read_idx + Len(inbox)
  <2>1. Arrived' = Read_idx' + Len(inbox')
    BY DEF Arrived
  <2>2. Wire' = Wire /\ Read_idx' = Read_idx /\ Arrived = Read_idx + Len(inbox)
    BY <1>1 DEF Wire, Read_idx, Arrived
  <2> QED
    BY <1>4, <1>5, <1>7, <2>1, <2>2
<1>9. /\ Arrived \in Nat /\ Arrived + Len(script) = Len(Wire)
      /\ \A i \in 1..Len(inbox) : inbox[i] = Wire[Read_idx + i]
      /\ \A i \in 1..Len(script) : script[i] = Wire[Arrived + i]
      /\ \A i \in (conn.start_line + 1)..Read_idx : conn.read_buf[i] = Wire[i]
  BY <1>1, <1>4, <1>5, <1>8 DEF ConnInv, WireInv
<1>10. WireInv'
  <2>1. Arrived' <= Len(Wire')
    BY <1>4, <1>8, <1>9
  <2>2. \A i \in 1..Len(inbox') : inbox'[i] = Wire'[Read_idx' + i]
    <3> TAKE i \in 1..Len(inbox')
    <3>1. CASE i \in 1..Len(inbox)
      BY <1>7, <1>8, <1>9, <3>1
    <3>2. CASE i = Len(inbox) + 1
      <4>1. Read_idx + i = Arrived + 1 /\ 1 \in 1..Len(script)
        BY <1>4, <1>5, <1>8, <3>2
      <4> QED
        BY <1>6, <1>7, <1>8, <1>9, <3>2, <4>1
    <3> QED
      BY <1>4, <1>7, <3>1, <3>2
  <2>3. Arrived' + Len(script') = Len(Wire')
    BY <1>1, <1>4, <1>6, <1>8, <1>9
  <2>4. \A i \in 1..Len(script') : script'[i] = Wire'[Arrived' + i]
    <3> TAKE i \in 1..Len(script')
    <3>1. i \in 1..(Len(script) - 1) /\ i + 1 \in 1..Len(script)
      BY <1>1, <1>4, <1>6
    <3>2. script'[i] = script[i + 1]
      BY <1>1, <1>6, <3>1
    <3>3. script[i + 1] = Wire[Arrived + (i + 1)]
      BY <1>9, <3>1
    <3>4. Arrived + (i + 1) = Arrived' + i
      BY <1>8, <1>9, <3>1
    <3> QED
      BY <1>8, <3>2, <3>3, <3>4
  <2>5. \A i \in (conn'.start_line + 1)..Read_idx' : conn'.read_buf[i] = Wire'[i]
    BY <1>1, <1>8, <1>9
  <2> QED
    BY <2>1, <2>2, <2>3, <2>4, <2>5 DEF WireInv
<1>11. ConnTypeInv'
  <2>1. TypeOK'
    BY <1>1 DEF ConnInv, ConnTypeInv, TypeOK
  <2> QED
    BY <1>1, <1>6, <1>7, <2>1 DEF ConnInv, ConnTypeInv
<1>12. conn'.write_buf = <<>> => ParseInv'
  BY <1>1, NothingParsed DEF ConnInv
<1>13. conn'.write_buf # <<>> => AnswerInv'
  <2>1. conn.write_buf # <<>> => AnswerInv /\ ~conn.linger
    BY <1>1 DEF ConnInv, AnswerInv
  <2> QED
    BY <1>1, <2>1 DEF AnswerInv, Verdict, Malformed, KeepAlive, HasBody, GoodForm,
                      Composed, Page, DoRequest
<1>14. InterestMatchesBuffer' /\ UncutResponseIntact'
  BY <1>1 DEF ConnInv, InterestMatchesBuffer, UncutResponseIntact, Expected, Verdict,
              Malformed, HasBody, GoodForm, DoRequest
<1>15. phase' = "writing" => conn'.write_buf # <<>> /\ left' <= Len(conn'.write_buf)
  BY <1>1 DEF ConnInv
<1> QED
  BY <1>1, <1>2, <1>10, <1>11, <1>12, <1>13, <1>14, <1>15 DEF ConnInv

(* A client that leaves sends no more of the text.                         *)
LEMMA LeaveKeeps == ConnInv /\ Leave => ConnInv'
<1> SUFFICES ASSUME ConnInv, Leave PROVE ConnInv'
  OBVIOUS
<1>1. /\ phase # "closed" /\ client' \in {"fin", "rst"} /\ script' = <<>>
      /\ UNCHANGED <<request, asked, inbox, armed, rdhup, phase, conn, left, code,
                     iv, unsent, emitted, cut, finished>>
  BY DEF Leave, outVars
<1>2. Wire' = Wire /\ Read_idx' = Read_idx /\ Arrived' = Arrived
  BY <1>1 DEF Wire, Read_idx, Arrived
<1>3. WireInv'
  <2>1. Len(script)' = 0
    BY <1>1
  <2> QED
    BY <1>1, <1>2, <2>1 DEF ConnInv, WireInv
<1>4. ConnTypeInv'
  <2>1. TypeOK'
    BY <1>1 DEF ConnInv, ConnTypeInv, TypeOK
  <2>2. script' \in Seq(Tokens)
    BY <1>1
  <2> QED
    BY <1>1, <2>1, <2>2 DEF ConnInv, ConnTypeInv
<1>5. conn'.write_buf = <<>> => ParseInv'
  BY <1>1, NothingParsed DEF ConnInv
<1>6. conn'.write_buf # <<>> => AnswerInv'
  BY <1>1, NothingAnswered DEF ConnInv
<1>7. InterestMatchesBuffer' /\ UncutResponseIntact'
  BY <1>1 DEF ConnInv, InterestMatchesBuffer, UncutResponseIntact, Expected, Verdict,
              Malformed, HasBody, GoodForm, DoRequest
<1>8. phase' = "writing" => conn'.write_buf # <<>> /\ left' <= Len(conn'.write_buf)
  BY <1>1 DEF ConnInv
<1> QED
  BY <1>1, <1>3, <1>4, <1>5, <1>6, <1>7, <1>8 DEF ConnInv

(* What the network takes is no concern of the object.                     *)
LEMMA DeliverKeeps == ConnInv /\ Deliver => ConnInv'
<1> SUFFICES ASSUME ConnInv, Deliver PROVE ConnInv'
  OBVIOUS
<1>1. /\ unsent > 0 /\ unsent' = unsent - 1 /\ phase # "closed"
      /\ UNCHANGED <<request, client, asked, script, inbox, armed, rdhup, phase, conn, iv,
                     left, code, emitted, cut, finished>>
  BY DEF Deliver, clientVars
<1>2. Wire' = Wire /\ Read_idx' = Read_idx /\ Arrived' = Arrived
  BY <1>1 DEF Wire, Read_idx, Arrived
<1>3. WireInv'
  BY <1>1, <1>2 DEF ConnInv, WireInv
<1>4. ConnTypeInv'
  <2>1. unsent' \in 0..SendBufferSize
    BY <1>1, HttpConnAssumption DEF ConnInv, ConnTypeInv, TypeOK
  <2>2. TypeOK'
    BY <1>1, <2>1 DEF ConnInv, ConnTypeInv, TypeOK
  <2> QED
    BY <1>1, <2>2 DEF ConnInv, ConnTypeInv
<1>5. conn'.write_buf = <<>> => ParseInv'
  BY <1>1, NothingParsed DEF ConnInv
<1>6. conn'.write_buf # <<>> => AnswerInv'
  BY <1>1, NothingAnswered DEF ConnInv
<1>7. InterestMatchesBuffer' /\ UncutResponseIntact'
  BY <1>1 DEF ConnInv, InterestMatchesBuffer, UncutResponseIntact, Expected, Verdict,
              Malformed, HasBody, GoodForm, DoRequest
<1> QED
  BY <1>1, <1>3, <1>4, <1>5, <1>6, <1>7 DEF ConnInv, AtRest

-----------------------------------------------------------------------------
(* The main thread.                                                        *)

(* The connection is closed.                                               *)
LEMMA Closing ==
  ASSUME ConnInv, phase' = "closed", armed' = "none",
         UNCHANGED <<clientVars, inbox, unsent, rdhup, conn, iv, left, code, emitted,
                     cut, finished>>
  PROVE  ConnInv'
<1>1. /\ Wire' = Wire /\ Read_idx' = Read_idx /\ Arrived' = Arrived
      /\ UNCHANGED <<request, client, asked, script>>
  BY DEF Wire, Read_idx, Arrived, clientVars
<1>2. WireInv'
  BY <1>1 DEF ConnInv, WireInv
<1>3. ConnTypeInv'
  <2>1. TypeOK'
    BY <1>1 DEF ConnInv, ConnTypeInv, TypeOK
  <2> QED
    BY <1>1, <2>1 DEF ConnInv, ConnTypeInv
<1>4. InterestMatchesBuffer' /\ UncutResponseIntact'
  BY <1>1 DEF ConnInv, InterestMatchesBuffer, UncutResponseIntact, Expected, Verdict,
              Malformed, HasBody, GoodForm, DoRequest
<1> QED
  BY <1>2, <1>3, <1>4 DEF ConnInv

(* The three ways in which the main thread closes a connection.            *)
LEMMA FailsKeep == ConnInv /\ (EventHangUp \/ ReadFails \/ WriteFails) => ConnInv'
<1>1. ASSUME ConnInv, EventHangUp PROVE ConnInv'
  BY <1>1, Closing DEF EventHangUp, CloseConn
<1>2. ASSUME ConnInv, ReadFails PROVE ConnInv'
  BY <1>2, Closing DEF ReadFails, CloseConn
<1>3. ASSUME ConnInv, WriteFails PROVE ConnInv'
  BY <1>3, Closing DEF WriteFails, CloseConn
<1> QED
  BY <1>1, <1>2, <1>3

(* recv() appends the next tokens of the text to m_read_buf.               *)
LEMMA ReadKeeps == ConnInv /\ Read => ConnInv'
<1> SUFFICES ASSUME ConnInv, Read PROVE ConnInv'
  OBVIOUS
<1> DEFINE room == ReadBufferSize - Read_idx
<1>1. /\ phase = "polling" /\ armed = "in" /\ inbox # <<>> /\ Read_idx < ReadBufferSize
      /\ armed' = "none" /\ phase' = "queued"
      /\ UNCHANGED <<request, client, asked, script, rdhup, left, code, iv, unsent,
                     emitted, cut, finished>>
  BY DEF Read, outVars, clientVars, Read_idx
<1>2. PICK n : /\ n = Min({Len(inbox), room})
               /\ conn' = [conn EXCEPT !.read_buf = @ \o SubSeq(inbox, 1, n)]
               /\ inbox' = SubSeq(inbox, n + 1, Len(inbox))
  BY DEF Read, Read_idx
<1>3. PICK buf : buf = conn.read_buf
  OBVIOUS
<1>4. buf \in Seq(Tokens) /\ inbox \in Seq(Tokens) /\ Read_idx = Len(buf)
  BY <1>3 DEF ConnInv, ConnTypeInv, ConnStates, Read_idx
<1>5. Read_idx \in Nat /\ Len(inbox) \in Nat /\ Len(inbox) > 0
  BY <1>1, <1>4, LenProperties, EmptySeq
<1>6. n \in 1..Len(inbox) /\ n <= room
  <2>1. room \in Int /\ room >= 1
    BY <1>1, <1>5, HttpConnAssumption
  <2>2. n \in {Len(inbox), room} /\ n <= Len(inbox) /\ n <= room
    BY <1>2, <1>5, <2>1, MinOfTwo
  <2> QED
    BY <1>5, <2>1, <2>2
<1>7. /\ SubSeq(inbox, 1, n) \in Seq(Tokens) /\ Len(SubSeq(inbox, 1, n)) = n
      /\ \A i \in 1..n : SubSeq(inbox, 1, n)[i] = inbox[i]
  <2>1. \A i \in 1..n : inbox[i] \in Tokens
    BY <1>4, <1>5, <1>6, ElementOfSeq
  <2> QED
    BY <1>6, <2>1, SubSeqProperties
<1>8. /\ inbox' \in Seq(Tokens) /\ Len(inbox') = Len(inbox) - n
      /\ \A i \in 1..(Len(inbox) - n) : inbox'[i] = inbox[n + i]
  <2>1. \A i \in (n + 1)..Len(inbox) : inbox[i] \in Tokens
    BY <1>4, <1>5, <1>6, ElementOfSeq
  <2>2. /\ SubSeq(inbox, n + 1, Len(inbox)) \in Seq(Tokens)
        /\ Len(SubSeq(inbox, n + 1, Len(inbox))) =
             IF n + 1 <= Len(inbox) THEN Len(inbox) - (n + 1) + 1 ELSE 0
        /\ \A i \in 1..(Len(inbox) - (n + 1) + 1) :
             SubSeq(inbox, n + 1, Len(inbox))[i] = inbox[n + 1 + i - 1]
    BY <1>5, <1>6, <2>1, SubSeqProperties
  <2>3. \A i \in 1..(Len(inbox) - n) : /\ i \in 1..(Len(inbox) - (n + 1) + 1)
                                       /\ n + 1 + i - 1 = n + i
    BY <1>5, <1>6
  <2>4. Len(SubSeq(inbox, n + 1, Len(inbox))) = Len(inbox) - n
    BY <1>5, <1>6, <2>2
  <2>5. \A i \in 1..(Len(inbox) - n) : SubSeq(inbox, n + 1, Len(inbox))[i] = inbox[n + i]
    BY <2>2, <2>3
  <2> QED
    BY <1>2, <2>2, <2>4, <2>5
<1>9. PICK more \in Seq(Tokens) : more = SubSeq(inbox, 1, n)
  BY <1>7
<1>10. PICK after : after = buf \o more
  OBVIOUS
<1>11. /\ after \in Seq(Tokens) /\ Len(after) = Read_idx + n
       /\ \A i \in 1..(Read_idx + n) :
            after[i] = IF i <= Read_idx THEN buf[i] ELSE inbox[i - Read_idx]
  <2>1. /\ buf \o more \in Seq(Tokens)
        /\ Len(buf \o more) = Len(buf) + Len(more)
        /\ \A i \in 1..(Len(buf) + Len(more)) :
             (buf \o more)[i] = IF i <= Len(buf) THEN buf[i] ELSE more[i - Len(buf)]
    BY <1>4, <1>9, ConcatProperties
  <2>2. Len(more) = n /\ \A i \in 1..n : more[i] = inbox[i]
    BY <1>7, <1>9
  <2>3. \A i \in 1..(Read_idx + n) : i > Read_idx => i - Read_idx \in 1..n
    BY <1>5, <1>6
  <2>4. \A i \in 1..(Read_idx + n) :
          after[i] = IF i <= Read_idx THEN buf[i] ELSE inbox[i - Read_idx]
    BY <1>4, <1>10, <2>1, <2>2, <2>3
  <2> QED
    BY <1>4, <1>10, <2>1, <2>2, <2>4
<1>12. conn' = [conn EXCEPT !.read_buf = after]
  BY <1>2, <1>3, <1>9, <1>10
<1>13. /\ conn' \in ConnStates /\ conn'.read_buf = after
       /\ conn'.check_state = conn.check_state /\ conn'.linger = conn.linger
       /\ conn'.method = conn.method /\ conn'.url = conn.url
       /\ conn'.content_length = conn.content_length
       /\ conn'.start_line = conn.start_line /\ conn'.checked_idx = conn.checked_idx
       /\ conn'.write_buf = conn.write_buf
  BY <1>11, <1>12 DEF ConnInv, ConnTypeInv, ConnStates
<1>14. /\ Wire' = Wire /\ Read_idx' = Read_idx + n
       /\ Arrived' = Arrived /\ Arrived = Read_idx + Len(inbox)
  <2>1. Wire' = Wire /\ Arrived = Read_idx + Len(inbox) /\ Arrived' = Read_idx' + Len(inbox')
    BY <1>1 DEF Wire, Arrived
  <2>2. Read_idx' = Read_idx + n
    BY <1>11, <1>13 DEF Read_idx
  <2> QED
    BY <1>5, <1>6, <1>8, <2>1, <2>2
<1>15. conn.write_buf = <<>> /\ client # "idle"
  BY <1>1 DEF ConnInv, InterestMatchesBuffer, AtRest
<1>16. /\ conn.start_line \in Nat /\ conn.checked_idx \in Nat
       /\ conn.start_line <= conn.checked_idx /\ conn.checked_idx <= Read_idx
  BY <1>5 DEF ConnInv, ConnTypeInv, TypeOK, ConnStates, Read_idx
<1>17. /\ \A i \in 1..Len(inbox) : inbox[i] = Wire[Read_idx + i]
       /\ \A i \in (conn.start_line + 1)..Read_idx : buf[i] = Wire[i]
  BY <1>3 DEF ConnInv, WireInv
<1>18. WireInv'
  <2>1. \A i \in 1..Len(inbox') : inbox'[i] = Wire'[Read_idx' + i]
    <3> TAKE i \in 1..Len(inbox')
    <3>1. i \in 1..(Len(inbox) - n) /\ n + i \in 1..Len(inbox)
      BY <1>5, <1>6, <1>8
    <3>2. Read_idx + (n + i) = Read_idx' + i
      BY <1>5, <1>6, <1>14, <3>1
    <3> QED
      BY <1>8, <1>14, <1>17, <3>1, <3>2
  <2>2. \A i \in (conn'.start_line + 1)..Read_idx' : conn'.read_buf[i] = Wire'[i]
    <3> TAKE i \in (conn'.start_line + 1)..Read_idx'
    <3>1. i \in 1..(Read_idx + n) /\ i >= conn.start_line + 1
      BY <1>5, <1>6, <1>13, <1>14, <1>16
    <3>2. CASE i <= Read_idx
      BY <1>5, <1>11, <1>13, <1>14, <1>16, <1>17, <3>1, <3>2
    <3>3. CASE i > Read_idx
      <4>1. i - Read_idx \in 1..Len(inbox) /\ Read_idx + (i - Read_idx) = i
        BY <1>5, <1>6, <3>1, <3>3
      <4>2. after[i] = inbox[i - Read_idx]
        BY <1>5, <1>11, <3>1, <3>3
      <4> QED
        BY <1>13, <1>14, <1>17, <4>1, <4>2
    <3> QED
      BY <1>5, <3>1, <3>2, <3>3
  <2> QED
    BY <1>1, <1>14, <2>1, <2>2 DEF ConnInv, WireInv
<1>19. ConnTypeInv'
  <2>1. Read_idx' <= ReadBufferSize /\ conn'.checked_idx \in 0..Read_idx'
    BY <1>5, <1>6, <1>13, <1>14, <1>16, HttpConnAssumption
  <2>2. TypeOK'
    <3>1. Len(conn'.read_buf) = Read_idx'
      BY DEF Read_idx
    <3> QED
      BY <1>1, <1>13, <2>1, <3>1 DEF ConnInv, ConnTypeInv, TypeOK
  <2> QED
    BY <1>1, <1>8, <1>13, <2>2 DEF ConnInv, ConnTypeInv
<1>20. ParseInv'
  <2>1. ParseInv
    BY <1>1, <1>15 DEF ConnInv
  <2>2. /\ Headers' = Headers /\ BodyLen' = BodyLen /\ BodyAt' = BodyAt
        /\ \A k : Knows(k) => Knows(k)'
        /\ \A k : AtLine(k) => AtLine(k)'
    BY <1>1, <1>13 DEF Headers, BodyLen, BodyAt, Knows, Seen, Malformed, AtLine
  <2> QED
    BY <1>13, <2>1, <2>2 DEF ParseInv
<1>21. InterestMatchesBuffer' /\ UncutResponseIntact'
  BY <1>1, <1>13, <1>15 DEF ConnInv, InterestMatchesBuffer, UncutResponseIntact, Expected,
       Verdict, Malformed, HasBody, GoodForm, DoRequest
<1> QED
  BY <1>1, <1>13, <1>15, <1>18, <1>19, <1>20, <1>21 DEF ConnInv

(* EPOLLOUT finds a response in the write buffer.                          *)
LEMMA EventOutKeeps == ConnInv /\ EventOut => ConnInv'
<1> SUFFICES ASSUME ConnInv, EventOut PROVE ConnInv'
  OBVIOUS
<1>1. phase = "polling" /\ armed = "out"
  BY DEF EventOut
<1>2. conn.write_buf # <<>> /\ AnswerInv /\ client # "idle"
  BY <1>1, FreshState DEF ConnInv, InterestMatchesBuffer, AtRest
<1>3. /\ armed' = "none" /\ phase' = "writing" /\ left' = Len(conn.write_buf)
      /\ UNCHANGED <<request, client, asked, script, inbox, rdhup, conn, code, iv, unsent,
                     emitted, cut, finished>>
  BY <1>2 DEF EventOut, clientVars, outVars
<1>4. Wire' = Wire /\ Read_idx' = Read_idx /\ Arrived' = Arrived
  BY <1>3 DEF Wire, Read_idx, Arrived
<1>5. WireInv'
  BY <1>3, <1>4 DEF ConnInv, WireInv
<1>6. Len(conn.write_buf) \in Nat
  BY LenProperties DEF ConnInv, ConnTypeInv, ConnStates
<1>7. ConnTypeInv'
  <2>1. left' \in 0..WriteBufferSize
    BY <1>3, <1>6, HttpConnAssumption DEF ConnInv, ConnTypeInv, TypeOK
  <2>2. TypeOK'
    BY <1>3, <2>1 DEF ConnInv, ConnTypeInv, TypeOK
  <2> QED
    BY <1>3, <2>2 DEF ConnInv, ConnTypeInv
<1>8. AnswerInv'
  BY <1>2, <1>3, NothingAnswered
<1>9. InterestMatchesBuffer' /\ UncutResponseIntact'
  BY <1>3 DEF ConnInv, InterestMatchesBuffer, UncutResponseIntact, Expected, Verdict,
              Malformed, HasBody, GoodForm, DoRequest
<1>10. left' <= Len(conn'.write_buf)
  BY <1>3, <1>6
<1> QED
  BY <1>2, <1>3, <1>5, <1>7, <1>8, <1>9, <1>10 DEF ConnInv

(* A full send buffer leaves the response where it is.                     *)
LEMMA WriteAgainKeeps == ConnInv /\ WriteAgain => ConnInv'
<1> SUFFICES ASSUME ConnInv, WriteAgain PROVE ConnInv'
  OBVIOUS
<1>1. /\ phase = "writing" /\ armed' = "out" /\ rdhup' = TRUE /\ phase' = "polling"
      /\ UNCHANGED <<request, client, asked, script, inbox, conn, left, code, iv, unsent,
                     emitted, cut, finished>>
  BY DEF WriteAgain, Modfd, clientVars, outVars
<1>2. conn.write_buf # <<>> /\ AnswerInv /\ client # "idle"
  BY <1>1 DEF ConnInv, AtRest
<1>3. Wire' = Wire /\ Read_idx' = Read_idx /\ Arrived' = Arrived
  BY <1>1 DEF Wire, Read_idx, Arrived
<1>4. WireInv'
  BY <1>1, <1>3 DEF ConnInv, WireInv
<1>5. ConnTypeInv'
  <2>1. TypeOK'
    BY <1>1 DEF ConnInv, ConnTypeInv, TypeOK
  <2> QED
    BY <1>1, <2>1 DEF ConnInv, ConnTypeInv
<1>6. AnswerInv'
  BY <1>1, <1>2, NothingAnswered
<1>7. InterestMatchesBuffer' /\ UncutResponseIntact'
  BY <1>1, <1>2 DEF ConnInv, InterestMatchesBuffer, UncutResponseIntact, Expected, Verdict,
              Malformed, HasBody, GoodForm, DoRequest
<1> QED
  BY <1>1, <1>2, <1>4, <1>5, <1>6, <1>7 DEF ConnInv

-----------------------------------------------------------------------------
(* write().                                                                *)

(* What m_iv offers is the response, and a file that may not be mapped.    *)
LEMMA Offered ==
  ASSUME ConnTypeInv, AnswerInv
  PROVE  /\ Len(conn.write_buf) \in Nat /\ Len(iv) \in Nat
         /\ Len(conn.write_buf) <= Len(iv) /\ Len(iv) <= MaxResponse
         /\ 0 < Len(iv) /\ Len(conn.write_buf) <= WriteBufferSize
         /\ MaxResponse \in Nat
<1>1. PICK wb : wb = conn.write_buf
  OBVIOUS
<1>2. wb \in Seq(Units) /\ iv \in Seq(Units) /\ Len(wb) <= WriteBufferSize
  BY <1>1 DEF ConnTypeInv, ConnStates, TypeOK
<1>3. Len(wb) \in Nat /\ Len(iv) \in Nat /\ Len(wb) > 0
  BY <1>1, <1>2, LenProperties, ResponseShape DEF AnswerInv
<1>4. PICK f : f = File
  OBVIOUS
<1>5. PICK g : g = NotMapped
  OBVIOUS
<1>6. f \in Seq(Units) /\ Len(f) = 2 /\ g \in Seq(Units) /\ Len(g) = 1
  BY <1>4, <1>5 DEF File, NotMapped, Units
<1>7. Len(wb \o f) = Len(wb) + 2 /\ Len(wb \o g) = Len(wb) + 1
  <2>1. ASSUME NEW s \in Seq(Units), NEW t \in Seq(Units)
        PROVE  Len(s \o t) = Len(s) + Len(t)
    BY ConcatProperties, Zenon
  <2>2. Len(wb \o f) = Len(wb) + Len(f) /\ Len(wb \o g) = Len(wb) + Len(g)
    BY <1>2, <1>6, <2>1
  <2> QED
    BY <1>3, <1>6, <2>2
<1>8. iv \in {wb, wb \o f, wb \o g}
  BY <1>1, <1>4, <1>5 DEF AnswerInv
<1>9. MaxResponse = WriteBufferSize + 2 /\ WriteBufferSize \in Nat
  BY <1>4, <1>6, HttpConnAssumption DEF MaxResponse
<1> QED
  BY <1>1, <1>2, <1>3, <1>7, <1>8, <1>9

(* Unless the file is not mapped, that is what the request calls for.      *)
LEMMA OfferedExpected ==
  ASSUME ConnTypeInv, AnswerInv, request.line[2] # "empty", iv[Len(iv)] # "fault"
  PROVE  iv = Expected(request)
<1>1. /\ request.line \in Lines
      /\ code = Verdict(request) /\ code # "NO_REQUEST"
      /\ conn.write_buf = Composed(code, conn.url)
  BY DEF ConnTypeInv, IsRequest, AnswerInv
<1>2. CASE Malformed(request)
  <2>1. code = "BAD_REQUEST"
    BY <1>1, <1>2 DEF Verdict
  <2> QED
    BY <1>1, <2>1 DEF AnswerInv, Expected, Composed
<1>3. CASE ~Malformed(request)
  <2>1. conn.url = request.line[2] /\ conn.url \in Paths \ {"empty"}
    BY <1>1, <1>3 DEF AnswerInv, Lines, Malformed
  <2>2. code = DoRequest(conn.url)
    BY <1>1, <1>3, <2>1 DEF Verdict
  <2>3. CASE conn.url # "file"
    <3>1. code \in {"NO_RESOURCE", "FORBIDDEN_REQUEST", "BAD_REQUEST"}
      BY <2>1, <2>2, <2>3 DEF DoRequest, Paths
    <3> QED
      BY <1>1, <2>3, <3>1 DEF AnswerInv, Expected, Composed
  <2>4. CASE conn.url = "file"
    <3>1. code = "FILE_REQUEST"
      BY <2>2, <2>4 DEF DoRequest
    <3>2. PICK wb : wb = conn.write_buf
      OBVIOUS
    <3>3. wb = <<"200", "headers">>
      BY <1>1, <2>4, <3>1, <3>2 DEF Composed
    <3>4. iv # wb \o NotMapped
      <4>1. PICK g : g = NotMapped
        OBVIOUS
      <4>2. g \in Seq(Units) /\ Len(g) = 1 /\ g[1] = "fault"
        BY <4>1 DEF NotMapped, Units
      <4>3. wb \in Seq(Units) /\ Len(wb) = 2
        BY <3>3 DEF Units
      <4>4. Len(wb \o g) = 3 /\ (wb \o g)[3] = "fault"
        <5>1. /\ Len(wb \o g) = Len(wb) + Len(g)
              /\ \A i \in 1..(Len(wb) + Len(g)) :
                   (wb \o g)[i] = IF i <= Len(wb) THEN wb[i] ELSE g[i - Len(wb)]
          BY <4>2, <4>3, ConcatProperties
        <5> QED
          BY <4>2, <4>3, <5>1
      <4> QED
        BY <4>1, <4>4
    <3>5. iv = wb \o File
      BY <2>4, <3>1, <3>2, <3>4 DEF AnswerInv
    <3> QED
      BY <1>1, <2>1, <2>4, <3>1, <3>3, <3>5 DEF Expected
  <2> QED
    BY <2>3, <2>4
<1> QED
  BY <1>2, <1>3

(* A response that is not sent over and over is recorded whole.            *)
LEMMA RecordedUnits ==
  ASSUME NEW s \in Seq(Units), MaxResponse \in Nat
  PROVE  /\ Recorded(s) \in Seq(Units)
         /\ Len(s) <= MaxResponse => Recorded(s) = s
<1>1. Len(s) \in Nat
  BY LenProperties
<1>2. PICK m : m = Min({Len(s), MaxResponse + 1})
  OBVIOUS
<1>3. m \in 0..Len(s) /\ (Len(s) <= MaxResponse => m = Len(s))
  <2>1. /\ m \in {Len(s), MaxResponse + 1}
        /\ m <= Len(s) /\ m <= MaxResponse + 1
    <3>1. Len(s) \in Int /\ MaxResponse + 1 \in Int
      BY <1>1
    <3> QED
      BY <1>2, <3>1, MinOfTwo
  <2> QED
    BY <1>1, <2>1
<1>4. Recorded(s) = SubSeq(s, 1, m)
  BY <1>2 DEF Recorded
<1>5. \A i \in 1..m : s[i] \in Units
  BY <1>1, <1>3, ElementOfSeq
<1>6. SubSeq(s, 1, m) \in Seq(Units)
  BY <1>1, <1>3, <1>5, SubSeqProperties
<1>7. SubSeq(s, 1, Len(s)) = s
  BY SubSeqFull
<1> QED
  BY <1>3, <1>4, <1>6, <1>7

(* writev() that is not cut takes the response once; cut or not, write()   *)
(* keeps the object or resets it.                                          *)
LEMMA WriteVKeeps == ConnInv /\ WriteV => ConnInv'
<1> SUFFICES ASSUME ConnInv, WriteV PROVE ConnInv'
  OBVIOUS
<1> DEFINE room == SendBufferSize - unsent
<1>1. /\ phase = "writing" /\ unsent < SendBufferSize /\ client # "rst" /\ ~Unmapped
      /\ UNCHANGED <<request, asked, script, inbox, iv, code>>
  BY DEF WriteV
<1>2. PICK n : /\ n = Min({Len(iv), room})
               /\ unsent' = unsent + n
               /\ emitted' = Recorded(emitted \o SubSeq(iv, 1, n))
               /\ cut' = (cut \/ n < Len(iv))
               /\ left' = IF n < left THEN left - n ELSE 0
  BY DEF WriteV
<1>3. /\ ConnTypeInv /\ AnswerInv /\ conn.write_buf # <<>>
      /\ left <= Len(conn.write_buf) /\ client # "idle"
  BY <1>1 DEF ConnInv, AtRest
<1>4. /\ Len(conn.write_buf) \in Nat /\ Len(iv) \in Nat /\ MaxResponse \in Nat
      /\ Len(conn.write_buf) <= Len(iv) /\ Len(iv) <= MaxResponse /\ 0 < Len(iv)
  BY <1>3, Offered
<1>5. left \in 0..WriteBufferSize /\ unsent \in 0..SendBufferSize
  BY <1>3 DEF ConnTypeInv, TypeOK
<1>6. SendBufferSize \in Nat /\ WriteBufferSize \in Nat
  BY HttpConnAssumption
<1>7. /\ n \in 0..Len(iv) /\ n <= room
      /\ iv[Len(iv)] # "fault"
  <2>1. iv[Len(iv)] # "fault"
    <3>1. iv # <<>>
      BY <1>4
    <3> QED
      BY <1>1, <3>1 DEF Unmapped
  <2>2. n \in {Len(iv), room} /\ n <= Len(iv) /\ n <= room
    <3>1. Len(iv) \in Int /\ room \in Int
      BY <1>4, <1>5, <1>6
    <3> QED
      BY <1>2, <3>1, MinOfTwo
  <2> QED
    BY <1>1, <1>4, <1>5, <1>6, <2>1, <2>2
<1>8. unsent' \in 0..SendBufferSize /\ left' \in 0..WriteBufferSize
  BY <1>2, <1>5, <1>6, <1>7
<1>9. SubSeq(iv, 1, n) \in Seq(Units) /\ (n = Len(iv) => SubSeq(iv, 1, n) = iv)
  <2>1. iv \in Seq(Units)
    BY <1>3 DEF ConnTypeInv
  <2>2. \A i \in 1..n : iv[i] \in Units
    BY <1>4, <1>7, <2>1, ElementOfSeq
  <2> QED
    BY <1>4, <1>7, <2>1, <2>2, SubSeqProperties, SubSeqFull
<1>10. emitted' \in Seq(Units)
  <2>1. emitted \o SubSeq(iv, 1, n) \in Seq(Units)
    BY <1>3, <1>9, ConcatProperties DEF ConnTypeInv
  <2> QED
    BY <1>2, <1>4, <2>1, RecordedUnits
<1>11. ~cut' => n = Len(iv) /\ emitted' = iv /\ iv[Len(iv)] # "fault"
  <2> SUFFICES ASSUME ~cut' PROVE n = Len(iv) /\ emitted' = iv /\ iv[Len(iv)] # "fault"
    OBVIOUS
  <2>1. ~cut /\ n = Len(iv)
    <3>1. ~cut /\ ~(n < Len(iv))
      BY <1>2
    <3> QED
      BY <1>4, <1>7, <3>1
  <2>2. emitted = <<>> /\ SubSeq(iv, 1, n) = iv /\ iv \in Seq(Units)
    BY <1>3, <1>9, <2>1 DEF AnswerInv, ConnTypeInv
  <2>3. emitted \o SubSeq(iv, 1, n) = iv
    BY <2>2, ConcatEmptySeq
  <2>4. Recorded(iv) = iv
    BY <1>4, <2>2, RecordedUnits
  <2> QED
    BY <1>2, <1>7, <2>1, <2>3, <2>4
<1>12. cut' \in BOOLEAN
  <2>1. (n < Len(iv)) \in BOOLEAN
    BY <1>4, <1>7
  <2>2. cut \in BOOLEAN
    BY <1>3 DEF ConnTypeInv, TypeOK
  <2> QED
    BY <1>2, <2>1, <2>2, Zenon
<1>13. Wire' = Wire
  BY <1>1 DEF Wire
<1>14. CASE left' > 0
  <2>1. UNCHANGED <<client, armed, rdhup, phase, conn, finished>>
    BY <1>14 DEF WriteV
  <2>2. cut' = TRUE
    <3>1. PICK w : w = Len(conn.write_buf)
      OBVIOUS
    <3>2. w \in Nat /\ left <= w /\ w <= Len(iv)
      BY <1>3, <1>4, <3>1
    <3>3. n < Len(iv)
      BY <1>2, <1>4, <1>5, <1>7, <1>14, <3>2
    <3> QED
      BY <1>2, <3>3
  <2>3. WireInv'
    BY <1>1, <1>13, <2>1 DEF ConnInv, WireInv, Read_idx, Arrived
  <2>4. ConnTypeInv'
    <3>1. TypeOK'
      BY <1>1, <1>3, <1>8, <2>1, <2>2 DEF ConnTypeInv, TypeOK
    <3> QED
      BY <1>1, <1>3, <1>10, <2>1, <3>1 DEF ConnTypeInv
  <2>5. AnswerInv'
    BY <1>1, <1>3, <2>1, <2>2 DEF AnswerInv, Verdict, Malformed, KeepAlive, HasBody,
                                   GoodForm, Composed, Page, DoRequest
  <2>6. InterestMatchesBuffer' /\ UncutResponseIntact'
    BY <2>1, <2>2 DEF ConnInv, InterestMatchesBuffer, UncutResponseIntact
  <2>7. left' <= Len(conn'.write_buf)
    BY <1>2, <1>3, <1>4, <1>5, <1>7, <2>1
  <2> QED
    BY <1>1, <1>3, <2>1, <2>3, <2>4, <2>5, <2>6, <2>7 DEF ConnInv
<1>15. CASE left' = 0
  <2>1. /\ finished' = TRUE
        /\ client' = IF client = "asking" THEN "idle" ELSE client
    BY <1>15 DEF WriteV
  <2>2. UncutResponseIntact'
    <3> SUFFICES ASSUME ~cut', request'.line[2] # "empty"
                 PROVE  emitted' = Expected(request)'
      BY DEF UncutResponseIntact
    <3>1. iv = Expected(request)
      BY <1>1, <1>3, <1>11, OfferedExpected
    <3>2. Expected(request)' = Expected(request)
      BY <1>1 DEF Expected, Verdict, Malformed, HasBody, GoodForm, DoRequest
    <3> QED
      BY <1>11, <3>1, <3>2
  <2>3. client' \in {"idle", "fin", "rst"}
    BY <1>3, <2>1 DEF ConnTypeInv, TypeOK
  <2>4. CASE conn.linger
    <3>1. conn' = Fresh /\ armed' = "in" /\ rdhup' = TRUE /\ phase' = "polling"
      BY <1>15, <2>4 DEF WriteV, Modfd, Reset
    <3>2. inbox' = <<>> /\ script' = <<>>
      BY <1>1, <1>3, <2>4 DEF AnswerInv
    <3>3. IsRequest(request)'
      BY <1>1, <1>3 DEF ConnTypeInv, IsRequest
    <3>4. WireInv' /\ ParseInv'
      BY <3>1, <3>2, <3>3, FreshParsesNext
    <3>5. TypeOK'
      <4>1. /\ conn'.check_state = "REQUESTLINE" /\ conn'.start_line = 0
            /\ conn'.checked_idx = 0
            /\ Len(conn'.read_buf) = 0 /\ Len(conn'.write_buf) = 0
        BY <3>1, FreshState
      <4>2. ReadBufferSize \in Nat /\ asked' \in 0..MaxRequests
        BY <1>1, <1>3, HttpConnAssumption DEF ConnTypeInv, TypeOK
      <4> QED
        BY <1>6, <1>8, <1>12, <2>1, <2>3, <3>1, <4>1, <4>2 DEF TypeOK
    <3>6. ConnTypeInv'
      BY <1>1, <1>3, <1>10, <3>1, <3>3, <3>5, FreshState DEF ConnTypeInv
    <3>7. InterestMatchesBuffer' /\ AtRest'
      BY <3>1, <3>2, FreshState DEF InterestMatchesBuffer, AtRest
    <3> QED
      BY <2>2, <3>1, <3>4, <3>6, <3>7, FreshState DEF ConnInv
  <2>5. CASE ~conn.linger
    <3>1. phase' = "closed" /\ armed' = "none" /\ rdhup' = TRUE /\ conn' = conn
      BY <1>15, <2>5 DEF WriteV, CloseConn
    <3>2. WireInv'
      BY <1>1, <1>13, <3>1 DEF ConnInv, WireInv, Read_idx, Arrived
    <3>3. TypeOK'
      BY <1>1, <1>3, <1>8, <1>12, <2>1, <2>3, <3>1 DEF ConnTypeInv, TypeOK
    <3>4. ConnTypeInv'
      BY <1>1, <1>3, <1>10, <3>1, <3>3 DEF ConnTypeInv
    <3>5. InterestMatchesBuffer'
      BY <3>1 DEF InterestMatchesBuffer
    <3> QED
      BY <2>2, <3>1, <3>2, <3>4, <3>5 DEF ConnInv
  <2> QED
    BY <2>4, <2>5
<1> QED
  BY <1>8, <1>14, <1>15

-----------------------------------------------------------------------------
(* The worker.                                                             *)

(* What is behind the parsed lines stays as it was sent.                   *)
LEMMA WireKept ==
  ASSUME ConnTypeInv, WireInv, UNCHANGED <<request, script, inbox>>,
         conn' \in ConnStates, Read_idx' = Read_idx, conn.start_line <= conn'.start_line,
         \A i \in (conn'.start_line + 1)..Read_idx : conn'.read_buf[i] = conn.read_buf[i]
  PROVE  WireInv'
<1>1. Wire' = Wire /\ Arrived' = Arrived
  BY DEF Wire, Arrived
<1>2. Read_idx \in Nat /\ conn.start_line \in Nat /\ conn'.start_line \in Nat
  BY LenProperties DEF ConnTypeInv, ConnStates, Read_idx
<1>3. \A i \in (conn'.start_line + 1)..Read_idx : conn'.read_buf[i] = Wire[i]
  <2> TAKE i \in (conn'.start_line + 1)..Read_idx
  <2>1. i \in (conn.start_line + 1)..Read_idx
    BY <1>2
  <2> QED
    BY <2>1 DEF WireInv
<1> QED
  BY <1>1, <1>3 DEF WireInv

(* The worker goes on, or waits for more.                                  *)
LEMMA ParsingOn ==
  ASSUME ConnInv, phase = "parsing",
         UNCHANGED <<request, client, asked, script, inbox, iv, unsent, emitted, cut, finished>>,
         conn' \in ConnStates, conn'.write_buf = <<>>, Read_idx' = Read_idx,
         conn.start_line <= conn'.start_line, conn'.start_line <= conn'.checked_idx,
         conn'.checked_idx <= Read_idx,
         \A i \in (conn'.start_line + 1)..Read_idx : conn'.read_buf[i] = conn.read_buf[i],
         ParseInv', left' \in {left, 1},
         \/ phase' = "parsing" /\ UNCHANGED <<armed, rdhup>>
         \/ phase' = "polling" /\ armed' = "in" /\ rdhup' = TRUE
  PROVE  ConnInv'
<1>1. ConnTypeInv /\ TypeOK /\ WireInv
  BY DEF ConnInv, ConnTypeInv
<1>2. WireInv'
  BY <1>1, WireKept
<1>3. ConnTypeInv'
  <2>1. left' \in 0..WriteBufferSize
    BY <1>1, HttpConnAssumption DEF TypeOK
  <2>2. Len(conn'.write_buf) = 0 /\ Len(conn'.read_buf) = Read_idx
    BY DEF Read_idx
  <2>3. /\ conn'.start_line \in 0..conn'.checked_idx
        /\ conn'.checked_idx \in 0..Len(conn'.read_buf)
    <3>1. /\ conn'.start_line \in Nat /\ conn'.checked_idx \in Nat /\ Read_idx \in Nat
      BY <1>1, LenProperties DEF ConnTypeInv, ConnStates, Read_idx
    <3>2. conn'.start_line \in 0..conn'.checked_idx /\ conn'.checked_idx \in 0..Read_idx
      BY <3>1
    <3> QED
      BY <2>2, <3>2
  <2>4. Len(conn'.read_buf) <= ReadBufferSize /\ Len(conn'.write_buf) <= WriteBufferSize
    <3>1. Read_idx <= ReadBufferSize
      BY <1>1 DEF TypeOK, Read_idx
    <3>2. 0 <= WriteBufferSize
      BY HttpConnAssumption
    <3> QED
      BY <2>2, <3>1, <3>2
  <2>5. conn'.check_state \in {"REQUESTLINE", "HEADER", "CONTENT"}
    BY DEF ConnStates
  <2>6. TypeOK'
    BY <1>1, <2>1, <2>3, <2>4, <2>5 DEF TypeOK
  <2> QED
    BY <1>1, <2>6 DEF ConnTypeInv
<1>4. InterestMatchesBuffer'
  BY DEF InterestMatchesBuffer
<1>5. UncutResponseIntact'
  BY DEF ConnInv, UncutResponseIntact, Expected, Verdict, Malformed, HasBody, GoodForm,
         DoRequest
<1>6. client' # "idle"
  BY DEF ConnInv, AtRest
<1> QED
  BY <1>2, <1>3, <1>4, <1>5, <1>6 DEF ConnInv

(* The worker answers as the request calls for, or has to close.           *)
LEMMA Answering ==
  ASSUME ConnInv, phase = "parsing", NEW ret, NEW c, Answer(ret, c),
         UNCHANGED <<request, client, asked, script, inbox, left>>,
         c \in ConnStates, c.write_buf = <<>>, Len(c.read_buf) = Read_idx,
         conn.start_line <= c.start_line, c.start_line <= c.checked_idx,
         c.checked_idx <= Read_idx,
         \A i \in (c.start_line + 1)..Read_idx : c.read_buf[i] = conn.read_buf[i],
         ret = Verdict(request), ret # "NO_REQUEST",
         ~Malformed(request) => c.url = request.line[2],
         c.linger = KeepAlive(request),
         c.linger => inbox = <<>> /\ script = <<>>
  PROVE  ConnInv'
<1>1. ConnTypeInv /\ TypeOK /\ WireInv /\ client # "idle"
  BY DEF ConnInv, ConnTypeInv, AtRest
<1>2. PICK out : out = Composed(ret, c.url)
  OBVIOUS
<1>3. out \in Seq(Units) /\ out # <<>> /\ c.write_buf \o Composed(ret, c.url) = out
  BY <1>2, ResponseShape, ConcatEmptySeq
<1> DEFINE body == IF ret = "FILE_REQUEST" /\ c.url = "file" THEN {File, NotMapped}
                 ELSE {<<>>}
<1>5. /\ code' = ret /\ emitted' = <<>> /\ cut' = FALSE /\ finished' = FALSE
      /\ unsent' = unsent
  BY DEF Answer
<1>6. /\ conn' \in ConnStates /\ conn'.start_line = c.start_line
      /\ conn'.checked_idx = c.checked_idx /\ conn'.read_buf = c.read_buf
      /\ conn'.url = c.url /\ conn'.linger = c.linger
      /\ \/ /\ conn'.write_buf = out /\ Len(out) <= WriteBufferSize
            /\ \E b \in body : iv' = out \o b
            /\ armed' = "out" /\ rdhup' = TRUE /\ phase' = "polling"
         \/ /\ conn'.write_buf = <<>> /\ phase' = "closed" /\ armed' = "none"
            /\ UNCHANGED <<iv, rdhup>>
  <2>1. CASE Len(out) <= WriteBufferSize
    <3>1. /\ conn' = [c EXCEPT !.write_buf = out]
          /\ \E b \in body : iv' = out \o b
          /\ armed' = "out" /\ rdhup' = TRUE /\ phase' = "polling"
      BY <1>3, <2>1 DEF Answer, Modfd
    <3>2. /\ conn' \in ConnStates /\ conn'.start_line = c.start_line
          /\ conn'.checked_idx = c.checked_idx /\ conn'.read_buf = c.read_buf
          /\ conn'.url = c.url /\ conn'.linger = c.linger /\ conn'.write_buf = out
      BY <1>3, <3>1 DEF ConnStates
    <3> QED
      BY <2>1, <3>1, <3>2
  <2>2. CASE ~(Len(out) <= WriteBufferSize)
    BY <1>3, <2>2 DEF Answer, CloseConn
  <2> QED
    BY <2>1, <2>2
<1>7. Read_idx' = Read_idx
  BY <1>6 DEF Read_idx
<1>8. WireInv'
  BY <1>1, <1>6, <1>7, WireKept
<1>9. phase' = "polling" =>
        /\ conn'.write_buf = Composed(ret, c.url) /\ conn'.write_buf # <<>>
        /\ IF ret = "FILE_REQUEST" /\ c.url = "file"
             THEN iv' \in {conn'.write_buf \o File, conn'.write_buf \o NotMapped}
             ELSE iv' = conn'.write_buf
  <2> SUFFICES ASSUME phase' = "polling"
      PROVE /\ conn'.write_buf = out
            /\ IF ret = "FILE_REQUEST" /\ c.url = "file"
                 THEN iv' \in {out \o File, out \o NotMapped}
                 ELSE iv' = out
    BY <1>2, <1>3
  <2>1. conn'.write_buf = out /\ \E b \in body : iv' = out \o b
    BY <1>6
  <2>2. out \o <<>> = out
    BY <1>3, ConcatEmptySeq
  <2> QED
    BY <2>1, <2>2
<1>10. iv' \in Seq(Units)
  <2>1. CASE phase' = "closed"
    BY <1>1, <1>6, <2>1 DEF ConnTypeInv
  <2>2. CASE phase' = "polling"
    <3>1. File \in Seq(Units) /\ NotMapped \in Seq(Units)
      BY DEF File, NotMapped, Units
    <3>2. \A b \in {File, NotMapped} : out \o b \in Seq(Units)
      BY <1>3, <3>1, ConcatProperties
    <3> QED
      BY <1>2, <1>3, <1>9, <2>2, <3>2
  <2> QED
    BY <1>6, <2>1, <2>2
<1>11. ConnTypeInv'
  <2>1. Len(conn'.read_buf) = Read_idx /\ Read_idx <= ReadBufferSize
    BY <1>1, <1>6 DEF TypeOK, Read_idx
  <2>2. /\ conn'.start_line \in 0..conn'.checked_idx
        /\ conn'.checked_idx \in 0..Read_idx
    <3>1. c.start_line \in Nat /\ c.checked_idx \in Nat /\ Read_idx \in Nat
      BY <1>1, LenProperties DEF ConnTypeInv, ConnStates, Read_idx
    <3>2. c.start_line \in 0..c.checked_idx /\ c.checked_idx \in 0..Read_idx
      BY <3>1
    <3> QED
      BY <1>6, <3>2
  <2>3. Len(conn'.write_buf) <= WriteBufferSize
    <3>1. 0 <= WriteBufferSize /\ Len(<<>>) = 0
      BY HttpConnAssumption
    <3> QED
      BY <1>6, <3>1
  <2>4. conn'.check_state \in {"REQUESTLINE", "HEADER", "CONTENT"}
    BY <1>6 DEF ConnStates
  <2>5. TypeOK'
    BY <1>1, <1>5, <1>6, <2>1, <2>2, <2>3, <2>4 DEF TypeOK
  <2>6. emitted' \in Seq(Units)
    BY <1>5
  <2> QED
    BY <1>1, <1>6, <1>10, <2>5, <2>6 DEF ConnTypeInv
<1>12. phase' = "polling" => AnswerInv'
  <2>1. Verdict(request)' = Verdict(request) /\ KeepAlive(request)' = KeepAlive(request)
        /\ Malformed(request)' = Malformed(request) /\ request' = request
        /\ inbox' = inbox /\ script' = script
    BY DEF Verdict, KeepAlive, Malformed, HasBody, GoodForm, DoRequest
  <2>2. Composed(code, conn.url)' = Composed(ret, c.url)
    BY <1>5, <1>6 DEF Composed, Page
  <2> QED
    BY <1>5, <1>6, <1>9, <2>1, <2>2 DEF AnswerInv
<1>13. InterestMatchesBuffer' /\ UncutResponseIntact'
  BY <1>5, <1>6, <1>9 DEF InterestMatchesBuffer, UncutResponseIntact
<1> QED
  BY <1>1, <1>6, <1>8, <1>9, <1>11, <1>12, <1>13 DEF ConnInv

(* A worker takes the object as the main thread left it.                   *)
LEMMA ProcessBeginKeeps == ConnInv /\ ProcessBegin => ConnInv'
<1> SUFFICES ASSUME ConnInv, ProcessBegin PROVE ConnInv'
  OBVIOUS
<1>1. /\ phase = "queued" /\ phase' = "parsing" /\ left' = 0
      /\ UNCHANGED <<request, client, asked, script, inbox, armed, rdhup, conn, code, iv,
                     unsent, emitted, cut, finished>>
  BY DEF ProcessBegin, clientVars, outVars
<1>2. conn.write_buf = <<>> /\ client # "idle" /\ ParseInv
  BY <1>1 DEF ConnInv, InterestMatchesBuffer, AtRest
<1>3. Wire' = Wire /\ Read_idx' = Read_idx /\ Arrived' = Arrived
  BY <1>1 DEF Wire, Read_idx, Arrived
<1>4. WireInv'
  BY <1>1, <1>3 DEF ConnInv, WireInv
<1>5. ConnTypeInv'
  <2>1. left' \in 0..WriteBufferSize
    BY <1>1, HttpConnAssumption
  <2>2. TypeOK'
    BY <1>1, <2>1 DEF ConnInv, ConnTypeInv, TypeOK
  <2> QED
    BY <1>1, <2>2 DEF ConnInv, ConnTypeInv
<1>6. ParseInv'
  BY <1>1, <1>2, NothingParsed
<1>7. InterestMatchesBuffer' /\ UncutResponseIntact'
  BY <1>1, <1>2 DEF ConnInv, InterestMatchesBuffer, UncutResponseIntact, Expected, Verdict,
              Malformed, HasBody, GoodForm, DoRequest
<1> QED
  BY <1>1, <1>2, <1>4, <1>5, <1>6, <1>7 DEF ConnInv

(* No further line: m_checked_idx stays within the line, or in the body.   *)
LEMMA NeedMoreKeeps == ConnInv /\ NeedMore => ConnInv'
<1> SUFFICES ASSUME ConnInv, NeedMore PROVE ConnInv'
  OBVIOUS
<1>1. /\ phase = "parsing" /\ ParseLine.status # "OK"
      /\ conn' = [conn EXCEPT !.checked_idx = ParseLine.at]
      /\ armed' = "in" /\ rdhup' = TRUE /\ phase' = "polling" /\ left' = left
      /\ UNCHANGED <<request, client, asked, script, inbox, iv, unsent, emitted, cut, finished>>
  BY DEF NeedMore, Modfd, clientVars, outVars
<1>2. ConnTypeInv /\ WireInv /\ ParseInv /\ conn.write_buf = <<>> /\ conn \in ConnStates
  BY <1>1 DEF ConnInv, ConnTypeInv, InterestMatchesBuffer
<1>3. Headers \in Nat /\ BodyLen \in Nat
  BY <1>2, Text DEF ConnTypeInv
<1>4. Read_idx \in Nat /\ conn.start_line \in Nat /\ conn.start_line <= conn.checked_idx
      /\ conn.checked_idx <= Read_idx /\ conn.checked_idx \in Nat
  BY <1>2, LenProperties DEF ConnTypeInv, ConnStates, TypeOK, Read_idx
<1>5. PICK at : at = ParseLine.at
  OBVIOUS
<1>6. /\ at \in Nat /\ conn.start_line <= at /\ at <= Read_idx
      /\ conn.check_state \in {"REQUESTLINE", "HEADER"} =>
           \A k \in 0..(Headers + 1) : AtLine(k) =>
             at \in {3 * k, 3 * k + 1} /\ (k = Headers + 1 => at = 3 * k)
  <2>1. ASSUME request.eol = Crlf, NEW k \in 0..(Headers + 1), AtLine(k)
        PROVE  /\ at \in Nat /\ conn.start_line <= at /\ at <= Read_idx
               /\ at \in {3 * k, 3 * k + 1} /\ (k = Headers + 1 => at = 3 * k)
    <3>1. CASE k \in 0..Headers
      <4>1. at \in {3 * k, 3 * k + 1} /\ at <= Read_idx
        BY <1>1, <1>2, <1>5, <2>1, <3>1, LineFound
      <4> QED
        BY <1>3, <2>1, <3>1, <4>1 DEF AtLine
    <3>2. CASE k = Headers + 1
      <4>1. at = 3 * k /\ at <= Read_idx
        BY <1>1, <1>2, <1>5, <2>1, <3>2, BlankFound
      <4> QED
        BY <1>3, <2>1, <3>2, <4>1 DEF AtLine
    <3> QED
      BY <1>3, <3>1, <3>2
  <2>2. \A j, k \in 0..(Headers + 1) : AtLine(j) /\ AtLine(k) => j = k
    BY <1>3 DEF AtLine
  <2>3. CASE conn.check_state = "REQUESTLINE"
    <3>1. AtLine(0)
      BY <1>2, <2>3 DEF ParseInv
    <3>2. at \in {0, 1} /\ at <= Read_idx
      <4>1. CASE request.eol = Crlf
        BY <1>3, <2>1, <3>1, <4>1
      <4>2. CASE request.eol # Crlf
        BY <1>1, <1>2, <1>5, <3>1, <4>2, BareFound
      <4> QED
        BY <4>1, <4>2
    <3>3. conn.start_line <= at
      BY <3>1, <3>2 DEF AtLine
    <3>4. \A k \in 0..(Headers + 1) : AtLine(k) => k = 0
      BY <1>3, <2>2, <3>1
    <3> QED
      BY <1>3, <3>2, <3>3, <3>4
  <2>4. CASE conn.check_state = "HEADER"
    <3>1. PICK k \in 1..(Headers + 1) : AtLine(k) /\ Knows(k)
      BY <1>2, <2>4 DEF ParseInv
    <3>2. k \in 0..(Headers + 1) /\ request.eol = Crlf
      BY <1>3, <3>1 DEF Knows
    <3>3. \A j \in 0..(Headers + 1) : AtLine(j) => j = k
      BY <2>2, <3>1, <3>2
    <3>4. /\ at \in Nat /\ conn.start_line <= at /\ at <= Read_idx
          /\ at \in {3 * k, 3 * k + 1} /\ (k = Headers + 1 => at = 3 * k)
      BY <2>1, <3>1, <3>2
    <3> QED
      BY <3>3, <3>4
  <2>5. CASE conn.check_state = "CONTENT"
    <3>1. request.eol = Crlf /\ BodyAt <= conn.start_line
      BY <1>2, <2>5 DEF ParseInv, Knows
    <3>2. at = Read_idx
      BY <1>2, <1>5, <3>1, BodyFound
    <3> QED
      BY <1>4, <2>5, <3>2
  <2> QED
    BY <1>2, <2>3, <2>4, <2>5 DEF ConnStates
<1>7. /\ conn' \in ConnStates /\ conn'.checked_idx = at
      /\ conn'.start_line = conn.start_line /\ conn'.read_buf = conn.read_buf
      /\ conn'.write_buf = <<>> /\ conn'.check_state = conn.check_state
      /\ conn'.linger = conn.linger /\ conn'.method = conn.method /\ conn'.url = conn.url
      /\ conn'.content_length = conn.content_length
  BY <1>1, <1>2, <1>5, <1>6 DEF ConnStates
<1>8. Read_idx' = Read_idx
  BY <1>7 DEF Read_idx
<1>9. ParseInv'
  <2>1. /\ Headers' = Headers /\ BodyLen' = BodyLen /\ BodyAt' = BodyAt
        /\ \A k : Knows(k) => Knows(k)'
    BY <1>1, <1>7 DEF Headers, BodyLen, BodyAt, Knows, Seen, Malformed
  <2>2. conn.check_state \in {"REQUESTLINE", "HEADER"} =>
          \A k \in 0..(Headers + 1) : AtLine(k) => AtLine(k)'
    BY <1>3, <1>6, <1>7, <2>1 DEF AtLine
  <2>3. CASE conn.check_state = "REQUESTLINE"
    <3>1. AtLine(0)'
      BY <1>2, <1>3, <2>2, <2>3 DEF ParseInv
    <3> QED
      BY <1>2, <1>7, <2>3, <3>1 DEF ParseInv
  <2>4. CASE conn.check_state = "HEADER"
    <3>1. PICK k \in 1..(Headers + 1) : AtLine(k) /\ Knows(k)
      BY <1>2, <2>4 DEF ParseInv
    <3>2. AtLine(k)' /\ Knows(k)' /\ k \in 1..(Headers' + 1)
      BY <1>3, <2>1, <2>2, <2>4, <3>1
    <3> QED
      BY <1>7, <2>4, <3>2 DEF ParseInv
  <2>5. CASE conn.check_state = "CONTENT"
    <3>1. Knows(Headers + 1)'
      BY <1>2, <2>1, <2>5 DEF ParseInv
    <3>2. Knows(Headers + 1)' /\ conn'.content_length > 0 /\ BodyAt' <= conn'.start_line
      BY <1>2, <1>7, <2>1, <2>5, <3>1 DEF ParseInv
    <3> QED
      BY <1>7, <2>5, <3>2 DEF ParseInv
  <2> QED
    BY <1>2, <2>3, <2>4, <2>5 DEF ConnStates
<1>10. /\ conn.start_line <= conn'.start_line /\ conn'.start_line <= conn'.checked_idx
       /\ conn'.checked_idx <= Read_idx
  BY <1>4, <1>6, <1>7
<1> QED
  BY <1>1, <1>7, <1>8, <1>9, <1>10, ParsingOn

(* What the lines say is said of the same request.                         *)
LEMMA SameRequest ==
  ASSUME UNCHANGED request
  PROVE  /\ Wire' = Wire /\ Headers' = Headers /\ BodyLen' = BodyLen /\ BodyAt' = BodyAt
         /\ Malformed(request)' = Malformed(request) /\ request' = request
         /\ \A name, k : Seen(name, k)' = Seen(name, k)
BY DEF Wire, Headers, BodyLen, BodyAt, Malformed, Seen

(* The request line tells method and path, or that the request is          *)
(* malformed.                                                              *)
LEMMA ParseRequestLineKeeps == ConnInv /\ ParseRequestLine => ConnInv'
<1> SUFFICES ASSUME ConnInv, ParseRequestLine PROVE ConnInv'
  OBVIOUS
<1>1. /\ phase = "parsing" /\ conn.check_state = "REQUESTLINE" /\ ParseLine.status = "OK"
      /\ UNCHANGED <<request, client, asked, script, inbox, left>>
  BY DEF ParseRequestLine, clientVars
<1>2. ConnTypeInv /\ WireInv /\ ParseInv /\ conn.write_buf = <<>> /\ conn \in ConnStates
  BY <1>1 DEF ConnInv, ConnTypeInv, InterestMatchesBuffer
<1>3. AtLine(0) /\ conn.linger = FALSE /\ conn.content_length = 0
  BY <1>1, <1>2 DEF ParseInv, ConnStates
<1>4. request.eol = Crlf
  BY <1>1, <1>2, <1>3, BareFound
<1>5. Headers \in Nat /\ BodyLen \in Nat
  BY <1>2, Text DEF ConnTypeInv
<1>6. /\ ParseLine.at = 3 /\ ParseLine.mark = 2 /\ 3 <= Read_idx
      /\ LineText = <<LineToken(request, 0)>>
  BY <1>1, <1>2, <1>3, <1>4, <1>5, LineFound
<1>7. LineToken(request, 0) = request.line /\ request.line \in Lines
  BY <1>2 DEF LineToken, ConnTypeInv, IsRequest
<1>8. PICK c : c = PastLine
  OBVIOUS
<1>9. /\ c \in ConnStates /\ c.start_line = 3 /\ c.checked_idx = 3
      /\ Len(c.read_buf) = Read_idx
      /\ \A i \in (3 + 1)..Read_idx : c.read_buf[i] = conn.read_buf[i]
      /\ c.linger = FALSE /\ c.content_length = 0 /\ c.write_buf = <<>>
  <2>1. 3 = 2 + 1 /\ 3 + 1 = 2 + 2 /\ 2 >= 1 /\ 2 \in Nat
    OBVIOUS
  <2> QED
    BY <1>2, <1>3, <1>6, <1>8, <2>1, LinePassed
<1>10. conn.start_line = 0 /\ conn.start_line <= 3
  BY <1>3 DEF AtLine
<1>11. CASE Malformed(request)
  <2>1. Answer("BAD_REQUEST", c)
    BY <1>6, <1>7, <1>8, <1>11 DEF ParseRequestLine, Malformed
  <2>2. Verdict(request) = "BAD_REQUEST" /\ KeepAlive(request) = FALSE
    <3>1. <<CR, LF>> # <<LF>>
      OBVIOUS
    <3> QED
      BY <1>4, <1>11, <3>1 DEF Verdict, KeepAlive, Crlf
  <2>3. /\ conn.start_line <= c.start_line /\ c.start_line <= c.checked_idx
        /\ c.checked_idx <= Read_idx
        /\ \A i \in (c.start_line + 1)..Read_idx : c.read_buf[i] = conn.read_buf[i]
    BY <1>6, <1>9, <1>10
  <2> QED
    BY <1>1, <1>9, <1>11, <2>1, <2>2, <2>3, Answering
<1>12. CASE ~Malformed(request)
  <2>1. request.line \in {"GET", "POST"} \X Paths
    BY <1>12 DEF Malformed
  <2>2. /\ conn' = [c EXCEPT !.check_state = "HEADER", !.method = request.line[1],
                             !.url = request.line[2]]
        /\ UNCHANGED <<armed, rdhup, phase, iv, unsent, emitted, cut, finished>>
    <3>1. LineText # <<>> /\ LineText[1] = request.line
      BY <1>6, <1>7
    <3> QED
      BY <1>8, <2>1, <3>1 DEF ParseRequestLine, outVars
  <2>3. request.line[1] \in {"GET", "POST"} /\ request.line[2] \in Paths
    BY <2>1
  <2>4. /\ conn' \in ConnStates /\ conn'.check_state = "HEADER"
        /\ conn'.method = request.line[1] /\ conn'.url = request.line[2]
        /\ conn'.start_line = 3 /\ conn'.checked_idx = 3
        /\ conn'.read_buf = c.read_buf /\ conn'.linger = FALSE
        /\ conn'.content_length = 0 /\ conn'.write_buf = <<>>
    BY <1>9, <2>2, <2>3 DEF ConnStates
  <2>5. Read_idx' = Read_idx
    BY <1>9, <2>4 DEF Read_idx
  <2>6. AtLine(1)' /\ 1 \in 1..(Headers' + 1)
    BY <1>1, <1>5, <2>4, SameRequest DEF AtLine
  <2>7. Knows(1)'
    <3>1. Seen("keep", 1)' = FALSE /\ Seen("length", 1)' = FALSE
      BY DEF Seen
    <3> QED
      BY <1>1, <1>4, <1>12, <2>4, <3>1, SameRequest DEF Knows
  <2>8. ParseInv'
    BY <2>4, <2>6, <2>7 DEF ParseInv
  <2> QED
    BY <1>1, <1>6, <1>9, <1>10, <2>2, <2>4, <2>5, <2>8, ParsingOn
<1> QED
  BY <1>11, <1>12

(* Once the head is read and no body is expected, everything is read.      *)
LEMMA AllRead ==
  ASSUME ConnTypeInv, WireInv, request.eol = Crlf, BodyAt + BodyLen <= Read_idx
  PROVE  inbox = <<>> /\ script = <<>>
<1>1. Len(Wire) = BodyAt + BodyLen /\ Len(Wire) \in Nat
  BY Text DEF ConnTypeInv
<1>2. /\ Read_idx \in Nat /\ Len(inbox) \in Nat /\ Len(script) \in Nat
      /\ inbox \in Seq(Tokens) /\ script \in Seq(Tokens)
  BY LenProperties DEF ConnTypeInv, ConnStates, Read_idx
<1>3. Len(inbox) = 0
  BY <1>1, <1>2 DEF WireInv, Arrived
<1>4. script # <<>> => Len(script) = 0
  BY <1>1, <1>2 DEF WireInv, Arrived
<1> QED
  BY <1>2, <1>3, <1>4, EmptySeq

(* A header line adds what it says.                                        *)
LEMMA HeaderKeeps ==
  ASSUME ConnInv, ParseHeaders, NEW k \in 1..Headers, AtLine(k), Knows(k)
  PROVE  ConnInv'
<1>1. /\ phase = "parsing" /\ conn.check_state = "HEADER" /\ ParseLine.status = "OK"
      /\ UNCHANGED <<request, client, asked, script, inbox, left>>
  BY DEF ParseHeaders, clientVars
<1>2. ConnTypeInv /\ WireInv /\ conn.write_buf = <<>> /\ conn \in ConnStates
  BY <1>1 DEF ConnInv, ConnTypeInv, InterestMatchesBuffer
<1>3. request.eol = Crlf /\ ~Malformed(request)
  BY DEF Knows
<1>4. Headers \in Nat /\ BodyLen \in Nat
  BY <1>2, Text DEF ConnTypeInv
<1>5. /\ ParseLine.at = 3 * k + 3 /\ ParseLine.mark = 3 * k + 2 /\ 3 * k + 3 <= Read_idx
      /\ LineText = <<LineToken(request, k)>>
  <2>1. k \in 0..Headers
    BY <1>4
  <2> QED
    BY <1>1, <1>2, <1>3, <2>1, LineFound
<1>6. PICK name : name = request.headers[k]
  OBVIOUS
<1>7. name \in {"keep", "length", "host"}
  <2>1. request.headers \in Seq({"keep", "length", "host"})
    BY <1>2 DEF ConnTypeInv, IsRequest
  <2> QED
    BY <1>6, <2>1, ElementOfSeq DEF Headers
<1>8. LineToken(request, k) = IF name = "length" THEN <<"length", BodyLen>> ELSE <<name>>
  <2>1. k # 0
    BY <1>4
  <2> QED
    BY <1>6, <2>1 DEF LineToken, BodyLen
<1>9. PICK c : c = PastLine
  OBVIOUS
<1>10. PICK m \in Nat : m = 3 * k + 2 /\ m >= 1 /\ m + 1 = 3 * k + 3
  BY <1>4
<1>11. /\ c \in ConnStates /\ c.start_line = m + 1 /\ c.checked_idx = m + 1
       /\ Len(c.read_buf) = Read_idx
       /\ \A i \in (m + 2)..Read_idx : c.read_buf[i] = conn.read_buf[i]
       /\ c.check_state = "HEADER" /\ c.linger = conn.linger
       /\ c.method = conn.method /\ c.url = conn.url
       /\ c.content_length = conn.content_length /\ c.write_buf = <<>>
  BY <1>1, <1>2, <1>5, <1>9, <1>10, LinePassed
<1>12. /\ conn' = IF name = "keep" THEN [c EXCEPT !.linger = TRUE]
                  ELSE IF name = "length" THEN [c EXCEPT !.content_length = BodyLen]
                  ELSE c
       /\ UNCHANGED <<armed, rdhup, phase, iv, unsent, emitted, cut, finished>>
  <2>1. LineText # <<>> /\ LineText[1] = LineToken(request, k)
    BY <1>5
  <2>2. /\ conn' = IF LineText[1] = <<"keep">> THEN [c EXCEPT !.linger = TRUE]
                   ELSE IF LineText[1][1] = "length"
                     THEN [c EXCEPT !.content_length = LineText[1][2]]
                   ELSE c
        /\ UNCHANGED <<armed, rdhup, phase, iv, unsent, emitted, cut, finished>>
    BY <1>9, <2>1 DEF ParseHeaders, outVars
  <2>3. CASE name = "length"
    <3>1. LineText[1] = <<"length", BodyLen>>
      BY <1>8, <2>1, <2>3
    <3>2. LineText[1][1] = "length" /\ LineText[1][2] = BodyLen /\ LineText[1] # <<"keep">>
      BY <3>1
    <3> QED
      BY <2>2, <2>3, <3>2
  <2>4. CASE name # "length"
    <3>1. LineText[1] = <<name>>
      BY <1>8, <2>1, <2>4
    <3>2. LineText[1][1] = name /\ (LineText[1] = <<"keep">> <=> name = "keep")
      BY <3>1
    <3> QED
      BY <2>2, <2>4, <3>2
  <2> QED
    BY <2>3, <2>4
<1>13. /\ conn' \in ConnStates
       /\ conn'.linger = (conn.linger \/ name = "keep")
       /\ conn'.content_length = IF name = "length" THEN BodyLen ELSE conn.content_length
       /\ conn'.check_state = "HEADER" /\ conn'.method = conn.method /\ conn'.url = conn.url
       /\ conn'.start_line = m + 1 /\ conn'.checked_idx = m + 1
       /\ conn'.read_buf = c.read_buf /\ conn'.write_buf = <<>>
  <2>1. CASE name = "keep"
    BY <1>11, <1>12, <2>1 DEF ConnStates
  <2>2. CASE name = "length"
    BY <1>2, <1>4, <1>11, <1>12, <2>2 DEF ConnStates
  <2>3. CASE name = "host"
    BY <1>2, <1>11, <1>12, <2>3 DEF ConnStates
  <2> QED
    BY <1>7, <2>1, <2>2, <2>3
<1>14. Read_idx' = Read_idx
  BY <1>11, <1>13 DEF Read_idx
<1>15. AtLine(k + 1)' /\ k + 1 \in 1..(Headers' + 1)
  <2>1. m + 1 = 3 * (k + 1) /\ k + 1 \in 1..(Headers + 1)
    BY <1>4, <1>10
  <2> QED
    BY <1>1, <1>13, <2>1, SameRequest DEF AtLine
<1>16. Knows(k + 1)'
  <2>1. \A n : Seen(n, k + 1) = (Seen(n, k) \/ name = n)
    <3> TAKE n
    <3>1. 1..(k + 1 - 1) = (1..(k - 1)) \cup {k}
      BY <1>4
    <3>2. Seen(n, k + 1) <=> \E i \in (1..(k - 1)) \cup {k} : request.headers[i] = n
      BY <3>1 DEF Seen
    <3>3. Seen(n, k) <=> \E i \in 1..(k - 1) : request.headers[i] = n
      BY DEF Seen
    <3>4. Seen(n, k + 1) <=> Seen(n, k) \/ name = n
      BY <1>6, <3>2, <3>3
    <3>5. Seen(n, k + 1) \in BOOLEAN
      BY DEF Seen
    <3> QED
      BY <3>4, <3>5, Zenon
  <2>2. conn'.linger = Seen("keep", k + 1)
    BY <1>13, <2>1 DEF Knows
  <2>3. conn'.content_length = IF Seen("length", k + 1) THEN BodyLen ELSE 0
    BY <1>13, <2>1 DEF Knows
  <2> QED
    BY <1>1, <1>13, <2>2, <2>3, SameRequest DEF Knows
<1>17. ParseInv'
  BY <1>13, <1>15, <1>16 DEF ParseInv
<1>18. conn.start_line <= m + 1 /\ m + 1 <= Read_idx /\ m + 1 + 1 = m + 2 /\ m + 1 <= m + 1
  <2>1. conn.start_line = 3 * k
    BY DEF AtLine
  <2> QED
    BY <1>4, <1>5, <1>10, <2>1
<1> QED
  BY <1>1, <1>11, <1>12, <1>13, <1>14, <1>17, <1>18, ParsingOn

(* What stat() says is an answer.                                          *)
LEMMA DoRequestAnswers == \A url : DoRequest(url) # "NO_REQUEST"
BY DEF DoRequest

(* The blank line ends the request, or its body follows.                   *)
LEMMA BlankKeeps ==
  ASSUME ConnInv, ParseHeaders, NEW k, k = Headers + 1, AtLine(k), Knows(k)
  PROVE  ConnInv'
<1>1. /\ phase = "parsing" /\ conn.check_state = "HEADER" /\ ParseLine.status = "OK"
      /\ UNCHANGED <<request, client, asked, script, inbox, left>>
  BY DEF ParseHeaders, clientVars
<1>2. ConnTypeInv /\ WireInv /\ conn.write_buf = <<>> /\ conn \in ConnStates
      /\ IsRequest(request)
  BY <1>1 DEF ConnInv, ConnTypeInv, InterestMatchesBuffer
<1>3. request.eol = Crlf /\ ~Malformed(request)
  BY DEF Knows
<1>4. Headers \in Nat /\ BodyLen \in Nat
  BY <1>2, Text
<1>5. /\ ParseLine.at = 3 * k + 2 /\ ParseLine.mark = 3 * k + 1 /\ 3 * k + 2 <= Read_idx
      /\ LineText = <<>>
  BY <1>1, <1>2, <1>3, BlankFound
<1>6. PICK c : c = PastLine
  OBVIOUS
<1>7. PICK m \in Nat : m = 3 * k + 1 /\ m >= 1 /\ m + 1 = 3 * k + 2 /\ m + 1 = BodyAt
  BY <1>4 DEF BodyAt
<1>8. /\ c \in ConnStates /\ c.start_line = m + 1 /\ c.checked_idx = m + 1
      /\ Len(c.read_buf) = Read_idx
      /\ \A i \in (m + 2)..Read_idx : c.read_buf[i] = conn.read_buf[i]
      /\ c.check_state = "HEADER" /\ c.linger = conn.linger
      /\ c.method = conn.method /\ c.url = conn.url
      /\ c.content_length = conn.content_length /\ c.write_buf = <<>>
  BY <1>1, <1>2, <1>5, <1>6, <1>7, LinePassed
<1>9. conn.start_line <= m + 1 /\ m + 1 <= Read_idx /\ m + 1 + 1 = m + 2 /\ m + 1 <= m + 1
  <2>1. conn.start_line = 3 * k
    BY DEF AtLine
  <2> QED
    BY <1>4, <1>5, <1>7, <2>1
<1>10. \A name : Seen(name, k) <=> \E i \in 1..Headers : request.headers[i] = name
  <2>1. k - 1 = Headers
    BY <1>4
  <2> QED
    BY <2>1 DEF Seen
<1>11. CASE conn.content_length = 0
  <2>1. Answer(DoRequest(conn.url), c)
    BY <1>5, <1>6, <1>11 DEF ParseHeaders
  <2>2. BodyLen = 0 /\ request.body = <<>>
    <3>1. Seen("length", k) => BodyLen = 0
      BY <1>11 DEF Knows
    <3>2. PICK body : body = request.body
      OBVIOUS
    <3>3. body \in Seq({"name=admin", "name=other", "pwd=admin", "pwd=other"})
      BY <1>2, <3>2 DEF IsRequest
    <3>4. BodyLen = Len(body)
      BY <3>2 DEF BodyLen
    <3>5. body = <<>> <=> Len(body) = 0
      BY <3>3, EmptySeq
    <3>6. body # <<>> => Seen("length", k)
      BY <1>2, <1>10, <3>2 DEF IsRequest, Headers
    <3> QED
      BY <3>1, <3>2, <3>4, <3>5, <3>6
  <2>3. inbox = <<>> /\ script = <<>>
    <3>1. BodyAt + BodyLen <= Read_idx
      BY <1>4, <1>5, <1>7, <2>2
    <3> QED
      BY <1>2, <1>3, <3>1, AllRead
  <2>4. DoRequest(conn.url) = Verdict(request)
    <3>1. ~HasBody(request) /\ request.eol # <<LF>> /\ conn.url = request.line[2]
      BY <1>3, <2>2 DEF HasBody, Crlf, Knows
    <3> QED
      BY <1>3, <3>1 DEF Verdict
  <2>5. c.linger = KeepAlive(request)
    <3>1. conn.linger = Seen("keep", k)
      BY DEF Knows
    <3>2. Seen("keep", k) \in BOOLEAN /\ KeepAlive(request) \in BOOLEAN
      BY DEF Seen, KeepAlive
    <3>3. Seen("keep", k) <=> KeepAlive(request)
      BY <1>3, <1>10 DEF KeepAlive, Headers
    <3> QED
      BY <1>8, <3>1, <3>2, <3>3, Zenon
  <2>6. c.url = request.line[2]
    BY <1>8 DEF Knows
  <2>7. /\ conn.start_line <= c.start_line /\ c.start_line <= c.checked_idx
        /\ c.checked_idx <= Read_idx
        /\ \A i \in (c.start_line + 1)..Read_idx : c.read_buf[i] = conn.read_buf[i]
    BY <1>8, <1>9
  <2>8. DoRequest(conn.url) # "NO_REQUEST"
    BY DoRequestAnswers
  <2> QED
    BY <1>1, <1>8, <2>1, <2>3, <2>4, <2>5, <2>6, <2>7, <2>8, Answering
<1>12. CASE conn.content_length # 0
  <2>1. /\ conn' = [c EXCEPT !.check_state = "CONTENT"]
        /\ UNCHANGED <<armed, rdhup, phase, iv, unsent, emitted, cut, finished>>
    BY <1>5, <1>6, <1>12 DEF ParseHeaders, outVars
  <2>2. /\ conn' \in ConnStates /\ conn'.check_state = "CONTENT"
        /\ conn'.linger = conn.linger /\ conn'.method = conn.method /\ conn'.url = conn.url
        /\ conn'.content_length = conn.content_length
        /\ conn'.start_line = m + 1 /\ conn'.checked_idx = m + 1
        /\ conn'.read_buf = c.read_buf /\ conn'.write_buf = <<>>
    BY <1>8, <2>1 DEF ConnStates
  <2>3. Read_idx' = Read_idx
    BY <1>8, <2>2 DEF Read_idx
  <2>4. Knows(Headers + 1)'
    BY <1>1, <2>2, SameRequest DEF Knows
  <2>5. conn'.content_length > 0
    BY <1>2, <1>12, <2>2 DEF ConnStates
  <2>6. BodyAt' <= conn'.start_line
    <3>1. BodyAt' = m + 1
      BY <1>1, <1>7, SameRequest
    <3> QED
      BY <2>2, <3>1
  <2>7. ParseInv'
    BY <2>2, <2>4, <2>5, <2>6 DEF ParseInv
  <2>8. /\ conn.start_line <= conn'.start_line /\ conn'.start_line <= conn'.checked_idx
        /\ conn'.checked_idx <= Read_idx
        /\ \A i \in (conn'.start_line + 1)..Read_idx : conn'.read_buf[i] = conn.read_buf[i]
    BY <1>8, <1>9, <2>2
  <2> QED
    BY <1>1, <2>1, <2>2, <2>3, <2>7, <2>8, ParsingOn
<1> QED
  BY <1>11, <1>12

(* The line is a header or the blank line.                                 *)
LEMMA ParseHeadersKeeps == ConnInv /\ ParseHeaders => ConnInv'
<1> SUFFICES ASSUME ConnInv, ParseHeaders PROVE ConnInv'
  OBVIOUS
<1>1. phase = "parsing" /\ conn.check_state = "HEADER"
  BY DEF ParseHeaders
<1>2. ParseInv /\ IsRequest(request)
  BY <1>1 DEF ConnInv, ConnTypeInv, InterestMatchesBuffer
<1>3. PICK k \in 1..(Headers + 1) : AtLine(k) /\ Knows(k)
  BY <1>1, <1>2 DEF ParseInv
<1>4. k \in 1..Headers \/ k = Headers + 1
  BY <1>2, <1>3, Text
<1> QED
  BY <1>3, <1>4, HeaderKeeps, BlankKeeps

(* The form that a body of two fields makes is the one in the request.     *)
LEMMA FormRead ==
  ASSUME ConnInv, conn.check_state = "CONTENT", phase = "parsing",
         NEW text,
         text = SubSeq(conn.read_buf, conn.start_line + 1,
                       conn.start_line + conn.content_length),
         ContentCode(text) = "GET_REQUEST"
  PROVE  /\ conn.checked_idx = conn.start_line /\ BodyAt + BodyLen <= Read_idx
         /\ request.line[1] = "POST" /\ GoodForm(request) /\ HasBody(request)
<1>1. ConnTypeInv /\ WireInv /\ conn \in ConnStates /\ IsRequest(request)
      /\ Knows(Headers + 1) /\ conn.content_length > 0 /\ BodyAt <= conn.start_line
  BY DEF ConnInv, ConnTypeInv, InterestMatchesBuffer, ParseInv
<1>2. Headers \in Nat /\ BodyLen \in Nat
  BY <1>1, Text
<1>3. request.eol = Crlf /\ conn.method = request.line[1]
  BY <1>1 DEF Knows
<1>4. conn.content_length = BodyLen /\ Seen("length", Headers + 1)
  BY <1>1 DEF Knows
<1>5. /\ conn.start_line \in Nat /\ conn.checked_idx \in Nat /\ Read_idx \in Nat
      /\ conn.start_line <= conn.checked_idx /\ conn.checked_idx <= Read_idx
  BY <1>1, LenProperties DEF ConnTypeInv, TypeOK, ConnStates, Read_idx
<1>6. /\ Len(Wire) = BodyAt + BodyLen
      /\ \A i \in (BodyAt + 1)..Len(Wire) : Wire[i] = <<Body[i - BodyAt]>>
  BY <1>1, <1>3, Text
<1>7. Read_idx <= Len(Wire) /\ BodyAt \in Nat
  <2>1. Len(inbox) \in Nat
    BY <1>1, LenProperties DEF ConnTypeInv
  <2> QED
    BY <1>1, <1>2, <1>5, <1>6, <2>1 DEF WireInv, Arrived, BodyAt
<1>8. conn.method = "POST" /\ ~(Len(conn.read_buf) < conn.content_length + conn.checked_idx)
  BY DEF ContentCode
<1>9. ~(Read_idx < BodyLen + conn.checked_idx)
  BY <1>4, <1>8 DEF Read_idx
<1>10. conn.checked_idx = BodyAt /\ conn.start_line = BodyAt /\ Read_idx = BodyAt + BodyLen
  BY <1>1, <1>2, <1>5, <1>6, <1>7, <1>9
<1>11. PICK buf : buf = conn.read_buf
  OBVIOUS
<1>12. buf \in Seq(Tokens) /\ Len(buf) = Read_idx
  BY <1>1, <1>11 DEF ConnStates, Read_idx
<1>13. text = SubSeq(buf, BodyAt + 1, BodyAt + BodyLen)
  BY <1>4, <1>10, <1>11
<1>14. PICK b \in Nat : b = BodyLen
  BY <1>2
<1>15. PICK at \in Nat : at = BodyAt
  BY <1>7
<1>16. Len(text) = b /\ \A i \in 1..b : text[i] = BodyToken(request, i)
  <2>1. b > 0 /\ Len(buf) = at + b /\ Len(Wire) = at + b /\ text = SubSeq(buf, at + 1, at + b)
    BY <1>1, <1>4, <1>6, <1>10, <1>12, <1>13, <1>14, <1>15
  <2>2. PICK lo \in Int, hi \in Int : lo = at + 1 /\ hi = at + b
    OBVIOUS
  <2>3. \A i \in lo..hi : buf[i] \in Tokens
    <3>1. \A i \in lo..hi : i \in 1..Len(buf)
      BY <2>1, <2>2
    <3> QED
      BY <1>12, <3>1, ElementOfSeq
  <2>4. /\ Len(text) = IF lo <= hi THEN hi - lo + 1 ELSE 0
        /\ \A i \in 1..(hi - lo + 1) : text[i] = buf[lo + i - 1]
    <3>1. text = SubSeq(buf, lo, hi)
      BY <2>1, <2>2
    <3>2. /\ Len(SubSeq(buf, lo, hi)) = IF lo <= hi THEN hi - lo + 1 ELSE 0
          /\ \A i \in 1..(hi - lo + 1) : SubSeq(buf, lo, hi)[i] = buf[lo + i - 1]
      BY <2>3, SubSeqProperties
    <3> QED
      BY <3>1, <3>2
  <2>5. lo <= hi /\ hi - lo + 1 = b
    BY <2>1, <2>2
  <2>6. Len(text) = b
    BY <2>4, <2>5
  <2>7. ASSUME NEW i \in 1..b PROVE text[i] = BodyToken(request, i)
    <3>1. i \in 1..(hi - lo + 1) /\ lo + i - 1 = at + i
      BY <2>2, <2>5
    <3>2. text[i] = buf[at + i]
      BY <2>4, <3>1
    <3>3. at + i \in (at + 1)..Len(Wire) /\ at + i - at = i
      BY <2>1
    <3>4. \A j \in (at + 1)..Len(Wire) : Wire[j] = BodyToken(request, j - at)
      BY <1>6, <1>15 DEF BodyToken, Body
    <3>5. Wire[at + i] = BodyToken(request, i)
      BY <3>3, <3>4
    <3>6. at + i \in (at + 1)..Read_idx
      BY <1>12, <2>1
    <3>7. \A j \in (at + 1)..Read_idx : buf[j] = Wire[j]
      BY <1>1, <1>10, <1>11, <1>15 DEF WireInv
    <3> QED
      BY <3>2, <3>5, <3>6, <3>7
  <2> QED
    BY <2>6, <2>7
<1>17. PICK n, p : /\ n \in {<<"name=admin">>, <<"name=other">>}
                   /\ p \in {<<"pwd=admin">>, <<"pwd=other">>}
                   /\ text = <<n, p>> /\ ~(n = <<"name=other">> /\ p = <<"pwd=other">>)
  BY DEF ContentCode
<1>18. b = 2 /\ n = BodyToken(request, 1) /\ p = BodyToken(request, 2)
  <2>1. text = <<n, p>>
    BY <1>17
  <2>2. Len(<<n, p>>) = 2 /\ <<n, p>>[1] = n /\ <<n, p>>[2] = p
    OBVIOUS
  <2>3. Len(text) = 2 /\ text[1] = n /\ text[2] = p
    BY <2>1, <2>2, Zenon
  <2>4. b = 2
    BY <1>16, <2>3
  <2>5. 1 \in 1..b /\ 2 \in 1..b
    BY <2>4
  <2> QED
    BY <1>16, <2>3, <2>4, <2>5
<1>19. PICK body : body = request.body
  OBVIOUS
<1>20. body[1] = "name=admin" \/ body[2] = "pwd=admin"
  <2>1. n = <<"name=admin">> \/ p = <<"pwd=admin">>
    BY <1>17
  <2>2. n = <<body[1]>> /\ p = <<body[2]>>
    BY <1>18, <1>19 DEF BodyToken
  <2> QED
    BY <2>1, <2>2
<1>21. Len(body) = 2
  BY <1>14, <1>18, <1>19 DEF BodyLen
<1>22. GoodForm(request)
  BY <1>19, <1>20, <1>21 DEF GoodForm
<1>23. request.body # <<>>
  <2>1. Len(<<>>) = 0 /\ 0 # 2
    OBVIOUS
  <2> QED
    BY <1>19, <1>21, <2>1, Zenon
<1>24. HasBody(request)
  <2>1. Headers + 1 - 1 = Headers
    BY <1>2
  <2> QED
    BY <1>4, <1>23, <2>1 DEF HasBody, Seen, Headers
<1>25. request.line[1] = "POST"
  BY <1>3, <1>8
<1>26. conn.checked_idx = conn.start_line /\ BodyAt + BodyLen <= Read_idx
  BY <1>2, <1>7, <1>10
<1> QED
  BY <1>22, <1>24, <1>25, <1>26

(* A form is answered only when the whole body is in the buffer.           *)
LEMMA ParseContentKeeps == ConnInv /\ ParseContent => ConnInv'
<1> SUFFICES ASSUME ConnInv, ParseContent PROVE ConnInv'
  OBVIOUS
<1>1. /\ phase = "parsing" /\ conn.check_state = "CONTENT"
      /\ UNCHANGED <<request, client, asked, script, inbox>>
  BY DEF ParseContent, clientVars
<1>2. ConnTypeInv /\ WireInv /\ conn.write_buf = <<>> /\ conn \in ConnStates
      /\ Knows(Headers + 1) /\ conn.content_length > 0 /\ BodyAt <= conn.start_line
  BY <1>1 DEF ConnInv, ConnTypeInv, InterestMatchesBuffer, ParseInv
<1>3. /\ conn.start_line \in Nat /\ conn.checked_idx \in Nat /\ Read_idx \in Nat
      /\ conn.start_line <= conn.checked_idx /\ conn.checked_idx <= Read_idx
  BY <1>2, LenProperties DEF ConnTypeInv, TypeOK, ConnStates, Read_idx
<1>4. PICK text : text = SubSeq(conn.read_buf, conn.start_line + 1,
                                conn.start_line + conn.content_length)
  OBVIOUS
<1>5. PICK after : after = [conn EXCEPT !.start_line = conn.checked_idx]
  OBVIOUS
<1>6. /\ after \in ConnStates /\ after.start_line = conn.checked_idx
      /\ after.checked_idx = conn.checked_idx /\ after.read_buf = conn.read_buf
      /\ after.check_state = "CONTENT" /\ after.linger = conn.linger
      /\ after.method = conn.method /\ after.url = conn.url
      /\ after.content_length = conn.content_length /\ after.write_buf = <<>>
  BY <1>1, <1>2, <1>5 DEF ConnStates
<1>7. conn.checked_idx <= conn.checked_idx
  BY <1>3
<1>8. CASE ContentCode(text) = "GET_REQUEST"
  <2>1. Answer(DoRequest(conn.url), after) /\ left' = left
    BY <1>4, <1>5, <1>8 DEF ParseContent
  <2>2. /\ BodyAt + BodyLen <= Read_idx
        /\ request.line[1] = "POST" /\ GoodForm(request) /\ HasBody(request)
    BY <1>1, <1>4, <1>8, FormRead
  <2>3. request.eol = Crlf /\ ~Malformed(request) /\ conn.url = request.line[2]
    BY <1>2 DEF Knows
  <2>4. inbox = <<>> /\ script = <<>>
    BY <1>2, <2>2, <2>3, AllRead
  <2>5. DoRequest(conn.url) = Verdict(request)
    <3>1. request.eol # <<LF>>
      BY <2>3 DEF Crlf
    <3> QED
      BY <2>2, <2>3, <3>1 DEF Verdict
  <2>6. after.linger = KeepAlive(request)
    <3>1. conn.linger = Seen("keep", Headers + 1)
      BY <1>2 DEF Knows
    <3>2. Seen("keep", Headers + 1) \in BOOLEAN /\ KeepAlive(request) \in BOOLEAN
      BY DEF Seen, KeepAlive
    <3>3. Headers + 1 - 1 = Headers
      BY <1>2, Text DEF ConnTypeInv
    <3>4. Seen("keep", Headers + 1) <=> KeepAlive(request)
      BY <2>3, <3>3 DEF Seen, KeepAlive, Headers
    <3> QED
      BY <1>6, <3>1, <3>2, <3>4, Zenon
  <2>7. /\ conn.start_line <= after.start_line /\ after.start_line <= after.checked_idx
        /\ after.checked_idx <= Read_idx /\ Len(after.read_buf) = Read_idx
        /\ \A i \in (after.start_line + 1)..Read_idx : after.read_buf[i] = conn.read_buf[i]
    BY <1>3, <1>6, <1>7 DEF Read_idx
  <2>8. DoRequest(conn.url) # "NO_REQUEST" /\ after.url = request.line[2]
    BY <1>6, <2>3, DoRequestAnswers
  <2> QED
    BY <1>1, <1>6, <2>1, <2>4, <2>5, <2>6, <2>7, <2>8, Answering
<1>9. CASE ContentCode(text) # "GET_REQUEST"
  <2>1. /\ conn' = after /\ left' = 1
        /\ UNCHANGED <<armed, rdhup, phase, iv, unsent, emitted, cut, finished>>
    BY <1>4, <1>5, <1>9 DEF ParseContent, outVars
  <2>2. Read_idx' = Read_idx
    BY <1>6, <2>1 DEF Read_idx
  <2>3. Knows(Headers + 1)'
    BY <1>1, <1>2, <1>6, <2>1, SameRequest DEF Knows
  <2>4. BodyAt' <= conn'.start_line
    <3>1. BodyAt' = BodyAt /\ BodyAt \in Nat
      BY <1>1, <1>2, Text, SameRequest DEF BodyAt, ConnTypeInv
    <3>2. conn'.start_line = conn.checked_idx
      BY <1>6, <2>1
    <3> QED
      BY <1>2, <1>3, <3>1, <3>2
  <2>5. ParseInv'
    <3>1. conn'.check_state = "CONTENT" /\ conn'.content_length > 0
      BY <1>2, <1>6, <2>1
    <3> QED
      BY <2>3, <2>4, <3>1 DEF ParseInv
  <2>6. /\ conn.start_line <= conn'.start_line /\ conn'.start_line <= conn'.checked_idx
        /\ conn'.checked_idx <= Read_idx
        /\ \A i \in (conn'.start_line + 1)..Read_idx : conn'.read_buf[i] = conn.read_buf[i]
    BY <1>3, <1>6, <1>7, <2>1
  <2> QED
    BY <1>1, <1>6, <2>1, <2>2, <2>5, <2>6, ParsingOn
<1> QED
  BY <1>8, <1>9

-----------------------------------------------------------------------------
(* A step that changes nothing.                                            *)
LEMMA NothingKeeps == ConnInv /\ UNCHANGED vars => ConnInv'
<1> SUFFICES ASSUME ConnInv, UNCHANGED vars PROVE ConnInv'
  OBVIOUS
<1>1. UNCHANGED <<request, client, asked, script, inbox, unsent, armed, rdhup, phase, conn,
                  iv, left, code, emitted, cut, finished>>
  BY DEF vars
<1>2. Wire' = Wire /\ Read_idx' = Read_idx /\ Arrived' = Arrived
  BY <1>1 DEF Wire, Read_idx, Arrived
<1>3. WireInv'
  BY <1>1, <1>2 DEF ConnInv, WireInv
<1>4. ConnTypeInv'
  <2>1. TypeOK'
    BY <1>1 DEF ConnInv, ConnTypeInv, TypeOK
  <2> QED
    BY <1>1, <2>1 DEF ConnInv, ConnTypeInv
<1>5. ParseInv => ParseInv'
  BY <1>1, NothingParsed
<1>6. AnswerInv => AnswerInv'
  BY <1>1, NothingAnswered
<1>7. InterestMatchesBuffer' /\ UncutResponseIntact'
  BY <1>1 DEF ConnInv, InterestMatchesBuffer, UncutResponseIntact, Expected, Verdict,
              Malformed, HasBody, GoodForm, DoRequest
<1> QED
  BY <1>1, <1>3, <1>4, <1>5, <1>6, <1>7 DEF ConnInv, AtRest

(* Every step of client, network, worker and main thread keeps the         *)
(* invariant.                                                              *)
THEOREM NextConn == ConnInv /\ [Next]_vars => ConnInv'
<1> SUFFICES ASSUME ConnInv, [Next]_vars PROVE ConnInv'
  OBVIOUS
<1>1. CASE Client
  BY <1>1, AskKeeps, SendKeeps, LeaveKeeps DEF Client
<1>2. CASE Deliver
  BY <1>2, DeliverKeeps
<1>3. CASE Worker
  BY <1>3, ProcessBeginKeeps, ParseRequestLineKeeps, ParseHeadersKeeps, ParseContentKeeps,
     NeedMoreKeeps DEF Worker
<1>4. CASE MainThread
  BY <1>4, FailsKeep, ReadKeeps, EventOutKeeps, WriteAgainKeeps, WriteVKeeps DEF MainThread
<1>5. CASE UNCHANGED vars
  BY <1>5, NothingKeeps
<1> QED
  BY <1>1, <1>2, <1>3, <1>4, <1>5 DEF Next

(* The invariant of one connection: between the client's text and the      *)
(* response, whatever recv() and writev() cut and whenever the client      *)
(* leaves, parser, buffers and interest are where the request has them.    *)
THEOREM ConnInvariant == Spec => []ConnInv
BY InitConn, NextConn, PTL DEF Spec

(* m_start_line, m_checked_idx and m_read_idx keep their order and stay in *)
(* the read buffer, and what is written stays in the write buffer.         *)
THEOREM TypeOKHolds == Spec => []TypeOK
<1>1. ConnInv => TypeOK
  BY DEF ConnInv, ConnTypeInv
<1> QED
  BY <1>1, ConnInvariant, PTL

(* A worker that answers a request answers what the fields of the request  *)
(* call for, however its bytes were cut into reads and whatever was served *)
(* before on the connection.                                               *)
THEOREM AnswerMatchesRequestHolds == Spec => []AnswerMatchesRequest
<1>1. ConnInv => AnswerMatchesRequest
  <2> SUFFICES ASSUME ConnInv, phase = "polling", armed = "out"
               PROVE  code = Verdict(request)
    BY DEF AnswerMatchesRequest
  <2>1. conn.write_buf # <<>>
    BY DEF ConnInv, InterestMatchesBuffer
  <2> QED
    BY <2>1 DEF ConnInv, AnswerInv
<1> QED
  BY <1>1, ConnInvariant, PTL

(* Between two events the one-shot interest is the one that the write      *)
(* buffer calls for, and a worker finds that buffer empty.                 *)
THEOREM InterestMatchesBufferHolds == Spec => []InterestMatchesBuffer
<1>1. ConnInv => InterestMatchesBuffer
  BY DEF ConnInv
<1> QED
  BY <1>1, ConnInvariant, PTL

(* A response that no writev() has cut reaches the kernel once and whole.  *)
THEOREM UncutResponseIntactHolds == Spec => []UncutResponseIntact
<1>1. ConnInv => UncutResponseIntact
  BY DEF ConnInv
<1> QED
  BY <1>1, ConnInvariant, PTL

(* write() reports a response as sent in WriteV alone, and m_linger is     *)
(* then what this request asked for.                                       *)
LEMMA LingerDecides ==
  ConnInv /\ [Next]_vars =>
    [~finished /\ finished' => (phase' = "closed" <=> ~KeepAlive(request))]_vars
<1> SUFFICES ASSUME ConnInv, Next, ~finished, finished'
             PROVE  phase' = "closed" <=> ~KeepAlive(request)
  OBVIOUS
<1>1. ~Client
  BY DEF Client, Ask, Send, Leave, outVars
<1>2. ~Deliver
  BY DEF Deliver
<1>3. ~Worker
  <2>1. ASSUME NEW ret, NEW c, Answer(ret, c) PROVE FALSE
    BY <2>1 DEF Answer
  <2>2. ~ProcessBegin /\ ~NeedMore
    BY DEF ProcessBegin, NeedMore, outVars
  <2>3. ~ParseRequestLine
    BY <2>1 DEF ParseRequestLine, outVars
  <2>4. ~ParseHeaders
    BY <2>1 DEF ParseHeaders, outVars
  <2>5. ~ParseContent
    BY <2>1 DEF ParseContent, outVars
  <2> QED
    BY <2>2, <2>3, <2>4, <2>5 DEF Worker
<1>4. ~EventHangUp /\ ~ReadFails /\ ~Read /\ ~EventOut /\ ~WriteAgain /\ ~WriteFails
  BY DEF EventHangUp, ReadFails, Read, EventOut, WriteAgain, WriteFails, outVars
<1>5. WriteV
  BY <1>1, <1>2, <1>3, <1>4 DEF Next, MainThread
<1>6. phase = "writing" /\ AnswerInv /\ conn \in ConnStates
  BY <1>5 DEF WriteV, ConnInv, ConnTypeInv
<1>7. ~(left' > 0)
  BY <1>5 DEF WriteV
<1>8. conn.linger = KeepAlive(request)
  BY <1>6 DEF AnswerInv
<1>9. phase' = IF conn.linger THEN "polling" ELSE "closed"
  BY <1>5, <1>7 DEF WriteV, Modfd, CloseConn
<1>10. conn.linger \in BOOLEAN
  BY <1>6 DEF ConnStates
<1>11. phase' = "closed" <=> ~conn.linger
  BY <1>9, <1>10
<1> QED
  BY <1>8, <1>11, Zenon

(* The connection stays open after a response exactly when this request,   *)
(* and not an earlier one, asked for it.                                   *)
THEOREM KeepAliveHonouredHolds == Spec => KeepAliveHonoured
<1>1. Spec => [][Next]_vars
  BY PTL DEF Spec
<1> QED
  BY <1>1, ConnInvariant, LingerDecides, PTL DEF KeepAliveHonoured
=============================================================================
