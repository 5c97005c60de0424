----------------------------- MODULE MCHttpConn -----------------------------
(***************************************************************************)
(* Up to two requests on one connection, out of one of every kind that     *)
(* http_conn tells apart, each cut by the network in every possible way.   *)
(***************************************************************************)
EXTENDS HttpConn

Crlf == <<CR, LF>>

Req(line, headers, body) ==
  [line |-> line, headers |-> headers, body |-> body, eol |-> Crlf]

ReqFile    == Req(<<"GET", "file">>, <<>>, <<>>)
ReqKeep    == Req(<<"GET", "file">>, <<"keep">>, <<>>)
ReqGone    == Req(<<"GET", "gone">>, <<"keep">>, <<>>)
ReqPrivate == Req(<<"GET", "private">>, <<"host">>, <<>>)
ReqDir     == Req(<<"GET", "dir">>, <<>>, <<>>)
ReqEmpty   == Req(<<"GET", "empty">>, <<"keep">>, <<>>)
ReqPut     == Req(<<"PUT", "file">>, <<"keep">>, <<>>)
ReqForm    == Req(<<"POST", "file">>, <<"length">>, <<"name=admin", "pwd=other">>)
ReqWrong   == Req(<<"POST", "file">>, <<"length">>, <<"name=other", "pwd=other">>)
ReqGetBody == Req(<<"GET", "file">>, <<"length">>, <<"name=admin", "pwd=admin">>)
ReqLong    == Req(<<"GET", "file">>, <<"host", "host">>, <<>>)
ReqBareLF  == [ReqFile EXCEPT !.eol = <<LF>>]

AllRequests ==
  {ReqFile, ReqKeep, ReqGone, ReqPrivate, ReqDir, ReqEmpty, ReqPut, ReqForm,
   ReqWrong, ReqGetBody, ReqLong, ReqBareLF}

FileRequests == {ReqFile, ReqKeep}
=============================================================================
