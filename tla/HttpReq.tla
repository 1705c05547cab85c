------------------------------- MODULE HttpReq -------------------------------
(***************************************************************************)
(* http_req.c: http_get asks a server for a page and hands the caller's    *)
(* function every step and every piece of the answer.  A step ends at a    *)
(* call of the function, which answers in its own time.  What the server   *)
(* sends comes in pieces of any size, and may end early.                   *)
(***************************************************************************)
EXTENDS HttpText

CONSTANTS
  Reply,   (* what a server may answer: status, header, line end and body  *)
  BufSz    (* sizeof(buf)                                                  *)

VARIABLES
  pc,        (* where http_get is; "func" while the caller's function runs *)
  call,      (* that call: the state and the data, and what comes after it *)
  got,       (* got_header, and the header that was read                   *)
  buf,       (* the first len bytes of buf                                 *)
  err, req_err,
  reply,     (* what the server answers this time                          *)
  wire,      (* how much of it arrived                                     *)
  (* kept of the calls that were made                                      *)
  body,      (* all data of the answer, put together                       *)
  told       (* the function returned nonzero: "no", "yes", or it was      *)
             (* called "again" after that                                  *)

httpVars == <<pc, call, got, buf, err, req_err, reply, wire, body, told>>

-----------------------------------------------------------------------------
(* The text of an answer.  An empty line ends the header.                  *)
Eol(r) == IF r.crlf THEN <<"cr", "nl">> ELSE <<"nl">>
Status(r) == <<"HTTP/", "1", "sp", r.status>> \o (IF r.message = <<>> THEN <<>> ELSE <<"sp">> \o r.message)
Line(r, h) == h.key \o <<":">> \o (IF r.spaced THEN <<"sp">> ELSE <<>>) \o h.val \o Eol(r)
HeadText(r) == Status(r) \o Eol(r) \o FlattenSeq([i \in DOMAIN r.headers |-> Line(r, r.headers[i])]) \o Eol(r)
Text(r) == HeadText(r) \o r.body

NoHeader == [found |-> 0, http |-> http_header_clear, header_len |-> 0, content_len |-> 0]

InitHttp ==
  /\ pc = "idle"
  /\ call = <<>>
  /\ got = NoHeader
  /\ buf = <<>>
  /\ err = 0 /\ req_err = "none"
  /\ reply \in Reply
  /\ wire = 0
  /\ body = <<>>
  /\ told = "no"

(* func(&req, data, len, farg): what is called, and where it returns to.   *)
Func(state, data, after) ==
  /\ call' = [state |-> state, data |-> data, after |-> after]
  /\ pc' = "func"
  /\ body' = IF state = "BODY" THEN body \o data ELSE body
  /\ told' = IF told = "no" THEN "no" ELSE "again"

Quiet == UNCHANGED <<call, body, told>>
Goto(where) == pc' = where /\ Quiet

(* A call of http_get, with a URL that url_parse could read or not.        *)
http_get(proto, r) ==
  /\ pc = "idle"
  /\ reply' = r
  /\ wire' = 0 /\ got' = NoHeader /\ buf' = <<>> /\ body' = <<>> /\ told' = "no"
  /\ err' = -1
  /\ pc' = CASE proto = "http" -> "socket" [] proto = "file" -> "stat" [] OTHER -> "leave"
  /\ req_err' = (CASE proto = "http" -> "CONNECT" [] proto = "file" -> "FILE_NOT_FOUND" [] OTHER -> "BAD_URL")
  /\ UNCHANGED call

(* A file: all of it goes to the function unless it cannot be opened.      *)
File ==
  /\ \/ pc = "stat" /\ Goto("leave") /\ UNCHANGED <<err, req_err, wire>>
     \/ /\ pc \in {"stat", "fread"}
        /\ wire < Len(reply.body)
        /\ \E n \in 1..(Len(reply.body) - wire) :
             /\ Func("BODY", SubSeq(reply.body, wire + 1, wire + n), "fread")
             /\ wire' = wire + n
        /\ UNCHANGED <<err, req_err>>
     \/ /\ pc \in {"stat", "fread"}
        /\ wire = Len(reply.body)
        /\ err' = 0 /\ req_err' = "none"
        /\ Goto("leave")
        /\ UNCHANGED wire
  /\ UNCHANGED <<got, buf, reply>>

(* socket, connect and the request: any of them may fail.                  *)
Connect ==
  /\ \/ pc = "socket" /\ Func("RESOLVE", <<>>, "resolve")
     \/ pc = "resolve" /\ Func("CONNECT", <<>>, "connect")
     \/ pc = "connect" /\ Func("SEND", <<>>, "send")
     \/ pc = "send" /\ Goto("recv")
     \/ pc \in {"socket", "connect", "send"} /\ Goto("leave")
  /\ UNCHANGED <<got, buf, err, req_err, reply, wire>>

(* The loop is left by a break: req_err is 0 whatever it was.              *)
Break == Goto("leave") /\ req_err' = "none"

(* Mutant: the header is handed on with the body.                          *)
BodyWithHeader(parsed, text) == text

(* What is left in buf when the header is taken off it.                    *)
BodyIn(parsed, text) == SubSeq(text, parsed.header_len + 1, Len(text))

(* recv puts the next piece behind what is in buf.                         *)
Recv(n) ==
  LET text == buf \o SubSeq(Text(reply), wire + 1, wire + n)
  IN  /\ pc = "recv"
      /\ Len(buf) + n <= BufSz
      /\ wire' = wire + n
      /\ IF got.found = 1
         THEN Func("BODY", text, "recv") /\ buf' = <<>> /\ UNCHANGED <<got, req_err>>
         ELSE \E parsed \in {http_header_parse(text)} :
                CASE parsed.found = 1 ->
                       /\ got' = parsed
                       /\ buf' = BodyIn(parsed, text)
                       /\ Func("HEAD", <<>>, "body")
                       /\ UNCHANGED req_err
                  [] parsed.found = 0 ->
                       Goto("recv") /\ buf' = text /\ UNCHANGED <<got, req_err>>
                  [] OTHER ->
                       Break /\ buf' = text /\ UNCHANGED got
      /\ UNCHANGED <<err, reply>>

(* The piece with the end of the header: the rest of it is the first data. *)
FirstBody ==
  /\ pc = "body"
  /\ Func("BODY", buf, "recv")
  /\ buf' = <<>>
  /\ UNCHANGED <<got, err, req_err, reply, wire>>

(* recv fails, or the header fills buf; or the server closed, at its end   *)
(* or before.                                                              *)
RecvFails ==
  /\ pc = "recv"
  /\ Break
  /\ UNCHANGED <<got, buf, err, reply, wire>>

Eof ==
  /\ pc = "recv"
  /\ Len(buf) < BufSz
  /\ Func("EOF", <<>>, "eof")
  /\ UNCHANGED <<got, buf, err, req_err, reply, wire>>

(* The function returns.  Nonzero ends the loop it was called in; a file's *)
(* loop returns 0 all the same.                                            *)
Return(r) ==
  /\ pc = "func"
  /\ LET after == IF r = 0 /\ call.after # "eof" THEN call.after ELSE "leave"
     IN  /\ pc' = IF call.after = "done" THEN "idle" ELSE after
         /\ err' = IF call.after = "fread" /\ r # 0 THEN 0 ELSE r
         /\ req_err' = IF call.after \in {"fread", "body", "recv", "eof"} /\ after = "leave"
                       THEN "none" ELSE req_err
         /\ told' = IF r # 0 /\ told = "no" THEN "yes" ELSE told
  /\ UNCHANGED <<call, got, buf, reply, wire, body>>

(* An answer other than 200 and an error are reported to the function.     *)
Leave ==
  LET error == IF got.found = 1 /\ got.http.response_code # 200 THEN "FILE_NOT_FOUND" ELSE req_err
  IN  /\ pc = "leave"
      /\ req_err' = error
      /\ IF error = "none" THEN Goto("idle") ELSE Func("ERROR", buf, "done")
      /\ UNCHANGED <<got, buf, err, reply, wire>>

HttpStep ==
  \/ File \/ Connect \/ FirstBody \/ RecvFails \/ Eof \/ Leave
  \/ \E n \in 1..(Len(Text(reply)) - wire) : Recv(n)

-----------------------------------------------------------------------------
(* However the answer is cut into pieces, the data handed on is what the   *)
(* server sent behind the empty line, in order and once.                   *)
BodyInOrder ==
  got.found = 1 => body \o buf = SubSeq(Text(reply), Len(HeadText(reply)) + 1, wire)

(* The header that was read is the one that was sent: its status, and the  *)
(* fields in their order with the space around a value taken off, whatever *)
(* line ends and spacing were used.  But http_strdup loses every text of   *)
(* one letter: a message, a name, a value, and with it a length below ten. *)
HeaderIs(message, headers) ==
  got.found = 1 =>
    /\ got.http.response_code = strtoul(<<reply.status>>)
    /\ got.http.response_message = message
    /\ got.http.headers = headers
    /\ \A i \in DOMAIN headers :
         headers[i].key = <<"content-length">> => got.content_len = strtoul(headers[i].val)

WithoutOneLetter(text) == IF LongerThanOne(text) THEN text ELSE <<>>

HeaderAsSent ==
  HeaderIs(WithoutOneLetter(reply.message),
           [i \in DOMAIN reply.headers |-> [key |-> WithoutOneLetter(reply.headers[i].key),
                                           val |-> WithoutOneLetter(reply.headers[i].val)]])

(* Violated by a text of one letter: nothing is lost.                      *)
HeaderWhole == HeaderIs(reply.message, reply.headers)
=============================================================================
