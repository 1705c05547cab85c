------------------------------ MODULE HttpText ------------------------------
(***************************************************************************)
(* http.c: reading a header, a query string and a URL.  A text is a        *)
(* sequence of characters; "nl", "cr" and "sp" are the line ends and the   *)
(* space, and the words the code looks for are one member of the sequence. *)
(* Where an error was found (error_line, err_pos) is left out.             *)
(***************************************************************************)
EXTENDS Integers, Sequences, SequencesExt, FiniteSetsExt

(* The words the code compares with, and numbers.  All but one digit are   *)
(* longer than one letter.                                                 *)
Words == {"HTTP/", "GET", "PUT", "POST", "content-length", "http", "https", "ftp"}
Numbers == "200" :> 200 @@ "404" :> 404 @@ "80" :> 80 @@ "12" :> 12 @@ "5" :> 5
Long == (Words \cup DOMAIN Numbers) \ {"5"}

Special == {"nl", "cr", "sp", ":", "/", "?", "&", "=", "@", "%"}
isspace(c) == c \in {"nl", "cr", "sp"}
isalnum(c) == c \notin Special

strtoul(text) ==
  IF text # <<>> /\ text[1] \in DOMAIN Numbers THEN Numbers[text[1]] ELSE 0

-----------------------------------------------------------------------------
(* A copy without the space around it.  The loop from the end never looks  *)
(* at the first letter: a text of one letter comes out empty.              *)
Stripped(text) ==
  LET Full == {i \in DOMAIN text : ~isspace(text[i])}
  IN  IF Full = {} THEN <<>> ELSE SubSeq(text, Min(Full), Max(Full))

LongerThanOne(text) == text # <<>> /\ (Len(text) > 1 \/ text[1] \in Long)

http_strdup(text) ==
  IF LongerThanOne(Stripped(text)) THEN SelectSeq(Stripped(text), LAMBDA c : c # "cr") ELSE <<>>

(* Mutant: the first header is returned, whatever its name.                *)
FirstGet(headers, key) == IF headers = <<>> THEN <<>> ELSE headers[1].val

(* The value of the first header with this name.                           *)
http_keyval_get(headers, key) ==
  LET Found == {i \in DOMAIN headers : headers[i].key = key}
  IN  IF Found = {} THEN <<>> ELSE headers[Min(Found)].val

http_header_clear ==
  [op |-> <<>>, response_code |-> 0, response_message |-> <<>>, uri |-> <<>>,
   http_version |-> <<>>, headers |-> <<>>]

-----------------------------------------------------------------------------
(* The reader: its state, the one after the spaces, where the word begins, *)
(* and the header so far.                                                  *)
InitialReader ==
  [state |-> "INIT", next |-> "INIT", word |-> 1, at |-> 0, http |-> http_header_clear]

To(r, state) == [r EXCEPT !.state = state]
ToSpace(r, next) == [r EXCEPT !.state = "SPACE", !.next = next]

ReadOp(r, c, word) ==
  IF c = "nl" THEN To(r, "ERROR")
  ELSE IF ~isspace(c) THEN r
  ELSE IF word # <<>> /\ word[1] = "HTTP/"
       THEN ToSpace([r EXCEPT !.http.http_version = http_strdup(word)], "RESPONSE_CODE")
       ELSE ToSpace([r EXCEPT !.http.op = http_strdup(word)], "URI")

ReadResponseCode(r, c, word) ==
  IF ~isspace(c) THEN r
  ELSE IF word = <<>> \/ word[1] \notin DOMAIN Numbers THEN To(r, "ERROR")
  ELSE LET read == [r EXCEPT !.http.response_code = strtoul(word)]
       IN  IF c = "nl" THEN To(read, "HEADER") ELSE ToSpace(read, "RESPONSE_MESSAGE")

ReadResponseMessage(r, c, word) ==
  IF c # "nl" THEN r
  ELSE To([r EXCEPT !.http.response_message = http_strdup(word)], "HEADER")

ReadUri(r, c, word) ==
  IF ~isspace(c) THEN r
  ELSE ToSpace([r EXCEPT !.http.uri = http_strdup(word)], IF c = "nl" THEN "HEADER" ELSE "VERSION")

ReadVersion(r, c, word) ==
  IF ~isspace(c) THEN r
  ELSE LET read == [r EXCEPT !.http.http_version = http_strdup(word)]
       IN  IF c = "nl" THEN To(read, "HEADER") ELSE ToSpace(read, "HEADER_BOL")

(* The last header's value ends where a line begins with no space.         *)
FinishLast(r, word) ==
  IF r.http.headers = <<>> THEN r
  ELSE [r EXCEPT !.http.headers[Len(r.http.headers)].val = http_strdup(word)]

ReadHeader(r, c, word) ==
  IF c = "sp" THEN To(r, "HEADER_VAL")
  ELSE IF c = "nl" THEN To(FinishLast(r, word), "DONE")
  ELSE LET started == [FinishLast(r, word) EXCEPT
                         !.http.headers = Append(@, [key |-> <<>>, val |-> <<>>])]
       IN  [started EXCEPT !.state = "HEADER_NAME", !.word = r.at]

ReadHeaderName(r, c, word) ==
  IF isalnum(c) THEN r
  ELSE IF c # ":" THEN To(r, "ERROR")
  ELSE ToSpace([r EXCEPT !.http.headers[Len(r.http.headers)].key = http_strdup(word)], "HEADER_VAL")

In(r, c, word) ==
  CASE r.state = "OP"               -> ReadOp(r, c, word)
    [] r.state = "RESPONSE_CODE"    -> ReadResponseCode(r, c, word)
    [] r.state = "RESPONSE_MESSAGE" -> ReadResponseMessage(r, c, word)
    [] r.state = "URI"              -> ReadUri(r, c, word)
    [] r.state = "VERSION"          -> ReadVersion(r, c, word)
    [] r.state = "HEADER_BOL"       -> To(r, IF c = "nl" THEN "HEADER" ELSE "ERROR")
    [] r.state = "HEADER"           -> ReadHeader(r, c, word)
    [] r.state = "HEADER_NAME"      -> ReadHeaderName(r, c, word)
    [] r.state = "HEADER_VAL"       -> IF c = "nl" THEN To(r, "HEADER") ELSE r

(* Spaces are skipped; what follows them is looked at again.               *)
Skips(r, c) == \/ r.state = "INIT" /\ c \in {"sp", "nl"}
               \/ r.state = "SPACE" /\ c = "sp"
Begin(r) == [r EXCEPT !.state = IF @ = "INIT" THEN "OP" ELSE r.next, !.word = r.at]

Read(buf, reader, c) ==
  IF reader.state \in {"DONE", "ERROR"} THEN reader
  ELSE LET r == [reader EXCEPT !.at = @ + 1]
           s == IF r.state \in {"INIT", "SPACE"} THEN Begin(r) ELSE r
       IN  IF c = "cr" \/ Skips(r, c) THEN r ELSE In(s, c, SubSeq(buf, s.word, s.at - 1))

(* 1 and the header, 0 when it is not complete, -1 for an error.           *)
http_header_parse(buf) ==
  LET r == FoldLeft(LAMBDA reader, c : Read(buf, reader, c), InitialReader, buf)
  IN  CASE r.state = "ERROR" -> [found |-> -1, http |-> http_header_clear, header_len |-> 0, content_len |-> 0]
        [] r.state = "DONE"  -> [found |-> 1, http |-> r.http, header_len |-> r.at,
                                 content_len |-> strtoul(http_keyval_get(r.http.headers, <<"content-length">>))]
        [] OTHER             -> [found |-> 0, http |-> http_header_clear, header_len |-> 0, content_len |-> 0]
=============================================================================
