------------------------------- MODULE Texts -------------------------------
(***************************************************************************)
(* Texts that programs read: URLs (url_parse and http_cgi_args of http.c), *)
(* versions (vercmp.c), and command lines (opt.c).  They share no state,   *)
(* and nothing happens: every state is one input.                          *)
(***************************************************************************)
EXTENDS HttpText

CONSTANTS
  Number, Letter,  (* parts of a version: numbers and letters              *)
  MaxParts,        (* bound: how many parts a version has                  *)
  Chars,           (* letters of an argument                               *)
  MaxLen,          (* bound: letters of an argument                        *)
  MaxArgs,         (* bound: arguments, and options on a command line      *)
  MaxRoom          (* the largest buffer                                   *)

VARIABLES
  parts,        (* proto, user, host, port, path and args of a URL         *)
  pair,         (* two versions, each a sequence of parts                  *)
  args, room,   (* arguments, and the size of the buffer they are put in   *)
  uses, rest,   (* options on a command line, and what follows them        *)
  required      (* option "s" is required: it may be given without its name*)

-----------------------------------------------------------------------------
(***************************************************************************)
(* URLs.  One longer than the 16834 bytes of the buffer, and a percent     *)
(* sign without two hex digits, are left out.                              *)
(***************************************************************************)
(* The letters that two hex digits stand for.                              *)
Hex == <<"2", "0">> :> "sp" @@ <<"3", "d">> :> "="

-----------------------------------------------------------------------------
(* What follows a percent sign is taken as one letter.                     *)
RECURSIVE Decoded(_)
Decoded(text) ==
  IF text = <<>> THEN <<>>
  ELSE IF text[1] = "%" THEN <<Hex[<<text[2], text[3]>>]>> \o Decoded(SubSeq(text, 4, Len(text)))
  ELSE <<text[1]>> \o Decoded(Tail(text))

(* Text that fills the buffer comes out empty.                             *)
http_cgi_dec(text, dst_len) ==
  IF Len(Decoded(text)) >= dst_len THEN <<>> ELSE Decoded(text)

(* Mutant: the value goes to where the key was.                            *)
PutInKey(list, field, text) == [list EXCEPT ![Len(list)].key = text]

Put(list, field, text) ==
  IF field = "key" THEN [list EXCEPT ![Len(list)].key = text]
  ELSE [list EXCEPT ![Len(list)].val = text]

NoArg == [key |-> <<>>, val |-> <<>>]

(* From src, with a word that began at word.  The letter after a delimiter *)
(* is skipped, so it is never taken for a delimiter itself; behind the     *)
(* last one the terminating zero is read as an empty word.                 *)
RECURSIVE ArgsFrom(_, _, _, _, _)
ArgsFrom(text, src, word, list, field) ==
  LET read == http_cgi_dec(SubSeq(text, word, src - 1), Len(text))
  IN  CASE src > Len(text) ->
             IF word > Len(text) THEN list ELSE Put(list, field, read)
        [] src <= Len(text) /\ text[src] = "&" ->
             ArgsFrom(text, src + 2, src + 1, Append(Put(list, field, read), NoArg), "key")
        [] src <= Len(text) /\ text[src] = "=" ->
             IF field = "val" THEN <<>>
             ELSE ArgsFrom(text, src + 2, src + 1, Put(list, field, read), "val")
        [] OTHER -> ArgsFrom(text, src + 1, word, list, field)

http_cgi_args(text) == ArgsFrom(text, 1, 1, <<NoArg>>, "key")

-----------------------------------------------------------------------------
NoUrl == [err |-> FALSE, proto |-> <<>>, user |-> <<>>, host |-> <<>>, port |-> 0,
          path |-> <<>>, args |-> <<>>]

InName(c) == isalnum(c) \/ c = "%"

(* The letter read next: two hex digits after a percent sign make one.     *)
CharLen(text) == IF text[1] = "%" THEN 3 ELSE 1
Char(text) == IF text[1] = "%" THEN Hex[<<text[2], text[3]>>] ELSE text[1]
After(text, n) == SubSeq(text, n + 1, Len(text))

RECURSIVE ParsePath(_, _, _), ParsePort(_, _, _), ParseHost(_, _, _), ParseProto(_, _, _)

ParsePath(url, buf, text) ==
  IF text = <<>> THEN [url EXCEPT !.path = buf]
  ELSE IF text[1] = "?" THEN [url EXCEPT !.path = buf, !.args = http_cgi_args(Tail(text))]
  ELSE ParsePath(url, Append(buf, Char(text)), After(text, CharLen(text)))

ParsePort(url, buf, text) ==
  LET read == [url EXCEPT !.port = strtoul(buf), !.err = buf = <<>>]
  IN  IF text = <<>> THEN read
      ELSE IF text[1] = "/" THEN IF read.err THEN read ELSE ParsePath(read, <<>>, text)
      ELSE IF text[1] \in DOMAIN Numbers \cup {"%"}
           THEN ParsePort(url, Append(buf, Char(text)), After(text, CharLen(text)))
      ELSE [url EXCEPT !.err = TRUE]

ParseHost(url, buf, text) ==
  IF text = <<>> THEN [url EXCEPT !.host = buf]
  ELSE CASE text[1] = "@" -> ParseHost([url EXCEPT !.user = buf], <<>>, Tail(text))
         [] text[1] = "/" -> ParsePath([url EXCEPT !.host = buf], <<>>, text)
         [] text[1] = ":" -> ParsePort([url EXCEPT !.host = buf], <<>>, Tail(text))
         [] InName(text[1]) -> ParseHost(url, Append(buf, Char(text)), After(text, CharLen(text)))
         [] OTHER -> [url EXCEPT !.err = TRUE]

ParseProto(url, buf, text) ==
  IF text = <<>> THEN [url EXCEPT !.proto = buf]
  ELSE CASE text[1] = ":" ->
              LET read == [url EXCEPT !.proto = buf]
              IN  IF IsPrefix(<<"/", "/">>, Tail(text)) THEN ParseHost(read, <<>>, After(text, 3))
                  ELSE ParsePath(read, <<>>, Tail(text))
         [] InName(text[1]) -> ParseProto(url, Append(buf, Char(text)), After(text, CharLen(text)))
         [] OTHER -> [url EXCEPT !.err = TRUE]

DefaultPort(proto) ==
  CASE proto = <<"http">> -> 80 [] proto = <<"https">> -> 443 [] proto = <<"ftp">> -> 21 [] OTHER -> 0

url_parse(text) ==
  LET url == ParseProto(NoUrl, <<>>, text)
  IN  IF url.err \/ url.port # 0 THEN url ELSE [url EXCEPT !.port = DefaultPort(url.proto)]

-----------------------------------------------------------------------------
(* The URLs.  A key or a value is not empty, and one key alone would fill  *)
(* the buffer it is decoded into: the code loses these.                    *)
ArgWord == {<<"a">>, <<"b", "c">>, <<"a", "sp">>}
Arg == [key : ArgWord, val : ArgWord]
Query == {<<>>} \cup {<<a>> : a \in Arg} \cup {<<a, b>> : a, b \in Arg}

UrlInit == parts \in [proto : {<<"http">>, <<"https">>, <<"ftp">>}, user : {<<>>, <<"b">>}, host : {<<"a", "c">>},
                   port : {0, 80, 12}, path : {<<>>, <<"/">>, <<"/", "a", "sp">>}, args : Query]

Quoted(text) ==
  FlattenSeq([i \in DOMAIN text |-> IF text[i] = "sp" THEN <<"%", "2", "0">> ELSE <<text[i]>>])
Port(n) == CASE n = 80 -> <<":", "80">> [] n = 12 -> <<":", "12">> [] OTHER -> <<>>
WrittenArgs(list) ==
  FlattenSeq([i \in DOMAIN list |-> (IF i = 1 THEN <<"?">> ELSE <<"&">>) \o Quoted(list[i].key)
                                     \o <<"=">> \o Quoted(list[i].val)])
UrlText(p) ==
  p.proto \o <<":", "/", "/">> \o (IF p.user = <<>> THEN <<>> ELSE p.user \o <<"@">>) \o p.host
    \o Port(p.port) \o (IF p.path = <<>> THEN <<"/">> ELSE Quoted(p.path)) \o WrittenArgs(p.args)

(* url_parse gives back the parts a URL was written from, the query split  *)
(* into its keys and values and every percent sign decoded once.           *)
UrlRead ==
  LET url == url_parse(UrlText(parts))
  IN  /\ ~url.err
      /\ url.proto = parts.proto /\ url.user = parts.user /\ url.host = parts.host
      /\ url.port = IF parts.port = 0 THEN DefaultPort(parts.proto) ELSE parts.port
      /\ url.path = IF parts.path = <<>> THEN <<"/">> ELSE parts.path
      /\ url.args = parts.args

-----------------------------------------------------------------------------
(***************************************************************************)
(* Which of two versions is newer, for update.  A version is a sequence of *)
(* the digits 0 to 9, letters from 10 on (as strcasecmp orders them), and  *)
(* -1 for the separators.  A part is shorter than its buffer.              *)
(***************************************************************************)
Sep == -1

-----------------------------------------------------------------------------
(* strspn of the separators, then strcspn: the part, and what is behind.   *)
Rest(text) ==
  LET InPart == {i \in DOMAIN text : text[i] # Sep}
  IN  IF InPart = {} THEN <<>> ELSE SubSeq(text, Min(InPart), Len(text))

PartLen(text) ==
  LET Seps == {i \in DOMAIN text : text[i] = Sep}
  IN  IF Seps = {} THEN Len(text) ELSE Min(Seps) - 1

version_part(text) ==
  LET more == Rest(text)
  IN  [part |-> SubSeq(more, 1, PartLen(more)), rest |-> SubSeq(more, PartLen(more) + 1, Len(more))]

IsInt(part) == \A i \in DOMAIN part : part[i] \in 0..9
strtol(part) == FoldLeft(LAMBDA n, digit : (10 * n) + digit, 0, part)

RECURSIVE strcasecmp(_, _)
strcasecmp(a, b) ==
  CASE a = <<>> /\ b = <<>> -> 0
    [] a = <<>>             -> -1
    [] b = <<>>             -> 1
    [] a[1] # b[1]          -> a[1] - b[1]
    [] OTHER                -> strcasecmp(Tail(a), Tail(b))

(* Mutant: numbers are compared as text too.                               *)
AsText(a, b) == strcasecmp(a, b)

ComparePart(a, b) ==
  IF IsInt(a) /\ IsInt(b) THEN strtol(a) - strtol(b) ELSE strcasecmp(a, b)

RECURSIVE vercmp(_, _)
vercmp(v1, v2) ==
  LET p1 == version_part(v1)
      p2 == version_part(v2)
      i == ComparePart(p1.part, p2.part)
  IN  CASE i # 0                            -> i
        [] i = 0 /\ p1.rest # <<>> /\ p2.rest # <<>> -> vercmp(p1.rest, p2.rest)
        [] i = 0 /\ p1.rest # <<>> /\ p2.rest = <<>> -> 1
        [] i = 0 /\ p1.rest = <<>> /\ p2.rest # <<>> -> -1
        [] OTHER                            -> 0

-----------------------------------------------------------------------------
(* A number may be written with a zero before it.                          *)
Part == [kind : {"number"}, n : Number, zero : BOOLEAN] \cup [kind : {"letter"}, n : Letter, zero : {FALSE}]
Version == SeqOf(Part, MaxParts) \ {<<>>}
VersionInit == pair \in Version \X Version

DigitsOf(n) == IF n < 10 THEN <<n>> ELSE <<n \div 10, n % 10>>
WrittenPart(p) ==
  IF p.kind = "letter" THEN <<p.n>> ELSE (IF p.zero THEN <<0>> ELSE <<>>) \o DigitsOf(p.n)
VersionText(version) ==
  FlattenSeq([i \in DOMAIN version |-> (IF i = 1 THEN <<>> ELSE <<Sep>>) \o WrittenPart(version[i])])

Sign(n) == IF n > 0 THEN 1 ELSE IF n < 0 THEN -1 ELSE 0

(* The header of update.c: lists of numbers and words are compared part by *)
(* part, numbers by their value (1.02-03 is 1.2.3), and a longer list is   *)
(* newer.  A number against a word is left out: there the order is that of *)
(* text, and not transitive (9 < 10, 10 < 1a, 1a < 9).                     *)
VersionsCompared ==
  LET v1 == pair[1]
      v2 == pair[2]
      Both == DOMAIN v1 \cap DOMAIN v2
      Differ == {i \in Both : v1[i].kind # v2[i].kind \/ v1[i].n # v2[i].n}
      compared == vercmp(VersionText(v1), VersionText(v2))
  IN  IF Differ = {} THEN Sign(compared) = Sign(Len(v1) - Len(v2))
      ELSE LET i == Min(Differ)
           IN  v1[i].kind = v2[i].kind => Sign(compared) = Sign(v1[i].n - v2[i].n)

-----------------------------------------------------------------------------
(***************************************************************************)
(* Arguments quoted into one line and split again, and the two readers of  *)
(* a command line.  A letter is a string; "bs" is the backslash and "q"    *)
(* the double quote.  An argument is not empty: opt_cat writes an empty    *)
(* one as nothing; and there is one: a line without any is split into one  *)
(* empty argument.                                                         *)
(***************************************************************************)
WhiteSpace == {"sp", "nl", "tab", "cr"}
QuotedChars == WhiteSpace \cup {"bs", "q"}

opt_needs_quote(arg) == \E i \in DOMAIN arg : arg[i] \in QuotedChars

-----------------------------------------------------------------------------
(* Mutant: a quote inside the text is written as it is.                    *)
EscapeNotQuote(c) ==
  CASE c = "nl" -> <<"bs", "n">> [] c = "bs" -> <<"bs", "bs">> [] OTHER -> <<c>>

(* The escape of a letter, in the style of C.                              *)
Escape(c) ==
  CASE c = "nl"  -> <<"bs", "n">>
    [] c = "cr"  -> <<"bs", "r">>
    [] c = "tab" -> <<"bs", "t">>
    [] c \in {"bs", "q"} -> <<"bs", c>>
    [] OTHER -> <<c>>

Unescape(c) ==
  CASE c = "n" -> "nl" [] c = "r" -> "cr" [] c = "t" -> "tab" [] OTHER -> c

Fails == <<"-1">>

(* The last three bytes of the buffer are kept for the closing quote.      *)
RECURSIVE Encoded(_, _, _)
Encoded(src, dst, end) ==
  IF src = <<>> \/ Len(dst) >= end THEN dst ELSE Encoded(Tail(src), dst \o Escape(src[1]), end)

opt_quoted_enc(src, dstlen) ==
  LET dst == Encoded(src, <<"q">>, dstlen - 3)
  IN  IF Len(dst) < dstlen - 3 THEN Append(dst, "q") ELSE Fails

(* What is decoded of src, inside quotes or not, and what is left of it.   *)
RECURSIVE Dec(_, _, _, _)
SkipSpace(src) ==
  LET Full == {i \in DOMAIN src : src[i] \notin WhiteSpace}
  IN  IF Full = {} THEN <<>> ELSE SubSeq(src, Min(Full), Len(src))
Dec(src, dst, max, quoted) ==
  IF src = <<>> \/ Len(dst) >= max THEN [dst |-> dst, src |-> src]
  ELSE LET c == src[1]
       IN  CASE c = "q" -> Dec(Tail(src), dst, max, ~quoted)
             [] quoted /\ c = "bs" /\ Len(src) > 1 ->
                  Dec(Tail(Tail(src)), Append(dst, Unescape(src[2])), max, TRUE)
             [] ~quoted /\ c \in WhiteSpace -> [dst |-> dst, src |-> SkipSpace(src)]
             [] OTHER -> Dec(Tail(src), Append(dst, c), max, quoted)

opt_quoted_dec(src, len) == Dec(SkipSpace(src), <<>>, len - 1, FALSE)

-----------------------------------------------------------------------------
(* The arguments with a space between them and a line end behind them.     *)
RECURSIVE Cat(_, _, _)
Cat(more, out, nout) ==
  IF nout < 2 THEN Fails
  ELSE IF more = <<>> THEN Append(out, "nl")
  ELSE LET sep == IF out = <<>> THEN <<>> ELSE <<"sp">>
           left == nout - Len(sep)
           arg == IF opt_needs_quote(more[1]) THEN opt_quoted_enc(more[1], left)
                  ELSE SubSeq(more[1], 1, IF left < Len(more[1]) THEN left ELSE Len(more[1]))
       IN  IF arg = Fails THEN Fails
           ELSE Cat(Tail(more), out \o sep \o arg, left - Len(arg))

opt_cat(argv, len) == Cat(argv, <<>>, len)

(* Split in place: an argument has the room of what is left of the text.   *)
RECURSIVE opt_str2argv(_)
opt_str2argv(str) ==
  IF str = <<>> THEN <<>>
  ELSE LET read == opt_quoted_dec(str, Len(str) + 1)
       IN  <<read.dst>> \o opt_str2argv(read.src)

-----------------------------------------------------------------------------
(* A command line: words of dashes and a text.  Option "n" takes a number, *)
(* "s" any word, and "v" nothing.                                          *)
Word(dashes, text) == [dashes |-> dashes, text |-> text]
OptSet == [n |-> "i", s |-> "s", v |-> "flag"]
Numerals == {"5", "7"}

NoVals == [o \in DOMAIN OptSet |-> <<>>]

(* Mutant: the argument is looked for at the option itself.                *)
ValueAtSwitch(argv, i) == i

(* The option's argument follows it, whatever it begins with.              *)
ValueAt(argv, i) == i + 1

(* opt_argv2optv: the values, and the index of the first non-option or of  *)
(* the bad one.                                                            *)
RECURSIVE Options(_, _, _)
Options(argv, optind, vals) ==
  LET arg == argv[optind]
      Stop(at, bad) == [at |-> at, bad |-> bad, vals |-> vals]
  IN  CASE optind > Len(argv)                         -> Stop(optind, FALSE)
        [] optind <= Len(argv) /\ arg = Word(2, "")   -> Stop(optind + 1, FALSE)
        [] optind <= Len(argv) /\ arg.dashes = 0      -> Stop(optind, FALSE)
        [] optind <= Len(argv) /\ arg.dashes > 0 /\ arg # Word(2, "") ->
             IF arg.text \notin DOMAIN OptSet THEN Stop(optind, TRUE)
             ELSE IF OptSet[arg.text] = "flag"
                  THEN Options(argv, optind + 1, [vals EXCEPT ![arg.text] = <<Word(0, "1")>>])
             ELSE LET i == ValueAt(argv, optind)
                  IN  IF i > Len(argv) THEN Stop(i, TRUE)
                      ELSE IF OptSet[arg.text] = "i" /\ argv[i].text \notin Numerals THEN Stop(i, TRUE)
                      ELSE Options(argv, i + 1, [vals EXCEPT ![arg.text] = <<argv[i]>>])

(* A required option that was not given takes the word at the index, which *)
(* stays there; behind a word that begins with "-" it takes the next one.  *)
(* That there is none is not reported: err is reset behind the loop.       *)
Required(optv, argv) ==
  IF optv.bad \/ ~required \/ optv.vals["s"] # <<>> \/ optv.at > Len(argv) THEN optv
  ELSE LET i == IF argv[optv.at].dashes > 0 THEN optv.at + 1 ELSE optv.at
       IN  [optv EXCEPT !.at = i, !.vals["s"] = <<argv[IF i > Len(argv) THEN optv.at ELSE i]>>]

opt_argv2optv(argv) == Required(Options(argv, 1, NoVals), argv)

(* opt_get_argv: the next option, or the end.  What is not a number is no  *)
(* error: the error is reset behind the check.                             *)
opt_get_argv(argv, argi) ==
  LET arg == argv[argi]
      Error(at) == [argi |-> at, id |-> "end", val |-> <<>>]
  IN  CASE argi > Len(argv)                       -> Error(argi)
        [] argi <= Len(argv) /\ arg.dashes = 0    -> Error(argi)
        [] argi <= Len(argv) /\ arg = Word(2, "") -> Error(argi + 1)
        [] argi <= Len(argv) /\ arg.dashes > 0 /\ arg # Word(2, "") ->
             IF arg.text \notin DOMAIN OptSet THEN [Error(argi) EXCEPT !.id = "unknown"]
             ELSE IF OptSet[arg.text] = "flag"
                  THEN [argi |-> argi + 1, id |-> arg.text, val |-> <<Word(0, "1")>>]
             ELSE IF argi = Len(argv) THEN [Error(argi + 1) EXCEPT !.id = "missing"]
             ELSE [argi |-> argi + 2, id |-> arg.text, val |-> <<argv[ValueAt(argv, argi)]>>]

RECURSIVE AllRead(_, _)
AllRead(argv, argi) ==
  LET opt == opt_get_argv(argv, argi)
  IN  IF opt.id \notin DOMAIN OptSet THEN [at |-> opt.argi, uses |-> <<>>]
      ELSE LET more == AllRead(argv, opt.argi)
           IN  [at |-> more.at, uses |-> <<[opt |-> opt.id, val |-> opt.val]>> \o more.uses]

-----------------------------------------------------------------------------
Use == [opt : {"n"}, val : {<<Word(0, "5")>>, <<Word(1, "7")>>}]
         \cup [opt : {"s"}, val : {<<Word(0, "x")>>, <<Word(2, "")>>, <<Word(1, "v")>>}]
         \cup [opt : {"v"}, val : {<<Word(0, "1")>>}]

OptInit ==
  \/ /\ args \in SeqOf(SeqOf(Chars, MaxLen) \ {<<>>}, MaxArgs) \ {<<>>}
     /\ room \in 0..MaxRoom
     /\ uses = <<>> /\ rest = <<>> /\ required = FALSE
  \/ /\ args = <<>> /\ room = 0 /\ required \in BOOLEAN
     /\ uses \in SeqOf(Use, MaxArgs + 1)
     /\ rest \in {<<>>, <<Word(0, "x")>>, <<Word(2, ""), Word(1, "v")>>, <<Word(0, "x"), Word(1, "v")>>}

WrittenUse(u, dashes) ==
  <<Word(dashes, u.opt)>> \o (IF OptSet[u.opt] = "flag" THEN <<>> ELSE u.val)
CommandLine ==
  FlattenSeq([i \in DOMAIN uses |-> WrittenUse(uses[i], 1 + (i % 2))]) \o rest

(* Whatever the size of the buffer, opt_cat fails or its line is split     *)
(* into the arguments it was made of, letter by letter.                    *)
SplitAgain == opt_cat(args, room) = Fails \/ opt_str2argv(opt_cat(args, room)) = args

(* Both readers agree on a command line: every option has the value that   *)
(* was last given for it, also one that looks like an option, and both     *)
(* stop at the first word that is not an option, behind "--".              *)
OptionsRead ==
  LET optv == opt_argv2optv(CommandLine)
      iter == AllRead(CommandLine, 1)
      Given(o) == {i \in DOMAIN uses : uses[i].opt = o}
      First == Len(CommandLine) - Len(rest) + (IF rest # <<>> /\ rest[1] = Word(2, "") THEN 2 ELSE 1)
      Word1 == IF First > Len(CommandLine) THEN <<>> ELSE <<CommandLine[First]>>
      InItsPlace(o) == required /\ o = "s" /\ Given(o) = {} /\ Word1 # <<>>
  IN  /\ ~optv.bad
      /\ \A o \in DOMAIN OptSet :
           IF InItsPlace(o) THEN Word1[1].dashes = 0 => optv.vals[o] = Word1
           ELSE /\ optv.vals[o] = IF Given(o) = {} THEN <<>> ELSE uses[Max(Given(o))].val
                /\ o = "s" => optv.at = First
      /\ iter.at = First /\ iter.uses = uses
=============================================================================
