-------------------------------- MODULE Cfg --------------------------------
(***************************************************************************)
(* cfg.c: values kept in files, one for the user and one for everybody     *)
(* under the same key, and a list of what was used last.  Programs put     *)
(* values at the same time; opening the file empties it, the value is      *)
(* written when it is closed, and a program may be killed in between.      *)
(* One key is modelled; a list fits in its buffer.                         *)
(***************************************************************************)
EXTENDS Integers, Sequences, SequencesExt, FiniteSets

CONSTANTS
  Proc,     (* programs                                                    *)
  Value,    (* values: sequences of letters                                *)
  Item,     (* what the list of the last used holds                        *)
  MruMax    (* how many of them it may hold                                *)

VARIABLES
  home,     (* $HOME is set: the user has a directory of its own           *)
  file,     (* of each directory: <<>> when there is none, or <<contents>> *)
  put,      (* of each program: the put it is in the middle of             *)
  (* kept of the history                                                   *)
  latest,   (* what the last put of each directory left, like file         *)
  mixed,    (* directories whose last put was killed, failed or overlapped *)
  recent, used  (* the list, and what it was given, newest first           *)

vars == <<home, file, put, latest, mixed, recent, used>>

Where == {"user", "global"}
Idle == [at |-> "idle", dir |-> "global", val |-> <<>>, lost |-> FALSE]

(* cfg_new: without $HOME the user's directory is the one for everybody.   *)
Dir(where) == IF home THEN where ELSE "global"

Init ==
  /\ home \in BOOLEAN
  /\ file = [d \in Where |-> <<>>]
  /\ put = [p \in Proc |-> Idle]
  /\ latest = [d \in Where |-> <<>>]
  /\ mixed = {}
  /\ recent = <<>> /\ used = <<>>

Writing(d) == {p \in Proc : put[p].at # "idle" /\ put[p].dir = d}

-----------------------------------------------------------------------------
(* dir_mkpath and fopen.  One that fails changes nothing.                  *)
cfg_put(p, where, val) ==
  LET d == Dir(where)
  IN  /\ put[p].at = "idle"
      /\ put' = [put EXCEPT ![p] = [at |-> "open", dir |-> d, val |-> val, lost |-> FALSE]]
      /\ file' = [file EXCEPT ![d] = << <<>> >>]
      /\ mixed' = IF Writing(d) # {} THEN mixed \cup {d} ELSE mixed \ {d}
      /\ UNCHANGED <<home, latest, recent, used>>

(* No value: the file is removed, also under a program that writes it.     *)
cfg_put_none(p, where) ==
  LET d == Dir(where)
  IN  /\ put[p].at = "idle"
      /\ file' = [file EXCEPT ![d] = <<>>]
      /\ put' = [q \in Proc |-> IF q \in Writing(d) THEN [put[q] EXCEPT !.lost = TRUE] ELSE put[q]]
      /\ mixed' = IF Writing(d) # {} THEN mixed \cup {d} ELSE mixed \ {d}
      /\ latest' = [latest EXCEPT ![d] = <<>>]
      /\ UNCHANGED <<home, recent, used>>

(* From the start of the file on: what is behind the value stays.          *)
Over(old, new) == new \o SubSeq(old, Len(new) + 1, Len(old))

(* fwrite and fclose; a write that fails leaves the file as it is.         *)
Close(p, written) ==
  LET d == put[p].dir
  IN  /\ put[p].at = "open"
      /\ put' = [put EXCEPT ![p] = Idle]
      /\ file' = IF ~written \/ put[p].lost \/ file[d] = <<>> THEN file
                 ELSE [file EXCEPT ![d] = <<Over(@[1], put[p].val)>>]
      /\ latest' = [latest EXCEPT ![d] = <<put[p].val>>]
      /\ mixed' = IF ~written \/ Writing(d) # {p} THEN mixed \cup {d} ELSE mixed
      /\ UNCHANGED <<home, recent, used>>

Killed(p) ==
  /\ put[p].at = "open"
  /\ put' = [put EXCEPT ![p] = Idle]
  /\ mixed' = mixed \cup {put[p].dir}
  /\ UNCHANGED <<home, file, latest, recent, used>>

-----------------------------------------------------------------------------
(* Mutant: the file for everybody is looked at first.                      *)
GlobalFirst == IF file["global"] # <<>> THEN "global" ELSE Dir("user")

(* The file that is opened.                                                *)
Found == IF file[Dir("user")] # <<>> THEN Dir("user") ELSE "global"

(* What is in the buffer: the last byte is the terminating zero.           *)
cfg_get(len) ==
  IF file[Found] = <<>> THEN <<>>
  ELSE SubSeq(file[Found][1], 1, IF Len(file[Found][1]) < len THEN Len(file[Found][1]) ELSE len - 1)

-----------------------------------------------------------------------------
(* Mutant: val is not taken out of the rest of the list.                   *)
KeepAll(list, val) == list

Others(list, val) == SelectSeq(list, LAMBDA item : item # val)

(* val on top of the others.                                               *)
mru(list, val, max) ==
  LET others == Others(list, val)
  IN  <<val>> \o SubSeq(others, 1, IF Len(others) < max THEN Len(others) ELSE max - 1)

Use(val) ==
  /\ recent' = mru(recent, val, MruMax)
  /\ used' = <<val>> \o SelectSeq(used, LAMBDA item : item # val)
  /\ UNCHANGED <<home, file, put, latest, mixed>>

(* The list as text: an item is as many letters as its number, and a line. *)
TextOf(item) == [i \in 1..item |-> "x"]

cfg_list_pack(text, item) == (text \o TextOf(item)) \o <<"nl">>

(* Mutant: a line is not cut to the buffer.                                *)
NextOver(text, len) ==
  LET end == SelectInSeq(text, LAMBDA c : c = "nl")
  IN  [buf |-> SubSeq(text, 1, end - 1), rest |-> SubSeq(text, end + 1, Len(text))]

(* A line of a list, as much of it as there is place for, in a buffer that *)
(* the caller has filled with zeros: a line that fills it gets none.       *)
cfg_list_next(text, len) ==
  LET end == SelectInSeq(text, LAMBDA c : c = "nl")
      n   == IF end < len THEN end - 1 ELSE len - 1
  IN  [buf |-> SubSeq(text, 1, n), rest |-> SubSeq(text, end + 1, Len(text))]

Next ==
  \/ \E p \in Proc :
       \/ \E where \in Where, val \in Value : cfg_put(p, where, val)
       \/ \E where \in Where : cfg_put_none(p, where)
       \/ \E written \in BOOLEAN : Close(p, written)
       \/ Killed(p)
  \/ \E val \in Item : Use(val)

Spec == Init /\ [][Next]_vars

-----------------------------------------------------------------------------
(* A get gives what the user put last, or else what was put for everybody, *)
(* as far as it fits in the buffer, when no put of that directory overlaps *)
(* another or was cut short.  One that was leaves an empty file or, where  *)
(* two overlapped, parts of both values.                                   *)
Layered ==
  LET d == IF latest[Dir("user")] # <<>> THEN Dir("user") ELSE "global"
  IN  (\A w \in Where : Writing(w) = {}) /\ mixed = {} =>
        \A len \in 1..3 :
          cfg_get(len) = IF latest[d] = <<>> THEN <<>>
                         ELSE SubSeq(latest[d][1], 1, IF Len(latest[d][1]) < len THEN Len(latest[d][1]) ELSE len - 1)

(* The list holds the last used once each, newest first.                   *)
RecentFirst == recent = SubSeq(used, 1, IF Len(used) < MruMax THEN Len(used) ELSE MruMax)

(* The text of the list gives its items back, each as far as it fits.      *)
ListReadBack ==
  LET text == FoldLeft(cfg_list_pack, <<>>, recent)
  IN  \A len \in 2..4 :
        LET read == FoldLeft(LAMBDA r, item : [cfg_list_next(r.rest, len) EXCEPT !.buf = Append(r.buf, @)],
                             [buf |-> <<>>, rest |-> text], recent)
        IN  /\ read.rest = <<>>
            /\ \A i \in DOMAIN recent :
                 read.buf[i] = TextOf(IF recent[i] < len THEN recent[i] ELSE len - 1)
=============================================================================
