-------------------------------- MODULE Mmap --------------------------------
(***************************************************************************)
(* mmap.c: a file mapped as a whole, that grows by blocks while it is      *)
(* written and is cut to its length when it is closed.                     *)
(***************************************************************************)
EXTENDS Integers, SequencesExt

CONSTANTS
  Handle,       (* users of the file                                       *)
  Concurrent,   (* whether it may be open for writing with others          *)
  GoesOn,       (* whether a program goes on after mmap_write has failed   *)
  blocksz,
  MaxLen        (* bound: the length of the file                           *)

VARIABLES
  file,     (* the bytes on disk                                           *)
  mm,       (* per handle: open, mode, how much is mapped at start, max,   *)
            (* len; whether mmap_write failed and the program gave up      *)
  content   (* history: what the same writes would have made of it         *)

MmapAssumption == blocksz \in Nat \ {0} /\ MaxLen \in Nat

vars == <<file, mm, content>>

Byte == {0, 1}
Zeros(n) == [i \in 1..n |-> 0]
Padded(text, n) == text \o Zeros(n - Len(text))
Prefix(text, n) == SubSeq(text, 1, n)

Closed == [open |-> FALSE, write |-> FALSE, mapped |-> 0, max |-> 0, len |-> 0,
           gaveUp |-> FALSE]

Init ==
  /\ file \in {Zeros(n) : n \in 0..2}
  /\ content = file
  /\ mm = [h \in Handle |-> Closed]

MayOpen(h, write) ==
  \A g \in Handle \ {h} : mm[g].open => Concurrent \/ (~mm[g].write /\ ~write)

(* mmap_open: all of the file is mapped, nothing of an empty one.          *)
mmap_open(h, write) ==
  /\ ~mm[h].open
  /\ MayOpen(h, write)
  /\ mm' = [mm EXCEPT ![h] = [open |-> TRUE, write |-> write, mapped |-> Len(file),
                              max |-> Len(file), len |-> Len(file), gaveUp |-> FALSE]]
  /\ UNCHANGED <<file, content>>

(* Mutant: the file grows by whole blocks only.                            *)
RoundDown(n) == (n \div blocksz) * blocksz

RoundUp(n) == (((n + blocksz) - 1) \div blocksz) * blocksz

NoRoom(s, off, len) == s.mapped = 0 \/ off + len > s.max

(* The end of the file is moved by a zero in its last place; then the      *)
(* mapping follows.                                                        *)
Grown(s, off, len) ==
  IF NoRoom(s, off, len)
  THEN [s EXCEPT !.max = RoundUp(off + len), !.mapped = RoundUp(off + len)]
  ELSE s

FileFor(s) == IF s.max > Len(file) THEN Padded(file, s.max) ELSE file

(* len bytes b at off.                                                     *)
Stored(text, off, len, b) ==
  [i \in DOMAIN text |-> IF i \in (off + 1)..(off + len) THEN b ELSE text[i]]

(* mmap_write, and its caller stores what it was called for.  MMAP_APPEND  *)
(* is an offset of mm->len.                                                *)
mmap_write(h, off, len, b) ==
  LET s   == Grown(mm[h], off, len)
      end == off + len
  IN  /\ mm[h].open
      /\ mm[h].write
      /\ ~mm[h].gaveUp
      /\ end <= MaxLen
      /\ file' = Stored(FileFor(s), off, len, b)
      /\ mm' = [mm EXCEPT ![h] = [s EXCEPT !.len = IF end > @ THEN end ELSE @]]
      /\ content' =
           Stored(IF end > Len(content) THEN Padded(content, end) ELSE content, off, len, b)

(* The file cannot be extended: max has been set already.                  *)
WriteFails(h, off, len) ==
  /\ mm[h].open
  /\ mm[h].write
  /\ ~mm[h].gaveUp
  /\ off + len <= MaxLen
  /\ NoRoom(mm[h], off, len)
  /\ mm' = [mm EXCEPT ![h].max = RoundUp(off + len), ![h].gaveUp = ~GoesOn]
  /\ UNCHANGED <<file, content>>

(* Mutant: the blocks at the end stay.                                     *)
CutNever(s) == file

(* ftruncate.                                                              *)
Cut(s) ==
  IF s.write /\ s.len # s.max THEN Prefix(Padded(file, s.len), s.len) ELSE file

mmap_close(h) ==
  /\ mm[h].open
  /\ file' = Cut(mm[h])
  /\ mm' = [mm EXCEPT ![h] = Closed]
  /\ UNCHANGED content

Next ==
  \E h \in Handle :
    \/ \E write \in BOOLEAN : mmap_open(h, write)
    \/ \E off \in 0..MaxLen, len \in 1..2 :
         \/ \E b \in Byte : mmap_write(h, off, len, b)
         \/ WriteFails(h, off, len)
    \/ mmap_close(h)

Spec == Init /\ [][Next]_vars

-----------------------------------------------------------------------------
(* A file that nobody has open holds what was written, and nothing behind  *)
(* it; what an open handle takes for mapped is, and is in the file.        *)
FileHolds ==
  /\ (\A h \in Handle : ~mm[h].open) => file = content
  /\ \A h \in Handle :
       mm[h].open /\ ~mm[h].gaveUp => mm[h].max <= mm[h].mapped /\ mm[h].max <= Len(file)

(* Its inductive strengthening, for one writer at a time: the file is what *)
(* was written and zeros behind it, all of it mapped, and it will be cut   *)
(* if there is more of it.                                                 *)
TypeOK ==
  /\ file \in Seq(Byte) /\ content \in Seq(Byte)
  /\ mm \in [Handle -> [open : BOOLEAN, write : BOOLEAN, mapped : Nat, max : Nat, len : Nat,
                        gaveUp : BOOLEAN]]

Writes(h) == mm[h].open /\ mm[h].write

OneWriter == \A g, h \in Handle : Writes(g) /\ mm[h].open => g = h

WrittenAndZeros(len) ==
  /\ Len(content) = len /\ len <= Len(file)
  /\ \A i \in 1..Len(file) : file[i] = IF i <= len THEN content[i] ELSE 0

IInv ==
  /\ TypeOK
  /\ OneWriter
  /\ (\A h \in Handle : ~Writes(h)) => file = content
  /\ \A h \in Handle : mm[h].open =>
       /\ IF mm[h].gaveUp THEN mm[h].write /\ mm[h].max > mm[h].len
          ELSE mm[h].mapped = Len(file) /\ mm[h].max = Len(file)
       /\ mm[h].write => WrittenAndZeros(mm[h].len)
=============================================================================
