---------------------------- MODULE PipeChannel ----------------------------
(***************************************************************************)
(* What one direction of a pipe promises: a bounded first-in first-out     *)
(* channel of bytes.  Bytes are numbered in the order the writer sent      *)
(* them.  The end of the stream is passed on after the last byte, unless   *)
(* the channel broke.                                                      *)
(***************************************************************************)
EXTENDS Integers, Sequences

CONSTANT Capacity   (* the size of the buffer between the two ends         *)

VARIABLES
  taken,   (* bytes taken from the writer                                  *)
  given,   (* the bytes handed to the reader, in order                     *)
  ended,   (* the reader was told that no more bytes come                  *)
  broken   (* the reader cannot take bytes any more                        *)

chanVars == <<taken, given, ended, broken>>

Init ==
  /\ taken = 0
  /\ given = <<>>
  /\ ended = FALSE
  /\ broken = FALSE

Take ==
  /\ ~ended
  /\ \E n \in 1..Capacity :
       /\ taken + n - Len(given) <= Capacity \/ broken
       /\ taken' = taken + n
  /\ UNCHANGED <<given, ended, broken>>

(* The next bytes, none skipped and none repeated.                         *)
Give ==
  /\ ~ended
  /\ ~broken
  /\ \E n \in 1..(taken - Len(given)) :
       given' = [i \in 1..(Len(given) + n) |-> i]
  /\ UNCHANGED <<taken, ended, broken>>

End ==
  /\ ~ended
  /\ taken = Len(given) \/ broken
  /\ ended' = TRUE
  /\ UNCHANGED <<taken, given, broken>>

Break ==
  /\ ~broken
  /\ broken' = TRUE
  /\ UNCHANGED <<taken, given, ended>>

Next == Take \/ Give \/ End \/ Break

Spec == Init /\ [][Next]_chanVars
=============================================================================
