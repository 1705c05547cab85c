----------------------------- MODULE MCLibrary -----------------------------
(***************************************************************************)
(* Library, and beside its parts the texts that are read: of those every   *)
(* state is an input, and nothing happens.                                 *)
(***************************************************************************)
EXTENDS Library

(* Two pairs of keys have the same hash value.                             *)
HashCollide == [k \in Key |-> k % 3]

(* One key gets values that differ.                                        *)
ThePuts == LET v == CHOOSE v \in Val : TRUE IN (Key \X {v}) \cup ({1} \X Val)

TheNs == <<"net", "mnt">>
ThePath == {<<"a", "b", "f">>, <<"a", "b", "c", "f">>, <<"a", "c">>}
TheValue == {<<"a", "b", "c">>, <<"d">>}

X == INSTANCE Texts WITH
       Number <- {0, 2, 9, 10}, Letter <- {11, 12}, MaxParts <- 2,
       Chars <- {"a", "n", "nl", "bs", "q"}, MaxLen <- 2, MaxArgs <- 2, MaxRoom <- 16,
       parts <- v1, pair <- v1,
       args <- v1, room <- v2, uses <- v3, rest <- v4, required <- v5

TextInit ==
  \/ which = "url" /\ X!UrlInit /\ Off2
  \/ which = "version" /\ X!VersionInit /\ Off2
  \/ which = "options" /\ X!OptInit /\ Off6

InitWithTexts == AllInit \/ (Init /\ TextInit)

SpecWithTexts == InitWithTexts /\ [][AllNext]_allVars

(* What is computed from a state, or from none: texts are read as they     *)
(* were written, or compared as the numbers and names in them; bsearch     *)
(* finds an element or its place; the leak report names what is still      *)
(* allocated.  See Texts, Array's BsearchFinds and Debug's LeaksTold.      *)
ResultsRight ==
  /\ which = "url" => X!UrlRead
  /\ which = "version" => X!VersionsCompared
  /\ which = "options" => X!SplitAgain /\ X!OptionsRead
  /\ which = "array" => A!BsearchFinds
  /\ which = "leak" => B!LeaksTold
=============================================================================
