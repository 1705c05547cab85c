------------------------------ MODULE FiniteMap -----------------------------
(***************************************************************************)
(* What hash.h promises: values fetched by keys.                           *)
(***************************************************************************)
CONSTANTS Key, Val, NoVal

VARIABLE map    (* the value of every key, NoVal where there is none       *)

Init == map = [k \in Key |-> NoVal]

Put == \E v \in Val : map' \in {[map EXCEPT ![k] = v] : k \in Key}

Remove == map' \in {[map EXCEPT ![k] = NoVal] : k \in Key}

Clear == map' = [k \in Key |-> NoVal]

Next == Put \/ Remove \/ Clear

Spec == Init /\ [][Next]_map
=============================================================================
