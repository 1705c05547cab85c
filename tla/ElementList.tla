---------------------------- MODULE ElementList ----------------------------
(***************************************************************************)
(* What array.h promises: a list, changed at one place at a time or sorted *)
(* as a whole.                                                             *)
(***************************************************************************)
EXTENDS Integers, Sequences

VARIABLE list

Init == list = <<>>

Before(i) == SubSeq(list, 1, i)
After(i) == SubSeq(list, i + 1, Len(list))

(* New elements at one place; those around it keep their order.            *)
Insert ==
  /\ Len(list') > Len(list)
  /\ \E i \in 0..Len(list) :
       list' = Before(i) \o SubSeq(list', i + 1, i + Len(list') - Len(list)) \o After(i)

Remove == \E i, j \in 0..Len(list) : i < j /\ list' = Before(i) \o After(j)

(* The same elements, none of them before a smaller one.                   *)
Sort ==
  /\ \A i, j \in DOMAIN list' : i < j => list'[i] <= list'[j]
  /\ \E p \in [DOMAIN list -> DOMAIN list] :
       /\ \A i, j \in DOMAIN list : p[i] = p[j] => i = j
       /\ list' = [i \in DOMAIN list |-> list[p[i]]]

Next == Insert \/ Remove \/ Sort

Spec == Init /\ [][Next]_list
=============================================================================
