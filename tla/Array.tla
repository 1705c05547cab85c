------------------------------- MODULE Array -------------------------------
(***************************************************************************)
(* array.c: elements in one block of memory that realloc makes longer.     *)
(* m_max cells are in the block, m_count of them hold elements; a cell is  *)
(* one element wide.  realloc may fail.                                    *)
(***************************************************************************)
EXTENDS Integers, Sequences, TLC

CONSTANTS
  Elt,           (* the elements, numbers above zero                       *)
  BlockSz,       (* m_blocksz                                              *)
  MaxCells,      (* bound: how long an array gets                          *)
  AnyInsert      (* whether array_insert is called with a tail of another  *)
                 (* length than what is inserted                           *)

VARIABLES
  m_array,   (* the cells of the block, or <<>> for the null pointer       *)
  m_count,
  m_max,
  lost,      (* a realloc failed: m_array is null, m_count and m_max stay  *)
  outside    (* a cell outside of the block was written                    *)

vars == <<m_array, m_count, m_max, lost, outside>>

Elts == UNION {[1..n -> Elt] : n \in 1..2}

Zeros(n) == [i \in 1..n |-> 0]

(* array_init.                                                             *)
Init ==
  /\ m_array = <<>>
  /\ m_count = 0
  /\ m_max = 0
  /\ lost = FALSE
  /\ outside = FALSE

(* The elements array_get gives.                                           *)
Elements == IF lost THEN <<>> ELSE SubSeq(m_array, 1, m_count)

(* array_get: the position of the element, or 0 for a null pointer.        *)
array_get(i) ==
  LET k == IF i < 0 THEN m_count + i ELSE i
  IN  IF m_array # <<>> /\ k \in 0..(m_count - 1) THEN k + 1 ELSE 0

-----------------------------------------------------------------------------
(* Mutant: the new cells are counted from the old size of the block.       *)
GrownToOldMax(num) == m_max + (IF num > BlockSz THEN num ELSE BlockSz) - 1

(* m_max after array_add made room for num elements.                       *)
Grown(num) == m_count + (IF num > BlockSz THEN num ELSE BlockSz)

(* array_add for the cells that content has more than the array; past is   *)
(* the last cell the caller writes, count and failed are what m_count is   *)
(* after the call, with and without memory.                                *)
array_add(content, past, count, failed) ==
  LET need == Len(content)
      num  == need - m_count
  IN  \/ /\ need <= m_max
         /\ m_array' = content \o SubSeq(m_array, need + 1, Len(m_array))
         /\ outside' = (outside \/ past > Len(m_array))
         /\ m_count' = count
         /\ UNCHANGED <<m_max, lost>>
      \/ /\ need > m_max
         /\ m_max' = Grown(num)
         /\ m_array' = content \o Zeros(Grown(num) - need)
         /\ outside' = (outside \/ past > Grown(num))
         /\ m_count' = count
         /\ UNCHANGED lost
      \/ /\ need > m_max
         /\ m_max' = Grown(num)
         /\ m_array' = <<>>
         /\ lost' = TRUE
         /\ m_count' = failed
         /\ UNCHANGED outside

(* Callers stop using an array whose elements are lost, and clear it.      *)
array_append(elts) ==
  LET new == m_count + Len(elts)
  IN  /\ ~lost
      /\ new <= MaxCells
      /\ array_add(Elements \o elts, new, new, m_count)

(* All of the array is added to itself.                                    *)
array_concat ==
  /\ m_count > 0
  /\ array_append(Elements)

(* Growing adds as many cells as the new count, and then counts fewer.     *)
array_set_count(n) ==
  /\ ~lost
  /\ IF n > m_count
     THEN array_add(Elements \o Zeros(n), m_count + n, n, n)
     ELSE m_count' = n /\ UNCHANGED <<m_array, m_max, lost, outside>>

(* array_find searches from the end.                                       *)
array_find(e) ==
  LET found == {i \in 1..m_count : m_array[i] = e}
  IN  IF found = {} THEN -1 ELSE (CHOOSE i \in found : \A j \in found : j <= i) - 1

array_add_nodup(e) ==
  /\ ~lost
  /\ array_find(e) < 0
  /\ array_append(<<e>>)

(* Mutant: the first element of the tail is not moved.                     *)
InsertedShort(idx, elts) ==
  [i \in 1..(m_count + Len(elts)) |->
     IF i <= idx THEN m_array[i]
     ELSE IF i <= idx + Len(elts) THEN elts[i - idx]
     ELSE IF i > m_count + 1 THEN m_array[i - Len(elts)] ELSE 0]

(* The move in array_insert: the tail goes to the end of the old elements, *)
(* as many cells as it has.                                                *)
Inserted(idx, elts) ==
  LET tail  == m_count - idx
      cells == [i \in 1..(m_count + Len(elts)) |->
                  IF i > m_count /\ i <= m_count + tail THEN m_array[idx + i - m_count]
                  ELSE IF i <= m_count THEN m_array[i] ELSE 0]
  IN  [i \in DOMAIN cells |-> IF i \in (idx + 1)..(idx + Len(elts)) THEN elts[i - idx] ELSE cells[i]]

(* array_insert, at an element that is there or at the end.                *)
array_insert(idx, elts) ==
  LET tail == m_count - idx
      new  == m_count + Len(elts)
  IN  /\ ~lost
      /\ tail >= 0
      /\ AnyInsert \/ tail \in {0, Len(elts)}
      /\ new <= MaxCells
      /\ array_add(Inserted(idx, elts), IF tail > Len(elts) THEN m_count + tail ELSE new, new, m_count)

(* How many elements array_remove_idx removes at index i >= 0.             *)
RemovedLen(i, len) == IF len <= 0 \/ i + len > m_count THEN m_count - i ELSE len

(* An index below -m_count would be taken for one from the end twice.      *)
array_remove_idx(idx, len) ==
  LET i == IF idx < 0 THEN idx + m_count ELSE idx
      n == RemovedLen(i, len)
  IN  /\ array_get(i) # 0
      /\ m_array' = [k \in 1..Len(m_array) |->
                       IF k > i /\ k + n <= m_count THEN m_array[k + n] ELSE m_array[k]]
      /\ m_count' = m_count - n
      /\ UNCHANGED <<m_max, lost, outside>>

(* The orders in which no element of s comes before a smaller one: qsort_r *)
(* leaves the elements in one of them.                                     *)
Orders(s) ==
  {p \in [DOMAIN s -> DOMAIN s] :
     \A i, j \in DOMAIN s : i < j => p[i] # p[j] /\ s[p[i]] <= s[p[j]]}

array_qsort ==
  /\ ~lost
  /\ \E p \in Orders(Elements) :
       m_array' = [i \in DOMAIN p |-> Elements[p[i]]] \o SubSeq(m_array, m_count + 1, Len(m_array))
  /\ UNCHANGED <<m_count, m_max, lost, outside>>

(* array_clear and array_extract leave the same empty array.               *)
array_clear ==
  /\ m_array' = <<>>
  /\ m_count' = 0
  /\ m_max' = 0
  /\ lost' = FALSE
  /\ UNCHANGED outside

(* array_import into an array that is empty.                               *)
array_import(elts) ==
  /\ m_max = 0
  /\ m_array' = elts
  /\ m_count' = Len(elts)
  /\ m_max' = Len(elts)
  /\ UNCHANGED <<lost, outside>>

Next ==
  \/ \E elts \in Elts : array_append(elts) \/ array_import(elts)
  \/ \E elts \in Elts, i \in 0..MaxCells : array_insert(i, elts)
  \/ \E e \in Elt : array_add_nodup(e)
  \/ \E n \in 0..(MaxCells \div 2) : array_set_count(n)
  \/ \E i \in (-m_count)..m_count, n \in -1..MaxCells : array_remove_idx(i, n)
  \/ array_concat
  \/ array_qsort
  \/ array_clear

Spec == Init /\ [][Next]_vars

-----------------------------------------------------------------------------
(* Mutant: the upper half is searched after a smaller element was found.   *)
HalvedTooFar(s, e, a, b) ==
  LET m == (a + b) \div 2
  IN  CASE a >= b      -> <<a, a>>
        [] e = s[m]    -> <<m, m>>
        [] e < s[m]    -> <<a, m - 1>>
        [] OTHER       -> IF a = m THEN <<a, a>> ELSE <<m, b>>

(* One turn of the loop of array_bsearch, positions instead of indexes.    *)
Halved(s, e, a, b) ==
  LET m == (a + b) \div 2
  IN  CASE a >= b                           -> <<a, a>>
        [] e = s[m]                         -> <<m, m>>
        [] e < s[m]                         -> <<a, m>>
        [] e > s[m] /\ a # m                -> <<m, b>>
        [] e > s[m] /\ a = m /\ e >= s[b]   -> <<b, b>>
        [] OTHER                            -> <<a, a>>

(* array_bsearch in a sorted sequence: an index, or -1.                    *)
array_bsearch(s, e) ==
  LET search[w \in (1..Len(s)) \X (1..Len(s))] ==
        IF w[1] >= w[2] THEN w[1] ELSE search[Halved(s, e, w[1], w[2])]
      first[k \in 1..Len(s)] ==
        IF k > 1 /\ s[k - 1] = e THEN first[k - 1] ELSE k
  IN  IF s = <<>> \/ e < s[1] THEN -1 ELSE first[search[<<1, Len(s)>>]] - 1

-----------------------------------------------------------------------------
(* The array is the list that array.h describes, whatever realloc does: a  *)
(* failed realloc takes the elements out and leaves an array that can be   *)
(* cleared and used again.                                                 *)
List == INSTANCE ElementList WITH list <- Elements

IsList == List!Spec

(* The same of one step.                                                   *)
ListStep == List!Next \/ UNCHANGED Elements

(* No cell outside of the block is written.                                *)
InsideBlock ==
  /\ ~outside
  /\ ~lost => m_count <= m_max /\ m_max = Len(m_array)

(* Its inductive strengthening: what realloc failed for was not nothing.   *)
IInv ==
  /\ m_array \in Seq(Elt \cup {0})
  /\ m_count \in Nat /\ m_max \in Nat
  /\ lost => m_max > 0 /\ m_array = <<>>
  /\ InsideBlock

(* "return the index of the last elt in array which is <= cmp_elt": for an *)
(* element that is there it is the first of the equal ones.                *)
BsearchFinds ==
  LET s == SortSeq(Elements, <)
  IN  \A e \in Elt \cup {0} :
        LET i == array_bsearch(s, e)
            below == {k \in DOMAIN s : s[k] < e}
        IN  IF \E k \in DOMAIN s : s[k] = e
            THEN s[i + 1] = e /\ \A k \in 1..i : s[k] < e
            ELSE IF below = {} THEN i = -1 ELSE i + 1 \in below /\ \A k \in below : k <= i + 1
=============================================================================
