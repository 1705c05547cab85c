-------------------------------- MODULE Pool --------------------------------
(***************************************************************************)
(* pool.c: a set of pointers with reference counts that are freed with     *)
(* the pool.  The hash below it is a function (see HashTable).  Users of   *)
(* the pool hold references; a count says how many will call pool_free.    *)
(***************************************************************************)
EXTENDS Integers, FiniteSets

CONSTANTS
  Ptr,          (* addresses malloc can give                               *)
  MaxRefs       (* bound: references to one block                          *)

VARIABLES
  pool,     (* hash: the refcount by pointer; heap: what is allocated;     *)
            (* twice: whether something was freed that was not allocated   *)
  refs,     (* how many references the users of the pool hold              *)
  dst       (* the block a user's variable points to, for the copies, or 0 *)

vars == <<pool, refs, dst>>

(* pool_new.                                                               *)
Init ==
  /\ pool = [hash |-> [p \in {} |-> 0], heap |-> {}, twice |-> FALSE]
  /\ refs = [p \in Ptr |-> 0]
  /\ dst = 0

Counts(s, p) == IF p \in DOMAIN s.hash THEN s.hash[p] ELSE 0

(* hash_put and hash_remove.                                               *)
Put(s, p, n) ==
  [s EXCEPT !.hash = [q \in DOMAIN s.hash \cup {p} |-> IF q = p THEN n ELSE s.hash[q]]]

pool_remove(s, p) == [s EXCEPT !.hash = [q \in DOMAIN s.hash \ {p} |-> s.hash[q]]]

(* free(3), or the function that was given with the pointer.               *)
Release(s, p) == [s EXCEPT !.heap = @ \ {p}, !.twice = @ \/ p \notin s.heap]

(* Mutant: a block is freed whatever its count.                            *)
pool_free_any(s, p) ==
  IF Counts(s, p) = 0 THEN s ELSE pool_remove(Release(s, p), p)

pool_free(s, p) ==
  CASE Counts(s, p) = 0 -> s
    [] Counts(s, p) = 1 -> pool_remove(Release(s, p), p)
    [] OTHER            -> Put(s, p, Counts(s, p) - 1)

(* pool_add: the pool lets go of the pointer first, if it has it.          *)
pool_add(s, p) == Put(pool_free(s, p), p, 1)

(* pool_malloc, pool_strdup, pool_memdup, and pool_add of what the caller  *)
(* has allocated.                                                          *)
pool_malloc(s, p) == pool_add([s EXCEPT !.heap = @ \cup {p}], p)

Malloc ==
  \E p \in Ptr \ pool.heap :
    /\ pool' = pool_malloc(pool, p)
    /\ refs' = [refs EXCEPT ![p] = 1]
    /\ UNCHANGED dst

pool_addref ==
  \E p \in Ptr :
    /\ refs[p] \in 1..(MaxRefs - 1)
    /\ pool' = Put(pool, p, Counts(pool, p) + 1)
    /\ refs' = [refs EXCEPT ![p] = @ + 1]
    /\ UNCHANGED dst

Free ==
  \E p \in Ptr :
    /\ refs[p] > 0
    /\ pool' = pool_free(pool, p)
    /\ refs' = [refs EXCEPT ![p] = @ - 1]
    /\ UNCHANGED dst

(* pool_realloc takes the pointer out, whatever its count, and puts the    *)
(* new one in.  Its caller holds the only reference.                       *)
pool_realloc ==
  \E p \in Ptr : \E q \in (Ptr \ pool.heap) \cup {p} :
    /\ refs[p] = 1
    /\ pool' = pool_malloc(Release(pool_remove(pool, p), p), q)
    /\ refs' = [refs EXCEPT ![p] = 0, ![q] = 1]
    /\ UNCHANGED dst

(* pool_copy_str: the copy is made before the old block is freed, so that  *)
(* the string may lie in it.                                               *)
pool_copy_str ==
  \E p \in Ptr \ pool.heap :
    /\ pool' = pool_free(pool_malloc(pool, p), dst)
    /\ dst' = p
    /\ UNCHANGED refs

(* pool_copy_buf frees the old block first; the buffer lies elsewhere.     *)
pool_copy_buf ==
  LET freed == pool_free(pool, dst)
  IN  \E p \in Ptr \ freed.heap :
        /\ pool' = pool_malloc(freed, p)
        /\ dst' = p
        /\ UNCHANGED refs

(* Mutant: the nodes stay in the hash.                                     *)
ClearedKeepsNodes(s) ==
  [s EXCEPT !.heap = @ \ DOMAIN s.hash, !.twice = @ \/ ~(DOMAIN s.hash \subseteq s.heap)]

(* pool_clear and pool_delete free everything and forget it.               *)
Cleared(s) ==
  [hash  |-> [p \in {} |-> 0],
   heap  |-> s.heap \ DOMAIN s.hash,
   twice |-> s.twice \/ ~(DOMAIN s.hash \subseteq s.heap)]

pool_clear ==
  /\ pool' = Cleared(pool)
  /\ refs' = [p \in Ptr |-> 0]
  /\ dst' = 0

Next ==
  \/ Malloc
  \/ pool_addref
  \/ Free
  \/ pool_realloc
  \/ pool_copy_str
  \/ pool_copy_buf
  \/ pool_clear

Spec == Init /\ [][Next]_vars

-----------------------------------------------------------------------------
Holders(p) == refs[p] + (IF dst = p THEN 1 ELSE 0)

(* A block is allocated exactly as long as somebody will free it, its      *)
(* count is the number of those, and nothing is freed twice: nobody is     *)
(* left with a pointer to freed memory, and nothing is left behind.        *)
Counted ==
  /\ ~pool.twice
  /\ pool.heap = DOMAIN pool.hash
  /\ \A p \in Ptr : Holders(p) = Counts(pool, p)

(* Its inductive strengthening: nobody can free the block of a copy but    *)
(* the copy, and what is in the pool is counted at least once.             *)
Shapes ==
  /\ pool \in [hash : {pool.hash}, heap : SUBSET Ptr, twice : BOOLEAN]
  /\ \E D \in SUBSET Ptr : pool.hash \in [D -> Nat \ {0}]
  /\ refs \in [Ptr -> Nat]
  /\ dst \in Ptr \cup {0}
  /\ dst # 0 => refs[dst] = 0

IInv == Shapes /\ Counted
=============================================================================
