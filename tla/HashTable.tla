------------------------------ MODULE HashTable -----------------------------
(***************************************************************************)
(* hash.c: a table of buckets, each an array of nodes.  The table grows    *)
(* when there are more than three nodes per bucket; hash_foreach walks     *)
(* every bucket from its end with a raw pointer, and its callback may free *)
(* the node it was called with.  The free functions are called once for    *)
(* every node that leaves the table.                                       *)
(***************************************************************************)
EXTENDS Integers, FiniteSets, SequencesExt

CONSTANTS
  Key,
  Val,
  NoVal,
  Puts,      (* bound: which value is put under which key                  *)
  Hash,      (* the caller's hash function: a number for every key         *)
  Buckets    (* the bucket counts callers pass to hash_init                *)

ASSUME HashAssumption ==
  /\ NoVal \notin Val
  /\ Puts \subseteq Key \X Val
  /\ Hash \in [Key -> Nat]
  /\ Buckets \subseteq Nat \ {0}

VARIABLES
  m_bucket,      (* the buckets; empty before hash_init                    *)
  m_node_count,
  freed,         (* the nodes the last call passed to the free functions   *)
  at,            (* hash_foreach: <<bucket, node>> positions, or none      *)
  todo,          (* hash_foreach: the keys not yet visited ...             *)
  extra          (* ... and whether one was visited that is not among them *)

vars == <<m_bucket, m_node_count, freed, at, todo, extra>>

NotWalking == <<0, 0>>

Node == [key : Key, val : Val, hash : Nat]

m_bucket_count == Len(m_bucket)

(* The bucket of a hash value, counted from 1.                             *)
BucketOf(h, n) == (h % n) + 1

NodesOf(bucket) == UNION {{bucket[b][i] : i \in DOMAIN bucket[b]} : b \in DOMAIN bucket}

Nodes == NodesOf(m_bucket)

Keys == {n.key : n \in Nodes}

Init ==
  /\ m_bucket = <<>>
  /\ m_node_count = 0
  /\ freed = {}
  /\ at = NotWalking
  /\ todo = {}
  /\ extra = FALSE

walkVars == <<at, todo, extra>>

-----------------------------------------------------------------------------
(* Every divisor but 1 is even.                                            *)
PowerOfTwo(p) == \A d, e \in 1..p : d * e = p /\ d # 1 => d % 2 = 0

(* The next bigger 2**n + 1.                                               *)
(* The shift runs until the power exceeds n; tables are far smaller than   *)
(* the 2^31 buckets at which it would overflow.                            *)
hash_resize_next(n) == (CHOOSE p \in (n + 1)..(2 * n) : PowerOfTwo(p)) + 1

(* The order of the loops: bucket after bucket, from the end of each.      *)
Before(p, q) == p[1] < q[1] \/ (p[1] = q[1] /\ p[2] > q[2])

(* The positions of the nodes that belong to bucket c of n.                *)
Belong(bucket, n, c) ==
  UNION {{<<b, i>> : i \in {i \in DOMAIN bucket[b] : BucketOf(bucket[b][i].hash, n) = c}} :
         b \in DOMAIN bucket}

(* How many of them are taken before p.                                    *)
Rank(bucket, n, c, p) == Cardinality({q \in Belong(bucket, n, c) : Before(q, p)})

(* Mutant: nodes keep their old bucket.                                    *)
hash_resize_in_place(bucket, n) ==
  [b \in 1..n |-> IF b \in DOMAIN bucket THEN bucket[b] ELSE <<>>]

(* hash_resize: every node, bucket after bucket and from the end of each,  *)
(* is appended to the bucket it belongs to now.                            *)
hash_resize(bucket, n) ==
  [c \in 1..n |->
    [i \in 1..Cardinality(Belong(bucket, n, c)) |->
      LET p == CHOOSE p \in Belong(bucket, n, c) : Rank(bucket, n, c, p) = i - 1
      IN  bucket[p[1]][p[2]]]]

(* Where hash_get finds k in bucket b: the last match, or 0.               *)
Find(bucket, k) ==
  LET hits == {i \in DOMAIN bucket : bucket[i].hash = Hash[k] /\ bucket[i].key = k}
  IN  IF hits = {} THEN 0 ELSE CHOOSE i \in hits : \A j \in hits : j <= i

(* hash_get: the node of k, as a set of none or one.                       *)
hash_get(k) ==
  IF m_bucket_count = 0 THEN {}
  ELSE LET b == m_bucket[BucketOf(Hash[k], m_bucket_count)]
           i == Find(b, k)
       IN  IF i = 0 THEN {} ELSE {b[i]}

(* hash_free of what hash_get(k) returned: the table without it.           *)
Without(k) ==
  LET b == BucketOf(Hash[k], m_bucket_count)
      i == Find(m_bucket[b], k)
  IN  IF i = 0 THEN m_bucket
      ELSE [m_bucket EXCEPT ![b] = RemoveAt(@, i)]

CanCall == m_bucket # <<>> /\ at = NotWalking

hash_init(n) ==
  /\ m_bucket = <<>>
  /\ m_bucket' = [b \in 1..n |-> <<>>]
  /\ m_node_count' = 0
  /\ freed' = {}
  /\ UNCHANGED walkVars

(* Mutant: what a key had is not passed to the free functions when the key *)
(* is put again.                                                           *)
hash_put_leaks(k, v) ==
  /\ CanCall
  /\ LET rest   == Without(k)
         n      == m_node_count - Cardinality(hash_get(k))
         bucket == IF n > 3 * m_bucket_count
                   THEN hash_resize(rest, hash_resize_next(m_bucket_count))
                   ELSE rest
     IN  /\ m_bucket' = [bucket EXCEPT ![BucketOf(Hash[k], Len(bucket))] =
                           Append(@, [key |-> k, val |-> v, hash |-> Hash[k]])]
         /\ m_node_count' = n + 1
  /\ freed' = {}
  /\ UNCHANGED walkVars

(* hash_put: the node of the key is freed first, then the table grows if   *)
(* it is crowded, then the new node is added.                              *)
hash_put(k, v) ==
  /\ CanCall
  /\ LET rest   == Without(k)
         n      == m_node_count - Cardinality(hash_get(k))
         bucket == IF n > 3 * m_bucket_count
                   THEN hash_resize(rest, hash_resize_next(m_bucket_count))
                   ELSE rest
     IN  /\ m_bucket' = [bucket EXCEPT ![BucketOf(Hash[k], Len(bucket))] =
                           Append(@, [key |-> k, val |-> v, hash |-> Hash[k]])]
         /\ m_node_count' = n + 1
  /\ freed' = hash_get(k)
  /\ UNCHANGED walkVars

hash_remove(k) ==
  /\ CanCall
  /\ m_bucket' = Without(k)
  /\ m_node_count' = m_node_count - Cardinality(hash_get(k))
  /\ freed' = hash_get(k)
  /\ UNCHANGED walkVars

hash_clear ==
  /\ CanCall
  /\ m_bucket' = <<>>
  /\ m_node_count' = 0
  /\ freed' = Nodes
  /\ UNCHANGED walkVars

-----------------------------------------------------------------------------
(* hash_foreach.  The next position: down the bucket, then the last node   *)
(* of the next bucket that has one.                                        *)
LastOf(bucket, from) ==
  LET more == {b \in from..Len(bucket) : bucket[b] # <<>>}
  IN  IF more = {} THEN NotWalking
      ELSE LET b == CHOOSE b \in more : \A c \in more : b <= c IN <<b, Len(bucket[b])>>

(* Mutant: the walk goes on from the end of the bucket it is in.           *)
StepRestarts(bucket, b, j) ==
  IF j > 1 THEN <<b, Len(bucket[b])>> ELSE LastOf(bucket, b + 1)

Step(bucket, b, j) == IF j > 1 THEN <<b, j - 1>> ELSE LastOf(bucket, b + 1)

hash_foreach ==
  /\ CanCall
  /\ Nodes # {}
  /\ at' = LastOf(m_bucket, 1)
  /\ todo' = Keys
  /\ extra' = FALSE
  /\ freed' = {}
  /\ UNCHANGED <<m_bucket, m_node_count>>

(* One call of func: it may free the node, and stop the walk.              *)
Visit(free, stop) ==
  LET b == at[1]
      j == at[2]
      k == m_bucket[b][j].key
  IN  /\ at # NotWalking
      /\ todo' = todo \ {k}
      /\ extra' = (extra \/ k \notin todo)
      /\ IF free
         THEN /\ m_bucket' = [m_bucket EXCEPT ![b] = RemoveAt(@, j)]
              /\ m_node_count' = m_node_count - 1
              /\ freed' = {m_bucket[b][j]}
         ELSE freed' = {} /\ UNCHANGED <<m_bucket, m_node_count>>
      /\ at' = IF stop THEN NotWalking ELSE Step(m_bucket', b, j)

Next ==
  \/ \E n \in Buckets : hash_init(n)
  \/ \E k \in Key, v \in Val : <<k, v>> \in Puts /\ hash_put(k, v)
  \/ \E k \in Key : hash_remove(k)
  \/ hash_clear
  \/ hash_foreach
  \/ \E free, stop \in BOOLEAN : Visit(free, stop)

Spec == Init /\ [][Next]_vars

-----------------------------------------------------------------------------
TypeOK ==
  /\ m_bucket \in Seq(Seq(Node))
  /\ m_node_count \in Nat
  /\ freed \subseteq Node
  /\ at \in Nat \X Nat
  /\ todo \subseteq Key
  /\ extra \in BOOLEAN

(* Every node is in the bucket its hash selects, and a key has one node:   *)
(* what hash_get relies on.                                                *)
Placed(bucket) ==
  \A b \in DOMAIN bucket : \A i \in DOMAIN bucket[b] :
    /\ BucketOf(bucket[b][i].hash, Len(bucket)) = b
    /\ bucket[b][i].hash = Hash[bucket[b][i].key]
    /\ \A j \in DOMAIN bucket[b] : bucket[b][i].key = bucket[b][j].key => i = j

(* m_node_count counts the nodes: what the growth test relies on.          *)
WellPlaced == Placed(m_bucket) /\ m_node_count = Cardinality(Keys)

(* The value hash_get returns for each key.                                *)
Contents == [k \in Key |-> IF hash_get(k) = {} THEN NoVal
                           ELSE (CHOOSE n \in hash_get(k) : TRUE).val]

Map == INSTANCE FiniteMap WITH map <- Contents

(* The table is a map, whatever the buckets do underneath.                 *)
IsMap == Map!Spec

(* The node hash_put replaces, also when the new one is equal to it.       *)
Replaced(n) == \E v \in Val : hash_put(n.key, v)

(* The free functions get exactly the nodes that leave the table: none is  *)
(* leaked when a key is replaced or the table is cleared, none is freed    *)
(* while it stays.                                                         *)
FreedAreGone ==
  [][freed' = (Nodes \ Nodes') \cup {n \in Nodes : Replaced(n)}]_vars

(* hash_foreach calls func exactly once for every node, also when func     *)
(* frees the node it is given ("hash_free(node) is ok"): the keys not yet  *)
(* visited are exactly those of the nodes still ahead of the pointer.      *)
VisitsAll ==
  /\ ~extra
  /\ at # NotWalking =>
       /\ at[2] \in DOMAIN m_bucket[at[1]]
       /\ todo = {m_bucket[at[1]][j].key : j \in 1..at[2]}
                 \cup UNION {{n.key : n \in ToSet(m_bucket[b])} : b \in (at[1] + 1)..m_bucket_count}
=============================================================================
