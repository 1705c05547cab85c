---------------------------- MODULE LibraryProofs ---------------------------
(***************************************************************************)
(* What is proved of the parts of Library.  First the hash table: what     *)
(* taking a node out, adding one and growing do to its buckets, then that  *)
(* it stays in order, implements a map, and frees what leaves it.  Then    *)
(* the certificate that cfg_load_crypt returns; last what keeps memory in  *)
(* order: the linked list, the pool and the array.                         *)
(***************************************************************************)
EXTENDS Library, FiniteSetTheorems, SequenceTheorems, WellFoundedInduction, TLAPS

-----------------------------------------------------------------------------
(* Tables and their positions.                                             *)

Table == Seq(Seq(Node))

At(bucket, p) == bucket[p[1]][p[2]]

IsPosition(bucket, b, i) == b \in DOMAIN bucket /\ i \in DOMAIN bucket[b]

(* A node is one that is at a position.                                    *)
LEMMA NodesAreAtPositions ==
  ASSUME NEW bucket, NEW node
  PROVE  node \in NodesOf(bucket) <=>
           \E b \in DOMAIN bucket : \E i \in DOMAIN bucket[b] : node = bucket[b][i]
  BY DEF NodesOf

LEMMA PositionTypes ==
  ASSUME NEW bucket \in Table, NEW b \in DOMAIN bucket, NEW i \in DOMAIN bucket[b]
  PROVE  /\ b \in 1..Len(bucket)
         /\ bucket[b] \in Seq(Node)
         /\ i \in 1..Len(bucket[b])
         /\ bucket[b][i] \in Node
         /\ bucket[b][i] \in NodesOf(bucket)
<1>1. b \in 1..Len(bucket) /\ bucket[b] \in Seq(Node)
  BY DEF Table
<1>2. i \in 1..Len(bucket[b]) /\ bucket[b][i] \in Node
  BY <1>1
<1> QED
  BY <1>1, <1>2, NodesAreAtPositions

LEMMA BucketOfType ==
  ASSUME NEW h \in Nat, NEW n \in Nat \ {0}
  PROVE  BucketOf(h, n) \in 1..n
  BY DEF BucketOf

LEMMA HashType == ASSUME NEW k \in Key PROVE Hash[k] \in Nat
  BY HashAssumption

(* In a table that is in order a key is at one position.                   *)
LEMMA OnePosition ==
  ASSUME NEW bucket \in Table, Placed(bucket),
         NEW b \in DOMAIN bucket, NEW i \in DOMAIN bucket[b],
         NEW c \in DOMAIN bucket, NEW j \in DOMAIN bucket[c],
         bucket[b][i].key = bucket[c][j].key
  PROVE  b = c /\ i = j
<1>1. bucket[b][i].hash = bucket[c][j].hash
  BY DEF Placed
<1>2. b = c
  BY <1>1 DEF Placed
<1> QED
  BY <1>2 DEF Placed

-----------------------------------------------------------------------------
(* Taking the node at one position out.                                    *)

Out(bucket, b, i) == [bucket EXCEPT ![b] = RemoveAt(@, i)]

LEMMA RemovedElements ==
  ASSUME NEW T, NEW s \in Seq(T), NEW i \in 1..Len(s)
  PROVE  /\ RemoveAt(s, i) \in Seq(T)
         /\ RemoveAt(s, i) =
              [j \in 1..(Len(s) - 1) |-> IF j < i THEN s[j] ELSE s[j + 1]]
         /\ Len(RemoveAt(s, i)) = Len(s) - 1
         /\ \A j \in 1..(i - 1) : RemoveAt(s, i)[j] = s[j]
<1>1. i \in Nat /\ Len(s) \in Nat /\ i <= Len(s) /\ i >= 1
  OBVIOUS
<1>2. RemoveAt(s, i) = [j \in 1..(Len(s) - 1) |-> IF j < i THEN s[j] ELSE s[j + 1]]
  <2> DEFINE t == [j \in 1..(Len(s) - 1) |-> IF j < i THEN s[j] ELSE s[j + 1]]
             p == SubSeq(s, 1, i - 1)
             q == SubSeq(s, i + 1, Len(s))
  <2>1. p \in Seq(T) /\ Len(p) = i - 1 /\ \A j \in 1 .. i - 1 : p[j] = s[j]
    BY <1>1
  <2>2. q \in Seq(T) /\ Len(q) = Len(s) - i /\ \A j \in 1 .. Len(s) - i : q[j] = s[i + j]
    BY <1>1
  <2> HIDE DEF p, q
  <2> DEFINE r == p \o q
  <2>3. /\ r \in Seq(T) /\ Len(r) = Len(p) + Len(q)
        /\ \A j \in 1 .. Len(p) + Len(q) : r[j] = IF j <= Len(p) THEN p[j] ELSE q[j - Len(p)]
    BY <2>1, <2>2, ConcatProperties, Zenon
  <2> HIDE DEF r
  <2>4. r \in Seq(T) /\ Len(r) = Len(s) - 1
    BY <1>1, <2>1, <2>2, <2>3
  <2>5. \A j \in 1 .. Len(s) - 1 : r[j] = IF j < i THEN s[j] ELSE s[j + 1]
    <3> TAKE j \in 1 .. Len(s) - 1
    <3>1. r[j] = IF j <= i - 1 THEN p[j] ELSE q[j - (i - 1)]
      BY <1>1, <2>1, <2>2, <2>3
    <3>2. CASE j < i
      BY <1>1, <2>1, <3>1, <3>2
    <3>3. CASE ~(j < i)
      <4>1. j - (i - 1) \in 1 .. Len(s) - i /\ i + (j - (i - 1)) = j + 1
        BY <1>1, <3>3
      <4> QED
        BY <1>1, <2>2, <3>1, <3>3, <4>1
    <3> QED
      BY <3>2, <3>3
  <2>6. r = t
    BY <2>4, <2>5
  <2> QED
    BY <2>6 DEF RemoveAt, r, p, q
<1>3. \A j \in 1..(Len(s) - 1) : (IF j < i THEN s[j] ELSE s[j + 1]) \in T
  BY <1>1
<1> DEFINE r == RemoveAt(s, i)
<1> HIDE DEF r
<1>4. r \in Seq(T) /\ Len(r) = Len(s) - 1 /\ \A j \in 1..(i - 1) : r[j] = s[j]
  <2>1. r = [j \in 1..(Len(s) - 1) |-> IF j < i THEN s[j] ELSE s[j + 1]]
    BY <1>2 DEF r
  <2>2. Len(s) - 1 \in Nat /\ DOMAIN r = 1..(Len(s) - 1)
    BY <1>1, <2>1
  <2>3. r \in [1..(Len(s) - 1) -> T]
    BY <1>3, <2>1
  <2>4. r \in Seq(T)
    BY <2>2, <2>3
  <2>5. \A j \in 1..(i - 1) : j \in 1..(Len(s) - 1) /\ j < i
    BY <1>1
  <2>6. \A j \in 1..(i - 1) : r[j] = s[j]
    BY <2>1, <2>5
  <2> QED
    BY <2>2, <2>4, <2>6
<1> QED
  BY <1>2, <1>4 DEF r

LEMMA TakingOut ==
  ASSUME NEW bucket \in Table, NEW b \in DOMAIN bucket, NEW i \in DOMAIN bucket[b],
         Placed(bucket)
  PROVE  /\ Out(bucket, b, i) \in Table
         /\ Len(Out(bucket, b, i)) = Len(bucket)
         /\ Placed(Out(bucket, b, i))
         /\ NodesOf(Out(bucket, b, i)) = NodesOf(bucket) \ {bucket[b][i]}
<1> DEFINE s == bucket[b]
           r == RemoveAt(s, i)
           out == Out(bucket, b, i)
<1>1. /\ b \in 1..Len(bucket) /\ s \in Seq(Node) /\ i \in 1..Len(s)
      /\ Len(bucket) \in Nat /\ Len(s) \in Nat
  BY PositionTypes DEF Table
<1>2. r \in Seq(Node) /\ r = [j \in 1..(Len(s) - 1) |-> IF j < i THEN s[j] ELSE s[j + 1]]
  BY <1>1, RemovedElements
<1>3. out = [bucket EXCEPT ![b] = r]
  BY DEF Out
<1>4. DOMAIN r = 1..(Len(s) - 1) /\ DOMAIN s = 1..Len(s)
  BY <1>1, <1>2
<1>5. /\ out \in Table /\ Len(out) = Len(bucket) /\ DOMAIN out = DOMAIN bucket
      /\ out[b] = r
      /\ \A c \in DOMAIN bucket : c # b => out[c] = bucket[c]
  BY <1>1, <1>2, <1>3 DEF Table
<1> DEFINE From(j) == IF j < i THEN j ELSE j + 1
<1>6. \A j \in DOMAIN r : From(j) \in DOMAIN s /\ From(j) # i /\ r[j] = s[From(j)]
  BY <1>1, <1>2, <1>4
<1>7. \A j \in DOMAIN r : \A k \in DOMAIN r : From(j) = From(k) => j = k
  BY <1>1, <1>4
<1>8. \A k \in DOMAIN s : k # i => \E j \in DOMAIN r : From(j) = k
  <2> SUFFICES ASSUME NEW k \in DOMAIN s, k # i PROVE \E j \in DOMAIN r : From(j) = k
    OBVIOUS
  <2>1. CASE k < i
    <3>1. k \in DOMAIN r /\ From(k) = k
      BY <2>1, <1>1, <1>4
    <3> QED
      BY <3>1
  <2>2. CASE k > i
    <3>1. k - 1 \in DOMAIN r /\ From(k - 1) = k
      BY <2>2, <1>1, <1>4
    <3> QED
      BY <3>1
  <2> QED
    BY <2>1, <2>2, <1>1, <1>4
<1> HIDE DEF From, r
<1>9. Placed(out)
  <2> SUFFICES ASSUME NEW c \in DOMAIN out, NEW j \in DOMAIN out[c]
               PROVE  /\ BucketOf(out[c][j].hash, Len(out)) = c
                      /\ out[c][j].hash = Hash[out[c][j].key]
                      /\ \A k \in DOMAIN out[c] : out[c][j].key = out[c][k].key => j = k
    BY DEF Placed
  <2>1. CASE c # b
    BY <2>1, <1>5 DEF Placed
  <2>2. CASE c = b
    <3>1. out[c] = r /\ j \in DOMAIN r
      BY <2>2, <1>5
    <3>2. \A k \in DOMAIN r : r[j].key = r[k].key => From(j) = From(k)
      BY <3>1, <1>6 DEF Placed
    <3> QED
      BY <2>2, <3>1, <3>2, <1>5, <1>6, <1>7 DEF Placed
  <2> QED
    BY <2>1, <2>2
<1>10. ASSUME NEW node PROVE node \in NodesOf(out) <=> node \in NodesOf(bucket) \ {s[i]}
  <2>1. ASSUME node \in NodesOf(out) PROVE node \in NodesOf(bucket) /\ node # s[i]
    <3>1. PICK c \in DOMAIN out : \E j \in DOMAIN out[c] : node = out[c][j]
      BY <2>1, NodesAreAtPositions
    <3>2. PICK j \in DOMAIN out[c] : node = out[c][j]
      BY <3>1
    <3>3. CASE c # b
      <4>1. j \in DOMAIN bucket[c] /\ node = bucket[c][j] /\ c \in DOMAIN bucket
        BY <3>2, <3>3, <1>5
      <4>2. node.key # s[i].key
        BY <4>1, <3>3, OnePosition
      <4> QED
        BY <4>1, <4>2, NodesAreAtPositions
    <3>4. CASE c = b
      <4>1. From(j) \in DOMAIN s /\ From(j) # i /\ node = s[From(j)]
        BY <3>2, <3>4, <1>5, <1>6
      <4>2. node.key # s[i].key
        BY <4>1, OnePosition
      <4> QED
        BY <4>1, <4>2, NodesAreAtPositions
    <3> QED
      BY <3>3, <3>4
  <2>2. ASSUME node \in NodesOf(bucket), node # s[i] PROVE node \in NodesOf(out)
    <3>1. PICK c \in DOMAIN bucket : \E j \in DOMAIN bucket[c] : node = bucket[c][j]
      BY <2>2, NodesAreAtPositions
    <3>2. PICK j \in DOMAIN bucket[c] : node = bucket[c][j]
      BY <3>1
    <3>3. CASE c # b
      BY <3>2, <3>3, <1>5, NodesAreAtPositions
    <3>4. CASE c = b
      <4>1. PICK k \in DOMAIN r : From(k) = j
        BY <2>2, <3>2, <3>4, <1>8
      <4> QED
        BY <4>1, <3>2, <3>4, <1>5, <1>6, NodesAreAtPositions
    <3> QED
      BY <3>3, <3>4
  <2> QED
    BY <2>1, <2>2
<1> QED
  BY <1>5, <1>9, <1>10

-----------------------------------------------------------------------------
(* Adding a node.                                                          *)

In(bucket, b, node) == [bucket EXCEPT ![b] = Append(@, node)]

LEMMA PuttingIn ==
  ASSUME NEW bucket \in Table, bucket # <<>>, Placed(bucket),
         NEW k \in Key, NEW v \in Val,
         \A node \in NodesOf(bucket) : node.key # k
  PROVE  LET node == [key |-> k, val |-> v, hash |-> Hash[k]]
             in == In(bucket, BucketOf(Hash[k], Len(bucket)), node)
         IN  /\ in \in Table
             /\ Len(in) = Len(bucket)
             /\ Placed(in)
             /\ NodesOf(in) = NodesOf(bucket) \cup {node}
<1> DEFINE node == [key |-> k, val |-> v, hash |-> Hash[k]]
           b == BucketOf(Hash[k], Len(bucket))
           s == bucket[b]
           r == Append(s, node)
           in == In(bucket, b, node)
<1>1. node \in Node /\ node.key = k /\ node.hash = Hash[k]
  BY HashType DEF Node
<1>2. Len(bucket) \in Nat \ {0} /\ b \in 1..Len(bucket) /\ b \in DOMAIN bucket
  <2>1. Len(bucket) \in Nat \ {0} /\ DOMAIN bucket = 1..Len(bucket)
    BY DEF Table
  <2>2. Hash[k] \in Nat
    BY HashType
  <2>3. b \in 1..Len(bucket)
    BY <2>1, <2>2, BucketOfType
  <2> QED
    BY <2>1, <2>3
<1> HIDE DEF node, b
<1>3. s \in Seq(Node) /\ Len(s) \in Nat /\ DOMAIN s = 1..Len(s)
  BY <1>2 DEF Table
<1>4. /\ r \in Seq(Node) /\ DOMAIN r = 1..(Len(s) + 1)
      /\ r[Len(s) + 1] = node /\ \A j \in DOMAIN s : r[j] = s[j] /\ j \in DOMAIN r
  BY <1>1, <1>3
<1>5. \A j \in DOMAIN r : j \in DOMAIN s \/ j = Len(s) + 1
  BY <1>3, <1>4
<1>6. /\ in \in Table /\ Len(in) = Len(bucket) /\ DOMAIN in = DOMAIN bucket
      /\ in[b] = r
      /\ \A c \in DOMAIN bucket : c # b => in[c] = bucket[c]
  BY <1>2, <1>4 DEF In, Table
<1>7. \A j \in DOMAIN s : s[j].key # k
  BY <1>2, NodesAreAtPositions
<1> HIDE DEF r
<1>8. Placed(in)
  <2> SUFFICES ASSUME NEW c \in DOMAIN in, NEW j \in DOMAIN in[c]
               PROVE  /\ BucketOf(in[c][j].hash, Len(in)) = c
                      /\ in[c][j].hash = Hash[in[c][j].key]
                      /\ \A i \in DOMAIN in[c] : in[c][j].key = in[c][i].key => j = i
    BY DEF Placed
  <2>1. CASE c # b
    BY <2>1, <1>6 DEF Placed
  <2>2. CASE c = b /\ j \in DOMAIN s
    <3>1. \A i \in DOMAIN r : r[j].key = r[i].key => j = i
      BY <2>2, <1>1, <1>4, <1>5, <1>7, <1>2 DEF Placed
    <3>2. BucketOf(s[j].hash, Len(bucket)) = b /\ s[j].hash = Hash[s[j].key]
      BY <2>2, <1>2 DEF Placed
    <3> QED
      BY <2>2, <3>1, <3>2, <1>4, <1>6
  <2>3. CASE c = b /\ j = Len(s) + 1
    <3>1. \A i \in DOMAIN r : r[j].key = r[i].key => j = i
      BY <2>3, <1>1, <1>4, <1>5, <1>7
    <3>2. BucketOf(node.hash, Len(bucket)) = b /\ node.hash = Hash[node.key]
      BY <1>1 DEF b
    <3> QED
      BY <2>3, <3>1, <3>2, <1>4, <1>6
  <2> QED
    BY <2>1, <2>2, <2>3, <1>5, <1>6
<1>9. ASSUME NEW n PROVE n \in NodesOf(in) <=> n \in NodesOf(bucket) \cup {node}
  <2>1. ASSUME n \in NodesOf(in) PROVE n \in NodesOf(bucket) \/ n = node
    <3>1. PICK c \in DOMAIN in : \E j \in DOMAIN in[c] : n = in[c][j]
      BY <2>1, NodesAreAtPositions
    <3> QED
      BY <3>1, <1>4, <1>5, <1>6, NodesAreAtPositions
  <2>2. ASSUME n \in NodesOf(bucket) PROVE n \in NodesOf(in)
    <3>1. PICK c \in DOMAIN bucket : \E j \in DOMAIN bucket[c] : n = bucket[c][j]
      BY <2>2, NodesAreAtPositions
    <3> QED
      BY <3>1, <1>4, <1>6, NodesAreAtPositions
  <2>3. node \in NodesOf(in)
    <3>1. Len(s) + 1 \in DOMAIN r
      BY <1>3, <1>4
    <3> QED
      BY <3>1, <1>2, <1>4, <1>6, NodesAreAtPositions
  <2> QED
    BY <2>1, <2>2, <2>3
<1> QED
  BY <1>6, <1>8, <1>9 DEF b, node

-----------------------------------------------------------------------------
(* Looking for a node.                                                     *)

LEMMA Finding ==
  ASSUME NEW s \in Seq(Node), NEW k \in Key,
         \A i \in DOMAIN s : s[i].hash = Hash[s[i].key],
         \A i, j \in DOMAIN s : s[i].key = s[j].key => i = j
  PROVE  /\ Find(s, k) = 0 => \A i \in DOMAIN s : s[i].key # k
         /\ Find(s, k) # 0 => Find(s, k) \in DOMAIN s /\ s[Find(s, k)].key = k
<1> DEFINE hits == {i \in DOMAIN s : s[i].hash = Hash[k] /\ s[i].key = k}
<1>1. \A i \in DOMAIN s : s[i].key = k => i \in hits
  OBVIOUS
<1>2. CASE hits = {}
  <2>1. Find(s, k) = 0
    BY <1>2 DEF Find
  <2> QED
    BY <2>1, <1>1, <1>2
<1>3. CASE hits # {}
  <2>1. PICK i \in hits : TRUE
    BY <1>3
  <2>2. \A j \in hits : j <= i
    BY <2>1
  <2>3. Find(s, k) = CHOOSE m \in hits : \A j \in hits : j <= m
    BY <1>3 DEF Find
  <2>4. Find(s, k) \in hits
    BY <2>1, <2>2, <2>3
  <2>5. Find(s, k) # 0
    BY <2>4
  <2> QED
    BY <2>4, <2>5
<1> QED
  BY <1>2, <1>3

(* hash_get finds the node of a key if there is one, whatever its place.   *)
LEMMA Getting ==
  ASSUME m_bucket \in Table, m_bucket # <<>>, Placed(m_bucket), NEW k \in Key
  PROVE  LET b == BucketOf(Hash[k], m_bucket_count)
             i == Find(m_bucket[b], k)
         IN  /\ b \in DOMAIN m_bucket
             /\ i = 0 => hash_get(k) = {} /\ \A node \in Nodes : node.key # k
             /\ i # 0 => /\ i \in DOMAIN m_bucket[b]
                         /\ hash_get(k) = {m_bucket[b][i]}
                         /\ m_bucket[b][i].key = k
<1> DEFINE b == BucketOf(Hash[k], m_bucket_count)
           i == Find(m_bucket[b], k)
<1>1. m_bucket_count \in Nat \ {0}
  BY DEF Table, m_bucket_count
<1>2. b \in DOMAIN m_bucket
  <2>1. Hash[k] \in Nat
    BY HashType
  <2>2. b \in 1..m_bucket_count
    BY <1>1, <2>1, BucketOfType
  <2>3. DOMAIN m_bucket = 1..m_bucket_count
    BY DEF Table, m_bucket_count
  <2> QED
    BY <2>2, <2>3
<1>3. /\ m_bucket[b] \in Seq(Node)
      /\ \A j \in DOMAIN m_bucket[b] : m_bucket[b][j].hash = Hash[m_bucket[b][j].key]
      /\ \A j, l \in DOMAIN m_bucket[b] : m_bucket[b][j].key = m_bucket[b][l].key => j = l
  BY <1>2 DEF Table, Placed
<1>4. hash_get(k) = IF i = 0 THEN {} ELSE {m_bucket[b][i]}
  BY <1>1 DEF hash_get
<1>5. /\ i = 0 => \A j \in DOMAIN m_bucket[b] : m_bucket[b][j].key # k
      /\ i # 0 => i \in DOMAIN m_bucket[b] /\ m_bucket[b][i].key = k
  BY <1>3, Finding
<1>6. ASSUME i = 0, NEW node \in Nodes PROVE node.key # k
  <2>1. PICK c \in DOMAIN m_bucket : \E j \in DOMAIN m_bucket[c] : node = m_bucket[c][j]
    BY NodesAreAtPositions DEF Nodes
  <2>2. PICK j \in DOMAIN m_bucket[c] : node = m_bucket[c][j]
    BY <2>1
  <2>3. node.key = k => c = b
    BY <2>2 DEF Placed, m_bucket_count
  <2> QED
    BY <2>2, <2>3, <1>5, <1>6
<1> QED
  BY <1>2, <1>4, <1>5, <1>6

LEMMA GetIsNodes ==
  ASSUME m_bucket \in Table, Placed(m_bucket), NEW k \in Key
  PROVE  /\ hash_get(k) = {node \in Nodes : node.key = k}
         /\ \A n1, n2 \in Nodes : n1.key = n2.key => n1 = n2
<1>1. \A n1, n2 \in Nodes : n1.key = n2.key => n1 = n2
  <2> SUFFICES ASSUME NEW n1 \in Nodes, NEW n2 \in Nodes, n1.key = n2.key PROVE n1 = n2
    OBVIOUS
  <2>1. PICK b \in DOMAIN m_bucket : \E i \in DOMAIN m_bucket[b] : n1 = m_bucket[b][i]
    BY NodesAreAtPositions DEF Nodes
  <2>2. PICK c \in DOMAIN m_bucket : \E i \in DOMAIN m_bucket[c] : n2 = m_bucket[c][i]
    BY NodesAreAtPositions DEF Nodes
  <2> QED
    BY <2>1, <2>2, OnePosition
<1>2. CASE m_bucket = <<>>
  <2>1. Nodes = {}
    BY <1>2 DEF Nodes, NodesOf
  <2>2. hash_get(k) = {}
    BY <1>2 DEF hash_get, m_bucket_count
  <2> QED
    BY <1>1, <2>1, <2>2
<1>3. CASE m_bucket # <<>>
  <2> DEFINE b == BucketOf(Hash[k], m_bucket_count)
             i == Find(m_bucket[b], k)
  <2>1. /\ b \in DOMAIN m_bucket
        /\ i = 0 => hash_get(k) = {} /\ \A node \in Nodes : node.key # k
        /\ i # 0 => /\ i \in DOMAIN m_bucket[b]
                    /\ hash_get(k) = {m_bucket[b][i]}
                    /\ m_bucket[b][i].key = k
    BY <1>3, Getting
  <2> HIDE DEF b, i
  <2>2. i # 0 => m_bucket[b][i] \in Nodes
    BY <2>1, NodesAreAtPositions DEF Nodes
  <2> QED
    BY <1>1, <2>1, <2>2
<1> QED
  BY <1>2, <1>3

LEMMA TakingKeyOut ==
  ASSUME m_bucket \in Table, m_bucket # <<>>, Placed(m_bucket), NEW k \in Key
  PROVE  /\ Without(k) \in Table
         /\ Len(Without(k)) = Len(m_bucket)
         /\ Placed(Without(k))
         /\ NodesOf(Without(k)) = Nodes \ hash_get(k)
<1> DEFINE b == BucketOf(Hash[k], m_bucket_count)
           i == Find(m_bucket[b], k)
<1>1. /\ b \in DOMAIN m_bucket
      /\ i = 0 => hash_get(k) = {}
      /\ i # 0 => i \in DOMAIN m_bucket[b] /\ hash_get(k) = {m_bucket[b][i]}
  BY Getting
<1>2. Without(k) = IF i = 0 THEN m_bucket ELSE Out(m_bucket, b, i)
  BY DEF Without, Out
<1> HIDE DEF b, i
<1>3. CASE i = 0
  BY <1>1, <1>2, <1>3 DEF Nodes
<1>4. CASE i # 0
  BY <1>1, <1>2, <1>4, TakingOut DEF Nodes
<1> QED
  BY <1>3, <1>4

-----------------------------------------------------------------------------
(* Growing: the size.                                                      *)

LEMMA LeastNumber ==
  ASSUME NEW T \in SUBSET Nat, T # {}
  PROVE  \E m \in T : \A l \in T : m <= l
<1> DEFINE R == OpToRel(<, Nat)
<1>1. PICK m \in T : \A l \in T : ~(<<l, m>> \in R)
  <2>1. IsWellFoundedOn(R, Nat)
    BY NatLessThanWellFounded
  <2> HIDE DEF R
  <2> QED
    BY <2>1, WFMin
<1>2. \A l \in T : ~(l < m)
  BY <1>1 DEF OpToRel
<1> QED
  BY <1>2

(* Twice a power of two is one.                                            *)
LEMMA PowersDouble ==
  ASSUME NEW q \in Nat \ {0}, PowerOfTwo(q)
  PROVE  PowerOfTwo(2 * q)
<1> SUFFICES ASSUME NEW d \in 1..(2 * q), NEW e \in 1..(2 * q), d * e = 2 * q, d # 1
             PROVE  d % 2 = 0
  BY DEF PowerOfTwo
<1>1. d \in Nat \ {0} /\ e \in Nat \ {0}
  OBVIOUS
<1>2. SUFFICES ASSUME d % 2 # 0 PROVE FALSE
  OBVIOUS
<1>3. PICK a \in Nat : d = 2 * a + 1
  <2>1. d % 2 = 1 /\ d = 2 * (d \div 2) + (d % 2) /\ d \div 2 \in Nat
    BY <1>1, <1>2
  <2> QED
    BY <2>1
<1>4. PICK f \in Nat : e = 2 * f
  <2>1. e \div 2 \in Nat /\ e % 2 \in {0, 1} /\ e = 2 * (e \div 2) + (e % 2)
    BY <1>1
  <2>2. CASE e % 2 = 0
    BY <2>1, <2>2
  <2>3. CASE e % 2 = 1
    <3>1. PICK f \in Nat : e = 2 * f + 1
      BY <2>1, <2>3
    <3>2. a * e \in Nat
      BY <1>3, <1>1
    <3>3. d * e = 2 * (a * e) + e
      BY <1>3, <1>1
    <3>4. 2 * q = 2 * (a * e + f) + 1
      BY <3>1, <3>2, <3>3
    <3> QED
      BY <3>2, <3>4
  <2> QED
    BY <2>1, <2>2, <2>3
<1>5. f # 0 /\ f \in Nat
  BY <1>1, <1>4
<1>6. d * f = q
  <2>1. d * f \in Nat
    BY <1>1, <1>4
  <2>2. d * e = 2 * (d * f)
    BY <1>1, <1>4
  <2> QED
    BY <2>1, <2>2
<1>7. d <= q /\ f <= q
  <2>1. a * f \in Nat
    BY <1>3, <1>4
  <2>2. q = 2 * (a * f) + f
    BY <1>3, <1>4, <1>6
  <2>3. f <= q
    BY <2>1, <2>2, <1>5
  <2>4. PICK g \in Nat : f = g + 1
    <3>1. f - 1 \in Nat /\ f = (f - 1) + 1
      BY <1>5
    <3> QED
      BY <3>1
  <2>5. d * g \in Nat
    BY <1>1, <2>4
  <2>6. q = d * g + d
    BY <1>1, <1>6, <2>4
  <2> QED
    BY <2>3, <2>5, <2>6, <1>1
<1> QED
  BY <1>1, <1>2, <1>5, <1>6, <1>7 DEF PowerOfTwo

(* There is a power of two for hash_resize_next to find.                   *)
LEMMA NextSize ==
  ASSUME NEW n \in Nat \ {0}
  PROVE  hash_resize_next(n) \in Nat \ {0} /\ hash_resize_next(n) > n
<1> DEFINE Left == {m \in Nat : m < n /\ PowerOfTwo(n - m)}
<1>1. PowerOfTwo(1)
  BY DEF PowerOfTwo
<1>2. n - 1 \in Left
  <2>1. n - 1 \in Nat /\ n - 1 < n /\ n - (n - 1) = 1
    OBVIOUS
  <2> QED
    BY <1>1, <2>1
<1>3. PICK m \in Left : \A l \in Left : m <= l
  <2>1. Left \subseteq Nat /\ Left # {}
    BY <1>2
  <2> HIDE DEF Left
  <2> QED
    BY <2>1, LeastNumber
<1> DEFINE q == n - m
<1>4. q \in Nat \ {0} /\ q <= n /\ PowerOfTwo(q)
  OBVIOUS
<1>5. 2 * q > n
  <2> SUFFICES ASSUME 2 * q <= n PROVE FALSE
    BY <1>4
  <2>1. n - 2 * q \in Nat /\ n - 2 * q < m /\ n - 2 * q < n /\ n - (n - 2 * q) = 2 * q
    BY <1>4
  <2>2. PowerOfTwo(2 * q)
    BY <1>4, PowersDouble
  <2>3. n - 2 * q \in Left
    BY <2>1, <2>2
  <2> QED
    BY <1>3, <2>1, <2>3
<1>6. 2 * q \in (n + 1)..(2 * n) /\ PowerOfTwo(2 * q)
  BY <1>4, <1>5, PowersDouble
<1> HIDE DEF q
<1>7. (CHOOSE p \in (n + 1)..(2 * n) : PowerOfTwo(p)) \in (n + 1)..(2 * n)
  BY <1>6
<1> QED
  BY <1>7 DEF hash_resize_next

-----------------------------------------------------------------------------
(* Growing: the nodes.                                                     *)

KeysOf(bucket) == {node.key : node \in NodesOf(bucket)}

LEMMA BelongIs ==
  ASSUME NEW bucket \in Table, NEW n, NEW c, NEW p
  PROVE  p \in Belong(bucket, n, c) <=>
           \E b \in DOMAIN bucket : \E i \in DOMAIN bucket[b] :
             p = <<b, i>> /\ BucketOf(bucket[b][i].hash, n) = c
  BY DEF Belong

LEMMA BelongTypes ==
  ASSUME NEW bucket \in Table, NEW n, NEW c, NEW p \in Belong(bucket, n, c)
  PROVE  /\ p[1] \in DOMAIN bucket /\ p[2] \in DOMAIN bucket[p[1]]
         /\ p = <<p[1], p[2]>>
         /\ p[1] \in Nat /\ p[2] \in Nat
         /\ At(bucket, p) \in Node /\ At(bucket, p) \in NodesOf(bucket)
         /\ BucketOf(At(bucket, p).hash, n) = c
<1>1. PICK b \in DOMAIN bucket : \E i \in DOMAIN bucket[b] :
        p = <<b, i>> /\ BucketOf(bucket[b][i].hash, n) = c
  BY BelongIs
<1>2. PICK i \in DOMAIN bucket[b] : p = <<b, i>> /\ BucketOf(bucket[b][i].hash, n) = c
  BY <1>1
<1>3. p[1] = b /\ p[2] = i
  BY <1>2
<1>4. /\ b \in 1..Len(bucket) /\ i \in 1..Len(bucket[b])
      /\ bucket[b][i] \in Node /\ bucket[b][i] \in NodesOf(bucket)
  BY PositionTypes
<1> QED
  BY <1>2, <1>3, <1>4 DEF At

(* The positions are as few as the keys.                                   *)
LEMMA BelongFinite ==
  ASSUME NEW bucket \in Table, Placed(bucket), IsFiniteSet(KeysOf(bucket)), NEW n, NEW c
  PROVE  IsFiniteSet(Belong(bucket, n, c))
<1> DEFINE Mine == Belong(bucket, n, c)
           f == [p \in Mine |-> At(bucket, p).key]
<1>1. ASSUME NEW p \in Mine, NEW q \in Mine, f[p] = f[q] PROVE p = q
  <2>1. At(bucket, p).key = At(bucket, q).key
    BY <1>1
  <2>2. p[1] = q[1] /\ p[2] = q[2]
    BY <2>1, BelongTypes, OnePosition DEF At
  <2> QED
    BY <2>2, BelongTypes
<1>2. f \in [Mine -> KeysOf(bucket)]
  BY BelongTypes DEF KeysOf
<1> HIDE DEF Mine, f
<1>3. f \in Injection(Mine, KeysOf(bucket))
  BY <1>1, <1>2 DEF Injection, IsInjective
<1>4. IsFiniteSet(Mine)
  BY <1>3, FS_Injection
<1> QED
  BY <1>4 DEF Mine

(* Two positions are taken one before the other, so their ranks differ,    *)
(* and as there are as many ranks as positions each rank is taken.         *)
LEMMA RanksTaken ==
  ASSUME NEW bucket \in Table, NEW n, NEW c, IsFiniteSet(Belong(bucket, n, c))
  PROVE  LET Mine == Belong(bucket, n, c)
         IN  /\ Cardinality(Mine) \in Nat
             /\ \A p \in Mine : Rank(bucket, n, c, p) \in 0..(Cardinality(Mine) - 1)
             /\ \A p, q \in Mine : Rank(bucket, n, c, p) = Rank(bucket, n, c, q) => p = q
             /\ \A i \in 0..(Cardinality(Mine) - 1) : \E p \in Mine : Rank(bucket, n, c, p) = i
<1> DEFINE Mine == Belong(bucket, n, c)
           Earlier(p) == {q \in Mine : Before(q, p)}
           R(p) == Cardinality(Earlier(p))
           m == Cardinality(Mine)
<1>1. m \in Nat
  BY FS_CardinalityType
<1>2. \A p \in Mine : p[1] \in Nat /\ p[2] \in Nat /\ p = <<p[1], p[2]>>
  BY BelongTypes
<1>3. \A p \in Mine : IsFiniteSet(Earlier(p)) /\ R(p) \in Nat
  <2> TAKE p \in Mine
  <2>1. Earlier(p) \in SUBSET Mine
    OBVIOUS
  <2>2. IsFiniteSet(Earlier(p))
    BY <2>1, FS_Subset
  <2> QED
    BY <2>2, FS_CardinalityType
<1>4. \A p \in Mine : R(p) \in 0..(m - 1)
  <2> TAKE p \in Mine
  <2>1. IsFiniteSet(Mine \ {p}) /\ Cardinality(Mine \ {p}) = m - 1
    BY FS_RemoveElement
  <2>2. ~Before(p, p)
    BY <1>2 DEF Before
  <2>3. Earlier(p) \in SUBSET (Mine \ {p})
    BY <2>2
  <2>4. R(p) <= m - 1
    BY <2>1, <2>3, FS_Subset
  <2> QED
    BY <1>1, <1>3, <2>4
<1>5. ASSUME NEW p \in Mine, NEW q \in Mine, Before(p, q) PROVE R(p) # R(q)
  <2>1. \A o \in Mine : Before(o, p) => Before(o, q)
    BY <1>2, <1>5 DEF Before
  <2>2. Earlier(p) \in SUBSET Earlier(q)
    BY <2>1
  <2>3. p \in Earlier(q) /\ p \notin Earlier(p)
    BY <1>2, <1>5 DEF Before
  <2>4. IsFiniteSet(Earlier(q)) /\ Earlier(p) # Earlier(q)
    BY <1>3, <2>3
  <2> HIDE DEF Earlier, Mine
  <2>5. Cardinality(Earlier(q)) = Cardinality(Earlier(p)) => Earlier(q) = Earlier(p)
    BY <2>2, <2>4, FS_Subset
  <2> QED
    BY <2>4, <2>5
<1>6. ASSUME NEW p \in Mine, NEW q \in Mine, R(p) = R(q) PROVE p = q
  <2>1. Before(p, q) \/ Before(q, p) \/ (p[1] = q[1] /\ p[2] = q[2])
    BY <1>2 DEF Before
  <2>2. CASE p[1] = q[1] /\ p[2] = q[2]
    BY <1>2, <2>2
  <2> QED
    BY <2>1, <2>2, <1>5, <1>6
<1> DEFINE f == [p \in Mine |-> R(p)]
           I == 0..(m - 1)
<1>7. f \in [Mine -> I] /\ \A p \in Mine : f[p] = R(p)
  BY <1>4
<1>8. f \in Injection(Mine, I)
  <2> HIDE DEF R, Mine, I
  <2>1. \A p, q \in Mine : f[p] = f[q] => p = q
    BY <1>6
  <2> HIDE DEF f
  <2> QED
    BY <1>7, <2>1 DEF Injection, IsInjective
<1>9. IsFiniteSet(I) /\ Cardinality(I) = m
  <2>1. 0 \in Int /\ m - 1 \in Int
    BY <1>1
  <2>2. IsFiniteSet(I) /\ Cardinality(I) = IF 0 > m - 1 THEN 0 ELSE m - 1 - 0 + 1
    BY <2>1, FS_Interval
  <2> QED
    BY <1>1, <2>2
<1>10. f \in Surjection(Mine, I)
  <2> HIDE DEF f, I
  <2> QED
    BY <1>8, <1>9, FS_Injection
<1>11. \A i \in I : \E p \in Mine : R(p) = i
  <2> HIDE DEF R, I, Mine
  <2>1. \A i \in I : \E p \in Mine : f[p] = i
    <3> HIDE DEF f
    <3> QED
      BY <1>10 DEF Surjection
  <2> QED
    BY <2>1
<1>12. \A p : Rank(bucket, n, c, p) = R(p)
  BY DEF Rank
<1> HIDE DEF R
<1> QED
  BY <1>1, <1>4, <1>6, <1>11, <1>12

LEMMA FunctionIsSequence ==
  ASSUME NEW T, NEW n \in Nat, NEW f \in [1..n -> T]
  PROVE  f \in Seq(T)
  OBVIOUS

(* Every node is in the bucket it belongs to now.                          *)
LEMMA Growing ==
  ASSUME NEW bucket \in Table, Placed(bucket), IsFiniteSet(KeysOf(bucket)),
         NEW n \in Nat \ {0}
  PROVE  /\ hash_resize(bucket, n) \in Table
         /\ Len(hash_resize(bucket, n)) = n
         /\ Placed(hash_resize(bucket, n))
         /\ NodesOf(hash_resize(bucket, n)) = NodesOf(bucket)
<1> DEFINE r == hash_resize(bucket, n)
           Mine(c) == Belong(bucket, n, c)
           R(c, p) == Rank(bucket, n, c, p)
           m(c) == Cardinality(Mine(c))
           From(c, i) == CHOOSE p \in Mine(c) : R(c, p) = i - 1
<1>1. /\ r = [c \in 1..n |-> [i \in 1..m(c) |-> At(bucket, From(c, i))]]
  BY DEF hash_resize, At
<1>2. /\ \A c : m(c) \in Nat
      /\ \A c : \A p \in Mine(c) : R(c, p) \in 0..(m(c) - 1)
      /\ \A c : \A p, q \in Mine(c) : R(c, p) = R(c, q) => p = q
      /\ \A c : \A i \in 0..(m(c) - 1) : \E p \in Mine(c) : R(c, p) = i
  BY BelongFinite, RanksTaken
<1>3. /\ \A c : \A p \in Mine(c) : /\ At(bucket, p) \in Node
                                /\ At(bucket, p) \in NodesOf(bucket)
                                /\ BucketOf(At(bucket, p).hash, n) = c
                                /\ At(bucket, p).hash = Hash[At(bucket, p).key]
      /\ \A c : \A p, q \in Mine(c) : At(bucket, p).key = At(bucket, q).key => p = q
  <2>1. ASSUME NEW c, NEW p \in Mine(c)
        PROVE  /\ At(bucket, p) \in Node
               /\ At(bucket, p) \in NodesOf(bucket)
               /\ BucketOf(At(bucket, p).hash, n) = c
               /\ At(bucket, p).hash = Hash[At(bucket, p).key]
    <3>1. p[1] \in DOMAIN bucket /\ p[2] \in DOMAIN bucket[p[1]]
      BY BelongTypes
    <3>2. At(bucket, p).hash = Hash[At(bucket, p).key]
      BY <3>1 DEF Placed, At
    <3> QED
      BY <3>2, BelongTypes
  <2>2. ASSUME NEW c, NEW p \in Mine(c), NEW q \in Mine(c), At(bucket, p).key = At(bucket, q).key
        PROVE  p = q
    <3>1. p[1] = q[1] /\ p[2] = q[2]
      BY <2>2, BelongTypes, OnePosition DEF At
    <3> QED
      BY <3>1, BelongTypes
  <2> QED
    BY <2>1, <2>2
<1> HIDE DEF Mine, R, m, r
<1>4. ASSUME NEW c, NEW i \in 1..m(c)
      PROVE  From(c, i) \in Mine(c) /\ R(c, From(c, i)) = i - 1
  <2>1. i - 1 \in 0..(m(c) - 1)
    BY <1>2
  <2>2. \E p \in Mine(c) : R(c, p) = i - 1
    BY <2>1, <1>2
  <2> QED
    BY <2>2
<1> HIDE DEF From
<1>5. ASSUME NEW c, NEW p \in Mine(c)
      PROVE  R(c, p) + 1 \in 1..m(c) /\ From(c, R(c, p) + 1) = p
  <2>1. R(c, p) \in 0..(m(c) - 1) /\ m(c) \in Nat
    BY <1>2
  <2>2. R(c, p) + 1 \in 1..m(c) /\ R(c, p) + 1 - 1 = R(c, p)
    BY <2>1
  <2> QED
    BY <2>2, <1>2, <1>4
<1>6. /\ r \in Table /\ Len(r) = n /\ DOMAIN r = 1..n
      /\ \A c \in 1..n : DOMAIN r[c] = 1..m(c)
      /\ \A c \in 1..n : \A i \in 1..m(c) : r[c][i] = At(bucket, From(c, i))
  <2>1. \A c \in 1..n : r[c] = [i \in 1..m(c) |-> At(bucket, From(c, i))]
    BY <1>1
  <2>2. \A c \in 1..n : r[c] \in Seq(Node)
    <3> TAKE c \in 1..n
    <3>1. \A i \in 1..m(c) : At(bucket, From(c, i)) \in Node
      BY <1>3, <1>4
    <3>2. r[c] \in [1..m(c) -> Node]
      BY <2>1, <3>1
    <3> QED
      BY <1>2, <3>2, FunctionIsSequence
  <2>3. DOMAIN r = 1..n /\ n \in Nat
    BY <1>1
  <2>4. r = [c \in 1..n |-> r[c]]
    BY <1>1
  <2>5. r \in Seq(Seq(Node)) /\ Len(r) = n
    BY <2>2, <2>3, <2>4
  <2> QED
    BY <2>1, <2>3, <2>5 DEF Table
<1>7. Placed(r)
  <2> SUFFICES ASSUME NEW c \in DOMAIN r, NEW i \in DOMAIN r[c]
               PROVE  /\ BucketOf(r[c][i].hash, Len(r)) = c
                      /\ r[c][i].hash = Hash[r[c][i].key]
                      /\ \A j \in DOMAIN r[c] : r[c][i].key = r[c][j].key => i = j
    BY DEF Placed
  <2>1. c \in 1..n /\ i \in 1..m(c) /\ r[c][i] = At(bucket, From(c, i)) /\ From(c, i) \in Mine(c)
    BY <1>4, <1>6
  <2>2. ASSUME NEW j \in DOMAIN r[c], r[c][i].key = r[c][j].key PROVE i = j
    <3>1. j \in 1..m(c) /\ r[c][j] = At(bucket, From(c, j)) /\ From(c, j) \in Mine(c)
      BY <2>1, <1>4, <1>6
    <3>2. From(c, i) = From(c, j)
      BY <2>1, <2>2, <3>1, <1>3
    <3>3. i - 1 = j - 1
      BY <2>1, <3>1, <3>2, <1>4
    <3> QED
      BY <2>1, <3>1, <3>3
  <2> QED
    BY <2>1, <2>2, <1>3, <1>6
<1>8. ASSUME NEW node PROVE node \in NodesOf(r) <=> node \in NodesOf(bucket)
  <2>1. ASSUME node \in NodesOf(r) PROVE node \in NodesOf(bucket)
    <3>1. PICK c \in DOMAIN r : \E i \in DOMAIN r[c] : node = r[c][i]
      BY <2>1, NodesAreAtPositions
    <3>2. PICK i \in DOMAIN r[c] : node = r[c][i]
      BY <3>1
    <3>3. i \in 1..m(c) /\ r[c][i] = At(bucket, From(c, i))
      BY <3>2, <1>6
    <3>4. From(c, i) \in Mine(c)
      BY <3>3, <1>4
    <3> QED
      BY <3>2, <3>3, <3>4, <1>3
  <2>2. ASSUME node \in NodesOf(bucket) PROVE node \in NodesOf(r)
    <3>1. PICK b \in DOMAIN bucket : \E i \in DOMAIN bucket[b] : node = bucket[b][i]
      BY <2>2, NodesAreAtPositions
    <3>2. PICK i \in DOMAIN bucket[b] : node = bucket[b][i]
      BY <3>1
    <3>3. node \in Node
      BY <3>2, PositionTypes
    <3>4. node.hash \in Nat
      BY <3>3 DEF Node
    <3> DEFINE c == BucketOf(node.hash, n)
               p == <<b, i>>
    <3>5. c \in 1..n
      BY <3>4, BucketOfType
    <3>6. p \in Mine(c)
      BY <3>2, BelongIs DEF Mine
    <3>7. At(bucket, p) = node
      BY <3>2 DEF At
    <3> HIDE DEF c, p
    <3>8. R(c, p) + 1 \in 1..m(c) /\ r[c][R(c, p) + 1] = node
      BY <3>5, <3>6, <3>7, <1>5, <1>6
    <3> QED
      BY <3>5, <3>8, <1>6, NodesAreAtPositions
  <2> QED
    BY <2>1, <2>2
<1> QED
  BY <1>6, <1>7, <1>8 DEF r

-----------------------------------------------------------------------------
(* The hash table in order: of the keys there are finitely many, and the   *)
(* pointer of hash_foreach is in a bucket.                                 *)
HashIInv ==
  /\ TableKept
  /\ IsFiniteSet(Keys)
  /\ at # NotWalking => at[1] \in DOMAIN m_bucket

LEMMA HashIInvParts ==
  ASSUME HashIInv
  PROVE  /\ m_bucket \in Table /\ Placed(m_bucket)
         /\ Nodes = NodesOf(m_bucket) /\ Keys = KeysOf(m_bucket)
         /\ IsFiniteSet(Keys) /\ m_node_count = Cardinality(Keys) /\ m_node_count \in Nat
         /\ Nodes \subseteq Node
<1>1. m_bucket \in Table /\ Placed(m_bucket)
  BY DEF HashIInv, TableKept, TypeOK, WellPlaced, Table
<1>2. Nodes \subseteq Node
  <2> SUFFICES ASSUME NEW node \in Nodes PROVE node \in Node
    OBVIOUS
  <2>1. PICK b \in DOMAIN m_bucket : \E i \in DOMAIN m_bucket[b] : node = m_bucket[b][i]
    BY NodesAreAtPositions DEF Nodes
  <2> QED
    BY <1>1, <2>1, PositionTypes
<1> QED
  BY <1>1, <1>2 DEF HashIInv, TableKept, TypeOK, WellPlaced, Nodes, Keys, KeysOf

(* Without the node of a key there is one key less, if there was one.      *)
LEMMA KeysWithout ==
  ASSUME HashIInv, NEW k \in Key
  PROVE  LET rest == {node.key : node \in Nodes \ hash_get(k)}
         IN  /\ rest = Keys \ {k}
             /\ IsFiniteSet(rest)
             /\ Cardinality(rest) = Cardinality(Keys) - Cardinality(hash_get(k))
             /\ Cardinality(rest) \in Nat
<1> DEFINE rest == {node.key : node \in Nodes \ hash_get(k)}
<1>1. /\ hash_get(k) = {node \in Nodes : node.key = k}
      /\ \A n1, n2 \in Nodes : n1.key = n2.key => n1 = n2
  BY HashIInvParts, GetIsNodes
<1>2. rest = Keys \ {k}
  BY <1>1 DEF Keys
<1>3. IsFiniteSet(Keys)
  BY HashIInvParts
<1>4. /\ IsFiniteSet(Keys \ {k})
      /\ Cardinality(Keys \ {k}) = IF k \in Keys THEN Cardinality(Keys) - 1 ELSE Cardinality(Keys)
      /\ Cardinality(Keys \ {k}) \in Nat /\ Cardinality(Keys) \in Nat
  BY <1>3, FS_RemoveElement, FS_CardinalityType
<1>5. Cardinality(hash_get(k)) = IF k \in Keys THEN 1 ELSE 0
  <2>1. CASE k \in Keys
    <3>1. PICK node \in Nodes : node.key = k
      BY <2>1 DEF Keys
    <3>2. hash_get(k) = {node}
      BY <1>1, <3>1
    <3> QED
      BY <2>1, <3>2, FS_Singleton
  <2>2. CASE k \notin Keys
    <3>1. hash_get(k) = {}
      BY <2>2, <1>1 DEF Keys
    <3> QED
      BY <2>2, <3>1, FS_EmptySet
  <2> QED
    BY <2>1, <2>2
<1> HIDE DEF rest
<1>6. Cardinality(rest) = Cardinality(Keys) - Cardinality(hash_get(k))
  BY <1>2, <1>4, <1>5
<1> QED
  BY <1>2, <1>4, <1>6 DEF rest

(* hash_put leaves one node of the key, the new one.                       *)
LEMMA PutEffect ==
  ASSUME HashIInv, NEW k \in Key, NEW v \in Val, hash_put(k, v)
  PROVE  LET node == [key |-> k, val |-> v, hash |-> Hash[k]]
         IN  /\ m_bucket' \in Table /\ Placed(m_bucket')
             /\ NodesOf(m_bucket') = (Nodes \ hash_get(k)) \cup {node}
             /\ m_node_count' = Cardinality(Keys) - Cardinality(hash_get(k)) + 1
<1> DEFINE node == [key |-> k, val |-> v, hash |-> Hash[k]]
           rest == Without(k)
           n == m_node_count - Cardinality(hash_get(k))
           more == hash_resize_next(m_bucket_count)
           bucket == IF n > 3 * m_bucket_count THEN hash_resize(rest, more) ELSE rest
<1>1. /\ m_bucket \in Table /\ Placed(m_bucket) /\ m_bucket # <<>>
      /\ m_bucket_count \in Nat \ {0}
  <2>1. m_bucket \in Table /\ Placed(m_bucket) /\ m_bucket # <<>>
    BY HashIInvParts DEF hash_put, CanCall
  <2> QED
    BY <2>1 DEF m_bucket_count, Table
<1>2. rest \in Table /\ Placed(rest) /\ NodesOf(rest) = Nodes \ hash_get(k) /\ rest # <<>>
  <2>1. /\ rest \in Table /\ Placed(rest) /\ NodesOf(rest) = Nodes \ hash_get(k)
        /\ Len(rest) = m_bucket_count
    BY <1>1, TakingKeyOut DEF m_bucket_count
  <2> QED
    BY <1>1, <2>1 DEF Table
<1>3. IsFiniteSet(KeysOf(rest))
  BY <1>2, KeysWithout DEF KeysOf
<1>4. more \in Nat \ {0}
  BY <1>1, NextSize
<1> HIDE DEF rest, more
<1>5. bucket \in Table /\ Placed(bucket) /\ NodesOf(bucket) = Nodes \ hash_get(k) /\ bucket # <<>>
  <2>1. CASE n > 3 * m_bucket_count
    <3>1. /\ hash_resize(rest, more) \in Table /\ Placed(hash_resize(rest, more))
          /\ NodesOf(hash_resize(rest, more)) = NodesOf(rest)
          /\ Len(hash_resize(rest, more)) = more
      BY <1>2, <1>3, <1>4, Growing
    <3>2. hash_resize(rest, more) # <<>>
      BY <3>1, <1>4
    <3> QED
      BY <2>1, <3>1, <3>2, <1>2
  <2>2. CASE ~(n > 3 * m_bucket_count)
    BY <2>2, <1>2
  <2> QED
    BY <2>1, <2>2
<1>6. \A o \in NodesOf(bucket) : o.key # k
  BY <1>1, <1>5, GetIsNodes
<1>7. /\ m_bucket' = In(bucket, BucketOf(Hash[k], Len(bucket)), node)
      /\ m_node_count' = m_node_count - Cardinality(hash_get(k)) + 1
  BY DEF hash_put, In, rest, more
<1> HIDE DEF bucket, node
<1>8. /\ m_bucket' \in Table /\ Placed(m_bucket')
      /\ NodesOf(m_bucket') = NodesOf(bucket) \cup {node}
  BY <1>5, <1>6, <1>7, PuttingIn DEF node
<1> QED
  BY <1>5, <1>7, <1>8, HashIInvParts DEF node

LEMMA RemoveEffect ==
  ASSUME HashIInv, NEW k \in Key, hash_remove(k)
  PROVE  /\ m_bucket' \in Table /\ Placed(m_bucket')
         /\ NodesOf(m_bucket') = Nodes \ hash_get(k)
         /\ m_node_count' = Cardinality(Keys) - Cardinality(hash_get(k))
<1>1. m_bucket \in Table /\ Placed(m_bucket) /\ m_bucket # <<>> /\ m_node_count = Cardinality(Keys)
  BY HashIInvParts DEF hash_remove, CanCall
<1> QED
  BY <1>1, TakingKeyOut DEF hash_remove

LEMMA EmptyTable ==
  ASSUME NEW n \in Nat
  PROVE  LET bucket == [b \in 1..n |-> <<>>]
         IN  bucket \in Table /\ Placed(bucket) /\ NodesOf(bucket) = {}
<1> DEFINE bucket == [b \in 1..n |-> <<>>]
<1>1. bucket \in Table
  BY FunctionIsSequence DEF Table
<1>2. DOMAIN bucket = 1..n /\ \A b \in 1..n : bucket[b] = <<>>
  OBVIOUS
<1> HIDE DEF bucket
<1>3. \A b \in DOMAIN bucket : DOMAIN bucket[b] = {}
  BY <1>2
<1>4. NodesOf(bucket) = {}
  BY <1>3 DEF NodesOf
<1> QED
  BY <1>1, <1>3, <1>4 DEF Placed, bucket

-----------------------------------------------------------------------------
(* hash_foreach: the keys from a position on, and those of whole buckets.  *)

KeysBelow(s, j) == {s[i].key : i \in 1..j}

KeysIn(bucket, from) ==
  UNION {{node.key : node \in ToSet(bucket[b])} : b \in from..Len(bucket)}

LEMMA KeysInAre ==
  ASSUME NEW bucket \in Table, NEW from \in Nat \ {0}, NEW k
  PROVE  k \in KeysIn(bucket, from) <=>
           \E b \in DOMAIN bucket : \E i \in DOMAIN bucket[b] : b >= from /\ k = bucket[b][i].key
<1>1. \A b \in from..Len(bucket) : b \in DOMAIN bucket /\ b >= from
  BY DEF Table
<1>2. \A b \in DOMAIN bucket : b >= from => b \in from..Len(bucket)
  BY DEF Table
<1>3. ASSUME k \in KeysIn(bucket, from)
      PROVE  \E b \in DOMAIN bucket : \E i \in DOMAIN bucket[b] : b >= from /\ k = bucket[b][i].key
  <2>1. PICK b \in from..Len(bucket) : k \in {node.key : node \in ToSet(bucket[b])}
    BY <1>3 DEF KeysIn
  <2>2. PICK node \in ToSet(bucket[b]) : k = node.key
    BY <2>1
  <2>3. PICK i \in DOMAIN bucket[b] : node = bucket[b][i]
    BY <2>2 DEF ToSet
  <2> QED
    BY <2>2, <2>3, <1>1
<1>4. ASSUME NEW b \in DOMAIN bucket, NEW i \in DOMAIN bucket[b], b >= from, k = bucket[b][i].key
      PROVE  k \in KeysIn(bucket, from)
  <2>1. b \in from..Len(bucket) /\ k \in {node.key : node \in ToSet(bucket[b])}
    BY <1>2, <1>4 DEF ToSet
  <2> QED
    BY <2>1 DEF KeysIn
<1> QED
  BY <1>3, <1>4

(* LastOf skips empty buckets only.                                        *)
LEMMA LastOfIs ==
  ASSUME NEW bucket \in Table, NEW from \in Nat \ {0}, LastOf(bucket, from) # NotWalking
  PROVE  LET p == LastOf(bucket, from)
         IN  /\ p \in Nat \X Nat
             /\ p[1] \in DOMAIN bucket /\ p[2] \in DOMAIN bucket[p[1]]
             /\ KeysBelow(bucket[p[1]], p[2]) \cup KeysIn(bucket, p[1] + 1) = KeysIn(bucket, from)
<1> DEFINE more == {b \in from..Len(bucket) : bucket[b] # <<>>}
           p == LastOf(bucket, from)
           least == CHOOSE b \in more : \A c \in more : b <= c
<1>1. more # {} /\ p = <<least, Len(bucket[least])>>
  BY DEF LastOf
<1>2. \E b \in more : \A c \in more : b <= c
  <2>1. more \in SUBSET Nat
    BY DEF Table
  <2> HIDE DEF more
  <2> QED
    BY <1>1, <2>1, LeastNumber
<1>3. least \in more /\ \A c \in more : least <= c
  BY <1>2
<1> HIDE DEF least, p
<1>4. least \in DOMAIN bucket /\ least \in Nat /\ least >= from /\ bucket[least] \in Seq(Node)
  BY <1>3 DEF Table
<1>5. /\ Len(bucket[least]) \in Nat \ {0}
      /\ DOMAIN bucket[least] = 1..Len(bucket[least])
  BY <1>3, <1>4
<1>6. p[1] = least /\ p[2] = Len(bucket[least]) /\ p[2] \in DOMAIN bucket[p[1]]
  BY <1>1, <1>5
<1>7. \A b \in DOMAIN bucket : b >= from /\ b < least => bucket[b] = <<>>
  <2> SUFFICES ASSUME NEW b \in DOMAIN bucket, b >= from, b < least, bucket[b] # <<>>
               PROVE  FALSE
    OBVIOUS
  <2>1. b \in Nat /\ b \in from..Len(bucket)
    BY DEF Table
  <2>2. least <= b
    BY <2>1, <1>3
  <2> QED
    BY <2>1, <2>2, <1>4
<1>8. ASSUME NEW k
      PROVE  k \in KeysIn(bucket, from) <=>
               k \in KeysBelow(bucket[least], p[2]) \/ k \in KeysIn(bucket, least + 1)
  <2>1. ASSUME k \in KeysIn(bucket, from)
        PROVE  k \in KeysBelow(bucket[least], p[2]) \/ k \in KeysIn(bucket, least + 1)
    <3>1. PICK b \in DOMAIN bucket : \E i \in DOMAIN bucket[b] : b >= from /\ k = bucket[b][i].key
      BY <2>1, KeysInAre
    <3>2. PICK i \in DOMAIN bucket[b] : b >= from /\ k = bucket[b][i].key
      BY <3>1
    <3>3. b \in Nat
      BY DEF Table
    <3>4. b < least => FALSE
      BY <3>2, <1>7
    <3>5. CASE b = least
      BY <3>2, <3>5, <1>5, <1>6 DEF KeysBelow
    <3>6. CASE b >= least + 1
      <4>1. least + 1 \in Nat \ {0}
        BY <1>4
      <4> QED
        BY <3>2, <3>6, <4>1, KeysInAre
    <3> QED
      BY <3>3, <3>4, <3>5, <3>6, <1>4
  <2>2. ASSUME k \in KeysBelow(bucket[least], p[2]) PROVE k \in KeysIn(bucket, from)
    <3>1. PICK i \in 1..p[2] : k = bucket[least][i].key
      BY <2>2 DEF KeysBelow
    <3>2. i \in DOMAIN bucket[least]
      BY <1>5, <1>6
    <3> QED
      BY <3>1, <3>2, <1>4, KeysInAre
  <2>3. ASSUME k \in KeysIn(bucket, least + 1) PROVE k \in KeysIn(bucket, from)
    <3>1. least + 1 \in Nat \ {0}
      BY <1>4
    <3>2. PICK b \in DOMAIN bucket : \E i \in DOMAIN bucket[b] : b >= least + 1 /\ k = bucket[b][i].key
      BY <2>3, <3>1, KeysInAre
    <3>3. b >= from
      BY <3>2, <1>4 DEF Table
    <3> QED
      BY <3>2, <3>3, KeysInAre
  <2> QED
    BY <2>1, <2>2, <2>3
<1>9. p \in Nat \X Nat
  BY <1>1, <1>4, <1>5
<1> QED
  BY <1>4, <1>6, <1>8, <1>9 DEF p

(* The next position has the keys below the last one ahead of it.          *)
LEMMA StepIs ==
  ASSUME NEW bucket \in Table, NEW b \in DOMAIN bucket, NEW j \in Nat \ {0},
         j - 1 <= Len(bucket[b]), Step(bucket, b, j) # NotWalking
  PROVE  LET p == Step(bucket, b, j)
         IN  /\ p \in Nat \X Nat
             /\ p[1] \in DOMAIN bucket /\ p[2] \in DOMAIN bucket[p[1]]
             /\ KeysBelow(bucket[p[1]], p[2]) \cup KeysIn(bucket, p[1] + 1) =
                  KeysBelow(bucket[b], j - 1) \cup KeysIn(bucket, b + 1)
<1>1. b \in Nat /\ b + 1 \in Nat \ {0} /\ bucket[b] \in Seq(Node)
  BY DEF Table
<1>2. CASE j > 1
  <2>1. Step(bucket, b, j) = <<b, j - 1>>
    BY <1>2 DEF Step
  <2>2. j - 1 \in Nat /\ j - 1 \in DOMAIN bucket[b]
    BY <1>1, <1>2
  <2> QED
    BY <2>1, <2>2, <1>1
<1>3. CASE ~(j > 1)
  <2>1. Step(bucket, b, j) = LastOf(bucket, b + 1)
    BY <1>3 DEF Step
  <2>2. j - 1 = 0
    BY <1>3
  <2>3. KeysBelow(bucket[b], j - 1) = {}
    BY <2>2 DEF KeysBelow
  <2> QED
    BY <2>1, <2>3, <1>1, LastOfIs
<1> QED
  BY <1>2, <1>3

-----------------------------------------------------------------------------
(* Every step keeps the table in order.                                    *)

LEMMA AfterCall ==
  ASSUME m_bucket' \in Table, Placed(m_bucket'), IsFiniteSet(KeysOf(m_bucket')),
         m_node_count' = Cardinality(KeysOf(m_bucket')), freed' \subseteq Node,
         at' = NotWalking, todo' \subseteq Key, extra' = FALSE
  PROVE  HashIInv'
<1>1. m_node_count' \in Nat
  BY FS_CardinalityType
<1>2. at' \in Nat \X Nat
  BY DEF NotWalking
<1>3. TypeOK'
  BY <1>1, <1>2 DEF TypeOK, Table
<1>4. WellPlaced' /\ IsFiniteSet(Keys)'
  BY DEF WellPlaced, Keys, KeysOf, Nodes
<1> QED
  BY <1>3, <1>4 DEF HashIInv, TableKept, VisitsAll

(* Where the walk is: its node, and the keys that are ahead of it.         *)
LEMMA WalkAt ==
  ASSUME HashIInv, at # NotWalking
  PROVE  /\ at[1] \in DOMAIN m_bucket /\ at[2] \in DOMAIN m_bucket[at[1]]
         /\ at[2] \in Nat \ {0}
         /\ At(m_bucket, at) \in Nodes /\ At(m_bucket, at) \in Node
         /\ todo = KeysBelow(m_bucket[at[1]], at[2]) \cup KeysIn(m_bucket, at[1] + 1)
<1>1. at[1] \in DOMAIN m_bucket /\ at[2] \in DOMAIN m_bucket[at[1]] /\ m_bucket \in Table
  BY HashIInvParts DEF HashIInv, TableKept, VisitsAll
<1>2. at[2] \in Nat \ {0} /\ At(m_bucket, at) \in Node /\ At(m_bucket, at) \in NodesOf(m_bucket)
  BY <1>1, PositionTypes DEF At
<1> QED
  BY <1>1, <1>2 DEF HashIInv, TableKept, VisitsAll, KeysBelow, KeysIn, m_bucket_count, Nodes

(* A callback that frees its node takes it out of the table.               *)
LEMMA VisitEffect ==
  ASSUME HashIInv, NEW free \in BOOLEAN, NEW stop \in BOOLEAN, Visit(free, stop)
  PROVE  /\ m_bucket' \in Table /\ Placed(m_bucket')
         /\ NodesOf(m_bucket') = IF free THEN Nodes \ {At(m_bucket, at)} ELSE Nodes
         /\ IsFiniteSet(KeysOf(m_bucket'))
         /\ m_node_count' = Cardinality(KeysOf(m_bucket'))
         /\ freed' = IF free THEN {At(m_bucket, at)} ELSE {}
<1> DEFINE node == At(m_bucket, at)
<1>1. /\ at # NotWalking /\ at[1] \in DOMAIN m_bucket /\ at[2] \in DOMAIN m_bucket[at[1]]
      /\ node \in Nodes /\ node \in Node
  BY WalkAt DEF Visit
<1>2. /\ m_bucket \in Table /\ Placed(m_bucket) /\ Nodes = NodesOf(m_bucket)
      /\ m_node_count = Cardinality(KeysOf(m_bucket)) /\ IsFiniteSet(KeysOf(m_bucket))
  BY HashIInvParts
<1>3. CASE ~free
  BY <1>2, <1>3 DEF Visit
<1>4. CASE free
  <2>1. /\ m_bucket' = Out(m_bucket, at[1], at[2])
        /\ m_node_count' = m_node_count - 1
        /\ freed' = {node}
    BY <1>4 DEF Visit, Out, At
  <2>2. /\ m_bucket' \in Table /\ Placed(m_bucket')
        /\ NodesOf(m_bucket') = Nodes \ {node}
    BY <1>1, <1>2, <2>1, TakingOut DEF At
  <2>3. node.key \in Key
    BY <1>1 DEF Node
  <2>4. hash_get(node.key) = {node}
    BY <1>1, <1>2, <2>3, GetIsNodes
  <2>5. /\ IsFiniteSet(KeysOf(m_bucket'))
        /\ Cardinality(KeysOf(m_bucket')) = Cardinality(Keys) - Cardinality({node})
    BY <2>2, <2>3, <2>4, KeysWithout DEF KeysOf
  <2>6. Cardinality({node}) = 1 /\ Keys = KeysOf(m_bucket)
    BY FS_Singleton, HashIInvParts
  <2> QED
    BY <1>2, <1>4, <2>1, <2>2, <2>5, <2>6
<1> QED
  BY <1>3, <1>4

(* ... and the key of its node, which only this node has, from those that  *)
(* are ahead, whether or not the node stays.                               *)
LEMMA VisitLeaves ==
  ASSUME HashIInv, NEW free \in BOOLEAN, NEW stop \in BOOLEAN, Visit(free, stop)
  PROVE  /\ At(m_bucket, at).key \in todo
         /\ DOMAIN m_bucket' = DOMAIN m_bucket
         /\ at[2] - 1 <= Len(m_bucket'[at[1]])
         /\ todo' = KeysBelow(m_bucket'[at[1]], at[2] - 1) \cup KeysIn(m_bucket', at[1] + 1)
<1> DEFINE b == at[1]
           j == at[2]
           k == At(m_bucket, at).key
<1>1. /\ b \in DOMAIN m_bucket /\ j \in DOMAIN m_bucket[b] /\ j \in Nat \ {0}
      /\ todo = KeysBelow(m_bucket[b], j) \cup KeysIn(m_bucket, b + 1)
  BY WalkAt DEF Visit
<1>2. m_bucket \in Table /\ Placed(m_bucket) /\ m_bucket' \in Table
  BY HashIInvParts, VisitEffect
<1>3. /\ b \in Nat /\ b + 1 \in Nat \ {0} /\ m_bucket[b] \in Seq(Node)
      /\ Len(m_bucket[b]) \in Nat /\ DOMAIN m_bucket[b] = 1..Len(m_bucket[b])
  BY <1>1, <1>2 DEF Table
<1>4. k = m_bucket[b][j].key /\ todo' = todo \ {k}
  BY DEF Visit, At
<1>5. /\ DOMAIN m_bucket' = DOMAIN m_bucket
      /\ \A c \in DOMAIN m_bucket : c # b => m_bucket'[c] = m_bucket[c]
      /\ Len(m_bucket'[b]) \in Nat /\ j - 1 <= Len(m_bucket'[b])
      /\ \A i \in 1..(j - 1) : m_bucket'[b][i] = m_bucket[b][i]
  <2>1. CASE ~free
    BY <2>1, <1>1, <1>3 DEF Visit
  <2>2. CASE free
    <3> DEFINE s == m_bucket[b]
               r == RemoveAt(s, j)
    <3>1. m_bucket' = [m_bucket EXCEPT ![b] = r]
      BY <2>2 DEF Visit
    <3>2. j \in 1..Len(s)
      BY <1>1, <1>3
    <3>3. Len(r) = Len(s) - 1 /\ \A i \in 1..(j - 1) : r[i] = s[i]
      BY <1>3, <3>2, RemovedElements
    <3> HIDE DEF r
    <3>4. m_bucket'[b] = r /\ \A c \in DOMAIN m_bucket : c # b => m_bucket'[c] = m_bucket[c]
      BY <1>1, <3>1
    <3> QED
      BY <1>1, <1>3, <3>1, <3>2, <3>3, <3>4
  <2> QED
    BY <2>1, <2>2
<1> HIDE DEF b, j
<1>6. k \in KeysBelow(m_bucket[b], j)
  BY <1>1, <1>4 DEF KeysBelow
<1>7. KeysIn(m_bucket', b + 1) = KeysIn(m_bucket, b + 1)
  <2>1. ASSUME NEW x PROVE x \in KeysIn(m_bucket', b + 1) <=> x \in KeysIn(m_bucket, b + 1)
    <3>1. \A c \in DOMAIN m_bucket : c >= b + 1 => m_bucket'[c] = m_bucket[c]
      BY <1>3, <1>5 DEF Table
    <3>2. x \in KeysIn(m_bucket, b + 1) <=>
            \E c \in DOMAIN m_bucket : \E i \in DOMAIN m_bucket[c] : c >= b + 1 /\ x = m_bucket[c][i].key
      BY <1>2, <1>3, KeysInAre
    <3>3. x \in KeysIn(m_bucket', b + 1) <=>
            \E c \in DOMAIN m_bucket' : \E i \in DOMAIN m_bucket'[c] :
              c >= b + 1 /\ x = m_bucket'[c][i].key
      BY <1>2, <1>3, KeysInAre
    <3> QED
      BY <3>1, <3>2, <3>3, <1>5
  <2> QED
    BY <2>1
<1>8. KeysBelow(m_bucket'[b], j - 1) = KeysBelow(m_bucket[b], j - 1)
  BY <1>5 DEF KeysBelow
<1>9. k \notin KeysIn(m_bucket, b + 1)
  <2>1. SUFFICES ASSUME k \in KeysIn(m_bucket, b + 1) PROVE FALSE
    OBVIOUS
  <2>2. PICK c \in DOMAIN m_bucket : \E i \in DOMAIN m_bucket[c] : c >= b + 1 /\ k = m_bucket[c][i].key
    BY <1>2, <1>3, <2>1, KeysInAre
  <2>3. c = b
    BY <1>1, <1>2, <1>4, <2>2, OnePosition
  <2> QED
    BY <1>3, <2>2, <2>3
<1>10. KeysBelow(m_bucket[b], j) \ {k} = KeysBelow(m_bucket[b], j - 1)
  <2>1. \A i \in 1..(j - 1) : i \in DOMAIN m_bucket[b] /\ i # j /\ i \in 1..j
    BY <1>1, <1>3
  <2>2. \A i \in 1..(j - 1) : m_bucket[b][i].key # k
    BY <1>1, <1>2, <1>4, <2>1, OnePosition
  <2>3. \A i \in 1..j : i = j \/ i \in 1..(j - 1)
    BY <1>1
  <2> QED
    BY <1>4, <2>1, <2>2, <2>3 DEF KeysBelow
<1>11. todo' = KeysBelow(m_bucket[b], j - 1) \cup KeysIn(m_bucket, b + 1)
  BY <1>1, <1>4, <1>9, <1>10
<1> QED
  BY <1>1, <1>5, <1>6, <1>7, <1>8, <1>11 DEF b, j

LEMMA VisitIInv ==
  ASSUME HashIInv, NEW free \in BOOLEAN, NEW stop \in BOOLEAN, Visit(free, stop)
  PROVE  HashIInv'
<1>1. /\ m_bucket' \in Table /\ Placed(m_bucket') /\ IsFiniteSet(KeysOf(m_bucket'))
      /\ m_node_count' = Cardinality(KeysOf(m_bucket'))
      /\ freed' = IF free THEN {At(m_bucket, at)} ELSE {}
  BY VisitEffect
<1>2. at # NotWalking /\ At(m_bucket, at) \in Node /\ todo \subseteq Key /\ extra = FALSE
  BY WalkAt DEF Visit, HashIInv, TableKept, TypeOK, VisitsAll
<1>3. freed' \subseteq Node /\ todo' \subseteq Key
  BY <1>1, <1>2 DEF Visit
<1>4. extra' = FALSE
  <2>1. extra' = (extra \/ At(m_bucket, at).key \notin todo)
    BY DEF Visit, At
  <2> QED
    BY <1>2, <2>1, VisitLeaves
<1>5. CASE at' = NotWalking
  BY <1>1, <1>3, <1>4, <1>5, AfterCall
<1>6. CASE at' # NotWalking
  <2>1. at' = Step(m_bucket', at[1], at[2])
    BY <1>6 DEF Visit
  <2>2. at[1] \in DOMAIN m_bucket' /\ at[2] \in Nat \ {0} /\ at[2] - 1 <= Len(m_bucket'[at[1]])
    BY <1>2, VisitLeaves, WalkAt
  <2>3. PICK p : p = at'
    OBVIOUS
  <2>4. /\ p \in Nat \X Nat
        /\ p[1] \in DOMAIN m_bucket' /\ p[2] \in DOMAIN m_bucket'[p[1]]
        /\ KeysBelow(m_bucket'[p[1]], p[2]) \cup KeysIn(m_bucket', p[1] + 1) =
             KeysBelow(m_bucket'[at[1]], at[2] - 1) \cup KeysIn(m_bucket', at[1] + 1)
    <3>1. p = Step(m_bucket', at[1], at[2]) /\ p # NotWalking
      BY <1>6, <2>1, <2>3
    <3> QED
      BY <1>1, <2>2, <3>1, StepIs
  <2>5. todo' = KeysBelow(m_bucket'[p[1]], p[2]) \cup KeysIn(m_bucket', p[1] + 1)
    BY <2>4, VisitLeaves
  <2>6. VisitsAll'
    BY <1>4, <2>3, <2>4, <2>5 DEF VisitsAll, KeysBelow, KeysIn, m_bucket_count
  <2>7. WellPlaced' /\ IsFiniteSet(Keys)'
    BY <1>1 DEF WellPlaced, Keys, KeysOf, Nodes
  <2>8. m_node_count' \in Nat
    BY <1>1, FS_CardinalityType
  <2>9. TypeOK'
    BY <1>1, <1>3, <1>4, <2>3, <2>4, <2>8 DEF TypeOK, Table
  <2> QED
    BY <2>3, <2>4, <2>6, <2>7, <2>9 DEF HashIInv, TableKept
<1> QED
  BY <1>5, <1>6

LEMMA PutIInv ==
  ASSUME HashIInv, NEW k \in Key, NEW v \in Val, hash_put(k, v)
  PROVE  HashIInv'
<1> DEFINE rest == {o.key : o \in Nodes \ hash_get(k)}
           node == [key |-> k, val |-> v, hash |-> Hash[k]]
<1>1. /\ m_bucket' \in Table /\ Placed(m_bucket')
      /\ NodesOf(m_bucket') = (Nodes \ hash_get(k)) \cup {node}
      /\ m_node_count' = Cardinality(Keys) - Cardinality(hash_get(k)) + 1
  BY PutEffect
<1>2. /\ rest = Keys \ {k} /\ IsFiniteSet(rest)
      /\ Cardinality(rest) = Cardinality(Keys) - Cardinality(hash_get(k))
  BY KeysWithout
<1>3. KeysOf(m_bucket') = rest \cup {k}
  <2>1. PICK o : o = node
    OBVIOUS
  <2>2. o.key = k /\ NodesOf(m_bucket') = (Nodes \ hash_get(k)) \cup {o}
    BY <1>1, <2>1
  <2> QED
    BY <2>2 DEF KeysOf
<1> HIDE DEF rest
<1>4. /\ IsFiniteSet(KeysOf(m_bucket'))
      /\ Cardinality(KeysOf(m_bucket')) = Cardinality(rest) + 1
  BY <1>2, <1>3, FS_AddElement
<1>5. freed' \subseteq Node
  BY HashIInvParts, GetIsNodes DEF hash_put
<1>6. at' = NotWalking /\ todo' \subseteq Key /\ extra' = FALSE
  BY DEF hash_put, CanCall, walkVars, HashIInv, TableKept, TypeOK, VisitsAll
<1> QED
  BY <1>1, <1>2, <1>4, <1>5, <1>6, AfterCall

LEMMA RemoveIInv ==
  ASSUME HashIInv, NEW k \in Key, hash_remove(k)
  PROVE  HashIInv'
<1>1. /\ m_bucket' \in Table /\ Placed(m_bucket')
      /\ NodesOf(m_bucket') = Nodes \ hash_get(k)
      /\ m_node_count' = Cardinality(Keys) - Cardinality(hash_get(k))
  BY RemoveEffect
<1>2. /\ IsFiniteSet(KeysOf(m_bucket'))
      /\ Cardinality(KeysOf(m_bucket')) = m_node_count'
  BY <1>1, KeysWithout DEF KeysOf
<1>3. freed' \subseteq Node
  BY HashIInvParts, GetIsNodes DEF hash_remove
<1>4. at' = NotWalking /\ todo' \subseteq Key /\ extra' = FALSE
  BY DEF hash_remove, CanCall, walkVars, HashIInv, TableKept, TypeOK, VisitsAll
<1> QED
  BY <1>1, <1>2, <1>3, <1>4, AfterCall

(* hash_init and hash_clear leave an empty table.                          *)
LEMMA EmptyIInv ==
  ASSUME NEW n \in Nat, m_bucket' = [b \in 1..n |-> <<>>], m_node_count' = 0,
         freed' \subseteq Node, at' = NotWalking, todo' \subseteq Key, extra' = FALSE
  PROVE  HashIInv'
<1>1. m_bucket' \in Table /\ Placed(m_bucket') /\ NodesOf(m_bucket') = {}
  BY EmptyTable
<1>2. KeysOf(m_bucket') = {}
  BY <1>1 DEF KeysOf
<1> QED
  BY <1>1, <1>2, FS_EmptySet, AfterCall

LEMMA InitIInv ==
  ASSUME HashIInv, NEW n \in Buckets, hash_init(n)
  PROVE  HashIInv'
<1>1. at = NotWalking
  BY DEF hash_init, HashIInv
<1>2. n \in Nat
  BY HashAssumption
<1> QED
  BY <1>1, <1>2, EmptyIInv DEF hash_init, walkVars, HashIInv, TableKept, TypeOK, VisitsAll

LEMMA ClearIInv ==
  ASSUME HashIInv, hash_clear
  PROVE  HashIInv'
<1>1. m_bucket' = [b \in 1..0 |-> <<>>]
  BY DEF hash_clear
<1>2. freed' \subseteq Node
  BY HashIInvParts DEF hash_clear
<1> QED
  BY <1>1, <1>2, EmptyIInv
     DEF hash_clear, CanCall, walkVars, HashIInv, TableKept, TypeOK, VisitsAll

(* hash_foreach begins with all keys ahead.                                *)
LEMMA ForeachIInv ==
  ASSUME HashIInv, hash_foreach
  PROVE  HashIInv'
<1>1. m_bucket \in Table /\ Placed(m_bucket) /\ Nodes = NodesOf(m_bucket) /\ Nodes \subseteq Node
  BY HashIInvParts
<1>2. m_bucket' = m_bucket /\ m_node_count' = m_node_count
  BY DEF hash_foreach
<1>3. todo' = Keys /\ freed' = {} /\ extra' = FALSE
  BY DEF hash_foreach
<1>4. Keys = KeysIn(m_bucket, 1)
  <2>1. ASSUME NEW k PROVE k \in Keys <=> k \in KeysIn(m_bucket, 1)
    <3>1. k \in KeysIn(m_bucket, 1) <=>
            \E b \in DOMAIN m_bucket : \E i \in DOMAIN m_bucket[b] :
              b >= 1 /\ k = m_bucket[b][i].key
      BY <1>1, KeysInAre
    <3>2. \A b \in DOMAIN m_bucket : b >= 1
      BY <1>1 DEF Table
    <3>3. k \in Keys <=> \E node \in Nodes : k = node.key
      BY DEF Keys
    <3>4. \A node : node \in Nodes <=>
            \E b \in DOMAIN m_bucket : \E i \in DOMAIN m_bucket[b] : node = m_bucket[b][i]
      BY <1>1, NodesAreAtPositions
    <3> QED
      BY <3>1, <3>2, <3>3, <3>4
  <2> QED
    BY <2>1
<1>5. Keys \subseteq Key
  BY <1>1 DEF Keys, Node
<1>6. PICK p : p = at'
  OBVIOUS
<1>7. p = LastOf(m_bucket, 1)
  BY <1>6 DEF hash_foreach
<1>8. p # NotWalking =>
        /\ p \in Nat \X Nat
        /\ p[1] \in DOMAIN m_bucket /\ p[2] \in DOMAIN m_bucket[p[1]]
        /\ Keys = KeysBelow(m_bucket[p[1]], p[2]) \cup KeysIn(m_bucket, p[1] + 1)
  BY <1>1, <1>4, <1>7, LastOfIs
<1>9. p \in Nat \X Nat
  BY <1>8 DEF NotWalking
<1>10. VisitsAll'
  BY <1>2, <1>3, <1>6, <1>8 DEF VisitsAll, KeysBelow, KeysIn, m_bucket_count
<1>11. WellPlaced' /\ IsFiniteSet(Keys)'
  BY <1>2 DEF HashIInv, TableKept, WellPlaced, Keys, Nodes
<1>12. TypeOK'
  BY <1>2, <1>3, <1>5, <1>6, <1>9 DEF HashIInv, TableKept, TypeOK
<1> QED
  BY <1>2, <1>6, <1>8, <1>10, <1>11, <1>12 DEF HashIInv, TableKept

LEMMA HashStepIInv ==
  ASSUME HashIInv, [Next]_vars
  PROVE  HashIInv'
<1>1. ASSUME NEW n \in Buckets, hash_init(n) PROVE HashIInv'
  BY <1>1, InitIInv
<1>2. ASSUME NEW k \in Key, NEW v \in Val, hash_put(k, v) PROVE HashIInv'
  BY <1>2, PutIInv
<1>3. ASSUME NEW k \in Key, hash_remove(k) PROVE HashIInv'
  BY <1>3, RemoveIInv
<1>4. CASE hash_clear
  BY <1>4, ClearIInv
<1>5. CASE hash_foreach
  BY <1>5, ForeachIInv
<1>6. ASSUME NEW free \in BOOLEAN, NEW stop \in BOOLEAN, Visit(free, stop) PROVE HashIInv'
  BY <1>6, VisitIInv
<1>7. CASE UNCHANGED vars
  BY <1>7 DEF vars, HashIInv, TableKept, TypeOK, WellPlaced, VisitsAll, Keys, Nodes, m_bucket_count
<1> QED
  BY <1>1, <1>2, <1>3, <1>4, <1>5, <1>6, <1>7 DEF Next

LEMMA HashBegins ==
  ASSUME Init
  PROVE  HashIInv
<1>1. m_bucket \in Table /\ Placed(m_bucket) /\ Nodes = {}
  BY DEF Init, Table, Placed, Nodes, NodesOf
<1>2. Keys = {}
  BY <1>1 DEF Keys
<1>3. TypeOK
  BY <1>1 DEF Init, TypeOK, Table, NotWalking
<1> QED
  BY <1>1, <1>2, <1>3, FS_EmptySet
     DEF Init, HashIInv, TableKept, WellPlaced, VisitsAll

-----------------------------------------------------------------------------
(* A behaviour of Library is one of the hash table, as far as the table    *)
(* goes.                                                                   *)
LEMMA HashPart == AllSpec => Spec
<1>1. AllInit => Init
  BY DEF AllInit
<1>2. [AllNext]_allVars => [Next]_vars
  BY DEF AllNext, allVars, vars, HashStep, ArrayStep, PoolStep, ListStep, LeakStep, CfgStep,
         CertStep, NsStep, DirStep, LogStep, MmapStep, PacketStep
<1> QED
  BY <1>1, <1>2, PTL DEF AllSpec, Spec

LEMMA HashAlwaysIInv == Spec => []HashIInv
<1>1. Init => HashIInv
  BY HashBegins
<1>2. HashIInv /\ [Next]_vars => HashIInv'
  BY HashStepIInv
<1> QED
  BY <1>1, <1>2, PTL DEF Spec

(* For any keys, hash functions and sizes, and whatever a callback of      *)
(* hash_foreach frees: each node is in the bucket its hash selects, a key  *)
(* has one node, the count is theirs, and the walk visits every node once. *)
THEOREM TablesKept == AllSpec => []TableKept
<1>1. HashIInv => TableKept
  BY DEF HashIInv
<1> QED
  BY <1>1, HashPart, HashAlwaysIInv, PTL

(* The free functions of hash_init get the nodes that leave the table, and *)
(* no others.                                                              *)
THEOREM FreedWhenGone == AllSpec => FreedAreGone
<1> DEFINE Left == Nodes \ Nodes'
           Again == {n \in Nodes : Replaced(n)}
<1>1. ASSUME HashIInv, NEW n \in Again PROVE n \in freed'
  <2>1. n \in Nodes /\ n.key \in Key
    BY <1>1, HashIInvParts DEF Node
  <2>2. n \in hash_get(n.key)
    BY <1>1, <2>1, HashIInvParts, GetIsNodes
  <2> QED
    BY <1>1, <2>2 DEF Replaced, hash_put
<1>2. ASSUME HashIInv, Next PROVE Left \subseteq freed' /\ freed' \subseteq Left \cup Again
  <2>0. Nodes' = NodesOf(m_bucket')
    BY DEF Nodes
  <2>1. ASSUME NEW n \in Buckets, hash_init(n) PROVE freed' = Left
    <3>1. Nodes = {}
      BY <2>1 DEF hash_init, Nodes, NodesOf
    <3> QED
      BY <2>1, <3>1 DEF hash_init
  <2>2. ASSUME NEW k \in Key, NEW v \in Val, hash_put(k, v)
        PROVE  Left \subseteq freed' /\ freed' \subseteq Again
    <3>1. Nodes \ hash_get(k) \subseteq Nodes'
      BY <1>2, <2>0, <2>2, PutEffect
    <3>2. hash_get(k) = {n \in Nodes : n.key = k}
      BY <1>2, HashIInvParts, GetIsNodes
    <3>3. freed' = hash_get(k)
      BY <2>2 DEF hash_put
    <3>4. ASSUME NEW n \in hash_get(k) PROVE n \in Again
      BY <2>2, <3>2, <3>4 DEF Replaced
    <3> QED
      BY <3>1, <3>3, <3>4
  <2>3. ASSUME NEW k \in Key, hash_remove(k) PROVE freed' = Left
    <3>1. Nodes' = Nodes \ hash_get(k)
      BY <1>2, <2>0, <2>3, RemoveEffect
    <3>2. hash_get(k) \subseteq Nodes
      BY <1>2, HashIInvParts, GetIsNodes
    <3> QED
      BY <2>3, <3>1, <3>2 DEF hash_remove
  <2>4. CASE hash_clear
    <3>1. Nodes' = {}
      BY <2>4 DEF hash_clear, Nodes, NodesOf
    <3> QED
      BY <2>4, <3>1 DEF hash_clear
  <2>5. CASE hash_foreach
    <3>1. Nodes' = Nodes /\ freed' = {}
      BY <2>5 DEF hash_foreach, Nodes
    <3> QED
      BY <3>1
  <2>6. ASSUME NEW free \in BOOLEAN, NEW stop \in BOOLEAN, Visit(free, stop) PROVE freed' = Left
    <3>1. /\ Nodes' = IF free THEN Nodes \ {At(m_bucket, at)} ELSE Nodes
          /\ freed' = IF free THEN {At(m_bucket, at)} ELSE {}
      BY <1>2, <2>0, <2>6, VisitEffect
    <3>2. At(m_bucket, at) \in Nodes
      BY <1>2, <2>6, WalkAt DEF Visit
    <3> QED
      BY <3>1, <3>2
  <2> HIDE DEF Left, Again
  <2> QED
    BY <1>2, <2>1, <2>2, <2>3, <2>4, <2>5, <2>6 DEF Next
<1>3. HashIInv /\ [Next]_vars => [freed' = Left \cup Again]_vars
  BY <1>1, <1>2
<1> QED
  BY <1>3, HashPart, HashAlwaysIInv, PTL DEF FreedAreGone, Spec

-----------------------------------------------------------------------------
(* The table as a map.                                                     *)

ContentsFollow ==
  /\ \A node \in Nodes : node.key \in Key => Contents[node.key] = node.val
  /\ \A k \in Key : k \notin Keys => Contents[k] = NoVal

LEMMA ContentsAre == HashIInv => ContentsFollow
<1> SUFFICES ASSUME HashIInv PROVE ContentsFollow
  OBVIOUS
<1>0. m_bucket \in Table /\ Placed(m_bucket)
  BY HashIInvParts
<1>1. ASSUME NEW node \in Nodes, node.key \in Key PROVE Contents[node.key] = node.val
  <2>1. hash_get(node.key) = {node}
    BY <1>0, <1>1, GetIsNodes
  <2> QED
    BY <1>1, <2>1 DEF Contents
<1>2. ASSUME NEW k \in Key, k \notin Keys PROVE Contents[k] = NoVal
  <2>1. hash_get(k) = {}
    BY <1>0, <1>2, GetIsNodes DEF Keys
  <2> QED
    BY <1>2, <2>1 DEF Contents
<1> QED
  BY <1>1, <1>2 DEF ContentsFollow

(* What two tables have in common they map alike.                          *)
LEMMA ContentsAfter ==
  ASSUME HashIInv, HashIInv', NEW k \in Key,
         \A node : node.key = k => (node \in Nodes <=> node \in Nodes')
  PROVE  Contents'[k] = Contents[k]
<1>1. ContentsFollow /\ ContentsFollow'
  BY ContentsAre, PTL
<1>2. /\ \A node \in Nodes : node.key \in Key => Contents[node.key] = node.val
      /\ \A l \in Key : l \notin Keys => Contents[l] = NoVal
      /\ \A node \in Nodes' : node.key \in Key => Contents'[node.key] = node.val
      /\ \A l \in Key : l \notin Keys' => Contents'[l] = NoVal
  BY <1>1 DEF ContentsFollow
<1>3. CASE k \in Keys
  <2>1. PICK node \in Nodes : node.key = k
    BY <1>3 DEF Keys
  <2> QED
    BY <2>1, <1>2
<1>4. CASE k \notin Keys
  <2>1. k \notin Keys'
    BY <1>4 DEF Keys
  <2> QED
    BY <1>2, <1>4, <2>1
<1> QED
  BY <1>3, <1>4

(* One key changes at most.                                                *)
LEMMA OneKeyAfter ==
  ASSUME HashIInv, HashIInv', NEW k \in Key,
         \A node : node.key # k => (node \in Nodes <=> node \in Nodes')
  PROVE  Contents' = [Contents EXCEPT ![k] = Contents'[k]]
<1>1. \A l \in Key : l # k => Contents'[l] = Contents[l]
  <2> TAKE l \in Key
  <2>1. l # k => \A node : node.key = l => (node \in Nodes <=> node \in Nodes')
    OBVIOUS
  <2> QED
    BY <2>1, ContentsAfter
<1>2. Contents = [l \in Key |-> Contents[l]] /\ Contents' = [l \in Key |-> Contents'[l]]
  BY DEF Contents
<1> QED
  BY <1>1, <1>2

LEMMA PutMaps ==
  ASSUME HashIInv, HashIInv', NEW k \in Key, NEW v \in Val, hash_put(k, v)
  PROVE  Map!Put
<1>1. PICK node : node = [key |-> k, val |-> v, hash |-> Hash[k]]
  OBVIOUS
<1>2. node.key = k /\ node.val = v
  BY <1>1
<1>3. Nodes' = (Nodes \ hash_get(k)) \cup {node}
  BY <1>1, PutEffect DEF Nodes
<1>4. hash_get(k) = {o \in Nodes : o.key = k}
  BY HashIInvParts, GetIsNodes
<1>5. \A o : o.key # k => (o \in Nodes <=> o \in Nodes')
  BY <1>2, <1>3, <1>4
<1>6. ContentsFollow'
  BY ContentsAre, PTL
<1>7. Contents'[k] = v
  BY <1>2, <1>3, <1>6 DEF ContentsFollow
<1>8. Contents' = [Contents EXCEPT ![k] = v]
  BY <1>5, <1>7, OneKeyAfter
<1> QED
  BY <1>8 DEF Map!Put

(* A node that is removed, or freed by the callback, takes its key along.  *)
LEMMA WithoutKeyMaps ==
  ASSUME HashIInv, HashIInv', NEW k \in Key, Nodes' = Nodes \ hash_get(k)
  PROVE  Map!Remove
<1>1. hash_get(k) = {o \in Nodes : o.key = k}
  BY HashIInvParts, GetIsNodes
<1>2. \A o : o.key # k => (o \in Nodes <=> o \in Nodes')
  BY <1>1
<1>3. k \notin Keys'
  BY <1>1 DEF Keys
<1>4. ContentsFollow'
  BY ContentsAre, PTL
<1>5. Contents'[k] = NoVal
  BY <1>3, <1>4 DEF ContentsFollow
<1>6. Contents' = [Contents EXCEPT ![k] = NoVal]
  BY <1>2, <1>5, OneKeyAfter
<1> QED
  BY <1>6 DEF Map!Remove

LEMMA NothingMaps ==
  ASSUME HashIInv, Nodes = {}
  PROVE  Contents = [k \in Key |-> NoVal]
<1>1. ContentsFollow
  BY ContentsAre
<1>2. \A k \in Key : Contents[k] = NoVal
  BY <1>1 DEF ContentsFollow, Keys
<1>3. Contents = [k \in Key |-> Contents[k]]
  BY DEF Contents
<1> QED
  BY <1>2, <1>3

LEMMA SameMaps ==
  ASSUME HashIInv, HashIInv', Nodes' = Nodes
  PROVE  Contents' = Contents
<1>1. \A k \in Key : Contents'[k] = Contents[k]
  BY ContentsAfter
<1>2. Contents = [k \in Key |-> Contents[k]] /\ Contents' = [k \in Key |-> Contents'[k]]
  BY DEF Contents
<1> QED
  BY <1>1, <1>2

LEMMA HashStepMaps ==
  ASSUME HashIInv, HashIInv', [Next]_vars
  PROVE  [Map!Next]_Contents
<1>1. ASSUME NEW n \in Buckets, hash_init(n) PROVE Contents' = Contents
  <2>1. Nodes = {}
    BY <1>1 DEF hash_init, Nodes, NodesOf
  <2>2. n \in Nat
    BY HashAssumption
  <2>3. Nodes' = {}
    BY <1>1, <2>2, EmptyTable DEF hash_init, Nodes
  <2> QED
    BY <2>1, <2>3, SameMaps
<1>2. ASSUME NEW k \in Key, NEW v \in Val, hash_put(k, v) PROVE Map!Put
  BY <1>2, PutMaps
<1>3. ASSUME NEW k \in Key, hash_remove(k) PROVE Map!Remove
  BY <1>3, RemoveEffect, WithoutKeyMaps DEF Nodes
<1>4. CASE hash_clear
  <2>1. Nodes' = {}
    BY <1>4 DEF hash_clear, Nodes, NodesOf
  <2>2. ContentsFollow'
    BY ContentsAre, PTL
  <2>3. Contents' = [k \in Key |-> NoVal]
    <3>1. \A k \in Key : Contents'[k] = NoVal
      BY <2>1, <2>2 DEF ContentsFollow, Keys
    <3>2. Contents' = [k \in Key |-> Contents'[k]]
      BY DEF Contents
    <3> QED
      BY <3>1, <3>2
  <2> QED
    BY <2>3 DEF Map!Next, Map!Clear
<1>5. CASE hash_foreach
  <2>1. Nodes' = Nodes
    BY <1>5 DEF hash_foreach, Nodes
  <2> QED
    BY <2>1, SameMaps
<1>6. ASSUME NEW free \in BOOLEAN, NEW stop \in BOOLEAN, Visit(free, stop)
      PROVE  [Map!Next]_Contents
  <2>1. Nodes' = IF free THEN Nodes \ {At(m_bucket, at)} ELSE Nodes
    BY <1>6, VisitEffect DEF Nodes
  <2>2. CASE free
    <3>1. At(m_bucket, at) \in Nodes /\ At(m_bucket, at).key \in Key
      BY <1>6, WalkAt DEF Visit, Node
    <3>2. hash_get(At(m_bucket, at).key) = {At(m_bucket, at)}
      BY <3>1, HashIInvParts, GetIsNodes
    <3> QED
      BY <2>1, <2>2, <3>1, <3>2, WithoutKeyMaps DEF Map!Next
  <2>3. CASE ~free
    BY <2>1, <2>3, SameMaps
  <2> QED
    BY <2>2, <2>3
<1>7. CASE UNCHANGED vars
  <2>1. Nodes' = Nodes
    BY <1>7 DEF vars, Nodes
  <2> QED
    BY <2>1, SameMaps
<1> QED
  BY <1>1, <1>2, <1>3, <1>4, <1>5, <1>6, <1>7 DEF Next, Map!Next

(* The table implements a map: growing moves every node and changes no     *)
(* value, and what a key was given last is what hash_get returns.          *)
THEOREM ImplementsMap == AllSpec => IsMap
<1>1. Init => Map!Init
  <2> SUFFICES ASSUME Init PROVE Map!Init
    OBVIOUS
  <2>1. Nodes = {}
    BY DEF Init, Nodes, NodesOf
  <2> QED
    BY <2>1, HashBegins, NothingMaps DEF Map!Init
<1>2. HashIInv /\ HashIInv' /\ [Next]_vars => [Map!Next]_Contents
  BY HashStepMaps
<1> QED
  BY <1>1, <1>2, HashPart, HashAlwaysIInv, PTL DEF IsMap, Map!Spec, Spec

-----------------------------------------------------------------------------
(* Certificates: v1 is the time, v2 what is stored, v3 the calls, v4 the   *)
(* keys, v5 the last certificate and v6 whether all was quiet; see         *)
(* CfgCrypt.                                                               *)

LEMMA StartsIInv ==
  ASSUME S!IInv, NEW p \in Proc, S!cfg_get(p)
  PROVE  S!IInv'
<1> DEFINE New(host, read) ==
         [q \in Proc |->
           IF q = p
           THEN [at |-> "check", hostname |-> host, crypt |-> read, overlapped |-> S!Others(p) # {}]
           ELSE [v3[q] EXCEPT !.overlapped = @ \/ v3[q].at # "idle"]]
           Reads == {v2} \cup {S!Broken : q \in {o \in S!Others(p) : v3[o].at = "save"}}
<1>1. \E host \in Host \cup {""} : \E read \in Reads : v3' = New(host, read)
  BY DEF S!cfg_get
<1>2. PICK host, read : v3' = New(host, read) /\ (S!Others(p) = {} => read = v2)
  <2>1. S!Others(p) = {} => \A r \in Reads : r = v2
    BY Zenon
  <2> HIDE DEF New, Reads
  <2> QED
    BY <1>1, <2>1, Zenon
<1>3. UNCHANGED <<v1, v2, v4, v5, v6>>
  BY DEF S!cfg_get
<1>4. S!Others(p) = {} => read = v2
  BY <1>2
<1>5. /\ v3'[p].at = "check" /\ v3'[p].crypt = read
      /\ v3'[p].overlapped <=> S!Others(p) # {}
      /\ \A q \in Proc \ {p} : v3'[q].at = v3[q].at
      /\ \A q \in Proc \ {p} : v3'[q].overlapped \/ v3'[q].at = "idle"
  <2>1. p \in Proc /\ \A q \in Proc : v3'[q] =
            IF q = p
            THEN [at |-> "check", hostname |-> host, crypt |-> read, overlapped |-> S!Others(p) # {}]
            ELSE [v3[q] EXCEPT !.overlapped = @ \/ v3[q].at # "idle"]
    BY <1>2
  <2>2. /\ v3'[p].at = "check" /\ v3'[p].crypt = read
        /\ v3'[p].overlapped <=> S!Others(p) # {}
    <3> DEFINE others == S!Others(p) # {}
    <3>1. v3'[p] = [at |-> "check", hostname |-> host, crypt |-> read, overlapped |-> others]
      BY <2>1
    <3> HIDE DEF others
    <3>2. v3'[p].at = "check" /\ v3'[p].crypt = read
      BY <3>1
    <3>3. v3'[p].overlapped = others
      BY <3>1
    <3> QED
      BY <3>2, <3>3 DEF others
  <2>3. ASSUME NEW q \in Proc \ {p}
        PROVE  v3'[q].at = v3[q].at /\ (v3'[q].overlapped \/ v3'[q].at = "idle")
    <3>1. v3[q] = [at |-> v3[q].at, hostname |-> v3[q].hostname,
                     crypt |-> v3[q].crypt, overlapped |-> v3[q].overlapped]
      BY DEF S!IInv, S!Shapes
    <3>2. v3'[q] = [v3[q] EXCEPT !.overlapped = @ \/ v3[q].at # "idle"]
      BY <2>1
    <3> QED
      BY <3>1, <3>2
  <2> QED
    BY <2>2, <2>3
<1>6. S!Shapes'
  <2> SUFFICES ASSUME NEW q \in Proc
               PROVE  /\ v3'[q] = [at |-> v3'[q].at, hostname |-> v3'[q].hostname,
                                     crypt |-> v3'[q].crypt,
                                     overlapped |-> v3'[q].overlapped]
                      /\ v3'[q].overlapped \in BOOLEAN
    BY <1>2 DEF S!Shapes
  <2>1. CASE q = p
    BY <1>2, <2>1
  <2>2. CASE q # p
    BY <1>2, <2>2 DEF S!IInv, S!Shapes
  <2> QED
    BY <2>1, <2>2
<1>7. S!AloneInv'
  <2>1. ASSUME NEW x \in Proc, v3'[x].at = "save" PROVE v3'[x].crypt # <<>>
    <3>1. x # p
      BY <1>5, <2>1
    <3>2. v3'[x].crypt = v3[x].crypt /\ v3'[x].at = v3[x].at
      <4>1. v3'[x] = [v3[x] EXCEPT !.overlapped = @ \/ v3[x].at # "idle"]
        BY <1>2, <3>1
      <4> QED
        BY <4>1 DEF S!IInv, S!Shapes
    <3> QED
      BY <2>1, <3>2 DEF S!IInv, S!AloneInv
  <2>2. ASSUME NEW x \in Proc, v3'[x].at # "idle", ~v3'[x].overlapped
        PROVE  /\ \A q \in Proc : v3'[q].at # "idle" => q = x
               /\ v3'[x].at = "check" => v3'[x].crypt \in {<<>>, v2'}
    <3>1. x = p /\ S!Others(p) = {}
      BY <1>5, <2>2
    <3>2. \A q \in Proc : v3[q].at # "idle" => q = p
      BY <3>1 DEF S!Others
    <3> QED
      BY <1>3, <1>4, <1>5, <3>1, <3>2
  <2> QED
    BY <2>1, <2>2 DEF S!AloneInv
<1> QED
  BY <1>3, <1>6, <1>7 DEF S!IInv, S!StoredAsReturned

(* A call that goes on leaves the file; one that ends leaves it as it was, *)
(* writes what it returns, or says that it failed.                         *)
LEMMA GoesOnIInv ==
  ASSUME S!IInv, NEW p \in Proc, S!Renew(p) \/ S!LoadFails(p) \/ S!Generate(p)
  PROVE  S!IInv'
<1>1. v2' = v2 /\ v5' = v5 /\ (v6' = v6 \/ v6' = FALSE)
  BY DEF S!Renew, S!LoadFails, S!Generate, S!Save
<1>2. PICK place, host, crypt :
        /\ v3' = [v3 EXCEPT ![p] = [at |-> place, hostname |-> host, crypt |-> crypt,
                                         overlapped |-> v3[p].overlapped]]
        /\ (place = "save" /\ crypt # <<>>) \/ (place = "check" /\ crypt = <<>>)
  <2> DEFINE Moves(place, host, crypt) ==
        /\ v3' = [v3 EXCEPT ![p] = [at |-> place, hostname |-> host, crypt |-> crypt,
                                         overlapped |-> v3[p].overlapped]]
        /\ (place = "save" /\ crypt # <<>>) \/ (place = "check" /\ crypt = <<>>)
  <2>1. /\ v3 = [q \in Proc |-> v3[q]]
        /\ v3[p] = [at |-> v3[p].at, hostname |-> v3[p].hostname,
                      crypt |-> v3[p].crypt, overlapped |-> v3[p].overlapped]
    BY DEF S!IInv, S!Shapes
  <2>2. ASSUME NEW c, S!Save(p, c) PROVE Moves("save", v3[p].hostname, <<c>>)
    <3>1. <<c>> # <<>>
      OBVIOUS
    <3>2. v3' = [v3 EXCEPT ![p].at = "save", ![p].crypt = <<c>>]
      BY <2>2 DEF S!Save
    <3> DEFINE saved == <<c>>
    <3> HIDE DEF saved
    <3>3. v3' = [v3 EXCEPT ![p].at = "save", ![p].crypt = saved]
      BY <3>2 DEF saved
    <3>4. v3'[p] = [at |-> "save", hostname |-> v3[p].hostname, crypt |-> saved,
                      overlapped |-> v3[p].overlapped]
      BY <2>1, <3>3
    <3>5. v3' = [v3 EXCEPT ![p] = [at |-> "save", hostname |-> v3[p].hostname,
                                       crypt |-> saved, overlapped |-> v3[p].overlapped]]
      BY <2>1, <3>3, <3>4
    <3> QED
      BY <3>1, <3>5 DEF saved
  <2>3. ASSUME S!LoadFails(p) PROVE \E host : Moves("check", host, <<>>)
    <3>1. PICK host : v3' = [v3 EXCEPT ![p].hostname = host, ![p].crypt = <<>>]
      BY <2>3 DEF S!LoadFails
    <3>2. v3'[p] = [at |-> "check", hostname |-> host, crypt |-> <<>>,
                      overlapped |-> v3[p].overlapped]
      BY <2>1, <2>3, <3>1 DEF S!LoadFails
    <3>3. Moves("check", host, <<>>)
      BY <2>1, <3>1, <3>2
    <3> QED
      BY <3>3
  <2>4. (\E c : S!Save(p, c)) \/ S!LoadFails(p)
    BY DEF S!Renew, S!Generate
  <2> HIDE DEF Moves
  <2>5. \E place, host, crypt : Moves(place, host, crypt)
    BY <2>2, <2>3, <2>4
  <2> QED
    BY <2>5 DEF Moves
<1>3. /\ v3[p].at = "check" /\ v3'[p].overlapped = v3[p].overlapped
      /\ v3'[p].at = place /\ v3'[p].crypt = crypt
      /\ \A q \in Proc \ {p} : v3'[q] = v3[q]
  BY <1>2 DEF S!Renew, S!LoadFails, S!Generate, S!IInv, S!Shapes
<1>5. S!Shapes'
  BY <1>2 DEF S!IInv, S!Shapes
<1>4. S!AloneInv'
  BY <1>1, <1>2, <1>3 DEF S!IInv, S!AloneInv
<1> QED
  BY <1>1, <1>4, <1>5 DEF S!IInv, S!StoredAsReturned

LEMMA EndsIInv ==
  ASSUME S!IInv, NEW p \in Proc, S!LoadedStays(p) \/ S!ReturnNone(p) \/ S!cfg_put(p)
  PROVE  S!IInv'
<1>1. /\ v3' = [v3 EXCEPT ![p] = S!Idle] /\ v3[p].at # "idle"
      /\ v2' = v2 \/ v3[p].at = "save"
  BY DEF S!LoadedStays, S!ReturnNone, S!cfg_put, S!Return
<1>2. S!Shapes'
  BY <1>1 DEF S!IInv, S!Shapes, S!Idle
<1>3. S!AloneInv'
  BY <1>1 DEF S!IInv, S!Shapes, S!AloneInv, S!Idle
<1>4. S!StoredAsReturned'
  <2>1. CASE S!LoadedStays(p)
    <3>1. v3[p].crypt # <<>> /\ v5' = v3[p].crypt /\ v2' = v2
      BY <2>1 DEF S!LoadedStays, S!Return, S!Accepted, S!Loaded
    <3>2. v6' => ~v3[p].overlapped
      BY <2>1 DEF S!LoadedStays, S!Return
    <3>3. ~v3[p].overlapped => v3[p].crypt = v2
      BY <2>1, <3>1 DEF S!LoadedStays, S!IInv, S!AloneInv
    <3> QED
      BY <3>1, <3>2, <3>3 DEF S!StoredAsReturned
  <2>2. CASE S!ReturnNone(p)
    <3>1. v5' = v5 /\ v2' = v2 /\ (v6' => v6)
      BY <2>2 DEF S!ReturnNone, S!Return
    <3> QED
      BY <3>1 DEF S!IInv, S!StoredAsReturned
  <2>3. CASE S!cfg_put(p)
    <3>1. CASE v2' = v3[p].crypt /\ S!Return(p, v3[p].crypt, FALSE)
      <4>1. v5' = v2'
        BY <2>3, <3>1 DEF S!Return, S!cfg_put, S!IInv, S!AloneInv
      <4> QED
        BY <4>1, <3>1 DEF S!IInv, S!StoredAsReturned, S!Return
    <3>2. CASE S!Return(p, <<>>, TRUE)
      BY <3>2 DEF S!StoredAsReturned, S!Return
    <3> QED
      BY <2>3, <3>1, <3>2 DEF S!cfg_put
  <2> QED
    BY <2>1, <2>2, <2>3
<1> QED
  BY <1>2, <1>3, <1>4 DEF S!IInv

(* Whatever was loaded, renewed or made, and whatever failed before: after *)
(* a call of cfg_load_crypt that returned a certificate and overlapped no  *)
(* other, the file holds that certificate until something fails again.     *)
THEOREM ReturnedIsStored == S!Spec => []S!StoredAsReturned
<1>1. S!Init => S!IInv
  <2> SUFFICES ASSUME S!Init PROVE S!IInv
    OBVIOUS
  <2>1. S!Idle.overlapped \in BOOLEAN /\ S!Idle.at = "idle"
    BY DEF S!Idle
  <2>2. S!Idle = [at |-> S!Idle.at, hostname |-> S!Idle.hostname, crypt |-> S!Idle.crypt,
                overlapped |-> S!Idle.overlapped]
    BY DEF S!Idle
  <2>3. v3 = [p \in Proc |-> S!Idle] /\ v5 = <<>>
    BY DEF S!Init
  <2> HIDE DEF S!Idle
  <2> QED
    BY <2>1, <2>2, <2>3 DEF S!IInv, S!Shapes, S!AloneInv, S!StoredAsReturned
<1>2. S!IInv /\ [S!Next]_(S!vars) => S!IInv'
  <2> SUFFICES ASSUME S!IInv, [S!Next]_(S!vars) PROVE S!IInv'
    OBVIOUS
  <2>1. CASE S!Tick
    BY <2>1 DEF S!Tick, S!IInv, S!Shapes, S!AloneInv, S!StoredAsReturned
  <2>2. ASSUME NEW p \in Proc, S!cfg_load_crypt(p) PROVE S!IInv'
    BY <2>2, StartsIInv, GoesOnIInv, EndsIInv DEF S!cfg_load_crypt
  <2>3. CASE UNCHANGED S!vars
    BY <2>3 DEF S!vars, S!IInv, S!Shapes, S!AloneInv, S!StoredAsReturned
  <2> QED
    BY <2>1, <2>2, <2>3 DEF S!Next
<1>3. S!IInv => S!StoredAsReturned
  BY DEF S!IInv
<1> QED
  BY <1>1, <1>2, <1>3, PTL DEF S!Spec

-----------------------------------------------------------------------------
(* llist.h.  Sequences with one element more or less, and what the calls   *)
(* do to the links.                                                        *)
LEMMA InsertedAt ==
  ASSUME NEW T, NEW l \in Seq(T), NEW k \in 0..Len(l), NEW e \in T
  PROVE  /\ L!InsertAt(l, k + 1, e) \in Seq(T)
         /\ Len(L!InsertAt(l, k + 1, e)) = Len(l) + 1
         /\ \A i \in 1..(Len(l) + 1) :
              L!InsertAt(l, k + 1, e)[i] = IF i <= k THEN l[i] ELSE IF i = k + 1 THEN e ELSE l[i - 1]
<1>1. Len(l) \in Nat /\ k \in Nat
  OBVIOUS
<1> DEFINE a == SubSeq(l, 1, k)
           b == SubSeq(l, k + 1, Len(l))
<1>2. a \in Seq(T) /\ Len(a) = k /\ \A i \in 1..k : a[i] = l[i]
  BY <1>1
<1>3. b \in Seq(T) /\ Len(b) = Len(l) - k /\ \A i \in 1..(Len(l) - k) : b[i] = l[k + i]
  BY <1>1
<1>4. L!InsertAt(l, k + 1, e) = a \o <<e>> \o b
  <2>1. (k + 1) - 1 = k
    BY <1>1
  <2> QED
    BY <2>1 DEF L!InsertAt
<1> HIDE DEF a, b
<1> DEFINE c == Append(a, e)
<1>9. a \o <<e>> = c
  BY <1>2, AppendIsConcat
<1>5. c \in Seq(T) /\ Len(c) = k + 1 /\ \A i \in 1..(k + 1) : c[i] = IF i <= k THEN l[i] ELSE e
  BY <1>1, <1>2, AppendProperties
<1>6. L!InsertAt(l, k + 1, e) = c \o b
  BY <1>4, <1>9
<1> HIDE DEF c
<1>7. /\ (c \o b) \in Seq(T) /\ Len(c \o b) = Len(c) + Len(b)
      /\ \A i \in 1..(Len(c) + Len(b)) :
           (c \o b)[i] = IF i <= Len(c) THEN c[i] ELSE b[i - Len(c)]
  BY <1>3, <1>5, ConcatProperties, Zenon
<1>8. Len(c) + Len(b) = Len(l) + 1
  BY <1>1, <1>3, <1>5
<1>10. ASSUME NEW i \in 1..(Len(l) + 1)
       PROVE  (c \o b)[i] = IF i <= k THEN l[i] ELSE IF i = k + 1 THEN e ELSE l[i - 1]
  <2>1. (c \o b)[i] = IF i <= k + 1 THEN c[i] ELSE b[i - (k + 1)]
    BY <1>5, <1>7, <1>8
  <2>2. CASE i <= k + 1
    <3>1. (c \o b)[i] = c[i] /\ i \in 1..(k + 1)
      BY <1>1, <2>1, <2>2
    <3> QED
      BY <1>1, <1>5, <2>2, <3>1
  <2>3. CASE ~(i <= k + 1)
    <3>1. i - (k + 1) \in 1..(Len(l) - k) /\ k + (i - (k + 1)) = i - 1
      BY <1>1, <2>3
    <3>2. (c \o b)[i] = l[i - 1]
      BY <1>1, <1>3, <2>1, <2>3, <3>1
    <3> QED
      BY <1>1, <2>3, <3>2
  <2> QED
    BY <2>2, <2>3
<1> QED
  BY <1>6, <1>7, <1>8, <1>10

LEMMA RemovedAt ==
  ASSUME NEW T, NEW l \in Seq(T), NEW k \in 1..Len(l)
  PROVE  /\ L!RemoveAt(l, k) \in Seq(T)
         /\ Len(L!RemoveAt(l, k)) = Len(l) - 1
         /\ \A i \in 1..(Len(l) - 1) : L!RemoveAt(l, k)[i] = IF i < k THEN l[i] ELSE l[i + 1]
<1>1. Len(l) \in Nat /\ k \in Nat /\ k >= 1 /\ k <= Len(l)
  OBVIOUS
<1> DEFINE a == SubSeq(l, 1, k - 1)
           b == SubSeq(l, k + 1, Len(l))
<1>2. a \in Seq(T) /\ Len(a) = k - 1 /\ \A i \in 1..(k - 1) : a[i] = l[i]
  BY <1>1
<1>3. b \in Seq(T) /\ Len(b) = Len(l) - k /\ \A i \in 1..(Len(l) - k) : b[i] = l[k + i]
  BY <1>1
<1>4. L!RemoveAt(l, k) = a \o b
  BY DEF L!RemoveAt
<1> HIDE DEF a, b
<1>5. /\ (a \o b) \in Seq(T) /\ Len(a \o b) = Len(a) + Len(b)
      /\ \A i \in 1..(Len(a) + Len(b)) :
           (a \o b)[i] = IF i <= Len(a) THEN a[i] ELSE b[i - Len(a)]
  BY <1>2, <1>3, ConcatProperties, Zenon
<1>6. Len(a) + Len(b) = Len(l) - 1
  BY <1>1, <1>2, <1>3
<1>7. ASSUME NEW i \in 1..(Len(l) - 1)
      PROVE  (a \o b)[i] = IF i < k THEN l[i] ELSE l[i + 1]
  <2>1. i \in 1..(k - 1) \/ (i - (k - 1) \in 1..(Len(l) - k) /\ k + (i - (k - 1)) = i + 1)
    BY <1>1
  <2> QED
    BY <1>1, <1>2, <1>3, <1>5, <1>6, <2>1
<1> QED
  BY <1>4, <1>5, <1>6, <1>7

AllNodes == ListNode \cup {L!HeadNode}

LEMMA NodesAreNumbers ==
  /\ L!Null = 0 /\ L!HeadNode = -1
  /\ \A n \in ListNode : n \in Nat /\ n # 0 /\ n # -1
  /\ AllNodes = ListNode \cup {-1}
<1>1. \A n \in ListNode : n \in Nat \ {0}
  BY LibraryAssumption DEF LibraryAssumption
<1>2. \A n \in Nat : n # -1
  OBVIOUS
<1> QED
  BY <1>1, <1>2 DEF L!Null, L!HeadNode, AllNodes

(* n->next = to, and n->prev = to.                                         *)
NextSet(s, r, n, to) ==
  /\ r \in L!Fields /\ r.tail = s.tail /\ r.prev = s.prev
  /\ \A m \in AllNodes : r.next[m] = IF m = n THEN to ELSE s.next[m]

PrevSet(s, r, n, to) ==
  /\ r \in L!Fields /\ r.tail = s.tail /\ r.next = s.next
  /\ \A m \in AllNodes : r.prev[m] = IF m = n THEN to ELSE s.prev[m]

LEMMA LinkIs ==
  ASSUME NEW s \in L!Fields, NEW n \in AllNodes \cup {L!Null},
         NEW to \in AllNodes \cup {L!Null}
  PROVE  /\ NextSet(s, L!Link(s, "next", n, to), n, to)
         /\ PrevSet(s, L!Link(s, "prev", n, to), n, to)
  BY NodesAreNumbers DEF L!Link, L!Fields, AllNodes, NextSet, PrevSet

(* What llist_add_after does.                                              *)
Added(s, r, p, node) ==
  /\ r \in L!Fields
  /\ r.tail = IF s.tail \in {L!Null, p} THEN node ELSE s.tail
  /\ \A n \in AllNodes :
       /\ r.next[n] = IF n = p THEN node ELSE IF n = node THEN s.next[p] ELSE s.next[n]
       /\ r.prev[n] = IF n = node THEN (IF p = L!HeadNode THEN L!Null ELSE p)
                      ELSE IF n = s.next[p] THEN node ELSE s.prev[n]

LEMMA AddAfterIs ==
  ASSUME NEW s \in L!Fields, NEW after \in AllNodes \cup {L!Null}, NEW node \in ListNode,
         NEW p, p = IF after = L!Null THEN L!HeadNode ELSE after,
         p # node, s.next[p] # node
  PROVE  Added(s, L!llist_add_after(s, after, node), p, node)
<1> DEFINE next == s.next[p]
           back == IF p = L!HeadNode THEN L!Null ELSE p
           s1   == L!Link(s, "next", node, next)
           s2   == L!Link(s1, "prev", next, node)
           s3   == L!Link(s2, "next", p, node)
           s4   == L!Link(s3, "prev", node, back)
           tail == L!TailAfterAdd(s, p, node)
<1>1. L!llist_add_after(s, after, node) = [s4 EXCEPT !.tail = tail]
  BY DEF L!llist_add_after
<1>2. p \in AllNodes /\ next \in AllNodes \cup {L!Null} /\ back \in AllNodes \cup {L!Null}
      /\ node \in AllNodes /\ node # L!Null
  BY NodesAreNumbers DEF AllNodes, L!Fields
<1> HIDE DEF next, back, s1, s2, s3, s4, tail
<1>3. s1 \in L!Fields /\ s1.tail = s.tail /\ s1.prev = s.prev
      /\ \A m \in AllNodes : s1.next[m] = IF m = node THEN next ELSE s.next[m]
  <2>1. NextSet(s, s1, node, next)
    BY <1>2, LinkIs DEF s1
  <2> QED
    BY <2>1 DEF NextSet
<1>4. s2 \in L!Fields /\ s2.tail = s.tail /\ s2.next = s1.next
      /\ \A m \in AllNodes : s2.prev[m] = IF m = next THEN node ELSE s.prev[m]
  <2>1. PrevSet(s1, s2, next, node)
    BY <1>2, <1>3, LinkIs DEF s2
  <2> QED
    BY <1>3, <2>1 DEF PrevSet
<1>5. s3 \in L!Fields /\ s3.tail = s.tail /\ s3.prev = s2.prev
      /\ \A m \in AllNodes : s3.next[m] = IF m = p THEN node ELSE s2.next[m]
  <2>1. NextSet(s2, s3, p, node)
    BY <1>2, <1>4, LinkIs DEF s3
  <2> QED
    BY <1>4, <2>1 DEF NextSet
<1>6. s4 \in L!Fields /\ s4.tail = s.tail /\ s4.next = s3.next
      /\ \A m \in AllNodes : s4.prev[m] = IF m = node THEN back ELSE s3.prev[m]
  <2>1. PrevSet(s3, s4, node, back)
    BY <1>2, <1>5, LinkIs DEF s4
  <2> QED
    BY <1>5, <2>1 DEF PrevSet
<1>7. tail = (IF s.tail \in {L!Null, p} THEN node ELSE s.tail) /\ tail \in AllNodes \cup {L!Null}
  BY <1>2 DEF tail, L!TailAfterAdd, L!Fields, AllNodes
<1> DEFINE r == [s4 EXCEPT !.tail = tail]
<1>8. r \in L!Fields /\ r.tail = tail /\ r.next = s4.next /\ r.prev = s4.prev
  BY <1>6, <1>7 DEF L!Fields, AllNodes
<1> HIDE DEF r
<1>9. \A n \in AllNodes :
        /\ r.next[n] = IF n = p THEN node ELSE IF n = node THEN s.next[p] ELSE s.next[n]
        /\ r.prev[n] = IF n = node THEN (IF p = L!HeadNode THEN L!Null ELSE p)
                       ELSE IF n = s.next[p] THEN node ELSE s.prev[n]
  BY <1>3, <1>4, <1>5, <1>6, <1>8 DEF next, back
<1> QED
  BY <1>1, <1>7, <1>8, <1>9 DEF Added, r

(* What llist_remove does to a node that is the one after prev, and after  *)
(* which next comes.                                                       *)
Removed(s, r, node) ==
  /\ r \in L!Fields
  /\ r.tail = IF node = s.tail THEN s.prev[node] ELSE s.tail
  /\ LET p == IF s.next[L!HeadNode] = node THEN L!HeadNode ELSE s.prev[node]
         first == IF p = L!HeadNode THEN s.next[node] ELSE s.next[L!HeadNode]
     IN  \A n \in AllNodes :
           /\ r.next[n] = IF n = p THEN s.next[node] ELSE s.next[n]
           /\ n # node => r.prev[n] = IF n = first THEN L!Null
                                      ELSE IF n = s.next[node] THEN p ELSE s.prev[n]

LEMMA RemoveIs ==
  ASSUME NEW s \in L!Fields, NEW node \in ListNode, s.next[node] # node, s.prev[node] # node
  PROVE  Removed(s, L!llist_remove(s, node), node)
<1> DEFINE tail == IF node = s.tail THEN s.prev[node] ELSE s.tail
           p    == IF s.next[L!HeadNode] = node THEN L!HeadNode ELSE s.prev[node]
           s1   == IF s.next[L!HeadNode] = node THEN L!Link(s, "prev", node, L!HeadNode) ELSE s
           s2   == L!Link(s1, "next", s1.prev[node], s1.next[node])
           s3   == L!Link(s2, "prev", s2.next[node], s2.prev[node])
           s4   == L!Link(s3, "prev", s3.next[L!HeadNode], L!Null)
<1>1. L!llist_remove(s, node) = [s4 EXCEPT !.tail = tail]
  BY DEF L!llist_remove
<1>2. node \in AllNodes /\ node # L!HeadNode /\ node # L!Null /\ L!HeadNode \in AllNodes
      /\ L!HeadNode # L!Null
  BY NodesAreNumbers DEF AllNodes
<1>3. \A t \in L!Fields : \A n \in AllNodes :
        t.next[n] \in AllNodes \cup {L!Null} /\ t.prev[n] \in AllNodes \cup {L!Null}
  BY DEF L!Fields, AllNodes
<1>4. p \in AllNodes \cup {L!Null} /\ tail \in AllNodes \cup {L!Null} /\ p # node
  BY <1>2, <1>3 DEF L!Fields, AllNodes
<1> HIDE DEF tail, p, s1, s2, s3, s4
<1>5. s1 \in L!Fields /\ s1.next = s.next
      /\ \A m \in AllNodes : s1.prev[m] = IF m = node THEN p ELSE s.prev[m]
  <2>1. PrevSet(s, L!Link(s, "prev", node, L!HeadNode), node, L!HeadNode)
    BY <1>2, LinkIs
  <2> QED
    BY <1>2, <2>1 DEF PrevSet, s1, p
<1>6. s2 \in L!Fields /\ s2.prev = s1.prev
      /\ \A m \in AllNodes : s2.next[m] = IF m = p THEN s.next[node] ELSE s.next[m]
  <2>1. s1.prev[node] = p /\ s1.next[node] = s.next[node]
    BY <1>2, <1>5
  <2>2. NextSet(s1, s2, p, s.next[node])
    BY <1>2, <1>3, <1>4, <1>5, <2>1, LinkIs DEF s2
  <2> QED
    BY <1>5, <2>2 DEF NextSet
<1>7. s3 \in L!Fields /\ s3.next = s2.next
      /\ \A m \in AllNodes : s3.prev[m] = IF m = s.next[node] THEN p ELSE s1.prev[m]
  <2>1. s2.prev[node] = p /\ s2.next[node] = s.next[node]
    BY <1>2, <1>4, <1>5, <1>6
  <2>2. PrevSet(s2, s3, s.next[node], p)
    BY <1>2, <1>3, <1>4, <1>6, <2>1, LinkIs DEF s3
  <2> QED
    BY <1>6, <2>2 DEF PrevSet
<1>8. s4 \in L!Fields /\ s4.next = s3.next
      /\ \A m \in AllNodes : s4.prev[m] = IF m = s3.next[L!HeadNode] THEN L!Null ELSE s3.prev[m]
  <2>1. PrevSet(s3, s4, s3.next[L!HeadNode], L!Null)
    BY <1>2, <1>3, <1>7, LinkIs DEF s4
  <2> QED
    BY <2>1 DEF PrevSet
<1> DEFINE r == [s4 EXCEPT !.tail = tail]
<1>9. r \in L!Fields /\ r.tail = tail /\ r.next = s4.next /\ r.prev = s4.prev
  BY <1>4, <1>8 DEF L!Fields, AllNodes
<1> HIDE DEF r
<1>10. s3.next[L!HeadNode] = IF p = L!HeadNode THEN s.next[node] ELSE s.next[L!HeadNode]
  BY <1>2, <1>6, <1>7
<1>11. \A n \in AllNodes :
         /\ r.next[n] = IF n = p THEN s.next[node] ELSE s.next[n]
         /\ n # node => r.prev[n] = IF n = s3.next[L!HeadNode] THEN L!Null
                                    ELSE IF n = s.next[node] THEN p ELSE s.prev[n]
  BY <1>5, <1>6, <1>7, <1>8, <1>9
<1> QED
  BY <1>1, <1>9, <1>10, <1>11 DEF Removed, r, p, tail

(* m is l with node at place k + 1, and l without the node at place k.     *)
Longer(l, m, k, node) ==
  /\ m \in Seq(ListNode) /\ Len(m) = Len(l) + 1
  /\ \A i \in Int : L!Nth(m, i) = IF i <= k THEN L!Nth(l, i)
                                  ELSE IF i = k + 1 THEN node ELSE L!Nth(l, i - 1)

Shorter(l, m, k) ==
  /\ m \in Seq(ListNode) /\ Len(m) = Len(l) - 1
  /\ \A i \in Int : L!Nth(m, i) = IF i < k THEN L!Nth(l, i) ELSE L!Nth(l, i + 1)

LEMMA LongerIs ==
  ASSUME NEW l \in Seq(ListNode), NEW m \in Seq(ListNode), NEW k \in 0..Len(l), NEW node \in ListNode,
         Len(m) = Len(l) + 1,
         \A i \in 1..(Len(l) + 1) :
           m[i] = IF i <= k THEN l[i] ELSE IF i = k + 1 THEN node ELSE l[i - 1]
  PROVE  Longer(l, m, k, node)
<1>1. Len(l) \in Nat /\ DOMAIN l = 1..Len(l) /\ DOMAIN m = 1..(Len(l) + 1) /\ k \in Nat
  OBVIOUS
<1>2. ASSUME NEW i \in Int
      PROVE  L!Nth(m, i) = IF i <= k THEN L!Nth(l, i)
                           ELSE IF i = k + 1 THEN node ELSE L!Nth(l, i - 1)
  BY <1>1 DEF L!Nth
<1> QED
  BY <1>2 DEF Longer

LEMMA ShorterIs ==
  ASSUME NEW l \in Seq(ListNode), NEW k \in 1..Len(l)
  PROVE  Shorter(l, L!RemoveAt(l, k), k)
<1> DEFINE m == L!RemoveAt(l, k)
<1>1. m \in Seq(ListNode) /\ Len(m) = Len(l) - 1
      /\ \A i \in 1..(Len(l) - 1) : m[i] = IF i < k THEN l[i] ELSE l[i + 1]
  BY RemovedAt
<1> HIDE DEF m
<1>2. Len(l) \in Nat /\ DOMAIN l = 1..Len(l) /\ DOMAIN m = 1..(Len(l) - 1) /\ k \in Nat
  BY <1>1
<1>3. ASSUME NEW i \in Int
      PROVE  L!Nth(m, i) = IF i < k THEN L!Nth(l, i) ELSE L!Nth(l, i + 1)
  BY <1>1, <1>2 DEF L!Nth
<1> QED
  BY <1>1, <1>3 DEF Shorter, m

(* The nodes of a list by their place.                                     *)
LEMMA NthIs ==
  ASSUME NEW l, L!Once(l)
  PROVE  /\ Len(l) \in Nat /\ DOMAIN l = 1..Len(l)
         /\ \A i \in Int : i \notin 1..Len(l) => L!Nth(l, i) = L!Null
         /\ \A i \in 1..Len(l) : /\ L!Nth(l, i) = l[i]
                                 /\ l[i] \in ListNode
                                 /\ \A j \in Int : L!Nth(l, j) = l[i] => i = j
<1>1. l \in Seq(ListNode) /\ Len(l) \in Nat /\ DOMAIN l = 1..Len(l)
  BY DEF L!Once
<1>2. \A i \in 1..Len(l) : l[i] \in ListNode /\ l[i] # L!Null
  BY <1>1, NodesAreNumbers
<1> QED
  BY <1>1, <1>2 DEF L!Nth, L!Once

LEMMA OnceLonger ==
  ASSUME NEW l, NEW m, NEW k \in 0..Len(l), NEW node \in ListNode,
         L!Once(l), Longer(l, m, k, node), \A i \in DOMAIN l : l[i] # node
  PROVE  L!Once(m)
<1>1. m \in Seq(ListNode) /\ Len(m) = Len(l) + 1 /\ DOMAIN m = 1..(Len(l) + 1)
  BY DEF Longer
<1>2. Len(l) \in Nat /\ DOMAIN l = 1..Len(l) /\ k \in Nat
  BY NthIs
<1>3. ASSUME NEW i \in DOMAIN m
      PROVE  m[i] = IF i <= k THEN l[i] ELSE IF i = k + 1 THEN node ELSE l[i - 1]
  <2>1. i \in Int /\ i \in 1..(Len(l) + 1)
    BY <1>1, <1>2
  <2>2. m[i] = IF i <= k THEN L!Nth(l, i) ELSE IF i = k + 1 THEN node ELSE L!Nth(l, i - 1)
    BY <1>1, <2>1 DEF Longer, L!Nth
  <2>3. (i <= k => i \in DOMAIN l) /\ (~(i <= k) /\ i # k + 1 => i - 1 \in DOMAIN l)
    BY <1>2, <2>1
  <2> QED
    BY <2>2, <2>3 DEF L!Nth
<1>4. ASSUME NEW i \in DOMAIN m, NEW j \in DOMAIN m, m[i] = m[j]
      PROVE  i = j
  <2>1. i \in 1..(Len(l) + 1) /\ j \in 1..(Len(l) + 1)
    BY <1>1
  <2>2. \A x \in 1..Len(l) : l[x] # node /\ \A y \in 1..Len(l) : l[x] = l[y] => x = y
    BY <1>2 DEF L!Once
  <2>3. (i = k + 1) = (j = k + 1)
    BY <1>2, <1>3, <1>4, <2>1, <2>2
  <2>4. CASE i = k + 1
    BY <2>3, <2>4
  <2>5. CASE i # k + 1
    <3> DEFINE x == IF i <= k THEN i ELSE i - 1
               y == IF j <= k THEN j ELSE j - 1
    <3>1. x \in 1..Len(l) /\ y \in 1..Len(l)
      BY <1>2, <2>1, <2>3, <2>5
    <3>2. l[x] = l[y]
      BY <1>3, <1>4, <2>3, <2>5
    <3>3. x = y
      BY <2>2, <3>1, <3>2
    <3> QED
      BY <1>2, <2>1, <2>3, <2>5, <3>3
  <2> QED
    BY <2>4, <2>5
<1> QED
  BY <1>1, <1>4 DEF L!Once

LEMMA OnceShorter ==
  ASSUME NEW l, NEW m, NEW k \in 1..Len(l), L!Once(l), Shorter(l, m, k)
  PROVE  L!Once(m) /\ \A i \in DOMAIN m : m[i] # l[k]
<1>1. m \in Seq(ListNode) /\ Len(m) = Len(l) - 1 /\ DOMAIN m = 1..(Len(l) - 1)
  BY NthIs DEF Shorter
<1>2. Len(l) \in Nat /\ DOMAIN l = 1..Len(l) /\ k \in Nat /\ k \in DOMAIN l
  BY NthIs
<1>3. ASSUME NEW i \in DOMAIN m
      PROVE  m[i] = IF i < k THEN l[i] ELSE l[i + 1]
  BY <1>1, <1>2 DEF Shorter, L!Nth
<1>4. \A x, y \in 1..Len(l) : l[x] = l[y] => x = y
  BY <1>2 DEF L!Once
<1>5. ASSUME NEW i \in DOMAIN m, NEW j \in DOMAIN m, m[i] = m[j]
      PROVE  i = j
  <2> DEFINE x == IF i < k THEN i ELSE i + 1
             y == IF j < k THEN j ELSE j + 1
  <2>1. i \in 1..(Len(l) - 1) /\ j \in 1..(Len(l) - 1)
    BY <1>1
  <2>2. x \in 1..Len(l) /\ y \in 1..Len(l)
    BY <1>2, <2>1
  <2>3. l[x] = l[y]
    BY <1>3, <1>5
  <2>4. x = y
    BY <1>4, <2>2, <2>3
  <2> QED
    BY <1>2, <2>1, <2>4
<1>6. ASSUME NEW i \in DOMAIN m
      PROVE  m[i] # l[k]
  <2>1. i \in 1..(Len(l) - 1)
    BY <1>1
  <2> QED
    BY <1>2, <1>3, <1>4, <2>1
<1> QED
  BY <1>1, <1>5, <1>6 DEF L!Once

(* llist_add_after behind the node at place k puts the new node there.     *)
LEMMA AddKeepsLinks ==
  ASSUME NEW s \in L!Fields, NEW l, NEW m, NEW k \in 0..Len(l), NEW after, NEW node \in ListNode,
         L!Once(l), L!Links(s, l), \A i \in DOMAIN l : l[i] # node,
         after = L!Nth(l, k) \/ (k = 0 /\ after = L!HeadNode),
         Longer(l, m, k, node)
  PROVE  LET r == L!llist_add_after(s, after, node)
         IN  r \in L!Fields /\ L!Links(r, m)
<1> DEFINE r == L!llist_add_after(s, after, node)
           p == IF after = L!Null THEN L!HeadNode ELSE after
<1> DEFINE next == L!Nth(l, k + 1)
<1>1. /\ Len(l) \in Nat /\ DOMAIN l = 1..Len(l) /\ k \in Nat
      /\ \A i \in Int : i \notin 1..Len(l) => L!Nth(l, i) = L!Null
      /\ \A i \in 1..Len(l) : /\ L!Nth(l, i) = l[i] /\ l[i] \in ListNode
                              /\ \A j \in Int : L!Nth(l, j) = l[i] => i = j
  BY NthIs
<1>2. /\ p \in AllNodes /\ after \in AllNodes \cup {L!Null}
      /\ p = IF k = 0 THEN L!HeadNode ELSE l[k]
  <2>1. CASE k = 0
    BY <1>1, <2>1, NodesAreNumbers DEF AllNodes
  <2>2. CASE k # 0
    <3>1. k \in 1..Len(l)
      BY <1>1, <2>2
    <3> QED
      BY <1>1, <2>2, <3>1, NodesAreNumbers DEF AllNodes
  <2> QED
    BY <2>1, <2>2
<1>3. s.next[p] = next
  <2>1. CASE k = 0
    BY <1>2, <2>1 DEF L!Links
  <2>2. CASE k # 0
    <3>1. k \in DOMAIN l
      BY <1>1, <2>2
    <3> QED
      BY <1>2, <2>2, <3>1 DEF L!Links
  <2> QED
    BY <2>1, <2>2
<1>4. node # L!Null /\ node # L!HeadNode /\ node \in AllNodes /\ L!HeadNode \in AllNodes
      /\ \A i \in Int : L!Nth(l, i) # node /\ L!Nth(l, i) # L!HeadNode
      /\ \A n \in ListNode : n \in AllNodes /\ n # L!HeadNode /\ n # L!Null
  BY <1>1, NodesAreNumbers DEF AllNodes
<1>5. p # node /\ next # node
  <2>1. k + 1 \in Int
    BY <1>1
  <2>2. k # 0 => k \in DOMAIN l
    BY <1>1
  <2> QED
    BY <1>2, <1>4, <2>1, <2>2
<1>6. Added(s, r, p, node)
  BY <1>2, <1>3, <1>5, AddAfterIs
<1> HIDE DEF r, p, next
<1>7. m \in Seq(ListNode) /\ Len(m) = Len(l) + 1 /\ DOMAIN m = 1..(Len(l) + 1)
      /\ \A i \in Int : L!Nth(m, i) = IF i <= k THEN L!Nth(l, i)
                                      ELSE IF i = k + 1 THEN node ELSE L!Nth(l, i - 1)
  BY DEF Longer
<1>8. r.next[L!HeadNode] = L!Nth(m, 1)
  <2>1. CASE k = 0
    BY <1>2, <1>4, <1>6, <1>7, <2>1 DEF Added
  <2>2. CASE k # 0
    <3>1. k \in 1..Len(l) /\ 1 <= k
      BY <1>1, <2>2
    <3>2. L!HeadNode # p
      BY <1>1, <1>2, <1>4, <2>2, <3>1
    <3>3. r.next[L!HeadNode] = L!Nth(l, 1)
      BY <1>4, <1>6, <3>2 DEF Added, L!Links
    <3> QED
      BY <1>7, <3>1, <3>3
  <2> QED
    BY <2>1, <2>2
<1>9. r.tail = L!Nth(m, Len(m))
  <2>1. r.tail = IF s.tail \in {L!Null, p} THEN node ELSE s.tail
    BY <1>6 DEF Added
  <2>2. s.tail = L!Nth(l, Len(l))
    BY DEF L!Links
  <2>3. CASE k = Len(l)
    <3>1. s.tail \in {L!Null, p}
      <4>1. CASE k = 0
        <5>1. Len(l) \notin 1..Len(l) /\ Len(l) \in Int
          BY <1>1, <2>3, <4>1
        <5> QED
          BY <1>1, <2>2, <5>1
      <4>2. CASE k # 0
        <5>1. Len(l) \in 1..Len(l)
          BY <1>1, <2>3, <4>2
        <5> QED
          BY <1>1, <1>2, <2>2, <2>3, <4>2, <5>1
      <4> QED
        BY <4>1, <4>2
    <3>2. L!Nth(m, Len(m)) = node
      BY <1>1, <1>7, <2>3
    <3> QED
      BY <2>1, <3>1, <3>2
  <2>4. CASE k # Len(l)
    <3>1. Len(l) \in 1..Len(l) /\ ~(Len(l) + 1 <= k) /\ Len(l) + 1 # k + 1
          /\ (Len(l) + 1) - 1 = Len(l) /\ Len(l) + 1 \in Int
      <4>1. \A a \in Nat : \A b \in 0..a : b # a =>
              a \in 1..a /\ ~(a + 1 <= b) /\ a + 1 # b + 1 /\ (a + 1) - 1 = a /\ a + 1 \in Int
        OBVIOUS
      <4> QED
        BY <1>1, <2>4, <4>1
    <3>2. s.tail = l[Len(l)]
      BY <1>1, <2>2, <3>1
    <3>3. s.tail # L!Null
      BY <1>1, <1>4, <3>1, <3>2
    <3>4. s.tail # p
      <4>1. CASE k = 0
        BY <1>1, <1>2, <1>4, <3>1, <3>2, <4>1
      <4>2. CASE k # 0
        <5>1. k \in 1..Len(l)
          BY <1>1, <4>2
        <5>2. p = L!Nth(l, k)
          BY <1>1, <1>2, <4>2, <5>1
        <5> QED
          BY <1>1, <2>4, <3>1, <3>2, <5>1, <5>2
      <4> QED
        BY <4>1, <4>2
    <3>5. L!Nth(m, Len(m)) = L!Nth(l, Len(l))
      BY <1>7, <3>1
    <3> QED
      BY <2>1, <2>2, <3>3, <3>4, <3>5
  <2> QED
    BY <2>3, <2>4
<1>10. ASSUME NEW i \in DOMAIN m
       PROVE  r.next[m[i]] = L!Nth(m, i + 1) /\ r.prev[m[i]] = L!Nth(m, i - 1)
  <2>1. m[i] = L!Nth(m, i) /\ i \in 1..(Len(l) + 1) /\ i \in Int /\ i + 1 \in Int /\ i - 1 \in Int
    BY <1>1, <1>7 DEF L!Nth
  <2>2. CASE i <= k
    <3>1. i \in 1..Len(l) /\ i - 1 <= k /\ i <= Len(l) /\ i # k + 1 /\ k + 1 \in Int
      BY <1>1, <2>1, <2>2
    <3>2. m[i] = l[i] /\ l[i] \in ListNode /\ L!Nth(l, i) = l[i]
      BY <1>1, <1>7, <2>1, <2>2, <3>1
    <3>3. l[i] # node /\ l[i] # next /\ l[i] \in AllNodes
      BY <1>1, <1>4, <3>1, <3>2 DEF next
    <3>4. s.next[l[i]] = L!Nth(l, i + 1) /\ s.prev[l[i]] = L!Nth(l, i - 1)
      BY <1>1, <3>1 DEF L!Links
    <3>5. r.prev[l[i]] = L!Nth(l, i - 1)
      BY <1>3, <1>6, <3>3, <3>4 DEF Added
    <3>6. L!Nth(m, i - 1) = L!Nth(l, i - 1)
      BY <1>7, <2>1, <3>1
    <3>7. CASE i = k
      <4>1. l[i] = p /\ L!Nth(m, i + 1) = node
        BY <1>1, <1>2, <1>7, <2>1, <3>1, <3>7
      <4>2. r.next[l[i]] = node
        BY <1>6, <3>3, <4>1 DEF Added
      <4> QED
        BY <3>2, <3>5, <3>6, <4>1, <4>2
    <3>8. CASE i # k
      <4>1. i + 1 <= k /\ k \in 1..Len(l) /\ k # 0
        BY <1>1, <2>1, <2>2, <3>8
      <4>2. p = L!Nth(l, k)
        BY <1>1, <1>2, <4>1
      <4>3. l[i] # p
        BY <1>1, <3>1, <3>8, <4>1, <4>2
      <4>4. r.next[l[i]] = L!Nth(l, i + 1)
        BY <1>6, <3>3, <3>4, <4>3 DEF Added
      <4>5. L!Nth(m, i + 1) = L!Nth(l, i + 1)
        BY <1>7, <2>1, <4>1
      <4> QED
        BY <3>2, <3>5, <3>6, <4>4, <4>5
    <3> QED
      BY <3>7, <3>8
  <2>3. CASE i = k + 1
    <3>1. m[i] = node
      BY <1>1, <1>7, <2>1, <2>3
    <3>2. r.next[node] = next /\ r.prev[node] = IF p = L!HeadNode THEN L!Null ELSE p
      BY <1>3, <1>4, <1>5, <1>6 DEF Added
    <3>3. L!Nth(m, i + 1) = next
      <4>1. i + 1 = k + 2 /\ ~(k + 2 <= k) /\ k + 2 # k + 1 /\ (k + 2) - 1 = k + 1
        BY <1>1, <2>3
      <4> QED
        BY <1>7, <2>1, <4>1 DEF next
    <3>4. L!Nth(m, i - 1) = L!Nth(l, k)
      <4>1. i - 1 = k /\ k <= k
        BY <1>1, <2>3
      <4> QED
        BY <1>7, <2>1, <4>1
    <3>5. (IF p = L!HeadNode THEN L!Null ELSE p) = L!Nth(l, k)
      <4>1. CASE k = 0
        <5>1. k \notin 1..Len(l) /\ k \in Int
          BY <1>1, <4>1
        <5> QED
          BY <1>1, <1>2, <4>1, <5>1
      <4>2. CASE k # 0
        <5>1. k \in 1..Len(l)
          BY <1>1, <4>2
        <5> QED
          BY <1>1, <1>2, <1>4, <4>2, <5>1
      <4> QED
        BY <4>1, <4>2
    <3> QED
      BY <3>1, <3>2, <3>3, <3>4, <3>5
  <2>4. CASE i > k + 1
    <3>1. i - 1 \in 1..Len(l) /\ i - 1 # k /\ i - 1 \in Int /\ ~(i <= k) /\ i # k + 1
          /\ ~(i + 1 <= k) /\ i + 1 # k + 1 /\ (i + 1) - 1 = i /\ (i - 1) + 1 = i
      BY <1>1, <2>1, <2>4
    <3> DEFINE n == l[i - 1]
    <3>2. m[i] = n /\ n \in ListNode /\ L!Nth(l, i - 1) = n
      BY <1>1, <1>7, <2>1, <3>1
    <3>3. n # node /\ n \in AllNodes /\ n # L!HeadNode
      BY <1>1, <1>4, <3>1, <3>2
    <3>4. n # p
      <4>1. CASE k = 0
        BY <1>2, <3>3, <4>1
      <4>2. CASE k # 0
        <5>1. k \in 1..Len(l) /\ k \in Int
          BY <1>1, <4>2
        <5>2. p = L!Nth(l, k)
          BY <1>1, <1>2, <4>2, <5>1
        <5> QED
          BY <1>1, <3>1, <5>1, <5>2
      <4> QED
        BY <4>1, <4>2
    <3>5. s.next[n] = L!Nth(l, i) /\ s.prev[n] = L!Nth(l, (i - 1) - 1)
      BY <1>1, <3>1 DEF L!Links
    <3> HIDE DEF n
    <3>6. r.next[n] = L!Nth(l, i)
      BY <1>6, <3>3, <3>4, <3>5 DEF Added
    <3>7. L!Nth(m, i + 1) = L!Nth(l, i)
      BY <1>7, <2>1, <3>1
    <3>8. CASE i - 1 = k + 1
      <4>1. n = next /\ L!Nth(m, i - 1) = node
        BY <1>1, <1>7, <3>1, <3>2, <3>8 DEF next
      <4>2. r.prev[n] = node
        BY <1>3, <1>6, <3>3, <4>1 DEF Added
      <4> QED
        BY <3>2, <3>6, <3>7, <4>1, <4>2
    <3>9. CASE i - 1 # k + 1
      <4>1. ~(i - 1 <= k) /\ k + 1 \in Int /\ i - 1 \in Int
        BY <1>1, <2>1, <2>4
      <4>2. n # next
        BY <1>1, <3>1, <3>9, <4>1 DEF next, n
      <4>3. r.prev[n] = L!Nth(l, (i - 1) - 1)
        BY <1>3, <1>6, <3>3, <3>5, <4>2 DEF Added
      <4>4. L!Nth(m, i - 1) = L!Nth(l, (i - 1) - 1)
        BY <1>7, <3>9, <4>1
      <4> QED
        BY <3>2, <3>6, <3>7, <4>3, <4>4
    <3> QED
      BY <3>8, <3>9
  <2> QED
    BY <1>1, <2>1, <2>2, <2>3, <2>4
<1> QED
  BY <1>6, <1>8, <1>9, <1>10 DEF L!Links, Added, r

(* llist_remove takes the node at place k out.                             *)
LEMMA RemoveKeepsLinks ==
  ASSUME NEW s \in L!Fields, NEW l, NEW m, NEW k \in 1..Len(l),
         L!Once(l), L!Links(s, l), Shorter(l, m, k)
  PROVE  LET r == L!llist_remove(s, l[k])
         IN  r \in L!Fields /\ L!Links(r, m)
<1> DEFINE r == L!llist_remove(s, l[k])
           node == l[k]
           next == L!Nth(l, k + 1)
           p == IF k = 1 THEN L!HeadNode ELSE L!Nth(l, k - 1)
<1>1. /\ Len(l) \in Nat /\ DOMAIN l = 1..Len(l)
      /\ \A i \in Int : i \notin 1..Len(l) => L!Nth(l, i) = L!Null
      /\ \A i \in 1..Len(l) : /\ L!Nth(l, i) = l[i] /\ l[i] \in ListNode
                              /\ \A j \in Int : L!Nth(l, j) = l[i] => i = j
  BY NthIs
<1>2. /\ k \in 1..Len(l) /\ k \in DOMAIN l /\ k \in Int /\ k + 1 \in Int /\ k - 1 \in Int
      /\ k + 1 # k /\ k - 1 # k /\ 1 \in 1..Len(l) /\ k - 1 # 0 => k - 1 \in 1..Len(l)
  BY <1>1
<1>3. s.next[node] = next /\ s.prev[node] = L!Nth(l, k - 1) /\ node \in ListNode
      /\ next # node /\ L!Nth(l, k - 1) # node
  BY <1>1, <1>2 DEF L!Links
<1>4. Removed(s, r, node)
  BY <1>3, RemoveIs
<1>5. L!HeadNode \in AllNodes /\ L!HeadNode # L!Null
      /\ \A i \in Int : L!Nth(l, i) # L!HeadNode
      /\ \A n \in ListNode : n \in AllNodes /\ n # L!HeadNode /\ n # L!Null
  BY <1>1, NodesAreNumbers DEF AllNodes
<1>6. s.next[L!HeadNode] = L!Nth(l, 1) /\ s.tail = L!Nth(l, Len(l))
  BY DEF L!Links
<1>7. (s.next[L!HeadNode] = node) <=> (k = 1)
  BY <1>1, <1>2, <1>6
<1>8. p = IF s.next[L!HeadNode] = node THEN L!HeadNode ELSE s.prev[node]
  BY <1>3, <1>7
<1>9. (p = L!HeadNode) <=> (k = 1)
  BY <1>2, <1>5
<1>10. m \in Seq(ListNode) /\ Len(m) = Len(l) - 1 /\ DOMAIN m = 1..(Len(l) - 1)
       /\ \A i \in Int : L!Nth(m, i) = IF i < k THEN L!Nth(l, i) ELSE L!Nth(l, i + 1)
  BY <1>1 DEF Shorter
<1> DEFINE first == L!Nth(m, 1)
<1>11. first = IF p = L!HeadNode THEN s.next[node] ELSE s.next[L!HeadNode]
  <2>1. CASE k = 1
    <3>1. ~(1 < k) /\ 1 + 1 = k + 1
      BY <2>1
    <3>2. L!Nth(m, 1) = L!Nth(l, k + 1)
      BY <1>10, <3>1
    <3> QED
      BY <1>3, <1>9, <2>1, <3>2
  <2>2. CASE k # 1
    <3>1. 1 < k
      BY <1>2, <2>2
    <3>2. L!Nth(m, 1) = L!Nth(l, 1)
      BY <1>10, <3>1
    <3> QED
      BY <1>6, <1>9, <2>2, <3>2
  <2> QED
    BY <2>1, <2>2
<1>12. /\ r \in L!Fields
       /\ r.tail = IF node = s.tail THEN s.prev[node] ELSE s.tail
       /\ \A n \in AllNodes :
            /\ r.next[n] = IF n = p THEN next ELSE s.next[n]
            /\ n # node => r.prev[n] = IF n = first THEN L!Null
                                       ELSE IF n = next THEN p ELSE s.prev[n]
  BY <1>3, <1>4, <1>8, <1>11 DEF Removed
<1> HIDE DEF r, p, next, first, node
<1>13. r.next[L!HeadNode] = L!Nth(m, 1)
  BY <1>3, <1>5, <1>9, <1>11, <1>12 DEF first
<1>14. r.tail = L!Nth(m, Len(m))
  <2>1. CASE k = Len(l)
    <3>1. node = s.tail
      BY <1>1, <1>2, <1>6, <2>1 DEF node
    <3>2. Len(m) = k - 1 /\ k - 1 < k
      BY <1>2, <1>10, <2>1
    <3> QED
      BY <1>2, <1>3, <1>10, <1>12, <3>1, <3>2
  <2>2. CASE k # Len(l)
    <3>1. Len(l) \in 1..Len(l) /\ Len(l) \in Int /\ ~(Len(l) - 1 < k) /\ (Len(l) - 1) + 1 = Len(l)
          /\ Len(l) - 1 \in Int
      BY <1>1, <1>2, <2>2
    <3>2. node # s.tail
      BY <1>1, <1>2, <1>6, <2>2, <3>1 DEF node
    <3> QED
      BY <1>6, <1>10, <1>12, <3>1, <3>2
  <2> QED
    BY <2>1, <2>2
<1>15. ASSUME NEW i \in DOMAIN m
       PROVE  r.next[m[i]] = L!Nth(m, i + 1) /\ r.prev[m[i]] = L!Nth(m, i - 1)
  <2>1. m[i] = L!Nth(m, i) /\ i \in 1..(Len(l) - 1) /\ i \in Int /\ i + 1 \in Int /\ i - 1 \in Int
        /\ i \in 1..Len(l) /\ i + 1 \in 1..Len(l)
    BY <1>1, <1>10 DEF L!Nth
  <2>2. \E j \in 1..Len(l) : m[i] = L!Nth(l, j) /\ j = IF i < k THEN i ELSE i + 1
    BY <1>10, <2>1
  <2>3. PICK j \in 1..Len(l) : m[i] = L!Nth(l, j) /\ j = IF i < k THEN i ELSE i + 1
    BY <2>2
  <2> DEFINE n == m[i]
  <2>4. n = l[j] /\ n \in ListNode /\ n \in AllNodes /\ j # k /\ j \in Int /\ j + 1 \in Int /\ j - 1 \in Int
    BY <1>1, <1>2, <1>5, <2>1, <2>3
  <2>5. n # node /\ s.next[n] = L!Nth(l, j + 1) /\ s.prev[n] = L!Nth(l, j - 1)
    <3>1. n # node
      BY <1>1, <1>2, <2>3, <2>4 DEF node
    <3> QED
      BY <1>1, <2>3, <2>4, <3>1 DEF L!Links
  <2> HIDE DEF n
  <2>6. (n = p) <=> (j = k - 1)
    <3>1. CASE k = 1
      <4>1. j # k - 1
        BY <1>1, <2>3, <3>1
      <4> QED
        BY <1>5, <1>9, <2>4, <3>1, <4>1
    <3>2. CASE k # 1
      BY <1>1, <1>2, <2>3, <2>4, <3>2 DEF p
    <3> QED
      BY <3>1, <3>2
  <2>7. (n = next) <=> (j = k + 1)
    BY <1>1, <1>2, <2>3, <2>4 DEF next
  <2>8. (n = first) <=> (i = 1)
    <3>1. i # 1 => 1 \in Int /\ (IF 1 < k THEN 1 ELSE 2) # j
      BY <1>2, <2>1, <2>3
    <3>2. 1 + 1 = 2
      OBVIOUS
    <3>3. first = IF 1 < k THEN L!Nth(l, 1) ELSE L!Nth(l, 2)
      BY <1>10, <3>2 DEF first
    <3>4. i # 1 => n # first
      BY <1>1, <2>3, <2>4, <3>1, <3>3
    <3>5. i = 1 => n = first
      BY <2>1 DEF n, first
    <3> QED
      BY <3>4, <3>5
  <2>9. r.next[n] = L!Nth(m, i + 1)
    <3>1. r.next[n] = IF j = k - 1 THEN next ELSE L!Nth(l, j + 1)
      BY <1>12, <2>4, <2>5, <2>6
    <3>2. L!Nth(m, i + 1) = IF i + 1 < k THEN L!Nth(l, i + 1) ELSE L!Nth(l, (i + 1) + 1)
      BY <1>10, <2>1
    <3>3. CASE j = k - 1
      <4>1. ~(i + 1 < k) /\ (i + 1) + 1 = k + 1
        BY <1>2, <2>1, <2>3, <3>3
      <4> QED
        BY <3>1, <3>2, <3>3, <4>1 DEF next
    <3>4. CASE j # k - 1
      <4>1. j + 1 = IF i + 1 < k THEN i + 1 ELSE (i + 1) + 1
        BY <1>2, <2>1, <2>3, <3>4
      <4> QED
        BY <3>1, <3>2, <3>4, <4>1
    <3> QED
      BY <3>3, <3>4
  <2>10. r.prev[n] = L!Nth(m, i - 1)
    <3>1. r.prev[n] = IF i = 1 THEN L!Null ELSE IF j = k + 1 THEN p ELSE L!Nth(l, j - 1)
      BY <1>12, <2>4, <2>5, <2>7, <2>8
    <3>2. L!Nth(m, i - 1) = IF i - 1 < k THEN L!Nth(l, i - 1) ELSE L!Nth(l, (i - 1) + 1)
      BY <1>10, <2>1
    <3>3. CASE i = 1
      <4>1. i - 1 < k /\ i - 1 \notin 1..Len(l)
        BY <1>2, <3>3
      <4> QED
        BY <1>1, <2>1, <3>1, <3>2, <3>3, <4>1
    <3>4. CASE i # 1 /\ j = k + 1
      <4>1. i - 1 < k /\ i - 1 = k - 1 /\ k # 1
        BY <1>2, <2>1, <2>3, <3>4
      <4> QED
        BY <3>1, <3>2, <3>4, <4>1 DEF p
    <3>5. CASE i # 1 /\ j # k + 1
      <4>1. j - 1 = IF i - 1 < k THEN i - 1 ELSE (i - 1) + 1
        BY <1>2, <2>1, <2>3, <3>5
      <4> QED
        BY <3>1, <3>2, <3>5, <4>1
    <3> QED
      BY <3>3, <3>4, <3>5
  <2> QED
    BY <2>9, <2>10 DEF n
<1> QED
  BY <1>12, <1>13, <1>14, <1>15 DEF L!Links, r, node

-----------------------------------------------------------------------------
(* Every call leaves the links and the order asked for the same list.      *)
LEMMA ListInit == L!Init => L!IInv
<1> SUFFICES ASSUME L!Init
             PROVE  L!IInv
  OBVIOUS
<1>1. v1 \in L!Fields
  BY NodesAreNumbers DEF L!Init, L!Fields
<1>2. v2 = <<>> /\ L!Once(v2)
  BY DEF L!Init, L!Once
<1>3. v1.next[L!HeadNode] = L!Null /\ v1.tail = L!Null
  BY DEF L!Init
<1>4. \A i \in Int : L!Nth(v2, i) = L!Null
  BY <1>2 DEF L!Nth
<1>5. L!Links(v1, v2)
  <2>1. Len(v2) \in Int /\ 1 \in Int /\ DOMAIN v2 = {}
    BY <1>2
  <2> QED
    BY <1>3, <1>4, <2>1 DEF L!Links
<1> QED
  BY <1>1, <1>2, <1>5 DEF L!IInv, L!BothWays

LEMMA FrontIs ==
  ASSUME NEW l \in Seq(ListNode), NEW node \in ListNode
  PROVE  Longer(l, <<node>> \o l, 0, node)
<1> DEFINE m == <<node>> \o l
<1>1. <<node>> \in Seq(ListNode) /\ Len(<<node>>) = 1 /\ <<node>>[1] = node /\ Len(l) \in Nat
  OBVIOUS
<1>2. m \in Seq(ListNode) /\ Len(m) = Len(<<node>>) + Len(l)
      /\ \A i \in 1..(Len(<<node>>) + Len(l)) :
           m[i] = IF i <= Len(<<node>>) THEN <<node>>[i] ELSE l[i - Len(<<node>>)]
  BY <1>1, ConcatProperties, Zenon
<1> HIDE DEF m
<1>3. Len(m) = Len(l) + 1
      /\ \A i \in 1..(Len(l) + 1) : m[i] = IF i = 1 THEN node ELSE l[i - 1]
  BY <1>1, <1>2
<1>4. \A i \in 1..(Len(l) + 1) : m[i] = IF i <= 0 THEN l[i] ELSE IF i = 0 + 1 THEN node ELSE l[i - 1]
  BY <1>1, <1>3
<1>5. 0 \in 0..Len(l)
  BY <1>1
<1> QED
  BY <1>2, <1>3, <1>4, <1>5, LongerIs DEF m

LEMMA BackIs ==
  ASSUME NEW l \in Seq(ListNode), NEW node \in ListNode
  PROVE  Longer(l, Append(l, node), Len(l), node)
<1> DEFINE m == Append(l, node)
<1>1. m \in Seq(ListNode) /\ Len(m) = Len(l) + 1 /\ Len(l) \in Nat
      /\ \A i \in 1..(Len(l) + 1) : m[i] = IF i <= Len(l) THEN l[i] ELSE node
  BY AppendProperties
<1> HIDE DEF m
<1>2. \A i \in 1..(Len(l) + 1) :
        m[i] = IF i <= Len(l) THEN l[i] ELSE IF i = Len(l) + 1 THEN node ELSE l[i - 1]
  BY <1>1
<1>3. Len(l) \in 0..Len(l)
  BY <1>1
<1> QED
  BY <1>1, <1>2, <1>3, LongerIs DEF m

LEMMA InsertedIs ==
  ASSUME NEW l \in Seq(ListNode), NEW k \in 0..Len(l), NEW node \in ListNode
  PROVE  Longer(l, L!InsertAt(l, k + 1, node), k, node)
<1> DEFINE m == L!InsertAt(l, k + 1, node)
<1>1. m \in Seq(ListNode) /\ Len(m) = Len(l) + 1
      /\ \A i \in 1..(Len(l) + 1) :
           m[i] = IF i <= k THEN l[i] ELSE IF i = k + 1 THEN node ELSE l[i - 1]
  BY InsertedAt
<1> HIDE DEF m
<1>2. Longer(l, m, k, node)
  BY <1>1, LongerIs
<1> QED
  BY <1>2 DEF m

LEMMA ListNext == L!IInv /\ L!Next => L!IInv'
<1> SUFFICES ASSUME L!IInv, L!Next
             PROVE  L!IInv'
  OBVIOUS
<1>1. v1 \in L!Fields /\ L!Once(v2) /\ L!Links(v1, v2) /\ v2 \in Seq(ListNode)
      /\ Len(v2) \in Nat /\ DOMAIN v2 = 1..Len(v2)
  BY NthIs DEF L!IInv, L!BothWays, L!Once
<1>2. ASSUME NEW node \in ListNode \ L!Range(v2), NEW k \in 0..Len(v2), NEW after,
             after = L!Nth(v2, k) \/ (k = 0 /\ after = L!HeadNode),
             v1' = L!llist_add_after(v1, after, node), Longer(v2, v2', k, node)
      PROVE  L!IInv'
  <2>1. \A i \in DOMAIN v2 : v2[i] # node
    BY DEF L!Range
  <2>2. v1' \in L!Fields /\ L!Links(v1', v2')
    BY <1>1, <1>2, <2>1, AddKeepsLinks
  <2>3. L!Once(v2')
    BY <1>1, <1>2, <2>1, OnceLonger
  <2> QED
    BY <2>2, <2>3 DEF L!IInv, L!BothWays
<1>3. CASE L!llist_insert
  <2>1. PICK node \in ListNode \ L!Range(v2) :
          v1' = L!llist_add_after(v1, L!HeadNode, node) /\ v2' = <<node>> \o v2
    BY <1>3 DEF L!llist_insert
  <2>2. Longer(v2, v2', 0, node) /\ 0 \in 0..Len(v2)
    BY <1>1, <2>1, FrontIs
  <2> QED
    BY <1>2, <2>1, <2>2
<1>4. CASE L!llist_append
  <2>1. PICK node \in ListNode \ L!Range(v2) :
          v1' = L!llist_add_after(v1, v1.tail, node) /\ v2' = Append(v2, node)
    BY <1>4 DEF L!llist_append
  <2>2. Longer(v2, v2', Len(v2), node) /\ Len(v2) \in 0..Len(v2)
    BY <1>1, <2>1, BackIs
  <2>3. v1.tail = L!Nth(v2, Len(v2))
    BY <1>1 DEF L!Links
  <2> QED
    BY <1>2, <2>1, <2>2, <2>3
<1>5. CASE L!AddAfter
  <2>1. PICK i \in DOMAIN v2, node \in ListNode \ L!Range(v2) :
          v1' = L!llist_add_after(v1, v2[i], node) /\ v2' = L!InsertAt(v2, i + 1, node)
    BY <1>5 DEF L!AddAfter
  <2>2. i \in 0..Len(v2) /\ v2[i] = L!Nth(v2, i) /\ node \in ListNode
    BY <1>1, <2>1 DEF L!Nth
  <2>3. Longer(v2, v2', i, node)
    BY <1>1, <2>1, <2>2, InsertedIs
  <2> QED
    BY <1>2, <2>1, <2>2, <2>3
<1>6. ASSUME NEW i \in DOMAIN v2
      PROVE  LET s == L!llist_remove(v1, v2[i])
                 l == L!RemoveAt(v2, i)
             IN  /\ s \in L!Fields /\ L!Links(s, l) /\ L!Once(l) /\ l \in Seq(ListNode)
                 /\ \A j \in DOMAIN l : l[j] # v2[i]
  <2>1. i \in 1..Len(v2)
    BY <1>1, <1>6
  <2>2. Shorter(v2, L!RemoveAt(v2, i), i)
    BY <1>1, <2>1, ShorterIs
  <2> QED
    BY <1>1, <2>1, <2>2, RemoveKeepsLinks, OnceShorter DEF L!Once
<1>7. CASE L!RemoveNode
  <2>1. PICK i \in DOMAIN v2 : v1' = L!llist_remove(v1, v2[i]) /\ v2' = L!RemoveAt(v2, i)
    BY <1>7 DEF L!RemoveNode
  <2> QED
    BY <1>6, <2>1 DEF L!IInv, L!BothWays
<1>8. CASE L!llist_to_tail
  <2>1. PICK i \in DOMAIN v2 :
          /\ v1' = L!llist_add_after(L!llist_remove(v1, v2[i]), L!llist_remove(v1, v2[i]).tail, v2[i])
          /\ v2' = Append(L!RemoveAt(v2, i), v2[i])
    BY <1>8 DEF L!llist_to_tail
  <2> DEFINE s == L!llist_remove(v1, v2[i])
             l == L!RemoveAt(v2, i)
  <2>2. v2[i] \in ListNode
    BY <1>1, <2>1
  <2>3. /\ s \in L!Fields /\ L!Links(s, l) /\ L!Once(l) /\ l \in Seq(ListNode)
        /\ \A j \in DOMAIN l : l[j] # v2[i]
    BY <1>6, <2>1
  <2>4. v1' = L!llist_add_after(s, s.tail, v2[i]) /\ v2' = Append(l, v2[i])
    BY <2>1
  <2> HIDE DEF s, l
  <2>5. Longer(l, v2', Len(l), v2[i]) /\ Len(l) \in 0..Len(l)
    BY <2>2, <2>3, <2>4, BackIs
  <2>6. s.tail = L!Nth(l, Len(l))
    BY <2>3 DEF L!Links
  <2>7. v1' \in L!Fields /\ L!Links(v1', v2')
    BY <2>2, <2>3, <2>4, <2>5, <2>6, AddKeepsLinks
  <2>8. L!Once(v2')
    BY <2>2, <2>3, <2>5, OnceLonger
  <2> QED
    BY <2>7, <2>8 DEF L!IInv, L!BothWays
<1> QED
  BY <1>3, <1>4, <1>5, <1>7, <1>8 DEF L!Next

-----------------------------------------------------------------------------
(* pool.c.  What a pool is when there are h[p] references to every block   *)
(* p: it has their number, and the blocks with some are allocated.         *)
Some(h) == {p \in Ptr : h[p] > 0}

HashOf(h) == [p \in Some(h) |-> h[p]]

Book(h) == [hash |-> HashOf(h), heap |-> Some(h), twice |-> FALSE]

Hashes == UNION {[dom -> Nat \ {0}] : dom \in SUBSET Ptr}
Pools == [hash : Hashes, heap : SUBSET Ptr, twice : BOOLEAN]

LEMMA PoolIs ==
  ASSUME NEW s \in Pools, NEW f, NEW dom, s.hash = f, s.heap = dom, s.twice = FALSE
  PROVE  s = [hash |-> f, heap |-> dom, twice |-> FALSE]
  BY DEF Pools

LEMMA HashIs ==
  ASSUME NEW dom \in SUBSET Ptr, NEW f, f = [q \in dom |-> f[q]], \A q \in dom : f[q] \in Nat \ {0}
  PROVE  f \in Hashes
<1>1. f \in [dom -> Nat \ {0}]
  OBVIOUS
<1> QED
  BY <1>1 DEF Hashes

LEMMA BookIs ==
  ASSUME NEW h \in [Ptr -> Nat]
  PROVE  /\ Book(h) \in Pools
         /\ Book(h).hash = HashOf(h) /\ DOMAIN Book(h).hash = Some(h)
         /\ Book(h).heap = Some(h)
         /\ Book(h).twice = FALSE
         /\ Some(h) \subseteq Ptr
         /\ 0 \notin Some(h)
         /\ \A p \in Some(h) : HashOf(h)[p] = h[p]
<1> DEFINE k == HashOf(h)
<1>1. Some(h) \in SUBSET Ptr /\ 0 \notin Some(h) /\ \A p \in Some(h) : h[p] \in Nat \ {0}
  BY LibraryAssumption DEF LibraryAssumption, Some
<1>2. k \in Hashes /\ DOMAIN k = Some(h)
  BY <1>1, HashIs DEF HashOf
<1> HIDE DEF k
<1>3. Book(h) = [hash |-> k, heap |-> Some(h), twice |-> FALSE]
  BY DEF Book, k
<1>4. Book(h) \in Pools /\ Book(h).hash = k /\ Book(h).heap = Some(h) /\ Book(h).twice = FALSE
  BY <1>1, <1>2, <1>3 DEF Pools
<1> QED
  BY <1>1, <1>2, <1>4 DEF k, HashOf

(* A pool with the hash and the heap of a book is the book.                *)
LEMMA BookOf ==
  ASSUME NEW s \in Pools, NEW h \in [Ptr -> Nat], s.hash = HashOf(h),
         s.heap = Some(h), s.twice = FALSE
  PROVE  s = Book(h)
  BY PoolIs DEF Book

LEMMA BookCounts ==
  ASSUME NEW h \in [Ptr -> Nat], NEW p \in Ptr \cup {0}
  PROVE  P!Counts(Book(h), p) = IF p = 0 THEN 0 ELSE h[p]
<1>1. p \in Some(h) => p # 0 /\ p \in Ptr
  BY BookIs DEF Some
<1>2. p \in Ptr => p # 0 /\ h[p] \in Nat
  BY LibraryAssumption DEF LibraryAssumption
<1>3. P!Counts(Book(h), p) = IF p \in Some(h) THEN h[p] ELSE 0
  BY BookIs DEF P!Counts
<1> QED
  BY <1>1, <1>2, <1>3 DEF Some

LEMMA PutKeeps ==
  ASSUME NEW h \in [Ptr -> Nat], NEW p \in Ptr, NEW n \in Nat \ {0}
  PROVE  P!Put([Book(h) EXCEPT !.heap = @ \cup {p}], p, n) = Book([h EXCEPT ![p] = n])
<1> DEFINE g == [h EXCEPT ![p] = n]
           s == [Book(h) EXCEPT !.heap = @ \cup {p}]
           f == [q \in DOMAIN s.hash \cup {p} |-> IF q = p THEN n ELSE s.hash[q]]
           t == P!Put(s, p, n)
<1>1. g \in [Ptr -> Nat] /\ \A q \in Ptr : g[q] = IF q = p THEN n ELSE h[q]
  OBVIOUS
<1>2. s \in Pools /\ s.hash = Book(h).hash /\ s.heap = Some(h) \cup {p} /\ s.twice = FALSE
  BY BookIs DEF Pools
<1> HIDE DEF g, s
<1>3. Some(g) = Some(h) \cup {p} /\ Some(g) \in SUBSET Ptr
  BY <1>1 DEF Some
<1>4. DOMAIN s.hash \cup {p} = Some(g)
  BY <1>2, <1>3, BookIs
<1>5. \A q \in Some(g) : (IF q = p THEN n ELSE s.hash[q]) = g[q] /\ g[q] \in Nat \ {0}
  <2>1. \A q \in Some(h) : s.hash[q] = h[q]
    BY <1>2, BookIs
  <2> QED
    BY <1>1, <1>3, <2>1 DEF Some
<1>6. f = HashOf(g) /\ f \in Hashes
  <2>1. f = HashOf(g)
    BY <1>4, <1>5 DEF HashOf
  <2>2. HashOf(g) \in Hashes
    BY <1>3, <1>5, HashIs DEF HashOf
  <2> QED
    BY <2>1, <2>2
<1>7. t = [s EXCEPT !.hash = f]
  BY DEF P!Put
<1> HIDE DEF f, t
<1>8. t \in Pools /\ t.hash = f /\ t.heap = Some(g) /\ t.twice = FALSE
  BY <1>2, <1>3, <1>6, <1>7 DEF Pools
<1>9. t = Book(g)
  BY <1>1, <1>6, <1>8, BookOf
<1> QED
  BY <1>9 DEF t, s, g

LEMMA ReleaseIs ==
  ASSUME NEW s \in Pools, NEW p \in s.heap, s.twice = FALSE
  PROVE  /\ P!Release(s, p) \in Pools
         /\ P!Release(s, p).hash = s.hash
         /\ P!Release(s, p).heap = s.heap \ {p}
         /\ P!Release(s, p).twice = FALSE
<1>1. (s.twice \/ p \notin s.heap) = FALSE
  BY Zenon
<1>2. P!Release(s, p) = [s EXCEPT !.heap = s.heap \ {p}, !.twice = FALSE]
  BY <1>1 DEF P!Release
<1>3. s.heap \ {p} \in SUBSET Ptr
  BY DEF Pools
<1> QED
  BY <1>2, <1>3 DEF Pools

LEMMA RemovedIs ==
  ASSUME NEW h \in [Ptr -> Nat], NEW p \in Ptr, h[p] > 0, NEW s \in Pools,
         s.hash = HashOf(h)
  PROVE  /\ P!pool_remove(s, p) \in Pools
         /\ P!pool_remove(s, p).hash = HashOf([h EXCEPT ![p] = 0])
         /\ P!pool_remove(s, p).heap = s.heap
         /\ P!pool_remove(s, p).twice = s.twice
<1> DEFINE g == [h EXCEPT ![p] = 0]
           f == [q \in DOMAIN s.hash \ {p} |-> s.hash[q]]
           t == P!pool_remove(s, p)
<1>1. g \in [Ptr -> Nat] /\ \A q \in Ptr : g[q] = IF q = p THEN 0 ELSE h[q]
  OBVIOUS
<1> HIDE DEF g
<1>2. Some(g) = Some(h) \ {p} /\ Some(g) \in SUBSET Ptr
  BY <1>1 DEF Some
<1>3. DOMAIN s.hash \ {p} = Some(g) /\ \A q \in Some(h) : s.hash[q] = h[q]
  BY <1>2, BookIs DEF HashOf
<1>4. \A q \in Some(g) : s.hash[q] = g[q] /\ g[q] \in Nat \ {0}
  BY <1>1, <1>2, <1>3 DEF Some
<1>5. f = HashOf(g) /\ f \in Hashes
  <2>1. f = HashOf(g)
    BY <1>3, <1>4 DEF HashOf
  <2>2. HashOf(g) \in Hashes
    BY <1>2, <1>4, HashIs DEF HashOf
  <2> QED
    BY <2>1, <2>2
<1>6. t = [s EXCEPT !.hash = f]
  BY DEF P!pool_remove
<1> HIDE DEF f, t
<1>7. t \in Pools /\ t.hash = f /\ t.heap = s.heap /\ t.twice = s.twice
  BY <1>5, <1>6 DEF Pools
<1> QED
  BY <1>5, <1>7 DEF t, g

LEMMA RemoveKeeps ==
  ASSUME NEW h \in [Ptr -> Nat], NEW p \in Ptr, h[p] > 0
  PROVE  /\ P!pool_remove(P!Release(Book(h), p), p) = Book([h EXCEPT ![p] = 0])
         /\ P!Release(P!pool_remove(Book(h), p), p) = Book([h EXCEPT ![p] = 0])
<1> DEFINE g == [h EXCEPT ![p] = 0]
           r == P!Release(Book(h), p)
           q == P!pool_remove(Book(h), p)
<1>1. g \in [Ptr -> Nat] /\ p \in Some(h) /\ Some(g) = Some(h) \ {p}
  <2>1. g \in [Ptr -> Nat] /\ \A x \in Ptr : g[x] = IF x = p THEN 0 ELSE h[x]
    OBVIOUS
  <2> QED
    BY <2>1 DEF Some
<1>2. /\ Book(h) \in Pools /\ Book(h).hash = HashOf(h)
      /\ Book(h).heap = Some(h) /\ Book(h).twice = FALSE
  BY BookIs
<1>3. r \in Pools /\ r.hash = Book(h).hash /\ r.heap = Some(g) /\ r.twice = FALSE
  BY <1>1, <1>2, ReleaseIs
<1>4. /\ q \in Pools /\ q.hash = HashOf(g)
      /\ q.heap = Some(h) /\ q.twice = FALSE
  BY <1>2, RemovedIs
<1> HIDE DEF r, q, g
<1>5. P!pool_remove(r, p) = Book(g)
  <2>1. /\ P!pool_remove(r, p) \in Pools
        /\ P!pool_remove(r, p).hash = HashOf(g)
        /\ P!pool_remove(r, p).heap = Some(g) /\ P!pool_remove(r, p).twice = FALSE
    <3>1. r \in Pools /\ r.hash = HashOf(h)
      BY <1>2, <1>3
    <3>2. /\ P!pool_remove(r, p) \in Pools
          /\ P!pool_remove(r, p).hash = HashOf(g)
          /\ P!pool_remove(r, p).heap = r.heap
          /\ P!pool_remove(r, p).twice = r.twice
      BY <3>1, RemovedIs DEF g
    <3> QED
      BY <1>3, <3>2
  <2> QED
    BY <1>1, <2>1, BookOf
<1>6. P!Release(q, p) = Book(g)
  <2>1. /\ P!Release(q, p) \in Pools
        /\ P!Release(q, p).hash = HashOf(g)
        /\ P!Release(q, p).heap = Some(g) /\ P!Release(q, p).twice = FALSE
    BY <1>1, <1>4, ReleaseIs
  <2> QED
    BY <1>1, <2>1, BookOf
<1> QED
  BY <1>5, <1>6 DEF r, q, g

LEMMA FreeKeeps ==
  ASSUME NEW h \in [Ptr -> Nat], NEW p \in Ptr, h[p] > 0
  PROVE  P!pool_free(Book(h), p) = Book([h EXCEPT ![p] = h[p] - 1])
<1>1. P!Counts(Book(h), p) = h[p] /\ h[p] \in Nat
  <2>1. p # 0
    BY LibraryAssumption DEF LibraryAssumption
  <2> QED
    BY <2>1, BookCounts
<1>2. CASE h[p] = 1
  <2>1. h[p] - 1 = 0
    BY <1>2
  <2>2. P!pool_free(Book(h), p) = P!pool_remove(P!Release(Book(h), p), p)
    BY <1>1, <1>2 DEF P!pool_free
  <2> QED
    BY <2>1, <2>2, RemoveKeeps
<1>3. CASE h[p] # 1
  <2>1. h[p] - 1 \in Nat \ {0} /\ h[p] # 0
    BY <1>1, <1>3
  <2>2. P!pool_free(Book(h), p) = P!Put(Book(h), p, h[p] - 1)
    BY <1>1, <1>3, <2>1 DEF P!pool_free
  <2>3. [Book(h) EXCEPT !.heap = @ \cup {p}] = Book(h)
    <3>1. Book(h).heap \cup {p} = Book(h).heap
      <4>1. p \in Some(h) /\ Book(h).heap = Some(h)
        BY BookIs DEF Some
      <4> QED
        BY <4>1
    <3> QED
      BY <3>1, BookIs DEF Pools
  <2>4. P!Put([Book(h) EXCEPT !.heap = @ \cup {p}], p, h[p] - 1) = Book([h EXCEPT ![p] = h[p] - 1])
    BY <2>1, PutKeeps
  <2> QED
    BY <2>2, <2>3, <2>4
<1> QED
  BY <1>2, <1>3

(* A pool that has no entry for the pointer lets go of nothing.            *)
LEMMA FreeNothing ==
  ASSUME NEW s, NEW p, P!Counts(s, p) = 0
  PROVE  P!pool_free(s, p) = s
  BY DEF P!pool_free

LEMMA MallocKeeps ==
  ASSUME NEW h \in [Ptr -> Nat], NEW p \in Ptr, h[p] = 0
  PROVE  P!pool_malloc(Book(h), p) = Book([h EXCEPT ![p] = 1])
<1> DEFINE t == [Book(h) EXCEPT !.heap = @ \cup {p}]
<1>1. t.hash = Book(h).hash
  BY BookIs DEF Pools
<1>2. P!Counts(t, p) = 0
  <2>1. P!Counts(Book(h), p) = 0
    BY BookCounts
  <2> QED
    BY <1>1, <2>1 DEF P!Counts
<1>3. P!pool_malloc(Book(h), p) = P!Put(t, p, 1)
  BY <1>2, FreeNothing DEF P!pool_malloc, P!pool_add
<1>4. P!Put(t, p, 1) = Book([h EXCEPT ![p] = 1])
  <2>1. 1 \in Nat \ {0}
    OBVIOUS
  <2> QED
    BY <2>1, PutKeeps
<1> QED
  BY <1>3, <1>4

LEMMA ClearKeeps ==
  ASSUME NEW h \in [Ptr -> Nat]
  PROVE  P!Cleared(Book(h)) = Book([p \in Ptr |-> 0])
<1> DEFINE z == [p \in Ptr |-> 0]
<1>1. Some(z) = {}
  BY DEF Some
<1>2. (Book(h).twice \/ ~(DOMAIN Book(h).hash \subseteq Book(h).heap)) = FALSE
  <2>1. Book(h).twice = FALSE /\ DOMAIN Book(h).hash \subseteq Book(h).heap
    BY BookIs
  <2> QED
    BY <2>1, Zenon
<1>3. Book(h).heap \ DOMAIN Book(h).hash = {}
  BY BookIs
<1>4. P!Cleared(Book(h)) = [hash |-> [p \in {} |-> 0], heap |-> {}, twice |-> FALSE]
  BY <1>2, <1>3 DEF P!Cleared
<1>5. [p \in {} |-> 0] = HashOf(z)
  BY <1>1 DEF HashOf
<1> QED
  BY <1>1, <1>4, <1>5 DEF Book

-----------------------------------------------------------------------------
(* The references to a block.                                              *)
Held(rf, d) == [p \in Ptr |-> rf[p] + (IF d = p THEN 1 ELSE 0)]

(* What IInv says of the pool's users, and of the pool.                    *)
PoolUsers == v2 \in [Ptr -> Nat] /\ v3 \in Ptr \cup {0} /\ (v3 # 0 => v2[v3] = 0)

PoolBook == PoolUsers /\ v1 = Book(Held(v2, v3))

LEMMA BookIsIInv == PoolBook => P!IInv
<1> SUFFICES ASSUME PoolBook
             PROVE  P!IInv
  OBVIOUS
<1> DEFINE h == Held(v2, v3)
<1>1. h \in [Ptr -> Nat] /\ \A p \in Ptr : h[p] = P!Holders(p)
  BY DEF PoolBook, PoolUsers, Held, P!Holders
<1>2. v1 = Book(h)
  BY DEF PoolBook
<1> HIDE DEF h
<1>3. v1 \in Pools /\ v1.twice = FALSE /\ v1.heap = DOMAIN v1.hash
  BY <1>1, <1>2, BookIs
<1>4. \A p \in Ptr : P!Holders(p) = P!Counts(v1, p)
  <2>1. \A p \in Ptr : p # 0
    BY LibraryAssumption DEF LibraryAssumption
  <2> QED
    BY <1>1, <1>2, <2>1, BookCounts
<1>5. v1 \in [hash : {v1.hash}, heap : SUBSET Ptr, twice : BOOLEAN]
  BY <1>3 DEF Pools
<1>6. \E dom \in SUBSET Ptr : v1.hash \in [dom -> Nat \ {0}]
  BY <1>3 DEF Pools, Hashes
<1> QED
  BY <1>3, <1>4, <1>5, <1>6 DEF P!IInv, P!Shapes, P!Counted, PoolBook, PoolUsers

LEMMA IInvIsBook == P!IInv => PoolBook
<1> SUFFICES ASSUME P!IInv
             PROVE  PoolBook
  OBVIOUS
<1>1. PoolUsers
  BY DEF P!IInv, P!Shapes, PoolUsers
<1> DEFINE h == Held(v2, v3)
<1>2. h \in [Ptr -> Nat] /\ \A p \in Ptr : h[p] = P!Holders(p)
  BY <1>1 DEF Held, P!Holders, PoolUsers
<1> HIDE DEF h
<1>3. v1 \in [hash : {v1.hash}, heap : SUBSET Ptr, twice : BOOLEAN]
  BY DEF P!IInv, P!Shapes
<1>4. PICK dom \in SUBSET Ptr : v1.hash \in [dom -> Nat \ {0}]
  BY DEF P!IInv, P!Shapes
<1>5. ~v1.twice /\ v1.heap = dom /\ DOMAIN v1.hash = dom
  BY <1>4 DEF P!IInv, P!Counted
<1>6. \A p \in Ptr : h[p] = IF p \in dom THEN v1.hash[p] ELSE 0
  BY <1>2, <1>5 DEF P!IInv, P!Counted, P!Counts
<1>7. dom = Some(h)
  BY <1>4, <1>6 DEF Some
<1>8. v1.hash = HashOf(h)
  BY <1>4, <1>6, <1>7 DEF HashOf
<1>9. v1 = [hash |-> v1.hash, heap |-> v1.heap, twice |-> v1.twice] /\ v1.twice \in BOOLEAN
  BY <1>3
<1>10. v1.twice = FALSE
  BY <1>5, <1>9
<1>11. v1 = Book(h)
  BY <1>5, <1>7, <1>8, <1>9, <1>10 DEF Book
<1> QED
  BY <1>1, <1>11 DEF h, PoolBook

LEMMA PoolInit == P!Init => P!IInv
<1> SUFFICES ASSUME P!Init
             PROVE  P!IInv
  OBVIOUS
<1>1. PoolUsers
  BY DEF P!Init, PoolUsers
<1>2. Held(v2, v3) = [p \in Ptr |-> 0]
  <2>1. \A p \in Ptr : p # 0
    BY LibraryAssumption DEF LibraryAssumption
  <2>2. \A p \in Ptr : v2[p] + (IF v3 = p THEN 1 ELSE 0) = 0
    BY <2>1 DEF P!Init
  <2> QED
    BY <2>2 DEF Held
<1>3. v1 = Book([p \in Ptr |-> 0])
  <2>1. Some([p \in Ptr |-> 0]) = {}
    BY DEF Some
  <2> QED
    BY <2>1 DEF P!Init, Book, HashOf
<1> QED
  BY <1>1, <1>2, <1>3, BookIsIInv DEF PoolBook

LEMMA PoolNext == P!IInv /\ P!Next => P!IInv'
<1> SUFFICES ASSUME P!IInv, P!Next
             PROVE  P!IInv'
  OBVIOUS
<1> DEFINE h == Held(v2, v3)
           after == Held(v2, v3)'
<1>1. PoolUsers /\ v1 = Book(h) /\ h \in [Ptr -> Nat]
  BY IInvIsBook DEF PoolBook, PoolUsers, Held
<1>2. \A p \in Ptr : p # 0
  BY LibraryAssumption DEF LibraryAssumption
<1>3. \A p \in Ptr : /\ h[p] = v2[p] + (IF v3 = p THEN 1 ELSE 0)
                     /\ v2[p] \in Nat
                     /\ after[p] = v2'[p] + (IF v3' = p THEN 1 ELSE 0)
  BY <1>1 DEF Held, PoolUsers
<1>4. after = [p \in Ptr |-> after[p]] /\ h = [p \in Ptr |-> h[p]]
  BY DEF Held
<1>5. ASSUME PoolUsers', v1' = Book(after)
      PROVE  P!IInv'
  <2>1. PoolBook'
    BY <1>5 DEF PoolBook
  <2> QED
    BY <2>1, BookIsIInv, PTL
<1> HIDE DEF h, after
<1>6. \A p \in Ptr : p \notin v1.heap => h[p] = 0 /\ v2[p] = 0 /\ v3 # p
  <2>1. \A p \in Ptr : p \notin v1.heap => h[p] = 0
    <3>1. v1.heap = Some(h)
      BY <1>1, BookIs
    <3> QED
      BY <1>1, <3>1 DEF Some
  <2> QED
    BY <1>3, <2>1
<1>7. v3 # 0 => v3 \in Ptr /\ h[v3] = 1 /\ v2[v3] = 0
  BY <1>1, <1>3 DEF PoolUsers
<1>8. CASE P!Malloc
  <2>1. PICK p \in Ptr \ v1.heap :
          /\ v1' = P!pool_malloc(v1, p)
          /\ v2' = [v2 EXCEPT ![p] = 1]
          /\ v3' = v3
    BY <1>8 DEF P!Malloc
  <2>2. PoolUsers'
    BY <1>1, <1>6, <2>1 DEF PoolUsers
  <2>3. \A q \in Ptr : after[q] = [h EXCEPT ![p] = 1][q]
    BY <1>1, <1>3, <1>6, <2>1 DEF PoolUsers
  <2>4. after = [h EXCEPT ![p] = 1]
    BY <1>1, <1>4, <2>3
  <2>5. v1' = Book([h EXCEPT ![p] = 1])
    BY <1>1, <1>6, <2>1, MallocKeeps
  <2> QED
    BY <1>5, <2>2, <2>4, <2>5
<1>9. CASE P!pool_addref
  <2>1. PICK p \in Ptr :
          /\ v2[p] \in 1..(MaxRefs - 1)
          /\ v1' = P!Put(v1, p, P!Counts(v1, p) + 1)
          /\ v2' = [v2 EXCEPT ![p] = v2[p] + 1]
          /\ v3' = v3
    BY <1>9 DEF P!pool_addref
  <2>2. v2[p] \in Nat /\ v2[p] >= 1 /\ h[p] \in Nat /\ h[p] > 0 /\ v3 # p
    <3>1. MaxRefs - 1 \in Int
      BY LibraryAssumption DEF LibraryAssumption
    <3>2. v2[p] \in Nat /\ v2[p] >= 1
      BY <1>3, <2>1, <3>1
    <3>3. v3 # p
      BY <1>2, <1>7, <3>2
    <3> QED
      BY <1>3, <3>2, <3>3
  <2>3. PoolUsers'
    BY <1>1, <2>1, <2>2 DEF PoolUsers
  <2>4. \A q \in Ptr : after[q] = [h EXCEPT ![p] = h[p] + 1][q]
    BY <1>1, <1>3, <2>1, <2>2 DEF PoolUsers
  <2>5. after = [h EXCEPT ![p] = h[p] + 1]
    BY <1>1, <1>4, <2>4
  <2>6. P!Counts(v1, p) = h[p]
    BY <1>1, <1>2, BookCounts
  <2>7. [v1 EXCEPT !.heap = @ \cup {p}] = v1
    <3>1. v1.heap \cup {p} = v1.heap
      BY <1>1, <1>6, <2>2
    <3> QED
      BY <1>1, <3>1, BookIs DEF Pools
  <2>8. h[p] + 1 \in Nat \ {0}
    BY <2>2
  <2>9. P!Put([v1 EXCEPT !.heap = @ \cup {p}], p, h[p] + 1) = Book([h EXCEPT ![p] = h[p] + 1])
    BY <1>1, <2>8, PutKeeps
  <2> QED
    BY <1>5, <2>1, <2>3, <2>5, <2>6, <2>7, <2>9
<1>10. CASE P!Free
  <2>1. PICK p \in Ptr :
          /\ v2[p] > 0
          /\ v1' = P!pool_free(v1, p)
          /\ v2' = [v2 EXCEPT ![p] = v2[p] - 1]
          /\ v3' = v3
    BY <1>10 DEF P!Free
  <2>2. v2[p] - 1 \in Nat /\ h[p] \in Nat /\ h[p] > 0 /\ v3 # p
    <3>1. MaxRefs - 1 \in Int
      BY LibraryAssumption DEF LibraryAssumption
    <3>2. v2[p] \in Nat /\ v2[p] >= 1
      BY <1>3, <2>1, <3>1
    <3>3. v3 # p
      BY <1>2, <1>7, <3>2
    <3> QED
      BY <1>3, <3>2, <3>3
  <2>3. PoolUsers'
    BY <1>1, <2>1, <2>2 DEF PoolUsers
  <2>4. \A q \in Ptr : after[q] = [h EXCEPT ![p] = h[p] - 1][q]
    BY <1>1, <1>3, <2>1, <2>2 DEF PoolUsers
  <2>5. after = [h EXCEPT ![p] = h[p] - 1]
    BY <1>1, <1>4, <2>4
  <2>6. v1' = Book([h EXCEPT ![p] = h[p] - 1])
    BY <1>1, <2>1, <2>2, FreeKeeps
  <2> QED
    BY <1>5, <2>3, <2>5, <2>6
<1>11. CASE P!pool_realloc
  <2>1. PICK p \in Ptr, q \in Ptr :
          /\ q \in (Ptr \ v1.heap) \cup {p}
          /\ v2[p] = 1
          /\ v1' = P!pool_malloc(P!Release(P!pool_remove(v1, p), p), q)
          /\ v2' = [v2 EXCEPT ![p] = 0, ![q] = 1]
          /\ v3' = v3
    BY <1>11 DEF P!pool_realloc
  <2> DEFINE k == [h EXCEPT ![p] = 0]
  <2>2. h[p] > 0 /\ v3 # p /\ v3 # q
    BY <1>1, <1>2, <1>3, <1>6, <1>7, <2>1
  <2>3. P!Release(P!pool_remove(v1, p), p) = Book(k)
    BY <1>1, <2>2, RemoveKeeps
  <2>4. k \in [Ptr -> Nat] /\ k[q] = 0 /\ \A r \in Ptr : k[r] = IF r = p THEN 0 ELSE h[r]
    BY <1>1, <1>6, <2>1
  <2> HIDE DEF k
  <2>5. v1' = Book([k EXCEPT ![q] = 1])
    BY <2>1, <2>3, <2>4, MallocKeeps
  <2>6. PoolUsers'
    BY <1>1, <2>1, <2>2 DEF PoolUsers
  <2>7. ASSUME NEW r \in Ptr
        PROVE  after[r] = [k EXCEPT ![q] = 1][r]
    <3>1. [k EXCEPT ![q] = 1][r] = IF r = q THEN 1 ELSE k[r]
      BY <2>4
    <3>2. v2'[r] = IF r = q THEN 1 ELSE IF r = p THEN 0 ELSE v2[r]
      BY <1>1, <2>1 DEF PoolUsers
    <3>3. r = q => after[r] = 1
      BY <1>3, <2>1, <2>2, <3>2
    <3>4. r # q /\ r = p => after[r] = 0
      BY <1>3, <2>1, <2>2, <3>2
    <3>5. r # q /\ r # p => after[r] = h[r]
      BY <1>3, <2>1, <3>2
    <3> QED
      BY <2>4, <3>1, <3>3, <3>4, <3>5
  <2>8. after = [k EXCEPT ![q] = 1]
    BY <1>4, <2>4, <2>7
  <2> QED
    BY <1>5, <2>5, <2>6, <2>8
<1>12. CASE P!pool_copy_str
  <2>1. PICK p \in Ptr \ v1.heap :
          /\ v1' = P!pool_free(P!pool_malloc(v1, p), v3)
          /\ v3' = p
          /\ v2' = v2
    BY <1>12 DEF P!pool_copy_str
  <2> DEFINE k == [h EXCEPT ![p] = 1]
  <2>2. P!pool_malloc(v1, p) = Book(k)
    BY <1>1, <1>6, <2>1, MallocKeeps
  <2>3. PoolUsers'
    BY <1>1, <1>2, <1>6, <2>1 DEF PoolUsers
  <2>4. k \in [Ptr -> Nat] /\ \A q \in Ptr : k[q] = IF q = p THEN 1 ELSE h[q]
    BY <1>1
  <2> HIDE DEF k
  <2>5. CASE v3 = 0
    <3>1. v1' = Book(k)
      <4>1. P!Counts(Book(k), v3) = 0
        BY <2>4, <2>5, BookCounts
      <4> QED
        BY <2>1, <2>2, <4>1, FreeNothing
    <3>2. \A q \in Ptr : after[q] = k[q]
      BY <1>2, <1>3, <1>6, <2>1, <2>4, <2>5
    <3>3. after = k
      BY <1>4, <2>4, <3>2
    <3> QED
      BY <1>5, <2>3, <3>1, <3>3
  <2>6. CASE v3 # 0
    <3>1. v3 \in Ptr /\ v3 # p /\ k[v3] = 1 /\ k[v3] > 0
      BY <1>6, <1>7, <2>1, <2>4, <2>6
    <3>2. v1' = Book([k EXCEPT ![v3] = k[v3] - 1])
      BY <2>1, <2>2, <2>4, <3>1, FreeKeeps
    <3>3. \A q \in Ptr : after[q] = [k EXCEPT ![v3] = k[v3] - 1][q]
      <4>1. \A q \in Ptr : [k EXCEPT ![v3] = k[v3] - 1][q] = IF q = v3 THEN 0 ELSE k[q]
        BY <2>4, <3>1
      <4>2. after[p] = 1
        <5>1. p \in Ptr /\ v2[p] = 0
          BY <1>3, <1>6, <2>1
        <5> QED
          BY <1>3, <2>1, <5>1
      <4>3. after[v3] = 0
        <5>1. v3 \in Ptr /\ v2'[v3] = 0 /\ v3' # v3
          BY <1>7, <2>1, <2>6, <3>1
        <5>2. after[v3] = v2'[v3] + (IF v3' = v3 THEN 1 ELSE 0)
          BY <1>3, <5>1
        <5> QED
          BY <5>1, <5>2
      <4>4. \A q \in Ptr : q # p /\ q # v3 => after[q] = h[q]
        BY <1>3, <2>1
      <4> QED
        BY <2>4, <3>1, <4>1, <4>2, <4>3, <4>4
    <3>4. after = [k EXCEPT ![v3] = k[v3] - 1]
      BY <1>4, <2>4, <3>3
    <3> QED
      BY <1>5, <2>3, <3>2, <3>4
  <2> QED
    BY <2>5, <2>6
<1>13. CASE P!pool_copy_buf
  <2> DEFINE s == P!pool_free(v1, v3)
             k == IF v3 = 0 THEN h ELSE [h EXCEPT ![v3] = h[v3] - 1]
  <2>1. PICK p \in Ptr \ s.heap :
          /\ v1' = P!pool_malloc(s, p)
          /\ v3' = p
          /\ v2' = v2
    BY <1>13 DEF P!pool_copy_buf
  <2>2. s = Book(k)
    <3>1. CASE v3 = 0
      <4>1. P!Counts(v1, v3) = 0
        BY <1>1, <3>1, BookCounts
      <4> QED
        BY <1>1, <3>1, <4>1, FreeNothing
    <3>2. CASE v3 # 0
      <4>1. h[v3] > 0 /\ v3 \in Ptr
        BY <1>7, <3>2
      <4> QED
        BY <1>1, <3>2, <4>1, FreeKeeps
    <3> QED
      BY <3>1, <3>2
  <2>3. k \in [Ptr -> Nat] /\ \A q \in Ptr : k[q] = v2[q]
    <3>1. CASE v3 = 0
      BY <1>1, <1>2, <1>3, <3>1
    <3>2. CASE v3 # 0
      BY <1>1, <1>3, <1>7, <3>2
    <3> QED
      BY <3>1, <3>2
  <2> HIDE DEF s, k
  <2>4. k[p] = 0
    <3>1. s.heap = Some(k)
      BY <2>2, <2>3, BookIs
    <3> QED
      BY <2>1, <2>3, <3>1 DEF Some
  <2>5. v1' = Book([k EXCEPT ![p] = 1])
    BY <2>1, <2>2, <2>3, <2>4, MallocKeeps
  <2>6. PoolUsers'
    BY <1>1, <1>2, <2>1, <2>3, <2>4 DEF PoolUsers
  <2>7. \A q \in Ptr : after[q] = [k EXCEPT ![p] = 1][q]
    BY <1>3, <2>1, <2>3, <2>4
  <2>8. after = [k EXCEPT ![p] = 1]
    BY <1>4, <2>3, <2>7
  <2> QED
    BY <1>5, <2>5, <2>6, <2>8
<1>14. CASE P!pool_clear
  <2>1. v1' = P!Cleared(v1) /\ v2' = [p \in Ptr |-> 0] /\ v3' = 0
    BY <1>14 DEF P!pool_clear
  <2>2. PoolUsers'
    BY <2>1 DEF PoolUsers
  <2>3. \A p \in Ptr : after[p] = 0
    BY <1>2, <1>3, <2>1
  <2>4. after = [p \in Ptr |-> 0]
    BY <1>4, <2>3
  <2> QED
    BY <1>1, <1>5, <2>1, <2>2, <2>4, ClearKeeps
<1> QED
  BY <1>8, <1>9, <1>10, <1>11, <1>12, <1>13, <1>14 DEF P!Next

-----------------------------------------------------------------------------
(* array.c.                                                                *)
Cells == Elt \cup {0}

(* Elements put in at one place of a list, and taken out of it.            *)
GrowsAt(l, m, k, d) ==
  /\ l \in Seq(Cells) /\ m \in Seq(Cells) /\ k \in 0..Len(l) /\ d \in Nat
  /\ Len(m) = Len(l) + d
  /\ \A i \in 1..k : m[i] = l[i]
  /\ \A i \in (k + 1)..Len(l) : m[i + d] = l[i]

LosesFrom(l, m, k, j) ==
  /\ l \in Seq(Cells) /\ m \in Seq(Cells) /\ k \in 0..Len(l) /\ j \in k..Len(l)
  /\ Len(m) = Len(l) - (j - k)
  /\ \A i \in 1..k : m[i] = l[i]
  /\ \A i \in (k + 1)..Len(m) : m[i] = l[i + (j - k)]

LEMMA PutIn ==
  ASSUME NEW l, NEW m, NEW k, NEW d, GrowsAt(l, m, k, d)
  PROVE  m = SubSeq(l, 1, k) \o SubSeq(m, k + 1, k + d) \o SubSeq(l, k + 1, Len(l))
<1> USE DEF GrowsAt
<1> DEFINE a == SubSeq(l, 1, k)
           b == SubSeq(m, k + 1, k + d)
           c == SubSeq(l, k + 1, Len(l))
<1>1. Len(l) \in Nat /\ k \in Nat /\ k <= Len(l) /\ Len(m) \in Nat
  OBVIOUS
<1>2. a \in Seq(Cells) /\ Len(a) = k /\ \A i \in 1..k : a[i] = l[i]
  BY <1>1
<1>3. b \in Seq(Cells) /\ Len(b) = d /\ \A i \in 1..d : b[i] = m[k + i]
  BY <1>1
<1>4. c \in Seq(Cells) /\ Len(c) = Len(l) - k /\ \A i \in 1..(Len(l) - k) : c[i] = l[k + i]
  BY <1>1
<1> HIDE DEF a, b, c
<1>5. /\ (a \o b) \in Seq(Cells) /\ Len(a \o b) = Len(a) + Len(b)
      /\ \A i \in 1..(Len(a) + Len(b)) : (a \o b)[i] = IF i <= Len(a) THEN a[i] ELSE b[i - Len(a)]
  BY <1>2, <1>3, ConcatProperties, Zenon
<1> DEFINE e == a \o b
           f == e \o c
<1>6. e \in Seq(Cells) /\ Len(e) = k + d
      /\ \A i \in 1..(k + d) : e[i] = IF i <= k THEN a[i] ELSE b[i - k]
  BY <1>2, <1>3, <1>5
<1> HIDE DEF e
<1>7. /\ f \in Seq(Cells) /\ Len(f) = Len(e) + Len(c)
      /\ \A i \in 1..(Len(e) + Len(c)) : f[i] = IF i <= Len(e) THEN e[i] ELSE c[i - Len(e)]
  BY <1>4, <1>6, ConcatProperties, Zenon
<1> HIDE DEF f
<1>8. Len(f) = Len(m) /\ Len(f) = Len(l) + d
  BY <1>1, <1>4, <1>6, <1>7
<1>9. ASSUME NEW i \in 1..Len(f)
      PROVE  f[i] = m[i]
  <2>1. f[i] = IF i <= k + d THEN e[i] ELSE c[i - (k + d)]
    BY <1>4, <1>6, <1>7
  <2>2. CASE i <= k
    <3>1. i \in 1..k /\ i \in 1..(k + d) /\ i <= k + d
      BY <1>1, <1>8, <2>2
    <3> QED
      BY <1>2, <1>6, <2>1, <2>2, <3>1
  <2>3. CASE ~(i <= k) /\ i <= k + d
    <3>1. i - k \in 1..d /\ i \in 1..(k + d) /\ k + (i - k) = i
      BY <1>1, <1>8, <2>3
    <3> QED
      BY <1>3, <1>6, <2>1, <2>3, <3>1
  <2>4. CASE ~(i <= k + d)
    <3>1. /\ i - (k + d) \in 1..(Len(l) - k) /\ k + (i - (k + d)) = i - d
          /\ i - d \in (k + 1)..Len(l) /\ (i - d) + d = i
      BY <1>1, <1>8, <2>4
    <3>2. c[i - (k + d)] = l[i - d]
      BY <1>4, <3>1
    <3>3. m[i] = l[i - d]
      BY <3>1
    <3> QED
      BY <2>1, <2>4, <3>2, <3>3
  <2> QED
    BY <2>2, <2>3, <2>4
<1>10. f = m
  BY <1>7, <1>8, <1>9, SeqEqual
<1> QED
  BY <1>10 DEF f, e, a, b, c

LEMMA TakenOut ==
  ASSUME NEW l, NEW m, NEW k, NEW j, LosesFrom(l, m, k, j)
  PROVE  m = SubSeq(l, 1, k) \o SubSeq(l, j + 1, Len(l))
<1> USE DEF LosesFrom
<1> DEFINE a == SubSeq(l, 1, k)
           c == SubSeq(l, j + 1, Len(l))
           f == a \o c
<1>1. Len(l) \in Nat /\ k \in Nat /\ k <= Len(l) /\ Len(m) \in Nat /\ j \in Nat /\ k <= j /\ j <= Len(l)
  OBVIOUS
<1>2. a \in Seq(Cells) /\ Len(a) = k /\ \A i \in 1..k : a[i] = l[i]
  BY <1>1
<1>3. c \in Seq(Cells) /\ Len(c) = Len(l) - j /\ \A i \in 1..(Len(l) - j) : c[i] = l[j + i]
  BY <1>1
<1> HIDE DEF a, c
<1>4. /\ f \in Seq(Cells) /\ Len(f) = Len(a) + Len(c)
      /\ \A i \in 1..(Len(a) + Len(c)) : f[i] = IF i <= Len(a) THEN a[i] ELSE c[i - Len(a)]
  BY <1>2, <1>3, ConcatProperties, Zenon
<1> HIDE DEF f
<1>5. Len(f) = Len(m) /\ Len(f) = k + (Len(l) - j)
  BY <1>1, <1>2, <1>3, <1>4
<1>6. ASSUME NEW i \in 1..Len(f)
      PROVE  f[i] = m[i]
  <2>1. f[i] = IF i <= k THEN a[i] ELSE c[i - k]
    BY <1>2, <1>4
  <2>2. CASE i <= k
    <3>1. i \in 1..k
      BY <1>1, <1>5, <2>2
    <3> QED
      BY <1>2, <2>1, <2>2, <3>1
  <2>3. CASE ~(i <= k)
    <3>1. i - k \in 1..(Len(l) - j) /\ i \in (k + 1)..Len(m) /\ j + (i - k) = i + (j - k)
      BY <1>1, <1>5, <2>3
    <3> QED
      BY <1>3, <2>1, <2>3, <3>1
  <2> QED
    BY <2>2, <2>3
<1>7. f = m
  BY <1>4, <1>5, <1>6, SeqEqual
<1> QED
  BY <1>7 DEF f, a, c

(* The elements of an array that has not lost them.                        *)
LEMMA ElementsAre ==
  ASSUME A!IInv, ~v4
  PROVE  /\ A!Elements \in Seq(Cells) /\ Len(A!Elements) = v2
         /\ \A i \in 1..v2 : A!Elements[i] = v1[i]
         /\ v1 \in Seq(Cells) /\ v2 \in Nat /\ v2 <= Len(v1) /\ Len(v1) = v3 /\ Len(v1) \in Nat
<1>1. v1 \in Seq(Cells) /\ v2 \in Nat /\ v2 <= Len(v1) /\ Len(v1) = v3 /\ Len(v1) \in Nat
  BY DEF A!IInv, A!InsideBlock, Cells
<1>2. A!Elements = SubSeq(v1, 1, v2)
  BY DEF A!Elements
<1>3. SubSeq(v1, 1, v2) \in Seq(Cells) /\ Len(SubSeq(v1, 1, v2)) = v2
      /\ \A i \in 1..v2 : SubSeq(v1, 1, v2)[i] = v1[i]
  BY <1>1
<1> QED
  BY <1>1, <1>2, <1>3

(* The first cells of a block that begins with content.                    *)
LEMMA Content ==
  ASSUME NEW a \in Seq(Cells), NEW b \in Seq(Cells), NEW n \in 0..Len(a)
  PROVE  /\ a \o b \in Seq(Cells) /\ Len(a \o b) = Len(a) + Len(b)
         /\ SubSeq(a \o b, 1, n) = SubSeq(a, 1, n)
<1> DEFINE f == a \o b
<1>1. /\ f \in Seq(Cells) /\ Len(f) = Len(a) + Len(b)
      /\ \A i \in 1..(Len(a) + Len(b)) : f[i] = IF i <= Len(a) THEN a[i] ELSE b[i - Len(a)]
  BY ConcatProperties, Zenon
<1> HIDE DEF f
<1>2. Len(a) \in Nat /\ Len(b) \in Nat /\ n \in Nat /\ n <= Len(a)
  OBVIOUS
<1> DEFINE c == SubSeq(f, 1, n)
           d == SubSeq(a, 1, n)
<1>3. c \in Seq(Cells) /\ Len(c) = n /\ \A i \in 1..n : c[i] = f[i]
  BY <1>1, <1>2
<1>4. d \in Seq(Cells) /\ Len(d) = n /\ \A i \in 1..n : d[i] = a[i]
  BY <1>2
<1> HIDE DEF c, d
<1>5. \A i \in 1..n : f[i] = a[i]
  BY <1>1, <1>2
<1>6. c = d
  BY <1>3, <1>4, <1>5, SeqEqual
<1> QED
  BY <1>1, <1>6 DEF f, c, d

LEMMA ZerosAre ==
  ASSUME NEW n \in Nat
  PROVE  A!Zeros(n) \in Seq(Cells) /\ Len(A!Zeros(n)) = n
<1>1. [i \in 1..n |-> 0] \in Seq(Cells) /\ Len([i \in 1..n |-> 0]) = n
  BY DEF Cells
<1> QED
  BY <1>1 DEF A!Zeros

(* What array_add leaves: the first count elements of content, or, when    *)
(* realloc fails, none.                                                    *)
LEMMA AddIs ==
  ASSUME A!IInv, ~v4, NEW content \in Seq(Cells), v2 <= Len(content),
         NEW past \in Int, past <= Len(content), NEW count \in 0..Len(content), NEW failed \in Nat,
         A!array_add(content, past, count, failed)
  PROVE  /\ A!IInv'
         /\ \/ A!Elements' = SubSeq(content, 1, count)
            \/ A!Elements' = <<>>
<1> DEFINE need == Len(content)
<1>1. need \in Nat /\ count \in Nat /\ count <= need
  OBVIOUS
<1>2. v1 \in Seq(Cells) /\ v2 \in Nat /\ v2 <= Len(v1) /\ Len(v1) = v3 /\ Len(v1) \in Nat
  BY ElementsAre
<1>3. ~v5
  BY DEF A!IInv, A!InsideBlock
<1>4. ASSUME need > v3
      PROVE  /\ A!Grown(need - v2) \in Nat /\ A!Grown(need - v2) >= need /\ A!Grown(need - v2) > 0
  <2>1. BlockSz \in Nat
    BY LibraryAssumption DEF LibraryAssumption
  <2> QED
    BY <1>1, <1>2, <1>4, <2>1 DEF A!Grown
<1>5. CASE /\ need <= v3
           /\ v1' = content \o SubSeq(v1, need + 1, Len(v1))
           /\ v5' = (v5 \/ past > Len(v1))
           /\ v2' = count
           /\ v3' = v3 /\ v4' = v4
  <2> DEFINE rest == SubSeq(v1, need + 1, Len(v1))
  <2>1. rest \in Seq(Cells) /\ Len(rest) = v3 - need
    BY <1>1, <1>2, <1>5
  <2>2. ~(past > Len(v1))
    BY <1>1, <1>2, <1>5
  <2>3. ~v5'
    BY <1>3, <1>5, <2>2, Zenon
  <2> HIDE DEF rest
  <2>4. v1' = content \o rest
    BY <1>5 DEF rest
  <2>5. v1' \in Seq(Cells) /\ Len(v1') = need + Len(rest)
        /\ SubSeq(v1', 1, count) = SubSeq(content, 1, count)
    BY <2>1, <2>4, Content
  <2>6. Len(v1') = v3
    BY <1>1, <1>2, <2>1, <2>5
  <2>7. A!Elements' = SubSeq(content, 1, count)
    BY <1>5, <2>5 DEF A!Elements
  <2>8. A!IInv'
    BY <1>1, <1>2, <1>5, <2>3, <2>5, <2>6 DEF A!IInv, A!InsideBlock, Cells
  <2> QED
    BY <2>7, <2>8
<1>6. CASE /\ need > v3
           /\ v3' = A!Grown(need - v2)
           /\ v1' = content \o A!Zeros(A!Grown(need - v2) - need)
           /\ v5' = (v5 \/ past > A!Grown(need - v2))
           /\ v2' = count
           /\ v4' = v4
  <2> DEFINE n == A!Grown(need - v2)
             rest == A!Zeros(n - need)
  <2>1. n \in Nat /\ n >= need /\ n > 0
    BY <1>4, <1>6
  <2> HIDE DEF n
  <2>2. rest \in Seq(Cells) /\ Len(rest) = n - need
    BY <1>1, <2>1, ZerosAre
  <2>3. ~(past > n)
    BY <1>1, <2>1
  <2>4. ~v5'
    BY <1>3, <1>6, <2>3, Zenon DEF n
  <2> HIDE DEF rest
  <2>5. v1' = content \o rest /\ v3' = n
    BY <1>6 DEF rest, n
  <2>6. v1' \in Seq(Cells) /\ Len(v1') = need + Len(rest)
        /\ SubSeq(v1', 1, count) = SubSeq(content, 1, count)
    BY <2>2, <2>5, Content
  <2>7. Len(v1') = n
    BY <1>1, <2>1, <2>2, <2>6
  <2>8. A!Elements' = SubSeq(content, 1, count)
    BY <1>6, <2>6 DEF A!Elements
  <2>9. A!IInv'
    BY <1>1, <1>6, <2>1, <2>4, <2>5, <2>6, <2>7 DEF A!IInv, A!InsideBlock, Cells
  <2> QED
    BY <2>8, <2>9
<1>7. CASE /\ need > v3
           /\ v3' = A!Grown(need - v2)
           /\ v1' = <<>>
           /\ v4' = TRUE
           /\ v2' = failed
           /\ v5' = v5
  <2>1. v3' \in Nat /\ v3' > 0 /\ v4' /\ ~v5'
    BY <1>3, <1>4, <1>7
  <2>2. A!Elements' = <<>>
    BY <1>7 DEF A!Elements
  <2>3. v1' \in Seq(Cells) /\ v2' \in Nat
    BY <1>7
  <2>4. A!IInv'
    BY <1>7, <2>1, <2>3 DEF A!IInv, A!InsideBlock, Cells
  <2> QED
    BY <2>2, <2>4
<1>8. \/ /\ need <= v3
         /\ v1' = content \o SubSeq(v1, need + 1, Len(v1))
         /\ v5' = (v5 \/ past > Len(v1))
         /\ v2' = count
         /\ v3' = v3 /\ v4' = v4
      \/ /\ need > v3
         /\ v3' = A!Grown(need - v2)
         /\ v1' = content \o A!Zeros(A!Grown(need - v2) - need)
         /\ v5' = (v5 \/ past > A!Grown(need - v2))
         /\ v2' = count
         /\ v4' = v4
      \/ /\ need > v3
         /\ v3' = A!Grown(need - v2)
         /\ v1' = <<>>
         /\ v4' = TRUE
         /\ v2' = failed
         /\ v5' = v5
  BY DEF A!array_add
<1> QED
  BY <1>5, <1>6, <1>7, <1>8

(* How a step of the array looks as one of a list: it grows, it gets       *)
(* shorter, or it is empty.                                                *)
LEMMA GrownIsInsert ==
  ASSUME A!IInv, ~v4, A!Elements' \in Seq(Cells), NEW k \in 0..v2, NEW d \in Nat \ {0},
         Len(A!Elements') = v2 + d,
         \A i \in 1..k : A!Elements'[i] = v1[i],
         \A i \in (k + 1)..v2 : A!Elements'[i + d] = v1[i]
  PROVE  A!ListStep
<1> DEFINE l == A!Elements
           m == A!Elements'
<1>1. l \in Seq(Cells) /\ Len(l) = v2 /\ (\A i \in 1..v2 : l[i] = v1[i]) /\ v2 \in Nat
  BY ElementsAre
<1>2. m \in Seq(Cells) /\ Len(m) = v2 + d /\ d \in Nat /\ d > 0 /\ k \in 0..Len(l)
      /\ (\A i \in 1..k : m[i] = v1[i]) /\ (\A i \in (k + 1)..v2 : m[i + d] = v1[i])
  BY <1>1
<1> HIDE DEF l, m
<1>3. (\A i \in 1..k : m[i] = l[i]) /\ (\A i \in (k + 1)..Len(l) : m[i + d] = l[i])
      /\ Len(m) = Len(l) + d
  BY <1>1, <1>2
<1>4. m = SubSeq(l, 1, k) \o SubSeq(m, k + 1, k + d) \o SubSeq(l, k + 1, Len(l))
  <2>1. GrowsAt(l, m, k, d)
    BY <1>1, <1>2, <1>3 DEF GrowsAt
  <2> QED
    BY <2>1, PutIn
<1>5. k + d = k + Len(m) - Len(l) /\ Len(m) > Len(l)
  BY <1>1, <1>2
<1>6. A!List!Insert
  <2>1. m = SubSeq(l, 1, k) \o SubSeq(m, k + 1, k + Len(m) - Len(l)) \o SubSeq(l, k + 1, Len(l))
    BY <1>4, <1>5
  <2> QED
    BY <1>2, <1>5, <2>1 DEF A!List!Insert, A!List!Before, A!List!After, l, m
<1> QED
  BY <1>6 DEF A!ListStep, A!List!Next

LEMMA ShortIsRemove ==
  ASSUME A!IInv, ~v4, A!Elements' \in Seq(Cells), NEW k \in 0..v2, NEW j \in k..v2,
         Len(A!Elements') = v2 - (j - k),
         \A i \in 1..k : A!Elements'[i] = v1[i],
         \A i \in (k + 1)..Len(A!Elements') : A!Elements'[i] = v1[i + (j - k)]
  PROVE  A!ListStep
<1> DEFINE l == A!Elements
           m == A!Elements'
<1>1. l \in Seq(Cells) /\ Len(l) = v2 /\ (\A i \in 1..v2 : l[i] = v1[i]) /\ v2 \in Nat
  BY ElementsAre
<1>2. m \in Seq(Cells) /\ Len(m) = v2 - (j - k)
      /\ (\A i \in 1..k : m[i] = v1[i]) /\ (\A i \in (k + 1)..Len(m) : m[i] = v1[i + (j - k)])
  OBVIOUS
<1> HIDE DEF l, m
<1>3. k \in Nat /\ j \in Nat /\ k <= j /\ j <= Len(l) /\ k \in 0..Len(l) /\ j \in k..Len(l) /\ j \in 0..Len(l)
  BY <1>1
<1>4. CASE j = k
  <2>1. Len(m) = Len(l)
    BY <1>1, <1>2, <1>3, <1>4
  <2>2. \A i \in 1..Len(m) : m[i] = l[i]
    <3>1. \A i \in (k + 1)..Len(m) : i + (j - k) = i /\ i \in 1..v2
      BY <1>1, <1>2, <1>3, <1>4
    <3>2. \A i \in (k + 1)..Len(m) : m[i] = v1[i]
      BY <1>2, <3>1
    <3>3. \A i \in 1..Len(m) : i \in 1..v2 /\ (i \in 1..k \/ i \in (k + 1)..Len(m))
      BY <1>1, <1>2, <1>3, <1>4
    <3> QED
      BY <1>1, <1>2, <3>2, <3>3
  <2>3. m = l
    BY <1>1, <1>2, <2>1, <2>2, SeqEqual
  <2> QED
    BY <2>3 DEF A!ListStep, l, m
<1>5. CASE j # k
  <2>1. Len(m) = Len(l) - (j - k)
    BY <1>1, <1>2
  <2>2. \A i \in 1..k : m[i] = l[i]
    <3>1. \A i \in 1..k : i \in 1..v2
      BY <1>1, <1>3
    <3> QED
      BY <1>1, <1>2, <3>1
  <2>3. \A i \in (k + 1)..Len(m) : m[i] = l[i + (j - k)]
    <3>1. \A i \in (k + 1)..Len(m) : i + (j - k) \in 1..v2
      BY <1>1, <1>2, <1>3
    <3> QED
      BY <1>1, <1>2, <3>1
  <2>4. m = SubSeq(l, 1, k) \o SubSeq(l, j + 1, Len(l))
    <3>1. LosesFrom(l, m, k, j)
      BY <1>1, <1>2, <1>3, <2>1, <2>2, <2>3 DEF LosesFrom
    <3> QED
      BY <3>1, TakenOut
  <2>5. k < j
    BY <1>3, <1>5
  <2>6. A!List!Remove
    BY <1>3, <2>4, <2>5 DEF A!List!Remove, A!List!Before, A!List!After, l, m
  <2> QED
    BY <2>6 DEF A!ListStep, A!List!Next
<1> QED
  BY <1>4, <1>5

LEMMA EmptyIsRemove ==
  ASSUME A!IInv, ~v4, A!Elements' = <<>>
  PROVE  A!ListStep
<1> DEFINE m == A!Elements'
<1>1. v2 \in Nat /\ 0 \in 0..v2 /\ v2 \in 0..v2
  BY ElementsAre
<1>2. m \in Seq(Cells) /\ Len(m) = v2 - (v2 - 0) /\ (0 + 1)..Len(m) = {} /\ 1..0 = {}
  BY <1>1
<1> QED
  BY <1>1, <1>2, ShortIsRemove

(* array_append, for its other callers too.                                *)
LEMMA AppendSteps ==
  ASSUME A!IInv, NEW elts \in Seq(Cells), elts # <<>>, A!array_append(elts)
  PROVE  A!IInv' /\ A!ListStep
<1>1. ~v4 /\ A!array_add(A!Elements \o elts, v2 + Len(elts), v2 + Len(elts), v2)
  BY DEF A!array_append
<1>2. /\ A!Elements \in Seq(Cells) /\ Len(A!Elements) = v2
      /\ (\A i \in 1..v2 : A!Elements[i] = v1[i]) /\ v2 \in Nat
  BY <1>1, ElementsAre
<1>3. Len(elts) \in Nat \ {0}
  BY EmptySeq
<1> DEFINE c == A!Elements \o elts
<1>4. /\ c \in Seq(Cells) /\ Len(c) = v2 + Len(elts)
      /\ \A i \in 1..(v2 + Len(elts)) : c[i] = IF i <= v2 THEN A!Elements[i] ELSE elts[i - v2]
  BY <1>2, ConcatProperties, Zenon
<1> HIDE DEF c
<1>5. v2 <= Len(c) /\ Len(c) \in Int /\ Len(c) <= Len(c) /\ Len(c) \in 0..Len(c)
  BY <1>2, <1>3, <1>4
<1>6. A!array_add(c, Len(c), Len(c), v2)
  BY <1>1, <1>4 DEF c
<1>7. /\ A!IInv'
      /\ \/ A!Elements' = SubSeq(c, 1, Len(c))
         \/ A!Elements' = <<>>
  BY <1>1, <1>2, <1>4, <1>5, <1>6, AddIs
<1>8. CASE A!Elements' = SubSeq(c, 1, Len(c))
  <2>1. A!Elements' = c
    BY <1>4, <1>8, SubSeqFull
  <2>2. \A i \in 1..v2 : c[i] = v1[i]
    BY <1>2, <1>3, <1>4
  <2>3. (v2 + 1)..v2 = {} /\ v2 \in 0..v2
    BY <1>2
  <2> QED
    BY <1>1, <1>3, <1>4, <1>7, <2>1, <2>2, <2>3, GrownIsInsert
<1>9. CASE A!Elements' = <<>>
  BY <1>1, <1>7, <1>9, EmptyIsRemove
<1> QED
  BY <1>7, <1>8, <1>9

LEMMA SetCountSteps ==
  ASSUME A!IInv, NEW n \in Nat, A!array_set_count(n)
  PROVE  A!IInv' /\ A!ListStep
<1>1. ~v4
  BY DEF A!array_set_count
<1>2. /\ A!Elements \in Seq(Cells) /\ Len(A!Elements) = v2
      /\ (\A i \in 1..v2 : A!Elements[i] = v1[i]) /\ v2 \in Nat
      /\ v1 \in Seq(Cells) /\ v2 <= Len(v1) /\ Len(v1) = v3 /\ Len(v1) \in Nat
  BY <1>1, ElementsAre
<1>3. CASE n > v2
  <2> DEFINE c == A!Elements \o A!Zeros(n)
  <2>1. /\ c \in Seq(Cells) /\ Len(c) = v2 + n
        /\ \A i \in 1..(v2 + n) : c[i] = IF i <= v2 THEN A!Elements[i] ELSE A!Zeros(n)[i - v2]
    <3> DEFINE z == A!Zeros(n)
    <3>1. z \in Seq(Cells) /\ Len(z) = n
      BY ZerosAre
    <3> HIDE DEF z
    <3>2. /\ (A!Elements \o z) \in Seq(Cells) /\ Len(A!Elements \o z) = Len(A!Elements) + Len(z)
          /\ \A i \in 1..(Len(A!Elements) + Len(z)) :
               (A!Elements \o z)[i] = IF i <= Len(A!Elements) THEN A!Elements[i] ELSE z[i - Len(A!Elements)]
      BY <1>2, <3>1, ConcatProperties, Zenon
    <3> QED
      BY <1>2, <3>1, <3>2 DEF z
  <2> HIDE DEF c
  <2>2. v2 <= Len(c) /\ Len(c) \in Int /\ Len(c) <= Len(c) /\ n \in 0..Len(c)
    BY <1>2, <2>1
  <2>3. A!array_add(c, Len(c), n, n)
    BY <1>3, <2>1 DEF A!array_set_count, c
  <2>4. /\ A!IInv'
        /\ \/ A!Elements' = SubSeq(c, 1, n)
           \/ A!Elements' = <<>>
    BY <1>1, <2>1, <2>2, <2>3, AddIs
  <2>5. CASE A!Elements' = SubSeq(c, 1, n)
    <3>1. SubSeq(c, 1, n) \in Seq(Cells) /\ Len(SubSeq(c, 1, n)) = n
          /\ \A i \in 1..n : SubSeq(c, 1, n)[i] = c[i]
      BY <2>1, <2>2
    <3>2. \A i \in 1..v2 : SubSeq(c, 1, n)[i] = v1[i]
      BY <1>2, <1>3, <2>1, <3>1
    <3>3. (v2 + 1)..v2 = {} /\ v2 \in 0..v2 /\ n - v2 \in Nat \ {0} /\ n = v2 + (n - v2)
      BY <1>2, <1>3
    <3> QED
      BY <1>1, <2>4, <2>5, <3>1, <3>2, <3>3, GrownIsInsert
  <2>6. CASE A!Elements' = <<>>
    BY <1>1, <2>4, <2>6, EmptyIsRemove
  <2> QED
    BY <2>4, <2>5, <2>6
<1>4. CASE ~(n > v2)
  <2>1. v2' = n /\ v1' = v1 /\ v3' = v3 /\ v4' = v4 /\ v5' = v5
    BY <1>4 DEF A!array_set_count
  <2>2. A!IInv'
    BY <1>1, <1>2, <1>4, <2>1 DEF A!IInv, A!InsideBlock
  <2>3. A!Elements' = SubSeq(v1, 1, n)
    BY <1>1, <2>1 DEF A!Elements
  <2>4. n <= v2 /\ n <= Len(v1)
    BY <1>2, <1>4
  <2>5. SubSeq(v1, 1, n) \in Seq(Cells) /\ Len(SubSeq(v1, 1, n)) = n
        /\ \A i \in 1..n : SubSeq(v1, 1, n)[i] = v1[i]
    BY <1>2, <2>4
  <2>6. n = v2 - (v2 - n) /\ n \in 0..v2 /\ v2 \in n..v2 /\ (n + 1)..n = {}
    BY <1>2, <2>4
  <2> QED
    BY <1>1, <2>2, <2>3, <2>5, <2>6, ShortIsRemove
<1> QED
  BY <1>3, <1>4

(* array_insert where as many elements move as are inserted, or none.      *)
LEMMA InsertSteps ==
  ASSUME A!IInv, ~AnyInsert, NEW idx \in Nat, NEW elts \in Seq(Cells), elts # <<>>, A!array_insert(idx, elts)
  PROVE  A!IInv' /\ A!ListStep
<1> DEFINE n == Len(elts)
           tail == v2 - idx
           c == A!Inserted(idx, elts)
<1>1. ~v4 /\ tail >= 0 /\ tail \in {0, n}
      /\ A!array_add(c, IF tail > n THEN v2 + tail ELSE v2 + n, v2 + n, v2)
  BY DEF A!array_insert
<1>2. /\ A!Elements \in Seq(Cells) /\ Len(A!Elements) = v2
      /\ (\A i \in 1..v2 : A!Elements[i] = v1[i]) /\ v2 \in Nat
      /\ v1 \in Seq(Cells) /\ v2 <= Len(v1) /\ Len(v1) = v3 /\ Len(v1) \in Nat
  BY <1>1, ElementsAre
<1>3. n \in Nat /\ n > 0 /\ n \in Nat \ {0} /\ ~(tail > n) /\ idx <= v2 /\ idx \in 0..v2
  <2>1. n \in Nat \ {0}
    BY EmptySeq
  <2> QED
    BY <1>1, <1>2, <2>1
<1> DEFINE old == [i \in 1..(v2 + n) |->
                     IF i > v2 /\ i <= v2 + tail THEN v1[idx + i - v2]
                     ELSE IF i <= v2 THEN v1[i] ELSE 0]
<1>4. c = [i \in 1..(v2 + n) |-> IF i \in (idx + 1)..(idx + n) THEN elts[i - idx] ELSE old[i]]
  BY DEF A!Inserted
<1>5. ASSUME NEW i \in 1..(v2 + n)
      PROVE  old[i] \in Cells
  <2>1. CASE i > v2 /\ i <= v2 + tail
    <3>1. idx + i - v2 \in 1..Len(v1)
      BY <1>2, <1>3, <2>1
    <3>2. v1[idx + i - v2] \in Cells
      BY <1>2, <3>1
    <3> QED
      BY <2>1, <3>2
  <2>2. CASE ~(i > v2 /\ i <= v2 + tail) /\ i <= v2
    <3>1. i \in 1..Len(v1)
      BY <1>2, <2>2
    <3>2. v1[i] \in Cells
      BY <1>2, <3>1
    <3> QED
      BY <2>2, <3>2
  <2>3. CASE ~(i > v2 /\ i <= v2 + tail) /\ ~(i <= v2)
    <3>1. old[i] = 0
      BY <2>3
    <3> QED
      BY <3>1 DEF Cells
  <2> QED
    BY <2>1, <2>2, <2>3
<1>6. ASSUME NEW i \in (idx + 1)..v2
      PROVE  i + n \in 1..(v2 + n) /\ old[i + n] = v1[i] /\ i + n \notin (idx + 1)..(idx + n)
  <2>1. tail = n /\ v2 = idx + n
    BY <1>1, <1>2, <1>3
  <2>2. i + n \in 1..(v2 + n) /\ i + n > v2 /\ i + n <= v2 + tail /\ idx + (i + n) - v2 = i
        /\ i + n \notin (idx + 1)..(idx + n)
    BY <1>2, <1>3, <2>1
  <2> QED
    BY <2>2
<1>7. ASSUME NEW i \in 1..idx
      PROVE  i \in 1..(v2 + n) /\ old[i] = v1[i] /\ i \notin (idx + 1)..(idx + n)
  <2>1. i \in 1..(v2 + n) /\ ~(i > v2) /\ i <= v2 /\ i \notin (idx + 1)..(idx + n)
    BY <1>2, <1>3
  <2> QED
    BY <2>1
<1> HIDE DEF old, c
<1>8. c \in Seq(Cells) /\ Len(c) = v2 + n /\ DOMAIN c = 1..(v2 + n)
  <2>1. v2 + n \in Nat
    BY <1>2, <1>3
  <2>2. ASSUME NEW i \in 1..(v2 + n)
        PROVE  c[i] \in Cells
    <3>1. CASE i \in (idx + 1)..(idx + n)
      <4>1. i - idx \in 1..n
        BY <1>3, <3>1
      <4>2. elts[i - idx] \in Cells
        BY <4>1
      <4> QED
        BY <1>4, <3>1, <4>2
    <3>2. CASE i \notin (idx + 1)..(idx + n)
      BY <1>4, <1>5, <3>2
    <3> QED
      BY <3>1, <3>2
  <2>3. c \in [1..(v2 + n) -> Cells]
    BY <1>4, <2>2
  <2> QED
    BY <2>1, <2>3
<1>9. (\A i \in 1..idx : c[i] = v1[i]) /\ (\A i \in (idx + 1)..v2 : c[i + n] = v1[i])
  BY <1>4, <1>6, <1>7
<1>10. v2 <= Len(c) /\ Len(c) \in Int /\ Len(c) <= Len(c) /\ Len(c) \in 0..Len(c)
  BY <1>2, <1>3, <1>8
<1>11. A!array_add(c, Len(c), Len(c), v2)
  BY <1>1, <1>3, <1>8
<1>12. /\ A!IInv'
       /\ \/ A!Elements' = SubSeq(c, 1, Len(c))
          \/ A!Elements' = <<>>
  BY <1>1, <1>2, <1>8, <1>10, <1>11, AddIs
<1>13. CASE A!Elements' = SubSeq(c, 1, Len(c))
  <2>1. A!Elements' = c
    BY <1>8, <1>13, SubSeqFull
  <2> QED
    BY <1>1, <1>3, <1>8, <1>9, <1>12, <2>1, GrownIsInsert
<1>14. CASE A!Elements' = <<>>
  BY <1>1, <1>12, <1>14, EmptyIsRemove
<1> QED
  BY <1>12, <1>13, <1>14

LEMMA RemoveSteps ==
  ASSUME A!IInv, NEW idx \in (-v2)..v2, NEW len \in Int, A!array_remove_idx(idx, len)
  PROVE  A!IInv' /\ A!ListStep
<1> DEFINE i == IF idx < 0 THEN idx + v2 ELSE idx
           n == A!RemovedLen(i, len)
           m == [k \in 1..Len(v1) |-> IF k > i /\ k + n <= v2 THEN v1[k + n] ELSE v1[k]]
<1>1. A!array_get(i) # 0 /\ v1' = m /\ v2' = v2 - n /\ v3' = v3 /\ v4' = v4 /\ v5' = v5
  BY DEF A!array_remove_idx
<1>2. ~v4
  <2>1. v1 # <<>>
    BY <1>1 DEF A!array_get
  <2> QED
    BY <2>1 DEF A!IInv
<1>3. /\ v1 \in Seq(Cells) /\ v2 \in Nat /\ v2 <= Len(v1) /\ Len(v1) = v3 /\ Len(v1) \in Nat
  BY <1>2, ElementsAre
<1>4. i \in 0..(v2 - 1)
  <2>1. i \in 0..v2
    BY <1>3
  <2>2. ~(i < 0)
    BY <1>3, <2>1
  <2> HIDE DEF i
  <2>3. A!array_get(i) = IF v1 # <<>> /\ i \in 0..(v2 - 1) THEN i + 1 ELSE 0
    BY <2>2 DEF A!array_get
  <2> QED
    BY <1>1, <2>3
<1> HIDE DEF i
<1>5. n \in Nat /\ n > 0 /\ i + n <= v2
  <2>1. n = IF len <= 0 \/ i + len > v2 THEN v2 - i ELSE len
    BY DEF A!RemovedLen
  <2> QED
    BY <1>3, <1>4, <2>1
<1> HIDE DEF n
<1>6. m \in Seq(Cells) /\ Len(m) = Len(v1)
  <2>1. ASSUME NEW k \in 1..Len(v1)
        PROVE  m[k] \in Cells
    <3>1. v1[k] \in Cells
      BY <1>3
    <3>2. k + n <= v2 => v1[k + n] \in Cells
      <4>1. k + n <= v2 => k + n \in 1..Len(v1)
        BY <1>3, <1>5
      <4> QED
        BY <1>3, <4>1
    <3> QED
      BY <3>1, <3>2
  <2>2. m \in [1..Len(v1) -> Cells]
    BY <2>1
  <2> QED
    BY <1>3, <2>2
<1>7. (\A k \in 1..i : m[k] = v1[k]) /\ (\A k \in (i + 1)..(v2 - n) : m[k] = v1[k + n])
  <2>1. \A k \in 1..i : k \in 1..Len(v1) /\ ~(k > i)
    BY <1>3, <1>4
  <2>2. \A k \in (i + 1)..(v2 - n) : k \in 1..Len(v1) /\ k > i /\ k + n <= v2
    BY <1>3, <1>4, <1>5
  <2> QED
    BY <2>1, <2>2
<1> HIDE DEF m
<1>8. v2 - n \in Nat /\ v2 - n <= Len(m) /\ v2 - n >= i
  BY <1>3, <1>4, <1>5, <1>6
<1>9. A!IInv'
  BY <1>1, <1>2, <1>3, <1>6, <1>8 DEF A!IInv, A!InsideBlock, Cells
<1>10. A!Elements' = SubSeq(m, 1, v2 - n)
  BY <1>1, <1>2 DEF A!Elements
<1> DEFINE e == SubSeq(m, 1, v2 - n)
<1>11. e \in Seq(Cells) /\ Len(e) = v2 - n /\ \A k \in 1..(v2 - n) : e[k] = m[k]
  BY <1>6, <1>8
<1> HIDE DEF e
<1>12. (\A k \in 1..i : e[k] = v1[k]) /\ (\A k \in (i + 1)..Len(e) : e[k] = v1[k + ((i + n) - i)])
  <2>1. \A k \in 1..i : k \in 1..(v2 - n)
    BY <1>4, <1>8
  <2>2. \A k \in (i + 1)..(v2 - n) : k \in 1..(v2 - n)
    BY <1>4, <1>8
  <2>3. (i + n) - i = n
    BY <1>4, <1>5
  <2> QED
    BY <1>7, <1>11, <2>1, <2>2, <2>3
<1>13. i \in 0..v2 /\ i + n \in i..v2 /\ v2 - n = v2 - ((i + n) - i)
  BY <1>3, <1>4, <1>5
<1> QED
  BY <1>2, <1>9, <1>10, <1>11, <1>12, <1>13, ShortIsRemove DEF e

LEMMA SortSteps ==
  ASSUME A!IInv, A!array_qsort
  PROVE  A!IInv' /\ A!ListStep
<1> DEFINE l == A!Elements
<1>1. ~v4 /\ \E p \in A!Orders(l) :
        v1' = [i \in DOMAIN p |-> l[p[i]]] \o SubSeq(v1, v2 + 1, Len(v1))
  BY DEF A!array_qsort
<1>2. /\ l \in Seq(Cells) /\ Len(l) = v2 /\ DOMAIN l = 1..v2
      /\ v1 \in Seq(Cells) /\ v2 \in Nat /\ v2 <= Len(v1) /\ Len(v1) = v3 /\ Len(v1) \in Nat
  BY <1>1, ElementsAre
<1>3. v2' = v2 /\ v3' = v3 /\ v4' = v4 /\ v5' = v5
  BY DEF A!array_qsort
<1> HIDE DEF l
<1>4. PICK p \in A!Orders(l) : v1' = [i \in DOMAIN p |-> l[p[i]]] \o SubSeq(v1, v2 + 1, Len(v1))
  BY <1>1
<1>5. /\ p \in [1..v2 -> 1..v2]
      /\ \A i, j \in 1..v2 : i < j => p[i] # p[j] /\ l[p[i]] <= l[p[j]]
  BY <1>2 DEF A!Orders
<1> DEFINE m == [i \in 1..v2 |-> l[p[i]]]
           rest == SubSeq(v1, v2 + 1, Len(v1))
<1>6. m \in Seq(Cells) /\ Len(m) = v2 /\ DOMAIN m = 1..v2 /\ \A i \in 1..v2 : m[i] = l[p[i]]
  <2>1. \A i \in 1..v2 : l[p[i]] \in Cells
    BY <1>2, <1>5
  <2>2. m \in [1..v2 -> Cells]
    BY <2>1
  <2> QED
    BY <1>2, <2>2
<1>7. rest \in Seq(Cells) /\ Len(rest) = Len(v1) - v2
  BY <1>2
<1>8. v1' = m \o rest
  BY <1>4, <1>5
<1> HIDE DEF m, rest
<1>9. v2 \in 0..Len(m)
  BY <1>2, <1>6
<1>10. v1' \in Seq(Cells) /\ Len(v1') = Len(m) + Len(rest) /\ SubSeq(v1', 1, v2) = SubSeq(m, 1, v2)
  BY <1>6, <1>7, <1>8, <1>9, Content
<1>11. A!Elements' = m
  <2>1. SubSeq(m, 1, v2) = m
    BY <1>6, SubSeqFull
  <2> QED
    BY <1>1, <1>3, <1>10, <2>1 DEF A!Elements
<1>12. A!IInv'
  <2>1. Len(v1') = Len(v1)
    BY <1>2, <1>6, <1>7, <1>10
  <2> QED
    BY <1>1, <1>2, <1>3, <1>10, <2>1 DEF A!IInv, A!InsideBlock, Cells
<1>13. A!List!Sort
  <2>1. \A i, j \in DOMAIN m : i < j => m[i] <= m[j]
    BY <1>5, <1>6
  <2>2. p \in [DOMAIN l -> DOMAIN l] /\ \A i, j \in DOMAIN l : p[i] = p[j] => i = j
    <3>1. ASSUME NEW i \in 1..v2, NEW j \in 1..v2, p[i] = p[j]
          PROVE  i = j
      <4>1. ~(i < j) /\ ~(j < i)
        BY <1>5, <3>1
      <4> QED
        BY <1>2, <4>1
    <3> QED
      BY <1>2, <1>5, <3>1
  <2>3. m = [i \in DOMAIN l |-> l[p[i]]]
    BY <1>2 DEF m
  <2> QED
    BY <1>11, <2>1, <2>2, <2>3 DEF A!List!Sort, l
<1> QED
  BY <1>12, <1>13 DEF A!ListStep, A!List!Next

LEMMA ArrayInit == A!Init => A!IInv
<1> SUFFICES ASSUME A!Init
             PROVE  A!IInv
  OBVIOUS
<1>1. v1 = <<>> /\ v2 = 0 /\ v3 = 0 /\ ~v4 /\ ~v5 /\ v1 \in Seq(Cells) /\ Len(v1) = 0
  BY DEF A!Init
<1> QED
  BY <1>1 DEF A!IInv, A!InsideBlock, Cells

LEMMA ArrayNext ==
  ASSUME ~AnyInsert, A!IInv, A!Next
  PROVE  A!IInv' /\ A!ListStep
<1>1. MaxCells \in Nat /\ MaxCells \div 2 \in Nat
  BY LibraryAssumption DEF LibraryAssumption
<1>2. ASSUME NEW elts \in A!Elts
      PROVE  elts \in Seq(Cells) /\ elts # <<>>
  <2>1. PICK n \in 1..2 : elts \in [1..n -> Elt]
    BY <1>2 DEF A!Elts
  <2>2. elts \in [1..n -> Cells] /\ n \in Nat /\ n # 0
    BY <2>1 DEF Cells
  <2>3. elts \in Seq(Cells) /\ Len(elts) = n
    BY <2>2
  <2> QED
    BY <2>2, <2>3
<1>3. CASE \E elts \in A!Elts : A!array_append(elts)
  BY <1>2, <1>3, AppendSteps
<1>4. CASE \E elts \in A!Elts : A!array_import(elts)
  <2>1. PICK elts \in A!Elts : A!array_import(elts)
    BY <1>4
  <2>2. v3 = 0 /\ v1' = elts /\ v2' = Len(elts) /\ v3' = Len(elts) /\ v4' = v4 /\ v5' = v5
    BY <2>1 DEF A!array_import
  <2>3. ~v4
    BY <2>2 DEF A!IInv
  <2>4. v2 = 0
    BY <2>2, <2>3 DEF A!IInv, A!InsideBlock
  <2>5. elts \in Seq(Cells) /\ Len(elts) \in Nat /\ Len(elts) # 0
    <3>1. elts \in Seq(Cells) /\ elts # <<>>
      BY <1>2, <2>1
    <3> QED
      BY <3>1, EmptySeq
  <2>6. A!Elements' = elts
    <3>1. SubSeq(elts, 1, Len(elts)) = elts
      BY <2>5, SubSeqFull
    <3> QED
      BY <2>2, <2>3, <3>1 DEF A!Elements
  <2>7. A!IInv'
    BY <2>2, <2>3, <2>5 DEF A!IInv, A!InsideBlock, Cells
  <2>8. Len(elts) = v2 + Len(elts) /\ Len(elts) \in Nat \ {0} /\ 0 \in 0..v2 /\ 1..0 = {} /\ (0 + 1)..v2 = {}
    BY <2>4, <2>5
  <2> QED
    BY <2>3, <2>5, <2>6, <2>7, <2>8, GrownIsInsert
<1>5. CASE \E elts \in A!Elts, i \in 0..MaxCells : A!array_insert(i, elts)
  <2>1. PICK elts \in A!Elts, i \in 0..MaxCells : A!array_insert(i, elts)
    BY <1>5
  <2>2. i \in Nat /\ elts \in Seq(Cells) /\ elts # <<>>
    BY <1>1, <1>2, <2>1
  <2> QED
    BY <2>1, <2>2, InsertSteps
<1>6. CASE \E e \in Elt : A!array_add_nodup(e)
  <2>1. PICK e \in Elt : A!array_add_nodup(e)
    BY <1>6
  <2>2. A!array_append(<<e>>)
    BY <2>1 DEF A!array_add_nodup
  <2>3. <<e>> \in Seq(Cells) /\ <<e>> # <<>>
    BY <2>1 DEF Cells
  <2> QED
    BY <2>2, <2>3, AppendSteps
<1>7. CASE \E n \in 0..(MaxCells \div 2) : A!array_set_count(n)
  BY <1>1, <1>7, SetCountSteps
<1>8. CASE \E i \in (-v2)..v2, n \in -1..MaxCells : A!array_remove_idx(i, n)
  <2>1. PICK i \in (-v2)..v2, n \in -1..MaxCells : A!array_remove_idx(i, n)
    BY <1>8
  <2>2. n \in Int
    BY <1>1, <2>1
  <2> QED
    BY <2>1, <2>2, RemoveSteps
<1>9. CASE A!array_concat
  <2>1. v2 > 0 /\ A!array_append(A!Elements)
    BY <1>9 DEF A!array_concat
  <2>2. ~v4
    BY <2>1 DEF A!array_append
  <2>3. A!Elements \in Seq(Cells) /\ Len(A!Elements) = v2 /\ v2 \in Nat
    BY <2>2, ElementsAre
  <2>4. A!Elements # <<>>
    BY <2>1, <2>3, EmptySeq
  <2> QED
    BY <2>1, <2>3, <2>4, AppendSteps
<1>10. CASE A!array_qsort
  BY <1>10, SortSteps
<1>11. CASE A!array_clear
  <2>1. v1' = <<>> /\ v2' = 0 /\ v3' = 0 /\ v4' = FALSE /\ v5' = v5
    BY <1>11 DEF A!array_clear
  <2>2. A!Elements' = <<>>
    <3>1. SubSeq(<<>>, 1, 0) = <<>>
      OBVIOUS
    <3> QED
      BY <2>1, <3>1 DEF A!Elements
  <2>3. A!IInv'
    <3>1. ~v5' /\ ~v4' /\ v1' \in Seq(Cells) /\ Len(v1') = 0
      BY <2>1 DEF A!IInv, A!InsideBlock
    <3> QED
      BY <2>1, <3>1 DEF A!IInv, A!InsideBlock, Cells
  <2>4. CASE v4
    BY <2>2, <2>3, <2>4 DEF A!ListStep, A!Elements
  <2>5. CASE ~v4
    BY <2>2, <2>3, <2>5, EmptyIsRemove
  <2> QED
    BY <2>4, <2>5
<1> QED
  BY <1>3, <1>4, <1>5, <1>6, <1>7, <1>8, <1>9, <1>10, <1>11 DEF A!Next

-----------------------------------------------------------------------------
(* The three parts in one invariant of the library.                        *)
MemIInv ==
  /\ which = "array" => A!IInv
  /\ which = "pool" => P!IInv
  /\ which = "list" => L!IInv

LEMMA MemBegins == AllInit => MemIInv
<1> SUFFICES ASSUME AllInit
             PROVE  MemIInv
  OBVIOUS
<1>1. which = "array" => A!IInv
  BY ArrayInit DEF AllInit, PartInit
<1>2. which = "pool" => P!IInv
  BY PoolInit DEF AllInit, PartInit
<1>3. which = "list" => L!IInv
  BY ListInit DEF AllInit, PartInit
<1> QED
  BY <1>1, <1>2, <1>3 DEF MemIInv

LEMMA MemStep ==
  ASSUME ~AnyInsert, MemIInv, [AllNext]_allVars
  PROVE  /\ MemIInv'
         /\ which = "array" => A!ListStep
<1>1. CASE ArrayStep
  <2>1. which = "array" /\ which' = which /\ A!Next
    BY <1>1 DEF ArrayStep
  <2>2. A!IInv' /\ A!ListStep
    BY <2>1, ArrayNext DEF MemIInv
  <2> QED
    BY <2>1, <2>2 DEF MemIInv
<1>2. CASE PoolStep
  <2>1. which = "pool" /\ which' = which /\ P!Next
    BY <1>2 DEF PoolStep
  <2>2. P!IInv'
    BY <2>1, PoolNext DEF MemIInv
  <2> QED
    BY <2>1, <2>2 DEF MemIInv
<1>3. CASE ListStep
  <2>1. which = "list" /\ which' = which /\ L!Next
    BY <1>3 DEF ListStep
  <2>2. L!IInv'
    BY <2>1, ListNext DEF MemIInv
  <2> QED
    BY <2>1, <2>2 DEF MemIInv
<1>4. CASE \/ HashStep \/ LeakStep \/ CfgStep \/ CertStep
           \/ NsStep \/ DirStep \/ LogStep \/ MmapStep \/ PacketStep
  <2>1. which' = which /\ which \notin {"array", "pool", "list"}
    BY <1>4 DEF HashStep, LeakStep, CfgStep, CertStep, NsStep, DirStep, LogStep, MmapStep, PacketStep
  <2> QED
    BY <2>1 DEF MemIInv
<1>5. CASE UNCHANGED allVars
  <2>1. which' = which /\ v1' = v1 /\ v2' = v2 /\ v3' = v3 /\ v4' = v4 /\ v5' = v5
    BY <1>5 DEF allVars, v1on, v3on, v4on, v5on
  <2>2. A!Elements' = A!Elements
    BY <2>1 DEF A!Elements
  <2>3. A!IInv => A!IInv'
    BY <2>1 DEF A!IInv, A!InsideBlock
  <2>4. P!IInv => P!IInv'
    BY <2>1 DEF P!IInv, P!Shapes, P!Counted, P!Counts, P!Holders
  <2>5. L!IInv => L!IInv'
    BY <2>1 DEF L!IInv, L!BothWays
  <2> QED
    BY <2>1, <2>2, <2>3, <2>4, <2>5 DEF MemIInv, A!ListStep
<1> QED
  BY <1>1, <1>2, <1>3, <1>4, <1>5 DEF AllNext

(* For any elements, blocks, nodes and sizes, and whichever realloc fails: *)
(* no array is written outside of its block, a pool has a block as long as *)
(* it is referred to and counts the references, and a list is the same     *)
(* from both ends.  Arrays as their callers use array_insert: where it     *)
(* moves as many elements as it inserts, or none.                          *)
THEOREM MemoryAlwaysKept ==
  ASSUME ~AnyInsert
  PROVE  AllSpec => []MemoryKept
<1>1. AllInit => MemIInv
  BY MemBegins
<1>2. MemIInv /\ [AllNext]_allVars => MemIInv'
  BY MemStep
<1>3. MemIInv => MemoryKept
  BY DEF MemIInv, MemoryKept, A!IInv, P!IInv, L!IInv
<1> QED
  BY <1>1, <1>2, <1>3, PTL DEF AllSpec

(* Every call of array.c is a step of the list of array.h, or leaves it as *)
(* it is: elements are put in at one place, taken out of one place, or     *)
(* sorted, and a realloc that fails takes out all of them.                 *)
THEOREM ArrayIsList ==
  ASSUME ~AnyInsert
  PROVE  AllSpec => IsList
<1>1. AllInit => MemIInv
  BY MemBegins
<1>2. MemIInv /\ [AllNext]_allVars => MemIInv'
  BY MemStep
<1>3. MemIInv /\ [AllNext]_allVars => [which = "array" => A!ListStep]_allVars
  BY MemStep
<1> QED
  BY <1>1, <1>2, <1>3, PTL DEF AllSpec, IsList
=============================================================================
