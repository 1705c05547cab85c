------------------------- MODULE IpConnTrackProofs -------------------------
(***************************************************************************)
(* Proofs about IpConnTrack, for every number of bytes, initial numbers    *)
(* and range of them: a connection has one record (OneRecordKept), and     *)
(* its streams are kept in place (StreamsInPlace).                         *)
(***************************************************************************)
EXTENDS IpConnTrack, TLAPS

-----------------------------------------------------------------------------
(* What the invariants rest on.  The flags of a connection are those of    *)
(* its two addresses.                                                      *)
FlagsOfEnds ==
  \A k \in DOMAIN m_conn_hash :
    /\ "LOCAL_CLIENT" \in m_conn_hash[k].conn_flags <=> k[1] \in m_local_addrs
    /\ "LOCAL_SERVER" \in m_conn_hash[k].conn_flags <=> k[2] \in m_local_addrs

(* The bytes of a buffer are those before the place n of the stream.       *)
InPlace(buf, n) == \A i \in DOMAIN buf : buf[i] # 0 => buf[i] = n - Len(buf) + i - 1

(* The next byte of a queue is at the place n of the host's stream.        *)
QueueAt(h, q, n) ==
  /\ q.seq_ok
  /\ q.seq = Number(h, n)
  /\ 1 <= n /\ n <= NBytes[h] + 2
  /\ InPlace(q.buf, n)

(* The number expected next is that of the place m.                        *)
StatsAt(h, st, m) == st.tcp_seq_next_ok /\ st.tcp_seq_next = Number(h, m) /\ 1 <= m

Place(h) == 0..(NBytes[h] + 2)

(* ... which is not behind n.  Places are less than half of the range of   *)
(* numbers apart, so that two numbers tell which one is ahead.             *)
Follows(h, q, st) == \E n, m \in Place(h) : QueueAt(h, q, n) /\ StatsAt(h, st, m) /\ m <= n

Unseen(q, st) == ~q.seq_ok /\ ~st.tcp_seq_next_ok /\ q.buf = <<>>

Places ==
  \A k \in DOMAIN m_conn_hash : \A r \in Role :
    LET c == m_conn_hash[k]
    IN  /\ "BUFFER" \notin track_flags => c.queue[r].buf = <<>>
        /\ Unseen(c.queue[r], c.stats[r]) \/ Follows(End(k, r), c.queue[r], c.stats[r])

IInv == TypeOK /\ OneConn /\ LocalFlags /\ FlagsOfEnds /\ Places

-----------------------------------------------------------------------------
(* Arithmetic of the numbers: what % leaves, and when it leaves the same.  *)
LEMMA Residue ==
  ASSUME NEW M \in Nat \ {0}, NEW a \in Int
  PROVE  /\ a % M \in 0..(M - 1)
         /\ a \div M \in Int
         /\ a = M * (a \div M) + (a % M)
BY SMT

LEMMA Multiples ==
  ASSUME NEW M \in Nat \ {0}, NEW x \in Int, NEW y \in Int, x > y
  PROVE  M * x >= M * y + M
<1>1. M * (x - (y + 1)) >= 0
  BY SMT
<1>2. M * (x - (y + 1)) = M * x - (M * y + M)
  BY SMT
<1> QED
  BY <1>1, <1>2

(* A number has one residue.                                               *)
LEMMA OneResidue ==
  ASSUME NEW M \in Nat \ {0}, NEW x \in Int, NEW y \in Int,
         NEW r \in 0..(M - 1), NEW s \in 0..(M - 1),
         M * x + r = M * y + s
  PROVE  r = s
<1>0. M * x \in Int /\ M * y \in Int
  OBVIOUS
<1>1. CASE x > y
  <2>1. M * x >= M * y + M
    BY <1>1, Multiples
  <2> QED
    BY <1>0, <2>1
<1>2. CASE y > x
  <2>1. M * y >= M * x + M
    BY <1>2, Multiples
  <2> QED
    BY <1>0, <2>1
<1>3. CASE x = y
  BY <1>0, <1>3
<1> QED
  BY <1>1, <1>2, <1>3

(* Adding a multiple does not change the residue...                        *)
LEMMA ResidueOfSum ==
  ASSUME NEW M \in Nat \ {0}, NEW a \in Int, NEW k \in Int
  PROVE  (a + M * k) % M = a % M
<1> DEFINE b == a + M * k
<1>0. M * k \in Int
  OBVIOUS
<1>1. b \in Int /\ b = a + M * k
  BY <1>0
<1> HIDE DEF b
<1>2. /\ a % M \in 0..(M - 1) /\ a \div M \in Int
      /\ a = M * (a \div M) + (a % M)
  BY Residue
<1>3. /\ b % M \in 0..(M - 1) /\ b \div M \in Int
      /\ b = M * (b \div M) + (b % M)
  BY <1>1, Residue
<1>4. M * ((a \div M) + k) = M * (a \div M) + M * k
  BY <1>2
<1>5. M * ((a \div M) + k) + (a % M) = M * (b \div M) + (b % M)
  <2>1. M * (a \div M) \in Int /\ a % M \in Int
    BY <1>2
  <2>2. M * ((a \div M) + k) + (a % M) = a + M * k
    BY <1>0, <1>2, <1>4, <2>1
  <2> QED
    BY <1>1, <1>3, <2>2
<1>6. (a \div M) + k \in Int
  BY <1>2
<1>7. a % M = b % M
  BY <1>2, <1>3, <1>5, <1>6, OneResidue
<1> QED
  BY <1>1, <1>7

(* ... and only multiples lie between equal residues.                      *)
LEMMA EqualResidues ==
  ASSUME NEW M \in Nat \ {0}, NEW a \in Int, NEW b \in Int, a % M = b % M
  PROVE  \E k \in Int : a = b + M * k
<1>1. /\ a % M \in 0..(M - 1) /\ a \div M \in Int
      /\ a = M * (a \div M) + (a % M)
  BY Residue
<1>2. /\ b % M \in 0..(M - 1) /\ b \div M \in Int
      /\ b = M * (b \div M) + (b % M)
  BY Residue
<1> DEFINE k == (a \div M) - (b \div M)
<1>3. M * k = M * (a \div M) - M * (b \div M)
  BY <1>1, <1>2
<1>4. M * (a \div M) \in Int /\ M * (b \div M) \in Int
  BY <1>1, <1>2
<1>5. k \in Int
  BY <1>1, <1>2
<1>6. a = b + M * k
  BY <1>1, <1>2, <1>3, <1>4
<1> QED
  BY <1>5, <1>6

(* Numbers less than M apart with the same residue are the same.           *)
LEMMA NearResidues ==
  ASSUME NEW M \in Nat \ {0}, NEW a \in Int, NEW b \in Int,
         a % M = b % M, -M < a - b, a - b < M
  PROVE  a = b
<1>1. PICK k \in Int : a = b + M * k
  BY EqualResidues
<1>2. M * k \in Int
  OBVIOUS
<1>3. CASE k > 0
  <2>1. M * k >= M * 0 + M
    BY <1>3, Multiples
  <2> QED
    BY <1>1, <1>2, <2>1
<1>4. CASE 0 > k
  <2>1. M * 0 >= M * k + M
    BY <1>4, Multiples
  <2> QED
    BY <1>1, <1>2, <2>1
<1>5. CASE k = 0
  BY <1>1, <1>5
<1> QED
  BY <1>3, <1>4, <1>5

(* A sum may be reduced in between.                                        *)
LEMMA ReducedSum ==
  ASSUME NEW M \in Nat \ {0}, NEW a \in Int, NEW b \in Int
  PROVE  ((a % M) + b) % M = (a + b) % M
<1>1. /\ a % M \in 0..(M - 1) /\ a \div M \in Int
      /\ a = M * (a \div M) + (a % M)
  BY Residue
<1> DEFINE q == a \div M
           c == (a % M) + b
<1>2. c \in Int /\ q \in Int /\ M * q \in Int
  BY <1>1
<1>3. a + b = c + M * q
  BY <1>1, <1>2
<1> HIDE DEF c, q
<1>4. (c + M * q) % M = c % M
  BY <1>2, ResidueOfSum
<1> QED
  BY <1>3, <1>4 DEF c

LEMMA ReducedDifference ==
  ASSUME NEW M \in Nat \ {0}, NEW a \in Int, NEW b \in Int
  PROVE  ((a % M) - (b % M)) % M = (a - b) % M
<1>1. /\ a % M \in 0..(M - 1) /\ a \div M \in Int
      /\ a = M * (a \div M) + (a % M)
  BY Residue
<1>2. /\ b % M \in 0..(M - 1) /\ b \div M \in Int
      /\ b = M * (b \div M) + (b % M)
  BY Residue
<1> DEFINE q == (a \div M) - (b \div M)
           c == (a % M) - (b % M)
<1>3. c \in Int /\ q \in Int /\ M * q \in Int
  BY <1>1, <1>2
<1>4. M * q = M * (a \div M) - M * (b \div M)
  BY <1>1, <1>2
<1>5. M * (a \div M) \in Int /\ M * (b \div M) \in Int
  BY <1>1, <1>2
<1>6. a - b = c + M * q
  BY <1>1, <1>2, <1>4, <1>5
<1> HIDE DEF c, q
<1>7. (c + M * q) % M = c % M
  BY <1>3, ResidueOfSum
<1> QED
  BY <1>6, <1>7 DEF c

(* What is in the range is its own residue.                                *)
LEMMA OwnResidue ==
  ASSUME NEW M \in Nat \ {0}, NEW a \in 0..(M - 1)
  PROVE  a % M = a
<1>1. /\ a % M \in 0..(M - 1) /\ a \div M \in Int
      /\ a = M * (a \div M) + (a % M)
  BY Residue
<1>2. M * 0 + a = M * (a \div M) + (a % M)
  BY <1>1
<1> QED
  BY <1>1, <1>2, OneResidue

(* What the assumption says of the range of numbers.                       *)
LEMMA Modulus ==
  /\ SeqMod \in Nat \ {0}
  /\ SeqMod \div 2 \in Nat
  /\ SeqMod = 2 * (SeqMod \div 2)
  /\ \A h \in Host : NBytes[h] \in Nat /\ ISN[h] \in Int /\ NBytes[h] + 2 < SeqMod \div 2
<1>1. SeqMod \in Nat /\ SeqMod % 2 = 0
  BY TrackAssumption
<1>2. \A h \in Host : NBytes[h] \in Nat /\ ISN[h] \in 0..(SeqMod - 1) /\ NBytes[h] + 2 < SeqMod \div 2
  BY TrackAssumption
<1>3. "A" \in Host
  BY DEF Host
<1>4. SeqMod \div 2 > 2
  BY <1>1, <1>2, <1>3
<1>5. \A h \in Host : ISN[h] \in Int
  BY <1>1, <1>2
<1> QED
  BY <1>1, <1>2, <1>4, <1>5

LEMMA NumberType ==
  ASSUME NEW h \in Host, NEW n \in Int
  PROVE  Number(h, n) \in SeqNumber
<1>1. SeqMod \in Nat \ {0} /\ ISN[h] + n \in Int
  BY Modulus
<1>2. (ISN[h] + n) % SeqMod \in 0..(SeqMod - 1)
  BY <1>1, Residue
<1> QED
  BY <1>2 DEF Number, SeqNumber

(* The number k places on.                                                 *)
LEMMA NumberOn ==
  ASSUME NEW h \in Host, NEW n \in Int, NEW k \in Int
  PROVE  (Number(h, n) + k) % SeqMod = Number(h, n + k)
<1>1. SeqMod \in Nat \ {0} /\ ISN[h] + n \in Int
  BY Modulus
<1>2. (((ISN[h] + n) % SeqMod) + k) % SeqMod = ((ISN[h] + n) + k) % SeqMod
  BY <1>1, ReducedSum
<1>3. (ISN[h] + n) + k = ISN[h] + (n + k)
  BY Modulus
<1> QED
  BY <1>2, <1>3 DEF Number

LEMMA PlacesNear ==
  ASSUME NEW h \in Host, NEW n \in Place(h), NEW m \in Place(h)
  PROVE  /\ n \in Int /\ m \in Int /\ n - m \in Int
         /\ n - m < SeqMod \div 2 /\ -(SeqMod \div 2) < n - m
BY Modulus DEF Place

(* A number tells the place, and two tell how far apart their places are.  *)
LEMMA SameNumber ==
  ASSUME NEW h \in Host, NEW n \in Place(h), NEW m \in Place(h), Number(h, n) = Number(h, m)
  PROVE  n = m
<1>1. /\ n \in Int /\ m \in Int /\ n - m < SeqMod \div 2 /\ -(SeqMod \div 2) < n - m
  BY PlacesNear
<1>2. /\ ISN[h] + n \in Int /\ ISN[h] + m \in Int
      /\ -SeqMod < (ISN[h] + n) - (ISN[h] + m) /\ (ISN[h] + n) - (ISN[h] + m) < SeqMod
  BY <1>1, Modulus
<1>3. ISN[h] + n = ISN[h] + m
  BY <1>2, Modulus, NearResidues DEF Number
<1> QED
  BY <1>1, <1>3, Modulus

LEMMA Distance ==
  ASSUME NEW h \in Host, NEW n \in Place(h), NEW m \in Place(h)
  PROVE  tcp_seq_diff(Number(h, n), Number(h, m)) = n - m
<1>0. /\ n \in Int /\ m \in Int /\ n - m \in Int
      /\ n - m < SeqMod \div 2 /\ -(SeqMod \div 2) < n - m
  BY PlacesNear
<1>1. ISN[h] + n \in Int /\ ISN[h] + m \in Int /\ (ISN[h] + n) - (ISN[h] + m) = n - m
  BY <1>0, Modulus
<1>2. (Number(h, n) - Number(h, m)) % SeqMod = (n - m) % SeqMod
  <2>1. (Number(h, n) - Number(h, m)) % SeqMod = ((ISN[h] + n) - (ISN[h] + m)) % SeqMod
    BY <1>1, Modulus, ReducedDifference DEF Number
  <2> QED
    BY <1>1, <2>1
<1>3. CASE n >= m
  <2>1. n - m \in 0..(SeqMod - 1)
    BY <1>0, <1>3, Modulus
  <2>2. (n - m) % SeqMod = n - m
    BY <2>1, Modulus, OwnResidue
  <2>3. ~(n - m >= SeqMod \div 2)
    BY <1>0, Modulus
  <2> QED
    BY <1>2, <2>2, <2>3 DEF tcp_seq_diff
<1>4. CASE n < m
  <2>1. (n - m) + SeqMod \in 0..(SeqMod - 1) /\ SeqMod * 1 = SeqMod
    BY <1>0, <1>4, Modulus
  <2>2. ((n - m) + SeqMod * 1) % SeqMod = (n - m) % SeqMod
    <3>1. PICK d \in Int, k \in Int : d = n - m /\ k = 1
      BY <1>0
    <3>2. (d + SeqMod * k) % SeqMod = d % SeqMod
      BY Modulus, ResidueOfSum
    <3> QED
      BY <3>1, <3>2
  <2>3. (n - m) % SeqMod = (n - m) + SeqMod
    <3>1. PICK d \in 0..(SeqMod - 1) : d = (n - m) + SeqMod
      BY <2>1
    <3>2. d % SeqMod = d
      BY Modulus, OwnResidue
    <3> QED
      BY <2>1, <2>2, <3>1, <3>2
  <2>4. (n - m) + SeqMod >= SeqMod \div 2
    BY <1>0, Modulus
  <2>5. ((n - m) + SeqMod) - SeqMod = n - m
    BY <1>0, Modulus
  <2> QED
    BY <1>2, <2>3, <2>4, <2>5 DEF tcp_seq_diff
<1> QED
  BY <1>0, <1>3, <1>4

LEMMA AheadBy ==
  ASSUME NEW h \in Host, NEW n \in Place(h), NEW m \in Place(h)
  PROVE  Ahead(Number(h, n), Number(h, m)) = n - m
<1> DEFINE Half == SeqMod \div 2
           S == (-Half)..(Half - 1)
           P(d) == (Number(h, m) + d) % SeqMod = Number(h, n)
<1>0. /\ n \in Int /\ m \in Int /\ n - m \in Int /\ Half \in Int
      /\ n - m < Half /\ -Half < n - m
  BY PlacesNear, Modulus
<1>1. n - m \in S
  BY <1>0
<1>2. P(n - m)
  <2>1. (Number(h, m) + (n - m)) % SeqMod = Number(h, m + (n - m))
    BY <1>0, NumberOn
  <2>2. m + (n - m) = n
    BY <1>0
  <2> QED
    BY <2>1, <2>2
<1>3. ASSUME NEW d \in S, P(d)
      PROVE  d = n - m
  <2>1. d \in Int /\ m + d \in Int
    BY <1>0
  <2>2. Number(h, m + d) = Number(h, n)
    BY <1>0, <1>3, <2>1, NumberOn
  <2>3. /\ ISN[h] + (m + d) \in Int /\ ISN[h] + n \in Int
        /\ -SeqMod < (ISN[h] + (m + d)) - (ISN[h] + n)
        /\ (ISN[h] + (m + d)) - (ISN[h] + n) < SeqMod
    BY <1>0, <2>1, Modulus
  <2>4. ISN[h] + (m + d) = ISN[h] + n
    BY <2>2, <2>3, Modulus, NearResidues DEF Number
  <2> QED
    BY <1>0, <2>1, <2>4, Modulus
<1>4. Ahead(Number(h, n), Number(h, m)) = CHOOSE d \in S : P(d)
  BY DEF Ahead
<1> HIDE DEF S, P
<1>5. (CHOOSE d \in S : P(d)) = n - m
  BY <1>1, <1>2, <1>3
<1> QED
  BY <1>4, <1>5

-----------------------------------------------------------------------------
(* A packet of h: its bytes are at the places lo to lo + len - 1, and the  *)
(* one that opens the stream has none, at place 0.                         *)
IsPacket(h, p) ==
  /\ p \in [src : {h}, seq : SeqNumber, lo : Nat, len : Nat, syn : BOOLEAN, fin : BOOLEAN]
  /\ p.seq = Number(h, p.lo)
  /\ p.lo + p.len <= NBytes[h] + 2
  /\ IF p.syn THEN p.lo = 0 /\ p.len = 0 ELSE p.lo >= 1

LEMMA PacketIs ==
  ASSUME NEW h \in Host, NEW lo \in Nat, NEW len \in Nat, NEW s \in BOOLEAN, NEW f \in BOOLEAN,
         lo + len <= NBytes[h] + 2,
         IF s THEN lo = 0 /\ len = 0 ELSE lo >= 1
  PROVE  IsPacket(h, Packet(h, lo, len, s, f))
<1>1. Number(h, lo) \in SeqNumber
  BY NumberType
<1> QED
  BY <1>1 DEF IsPacket, Packet

LEMMA PacketsAre ==
  ASSUME TypeOK, NEW h \in Host, NEW p \in Packets(h)
  PROVE  IsPacket(h, p)
<1>0. NBytes[h] \in Nat /\ written[h] \in Nat /\ written[h] <= NBytes[h]
  BY Modulus DEF TypeOK
<1>1. CASE p = Packet(h, 0, 0, TRUE, FALSE)
  <2>1. PICK lo \in Nat, len \in Nat : lo = 0 /\ len = 0
    OBVIOUS
  <2>2. lo + len <= NBytes[h] + 2
    BY <1>0, <2>1
  <2> QED
    BY <1>1, <2>1, <2>2, PacketIs
<1>2. ASSUME NEW s \in Segments(h), p = Packet(h, s[1], s[2], FALSE, FALSE)
      PROVE  IsPacket(h, p)
  <2>1. /\ s[1] \in Nat /\ s[2] \in Nat /\ s[1] >= 1
        /\ s[1] + s[2] <= NBytes[h] + 2
    BY <1>0 DEF Segments
  <2> QED
    BY <1>2, <2>1, PacketIs
<1>3. CASE p = Packet(h, written[h] + 2, 0, FALSE, FALSE)
  <2>1. PICK lo \in Nat, len \in Nat :
           lo = written[h] + 2 /\ len = 0 /\ lo >= 1 /\ lo + len <= NBytes[h] + 2
    BY <1>0
  <2> QED
    BY <1>3, <2>1, PacketIs
<1>4. ASSUME NEW n \in 0..written[h], p = Packet(h, written[h] + 1 - n, n, FALSE, TRUE)
      PROVE  IsPacket(h, p)
  <2>1. PICK lo \in Nat, len \in Nat :
           lo = written[h] + 1 - n /\ len = n /\ lo >= 1 /\ lo + len <= NBytes[h] + 2
    BY <1>0
  <2> QED
    BY <1>4, <2>1, PacketIs
<1>5. \/ p = Packet(h, 0, 0, TRUE, FALSE)
      \/ \E s \in Segments(h) : p = Packet(h, s[1], s[2], FALSE, FALSE)
      \/ p = Packet(h, written[h] + 2, 0, FALSE, FALSE)
      \/ \E n \in 0..written[h] : p = Packet(h, written[h] + 1 - n, n, FALSE, TRUE)
  BY Zenon DEF Packets
<1> QED
  BY <1>1, <1>2, <1>3, <1>4, <1>5

-----------------------------------------------------------------------------
(* The connection that a captured packet leaves, and its queue.            *)
Tracked(p, k, r) == TrackStream(TrackState(Lookup(p, k), r, p), r, p)

NextQueue(q, p) ==
  LET s    == Started(q, p)
      diff == tcp_seq_diff(p.seq, s.seq)
  IN  IF diff > 1 THEN s ELSE Appended(s, p, diff)

LEMMA Ends ==
  ASSUME NEW h \in Host
  PROVE  Other(h) \in Host /\ Other(h) # h /\ Other(Other(h)) = h
BY DEF Host, Other

(* The packet p of h belongs to the end r of connection k.                 *)
Tracks(h, p, k, r) ==
  /\ k \in {<<h, Other(h)>>, <<Other(h), h>>}
  /\ r = IF k[1] = h THEN "client" ELSE "server"
  /\ <<k[2], k[1]>> \notin DOMAIN m_conn_hash
  /\ k \in DOMAIN m_conn_hash \/ k[1] = h
  /\ m_conn_hash' = [x \in DOMAIN m_conn_hash \cup {k} |->
                       IF x = k THEN Tracked(p, k, r) ELSE m_conn_hash[x]]

LEMMA CaptureTracks ==
  ASSUME OneConn, NEW h \in Host, NEW p, p.src = h, Capture(p)
  PROVE  \E k \in Keys, r \in Role : Tracks(h, p, k, r)
<1> DEFINE k == ConnKey(p)
           r == IF k[1] = p.src THEN "client" ELSE "server"
<1>1. k \in {<<h, Other(h)>>, <<Other(h), h>>}
  BY DEF ConnKey
<1>2. <<k[2], k[1]>> \notin DOMAIN m_conn_hash
  <2>1. CASE <<Other(h), h>> \in DOMAIN m_conn_hash
    <3>1. k = <<Other(h), h>>
      BY <2>1 DEF ConnKey
    <3>2. <<h, Other(h)>> \notin DOMAIN m_conn_hash
      BY <2>1 DEF OneConn
    <3> QED
      BY <3>1, <3>2
  <2>2. CASE <<Other(h), h>> \notin DOMAIN m_conn_hash
    <3>1. k = <<h, Other(h)>>
      BY <2>2 DEF ConnKey
    <3> QED
      BY <2>2, <3>1
  <2> QED
    BY <2>1, <2>2
<1>2a. k \in DOMAIN m_conn_hash \/ k[1] = h
  BY DEF ConnKey
<1>3. k \in Keys /\ r \in Role
  BY <1>1, Ends DEF Keys, Role
<1>4. m_conn_hash' = [x \in DOMAIN m_conn_hash \cup {k} |->
                       IF x = k THEN Tracked(p, k, r) ELSE m_conn_hash[x]]
  BY DEF Capture, Tracked
<1>5. Tracks(h, p, k, r)
  BY <1>1, <1>2, <1>2a, <1>4 DEF Tracks
<1> QED
  BY <1>3, <1>5

LEMMA EndOfKey ==
  ASSUME NEW h \in Host, NEW k \in {<<h, Other(h)>>, <<Other(h), h>>},
         NEW r \in Role, r = IF k[1] = h THEN "client" ELSE "server"
  PROVE  End(k, r) = h /\ k[2] = Other(k[1]) /\ k[1] \in Host /\ k[2] \in Host
BY Ends DEF End, Role

(* Each field of the record that a packet leaves.                          *)
LEMMA LookupType ==
  ASSUME TypeOK, NEW h \in Host, NEW p, p.src = h, NEW k \in Keys
  PROVE  /\ Lookup(p, k) \in Conn
         /\ Lookup(p, k).conn_pkt_flags =
              AddrFlags(p) \cup {IF k[1] = h THEN "FROM_CLIENT" ELSE "FROM_SERVER"}
                           \cup {"FIRST" : x \in {k} \ DOMAIN m_conn_hash}
         /\ k \in DOMAIN m_conn_hash =>
              /\ Lookup(p, k).conn_flags = m_conn_hash[k].conn_flags
              /\ Lookup(p, k).queue = m_conn_hash[k].queue
              /\ Lookup(p, k).stats = m_conn_hash[k].stats
         /\ k \notin DOMAIN m_conn_hash =>
              /\ Lookup(p, k).conn_flags = NewConn(p).conn_flags
              /\ Lookup(p, k).queue = [r \in Role |-> NewQueue]
              /\ Lookup(p, k).stats = [r \in Role |-> NewStats]
<1> DEFINE c == IF k \in DOMAIN m_conn_hash THEN m_conn_hash[k] ELSE NewConn(p)
           f == AddrFlags(p) \cup {IF k[1] = h THEN "FROM_CLIENT" ELSE "FROM_SERVER"}
                             \cup {"FIRST" : x \in {k} \ DOMAIN m_conn_hash}
<1>1. Lookup(p, k) = [c EXCEPT !.conn_pkt_flags = f]
  BY DEF Lookup
<1>2. NewConn(p) \in Conn
  <2>1. NewQueue \in Queue
    BY Modulus DEF NewQueue, Queue, SeqNumber
  <2>2. NewStats \in Stats
    BY Modulus DEF NewStats, Stats, SeqNumber
  <2> QED
    BY <2>1, <2>2 DEF NewConn, Conn
<1>3. c \in Conn
  BY <1>2 DEF TypeOK
<1>4. f \in SUBSET PktFlags
  BY DEF AddrFlags, PktFlags
<1> HIDE DEF f
<1>5. Lookup(p, k) \in Conn /\ Lookup(p, k).conn_pkt_flags = f
  BY <1>1, <1>3, <1>4 DEF Conn
<1>6. /\ Lookup(p, k).conn_flags = c.conn_flags
      /\ Lookup(p, k).queue = c.queue
      /\ Lookup(p, k).stats = c.stats
  BY <1>1, <1>3 DEF Conn
<1>7. NewConn(p).queue = [r \in Role |-> NewQueue] /\ NewConn(p).stats = [r \in Role |-> NewStats]
  BY DEF NewConn
<1> QED
  BY <1>5, <1>6, <1>7 DEF f

LEMMA FunctionIsSeq ==
  ASSUME NEW S, NEW n \in Nat, NEW f \in [1..n -> S]
  PROVE  f \in Seq(S)
OBVIOUS

LEMMA StartedType ==
  ASSUME NEW h \in Host, NEW p, IsPacket(h, p), NEW q \in Queue
  PROVE  Started(q, p) \in Queue
<1>1. p.seq \in SeqNumber
  BY DEF IsPacket
<1>2. p.seq \in Int /\ p.seq + 1 \in Int
  BY <1>1 DEF SeqNumber
<1>3. (p.seq + 1) % SeqMod \in SeqNumber
  BY <1>2, Modulus, Residue DEF SeqNumber
<1> QED
  BY <1>1, <1>3 DEF Started, Queue

LEMMA DiffType ==
  ASSUME NEW a \in SeqNumber, NEW b \in SeqNumber
  PROVE  tcp_seq_diff(a, b) \in Int
<1>1. a - b \in Int
  BY DEF SeqNumber
<1>2. (a - b) % SeqMod \in Int
  BY <1>1, Modulus, Residue
<1> QED
  BY <1>2, Modulus DEF tcp_seq_diff

LEMMA AppendedType ==
  ASSUME NEW h \in Host, NEW p, IsPacket(h, p), NEW q \in Queue, NEW diff \in Int
  PROVE  /\ Appended(q, p, diff) \in Queue
         /\ p.len + diff <= 0 => Appended(q, p, diff) = q
         /\ p.len + diff > 0 =>
              /\ Appended(q, p, diff).seq_ok = q.seq_ok
              /\ Appended(q, p, diff).seq = (q.seq + (p.len + diff)) % SeqMod
              /\ Appended(q, p, diff).buf =
                   IF "BUFFER" \in track_flags
                   THEN q.buf \o [i \in 1..(p.len + diff) |-> Payload(p, i - 1 - diff)] ELSE q.buf
<1>1. p.len \in Nat /\ p.lo \in Nat
  BY DEF IsPacket
<1> DEFINE len == p.len + diff
           new == [i \in 1..len |-> Payload(p, i - 1 - diff)]
<1>2. len \in Int
  BY <1>1
<1>3. CASE len <= 0
  <2>1. Appended(q, p, diff) = q
    BY <1>3 DEF Appended
  <2>2. ~(len > 0)
    BY <1>2, <1>3
  <2> QED
    BY <2>1, <2>2
<1>4. CASE len > 0
  <2>1. ASSUME NEW i \in 1..len
        PROVE  Payload(p, i - 1 - diff) \in Nat
    BY <1>1 DEF Payload
  <2>2. new \in [1..len -> Nat]
    BY <2>1
  <2>3. new \in Seq(Nat)
    <3>1. len \in Nat
      BY <1>2, <1>4
    <3> HIDE DEF len, new
    <3> QED
      BY <2>2, <3>1, FunctionIsSeq
  <2>4. q.seq \in Int
    BY DEF Queue, SeqNumber
  <2>5. (q.seq + len) % SeqMod \in SeqNumber
    <3>1. q.seq + len \in Int
      BY <1>2, <2>4
    <3> QED
      BY <3>1, Modulus, Residue DEF SeqNumber
  <2> DEFINE B == IF "BUFFER" \in track_flags THEN q.buf \o new ELSE q.buf
             N == (q.seq + len) % SeqMod
  <2>6. B \in Seq(Nat)
    BY <2>3 DEF Queue
  <2>7. Appended(q, p, diff) = [q EXCEPT !.seq = N, !.buf = B]
    BY <1>2, <1>4 DEF Appended
  <2> HIDE DEF B, N
  <2>8. /\ Appended(q, p, diff) \in Queue
        /\ Appended(q, p, diff).seq_ok = q.seq_ok
        /\ Appended(q, p, diff).seq = N
        /\ Appended(q, p, diff).buf = B
    BY <2>5, <2>6, <2>7 DEF Queue, N
  <2> QED
    BY <1>2, <1>4, <2>8 DEF B, N
<1> QED
  BY <1>2, <1>3, <1>4

LEMMA NextQueueType ==
  ASSUME NEW h \in Host, NEW p, IsPacket(h, p), NEW q \in Queue
  PROVE  NextQueue(q, p) \in Queue
<1> DEFINE s == Started(q, p)
           diff == tcp_seq_diff(p.seq, s.seq)
<1>1. s \in Queue
  BY StartedType
<1>2. diff \in Int
  <2>1. p.seq \in SeqNumber /\ s.seq \in SeqNumber
    BY <1>1 DEF IsPacket, Queue
  <2> QED
    BY <2>1, DiffType
<1> HIDE DEF s, diff
<1>3. Appended(s, p, diff) \in Queue
  BY <1>1, <1>2, AppendedType
<1> QED
  BY <1>1, <1>3 DEF NextQueue, s, diff

LEMMA StatsAfterType ==
  ASSUME NEW h \in Host, NEW p, IsPacket(h, p), NEW st \in Stats
  PROVE  StatsAfter(st, p) \in Stats
<1>1. p.seq \in Int /\ p.len \in Nat
  BY DEF IsPacket, SeqNumber
<1>2. (p.seq + (IF p.syn THEN 1 ELSE p.len)) % SeqMod \in SeqNumber
  <2>1. p.seq + (IF p.syn THEN 1 ELSE p.len) \in Int
    BY <1>1
  <2> QED
    BY <2>1, Modulus, Residue DEF SeqNumber
<1> QED
  BY <1>2 DEF StatsAfter, Stats

(* Each field of the connection that a packet leaves.                      *)
LEMMA TrackedIs ==
  ASSUME TypeOK, NEW h \in Host, NEW p, IsPacket(h, p), NEW k \in Keys, NEW r \in Role
  PROVE  LET c == Lookup(p, k)
             t == Tracked(p, k, r)
         IN  /\ t \in Conn
             /\ t.conn_flags = c.conn_flags
             /\ t.queue = [c.queue EXCEPT ![r] = NextQueue(c.queue[r], p)]
             /\ t.stats = [c.stats EXCEPT ![r] = StatsAfter(c.stats[r], p)]
             /\ \E more \in SUBSET {"MISSED_SYN", "FUTURE_SEQ"} :
                  t.conn_pkt_flags = (c.conn_pkt_flags \cup RoleFlags(c, r)) \cup more
<1> DEFINE c == Lookup(p, k)
           f == c.conn_pkt_flags \cup RoleFlags(c, r)
           st == StatsAfter(c.stats[r], p)
           e == IF p.fin THEN "FIN" ELSE c.conn_state
           u == TrackState(c, r, p)
           t == Tracked(p, k, r)
<1>1. p.src = h
  BY DEF IsPacket
<1>2. c \in Conn
  BY <1>1, LookupType
<1> HIDE DEF c
<1>3. c.queue \in [Role -> Queue] /\ c.stats \in [Role -> Stats]
      /\ c.conn_pkt_flags \in SUBSET PktFlags /\ c.conn_state \in {"SYN", "FIN"}
  BY <1>2 DEF Conn
<1>4. st \in Stats
  BY <1>3, StatsAfterType
<1>5. f \in SUBSET PktFlags
  BY <1>3 DEF RoleFlags, PktFlags
<1>6. e \in {"SYN", "FIN"}
  BY <1>3
<1>7. u = [c EXCEPT !.conn_pkt_flags = f, !.stats = [c.stats EXCEPT ![r] = st], !.conn_state = e]
  BY <1>2 DEF TrackState, Conn
<1> HIDE DEF st, f, e, u
<1>8. /\ u \in Conn
      /\ u.queue = c.queue
      /\ u.conn_flags = c.conn_flags
      /\ u.conn_pkt_flags = f
      /\ u.stats = [c.stats EXCEPT ![r] = st]
  BY <1>2, <1>3, <1>4, <1>5, <1>6, <1>7 DEF Conn
<1> DEFINE s == Started(u.queue[r], p)
           diff == tcp_seq_diff(p.seq, s.seq)
           q == IF diff > 1 THEN s ELSE Appended(s, p, diff)
           more == {"MISSED_SYN" : x \in {x \in {p} : ~u.queue[r].seq_ok /\ ~p.syn}}
                     \cup {"FUTURE_SEQ" : x \in {x \in {p} : diff > 1}}
           g == u.conn_pkt_flags \cup more
<1>9. q = NextQueue(c.queue[r], p)
  BY <1>8 DEF NextQueue
<1>10. q \in Queue
  BY <1>3, <1>9, NextQueueType
<1>11. t = [u EXCEPT !.conn_pkt_flags = g, !.queue = [u.queue EXCEPT ![r] = q]]
  <2>1. t = [u EXCEPT !.conn_pkt_flags =
                  (@ \cup {"MISSED_SYN" : x \in {x \in {p} : ~u.queue[r].seq_ok /\ ~p.syn}})
                     \cup {"FUTURE_SEQ" : x \in {x \in {p} : diff > 1}},
                      !.queue[r] = q]
    BY DEF Tracked, TrackStream, u, c
  <2>2. (u.conn_pkt_flags \cup {"MISSED_SYN" : x \in {x \in {p} : ~u.queue[r].seq_ok /\ ~p.syn}})
                     \cup {"FUTURE_SEQ" : x \in {x \in {p} : diff > 1}} = g
    OBVIOUS
  <2> HIDE DEF diff, q, g
  <2> QED
    BY <2>1, <2>2
<1>12. more \in SUBSET {"MISSED_SYN", "FUTURE_SEQ"}
  OBVIOUS
<1>13. g \in SUBSET PktFlags
  BY <1>5, <1>8, <1>12 DEF PktFlags
<1> HIDE DEF q, g, more
<1>13a. [u.queue EXCEPT ![r] = q] \in [Role -> Queue]
  BY <1>8, <1>3, <1>10
<1>14. /\ t \in Conn
       /\ t.conn_flags = u.conn_flags
       /\ t.queue = [u.queue EXCEPT ![r] = q]
       /\ t.stats = u.stats
       /\ t.conn_pkt_flags = g
  <2>1. PICK w \in [Role -> Queue] : w = [u.queue EXCEPT ![r] = q]
    BY <1>13a
  <2>2. t = [u EXCEPT !.conn_pkt_flags = g, !.queue = w]
    BY <1>11, <2>1
  <2> HIDE DEF t
  <2> QED
    BY <1>8, <1>13, <2>1, <2>2 DEF Conn
<1>15. /\ t \in Conn
       /\ t.conn_flags = c.conn_flags
       /\ t.queue = [c.queue EXCEPT ![r] = NextQueue(c.queue[r], p)]
       /\ t.stats = [c.stats EXCEPT ![r] = StatsAfter(c.stats[r], p)]
  BY <1>8, <1>9, <1>14 DEF st
<1>16. t.conn_pkt_flags = (c.conn_pkt_flags \cup RoleFlags(c, r)) \cup more
  BY <1>8, <1>14 DEF f, g
<1> HIDE DEF t
<1> QED
  BY <1>12, <1>15, <1>16 DEF t, c

LEMMA BytesAppended ==
  ASSUME NEW s \in Seq(Nat), NEW t \in Seq(Nat), NEW n \in Nat, InPlace(s, n),
         \A j \in 1..Len(t) : t[j] # 0 => t[j] = n + j - 1
  PROVE  InPlace(s \o t, n + Len(t))
<1>1. /\ Len(s \o t) = Len(s) + Len(t) /\ Len(s) \in Nat /\ Len(t) \in Nat
      /\ DOMAIN (s \o t) = 1..(Len(s) + Len(t))
      /\ \A i \in 1..Len(s) : (s \o t)[i] = s[i]
      /\ \A j \in 1..Len(t) : (s \o t)[Len(s) + j] = t[j]
      /\ DOMAIN s = 1..Len(s)
  OBVIOUS
<1> SUFFICES ASSUME NEW i \in 1..(Len(s) + Len(t)), (s \o t)[i] # 0
             PROVE  (s \o t)[i] = (n + Len(t)) - (Len(s) + Len(t)) + i - 1
  BY <1>1 DEF InPlace
<1>2. CASE i <= Len(s)
  <2>1. i \in 1..Len(s) /\ (s \o t)[i] = s[i]
    BY <1>1, <1>2
  <2>2. s[i] = n - Len(s) + i - 1
    BY <1>1, <2>1 DEF InPlace
  <2> QED
    BY <1>1, <2>1, <2>2
<1>3. CASE i > Len(s)
  <2>1. PICK j \in 1..Len(t) : j = i - Len(s)
    BY <1>1, <1>3
  <2>2. (s \o t)[i] = t[j] /\ t[j] = n + j - 1
    <3>1. i = Len(s) + j
      BY <1>1, <2>1
    <3> QED
      BY <1>1, <3>1
  <2> QED
    BY <1>1, <2>1, <2>2
<1> QED
  BY <1>1, <1>2, <1>3

-----------------------------------------------------------------------------
(* What a packet does to a queue that is at place n: its new bytes come    *)
(* behind those in the buffer, unless a byte before it is missing.         *)
LEMMA AppendFollows ==
  ASSUME NEW h \in Host, NEW p, IsPacket(h, p), NEW q \in Queue, NEW n \in Place(h),
         QueueAt(h, q, n), "BUFFER" \notin track_flags => q.buf = <<>>
  PROVE  LET diff == tcp_seq_diff(p.seq, q.seq)
             next == IF diff > 1 THEN q ELSE Appended(q, p, diff)
         IN  \E m \in Place(h) :
               /\ QueueAt(h, next, m)
               /\ n <= m
               /\ p.lo <= n + 1 => p.lo + p.len <= m
<1> DEFINE diff == tcp_seq_diff(p.seq, q.seq)
           next == IF diff > 1 THEN q ELSE Appended(q, p, diff)
           Reaches(m) == QueueAt(h, next, m) /\ n <= m /\ (p.lo <= n + 1 => p.lo + p.len <= m)
<1> SUFFICES \E m \in Place(h) : Reaches(m)
  OBVIOUS
<1>1. /\ p.lo \in Nat /\ p.len \in Nat /\ p.seq = Number(h, p.lo)
      /\ p.lo + p.len <= NBytes[h] + 2
  BY DEF IsPacket
<1>2. /\ n \in Nat /\ 1 <= n /\ n <= NBytes[h] + 2 /\ NBytes[h] \in Nat
      /\ q.seq_ok /\ q.seq = Number(h, n)
  BY Modulus DEF QueueAt, Place
<1>3. p.lo \in Place(h)
  BY <1>1, <1>2 DEF Place
<1>4. diff = p.lo - n
  BY <1>1, <1>2, <1>3, Distance
<1>5. diff \in Int
  BY <1>1, <1>2, <1>4
<1> HIDE DEF diff
<1>6. CASE diff > 1
  <2>1. next = q /\ ~(p.lo <= n + 1)
    BY <1>1, <1>2, <1>4, <1>6
  <2> QED
    BY <1>2, <2>1
<1>7. CASE ~(diff > 1) /\ p.len + diff <= 0
  <2>1. next = q
    BY <1>5, <1>7, AppendedType
  <2>2. p.lo + p.len <= n
    BY <1>1, <1>2, <1>4, <1>7
  <2> QED
    BY <1>2, <2>1, <2>2
<1>8. CASE ~(diff > 1) /\ p.len + diff > 0
  <2> DEFINE len == p.len + diff
             new == [i \in 1..len |-> Payload(p, i - 1 - diff)]
             m == p.lo + p.len
  <2>1. len \in Nat /\ m \in Nat /\ m = n + len /\ n <= m
    <3>1. m = n + len /\ m \in Nat
      BY <1>1, <1>2, <1>4
    <3>2. len \in Nat
      BY <1>1, <1>5, <1>8
    <3> HIDE DEF len, m
    <3> QED
      BY <1>2, <3>1, <3>2
  <2>2. /\ next.seq_ok
        /\ next.seq = (q.seq + len) % SeqMod
        /\ next.buf = IF "BUFFER" \in track_flags THEN q.buf \o new ELSE q.buf
    <3>1. next = Appended(q, p, diff)
      BY <1>8
    <3> HIDE DEF next
    <3> QED
      BY <1>2, <1>5, <1>8, <3>1, AppendedType
  <2>3. next.seq = Number(h, m)
    <3>1. PICK l \in Int : l = len
      BY <2>1
    <3>2. (Number(h, n) + l) % SeqMod = Number(h, n + l)
      BY <1>2, NumberOn
    <3> QED
      BY <1>2, <2>1, <2>2, <3>1, <3>2
  <2>4. InPlace(next.buf, m)
    <3>1. CASE "BUFFER" \notin track_flags
      BY <2>2, <3>1 DEF InPlace
    <3>2. CASE "BUFFER" \in track_flags
      <4>1. next.buf = q.buf \o new
        BY <2>2, <3>2
      <4>2. ASSUME NEW j \in 1..len
            PROVE  Payload(p, j - 1 - diff) \in {0, n + j - 1}
        BY <1>1, <1>2, <1>4 DEF Payload
      <4>3. new \in Seq(Nat) /\ Len(new) = len /\ \A j \in 1..len : new[j] \in {0, n + j - 1}
        <5>1. new \in [1..len -> Nat]
          BY <1>2, <4>2
        <5>2. new \in Seq(Nat)
          BY <2>1, <5>1, FunctionIsSeq
        <5> QED
          BY <2>1, <4>2, <5>2
      <4>4. q.buf \in Seq(Nat) /\ InPlace(q.buf, n)
        BY DEF Queue, QueueAt
      <4> HIDE DEF new
      <4>5. InPlace(q.buf \o new, n + Len(new))
        BY <1>2, <4>3, <4>4, BytesAppended
      <4> QED
        BY <2>1, <4>1, <4>3, <4>5
    <3> QED
      BY <3>1, <3>2
  <2>5. QueueAt(h, next, m) /\ m \in Place(h)
    BY <1>1, <1>2, <2>1, <2>2, <2>3, <2>4 DEF QueueAt, Place
  <2>6. p.lo + p.len <= m
    BY <2>1
  <2> HIDE DEF next, m
  <2> QED
    BY <2>1, <2>5, <2>6
<1> HIDE DEF next, Reaches
<1> QED
  BY <1>1, <1>5, <1>6, <1>7, <1>8

(* A packet takes a queue and the number expected next along the stream.   *)
LEMMA QueueFollows ==
  ASSUME NEW h \in Host, NEW p, IsPacket(h, p), NEW q \in Queue, NEW st \in Stats,
         "BUFFER" \notin track_flags => q.buf = <<>>,
         Unseen(q, st) \/ Follows(h, q, st)
  PROVE  Follows(h, NextQueue(q, p), StatsAfter(st, p))
<1> DEFINE s == Started(q, p)
           past == p.lo + (IF p.syn THEN 1 ELSE p.len)
<1>1. /\ p.lo \in Nat /\ p.len \in Nat /\ p.seq = Number(h, p.lo) /\ p.syn \in BOOLEAN
      /\ p.lo + p.len <= NBytes[h] + 2 /\ NBytes[h] \in Nat
      /\ p.syn => p.lo = 0 /\ p.len = 0
      /\ ~p.syn => p.lo >= 1
  BY Modulus DEF IsPacket
<1>2. past \in Place(h) /\ p.lo \in Place(h) /\ 1 <= past
  BY <1>1 DEF Place
<1>3. (p.seq + (IF p.syn THEN 1 ELSE p.len)) % SeqMod = Number(h, past)
  <2>1. PICK k \in Int : k = IF p.syn THEN 1 ELSE p.len
    BY <1>1
  <2>2. (Number(h, p.lo) + k) % SeqMod = Number(h, p.lo + k)
    BY <1>1, NumberOn
  <2> QED
    BY <1>1, <2>1, <2>2
<1> HIDE DEF past
<1>4. s \in Queue
  BY StartedType
(* From a queue at place n the packet leads to a place m behind it.        *)
<1>5. ASSUME NEW n \in Place(h), QueueAt(h, s, n)
      PROVE  \E m \in Place(h) :
               QueueAt(h, NextQueue(q, p), m) /\ n <= m /\ (p.lo <= n + 1 => p.lo + p.len <= m)
  <2>1. "BUFFER" \notin track_flags => s.buf = <<>>
    BY DEF Started, Queue
  <2> HIDE DEF s
  <2>2. PICK m \in Place(h) :
          /\ QueueAt(h, IF tcp_seq_diff(p.seq, s.seq) > 1 THEN s
                        ELSE Appended(s, p, tcp_seq_diff(p.seq, s.seq)), m)
          /\ n <= m
          /\ p.lo <= n + 1 => p.lo + p.len <= m
    BY <1>4, <1>5, <2>1, AppendFollows
  <2> QED
    BY <2>2 DEF NextQueue, s
<1>6. CASE Unseen(q, st)
  <2> DEFINE n == IF p.syn THEN 1 ELSE p.lo
  <2>1. n \in Place(h) /\ n \in Nat /\ 1 <= n /\ p.lo <= n /\ n <= NBytes[h] + 2
    BY <1>1 DEF Place
  <2>2. s.seq = Number(h, n)
    <3>1. CASE p.syn
      <4>1. s.seq = (p.seq + 1) % SeqMod
        BY <1>6, <3>1 DEF Unseen, Started, Queue
      <4>2. past = 1 /\ n = 1
        BY <1>1, <3>1 DEF past
      <4> QED
        BY <1>3, <3>1, <4>1, <4>2
    <3>2. CASE ~p.syn
      BY <1>1, <1>6, <3>2 DEF Unseen, Started, Queue
    <3> QED
      BY <3>1, <3>2
  <2>3. s.seq_ok /\ s.buf = <<>>
    BY <1>6 DEF Unseen, Started, Queue
  <2>4. QueueAt(h, s, n)
    BY <2>1, <2>2, <2>3 DEF QueueAt, InPlace
  <2> HIDE DEF n
  <2>5. PICK m \in Place(h) :
          QueueAt(h, NextQueue(q, p), m) /\ n <= m /\ (p.lo <= n + 1 => p.lo + p.len <= m)
    BY <1>5, <2>1, <2>4
  <2>6. m \in Nat
    BY <1>1 DEF Place
  <2>7. past <= m
    BY <1>1, <2>1, <2>5, <2>6 DEF past, n
  <2>8. StatsAt(h, StatsAfter(st, p), past)
    BY <1>2, <1>3, <1>6 DEF StatsAt, StatsAfter, Unseen
  <2> QED
    BY <1>2, <2>5, <2>7, <2>8 DEF Follows
<1>7. CASE Follows(h, q, st)
  <2>1. PICK n \in Place(h), l \in Place(h) : QueueAt(h, q, n) /\ StatsAt(h, st, l) /\ l <= n
    BY <1>7 DEF Follows
  <2>2. n \in Nat /\ l \in Nat /\ 1 <= l
    BY <1>1, <2>1 DEF Place, StatsAt
  <2>3. s = q
    BY <2>1 DEF Started, QueueAt
  <2>4. PICK m \in Place(h) :
          QueueAt(h, NextQueue(q, p), m) /\ n <= m /\ (p.lo <= n + 1 => p.lo + p.len <= m)
    BY <1>5, <2>1, <2>3
  <2>5. m \in Nat
    BY <1>1 DEF Place
  <2>6. CASE p.seq # st.tcp_seq_next
    <3>1. StatsAfter(st, p) = st
      BY <2>1, <2>6 DEF StatsAfter, StatsAt
    <3>2. l <= m
      BY <2>1, <2>2, <2>4, <2>5
    <3> QED
      BY <2>1, <2>4, <3>1, <3>2 DEF Follows
  <2>7. CASE p.seq = st.tcp_seq_next
    <3>1. p.lo = l
      BY <1>1, <1>2, <2>1, <2>7, SameNumber DEF StatsAt
    <3>2. ~p.syn
      BY <1>1, <2>2, <3>1
    <3>3. past <= m
      BY <1>1, <2>1, <2>2, <2>4, <2>5, <3>1, <3>2 DEF past
    <3>4. StatsAt(h, StatsAfter(st, p), past)
      BY <1>2, <1>3, <2>7 DEF StatsAt, StatsAfter
    <3> QED
      BY <1>2, <2>4, <3>3, <3>4 DEF Follows
  <2> QED
    BY <2>6, <2>7
<1> QED
  BY <1>6, <1>7

(* Without a buffer nothing is kept.                                       *)
LEMMA NothingKept ==
  ASSUME NEW h \in Host, NEW p, IsPacket(h, p), NEW q \in Queue,
         "BUFFER" \notin track_flags, q.buf = <<>>
  PROVE  NextQueue(q, p).buf = <<>>
<1> DEFINE s == Started(q, p)
           diff == tcp_seq_diff(p.seq, s.seq)
<1>1. s \in Queue /\ s.buf = <<>>
  BY StartedType DEF Started, Queue
<1> HIDE DEF s, diff
<1>2. Appended(s, p, diff).buf = <<>>
  BY <1>1 DEF Appended, Queue
<1> QED
  BY <1>1, <1>2 DEF NextQueue, s, diff

-----------------------------------------------------------------------------
(* Every step keeps the invariant.                                         *)
LEMMA InitIInv == Init => IInv
<1> SUFFICES ASSUME Init PROVE IInv
  OBVIOUS
<1>1. DOMAIN m_conn_hash = {}
  BY DEF Init, NoConns
<1>2. m_conn_hash = [k \in DOMAIN m_conn_hash |-> {}]
  BY DEF Init, NoConns
<1>3. m_local_addrs \subseteq Host /\ track_flags \subseteq {"LOCAL", "BUFFER"}
  BY TrackAssumption DEF Init
<1>4. m_conn_hash \in [DOMAIN m_conn_hash -> Conn]
  BY <1>1, <1>2
<1>5. TypeOK
  BY <1>1, <1>3, <1>4, Modulus, TrackAssumption DEF TypeOK, Init
<1> QED
  BY <1>1, <1>5 DEF IInv, OneConn, LocalFlags, FlagsOfEnds, Places

(* The parts of the invariant that say nothing of the hosts.               *)
LEMMA HostStepKeeps ==
  ASSUME IInv, NEW h \in Host, HostStep(h)
  PROVE  IInv'
<1>1. UNCHANGED <<m_local_addrs, track_flags, m_conn_hash, deletes>>
  BY DEF HostStep
<1>2. TypeOK'
  <2>1. CASE Open(h)
    BY <1>1, <2>1 DEF Open, TypeOK, IInv
  <2>2. CASE Write(h)
    <3>1. /\ written \in [Host -> Nat] /\ written' = [written EXCEPT ![h] = written[h] + 1]
          /\ written[h] < NBytes[h] /\ NBytes[h] \in Nat
          /\ \A x \in Host : written[x] <= NBytes[x]
          /\ UNCHANGED <<syn, fin>>
      BY <2>2, Modulus DEF Write, TypeOK, IInv
    <3>2. written' \in [Host -> Nat] /\ \A x \in Host : written'[x] <= NBytes[x]
      BY <3>1
    <3> QED
      BY <1>1, <3>1, <3>2 DEF TypeOK, IInv
  <2>3. CASE Finish(h)
    BY <1>1, <2>3 DEF Finish, TypeOK, IInv
  <2> QED
    BY <2>1, <2>2, <2>3 DEF HostStep
<1>3. (OneConn /\ LocalFlags /\ FlagsOfEnds /\ Places)'
  BY <1>1 DEF IInv, OneConn, LocalFlags, FlagsOfEnds, Places
<1> QED
  BY <1>2, <1>3 DEF IInv

LEMMA DeleteKeeps ==
  ASSUME IInv, NEW k \in DOMAIN m_conn_hash, Delete(k)
  PROVE  IInv'
<1>1. /\ UNCHANGED <<hostVars, m_local_addrs, track_flags>>
      /\ deletes' = deletes + 1 /\ deletes < MaxDelete
      /\ m_conn_hash' = [x \in DOMAIN m_conn_hash \ {k} |-> m_conn_hash[x]]
  BY DEF Delete
<1>2. /\ DOMAIN m_conn_hash' \subseteq DOMAIN m_conn_hash
      /\ \A x \in DOMAIN m_conn_hash' : m_conn_hash'[x] = m_conn_hash[x]
  BY <1>1
<1>3. TypeOK'
  <2>1. m_conn_hash' \in [DOMAIN m_conn_hash' -> Conn]
    BY <1>1, <1>2 DEF IInv, TypeOK
  <2>2. deletes' \in 0..MaxDelete
    BY <1>1, TrackAssumption DEF IInv, TypeOK
  <2>3. DOMAIN m_conn_hash' \subseteq Keys
    BY <1>2 DEF IInv, TypeOK
  <2> QED
    BY <1>1, <2>1, <2>2, <2>3 DEF IInv, TypeOK, hostVars
<1>4. OneConn'
  BY <1>2 DEF IInv, OneConn
<1>5. LocalFlags'
  BY <1>1, <1>2 DEF IInv, LocalFlags
<1>6. FlagsOfEnds'
  BY <1>1, <1>2 DEF IInv, FlagsOfEnds
<1>7. Places'
  BY <1>1, <1>2 DEF IInv, Places
<1> QED
  BY <1>3, <1>4, <1>5, <1>6, <1>7 DEF IInv

LEMMA CaptureKeeps ==
  ASSUME IInv, NEW h \in Host, NEW p \in Packets(h), Capture(p)
  PROVE  IInv'
<1>1. UNCHANGED <<hostVars, m_local_addrs, track_flags, deletes>>
  BY DEF Capture
<1>2. TypeOK /\ OneConn /\ LocalFlags /\ FlagsOfEnds /\ Places
  BY DEF IInv
<1>3. IsPacket(h, p) /\ p.src = h
  BY <1>2, PacketsAre DEF IsPacket
<1>4. PICK k \in Keys, r \in Role : Tracks(h, p, k, r)
  BY <1>2, <1>3, CaptureTracks
<1>5. /\ k \in {<<h, Other(h)>>, <<Other(h), h>>}
      /\ r = IF k[1] = h THEN "client" ELSE "server"
      /\ <<k[2], k[1]>> \notin DOMAIN m_conn_hash
      /\ k \in DOMAIN m_conn_hash \/ k[1] = h
      /\ m_conn_hash' = [x \in DOMAIN m_conn_hash \cup {k} |->
                           IF x = k THEN Tracked(p, k, r) ELSE m_conn_hash[x]]
  BY <1>4 DEF Tracks
<1>6. End(k, r) = h /\ k[2] = Other(k[1]) /\ k[1] \in Host /\ k[2] \in Host
  BY <1>5, EndOfKey
<1> DEFINE c == Lookup(p, k)
           t == Tracked(p, k, r)
<1>7. /\ t \in Conn
      /\ t.conn_flags = c.conn_flags
      /\ t.queue = [c.queue EXCEPT ![r] = NextQueue(c.queue[r], p)]
      /\ t.stats = [c.stats EXCEPT ![r] = StatsAfter(c.stats[r], p)]
      /\ \E more \in SUBSET {"MISSED_SYN", "FUTURE_SEQ"} :
           t.conn_pkt_flags = (c.conn_pkt_flags \cup RoleFlags(c, r)) \cup more
  BY <1>2, <1>3, TrackedIs
<1>8. /\ c \in Conn
      /\ c.conn_pkt_flags =
           AddrFlags(p) \cup {IF k[1] = h THEN "FROM_CLIENT" ELSE "FROM_SERVER"}
                        \cup {"FIRST" : x \in {k} \ DOMAIN m_conn_hash}
      /\ k \in DOMAIN m_conn_hash =>
           /\ c.conn_flags = m_conn_hash[k].conn_flags
           /\ c.queue = m_conn_hash[k].queue
           /\ c.stats = m_conn_hash[k].stats
      /\ k \notin DOMAIN m_conn_hash =>
           /\ c.conn_flags = NewConn(p).conn_flags
           /\ c.queue = [x \in Role |-> NewQueue]
           /\ c.stats = [x \in Role |-> NewStats]
  BY <1>2, <1>3, LookupType
<1> HIDE DEF c, t
<1>9. /\ DOMAIN m_conn_hash' = DOMAIN m_conn_hash \cup {k}
      /\ m_conn_hash'[k] = t
      /\ \A x \in DOMAIN m_conn_hash \ {k} : m_conn_hash'[x] = m_conn_hash[x]
  BY <1>5 DEF t
<1>10. TypeOK'
  <2>1. m_conn_hash' = [x \in DOMAIN m_conn_hash' |-> m_conn_hash'[x]]
    BY <1>5
  <2>2. \A x \in DOMAIN m_conn_hash' : m_conn_hash'[x] \in Conn
    BY <1>2, <1>7, <1>9 DEF TypeOK
  <2>3. m_conn_hash' \in [DOMAIN m_conn_hash' -> Conn]
    BY <2>1, <2>2
  <2>4. DOMAIN m_conn_hash' \subseteq Keys
    BY <1>2, <1>9 DEF TypeOK
  <2> QED
    BY <1>1, <1>2, <2>3, <2>4 DEF TypeOK, hostVars
<1>11. OneConn'
  <2> SUFFICES ASSUME NEW x \in Host,
                      <<x, Other(x)>> \in DOMAIN m_conn_hash',
                      <<Other(x), x>> \in DOMAIN m_conn_hash'
               PROVE  FALSE
    BY DEF OneConn
  <2>1. CASE <<x, Other(x)>> = k
    <3>1. <<Other(x), x>> = <<k[2], k[1]>> /\ <<Other(x), x>> # k
      BY <2>1, Ends
    <3> QED
      BY <1>5, <1>9, <3>1
  <2>2. CASE <<Other(x), x>> = k
    <3>1. <<x, Other(x)>> = <<k[2], k[1]>> /\ <<x, Other(x)>> # k
      BY <2>2, Ends
    <3> QED
      BY <1>5, <1>9, <3>1
  <2>3. CASE <<x, Other(x)>> # k /\ <<Other(x), x>> # k
    BY <1>2, <1>9, <2>3 DEF OneConn
  <2> QED
    BY <2>1, <2>2, <2>3
<1>12. /\ "LOCAL_CLIENT" \in c.conn_flags <=> k[1] \in m_local_addrs
       /\ "LOCAL_SERVER" \in c.conn_flags <=> k[2] \in m_local_addrs
  <2>1. CASE k \in DOMAIN m_conn_hash
    BY <1>2, <1>8, <2>1 DEF FlagsOfEnds
  <2>2. CASE k \notin DOMAIN m_conn_hash
    <3>1. k[1] = p.src /\ k[2] = Other(p.src)
      BY <1>3, <1>5, <1>6, <2>2
    <3>2. NewConn(p).conn_flags = {"LOCAL_SERVER" : x \in m_local_addrs \cap {k[2]}}
                                    \cup {"LOCAL_CLIENT" : x \in m_local_addrs \cap {k[1]}}
      BY <3>1 DEF NewConn
    <3> QED
      BY <1>8, <2>2, <3>2
  <2> QED
    BY <2>1, <2>2
<1>13. FlagsOfEnds'
  <2> SUFFICES ASSUME NEW x \in DOMAIN m_conn_hash'
               PROVE  /\ "LOCAL_CLIENT" \in m_conn_hash'[x].conn_flags <=> x[1] \in m_local_addrs
                      /\ "LOCAL_SERVER" \in m_conn_hash'[x].conn_flags <=> x[2] \in m_local_addrs
    BY <1>1 DEF FlagsOfEnds
  <2>1. CASE x = k
    BY <1>7, <1>9, <1>12, <2>1
  <2>2. CASE x # k
    BY <1>2, <1>9, <2>2 DEF FlagsOfEnds
  <2> QED
    BY <2>1, <2>2
<1>14. LocalFlags'
  <2> DEFINE Told(x, f) ==
        LET src == IF "FROM_CLIENT" \in f THEN x[1] ELSE x[2]
        IN  /\ "LOCAL_SRC" \in f <=> src \in m_local_addrs
            /\ "LOCAL_DST" \in f <=> Other(src) \in m_local_addrs
  <2>1. Told(k, t.conn_pkt_flags)
    <3>1. "FROM_CLIENT" \in t.conn_pkt_flags <=> k[1] = h
      BY <1>7, <1>8 DEF AddrFlags, RoleFlags
    <3>2. h = IF k[1] = h THEN k[1] ELSE k[2]
      BY <1>5
    <3>3. "LOCAL_SRC" \in RoleFlags(c, r) => h \in m_local_addrs
      BY <1>5, <1>12, <3>2 DEF RoleFlags
    <3>4. "LOCAL_DST" \in RoleFlags(c, r) => Other(h) \in m_local_addrs
      BY <1>5, <1>6, <1>12, Ends DEF RoleFlags
    <3>5. /\ "LOCAL_SRC" \in AddrFlags(p) <=> h \in m_local_addrs
          /\ "LOCAL_DST" \in AddrFlags(p) <=> Other(h) \in m_local_addrs
      BY <1>3 DEF AddrFlags
    <3>6. /\ "LOCAL_SRC" \in t.conn_pkt_flags <=>
               "LOCAL_SRC" \in AddrFlags(p) \cup RoleFlags(c, r)
          /\ "LOCAL_DST" \in t.conn_pkt_flags <=>
               "LOCAL_DST" \in AddrFlags(p) \cup RoleFlags(c, r)
      BY <1>7, <1>8
    <3>7. /\ "LOCAL_SRC" \in t.conn_pkt_flags <=> h \in m_local_addrs
          /\ "LOCAL_DST" \in t.conn_pkt_flags <=> Other(h) \in m_local_addrs
      BY <3>3, <3>4, <3>5, <3>6
    <3> QED
      BY <3>1, <3>2, <3>7
  <2>2. \A x \in DOMAIN m_conn_hash \ {k} : Told(x, m_conn_hash[x].conn_pkt_flags)
    BY <1>2 DEF LocalFlags
  <2>3. \A x \in DOMAIN m_conn_hash' : Told(x, m_conn_hash'[x].conn_pkt_flags)
    <3> HIDE DEF Told
    <3> QED
      BY <1>9, <2>1, <2>2
  <2> QED
    BY <1>1, <2>3 DEF LocalFlags
<1>15. Places'
  <2> DEFINE Kept(x, d) ==
        \A e \in Role :
          /\ "BUFFER" \notin track_flags => d.queue[e].buf = <<>>
          /\ Unseen(d.queue[e], d.stats[e]) \/ Follows(End(x, e), d.queue[e], d.stats[e])
  <2>1. Kept(k, c)
    <3>1. CASE k \in DOMAIN m_conn_hash
      BY <1>2, <1>8, <3>1 DEF Places
    <3>2. CASE k \notin DOMAIN m_conn_hash
      BY <1>8, <3>2 DEF NewQueue, NewStats, Unseen
    <3> QED
      BY <3>1, <3>2
  <2>2. Kept(k, t)
    <3> SUFFICES ASSUME NEW e \in Role
                 PROVE  /\ "BUFFER" \notin track_flags => t.queue[e].buf = <<>>
                        /\ Unseen(t.queue[e], t.stats[e]) \/ Follows(End(k, e), t.queue[e], t.stats[e])
      OBVIOUS
    <3>0. c.queue \in [Role -> Queue] /\ c.stats \in [Role -> Stats]
      BY <1>8 DEF Conn
    <3>1. CASE e = r
      <4>1. t.queue[e] = NextQueue(c.queue[r], p) /\ t.stats[e] = StatsAfter(c.stats[r], p)
        BY <1>7, <3>0, <3>1
      <4>2. "BUFFER" \notin track_flags => NextQueue(c.queue[r], p).buf = <<>>
        BY <1>3, <2>1, <3>0, NothingKept
      <4>3. Follows(h, NextQueue(c.queue[r], p), StatsAfter(c.stats[r], p))
        BY <1>3, <1>6, <2>1, <3>0, QueueFollows
      <4> QED
        BY <1>6, <3>1, <4>1, <4>2, <4>3
    <3>2. CASE e # r
      <4>1. t.queue[e] = c.queue[e] /\ t.stats[e] = c.stats[e]
        BY <1>7, <3>0, <3>2
      <4> QED
        BY <2>1, <4>1
    <3> QED
      BY <3>1, <3>2
  <2>3. \A x \in DOMAIN m_conn_hash \ {k} : Kept(x, m_conn_hash[x])
    BY <1>2 DEF Places
  <2>4. \A x \in DOMAIN m_conn_hash' : Kept(x, m_conn_hash'[x])
    <3> HIDE DEF Kept
    <3> QED
      BY <1>9, <2>2, <2>3
  <2> QED
    BY <1>1, <2>4 DEF Places
<1> QED
  BY <1>10, <1>11, <1>13, <1>14, <1>15 DEF IInv

LEMMA NextKeeps == IInv /\ [Next]_vars => IInv'
<1> SUFFICES ASSUME IInv, [Next]_vars PROVE IInv'
  OBVIOUS
<1>1. ASSUME NEW h \in Host, HostStep(h) PROVE IInv'
  BY <1>1, HostStepKeeps
<1>2. ASSUME NEW h \in Host, NEW p \in Packets(h), Capture(p) PROVE IInv'
  BY <1>2, CaptureKeeps
<1>3. ASSUME NEW k \in DOMAIN m_conn_hash, Delete(k) PROVE IInv'
  BY <1>3, DeleteKeeps
<1>4. CASE UNCHANGED vars
  BY <1>4 DEF vars, hostVars, IInv, TypeOK, OneConn, LocalFlags, FlagsOfEnds, Places
<1> QED
  BY <1>1, <1>2, <1>3, <1>4 DEF Next

LEMMA InvariantHolds == Spec => []IInv
BY InitIInv, NextKeeps, PTL DEF Spec

(* Whatever the wire does with the packets of two hosts, a connection has  *)
(* one record, and the flags of its packets tell which end is local.       *)
THEOREM OneRecordKept == Spec => []OneRecord
<1>1. IInv => OneRecord
  BY DEF IInv, OneRecord
<1> QED
  BY <1>1, InvariantHolds, PTL

(* Places order bytes and numbers as StreamsKept asks.                     *)
LEMMA StreamsOrdered == IInv => StreamsKept
<1> SUFFICES ASSUME IInv PROVE StreamsKept
  OBVIOUS
<1> SUFFICES ASSUME NEW k \in DOMAIN m_conn_hash, NEW r \in Role
             PROVE  LET q == m_conn_hash[k].queue[r]
                        st == m_conn_hash[k].stats[r]
                    IN  /\ \A i \in DOMAIN q.buf : q.buf[i] # 0 =>
                             (ISN[End(k, r)] + q.buf[i]) % SeqMod = (q.seq - Len(q.buf) + i - 1) % SeqMod
                        /\ st.tcp_seq_next_ok =>
                             q.seq_ok /\ Ahead(q.seq, st.tcp_seq_next) >= 0
  BY DEF StreamsKept, BytesInPlace, StatsBehind
<1> DEFINE q == m_conn_hash[k].queue[r]
           st == m_conn_hash[k].stats[r]
           h == End(k, r)
<1>1. q \in Queue /\ h \in Host
  <2>1. m_conn_hash[k] \in Conn /\ k \in Keys
    BY DEF IInv, TypeOK
  <2>2. k[1] \in Host /\ k[2] \in Host
    BY <2>1, Ends DEF Keys
  <2> QED
    BY <2>1, <2>2 DEF Conn, End
<1>2. Unseen(q, st) \/ Follows(h, q, st)
  BY DEF IInv, Places
<1> HIDE DEF q, st, h
<1>3. CASE Unseen(q, st)
  BY <1>3 DEF Unseen, q, st
<1>4. CASE Follows(h, q, st)
  <2>1. PICK n \in Place(h), m \in Place(h) : QueueAt(h, q, n) /\ StatsAt(h, st, m) /\ m <= n
    BY <1>4 DEF Follows
  <2>2. n \in Nat /\ m \in Nat
    BY <1>1, Modulus DEF Place
  <2>3. Ahead(q.seq, st.tcp_seq_next) = n - m
    BY <1>1, <2>1, AheadBy DEF QueueAt, StatsAt
  <2>4. n - m >= 0
    BY <2>1, <2>2
  <2>5. ASSUME NEW i \in DOMAIN q.buf, q.buf[i] # 0
        PROVE  (ISN[h] + q.buf[i]) % SeqMod = (q.seq - Len(q.buf) + i - 1) % SeqMod
    <3>1. q.buf \in Seq(Nat) /\ i \in Nat /\ Len(q.buf) \in Nat
      BY <1>1 DEF Queue
    <3>2. q.buf[i] = n - Len(q.buf) + i - 1
      BY <2>1, <2>5 DEF QueueAt, InPlace
    <3>3. PICK d \in Int : d = i - 1 - Len(q.buf)
      BY <3>1
    <3>4. q.buf[i] = n + d
      BY <2>2, <3>1, <3>2, <3>3
    <3>5. (Number(h, n) + d) % SeqMod = Number(h, n + d)
      BY <1>1, <2>2, NumberOn
    <3>6. q.seq = Number(h, n) /\ q.seq \in Int
      BY <1>1, <2>1 DEF QueueAt, Queue, SeqNumber
    <3>7. q.seq - Len(q.buf) + i - 1 = q.seq + d
      BY <3>1, <3>3, <3>6
    <3>8. (q.seq - Len(q.buf) + i - 1) % SeqMod = (q.seq + d) % SeqMod
      BY <3>7
    <3> QED
      BY <3>4, <3>5, <3>6, <3>8 DEF Number
  <2>6. q.seq_ok
    BY <2>1 DEF QueueAt
  <2> QED
    BY <2>3, <2>4, <2>5, <2>6 DEF q, st, h
<1> QED
  BY <1>2, <1>3, <1>4

(* Whatever is lost, repeated or reordered, every byte in a buffer is at   *)
(* the place that its number gives it, and the number that marks packets   *)
(* as repeated does not run ahead of the stream; for every initial number, *)
(* also where the numbers wrap.                                            *)
THEOREM StreamsInPlace == Spec => []StreamsKept
BY InvariantHolds, StreamsOrdered, PTL
=============================================================================
