---------------------------- MODULE IpConnTrack ----------------------------
(***************************************************************************)
(* ipconntrack.c: tracking the TCP connection between two hosts from raw   *)
(* packets.  The tracker watches the wire, which loses, repeats and        *)
(* reorders packets: it may capture at any time any packet that a host may *)
(* have sent.  A host numbers the bytes of its stream from 1; a byte that  *)
(* is not of the stream (one read before the payload) is 0.  UDP, the      *)
(* packet and byte counters, times, acknowledgements and windows are left  *)
(* out: no decision of the tracker depends on them.                        *)
(***************************************************************************)
EXTENDS Integers, Sequences

CONSTANTS
  SeqMod,    (* sequence numbers are modulo SeqMod, 2^32 in the code       *)
  ISN,       (* the initial sequence number of each host                   *)
  NBytes,    (* bound: the bytes each host sends                           *)
  MaxDelete, (* bound: how often the user of the tracker deletes           *)
  Configs    (* pairs of the tracker's addresses and its caller's flags    *)

Host == {"A", "B"}

Other(h) == IF h = "A" THEN "B" ELSE "A"

Role == {"client", "server"}

ASSUME TrackAssumption ==
  /\ SeqMod \in Nat /\ SeqMod % 2 = 0
  /\ ISN \in [Host -> 0..(SeqMod - 1)]
  /\ NBytes \in [Host -> Nat]
  /\ \A h \in Host : NBytes[h] + 2 < SeqMod \div 2
  /\ MaxDelete \in Nat
  /\ Configs \subseteq (SUBSET Host) \X SUBSET {"LOCAL", "BUFFER"}

VARIABLES
  syn, written, fin,   (* what each host has sent so far                   *)
  m_local_addrs,       (* the tracker's own addresses                      *)
  track_flags,         (* the flags the caller passes                      *)
  m_conn_hash,         (* <<client, server>> to connection                 *)
  deletes

hostVars == <<syn, written, fin>>
vars == <<hostVars, m_local_addrs, track_flags, m_conn_hash, deletes>>

NoConns == [k \in {} |-> {}]

Init ==
  /\ syn = [h \in Host |-> FALSE]
  /\ written = [h \in Host |-> 0]
  /\ fin = [h \in Host |-> FALSE]
  /\ \E c \in Configs : m_local_addrs = c[1] /\ track_flags = c[2]
  /\ m_conn_hash = NoConns
  /\ deletes = 0

-----------------------------------------------------------------------------
(* The hosts.  A opens, B answers.                                         *)
Open(h) ==
  /\ ~syn[h]
  /\ h = "A" \/ syn["A"]
  /\ syn' = [syn EXCEPT ![h] = TRUE]
  /\ UNCHANGED <<written, fin>>

Write(h) ==
  /\ \A x \in Host : syn[x]
  /\ ~fin[h]
  /\ written[h] < NBytes[h]
  /\ written' = [written EXCEPT ![h] = @ + 1]
  /\ UNCHANGED <<syn, fin>>

Finish(h) ==
  /\ \A x \in Host : syn[x]
  /\ ~fin[h]
  /\ fin' = [fin EXCEPT ![h] = TRUE]
  /\ UNCHANGED <<syn, written>>

HostStep(h) ==
  /\ Open(h) \/ Write(h) \/ Finish(h)
  /\ UNCHANGED <<m_local_addrs, track_flags, m_conn_hash, deletes>>

(* The number that h gives to the place n of its stream.                   *)
Number(h, n) == (ISN[h] + n) % SeqMod

(* The packets h may have sent: its SYN, any run of bytes lo..lo+len-1 it  *)
(* wrote, FIN with the last one or alone, and plain acknowledgements,      *)
(* before and after FIN.  fin stands for FIN and for a reset.              *)
Packet(h, lo, len, s, f) ==
  [src |-> h, seq |-> Number(h, lo), lo |-> lo, len |-> len, syn |-> s, fin |-> f]

Segments(h) == {s \in (1..(written[h] + 1)) \X (0..written[h]) : s[1] + s[2] <= written[h] + 1}

Packets(h) ==
  {Packet(h, 0, 0, TRUE, FALSE) : x \in {x \in {h} : syn[x]}}
    \cup IF \E x \in Host : ~syn[x] THEN {}
         ELSE {Packet(h, s[1], s[2], FALSE, FALSE) : s \in Segments(h)}
                \cup IF ~fin[h] THEN {}
                     ELSE {Packet(h, written[h] + 2, 0, FALSE, FALSE)}
                            \cup {Packet(h, written[h] + 1 - n, n, FALSE, TRUE) : n \in 0..written[h]}

-----------------------------------------------------------------------------
(* tcp_seq_diff: the difference of two unsigned numbers, as an int.        *)
tcp_seq_diff(a, b) ==
  LET d == (a - b) % SeqMod
  IN  IF d >= SeqMod \div 2 THEN d - SeqMod ELSE d

(* The byte of a packet at an offset from its payload.                     *)
Payload(p, i) == IF i < 0 THEN 0 ELSE p.lo + i

NewQueue == [seq_ok |-> FALSE, seq_syn |-> 0, seq |-> 0, buf |-> <<>>]

NewStats == [tcp_seq_next_ok |-> FALSE, tcp_seq_next |-> 0]

(* The connection of a packet that matches none; its sender is the client. *)
NewConn(p) ==
  [conn_state     |-> "SYN",
   conn_flags     |-> {"LOCAL_SERVER" : h \in m_local_addrs \cap {Other(p.src)}}
                        \cup {"LOCAL_CLIENT" : h \in m_local_addrs \cap {p.src}},
   conn_pkt_flags |-> {},
   queue          |-> [r \in Role |-> NewQueue],
   stats          |-> [r \in Role |-> NewStats]]

(* Mutant: the reply of the server is not looked up.                       *)
ConnKeyClientOnly(p) == <<p.src, Other(p.src)>>

(* The key of a packet: from the server of a known connection, or else     *)
(* from a client.                                                          *)
ConnKey(p) ==
  IF <<Other(p.src), p.src>> \in DOMAIN m_conn_hash
  THEN <<Other(p.src), p.src>> ELSE <<p.src, Other(p.src)>>

(* The flags of the addresses of a packet.                                 *)
AddrFlags(p) ==
  {"LOCAL_SRC" : h \in m_local_addrs \cap {p.src}}
    \cup {"LOCAL_DST" : h \in m_local_addrs \cap {Other(p.src)}}

(* Mutant: the two ends are not told apart by the sender.                  *)
RoleFlagsSwapped(conn, r) ==
  {"LOCAL_SRC" : f \in conn.conn_flags \cap {"LOCAL_CLIENT"}}
    \cup {"LOCAL_DST" : f \in conn.conn_flags \cap {"LOCAL_SERVER"}}

(* The flags a packet gets from what the connection knows of its ends.     *)
RoleFlags(conn, r) ==
  LET mine  == IF r = "client" THEN "LOCAL_CLIENT" ELSE "LOCAL_SERVER"
      their == IF r = "client" THEN "LOCAL_SERVER" ELSE "LOCAL_CLIENT"
  IN  {"LOCAL_SRC" : f \in conn.conn_flags \cap {mine}}
        \cup {"LOCAL_DST" : f \in conn.conn_flags \cap {their}}

(* Mutant: the expected number follows the last packet seen.               *)
StatsAfterAny(st, p) ==
  [tcp_seq_next_ok |-> TRUE,
   tcp_seq_next    |-> (p.seq + (IF p.syn THEN 1 ELSE p.len)) % SeqMod]

(* The number expected next moves when the packet is the expected one.     *)
StatsAfter(st, p) ==
  IF st.tcp_seq_next_ok /\ p.seq # st.tcp_seq_next THEN st
  ELSE [tcp_seq_next_ok |-> TRUE,
        tcp_seq_next    |-> (p.seq + (IF p.syn THEN 1 ELSE p.len)) % SeqMod]

(* IpConnTrack_track_state.                                                *)
TrackState(conn, r, p) ==
  [conn EXCEPT !.conn_pkt_flags = @ \cup RoleFlags(conn, r),
               !.stats[r]       = StatsAfter(@, p),
               !.conn_state     = IF p.fin THEN "FIN" ELSE @]

(* The queue that has seen a packet: the first one sets the number.        *)
Started(q, p) ==
  IF q.seq_ok THEN q
  ELSE [q EXCEPT !.seq_ok = TRUE, !.seq_syn = p.seq,
                 !.seq = IF p.syn THEN (p.seq + 1) % SeqMod ELSE p.seq]

(* Mutant: a packet in the past is appended as a whole.                    *)
AppendedWhole(q, p, diff) ==
  IF p.len <= 0 THEN q
  ELSE [q EXCEPT !.seq = (@ + p.len) % SeqMod,
                 !.buf = IF "BUFFER" \in track_flags
                         THEN @ \o [i \in 1..p.len |-> Payload(p, i - 1)] ELSE @]

(* Mutant: a packet with one new byte is taken for a past one.             *)
AppendedOffByOne(q, p, diff) ==
  LET len == p.len + diff
  IN  IF len <= 1 THEN q
      ELSE [q EXCEPT !.seq = (@ + len) % SeqMod,
                     !.buf = IF "BUFFER" \in track_flags
                             THEN @ \o [i \in 1..len |-> Payload(p, i - 1 - diff)] ELSE @]

(* Mutant: the number is not reduced when it passes the end of its range.  *)
AppendedNoWrap(q, p, diff) ==
  LET len == p.len + diff
  IN  IF len <= 0 THEN q
      ELSE [q EXCEPT !.seq = @ + len,
                     !.buf = IF "BUFFER" \in track_flags
                             THEN @ \o [i \in 1..len |-> Payload(p, i - 1 - diff)] ELSE @]

(* The bytes of p that are not in the queue, diff bytes into the future.   *)
Appended(q, p, diff) ==
  LET len == p.len + diff
  IN  IF len <= 0 THEN q
      ELSE [q EXCEPT !.seq = (@ + len) % SeqMod,
                     !.buf = IF "BUFFER" \in track_flags
                             THEN @ \o [i \in 1..len |-> Payload(p, i - 1 - diff)] ELSE @]

(* IpConnTrack_track_stream.                                               *)
TrackStream(conn, r, p) ==
  LET q    == Started(conn.queue[r], p)
      diff == tcp_seq_diff(p.seq, q.seq)
  IN  [conn EXCEPT
         !.conn_pkt_flags =
            @ \cup {"MISSED_SYN" : x \in {x \in {p} : ~conn.queue[r].seq_ok /\ ~p.syn}}
              \cup {"FUTURE_SEQ" : x \in {x \in {p} : diff > 1}},
         !.queue[r] = IF diff > 1 THEN q ELSE Appended(q, p, diff)]

(* The connection of a packet, found or new, with the flags of the packet. *)
Lookup(p, k) ==
  [IF k \in DOMAIN m_conn_hash THEN m_conn_hash[k] ELSE NewConn(p) EXCEPT
     !.conn_pkt_flags = AddrFlags(p)
        \cup {IF k[1] = p.src THEN "FROM_CLIENT" ELSE "FROM_SERVER"}
        \cup {"FIRST" : x \in {k} \ DOMAIN m_conn_hash}]

(* IpConnTrack_track_pkt of a captured packet.                             *)
Capture(p) ==
  /\ "LOCAL" \in track_flags => AddrFlags(p) # {}
  /\ \E k \in {ConnKey(p)} :
       \E r \in {IF k[1] = p.src THEN "client" ELSE "server"} :
         \E conn \in {TrackState(Lookup(p, k), r, p)} :
           m_conn_hash' = [x \in DOMAIN m_conn_hash \cup {k} |->
                             IF x = k THEN TrackStream(conn, r, p) ELSE m_conn_hash[x]]
  /\ UNCHANGED <<hostVars, m_local_addrs, track_flags, deletes>>

(* IpConnTrack_conn_delete.                                                *)
Delete(k) ==
  /\ deletes < MaxDelete
  /\ deletes' = deletes + 1
  /\ m_conn_hash' = [x \in DOMAIN m_conn_hash \ {k} |-> m_conn_hash[x]]
  /\ UNCHANGED <<hostVars, m_local_addrs, track_flags>>

Next ==
  \/ \E h \in Host : HostStep(h)
  \/ \E h \in Host : \E p \in Packets(h) : Capture(p)
  \/ \E k \in DOMAIN m_conn_hash : Delete(k)

CaptureByte(h, i) == i <= written[h] /\ Capture(Packet(h, i, 1, FALSE, FALSE))

(* A host sends a byte again until it is acknowledged, and the tracker     *)
(* sees one of these packets in the end.                                   *)
Fairness ==
  \A h \in Host : \A i \in 1..NBytes[h] : WF_vars(CaptureByte(h, i))

Spec == Init /\ [][Next]_vars

FairSpec == Spec /\ Fairness

-----------------------------------------------------------------------------
Keys == {<<h, Other(h)>> : h \in Host}

PktFlags == {"LOCAL_SRC", "LOCAL_DST", "FROM_CLIENT", "FROM_SERVER", "FIRST", "MISSED_SYN", "FUTURE_SEQ"}

SeqNumber == 0..(SeqMod - 1)

Queue == [seq_ok : BOOLEAN, seq_syn : SeqNumber, seq : SeqNumber, buf : Seq(Nat)]
Stats == [tcp_seq_next_ok : BOOLEAN, tcp_seq_next : SeqNumber]

Conn ==
  [conn_state     : {"SYN", "FIN"},
   conn_flags     : SUBSET {"LOCAL_SERVER", "LOCAL_CLIENT"},
   conn_pkt_flags : SUBSET PktFlags,
   queue          : [Role -> Queue],
   stats          : [Role -> Stats]]

TypeOK ==
  /\ syn \in [Host -> BOOLEAN]
  /\ written \in [Host -> Nat]
  /\ \A h \in Host : written[h] <= NBytes[h]
  /\ fin \in [Host -> BOOLEAN]
  /\ m_local_addrs \subseteq Host
  /\ track_flags \subseteq {"LOCAL", "BUFFER"}
  /\ DOMAIN m_conn_hash \subseteq Keys
  /\ m_conn_hash \in [DOMAIN m_conn_hash -> Conn]
  /\ deletes \in 0..MaxDelete

(* The host at an end of a connection.                                     *)
End(k, r) == IF r = "client" THEN k[1] ELSE k[2]

(* The signed distance of two sequence numbers, as the least residue.      *)
Ahead(a, b) ==
  CHOOSE d \in (-(SeqMod \div 2))..(SeqMod \div 2 - 1) : (b + d) % SeqMod = a

(* Both directions of a connection share one record, whichever end was     *)
(* seen first and whatever was deleted in between.                         *)
OneConn == \A h \in Host : ~({<<h, Other(h)>>, <<Other(h), h>>} \subseteq DOMAIN m_conn_hash)

(* Every buffered byte of a stream is at the place its sequence number     *)
(* gives it: none is repeated, skipped or out of order, whatever the wire  *)
(* did with the packets.                                                   *)
BytesInPlace ==
  \A k \in DOMAIN m_conn_hash : \A r \in Role :
    LET q == m_conn_hash[k].queue[r]
    IN  \A i \in DOMAIN q.buf : q.buf[i] # 0 =>
          (ISN[End(k, r)] + q.buf[i]) % SeqMod = (q.seq - Len(q.buf) + i - 1) % SeqMod

(* The number that marks packets as repeated never runs ahead of the       *)
(* stream: a packet with new bytes is not marked as a repetition.          *)
StatsBehind ==
  \A k \in DOMAIN m_conn_hash : \A r \in Role :
    m_conn_hash[k].stats[r].tcp_seq_next_ok =>
      /\ m_conn_hash[k].queue[r].seq_ok
      /\ Ahead(m_conn_hash[k].queue[r].seq, m_conn_hash[k].stats[r].tcp_seq_next) >= 0

(* The LOCAL flags of the last packet are those of its own two addresses,  *)
(* although half of them come from the packet that opened the connection.  *)
LocalFlags ==
  \A k \in DOMAIN m_conn_hash :
    LET f   == m_conn_hash[k].conn_pkt_flags
        src == IF "FROM_CLIENT" \in f THEN k[1] ELSE k[2]
    IN  /\ "LOCAL_SRC" \in f <=> src \in m_local_addrs
        /\ "LOCAL_DST" \in f <=> Other(src) \in m_local_addrs

(* Whatever is captured, a connection has one record, with its sides told  *)
(* apart as they are configured.                                           *)
OneRecord == TypeOK /\ OneConn /\ LocalFlags

(* The stream has each byte at its place, and the numbers that mark        *)
(* repetitions do not pass those that take bytes.                          *)
StreamsKept == BytesInPlace /\ StatsBehind

(* Every byte a host writes is passed by the tracker in the end, when the  *)
(* tracker follows the connection and sees every byte at some time.        *)
Reassembled ==
  \A h \in Host : \A n \in 1..NBytes[h] :
    (written[h] = n /\ (m_local_addrs # {} \/ "LOCAL" \notin track_flags)) ~>
      \E k \in DOMAIN m_conn_hash : \E r \in Role :
        /\ End(k, r) = h
        /\ m_conn_hash[k].queue[r].seq_ok
        /\ Ahead(m_conn_hash[k].queue[r].seq, (ISN[h] + 1 + n) % SeqMod) >= 0

(* The buffer holds bytes of the stream only.                              *)
StreamBytes ==
  \A k \in DOMAIN m_conn_hash : \A r \in Role :
    \A i \in DOMAIN m_conn_hash[k].queue[r].buf : m_conn_hash[k].queue[r].buf[i] # 0
-----------------------------------------------------------------------------
(* A small instance; the numbers of A wrap inside its stream.              *)
MCISN == [h \in Host |-> IF h = "A" THEN 13 ELSE 0]

MCConfigs == {<<{}, {"BUFFER"}>>, <<{"A"}, {"LOCAL"}>>, <<{}, {"LOCAL"}>>}

MCNBytes == [h \in Host |-> IF h = "A" THEN 3 ELSE 0]
=============================================================================
